----------------------------- MODULE InitProofs -----------------------------
(***************************************************************************)
(* How process 1 ends the system, for every number of processes, as long   *)
(* as the shutdown script leaves none behind.                              *)
(***************************************************************************)
EXTENDS Init, TLAPS

(* The shutdown script's process exists from its fork on, is waited for,   *)
(* and, like init, flushes before it tells the kernel (init.c:126-154).    *)
ShutdownInOrder ==
  /\ at \notin {"script", "flush", "tell", "ended"} => shutdown = "none"
  /\ at \in {"flush", "tell"} => shutdown \in {"none", "ended"}
  /\ at = "ended" => shutdown \in {"none", "ended"}
  /\ shutdown = "tell" => at = "script" /\ ~dirty
  /\ at = "tell" => ~dirty

InitInv == ScriptRunsAlone /\ ShutdownInOrder /\ NothingUnwritten

(* Type correctness of init for all constants (init.c:53-157).             *)
THEOREM InitTypeCorrect == InitSafety => []InitTypeOK
<1>1. InitInit => InitTypeOK
  BY DEF InitInit, InitTypeOK, Signals, NoSignal
<1>2. InitTypeOK /\ [InitNext]_initVars => InitTypeOK'
  <2> SUFFICES ASSUME InitTypeOK, [InitNext]_initVars
               PROVE  InitTypeOK'
    OBVIOUS
  <2> USE DEF InitTypeOK, Signals, NoSignal, RestOnly, Goes
  <2>1. CASE WriteFile
    <3>1. dirty' \in BOOLEAN
      BY <2>1, Zenon DEF WriteFile
    <3>2. UNCHANGED <<at, startup, shutdown, running, pending, taken, done>>
      BY <2>1 DEF WriteFile
    <3> QED
      BY <3>1, <3>2
  <2>2. ASSUME NEW p \in Procs, Spawn(p) \/ ProcEnds(p) PROVE InitTypeOK'
    <3>1. running' \subseteq Procs
      BY <2>2 DEF Spawn, ProcEnds
    <3>2. UNCHANGED <<at, startup, shutdown, pending, taken, dirty, done>>
      BY <2>2 DEF Spawn, ProcEnds
    <3> QED
      BY <3>1, <3>2
  <2>3. ASSUME NEW s \in Signals, Request(s) PROVE InitTypeOK'
    BY <2>3 DEF Request
  <2>4. CASE Scripts \/ StartupEnds
    BY <2>4 DEF Scripts, StartupRuns, StartupEnds, ShutdownRuns,
                ShutdownEnds, ChildFlushes, ChildTells
  <2>5. CASE Block \/ StartFails \/ Start
    BY <2>5 DEF Block, StartFails, Start
  <2>6. CASE Wait
    BY <2>6 DEF Wait
  <2>7. CASE Terminate \/ Kill
    BY <2>7 DEF Terminate, Kill
  <2>8. CASE ForkShutdown \/ AwaitScript \/ Flush \/ Tell
    BY <2>8 DEF ForkShutdown, AwaitScript, Flush, Tell
  <2>9. CASE UNCHANGED initVars
    BY <2>9 DEF initVars
  <2> QED
    BY <2>1, <2>2, <2>3, <2>4, <2>5, <2>6, <2>7, <2>8, <2>9
       DEF InitNext, Rest, InitProcess
<1> QED
  BY <1>1, <1>2, PTL DEF InitSafety

LEMMA ShutdownAlways ==
  ASSUME Leftovers = {}
  PROVE  InitSafety => []InitInv
<1> USE DEF InitInv, ScriptRunsAlone, ShutdownInOrder, NothingUnwritten,
            Nobody
<1>1. InitInit => InitInv
  BY DEF InitInit
<1>2. InitTypeOK /\ InitInv /\ [InitNext]_initVars => InitInv'
  <2> SUFFICES ASSUME InitTypeOK, InitInv, [InitNext]_initVars
               PROVE  InitInv'
    OBVIOUS
  <2> USE DEF InitTypeOK, RestOnly, Goes, Up
  <2>1. CASE WriteFile
    BY <2>1 DEF WriteFile, Busy
  <2>2. ASSUME NEW p \in Procs, Spawn(p) \/ ProcEnds(p) PROVE InitInv'
    BY <2>2 DEF Spawn, ProcEnds
  <2>3. ASSUME NEW s \in Signals, Request(s) PROVE InitInv'
    BY <2>3 DEF Request
  <2>4. CASE Scripts \/ StartupEnds
    BY <2>4 DEF Scripts, StartupRuns, StartupEnds, ShutdownRuns,
                ShutdownEnds, ChildFlushes, ChildTells
  <2>5. CASE Up /\ (Block \/ StartFails \/ Start \/ Wait)
    BY <2>5 DEF Block, StartFails, Start, Wait
  <2>6. CASE Up /\ (Terminate \/ Kill)
    BY <2>6 DEF Terminate, Kill
  <2>7. CASE Up /\ (ForkShutdown \/ AwaitScript \/ Flush \/ Tell)
    BY <2>7 DEF ForkShutdown, AwaitScript, Flush, Tell
  <2>8. CASE UNCHANGED initVars
    BY <2>8 DEF initVars
  <2> QED
    BY <2>1, <2>2, <2>3, <2>4, <2>5, <2>6, <2>7, <2>8
       DEF InitNext, Rest, InitProcess
<1> QED
  BY <1>1, <1>2, InitTypeCorrect, PTL DEF InitSafety

(* Nobody from before runs next to the shutdown script, nor from then on   *)
(* until the kernel is told, however many processes survive SIGTERM        *)
(* (init.c:106-128).                                                       *)
THEOREM ShutdownScriptRunsAlone ==
  ASSUME Leftovers = {}
  PROVE  InitSafety => []ScriptRunsAlone
<1>1. InitInv => ScriptRunsAlone
  BY DEF InitInv
<1> QED
  BY <1>1, ShutdownAlways, PTL

(* Whoever tells the kernel, init or the child that could not run the      *)
(* shutdown script, all that was written is on the disk (init.c:126-154).  *)
THEOREM AllIsWritten ==
  ASSUME Leftovers = {}
  PROVE  InitSafety => []NothingUnwritten
<1>1. InitInv => NothingUnwritten
  BY DEF InitInv
<1> QED
  BY <1>1, ShutdownAlways, PTL
=============================================================================
