---------------------------- MODULE ContainProofs ----------------------------
(***************************************************************************)
(* What the sandbox's init knows of its children although SIGCHLD does not *)
(* queue, for every number of orphans and stops.                           *)
(***************************************************************************)
EXTENDS Contain, TLAPS

(* There is nothing to know before the script is forked (contain.c:53-109). *)
NothingBeforeFork ==
  at \in {"boot", "mount", "fork"} =>
    /\ exit_code = "EXIT_FAILURE" /\ chld = NoProc
    /\ \A p \in Procs : proc[p] = "none"

(* A SIGCHLD is in hand at "reap" and nowhere before (contain.c:118-138).  *)
InHand ==
  /\ at \in {"boot", "mount", "fork", "reaper", "wait"} => taken = NoProc
  /\ at = "reap" => taken \in Procs

(* ZombiesAccounted, from the fork of the script on.                       *)
AccountedFromFork ==
  at \in {"reaper", "wait", "reap"} =>
    \A p \in Procs : proc[p] = "zombie" => p \in {chld, taken} \cup lost

(* A SIGCHLD that names the script has one of two causes.                  *)
ScriptHasCause ==
  Script \in {chld, taken} => proc[Script] \in {"zombie", "gone"} \/ stops > 0

StopsCounted == \A p \in Procs : proc[p] = "stopped" => stops > 0

SignalsSent == usr \subseteq usrSent

ContainInv ==
  /\ ContainTypeOK
  /\ NothingBeforeFork /\ InHand /\ AccountedFromFork
  /\ ScriptHasCause /\ StopsCounted /\ SignalsSent
  /\ UnaskedRebootIsTheScripts

ProcStates == {"none", "running", "stopped", "zombie", "gone"}

(* The kernel ends every process of the namespace.                         *)
LEMMA AllGone ==
  ASSUME ContainInv, at' \in Over,
         proc' = [p \in Procs |-> IF proc[p] = "none" THEN "none" ELSE "gone"],
         UNCHANGED <<chld, usr, taken, errno, exit_code, status, lost, stops, usrSent>>
  PROVE  ContainInv'
<1> USE DEF Over
<1>1. Script \in Procs
  BY DEF Procs
<1>2. ContainTypeOK'
  BY DEF ContainInv, ContainTypeOK
<1>3. StopsCounted' /\ SignalsSent' /\ ScriptHasCause' /\ UnaskedRebootIsTheScripts'
  BY <1>1 DEF ContainInv, ContainTypeOK, StopsCounted, SignalsSent, ScriptHasCause,
              UnaskedRebootIsTheScripts
<1> QED
  BY <1>2, <1>3 DEF ContainInv, NothingBeforeFork, InHand, AccountedFromFork

(* Steps of the loop that leave the processes alone.                       *)
LEMMA InitMoves ==
  ContainInv /\ (Block \/ MountProc \/ BecomeReaper \/ TakeUsr \/ Outer) => ContainInv'
<1> SUFFICES ASSUME ContainInv, Block \/ MountProc \/ BecomeReaper \/ TakeUsr \/ Outer
             PROVE  ContainInv'
  OBVIOUS
<1> USE DEF Block, MountProc, BecomeReaper, TakeUsr, Outer, Goes, Over
<1>1. ContainTypeOK'
  BY DEF ContainInv, ContainTypeOK
<1>2. NothingBeforeFork' /\ InHand' /\ AccountedFromFork'
  BY DEF ContainInv, NothingBeforeFork, InHand, AccountedFromFork
<1>3. ScriptHasCause' /\ StopsCounted' /\ SignalsSent'
  BY DEF ContainInv, ScriptHasCause, StopsCounted, SignalsSent
<1>4. UnaskedRebootIsTheScripts'
  BY DEF ContainInv, ContainTypeOK, SignalsSent, UnaskedRebootIsTheScripts
<1> QED
  BY <1>1, <1>2, <1>3, <1>4 DEF ContainInv

LEMMA ForkMoves == ContainInv /\ ForkScript => ContainInv'
<1> SUFFICES ASSUME ContainInv, ForkScript PROVE ContainInv'
  OBVIOUS
<1> USE DEF ForkScript, Over
<1>1. Script \in Procs /\ NoProc \notin Procs
  BY ContainAssumption DEF ContainAssumption, Procs, Script, NoProc
<1>2. \A p \in Procs : proc'[p] = IF p = Script THEN "running" ELSE proc[p]
  BY DEF ContainInv, ContainTypeOK
<1>3. ContainTypeOK'
  BY DEF ContainInv, ContainTypeOK
<1>4. chld = NoProc /\ taken = NoProc /\ exit_code = "EXIT_FAILURE"
      /\ \A p \in Procs : proc[p] = "none"
  BY DEF ContainInv, NothingBeforeFork, InHand
<1>5. NothingBeforeFork' /\ InHand' /\ AccountedFromFork'
  BY <1>2, <1>4 DEF NothingBeforeFork, InHand, AccountedFromFork
<1>6. ScriptHasCause' /\ StopsCounted' /\ SignalsSent' /\ UnaskedRebootIsTheScripts'
  BY <1>1, <1>2, <1>4
     DEF ContainInv, ScriptHasCause, StopsCounted, SignalsSent, UnaskedRebootIsTheScripts
<1> QED
  BY <1>3, <1>5, <1>6 DEF ContainInv

LEMMA TakeMoves == ContainInv /\ TakeChld => ContainInv'
<1> SUFFICES ASSUME ContainInv, TakeChld PROVE ContainInv'
  OBVIOUS
<1> USE DEF TakeChld, Over
<1>1. ContainTypeOK'
  BY DEF ContainInv, ContainTypeOK
<1>2. NothingBeforeFork' /\ InHand' /\ AccountedFromFork'
  <2>1. chld \in Procs /\ taken = NoProc
    BY DEF ContainInv, ContainTypeOK, InHand
  <2>2. NoProc \notin Procs
    BY ContainAssumption DEF ContainAssumption, Procs, Script, NoProc
  <2> QED
    BY <2>1, <2>2 DEF ContainInv, NothingBeforeFork, InHand, AccountedFromFork
<1>3. ScriptHasCause' /\ StopsCounted' /\ SignalsSent' /\ UnaskedRebootIsTheScripts'
  BY DEF ContainInv, ScriptHasCause, StopsCounted, SignalsSent, UnaskedRebootIsTheScripts,
         Script, NoProc
<1> QED
  BY <1>1, <1>2, <1>3 DEF ContainInv

(* The SIGCHLD in hand is used up, and the zombie it names with it; if it  *)
(* names the script and init acts on it, the script is over or was stopped. *)
LEMMA ReapMoves == ContainInv /\ Reap => ContainInv'
<1> SUFFICES ASSUME ContainInv, Reap PROVE ContainInv'
  OBVIOUS
<1> USE DEF Over
<1>1. Script \in Procs /\ NoProc \notin Procs
  BY ContainAssumption DEF ContainAssumption, Procs, Script, NoProc
<1>2. at = "reap" /\ taken \in Procs
  BY DEF Reap, ContainInv, InHand
<1>3. /\ \A p \in Procs :
           proc'[p] = IF p = taken /\ proc[p] = "zombie" THEN "gone" ELSE proc[p]
      /\ proc' \in [Procs -> ProcStates]
  BY <1>2 DEF Reap, ContainInv, ContainTypeOK, ProcStates
<1>4. /\ errno' \in {"other", "ECHILD"}
      /\ at' \in {"terminate", "wait"}
      /\ \/ exit_code' = "EXIT_REBOOT" /\ taken = Script
         \/ exit_code' = exit_code
      /\ taken' = NoProc
      /\ UNCHANGED <<chld, usr, status, lost, stops, usrSent>>
  BY DEF Reap, ContainInv, ContainTypeOK
<1>5. ContainTypeOK'
  BY <1>3, <1>4 DEF ContainInv, ContainTypeOK, ProcStates
<1>6. NothingBeforeFork' /\ InHand' /\ AccountedFromFork'
  BY <1>1, <1>2, <1>3, <1>4
     DEF ContainInv, NothingBeforeFork, InHand, AccountedFromFork
<1>7. ScriptHasCause' /\ StopsCounted' /\ SignalsSent'
  BY <1>1, <1>2, <1>3, <1>4 DEF ContainInv, ScriptHasCause, StopsCounted, SignalsSent
<1>8. UnaskedRebootIsTheScripts'
  BY <1>1, <1>2, <1>3, <1>4 DEF ContainInv, ScriptHasCause, UnaskedRebootIsTheScripts
<1> QED
  BY <1>5, <1>6, <1>7, <1>8 DEF ContainInv

(* A child that ends, or stops, or continues, or is adopted, is either     *)
(* named by the pending SIGCHLD or recorded as lost.                       *)
LEMMA SandboxMoves ==
  ASSUME ContainInv, NEW p \in Procs, Adopt(p) \/ Exit(p) \/ StopOrContinue(p)
  PROVE  ContainInv'
<1> USE DEF Over
<1>1. Script \in Procs /\ NoProc \notin Procs /\ Script \notin Orphans
  BY ContainAssumption DEF ContainAssumption, Procs, Script, NoProc
<1>2. /\ UNCHANGED <<at, usr, taken, errno, exit_code, status, usrSent>>
      /\ chld' \in {chld, p}
  BY DEF Adopt, Exit, StopOrContinue, SandboxOnly, Notify
<1>3. proc[p] # "none" \/ at \in {"wait", "reap"}
  BY DEF Adopt, Exit, StopOrContinue, Waiting
<1> DEFINE Moves(to) ==
             /\ proc' = [proc EXCEPT ![p] = to]
             /\ proc[p] \notin {"zombie", "gone"}
             /\ to = "zombie" =>
                  chld' = p \/ lost' = lost \cup {p}
             /\ to # "zombie" /\ p = Script => stops' > 0
             /\ to = "stopped" => stops' > 0
             /\ chld # NoProc => chld' = chld
             /\ lost' \in {lost, lost \cup {p}}
             /\ stops' = stops \/ (stops' = stops + 1 /\ stops' <= MaxStops)
<1>4. stops \in Nat /\ MaxStops \in Nat
  BY ContainAssumption DEF ContainAssumption, ContainInv, ContainTypeOK
<1>5. \E to \in ProcStates : Moves(to)
  <2>1. CASE Adopt(p)
    <3>1. Moves("running") \/ Moves("zombie")
      BY <1>1, <2>1 DEF Adopt, Notify
    <3> QED
      BY <3>1 DEF ProcStates
  <2>2. CASE Exit(p)
    <3>1. Moves("zombie")
      BY <2>2 DEF Exit, Notify
    <3> QED
      BY <3>1 DEF ProcStates
  <2>3. CASE StopOrContinue(p)
    <3>1. proc[p] = "stopped" => stops > 0
      BY DEF ContainInv, StopsCounted
    <3>2. Moves("stopped") \/ Moves("running")
      BY <1>4, <2>3, <3>1 DEF StopOrContinue, Notify
    <3> QED
      BY <3>2 DEF ProcStates
  <2> QED
    BY <2>1, <2>2, <2>3
<1>6. PICK to \in ProcStates : Moves(to)
  BY <1>5
<1>7. /\ proc' \in [Procs -> ProcStates]
      /\ \A q \in Procs : proc'[q] = IF q = p THEN to ELSE proc[q]
  BY <1>6 DEF ContainInv, ContainTypeOK, ProcStates
<1>8. ContainTypeOK'
  <2>1. stops' \in 0..MaxStops
    BY <1>4, <1>6 DEF ContainInv, ContainTypeOK
  <2>2. lost' \subseteq Procs /\ chld' \in Procs \cup {NoProc}
    BY <1>2, <1>6 DEF ContainInv, ContainTypeOK
  <2> QED
    BY <1>2, <1>7, <2>1, <2>2 DEF ContainInv, ContainTypeOK, ProcStates
<1>9. NothingBeforeFork' /\ InHand'
  BY <1>2, <1>3 DEF ContainInv, NothingBeforeFork, InHand
<1>10. AccountedFromFork'
  BY <1>1, <1>2, <1>6, <1>7 DEF ContainInv, AccountedFromFork
<1>11. ScriptHasCause' /\ StopsCounted' /\ SignalsSent' /\ UnaskedRebootIsTheScripts'
  BY <1>1, <1>2, <1>4, <1>6, <1>7
     DEF ContainInv, ScriptHasCause, StopsCounted, SignalsSent, UnaskedRebootIsTheScripts
<1> QED
  BY <1>8, <1>9, <1>10, <1>11 DEF ContainInv

-----------------------------------------------------------------------------
LEMMA ContainAlways == ContainSafety => []ContainInv
<1>1. ContainInit => ContainInv
  <2> SUFFICES ASSUME ContainInit PROVE ContainInv
    OBVIOUS
  <2>1. ContainTypeOK
    BY ContainAssumption DEF ContainAssumption, ContainInit, ContainTypeOK
  <2>2. NoProc # Script
    BY DEF NoProc, Script
  <2> QED
    BY <2>1, <2>2 DEF ContainInit, ContainInv, NothingBeforeFork, InHand, AccountedFromFork,
       ScriptHasCause, StopsCounted, SignalsSent, UnaskedRebootIsTheScripts
<1>2. ContainInv /\ [ContainNext]_containVars => ContainInv'
  <2> SUFFICES ASSUME ContainInv, [ContainNext]_containVars PROVE ContainInv'
    OBVIOUS
  <2>1. ASSUME NEW p \in Procs, Adopt(p) \/ Exit(p) \/ StopOrContinue(p)
        PROVE  ContainInv'
    BY <2>1, SandboxMoves
  <2>2. ASSUME NEW s \in {"SIGUSR1", "SIGUSR2"}, Request(s)
        PROVE  ContainInv'
    <3>1. ContainTypeOK'
      BY <2>2 DEF Request, ContainInv, ContainTypeOK
    <3>2. NothingBeforeFork' /\ InHand' /\ AccountedFromFork'
      BY <2>2 DEF Request, ContainInv, NothingBeforeFork, InHand, AccountedFromFork
    <3>3. ScriptHasCause' /\ StopsCounted' /\ SignalsSent' /\ UnaskedRebootIsTheScripts'
      BY <2>2 DEF Request, ContainInv, ScriptHasCause, StopsCounted, SignalsSent,
                  UnaskedRebootIsTheScripts
    <3> QED
      BY <3>1, <3>2, <3>3 DEF ContainInv
  <2>3. CASE KillInit \/ Fails \/ KillAll
    BY <2>3, AllGone DEF KillInit, Fails, KillAll, Over
  <2>4. CASE Terminate
    BY <2>4 DEF Terminate, Goes, ContainInv, ContainTypeOK, NothingBeforeFork, InHand, Over,
       AccountedFromFork, ScriptHasCause, StopsCounted, SignalsSent, UnaskedRebootIsTheScripts
  <2>5. CASE UNCHANGED containVars
    BY <2>5 DEF containVars, ContainInv, ContainTypeOK, NothingBeforeFork, InHand,
       AccountedFromFork, ScriptHasCause, StopsCounted, SignalsSent, UnaskedRebootIsTheScripts
  <2> QED
    BY <2>1, <2>2, <2>3, <2>4, <2>5, InitMoves, ForkMoves, TakeMoves, ReapMoves
       DEF ContainNext, Sandbox, InitProcess
<1> QED
  BY <1>1, <1>2, PTL DEF ContainSafety

(* Type correctness of the sandbox's init for all constants; its exit code *)
(* is one that contain knows (contain.c:24-32, 53-162).                    *)
THEOREM ContainTypeCorrect == ContainSafety => []ContainTypeOK
<1>1. ContainInv => ContainTypeOK
  BY DEF ContainInv
<1> QED
  BY <1>1, ContainAlways, PTL

(* However many orphans there are, a zombie the loop does not know of      *)
(* ended while another child's SIGCHLD was pending (contain.c:116-138).    *)
THEOREM ZombiesAreAccounted == ContainSafety => []ZombiesAccounted
<1>1. ContainInv => ZombiesAccounted
  BY DEF ContainInv, AccountedFromFork, ZombiesAccounted, Waiting
<1> QED
  BY <1>1, ContainAlways, PTL

(* No orphan's end is ever taken for the script's (contain.c:125-136).     *)
THEOREM UnaskedRebootsHaveACause == ContainSafety => []UnaskedRebootIsTheScripts
<1>1. ContainInv => UnaskedRebootIsTheScripts
  BY DEF ContainInv
<1> QED
  BY <1>1, ContainAlways, PTL
=============================================================================
