-------------------------------- MODULE Init --------------------------------
(***************************************************************************)
(* init.c, process 1: it starts the startup script, waits for poweroff     *)
(* (SIGUSR1) or reboot (SIGUSR2), ends all processes, runs the shutdown    *)
(* script, flushes the file systems and tells the kernel.                  *)
(***************************************************************************)
EXTENDS Naturals, FiniteSets

CONSTANTS
  Procs,      \* processes that the startup script and its descendants start
  Leftovers   \* those of them the shutdown script may start and leave behind

ASSUME InitAssumption == IsFiniteSet(Procs) /\ Leftovers \subseteq Procs

VARIABLES
  at,        \* init: see below
  startup,   \* the startup script's process
  shutdown,  \* the shutdown script's process
  running,   \* the other processes that run
  pending,   \* the pending ones of SIGUSR1 and SIGUSR2
  taken,     \* the signal that ended init's wait, or NoSignal
  dirty,     \* has anything been written since the last sync()?
  done       \* what the kernel was told, or NoSignal

initVars == <<at, startup, shutdown, running, pending, taken, dirty, done>>

Signals == {"SIGUSR1", "SIGUSR2"}
NoSignal == "none"

(* init is at "boot" before it blocks the signals, "start" before it forks *)
(* the startup script, "wait" in sigwaitinfo(), "terminate" and "kill"     *)
(* before the two kill(-1), "shutdown" before it forks the shutdown        *)
(* script, "script" while it waits for it, "flush" before sync(), "tell"   *)
(* before reboot(); "ended" after that, or if it returned early, which the *)
(* kernel answers with a panic.                                            *)
InitTypeOK ==
  /\ at \in {"boot", "start", "wait", "terminate", "kill", "shutdown",
             "script", "flush", "tell", "ended"}
  /\ startup \in {"none", "forked", "running", "failed", "ended"}
  /\ shutdown \in {"none", "forked", "running", "flush", "tell", "ended"}
  /\ running \subseteq Procs
  /\ pending \subseteq Signals
  /\ taken \in Signals \cup {NoSignal}
  /\ dirty \in BOOLEAN
  /\ done \in Signals \cup {NoSignal}

InitInit ==
  /\ at = "boot"
  /\ startup = "none" /\ shutdown = "none"
  /\ running = {} /\ pending = {} /\ taken = NoSignal
  /\ dirty = FALSE /\ done = NoSignal

Up == done = NoSignal

-----------------------------------------------------------------------------
(* The rest of the system.                                                 *)
RestOnly == UNCHANGED <<at, pending, taken, done>>

Busy == startup = "running" \/ shutdown = "running" \/ running # {}

(* Some process writes to a file.                                          *)
WriteFile ==
  /\ Up /\ Busy
  /\ dirty' = TRUE
  /\ RestOnly /\ UNCHANGED <<startup, shutdown, running>>

(* A process starts another; the shutdown script is to leave Leftovers.    *)
Spawn(p) ==
  /\ Up /\ p \notin running
  /\ \/ startup = "running" \/ running # {}
     \/ shutdown = "running" /\ p \in Leftovers
  /\ running' = running \cup {p}
  /\ RestOnly /\ UNCHANGED <<startup, shutdown, dirty>>

ProcEnds(p) ==
  /\ Up /\ p \in running
  /\ running' = running \ {p}
  /\ RestOnly /\ UNCHANGED <<startup, shutdown, dirty>>

(* poweroff or reboot is run, by any process.                              *)
Request(signal) ==
  /\ Up /\ Busy /\ at # "boot"
  /\ pending' = pending \cup {signal}
  /\ UNCHANGED <<at, startup, shutdown, running, taken, dirty, done>>

(* The startup script's process: execl() works or not.  If not it sends    *)
(* SIGTERM to init, which is process 1, does not handle it, and so never   *)
(* gets it; the child returns from main.                                   *)
StartupRuns ==
  /\ Up /\ startup = "forked"
  /\ startup' \in {"running", "failed"}
  /\ RestOnly /\ UNCHANGED <<shutdown, running, dirty>>

StartupEnds ==
  /\ Up /\ startup = "running"
  /\ startup' = "ended"
  /\ RestOnly /\ UNCHANGED <<shutdown, running, dirty>>

(* The shutdown script's process: if execl() fails it is still in main,    *)
(* and goes on to flush the file systems and to tell the kernel, itself.   *)
ShutdownRuns ==
  /\ Up /\ shutdown = "forked"
  /\ shutdown' \in {"running", "flush"}
  /\ RestOnly /\ UNCHANGED <<startup, running, dirty>>

ShutdownEnds ==
  /\ Up /\ shutdown = "running"
  /\ shutdown' = "ended"
  /\ RestOnly /\ UNCHANGED <<startup, running, dirty>>

(* Some definitions have a faulty twin in front of them, which nothing     *)
(* uses: a bug the properties detect when it takes the definition's place. *)
ChildTellsAtOnce ==
  /\ Up /\ shutdown = "flush"
  /\ done' = taken
  /\ shutdown' = "ended"
  /\ UNCHANGED <<at, startup, running, pending, taken, dirty>>

ChildFlushes ==
  /\ Up /\ shutdown = "flush"
  /\ dirty' = FALSE
  /\ shutdown' = "tell"
  /\ RestOnly /\ UNCHANGED <<startup, running>>

ChildTells ==
  /\ Up /\ shutdown = "tell"
  /\ done' = taken
  /\ shutdown' = "ended"
  /\ UNCHANGED <<at, startup, running, pending, taken, dirty>>

Scripts == StartupRuns \/ ShutdownRuns \/ ShutdownEnds \/ ChildFlushes \/ ChildTells

Rest ==
  \/ WriteFile \/ StartupEnds \/ Scripts
  \/ \E p \in Procs : Spawn(p) \/ ProcEnds(p)
  \/ \E signal \in Signals : Request(signal)

-----------------------------------------------------------------------------
(* init.                                                                   *)
Goes(next) == at' = next

Block ==
  /\ at = "boot"
  /\ Goes("start")
  /\ UNCHANGED <<startup, shutdown, running, pending, taken, dirty, done>>

(* fork() fails: init returns.                                             *)
StartFails ==
  /\ at \in {"boot", "start"}
  /\ Goes("ended")
  /\ UNCHANGED <<startup, shutdown, running, pending, taken, dirty, done>>

Start ==
  /\ at = "start"
  /\ startup' = "forked"
  /\ Goes("wait")
  /\ UNCHANGED <<shutdown, running, pending, taken, dirty, done>>

WaitAfterStartup ==
  /\ at = "wait" /\ pending # {} /\ startup \in {"ended", "failed"}
  /\ taken' = IF "SIGUSR1" \in pending THEN "SIGUSR1" ELSE "SIGUSR2"
  /\ pending' = pending \ {taken'}
  /\ Goes("terminate")
  /\ UNCHANGED <<startup, shutdown, running, dirty, done>>

(* sigwaitinfo() takes the pending signal with the lowest number.          *)
Wait ==
  /\ at = "wait" /\ pending # {}
  /\ taken' = IF "SIGUSR1" \in pending THEN "SIGUSR1" ELSE "SIGUSR2"
  /\ pending' = pending \ {taken'}
  /\ Goes("terminate")
  /\ UNCHANGED <<startup, shutdown, running, dirty, done>>

Nobody == running = {} /\ startup \notin {"forked", "running"}

(* kill(-1, SIGTERM); if that finds nobody, SIGKILL is left out.  SIGTERM  *)
(* ends those who do not ignore it.                                        *)
Terminate ==
  /\ at = "terminate"
  /\ running' \in SUBSET running
  /\ startup' \in {startup, IF startup \in {"forked", "running"} THEN "ended" ELSE startup}
  /\ Goes(IF Nobody THEN "shutdown" ELSE "kill")
  /\ UNCHANGED <<shutdown, pending, taken, dirty, done>>

KillsNobody ==
  /\ at = "kill"
  /\ Goes("shutdown")
  /\ UNCHANGED <<startup, shutdown, running, pending, taken, dirty, done>>

(* Two seconds later: kill(-1, SIGKILL).                                   *)
Kill ==
  /\ at = "kill"
  /\ running' = {}
  /\ startup' = IF startup \in {"forked", "running"} THEN "ended" ELSE startup
  /\ Goes("shutdown")
  /\ UNCHANGED <<shutdown, pending, taken, dirty, done>>

(* The shutdown script's child is forked, unless sigaction() or fork()     *)
(* fails.                                                                  *)
ForkShutdown ==
  /\ at = "shutdown"
  /\ \/ shutdown' = "forked" /\ Goes("script")
     \/ UNCHANGED shutdown /\ Goes("flush")
  /\ UNCHANGED <<startup, running, pending, taken, dirty, done>>

(* waitpid() on the shutdown script.                                       *)
AwaitScript ==
  /\ at = "script" /\ shutdown = "ended"
  /\ Goes("flush")
  /\ UNCHANGED <<startup, shutdown, running, pending, taken, dirty, done>>

Flush ==
  /\ at = "flush"
  /\ dirty' = FALSE
  /\ Goes("tell")
  /\ UNCHANGED <<startup, shutdown, running, pending, taken, done>>

(* reboot(RB_POWER_OFF) or reboot(RB_AUTOBOOT).                            *)
Tell ==
  /\ at = "tell"
  /\ done' = taken
  /\ Goes("ended")
  /\ UNCHANGED <<startup, shutdown, running, pending, taken, dirty>>

InitProcess ==
  /\ Up
  /\ \/ Block \/ StartFails \/ Start \/ Wait \/ Terminate \/ Kill
     \/ ForkShutdown \/ AwaitScript \/ Flush \/ Tell

InitNext == Rest \/ InitProcess

InitSafety == InitInit /\ [][InitNext]_initVars

(* init runs, and so do the scripts; the shutdown script ends.             *)
InitSpec == InitSafety /\ WF_initVars(InitProcess) /\ WF_initVars(Scripts)

-----------------------------------------------------------------------------
(* Nothing is lost at the end: as long as the shutdown script leaves no    *)
(* process behind, all that was written is on the disk when the kernel is  *)
(* told, whether by init or by the child that could not run the script     *)
(* (init.c:106-154).                                                       *)
NothingUnwritten == done # NoSignal => ~dirty

(* The shutdown script starts in a system with no process left over from   *)
(* before, so none of them runs next to it, or writes after it ended       *)
(* (init.c:106-128).                                                       *)
ScriptRunsAlone == at \in {"shutdown", "script", "flush", "tell"} => Nobody

(* A request to shut down gets there, with or without a shutdown script.   *)
RequestIsServed == pending # {} ~> done # NoSignal
=============================================================================
