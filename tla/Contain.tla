------------------------------- MODULE Contain ------------------------------
(***************************************************************************)
(* contain.c: the init process of a sandbox.  It starts one script, adopts *)
(* and reaps the orphans, and ends the sandbox when the script ends or     *)
(* somebody inside it runs poweroff or reboot.  Standard signals do not    *)
(* queue: a SIGCHLD that finds one pending is lost, siginfo and all.       *)
(***************************************************************************)
EXTENDS Naturals, FiniteSets

CONSTANTS
  Orphans,   \* processes of the sandbox that init comes to adopt
  MaxStops   \* bound: times a child of init is stopped

Script == "script"
NoProc == "none"

ASSUME ContainAssumption ==
  /\ IsFiniteSet(Orphans) /\ Orphans \cap {Script, NoProc} = {}
  /\ MaxStops \in Nat

VARIABLES
  at,         \* init: see below
  proc,       \* the state of each process, as a child of init
  chld,       \* the child named by the pending SIGCHLD, or NoProc
  usr,        \* the pending ones of SIGUSR1 and SIGUSR2
  taken,      \* the child named by the SIGCHLD init is handling
  errno,      \* init's errno, as far as it is looked at
  exit_code,  \* init's
  status,     \* what contain itself exits with, once it does
  lost,       \* history: processes whose end raised no SIGCHLD
  stops,      \* history: stops so far
  usrSent     \* history: which of SIGUSR1 and SIGUSR2 were ever sent

containVars ==
  <<at, proc, chld, usr, taken, errno, exit_code, status, lost, stops, usrSent>>

Procs == {Script} \cup Orphans

(* init is at "boot" before it blocks the signals, "mount" before it mounts *)
(* /proc, "fork" before it starts the script, "reaper" before prctl(),     *)
(* "wait" in sigwaitinfo(), "reap" before waitpid(), "terminate" and       *)
(* "kill" before the two kill(-1), and then ended, or "dead" of a SIGKILL  *)
(* from outside.                                                           *)
Over == {"ended", "dead"}
Waiting == at \in {"wait", "reap"}

ContainTypeOK ==
  /\ at \in {"boot", "mount", "fork", "reaper", "wait", "reap", "terminate", "kill"} \cup Over
  /\ proc \in [Procs -> {"none", "running", "stopped", "zombie", "gone"}]
  /\ chld \in Procs \cup {NoProc}
  /\ usr \subseteq {"SIGUSR1", "SIGUSR2"}
  /\ taken \in Procs \cup {NoProc}
  /\ errno \in {"other", "ECHILD"}
  /\ exit_code \in {"EXIT_FAILURE", "EXIT_POWEROFF", "EXIT_REBOOT"}
  /\ status \in {"none", "EXIT_SUCCESS", "EXIT_FAILURE", "EXIT_POWEROFF", "EXIT_REBOOT"}
  /\ lost \subseteq Procs
  /\ stops \in 0..MaxStops
  /\ usrSent \subseteq {"SIGUSR1", "SIGUSR2"}

ContainInit ==
  /\ at = "boot"
  /\ proc = [p \in Procs |-> "none"]
  /\ chld = NoProc /\ usr = {} /\ taken = NoProc
  /\ errno = "other"
  /\ exit_code = "EXIT_FAILURE" /\ status = "none"
  /\ lost = {} /\ stops = 0 /\ usrSent = {}

-----------------------------------------------------------------------------
(* The sandbox's other processes and the kernel.                           *)
Notify(p) == chld' = IF chld = NoProc THEN p ELSE chld

SandboxOnly == UNCHANGED <<at, usr, taken, errno, exit_code, status, usrSent>>

(* The parent of a process dies: init adopts it, alive or already dead.    *)
Adopt(p) ==
  /\ p \in Orphans /\ proc[p] = "none" /\ Waiting
  /\ \/ proc' = [proc EXCEPT ![p] = "running"] /\ UNCHANGED <<chld, lost>>
     \/ /\ proc' = [proc EXCEPT ![p] = "zombie"]
        /\ Notify(p)
        /\ lost' = IF chld = NoProc THEN lost ELSE lost \cup {p}
  /\ SandboxOnly /\ UNCHANGED stops

(* A child of init ends, of itself or killed.                              *)
Exit(p) ==
  /\ proc[p] \in {"running", "stopped"}
  /\ proc' = [proc EXCEPT ![p] = "zombie"]
  /\ Notify(p)
  /\ lost' = IF chld = NoProc THEN lost ELSE lost \cup {p}
  /\ SandboxOnly /\ UNCHANGED stops

(* SA_NOCLDSTOP is not set: stopping and continuing raise SIGCHLD as well. *)
StopOrContinue(p) ==
  /\ \/ proc[p] = "running" /\ stops < MaxStops
        /\ proc' = [proc EXCEPT ![p] = "stopped"] /\ stops' = stops + 1
     \/ proc[p] = "stopped"
        /\ proc' = [proc EXCEPT ![p] = "running"] /\ UNCHANGED stops
  /\ Notify(p)
  /\ SandboxOnly /\ UNCHANGED lost

(* poweroff or reboot, run in the sandbox.                                 *)
Request(signal) ==
  /\ at \notin Over /\ proc[Script] # "none"
  /\ signal \notin usrSent
  /\ usrSent' = usrSent \cup {signal}
  /\ usr' = usr \cup {signal}
  /\ UNCHANGED <<at, proc, chld, taken, errno, exit_code, status, lost, stops>>

(* init is killed from outside, and the kernel kills its namespace.        *)
KillInit ==
  /\ at \notin Over
  /\ at' = "dead"
  /\ proc' = [p \in Procs |-> IF proc[p] = "none" THEN "none" ELSE "gone"]
  /\ UNCHANGED <<chld, usr, taken, errno, exit_code, status, lost, stops, usrSent>>

Sandbox ==
  \/ \E p \in Procs : Adopt(p) \/ Exit(p) \/ StopOrContinue(p)
  \/ \E signal \in {"SIGUSR1", "SIGUSR2"} : Request(signal)
  \/ KillInit

-----------------------------------------------------------------------------
(* init.                                                                   *)
Goes(next) == at' = next /\ UNCHANGED <<proc, chld, usr, lost, stops, usrSent, status>>

(* Any failure before the loop: init returns EXIT_FAILURE at once, and the *)
(* kernel kills what runs in its namespace.                                *)
Fails ==
  /\ at \in {"boot", "mount", "fork", "reaper"}
  /\ at' = "ended"
  /\ proc' = [p \in Procs |-> IF proc[p] = "none" THEN "none" ELSE "gone"]
  /\ UNCHANGED <<chld, usr, taken, errno, exit_code, status, lost, stops, usrSent>>

Block == at = "boot" /\ Goes("mount") /\ UNCHANGED <<taken, errno, exit_code>>

(* umount() may have failed with EINVAL or ENOENT: errno is not ECHILD.    *)
MountProc ==
  at = "mount" /\ Goes("fork") /\ errno' = "other" /\ UNCHANGED <<taken, exit_code>>

ForkScript ==
  /\ at = "fork"
  /\ at' = "reaper"
  /\ proc' = [proc EXCEPT ![Script] = "running"]
  /\ UNCHANGED <<chld, usr, taken, errno, exit_code, status, lost, stops, usrSent>>

BecomeReaper == at = "reaper" /\ Goes("wait") /\ UNCHANGED <<taken, errno, exit_code>>

(* Some definitions have a faulty twin in front of them, which nothing     *)
(* uses: a bug the properties detect when it takes the definition's place. *)
TakeUsrFallsThrough ==
  /\ at = "wait" /\ usr # {}
  /\ IF "SIGUSR1" \in usr
       THEN usr' = usr \ {"SIGUSR1"} /\ exit_code' = "EXIT_POWEROFF"
       ELSE usr' = {} /\ exit_code' = "EXIT_KILLED"
  /\ at' = "terminate"
  /\ UNCHANGED <<proc, chld, taken, errno, status, lost, stops, usrSent>>

TakeUsrContinues ==
  /\ at = "wait" /\ usr # {}
  /\ IF "SIGUSR1" \in usr THEN usr' = usr \ {"SIGUSR1"} ELSE usr' = {}
  /\ UNCHANGED <<at, proc, chld, taken, errno, exit_code, status, lost, stops, usrSent>>

(* sigwaitinfo() takes the pending signal with the lowest number: SIGUSR1, *)
(* SIGUSR2, SIGCHLD.                                                       *)
TakeUsr ==
  /\ at = "wait" /\ usr # {}
  /\ IF "SIGUSR1" \in usr
       THEN usr' = usr \ {"SIGUSR1"} /\ exit_code' = "EXIT_POWEROFF"
       ELSE usr' = {} /\ exit_code' = "EXIT_REBOOT"
  /\ at' = "terminate"
  /\ UNCHANGED <<proc, chld, taken, errno, status, lost, stops, usrSent>>

TakeChld ==
  /\ at = "wait" /\ usr = {} /\ chld # NoProc
  /\ taken' = chld
  /\ chld' = NoProc
  /\ at' = "reap"
  /\ UNCHANGED <<proc, usr, errno, exit_code, status, lost, stops, usrSent>>

ReapScript ==
  /\ at = "reap"
  /\ proc' = [proc EXCEPT ![Script] = IF @ = "zombie" THEN "gone" ELSE @]
  /\ LET ends == proc[Script] = "zombie"
     IN  /\ at' = IF ends THEN "terminate" ELSE "wait"
         /\ exit_code' = IF ends THEN "EXIT_REBOOT" ELSE exit_code
  /\ taken' = NoProc
  /\ UNCHANGED <<chld, usr, errno, status, lost, stops, usrSent>>

ReapTrustsErrno ==
  /\ at = "reap"
  /\ proc' = [proc EXCEPT ![taken] = IF @ = "zombie" THEN "gone" ELSE @]
  /\ errno' = IF proc[taken] = "gone" THEN "ECHILD" ELSE errno
  /\ LET ends == taken = Script /\ errno' # "ECHILD"
     IN  /\ at' = IF ends THEN "terminate" ELSE "wait"
         /\ exit_code' = IF ends THEN "EXIT_REBOOT" ELSE exit_code
  /\ taken' = NoProc
  /\ UNCHANGED <<chld, usr, status, lost, stops, usrSent>>

ReapAnyEnds ==
  /\ at = "reap"
  /\ proc' = [proc EXCEPT ![taken] = IF @ = "zombie" THEN "gone" ELSE @]
  /\ errno' = IF proc[taken] = "gone" THEN "ECHILD" ELSE errno
  /\ LET ends == proc[taken] = "zombie"
     IN  /\ at' = IF ends THEN "terminate" ELSE "wait"
         /\ exit_code' = IF ends THEN "EXIT_REBOOT" ELSE exit_code
  /\ taken' = NoProc
  /\ UNCHANGED <<chld, usr, status, lost, stops, usrSent>>

(* waitpid(taken, NULL, WNOHANG): reaps a zombie; fails with ECHILD if the *)
(* child is gone; else returns 0 and leaves errno as it was.  Unless the   *)
(* failed wait left or found ECHILD in errno, the script's SIGCHLD ends    *)
(* the loop.                                                               *)
Reap ==
  /\ at = "reap"
  /\ proc' = [proc EXCEPT ![taken] = IF @ = "zombie" THEN "gone" ELSE @]
  /\ errno' = IF proc[taken] = "gone" THEN "ECHILD" ELSE errno
  /\ LET ignored == proc[taken] # "zombie" /\ errno' = "ECHILD"
         ends == taken = Script /\ ~ignored
     IN  /\ at' = IF ends THEN "terminate" ELSE "wait"
         /\ exit_code' = IF ends THEN "EXIT_REBOOT" ELSE exit_code
  /\ taken' = NoProc
  /\ UNCHANGED <<chld, usr, status, lost, stops, usrSent>>

(* kill(-1, SIGTERM) finds somebody, or nobody and then init just returns. *)
Terminate ==
  /\ at = "terminate"
  /\ IF \E p \in Procs : proc[p] \in {"running", "stopped", "zombie"}
       THEN Goes("kill")
       ELSE Goes("ended")
  /\ UNCHANGED <<taken, errno, exit_code>>

(* Two seconds later, kill(-1, SIGKILL); the kernel reaps with init gone.  *)
KillAll ==
  /\ at = "kill"
  /\ at' = "ended"
  /\ proc' = [p \in Procs |-> IF proc[p] = "none" THEN "none" ELSE "gone"]
  /\ UNCHANGED <<chld, usr, taken, errno, exit_code, status, lost, stops, usrSent>>

(* contain waits for init and passes WEXITSTATUS on, which is 0 for an     *)
(* init that was killed.                                                   *)
Outer ==
  /\ at \in Over /\ status = "none"
  /\ status' = IF at = "dead" THEN "EXIT_SUCCESS" ELSE exit_code
  /\ UNCHANGED <<at, proc, chld, usr, taken, errno, exit_code, lost, stops, usrSent>>

InitProcess ==
  \/ Block \/ MountProc \/ ForkScript \/ BecomeReaper \/ Fails
  \/ TakeUsr \/ TakeChld \/ Reap \/ Terminate \/ KillAll
  \/ Outer

ContainNext == Sandbox \/ InitProcess

ContainSafety == ContainInit /\ [][ContainNext]_containVars

(* init and contain run; nothing in the sandbox has to.                    *)
ContainSpec == ContainSafety /\ WF_containVars(InitProcess)

-----------------------------------------------------------------------------
(* The end of no process goes unaccounted for: while init runs its loop, a *)
(* zombie is named by the pending SIGCHLD or by the one in hand, or it     *)
(* ended while another child's SIGCHLD was pending (contain.c:53-68 blocks *)
(* SIGCHLD before the script exists).                                      *)
ZombiesAccounted ==
  Waiting => \A p \in Procs : proc[p] = "zombie" => p \in {chld, taken} \cup lost

(* poweroff and reboot end the sandbox whatever its processes do, and      *)
(* contain with it (contain.c:140-153, 196-200).                           *)
RequestEnds == usr # {} ~> status # "none"

(* An end of the script that did raise a SIGCHLD ends the sandbox: init   *)
(* does not mistake it for an end it has already seen (contain.c:124-138). *)
NoticedEndIsActedOn ==
  proc[Script] = "zombie" /\ Script \notin lost ~> at \in Over

(* "If the init script terminated [...] act as if reboot(8) was executed"  *)
(* (contain.c:133-134): the script's end ends the sandbox.                 *)
ScriptEndIsSeen == proc[Script] = "zombie" ~> at \in Over

(* A reboot nobody asked for is the script's doing, not an orphan's: the   *)
(* script has ended, or somebody has stopped a child of init, in which     *)
(* case init may mistake that for the end (contain.c:125-136).             *)
UnaskedRebootIsTheScripts ==
  exit_code = "EXIT_REBOOT" /\ "SIGUSR2" \notin usrSent =>
    proc[Script] \in {"zombie", "gone"} \/ stops > 0
=============================================================================
