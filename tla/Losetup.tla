------------------------------ MODULE Losetup -------------------------------
(***************************************************************************)
(* losetup(8) on one loop device, run by scripts next to each other, each  *)
(* of which has a file of its own: the ioctl()s of one losetup interleave  *)
(* with those of others.  The device is the kernel's, as losetup.c uses    *)
(* it: a device that is cleared while somebody else has it open is freed   *)
(* when the last one closes it.                                            *)
(***************************************************************************)
EXTENDS Naturals, FiniteSets

CONSTANTS
  Scripts,  \* each stands for its file, too
  NoFile,
  MaxKills  \* bound: scripts killed while they run losetup

ASSUME LosetupAssumption ==
  /\ IsFiniteSet(Scripts) /\ NoFile \notin Scripts
  /\ MaxKills \in Nat

VARIABLES
  at,         \* where each script is
  backing,    \* the file the device is bound to, or NoFile
  lo_name,    \* the file name in its status
  autoclear,  \* is it to be freed when the last one closes it?
  holders     \* who has it open: <<"process", s>>, <<"mount", s>>

deviceVars == <<backing, lo_name, autoclear, holders>>
losetupVars == <<at, deviceVars>>

LosetupSteps == {"opened", "unused", "bound", "undoing", "detaching"}

DeviceTypeOK ==
  /\ backing \in Scripts \cup {NoFile}
  /\ lo_name \in Scripts \cup {NoFile}
  /\ autoclear \in BOOLEAN
  /\ holders \subseteq {"process", "mount"} \X Scripts

LosetupInit ==
  /\ at = [s \in Scripts |-> "idle"]
  /\ backing = NoFile /\ lo_name = NoFile /\ autoclear = FALSE
  /\ holders = {}

-----------------------------------------------------------------------------
(* The device.                                                             *)
Free == backing' = NoFile /\ lo_name' = NoFile /\ autoclear' = FALSE

Opens(holder) ==
  /\ holders' = holders \cup {holder}
  /\ UNCHANGED <<backing, lo_name, autoclear>>

Closes(holder) ==
  /\ holders' = holders \ {holder}
  /\ IF autoclear /\ holders' = {} THEN Free
     ELSE UNCHANGED <<backing, lo_name, autoclear>>

LOOP_CLR_FD(s) ==
  /\ IF holders = {<<"process", s>>} THEN Free
     ELSE autoclear' = TRUE /\ UNCHANGED <<backing, lo_name>>
  /\ UNCHANGED holders

-----------------------------------------------------------------------------
Runs(s) == <<"process", s>> \in holders
Goes(s, next) == at' = [at EXCEPT ![s] = next]

(* A losetup command: it opens the device.                                 *)
Starts(s, next) ==
  /\ ~Runs(s)
  /\ Opens(<<"process", s>>)
  /\ Goes(s, next)

(* losetup DEVICE FILE                                                     *)
Attach(s) == at[s] = "idle" /\ Starts(s, "opened")

(* LOOP_GET_STATUS fails with ENXIO: nobody uses the device.               *)
StatusUnused(s) ==
  /\ at[s] = "opened" /\ backing = NoFile
  /\ Goes(s, "unused")
  /\ UNCHANGED deviceVars

(* It does not, or fails otherwise: the device is skipped.                 *)
StatusUsed(s) ==
  /\ at[s] = "opened"
  /\ Goes(s, "idle")
  /\ UNCHANGED deviceVars

LOOP_SET_FD(s) ==
  /\ at[s] = "unused" /\ backing = NoFile
  /\ backing' = s /\ lo_name' = NoFile /\ autoclear' = FALSE
  /\ Goes(s, "bound")
  /\ UNCHANGED holders

(* Some definitions have a faulty twin in front of them, which nothing     *)
(* uses: a bug the properties detect when it takes the definition's place. *)
SetFdErrorIgnored(s) ==
  /\ at[s] = "unused"
  /\ Goes(s, "bound")
  /\ UNCHANGED deviceVars

(* Another losetup was faster, EBUSY, or the ioctl() fails otherwise.      *)
SetFdFails(s) ==
  /\ at[s] = "unused"
  /\ Goes(s, "idle")
  /\ UNCHANGED deviceVars

(* LOOP_SET_STATUS: losetup is done.                                       *)
SetStatus(s) ==
  /\ at[s] = "bound"
  /\ lo_name' = s /\ autoclear' = FALSE
  /\ Goes(s, "attached")
  /\ UNCHANGED <<backing, holders>>

StaysBound(s) ==
  /\ at[s] = "bound"
  /\ Goes(s, "idle")
  /\ UNCHANGED deviceVars

SetStatusFails(s) ==
  /\ at[s] = "bound"
  /\ Goes(s, "undoing")
  /\ UNCHANGED deviceVars

Undo(s) ==
  /\ at[s] = "undoing"
  /\ LOOP_CLR_FD(s)
  /\ Goes(s, "idle")

(* The code ignores that the device cannot be cleared: it is left bound.   *)
UndoFails(s) ==
  /\ at[s] = "undoing"
  /\ Goes(s, "left")
  /\ UNCHANGED deviceVars

(* losetup -d DEVICE, once what was mounted is not any more.               *)
Detach(s) == at[s] = "unmounted" /\ Starts(s, "detaching")

(* losetup -d cannot open the device: it is left bound.                    *)
DetachFails(s) ==
  /\ at[s] = "unmounted" /\ ~Runs(s)
  /\ Goes(s, "left")
  /\ UNCHANGED deviceVars

ClearFd(s) ==
  /\ at[s] = "detaching"
  /\ LOOP_CLR_FD(s)
  /\ Goes(s, "idle")

(* LOOP_CLR_FD fails, and losetup -d with it.                              *)
ClearFdFails(s) ==
  /\ at[s] = "detaching"
  /\ Goes(s, "left")
  /\ UNCHANGED deviceVars

(* The end of a losetup that has returned from its last ioctl().           *)
Close(s) ==
  /\ Runs(s) /\ at[s] \notin LosetupSteps
  /\ Closes(<<"process", s>>)
  /\ UNCHANGED at

(* A losetup, and the script with it, is killed.                           *)
Kill(s) ==
  /\ at[s] \in LosetupSteps /\ Cardinality({t \in Scripts : at[t] = "killed"}) < MaxKills
  /\ Closes(<<"process", s>>)
  /\ Goes(s, "killed")

LosetupStep(s) ==
  \/ StatusUnused(s) \/ StatusUsed(s) \/ LOOP_SET_FD(s) \/ SetFdFails(s)
  \/ SetStatus(s) \/ SetStatusFails(s) \/ Undo(s) \/ UndoFails(s)
  \/ Detach(s) \/ DetachFails(s) \/ ClearFd(s) \/ ClearFdFails(s) \/ Close(s)

-----------------------------------------------------------------------------
(* Whose turn it is on the device: from LOOP_SET_FD to LOOP_CLR_FD.        *)
Owns(s) == at[s] \notin {"idle", "opened", "unused", "killed", "left"}

(* A script that was killed, or that could not unmount or clear the        *)
(* device: what it has bound stays bound.                                  *)
Leaves(s) == at[s] \in {"killed", "left"}

(* The device is its owner's from the moment it is bound until it is       *)
(* cleared, under its own name once losetup has said so, and it is nobody  *)
(* else's: it stays bound beyond that only while it is held open, or for a *)
(* script that was killed or failed to unmount or to clear it              *)
(* (losetup.c:48-70, 97-105, umount.c:20).                                 *)
DeviceHasItsOwner ==
  /\ \A s \in Scripts : Owns(s) => backing = s /\ ~autoclear
  /\ \A s \in Scripts : Owns(s) /\ at[s] \notin LosetupSteps => lo_name = s
  /\ backing # NoFile =>
       Owns(backing) \/ Leaves(backing) \/ (autoclear /\ holders # {})
=============================================================================
