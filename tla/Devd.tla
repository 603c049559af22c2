-------------------------------- MODULE Devd --------------------------------
(***************************************************************************)
(* devd: runs modprobe for every device.  It binds its netlink socket,     *)
(* walks /sys/devices for the devices that are there already (find.c),     *)
(* becomes a daemon (daemon.c:13-110) and from then on is the loop of      *)
(* module Daemon, whose datagrams are the kernel's uevents.  Devices come  *)
(* and go all the while.                                                   *)
(***************************************************************************)
EXTENDS Daemon, FiniteSets

CONSTANT Devices  \* those with a driver to load: a modalias, or a DRIVER field

Event(action, d) == [action |-> action, device |-> d]

(* Only one action matters: any other stands for all that devd ignores.    *)
ASSUME DevdAssumption ==
  /\ IsFiniteSet(Devices)
  /\ Datagrams = {Event(action, d) : action \in {"add", "remove"}, d \in Devices}

VARIABLES
  phase,    \* of main: "start", "walk", "daemonize", then "run" with Daemon's pc
  present,  \* the devices that are plugged in
  todo,     \* the entries that the walk has still to visit
  overrun,  \* has the socket an ENOBUFS to report?
  starter,  \* the exit status of the process that was started
  driven,   \* history: devices modprobe was run for since they were plugged in
  refused,  \* history: devices for whose event no child could be forked
  cold      \* history: devices that have been there since bind()

walkVars == <<phase, todo, starter>>
historyVars == <<driven, refused, cold>>
devdVars == <<daemonVars, walkVars, present, overrun, historyVars>>

DevdTypeOK ==
  /\ DaemonTypeOK
  /\ phase \in {"start", "walk", "daemonize", "run"}
  /\ present \subseteq Devices
  /\ todo \subseteq Devices
  /\ overrun \in BOOLEAN
  /\ starter \in {"none", "EXIT_SUCCESS", "EXIT_FAILURE"}
  /\ driven \subseteq Devices
  /\ refused \subseteq Devices
  /\ cold \subseteq present

DevdInit ==
  /\ DaemonInit
  /\ phase = "start"
  /\ present \in SUBSET Devices
  /\ todo = {} /\ overrun = FALSE /\ starter = "none"
  /\ driven = {} /\ refused = {} /\ cold = {}

(* Some definitions have a faulty twin in front of them, which nothing     *)
(* uses: a bug the properties detect when it takes the definition's place. *)
-----------------------------------------------------------------------------
(* The kernel's side.                                                      *)

ListeningAfterWalk == phase \in {"daemonize", "run"}

(* Uevents reach the socket once it is bound, which is before the walk.    *)
Listening == phase # "start"

(* The socket's buffer is full: the event is lost, and the next receive    *)
(* will say so.  The socket signals that, once, if it is armed.            *)
Overflow ==
  /\ Len(queue) = QueueMax
  /\ overrun' = TRUE
  /\ IF Done("F_SETOWN") /\ ~overrun THEN Stray ELSE UNCHANGED daemonVars

Publish(e) ==
  IF Listening
    THEN (Arrive(e) /\ UNCHANGED overrun) \/ Overflow
    ELSE UNCHANGED <<daemonVars, overrun>>

(* A device appears.  A walk that is under way may find it or not.         *)
Plug(d) ==
  /\ Alive /\ d \notin present
  /\ present' = present \cup {d}
  /\ todo' \in IF phase = "walk" THEN {todo, todo \cup {d}} ELSE {todo}
  /\ Publish(Event("add", d))
  /\ driven' = driven \ {d}
  /\ refused' = refused \ {d}
  /\ UNCHANGED <<phase, starter, cold>>

(* It goes.  The walk may already have read the entry it is about to visit. *)
Unplug(d) ==
  /\ Alive /\ d \in present
  /\ present' = present \ {d}
  /\ cold' = cold \ {d}
  /\ todo' \in {todo, todo \ {d}}
  /\ Publish(Event("remove", d))
  /\ UNCHANGED <<phase, starter, driven, refused>>

DevdKernel ==
  \/ \E d \in Devices : Plug(d) \/ Unplug(d)
  \/ (Sigterm \/ Stray) /\ UNCHANGED <<walkVars, present, overrun, historyVars>>

-----------------------------------------------------------------------------
(* main until the loop.                                                    *)

(* The socket is bound, then /sys/devices opened.                          *)
Bind ==
  /\ pc = "init" /\ phase = "start"
  /\ phase' = "walk"
  /\ todo' = present
  /\ cold' = present
  /\ UNCHANGED <<daemonVars, starter, present, overrun, driven, refused>>

(* _handle_existing_device: reads the alias, runs modprobe in a child.     *)
Visit(d) ==
  /\ pc = "init" /\ phase = "walk" /\ d \in todo \cap present
  /\ todo' = todo \ {d}
  /\ driven' = driven \cup {d}
  /\ UNCHANGED <<daemonVars, phase, starter, present, overrun, refused, cold>>

WalkErrorIgnored ==
  /\ pc = "init" /\ phase = "walk"
  /\ phase' = "daemonize"
  /\ UNCHANGED <<daemonVars, todo, starter, present, overrun, historyVars>>

WalkDone ==
  /\ pc = "init" /\ phase = "walk" /\ todo = {}
  /\ phase' = "daemonize"
  /\ UNCHANGED <<daemonVars, todo, starter, present, overrun, historyVars>>

(* A call fails before the first fork.  In the walk it is enough that one  *)
(* entry is gone by the time it is looked at, or has an empty alias: the   *)
(* whole walk fails, and devd ends.                                        *)
StartFails ==
  /\ phase \in {"start", "walk", "daemonize"}
  /\ InitFails
  /\ starter' = "EXIT_FAILURE"
  /\ UNCHANGED <<phase, todo, present, overrun, historyVars>>

(* daemon_daemonize: the process that was started ends, successfully; its  *)
(* grandchild goes on.                                                     *)
Daemonize ==
  /\ pc = "init" /\ phase = "daemonize"
  /\ phase' = "run"
  /\ starter' = "EXIT_SUCCESS"
  /\ UNCHANGED <<daemonVars, todo, present, overrun, historyVars>>

-----------------------------------------------------------------------------
(* The loop.                                                               *)

(* An overrun is reported before any datagram is.                          *)
Receive ==
  /\ ~overrun
  /\ Recv \/ RecvEmpty("wait")

ReceiveFails ==
  /\ RecvFails
  /\ overrun' = FALSE
  /\ UNCHANGED <<walkVars, present, historyVars>>

(* _handle_new_device: a device was added, modprobe is run in a child.     *)
HandleAdd ==
  /\ msg.action = "add"
  /\ Handled("wait")
  /\ driven' = driven \cup {msg.device}
  /\ UNCHANGED <<refused, cold>>

(* fork() fails: the event is dropped.                                     *)
HandleAddFails ==
  /\ msg.action = "add"
  /\ Handled("wait")
  /\ refused' = refused \cup {msg.device}
  /\ UNCHANGED <<driven, cold>>

HandleOther ==
  /\ msg.action # "add"
  /\ Handled("wait")
  /\ UNCHANGED historyVars

Loop ==
  \/ /\ phase = "run"
     /\ \/ HandleAdd \/ HandleAddFails \/ HandleOther
        \/ (InitCall \/ InitFails \/ DaemonWait \/ Receive) /\ UNCHANGED historyVars
     /\ UNCHANGED <<walkVars, present, overrun>>
  \/ ReceiveFails
  \/ Close /\ UNCHANGED <<walkVars, present, overrun, historyVars>>

DevdProcess ==
  \/ Bind
  \/ \E d \in Devices : Visit(d)
  \/ WalkDone \/ StartFails \/ Daemonize
  \/ Loop

DevdNext == DevdKernel \/ DevdProcess

DevdSafety == DevdInit /\ [][DevdNext]_devdVars

(* The scheduler keeps running the process; no device has to be plugged in. *)
DevdSpec == DevdSafety /\ WF_devdVars(DevdProcess)

-----------------------------------------------------------------------------
(* No device falls between the walk and the loop: as long as devd runs and *)
(* no event was lost, every device that is there was given to modprobe,    *)
(* will be visited, or has an event on its way (devd.c:196-230, where      *)
(* bind() comes before find_all() and daemon_init()).                      *)
EventOnItsWay(d) ==
  \/ \E i \in 1..Len(queue) : queue[i] = Event("add", d)
  \/ pc = "handle" /\ msg = Event("add", d)

NoDeviceMissed ==
  Listening /\ pc \in {"init"} \cup InLoop /\ ~overrun =>
    \A d \in present : d \in driven \cup todo \cup refused \/ EventOnItsWay(d)

(* Who started devd and sees it succeed can rely on the devices that were  *)
(* there: modprobe was run for each of them.  No more than that: devd may  *)
(* fail afterwards (devd.c:214-224, daemon.c:38-44).                       *)
SuccessMeansColdplugged == starter = "EXIT_SUCCESS" => cold \subseteq driven

(* Drivers are loaded "as devices get plugged in" (devd.8:8): a device     *)
(* that is there while devd is in its loop gets modprobe run for it.       *)
PluggedInIsDriven ==
  \A d \in Devices :
    (pc \in InLoop /\ d \in present) ~> (d \in driven \cup refused \/ d \notin present \/ ~Alive)
=============================================================================
