----------------------------- MODULE DevdProofs -----------------------------
(***************************************************************************)
(* For every set of devices and all bounds: devd is the server loop of     *)
(* daemon.c, and no device falls between its walk of /sys/devices and that *)
(* loop.                                                                   *)
(***************************************************************************)
EXTENDS Devd, DaemonProofs

(* Uevents are datagrams.                                                  *)
LEMMA EventIsDatagram ==
  ASSUME NEW d \in Devices
  PROVE  Event("add", d) \in Datagrams /\ Event("remove", d) \in Datagrams
  BY DevdAssumption DEF Event

LEMMA PublishStep ==
  ASSUME NEW e \in Datagrams, Publish(e)
  PROVE  [DaemonNext]_daemonVars
  BY DEF Publish, Overflow, DaemonNext, Kernel

(* Every step of devd is a step of the loop in daemon.c or leaves it       *)
(* alone, so what Daemon guarantees holds of devd too.                     *)
LEMMA DevdStep == [DevdNext]_devdVars => [DaemonNext]_daemonVars
<1> SUFFICES ASSUME [DevdNext]_devdVars PROVE [DaemonNext]_daemonVars
  OBVIOUS
<1>1. CASE DevdKernel
  BY <1>1, EventIsDatagram, PublishStep DEF DevdKernel, Plug, Unplug, DaemonNext, Kernel
<1>2. CASE Bind \/ (\E d \in Devices : Visit(d)) \/ WalkDone \/ Daemonize
  BY <1>2 DEF Bind, Visit, WalkDone, Daemonize
<1>3. CASE StartFails
  BY <1>3 DEF StartFails, DaemonNext, Process
<1>4. CASE Loop
  BY <1>4 DEF Loop, HandleAdd, HandleAddFails, HandleOther, Receive, ReceiveFails,
              DaemonNext, Process
<1>5. CASE UNCHANGED devdVars
  BY <1>5 DEF devdVars
<1> QED
  BY <1>1, <1>2, <1>3, <1>4, <1>5 DEF DevdNext, DevdProcess

(* devd's signals and datagrams are balanced as every server's are         *)
(* (devd.c:223-268, daemon.c:141-201).                                     *)
THEOREM DevdIsDaemon == DevdSafety => DaemonSafety /\ []WakeupBalance
<1>1. DevdInit => DaemonInit
  BY DEF DevdInit
<1> QED
  BY <1>1, DevdStep, DaemonBalance, PTL DEF DevdSafety, DaemonSafety

-----------------------------------------------------------------------------
(* What devd's own variables may hold.                                     *)
WalkTypeOK ==
  /\ phase \in {"start", "walk", "daemonize", "run"}
  /\ present \subseteq Devices
  /\ todo \subseteq Devices
  /\ overrun \in BOOLEAN
  /\ starter \in {"none", "EXIT_SUCCESS", "EXIT_FAILURE"}
  /\ driven \subseteq Devices
  /\ refused \subseteq Devices
  /\ cold \subseteq present

(* The devices that were there at bind() are what is left of the walk and  *)
(* those it has visited, and the walk is over before the starter succeeds. *)
ColdPlug ==
  /\ phase = "start" => cold = {}
  /\ phase = "walk" => cold \subseteq driven \cup todo
  /\ phase \in {"daemonize", "run"} => cold \subseteq driven
  /\ starter = "EXIT_SUCCESS" => phase = "run"
  /\ pc \in InLoop => phase = "run"

LEMMA PublishKeeps ==
  ASSUME NEW e, Publish(e), DaemonTypeOK
  PROVE  /\ pc' \in InLoop => pc \in InLoop
         /\ overrun \in BOOLEAN => overrun' \in BOOLEAN
  BY DEF Publish, Overflow, Arrive, RaiseIo, Stray, daemonVars, InLoop

LEMMA HandledInHand ==
  ASSUME DaemonTypeOK, msg.action = "add"
  PROVE  msg.device \in Devices /\ msg = Event("add", msg.device)
  BY DevdAssumption DEF DaemonTypeOK, Event

(* The types of the walk's and the history variables, by induction.        *)
LEMMA WalkTypeAlways == DevdSafety => []WalkTypeOK
<1> USE DEF WalkTypeOK
<1>1. DevdInit => WalkTypeOK
  BY DEF DevdInit
<1>2. DaemonTypeOK /\ WalkTypeOK /\ [DevdNext]_devdVars => WalkTypeOK'
  <2> SUFFICES ASSUME DaemonTypeOK, WalkTypeOK, [DevdNext]_devdVars
               PROVE  WalkTypeOK'
    OBVIOUS
  <2>1. ASSUME NEW d \in Devices, Plug(d) PROVE WalkTypeOK'
    <3>1. overrun' \in BOOLEAN
      BY <2>1, PublishKeeps DEF Plug
    <3> QED
      BY <2>1, <3>1 DEF Plug
  <2>2. ASSUME NEW d \in Devices, Unplug(d) PROVE WalkTypeOK'
    <3>1. overrun' \in BOOLEAN
      BY <2>2, PublishKeeps DEF Unplug
    <3> QED
      BY <2>2, <3>1 DEF Unplug
  <2>3. CASE Bind \/ WalkDone \/ StartFails \/ Daemonize
    BY <2>3 DEF Bind, WalkDone, StartFails, Daemonize, historyVars
  <2>4. ASSUME NEW d \in Devices, Visit(d) PROVE WalkTypeOK'
    BY <2>4 DEF Visit
  <2>5. CASE (HandleAdd \/ HandleAddFails) /\ UNCHANGED <<walkVars, present, overrun>>
    BY <2>5, HandledInHand DEF HandleAdd, HandleAddFails, walkVars
  <2>6. CASE UNCHANGED <<walkVars, present, historyVars>> /\ overrun' \in {overrun, FALSE}
    BY <2>6 DEF walkVars, historyVars
  <2> QED
    BY <2>1, <2>2, <2>3, <2>4, <2>5, <2>6
       DEF DevdNext, DevdKernel, DevdProcess, Loop, HandleOther, ReceiveFails, devdVars
<1> QED
  BY <1>1, <1>2, DevdIsDaemon, DaemonTypeCorrect, PTL DEF DevdSafety

(* devd is type-correct for any set of devices (devd.c:176-279).           *)
THEOREM DevdTypeCorrect == DevdSafety => []DevdTypeOK
<1>1. DaemonTypeOK /\ WalkTypeOK => DevdTypeOK
  BY DEF DevdTypeOK, WalkTypeOK
<1> QED
  BY <1>1, DevdIsDaemon, DaemonTypeCorrect, WalkTypeAlways, PTL

-----------------------------------------------------------------------------
(* A device is left to the walk, which misses none, until it is driven.    *)
LEMMA ColdPlugAlways == DevdSafety => []ColdPlug
<1> USE DEF ColdPlug, WalkTypeOK, InLoop
<1>1. DevdInit => ColdPlug
  BY DEF DevdInit, DaemonInit
<1>2. DaemonTypeOK /\ WalkTypeOK /\ ColdPlug /\ [DevdNext]_devdVars => ColdPlug'
  <2> SUFFICES ASSUME DaemonTypeOK, WalkTypeOK, ColdPlug, [DevdNext]_devdVars
               PROVE  ColdPlug'
    OBVIOUS
  <2>1. ASSUME NEW d \in Devices, Plug(d) PROVE ColdPlug'
    <3>1. pc' \in InLoop => pc \in InLoop
      BY <2>1, PublishKeeps DEF Plug
    <3>2. d \notin cold /\ cold' = cold /\ driven' = driven \ {d} /\ todo \subseteq todo'
          /\ phase' = phase /\ starter' = starter
      BY <2>1 DEF Plug
    <3> QED
      BY <3>1, <3>2
  <2>2. ASSUME NEW d \in Devices, Unplug(d) PROVE ColdPlug'
    <3>1. pc' \in InLoop => pc \in InLoop
      BY <2>2, PublishKeeps DEF Unplug
    <3>2. cold' = cold \ {d} /\ driven' = driven /\ todo \ {d} \subseteq todo'
          /\ phase' = phase /\ starter' = starter
      BY <2>2 DEF Unplug
    <3> QED
      BY <3>1, <3>2
  <2>3. CASE Bind
    BY <2>3 DEF Bind, daemonVars
  <2>4. ASSUME NEW d \in Devices, Visit(d) PROVE ColdPlug'
    BY <2>4 DEF Visit, daemonVars
  <2>5. CASE WalkDone \/ Daemonize
    BY <2>5 DEF WalkDone, Daemonize, daemonVars, historyVars
  <2>6. CASE StartFails
    BY <2>6 DEF StartFails, InitFails, historyVars
  <2>7. CASE phase = "run" /\ UNCHANGED <<walkVars, cold>> /\ driven \subseteq driven'
    BY <2>7 DEF walkVars
  <2>8. CASE (ReceiveFails \/ Close) /\ UNCHANGED <<walkVars, historyVars>>
    BY <2>8 DEF ReceiveFails, RecvFails, Close, walkVars, historyVars
  <2>9. CASE (Sigterm \/ Stray) /\ UNCHANGED <<walkVars, historyVars>>
    BY <2>9 DEF Sigterm, Stray, walkVars, historyVars
  <2>10. CASE UNCHANGED devdVars
    BY <2>10 DEF devdVars, daemonVars, walkVars, historyVars
  <2> QED
    BY <2>1, <2>2, <2>3, <2>4, <2>5, <2>6, <2>7, <2>8, <2>9, <2>10
       DEF DevdNext, DevdKernel, DevdProcess, Loop, HandleAdd, HandleAddFails, HandleOther,
           ReceiveFails, historyVars
<1> QED
  BY <1>1, <1>2, DevdIsDaemon, DaemonTypeCorrect, WalkTypeAlways, PTL DEF DevdSafety

(* The starter's success means that modprobe was run for every device that *)
(* has been there since bind() (devd.c:200-224).                           *)
THEOREM DevdSuccessMeansColdplugged == DevdSafety => []SuccessMeansColdplugged
<1>1. ColdPlug => SuccessMeansColdplugged
  BY DEF ColdPlug, SuccessMeansColdplugged
<1> QED
  BY <1>1, ColdPlugAlways, PTL

-----------------------------------------------------------------------------
(* A queue keeps what it holds when it grows, and its head is the only     *)
(* thing a receive takes from it.                                          *)
LEMMA AppendKeeps ==
  ASSUME NEW S, NEW q \in Seq(S), NEW e \in S
  PROVE  /\ \A i \in 1..Len(q) : i \in 1..Len(Append(q, e)) /\ Append(q, e)[i] = q[i]
         /\ Len(q) + 1 \in 1..Len(Append(q, e)) /\ Append(q, e)[Len(q) + 1] = e
  OBVIOUS

LEMMA TailKeeps ==
  ASSUME NEW S, NEW q \in Seq(S), q # <<>>, NEW i \in 1..Len(q)
  PROVE  q[i] = Head(q) \/ (i - 1 \in 1..Len(Tail(q)) /\ Tail(q)[i - 1] = q[i])
  OBVIOUS

(* A published event is in the queue, unless it overran it.                *)
LEMMA PublishOnItsWay ==
  ASSUME NEW e \in Datagrams, Publish(e), DaemonTypeOK, Listening, overrun \in BOOLEAN,
         ~overrun', pc' \in {"init"} \cup InLoop
  PROVE  /\ pc \in {"init"} \cup InLoop /\ ~overrun
         /\ \E i \in 1..Len(queue') : queue'[i] = e
         /\ \A d \in Devices : EventOnItsWay(d) => EventOnItsWay(d)'
<1>1. Arrive(e) /\ overrun' = overrun
  BY DEF Publish, Overflow
<1>2. queue' = Append(queue, e) /\ pc' = pc /\ msg' = msg /\ queue \in Seq(Datagrams)
  BY <1>1 DEF Arrive, RaiseIo, DaemonTypeOK, InLoop
<1>3. /\ \A i \in 1..Len(queue) : i \in 1..Len(queue') /\ queue'[i] = queue[i]
      /\ Len(queue) + 1 \in 1..Len(queue') /\ queue'[Len(queue) + 1] = e
  BY <1>2, AppendKeeps
<1> QED
  BY <1>1, <1>2, <1>3 DEF EventOnItsWay

(* No device falls between the walk and the loop, as bind() comes before   *)
(* both (devd.c:196-230).                                                  *)
THEOREM DevdNoDeviceMissed == DevdSafety => []NoDeviceMissed
<1> USE DEF WalkTypeOK, InLoop
<1>1. DevdInit => NoDeviceMissed
  BY DEF DevdInit, NoDeviceMissed, Listening
<1>2. DaemonTypeOK /\ WalkTypeOK /\ ColdPlug /\ NoDeviceMissed /\ [DevdNext]_devdVars
      => NoDeviceMissed'
  <2> SUFFICES ASSUME DaemonTypeOK, WalkTypeOK, ColdPlug, NoDeviceMissed, [DevdNext]_devdVars,
                      Listening', pc' \in {"init"} \cup InLoop, ~overrun',
                      NEW x \in present'
               PROVE  (x \in driven \cup todo \cup refused \/ EventOnItsWay(x))'
    BY DEF NoDeviceMissed
  <2> USE DEF Listening
  <2>1. ASSUME NEW d \in Devices, Plug(d)
        PROVE  (x \in driven \cup todo \cup refused \/ EventOnItsWay(x))'
    <3>1. /\ phase' = phase /\ present' = present \cup {d} /\ todo \subseteq todo'
          /\ driven' = driven \ {d} /\ refused' = refused \ {d} /\ Publish(Event("add", d))
      BY <2>1 DEF Plug
    <3>2. /\ pc \in {"init"} \cup InLoop /\ ~overrun /\ EventOnItsWay(d)'
          /\ \A t \in Devices : EventOnItsWay(t) => EventOnItsWay(t)'
      BY <3>1, EventIsDatagram, PublishOnItsWay DEF EventOnItsWay
    <3> QED
      BY <3>1, <3>2 DEF NoDeviceMissed
  <2>2. ASSUME NEW d \in Devices, Unplug(d)
        PROVE  (x \in driven \cup todo \cup refused \/ EventOnItsWay(x))'
    <3>1. /\ phase' = phase /\ present' = present \ {d} /\ todo \ {d} \subseteq todo'
          /\ driven' = driven /\ refused' = refused /\ Publish(Event("remove", d))
      BY <2>2 DEF Unplug
    <3>2. /\ pc \in {"init"} \cup InLoop /\ ~overrun
          /\ \A t \in Devices : EventOnItsWay(t) => EventOnItsWay(t)'
      BY <3>1, EventIsDatagram, PublishOnItsWay
    <3> QED
      BY <3>1, <3>2 DEF NoDeviceMissed
  <2>3. CASE Bind
    BY <2>3 DEF Bind
  <2>4. ASSUME NEW d \in Devices, Visit(d)
        PROVE  (x \in driven \cup todo \cup refused \/ EventOnItsWay(x))'
    BY <2>4 DEF Visit, daemonVars, NoDeviceMissed, EventOnItsWay
  <2>5. CASE WalkDone \/ Daemonize
    BY <2>5 DEF WalkDone, Daemonize, daemonVars, historyVars, NoDeviceMissed, EventOnItsWay
  <2>6. CASE StartFails \/ ReceiveFails \/ Close
    BY <2>6 DEF StartFails, InitFails, ReceiveFails, RecvFails, Close
  <2>7. CASE /\ UNCHANGED <<phase, todo, present, overrun>> /\ pc = "handle"
             /\ HandleAdd \/ HandleAddFails \/ HandleOther
    <3>1. queue' = queue /\ (msg = Event("add", x) => msg.action = "add" /\ msg.device = x)
      BY <2>7 DEF HandleAdd, HandleAddFails, HandleOther, Handled, Event
    <3> QED
      BY <2>7, <3>1 DEF HandleAdd, HandleAddFails, HandleOther, historyVars, NoDeviceMissed,
                        EventOnItsWay
  <2>8. CASE Recv /\ UNCHANGED <<walkVars, present, overrun, historyVars>>
    <3>1. /\ queue # <<>> /\ queue \in Seq(Datagrams) /\ queue' = Tail(queue)
          /\ pc = "recv" /\ pc' = "handle" /\ msg' = Head(queue)
      BY <2>8 DEF Recv, DaemonTypeOK
    <3>2. EventOnItsWay(x) => EventOnItsWay(x)'
      BY <3>1, TailKeeps DEF EventOnItsWay
    <3> QED
      BY <2>8, <3>1, <3>2 DEF NoDeviceMissed, walkVars, historyVars
  <2>9. CASE /\ InitCall \/ InitFails \/ DaemonWait \/ RecvEmpty("wait") \/ Sigterm \/ Stray
             /\ UNCHANGED <<walkVars, present, overrun, historyVars>>
    <3>1. queue' = queue /\ msg' = msg /\ pc \in {"init"} \cup InLoop
          /\ (pc # "handle" \/ pc' = pc)
      BY <2>9 DEF InitCall, InitFails, DaemonWait, RecvEmpty, Sigterm, Stray
    <3> QED
      BY <2>9, <3>1 DEF NoDeviceMissed, walkVars, historyVars, EventOnItsWay
  <2>10. CASE UNCHANGED devdVars
    BY <2>10 DEF devdVars, daemonVars, walkVars, historyVars, NoDeviceMissed, EventOnItsWay
  <2> QED
    BY <2>1, <2>2, <2>3, <2>4, <2>5, <2>6, <2>7, <2>8, <2>9, <2>10
       DEF DevdNext, DevdKernel, DevdProcess, Loop, HandleAdd, HandleAddFails, HandleOther,
           Handled, Receive, walkVars
<1> QED
  BY <1>1, <1>2, DevdIsDaemon, DaemonTypeCorrect, WalkTypeAlways, ColdPlugAlways, PTL
     DEF DevdSafety
=============================================================================
