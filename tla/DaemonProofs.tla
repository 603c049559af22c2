---------------------------- MODULE DaemonProofs ----------------------------
(***************************************************************************)
(* What Daemon guarantees for every queue size, signal limit and number of *)
(* datagrams.                                                              *)
(***************************************************************************)
EXTENDS Daemon, TLAPS

(* daemon_init makes its calls one after the other: inside it at least one *)
(* is missing, in the loop none is (daemon.c:151-178).                     *)
CallsOfPc ==
  /\ pc = "init" => calls < 4
  /\ pc \in InLoop => calls = 4

(* While the process lives, the io_signals pending for it are no more than *)
(* the queued datagrams and the strays together.                           *)
SignalsBounded ==
  /\ Len(queue) <= QueueMax
  /\ strays <= MaxStrays
  /\ Alive => io + (IF pc = "recv" THEN 1 ELSE 0) <= Len(queue) + strays

(* The owner of the socket is set last: once datagrams raise signals, the  *)
(* io_signal is selected and blocked (daemon.c:151-178).                   *)
LEMMA ArmedLast ==
  ASSUME calls \in 0..4
  PROVE  /\ Done("sigprocmask") <=> calls >= 1
         /\ Done("F_SETSIG") <=> calls >= 2
         /\ Done("O_ASYNC") <=> calls >= 3
         /\ Done("F_SETOWN") <=> calls = 4
  BY DEF Done, InitCalls

(* Type correctness of the loop of daemon.c for all constants, and of the  *)
(* number of calls daemon_init has made at each point.                     *)
THEOREM DaemonTypeCorrect == DaemonSafety => [](DaemonTypeOK /\ CallsOfPc)
<1> USE DEF DaemonTypeOK, CallsOfPc, InLoop, Gone
<1>1. DaemonInit => DaemonTypeOK /\ CallsOfPc
  <2> SUFFICES ASSUME DaemonInit PROVE DaemonTypeOK /\ CallsOfPc
    OBVIOUS
  <2>1. queue \in Seq(Datagrams) /\ arrived \in Seq(Datagrams)
    BY DEF DaemonInit
  <2>2. term \in BOOLEAN
    BY Zenon DEF DaemonInit
  <2> QED
    BY <2>1, <2>2 DEF DaemonInit
<1>2. DaemonTypeOK /\ CallsOfPc /\ [DaemonNext]_daemonVars
      => DaemonTypeOK' /\ CallsOfPc'
  <2> SUFFICES ASSUME DaemonTypeOK, CallsOfPc, [DaemonNext]_daemonVars
               PROVE  DaemonTypeOK' /\ CallsOfPc'
    OBVIOUS
  <2>1. ASSUME NEW d \in Datagrams, Arrive(d) PROVE DaemonTypeOK' /\ CallsOfPc'
    BY <2>1 DEF Arrive, RaiseIo
  <2>2. CASE Sigterm
    BY <2>2 DEF Sigterm
  <2>3. CASE Stray
    BY <2>3 DEF Stray
  <2>4. CASE InitCall
    BY <2>4 DEF InitCall
  <2>5. CASE InitFails
    BY <2>5 DEF InitFails
  <2>6. CASE DaemonWait
    <3>1. term' \in BOOLEAN
      BY <2>6, Zenon DEF DaemonWait
    <3> QED
      BY <2>6, <3>1 DEF DaemonWait
  <2>7. CASE Recv
    BY <2>7 DEF Recv
  <2>8. CASE RecvFails
    BY <2>8 DEF RecvFails
  <2>9. CASE Close
    BY <2>9 DEF Close
  <2>10. ASSUME NEW next \in {"wait", "cleanup"}, RecvEmpty(next)
         PROVE  DaemonTypeOK' /\ CallsOfPc'
    BY <2>10 DEF RecvEmpty
  <2>11. ASSUME NEW next \in {"wait", "cleanup"}, Handled(next)
         PROVE  DaemonTypeOK' /\ CallsOfPc'
    BY <2>11 DEF Handled
  <2>12. CASE UNCHANGED daemonVars
    BY <2>12 DEF daemonVars
  <2> QED
    BY <2>1, <2>2, <2>3, <2>4, <2>5, <2>6, <2>7, <2>8, <2>9, <2>10, <2>11, <2>12
       DEF DaemonNext, Kernel, Process
<1> QED
  BY <1>1, <1>2, PTL DEF DaemonSafety

-----------------------------------------------------------------------------
(* The balance of signals and datagrams holds for every queue size and     *)
(* number of arrivals: the loop of daemon.c:187-201 neither accumulates    *)
(* signals nor loses them, so it lags by the early datagrams for ever.     *)
THEOREM DaemonBalance == DaemonSafety => []WakeupBalance
<1> USE DEF DaemonTypeOK, CallsOfPc, WakeupBalance, InLoop, Gone
<1>1. DaemonInit => WakeupBalance
  BY DEF DaemonInit
<1>2. DaemonTypeOK /\ CallsOfPc /\ WakeupBalance /\ [DaemonNext]_daemonVars
      => WakeupBalance'
  <2> SUFFICES ASSUME DaemonTypeOK, CallsOfPc, WakeupBalance,
                      [DaemonNext]_daemonVars
               PROVE  WakeupBalance'
    OBVIOUS
  <2>1. ASSUME NEW d \in Datagrams, Arrive(d) PROVE WakeupBalance'
    <3>1. Len(queue') = Len(queue) + 1
      BY <2>1 DEF Arrive
    <3>2. CASE Done("O_ASYNC") /\ Done("F_SETOWN")
      <4>1. \/ pc' = pc /\ io' = io + 1
            \/ pc' = "sigio"
        BY <2>1, <3>2 DEF Arrive, RaiseIo
      <4>2. early' = early /\ strays' = strays /\ empties' = empties
        BY <2>1, <3>2 DEF Arrive
      <4> QED
        BY <3>1, <4>1, <4>2
    <3>3. CASE ~(Done("O_ASYNC") /\ Done("F_SETOWN"))
      <4>1. /\ early' = early + 1
            /\ UNCHANGED <<pc, io, strays, empties>>
        BY <2>1, <3>3 DEF Arrive
      <4> QED
        BY <3>1, <4>1
    <3> QED
      BY <3>2, <3>3
  <2>2. CASE Sigterm
    BY <2>2 DEF Sigterm
  <2>3. CASE Stray
    BY <2>3 DEF Stray
  <2>4. CASE InitCall
    BY <2>4 DEF InitCall
  <2>5. CASE InitFails \/ RecvFails \/ Close
    BY <2>5 DEF InitFails, RecvFails, Close
  <2>6. CASE DaemonWait
    BY <2>6 DEF DaemonWait
  <2>7. CASE Recv
    <3>1. Len(queue') = Len(queue) - 1
      BY <2>7 DEF Recv
    <3> QED
      BY <2>7, <3>1 DEF Recv
  <2>8. ASSUME NEW next \in {"wait", "cleanup"}, RecvEmpty(next)
        PROVE  WakeupBalance'
    BY <2>8 DEF RecvEmpty
  <2>9. ASSUME NEW next \in {"wait", "cleanup"}, Handled(next)
        PROVE  WakeupBalance'
    BY <2>9 DEF Handled
  <2>10. CASE UNCHANGED daemonVars
    BY <2>10 DEF daemonVars
  <2> QED
    BY <2>1, <2>2, <2>3, <2>4, <2>5, <2>6, <2>7, <2>8, <2>9, <2>10
       DEF DaemonNext, Kernel, Process
<1> QED
  BY <1>1, <1>2, DaemonTypeCorrect, PTL DEF DaemonSafety

-----------------------------------------------------------------------------
(* While the server lives its signal queue is never deeper than its receive *)
(* queue, but for the strays, so if the limit on pending signals covers     *)
(* both, no arrival ever falls back to the deadly SIGIO (daemon.c:165-178). *)
THEOREM DaemonNoSignalDeath ==
  ASSUME QueueMax + MaxStrays <= SigPendingMax
  PROVE  DaemonSafety => []NoSignalDeath
<1> USE DaemonAssumption
    DEF DaemonTypeOK, CallsOfPc, SignalsBounded, NoSignalDeath, Alive, InLoop, Gone
<1>1. DaemonInit => SignalsBounded /\ NoSignalDeath
  BY DEF DaemonInit
<1>2. /\ DaemonTypeOK /\ CallsOfPc /\ SignalsBounded /\ NoSignalDeath
      /\ [DaemonNext]_daemonVars
      => SignalsBounded' /\ NoSignalDeath'
  <2> SUFFICES ASSUME DaemonTypeOK, CallsOfPc, SignalsBounded, NoSignalDeath,
                      [DaemonNext]_daemonVars
               PROVE  SignalsBounded' /\ NoSignalDeath'
    OBVIOUS
  <2>1. ASSUME NEW d \in Datagrams, Arrive(d)
        PROVE  SignalsBounded' /\ NoSignalDeath'
    <3>1. Len(queue') = Len(queue) + 1
      BY <2>1 DEF Arrive
    <3>2. CASE Done("O_ASYNC") /\ Done("F_SETOWN")
      <4>1. Done("F_SETSIG") /\ Done("sigprocmask") /\ io < SigPendingMax
        BY <2>1, <3>2, ArmedLast DEF Arrive
      <4> QED
        BY <2>1, <3>1, <3>2, <4>1 DEF Arrive, RaiseIo
    <3>3. CASE ~(Done("O_ASYNC") /\ Done("F_SETOWN"))
      BY <2>1, <3>1, <3>3 DEF Arrive
    <3> QED
      BY <3>2, <3>3
  <2>2. CASE Sigterm
    BY <2>2 DEF Sigterm
  <2>3. CASE Stray
    BY <2>3 DEF Stray
  <2>4. CASE InitCall
    BY <2>4 DEF InitCall
  <2>5. CASE InitFails \/ RecvFails
    BY <2>5 DEF InitFails, RecvFails
  <2>6. CASE Close
    BY <2>6 DEF Close
  <2>7. CASE DaemonWait
    BY <2>7 DEF DaemonWait
  <2>8. CASE Recv
    <3>1. Len(queue') = Len(queue) - 1
      BY <2>8 DEF Recv
    <3> QED
      BY <2>8, <3>1 DEF Recv
  <2>9. ASSUME NEW next \in {"wait", "cleanup"}, RecvEmpty(next)
        PROVE  SignalsBounded' /\ NoSignalDeath'
    BY <2>9 DEF RecvEmpty
  <2>10. ASSUME NEW next \in {"wait", "cleanup"}, Handled(next)
        PROVE  SignalsBounded' /\ NoSignalDeath'
    BY <2>10 DEF Handled
  <2>11. CASE UNCHANGED daemonVars
    BY <2>11 DEF daemonVars
  <2> QED
    BY <2>1, <2>2, <2>3, <2>4, <2>5, <2>6, <2>7, <2>8, <2>9, <2>10, <2>11
       DEF DaemonNext, Kernel, Process
<1> QED
  BY <1>1, <1>2, DaemonTypeCorrect, PTL DEF DaemonSafety
=============================================================================
