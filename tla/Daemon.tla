------------------------------- MODULE Daemon -------------------------------
(***************************************************************************)
(* The signal-driven server loop of lazy-utils (daemon.c and the loops of  *)
(* syslogd.c, modprobed.c, devd.c and tftpd.c around it), together with    *)
(* the part of the kernel it relies on.                                    *)
(*                                                                         *)
(* A server binds a datagram socket, turns it into one that raises a       *)
(* queued real-time signal for every datagram that arrives (daemon_init),  *)
(* then alternates between sigwait() and ONE non-blocking receive for each *)
(* signal.  Datagrams may arrive from the moment the socket is bound,      *)
(* before the signals are armed.                                           *)
(***************************************************************************)
EXTENDS Naturals, Sequences

CONSTANTS
  Datagrams,      \* what a datagram may carry
  QueueMax,       \* capacity of the socket's receive queue, in datagrams
  SigPendingMax,  \* RLIMIT_SIGPENDING: queued signals the kernel accepts
  MaxArrivals,    \* bound: datagrams sent to the server
  MaxEarly,       \* bound: those of them sent while the server starts
  MaxStrays       \* bound: io_signals sent by anyone but the socket

ASSUME DaemonAssumption ==
  /\ QueueMax \in Nat \ {0}
  /\ SigPendingMax \in Nat
  /\ MaxArrivals \in Nat
  /\ MaxEarly \in Nat
  /\ MaxStrays \in Nat

VARIABLES
  pc,       \* where the process is
  calls,    \* how many of InitCalls daemon_init has made
  queue,    \* the socket's receive queue
  io,       \* io_signals pending for the process
  term,     \* is a SIGTERM pending?
  msg,      \* the datagram being handled (meaningful at "handle")
  arrived,  \* history: the datagrams queued so far
  early,    \* history: how many of them raised no signal
  strays,   \* history: io_signals that no datagram raised
  empties   \* history: receives that found the queue empty

daemonVars == <<pc, calls, queue, io, term, msg, arrived, early, strays, empties>>

-----------------------------------------------------------------------------
(* Control points: "init" inside daemon_init, "wait" in sigwait(), "recv"  *)
(* before the receive, "handle" while the datagram is processed, "cleanup" *)
(* after the loop was left.  The process is gone at "exited" (it returned  *)
(* from main), "killed" (SIGTERM before it was blocked) and "sigio" (a     *)
(* signal raised by its own socket, not blocked, took the default action). *)
InLoop == {"wait", "recv", "handle"}
Gone   == {"exited", "killed", "sigio"}
Alive  == pc \notin Gone

(* Some definitions have a faulty twin in front of them, which nothing     *)
(* uses: a bug that the properties at the end detect when it takes the     *)
(* definition's place.                                                     *)

(* The calls of daemon_init that the rest of the system can observe, in    *)
(* the order the code makes them.                                          *)
OwnerFirst == <<"F_SETOWN", "F_SETSIG", "O_ASYNC", "sigprocmask">>

InitCalls == <<"sigprocmask", "F_SETSIG", "O_ASYNC", "F_SETOWN">>

Done(c) == \E i \in 1..calls : InitCalls[i] = c

DaemonTypeOK ==
  /\ pc \in {"init", "cleanup"} \cup InLoop \cup Gone
  /\ calls \in 0..4
  /\ queue \in Seq(Datagrams)
  /\ io \in Nat
  /\ term \in BOOLEAN
  /\ msg \in Datagrams
  /\ arrived \in Seq(Datagrams)
  /\ early \in Nat
  /\ strays \in Nat
  /\ empties \in Nat

DaemonInit ==
  /\ pc = "init"
  /\ calls = 0
  /\ queue = <<>>
  /\ io = 0
  /\ term = FALSE
  /\ msg \in Datagrams
  /\ arrived = <<>>
  /\ early = 0
  /\ strays = 0
  /\ empties = 0

-----------------------------------------------------------------------------
(* The kernel's side.                                                      *)

(* An armed socket signals its owner.  The signal is io_signal if F_SETSIG *)
(* chose it and one more can be queued, otherwise the kernel falls back to *)
(* SIGIO.  io_signal is blocked with sigprocmask; SIGIO never is, and its  *)
(* default action ends the process, as does an unblocked io_signal.        *)
RaiseStandardIo ==
  IF Done("F_SETSIG") /\ Done("sigprocmask")
    THEN io' = 1 /\ UNCHANGED pc
    ELSE pc' = "sigio" /\ UNCHANGED io

RaiseIo ==
  IF Done("F_SETSIG") /\ Done("sigprocmask") /\ io < SigPendingMax
    THEN io' = io + 1 /\ UNCHANGED pc
    ELSE pc' = "sigio" /\ UNCHANGED io

(* A datagram reaches the bound socket; a full queue refuses it.           *)
Arrive(d) ==
  /\ Alive
  /\ Len(queue) < QueueMax
  /\ Len(arrived) < MaxArrivals
  /\ queue' = Append(queue, d)
  /\ arrived' = Append(arrived, d)
  /\ IF Done("O_ASYNC") /\ Done("F_SETOWN")
       THEN RaiseIo /\ UNCHANGED early
       ELSE early < MaxEarly /\ early' = early + 1 /\ UNCHANGED <<pc, io>>
  /\ UNCHANGED <<calls, term, msg, strays, empties>>

(* An administrator sends SIGTERM: kept pending once it is blocked, deadly *)
(* before.                                                                 *)
Sigterm ==
  /\ Alive /\ ~term
  /\ IF Done("sigprocmask")
       THEN term' = TRUE /\ UNCHANGED pc
       ELSE pc' = "killed" /\ UNCHANGED term
  /\ UNCHANGED <<calls, queue, io, msg, arrived, early, strays, empties>>

(* An io_signal that announces no datagram: another process sent it, or    *)
(* the kernel discarded the datagram (a bad checksum) after signalling.    *)
Stray ==
  /\ Alive /\ Done("sigprocmask")
  /\ strays < MaxStrays
  /\ strays' = strays + 1
  /\ io' = io + 1
  /\ UNCHANGED <<pc, calls, queue, term, msg, arrived, early, empties>>

-----------------------------------------------------------------------------
(* The process's side.                                                     *)

(* daemon_init makes its next call; after the last one main enters the loop. *)
InitCall ==
  /\ pc = "init"
  /\ calls' = calls + 1
  /\ pc' = IF calls' = 4 THEN "wait" ELSE "init"
  /\ UNCHANGED <<queue, io, term, msg, arrived, early, strays, empties>>

(* One of the calls fails: daemon_init returns false and main cleans up.   *)
InitFails ==
  /\ pc = "init"
  /\ pc' = "cleanup"
  /\ UNCHANGED <<calls, queue, io, term, msg, arrived, early, strays, empties>>

WaitWithoutSignal ==
  /\ pc = "wait"
  /\ io' = io - 1
  /\ pc' = "recv"
  /\ UNCHANGED <<calls, queue, term, msg, arrived, early, strays, empties>>

SigtermIgnored ==
  /\ pc = "wait"
  /\ \/ /\ term
        /\ term' = FALSE
        /\ UNCHANGED <<pc, io>>
     \/ /\ ~term /\ io > 0
        /\ io' = io - 1
        /\ pc' = "recv"
        /\ UNCHANGED term
  /\ UNCHANGED <<calls, queue, msg, arrived, early, strays, empties>>

(* daemon_wait: sigwait() takes the pending signal with the lowest number, *)
(* so SIGTERM before io_signal.  SIGTERM leaves the loop.                  *)
DaemonWait ==
  /\ pc = "wait"
  /\ \/ /\ term
        /\ term' = FALSE
        /\ pc' = "cleanup"
        /\ UNCHANGED io
     \/ /\ ~term /\ io > 0
        /\ io' = io - 1
        /\ pc' = "recv"
        /\ UNCHANGED term
  /\ UNCHANGED <<calls, queue, msg, arrived, early, strays, empties>>

(* The non-blocking receive takes the oldest datagram.                     *)
Recv ==
  /\ pc = "recv" /\ queue # <<>>
  /\ msg' = Head(queue)
  /\ queue' = Tail(queue)
  /\ pc' = "handle"
  /\ UNCHANGED <<calls, io, term, arrived, early, strays, empties>>

StaleReceive(next) ==
  /\ pc = "recv" /\ queue = <<>>
  /\ empties' = empties + 1
  /\ pc' = "handle"
  /\ UNCHANGED <<calls, queue, io, term, msg, arrived, early, strays>>

(* The receive finds nothing (EAGAIN); a server goes on or gives up.       *)
RecvEmpty(next) ==
  /\ pc = "recv" /\ queue = <<>>
  /\ empties' = empties + 1
  /\ pc' = next
  /\ UNCHANGED <<calls, queue, io, term, msg, arrived, early, strays>>

(* The receive fails with any other error: every server gives up.          *)
RecvFails ==
  /\ pc = "recv"
  /\ pc' = "cleanup"
  /\ UNCHANGED <<calls, queue, io, term, msg, arrived, early, strays, empties>>

ReceivesAgain(next) ==
  /\ pc = "handle"
  /\ pc' = IF next = "wait" THEN "recv" ELSE next
  /\ UNCHANGED <<calls, queue, io, term, msg, arrived, early, strays, empties>>

(* The server is done with the datagram: it goes on or gives up.           *)
Handled(next) ==
  /\ pc = "handle"
  /\ pc' = next
  /\ UNCHANGED <<calls, queue, io, term, msg, arrived, early, strays, empties>>

(* main closes the socket, whose queue is lost, and returns.               *)
Close ==
  /\ pc = "cleanup"
  /\ pc' = "exited"
  /\ queue' = <<>>
  /\ UNCHANGED <<calls, io, term, msg, arrived, early, strays, empties>>

-----------------------------------------------------------------------------
Kernel ==
  \/ \E d \in Datagrams : Arrive(d)
  \/ Sigterm
  \/ Stray

Process ==
  \/ InitCall \/ InitFails
  \/ DaemonWait
  \/ Recv \/ RecvFails
  \/ \E next \in {"wait", "cleanup"} : RecvEmpty(next) \/ Handled(next)
  \/ Close

DaemonNext == Kernel \/ Process

DaemonSafety == DaemonInit /\ [][DaemonNext]_daemonVars

(* The scheduler keeps running the process; nobody has to send anything.   *)
DaemonSpec == DaemonSafety /\ WF_daemonVars(Process)

-----------------------------------------------------------------------------
(* The socket never kills the server: every datagram that arrives on an    *)
(* armed socket raises a blocked, queueable io_signal (daemon.c:141-178    *)
(* blocks, then selects the signal, then arms the socket).                 *)
NoSignalDeath == pc # "sigio"

(* Signals and datagrams are balanced: the signals still to be taken (the  *)
(* one at "recv" included) fall short of the queued datagrams by exactly   *)
(* the datagrams that arrived before the socket was armed, and exceed them *)
(* by the strays not yet spent on an empty receive (daemon.c:165-201).     *)
WakeupBalance ==
  pc \in {"init"} \cup InLoop =>
    Len(queue) + strays = io + early + empties + (IF pc = "recv" THEN 1 ELSE 0)

(* The loop drains the queue, down to as many datagrams as arrived before  *)
(* the socket was armed and no further.                                    *)
DrainsToEarly == (Len(queue) > early) ~> (Len(queue) <= early \/ ~Alive)

(* SIGTERM stops the process (syslogd.8, modprobed.8, tftpd.8), however    *)
(* busy the socket is.                                                     *)
TermStops == term ~> ~Alive
=============================================================================
