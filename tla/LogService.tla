----------------------------- MODULE LogService -----------------------------
(***************************************************************************)
(* What syslogd(8) promises: it receives log messages from other processes *)
(* and writes them to the system log, one after the other, in the order    *)
(* they were sent, until it stops.                                         *)
(***************************************************************************)
EXTENDS Naturals, Sequences

CONSTANT Messages

VARIABLES
  sent,    \* the messages processes have sent, oldest first
  logged,  \* the messages the log holds, oldest first
  up       \* is the service running?

logServiceVars == <<sent, logged, up>>

LogServiceInit == sent = <<>> /\ logged = <<>> /\ up = TRUE

Send(m) ==
  /\ up
  /\ sent' = Append(sent, m)
  /\ UNCHANGED <<logged, up>>

(* The oldest message that is not in the log yet goes there. *)
Record ==
  /\ up
  /\ Len(logged) < Len(sent)
  /\ logged' = Append(logged, sent[Len(logged) + 1])
  /\ UNCHANGED <<sent, up>>

(* Messages that are not in the log by now never will be. *)
Stop == up /\ up' = FALSE /\ UNCHANGED <<sent, logged>>

LogServiceNext == (\E m \in Messages : Send(m)) \/ Record \/ Stop

LogServiceSpec == LogServiceInit /\ [][LogServiceNext]_logServiceVars
=============================================================================
