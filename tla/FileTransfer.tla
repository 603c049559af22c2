---------------------------- MODULE FileTransfer ----------------------------
(***************************************************************************)
(* What a TFTP transfer promises: the receiver gets the file chunk by      *)
(* chunk, reports success only once it has all of it, and the sender       *)
(* reports success only after the receiver.  Either side may give up.      *)
(* From the moment that one of them takes a third party's packet for the   *)
(* other's, all that is promised is that what is over stays over.          *)
(***************************************************************************)
EXTENDS Naturals

VARIABLES
  length,   \* of the file, in chunks
  copied,   \* how many chunks, from the first on, the receiver has
  sender,   \* "running", then "success" or "failed"
  receiver, \* likewise
  misled    \* has a third party's packet been taken for the other side's?

fileTransferVars == <<length, copied, sender, receiver, misled>>

FileTransferInit ==
  /\ length \in Nat \ {0} /\ copied = 0
  /\ sender = "running" /\ receiver = "running" /\ misled = FALSE

Copy ==
  /\ receiver = "running" /\ copied < length
  /\ copied' = copied + 1
  /\ receiver' \in {"running", "success"}
  /\ receiver' = "success" => copied' = length
  /\ UNCHANGED <<length, sender, misled>>

Complete ==
  /\ receiver = "running" /\ copied = length
  /\ receiver' = "success"
  /\ UNCHANGED <<length, copied, sender, misled>>

Confirm ==
  /\ sender = "running" /\ receiver = "success"
  /\ sender' = "success"
  /\ UNCHANGED <<length, copied, receiver, misled>>

(* A receiver that gives up may keep what it has or discard it. *)
ReceiverGivesUp ==
  /\ receiver = "running"
  /\ receiver' = "failed"
  /\ copied' \in {0, copied}
  /\ UNCHANGED <<length, sender, misled>>

SenderGivesUp ==
  /\ sender = "running"
  /\ sender' = "failed"
  /\ UNCHANGED <<length, copied, receiver, misled>>

(* What the receiver has may be anything from then on. *)
Misled ==
  /\ misled' = TRUE
  /\ sender # "running" => sender' = sender
  /\ receiver # "running" => receiver' = receiver
  /\ UNCHANGED length

FileTransferNext ==
  Copy \/ Complete \/ Confirm \/ ReceiverGivesUp \/ SenderGivesUp \/ Misled

FileTransferSpec == FileTransferInit /\ [][FileTransferNext]_fileTransferVars
=============================================================================
