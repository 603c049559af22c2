---------------------------- MODULE TftpTransfer ----------------------------
(***************************************************************************)
(* The transfer that a child of tftpd makes after it has received and      *)
(* parsed a request, with its client and the network between them: a       *)
(* download as in module TftpRrq or an upload as in TftpWrq.               *)
(***************************************************************************)
EXTENDS TftpNetwork, Sequences

CONSTANT UploadLength  \* FileLength is that of a file to download

ASSUME UploadAssumption == UploadLength \in Nat \ {0}

VARIABLES
  kind,                       \* the request: "rrq" or "wrq"
  at, client,                 \* of either kind of transfer
  block, id, got,             \* of a download
  exists, file, hand, sent    \* of an upload

rrqOnly == <<block, id, got>>
wrqOnly == <<exists, file, hand, sent>>
transferVars == <<networkVars, kind, at, client, rrqOnly, wrqOnly>>

Rrq == INSTANCE TftpRrq
Wrq == INSTANCE TftpWrq WITH FileLength <- UploadLength

TransferTypeOK ==
  \/ kind = "rrq" /\ Rrq!RrqTypeOK
  \/ kind = "wrq" /\ Wrq!WrqTypeOK

(* The request's opcode decides which of the two starts.                   *)
TransferInit ==
  \/ /\ kind = "rrq" /\ Rrq!RrqInit
     /\ exists = FALSE /\ file = <<>> /\ hand = Wrq!NoPacket /\ sent = 0
  \/ /\ kind = "wrq" /\ Wrq!WrqInit
     /\ block = 0 /\ id = 0 /\ got = <<>>

Server ==
  /\ UNCHANGED kind
  /\ \/ kind = "rrq" /\ Rrq!Server /\ UNCHANGED wrqOnly
     \/ kind = "wrq" /\ Wrq!Server /\ UNCHANGED rrqOnly

Client ==
  /\ UNCHANGED kind
  /\ \/ kind = "rrq" /\ Rrq!Client /\ UNCHANGED wrqOnly
     \/ kind = "wrq" /\ Wrq!Client /\ UNCHANGED rrqOnly

TransferNext ==
  \/ Server
  \/ Client
  \/ /\ Network(IF kind = "rrq" THEN FileLength ELSE UploadLength)
     /\ UNCHANGED <<kind, at, client, rrqOnly, wrqOnly>>

TransferSafety == TransferInit /\ [][TransferNext]_transferVars

(* The child runs, and its recvfrom() returns in the end.                  *)
TransferSpec == TransferSafety /\ WF_transferVars(Server)

-----------------------------------------------------------------------------
(* A transfer is a file transfer, whatever the network loses, repeats,     *)
(* delays or reorders and whatever arrives from other ports: the receiver  *)
(* skips no chunk, reports success only with all of them, and the sender's *)
(* success comes last (tftpd.c:298-352, 414-487).  Only a packet from the  *)
(* client's port that is not the client's, which the server cannot tell    *)
(* (tftpd.c:317-326, 468-477), voids that.                                 *)
Transfer == INSTANCE FileTransfer
  WITH length <- IF kind = "rrq" THEN FileLength ELSE UploadLength,
       copied <- IF kind = "rrq" THEN Rrq!Copied ELSE Wrq!Copied,
       sender <- IF kind = "rrq" THEN Rrq!Sender ELSE Wrq!Sender,
       receiver <- IF kind = "rrq" THEN Rrq!Receiver ELSE Wrq!Receiver,
       misled <- mistaken # {}

ImplementsFileTransfer == Transfer!FileTransferSpec

(* The server of a download runs ahead of its client by no chunk but one   *)
(* that a namesake acknowledged (tftpd.c:434-480).                         *)
LockStep == kind = "rrq" => Rrq!LockStep

(* What the client of an upload knows to be acknowledged is stored, unless *)
(* it was a namesake's packet that was acknowledged (tftpd.c:331-349).     *)
AcknowledgedIsStored == kind = "wrq" => Wrq!AcknowledgedIsStored

(* The block numbers discriminate between new packets and duplicates       *)
(* (RFC 1350, which tftpd.c:1 says it is written to): what the server      *)
(* stores is the file the client sends.                                    *)
StoresTheFile ==
  kind = "wrq" /\ at = "success" => file = [i \in 1..UploadLength |-> i]

(* A transfer that nothing disturbs does not fail: without a loss, a       *)
(* duplicate, a stranger, a failed call or a timeout, the checks never     *)
(* refuse a real packet, however often the block number wraps around       *)
(* (tftpd.c:298-352, 434-480).                                             *)
QuietNeverFails == at = "failed" \/ client = "failed" => disturbed

(* The child always ends: it waits for no packet longer than the socket's  *)
(* timeout, and a client sends a finite number of them (tftpd.c:154-174,   *)
(* 326-331, 446-455).                                                      *)
TransferEnds == <>(at \in {"success", "failed"})
=============================================================================
