------------------------------ MODULE TftpWrq -------------------------------
(***************************************************************************)
(* An upload: _handle_wrq of tftpd.c against a client that follows RFC     *)
(* 1350, from the moment the server has created the file.  The server      *)
(* stores and acknowledges every DATA packet from its client's port,       *)
(* whatever its host and block number.                                     *)
(***************************************************************************)
EXTENDS TftpNetwork, SequencesExt, FiniteSetsExt, Functions

VARIABLES
  at,      \* the server: "greet", "receive", "write", "ack", "success", "failed"
  exists,  \* is the file there?
  file,    \* the chunks written to it
  hand,    \* the DATA packet being handled (meaningful at "write", "ack")
  sent,    \* the block the client waits to have acknowledged, 0 the request
  client   \* the client: "running", then "success" or "failed"

serverVars == <<at, exists, file, hand>>
clientVars == <<sent, client>>

NoPacket == Packet("DATA", "client", "server", 0, 0)

WrqTypeOK ==
  /\ NetworkTypeOK
  /\ at \in {"greet", "receive", "write", "ack", "success", "failed"}
  /\ exists \in BOOLEAN
  /\ file \in Seq(0..FileLength + 1)
  /\ hand \in Packets
  /\ sent \in 0..FileLength
  /\ client \in {"running", "success", "failed"}

WrqInit ==
  /\ NetworkInit
  /\ at = "greet" /\ exists = TRUE /\ file = <<>> /\ hand = NoPacket
  /\ sent = 0 /\ client = "running"

-----------------------------------------------------------------------------
(* The server.                                                             *)
AckOf(p) == Packet("ACK", "server", "client", p.id, 0)

(* Past the label close_file without success: the file is deleted.         *)
GiveUp == at' = "failed" /\ exists' = FALSE /\ UNCHANGED file

(* The request is granted with an acknowledgment of block 0.               *)
Greet ==
  /\ at = "greet"
  /\ Sends(AckOf(NoPacket))
  /\ at' = "receive"
  /\ UNCHANGED <<exists, file, hand, clientVars>>

(* The code leaves through the label end here, not through close_file.     *)
GreetFails ==
  /\ at = "greet"
  /\ at' = "failed"
  /\ Disturbs
  /\ UNCHANGED <<exists, file, hand, clientVars>>

(* Some definitions have a faulty twin in front of them, which nothing     *)
(* uses: a bug the properties detect when it takes the definition's place. *)
ReceiveAndAck(p) ==
  /\ at = "receive" /\ p.type = "DATA" /\ FromTid(p)
  /\ Answers(p, AckOf(p))
  /\ hand' = p
  /\ at' = "write"
  /\ UNCHANGED <<exists, file, clientVars>>

(* A DATA packet from the client's port; neither its number nor its host   *)
(* is looked at.                                                           *)
ReceiveData(p) ==
  /\ at = "receive" /\ p.type = "DATA" /\ FromTid(p)
  /\ Takes(p)
  /\ hand' = p
  /\ at' = "write"
  /\ UNCHANGED <<exists, file, clientVars>>

ReceiveOther(p) ==
  /\ at = "receive" /\ p.type # "DATA"
  /\ Receives(p)
  /\ GiveUp
  /\ UNCHANGED <<hand, clientVars>>

(* A DATA packet from another port; it is the client that the error is     *)
(* sent to.                                                                *)
ReceiveStrange(p) ==
  /\ at = "receive" /\ p.type = "DATA" /\ ~FromTid(p)
  /\ Answers(p, Packet("ERROR", "server", "client", 0, 0))
  /\ GiveUp
  /\ UNCHANGED <<hand, clientVars>>

ServerReceives ==
  \E p \in BagToSet(net) :
    p.to = "server" /\ (ReceiveData(p) \/ ReceiveOther(p) \/ ReceiveStrange(p))

(* SO_RCVTIMEO: nothing arrives for SOCKET_TIMEOUT seconds.                *)
ReceiveTimesOut ==
  /\ at = "receive"
  /\ GiveUp
  /\ Disturbs
  /\ UNCHANGED <<hand, clientVars>>

Write ==
  /\ at = "write"
  /\ file' = Append(file, hand.chunk)
  /\ at' = "ack"
  /\ UNCHANGED <<networkVars, exists, hand, clientVars>>

WriteErrorIgnored ==
  /\ at = "write"
  /\ at' = "ack"
  /\ Disturbs
  /\ UNCHANGED <<exists, file, hand, clientVars>>

(* write() fails or is cut short; the client is told if the disk is full.  *)
WriteFails ==
  /\ at = "write"
  /\ GiveUp
  /\ net' \in {net, Copies!BagAdd(net, Packet("ERROR", "server", "client", 0, 0))}
  /\ disturbed' = TRUE
  /\ UNCHANGED <<dups, strangers, retries, mistaken, hand, clientVars>>

(* The chunk is acknowledged; a short one was the last.                    *)
Ack ==
  /\ at = "ack"
  /\ Sends(AckOf(hand))
  /\ at' = IF hand.chunk >= FileLength THEN "success" ELSE "receive"
  /\ UNCHANGED <<exists, file, hand, clientVars>>

AckFails ==
  /\ at = "ack"
  /\ GiveUp
  /\ Disturbs
  /\ UNCHANGED <<hand, clientVars>>

Server ==
  \/ Greet \/ GreetFails
  \/ ServerReceives \/ ReceiveTimesOut
  \/ Write \/ WriteFails
  \/ Ack \/ AckFails

-----------------------------------------------------------------------------
(* The client.                                                             *)
Block(n) == Packet("DATA", "client", "server", n % IdMod, n)

Acknowledges(p) == p.type = "ACK" /\ p.id = sent % IdMod

(* The block it waits for is acknowledged: it sends the next one.          *)
SendNext(p) ==
  /\ client = "running" /\ Acknowledges(p) /\ sent < FileLength
  /\ sent' = sent + 1
  /\ Answers(p, Block(sent + 1))
  /\ UNCHANGED <<serverVars, client>>

(* The last block is acknowledged.                                         *)
ClientDone(p) ==
  /\ client = "running" /\ Acknowledges(p) /\ sent = FileLength
  /\ Receives(p)
  /\ client' = "success"
  /\ UNCHANGED <<serverVars, sent>>

ClientFails(p) ==
  /\ client = "running" /\ p.type = "ERROR"
  /\ Receives(p)
  /\ client' = "failed"
  /\ UNCHANGED <<serverVars, sent>>

(* Old acknowledgments are not answered (RFC 1123, 4.2.3.1).               *)
ClientDrops(p) ==
  /\ client # "running" \/ (p.type = "ACK" /\ ~Acknowledges(p))
  /\ Receives(p)
  /\ UNCHANGED <<serverVars, clientVars>>

ClientReceives ==
  \E p \in BagToSet(net) :
    /\ p.to = "client"
    /\ SendNext(p) \/ ClientDone(p) \/ ClientFails(p) \/ ClientDrops(p)

(* The client's own timeout: it sends the block again or gives up.         *)
ClientRepeats ==
  /\ client = "running" /\ sent > 0
  /\ Resends(Block(sent))
  /\ UNCHANGED <<serverVars, clientVars>>

ClientGivesUp ==
  /\ client = "running"
  /\ client' = "failed"
  /\ Disturbs
  /\ UNCHANGED <<serverVars, sent>>

-----------------------------------------------------------------------------
Client == ClientReceives \/ ClientRepeats \/ ClientGivesUp

-----------------------------------------------------------------------------
(* What an upload comes to, in the terms of module FileTransfer.           *)
Copied == IF exists THEN Max(Range(file) \cup {0}) ELSE 0
Sender == client
Receiver == IF at \in {"success", "failed"} THEN at ELSE "running"

(* What the client knows to be acknowledged is stored, in order, unless    *)
(* the server gave up since or a namesake's packet was acknowledged under  *)
(* its number: a chunk is written before it is acknowledged, whatever the  *)
(* network does (tftpd.c:331-349).                                         *)
Acknowledged == IF client = "success" THEN sent ELSE IF sent = 0 THEN 0 ELSE sent - 1

Genuine(n) == {i \in 1..n : (i % IdMod) \notin mistaken}

InOrder(chunks, f) ==
  \E places \in [chunks -> 1..Len(f)] :
    \A i \in chunks :
      /\ f[places[i]] = i
      /\ \A j \in chunks : j < i => places[j] < places[i]

AcknowledgedIsStored == exists => InOrder(Genuine(Acknowledged), file)
=============================================================================
