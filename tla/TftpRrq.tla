------------------------------ MODULE TftpRrq -------------------------------
(***************************************************************************)
(* A download: _handle_rrq of tftpd.c against a client that follows        *)
(* RFC 1350, from the moment the server has opened the file.  The server   *)
(* sends a chunk and waits, once, for its acknowledgment: whatever else    *)
(* arrives, or nothing in time, ends the transfer.                         *)
(***************************************************************************)
EXTENDS TftpNetwork, Sequences

VARIABLES
  at,      \* the server: "send", "await", then "success" or "failed"
  block,   \* how many chunks the server has read and sent
  id,      \* the number of the last one, a uint16_t
  got,     \* the chunks the client has accepted
  client   \* the client: "running", then "success" or "failed"

serverVars == <<at, block, id>>
clientVars == <<got, client>>

RrqTypeOK ==
  /\ NetworkTypeOK
  /\ at \in {"send", "await", "success", "failed"}
  /\ block \in 0..FileLength
  /\ id \in BlockIds
  /\ got \in Seq(1..FileLength)
  /\ client \in {"running", "success", "failed"}

RrqInit ==
  /\ NetworkInit
  /\ at = "send" /\ block = 0 /\ id = 0
  /\ got = <<>> /\ client = "running"

-----------------------------------------------------------------------------
(* The server.                                                             *)

(* Some definitions have a faulty twin in front of them, which nothing     *)
(* uses: a bug the properties detect when it takes the definition's place. *)
SendChunkWideId ==
  /\ at = "send"
  /\ block' = block + 1
  /\ id' = id + 1
  /\ Sends(Packet("DATA", "server", "client", id' % IdMod, block'))
  /\ at' = "await"
  /\ UNCHANGED clientVars

(* Reads the next chunk and sends it under the next number.                *)
SendChunk ==
  /\ at = "send"
  /\ block' = block + 1
  /\ id' = (id + 1) % IdMod
  /\ Sends(Packet("DATA", "server", "client", id', block'))
  /\ at' = "await"
  /\ UNCHANGED clientVars

(* read() or sendto() fails.                                               *)
SendChunkFails ==
  /\ at = "send"
  /\ at' = "failed"
  /\ Disturbs
  /\ UNCHANGED <<block, id, clientVars>>

IsAck(p) == p.type = "ACK" /\ p.id = id

AckOfAnyone(p) ==
  /\ at = "await" /\ IsAck(p)
  /\ Takes(p)
  /\ at' = IF block = FileLength THEN "success" ELSE "send"
  /\ UNCHANGED <<block, id, clientVars>>

AckOfLastToo(p) ==
  /\ at = "await" /\ IsAck(p) /\ FromTid(p)
  /\ Takes(p)
  /\ at' = "send"
  /\ UNCHANGED <<block, id, clientVars>>

(* The expected acknowledgment from the client's port, whose host is not   *)
(* looked at: the transfer is over once a short chunk is acknowledged.     *)
ReceiveAck(p) ==
  /\ at = "await" /\ IsAck(p) /\ FromTid(p)
  /\ Takes(p)
  /\ at' = IF block = FileLength THEN "success" ELSE "send"
  /\ UNCHANGED <<block, id, clientVars>>

(* Any other packet, an old acknowledgment included, ends the transfer.    *)
ReceiveOther(p) ==
  /\ at = "await" /\ ~IsAck(p)
  /\ Receives(p)
  /\ at' = "failed"
  /\ UNCHANGED <<block, id, clientVars>>

(* So does the right acknowledgment from another port; it is the client    *)
(* that the error is sent to.                                              *)
ReceiveStrange(p) ==
  /\ at = "await" /\ IsAck(p) /\ ~FromTid(p)
  /\ Answers(p, Packet("ERROR", "server", "client", 0, 0))
  /\ at' = "failed"
  /\ UNCHANGED <<block, id, clientVars>>

TimeoutIgnored ==
  /\ at = "await"
  /\ UNCHANGED <<networkVars, serverVars, clientVars>>

(* SO_RCVTIMEO: nothing arrives for SOCKET_TIMEOUT seconds.                *)
AwaitTimesOut ==
  /\ at = "await"
  /\ at' = "failed"
  /\ Disturbs
  /\ UNCHANGED <<block, id, clientVars>>

ServerReceives ==
  \E p \in BagToSet(net) :
    p.to = "server" /\ (ReceiveAck(p) \/ ReceiveOther(p) \/ ReceiveStrange(p))

-----------------------------------------------------------------------------
(* The client.                                                             *)
AckOf(n) == Packet("ACK", "client", "server", n % IdMod, 0)

(* The next chunk: the client accepts it, and is done if it is short.      *)
AcceptChunk(p) ==
  /\ client = "running" /\ p.type = "DATA" /\ p.id = (Len(got) + 1) % IdMod
  /\ got' = Append(got, p.chunk)
  /\ Answers(p, AckOf(Len(got) + 1))
  /\ client' = IF p.chunk = FileLength THEN "success" ELSE "running"
  /\ UNCHANGED serverVars

(* The chunk it accepted last, once more: its acknowledgment was lost.     *)
AckAgain(p) ==
  /\ client # "failed" /\ p.type = "DATA" /\ got # <<>> /\ p.id = Len(got) % IdMod
  /\ Answers(p, AckOf(Len(got)))
  /\ UNCHANGED <<serverVars, clientVars>>

ClientFails(p) ==
  /\ client = "running" /\ p.type = "ERROR"
  /\ Receives(p)
  /\ client' = "failed"
  /\ UNCHANGED <<serverVars, got>>

ClientDrops(p) ==
  /\ \/ client = "failed"
     \/ client = "success" /\ ~(p.type = "DATA" /\ p.id = Len(got) % IdMod)
     \/ p.type = "DATA" /\ p.id \notin {Len(got) % IdMod, (Len(got) + 1) % IdMod}
     \/ p.type = "DATA" /\ got = <<>> /\ p.id # 1 % IdMod
  /\ Receives(p)
  /\ UNCHANGED <<serverVars, clientVars>>

ClientReceives ==
  \E p \in BagToSet(net) :
    /\ p.to = "client"
    /\ AcceptChunk(p) \/ AckAgain(p) \/ ClientFails(p) \/ ClientDrops(p)

(* The client's own timeout: it repeats its last acknowledgment or gives up. *)
ClientRepeats ==
  /\ client = "running" /\ got # <<>>
  /\ Resends(AckOf(Len(got)))
  /\ UNCHANGED <<serverVars, clientVars>>

ClientGivesUp ==
  /\ client = "running"
  /\ client' = "failed"
  /\ Disturbs
  /\ UNCHANGED <<serverVars, got>>

-----------------------------------------------------------------------------
Server == SendChunk \/ SendChunkFails \/ ServerReceives \/ AwaitTimesOut

Client == ClientReceives \/ ClientRepeats \/ ClientGivesUp

-----------------------------------------------------------------------------
(* What a download comes to, in the terms of module FileTransfer.          *)
Copied == Len(got)
Sender == IF at \in {"success", "failed"} THEN at ELSE "running"
Receiver == client

(* The server runs ahead of the client by no chunk but one whose number a  *)
(* namesake acknowledged: what the client has is a beginning of the file,  *)
(* in order, and the server counts no old acknowledgment and no stranger's *)
(* as the one it waits for, whatever the network does (tftpd.c:434-480).   *)
LockStep ==
  at \in {"send", "success"} =>
    /\ Len(got) <= block /\ got = [i \in 1..Len(got) |-> i]
    /\ \A n \in Len(got) + 1..block : (n % IdMod) \in mistaken
=============================================================================
