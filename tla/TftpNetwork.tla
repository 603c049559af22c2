---------------------------- MODULE TftpNetwork -----------------------------
(***************************************************************************)
(* UDP between one child of tftpd and its client: packets are lost,        *)
(* duplicated, delayed and reordered, and packets that are not the         *)
(* client's may reach the child's port, which earlier transfers used       *)
(* (tftpd.c:46-56).  The child knows its client by the port alone, so some *)
(* of them look like the client's.                                         *)
(***************************************************************************)
EXTENDS Naturals, Bags

Copies == INSTANCE BagsExt

CONSTANTS
  FileLength,    \* the file's length in chunks; only the last one is short
  IdMod,         \* block numbers are modulo this: 2^16 in the code
  MaxDups,       \* bound: packets the network duplicates
  MaxStrangers,  \* bound: packets from others than the client
  MaxRetries     \* bound: packets the client sends again

ASSUME TftpNetworkAssumption ==
  /\ FileLength \in Nat \ {0}
  /\ IdMod \in Nat \ {0, 1}
  /\ MaxDups \in Nat
  /\ MaxStrangers \in Nat
  /\ MaxRetries \in Nat

VARIABLES
  net,        \* the bag of packets in flight
  dups,       \* history: packets duplicated
  strangers,  \* history: others' packets
  retries,    \* history: packets the client sent again
  disturbed,  \* history: has anything but prompt delivery happened?
  mistaken    \* history: numbers of others' packets taken for the client's

networkVars == <<net, dups, strangers, retries, disturbed, mistaken>>

-----------------------------------------------------------------------------
BlockIds == 0..IdMod - 1

(* A DATA packet of the file carries its chunk-th chunk, and one of another *)
(* file a full chunk, 0, or a short one, which is none of this file either. *)
(* A stranger sends from a port of its own; a namesake, from the client's   *)
(* port number: another host, or an earlier transfer of the client.         *)
Packet(type, from, to, id, chunk) ==
  [type |-> type, from |-> from, to |-> to, id |-> id, chunk |-> chunk]

Packets ==
  [type : {"DATA", "ACK", "ERROR"}, from : {"server", "client", "stranger", "namesake"},
   to : {"server", "client"}, id : BlockIds, chunk : 0..FileLength + 1]

(* All that the child compares of a packet's sender is its port.            *)
FromTid(p) == p.from \in {"client", "namesake"}

NetworkTypeOK ==
  /\ IsABag(net) /\ BagToSet(net) \subseteq Packets
  /\ dups \in 0..MaxDups
  /\ strangers \in 0..MaxStrangers
  /\ retries \in 0..MaxRetries
  /\ disturbed \in BOOLEAN
  /\ mistaken \subseteq BlockIds

NetworkInit ==
  /\ net = EmptyBag
  /\ dups = 0 /\ strangers = 0 /\ retries = 0
  /\ disturbed = FALSE /\ mistaken = {}

-----------------------------------------------------------------------------
historyVars == <<dups, strangers, retries, disturbed>>

(* What an endpoint does to the network: nothing but sending p, receiving  *)
(* p, receiving it for a packet of its peer, or answering p with q.        *)
Sends(p) == net' = Copies!BagAdd(net, p) /\ UNCHANGED <<historyVars, mistaken>>

Receives(p) == net' = Copies!BagRemove(net, p) /\ UNCHANGED <<historyVars, mistaken>>

Takes(p) ==
  /\ net' = Copies!BagRemove(net, p)
  /\ mistaken' = IF p.from = "namesake" THEN mistaken \cup {p.id} ELSE mistaken
  /\ UNCHANGED historyVars

Answers(p, q) ==
  /\ net' = Copies!BagAdd(Copies!BagRemove(net, p), q)
  /\ UNCHANGED <<historyVars, mistaken>>

(* An endpoint stops waiting or a system call of its fails.                *)
Disturbs == disturbed' = TRUE /\ UNCHANGED <<net, dups, strangers, retries, mistaken>>

Resends(p) ==
  /\ retries < MaxRetries
  /\ retries' = retries + 1
  /\ net' = Copies!BagAdd(net, p)
  /\ disturbed' = TRUE
  /\ UNCHANGED <<dups, strangers, mistaken>>

-----------------------------------------------------------------------------
Lose ==
  /\ \E p \in BagToSet(net) : net' = Copies!BagRemove(net, p)
  /\ disturbed' = TRUE
  /\ UNCHANGED <<dups, strangers, retries, mistaken>>

Duplicate ==
  /\ dups < MaxDups
  /\ \E p \in BagToSet(net) : net' = Copies!BagAdd(net, p)
  /\ dups' = dups + 1
  /\ disturbed' = TRUE
  /\ UNCHANGED <<strangers, retries, mistaken>>

(* A packet of somebody else, or of an earlier transfer, reaches the port  *)
(* while a file of the given length is transferred.                        *)
Strange(length) ==
  /\ strangers < MaxStrangers
  /\ \E type \in {"DATA", "ACK"}, from \in {"stranger", "namesake"},
        id \in BlockIds, chunk \in {0, length + 1} :
       /\ type = "ACK" => chunk = 0
       /\ net' = Copies!BagAdd(net, Packet(type, from, "server", id, chunk))
  /\ strangers' = strangers + 1
  /\ disturbed' = TRUE
  /\ UNCHANGED <<dups, retries, mistaken>>

Network(length) == Lose \/ Duplicate \/ Strange(length)
=============================================================================
