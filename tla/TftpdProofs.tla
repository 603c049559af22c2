---------------------------- MODULE TftpdProofs -----------------------------
(***************************************************************************)
(* What the children of tftpd never do to each other's files, and how many *)
(* of them can be connected, for every number of requests, ports, attempts *)
(* and chunks; and what the transfer of one child and its client comes to  *)
(* next to a network that loses, duplicates, delays and reorders packets,  *)
(* for every length of the file and every number of block numbers.         *)
(***************************************************************************)
EXTENDS Tftpd, TftpTransfer, FiniteSetTheorems, TLAPS

(* The two halves of TftpdTypeOK: what the children are doing, and files.  *)
States == {"none", "pick", "check", "greet", "copy"} \cup Ended

ChildrenOK ==
  /\ main \in {"loop", "exited"}
  /\ child \in [Requests -> States]
  /\ tries \in [Requests -> 0..MaxAttempts]
  /\ port \in [Requests -> Ports \cup {NoPort}]
  /\ seed \in [Requests -> Sequences \cup {NoSeed}]
  /\ draws \in Sequences

(* A child that runs has been seeded.                                      *)
Seeded == \A r \in Requests : child[r] = "pick" => seed[r] \in Sequences

(* A connected child holds the port it drew last, and no one else does.    *)
Holds ==
  \A r \in Requests :
    Connected(r) =>
      /\ seed[r] \in Sequences
      /\ tries[r] \in 1..MaxAttempts
      /\ port[r] = seed[r][tries[r]]

Apart ==
  \A r, q \in Requests : Connected(r) /\ Connected(q) /\ port[r] = port[q] => r = q

ChildrenInv == ChildrenOK /\ Seeded /\ Holds /\ Apart

LEMMA EndsInv ==
  ASSUME ChildrenInv, NEW r, NEW how \in Ended, Ends(r, how)
  PROVE  ChildrenInv'
<1>1. ChildrenOK'
  <2>1. child' \in [Requests -> States]
    BY DEF Ends, ChildrenInv, ChildrenOK, States
  <2>2. tries' \in [Requests -> 0..MaxAttempts]
    <3>1. 0 \in 0..MaxAttempts
      BY TftpdAssumption DEF TftpdAssumption
    <3>2. tries' = [tries EXCEPT ![r] = 0] /\ tries \in [Requests -> 0..MaxAttempts]
      BY DEF Ends, ChildrenInv, ChildrenOK
    <3> QED
      BY <3>1, <3>2
  <2>3. /\ port' \in [Requests -> Ports \cup {NoPort}]
        /\ seed' \in [Requests -> Sequences \cup {NoSeed}]
    BY DEF Ends, ChildrenInv, ChildrenOK
  <2> QED
    BY <2>1, <2>2, <2>3 DEF Ends, ChildrenInv, ChildrenOK
<1>2. Seeded' /\ Holds' /\ Apart'
  <2>1. \A q \in Requests : q # r =>
          /\ child'[q] = child[q] /\ tries'[q] = tries[q]
          /\ port'[q] = port[q] /\ seed'[q] = seed[q]
    BY DEF Ends, ChildrenInv, ChildrenOK
  <2>2. r \in Requests => child'[r] \in Ended
    BY DEF Ends, ChildrenInv, ChildrenOK
  <2>3. r \in Requests => ~Connected(r)' /\ child'[r] # "pick"
    BY <2>2 DEF Ended, Connected
  <2> QED
    BY <2>1, <2>3 DEF ChildrenInv, Seeded, Holds, Apart, Connected
<1> QED
  BY <1>1, <1>2 DEF ChildrenInv

LEMMA GoesInv ==
  ASSUME ChildrenInv, NEW r \in Requests, Connected(r),
         NEW where \in {"greet", "copy"}, Goes(r, where)
  PROVE  ChildrenInv'
<1>1. ChildrenOK'
  BY DEF Goes, ChildrenInv, ChildrenOK, States
<1>2. Seeded' /\ Holds' /\ Apart'
  BY DEF Goes, ChildrenInv, ChildrenOK, Seeded, Holds, Apart, Connected
<1> QED
  BY <1>1, <1>2 DEF ChildrenInv

(* A port that is not in use is nobody's.                                  *)
LEMMA PickInv ==
  ASSUME ChildrenInv, NEW r \in Requests, PickTid(r)
  PROVE  ChildrenInv'
<1> DEFINE t == tries[r] + 1
           p == seed[r][t]
<1>1. seed[r] \in Sequences /\ t \in 1..MaxAttempts /\ t \in 0..MaxAttempts
  BY TftpdAssumption DEF TftpdAssumption, PickTid, ChildrenInv, ChildrenOK, Seeded
<1>2. p \in Ports
  BY <1>1 DEF Sequences
<1>3. tries' = [tries EXCEPT ![r] = t] /\ UNCHANGED <<main, seed, draws>>
  BY DEF PickTid
<1>4. CASE p \in InUse
  <2>1. UNCHANGED <<child, port>>
    BY <1>4 DEF PickTid
  <2>2. child[r] = "pick"
    BY DEF PickTid
  <2> QED
    BY <1>1, <1>3, <2>1, <2>2
       DEF ChildrenInv, ChildrenOK, Seeded, Holds, Apart, Connected
<1>5. CASE p \notin InUse
  <2>1. port' = [port EXCEPT ![r] = p] /\ child' = [child EXCEPT ![r] = "check"]
    BY <1>5 DEF PickTid
  <2>2. ChildrenOK'
    BY <1>1, <1>2, <1>3, <2>1 DEF ChildrenInv, ChildrenOK, States
  <2>3. Seeded'
    BY <1>1, <1>3, <2>1 DEF ChildrenInv, ChildrenOK, Seeded, Connected
  <2>4. Holds'
    BY <1>1, <1>3, <2>1 DEF ChildrenInv, ChildrenOK, Holds, Connected
  <2>5. \A q \in Requests : port[q] # p
    BY <1>2, <1>5, NothingAssumption
       DEF NothingAssumption, InUse, Range, ChildrenInv, ChildrenOK
  <2>6. Apart'
    BY <2>1, <2>5 DEF ChildrenInv, ChildrenOK, Apart, Connected
  <2> QED
    BY <2>2, <2>3, <2>4, <2>6 DEF ChildrenInv
<1> QED
  BY <1>4, <1>5

LEMMA ChildrenStep == ChildrenInv /\ [TftpdNext]_tftpdVars => ChildrenInv'
<1> SUFFICES ASSUME ChildrenInv, [TftpdNext]_tftpdVars PROVE ChildrenInv'
  OBVIOUS
<1>1. CASE MainExits \/ NextSecond \/ UNCHANGED tftpdVars
  BY <1>1 DEF MainExits, NextSecond, tftpdVars, childVars, ChildrenInv, ChildrenOK,
              Seeded, Holds, Apart, Connected
<1>2. ASSUME NEW r \in Requests, Fork(r)
      PROVE  ChildrenInv'
  BY <1>2 DEF Fork, ChildrenInv, ChildrenOK, States, Seeded, Holds, Apart, Connected
<1>3. ASSUME NEW r \in Requests, PickTid(r)
      PROVE  ChildrenInv'
  BY <1>3, PickInv
<1>4. ASSUME NEW r \in Requests, NEW how \in Ended, Ends(r, how)
      PROVE  ChildrenInv'
  BY <1>4, EndsInv
<1>5. ASSUME NEW r \in Requests, Connected(r), NEW where \in {"greet", "copy"}, Goes(r, where)
      PROVE  ChildrenInv'
  BY <1>5, GoesInv
<1>6. ASSUME NEW r \in Requests, KillChild(r) \/ (Child(r) /\ ~PickTid(r))
      PROVE  \/ \E how \in Ended : Ends(r, how)
             \/ Connected(r) /\ \E where \in {"greet", "copy"} : Goes(r, where)
  BY <1>6 DEF KillChild, Child, SocketFails, NoPortFound, Reject, Create, FileExists, Greet,
     GreetFails, StoreChunk, UploadFails, Open, FileNotFound, SendChunk, DownloadFails, Ended, Connected
<1> QED
  BY <1>1, <1>2, <1>3, <1>4, <1>5, <1>6 DEF TftpdNext

LEMMA ChildrenAlways == TftpdSafety => []ChildrenInv
<1>1. TftpdInit => ChildrenInv
  BY TftpdAssumption
     DEF TftpdAssumption, TftpdInit, ChildrenInv, ChildrenOK, States, Seeded, Holds,
         Apart, Connected
<1> QED
  BY <1>1, ChildrenStep, PTL DEF TftpdSafety

-----------------------------------------------------------------------------
(* However many clients and ports there are, no more than MaxAttempts      *)
(* clients of one second are connected at once (tftpd.c:506-521): each     *)
(* holds the port it drew last, so their numbers of tries all differ, and  *)
(* tries is an injection into 1..MaxAttempts.                              *)
THEOREM SeedsShare == TftpdSafety => []SameSeedShares
<1>1. ChildrenInv => SameSeedShares
  <2> SUFFICES ASSUME ChildrenInv, NEW r \in Requests
               PROVE  Cardinality({q \in Requests : Connected(q) /\ seed[q] = seed[r]})
                        <= MaxAttempts
    BY DEF SameSeedShares
  <2> DEFINE S == {q \in Requests : Connected(q) /\ seed[q] = seed[r]}
             f == [q \in S |-> tries[q]]
  <2>1. f \in Injection(S, 1..MaxAttempts)
    <3>1. \A q \in S : tries[q] \in 1..MaxAttempts /\ port[q] = seed[r][tries[q]]
      BY DEF ChildrenInv, Holds
    <3>2. \A q, s \in S : tries[q] = tries[s] => q = s
      BY <3>1 DEF ChildrenInv, Apart
    <3> QED
      BY <3>1, <3>2 DEF Injection, IsInjective
  <2>2. IsFiniteSet(1..MaxAttempts) /\ Cardinality(1..MaxAttempts) = MaxAttempts
    BY FS_Interval, TftpdAssumption DEF TftpdAssumption
  <2>3. Cardinality(S) <= Cardinality(1..MaxAttempts)
    BY <2>1, <2>2, FS_Injection
  <2> QED
    BY <2>2, <2>3
<1> QED
  BY <1>1, ChildrenAlways, PTL

-----------------------------------------------------------------------------
FilesOK ==
  /\ name \in Uploads \cup {NoFile}
  /\ size \in [Uploads -> 0..Chunks]
  /\ opened \in [Downloads -> Uploads \cup {NoFile}]
  /\ settled \in [Downloads -> BOOLEAN]
  /\ delivered \in [Downloads -> 0..Chunks]

(* What makes the properties inductive: only uploads are greeted, a        *)
(* transfer that is not over is not complete, and a download reads from an *)
(* upload's file, a complete one if it was settled.                        *)
GreetsUploads == \A r \in Requests : child[r] = "greet" => r \in Uploads

StillPartial ==
  /\ \A u \in Uploads : child[u] \notin Ended => size[u] < Chunks
  /\ \A d \in Downloads : child[d] \notin Ended => delivered[d] < Chunks

ReadsUploads ==
  \A d \in Downloads :
    child[d] = "copy" =>
      /\ opened[d] \in Uploads
      /\ settled[d] => child[opened[d]] = "success" /\ size[opened[d]] = Chunks

FilesInv ==
  /\ FilesOK
  /\ WriterOwnsName /\ NoHalfFiles /\ SettledDownloadIsWhole
  /\ GreetsUploads /\ StillPartial /\ ReadsUploads

FilesQuiet == UNCHANGED <<fileVars, readVars>>

(* A child that ends without touching a file.                              *)
LEMMA EndsQuietly ==
  ASSUME ChildrenOK, FilesInv, NEW r \in Requests,
         NEW how \in {"failed", "refused", "error", "kept", "killed"},
         child[r] \notin Ended,
         Ends(r, how), FilesQuiet,
         Writing(r) => how \in {"kept", "killed"}
  PROVE  FilesInv'
<1>1. child' = [child EXCEPT ![r] = how]
  BY DEF Ends
<1>2. UNCHANGED <<name, size, opened, settled, delivered>>
  BY DEF FilesQuiet, fileVars, readVars
<1>3. Requests = Uploads \cup Downloads
  BY DEF Requests
<1>4. \A q \in Requests : child'[q] = IF q = r THEN how ELSE child[q]
  BY <1>1 DEF ChildrenOK
<1>5. FilesOK' /\ GreetsUploads' /\ StillPartial'
  BY <1>2, <1>3, <1>4 DEF FilesInv, FilesOK, GreetsUploads, StillPartial, Ended
<1>6. WriterOwnsName' /\ NoHalfFiles'
  BY <1>2, <1>3, <1>4, NothingAssumption
     DEF NothingAssumption, FilesInv, FilesOK, WriterOwnsName, NoHalfFiles, Writing, Ended
<1>7. SettledDownloadIsWhole' /\ ReadsUploads'
  BY <1>2, <1>3, <1>4 DEF FilesInv, FilesOK, SettledDownloadIsWhole, ReadsUploads, Ended
<1> QED
  BY <1>5, <1>6, <1>7 DEF FilesInv

(* A child that goes on without touching a file.                           *)
GoesOn(r, where) ==
  /\ \/ child[r] \in {"none", "pick"} /\ where \in {"pick", "check"}
     \/ child[r] = "greet" /\ where = "copy"
  /\ child' = [child EXCEPT ![r] = where]
  /\ FilesQuiet

LEMMA GoesQuietly ==
  ASSUME ChildrenOK, FilesInv, NEW r \in Requests, NEW where, GoesOn(r, where)
  PROVE  FilesInv'
<1> USE DEF GoesOn
<1>1. UNCHANGED <<name, size, opened, settled, delivered>>
  BY DEF FilesQuiet, fileVars, readVars
<1>2. Requests = Uploads \cup Downloads /\ Uploads \cap Downloads = {}
  BY TftpdAssumption DEF TftpdAssumption, Requests
<1>3. \A q \in Requests : child'[q] = IF q = r THEN where ELSE child[q]
  BY DEF ChildrenOK
<1>4. child[r] = "greet" => r \in Uploads
  BY DEF FilesInv, GreetsUploads
<1>5. FilesOK' /\ GreetsUploads' /\ StillPartial'
  BY <1>1, <1>2, <1>3, <1>4 DEF FilesInv, FilesOK, GreetsUploads, StillPartial, Ended
<1>6. WriterOwnsName' /\ NoHalfFiles'
  BY <1>1, <1>2, <1>3, <1>4, NothingAssumption
     DEF NothingAssumption, FilesInv, FilesOK, WriterOwnsName, NoHalfFiles, Writing
<1>7. SettledDownloadIsWhole' /\ ReadsUploads'
  BY <1>1, <1>2, <1>3, <1>4 DEF FilesInv, FilesOK, SettledDownloadIsWhole, ReadsUploads
<1> QED
  BY <1>5, <1>6, <1>7 DEF FilesInv

LEMMA CreateFiles ==
  ASSUME ChildrenOK, FilesInv, NEW u \in Requests, Create(u)
  PROVE  FilesInv'
<1>1. /\ u \in Uploads /\ child[u] = "check" /\ name = NoFile /\ name' = u
      /\ child' = [child EXCEPT ![u] = "greet"]
      /\ UNCHANGED <<size, opened, settled, delivered>>
  BY DEF Create, Goes, readVars
<1>2. Requests = Uploads \cup Downloads /\ Uploads \cap Downloads = {}
  BY TftpdAssumption DEF TftpdAssumption, Requests
<1>3. \A q \in Requests : child'[q] = IF q = u THEN "greet" ELSE child[q]
  BY <1>1 DEF ChildrenOK
<1>4. FilesOK' /\ GreetsUploads' /\ StillPartial'
  BY <1>1, <1>2, <1>3 DEF FilesInv, FilesOK, GreetsUploads, StillPartial, Ended
<1>5. WriterOwnsName' /\ NoHalfFiles'
  BY <1>1, <1>2, <1>3, NothingAssumption
     DEF NothingAssumption, FilesInv, FilesOK, WriterOwnsName, NoHalfFiles, Writing
<1>6. SettledDownloadIsWhole' /\ ReadsUploads'
  BY <1>1, <1>2, <1>3 DEF FilesInv, FilesOK, SettledDownloadIsWhole, ReadsUploads
<1> QED
  BY <1>4, <1>5, <1>6 DEF FilesInv

(* The upload is not over, so no settled download reads its file.          *)
LEMMA StoreFiles ==
  ASSUME ChildrenOK, FilesInv, NEW u \in Requests, StoreChunk(u)
  PROVE  FilesInv'
<1> DEFINE next == IF size[u] + 1 = Chunks THEN "success" ELSE "copy"
<1>1. /\ u \in Uploads /\ child[u] = "copy"
      /\ size' = [size EXCEPT ![u] = size[u] + 1]
      /\ child' = [child EXCEPT ![u] = next]
      /\ UNCHANGED <<name, opened, settled, delivered>>
  BY DEF StoreChunk, Ends, Goes, readVars
<1>2. Requests = Uploads \cup Downloads /\ Uploads \cap Downloads = {}
      /\ Chunks \in Nat \ {0}
  BY TftpdAssumption DEF TftpdAssumption, Requests
<1>3. \A q \in Requests : child'[q] = IF q = u THEN next ELSE child[q]
  BY <1>1 DEF ChildrenOK
<1>4. \A v \in Uploads : size'[v] = IF v = u THEN size[u] + 1 ELSE size[v]
  BY <1>1 DEF FilesInv, FilesOK
<1>5. size[u] \in 0..Chunks /\ size[u] < Chunks
  BY <1>1 DEF FilesInv, FilesOK, StillPartial, Ended
<1>6. FilesOK'
  BY <1>1, <1>2, <1>5 DEF FilesInv, FilesOK
<1>7. GreetsUploads' /\ StillPartial'
  BY <1>1, <1>2, <1>3, <1>4, <1>5 DEF FilesInv, FilesOK, GreetsUploads, StillPartial, Ended
<1>8. WriterOwnsName' /\ NoHalfFiles'
  BY <1>1, <1>2, <1>3, <1>4, NothingAssumption
     DEF NothingAssumption, FilesInv, FilesOK, WriterOwnsName, NoHalfFiles, Writing
<1>9. SettledDownloadIsWhole' /\ ReadsUploads'
  BY <1>1, <1>2, <1>3, <1>4 DEF FilesInv, FilesOK, SettledDownloadIsWhole, ReadsUploads
<1> QED
  BY <1>6, <1>7, <1>8, <1>9 DEF FilesInv

LEMMA FailFiles ==
  ASSUME ChildrenOK, FilesInv, NEW u \in Requests, UploadFails(u)
  PROVE  FilesInv'
<1>1. /\ u \in Uploads /\ child[u] = "copy" /\ name' = NoFile
      /\ child' = [child EXCEPT ![u] = "failed"]
      /\ UNCHANGED <<size, opened, settled, delivered>>
  BY DEF UploadFails, Ends, readVars
<1>2. Requests = Uploads \cup Downloads /\ Uploads \cap Downloads = {}
  BY TftpdAssumption DEF TftpdAssumption, Requests
<1>3. \A q \in Requests : child'[q] = IF q = u THEN "failed" ELSE child[q]
  BY <1>1 DEF ChildrenOK
<1>4. FilesOK' /\ GreetsUploads' /\ StillPartial'
  BY <1>1, <1>2, <1>3 DEF FilesInv, FilesOK, GreetsUploads, StillPartial, Ended
<1>5. WriterOwnsName' /\ NoHalfFiles'
  BY <1>1, <1>2, <1>3 DEF FilesInv, FilesOK, WriterOwnsName, NoHalfFiles, Writing
<1>6. SettledDownloadIsWhole' /\ ReadsUploads'
  BY <1>1, <1>2, <1>3 DEF FilesInv, FilesOK, SettledDownloadIsWhole, ReadsUploads
<1> QED
  BY <1>4, <1>5, <1>6 DEF FilesInv

(* The name refers to an upload's file, complete if that upload succeeded. *)
LEMMA OpenFiles ==
  ASSUME ChildrenOK, FilesInv, NEW d \in Requests, Open(d)
  PROVE  FilesInv'
<1>1. /\ d \in Downloads /\ child[d] = "check" /\ name # NoFile
      /\ opened' = [opened EXCEPT ![d] = name]
      /\ child' = [child EXCEPT ![d] = "copy"]
      /\ UNCHANGED <<name, size, delivered>>
  BY DEF Open, Goes, fileVars
<1>2. Requests = Uploads \cup Downloads /\ Uploads \cap Downloads = {}
  BY TftpdAssumption DEF TftpdAssumption, Requests
<1>3. \A q \in Requests : child'[q] = IF q = d THEN "copy" ELSE child[q]
  BY <1>1 DEF ChildrenOK
<1>4. /\ settled' \in [Downloads -> BOOLEAN]
      /\ \A e \in Downloads : e # d => settled'[e] = settled[e]
      /\ settled'[d] => child[name] = "success"
  <2>1. settled' = [settled EXCEPT ![d] = child[name] = "success"]
    BY DEF Open
  <2>2. settled \in [Downloads -> BOOLEAN]
    BY DEF FilesInv, FilesOK
  <2> QED
    BY <1>1, <2>1, <2>2, Zenon
<1>5. FilesOK' /\ GreetsUploads' /\ StillPartial'
  <2>1. opened' \in [Downloads -> Uploads \cup {NoFile}]
    BY <1>1 DEF FilesInv, FilesOK
  <2>2. FilesOK'
    BY <1>1, <1>4, <2>1, Zenon DEF FilesInv, FilesOK
  <2> QED
    BY <1>1, <1>2, <1>3, <2>2 DEF FilesInv, GreetsUploads, StillPartial, Ended
<1>6. WriterOwnsName' /\ NoHalfFiles'
  BY <1>1, <1>2, <1>3 DEF FilesInv, FilesOK, WriterOwnsName, NoHalfFiles, Writing
<1>7. SettledDownloadIsWhole'
  BY <1>1, <1>2, <1>3, <1>4 DEF FilesInv, FilesOK, SettledDownloadIsWhole
<1>8. ReadsUploads'
  <2>1. settled'[d] => size[name] = Chunks
    BY <1>1, <1>4 DEF FilesInv, NoHalfFiles, Writing
  <2> QED
    BY <1>1, <1>2, <1>3, <1>4, <2>1 DEF FilesInv, FilesOK, ReadsUploads
<1> QED
  BY <1>5, <1>6, <1>7, <1>8 DEF FilesInv

LEMMA SendFiles ==
  ASSUME ChildrenOK, FilesInv, NEW d \in Requests, SendChunk(d)
  PROVE  FilesInv'
<1>1. d \in Downloads /\ child[d] = "copy" /\ UNCHANGED <<name, size, opened, settled>>
  BY DEF SendChunk, fileVars
<1>2. Requests = Uploads \cup Downloads /\ Uploads \cap Downloads = {}
      /\ Chunks \in Nat \ {0}
  BY TftpdAssumption DEF TftpdAssumption, Requests
<1>3. /\ opened[d] \in Uploads /\ size[opened[d]] \in 0..Chunks
      /\ delivered[d] \in 0..Chunks /\ delivered[d] < Chunks
  BY <1>1 DEF FilesInv, FilesOK, ReadsUploads, StillPartial, Ended
<1>4. \/ /\ delivered' = [delivered EXCEPT ![d] = delivered[d] + 1]
         /\ \/ delivered[d] + 1 = Chunks /\ child' = [child EXCEPT ![d] = "success"]
            \/ delivered[d] + 1 < Chunks /\ child' = [child EXCEPT ![d] = "copy"]
      \/ /\ delivered' = delivered /\ delivered[d] >= size[opened[d]]
         /\ child' = [child EXCEPT ![d] = "success"]
  BY <1>2, <1>3 DEF SendChunk, Ends, Goes
<1>5. /\ child'[d] \in {"success", "copy"}
      /\ \A q \in Requests : q # d => child'[q] = child[q]
      /\ delivered' \in [Downloads -> 0..Chunks]
      /\ \A e \in Downloads : e # d => delivered'[e] = delivered[e]
      /\ child'[d] = "copy" => delivered'[d] < Chunks
      /\ child'[d] = "success" => delivered'[d] = Chunks \/ delivered'[d] >= size[opened[d]]
  BY <1>1, <1>2, <1>3, <1>4 DEF FilesInv, FilesOK, ChildrenOK
<1>6. FilesOK' /\ GreetsUploads' /\ StillPartial'
  BY <1>1, <1>2, <1>5 DEF FilesInv, FilesOK, GreetsUploads, StillPartial, Ended
<1>7. WriterOwnsName' /\ NoHalfFiles'
  BY <1>1, <1>2, <1>5, NothingAssumption
     DEF NothingAssumption, FilesInv, FilesOK, WriterOwnsName, NoHalfFiles, Writing
<1>8. SettledDownloadIsWhole'
  <2>1. settled[d] => size[opened[d]] = Chunks
    BY <1>1 DEF FilesInv, ReadsUploads
  <2>2. delivered'[d] \in 0..Chunks
    BY <1>1, <1>5
  <2>3. child'[d] = "success" /\ settled[d] => delivered'[d] = Chunks
    BY <1>2, <1>5, <2>1, <2>2
  <2> QED
    BY <1>1, <1>2, <1>5, <2>3 DEF FilesInv, SettledDownloadIsWhole
<1>9. ReadsUploads'
  BY <1>1, <1>2, <1>3, <1>5 DEF FilesInv, FilesOK, ReadsUploads
<1> QED
  BY <1>6, <1>7, <1>8, <1>9 DEF FilesInv

-----------------------------------------------------------------------------
LEMMA FilesStep == ChildrenOK /\ FilesInv /\ [TftpdNext]_tftpdVars => FilesInv'
<1> SUFFICES ASSUME ChildrenOK, FilesInv, [TftpdNext]_tftpdVars PROVE FilesInv'
  OBVIOUS
<1>1. CASE MainExits \/ NextSecond \/ UNCHANGED tftpdVars
  BY <1>1 DEF MainExits, NextSecond, tftpdVars, childVars, fileVars, readVars, FilesInv,
              FilesOK, WriterOwnsName, NoHalfFiles, SettledDownloadIsWhole,
              GreetsUploads, StillPartial, ReadsUploads, Writing
<1>2. ASSUME NEW r \in Requests, Fork(r) \/ Greet(r)
      PROVE  FilesInv'
  <2>1. GoesOn(r, "pick") \/ GoesOn(r, "copy")
    BY <1>2 DEF Fork, Greet, Goes, GoesOn, FilesQuiet
  <2> QED
    BY <2>1, GoesQuietly
<1>3. ASSUME NEW r \in Requests, PickTid(r)
      PROVE  FilesInv'
  <2>1. child' = child => child' = [child EXCEPT ![r] = "pick"]
    BY <1>3 DEF PickTid, ChildrenOK
  <2>2. GoesOn(r, "pick") \/ GoesOn(r, "check")
    BY <1>3, <2>1 DEF PickTid, GoesOn, FilesQuiet
  <2> QED
    BY <2>2, GoesQuietly
<1>4. ASSUME NEW r \in Requests,
             \/ KillChild(r) \/ SocketFails(r) \/ NoPortFound(r) \/ Reject(r)
             \/ FileExists(r) \/ GreetFails(r)
             \/ FileNotFound(r) \/ DownloadFails(r)
      PROVE  FilesInv'
  <2>1. Uploads \cap Downloads = {}
    BY TftpdAssumption DEF TftpdAssumption
  <2>2. \E how \in {"failed", "refused", "error", "kept", "killed"} :
          /\ Ends(r, how) /\ FilesQuiet /\ child[r] \notin Ended
          /\ Writing(r) => how \in {"kept", "killed"}
    BY <1>4, <2>1 DEF KillChild, SocketFails, NoPortFound, Reject, FileExists, GreetFails,
                      FileNotFound, DownloadFails, FilesQuiet, Writing, Ended
  <2> QED
    BY <2>2, EndsQuietly
<1>5. ASSUME NEW r \in Requests,
             \/ Create(r) \/ StoreChunk(r) \/ UploadFails(r)
             \/ Open(r) \/ SendChunk(r)
      PROVE  FilesInv'
  BY <1>5, CreateFiles, StoreFiles, FailFiles, OpenFiles, SendFiles
<1> QED
  BY <1>1, <1>2, <1>3, <1>4, <1>5 DEF TftpdNext, Child

LEMMA FilesAlways == TftpdSafety => [](ChildrenInv /\ FilesInv)
<1>1. TftpdInit => FilesInv
  BY TftpdAssumption, NothingAssumption
     DEF TftpdAssumption, NothingAssumption, TftpdInit, FilesInv, FilesOK, WriterOwnsName,
         NoHalfFiles, Writing, SettledDownloadIsWhole, GreetsUploads, StillPartial,
         ReadsUploads, Ended, Requests
<1>2. ChildrenInv => ChildrenOK
  BY DEF ChildrenInv
<1> QED
  BY <1>1, <1>2, FilesStep, ChildrenAlways, PTL DEF TftpdSafety

(* Type correctness of tftpd's daemon and children for all constants: no   *)
(* file or download grows past its length, no child tries more ports than  *)
(* it may (tftpd.c:510-538).                                               *)
THEOREM TftpdTypeCorrect == TftpdSafety => []TftpdTypeOK
<1>1. ChildrenInv /\ FilesInv => TftpdTypeOK
  BY DEF ChildrenInv, ChildrenOK, FilesInv, FilesOK, TftpdTypeOK, States
<1> QED
  BY <1>1, FilesAlways, PTL

(* However many uploads of one name there are, the one that writes owns    *)
(* the name, so the unlink() of a failed one hits no other file            *)
(* (tftpd.c:272, 361-364).                                                 *)
THEOREM UploadsOwnTheirName == TftpdSafety => []WriterOwnsName
<1>1. FilesInv => WriterOwnsName
  BY DEF FilesInv
<1> QED
  BY <1>1, FilesAlways, PTL

(* A file that is neither whole nor being written was left by a crash or   *)
(* by a first ACK that could not be sent (tftpd.c:289-296, 357-364).       *)
THEOREM HalfFilesHaveACause == TftpdSafety => []NoHalfFiles
<1>1. FilesInv => NoHalfFiles
  BY DEF FilesInv
<1> QED
  BY <1>1, FilesAlways, PTL

(* A successful download of a file that was whole when it was opened is    *)
(* whole, whatever any number of other children do (tftpd.c:409-486).      *)
THEOREM SettledDownloadsAreWhole == TftpdSafety => []SettledDownloadIsWhole
<1>1. FilesInv => SettledDownloadIsWhole
  BY DEF FilesInv
<1> QED
  BY <1>1, FilesAlways, PTL

-----------------------------------------------------------------------------
(***************************************************************************)
(* A transfer.  Its invariants: which packets can be in flight, and what   *)
(* they say of the two endpoints.                                          *)
(***************************************************************************)
Strays(length) ==
  {Packet("ACK", from, "server", n, 0) : from \in {"stranger", "namesake"}, n \in BlockIds}
    \cup {Packet("DATA", from, "server", n, c) :
            from \in {"stranger", "namesake"}, n \in BlockIds, c \in {0, length + 1}}
Refusal == Packet("ERROR", "server", "client", 0, 0)

CountersOK ==
  /\ dups \in 0..MaxDups
  /\ strangers \in 0..MaxStrangers
  /\ retries \in 0..MaxRetries
  /\ disturbed \in BOOLEAN
  /\ mistaken \subseteq BlockIds

(* A download: the server has sent the chunks up to block, and the client  *)
(* has acknowledged as many blocks as it has accepted.                     *)
DataOf(n) == Packet("DATA", "server", "client", n % IdMod, n)
DownloadAck(n) == Packet("ACK", "client", "server", n % IdMod, 0)

DownloadPackets ==
  {DataOf(n) : n \in 1..block} \cup {DownloadAck(n) : n \in 1..Len(got)}
    \cup Strays(FileLength) \cup {Refusal}

DownloadTypes ==
  /\ CountersOK
  /\ at \in {"send", "await", "success", "failed"}
  /\ block \in 0..FileLength
  /\ at = "send" => block < FileLength
  /\ at = "await" => block > 0
  /\ id = block % IdMod
  /\ got \in Seq(1..FileLength)
  /\ client \in {"running", "success", "failed"}
  /\ IsABag(net) /\ BagToSet(net) \subseteq DownloadPackets

(* Until the block numbers start again from 0, the client is where the     *)
(* server is, or one block behind it, or as many as namesakes acknowledged *)
(* since the client did.                                                   *)
DownloadUnwrapped == FileLength <= IdMod \/ block < IdMod

Acked == IF at \in {"send", "success"} THEN block ELSE block - 1

InLockStep ==
  /\ got = [i \in 1..Len(got) |-> i]
  /\ Len(got) <= block
  /\ \A n \in Len(got) + 1..Acked : (n % IdMod) \in mistaken
  /\ at = "success" => block = FileLength
  /\ client = "success" <=> Len(got) = FileLength

(* An upload: the client has sent the blocks up to sent, and the server    *)
(* has acknowledged the request, blocks that it has written, the last one  *)
(* only once it was done, and packets that it mistook for the client's.    *)
BlockOf(n) == Packet("DATA", "client", "server", n % IdMod, n)
UploadAck(n) == Packet("ACK", "server", "client", n % IdMod, 0)

Written == {file[i] : i \in 1..Len(file)}
Foreign == {0, UploadLength + 1}
Foreigners == {Packet("DATA", "namesake", "server", n, c) : n \in mistaken, c \in Foreign}

MayBeAcked ==
  {n \in (Written \cap 1..UploadLength) \cup {0} : n = UploadLength => at = "success"}

UploadPackets ==
  {BlockOf(n) : n \in 1..sent} \cup {UploadAck(n) : n \in MayBeAcked}
    \cup {Packet("ACK", "server", "client", n, 0) : n \in mistaken}
    \cup Strays(UploadLength) \cup {Refusal}

UploadEnds ==
  /\ at \in {"greet", "receive", "write", "ack", "success", "failed"}
  /\ exists \in BOOLEAN
  /\ at # "failed" => exists
  /\ sent \in 0..UploadLength
  /\ file \in Seq((1..sent) \cup Foreign)
  /\ mistaken = {} => Written \subseteq 1..sent
  /\ client \in {"running", "success", "failed"}
  /\ hand \in {BlockOf(n) : n \in 1..sent} \cup {BlockOf(0)} \cup Foreigners
  /\ at \in {"write", "ack"} => hand # BlockOf(0)
  /\ at = "ack" => hand.chunk \in Written
  /\ at = "success" => UploadLength \in Written \/ UploadLength + 1 \in Written

UploadNet == IsABag(net) /\ BagToSet(net) \subseteq UploadPackets

UploadTypes == CountersOK /\ UploadEnds /\ UploadNet

(* Until then, the blocks before the one the client waits for are stored,  *)
(* in order, but those under whose number a namesake's was acknowledged,   *)
(* and if the one it waits for is, too, then after them.                   *)
Genuine(n) == {i \in 1..n : (i % IdMod) \notin mistaken}

StoredInOrder ==
  /\ sent > 0 => Wrq!InOrder(Genuine(sent - 1), file)
  /\ sent > 0 /\ sent \in Written => Wrq!InOrder(Genuine(sent - 1) \cup {sent}, file)
  /\ client = "success" =>
       /\ sent = UploadLength
       /\ (at = "success" /\ sent \in Written) \/ (sent % IdMod) \in mistaken

(* While nothing disturbs the transfer, one packet is in flight at a time. *)
Only(p) == SetToBag({p})

QuietDownload ==
  \/ /\ at = "send" /\ client = "running"
     /\ Len(got) = block /\ net = EmptyBag
  \/ /\ at = "await" /\ client = "running"
     /\ Len(got) = block - 1 /\ net = Only(DataOf(block))
  \/ /\ at = "await" /\ client = (IF block = FileLength THEN "success" ELSE "running")
     /\ Len(got) = block /\ net = Only(DownloadAck(block))
  \/ at = "success" /\ client = "success" /\ net = EmptyBag

QuietUpload ==
  \/ at = "greet" /\ client = "running" /\ sent = 0 /\ net = EmptyBag
  \/ /\ at = "receive" /\ client = "running"
     /\ sent < UploadLength /\ net = Only(UploadAck(sent))
  \/ /\ at = "receive" /\ client = "running"
     /\ sent > 0 /\ net = Only(BlockOf(sent))
  \/ /\ at \in {"write", "ack"} /\ client = "running"
     /\ sent > 0 /\ hand = BlockOf(sent) /\ net = EmptyBag
  \/ /\ at = "success" /\ client = "running"
     /\ sent = UploadLength /\ net = Only(UploadAck(sent))
  \/ /\ at = "success" /\ client = "success"
     /\ sent = UploadLength /\ net = EmptyBag

DownloadInv ==
  /\ DownloadTypes
  /\ DownloadUnwrapped => InLockStep
  /\ ~disturbed => QuietDownload

UploadInv ==
  /\ UploadTypes
  /\ sent < IdMod => StoredInOrder
  /\ ~disturbed => QuietUpload

TransferInv ==
  \/ kind = "rrq" /\ DownloadInv
  \/ kind = "wrq" /\ UploadInv

-----------------------------------------------------------------------------
(* The bag of packets in flight after one is sent or received.             *)
LEMMA SentBag ==
  ASSUME NEW B, IsABag(B), NEW p
  PROVE  IsABag(Copies!BagAdd(B, p)) /\ BagToSet(Copies!BagAdd(B, p)) = BagToSet(B) \cup {p}
  BY DEF IsABag, Copies!BagAdd, BagToSet

LEMMA ReceivedBag ==
  ASSUME NEW B, IsABag(B), NEW p
  PROVE  IsABag(Copies!BagRemove(B, p)) /\ BagToSet(Copies!BagRemove(B, p)) \subseteq BagToSet(B)
  BY DEF IsABag, Copies!BagRemove, BagToSet

LEMMA OnlyBag ==
  ASSUME NEW p
  PROVE  /\ Copies!BagAdd(EmptyBag, p) = Only(p)
         /\ Copies!BagRemove(Only(p), p) = EmptyBag
         /\ BagToSet(Only(p)) = {p} /\ BagToSet(EmptyBag) = {}
         /\ IsABag(Only(p)) /\ IsABag(EmptyBag)
  BY DEF Only, IsABag, Copies!BagAdd, Copies!BagRemove, BagToSet, EmptyBag, SetToBag

(* Division with a remainder, for a divisor that is not a number.          *)
LEMMA Division ==
  ASSUME NEW k \in Nat \ {0}, NEW n \in Nat
  PROVE  \E q \in Nat : n = q * k + (n % k) /\ n % k \in 0..k - 1
<1>1. n \div k \in Nat /\ n % k \in 0..k - 1
  OBVIOUS
<1>2. n = (n \div k) * k + (n % k)
  <2>1. n = k * (n \div k) + (n % k)
    OBVIOUS
  <2> QED
    BY <1>1, <2>1, \A q \in Nat : k * q = q * k
<1> QED
  BY <1>1, <1>2

LEMMA Multiples ==
  ASSUME NEW k \in Nat \ {0}, NEW p \in Nat, NEW q \in Nat
  PROVE  /\ p * k \in Nat
         /\ p < q => p * k + k <= q * k
<1>1. ASSUME NEW d \in Nat, q = p + 1 + d PROVE p * k + k <= q * k
  <2>1. q * k = p * k + k + d * k
    BY <1>1
  <2>2. d * k \in Nat /\ p * k \in Nat /\ q * k \in Nat
    OBVIOUS
  <2> QED
    BY <2>1, <2>2
<1>2. p < q => q - p - 1 \in Nat /\ q = p + 1 + (q - p - 1)
  OBVIOUS
<1> QED
  BY <1>1, <1>2

(* Block numbers that are less than a turn apart are told apart.           *)
LEMMA NumbersDiffer ==
  ASSUME NEW k \in Nat \ {0}, NEW m \in Nat, NEW n \in Nat, m % k = n % k,
         m - n < k, n - m < k
  PROVE  m = n
<1>1. PICK p \in Nat : m = p * k + (m % k)
  BY Division
<1>2. PICK q \in Nat : n = q * k + (n % k)
  BY Division
<1>3. p * k \in Nat /\ q * k \in Nat /\ m % k \in Nat
  BY Multiples, Division
<1>4. ~(p < q) /\ ~(q < p)
  BY <1>1, <1>2, <1>3, Multiples
<1> QED
  BY <1>1, <1>2, <1>4

LEMMA RemainderUnique ==
  ASSUME NEW k \in Nat \ {0}, NEW p \in Nat, NEW r \in 0..k - 1
  PROVE  (p * k + r) % k = r
<1>1. p * k + r \in Nat
  BY Multiples
<1>2. PICK q \in Nat : p * k + r = q * k + ((p * k + r) % k) /\ (p * k + r) % k \in 0..k - 1
  BY <1>1, Division
<1>3. p * k \in Nat /\ q * k \in Nat
  BY Multiples
<1>4. ~(p < q) /\ ~(q < p)
  BY <1>2, <1>3, Multiples
<1> QED
  BY <1>2, <1>3, <1>4

(* Counting modulo k is counting.                                          *)
LEMMA NumbersWrap ==
  ASSUME NEW k \in Nat \ {0}, NEW n \in Nat
  PROVE  ((n % k) + 1) % k = (n + 1) % k
<1>1. PICK p \in Nat : n = p * k + (n % k) /\ n % k \in 0..k - 1
  BY Division
<1>2. CASE (n % k) + 1 < k
  <2>1. (n % k) + 1 \in 0..k - 1 /\ n + 1 = p * k + ((n % k) + 1)
    BY <1>1, <1>2, Multiples
  <2>2. (n + 1) % k = (n % k) + 1
    BY <2>1, RemainderUnique
  <2> QED
    BY <2>1, <2>2
<1>3. CASE (n % k) + 1 = k
  <2>1. n + 1 = (p + 1) * k + 0 /\ p + 1 \in Nat /\ 0 \in 0..k - 1
    BY <1>1, <1>3, Multiples
  <2>2. (n + 1) % k = 0
    BY <2>1, RemainderUnique
  <2> QED
    BY <1>3, <2>2
<1> QED
  BY <1>1, <1>2, <1>3

-----------------------------------------------------------------------------
(* What the network does to a transfer of either kind.                     *)
LEMMA NetworkMoves ==
  ASSUME IsABag(net), CountersOK, NEW length, Network(length)
  PROVE  /\ CountersOK' /\ disturbed' = TRUE /\ mistaken' = mistaken
         /\ IsABag(net') /\ BagToSet(net') \subseteq BagToSet(net) \cup Strays(length)
<1> USE TftpNetworkAssumption DEF TftpNetworkAssumption, CountersOK
<1>1. CASE Lose
  BY <1>1, ReceivedBag DEF Lose
<1>2. CASE Duplicate
  BY <1>2, SentBag DEF Duplicate
<1>3. CASE Strange(length)
  <2>1. PICK type \in {"DATA", "ACK"}, from \in {"stranger", "namesake"},
             n \in BlockIds, c \in {0, length + 1} :
          /\ type = "ACK" => c = 0
          /\ net' = Copies!BagAdd(net, Packet(type, from, "server", n, c))
    BY <1>3 DEF Strange
  <2>2. Packet(type, from, "server", n, c) \in Strays(length)
    BY <2>1 DEF Strays
  <2>3. IsABag(net') /\ BagToSet(net') \subseteq BagToSet(net) \cup Strays(length)
    BY <2>1, <2>2, SentBag
  <2> QED
    BY <1>3, <2>3 DEF Strange
<1> QED
  BY <1>1, <1>2, <1>3 DEF Network

-----------------------------------------------------------------------------
(* What the actions of a download come to.                                 *)
LEMMA DownloadNumbers ==
  ASSUME NEW n \in Nat
  PROVE  /\ n % IdMod \in BlockIds
         /\ n <= FileLength => DataOf(n) \in Rrq!Packets
         /\ DownloadAck(n) \in Rrq!Packets /\ DownloadAck(n) = Rrq!AckOf(n)
<1>1. n % IdMod \in 0..IdMod - 1
  BY TftpNetworkAssumption, Division DEF TftpNetworkAssumption
<1> QED
  BY <1>1, TftpNetworkAssumption
     DEF TftpNetworkAssumption, BlockIds, DataOf, DownloadAck, Packet, Rrq!Packet,
         Rrq!AckOf, Rrq!Packets, Rrq!BlockIds

LEMMA SendChunkMoves ==
  ASSUME DownloadTypes, Rrq!SendChunk
  PROVE  /\ at = "send" /\ at' = "await"
         /\ block' = block + 1 /\ block' \in 1..FileLength
         /\ id' = block' % IdMod
         /\ net' = Copies!BagAdd(net, DataOf(block'))
         /\ UNCHANGED <<dups, strangers, retries, disturbed, mistaken, got, client>>
<1>1. block \in Nat /\ id = block % IdMod /\ block < FileLength /\ block' = block + 1
  BY TftpNetworkAssumption DEF DownloadTypes, Rrq!SendChunk, TftpNetworkAssumption
<1>2. id' = block' % IdMod
  BY <1>1, NumbersWrap, TftpNetworkAssumption DEF Rrq!SendChunk, TftpNetworkAssumption
<1> QED
  BY <1>1, <1>2, TftpNetworkAssumption
     DEF Rrq!SendChunk, Rrq!Sends, Rrq!Copies!BagAdd, Copies!BagAdd, Rrq!Packet, Packet, DataOf,
         Rrq!historyVars, Rrq!clientVars, TftpNetworkAssumption

LEMMA DownloadPacketKinds ==
  ASSUME NEW p \in DownloadPackets
  PROVE  /\ p.to = "server" /\ p.type = "ACK" /\ p.from = "client" =>
              \E n \in 1..Len(got) : p = DownloadAck(n)
         /\ p.to = "client" /\ p.type = "DATA" => \E n \in 1..block : p = DataOf(n)
         /\ p.to = "client" /\ p.type # "DATA" => p = Refusal
  BY DEF DownloadPackets, DownloadAck, DataOf, Strays, Refusal, Packet

LEMMA DownloadPacketsGrow ==
  ASSUME DownloadTypes, block' \in Nat, block <= block', Len(got') \in Nat,
         Len(got) <= Len(got')
  PROVE  DownloadPackets \subseteq DownloadPackets'
<1>1. block \in Nat /\ Len(got) \in Nat
  BY TftpNetworkAssumption DEF DownloadTypes, TftpNetworkAssumption
<1>2. 1..block \subseteq 1..block' /\ 1..Len(got) \subseteq 1..Len(got')
  BY <1>1
<1> QED
  BY <1>2 DEF DownloadPackets

(* Steps that leave the two endpoints' data alone, and put nothing new     *)
(* into the network or what may be there anyway.                           *)
LEMMA DownloadTypesKept ==
  ASSUME DownloadTypes, CountersOK', UNCHANGED <<block, id, got>>,
         at' \in {at, "success", "failed"} \/ (at' = "send" /\ block < FileLength),
         client' \in {"running", "success", "failed"},
         IsABag(net'), NEW S, S \subseteq DownloadPackets,
         BagToSet(net') \subseteq BagToSet(net) \cup S
  PROVE  DownloadTypes'
<1>1. DownloadPackets' = DownloadPackets
  BY DEF DownloadPackets
<1>2. IsABag(net)' /\ BagToSet(net)' \subseteq DownloadPackets'
  BY <1>1 DEF DownloadTypes
<1>3. at' \in {"send", "await", "success", "failed"}
  BY DEF DownloadTypes
<1> QED
  BY <1>2, <1>3 DEF DownloadTypes

(* Sending: the client has all before the chunk, and nothing is in flight  *)
(* if nothing was disturbed.                                               *)
LEMMA SendChunkKeeps ==
  ASSUME DownloadInv, Rrq!SendChunk
  PROVE  DownloadInv'
<1> DEFINE p == DataOf(block')
<1>1. DownloadTypes
  BY DEF DownloadInv
<1>2. /\ at = "send" /\ at' = "await"
      /\ block' = block + 1 /\ block' \in 1..FileLength
      /\ id' = block' % IdMod
      /\ net' = Copies!BagAdd(net, p)
      /\ UNCHANGED <<dups, strangers, retries, disturbed, mistaken, got, client>>
  BY <1>1, SendChunkMoves
<1>3. block \in Nat /\ got' = got /\ Len(got) \in Nat
  BY <1>1, <1>2, TftpNetworkAssumption DEF DownloadTypes, TftpNetworkAssumption
<1>4. DownloadTypes'
  <2>1. DownloadPackets \subseteq DownloadPackets'
    BY <1>1, <1>2, <1>3, DownloadPacketsGrow
  <2>2. p \in DownloadPackets'
    BY <1>2 DEF DownloadPackets
  <2>3. IsABag(net)' /\ BagToSet(net)' \subseteq DownloadPackets'
    <3>1. IsABag(net') /\ BagToSet(net') = BagToSet(net) \cup {p}
      BY <1>1, <1>2, SentBag DEF DownloadTypes
    <3> QED
      BY <1>1, <2>1, <2>2, <3>1 DEF DownloadTypes
  <2>4. CountersOK'
    BY <1>1, <1>2 DEF DownloadTypes, CountersOK
  <2> HIDE DEF p
  <2> QED
    BY <1>1, <1>2, <1>3, <2>3, <2>4, TftpNetworkAssumption
       DEF DownloadTypes, TftpNetworkAssumption
<1>5. DownloadUnwrapped' => InLockStep'
  <2>1. DownloadUnwrapped' => DownloadUnwrapped
    BY <1>2, <1>3, TftpNetworkAssumption DEF DownloadUnwrapped, TftpNetworkAssumption
  <2>2. SUFFICES ASSUME InLockStep PROVE InLockStep'
    BY <2>1 DEF DownloadInv
  <2>3. Acked = block /\ Acked' = block /\ mistaken' = mistaken /\ at' = "await"
    BY <1>2, <1>3 DEF Acked
  <2> HIDE DEF p
  <2>4. got' = got /\ client' = client /\ got = [i \in 1..Len(got) |-> i]
    BY <1>2, <2>2 DEF InLockStep
  <2> QED
    BY <1>2, <1>3, <2>2, <2>3, <2>4 DEF InLockStep
<1>6. ~disturbed' => QuietDownload'
  <2>1. ~disturbed => Len(got) = block /\ net = EmptyBag /\ client = "running"
    BY <1>2 DEF DownloadInv, QuietDownload
  <2>2. ~disturbed => net' = Only(p)
    BY <1>2, <2>1, OnlyBag
  <2> QED
    BY <1>2, <1>3, <2>1, <2>2 DEF QuietDownload
<1> QED
  BY <1>4, <1>5, <1>6 DEF DownloadInv

(* A server that gives up no longer relies on the last acknowledgment.     *)
LEMMA FewerAcked ==
  ASSUME block \in 0..FileLength, Len(got) \in Nat, block' = block, at' \in {at, "failed"}
  PROVE  Len(got) + 1..Acked' \subseteq Len(got) + 1..Acked
<1>1. block \in Nat
  BY TftpNetworkAssumption DEF TftpNetworkAssumption
<1> QED
  BY <1>1 DEF Acked

(* Giving up, and whatever else leaves no trace but that it disturbs.      *)
LEMMA DisturbanceKeeps ==
  ASSUME DownloadInv, disturbed' = TRUE, CountersOK', mistaken' = mistaken,
         at' \in {at, "failed"}, UNCHANGED <<block, id, got>>,
         client' = client \/ (client = "running" /\ client' = "failed"),
         IsABag(net'), BagToSet(net') \subseteq DownloadPackets
  PROVE  DownloadInv'
<1>1. DownloadTypes'
  BY DownloadTypesKept DEF DownloadInv, DownloadTypes
<1>2. DownloadUnwrapped' => InLockStep'
  BY FewerAcked DEF DownloadInv, DownloadTypes, DownloadUnwrapped, InLockStep
<1> QED
  BY <1>1, <1>2 DEF DownloadInv

LEMMA DownloadNet ==
  ASSUME NEW p, NEW q
  PROVE  /\ Rrq!Receives(p) =>
              net' = Copies!BagRemove(net, p) /\ UNCHANGED <<dups, strangers, retries, disturbed, mistaken>>
         /\ Rrq!Takes(p) =>
              /\ net' = Copies!BagRemove(net, p)
              /\ mistaken' = IF p.from = "namesake" THEN mistaken \cup {p.id} ELSE mistaken
              /\ UNCHANGED <<dups, strangers, retries, disturbed>>
         /\ Rrq!Answers(p, q) =>
              /\ net' = Copies!BagAdd(Copies!BagRemove(net, p), q)
              /\ UNCHANGED <<dups, strangers, retries, disturbed, mistaken>>
         /\ Rrq!Resends(q) =>
              /\ net' = Copies!BagAdd(net, q) /\ disturbed' = TRUE
              /\ retries < MaxRetries /\ retries' = retries + 1
              /\ UNCHANGED <<dups, strangers, mistaken>>
         /\ Rrq!Disturbs => disturbed' = TRUE /\ UNCHANGED <<net, dups, strangers, retries, mistaken>>
  BY DEF Rrq!Receives, Rrq!Takes, Rrq!Answers, Rrq!Resends, Rrq!Disturbs, Rrq!historyVars,
         Rrq!Copies!BagAdd, Copies!BagAdd, Rrq!Copies!BagRemove, Copies!BagRemove

(* The bag after a packet was taken out of it and perhaps answered.        *)
LEMMA TakenBag ==
  ASSUME NEW B, IsABag(B), NEW p, NEW q
  PROVE  /\ IsABag(Copies!BagRemove(B, p)) /\ BagToSet(Copies!BagRemove(B, p)) \subseteq BagToSet(B)
         /\ IsABag(Copies!BagAdd(Copies!BagRemove(B, p), q))
         /\ BagToSet(Copies!BagAdd(Copies!BagRemove(B, p), q)) \subseteq BagToSet(B) \cup {q}
  BY SentBag, ReceivedBag

(* An acknowledgment of the client that the server counts is that of the   *)
(* chunk it sent last: the client is where the server is.                  *)
LEMMA CountedAck ==
  ASSUME DownloadInv, DownloadUnwrapped, at = "await", NEW p \in BagToSet(net),
         p.to = "server", p.type = "ACK", p.from = "client", p.id = id
  PROVE  Len(got) = block
<1>1. PICK n \in 1..Len(got) : p = DownloadAck(n)
  BY DownloadPacketKinds DEF DownloadInv, DownloadTypes
<1>2. /\ block \in Nat /\ block > 0 /\ id = block % IdMod /\ IdMod \in Nat \ {0}
      /\ block <= IdMod /\ Len(got) \in Nat /\ Len(got) <= block
  BY TftpNetworkAssumption
     DEF TftpNetworkAssumption, DownloadInv, DownloadTypes, DownloadUnwrapped, InLockStep
<1>3. n % IdMod = block % IdMod
  BY <1>1, <1>2 DEF DownloadAck, Packet
<1>4. n \in Nat /\ block - n < IdMod /\ n - block < IdMod
  BY <1>1, <1>2
<1>5. n = block
  BY <1>2, <1>3, <1>4, NumbersDiffer
<1> QED
  BY <1>1, <1>2, <1>5

LEMMA ReceiveAckKeeps ==
  ASSUME DownloadInv, NEW p \in BagToSet(net), p.to = "server", Rrq!ReceiveAck(p)
  PROVE  DownloadInv'
<1>1. /\ at = "await" /\ p.type = "ACK" /\ p.id = id /\ p.from \in {"client", "namesake"}
      /\ at' = IF block = FileLength THEN "success" ELSE "send"
      /\ UNCHANGED <<block, id, got, client>>
      /\ net' = Copies!BagRemove(net, p) /\ UNCHANGED <<dups, strangers, retries, disturbed>>
      /\ mistaken' = IF p.from = "namesake" THEN mistaken \cup {p.id} ELSE mistaken
  BY DownloadNet DEF Rrq!ReceiveAck, Rrq!IsAck, Rrq!FromTid, Rrq!clientVars
<1>a. id \in BlockIds /\ id = block % IdMod /\ block \in Nat /\ block > 0 /\ Len(got) \in Nat
  <2>1. id = block % IdMod /\ block \in Nat /\ block > 0 /\ Len(got) \in Nat
    BY <1>1, TftpNetworkAssumption DEF DownloadInv, DownloadTypes, TftpNetworkAssumption
  <2>2. (block % IdMod) \in BlockIds
    BY <2>1, DownloadNumbers
  <2> QED
    BY <2>1, <2>2
<1>2. DownloadTypes'
  <2>1. IsABag(net') /\ BagToSet(net') \subseteq BagToSet(net) \cup {}
    BY <1>1, ReceivedBag DEF DownloadInv, DownloadTypes
  <2>2. at' = "success" \/ (at' = "send" /\ block < FileLength)
    BY <1>1, TftpNetworkAssumption DEF DownloadInv, DownloadTypes, TftpNetworkAssumption
  <2>3. CountersOK'
    BY <1>1, <1>a DEF DownloadInv, DownloadTypes, CountersOK
  <2> QED
    BY <1>1, <2>1, <2>2, <2>3, DownloadTypesKept DEF DownloadInv, DownloadTypes
<1>3. DownloadUnwrapped' => InLockStep'
  <2>1. SUFFICES ASSUME DownloadUnwrapped, InLockStep PROVE InLockStep'
    BY <1>1 DEF DownloadUnwrapped, DownloadInv
  <2>2. Acked = block - 1 /\ Acked' = block
    BY <1>1 DEF Acked
  <2>3. ASSUME NEW n \in Len(got) + 1..block PROVE (n % IdMod) \in mistaken'
    <3>1. p.from = "namesake"
      BY <1>1, <1>a, <2>1, <2>3, CountedAck
    <3>2. n = block \/ n \in Len(got) + 1..block - 1
      BY <1>a
    <3> QED
      BY <1>1, <1>a, <2>1, <2>2, <3>1, <3>2 DEF InLockStep
  <2> QED
    BY <1>1, <2>1, <2>2, <2>3 DEF InLockStep
<1>4. ~disturbed' => QuietDownload'
  <2>1. SUFFICES ASSUME ~disturbed PROVE QuietDownload'
    BY <1>1
  <2>2. CASE net = Only(DataOf(block))
    <3>1. p = DataOf(block)
      BY <2>2, OnlyBag
    <3> QED
      BY <3>1, <1>1 DEF DataOf, Packet
  <2>3. CASE /\ client = (IF block = FileLength THEN "success" ELSE "running")
             /\ Len(got) = block /\ net = Only(DownloadAck(block))
    <3>1. p = DownloadAck(block)
      BY <2>3, OnlyBag
    <3>2. net' = EmptyBag
      BY <1>1, <2>3, <3>1, OnlyBag
    <3> QED
      BY <1>1, <2>3, <3>2 DEF QuietDownload
  <2> QED
    BY <1>1, <2>1, <2>2, <2>3 DEF DownloadInv, QuietDownload
<1> QED
  BY <1>2, <1>3, <1>4 DEF DownloadInv

(* A packet that ends the transfer is none that arrives undisturbed.       *)
LEMMA RefusalKeeps ==
  ASSUME DownloadInv, NEW p \in BagToSet(net), p.to = "server",
         Rrq!ReceiveOther(p) \/ Rrq!ReceiveStrange(p)
  PROVE  DownloadInv'
<1>1. /\ at = "await" /\ ~(p.type = "ACK" /\ p.id = id /\ p.from \in {"client", "namesake"})
      /\ at' = "failed"
      /\ UNCHANGED <<block, id, got, client>>
      /\ \/ net' = Copies!BagRemove(net, p)
         \/ net' = Copies!BagAdd(Copies!BagRemove(net, p), Refusal)
      /\ UNCHANGED <<dups, strangers, retries, disturbed, mistaken>>
  BY DownloadNet DEF Rrq!ReceiveOther, Rrq!ReceiveStrange, Rrq!IsAck, Rrq!FromTid,
                     Rrq!clientVars, Refusal, Packet, Rrq!Packet
<1>2. DownloadTypes'
  <2> IsABag(net)
    BY DEF DownloadInv, DownloadTypes
  <2>1. /\ IsABag(Copies!BagRemove(net, p)) /\ IsABag(Copies!BagAdd(Copies!BagRemove(net, p), Refusal))
        /\ BagToSet(Copies!BagRemove(net, p)) \subseteq BagToSet(net)
        /\ BagToSet(Copies!BagAdd(Copies!BagRemove(net, p), Refusal)) \subseteq BagToSet(net) \cup {Refusal}
    BY TakenBag
  <2>2. IsABag(net') /\ BagToSet(net') \subseteq BagToSet(net) \cup {Refusal}
    BY <1>1, <2>1
  <2>3. {Refusal} \subseteq DownloadPackets
    BY DEF DownloadPackets
  <2>4. CountersOK'
    BY <1>1 DEF DownloadInv, DownloadTypes, CountersOK
  <2> QED
    BY <1>1, <2>2, <2>3, <2>4, DownloadTypesKept DEF DownloadInv, DownloadTypes
<1>3. DownloadUnwrapped' => InLockStep'
  BY <1>1, FewerAcked DEF DownloadInv, DownloadTypes, DownloadUnwrapped, InLockStep
<1>4. disturbed
  <2>1. SUFFICES ASSUME ~disturbed PROVE FALSE
    OBVIOUS
  <2>2. p = DataOf(block) \/ p = DownloadAck(block)
    BY <1>1, <2>1, OnlyBag DEF DownloadInv, QuietDownload
  <2> QED
    BY <1>1, <2>2 DEF DataOf, DownloadAck, Packet, DownloadInv, DownloadTypes
<1> QED
  BY <1>1, <1>2, <1>3, <1>4 DEF DownloadInv

(* The chunk that the client accepts is the one it lacks: a late duplicate *)
(* of an earlier one has another number.                                   *)
LEMMA AcceptedChunk ==
  ASSUME DownloadInv, DownloadUnwrapped, client = "running",
         NEW n \in 1..block, n % IdMod = (Len(got) + 1) % IdMod
  PROVE  n = Len(got) + 1
<1>1. /\ block \in Nat /\ n \in Nat /\ Len(got) \in Nat /\ n <= block
      /\ IdMod \in Nat \ {0} /\ FileLength \in Nat /\ block <= FileLength
  BY TftpNetworkAssumption DEF TftpNetworkAssumption, DownloadInv, DownloadTypes
<1>2. Len(got) <= block /\ Len(got) # FileLength
  BY DEF DownloadInv, InLockStep
<1>3. n - (Len(got) + 1) < IdMod /\ (Len(got) + 1) - n < IdMod /\ Len(got) + 1 \in Nat
  BY <1>1, <1>2 DEF DownloadUnwrapped
<1> QED
  BY <1>1, <1>3, NumbersDiffer

LEMMA AcceptChunkKeeps ==
  ASSUME DownloadInv, NEW p \in BagToSet(net), p.to = "client", Rrq!AcceptChunk(p)
  PROVE  DownloadInv'
<1> DEFINE q == DownloadAck(Len(got) + 1)
<1>1. PICK n \in 1..block : p = DataOf(n)
  BY DownloadPacketKinds DEF Rrq!AcceptChunk, DownloadInv, DownloadTypes
<1>2. /\ block \in Nat /\ block <= FileLength /\ n \in 1..FileLength /\ n <= block
      /\ FileLength \in Nat /\ got \in Seq(1..FileLength) /\ Len(got) \in Nat
  BY TftpNetworkAssumption DEF TftpNetworkAssumption, DownloadInv, DownloadTypes
<1>3. /\ client = "running" /\ n % IdMod = (Len(got) + 1) % IdMod
      /\ got' = Append(got, n)
      /\ client' = IF n = FileLength THEN "success" ELSE "running"
      /\ UNCHANGED <<at, block, id>>
  BY <1>1 DEF Rrq!AcceptChunk, DataOf, Packet, Rrq!serverVars
<1>4. /\ net' = Copies!BagAdd(Copies!BagRemove(net, p), q)
      /\ UNCHANGED <<dups, strangers, retries, disturbed, mistaken>>
  <2>1. q = Rrq!AckOf(Len(got) + 1)
    BY <1>2, DownloadNumbers
  <2> QED
    BY <2>1, DownloadNet DEF Rrq!AcceptChunk
<1>5. /\ got' \in Seq(1..FileLength) /\ Len(got') = Len(got) + 1
      /\ \A i \in 1..Len(got) : got'[i] = got[i]
      /\ got'[Len(got) + 1] = n
  BY <1>2, <1>3
<1> HIDE DEF q
<1>6. DownloadTypes'
  <2>1. DownloadPackets \subseteq DownloadPackets'
    BY <1>2, <1>3, <1>5, DownloadPacketsGrow DEF DownloadInv
  <2>2. q \in DownloadPackets'
    <3>1. Len(got) + 1 \in 1..Len(got')
      BY <1>2, <1>5
    <3>2. q \in {DownloadAck(i) : i \in 1..Len(got')}
      BY <3>1 DEF q
    <3> QED
      BY <3>2 DEF DownloadPackets
  <2>3. IsABag(net)' /\ BagToSet(net)' \subseteq DownloadPackets'
    BY <1>4, <2>1, <2>2, TakenBag DEF DownloadInv, DownloadTypes
  <2>4. CountersOK'
    BY <1>4 DEF DownloadInv, DownloadTypes, CountersOK
  <2> QED
    BY <1>3, <1>5, <2>3, <2>4 DEF DownloadInv, DownloadTypes
<1>7. DownloadUnwrapped' => InLockStep'
  <2>1. SUFFICES ASSUME DownloadUnwrapped PROVE InLockStep'
    BY <1>3 DEF DownloadUnwrapped
  <2>2. n = Len(got) + 1 /\ InLockStep
    BY <1>3, <2>1, AcceptedChunk DEF DownloadInv
  <2>3. got = [i \in 1..Len(got) |-> i]
    BY <2>2 DEF InLockStep
  <2>4. got' = [i \in 1..Len(got') |-> i]
    BY <1>2, <1>5, <2>2, <2>3
  <2>5. /\ Len(got') + 1..Acked' \subseteq Len(got) + 1..Acked
        /\ mistaken' = mistaken /\ Len(got') <= block' /\ block' \in Nat
    <3>1. Acked \in Int /\ Acked' = Acked
      BY <1>2, <1>3 DEF Acked
    <3> QED
      BY <1>2, <1>3, <1>4, <1>5, <2>2, <3>1
  <2>6. \A k \in Len(got') + 1..Acked' : (k % IdMod) \in mistaken'
    BY <2>2, <2>5 DEF InLockStep
  <2>7. at' = "success" => block' = FileLength
    BY <1>3, <2>2 DEF InLockStep
  <2>8. client' = "success" <=> Len(got') = FileLength
    BY <1>3, <1>5, <2>2
  <2> QED
    BY <2>4, <2>5, <2>6, <2>7, <2>8 DEF InLockStep
<1>8. ~disturbed' => QuietDownload'
  <2>1. SUFFICES ASSUME ~disturbed PROVE QuietDownload'
    BY <1>4
  <2>2. /\ at = "await" /\ Len(got) = block - 1 /\ net = Only(p) /\ p = DataOf(block)
    BY <1>1, <1>3, <2>1, OnlyBag
       DEF DownloadInv, QuietDownload, DataOf, DownloadAck, Packet
  <2>3. n = block
    BY <1>1, <2>2 DEF DataOf, Packet
  <2>4. net' = Only(DownloadAck(block))
    BY <1>2, <1>4, <2>2, OnlyBag DEF q
  <2> QED
    BY <1>2, <1>3, <1>5, <2>2, <2>3, <2>4 DEF QuietDownload
<1> QED
  BY <1>6, <1>7, <1>8 DEF DownloadInv

(* What the client answers without accepting it, or drops, is a duplicate  *)
(* or comes after the transfer.                                            *)
LEMMA ClientKeeps ==
  ASSUME DownloadInv, NEW p \in BagToSet(net), p.to = "client",
         Rrq!AckAgain(p) \/ Rrq!ClientFails(p) \/ Rrq!ClientDrops(p)
  PROVE  DownloadInv'
<1>1. /\ block \in Nat /\ Len(got) \in Nat /\ IdMod \in Nat \ {0, 1}
      /\ got # <<>> => Len(got) \in 1..Len(got)
      /\ got = <<>> => Len(got) = 0
  BY TftpNetworkAssumption DEF TftpNetworkAssumption, DownloadInv, DownloadTypes
<1>2. /\ UNCHANGED <<at, block, id, got>>
      /\ client' = client \/ (client = "running" /\ client' = "failed")
      /\ \/ net' = Copies!BagRemove(net, p)
         \/ net' = Copies!BagAdd(Copies!BagRemove(net, p), DownloadAck(Len(got))) /\ got # <<>>
      /\ UNCHANGED <<dups, strangers, retries, disturbed, mistaken>>
  BY <1>1, DownloadNet, DownloadNumbers
     DEF Rrq!AckAgain, Rrq!ClientFails, Rrq!ClientDrops, Rrq!serverVars, Rrq!clientVars
<1>3. DownloadTypes'
  <2>1. PICK S : /\ S \subseteq DownloadPackets
                 /\ IsABag(net') /\ BagToSet(net') \subseteq BagToSet(net) \cup S
    <3>1. got # <<>> => {DownloadAck(Len(got))} \subseteq DownloadPackets
      BY <1>1 DEF DownloadPackets
    <3>2. CASE net' = Copies!BagRemove(net, p)
      <4>1. IsABag(net') /\ BagToSet(net') \subseteq BagToSet(net) \cup {}
        BY <3>2, TakenBag DEF DownloadInv, DownloadTypes
      <4>2. {} \subseteq DownloadPackets
        OBVIOUS
      <4> QED
        BY <4>1, <4>2
    <3>3. CASE net' = Copies!BagAdd(Copies!BagRemove(net, p), DownloadAck(Len(got))) /\ got # <<>>
      <4>1. IsABag(net')
            /\ BagToSet(net') \subseteq BagToSet(net) \cup {DownloadAck(Len(got))}
        BY <3>3, TakenBag DEF DownloadInv, DownloadTypes
      <4> QED
        BY <3>1, <3>3, <4>1
    <3> QED
      BY <1>2, <3>2, <3>3
  <2>2. CountersOK'
    BY <1>2 DEF DownloadInv, DownloadTypes, CountersOK
  <2>3. client' \in {"running", "success", "failed"}
    BY <1>2 DEF DownloadInv, DownloadTypes
  <2> QED
    BY <1>2, <2>1, <2>2, <2>3, DownloadTypesKept DEF DownloadInv, DownloadTypes
<1>4. DownloadUnwrapped' => InLockStep'
  BY <1>2 DEF DownloadInv, DownloadUnwrapped, InLockStep, Acked
<1>5. disturbed
  <2>1. SUFFICES ASSUME ~disturbed PROVE FALSE
    OBVIOUS
  <2>2. /\ client = "running" /\ Len(got) = block - 1 /\ p = DataOf(block)
    BY <2>1, OnlyBag DEF DownloadInv, QuietDownload, DataOf, DownloadAck, Packet
  <2>3. p.type = "DATA" /\ p.id = (Len(got) + 1) % IdMod
    BY <1>1, <2>2 DEF DataOf, Packet
  <2>4. p.id # Len(got) % IdMod
    <3>1. /\ (Len(got) + 1) - Len(got) < IdMod /\ Len(got) - (Len(got) + 1) < IdMod
          /\ Len(got) + 1 \in Nat /\ Len(got) + 1 # Len(got)
      BY <1>1
    <3> QED
      BY <1>1, <2>3, <3>1, NumbersDiffer
  <2>5. got = <<>> => p.id = 1 % IdMod
    BY <1>1, <2>3
  <2> QED
    BY <2>2, <2>3, <2>4, <2>5 DEF Rrq!AckAgain, Rrq!ClientFails, Rrq!ClientDrops
<1> QED
  BY <1>2, <1>3, <1>4, <1>5 DEF DownloadInv

LEMMA DownloadStep ==
  ASSUME DownloadInv, kind = "rrq", [TransferNext]_transferVars
  PROVE  DownloadInv' /\ kind' = kind
<1> USE DEF rrqOnly
<1>0. kind' = kind
  BY DEF TransferNext, Server, Client, transferVars
<1> SUFFICES DownloadInv'
  BY <1>0
<1>1. CASE Rrq!SendChunk
  BY <1>1, SendChunkKeeps
<1>2. CASE Rrq!SendChunkFails \/ Rrq!AwaitTimesOut \/ Rrq!ClientGivesUp
  <2>1. /\ disturbed' = TRUE /\ UNCHANGED <<net, dups, strangers, retries, mistaken, block, id, got>>
        /\ at' \in {at, "failed"}
        /\ client' = client \/ (client = "running" /\ client' = "failed")
    BY <1>2, DownloadNet DEF Rrq!SendChunkFails, Rrq!AwaitTimesOut, Rrq!ClientGivesUp,
                             Rrq!serverVars, Rrq!clientVars
  <2>2. CountersOK' /\ IsABag(net') /\ BagToSet(net') \subseteq DownloadPackets
    BY <2>1 DEF DownloadInv, DownloadTypes, CountersOK
  <2> QED
    BY <2>1, <2>2, DisturbanceKeeps
<1>3. CASE Rrq!ServerReceives
  BY <1>3, ReceiveAckKeeps, RefusalKeeps
     DEF Rrq!ServerReceives, Rrq!BagToSet, BagToSet
<1>4. CASE Rrq!ClientReceives
  BY <1>4, AcceptChunkKeeps, ClientKeeps DEF Rrq!ClientReceives, Rrq!BagToSet, BagToSet
<1>5. CASE Rrq!ClientRepeats
  <2>1. Len(got) \in 1..Len(got) /\ Rrq!AckOf(Len(got)) = DownloadAck(Len(got))
    BY <1>5, DownloadNumbers DEF Rrq!ClientRepeats, DownloadInv, DownloadTypes
  <2>2. /\ net' = Copies!BagAdd(net, DownloadAck(Len(got))) /\ disturbed' = TRUE
        /\ retries < MaxRetries /\ retries' = retries + 1
        /\ UNCHANGED <<dups, strangers, mistaken, at, block, id, got, client>>
    BY <1>5, <2>1, DownloadNet DEF Rrq!ClientRepeats, Rrq!serverVars, Rrq!clientVars
  <2>3. CountersOK'
    BY <2>2, TftpNetworkAssumption
       DEF TftpNetworkAssumption, DownloadInv, DownloadTypes, CountersOK
  <2>4. DownloadAck(Len(got)) \in DownloadPackets
    BY <2>1 DEF DownloadPackets
  <2>5. IsABag(net') /\ BagToSet(net') \subseteq DownloadPackets
    BY <2>2, <2>4, SentBag DEF DownloadInv, DownloadTypes
  <2> QED
    BY <2>2, <2>3, <2>5, DisturbanceKeeps
<1>6. CASE Network(FileLength) /\ UNCHANGED <<at, client, block, id, got>>
  <2>1. /\ CountersOK' /\ disturbed' = TRUE /\ mistaken' = mistaken
        /\ IsABag(net') /\ BagToSet(net') \subseteq BagToSet(net) \cup Strays(FileLength)
    BY <1>6, NetworkMoves DEF DownloadInv, DownloadTypes
  <2>2. BagToSet(net') \subseteq DownloadPackets
    BY <2>1 DEF DownloadInv, DownloadTypes, DownloadPackets
  <2> QED
    BY <1>6, <2>1, <2>2, DisturbanceKeeps
<1>7. CASE UNCHANGED transferVars
  BY <1>7 DEF transferVars, networkVars, DownloadInv, DownloadTypes, CountersOK,
              DownloadPackets, DownloadUnwrapped, InLockStep, Acked, QuietDownload
<1> QED
  BY <1>1, <1>2, <1>3, <1>4, <1>5, <1>6, <1>7
     DEF TransferNext, Server, Client, Rrq!Server, Rrq!Client

LEMMA DownloadStarts == Rrq!RrqInit => DownloadInv
<1> SUFFICES ASSUME Rrq!RrqInit PROVE DownloadInv
  OBVIOUS
<1>1. /\ net = EmptyBag /\ dups = 0 /\ strangers = 0 /\ retries = 0 /\ disturbed = FALSE
      /\ mistaken = {}
      /\ at = "send" /\ block = 0 /\ id = 0 /\ got = <<>> /\ client = "running"
  BY DEF Rrq!RrqInit, Rrq!NetworkInit, Rrq!EmptyBag, EmptyBag, Rrq!SetToBag, SetToBag
<1>2. 0 % IdMod = 0 /\ FileLength \in Nat \ {0}
  BY TftpNetworkAssumption DEF TftpNetworkAssumption
<1>3. DownloadTypes
  <2>1. IsABag(net) /\ BagToSet(net) = {}
    BY <1>1, OnlyBag
  <2>2. disturbed \in BOOLEAN
    BY <1>1
  <2>3. CountersOK
    BY <1>1, <2>2, TftpNetworkAssumption DEF TftpNetworkAssumption, CountersOK
  <2> QED
    BY <1>1, <1>2, <2>1, <2>3 DEF DownloadTypes
<1>4. InLockStep
  BY <1>1, <1>2 DEF InLockStep, Acked
<1>5. QuietDownload
  BY <1>1 DEF QuietDownload
<1> QED
  BY <1>3, <1>4, <1>5 DEF DownloadInv

-----------------------------------------------------------------------------
(* What is stored, in order, stays stored, and less of it is, too; and a   *)
(* later block is if it is appended.                                       *)
InPlaces(places, S, f) ==
  /\ places \in [S -> 1..Len(f)]
  /\ \A i \in S : f[places[i]] = i
  /\ \A i \in S : \A j \in S : j < i => places[j] < places[i]

LEMMA StoredPlaces ==
  ASSUME NEW S, NEW f
  PROVE  Wrq!InOrder(S, f) <=> \E places : InPlaces(places, S, f)
<1>1. Wrq!InOrder(S, f) => \E places : InPlaces(places, S, f)
  <2>1. ASSUME Wrq!InOrder(S, f) PROVE \E places : InPlaces(places, S, f)
    <3>1. PICK places \in [S -> 1..Len(f)] :
            \A i \in S : f[places[i]] = i /\ \A j \in S : j < i => places[j] < places[i]
      BY <2>1 DEF Wrq!InOrder
    <3>2. InPlaces(places, S, f)
      BY <3>1 DEF InPlaces
    <3> QED
      BY <3>2
  <2> QED
    BY <2>1
<1>2. ASSUME NEW places, InPlaces(places, S, f) PROVE Wrq!InOrder(S, f)
  BY <1>2 DEF InPlaces, Wrq!InOrder
<1> QED
  BY <1>1, <1>2

LEMMA StoredNothing == ASSUME NEW f PROVE Wrq!InOrder({}, f)
<1>1. InPlaces([i \in {} |-> 1], {}, f)
  BY DEF InPlaces
<1> QED
  BY <1>1, StoredPlaces

LEMMA StoredSubset ==
  ASSUME NEW S, NEW T, S \subseteq T, NEW f, Wrq!InOrder(T, f)
  PROVE  Wrq!InOrder(S, f)
<1>1. PICK places : InPlaces(places, T, f)
  BY StoredPlaces
<1> DEFINE fewer == [i \in S |-> places[i]]
<1>2. \A i \in S : fewer[i] = places[i] /\ i \in T
  OBVIOUS
<1>3. fewer \in [S -> 1..Len(f)]
  BY <1>1 DEF InPlaces
<1> HIDE DEF fewer
<1>4. InPlaces(fewer, S, f)
  BY <1>1, <1>2, <1>3 DEF InPlaces
<1> QED
  BY <1>4, StoredPlaces

LEMMA StoredAppend ==
  ASSUME NEW f \in Seq(Nat), NEW S \in SUBSET Nat, NEW n \in Nat, Wrq!InOrder(S, f)
  PROVE  /\ Wrq!InOrder(S, Append(f, n))
         /\ (\A i \in S : i < n) => Wrq!InOrder(S \cup {n}, Append(f, n))
<1> DEFINE g == Append(f, n)
<1>1. PICK places : InPlaces(places, S, f)
  BY StoredPlaces
<1>2. /\ Len(f) \in Nat /\ Len(g) = Len(f) + 1 /\ g[Len(f) + 1] = n
      /\ \A i \in 1..Len(f) : g[i] = f[i]
  OBVIOUS
<1> HIDE DEF g
<1>3. Wrq!InOrder(S, g)
  <2>1. places \in [S -> 1..Len(f)] /\ 1..Len(f) \subseteq 1..Len(g)
    BY <1>1, <1>2 DEF InPlaces
  <2>2. \A i \in S : g[places[i]] = i
    BY <1>1, <1>2, <2>1 DEF InPlaces
  <2>3. InPlaces(places, S, g)
    BY <1>1, <2>1, <2>2 DEF InPlaces
  <2> QED
    BY <2>3, StoredPlaces
<1>4. ASSUME \A i \in S : i < n PROVE Wrq!InOrder(S \cup {n}, g)
  <2> DEFINE T == S \cup {n}
             more == [i \in T |-> IF i = n THEN Len(f) + 1 ELSE places[i]]
  <2>1. \A i \in T : i \in Nat /\ (i = n \/ (i \in S /\ i # n /\ i < n))
    BY <1>4
  <2>a. \A i \in S : places[i] \in 1..Len(f) /\ f[places[i]] = i
    BY <1>1 DEF InPlaces
  <2>b. \A i \in T : more[i] = IF i = n THEN Len(f) + 1 ELSE places[i]
    OBVIOUS
  <2>2. more \in [T -> 1..Len(g)]
    <3>1. Len(f) + 1 \in 1..Len(g) /\ 1..Len(f) \subseteq 1..Len(g)
      BY <1>2
    <3>2. \A i \in T : i # n => places[i] \in 1..Len(g)
      BY <2>1, <2>a, <3>1
    <3> HIDE DEF T
    <3>3. \A i \in T : (IF i = n THEN Len(f) + 1 ELSE places[i]) \in 1..Len(g)
      BY <3>1, <3>2, Zenon
    <3> QED
      BY <3>3
  <2> HIDE DEF T, more
  <2>3. ASSUME NEW i \in T PROVE g[more[i]] = i
    <3>1. CASE i = n
      BY <3>1, <2>b, <1>2
    <3>2. CASE i # n
      <4>1. more[i] = places[i] /\ places[i] \in 1..Len(f) /\ f[places[i]] = i
        BY <3>2, <2>1, <2>a, <2>b
      <4> QED
        BY <4>1, <1>2
    <3> QED
      BY <3>1, <3>2
  <2>4. ASSUME NEW i \in T, NEW j \in T, j < i PROVE more[j] < more[i]
    <3>1. j \in S /\ j # n
      BY <2>1, <2>4
    <3>2. more[j] = places[j] /\ places[j] \in 1..Len(f)
      BY <2>a, <2>b, <3>1
    <3>3. CASE i = n
      <4>1. more[i] = Len(f) + 1
        BY <2>b, <3>3
      <4> QED
        BY <1>2, <3>2, <4>1
    <3>4. CASE i \in S /\ i # n
      <4>1. more[i] = places[i] /\ places[j] < places[i]
        BY <1>1, <2>4, <2>b, <3>1, <3>4 DEF InPlaces
      <4> QED
        BY <3>2, <4>1
    <3> QED
      BY <2>1, <3>3, <3>4
  <2>5. InPlaces(more, T, g)
    BY <2>2, <2>3, <2>4 DEF InPlaces
  <2> QED
    BY <2>5, StoredPlaces DEF T
<1> QED
  BY <1>3, <1>4 DEF g

LEMMA StoredContains ==
  ASSUME NEW S, NEW f, Wrq!InOrder(S, f), NEW i \in S
  PROVE  \E j \in 1..Len(f) : f[j] = i
<1>1. PICK places : InPlaces(places, S, f)
  BY StoredPlaces
<1> QED
  BY <1>1 DEF InPlaces

-----------------------------------------------------------------------------
(* What the actions of an upload come to.                                  *)
LEMMA UploadNumbers ==
  ASSUME NEW n \in Nat
  PROVE  /\ n % IdMod \in BlockIds
         /\ n <= UploadLength =>
              BlockOf(n) \in Wrq!Packets /\ BlockOf(n) = Wrq!Block(n)
         /\ UploadAck(n) \in Wrq!Packets /\ Wrq!AckOf(BlockOf(n)) = UploadAck(n)
<1>1. n % IdMod \in 0..IdMod - 1
  BY TftpNetworkAssumption, Division DEF TftpNetworkAssumption
<1> QED
  BY <1>1, TftpNetworkAssumption, UploadAssumption
     DEF TftpNetworkAssumption, UploadAssumption, BlockIds, BlockOf, UploadAck, Packet,
         Wrq!Packet, Wrq!Block, Wrq!AckOf, Wrq!Packets, Wrq!BlockIds

LEMMA NothingInHand == Wrq!NoPacket = BlockOf(0) /\ 0 % IdMod = 0
<1>1. 0 % IdMod = 0
  BY TftpNetworkAssumption DEF TftpNetworkAssumption
<1> QED
  BY <1>1 DEF Wrq!NoPacket, Wrq!Packet, BlockOf, Packet

LEMMA UploadNetSteps ==
  ASSUME NEW p, NEW q
  PROVE  /\ Wrq!Sends(p) =>
              net' = Copies!BagAdd(net, p) /\ UNCHANGED <<dups, strangers, retries, disturbed, mistaken>>
         /\ Wrq!Receives(p) =>
              net' = Copies!BagRemove(net, p) /\ UNCHANGED <<dups, strangers, retries, disturbed, mistaken>>
         /\ Wrq!Takes(p) =>
              /\ net' = Copies!BagRemove(net, p) /\ UNCHANGED <<dups, strangers, retries, disturbed>>
              /\ mistaken' = IF p.from = "namesake" THEN mistaken \cup {p.id} ELSE mistaken
         /\ Wrq!Answers(p, q) =>
              /\ net' = Copies!BagAdd(Copies!BagRemove(net, p), q)
              /\ UNCHANGED <<dups, strangers, retries, disturbed, mistaken>>
         /\ Wrq!Resends(q) =>
              /\ net' = Copies!BagAdd(net, q) /\ disturbed' = TRUE
              /\ retries < MaxRetries /\ retries' = retries + 1
              /\ UNCHANGED <<dups, strangers, mistaken>>
         /\ Wrq!Disturbs => disturbed' = TRUE /\ UNCHANGED <<net, dups, strangers, retries, mistaken>>
  BY DEF Wrq!Sends, Wrq!Receives, Wrq!Takes, Wrq!Answers, Wrq!Resends, Wrq!Disturbs,
         Wrq!historyVars, Wrq!Copies!BagAdd, Copies!BagAdd, Wrq!Copies!BagRemove, Copies!BagRemove

LEMMA UploadPacketKinds ==
  ASSUME NEW p \in UploadPackets
  PROVE  /\ p.to = "server" /\ p.from = "client" => \E n \in 1..sent : p = BlockOf(n)
         /\ p.to = "server" /\ p.type = "DATA" /\ p.from = "namesake" =>
              p.id \in BlockIds /\ p.chunk \in Foreign
                /\ p = Packet("DATA", "namesake", "server", p.id, p.chunk)
         /\ p.to = "client" /\ p.type = "ACK" =>
              (\E n \in MayBeAcked : p = UploadAck(n)) \/ p.id \in mistaken
         /\ p.to = "client" => p.type \in {"ACK", "ERROR"}
  BY DEF UploadPackets, UploadAck, BlockOf, Strays, Foreign, Refusal, Packet

(* More is sent and written, but what was in flight may still be.          *)
LEMMA UploadNetKept ==
  ASSUME UploadTypes, sent' \in Nat, sent <= sent', Written \subseteq Written',
         mistaken \subseteq mistaken', at = "success" => at' = "success",
         IsABag(net'), NEW S, S \subseteq UploadPackets',
         BagToSet(net') \subseteq BagToSet(net) \cup S
  PROVE  UploadNet'
<1>1. sent \in Nat /\ 1..sent \subseteq 1..sent'
  BY UploadAssumption DEF UploadAssumption, UploadTypes, UploadEnds
<1>2. MayBeAcked \subseteq MayBeAcked'
  BY DEF MayBeAcked
<1>3. UploadPackets \subseteq UploadPackets'
  BY <1>1, <1>2 DEF UploadPackets
<1> QED
  BY <1>3 DEF UploadTypes, UploadNet

LEMMA WrittenIsSent ==
  ASSUME UploadTypes
  PROVE  /\ sent \in Nat /\ sent <= UploadLength /\ UploadLength \in Nat \ {0}
         /\ Written \subseteq (1..sent) \cup Foreign /\ 0 \in Foreign
         /\ Foreign \subseteq Nat /\ \A n \in 1..UploadLength : n \notin Foreign
         /\ mistaken = {} => Written \subseteq 1..sent
         /\ file \in Seq(Nat) /\ Len(file) \in Nat
<1>1. sent \in Nat /\ sent <= UploadLength /\ UploadLength \in Nat \ {0}
  BY UploadAssumption DEF UploadAssumption, UploadTypes, UploadEnds
<1>2. Foreign \subseteq Nat /\ 0 \in Foreign /\ \A n \in 1..UploadLength : n \notin Foreign
  BY <1>1 DEF Foreign
<1>3. file \in Seq((1..sent) \cup Foreign) /\ (mistaken = {} => Written \subseteq 1..sent)
  BY DEF UploadTypes, UploadEnds
<1>4. file \in Seq(Nat)
  <2>1. (1..sent) \cup Foreign \subseteq Nat
    BY <1>1, <1>2
  <2>2. \A S, T : S \subseteq T /\ file \in Seq(S) => file \in Seq(T)
    OBVIOUS
  <2> QED
    BY <1>3, <2>1, <2>2
<1>5. Written \subseteq (1..sent) \cup Foreign
  <2>1. \A i \in 1..Len(file) : file[i] \in (1..sent) \cup Foreign
    BY <1>3
  <2> QED
    BY <2>1 DEF Written
<1> QED
  BY <1>1, <1>2, <1>3, <1>4, <1>5

(* The more is mistaken, the fewer blocks are known to be stored.          *)
LEMMA FewerGenuine ==
  ASSUME mistaken \subseteq mistaken', NEW n
  PROVE  {i \in 1..n : (i % IdMod) \notin mistaken'} \subseteq Genuine(n)
  BY DEF Genuine

(* Steps that neither send nor write a new block.                          *)
LEMMA StoredKept ==
  ASSUME UploadInv, UNCHANGED <<sent, file>>, client' = client \/ client' = "failed",
         mistaken \subseteq mistaken', at = "success" => at' = "success"
  PROVE  sent' < IdMod => StoredInOrder'
<1> SUFFICES ASSUME StoredInOrder PROVE StoredInOrder'
  BY DEF UploadInv
<1> DEFINE G == {i \in 1..sent - 1 : (i % IdMod) \notin mistaken'}
<1>1. G \subseteq Genuine(sent - 1) /\ G \cup {sent} \subseteq Genuine(sent - 1) \cup {sent}
  BY FewerGenuine
<1>2. Written' = Written /\ Genuine(sent - 1)' = G
  BY DEF Written, Genuine
<1> HIDE DEF G
<1>3. sent > 0 => Wrq!InOrder(G, file)
  BY <1>1, StoredSubset DEF StoredInOrder
<1>4. sent > 0 /\ sent \in Written => Wrq!InOrder(G \cup {sent}, file)
  BY <1>1, StoredSubset DEF StoredInOrder
<1>5. sent' > 0 => Wrq!InOrder(Genuine(sent - 1)', file')
  BY <1>2, <1>3
<1> QED
  BY <1>2, <1>3, <1>4 DEF StoredInOrder, Genuine, G

LEMMA UploadDisturbanceKeeps ==
  ASSUME UploadInv, disturbed' = TRUE, CountersOK', UNCHANGED <<sent, file, hand, mistaken>>,
         \/ at' = at /\ exists' = exists
         \/ at # "success" /\ at' = "failed" /\ exists' \in BOOLEAN,
         client' = client \/ client' = "failed",
         IsABag(net'), NEW S, S \subseteq UploadPackets',
         BagToSet(net') \subseteq BagToSet(net) \cup S
  PROVE  UploadInv'
<1>1. Written' = Written
  BY DEF Written
<1>2. UploadNet'
  <2>1. UploadTypes /\ sent' \in Nat /\ sent <= sent' /\ Written \subseteq Written'
    BY <1>1, WrittenIsSent DEF UploadInv
  <2> QED
    BY <2>1, UploadNetKept
<1>3. UploadEnds'
  BY <1>1 DEF UploadInv, UploadTypes, UploadEnds, Foreigners
<1>4. sent' < IdMod => StoredInOrder'
  BY StoredKept
<1> QED
  BY <1>2, <1>3, <1>4 DEF UploadInv, UploadTypes

LEMMA GreetKeeps ==
  ASSUME UploadInv, Wrq!Greet
  PROVE  UploadInv'
<1>1. /\ at = "greet" /\ at' = "receive" /\ net' = Copies!BagAdd(net, UploadAck(0))
      /\ UNCHANGED <<dups, strangers, retries, disturbed, mistaken, exists, file, hand, sent, client>>
  BY NothingInHand, UploadNumbers, UploadNetSteps DEF Wrq!Greet, Wrq!clientVars
<1>2. Written' = Written
  BY <1>1 DEF Written
<1>3. UploadNet'
  <2>1. {UploadAck(0)} \subseteq UploadPackets'
    BY <1>2, WrittenIsSent DEF UploadInv, UploadPackets, MayBeAcked
  <2>2. IsABag(net') /\ BagToSet(net') \subseteq BagToSet(net) \cup {UploadAck(0)}
    BY <1>1, SentBag DEF UploadInv, UploadTypes, UploadNet
  <2>3. UploadTypes /\ sent' \in Nat /\ sent <= sent' /\ Written \subseteq Written'
    BY <1>1, <1>2, WrittenIsSent DEF UploadInv
  <2> QED
    BY <1>1, <2>1, <2>2, <2>3, UploadNetKept
<1>4. UploadEnds' /\ CountersOK'
  BY <1>1, <1>2 DEF UploadInv, UploadTypes, UploadEnds, CountersOK, Foreigners
<1>5. sent' < IdMod => StoredInOrder'
  BY <1>1, StoredKept
<1>6. ~disturbed' => QuietUpload'
  <2>1. ~disturbed => client = "running" /\ sent = 0 /\ net = EmptyBag
    BY <1>1 DEF UploadInv, QuietUpload
  <2>2. ~disturbed => net' = Only(UploadAck(sent')) /\ sent' < UploadLength
    BY <1>1, <2>1, OnlyBag, WrittenIsSent DEF UploadInv
  <2> QED
    BY <1>1, <2>1, <2>2 DEF QuietUpload
<1> QED
  BY <1>3, <1>4, <1>5, <1>6 DEF UploadInv, UploadTypes

LEMMA ReceiveDataKeeps ==
  ASSUME UploadInv, NEW p \in BagToSet(net), p.to = "server", Wrq!ReceiveData(p)
  PROVE  UploadInv'
<1>1. /\ at = "receive" /\ at' = "write" /\ hand' = p /\ p.type = "DATA"
      /\ p.from \in {"client", "namesake"}
      /\ net' = Copies!BagRemove(net, p)
      /\ mistaken' = IF p.from = "namesake" THEN mistaken \cup {p.id} ELSE mistaken
      /\ UNCHANGED <<dups, strangers, retries, disturbed, exists, file, sent, client>>
  BY UploadNetSteps DEF Wrq!ReceiveData, Wrq!FromTid, Wrq!clientVars
<1>2. /\ p.from = "client" => \E n \in 1..sent : p = BlockOf(n)
      /\ p.from = "namesake" =>
           /\ p.id \in BlockIds /\ p.chunk \in Foreign
           /\ p = Packet("DATA", "namesake", "server", p.id, p.chunk)
  BY <1>1, UploadPacketKinds DEF UploadInv, UploadTypes, UploadNet
<1>a. mistaken \subseteq mistaken' /\ mistaken' \subseteq BlockIds
  BY <1>1, <1>2 DEF UploadInv, UploadTypes, CountersOK
<1>3. Written' = Written
  BY <1>1 DEF Written
<1>4. UploadNet'
  <2>1. IsABag(net') /\ BagToSet(net') \subseteq BagToSet(net) \cup {}
    BY <1>1, ReceivedBag DEF UploadInv, UploadTypes, UploadNet
  <2>2. UploadTypes /\ sent' \in Nat /\ sent <= sent' /\ Written \subseteq Written'
    BY <1>1, <1>3, WrittenIsSent DEF UploadInv
  <2> QED
    BY <1>1, <1>a, <2>1, <2>2, UploadNetKept
<1>5. UploadEnds' /\ CountersOK'
  <2>1. p # BlockOf(0)
    BY <1>1, <1>2, WrittenIsSent DEF BlockOf, Packet, UploadInv
  <2>2. hand' \in {BlockOf(n) : n \in 1..sent} \cup Foreigners'
    <3>1. CASE p.from = "client"
      BY <1>1, <1>2, <3>1
    <3>2. CASE p.from = "namesake"
      <4>1. p.id \in mistaken'
        BY <1>1, <3>2
      <4> QED
        BY <1>1, <1>2, <3>2, <4>1 DEF Foreigners
    <3> QED
      BY <1>1, <3>1, <3>2
  <2>3. CountersOK'
    BY <1>1, <1>a DEF UploadInv, UploadTypes, CountersOK
  <2>4. mistaken' = {} => Written' \subseteq 1..sent'
    BY <1>1, <1>3, <1>a DEF UploadInv, UploadTypes, UploadEnds
  <2>5. hand' # BlockOf(0)' /\ hand' \in {BlockOf(n) : n \in 1..sent}' \cup Foreigners'
    BY <1>1, <2>1, <2>2 DEF BlockOf
  <2> QED
    BY <1>1, <2>3, <2>4, <2>5 DEF UploadInv, UploadTypes, UploadEnds
<1>6. sent' < IdMod => StoredInOrder'
  BY <1>1, <1>a, StoredKept
<1>7. ~disturbed' => QuietUpload'
  <2>1. SUFFICES ASSUME ~disturbed PROVE QuietUpload'
    BY <1>1
  <2>2. /\ client = "running" /\ sent > 0 /\ net = Only(p) /\ p = BlockOf(sent)
    BY <1>1, <1>2, <2>1, OnlyBag DEF UploadInv, QuietUpload, UploadAck, BlockOf, Packet
  <2>3. net' = EmptyBag
    BY <1>1, <2>2, OnlyBag
  <2> QED
    BY <1>1, <2>2, <2>3 DEF QuietUpload
<1> QED
  BY <1>4, <1>5, <1>6, <1>7 DEF UploadInv, UploadTypes

(* A packet that ends the upload is none that arrives undisturbed.         *)
LEMMA UploadRefusalKeeps ==
  ASSUME UploadInv, NEW p \in BagToSet(net), p.to = "server",
         Wrq!ReceiveOther(p) \/ Wrq!ReceiveStrange(p)
  PROVE  UploadInv'
<1>1. /\ at = "receive" /\ at' = "failed" /\ exists' = FALSE
      /\ ~(p.type = "DATA" /\ p.from \in {"client", "namesake"})
      /\ \/ net' = Copies!BagRemove(net, p)
         \/ net' = Copies!BagAdd(Copies!BagRemove(net, p), Refusal)
      /\ UNCHANGED <<dups, strangers, retries, disturbed, mistaken, file, hand, sent, client>>
  BY UploadNetSteps DEF Wrq!ReceiveOther, Wrq!ReceiveStrange, Wrq!FromTid, Wrq!GiveUp, Wrq!clientVars,
                        Refusal, Packet, Wrq!Packet
<1>2. Written' = Written
  BY <1>1 DEF Written
<1>3. UploadNet'
  <2>1. {Refusal} \subseteq UploadPackets'
    BY DEF UploadPackets
  <2>2. IsABag(net') /\ BagToSet(net') \subseteq BagToSet(net) \cup {Refusal}
    BY <1>1, TakenBag DEF UploadInv, UploadTypes, UploadNet
  <2>3. UploadTypes /\ sent' \in Nat /\ sent <= sent' /\ Written \subseteq Written'
    BY <1>1, <1>2, WrittenIsSent DEF UploadInv
  <2> QED
    BY <1>1, <2>1, <2>2, <2>3, UploadNetKept
<1>4. UploadEnds' /\ CountersOK'
  <2>1. CountersOK'
    BY <1>1 DEF UploadInv, UploadTypes, CountersOK
  <2>2. exists' \in BOOLEAN
    BY <1>1
  <2> QED
    BY <1>1, <1>2, <2>1, <2>2 DEF UploadInv, UploadTypes, UploadEnds, Foreigners, BlockOf
<1>5. sent' < IdMod => StoredInOrder'
  BY <1>1, StoredKept
<1>6. disturbed
  <2>1. SUFFICES ASSUME ~disturbed PROVE FALSE
    OBVIOUS
  <2>2. p = UploadAck(sent) \/ p = BlockOf(sent)
    BY <1>1, <2>1, OnlyBag DEF UploadInv, QuietUpload
  <2> QED
    BY <1>1, <2>2 DEF UploadAck, BlockOf, Packet
<1> QED
  BY <1>1, <1>3, <1>4, <1>5, <1>6 DEF UploadInv, UploadTypes

(* A block is written after those that the client knows to be written.     *)
LEMMA WriteKeeps ==
  ASSUME UploadInv, Wrq!Write
  PROVE  UploadInv'
<1>1. /\ at = "write" /\ at' = "ack" /\ file' = Append(file, hand.chunk)
      /\ UNCHANGED <<net, dups, strangers, retries, disturbed, mistaken, exists, hand, sent, client>>
  BY DEF Wrq!Write, Wrq!networkVars, Wrq!clientVars
<1> DEFINE c == hand.chunk
<1>2. /\ c \in (1..sent) \cup Foreign
      /\ c \in 1..sent \/ mistaken # {}
  <2>1. hand \in {BlockOf(n) : n \in 1..sent} \cup Foreigners
    BY <1>1 DEF UploadInv, UploadTypes, UploadEnds
  <2> QED
    BY <2>1 DEF BlockOf, Foreigners, Packet
<1>3. /\ sent \in Nat /\ file \in Seq((1..sent) \cup Foreign) /\ file \in Seq(Nat)
      /\ Len(file) \in Nat /\ c \in Nat /\ sent <= UploadLength /\ UploadLength \in Nat
      /\ \A n \in 1..UploadLength : n \notin Foreign
  BY <1>2, WrittenIsSent DEF UploadInv, UploadTypes, UploadEnds
<1> HIDE DEF c
<1>4. /\ file' \in Seq((1..sent) \cup Foreign) /\ Len(file') = Len(file) + 1
      /\ \A i \in 1..Len(file) : file'[i] = file[i]
      /\ file'[Len(file) + 1] = c /\ file' = Append(file, c)
  <2>1. file' = Append(file, c)
    BY <1>1 DEF c
  <2> QED
    BY <1>2, <1>3, <2>1
<1>5. Written' = Written \cup {c}
  <2>1. 1..Len(file') = 1..Len(file) \cup {Len(file) + 1}
    BY <1>3, <1>4
  <2>2. Written' = {file'[i] : i \in 1..Len(file')}
    BY DEF Written
  <2>3. {file'[i] : i \in 1..Len(file)} = Written
    BY <1>4 DEF Written
  <2> QED
    BY <1>4, <2>1, <2>2, <2>3
<1>6. UploadNet'
  <2>1. IsABag(net') /\ BagToSet(net') \subseteq BagToSet(net) \cup {}
    BY <1>1 DEF UploadInv, UploadTypes, UploadNet
  <2>2. UploadTypes /\ sent' \in Nat /\ sent <= sent' /\ Written \subseteq Written'
    BY <1>1, <1>3, <1>5 DEF UploadInv
  <2> QED
    BY <1>1, <2>1, <2>2, UploadNetKept
<1>7. UploadEnds' /\ CountersOK'
  <2>1. CountersOK'
    BY <1>1 DEF UploadInv, UploadTypes, CountersOK
  <2>2. file' \in Seq((1..sent') \cup Foreign') /\ (mistaken' = {} => Written' \subseteq 1..sent')
    BY <1>1, <1>2, <1>4, <1>5 DEF UploadInv, UploadTypes, UploadEnds, Foreign
  <2>3. hand'.chunk \in Written'
    BY <1>1, <1>5 DEF c
  <2> QED
    BY <1>1, <2>1, <2>2, <2>3
       DEF UploadInv, UploadTypes, UploadEnds, Foreigners, Foreign, BlockOf
<1>8. sent' < IdMod => StoredInOrder'
  <2>1. SUFFICES ASSUME StoredInOrder PROVE StoredInOrder'
    BY <1>1 DEF UploadInv
  <2> DEFINE G == Genuine(sent - 1)
  <2>2. /\ sent > 0 => Wrq!InOrder(G, file)
        /\ sent > 0 /\ sent \in Written => Wrq!InOrder(G \cup {sent}, file)
    BY <2>1 DEF StoredInOrder
  <2>3. G \in SUBSET Nat /\ \A i \in G : i < sent
    BY <1>3 DEF Genuine
  <2>a. Genuine(sent - 1)' = G
    BY <1>1 DEF Genuine
  <2> HIDE DEF G
  <2>4. sent > 0 => Wrq!InOrder(G, file')
    BY <1>3, <1>4, <2>2, <2>3, StoredAppend
  <2>5. ASSUME sent > 0, sent \in Written' PROVE Wrq!InOrder(G \cup {sent}, file')
    <3>1. CASE c = sent
      BY <1>3, <1>4, <2>2, <2>3, <2>5, <3>1, StoredAppend
    <3>2. CASE sent \in Written
      <4>1. G \cup {sent} \in SUBSET Nat /\ Wrq!InOrder(G \cup {sent}, file)
        BY <1>3, <2>2, <2>3, <2>5, <3>2
      <4> QED
        BY <1>3, <1>4, <4>1, StoredAppend
    <3> QED
      BY <1>5, <2>5, <3>1, <3>2
  <2>6. client' = "success" => sent' = UploadLength /\ (sent' % IdMod) \in mistaken'
    BY <1>1, <2>1 DEF StoredInOrder
  <2>7. sent' > 0 => Wrq!InOrder(Genuine(sent - 1)', file')
    BY <1>1, <2>a, <2>4
  <2>8. sent' > 0 /\ sent' \in Written' => Wrq!InOrder(Genuine(sent - 1)' \cup {sent'}, file')
    BY <1>1, <2>a, <2>5
  <2> QED
    BY <2>6, <2>7, <2>8 DEF StoredInOrder, Genuine
<1>9. ~disturbed' => QuietUpload'
  BY <1>1 DEF UploadInv, QuietUpload
<1> QED
  BY <1>6, <1>7, <1>8, <1>9 DEF UploadInv, UploadTypes

LEMMA AckKeeps ==
  ASSUME UploadInv, Wrq!Ack
  PROVE  UploadInv'
<1> DEFINE c == hand.chunk
           q == Packet("ACK", "server", "client", hand.id, 0)
<1>1. /\ at = "ack" /\ at' = IF c >= UploadLength THEN "success" ELSE "receive"
      /\ UNCHANGED <<dups, strangers, retries, disturbed, mistaken, exists, file, hand, sent, client>>
      /\ net' = Copies!BagAdd(net, q)
  <2>1. Wrq!AckOf(hand) = q
    BY DEF Wrq!AckOf, Wrq!Packet, Packet
  <2> QED
    BY <2>1, UploadNetSteps DEF Wrq!Ack, Wrq!clientVars
<1>2. /\ c \in Written /\ c \in (1..sent) \cup Foreign
      /\ sent \in Nat /\ UploadLength \in Nat /\ sent <= UploadLength
  BY <1>1, WrittenIsSent DEF UploadInv, UploadTypes, UploadEnds
<1>3. \/ \E n \in 1..sent : hand = BlockOf(n) /\ c = n /\ q = UploadAck(n)
      \/ hand.id \in mistaken
  <2>1. hand \in {BlockOf(n) : n \in 1..sent} \cup Foreigners
    BY <1>1 DEF UploadInv, UploadTypes, UploadEnds
  <2> QED
    BY <2>1 DEF BlockOf, Foreigners, UploadAck, Packet
<1>4. Written' = Written
  BY <1>1 DEF Written
<1>a. c >= UploadLength => UploadLength \in Written \/ UploadLength + 1 \in Written
  BY <1>2 DEF Foreign
<1> HIDE DEF c
<1>5. UploadNet'
  <2>1. {q} \subseteq UploadPackets'
    <3>1. ASSUME NEW n \in 1..sent, c = n, q = UploadAck(n) PROVE q \in UploadPackets'
      <4>1. n \in MayBeAcked'
        BY <1>1, <1>2, <1>4, <3>1 DEF MayBeAcked
      <4> QED
        BY <3>1, <4>1 DEF UploadPackets, UploadAck
    <3>2. ASSUME hand.id \in mistaken PROVE q \in UploadPackets'
      BY <1>1, <3>2 DEF UploadPackets
    <3> QED
      BY <1>3, <3>1, <3>2
  <2>2. IsABag(net') /\ BagToSet(net') \subseteq BagToSet(net) \cup {q}
    BY <1>1, SentBag DEF UploadInv, UploadTypes, UploadNet
  <2>3. UploadTypes /\ sent' \in Nat /\ sent <= sent' /\ Written \subseteq Written'
    BY <1>1, <1>4, WrittenIsSent DEF UploadInv
  <2> QED
    BY <1>1, <2>1, <2>2, <2>3, UploadNetKept
<1>6. UploadEnds' /\ CountersOK'
  BY <1>1, <1>4, <1>a
     DEF UploadInv, UploadTypes, UploadEnds, CountersOK, Foreigners, Foreign, BlockOf
<1>7. sent' < IdMod => StoredInOrder'
  BY <1>1, StoredKept
<1>8. ~disturbed' => QuietUpload'
  <2>1. SUFFICES ASSUME ~disturbed PROVE QuietUpload'
    BY <1>1
  <2>2. client = "running" /\ sent > 0 /\ hand = BlockOf(sent) /\ net = EmptyBag
    BY <1>1, <2>1 DEF UploadInv, QuietUpload
  <2>3. c = sent /\ q = UploadAck(sent)
    BY <2>2 DEF BlockOf, UploadAck, Packet, c
  <2>4. net' = Only(UploadAck(sent))
    BY <1>1, <2>2, <2>3, OnlyBag
  <2>5. at' = "receive" => sent < UploadLength
    BY <1>1, <1>2, <2>3
  <2>6. at' = "success" => sent = UploadLength
    BY <1>1, <1>2, <2>3
  <2> QED
    BY <1>1, <2>2, <2>4, <2>5, <2>6 DEF QuietUpload
<1> QED
  BY <1>5, <1>6, <1>7, <1>8 DEF UploadInv, UploadTypes

(* The acknowledgment that the client waits for is that of its last block: *)
(* an earlier block of the same number was sent a whole turn before.  Or   *)
(* it is that of a namesake's packet of this number.                       *)
LEMMA AckedIsDone ==
  ASSUME UploadInv, sent < IdMod, NEW p \in BagToSet(net), p.to = "client",
         Wrq!Acknowledges(p)
  PROVE  sent \in MayBeAcked \/ (sent % IdMod) \in mistaken
<1>1. /\ sent \in Nat /\ Written \cap 1..UploadLength \subseteq 1..sent /\ IdMod \in Nat \ {0}
      /\ p.type = "ACK" /\ p.id = sent % IdMod
  BY WrittenIsSent, TftpNetworkAssumption
     DEF UploadInv, Wrq!Acknowledges, TftpNetworkAssumption
<1> SUFFICES ASSUME (sent % IdMod) \notin mistaken PROVE sent \in MayBeAcked
  OBVIOUS
<1>2. PICK n \in MayBeAcked : p = UploadAck(n)
  BY <1>1, UploadPacketKinds DEF UploadInv, UploadTypes, UploadNet
<1>3. n \in Nat /\ n <= sent /\ n % IdMod = sent % IdMod
  BY <1>1, <1>2 DEF MayBeAcked, UploadAck, Packet
<1>4. sent - n < IdMod /\ n - sent < IdMod
  BY <1>1, <1>3
<1>5. n = sent
  BY <1>1, <1>3, <1>4, NumbersDiffer
<1> QED
  BY <1>2, <1>5

(* The client sends the next block once the one before it is acknowledged: *)
(* it is written, and nothing of the next one is.                          *)
LEMMA SendNextKeeps ==
  ASSUME UploadInv, NEW p \in BagToSet(net), p.to = "client", Wrq!SendNext(p)
  PROVE  UploadInv'
<1>1. /\ sent \in Nat /\ UploadLength \in Nat /\ Written \subseteq (1..sent) \cup Foreign
      /\ sent < UploadLength /\ \A n \in 1..UploadLength : n \notin Foreign
  BY WrittenIsSent DEF UploadInv, Wrq!SendNext
<1>2. /\ client = "running" /\ p.type = "ACK" /\ p.id = sent % IdMod
      /\ sent' = sent + 1 /\ net' = Copies!BagAdd(Copies!BagRemove(net, p), BlockOf(sent + 1))
      /\ UNCHANGED <<dups, strangers, retries, disturbed, mistaken, at, exists, file, hand, client>>
  <2>1. Wrq!Block(sent + 1) = BlockOf(sent + 1)
    BY <1>1, UploadNumbers
  <2> QED
    BY <2>1, UploadNetSteps DEF Wrq!SendNext, Wrq!Acknowledges, Wrq!serverVars
<1>3. p # BlockOf(sent)
  BY <1>2 DEF BlockOf, Packet
<1>4. Written' = Written
  BY <1>2 DEF Written
<1>5. UploadNet'
  <2>1. {BlockOf(sent + 1)} \subseteq UploadPackets'
    BY <1>1, <1>2 DEF UploadPackets
  <2>2. IsABag(net') /\ BagToSet(net') \subseteq BagToSet(net) \cup {BlockOf(sent + 1)}
    BY <1>2, TakenBag DEF UploadInv, UploadTypes, UploadNet
  <2>3. UploadTypes /\ sent' \in Nat /\ sent <= sent' /\ Written \subseteq Written'
    BY <1>1, <1>2, <1>4 DEF UploadInv
  <2> QED
    BY <1>2, <2>1, <2>2, <2>3, UploadNetKept
<1>6. UploadEnds' /\ CountersOK'
  <2>1. 1..sent \subseteq 1..sent' /\ sent' \in 0..UploadLength
    BY <1>1, <1>2
  <2>2. file' \in Seq((1..sent') \cup Foreign')
    <3>1. (1..sent) \cup Foreign \subseteq (1..sent') \cup Foreign' /\ Foreign' = Foreign
      BY <2>1 DEF Foreign
    <3>2. \A S, T : S \subseteq T /\ file \in Seq(S) => file \in Seq(T)
      OBVIOUS
    <3>3. file \in Seq((1..sent) \cup Foreign) /\ file' = file
      BY <1>2 DEF UploadInv, UploadTypes, UploadEnds
    <3> QED
      BY <3>1, <3>2, <3>3
  <2>3. hand' \in {BlockOf(i) : i \in 1..sent'} \cup {BlockOf(0)} \cup Foreigners'
    BY <1>2, <2>1 DEF UploadInv, UploadTypes, UploadEnds, Foreigners, Foreign
  <2>4. mistaken' = {} => Written' \subseteq 1..sent'
    BY <1>2, <1>4, <2>1 DEF UploadInv, UploadTypes, UploadEnds
  <2>5. CountersOK'
    BY <1>2 DEF UploadInv, UploadTypes, CountersOK
  <2> QED
    BY <1>2, <1>4, <2>1, <2>2, <2>3, <2>4, <2>5
       DEF UploadInv, UploadTypes, UploadEnds, BlockOf
<1>7. sent' < IdMod => StoredInOrder'
  <2>1. SUFFICES ASSUME sent' < IdMod PROVE StoredInOrder'
    OBVIOUS
  <2>2. IdMod \in Nat \ {0} /\ sent < IdMod
    BY <1>1, <1>2, <2>1, TftpNetworkAssumption DEF TftpNetworkAssumption
  <2>3. sent \in MayBeAcked \/ (sent % IdMod) \in mistaken
    BY <2>2, AckedIsDone DEF Wrq!SendNext
  <2>4. Wrq!InOrder(Genuine(sent), file)
    <3>1. CASE sent = 0
      <4>1. Genuine(sent) = {}
        BY <3>1 DEF Genuine
      <4> QED
        BY <4>1, StoredNothing
    <3>2. CASE sent > 0 /\ sent \in MayBeAcked
      <4>1. sent \in Written
        BY <3>2 DEF MayBeAcked
      <4>2. Wrq!InOrder(Genuine(sent - 1) \cup {sent}, file)
        BY <2>2, <3>2, <4>1 DEF UploadInv, StoredInOrder
      <4>3. Genuine(sent) \subseteq Genuine(sent - 1) \cup {sent}
        BY <1>1 DEF Genuine
      <4> QED
        BY <4>2, <4>3, StoredSubset
    <3>3. CASE sent > 0 /\ (sent % IdMod) \in mistaken
      <4>1. Wrq!InOrder(Genuine(sent - 1), file)
        BY <2>2, <3>3 DEF UploadInv, StoredInOrder
      <4>2. Genuine(sent) \subseteq Genuine(sent - 1)
        BY <1>1, <3>3 DEF Genuine
      <4> QED
        BY <4>1, <4>2, StoredSubset
    <3> QED
      BY <1>1, <2>3, <3>1, <3>2, <3>3
  <2>5. sent' \notin Written' /\ sent' - 1 = sent
    BY <1>1, <1>2, <1>4
  <2>6. Genuine(sent - 1)' = Genuine(sent)
    BY <1>2, <2>5 DEF Genuine
  <2>7. Wrq!InOrder(Genuine(sent - 1)', file')
    BY <1>2, <2>4, <2>6
  <2> QED
    BY <1>2, <2>5, <2>7 DEF StoredInOrder, Genuine
<1>8. ~disturbed' => QuietUpload'
  <2>1. SUFFICES ASSUME ~disturbed PROVE QuietUpload'
    BY <1>2
  <2>2. at = "receive" /\ net = Only(p)
    BY <1>1, <1>2, <1>3, <2>1, OnlyBag DEF UploadInv, QuietUpload
  <2>3. net' = Only(BlockOf(sent'))
    BY <1>2, <2>2, OnlyBag
  <2> QED
    BY <1>1, <1>2, <2>2, <2>3 DEF QuietUpload
<1> QED
  BY <1>5, <1>6, <1>7, <1>8 DEF UploadInv, UploadTypes

(* The client is done once the last block is acknowledged, and then the    *)
(* server is, if it was not a namesake's block.                            *)
LEMMA ClientDoneKeeps ==
  ASSUME UploadInv, NEW p \in BagToSet(net), p.to = "client", Wrq!ClientDone(p)
  PROVE  UploadInv'
<1>1. /\ client = "running" /\ p.type = "ACK" /\ p.id = sent % IdMod
      /\ sent = UploadLength /\ client' = "success" /\ net' = Copies!BagRemove(net, p)
      /\ UNCHANGED <<dups, strangers, retries, disturbed, mistaken, at, exists, file, hand, sent>>
  BY UploadNetSteps DEF Wrq!ClientDone, Wrq!Acknowledges, Wrq!serverVars
<1>2. Written' = Written
  BY <1>1 DEF Written
<1>3. UploadNet'
  <2>1. IsABag(net') /\ BagToSet(net') \subseteq BagToSet(net) \cup {}
    BY <1>1, ReceivedBag DEF UploadInv, UploadTypes, UploadNet
  <2>2. UploadTypes /\ sent' \in Nat /\ sent <= sent' /\ Written \subseteq Written'
    BY <1>1, <1>2, WrittenIsSent DEF UploadInv
  <2> QED
    BY <1>1, <2>1, <2>2, UploadNetKept
<1>4. UploadEnds' /\ CountersOK'
  BY <1>1, <1>2 DEF UploadInv, UploadTypes, UploadEnds, CountersOK, Foreigners
<1>5. sent' < IdMod => StoredInOrder'
  <2>1. SUFFICES ASSUME sent < IdMod, StoredInOrder PROVE StoredInOrder'
    BY <1>1 DEF UploadInv
  <2>2. (at = "success" /\ sent \in Written) \/ (sent % IdMod) \in mistaken
    <3>1. sent \in MayBeAcked \/ (sent % IdMod) \in mistaken
      BY <2>1, AckedIsDone DEF Wrq!ClientDone
    <3>2. sent # 0
      BY <1>1, WrittenIsSent DEF UploadInv
    <3> QED
      BY <1>1, <3>1, <3>2 DEF MayBeAcked
  <2> QED
    BY <1>1, <1>2, <2>1, <2>2 DEF StoredInOrder, Genuine
<1>6. ~disturbed' => QuietUpload'
  <2>1. SUFFICES ASSUME ~disturbed PROVE QuietUpload'
    BY <1>1
  <2>2. p # BlockOf(sent)
    BY <1>1 DEF BlockOf, Packet
  <2>3. at = "success" /\ net = Only(p)
    BY <1>1, <2>1, <2>2, OnlyBag, WrittenIsSent DEF UploadInv, QuietUpload
  <2>4. net' = EmptyBag
    BY <1>1, <2>3, OnlyBag
  <2> QED
    BY <1>1, <2>3, <2>4 DEF QuietUpload
<1> QED
  BY <1>3, <1>4, <1>5, <1>6 DEF UploadInv, UploadTypes

(* What fails the client or is dropped does not arrive undisturbed.        *)
LEMMA UploadClientKeeps ==
  ASSUME UploadInv, NEW p \in BagToSet(net), p.to = "client",
         Wrq!ClientFails(p) \/ Wrq!ClientDrops(p)
  PROVE  UploadInv'
<1>1. /\ client' = client \/ client' = "failed"
      /\ net' = Copies!BagRemove(net, p)
      /\ UNCHANGED <<dups, strangers, retries, disturbed, mistaken, at, exists, file, hand, sent>>
  BY UploadNetSteps DEF Wrq!ClientFails, Wrq!ClientDrops, Wrq!serverVars, Wrq!clientVars
<1>2. disturbed
  <2>1. SUFFICES ASSUME ~disturbed PROVE FALSE
    OBVIOUS
  <2>2. client = "running" /\ p \in {UploadAck(sent), BlockOf(sent)}
    BY <2>1, OnlyBag DEF UploadInv, QuietUpload
  <2>3. p.type = "ACK" /\ p.id = sent % IdMod
    BY <2>2 DEF UploadAck, BlockOf, Packet
  <2> QED
    BY <2>2, <2>3 DEF Wrq!ClientFails, Wrq!ClientDrops, Wrq!Acknowledges
<1>3. CountersOK'
  BY <1>1 DEF UploadInv, UploadTypes, CountersOK
<1>4. IsABag(net') /\ BagToSet(net') \subseteq BagToSet(net) \cup {}
  BY <1>1, ReceivedBag DEF UploadInv, UploadTypes, UploadNet
<1>5. disturbed' = TRUE
  BY <1>1, <1>2 DEF UploadInv, UploadTypes, CountersOK
<1> QED
  BY <1>1, <1>3, <1>4, <1>5, UploadDisturbanceKeeps

LEMMA UploadStep ==
  ASSUME UploadInv, kind = "wrq", [TransferNext]_transferVars
  PROVE  UploadInv' /\ kind' = kind
<1> USE DEF wrqOnly
<1>0. kind' = kind
  BY DEF TransferNext, Server, Client, transferVars
<1> SUFFICES UploadInv'
  BY <1>0
<1>a. /\ UploadTypes /\ CountersOK /\ UploadNet /\ UploadEnds
      /\ IsABag(net) /\ BagToSet(net) \subseteq BagToSet(net) \cup {}
      /\ exists \in BOOLEAN
  BY DEF UploadInv, UploadTypes, UploadNet, UploadEnds
<1>1. CASE Wrq!Greet
  BY <1>1, GreetKeeps
<1>2. CASE Wrq!GreetFails \/ Wrq!ReceiveTimesOut \/ Wrq!AckFails \/ Wrq!ClientGivesUp
  <2>1. /\ disturbed' = TRUE
        /\ UNCHANGED <<net, dups, strangers, retries, mistaken, sent, file, hand>>
        /\ \/ at' = at /\ exists' = exists
           \/ at # "success" /\ at' = "failed" /\ exists' \in BOOLEAN
        /\ client' = client \/ client' = "failed"
    BY <1>2, <1>a, UploadNetSteps
       DEF Wrq!GreetFails, Wrq!ReceiveTimesOut, Wrq!AckFails, Wrq!ClientGivesUp,
           Wrq!GiveUp, Wrq!serverVars, Wrq!clientVars
  <2>2. CountersOK' /\ IsABag(net') /\ BagToSet(net') \subseteq BagToSet(net) \cup {}
    BY <2>1, <1>a DEF CountersOK
  <2> QED
    BY <2>1, <2>2, UploadDisturbanceKeeps
<1>3. CASE Wrq!ServerReceives
  BY <1>3, ReceiveDataKeeps, UploadRefusalKeeps
     DEF Wrq!ServerReceives, Wrq!BagToSet, BagToSet
<1>4. CASE Wrq!ClientReceives
  BY <1>4, SendNextKeeps, ClientDoneKeeps, UploadClientKeeps
     DEF Wrq!ClientReceives, Wrq!BagToSet, BagToSet
<1>5. CASE Wrq!ClientRepeats
  <2>1. /\ sent \in Nat /\ sent > 0 /\ sent <= UploadLength
        /\ Wrq!Block(sent) = BlockOf(sent)
    BY <1>5, <1>a, UploadNumbers, WrittenIsSent DEF Wrq!ClientRepeats
  <2>2. /\ net' = Copies!BagAdd(net, BlockOf(sent)) /\ disturbed' = TRUE
        /\ retries < MaxRetries /\ retries' = retries + 1
        /\ UNCHANGED <<dups, strangers, mistaken, at, exists, file, hand, sent, client>>
    BY <1>5, <2>1, UploadNetSteps DEF Wrq!ClientRepeats, Wrq!serverVars, Wrq!clientVars
  <2>3. CountersOK'
    BY <2>2, <1>a, TftpNetworkAssumption DEF TftpNetworkAssumption, CountersOK
  <2>4. {BlockOf(sent)} \subseteq UploadPackets'
    BY <2>1, <2>2 DEF UploadPackets
  <2>5. IsABag(net') /\ BagToSet(net') \subseteq BagToSet(net) \cup {BlockOf(sent)}
    BY <2>2, <1>a, SentBag
  <2> QED
    BY <2>2, <2>3, <2>4, <2>5, UploadDisturbanceKeeps
<1>6. CASE Wrq!Write
  BY <1>6, WriteKeeps
<1>7. CASE Wrq!WriteFails
  <2>1. /\ at = "write" /\ at' = "failed" /\ exists' = FALSE /\ disturbed' = TRUE
        /\ net' \in {net, Copies!BagAdd(net, Refusal)}
        /\ UNCHANGED <<dups, strangers, retries, mistaken, sent, file, hand, client>>
    BY <1>7 DEF Wrq!WriteFails, Wrq!GiveUp, Wrq!clientVars, Wrq!Copies!BagAdd, Copies!BagAdd,
                Wrq!Packet, Packet, Refusal
  <2>2. CountersOK'
    BY <2>1, <1>a DEF CountersOK
  <2>3. {Refusal} \subseteq UploadPackets'
    BY DEF UploadPackets
  <2>4. IsABag(net') /\ BagToSet(net') \subseteq BagToSet(net) \cup {Refusal}
    BY <2>1, <1>a, SentBag
  <2>5. exists' \in BOOLEAN
    BY <2>1
  <2> QED
    BY <2>1, <2>2, <2>3, <2>4, <2>5, UploadDisturbanceKeeps
<1>8. CASE Wrq!Ack
  BY <1>8, AckKeeps
<1>9. CASE Network(UploadLength) /\ UNCHANGED <<at, client, exists, file, hand, sent>>
  <2>1. /\ CountersOK' /\ disturbed' = TRUE /\ mistaken' = mistaken
        /\ IsABag(net') /\ BagToSet(net') \subseteq BagToSet(net) \cup Strays(UploadLength)
    BY <1>9, <1>a, NetworkMoves
  <2>2. Strays(UploadLength) \subseteq UploadPackets'
    BY DEF UploadPackets, Strays
  <2> QED
    BY <1>9, <2>1, <2>2, UploadDisturbanceKeeps
<1>10. CASE UNCHANGED transferVars
  BY <1>10 DEF transferVars, networkVars, UploadInv, UploadTypes, CountersOK, UploadEnds,
               UploadNet, UploadPackets, MayBeAcked, Written, Foreigners, StoredInOrder,
               Genuine, QuietUpload
<1> QED
  BY <1>1, <1>2, <1>3, <1>4, <1>5, <1>6, <1>7, <1>8, <1>9, <1>10
     DEF TransferNext, Server, Client, Wrq!Server, Wrq!Client

LEMMA UploadStarts == Wrq!WrqInit => UploadInv
<1> SUFFICES ASSUME Wrq!WrqInit PROVE UploadInv
  OBVIOUS
<1>1. /\ net = EmptyBag /\ dups = 0 /\ strangers = 0 /\ retries = 0 /\ disturbed = FALSE
      /\ mistaken = {}
      /\ at = "greet" /\ exists = TRUE /\ file = <<>> /\ hand = BlockOf(0)
      /\ sent = 0 /\ client = "running"
  BY NothingInHand
     DEF Wrq!WrqInit, Wrq!NetworkInit, Wrq!EmptyBag, EmptyBag, Wrq!SetToBag, SetToBag
<1>2. Written = {} /\ UploadLength \in Nat \ {0}
  BY <1>1, UploadAssumption DEF UploadAssumption, Written
<1>3. disturbed \in BOOLEAN /\ exists \in BOOLEAN
  BY <1>1
<1>4. CountersOK
  BY <1>1, <1>3, TftpNetworkAssumption DEF TftpNetworkAssumption, CountersOK
<1>5. UploadNet
  BY <1>1, OnlyBag DEF UploadNet
<1>6. UploadEnds
  BY <1>1, <1>2, <1>3 DEF UploadEnds
<1>7. StoredInOrder /\ QuietUpload
  BY <1>1, <1>2 DEF StoredInOrder, QuietUpload
<1> QED
  BY <1>4, <1>5, <1>6, <1>7 DEF UploadInv, UploadTypes

LEMMA TransferAlways == TransferSafety => []TransferInv
<1>1. TransferInit => TransferInv
  BY DownloadStarts, UploadStarts DEF TransferInit, TransferInv
<1>2. TransferInv /\ [TransferNext]_transferVars => TransferInv'
  BY DownloadStep, UploadStep DEF TransferInv
<1> QED
  BY <1>1, <1>2, PTL DEF TransferSafety

-----------------------------------------------------------------------------
(* The counters stay in their bounds, only packets of the protocol are in  *)
(* flight, and neither the file nor its copy outgrows its length, whatever *)
(* the network does to _handle_rrq and _handle_wrq (tftpd.c:241-358,       *)
(* 361-500).                                                               *)
THEOREM TransferTypeCorrect == TransferSafety => []TransferTypeOK
<1>1. ASSUME DownloadInv PROVE Rrq!RrqTypeOK
  <2>1. /\ block \in Nat /\ FileLength \in Nat /\ block <= FileLength /\ id = block % IdMod
        /\ 0 \in BlockIds /\ Rrq!BlockIds = BlockIds
    BY <1>1, TftpNetworkAssumption
       DEF DownloadInv, DownloadTypes, TftpNetworkAssumption, BlockIds, Rrq!BlockIds
  <2>2. DownloadPackets \subseteq Rrq!Packets
    <3>1. \A n \in 1..block : DataOf(n) \in Rrq!Packets
      BY <2>1, DownloadNumbers
    <3>2. \A n \in 1..Len(got) : DownloadAck(n) \in Rrq!Packets
      BY DownloadNumbers
    <3>3. Strays(FileLength) \subseteq Rrq!Packets /\ Refusal \in Rrq!Packets
      <4>1. 0 \in 0..FileLength + 1 /\ FileLength + 1 \in 0..FileLength + 1
        BY <2>1
      <4> QED
        BY <2>1, <4>1 DEF Strays, Refusal, Packet, Rrq!Packets
    <3> QED
      BY <3>1, <3>2, <3>3 DEF DownloadPackets
  <2>3. Rrq!NetworkTypeOK
    BY <1>1, <2>1, <2>2 DEF DownloadInv, DownloadTypes, CountersOK, Rrq!NetworkTypeOK,
                      Rrq!IsABag, IsABag, Rrq!BagToSet, BagToSet
  <2>4. id \in BlockIds
    BY <2>1, DownloadNumbers
  <2> QED
    BY <1>1, <2>1, <2>3, <2>4 DEF DownloadInv, DownloadTypes, Rrq!RrqTypeOK
<1>2. ASSUME UploadInv PROVE Wrq!WrqTypeOK
  <2>1. /\ sent \in Nat /\ UploadLength \in Nat /\ sent <= UploadLength
        /\ 0 \in BlockIds /\ Wrq!BlockIds = BlockIds
    BY <1>2, WrittenIsSent, TftpNetworkAssumption
       DEF UploadInv, TftpNetworkAssumption, BlockIds, Wrq!BlockIds
  <2>2. \A n \in 0..sent : BlockOf(n) \in Wrq!Packets
    BY <2>1, UploadNumbers
  <2>3. UploadPackets \subseteq Wrq!Packets
    <3>1. \A n \in MayBeAcked : UploadAck(n) \in Wrq!Packets
      BY <2>1, UploadNumbers DEF MayBeAcked
    <3>2. Strays(UploadLength) \subseteq Wrq!Packets /\ Refusal \in Wrq!Packets
      <4>1. 0 \in 0..UploadLength + 1 /\ UploadLength + 1 \in 0..UploadLength + 1
        BY <2>1
      <4> QED
        BY <2>1, <4>1 DEF Strays, Refusal, Packet, Wrq!Packets
    <3>3. {BlockOf(n) : n \in 1..sent} \subseteq Wrq!Packets
      BY <2>1, <2>2
    <3>4. {Packet("ACK", "server", "client", n, 0) : n \in mistaken} \subseteq Wrq!Packets
      <4>1. mistaken \subseteq Wrq!BlockIds /\ 0 \in 0..UploadLength + 1
        BY <1>2, <2>1 DEF UploadInv, UploadTypes, CountersOK
      <4> QED
        BY <4>1 DEF Packet, Wrq!Packets
    <3> QED
      BY <3>1, <3>2, <3>3, <3>4 DEF UploadPackets
  <2>4. Wrq!NetworkTypeOK
    BY <1>2, <2>1, <2>3 DEF UploadInv, UploadTypes, UploadNet, CountersOK, Wrq!NetworkTypeOK,
                      Wrq!IsABag, IsABag, Wrq!BagToSet, BagToSet
  <2>5. hand \in Wrq!Packets
    <3>1. Foreigners \subseteq Wrq!Packets
      <4>1. mistaken \subseteq Wrq!BlockIds /\ Foreign \subseteq 0..UploadLength + 1
        BY <1>2, <2>1 DEF UploadInv, UploadTypes, CountersOK, Foreign
      <4> QED
        BY <4>1 DEF Foreigners, Packet, Wrq!Packets
    <3> QED
      BY <1>2, <2>1, <2>2, <3>1 DEF UploadInv, UploadTypes, UploadEnds
  <2>6. file \in Seq(0..UploadLength + 1) /\ sent \in 0..UploadLength
    <3>1. (1..sent) \cup Foreign \subseteq 0..UploadLength + 1 /\ sent \in 0..UploadLength
      BY <2>1 DEF Foreign
    <3>2. file \in Seq((1..sent) \cup Foreign)
      BY <1>2 DEF UploadInv, UploadTypes, UploadEnds
    <3>3. \A S, T : S \subseteq T /\ file \in Seq(S) => file \in Seq(T)
      OBVIOUS
    <3> QED
      BY <3>1, <3>2, <3>3
  <2>7. /\ at \in {"greet", "receive", "write", "ack", "success", "failed"}
        /\ client \in {"running", "success", "failed"}
    BY <1>2 DEF UploadInv, UploadTypes, UploadEnds
  <2>8. exists \in BOOLEAN
    BY <1>2 DEF UploadInv, UploadTypes, UploadEnds
  <2> QED
    BY <2>4, <2>5, <2>6, <2>7, <2>8 DEF Wrq!WrqTypeOK
<1>3. TransferInv => TransferTypeOK
  BY <1>1, <1>2 DEF TransferInv, TransferTypeOK
<1> QED
  BY <1>3, TransferAlways, PTL

(* A transfer that nothing disturbs does not fail, however long the file   *)
(* and however often the block number wraps around: the checks of the      *)
(* acknowledgments and of the senders never refuse a real packet           *)
(* (tftpd.c:298-352, 434-480).                                             *)
THEOREM UndisturbedTransfersSucceed == TransferSafety => []QuietNeverFails
<1>1. TransferInv => QuietNeverFails
  BY DEF TransferInv, DownloadInv, UploadInv, QuietDownload, QuietUpload, QuietNeverFails
<1> QED
  BY <1>1, TransferAlways, PTL

(* While nothing disturbs an upload, the file is the blocks that the       *)
(* client has sent, without the one that is on its way or in hand.         *)
QuietFile ==
  /\ file = [i \in 1..Len(file) |-> i]
  /\ at = "write" \/ net = Only(BlockOf(sent)) => Len(file) = sent - 1
  /\ at \in {"greet", "ack", "success"} \/ net = Only(UploadAck(sent)) => Len(file) = sent

QuietlyStored == kind = "wrq" /\ ~disturbed => QuietFile

LEMMA QuietPackets ==
  ASSUME NEW n, NEW m
  PROVE  /\ Only(UploadAck(n)) # Only(BlockOf(m))
         /\ Only(UploadAck(n)) # EmptyBag /\ Only(BlockOf(m)) # EmptyBag
<1>1. UploadAck(n) # BlockOf(m)
  BY DEF UploadAck, BlockOf, Packet
<1>2. \A p : BagToSet(Only(p)) = {p} /\ BagToSet(EmptyBag) = {}
  BY OnlyBag
<1>3. /\ BagToSet(Only(UploadAck(n))) = {UploadAck(n)}
      /\ BagToSet(Only(BlockOf(m))) = {BlockOf(m)}
  BY <1>2
<1> QED
  BY <1>1, <1>2, <1>3

LEMMA DisturbedStays ==
  ASSUME UploadInv, Wrq!Server \/ Wrq!ClientReceives
  PROVE  disturbed => disturbed'
<1>1. CASE Wrq!Server
  BY <1>1, UploadNetSteps
     DEF Wrq!Server, Wrq!Greet, Wrq!GreetFails, Wrq!ServerReceives, Wrq!ReceiveData,
         Wrq!ReceiveOther, Wrq!ReceiveStrange, Wrq!ReceiveTimesOut, Wrq!Write, Wrq!WriteFails,
         Wrq!Ack, Wrq!AckFails, Wrq!networkVars
<1>2. CASE Wrq!ClientReceives
  BY <1>2, UploadNetSteps
     DEF Wrq!ClientReceives, Wrq!SendNext, Wrq!ClientDone, Wrq!ClientFails, Wrq!ClientDrops
<1> QED
  BY <1>1, <1>2

LEMMA ServerStores ==
  ASSUME UploadInv, UploadInv', QuietFile, ~disturbed, ~disturbed', Wrq!Server
  PROVE  QuietFile'
<1>1. QuietUpload /\ QuietUpload' /\ at' # "failed"
  BY DEF UploadInv, QuietUpload
<1>2. sent \in Nat /\ file \in Seq(Nat) /\ Len(file) \in Nat
  BY WrittenIsSent DEF UploadInv
<1>3. CASE Wrq!Greet
  <2>1. at = "greet" /\ at' = "receive" /\ file' = file /\ sent' = sent
    BY <1>3 DEF Wrq!Greet, Wrq!clientVars
  <2>2. sent = 0 /\ net' = Only(UploadAck(sent'))
    BY <1>1, <1>2, <2>1, QuietPackets DEF QuietUpload
  <2>3. net' # Only(BlockOf(sent'))
    BY <2>2, QuietPackets
  <2> QED
    BY <2>1, <2>2, <2>3 DEF QuietFile, UploadAck, BlockOf
<1>4. CASE Wrq!ServerReceives
  <2>1. at = "receive" /\ at' = "write" /\ file' = file /\ sent' = sent
    BY <1>1, <1>4 DEF Wrq!ServerReceives, Wrq!ReceiveData, Wrq!ReceiveOther, Wrq!ReceiveStrange,
                      Wrq!GiveUp, Wrq!clientVars
  <2>2. net' = EmptyBag /\ hand' = BlockOf(sent)
    BY <1>1, <2>1 DEF QuietUpload, BlockOf
  <2>3. net = Only(BlockOf(sent))
    <3>1. \E p \in BagToSet(net) : p.to = "server"
      BY <1>4 DEF Wrq!ServerReceives, Wrq!BagToSet, BagToSet
    <3>2. net # Only(UploadAck(sent))
      BY <3>1, OnlyBag DEF UploadAck, Packet
    <3> QED
      BY <1>1, <2>1, <3>2 DEF QuietUpload
  <2>4. net' # Only(UploadAck(sent')) /\ Len(file) = sent - 1
    BY <2>2, <2>3, QuietPackets DEF QuietFile
  <2> QED
    BY <2>1, <2>4 DEF QuietFile
<1>5. CASE Wrq!Write
  <2>1. /\ at = "write" /\ at' = "ack" /\ file' = Append(file, hand.chunk)
        /\ sent' = sent /\ net' = net
    BY <1>5 DEF Wrq!Write, Wrq!clientVars, Wrq!networkVars
  <2>2. hand.chunk = sent /\ net = EmptyBag
    BY <1>1, <2>1 DEF QuietUpload, BlockOf, Packet
  <2>3. Len(file) = sent - 1 /\ file = [i \in 1..Len(file) |-> i]
    BY <2>1 DEF QuietFile
  <2>4. Len(file') = sent /\ file' = [i \in 1..Len(file') |-> i]
    <3>1. /\ file' \in Seq(Nat) /\ Len(file') = Len(file) + 1
          /\ \A i \in 1..Len(file) : file'[i] = file[i]
          /\ file'[Len(file) + 1] = sent
      BY <1>2, <2>1, <2>2
    <3>2. \A i \in 1..Len(file) : file[i] = i
      BY <2>3
    <3>3. Len(file') = sent /\ \A i \in 1..Len(file') : file'[i] = i
      BY <1>2, <2>3, <3>1, <3>2
    <3> QED
      BY <3>1, <3>3
  <2>5. net' # Only(BlockOf(sent'))
    BY <2>1, <2>2, QuietPackets
  <2> QED
    BY <2>1, <2>4, <2>5 DEF QuietFile
<1>6. CASE Wrq!Ack
  <2>1. /\ at = "ack" /\ at' \in {"receive", "success"} /\ file' = file /\ sent' = sent
        /\ Wrq!Sends(Wrq!AckOf(hand))
    BY <1>6 DEF Wrq!Ack, Wrq!clientVars
  <2>2. Len(file) = sent /\ hand = BlockOf(sent) /\ net = EmptyBag
    BY <1>1, <2>1 DEF QuietFile, QuietUpload
  <2>3. net' = Only(UploadAck(sent))
    BY <1>2, <2>1, <2>2, UploadNumbers, UploadNetSteps, OnlyBag
  <2>4. net' # Only(BlockOf(sent))
    BY <2>3, QuietPackets
  <2> QED
    BY <2>1, <2>2, <2>3, <2>4 DEF QuietFile, BlockOf
<1>7. CASE Wrq!GreetFails \/ Wrq!ReceiveTimesOut \/ Wrq!WriteFails \/ Wrq!AckFails
  BY <1>1, <1>7 DEF Wrq!GreetFails, Wrq!ReceiveTimesOut, Wrq!WriteFails, Wrq!AckFails, Wrq!GiveUp
<1> QED
  BY <1>3, <1>4, <1>5, <1>6, <1>7 DEF Wrq!Server

(* The client sends another block once the file has the last one.          *)
LEMMA ClientStores ==
  ASSUME UploadInv, UploadInv', QuietFile, ~disturbed, ~disturbed', Wrq!ClientReceives
  PROVE  QuietFile'
<1>1. QuietUpload /\ QuietUpload' /\ client' # "failed"
  BY DEF UploadInv, QuietUpload
<1>2. sent \in Nat /\ at' = at /\ file' = file
  BY WrittenIsSent
     DEF UploadInv, Wrq!ClientReceives, Wrq!SendNext, Wrq!ClientDone, Wrq!ClientFails,
         Wrq!ClientDrops, Wrq!serverVars
<1>3. PICK p \in BagToSet(net) :
        /\ p.to = "client"
        /\ Wrq!SendNext(p) \/ Wrq!ClientDone(p) \/ Wrq!ClientFails(p) \/ Wrq!ClientDrops(p)
  BY DEF Wrq!ClientReceives, Wrq!BagToSet, BagToSet
<1>4. p.type = "ACK" => net = Only(UploadAck(sent)) /\ p = UploadAck(sent)
  BY <1>1, OnlyBag DEF QuietUpload, BlockOf, Packet
<1>5. CASE Wrq!SendNext(p)
  <2>1. /\ p.type = "ACK" /\ sent < UploadLength /\ sent' = sent + 1
        /\ Wrq!Answers(p, Wrq!Block(sent + 1))
    BY <1>5 DEF Wrq!SendNext, Wrq!Acknowledges
  <2>2. at = "receive" /\ Len(file) = sent
    BY <1>1, <1>2, <1>4, <2>1, QuietPackets DEF QuietFile, QuietUpload
  <2>3. net' = Only(BlockOf(sent'))
    <3>1. UploadLength \in Nat /\ Wrq!Block(sent + 1) = BlockOf(sent + 1)
      BY <1>2, <2>1, UploadNumbers, WrittenIsSent DEF UploadInv
    <3>2. net' = Copies!BagAdd(Copies!BagRemove(Only(p), p), BlockOf(sent + 1))
      BY <1>4, <2>1, <3>1, UploadNetSteps
    <3> QED
      BY <2>1, <3>2, OnlyBag
  <2>4. net' # Only(UploadAck(sent'))
    BY <2>3, QuietPackets
  <2> QED
    BY <1>2, <2>1, <2>2, <2>3, <2>4 DEF QuietFile
<1>6. CASE Wrq!ClientDone(p)
  <2>1. p.type = "ACK" /\ sent' = sent /\ client' = "success"
    BY <1>6 DEF Wrq!ClientDone, Wrq!Acknowledges
  <2>2. Len(file) = sent /\ at' = "success" /\ net' = EmptyBag
    BY <1>1, <1>4, <2>1 DEF QuietFile, QuietUpload
  <2>3. net' # Only(BlockOf(sent'))
    BY <2>2, QuietPackets
  <2> QED
    BY <1>2, <2>1, <2>2, <2>3 DEF QuietFile
<1>7. CASE Wrq!ClientFails(p) \/ Wrq!ClientDrops(p)
  <2>1. p \in {UploadAck(sent), BlockOf(sent)} /\ client = "running" /\ p.to = "client"
    <3>1. client = "running" /\ (net = Only(UploadAck(sent)) \/ net = Only(BlockOf(sent)))
      BY <1>1, OnlyBag DEF QuietUpload
    <3> QED
      BY <1>3, <3>1, OnlyBag
  <2> QED
    BY <1>1, <1>7, <2>1
       DEF Wrq!ClientFails, Wrq!ClientDrops, Wrq!Acknowledges, UploadAck, BlockOf, Packet
<1> QED
  BY <1>3, <1>5, <1>6, <1>7

(* What the server stores is the file the client sends, however long it is *)
(* and however often its block numbers start again, if nothing disturbs    *)
(* the upload: the condition that StoresTheFile lacks (tftpd.c:331-349).   *)
THEOREM UndisturbedUploadsAreStored ==
  TransferSafety => [](~disturbed => StoresTheFile)
<1> USE DEF rrqOnly, wrqOnly
<1>1. TransferInit => QuietlyStored
  <2> SUFFICES ASSUME TransferInit, kind = "wrq" PROVE QuietFile
    BY DEF QuietlyStored
  <2>1. at = "greet" /\ file = <<>> /\ sent = 0 /\ net = EmptyBag
    BY DEF TransferInit, Wrq!WrqInit, Wrq!NetworkInit, Wrq!EmptyBag, EmptyBag,
           Wrq!SetToBag, SetToBag
  <2>2. net # Only(BlockOf(sent))
    BY <2>1, QuietPackets
  <2> QED
    BY <2>1, <2>2 DEF QuietFile
<1>2. TransferInv /\ TransferInv' /\ QuietlyStored /\ [TransferNext]_transferVars
        => QuietlyStored'
  <2> SUFFICES ASSUME TransferInv, TransferInv', QuietlyStored, [TransferNext]_transferVars,
                      kind' = "wrq", ~disturbed'
               PROVE  QuietFile'
    BY DEF QuietlyStored
  <2>1. kind = "wrq"
    BY DEF TransferNext, Server, Client, transferVars
  <2>2. UploadInv /\ UploadInv'
    BY <2>1 DEF TransferInv
  <2>3. CASE UNCHANGED transferVars
    BY <2>1, <2>3 DEF transferVars, networkVars, QuietlyStored, QuietFile
  <2>4. CASE Network(UploadLength) \/ Wrq!ClientRepeats \/ Wrq!ClientGivesUp
    BY <2>4 DEF Network, Lose, Duplicate, Strange, Wrq!ClientRepeats, Wrq!Resends,
                Wrq!ClientGivesUp, Wrq!Disturbs
  <2>5. CASE Wrq!Server \/ Wrq!ClientReceives
    <3>1. ~disturbed
      BY <2>2, <2>5, DisturbedStays
    <3> QED
      BY <2>1, <2>2, <2>5, <3>1, ServerStores, ClientStores DEF QuietlyStored
  <2> QED
    BY <2>1, <2>3, <2>4, <2>5 DEF TransferNext, Server, Client, Wrq!Client
<1>3. TransferInv /\ QuietlyStored => (~disturbed => StoresTheFile)
  <2> SUFFICES ASSUME TransferInv, QuietlyStored, ~disturbed, kind = "wrq", at = "success"
               PROVE  file = [i \in 1..UploadLength |-> i]
    BY DEF StoresTheFile
  <2>1. QuietFile /\ UploadInv
    BY DEF QuietlyStored, TransferInv
  <2>2. Len(file) = sent /\ sent = UploadLength
    BY <2>1 DEF QuietFile, UploadInv, QuietUpload
  <2> QED
    BY <2>1, <2>2 DEF QuietFile
<1> QED
  BY <1>1, <1>2, <1>3, TransferAlways, PTL DEF TransferSafety

(* The server of a download sends a chunk, and takes the last one for      *)
(* acknowledged, only when the client has those before, in order, except   *)
(* for chunks whose number it took another's packet to acknowledge, as     *)
(* long as the block numbers have not started again: after a whole turn    *)
(* neither the code nor the protocol excludes that a duplicate was delayed *)
(* for so long (tftpd.c:434-480).                                          *)
THEOREM DownloadsInLockStep == TransferSafety => [](DownloadUnwrapped => LockStep)
<1>1. ASSUME TransferInv, DownloadUnwrapped PROVE LockStep
  <2>1. kind = "rrq" => InLockStep
    BY <1>1 DEF TransferInv, DownloadInv
  <2> QED
    BY <2>1 DEF InLockStep, Acked, LockStep, Rrq!LockStep
<1> QED
  BY <1>1, TransferAlways, PTL

(* So it does throughout a file of no more chunks than there are block     *)
(* numbers: of less than 32 megabytes (tftpd.c:434-480).                   *)
THEOREM ShortDownloadsInLockStep ==
  ASSUME FileLength <= IdMod
  PROVE  TransferSafety => []LockStep
<1>1. ASSUME TransferInv PROVE LockStep
  <2>1. kind = "rrq" => InLockStep
    BY <1>1 DEF TransferInv, DownloadInv, DownloadUnwrapped
  <2> QED
    BY <2>1 DEF InLockStep, Acked, LockStep, Rrq!LockStep
<1> QED
  BY <1>1, TransferAlways, PTL

(* What the client of an upload knows to be acknowledged is stored, in     *)
(* order, until the block numbers start again, or the server gave up since *)
(* or acknowledged another's packet of the same number (tftpd.c:331-349).  *)
LEMMA StoredBeforeAcked ==
  ASSUME UploadInv, sent < IdMod
  PROVE  Wrq!AcknowledgedIsStored
<1> DEFINE n == Wrq!Acknowledged
<1>1. StoredInOrder /\ sent \in Nat
  BY WrittenIsSent DEF UploadInv
<1>2. Wrq!Genuine(n) = Genuine(n)
  BY DEF Wrq!Genuine, Genuine
<1> SUFFICES Wrq!InOrder(Genuine(n), file)
  BY <1>2 DEF Wrq!AcknowledgedIsStored
<1>3. CASE sent = 0
  <2>1. Genuine(n) = {}
    BY <1>3 DEF Wrq!Acknowledged, Genuine
  <2> QED
    BY <2>1, StoredNothing
<1>4. CASE sent # 0 /\ client = "success"
  <2>1. n = sent /\ sent > 0 /\ (sent \in Written \/ (sent % IdMod) \in mistaken)
    BY <1>1, <1>4 DEF StoredInOrder, Wrq!Acknowledged
  <2>2. CASE sent \in Written
    <3>1. Genuine(sent) \subseteq Genuine(sent - 1) \cup {sent}
      BY <1>1 DEF Genuine
    <3>2. Wrq!InOrder(Genuine(sent - 1) \cup {sent}, file)
      BY <1>1, <2>1, <2>2 DEF StoredInOrder
    <3> QED
      BY <2>1, <3>1, <3>2, StoredSubset
  <2>3. CASE (sent % IdMod) \in mistaken
    <3>1. Genuine(sent) \subseteq Genuine(sent - 1)
      BY <1>1, <2>3 DEF Genuine
    <3>2. Wrq!InOrder(Genuine(sent - 1), file)
      BY <1>1, <2>1 DEF StoredInOrder
    <3> QED
      BY <2>1, <3>1, <3>2, StoredSubset
  <2> QED
    BY <2>1, <2>2, <2>3
<1>5. CASE sent # 0 /\ client # "success"
  <2>1. n = sent - 1 /\ sent > 0
    BY <1>1, <1>5 DEF Wrq!Acknowledged
  <2> QED
    BY <1>1, <2>1 DEF StoredInOrder
<1> QED
  BY <1>3, <1>4, <1>5

(* Of an upload of any length, as far as its first turn of block numbers.  *)
THEOREM UploadsStoreWhatTheyAcknowledge ==
  TransferSafety => [](sent < IdMod => AcknowledgedIsStored)
<1>1. TransferInv /\ sent < IdMod => AcknowledgedIsStored
  BY StoredBeforeAcked DEF TransferInv, AcknowledgedIsStored
<1> QED
  BY <1>1, TransferAlways, PTL

(* Likewise throughout an upload of fewer blocks than there are numbers.   *)
THEOREM ShortUploadsStoreWhatTheyAcknowledge ==
  ASSUME UploadLength < IdMod
  PROVE  TransferSafety => []AcknowledgedIsStored
<1>1. ASSUME UploadInv PROVE sent < IdMod
  BY <1>1, WrittenIsSent, TftpNetworkAssumption DEF UploadInv, TftpNetworkAssumption
<1>2. TransferInv => AcknowledgedIsStored
  BY <1>1, StoredBeforeAcked DEF TransferInv, AcknowledgedIsStored
<1> QED
  BY <1>2, TransferAlways, PTL

-----------------------------------------------------------------------------
(* What a transfer comes to, in the terms of module FileTransfer.          *)
Step == [Transfer!FileTransferNext]_Transfer!fileTransferVars

Ending(a) == IF a \in {"success", "failed"} THEN a ELSE "running"

(* Once another's packet was taken for the client's, only Misled is left:  *)
(* who has ended does not end again.                                       *)
LEMMA EndsStay ==
  ASSUME [TransferNext]_transferVars
  PROVE  /\ mistaken # {} => mistaken' # {}
         /\ at \in {"success", "failed"} => at' = at
         /\ client # "running" => client' = client
<1> USE DEF rrqOnly, wrqOnly
<1>1. CASE Rrq!Server
  BY <1>1, DownloadNet
     DEF Rrq!Server, Rrq!SendChunk, Rrq!SendChunkFails, Rrq!ServerReceives, Rrq!ReceiveAck,
         Rrq!ReceiveOther, Rrq!ReceiveStrange, Rrq!AwaitTimesOut, Rrq!Sends, Rrq!clientVars
<1>2. CASE Rrq!Client
  BY <1>2, DownloadNet
     DEF Rrq!Client, Rrq!ClientReceives, Rrq!AcceptChunk, Rrq!AckAgain, Rrq!ClientFails,
         Rrq!ClientDrops, Rrq!ClientRepeats, Rrq!ClientGivesUp, Rrq!serverVars,
         Rrq!clientVars
<1>3. CASE Wrq!Server
  BY <1>3, UploadNetSteps
     DEF Wrq!Server, Wrq!Greet, Wrq!GreetFails, Wrq!ServerReceives, Wrq!ReceiveData,
         Wrq!ReceiveOther, Wrq!ReceiveStrange, Wrq!ReceiveTimesOut, Wrq!Write, Wrq!WriteFails,
         Wrq!Ack, Wrq!AckFails, Wrq!GiveUp, Wrq!networkVars, Wrq!clientVars
<1>4. CASE Wrq!Client
  BY <1>4, UploadNetSteps
     DEF Wrq!Client, Wrq!ClientReceives, Wrq!SendNext, Wrq!ClientDone, Wrq!ClientFails,
         Wrq!ClientDrops, Wrq!ClientRepeats, Wrq!ClientGivesUp, Wrq!serverVars,
         Wrq!clientVars
<1>5. CASE /\ Network(IF kind = "rrq" THEN FileLength ELSE UploadLength)
           /\ UNCHANGED <<at, client>>
  BY <1>5 DEF Network, Lose, Duplicate, Strange
<1>6. CASE UNCHANGED transferVars
  BY <1>6 DEF transferVars, networkVars
<1> QED
  BY <1>1, <1>2, <1>3, <1>4, <1>5, <1>6 DEF TransferNext, Server, Client

LEMMA MisledSteps ==
  ASSUME [TransferNext]_transferVars, kind' = kind, mistaken' # {}
  PROVE  Step
<1>1. Transfer!Misled
  BY EndsStay DEF Transfer!Misled, Rrq!Sender, Rrq!Receiver, Wrq!Sender, Wrq!Receiver
<1> QED
  BY <1>1 DEF Step, Transfer!FileTransferNext

(* The steps that leave alone what FileTransfer sees, and those of its     *)
(* actions.                                                                *)
LEMMA DownloadMaps ==
  ASSUME kind = "rrq", kind' = "rrq", FileLength \in Nat, mistaken = {}, mistaken' = {},
         Len(got) \in Nat,
         \/ Len(got') = Len(got) /\ Ending(at') = Ending(at) /\ client' = client
         \/ /\ client = "running" /\ Len(got) < FileLength /\ Len(got') = Len(got) + 1
            /\ client' \in {"running", "success"}
            /\ client' = "success" => Len(got') = FileLength
            /\ Ending(at') = Ending(at)
         \/ /\ Ending(at) = "running" /\ client = "success" /\ Ending(at') = "success"
            /\ Len(got') = Len(got) /\ client' = client
         \/ /\ client = "running" /\ client' = "failed"
            /\ Len(got') = Len(got) /\ Ending(at') = Ending(at)
         \/ /\ Ending(at) = "running" /\ Ending(at') = "failed"
            /\ Len(got') = Len(got) /\ client' = client
  PROVE  Step
  BY DEF Step, Ending, Transfer!FileTransferNext, Transfer!fileTransferVars, Transfer!Copy,
         Transfer!Confirm, Transfer!ReceiverGivesUp, Transfer!SenderGivesUp,
         Rrq!Copied, Rrq!Sender, Rrq!Receiver

LEMMA DownloadSteps ==
  ASSUME DownloadInv, DownloadUnwrapped, kind = "rrq", kind' = "rrq",
         mistaken = {}, mistaken' = {}, [TransferNext]_transferVars
  PROVE  Step
<1> USE DEF rrqOnly, Ending
<1>a. /\ FileLength \in Nat /\ Len(got) \in Nat /\ got \in Seq(1..FileLength)
      /\ InLockStep
  BY TftpNetworkAssumption DEF TftpNetworkAssumption, DownloadInv, DownloadTypes
<1>1. CASE Rrq!SendChunk \/ Rrq!SendChunkFails \/ Rrq!AwaitTimesOut
  BY <1>1, <1>a, DownloadMaps
     DEF Rrq!SendChunk, Rrq!SendChunkFails, Rrq!AwaitTimesOut, Rrq!clientVars
<1>2. ASSUME NEW p \in BagToSet(net), p.to = "server", Rrq!ReceiveAck(p) PROVE Step
  <2>a. p.from = "client"
    BY <1>2, DownloadNet DEF Rrq!ReceiveAck, Rrq!FromTid
  <2>1. Len(got) = block
    BY <1>2, <1>a, <2>a, CountedAck DEF Rrq!ReceiveAck, Rrq!IsAck
  <2>2. block = FileLength => client = "success"
    BY <1>a, <2>1 DEF InLockStep
  <2> QED
    BY <1>2, <1>a, <2>2, DownloadMaps DEF Rrq!ReceiveAck, Rrq!clientVars
<1>3. ASSUME NEW p \in BagToSet(net), Rrq!ReceiveOther(p) \/ Rrq!ReceiveStrange(p)
      PROVE  Step
  BY <1>3, <1>a, DownloadMaps DEF Rrq!ReceiveOther, Rrq!ReceiveStrange, Rrq!clientVars
<1>4. ASSUME NEW p \in BagToSet(net), p.to = "client", Rrq!AcceptChunk(p) PROVE Step
  <2>1. PICK n \in 1..block : p = DataOf(n)
    BY <1>4, DownloadPacketKinds DEF Rrq!AcceptChunk, DownloadInv, DownloadTypes
  <2>2. /\ client = "running" /\ n % IdMod = (Len(got) + 1) % IdMod
        /\ got' = Append(got, n) /\ at' = at
        /\ client' = IF n = FileLength THEN "success" ELSE "running"
    BY <1>4, <2>1 DEF Rrq!AcceptChunk, DataOf, Packet, Rrq!serverVars
  <2>3. n = Len(got) + 1
    BY <2>2, AcceptedChunk
  <2>4. block \in Nat /\ n <= block /\ block <= FileLength /\ Len(got') = Len(got) + 1
    BY <1>a, <2>2 DEF DownloadInv, DownloadTypes
  <2> QED
    BY <1>a, <2>2, <2>3, <2>4, DownloadMaps
<1>5. ASSUME NEW p \in BagToSet(net),
             Rrq!AckAgain(p) \/ Rrq!ClientFails(p) \/ Rrq!ClientDrops(p)
      PROVE  Step
  BY <1>5, <1>a, DownloadMaps
     DEF Rrq!AckAgain, Rrq!ClientFails, Rrq!ClientDrops, Rrq!serverVars, Rrq!clientVars
<1>6. CASE Rrq!ClientRepeats \/ Rrq!ClientGivesUp
  BY <1>6, <1>a, DownloadMaps
     DEF Rrq!ClientRepeats, Rrq!ClientGivesUp, Rrq!serverVars, Rrq!clientVars
<1>7. CASE UNCHANGED <<at, client, got>>
  BY <1>7, <1>a, DownloadMaps
<1> QED
  BY <1>1, <1>2, <1>3, <1>4, <1>5, <1>6, <1>7
     DEF TransferNext, transferVars, Server, Client, Rrq!Server, Rrq!Client,
         Rrq!ServerReceives, Rrq!ClientReceives, Rrq!BagToSet, BagToSet

LEMMA UploadMaps ==
  ASSUME kind = "wrq", kind' = "wrq", UploadLength \in Nat, Wrq!Copied \in Nat,
         mistaken = {}, mistaken' = {},
         \/ Wrq!Copied' = Wrq!Copied /\ Ending(at') = Ending(at) /\ client' = client
         \/ /\ at = "write" /\ at' = "ack" /\ client' = client
            /\ Wrq!Copied < UploadLength /\ Wrq!Copied' = Wrq!Copied + 1
         \/ /\ Ending(at) = "running" /\ at' = "success" /\ client' = client
            /\ Wrq!Copied = UploadLength /\ Wrq!Copied' = Wrq!Copied
         \/ /\ Ending(at) = "running" /\ at' = "failed" /\ client' = client
            /\ Wrq!Copied' \in {0, Wrq!Copied}
         \/ /\ client = "running" /\ client' = "success" /\ at = "success" /\ at' = at
            /\ Wrq!Copied' = Wrq!Copied
         \/ /\ client = "running" /\ client' = "failed" /\ at' = at
            /\ Wrq!Copied' = Wrq!Copied
  PROVE  Step
  BY DEF Step, Ending, Transfer!FileTransferNext, Transfer!fileTransferVars, Transfer!Copy,
         Transfer!Complete, Transfer!Confirm, Transfer!ReceiverGivesUp,
         Transfer!SenderGivesUp, Wrq!Sender, Wrq!Receiver

(* The chunks before the one that the client waits for are stored, so the  *)
(* highest number stored counts how many are.                              *)
CopiedCounts ==
  UploadInv /\ sent < IdMod /\ mistaken = {} =>
    Wrq!Copied = IF ~exists THEN 0
                 ELSE IF sent \in Written \cup {0} THEN sent ELSE sent - 1

LEMMA CopiedIs == CopiedCounts
<1> SUFFICES ASSUME UploadInv, sent < IdMod, mistaken = {}
             PROVE  Wrq!Copied = IF ~exists THEN 0
                                 ELSE IF sent \in Written \cup {0} THEN sent ELSE sent - 1
  BY DEF CopiedCounts
<1> DEFINE S == Written \cup {0}
           m == IF sent \in S THEN sent ELSE sent - 1
<1>1. sent \in Nat /\ Written \subseteq 1..sent /\ file \in Seq(Nat)
  BY WrittenIsSent DEF UploadInv
<1>2. Wrq!Range(file) = Written
  BY <1>1 DEF Wrq!Range, Written
<1>3. m \in S
  <2>1. CASE sent \in S
    BY <2>1
  <2>2. CASE sent \notin S /\ sent - 1 = 0
    BY <2>2
  <2>3. CASE sent \notin S /\ sent - 1 # 0
    <3>1. sent - 1 \in Nat /\ sent - 1 \in 1..sent - 1 /\ sent > 0
      BY <1>1, <2>3
    <3>2. Wrq!InOrder(Genuine(sent - 1), file) /\ sent - 1 \in Genuine(sent - 1)
      BY <3>1 DEF UploadInv, StoredInOrder, Genuine
    <3>3. PICK j \in 1..Len(file) : file[j] = sent - 1
      BY <3>2, StoredContains
    <3> QED
      BY <2>3, <3>3 DEF Written
  <2> QED
    BY <2>1, <2>2, <2>3
<1>4. S \subseteq Nat /\ m \in Nat /\ \A k \in S : k <= m
  BY <1>1, <1>3
<1> HIDE DEF S, m
<1>5. \A x \in S : (\A y \in S : x >= y) <=> x = m
  BY <1>3, <1>4
<1>6. Wrq!Max(S) = m
  BY <1>3, <1>5 DEF Wrq!Max
<1> QED
  BY <1>2, <1>6 DEF Wrq!Copied, S, m

LEMMA UploadSteps ==
  ASSUME UploadInv, UploadInv', sent < IdMod, sent' < IdMod, kind = "wrq", kind' = "wrq",
         mistaken = {}, mistaken' = {}, [TransferNext]_transferVars
  PROVE  Step
<1> USE DEF wrqOnly, Ending
<1>a. /\ sent \in Nat /\ UploadLength \in Nat \ {0} /\ sent <= UploadLength
      /\ Written \subseteq 1..sent /\ UploadEnds /\ StoredInOrder
  BY WrittenIsSent DEF UploadInv, UploadTypes
<1>b. Wrq!Copied = IF ~exists THEN 0
                   ELSE IF sent \in Written \cup {0} THEN sent ELSE sent - 1
  BY CopiedIs DEF CopiedCounts
<1>c. Wrq!Copied' = IF ~exists' THEN 0
                    ELSE IF sent' \in Written' \cup {0} THEN sent' ELSE sent' - 1
  <2>1. CopiedCounts'
    BY CopiedIs, PTL
  <2> QED
    BY <2>1 DEF CopiedCounts
<1>d. Wrq!Copied \in Nat
  BY <1>a, <1>b
<1>e. ASSUME UNCHANGED <<exists, file, sent>> PROVE Wrq!Copied' = Wrq!Copied
  BY <1>e DEF Wrq!Copied
<1>1. CASE \/ Wrq!Greet \/ Wrq!GreetFails \/ Wrq!ClientRepeats \/ Wrq!ClientGivesUp
           \/ UNCHANGED <<at, client, exists, file, sent>>
  BY <1>1, <1>a, <1>d, <1>e, UploadMaps
     DEF Wrq!Greet, Wrq!GreetFails, Wrq!ClientRepeats, Wrq!ClientGivesUp, Wrq!serverVars,
         Wrq!clientVars
<1>2. ASSUME NEW p \in BagToSet(net),
             Wrq!ReceiveData(p) \/ Wrq!ClientFails(p) \/ Wrq!ClientDrops(p)
      PROVE  Step
  BY <1>2, <1>a, <1>d, <1>e, UploadMaps
     DEF Wrq!ReceiveData, Wrq!ClientFails, Wrq!ClientDrops, Wrq!serverVars, Wrq!clientVars
<1>3. ASSUME at \in {"receive", "write", "ack"}, Wrq!GiveUp, client' = client PROVE Step
  <2>1. Wrq!Copied' = 0
    BY <1>3 DEF Wrq!Copied, Wrq!GiveUp
  <2> QED
    BY <1>3, <1>a, <1>d, <2>1, UploadMaps DEF Wrq!GiveUp
<1>4. ASSUME NEW p \in BagToSet(net), Wrq!ReceiveOther(p) \/ Wrq!ReceiveStrange(p)
      PROVE  Step
  BY <1>3, <1>4 DEF Wrq!ReceiveOther, Wrq!ReceiveStrange, Wrq!clientVars
<1>5. CASE Wrq!ReceiveTimesOut \/ Wrq!WriteFails \/ Wrq!AckFails
  BY <1>3, <1>5 DEF Wrq!ReceiveTimesOut, Wrq!WriteFails, Wrq!AckFails, Wrq!clientVars
<1>6. CASE Wrq!Write
  <2>1. /\ at = "write" /\ at' = "ack" /\ client' = client /\ sent' = sent
        /\ exists /\ exists' = exists
    BY <1>6, <1>a DEF Wrq!Write, Wrq!clientVars, UploadEnds
  <2>2. Written \subseteq Written'
    <3>1. file \in Seq(Nat) /\ file' = Append(file, hand.chunk)
      BY <1>6, WrittenIsSent DEF Wrq!Write, UploadInv
    <3>2. Len(file) \in Nat /\ Len(file') = Len(file) + 1
          /\ \A i \in 1..Len(file) : file'[i] = file[i]
      BY <3>1
    <3> QED
      BY <3>2 DEF Written
  <2>3. \/ Wrq!Copied' = Wrq!Copied
        \/ Wrq!Copied < UploadLength /\ Wrq!Copied' = Wrq!Copied + 1
    BY <1>a, <1>b, <1>c, <2>1, <2>2
  <2> QED
    BY <1>a, <1>d, <2>1, <2>3, UploadMaps
<1>7. CASE Wrq!Ack
  <2>1. /\ at = "ack" /\ hand.chunk \in Written /\ exists /\ client' = client
        /\ UNCHANGED <<exists, file, sent>>
        /\ at' = IF hand.chunk >= UploadLength THEN "success" ELSE "receive"
    BY <1>7, <1>a DEF Wrq!Ack, Wrq!clientVars, UploadEnds
  <2>2. ASSUME hand.chunk >= UploadLength PROVE Wrq!Copied = UploadLength
    <3>1. hand.chunk \in 1..sent
      BY <1>a, <2>1
    <3>2. hand.chunk = sent /\ sent = UploadLength
      BY <1>a, <2>2, <3>1
    <3> QED
      BY <1>b, <2>1, <3>2
  <2> QED
    BY <1>a, <1>d, <1>e, <2>1, <2>2, UploadMaps
<1>8. ASSUME NEW p \in BagToSet(net), p.to = "client", Wrq!SendNext(p) PROVE Step
  <2>1. /\ sent' = sent + 1 /\ client' = client /\ at' = at /\ exists' = exists
        /\ Written' = Written
    BY <1>8 DEF Wrq!SendNext, Wrq!serverVars, Written
  <2>2. sent \in Written \cup {0}
    BY <1>8, AckedIsDone DEF Wrq!SendNext, MayBeAcked
  <2>3. Wrq!Copied' = Wrq!Copied
    BY <1>a, <1>b, <1>c, <2>1, <2>2
  <2> QED
    BY <1>a, <1>d, <2>1, <2>3, UploadMaps
<1>9. ASSUME NEW p \in BagToSet(net), p.to = "client", Wrq!ClientDone(p) PROVE Step
  <2>1. at = "success"
    BY <1>9, AckedIsDone DEF Wrq!ClientDone, MayBeAcked
  <2> QED
    BY <1>9, <1>a, <1>d, <1>e, <2>1, UploadMaps DEF Wrq!ClientDone, Wrq!serverVars
<1> QED
  BY <1>1, <1>2, <1>4, <1>5, <1>6, <1>7, <1>8, <1>9
     DEF TransferNext, transferVars, Server, Client, Wrq!Server, Wrq!Client,
         Wrq!ServerReceives, Wrq!ClientReceives, Wrq!BagToSet, BagToSet

(* A transfer of a file that needs no second turn of the block numbers is  *)
(* a file transfer, whatever the network loses, repeats or delays: the     *)
(* receiver skips no chunk, reports success only with all of them, and the *)
(* sender's success comes last (tftpd.c:298-352, 414-487).  That ends with *)
(* the first packet of another host or an earlier transfer that comes from *)
(* the client's port number, which is all the code looks at.               *)
THEOREM ShortTransfersAreFileTransfers ==
  ASSUME FileLength <= IdMod, UploadLength < IdMod
  PROVE  TransferSafety => ImplementsFileTransfer
<1>1. TransferInit => Transfer!FileTransferInit
  <2>1. FileLength \in Nat \ {0} /\ UploadLength \in Nat \ {0}
    BY TftpNetworkAssumption, UploadAssumption DEF TftpNetworkAssumption, UploadAssumption
  <2>2. CASE kind = "rrq" /\ Rrq!RrqInit
    BY <2>1, <2>2 DEF Rrq!RrqInit, Rrq!NetworkInit, Rrq!Copied, Rrq!Sender, Rrq!Receiver,
                      Transfer!FileTransferInit
  <2>3. CASE kind = "wrq" /\ Wrq!WrqInit
    <3>1. UploadInv /\ sent = 0 /\ sent < IdMod /\ mistaken = {}
      BY <2>3, UploadStarts, TftpNetworkAssumption
         DEF Wrq!WrqInit, Wrq!NetworkInit, TftpNetworkAssumption
    <3>2. Wrq!Copied = 0
      BY <3>1, CopiedIs DEF CopiedCounts
    <3> QED
      BY <2>1, <2>3, <3>1, <3>2 DEF Wrq!WrqInit, Wrq!Sender, Wrq!Receiver,
                              Transfer!FileTransferInit
  <2> QED
    BY <2>2, <2>3 DEF TransferInit
<1>2. UploadInv => sent < IdMod
  BY WrittenIsSent, TftpNetworkAssumption DEF UploadInv, TftpNetworkAssumption
<1>3. UploadInv' => sent' < IdMod
  BY TftpNetworkAssumption, UploadAssumption
     DEF UploadInv, UploadTypes, UploadEnds, TftpNetworkAssumption, UploadAssumption
<1>4. TransferInv /\ TransferInv' /\ [TransferNext]_transferVars => Step
  <2>a. ASSUME [TransferNext]_transferVars PROVE mistaken' = {} => mistaken = {}
    BY <2>a, EndsStay
  <2>1. ASSUME kind = "rrq", DownloadInv, [TransferNext]_transferVars PROVE Step
    BY <2>a, <2>1, DownloadStep, DownloadSteps, MisledSteps DEF DownloadUnwrapped
  <2>2. ASSUME kind = "wrq", UploadInv, [TransferNext]_transferVars PROVE Step
    BY <1>2, <1>3, <2>a, <2>2, UploadStep, UploadSteps, MisledSteps
  <2> QED
    BY <2>1, <2>2 DEF TransferInv
<1> QED
  BY <1>1, <1>4, TransferAlways, PTL
     DEF TransferSafety, ImplementsFileTransfer, Transfer!FileTransferSpec, Step
=============================================================================
