------------------------------- MODULE Tftpd --------------------------------
(***************************************************************************)
(* tftpd.c as a whole: the daemon forks a child for every request; the     *)
(* children compete for MAX_CLIENTS local ports and share one directory.   *)
(* All requests are for the same file name, the case in which they meet.   *)
(* The packets of a transfer are in TftpRrq and TftpWrq: here a transfer   *)
(* is a number of chunks, each of which may fail.                          *)
(***************************************************************************)
EXTENDS Naturals, FiniteSets, Functions

CONSTANTS
  Uploads,      \* the WRQ requests that pass the checks of main
  Downloads,    \* the RRQ requests that do
  Ports,        \* MIN_TID .. MIN_TID + MAX_CLIENTS - 1
  MaxAttempts,  \* MAX_TID_ATTEMPTS
  Chunks        \* of every upload; only the last one is short

Requests == Uploads \cup Downloads

ASSUME TftpdAssumption ==
  /\ IsFiniteSet(Requests) /\ IsFiniteSet(Ports) /\ Ports # {}
  /\ Uploads \cap Downloads = {}
  /\ MaxAttempts \in Nat \ {0}
  /\ Chunks \in Nat \ {0}

NoPort == "no port"
NoFile == "no file"
NoSeed == <<>>

ASSUME NothingAssumption == NoPort \notin Ports /\ NoFile \notin Uploads

VARIABLES
  main,      \* the daemon: "loop" or "exited"
  child,     \* where the child of each request is
  tries,     \* how many ports it has tried, while it runs
  port,      \* the port it is bound to, or NoPort
  seed,      \* the ports its rand() yields, in order, while it runs
  draws,     \* those rand() yields to whoever calls srand() this second
  name,      \* the upload whose file the name refers to, or NoFile
  size,      \* chunks written to the file of each upload
  opened,    \* the upload whose file each download has open
  settled,   \* history: was that upload over when the download opened it?
  delivered  \* chunks of it each download has delivered

childVars == <<child, tries, port, seed>>
fileVars == <<name, size>>
readVars == <<opened, settled, delivered>>
tftpdVars == <<main, childVars, draws, fileVars, readVars>>

-----------------------------------------------------------------------------
(* A child is at "pick" in _pick_tid, "check" before the checks of         *)
(* _handle_request, "greet" before the first ACK of an upload, "copy" in   *)
(* the transfer; then it has ended, one way or another: "refused" without  *)
(* a word for want of a port, "error" with an ERROR packet, "kept" after a *)
(* failure that leaves the file, "killed".                                 *)
Ended == {"success", "failed", "refused", "error", "kept", "killed"}
Connected(r) == child[r] \in {"check", "greet", "copy"}
Writing(r) == r \in Uploads /\ child[r] \in {"greet", "copy"}

Sequences == [1..MaxAttempts -> Ports]

TftpdTypeOK ==
  /\ main \in {"loop", "exited"}
  /\ child \in [Requests -> {"none", "pick", "check", "greet", "copy"} \cup Ended]
  /\ tries \in [Requests -> 0..MaxAttempts]
  /\ port \in [Requests -> Ports \cup {NoPort}]
  /\ seed \in [Requests -> Sequences \cup {NoSeed}]
  /\ draws \in Sequences
  /\ name \in Uploads \cup {NoFile}
  /\ size \in [Uploads -> 0..Chunks]
  /\ opened \in [Downloads -> Uploads \cup {NoFile}]
  /\ settled \in [Downloads -> BOOLEAN]
  /\ delivered \in [Downloads -> 0..Chunks]

TftpdInit ==
  /\ main = "loop"
  /\ child = [r \in Requests |-> "none"]
  /\ tries = [r \in Requests |-> 0]
  /\ port = [r \in Requests |-> NoPort]
  /\ draws \in Sequences
  /\ seed = [r \in Requests |-> NoSeed]
  /\ name = NoFile
  /\ size = [u \in Uploads |-> 0]
  /\ opened = [d \in Downloads |-> NoFile]
  /\ settled = [d \in Downloads |-> FALSE]
  /\ delivered = [d \in Downloads |-> 0]

-----------------------------------------------------------------------------
(* The daemon.                                                             *)

(* A request that passes the checks of main (its size, its opcode, the end *)
(* of its name; the others are ignored) gets a child, which seeds its      *)
(* random numbers with the time in seconds.                                *)
Fork(r) ==
  /\ main = "loop" /\ child[r] = "none"
  /\ child' = [child EXCEPT ![r] = "pick"]
  /\ seed' = [seed EXCEPT ![r] = draws]
  /\ UNCHANGED <<main, tries, port, draws, fileVars, readVars>>

(* SIGTERM, a failed fork() or a receive that finds no request ends the    *)
(* daemon.  The children go on.                                            *)
MainExits ==
  /\ main = "loop"
  /\ main' = "exited"
  /\ UNCHANGED <<childVars, draws, fileVars, readVars>>

(* The clock reaches the next second: srand() will yield other numbers.    *)
NextSecond ==
  /\ draws' \in Sequences
  /\ UNCHANGED <<main, childVars, fileVars, readVars>>

-----------------------------------------------------------------------------
(* What all children do.                                                   *)
Ends(r, how) ==
  /\ child' = [child EXCEPT ![r] = how]
  /\ tries' = [tries EXCEPT ![r] = 0]
  /\ port' = [port EXCEPT ![r] = NoPort]
  /\ seed' = [seed EXCEPT ![r] = NoSeed]
  /\ UNCHANGED <<main, draws>>

Goes(r, where) ==
  /\ child' = [child EXCEPT ![r] = where]
  /\ UNCHANGED <<main, tries, port, seed, draws>>

InUse == Range(port) \ {NoPort}

(* Some definitions have a faulty twin in front of them, which nothing     *)
(* uses: a bug the properties detect when it takes the definition's place. *)
PickSharedPort(r) ==
  /\ child[r] = "pick" /\ tries[r] < MaxAttempts
  /\ tries' = [tries EXCEPT ![r] = @ + 1]
  /\ port' = [port EXCEPT ![r] = seed[r][tries[r] + 1]]
  /\ child' = [child EXCEPT ![r] = "check"]
  /\ UNCHANGED <<main, seed, draws, fileVars, readVars>>

(* The next random port: bound if free, else tried no more than            *)
(* MaxAttempts times.                                                      *)
PickTid(r) ==
  /\ child[r] = "pick" /\ tries[r] < MaxAttempts
  /\ tries' = [tries EXCEPT ![r] = @ + 1]
  /\ LET p == seed[r][tries[r] + 1]
     IN  IF p \in InUse
           THEN UNCHANGED <<child, port>>
           ELSE /\ port' = [port EXCEPT ![r] = p]
                /\ child' = [child EXCEPT ![r] = "check"]
  /\ UNCHANGED <<main, seed, draws, fileVars, readVars>>

(* The socket cannot be had or set up, or bind() fails although the port   *)
(* is free.                                                                *)
SocketFails(r) ==
  /\ child[r] = "pick" /\ tries[r] < MaxAttempts
  /\ Ends(r, "refused")
  /\ UNCHANGED <<fileVars, readVars>>

NoPortFound(r) ==
  /\ child[r] = "pick" /\ tries[r] = MaxAttempts
  /\ Ends(r, "refused")
  /\ UNCHANGED <<fileVars, readVars>>

(* A mode other than octet, or a sub-directory in the name.                *)
Reject(r) ==
  /\ child[r] = "check"
  /\ Ends(r, "error")
  /\ UNCHANGED <<fileVars, readVars>>

(* A crash or SIGKILL.                                                     *)
KillChild(r) ==
  /\ child[r] \notin Ended \cup {"none"}
  /\ Ends(r, "killed")
  /\ UNCHANGED <<fileVars, readVars>>

-----------------------------------------------------------------------------
(* An upload.                                                              *)

CreateAnyway(u) ==
  /\ child[u] = "check" /\ u \in Uploads
  /\ name' = u
  /\ Goes(u, "greet")
  /\ UNCHANGED <<size, readVars>>

(* O_CREAT | O_EXCL.                                                       *)
Create(u) ==
  /\ child[u] = "check" /\ u \in Uploads /\ name = NoFile
  /\ name' = u
  /\ Goes(u, "greet")
  /\ UNCHANGED <<size, readVars>>

FileExists(u) ==
  /\ child[u] = "check" /\ u \in Uploads /\ name # NoFile
  /\ Ends(u, "error")
  /\ UNCHANGED <<fileVars, readVars>>

Greet(u) ==
  /\ child[u] = "greet"
  /\ Goes(u, "copy")
  /\ UNCHANGED <<fileVars, readVars>>

(* The first ACK cannot be sent: the code forgets to delete the file.      *)
GreetFails(u) ==
  /\ child[u] = "greet"
  /\ Ends(u, "kept")
  /\ UNCHANGED <<fileVars, readVars>>

StoreChunkForever(u) ==
  /\ child[u] = "copy" /\ u \in Uploads
  /\ size' = [size EXCEPT ![u] = @ + 1]
  /\ Goes(u, "copy")
  /\ UNCHANGED <<name, readVars>>

(* The next chunk arrives and is written; a short one completes the file.  *)
StoreChunk(u) ==
  /\ child[u] = "copy" /\ u \in Uploads
  /\ size' = [size EXCEPT ![u] = @ + 1]
  /\ IF size[u] + 1 = Chunks THEN Ends(u, "success") ELSE Goes(u, "copy")
  /\ UNCHANGED <<name, readVars>>

UploadKeptOnFailure(u) ==
  /\ child[u] = "copy" /\ u \in Uploads
  /\ Ends(u, "failed")
  /\ UNCHANGED <<fileVars, readVars>>

(* The upload fails; what the name refers to is deleted.                   *)
UploadFails(u) ==
  /\ child[u] = "copy" /\ u \in Uploads
  /\ name' = NoFile
  /\ Ends(u, "failed")
  /\ UNCHANGED <<size, readVars>>

-----------------------------------------------------------------------------
(* A download.                                                             *)
Open(d) ==
  /\ child[d] = "check" /\ d \in Downloads /\ name # NoFile
  /\ opened' = [opened EXCEPT ![d] = name]
  /\ settled' = [settled EXCEPT ![d] = child[name] = "success"]
  /\ Goes(d, "copy")
  /\ UNCHANGED <<delivered, fileVars>>

FileNotFound(d) ==
  /\ child[d] = "check" /\ d \in Downloads /\ name = NoFile
  /\ Ends(d, "error")
  /\ UNCHANGED <<fileVars, readVars>>

SendAllButLast(d) ==
  /\ child[d] = "copy" /\ d \in Downloads
  /\ IF delivered[d] + 1 < size[opened[d]]
       THEN delivered' = [delivered EXCEPT ![d] = @ + 1] /\ Goes(d, "copy")
       ELSE Ends(d, "success") /\ UNCHANGED delivered
  /\ UNCHANGED <<opened, settled, fileVars>>

(* The next chunk the file has now; the transfer is over after a short     *)
(* one, which is also what the end of an unfinished file looks like.       *)
SendChunk(d) ==
  /\ child[d] = "copy" /\ d \in Downloads
  /\ IF delivered[d] < size[opened[d]]
       THEN /\ delivered' = [delivered EXCEPT ![d] = @ + 1]
            /\ IF delivered[d] + 1 = Chunks THEN Ends(d, "success") ELSE Goes(d, "copy")
       ELSE Ends(d, "success") /\ UNCHANGED delivered
  /\ UNCHANGED <<opened, settled, fileVars>>

DownloadFails(d) ==
  /\ child[d] = "copy" /\ d \in Downloads
  /\ Ends(d, "failed")
  /\ UNCHANGED <<fileVars, readVars>>

-----------------------------------------------------------------------------
Child(r) ==
  \/ PickTid(r) \/ SocketFails(r) \/ NoPortFound(r) \/ Reject(r)
  \/ Create(r) \/ FileExists(r) \/ Greet(r) \/ GreetFails(r)
  \/ StoreChunk(r) \/ UploadFails(r)
  \/ Open(r) \/ FileNotFound(r) \/ SendChunk(r) \/ DownloadFails(r)

TftpdNext ==
  \/ MainExits \/ NextSecond
  \/ \E r \in Requests : Fork(r) \/ Child(r) \/ KillChild(r)

TftpdSafety == TftpdInit /\ [][TftpdNext]_tftpdVars

-----------------------------------------------------------------------------
(* The name belongs to the upload that is being written: O_EXCL keeps two  *)
(* uploads from the same file, so the unlink(path) of a failed one never   *)
(* deletes the file of another (tftpd.c:272, 361-364).                     *)
WriterOwnsName == \A u \in Uploads : Writing(u) => name = u

(* A file that is neither complete nor being written is the work of a      *)
(* crash or of a first ACK that could not be sent (tftpd.c:289-296).       *)
NoHalfFiles ==
  name # NoFile =>
    \/ Writing(name)
    \/ child[name] = "success" /\ size[name] = Chunks
    \/ child[name] \in {"kept", "killed"}

(* A download of a file that was complete when it was opened is complete,  *)
(* whatever other children do meanwhile (tftpd.c:409-486).                 *)
SettledDownloadIsWhole ==
  \A d \in Downloads :
    child[d] = "success" /\ settled[d] => delivered[d] = Chunks

(* Of the clients whose children were seeded in the same second no more    *)
(* than MAX_TID_ATTEMPTS are connected at once: they draw the same ports   *)
(* (tftpd.c:506-521).                                                      *)
SameSeedShares ==
  \A r \in Requests :
    Cardinality({q \in Requests : Connected(q) /\ seed[q] = seed[r]}) <= MaxAttempts
=============================================================================
