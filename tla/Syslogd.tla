------------------------------ MODULE Syslogd -------------------------------
(***************************************************************************)
(* syslogd.c: the Daemon loop whose datagrams are log messages, the log    *)
(* file they are appended to, and syslog.c, which displays that file.      *)
(* A message is a sequence of bytes; the log file holds them XORed.        *)
(***************************************************************************)
EXTENDS Daemon, FiniteSetsExt, SequencesExt

CONSTANTS
  OldText,     \* what the log file that syslogd appends to says, decoded
  MessageMax,  \* MAX_MESSAGE_LENGTH, in bytes
  ChunkMax     \* the size of syslog's chunk buffer

ASSUME SyslogdAssumption ==
  /\ Datagrams \subseteq Seq(0..255)
  /\ OldText \in Seq(0..255)
  /\ MessageMax \in Nat \ {0}
  /\ ChunkMax \in Nat \ {0}

VARIABLES
  log,        \* the log file's bytes
  logged,     \* history: the messages handled and, unless empty, logged
  exit_code,  \* syslogd's
  shown,      \* what syslog has written to its standard output
  reader      \* syslog: "reading" until it exits, "done" with success or "failed"

logVars == <<log, logged, exit_code>>
readerVars == <<shown, reader>>
syslogdVars == <<daemonVars, logVars, readerVars>>

-----------------------------------------------------------------------------
NewLine == 10

(* b ^ 0xF1: the high nibble and the lowest bit are inverted.              *)
Xor(b) ==
  16 * (15 - b \div 16) + (b % 16) + (IF b % 2 = 0 THEN 1 ELSE 0 - 1)

XorAll(bytes) == [i \in DOMAIN bytes |-> Xor(bytes[i])]

(* recvfrom() cuts a message that is longer than the buffer.               *)
Received(m) == IF Len(m) > MessageMax THEN SubSeq(m, 1, MessageMax) ELSE m

(* The code tests the last byte after the message was cut, before the XOR. *)
FrameBeforeCut(m) == Received(IF Last(m) = NewLine THEN m ELSE Append(m, NewLine))

Frame(m) ==
  LET r == Received(m)
  IN  IF Last(r) = NewLine THEN r ELSE Append(r, NewLine)

SyslogdTypeOK ==
  /\ DaemonTypeOK
  /\ log \in Seq(0..255)
  /\ logged \in Seq(Datagrams)
  /\ exit_code \in {"EXIT_FAILURE", "EXIT_SUCCESS"}
  /\ shown \in Seq(0..255)
  /\ reader \in {"reading", "done", "failed"}

(* The log may end within a line, where an earlier syslogd failed.         *)
SyslogdInit ==
  /\ DaemonInit
  /\ log = XorAll(OldText)
  /\ logged = <<>>
  /\ exit_code = "EXIT_FAILURE"
  /\ shown = <<>>
  /\ reader = "reading"

-----------------------------------------------------------------------------
(* Steps of the loop that do not touch the log.  The exit code is success  *)
(* only if SIGTERM ended the loop.                                         *)
Wait ==
  /\ DaemonWait
  /\ exit_code' = IF term THEN "EXIT_SUCCESS" ELSE exit_code
  /\ UNCHANGED <<log, logged, readerVars>>

(* An empty message is skipped.                                            *)
SkipEmpty ==
  /\ msg = <<>>
  /\ logged' = Append(logged, msg)
  /\ Handled("wait")
  /\ UNCHANGED <<log, exit_code, readerVars>>

(* The line is appended whole.                                             *)
WriteLine ==
  /\ msg # <<>>
  /\ log' = log \o XorAll(Frame(msg))
  /\ logged' = Append(logged, msg)
  /\ Handled("wait")
  /\ UNCHANGED <<exit_code, readerVars>>

WriteFailureIgnored ==
  /\ msg # <<>>
  /\ \E n \in 0..Len(Frame(msg)) - 1 :
       log' = log \o XorAll(SubSeq(Frame(msg), 1, n))
  /\ Handled("wait")
  /\ UNCHANGED <<logged, exit_code, readerVars>>

(* write() fails, or stops after n bytes (a full disk): syslogd gives up.  *)
WriteFails ==
  /\ msg # <<>>
  /\ \E n \in 0..Len(Frame(msg)) - 1 :
       log' = log \o XorAll(SubSeq(Frame(msg), 1, n))
  /\ Handled("cleanup")
  /\ UNCHANGED <<logged, exit_code, readerVars>>

(* EAGAIN sends the loop back to sigwait().                                *)
OtherSteps ==
  /\ InitCall \/ InitFails \/ Recv \/ RecvEmpty("wait") \/ RecvFails \/ Close
  /\ UNCHANGED <<logVars, readerVars>>

SyslogdProcess == Wait \/ SkipEmpty \/ WriteLine \/ WriteFails \/ OtherSteps

ChunkSize == Min({ChunkMax, Len(log) - Len(shown)})

(* syslog writes the next n bytes of the log out, decoded.                 *)
Shows(n) == shown' = shown \o XorAll(SubSeq(log, Len(shown) + 1, Len(shown) + n))

ReadChunkOffByOne ==
  /\ reader = "reading"
  /\ LET chunk == SubSeq(log, Len(shown) + 1, Len(shown) + ChunkSize)
     IN  shown' = shown \o [i \in DOMAIN chunk |->
                            IF i < Len(chunk) THEN Xor(chunk[i]) ELSE chunk[i]]
  /\ reader' = IF ChunkSize = 0 THEN "done" ELSE "reading"
  /\ UNCHANGED <<daemonVars, logVars>>

(* syslog reads the next chunk and writes it out; it stops at the end of   *)
(* the file, wherever the daemon has got to by then.                       *)
ReadChunk ==
  /\ reader = "reading"
  /\ Shows(ChunkSize)
  /\ reader' = IF ChunkSize = 0 THEN "done" ELSE "reading"
  /\ UNCHANGED <<daemonVars, logVars>>

(* It gives up when it cannot read, or write the chunk out as a whole.     *)
ReadFails ==
  /\ reader = "reading"
  /\ \E n \in 0..ChunkSize : (n = 0 \/ n < ChunkSize) /\ Shows(n)
  /\ reader' = "failed"
  /\ UNCHANGED <<daemonVars, logVars>>

SyslogdNext ==
  \/ Kernel /\ UNCHANGED <<logVars, readerVars>>
  \/ SyslogdProcess
  \/ ReadChunk \/ ReadFails

SyslogdSafety == SyslogdInit /\ [][SyslogdNext]_syslogdVars

-----------------------------------------------------------------------------
(* Nothing is lost, repeated or reordered between the socket and the log:  *)
(* the handled messages, the one in hand and the queue make up what        *)
(* arrived (syslogd.c:95-129).                                             *)
InFlight == IF pc = "handle" THEN <<msg>> ELSE <<>>

NothingLost ==
  pc \in {"init"} \cup InLoop => logged \o InFlight \o queue = arrived

(* The line of a message: the bytes of it that fit, less the line break    *)
(* they may end in, and a line break.                                      *)
LineOf(m) ==
  LET text == SubSeq(m, 1, Min({MessageMax, Len(m)}))
      body == IF Last(text) = NewLine THEN Front(text) ELSE text
  IN  IF m = <<>> THEN <<>> ELSE Append(body, NewLine)

(* The log, decoded, is what it was before and the lines of the handled    *)
(* messages, each ending in one line break, long messages cut; only a      *)
(* syslogd that failed leaves part of a line behind it (syslogd.c:56-58,   *)
(* 114-129).                                                               *)
Failed == pc \in {"cleanup"} \cup Gone /\ exit_code = "EXIT_FAILURE"

LogIsLines ==
  LET text == XorAll(log)
      lines == OldText \o FlattenSeq([i \in DOMAIN logged |-> LineOf(logged[i])])
  IN  /\ IsPrefix(lines, text)
      /\ text # lines => Failed

(* What syslog displays is a beginning of the log, and once it succeeds,   *)
(* unless syslogd failed, it has shown whole lines only, or nothing but    *)
(* what the log said before (syslog.c:41-64).                              *)
ReaderShowsLines ==
  /\ IsPrefix(shown, XorAll(log))
  /\ reader = "done" => shown = OldText \/ Last(shown) = NewLine \/ Failed

(* syslogd implements the promised service.                                *)
Service == INSTANCE LogService
  WITH Messages <- Datagrams, sent <- arrived, up <- Alive

ImplementsLogService == Service!LogServiceSpec
=============================================================================
