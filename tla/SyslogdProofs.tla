--------------------------- MODULE SyslogdProofs ----------------------------
(***************************************************************************)
(* syslogd loses, repeats and reorders nothing between its socket and its  *)
(* log, and so implements the service of syslogd(8); its log is the lines  *)
(* of the messages, and syslog shows it: for every set of messages and     *)
(* every bound.                                                            *)
(***************************************************************************)
EXTENDS Syslogd, DaemonProofs, WellFoundedInduction

(* Facts about the pieces a message moves through: the log l, the message  *)
(* in hand f and the queue q make up what arrived, a.                      *)
LEMMA ArrivalExtends ==
  ASSUME NEW S, NEW l \in Seq(S), NEW f \in Seq(S), NEW q \in Seq(S), NEW d \in S
  PROVE  l \o f \o Append(q, d) = Append(l \o f \o q, d)
  OBVIOUS

LEMMA ReceiveMoves ==
  ASSUME NEW S, NEW l \in Seq(S), NEW q \in Seq(S), q # <<>>
  PROVE  l \o <<Head(q)>> \o Tail(q) = l \o <<>> \o q
  OBVIOUS

LEMMA HandleMoves ==
  ASSUME NEW S, NEW l \in Seq(S), NEW q \in Seq(S), NEW m \in S
  PROVE  Append(l, m) \o <<>> \o q = l \o <<m>> \o q
  OBVIOUS

LEMMA NextToHandle ==
  ASSUME NEW S, NEW l \in Seq(S), NEW q \in Seq(S), NEW m \in S
  PROVE  /\ Len(l) < Len(l \o <<m>> \o q)
         /\ (l \o <<m>> \o q)[Len(l) + 1] = m
  OBVIOUS

-----------------------------------------------------------------------------
(* Every step of syslogd is a step of the loop in daemon.c or leaves it    *)
(* alone, so what Daemon guarantees holds of syslogd too.                  *)
LEMMA SyslogdStep == [SyslogdNext]_syslogdVars => [DaemonNext]_daemonVars
  BY DEF SyslogdNext, SyslogdProcess, Wait, SkipEmpty, WriteLine, WriteFails,
         OtherSteps, ReadChunk, ReadFails, DaemonNext, Process, syslogdVars

THEOREM SyslogdIsDaemon == SyslogdSafety => DaemonSafety
<1>1. SyslogdInit => DaemonInit
  BY DEF SyslogdInit
<1> QED
  BY <1>1, SyslogdStep, PTL DEF SyslogdSafety, DaemonSafety

-----------------------------------------------------------------------------
LoggedOK == logged \in Seq(Datagrams) /\ NothingLost

(* The strengthening is only that the history variable has its type.       *)
LEMMA LoggedAlways == SyslogdSafety => []LoggedOK
<1> USE DEF LoggedOK, NothingLost, InFlight, InLoop, Gone, DaemonTypeOK
<1>1. SyslogdInit => LoggedOK
  <2> SUFFICES ASSUME SyslogdInit PROVE LoggedOK
    OBVIOUS
  <2>1. logged = <<>> /\ queue = <<>> /\ arrived = <<>> /\ pc = "init"
    BY DEF SyslogdInit, DaemonInit
  <2> QED
    BY <2>1
<1>2. DaemonTypeOK /\ LoggedOK /\ [SyslogdNext]_syslogdVars => LoggedOK'
  <2> SUFFICES ASSUME DaemonTypeOK, LoggedOK, [SyslogdNext]_syslogdVars
               PROVE  LoggedOK'
    OBVIOUS
  <2>1. ASSUME NEW d \in Datagrams, Arrive(d), UNCHANGED logVars
        PROVE  LoggedOK'
    <3>1. InFlight \in Seq(Datagrams)
      BY DEF InFlight
    <3>2. /\ logged' = logged
          /\ queue' = Append(queue, d)
          /\ arrived' = Append(arrived, d)
          /\ msg' = msg
          /\ pc' = pc \/ pc' = "sigio"
      BY <2>1 DEF Arrive, RaiseIo, logVars
    <3>3. CASE pc' = pc
      <4>1. InFlight' = InFlight
        BY <3>2, <3>3
      <4>2. \A f \in Seq(Datagrams) :
              logged \o f \o Append(queue, d) = Append(logged \o f \o queue, d)
        BY ArrivalExtends
      <4>3. logged \o InFlight \o Append(queue, d)
              = Append(logged \o InFlight \o queue, d)
        BY <3>1, <4>2, Zenon
      <4> QED
        BY <3>2, <3>3, <4>1, <4>3
    <3>4. CASE pc' = "sigio"
      BY <3>2, <3>4
    <3> QED
      BY <3>2, <3>3, <3>4
  <2>2. CASE (Sigterm \/ Stray) /\ UNCHANGED logVars
    BY <2>2 DEF Sigterm, Stray, logVars
  <2>3. CASE Wait
    BY <2>3 DEF Wait, DaemonWait
  <2>4. CASE SkipEmpty \/ WriteLine
    <3>1. logged' = Append(logged, msg) /\ pc = "handle" /\ pc' = "wait"
          /\ queue' = queue /\ arrived' = arrived
      BY <2>4 DEF SkipEmpty, WriteLine, Handled
    <3>2. Append(logged, msg) \o <<>> \o queue = logged \o <<msg>> \o queue
      BY HandleMoves
    <3> QED
      BY <3>1, <3>2
  <2>5. CASE WriteFails
    BY <2>5 DEF WriteFails, Handled
  <2>6. CASE OtherSteps
    <3>1. CASE Recv
      <4>1. /\ logged' = logged /\ arrived' = arrived /\ queue # <<>>
            /\ queue' = Tail(queue) /\ msg' = Head(queue)
            /\ pc = "recv" /\ pc' = "handle"
        BY <2>6, <3>1 DEF Recv, OtherSteps, logVars
      <4>2. logged \o <<Head(queue)>> \o Tail(queue) = logged \o <<>> \o queue
        BY <4>1, ReceiveMoves
      <4> QED
        BY <4>1, <4>2
    <3>2. CASE InitCall
      BY <2>6, <3>2 DEF InitCall, OtherSteps, logVars
    <3>3. CASE InitFails \/ RecvEmpty("wait") \/ RecvFails \/ Close
      BY <2>6, <3>3 DEF InitFails, RecvEmpty, RecvFails, Close, OtherSteps, logVars
    <3> QED
      BY <2>6, <3>1, <3>2, <3>3 DEF OtherSteps
  <2>7. CASE ReadChunk \/ ReadFails \/ UNCHANGED syslogdVars
    BY <2>7 DEF ReadChunk, ReadFails, syslogdVars, daemonVars, logVars
  <2> QED
    BY <2>1, <2>2, <2>3, <2>4, <2>5, <2>6, <2>7
       DEF SyslogdNext, SyslogdProcess, Kernel
<1> QED
  BY <1>1, <1>2, SyslogdIsDaemon, DaemonTypeCorrect, PTL DEF SyslogdSafety

(* The handled messages, the one in hand and the queue always make up what *)
(* arrived, in its order (syslogd.c:95-129).                               *)
THEOREM SyslogdNothingLost == SyslogdSafety => []NothingLost
<1>1. LoggedOK => NothingLost
  BY DEF LoggedOK
<1> QED
  BY <1>1, LoggedAlways, PTL

-----------------------------------------------------------------------------
(* Refinement: a write of a whole line, and the skip of an empty message,  *)
(* record the oldest message that is not in the log; leaving the loop for  *)
(* good stops the service; all else but an arrival is invisible to it.     *)
THEOREM SyslogdIsLogService ==
  ASSUME QueueMax + MaxStrays <= SigPendingMax
  PROVE  SyslogdSafety => ImplementsLogService
<1> USE DEF Service!Send, Service!Record, Service!Stop, Service!LogServiceNext,
            Service!logServiceVars
<1>1. SyslogdInit => Service!LogServiceInit
  BY DEF SyslogdInit, DaemonInit, Service!LogServiceInit, Alive, Gone
<1>2. /\ DaemonTypeOK /\ LoggedOK /\ NoSignalDeath' /\ [SyslogdNext]_syslogdVars
      => [Service!LogServiceNext]_Service!logServiceVars
  <2> SUFFICES ASSUME DaemonTypeOK, LoggedOK, NoSignalDeath',
                      [SyslogdNext]_syslogdVars
               PROVE  [Service!LogServiceNext]_Service!logServiceVars
    OBVIOUS
  <2> USE DEF Alive, Gone
  <2>1. ASSUME NEW d \in Datagrams, Arrive(d), UNCHANGED logVars
        PROVE  Service!Send(d)
    <3>1. pc' = pc
      BY <2>1 DEF Arrive, RaiseIo, NoSignalDeath
    <3> QED
      BY <2>1, <3>1 DEF Arrive, logVars
  <2>2. CASE Sigterm /\ UNCHANGED logVars
    <3>1. UNCHANGED <<arrived, logged>> /\ pc \notin Gone
      BY <2>2 DEF Sigterm, logVars
    <3>2. pc' = pc \/ pc' = "killed"
      BY <2>2 DEF Sigterm
    <3> QED
      BY <3>1, <3>2
  <2>3. CASE Stray /\ UNCHANGED logVars
    BY <2>3 DEF Stray, logVars
  <2>4. CASE Wait
    BY <2>4 DEF Wait, DaemonWait
  <2>5. CASE SkipEmpty \/ WriteLine
    <3>1. logged' = Append(logged, msg) /\ pc = "handle" /\ pc' = "wait"
          /\ arrived' = arrived
      BY <2>5 DEF SkipEmpty, WriteLine, Handled
    <3>2. arrived = logged \o <<msg>> \o queue
      BY <3>1 DEF LoggedOK, NothingLost, InFlight, InLoop
    <3>3. Len(logged) < Len(arrived) /\ arrived[Len(logged) + 1] = msg
      BY <3>2, NextToHandle DEF LoggedOK, DaemonTypeOK
    <3> QED
      BY <3>1, <3>3
  <2>6. CASE WriteFails
    BY <2>6 DEF WriteFails, Handled
  <2>7. CASE OtherSteps
    <3>1. CASE Recv \/ InitFails \/ RecvEmpty("wait") \/ RecvFails
      BY <2>7, <3>1 DEF OtherSteps, Recv, InitFails, RecvEmpty, RecvFails, logVars
    <3>2. CASE InitCall
      BY <2>7, <3>2 DEF OtherSteps, InitCall, logVars
    <3>3. CASE Close
      BY <2>7, <3>3 DEF OtherSteps, Close, logVars
    <3> QED
      BY <2>7, <3>1, <3>2, <3>3 DEF OtherSteps
  <2>8. CASE ReadChunk \/ ReadFails \/ UNCHANGED syslogdVars
    BY <2>8 DEF ReadChunk, ReadFails, syslogdVars, daemonVars, logVars
  <2> QED
    BY <2>1, <2>2, <2>3, <2>4, <2>5, <2>6, <2>7, <2>8
       DEF SyslogdNext, SyslogdProcess, Kernel
<1> QED
  BY <1>1, <1>2, SyslogdIsDaemon, DaemonTypeCorrect, LoggedAlways,
     DaemonNoSignalDeath, PTL
     DEF SyslogdSafety, ImplementsLogService, Service!LogServiceSpec

-----------------------------------------------------------------------------
(* The XOR cipher of the log.                                              *)
Bytes == 0..255

(* XOR with the same value twice changes nothing.                          *)
LEMMA XorTwice == ASSUME NEW b \in Bytes PROVE Xor(b) \in Bytes /\ Xor(Xor(b)) = b
<1> DEFINE high == b \div 16
           low == (b % 16)
           low2 == low + (IF (low % 2) = 0 THEN 1 ELSE 0 - 1)
<1>1. b \in 0..255
  BY DEF Bytes
<1>2. high \in 0..15 /\ low \in 0..15 /\ b = 16 * high + low
  BY <1>1
<1>3. (b % 2) = (low % 2)
  <2>1. \A h, l \in Nat : ((16 * h + l) % 2) = (l % 2)
    OBVIOUS
  <2> HIDE DEF low, high
  <2> QED
    BY <1>1, <1>2, <2>1
<1>4. Xor(b) = 16 * (15 - high) + low2
  <2>1. Xor(b) = 16 * (15 - high) + low + (IF (low % 2) = 0 THEN 1 ELSE 0 - 1)
    BY <1>3, Zenon DEF Xor
  <2> HIDE DEF low, high
  <2> QED
    BY <1>2, <2>1
<1>5. low2 \in 0..15
  BY <1>2
<1>6. Xor(b) \in 0..255 /\ Xor(b) \div 16 = 15 - high /\ (Xor(b) % 16) = low2
      /\ (Xor(b) % 2) = (low2 % 2)
  <2> HIDE DEF low2, high
  <2> QED
    BY <1>2, <1>4, <1>5
<1>7. low2 + (IF (low2 % 2) = 0 THEN 1 ELSE 0 - 1) = low
  BY <1>2
<1>8. Xor(Xor(b)) = 16 * (15 - (15 - high)) + low2 + (IF (low2 % 2) = 0 THEN 1 ELSE 0 - 1)
  BY <1>6 DEF Xor
<1>9. Xor(Xor(b)) = b
  <2> HIDE DEF low2, high
  <2> QED
    BY <1>2, <1>5, <1>7, <1>8
<1> QED
  BY <1>6, <1>9 DEF Bytes

LEMMA XorSequence ==
  ASSUME NEW s \in Seq(Bytes)
  PROVE  /\ XorAll(s) \in Seq(Bytes) /\ Len(XorAll(s)) = Len(s)
         /\ \A i \in 1..Len(s) : XorAll(s)[i] = Xor(s[i])
         /\ XorAll(XorAll(s)) = s
<1>1. \A i \in 1..Len(s) : s[i] \in Bytes
  OBVIOUS
<1>2. XorAll(s) = [i \in 1..Len(s) |-> Xor(s[i])]
  BY DEF XorAll
<1>3. \A i \in 1..Len(s) : Xor(s[i]) \in Bytes
  BY <1>1, XorTwice
<1>4. XorAll(s) \in Seq(Bytes) /\ Len(XorAll(s)) = Len(s)
  BY <1>2, <1>3
<1>5. \A i \in 1..Len(s) : Xor(XorAll(s)[i]) = s[i]
  BY <1>1, <1>2, XorTwice
<1>6. XorAll(XorAll(s)) = [i \in 1..Len(s) |-> Xor(XorAll(s)[i])]
  BY <1>4 DEF XorAll
<1>7. XorAll(XorAll(s)) = [i \in 1..Len(s) |-> s[i]]
  BY <1>5, <1>6
<1> QED
  BY <1>2, <1>4, <1>7

LEMMA ConcatAt ==
  ASSUME NEW S, NEW s \in Seq(S), NEW t \in Seq(S)
  PROVE  /\ s \o t \in Seq(S) /\ Len(s \o t) = Len(s) + Len(t)
         /\ \A i \in 1..Len(s) + Len(t) :
              (s \o t)[i] = IF i <= Len(s) THEN s[i] ELSE t[i - Len(s)]
  OBVIOUS

LEMMA XorConcat ==
  ASSUME NEW s \in Seq(Bytes), NEW t \in Seq(Bytes)
  PROVE  XorAll(s \o t) = XorAll(s) \o XorAll(t)
<1> DEFINE u == s \o t
           v == XorAll(s) \o XorAll(t)
<1>1. /\ u \in Seq(Bytes) /\ Len(u) = Len(s) + Len(t) /\ Len(s) \in Nat /\ Len(t) \in Nat
      /\ \A i \in 1..Len(s) + Len(t) : u[i] = IF i <= Len(s) THEN s[i] ELSE t[i - Len(s)]
  BY ConcatAt
<1>2. /\ XorAll(s) \in Seq(Bytes) /\ Len(XorAll(s)) = Len(s)
      /\ \A i \in 1..Len(s) : XorAll(s)[i] = Xor(s[i])
  BY XorSequence
<1>3. /\ XorAll(t) \in Seq(Bytes) /\ Len(XorAll(t)) = Len(t)
      /\ \A i \in 1..Len(t) : XorAll(t)[i] = Xor(t[i])
  BY XorSequence
<1>4. /\ v \in Seq(Bytes) /\ Len(v) = Len(s) + Len(t)
      /\ \A i \in 1..Len(s) + Len(t) :
           v[i] = IF i <= Len(s) THEN XorAll(s)[i] ELSE XorAll(t)[i - Len(s)]
  <2> DEFINE x == XorAll(s)
             y == XorAll(t)
  <2>1. x \in Seq(Bytes) /\ y \in Seq(Bytes)
    BY <1>2, <1>3
  <2> HIDE DEF x, y
  <2>2. /\ x \o y \in Seq(Bytes) /\ Len(x \o y) = Len(x) + Len(y)
        /\ \A i \in 1..Len(x) + Len(y) :
             (x \o y)[i] = IF i <= Len(x) THEN x[i] ELSE y[i - Len(x)]
    BY <2>1, ConcatAt
  <2> QED
    BY <1>2, <1>3, <2>2, Zenon DEF x, y
<1> HIDE DEF u, v
<1>5. /\ XorAll(u) \in Seq(Bytes) /\ Len(XorAll(u)) = Len(u)
      /\ \A i \in 1..Len(u) : XorAll(u)[i] = Xor(u[i])
  BY <1>1, XorSequence
<1>6. ASSUME NEW i \in 1..Len(u) PROVE XorAll(u)[i] = v[i]
  <2>1. i \in 1..Len(s) + Len(t) /\ XorAll(u)[i] = Xor(u[i])
    BY <1>1, <1>5
  <2>2. CASE i <= Len(s)
    <3>1. i \in 1..Len(s)
      BY <2>1, <2>2, <1>1
    <3>2. u[i] = s[i] /\ v[i] = XorAll(s)[i]
      BY <2>1, <2>2, <1>1, <1>4
    <3>3. XorAll(s)[i] = Xor(s[i])
      BY <3>1, <1>2
    <3> QED
      BY <2>1, <3>2, <3>3, Zenon
  <2>3. CASE ~(i <= Len(s))
    <3>1. i - Len(s) \in 1..Len(t)
      BY <2>1, <2>3, <1>1
    <3>2. u[i] = t[i - Len(s)] /\ v[i] = XorAll(t)[i - Len(s)]
      BY <2>1, <2>3, <1>1, <1>4
    <3>3. XorAll(t)[i - Len(s)] = Xor(t[i - Len(s)])
      BY <3>1, <1>3
    <3> QED
      BY <2>1, <3>2, <3>3, Zenon
  <2> QED
    BY <2>2, <2>3
<1>7. XorAll(u) = v
  BY <1>1, <1>4, <1>5, <1>6
<1> QED
  BY <1>7 DEF u, v

(* Beginnings of sequences.                                                *)
LEMMA PrefixGrows ==
  ASSUME NEW S, NEW s \in Seq(S), NEW t \in Seq(S), NEW u \in Seq(S), IsPrefix(s, t)
  PROVE  IsPrefix(s, t \o u)
  BY DEF IsPrefix

LEMMA PrefixChunk ==
  ASSUME NEW S, NEW s \in Seq(S), NEW t \in Seq(S), IsPrefix(s, t),
         NEW n \in 0..Len(t) - Len(s)
  PROVE  IsPrefix(s \o SubSeq(t, Len(s) + 1, Len(s) + n), t)
<1>1. Len(s) <= Len(t) /\ \A i \in 1..Len(s) : s[i] = t[i]
  <2>1. Len(s) <= Len(t) /\ SubSeq(s, 1, Len(s)) = SubSeq(t, 1, Len(s))
    BY DEF IsPrefix
  <2>2. \A i \in 1..Len(s) : SubSeq(s, 1, Len(s))[i] = s[i] /\ SubSeq(t, 1, Len(s))[i] = t[i]
    BY <2>1
  <2> QED
    BY <2>1, <2>2
<1> DEFINE c == s \o SubSeq(t, Len(s) + 1, Len(s) + n)
<1>2. c \in Seq(S) /\ Len(c) = Len(s) + n /\ \A i \in 1..Len(s) + n : c[i] = t[i]
  BY <1>1
<1>3. SubSeq(c, 1, Len(c)) = SubSeq(t, 1, Len(c))
  <2> HIDE DEF c
  <2> QED
    BY <1>2
<1> QED
  BY <1>2, <1>3 DEF IsPrefix

LEMMA PrefixOfItself ==
  ASSUME NEW S, NEW s \in Seq(S)
  PROVE  IsPrefix(s, s)
  BY DEF IsPrefix

LEMMA PrefixOfAll ==
  ASSUME NEW S, NEW s \in Seq(S), NEW t \in Seq(S), IsPrefix(s, t), Len(s) = Len(t)
  PROVE  s = t
<1>1. SubSeq(s, 1, Len(s)) = s /\ SubSeq(t, 1, Len(t)) = t
  OBVIOUS
<1> QED
  BY <1>1 DEF IsPrefix

LEMMA MinOfTwo ==
  ASSUME NEW a \in Nat, NEW b \in Nat
  PROVE  Min({a, b}) = IF a <= b THEN a ELSE b
  BY DEF Min

-----------------------------------------------------------------------------
(* What WriteLine appends to the log is the line of the message.           *)
LEMMA FrameIsLine ==
  ASSUME NEW m \in Seq(Bytes), m # <<>>
  PROVE  /\ Frame(m) \in Seq(Bytes) /\ Frame(m) # <<>> /\ Last(Frame(m)) = NewLine
         /\ LineOf(m) = Frame(m)
<1> DEFINE text == Received(m)
<1>1. Len(m) \in Nat \ {0} /\ MessageMax \in Nat \ {0}
  BY SyslogdAssumption DEF SyslogdAssumption
<1>2. text \in Seq(Bytes) /\ text # <<>>
  BY <1>1 DEF Received
<1>3. text = SubSeq(m, 1, Min({MessageMax, Len(m)}))
  BY <1>1, MinOfTwo DEF Received
<1>4. LineOf(m) = Append(IF Last(text) = NewLine THEN Front(text) ELSE text, NewLine)
  BY <1>3 DEF LineOf
<1>5. Frame(m) = IF Last(text) = NewLine THEN text ELSE Append(text, NewLine)
  BY DEF Frame
<1> HIDE DEF text
<1>6. NewLine \in Bytes
  BY DEF NewLine, Bytes
<1>7. CASE Last(text) = NewLine
  <2>1. Append(SubSeq(text, 1, Len(text) - 1), text[Len(text)]) = text
    BY <1>2
  <2> QED
    BY <1>2, <1>4, <1>5, <1>7, <2>1 DEF Last, Front
<1>8. CASE Last(text) # NewLine
  BY <1>2, <1>4, <1>5, <1>6, <1>8 DEF Last
<1> QED
  BY <1>7, <1>8

(* Induction on the natural numbers, stated of a set.                      *)
LEMMA Induction ==
  ASSUME NEW T \in SUBSET Nat, 0 \in T, \A n \in T : n + 1 \in T
  PROVE  T = Nat
<1> DEFINE R == {ss \in Nat \X Nat : ss[1] < ss[2]}
           Others == Nat \ T
<1>1. SUFFICES ASSUME Others # {} PROVE FALSE
  OBVIOUS
<1>2. IsWellFoundedOn(R, Nat)
  BY NatLessThanWellFounded DEF OpToRel
<1>3. \E x \in Others : \A y \in Others : <<y, x>> \notin R
  <2>1. Others \subseteq Nat
    OBVIOUS
  <2> HIDE DEF R, Others
  <2> QED
    BY <1>1, <1>2, <2>1, WFMin
<1>4. PICK x \in Others : \A y \in Others : <<y, x>> \notin R
  BY <1>3
<1>5. x \in Nat /\ x - 1 \in Nat
  BY <1>4
<1>6. <<x - 1, x>> \in R
  BY <1>5
<1>7. x - 1 \notin Others
  <2> HIDE DEF R
  <2> QED
    BY <1>4, <1>6
<1>8. (x - 1) + 1 \in T
  BY <1>5, <1>7
<1> QED
  BY <1>5, <1>8

(* The equation by which FlattenSeq defines its recursive function, up to  *)
(* n: some function satisfies it, the same values for all of them, so that *)
(* FlattenSeq is what its definition says of it.                           *)
Flattens(f, ss, n) ==
  /\ f = [i \in 1..n |-> f[i]]
  /\ \A i \in 1..n : f[i] = IF i = 1 THEN ss[i] ELSE f[i - 1] \o ss[i]

LEMMA FlattenExists == ASSUME NEW ss PROVE \A n \in Nat : \E f : Flattens(f, ss, n)
<1> DEFINE T == {n \in Nat : \E f : Flattens(f, ss, n)}
<1>1. 0 \in T
  <2>1. Flattens(<<>>, ss, 0)
    BY DEF Flattens
  <2> QED
    BY <2>1
<1>2. ASSUME NEW n \in T PROVE n + 1 \in T
  <2>1. PICK f : Flattens(f, ss, n)
    OBVIOUS
  <2> DEFINE g == [i \in 1..n + 1 |-> IF i = 1 THEN ss[i] ELSE f[i - 1] \o ss[i]]
  <2>2. DOMAIN g = 1..n + 1
    OBVIOUS
  <2>3. ASSUME NEW i \in 1..n + 1, i # 1 PROVE g[i - 1] = f[i - 1]
    <3>1. i - 1 \in 1..n /\ i - 1 \in 1..n + 1
      BY <2>3
    <3> QED
      BY <2>1, <3>1 DEF Flattens
  <2>4. \A i \in 1..n + 1 : g[i] = IF i = 1 THEN ss[i] ELSE g[i - 1] \o ss[i]
    BY <2>3
  <2>5. Flattens(g, ss, n + 1)
    <3>1. g = [i \in 1..n + 1 |-> g[i]]
      BY <2>2
    <3> HIDE DEF g
    <3> QED
      BY <2>2, <2>4, <3>1 DEF Flattens
  <2> QED
    BY <2>5
<1>3. T = Nat
  <2>1. T \in SUBSET Nat
    OBVIOUS
  <2> HIDE DEF T
  <2> QED
    BY <1>1, <1>2, <2>1, Induction
<1> QED
  BY <1>3

LEMMA FlattenIs ==
  ASSUME NEW S, NEW ss \in Seq(S), ss # <<>>
  PROVE  \E f : Flattens(f, ss, Len(ss)) /\ FlattenSeq(ss) = f[Len(ss)]
<1> DEFINE f == CHOOSE f : f = [i \in 1..Len(ss) |-> IF i = 1 THEN ss[i] ELSE f[i - 1] \o ss[i]]
<1>1. Len(ss) \in Nat /\ Len(ss) # 0
  OBVIOUS
<1>2. PICK g : Flattens(g, ss, Len(ss))
  BY <1>1, FlattenExists
<1>3. g = [i \in 1..Len(ss) |-> IF i = 1 THEN ss[i] ELSE g[i - 1] \o ss[i]]
  BY <1>2 DEF Flattens
<1>4. f = [i \in 1..Len(ss) |-> IF i = 1 THEN ss[i] ELSE f[i - 1] \o ss[i]]
  BY <1>3, Zenon
<1>5. FlattenSeq(ss) = f[Len(ss)]
  BY <1>1, Zenon DEF FlattenSeq
<1>6. Flattens(f, ss, Len(ss))
  <2> HIDE DEF f
  <2> QED
    BY <1>4, Zenon DEF Flattens
<1> QED
  BY <1>5, <1>6

LEMMA FlattenAppend ==
  ASSUME NEW S, NEW ss \in Seq(Seq(S)), NEW s \in Seq(S)
  PROVE  FlattenSeq(Append(ss, s)) = FlattenSeq(ss) \o s
<1> DEFINE U == Seq(S)
           tt == Append(ss, s)
           n == Len(ss)
<1>1. s = <<>> \o s
  OBVIOUS
<1>2. ss \in Seq(U) /\ s \in U
  OBVIOUS
<1> HIDE DEF U
<1>3. /\ tt \in Seq(U) /\ n \in Nat /\ Len(tt) = n + 1 /\ tt # <<>>
      /\ tt[n + 1] = s /\ \A i \in 1..n : tt[i] = ss[i]
  BY <1>2
<1>4. PICK g : Flattens(g, tt, n + 1) /\ FlattenSeq(tt) = g[n + 1]
  BY <1>3, <1>2, FlattenIs
<1>5. CASE ss = <<>>
  <2>1. FlattenSeq(ss) = <<>>
    BY <1>5 DEF FlattenSeq
  <2>2. n = 0 /\ g[1] = s
    BY <1>3, <1>4, <1>5 DEF Flattens
  <2> QED
    BY <1>4, <1>1, <2>1, <2>2
<1>6. CASE ss # <<>>
  <2>1. PICK f : Flattens(f, ss, Len(ss)) /\ FlattenSeq(ss) = f[n]
    BY <1>6, <1>2, FlattenIs
  <2> DEFINE T == {k \in Nat : k \in 1..n => g[k] = f[k]}
  <2>2. T = Nat
    <3>1. 0 \in T
      OBVIOUS
    <3>2. ASSUME NEW k \in T PROVE k + 1 \in T
      <4>1. CASE k + 1 \in 1..n
        <5>1. k + 1 \in 1..n + 1 /\ tt[k + 1] = ss[k + 1] /\ (k + 1) - 1 = k
          BY <1>3, <4>1
        <5>2. /\ g[k + 1] = IF k + 1 = 1 THEN tt[k + 1] ELSE g[(k + 1) - 1] \o tt[k + 1]
              /\ f[k + 1] = IF k + 1 = 1 THEN ss[k + 1] ELSE f[(k + 1) - 1] \o ss[k + 1]
          BY <1>4, <2>1, <4>1, <5>1 DEF Flattens
        <5>3. k # 0 => g[k] = f[k]
          BY <1>3, <4>1
        <5> QED
          BY <5>1, <5>2, <5>3
      <4> QED
        BY <4>1
    <3> HIDE DEF T
    <3> QED
      BY <3>1, <3>2, Induction DEF T
  <2>3. n \in 1..n
    BY <1>3, <1>6
  <2>4. g[n] = f[n]
    BY <1>3, <2>2, <2>3
  <2>5. n + 1 \in 1..n + 1 /\ n + 1 # 1 /\ (n + 1) - 1 = n
    BY <1>3, <2>3
  <2>6. g[n + 1] = g[n] \o s
    BY <1>3, <1>4, <2>5 DEF Flattens
  <2> QED
    BY <1>4, <2>1, <2>4, <2>6
<1> QED
  BY <1>5, <1>6

(* The lines of a sequence of messages.                                    *)
Lines(messages) == FlattenSeq([i \in DOMAIN messages |-> LineOf(messages[i])])

LEMMA DatagramBytes == \A m \in Datagrams : m \in Seq(Bytes)
  BY SyslogdAssumption DEF SyslogdAssumption, Bytes

LEMMA LineBytes == ASSUME NEW m \in Datagrams PROVE LineOf(m) \in Seq(Bytes)
<1>1. CASE m = <<>>
  BY <1>1 DEF LineOf
<1>2. CASE m # <<>>
  BY <1>2, DatagramBytes, FrameIsLine
<1> QED
  BY <1>1, <1>2

LEMMA LinesAppend ==
  ASSUME NEW messages \in Seq(Datagrams), NEW m \in Datagrams
  PROVE  Lines(Append(messages, m)) = Lines(messages) \o LineOf(m)
<1> DEFINE lines == [i \in DOMAIN messages |-> LineOf(messages[i])]
           more == Append(messages, m)
           B == Seq(Bytes)
<1>1. \A k \in Datagrams : LineOf(k) \in B
  BY LineBytes
<1> HIDE DEF B
<1>2. lines \in Seq(B) /\ Len(lines) = Len(messages)
  BY <1>1
<1>3. [i \in DOMAIN more |-> LineOf(more[i])] = Append(lines, LineOf(m))
  <2>1. DOMAIN more = 1..Len(messages) + 1
    OBVIOUS
  <2>2. \A i \in 1..Len(messages) : more[i] = messages[i]
    OBVIOUS
  <2>3. more[Len(messages) + 1] = m
    OBVIOUS
  <2> DEFINE rest == Append(lines, LineOf(m))
  <2>4. rest = [i \in 1..Len(messages) + 1 |-> rest[i]]
    BY <1>1, <1>2
  <2>5. \A i \in 1..Len(messages) + 1 :
          rest[i] = IF i = Len(messages) + 1 THEN LineOf(m) ELSE lines[i]
    BY <1>1, <1>2
  <2>6. \A i \in 1..Len(messages) + 1 : rest[i] = LineOf(more[i])
    BY <2>2, <2>3, <2>5
  <2> HIDE DEF rest, more
  <2>7. rest = [i \in 1..Len(messages) + 1 |-> LineOf(more[i])]
    BY <2>4, <2>6
  <2> QED
    BY <2>1, <2>7 DEF rest
<1>4. lines \in Seq(Seq(Bytes)) /\ LineOf(m) \in Seq(Bytes)
  BY <1>1, <1>2 DEF B
<1> HIDE DEF lines
<1>5. FlattenSeq(Append(lines, LineOf(m))) = FlattenSeq(lines) \o LineOf(m)
  BY <1>4, FlattenAppend
<1> QED
  BY <1>3, <1>5, Zenon DEF Lines, lines

(* What the log is to say once they are logged.                            *)
Text(messages) == OldText \o Lines(messages)

LEMMA ConcatThree ==
  ASSUME NEW S, NEW s \in Seq(S), NEW t \in Seq(S), NEW u \in Seq(S)
  PROVE  s \o (t \o u) = (s \o t) \o u /\ t \o u \in Seq(S) /\ s \o <<>> = s
  OBVIOUS

LEMMA OldBytes == OldText \in Seq(Bytes)
  BY SyslogdAssumption DEF SyslogdAssumption, Bytes

LEMMA TextAppend ==
  ASSUME NEW messages \in Seq(Datagrams), NEW m \in Datagrams, Lines(messages) \in Seq(Bytes)
  PROVE  /\ Text(Append(messages, m)) = Text(messages) \o LineOf(m)
         /\ Lines(Append(messages, m)) \in Seq(Bytes)
<1>1. LineOf(m) \in Seq(Bytes) /\ Lines(Append(messages, m)) = Lines(messages) \o LineOf(m)
  BY LineBytes, LinesAppend
<1>2. /\ OldText \o (Lines(messages) \o LineOf(m)) = (OldText \o Lines(messages)) \o LineOf(m)
      /\ Lines(messages) \o LineOf(m) \in Seq(Bytes)
  BY <1>1, OldBytes, ConcatThree
<1> QED
  BY <1>1, <1>2, Zenon DEF Text

-----------------------------------------------------------------------------
(* The inductive invariant.  Until syslogd fails the log is the lines and  *)
(* ends where a line ends; the exit code stays EXIT_FAILURE until SIGTERM, *)
(* so that giving up in the middle of a line is a failure.                 *)
LogOK ==
  /\ log \in Seq(Bytes) /\ logged \in Seq(Datagrams)
  /\ Lines(logged) \in Seq(Bytes) /\ Text(logged) \in Seq(Bytes)
  /\ Text(logged) = OldText \/ Last(Text(logged)) = NewLine
  /\ IsPrefix(Text(logged), XorAll(log))
  /\ XorAll(log) # Text(logged) => Failed
  /\ pc \in {"init"} \cup InLoop => exit_code = "EXIT_FAILURE"

ReaderOK == shown \in Seq(Bytes) /\ ReaderShowsLines

LogInv == LogOK /\ ReaderOK

(* What was logged before a failure is final.                              *)
LEMMA FailureIsFinal ==
  LogOK /\ [SyslogdNext]_syslogdVars => (Failed => Failed')
<1> SUFFICES ASSUME LogOK, [SyslogdNext]_syslogdVars, Failed PROVE Failed'
  OBVIOUS
<1> USE DEF Failed, Gone, InLoop, Alive
<1>1. pc \in {"cleanup", "exited", "killed", "sigio"} /\ exit_code = "EXIT_FAILURE"
  OBVIOUS
<1>2. ASSUME NEW d \in Datagrams, Arrive(d), UNCHANGED logVars PROVE Failed'
  BY <1>1, <1>2 DEF Arrive, RaiseIo, logVars
<1>3. CASE (Sigterm \/ Stray) /\ UNCHANGED logVars
  BY <1>1, <1>3 DEF Sigterm, Stray, logVars
<1>4. CASE OtherSteps
  BY <1>1, <1>4 DEF OtherSteps, InitCall, InitFails, Recv, RecvEmpty, RecvFails, Close, logVars
<1>5. CASE Wait \/ SkipEmpty \/ WriteLine \/ WriteFails
  BY <1>1, <1>5 DEF Wait, DaemonWait, SkipEmpty, WriteLine, WriteFails, Handled
<1>6. CASE ReadChunk \/ ReadFails \/ UNCHANGED syslogdVars
  BY <1>1, <1>6 DEF ReadChunk, ReadFails, syslogdVars, daemonVars, logVars
<1> QED
  BY <1>2, <1>3, <1>4, <1>5, <1>6 DEF SyslogdNext, SyslogdProcess, Kernel

(* Steps that leave the log and the messages in it alone.                  *)
LEMMA LogUntouched ==
  ASSUME LogOK, Failed => Failed', UNCHANGED <<log, logged>>,
         pc' \in {"init"} \cup InLoop => pc \in {"init"} \cup InLoop /\ exit_code' = exit_code
  PROVE  LogOK'
  BY DEF LogOK, InLoop

(* Up to a failure the log, decoded, is the lines; text may be added to it *)
(* if syslogd fails with that, or if it is the line of a message that is   *)
(* recorded with it.                                                       *)
LEMMA LogGrows ==
  ASSUME LogOK, NEW text \in Seq(Bytes),
         log' = log \o XorAll(text),
         pc = "handle",
         \/ /\ Failed' /\ pc' = "cleanup"
            /\ UNCHANGED logged
         \/ /\ msg \in Datagrams /\ msg # <<>> /\ text = Frame(msg)
            /\ logged' = Append(logged, msg)
            /\ exit_code' = exit_code
  PROVE  LogOK' /\ XorAll(log') = XorAll(log) \o text
<1> DEFINE lines == Text(logged)
           decoded == XorAll(log)
<1>1. XorAll(text) \in Seq(Bytes) /\ XorAll(XorAll(text)) = text
  BY XorSequence
<1>2. log' \in Seq(Bytes)
  BY <1>1 DEF LogOK
<1>3. XorAll(log') = decoded \o text
  <2>1. log \in Seq(Bytes)
    BY DEF LogOK
  <2>2. XorAll(log \o XorAll(text)) = decoded \o XorAll(XorAll(text))
    BY <1>1, <2>1, XorConcat
  <2> QED
    BY <1>1, <2>2
<1>4. decoded \in Seq(Bytes) /\ lines \in Seq(Bytes) /\ IsPrefix(lines, decoded)
  BY XorSequence DEF LogOK
<1>5. ASSUME Failed', pc' = "cleanup", UNCHANGED logged PROVE LogOK'
  <2>1. IsPrefix(lines, decoded \o text)
    BY <1>4, PrefixGrows
  <2>2. Text(logged)' = lines /\ Lines(logged)' = Lines(logged)
        /\ XorAll(log)' = decoded \o text
    BY <1>3, <1>5
  <2>3. pc' \notin {"init"} \cup InLoop
    BY <1>5 DEF InLoop
  <2> HIDE DEF lines, decoded
  <2> QED
    BY <1>2, <1>3, <1>5, <2>1, <2>2, <2>3 DEF LogOK, lines
<1>6. ASSUME msg \in Datagrams, msg # <<>>, text = Frame(msg),
             logged' = Append(logged, msg), exit_code' = exit_code
      PROVE  LogOK'
  <2>1. decoded = lines /\ exit_code = "EXIT_FAILURE"
    BY DEF LogOK, Failed, Gone, InLoop
  <2>2. LineOf(msg) = text /\ text # <<>> /\ Last(text) = NewLine
    BY <1>6, DatagramBytes, FrameIsLine
  <2>3. Text(logged') = lines \o text /\ Lines(logged') \in Seq(Bytes)
    BY <1>6, <2>2, TextAppend DEF LogOK
  <2>4. /\ lines \o text \in Seq(Bytes) /\ lines \o text # <<>>
        /\ Last(lines \o text) = NewLine
    <3> HIDE DEF lines
    <3> QED
      BY <1>4, <2>2 DEF Last
  <2>5. IsPrefix(lines \o text, lines \o text)
    BY <2>4, PrefixOfItself
  <2>6. XorAll(log') = Text(logged')
    BY <1>3, <2>1, <2>3
  <2>7. logged' \in Seq(Datagrams)
    BY <1>6 DEF LogOK
  <2> HIDE DEF lines, decoded
  <2> QED
    BY <1>2, <1>3, <1>6, <2>1, <2>3, <2>4, <2>5, <2>6, <2>7 DEF LogOK
<1> QED
  BY <1>3, <1>5, <1>6

(* A write that stops within a line is followed by a failure.              *)
LEMMA PartFails ==
  ASSUME LogOK, DaemonTypeOK, WriteFails
  PROVE  \E text \in Seq(Bytes) :
           /\ log' = log \o XorAll(text) /\ pc = "handle" /\ pc' = "cleanup"
           /\ Failed' /\ UNCHANGED <<logged, readerVars>>
<1>1. msg \in Seq(Bytes) /\ msg # <<>> /\ pc = "handle" /\ pc' = "cleanup"
      /\ exit_code' = exit_code /\ UNCHANGED <<logged, readerVars>>
  BY DatagramBytes DEF WriteFails, Handled, DaemonTypeOK
<1>2. Failed'
  BY <1>1 DEF Failed, LogOK, InLoop
<1>3. PICK n \in 0..Len(Frame(msg)) - 1 : log' = log \o XorAll(SubSeq(Frame(msg), 1, n))
  BY DEF WriteFails
<1>4. Frame(msg) \in Seq(Bytes)
  BY <1>1, FrameIsLine
<1>5. SubSeq(Frame(msg), 1, n) \in Seq(Bytes)
  BY <1>3, <1>4
<1> QED
  BY <1>1, <1>2, <1>3, <1>5

(* What was shown stays the beginning of a log that only grows.            *)
LEMMA ShownStays ==
  ASSUME LogInv, Failed => Failed', UNCHANGED readerVars,
         \/ log' = log
         \/ \E text \in Seq(Bytes) : XorAll(log') = XorAll(log) \o text
  PROVE  ReaderOK'
<1>1. shown \in Seq(Bytes) /\ XorAll(log) \in Seq(Bytes) /\ IsPrefix(shown, XorAll(log))
  BY XorSequence DEF LogInv, LogOK, ReaderOK, ReaderShowsLines
<1>2. UNCHANGED <<shown, reader>>
  BY DEF readerVars
<1>3. IsPrefix(shown, XorAll(log'))
  <2>1. \A text \in Seq(Bytes) : IsPrefix(shown, XorAll(log) \o text)
    BY <1>1, PrefixGrows
  <2> QED
    BY <1>1, <2>1
<1>4. reader = "done" => shown = OldText \/ Last(shown) = NewLine \/ Failed'
  BY DEF LogInv, ReaderOK, ReaderShowsLines
<1> QED
  BY <1>1, <1>2, <1>3, <1>4 DEF ReaderOK, ReaderShowsLines

(* However much of the next chunk is written out.                          *)
LEMMA ShowsKeeps ==
  ASSUME LogInv, NEW n \in 0..Len(log) - Len(shown), Shows(n)
  PROVE  /\ shown' \in Seq(Bytes) /\ IsPrefix(shown', XorAll(log))
         /\ n = 0 => shown' = shown
<1> DEFINE text == XorAll(log)
           chunk == SubSeq(log, Len(shown) + 1, Len(shown) + n)
<1>1. shown' = shown \o XorAll(chunk)
  BY DEF Shows
<1>2. /\ shown \in Seq(Bytes) /\ log \in Seq(Bytes) /\ text \in Seq(Bytes)
      /\ Len(text) = Len(log) /\ IsPrefix(shown, text) /\ Len(shown) <= Len(log)
      /\ \A i \in 1..Len(log) : text[i] = Xor(log[i])
  <2>1. shown \in Seq(Bytes) /\ log \in Seq(Bytes) /\ IsPrefix(shown, text)
    BY DEF LogInv, LogOK, ReaderOK, ReaderShowsLines
  <2>2. text \in Seq(Bytes) /\ Len(text) = Len(log)
        /\ \A i \in 1..Len(log) : text[i] = Xor(log[i])
    BY <2>1, XorSequence
  <2> QED
    BY <2>1, <2>2 DEF IsPrefix
<1> HIDE DEF text
<1>3. XorAll(chunk) = SubSeq(text, Len(shown) + 1, Len(shown) + n)
  <2> DEFINE part == SubSeq(text, Len(shown) + 1, Len(shown) + n)
  <2>1. chunk \in Seq(Bytes) /\ Len(chunk) = n
        /\ \A i \in 1..n : chunk[i] = log[Len(shown) + i]
    BY <1>2
  <2>2. part \in Seq(Bytes) /\ Len(part) = n
        /\ \A i \in 1..n : part[i] = text[Len(shown) + i]
    BY <1>2
  <2> HIDE DEF chunk, part
  <2>3. XorAll(chunk) \in Seq(Bytes) /\ Len(XorAll(chunk)) = n
        /\ \A i \in 1..n : XorAll(chunk)[i] = Xor(chunk[i])
    BY <2>1, XorSequence
  <2>4. ASSUME NEW i \in 1..n PROVE XorAll(chunk)[i] = part[i]
    <3>1. Len(shown) + i \in 1..Len(log)
      BY <1>2
    <3> QED
      BY <1>2, <2>1, <2>2, <2>3, <3>1
  <2>5. XorAll(chunk) = part
    BY <2>2, <2>3, <2>4
  <2> QED
    BY <2>5 DEF part
<1>4. shown' = shown \o SubSeq(text, Len(shown) + 1, Len(shown) + n)
  BY <1>1, <1>3
<1>5. SubSeq(text, Len(shown) + 1, Len(shown) + n) \in Seq(Bytes)
  BY <1>2
<1>6. IsPrefix(shown \o SubSeq(text, Len(shown) + 1, Len(shown) + n), text)
  BY <1>2, PrefixChunk
<1>7. n = 0 => SubSeq(text, Len(shown) + 1, Len(shown) + n) = <<>>
  BY <1>2
<1>8. n = 0 => shown' = shown
  BY <1>2, <1>4, <1>7
<1> QED
  BY <1>2, <1>4, <1>5, <1>6, <1>8 DEF text

(* At the end of the file all of it was shown.                             *)
LEMMA ReadKeeps == ASSUME LogInv, ReadChunk \/ ReadFails PROVE LogInv'
<1>1. /\ UNCHANGED <<pc, log, logged, exit_code>> /\ reader = "reading"
      /\ \/ Shows(ChunkSize) /\ reader' = IF ChunkSize = 0 THEN "done" ELSE "reading"
         \/ (\E n \in 0..ChunkSize : Shows(n)) /\ reader' = "failed"
  BY DEF ReadChunk, ReadFails, daemonVars, logVars
<1>2. /\ shown \in Seq(Bytes) /\ XorAll(log) \in Seq(Bytes) /\ IsPrefix(shown, XorAll(log))
      /\ Len(XorAll(log)) = Len(log) /\ Len(log) - Len(shown) \in Nat
  <2>1. shown \in Seq(Bytes) /\ log \in Seq(Bytes) /\ IsPrefix(shown, XorAll(log))
    BY DEF LogInv, LogOK, ReaderOK, ReaderShowsLines
  <2>2. XorAll(log) \in Seq(Bytes) /\ Len(XorAll(log)) = Len(log)
    BY <2>1, XorSequence
  <2>3. Len(shown) <= Len(XorAll(log))
    BY <2>1, <2>2 DEF IsPrefix
  <2> QED
    BY <2>1, <2>2, <2>3
<1>3. /\ ChunkSize \in 0..Len(log) - Len(shown)
      /\ ChunkSize = 0 => Len(shown) = Len(log)
  <2>1. ChunkMax \in Nat \ {0}
    BY SyslogdAssumption DEF SyslogdAssumption
  <2>2. ChunkSize = IF ChunkMax <= Len(log) - Len(shown) THEN ChunkMax
                    ELSE Len(log) - Len(shown)
    BY <1>2, <2>1, MinOfTwo DEF ChunkSize
  <2> QED
    BY <1>2, <2>1, <2>2
<1>4. PICK n \in 0..Len(log) - Len(shown) :
        Shows(n) /\ (reader' = "done" => n = 0 /\ ChunkSize = 0)
  <2>1. CASE Shows(ChunkSize) /\ reader' = IF ChunkSize = 0 THEN "done" ELSE "reading"
    BY <1>3, <2>1
  <2>2. CASE (\E n \in 0..ChunkSize : Shows(n)) /\ reader' = "failed"
    <3>1. PICK k \in 0..ChunkSize : Shows(k)
      BY <2>2
    <3>2. k \in 0..Len(log) - Len(shown)
      BY <1>2, <1>3
    <3> QED
      BY <2>2, <3>1, <3>2
  <2> QED
    BY <1>1, <2>1, <2>2
<1>5. shown' \in Seq(Bytes) /\ IsPrefix(shown', XorAll(log)) /\ (n = 0 => shown' = shown)
  BY <1>4, ShowsKeeps
<1>6. ASSUME reader' = "done"
      PROVE  shown' = OldText \/ Last(shown') = NewLine \/ Failed'
  <2>1. shown' = shown /\ shown = XorAll(log)
    BY <1>2, <1>3, <1>4, <1>5, <1>6, PrefixOfAll
  <2>2. XorAll(log) = OldText \/ Last(XorAll(log)) = NewLine \/ Failed
    BY DEF LogInv, LogOK
  <2>3. Failed' = Failed
    BY <1>1 DEF Failed
  <2> QED
    BY <2>1, <2>2, <2>3
<1>7. ReaderOK'
  BY <1>1, <1>5, <1>6 DEF ReaderOK, ReaderShowsLines
<1>8. LogOK'
  BY <1>1 DEF LogInv, LogOK, Failed
<1> QED
  BY <1>7, <1>8 DEF LogInv

(* Every step keeps the log in order: what it does to it, if anything, is  *)
(* to append a line or to fail.                                            *)
LEMMA LogStep == LogInv /\ DaemonTypeOK /\ [SyslogdNext]_syslogdVars => LogInv'
<1> SUFFICES ASSUME LogInv, DaemonTypeOK, [SyslogdNext]_syslogdVars PROVE LogInv'
  OBVIOUS
<1> USE DEF Alive, Gone, InLoop
<1>1. LogOK /\ (Failed => Failed')
  BY FailureIsFinal DEF LogInv
<1>2. ASSUME UNCHANGED <<log, logged, readerVars>>,
             pc' \in {"init"} \cup InLoop
               => pc \in {"init"} \cup InLoop /\ exit_code' = exit_code
      PROVE  LogInv'
  BY <1>1, <1>2, LogUntouched, ShownStays DEF LogInv
<1>3. ASSUME NEW d \in Datagrams, Arrive(d), UNCHANGED <<logVars, readerVars>>
      PROVE  LogInv'
  BY <1>2, <1>3 DEF Arrive, RaiseIo, logVars
<1>4. CASE (Sigterm \/ Stray) /\ UNCHANGED <<logVars, readerVars>>
  BY <1>2, <1>4 DEF Sigterm, Stray, logVars
<1>5. CASE Wait
  BY <1>2, <1>5 DEF Wait, DaemonWait
<1>6. CASE SkipEmpty
  <2>1. /\ msg = <<>> /\ logged' = Append(logged, msg) /\ pc = "handle" /\ pc' = "wait"
        /\ UNCHANGED <<log, exit_code, readerVars>>
    BY <1>6 DEF SkipEmpty, Handled
  <2>2. Text(logged') = Text(logged) \o <<>> /\ Lines(logged') \in Seq(Bytes)
    BY <2>1, TextAppend DEF LineOf, DaemonTypeOK, LogOK, LogInv
  <2>3. Text(logged') = Text(logged)
    BY <1>1, <2>2 DEF LogOK
  <2>4. logged' \in Seq(Datagrams)
    BY <1>1, <2>1 DEF LogOK, DaemonTypeOK
  <2>5. LogOK'
    BY <1>1, <2>1, <2>2, <2>3, <2>4 DEF LogOK
  <2> QED
    BY <1>1, <2>1, <2>5, ShownStays DEF LogInv
<1>7. CASE WriteLine
  <2>1. /\ msg # <<>> /\ msg \in Datagrams /\ log' = log \o XorAll(Frame(msg))
        /\ logged' = Append(logged, msg) /\ pc = "handle"
        /\ exit_code' = exit_code /\ UNCHANGED readerVars
    BY <1>7 DEF WriteLine, Handled, DaemonTypeOK
  <2>2. Frame(msg) \in Seq(Bytes)
    BY <2>1, DatagramBytes, FrameIsLine
  <2>3. LogOK' /\ XorAll(log') = XorAll(log) \o Frame(msg)
    BY <1>1, <2>1, <2>2, LogGrows
  <2> QED
    BY <1>1, <2>1, <2>2, <2>3, ShownStays DEF LogInv
<1>8. CASE WriteFails
  <2>1. PICK text \in Seq(Bytes) :
          /\ log' = log \o XorAll(text) /\ pc = "handle" /\ pc' = "cleanup"
          /\ Failed' /\ UNCHANGED <<logged, readerVars>>
    BY <1>1, <1>8, PartFails
  <2>2. LogOK' /\ XorAll(log') = XorAll(log) \o text
    BY <1>1, <2>1, LogGrows
  <2> QED
    BY <1>1, <2>1, <2>2, ShownStays DEF LogInv
<1>9. CASE OtherSteps
  BY <1>2, <1>9
     DEF OtherSteps, InitCall, InitFails, Recv, RecvEmpty, RecvFails, Close, logVars
<1>10. CASE ReadChunk \/ ReadFails
  BY <1>10, ReadKeeps
<1>11. CASE UNCHANGED syslogdVars
  BY <1>2, <1>11 DEF syslogdVars, daemonVars, logVars
<1> QED
  BY <1>3, <1>4, <1>5, <1>6, <1>7, <1>8, <1>9, <1>10, <1>11
     DEF SyslogdNext, SyslogdProcess, Kernel

LEMMA LogAlways == SyslogdSafety => []LogInv
<1>1. SyslogdInit => LogInv
  <2> SUFFICES ASSUME SyslogdInit PROVE LogInv
    OBVIOUS
  <2>1. log = XorAll(OldText) /\ logged = <<>> /\ shown = <<>> /\ pc = "init"
        /\ reader = "reading" /\ exit_code = "EXIT_FAILURE"
    BY DEF SyslogdInit, DaemonInit
  <2>2. Lines(logged) = <<>> /\ <<>> \in Seq(Bytes) /\ logged \in Seq(Datagrams)
    BY <2>1 DEF Lines, FlattenSeq
  <2>3. Text(logged) = OldText
    BY <2>2, OldBytes, ConcatThree DEF Text
  <2>4. log \in Seq(Bytes) /\ XorAll(log) = OldText
    BY <2>1, OldBytes, XorSequence
  <2>5. IsPrefix(OldText, OldText)
    BY OldBytes, PrefixOfItself
  <2>6. LogOK
    BY <2>1, <2>2, <2>3, <2>4, <2>5, OldBytes DEF LogOK
  <2>7. IsPrefix(<<>>, OldText)
    BY OldBytes DEF IsPrefix
  <2>8. ReaderOK
    BY <2>1, <2>2, <2>4, <2>7 DEF ReaderOK, ReaderShowsLines
  <2> QED
    BY <2>6, <2>8 DEF LogInv
<1> QED
  BY <1>1, LogStep, SyslogdIsDaemon, DaemonTypeCorrect, PTL DEF SyslogdSafety

(* The log, decoded, is always what it was before and the lines of the     *)
(* handled messages, each ending in one line break, and more than that     *)
(* only after a failure, for logs, messages and limits of every length     *)
(* (syslogd.c:56-58, 114-129).                                             *)
THEOREM LogHoldsLines == SyslogdSafety => []LogIsLines
<1>1. LogInv => LogIsLines
  BY Zenon DEF LogInv, LogOK, LogIsLines, Text, Lines
<1> QED
  BY <1>1, LogAlways, PTL

(* What syslog has shown is always a beginning of the decoded log, and when *)
(* it succeeds it ends with a line, unless syslogd failed or has logged     *)
(* nothing, however the chunks it reads cut the lines and whatever is      *)
(* logged meanwhile (syslog.c:41-64).                                      *)
THEOREM ReaderSeesLines == SyslogdSafety => []ReaderShowsLines
<1>1. LogInv => ReaderShowsLines
  BY DEF LogInv, ReaderOK
<1> QED
  BY <1>1, LogAlways, PTL
=============================================================================
