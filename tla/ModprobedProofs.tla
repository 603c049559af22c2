--------------------------- MODULE ModprobedProofs --------------------------
(***************************************************************************)
(* However many servers, children and modules there are: the socket's path *)
(* names the server that listens while no other is started next to it, and *)
(* what a child returns tells whether its module is loaded, whatever the   *)
(* other children load meanwhile.                                          *)
(***************************************************************************)
EXTENDS Modprobed, WellFoundedInduction, TLAPS

(* Why: two servers that run at the same time are both crowded.            *)
CompanyCrowds ==
  \A s, t \in Servers : s # t /\ at[s] # "down" /\ at[t] # "down" => s \in crowded

PathInv == SocketPathTypeOK /\ CompanyCrowds /\ LoneListenerHasPath

(* A server that runs alone keeps its path from bind() to the end of the   *)
(* loop: neither its children nor a failed start of its own removes it     *)
(* (modprobed.c:180-198).                                                  *)
THEOREM ListenerKeepsPath == SocketPathSafety => [](SocketPathTypeOK /\ LoneListenerHasPath)
<1> USE SocketPathAssumption
    DEF PathInv, SocketPathTypeOK, CompanyCrowds, LoneListenerHasPath, Bound
<1>1. SocketPathInit => PathInv
  BY DEF SocketPathInit
<1>2. PathInv /\ [SocketPathNext]_socketPathVars
      => PathInv'
  <2> SUFFICES ASSUME PathInv, [SocketPathNext]_socketPathVars
               PROVE  PathInv'
    OBVIOUS
  <2> USE DEF Goes
  <2>0. ASSUME NEW s \in Servers, Start(s)
        PROVE  PathInv'
    BY <2>0 DEF Start, Up
  <2>1. ASSUME NEW s \in Servers, InitDone(s) \/ Leave(s)
        PROVE  PathInv'
    BY <2>1 DEF InitDone, Leave
  <2>2. ASSUME NEW s \in Servers, BindOk(s)
        PROVE  PathInv'
    BY <2>2 DEF BindOk
  <2>3. ASSUME NEW s \in Servers, BindFails(s)
        PROVE  PathInv'
    BY <2>3 DEF BindFails
  <2>4. ASSUME NEW s \in Servers, Fork(s) \/ ForkEnds(s)
        PROVE  PathInv'
    BY <2>4 DEF Fork, ForkEnds
  <2>5. ASSUME NEW s \in Servers, Unlink(s)
        PROVE  PathInv'
    BY <2>5 DEF Unlink
  <2>6. ASSUME NEW s \in Servers, Kill(s)
        PROVE  PathInv'
    BY <2>6 DEF Kill
  <2>7. CASE UNCHANGED socketPathVars
    BY <2>7 DEF socketPathVars
  <2> QED
    BY <2>0, <2>1, <2>2, <2>3, <2>4, <2>5, <2>6, <2>7 DEF SocketPathNext, Server
<1>3. PathInv => SocketPathTypeOK /\ LoneListenerHasPath
  OBVIOUS
<1> QED
  BY <1>1, <1>2, <1>3, PTL DEF SocketPathSafety

-----------------------------------------------------------------------------
(* The lookup: the first of the hits in the cache is a module.             *)
LEMMA FirstExists ==
  ASSUME NEW T \in SUBSET Nat, T # {}
  PROVE  \E x \in T : \A y \in T : x <= y
<1> DEFINE R == {ss \in Nat \X Nat : ss[1] < ss[2]}
<1>1. IsWellFoundedOn(R, Nat)
  BY NatLessThanWellFounded DEF OpToRel
<1>2. \E x \in T : \A y \in T : <<y, x>> \notin R
  <2> HIDE DEF R
  <2> QED
    BY <1>1, WFMin
<1>3. PICK x \in T : \A y \in T : <<y, x>> \notin R
  BY <1>2
<1>4. ASSUME NEW y \in T PROVE x <= y
  <2>1. x \in Nat /\ y \in Nat /\ <<y, x>> \notin R
    BY <1>3
  <2>2. ~(y < x)
    BY <2>1
  <2> QED
    BY <2>1, <2>2
<1> QED
  BY <1>4

LEMMA FirstIsModule ==
  ASSUME NEW hits \in SUBSET DOMAIN Cache
  PROVE  FirstOf(hits) \in Modules \cup {NotFound}
<1>1. DOMAIN Cache \subseteq Nat
  BY LoaderAssumption
<1>2. CASE hits # {}
  <2>1. \E i \in hits : \A j \in hits : i <= j
    BY <1>1, <1>2, FirstExists
  <2>2. (CHOOSE i \in hits : \A j \in hits : i <= j) \in hits
    BY <2>1
  <2> QED
    BY <1>2, <2>2 DEF FirstOf, Modules
<1> QED
  BY <1>2 DEF FirstOf

LEMMA FindsModule == ASSUME NEW n \in Names PROVE Find[n] \in Modules \cup {NotFound}
<1>1. \A name : cache_find_module(name) \in Modules \cup {NotFound}
  BY FirstIsModule DEF cache_find_module
<1>2. cache_find_alias(n) \in Modules \cup {NotFound}
  BY <1>1, FirstIsModule DEF cache_find_alias
<1>3. Find[n] = IF cache_find_module(n) # NotFound THEN cache_find_module(n) ELSE cache_find_alias(n)
  BY DEF Find
<1> QED
  BY <1>1, <1>2, <1>3

LEMMA ModulesAreNamed == Modules \subseteq Names /\ NotFound \notin Modules
<1> DEFINE Entry == [name : Names, aliases : SUBSET Names]
<1>1. \A i \in DOMAIN Cache : Cache[i] \in Entry
  <2>1. Cache \in Seq(Entry)
    BY LoaderAssumption
  <2> HIDE DEF Entry
  <2> QED
    BY <2>1
<1>2. \A i \in DOMAIN Cache : Cache[i].name \in Names
  BY <1>1
<1> QED
  BY <1>2, LoaderAssumption DEF Modules, NotFound

(* A module's dependencies are modules, and in the closure with it.        *)
LEMMA DependencyIsModule ==
  ASSUME NEW m \in Modules
  PROVE  /\ DirectDeps[m] \subseteq Modules
         /\ \A k \in DOMAIN Deps[m] :
              Find[Deps[m][k]] # NotFound => Find[Deps[m][k]] \in DirectDeps[m]
<1>1. \A k \in DOMAIN Deps[m] : Deps[m][k] \in Names
  BY LoaderAssumption
<1> QED
  BY <1>1, FindsModule DEF DirectDeps

LEMMA ClosureIsClosed ==
  ASSUME NEW m \in Modules
  PROVE  /\ m \in Closure[m]
         /\ \A x \in Closure[m] : x \in Modules /\ DirectDeps[x] \subseteq Closure[m]
  BY DependencyIsModule DEF Closure

-----------------------------------------------------------------------------
(* The calls of a child: the first is for what it was asked for, each next *)
(* one for the dependency its caller is at, and the dependencies before    *)
(* that one are in the kernel, built in or gone.                           *)
Settled(there, n) == Find[n] \in there \cup Gone \cup {NotFound}

CallOK(c, i) ==
  /\ frames[c][i].module \in Closure[Find[asked[c]]] \ Gone
  /\ \A k \in DOMAIN Deps[frames[c][i].module] :
       k < frames[c][i].next => Settled(loaded, Deps[frames[c][i].module][k])
  /\ i < Len(frames[c]) =>
       /\ frames[c][i].next \in DOMAIN Deps[frames[c][i].module]
       /\ Find[Deps[frames[c][i].module][frames[c][i].next]] = frames[c][i + 1].module

CallsOK ==
  \A c \in Children :
    /\ status[c] # "idle" => asked[c] \in Requests
    /\ status[c] = "loading" <=> frames[c] # <<>>
    /\ frames[c] # <<>> =>
         /\ frames[c][1].module = Find[asked[c]]
         /\ \A i \in 1..Len(frames[c]) : CallOK(c, i)

LoaderInv == LoaderTypeOK /\ CallsOK /\ SuccessMeansLoaded /\ FailureHasACause

LEMMA LoaderInvInit == LoaderInit => LoaderInv
<1> SUFFICES ASSUME LoaderInit PROVE LoaderInv
  OBVIOUS
<1>1. frames \in [Children -> Seq(Frame)]
  BY DEF LoaderInit
<1> QED
  BY <1>1 DEF LoaderInit, LoaderInv, LoaderTypeOK, CallsOK, SuccessMeansLoaded, FailureHasACause

(* What a child that is loading has in hand.                               *)
LEMMA CallIsTyped ==
  ASSUME LoaderInv, NEW c \in Children, NEW i \in 1..Len(frames[c])
  PROVE  /\ frames[c][i].module \in Modules
         /\ frames[c][i].next \in Nat \ {0}
         /\ frames[c][i] = [module |-> frames[c][i].module, next |-> frames[c][i].next]
<1>1. frames[c] \in Seq(Frame)
  BY DEF LoaderInv, LoaderTypeOK
<1>2. frames[c][i] \in Frame
  BY <1>1
<1> QED
  BY <1>2 DEF Frame

(* The steps leave the other children's calls as they are.                 *)
LEMMA OthersKeep ==
  ASSUME LoaderInv, NEW c \in Children, loaded \subseteq loaded',
         NEW d \in Children, asked'[d] = asked[d], status'[d] = status[d], frames'[d] = frames[d]
  PROVE  /\ status'[d] # "idle" => asked'[d] \in Requests
         /\ status'[d] = "loading" <=> frames'[d] # <<>>
         /\ frames'[d] # <<>> =>
              /\ frames'[d][1].module = Find[asked'[d]]
              /\ \A i \in 1..Len(frames'[d]) : CallOK(d, i)'
         /\ status'[d] = "true" => Find[asked'[d]] \in loaded' \cup Gone \cup {NotFound}
         /\ status'[d] = "false" =>
              \E m \in Closure[Find[asked'[d]]] : Faulty(m)
<1>1. \A i \in 1..Len(frames[d]) : CallOK(d, i) => CallOK(d, i)'
  BY DEF CallOK, Settled
<1> QED
  BY <1>1 DEF LoaderInv, CallsOK, SuccessMeansLoaded, FailureHasACause

-----------------------------------------------------------------------------
(* A call that returns true settles the dependency its caller is at.       *)
LEMMA ReturnTrueKeeps ==
  ASSUME LoaderInv, NEW c \in Children, status[c] = "loading",
         loaded \subseteq loaded', loaded' \subseteq Modules, asked' = asked,
         NEW n \in 1..Len(frames[c]), ReturnTrue(c, n),
         frames[c][n].next \in DOMAIN Deps[frames[c][n].module],
         Settled(loaded', Deps[frames[c][n].module][frames[c][n].next])
  PROVE  LoaderInv'
<1> DEFINE called == frames[c]
           settled == [called[n] EXCEPT !.next = @ + 1]
           remaining == Resumed(called, n)
<1>1. /\ called \in Seq(Frame) /\ n \in Nat \ {0} /\ Len(called) \in Nat
      /\ called[n] \in Frame /\ settled \in Frame
      /\ settled.module = called[n].module /\ settled.next = called[n].next + 1
  <2>1. called \in Seq(Frame)
    BY DEF LoaderInv, LoaderTypeOK
  <2>2. called[n] \in Frame
    BY <2>1
  <2> QED
    BY <2>1, <2>2 DEF Frame
<1>2. /\ DOMAIN remaining = 1..n /\ remaining[n] = settled
      /\ \A i \in 1..n : i # n => remaining[i] = called[i]
  BY <1>1 DEF Resumed
<1>3. remaining \in Seq(Frame) /\ Len(remaining) = n
  <2>1. \A i \in 1..n : called[i] \in Frame
    BY <1>1
  <2>2. remaining \in [1..n -> Frame]
    BY <1>1, <2>1 DEF Resumed
  <2> HIDE DEF remaining
  <2> QED
    BY <1>1, <2>2
<1>4. /\ frames' = [frames EXCEPT ![c] = remaining]
      /\ status' = [status EXCEPT ![c] = "loading"]
  <2>1. frames' = [frames EXCEPT ![c] = remaining]
    BY DEF ReturnTrue
  <2>2. status' = [status EXCEPT ![c] = "loading"]
    BY <1>1 DEF ReturnTrue
  <2> QED
    BY <2>1, <2>2
<1> HIDE DEF remaining, settled
<1>5. LoaderTypeOK' /\ frames'[c] = remaining
      /\ (\A d \in Children \ {c} : frames'[d] = frames[d] /\ status'[d] = status[d])
  BY <1>3, <1>4 DEF LoaderInv, LoaderTypeOK
<1>6. \A i \in 1..n : CallOK(c, i)'
  <2> SUFFICES ASSUME NEW i \in 1..n PROVE CallOK(c, i)'
    OBVIOUS
  <2>1. CallOK(c, i)
    BY <1>1 DEF LoaderInv, CallsOK
  <2>2. i \in 1..n /\ i \in Nat /\ n <= Len(called)
    BY <1>1
  <2>3. CASE i = n
    <3>1. frames'[c][i] = settled
      BY <1>2, <1>5, <2>3
    <3>2. \A k \in DOMAIN Deps[called[n].module] :
            k < called[n].next + 1 => Settled(loaded', Deps[called[n].module][k])
      <4>1. Deps[called[n].module] \in Seq(Names)
        BY <1>1, LoaderAssumption DEF Frame
      <4>2. DOMAIN Deps[called[n].module] \subseteq Nat /\ called[n].next \in Nat
        BY <1>1, <4>1 DEF Frame
      <4>3. \A k \in DOMAIN Deps[called[n].module] :
              k < called[n].next => Settled(loaded, Deps[called[n].module][k])
        BY <2>1, <2>3 DEF CallOK
      <4>4. \A k \in Nat : k < called[n].next + 1 => k < called[n].next \/ k = called[n].next
        BY <4>2
      <4> QED
        BY <4>2, <4>3, <4>4 DEF Settled
    <3> QED
      BY <1>1, <1>3, <1>5, <2>1, <2>3, <3>1, <3>2 DEF CallOK
  <2>4. CASE i # n
    <3>1. i < n /\ i < Len(called) /\ i + 1 \in 1..n
      BY <1>1, <2>2, <2>4
    <3>2. frames'[c][i] = called[i] /\ frames'[c][i + 1].module = called[i + 1].module
      BY <1>1, <1>2, <1>5, <2>4, <3>1
    <3> QED
      BY <1>3, <1>5, <2>1, <3>1, <3>2 DEF CallOK, Settled
  <2> QED
    BY <2>3, <2>4
<1>7. frames'[c] # <<>> /\ frames'[c][1].module = Find[asked[c]]
  <2>1. called # <<>> /\ called[1].module = Find[asked[c]]
    BY DEF LoaderInv, CallsOK
  <2>2. 1 \in 1..n /\ remaining # <<>>
    BY <1>1, <1>3
  <2>3. remaining[1].module = called[1].module
    BY <1>1, <1>2, <2>2
  <2> QED
    BY <1>5, <2>1, <2>2, <2>3
<1>8. status'[c] = "loading" /\ asked'[c] \in Requests /\ Len(frames'[c]) = n
  BY <1>3, <1>4, <1>5 DEF LoaderInv, LoaderTypeOK, CallsOK
<1> HIDE DEF called
<1>9. CallsOK'
  BY <1>5, <1>6, <1>7, <1>8, OthersKeep DEF CallsOK
<1>10. SuccessMeansLoaded' /\ FailureHasACause'
  BY <1>5, <1>8, OthersKeep DEF SuccessMeansLoaded, FailureHasACause
<1> QED
  BY <1>5, <1>9, <1>10 DEF LoaderInv

LEMMA ResumedNothing == ASSUME NEW calls PROVE Resumed(calls, 0) = <<>>
<1>1. 1..0 = {}
  OBVIOUS
<1>2. Resumed(calls, 0) \in Seq({}) /\ Len(Resumed(calls, 0)) = 0
  BY <1>1 DEF Resumed
<1> QED
  BY <1>2

(* A child that has nothing left to load returns what it found.            *)
LEMMA ReturnsKeep ==
  ASSUME LoaderInv, NEW c \in Children, asked'[c] \in Requests, NEW result \in {"true", "false"},
         asked' \in [Children -> Requests \cup {NoName}],
         \A d \in Children \ {c} : asked'[d] = asked[d],
         loaded \subseteq loaded', loaded' \subseteq Modules,
         frames' = [frames EXCEPT ![c] = <<>>], status' = [status EXCEPT ![c] = result],
         result = "true" => Settled(loaded', asked'[c]),
         result = "false" => \E m \in Closure[Find[asked'[c]]] : Faulty(m)
  PROVE  LoaderInv'
<1>1. <<>> \in Seq(Frame)
  OBVIOUS
<1>2. LoaderTypeOK' /\ frames'[c] = <<>> /\ status'[c] = result
      /\ (\A d \in Children \ {c} : frames'[d] = frames[d] /\ status'[d] = status[d])
  BY <1>1 DEF LoaderInv, LoaderTypeOK
<1>3. CallsOK'
  BY <1>2, OthersKeep DEF CallsOK
<1>4. SuccessMeansLoaded' /\ FailureHasACause'
  BY <1>2, OthersKeep DEF SuccessMeansLoaded, FailureHasACause, Settled
<1> QED
  BY <1>2, <1>3, <1>4 DEF LoaderInv

(* A call for another module: the first, or that of a dependency.          *)
LEMMA CallKeeps ==
  ASSUME LoaderInv, NEW c \in Children, NEW n \in Names, Opens(n),
         loaded' = loaded, asked' \in [Children -> Requests \cup {NoName}],
         asked'[c] \in Requests, \A d \in Children \ {c} : asked'[d] = asked[d],
         frames' = [frames EXCEPT ![c] = Call(c, n)],
         status' = [status EXCEPT ![c] = "loading"],
         \/ frames[c] = <<>> /\ n = asked'[c]
         \/ /\ frames[c] # <<>> /\ asked'[c] = asked[c]
            /\ Top(c).next \in DOMAIN Deps[Top(c).module]
            /\ n = Deps[Top(c).module][Top(c).next]
  PROVE  LoaderInv'
<1> DEFINE called == frames[c]
           new == [module |-> Find[n], next |-> 1]
<1>1. Find[n] \in Modules /\ new \in Frame
  BY FindsModule DEF Opens, Frame
<1>2. called \in Seq(Frame) /\ Append(called, new) \in Seq(Frame) /\ Len(called) \in Nat
      /\ Len(Append(called, new)) = Len(called) + 1 /\ Append(called, new) # <<>>
      /\ Append(called, new)[Len(called) + 1] = new
      /\ \A i \in 1..Len(called) : Append(called, new)[i] = called[i]
  <2>1. called \in Seq(Frame)
    BY DEF LoaderInv, LoaderTypeOK
  <2> HIDE DEF called, new
  <2> QED
    BY <1>1, <2>1
<1>3. LoaderTypeOK' /\ frames'[c] = Append(called, new) /\ status'[c] = "loading"
      /\ (\A d \in Children \ {c} : frames'[d] = frames[d] /\ status'[d] = status[d])
  BY <1>2 DEF LoaderInv, LoaderTypeOK, Call
<1>4. frames'[c][1].module = Find[asked'[c]]
  <2>1. CASE called = <<>>
    BY <1>2, <1>3, <2>1
  <2>2. CASE called # <<>>
    <3>1. 1 \in 1..Len(called) /\ called[1].module = Find[asked[c]]
      BY <1>2, <2>2 DEF LoaderInv, CallsOK
    <3> QED
      BY <1>2, <1>3, <2>2, <3>1
  <2> QED
    BY <2>1, <2>2
<1>5. ASSUME NEW i \in 1..Len(called)
      PROVE  CallOK(c, i)'
  <2>1. called # <<>> /\ asked'[c] = asked[c] /\ CallOK(c, i) /\ Len(called) \in 1..Len(called)
    BY <1>2 DEF LoaderInv, CallsOK
  <2>2. frames'[c][i] = called[i] /\ Len(frames'[c]) = Len(called) + 1
    BY <1>2, <1>3
  <2>3. CASE i = Len(called)
    <3>1. frames'[c][i + 1].module = Find[n]
      BY <1>2, <1>3, <2>3
    <3>2. called[i].next \in DOMAIN Deps[called[i].module] /\ n = Deps[called[i].module][called[i].next]
      BY <2>1, <2>3 DEF Top
    <3> QED
      BY <2>1, <2>2, <3>1, <3>2 DEF CallOK
  <2>4. CASE i < Len(called)
    <3>1. i + 1 \in 1..Len(called)
      BY <1>2, <2>4
    <3>2. frames'[c][i + 1] = called[i + 1]
      BY <1>2, <1>3, <3>1
    <3> QED
      BY <2>1, <2>2, <2>4, <3>2 DEF CallOK
  <2> QED
    BY <1>2, <2>3, <2>4
<1>6. ASSUME NEW i \in {Len(called) + 1}
      PROVE  CallOK(c, i)'
  <2>1. frames'[c][i].module = Find[n] /\ frames'[c][i].next = 1
        /\ ~(i < Len(frames'[c]))
    BY <1>2, <1>3
  <2>2. Find[n] \in Closure[Find[asked'[c]]]
    <3>1. CASE called = <<>>
      BY <1>1, <3>1, ClosureIsClosed
    <3>2. CASE called # <<>>
      <4>1. Len(called) \in 1..Len(called) /\ 1 \in 1..Len(called)
        BY <1>2, <3>2
      <4>2. CallOK(c, Len(called)) /\ called[1].module = Find[asked[c]]
        BY <3>2, <4>1 DEF LoaderInv, CallsOK
      <4>3. Top(c).module \in Closure[Find[asked[c]]] /\ Find[asked[c]] \in Modules
        BY <4>1, <4>2, CallIsTyped DEF CallOK, Top
      <4>4. Top(c).module \in Modules /\ DirectDeps[Top(c).module] \subseteq Closure[Find[asked[c]]]
        BY <4>3, ClosureIsClosed
      <4>5. Find[n] \in DirectDeps[Top(c).module]
        BY <1>1, <3>2, <4>4, DependencyIsModule, ModulesAreNamed
      <4> QED
        BY <3>2, <4>4, <4>5
    <3> QED
      BY <3>1, <3>2
  <2>3. \A k \in DOMAIN Deps[Find[n]] : ~(k < 1)
    <3>1. Deps[Find[n]] \in Seq(Names)
      BY <1>1, LoaderAssumption
    <3> QED
      BY <3>1
  <2> QED
    BY <2>1, <2>2, <2>3 DEF CallOK, Opens
<1>7. \A i \in 1..Len(frames'[c]) : CallOK(c, i)'
  <2>1. Len(frames'[c]) = Len(called) + 1
    BY <1>2, <1>3
  <2>2. \A i \in 1..(Len(called) + 1) : i \in 1..Len(called) \/ i = Len(called) + 1
    BY <1>2
  <2> QED
    BY <1>5, <1>6, <2>1, <2>2
<1> HIDE DEF called, new
<1>8. CallsOK'
  BY <1>2, <1>3, <1>4, <1>7, OthersKeep DEF CallsOK
<1>9. SuccessMeansLoaded' /\ FailureHasACause'
  BY <1>3, OthersKeep DEF SuccessMeansLoaded, FailureHasACause
<1> QED
  BY <1>3, <1>8, <1>9 DEF LoaderInv

-----------------------------------------------------------------------------
(* What a child asks for, and what a call returns to.                      *)
LEMMA LoadingChild ==
  ASSUME LoaderInv, NEW c \in Children, status[c] = "loading"
  PROVE  /\ Len(frames[c]) \in 1..Len(frames[c])
         /\ asked[c] \in Requests /\ Find[asked[c]] \in Modules
         /\ Top(c).module \in Modules /\ Top(c).next \in Nat \ {0}
         /\ Top(c).module \in Closure[Find[asked[c]]] \ Gone
         /\ Deps[Top(c).module] \in Seq(Names)
<1>1. frames[c] \in Seq(Frame) /\ frames[c] # <<>> /\ asked[c] \in Requests
      /\ frames[c][1].module = Find[asked[c]]
      /\ \A i \in 1..Len(frames[c]) : CallOK(c, i)
  BY DEF LoaderInv, LoaderTypeOK, CallsOK
<1>2. Len(frames[c]) \in 1..Len(frames[c]) /\ 1 \in 1..Len(frames[c])
  BY <1>1
<1>3. Top(c).module \in Modules /\ Top(c).next \in Nat \ {0} /\ Find[asked[c]] \in Modules
  BY <1>1, <1>2, CallIsTyped DEF Top
<1>4. Top(c).module \in Closure[Find[asked[c]]] \ Gone
  BY <1>1, <1>2 DEF CallOK, Top
<1> QED
  BY <1>1, <1>2, <1>3, <1>4, LoaderAssumption

LEMMA BeginKeeps ==
  ASSUME LoaderInv, NEW c \in Children, NEW n \in Requests, Begin(c, n)
  PROVE  LoaderInv'
<1>1. /\ asked' \in [Children -> Requests \cup {NoName}] /\ asked'[c] = n
      /\ (\A d \in Children \ {c} : asked'[d] = asked[d])
      /\ loaded' = loaded /\ loaded' \subseteq Modules /\ frames[c] = <<>> /\ n \in Names
  BY LoaderAssumption DEF Begin, LoaderInv, LoaderTypeOK, CallsOK
<1>2. CASE Opens(n)
  BY <1>1, <1>2, CallKeeps DEF Begin
<1>3. CASE ~Opens(n)
  <2>1. frames' = [frames EXCEPT ![c] = <<>>] /\ status' = [status EXCEPT ![c] = "true"]
    BY <1>3, ResumedNothing DEF Begin, ReturnTrue
  <2>2. Settled(loaded', n)
    BY <1>3 DEF Opens, Settled
  <2> QED
    BY <1>1, <2>1, <2>2, ReturnsKeep
<1> QED
  BY <1>2, <1>3

LEMMA DescendKeeps ==
  ASSUME LoaderInv, NEW c \in Children, Descend(c)
  PROVE  LoaderInv'
<1> DEFINE n == Deps[Top(c).module][Top(c).next]
<1>1. status[c] = "loading" /\ Top(c).next <= Len(Deps[Top(c).module])
      /\ loaded' = loaded /\ asked' = asked
  BY DEF Descend, HasDependency
<1>2. Top(c).next \in DOMAIN Deps[Top(c).module] /\ n \in Names
  BY <1>1, LoadingChild
<1>3. asked \in [Children -> Requests \cup {NoName}] /\ asked[c] \in Requests /\ frames[c] # <<>>
      /\ loaded \subseteq Modules
  BY <1>1, LoadingChild DEF LoaderInv, LoaderTypeOK, CallsOK
<1>4. CASE Opens(n)
  <2>1. frames' = [frames EXCEPT ![c] = Call(c, n)] /\ status' = status
    BY <1>4 DEF Descend
  <2>2. status' = [status EXCEPT ![c] = "loading"]
    BY <1>1, <2>1 DEF LoaderInv, LoaderTypeOK
  <2> HIDE DEF n
  <2> QED
    BY <1>1, <1>2, <1>3, <1>4, <2>1, <2>2, CallKeeps DEF n
<1>5. CASE ~Opens(n)
  <2>1. ReturnTrue(c, Len(frames[c]))
    BY <1>5 DEF Descend
  <2>2. Settled(loaded', n)
    BY <1>1, <1>5 DEF Opens, Settled
  <2> QED
    BY <1>1, <1>2, <1>3, <2>1, <2>2, LoadingChild, ReturnTrueKeeps DEF Top
<1> QED
  BY <1>4, <1>5

LEMMA FalseKeeps ==
  ASSUME LoaderInv, NEW c \in Children, status[c] = "loading", ReturnFalse(c),
         UNCHANGED <<loaded, asked>>,
         \E m \in Closure[Find[asked[c]]] : Faulty(m)
  PROVE  LoaderInv'
<1>1. asked \in [Children -> Requests \cup {NoName}] /\ loaded \subseteq Modules
  BY DEF LoaderInv, LoaderTypeOK
<1> QED
  BY <1>1, LoadingChild, ReturnsKeep DEF ReturnFalse

(* The module is refused: a dependency that is not in the kernel is gone.  *)
LEMMA RefusalHasACause ==
  ASSUME LoaderInv, NEW c \in Children, AllDependenciesDone(c),
         init_module(Top(c).module) = "failure"
  PROVE  \E m \in Closure[Find[asked[c]]] : Faulty(m)
<1> DEFINE m == Top(c).module
<1>1. status[c] = "loading" /\ Top(c).next > Len(Deps[m])
  BY DEF AllDependenciesDone
<1>2. m \in Closure[Find[asked[c]]] \ Gone /\ m \in Modules /\ Find[asked[c]] \in Modules
  BY <1>1, LoadingChild
<1>3. CASE m \in Rejected
  BY <1>2, <1>3 DEF Faulty
<1>4. CASE ~(DirectDeps[m] \subseteq loaded)
  <2>1. PICK d \in DirectDeps[m] : d \notin loaded
    BY <1>4
  <2>2. d \in Closure[Find[asked[c]]] /\ d \in Modules
    BY <1>2, <2>1, ClosureIsClosed
  <2>3. PICK k \in DOMAIN Deps[m] : d = Find[Deps[m][k]]
    BY <1>2, <2>1 DEF DirectDeps
  <2>4. k < Top(c).next
    BY <1>1, <2>3, LoadingChild
  <2>5. Settled(loaded, Deps[m][k])
    <3>1. CallOK(c, Len(frames[c]))
      BY <1>1, LoadingChild DEF LoaderInv, CallsOK
    <3> QED
      BY <2>3, <2>4, <3>1 DEF CallOK, Top
  <2>6. d \in Gone
    BY <2>1, <2>2, <2>3, <2>5, ModulesAreNamed DEF Settled
  <2> QED
    BY <1>2, <2>1, <2>6 DEF Faulty
<1> QED
  BY <1>3, <1>4 DEF init_module

LEMMA LoadKeeps ==
  ASSUME LoaderInv, NEW c \in Children, Load(c)
  PROVE  LoaderInv'
<1>1. AllDependenciesDone(c) /\ status[c] = "loading" /\ asked' = asked
  BY DEF Load, AllDependenciesDone
<1>2. CASE init_module(Top(c).module) = "failure"
  BY <1>1, <1>2, RefusalHasACause, FalseKeeps DEF Load
<1>3. CASE init_module(Top(c).module) # "failure"
  <2>1. loaded' = loaded \cup {Top(c).module} /\ ReturnTrue(c, Len(frames[c]) - 1)
    BY <1>3 DEF Load
  <2>2. loaded' \subseteq Modules /\ loaded \subseteq loaded' /\ asked[c] \in Requests
        /\ asked \in [Children -> Requests \cup {NoName}]
        /\ Len(frames[c]) \in Nat \ {0}
    BY <1>1, <2>1, LoadingChild DEF LoaderInv, LoaderTypeOK
  <2>3. \A i \in 1..Len(frames[c]) : CallOK(c, i)
    BY <1>1, <2>2, LoadingChild DEF LoaderInv, CallsOK
  <2>4. CASE Len(frames[c]) = 1
    <3>1. frames' = [frames EXCEPT ![c] = <<>>] /\ status' = [status EXCEPT ![c] = "true"]
      <4>1. Len(frames[c]) - 1 = 0
        BY <2>4
      <4> QED
        BY <2>1, <4>1, ResumedNothing DEF ReturnTrue
    <3>2. Top(c).module = Find[asked[c]]
      BY <1>1, <2>4 DEF Top, LoaderInv, CallsOK
    <3>3. Settled(loaded', asked[c])
      BY <2>1, <3>2 DEF Settled
    <3> QED
      BY <1>1, <2>2, <3>1, <3>3, ReturnsKeep
  <2>5. CASE Len(frames[c]) # 1
    <3> DEFINE n == Len(frames[c]) - 1
    <3>1. n \in 1..Len(frames[c]) /\ n < Len(frames[c]) /\ n + 1 = Len(frames[c])
      <4>1. \A l \in Nat \ {0} : l # 1 => l - 1 \in 1..l /\ l - 1 < l /\ (l - 1) + 1 = l
        OBVIOUS
      <4> QED
        BY <2>2, <2>5, <4>1
    <3>2. CallOK(c, n)
      BY <2>3, <3>1
    <3>3. frames[c][n].next \in DOMAIN Deps[frames[c][n].module]
          /\ Find[Deps[frames[c][n].module][frames[c][n].next]] = Top(c).module
      BY <3>1, <3>2 DEF CallOK, Top
    <3>4. Settled(loaded', Deps[frames[c][n].module][frames[c][n].next])
      BY <2>1, <3>3 DEF Settled
    <3> HIDE DEF n
    <3> QED
      BY <1>1, <2>1, <2>2, <3>1, <3>3, <3>4, ReturnTrueKeeps DEF n
  <2> QED
    BY <2>4, <2>5
<1> QED
  BY <1>2, <1>3

LEMMA EndKeeps ==
  ASSUME LoaderInv, NEW c \in Children, End(c)
  PROVE  LoaderInv'
<1>1. /\ status' = [status EXCEPT ![c] = "idle"] /\ asked' = [asked EXCEPT ![c] = NoName]
      /\ loaded' = loaded /\ frames' = frames /\ frames[c] = <<>>
  BY DEF End, LoaderInv, CallsOK
<1>2. LoaderTypeOK' /\ status'[c] = "idle" /\ frames'[c] = <<>>
      /\ \A d \in Children \ {c} : asked'[d] = asked[d] /\ status'[d] = status[d]
  BY <1>1 DEF LoaderInv, LoaderTypeOK
<1>3. CallsOK'
  BY <1>1, <1>2, OthersKeep DEF CallsOK
<1>4. SuccessMeansLoaded' /\ FailureHasACause'
  BY <1>1, <1>2, OthersKeep DEF SuccessMeansLoaded, FailureHasACause
<1> QED
  BY <1>2, <1>3, <1>4 DEF LoaderInv

LEMMA LoaderStep ==
  LoaderInv /\ [ModprobedNext]_modprobedVars => LoaderInv'
<1> SUFFICES ASSUME LoaderInv, [ModprobedNext]_modprobedVars PROVE LoaderInv'
  OBVIOUS
<1>1. ASSUME NEW s \in Servers, NEW c \in Children, NEW n \in Requests, Serve(s, c, n)
      PROVE  LoaderInv'
  BY <1>1, BeginKeeps DEF Serve
<1>2. ASSUME NEW c \in Children, ChildWorks(c)
      PROVE  LoaderInv'
  <2>1. CASE Descend(c)
    BY <2>1, DescendKeeps
  <2>2. CASE NoField(c)
    <3>1. \E m \in Closure[Find[asked[c]]] : Faulty(m)
      BY <2>2, LoadingChild DEF NoField, Faulty
    <3> QED
      BY <2>2, <3>1, FalseKeeps DEF NoField
  <2>3. CASE Load(c)
    BY <2>3, LoadKeeps
  <2> QED
    BY <1>2, <2>1, <2>2, <2>3 DEF ChildWorks, ChildLoads
<1>3. ASSUME NEW c \in Children, ChildEnds(c)
      PROVE  LoaderInv'
  BY <1>3, EndKeeps DEF ChildEnds
<1>4. CASE UNCHANGED loaderVars
  BY <1>4 DEF loaderVars, LoaderInv, LoaderTypeOK, CallsOK, CallOK, Settled,
              SuccessMeansLoaded, FailureHasACause
<1> QED
  BY <1>1, <1>2, <1>3, <1>4 DEF ModprobedNext, ServerStep, modprobedVars

LEMMA LoaderInvAlways == ModprobedSafety => []LoaderInv
<1>1. ModprobedInit => LoaderInv
  BY LoaderInvInit DEF ModprobedInit
<1> QED
  BY <1>1, LoaderStep, PTL DEF ModprobedSafety

(* A child returns true only if its module is in the kernel, built in or   *)
(* gone (modprobed.c:32-80).                                               *)
THEOREM SuccessIsTrue == ModprobedSafety => []SuccessMeansLoaded
<1>1. LoaderInv => SuccessMeansLoaded
  BY DEF LoaderInv
<1> QED
  BY <1>1, LoaderInvAlways, PTL

(* It returns false only for a fault of its module or of one that this     *)
(* depends on, the latter contrary to the comments, and whatever the other *)
(* children load meanwhile (modprobed.c:47-56, module.c:103-118).          *)
THEOREM FailuresAreTrue == ModprobedSafety => []FailureHasACause
<1>1. LoaderInv => FailureHasACause
  BY DEF LoaderInv
<1> QED
  BY <1>1, LoaderInvAlways, PTL

-----------------------------------------------------------------------------
(* A child at work is some server's.                                       *)
ParentOK ==
  /\ parent \in [Children -> Servers \cup {NoParent}]
  /\ \A c \in Children : status[c] # "idle" => parent[c] \in Servers

LEMMA ParentStep ==
  LoaderInv /\ ParentOK /\ [ModprobedNext]_modprobedVars => ParentOK'
<1> SUFFICES ASSUME LoaderInv, ParentOK, [ModprobedNext]_modprobedVars PROVE ParentOK'
  OBVIOUS
<1> USE DEF ParentOK, LoaderInv, LoaderTypeOK
<1>1. ASSUME NEW s \in Servers, NEW c \in Children, NEW n \in Requests, Serve(s, c, n)
      PROVE  ParentOK'
  <2>1. parent' = [parent EXCEPT ![c] = s] /\ \A d \in Children \ {c} : status'[d] = status[d]
    BY <1>1 DEF Serve, Begin, ReturnTrue
  <2> QED
    BY <2>1
<1>2. ASSUME NEW c \in Children, ChildWorks(c)
      PROVE  ParentOK'
  <2>1. parent' = parent /\ status[c] = "loading" /\ \A d \in Children \ {c} : status'[d] = status[d]
    BY <1>2 DEF ChildWorks, ChildLoads, Descend, HasDependency, NoField, Load,
                AllDependenciesDone, ReturnTrue, ReturnFalse
  <2> QED
    BY <2>1
<1>3. ASSUME NEW c \in Children, ChildEnds(c)
      PROVE  ParentOK'
  BY <1>3 DEF ChildEnds, End
<1>4. CASE UNCHANGED <<loaderVars, parent>>
  BY <1>4 DEF loaderVars
<1> QED
  BY <1>1, <1>2, <1>3, <1>4 DEF ModprobedNext, ServerStep, modprobedVars

(* The path names the socket of the modprobed that listens and has not run *)
(* next to another, whatever its children do (modprobed.c:142-198).        *)
THEOREM ModprobedKeepsPath ==
  ModprobedSafety => SocketPathSafety /\ [](ModprobedTypeOK /\ LoneListenerHasPath)
<1>1. ModprobedInit => SocketPathInit /\ LoaderInv /\ ParentOK
  BY LoaderInvInit DEF ModprobedInit, LoaderInit, ParentOK
<1>2. LoaderInv /\ ParentOK /\ [ModprobedNext]_modprobedVars => [SocketPathNext]_socketPathVars
  BY DEF ModprobedNext, ServerStep, Serve, ChildWorks, ChildEnds, End, ParentOK,
         SocketPathNext, modprobedVars
<1>3. LoaderInv /\ ParentOK /\ SocketPathTypeOK => ModprobedTypeOK
  BY DEF LoaderInv, ParentOK, ModprobedTypeOK
<1> QED
  BY <1>1, <1>2, <1>3, LoaderInvAlways, ParentStep, ListenerKeepsPath, PTL
     DEF ModprobedSafety, SocketPathSafety
=============================================================================
