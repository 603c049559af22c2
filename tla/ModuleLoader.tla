---------------------------- MODULE ModuleLoader ----------------------------
(***************************************************************************)
(* How a child of modprobed loads a kernel module (modprobed.c:32-80):     *)
(* look the name or alias up in the cache, load the dependencies one after *)
(* the other by the same recursion, then the module itself.  Children run  *)
(* next to each other and meet in the kernel, at init_module(2).           *)
(***************************************************************************)
EXTENDS Naturals, Sequences, FiniteSets

CONSTANTS
  Children,    \* children of modprobed; a slot is used again after its child ended
  Names,       \* module names and aliases
  Requests,    \* the names and aliases that devd and users ask for
  Cache,       \* the cache: a sequence of a [name, aliases] for every module file
  AfterColon,  \* the name after the colon of an alias, or NoName
  NoName,
  Deps,        \* the names in a module's depends= field
  Gone,        \* modules whose file was removed since the cache was generated
  NoDepends,   \* modules without that field
  Rejected     \* modules the kernel refuses, for want of a device say

NotFound == NoName

Modules == {Cache[i].name : i \in DOMAIN Cache}

-----------------------------------------------------------------------------
(* The cache.  An alias pattern is the set of aliases that fnmatch() it; a *)
(* name stands for all its spellings with hyphens and underscores.         *)
FirstOf(hits) ==
  IF hits = {} THEN NotFound
  ELSE Cache[CHOOSE i \in hits : \A j \in hits : i <= j].name

cache_find_module(name) == FirstOf({i \in DOMAIN Cache : Cache[i].name = name})

cache_find_alias(alias) ==
  LET hits == {i \in DOMAIN Cache : alias \in Cache[i].aliases}
  IN  IF hits = {} THEN cache_find_module(AfterColon[alias]) ELSE FirstOf(hits)

Find ==
  [n \in Names |->
     IF cache_find_module(n) # NotFound THEN cache_find_module(n) ELSE cache_find_alias(n)]

(* The modules that loading m loads.                                       *)
DirectDeps ==
  [m \in Modules |-> {Find[Deps[m][i]] : i \in DOMAIN Deps[m]} \ {NotFound}]

Closure ==
  [m \in Modules |->
     {x \in Modules : \A S \in SUBSET Modules :
        m \in S /\ (\A y \in S : DirectDeps[y] \subseteq S) => x \in S}]

ASSUME LoaderAssumption ==
  /\ IsFiniteSet(Children)
  /\ Cache \in Seq([name : Names, aliases : SUBSET Names])
  /\ NoName \notin Names /\ Requests \subseteq Names
  /\ AfterColon \in [Names -> Names \cup {NoName}]
  /\ Deps \in [Modules -> Seq(Names)]
  /\ Gone \subseteq Modules /\ NoDepends \subseteq Modules /\ Rejected \subseteq Modules

(* The kernel's build refuses modules that depend on each other in a circle. *)
ASSUME AcyclicAssumption ==
  \A m \in Modules : \A d \in DirectDeps[m] : m \notin Closure[d]

-----------------------------------------------------------------------------
VARIABLES
  loaded,  \* the modules in the kernel
  status,  \* of each child: "idle", "loading", then what it returns: "true", "false"
  asked,   \* the name or alias each child was asked for, NoName between children
  frames   \* its calls of _load_by_path: a module and the next dependency of it

loaderVars == <<loaded, status, asked, frames>>

Frame == [module : Modules, next : Nat \ {0}]

LoaderTypeOK ==
  /\ loaded \subseteq Modules
  /\ status \in [Children -> {"idle", "loading", "true", "false"}]
  /\ asked \in [Children -> Requests \cup {NoName}]
  /\ frames \in [Children -> Seq(Frame)]

LoaderInit ==
  /\ loaded = {}
  /\ status = [c \in Children |-> "idle"]
  /\ asked = [c \in Children |-> NoName]
  /\ frames = [c \in Children |-> <<>>]

(* Some definitions have a faulty twin in front of them, which nothing     *)
(* uses: a bug the properties detect when it takes the definition's place. *)
-----------------------------------------------------------------------------
OpensUnchecked(n) == Find[n] \notin Gone

(* Whether a name leads to a module file: a name that is not found is      *)
(* taken for built in, and a file that cannot be opened is passed over.    *)
Opens(n) == Find[n] # NotFound /\ Find[n] \notin Gone

Call(c, n) == Append(frames[c], [module |-> Find[n], next |-> 1])

Top(c) == frames[c][Len(frames[c])]

(* The innermost call, or a dependency that was passed over, returns true  *)
(* to the call whose frames are the first n: on to its next dependency.    *)
Resumed(calls, n) ==
  [i \in 1..n |-> IF i = n THEN [calls[i] EXCEPT !.next = @ + 1] ELSE calls[i]]

ReturnTrue(c, n) ==
  /\ frames' = [frames EXCEPT ![c] = Resumed(@, n)]
  /\ status' = [status EXCEPT ![c] = IF n = 0 THEN "true" ELSE "loading"]

(* false goes all the way up: each caller closes its module and gives up.  *)
ReturnFalse(c) ==
  /\ frames' = [frames EXCEPT ![c] = <<>>]
  /\ status' = [status EXCEPT ![c] = "false"]

Begin(c, n) ==
  /\ status[c] = "idle"
  /\ asked' = [asked EXCEPT ![c] = n]
  /\ IF Opens(n)
       THEN /\ frames' = [frames EXCEPT ![c] = Call(c, n)]
            /\ status' = [status EXCEPT ![c] = "loading"]
       ELSE ReturnTrue(c, 0)
  /\ UNCHANGED loaded

HasDependency(c) ==
  /\ status[c] = "loading" /\ Top(c).module \notin NoDepends
  /\ Top(c).next <= Len(Deps[Top(c).module])

Repeats(c) ==
  /\ HasDependency(c)
  /\ UNCHANGED loaderVars

(* The next dependency is loaded first.                                    *)
Descend(c) ==
  /\ HasDependency(c)
  /\ LET n == Deps[Top(c).module][Top(c).next]
     IN  IF Opens(n)
           THEN frames' = [frames EXCEPT ![c] = Call(c, n)] /\ UNCHANGED status
           ELSE ReturnTrue(c, Len(frames[c]))
  /\ UNCHANGED <<loaded, asked>>

(* Without a depends= field module_for_each_dependency() reports failure.  *)
NoField(c) ==
  /\ status[c] = "loading" /\ Top(c).module \in NoDepends
  /\ ReturnFalse(c)
  /\ UNCHANGED <<loaded, asked>>

(* The kernel needs the symbols of every module that m depends on.         *)
init_module(m) ==
  IF m \in loaded THEN "EEXIST"
  ELSE IF m \notin Rejected /\ DirectDeps[m] \subseteq loaded THEN "success"
  ELSE "failure"

AllDependenciesDone(c) ==
  /\ status[c] = "loading" /\ Top(c).module \notin NoDepends
  /\ Top(c).next > Len(Deps[Top(c).module])

LoadStrict(c) ==
  /\ AllDependenciesDone(c)
  /\ IF init_module(Top(c).module) = "success"
       THEN loaded' = loaded \cup {Top(c).module} /\ ReturnTrue(c, Len(frames[c]) - 1)
       ELSE ReturnFalse(c) /\ UNCHANGED loaded
  /\ UNCHANGED asked

LoadUnchecked(c) ==
  /\ AllDependenciesDone(c)
  /\ loaded' = IF init_module(Top(c).module) = "success" THEN loaded \cup {Top(c).module} ELSE loaded
  /\ ReturnTrue(c, Len(frames[c]) - 1)
  /\ UNCHANGED asked

(* module_load(): a module that is there already, because another child    *)
(* was faster, is as good as loaded.                                       *)
Load(c) ==
  /\ AllDependenciesDone(c)
  /\ IF init_module(Top(c).module) = "failure"
       THEN ReturnFalse(c) /\ UNCHANGED loaded
       ELSE loaded' = loaded \cup {Top(c).module} /\ ReturnTrue(c, Len(frames[c]) - 1)
  /\ UNCHANGED asked

ChildLoads(c) == Descend(c) \/ NoField(c) \/ Load(c)

(* The child ends, and its slot is free for another.                       *)
End(c) ==
  /\ status[c] \in {"true", "false"}
  /\ status' = [status EXCEPT ![c] = "idle"]
  /\ asked' = [asked EXCEPT ![c] = NoName]
  /\ UNCHANGED <<loaded, frames>>

-----------------------------------------------------------------------------
(* Loading m itself fails: the kernel refuses it, for want of the symbols  *)
(* of a module whose file is gone say, or it lacks the field.              *)
Faulty(m) ==
  m \notin Gone /\ (m \in NoDepends \cup Rejected \/ DirectDeps[m] \cap Gone # {})

(* A request fails only if its module, or one that it depends on however   *)
(* indirectly, is faulty itself: that other children load the same modules *)
(* at the same time, in whatever order, never makes one fail, and neither  *)
(* does a dependency that is built in.  That the fault of a dependency is  *)
(* enough, although the kernel was never asked to load the module, is what *)
(* the code does; its comments say that such failures are ignored          *)
(* (modprobed.c:47-56, module.c:106-121).                                  *)
FailureHasACause ==
  \A c \in Children : status[c] = "false" =>
    \E m \in Closure[Find[asked[c]]] : Faulty(m)

(* A request that succeeds leaves its module in the kernel, if the module  *)
(* is not built in and its file is still there (modprobed.c:32-80).        *)
SuccessMeansLoaded ==
  \A c \in Children : status[c] = "true" =>
    Find[asked[c]] \in loaded \cup Gone \cup {NotFound}

(* Every request is done in the end, however deep its dependencies go.     *)
RequestsEnd ==
  \A c \in Children : status[c] = "loading" ~> status[c] \in {"true", "false"}
=============================================================================
