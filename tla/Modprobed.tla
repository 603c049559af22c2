----------------------------- MODULE Modprobed ------------------------------
(***************************************************************************)
(* modprobed: a server as in module SocketPath, which serves each request  *)
(* in a child, which loads modules as in module ModuleLoader and leaves    *)
(* through the server's own clean-up.  A child outlives a server that is   *)
(* killed or leaves.                                                       *)
(***************************************************************************)
EXTENDS SocketPath, ModuleLoader

NoParent == "none"

VARIABLE parent  \* the server whose child each child is, or NoParent

modprobedVars == <<socketPathVars, loaderVars, parent>>

ModprobedTypeOK ==
  /\ SocketPathTypeOK
  /\ LoaderTypeOK
  /\ parent \in [Children -> Servers \cup {NoParent}]

ModprobedInit ==
  /\ SocketPathInit
  /\ LoaderInit
  /\ parent = [c \in Children |-> NoParent]

-----------------------------------------------------------------------------
(* A request was received: it is served in a child.                        *)
Serve(s, c, n) ==
  /\ Fork(s)
  /\ Begin(c, n)
  /\ parent' = [parent EXCEPT ![c] = s]

ChildWorks(c) ==
  /\ ChildLoads(c)
  /\ UNCHANGED <<socketPathVars, parent>>

(* The child is done: it closes its copies and ends.                       *)
ChildEnds(c) ==
  /\ End(c)
  /\ ForkEnds(parent[c])
  /\ parent' = [parent EXCEPT ![c] = NoParent]

ServerStep(s) == Server(s) /\ UNCHANGED <<loaderVars, parent>>

ModprobedNext ==
  \/ \E s \in Servers :
       \/ ServerStep(s)
       \/ (Leave(s) \/ Kill(s)) /\ UNCHANGED <<loaderVars, parent>>
       \/ \E c \in Children, n \in Requests : Serve(s, c, n)
  \/ \E c \in Children : ChildWorks(c) \/ ChildEnds(c)

ModprobedSafety == ModprobedInit /\ [][ModprobedNext]_modprobedVars

(* As in SocketPath; and the scheduler runs a child until it has returned. *)
ModprobedSpec ==
  /\ ModprobedSafety
  /\ \A s \in Servers : WF_modprobedVars(ServerStep(s))
  /\ \A c \in Children : WF_modprobedVars(ChildWorks(c))
=============================================================================
