---------------------------- MODULE MCModprobed -----------------------------
(* A driver on a library and on a built-in module, a card on both, which   *)
(* two files claim; a file that is gone, one without depends= and one that *)
(* the kernel rejects, each of them with a module that depends on it.      *)
EXTENDS Modprobed

CONSTANT none

Entry(name, aliases) == [name |-> name, aliases |-> aliases]

MCCache ==
  <<Entry("card", {"pci:card"}), Entry("lib", {"pci:card"}), Entry("drv", {}),
    Entry("bad", {}), Entry("old", {}), Entry("plain", {}), Entry("hub", {}),
    Entry("orphan", {}), Entry("heir", {})>>

MCNames ==
  {"lib", "drv", "card", "bad", "old", "plain", "hub", "orphan", "heir", "builtin",
   "pci:card", "x:hub"}

MCAfterColon == [n \in MCNames |-> IF n = "x:hub" THEN "hub" ELSE none]

MCDeps ==
  [m \in Modules |->
     CASE m = "drv"  -> <<"builtin", "lib">>
       [] m = "card" -> <<"lib", "drv">>
       [] m = "hub"  -> <<"bad">>
       [] m = "orphan" -> <<"old">>
       [] m = "heir" -> <<"plain">>
       [] OTHER      -> <<>>]
=============================================================================
