------------------------------ MODULE MCTftpd -------------------------------
(* Ports are interchangeable, and so are requests of the same kind.        *)
EXTENDS Tftpd, TLC

Symmetry ==
  Permutations(Uploads) \cup Permutations(Downloads) \cup Permutations(Ports)
=============================================================================
