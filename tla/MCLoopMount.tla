----------------------------- MODULE MCLoopMount ----------------------------
(* An ext2 image where ext4 is not registered, an xfs and a squashfs one,  *)
(* and a file that is no file system.                                      *)
EXTENDS LoopMount, TLC

CONSTANTS ext2, xfs, squash, text

MCImage == (ext2 :> "ext2") @@ (xfs :> "xfs") @@ (squash :> "squashfs") @@ (text :> "text")

MCFilesystems ==
  <<[name |-> "proc", nodev |-> TRUE], [name |-> "ext2", nodev |-> FALSE],
    [name |-> "xfs", nodev |-> FALSE], [name |-> "squashfs", nodev |-> FALSE]>>

MCMountable ==
  [image \in {"ext2", "xfs", "squashfs", "text"} |->
     CASE image = "ext2" -> {"ext2", "ext4"}
       [] image = "text" -> {}
       [] OTHER -> {image}]
=============================================================================
