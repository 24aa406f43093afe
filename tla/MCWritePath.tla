---------------------------- MODULE MCWritePath ----------------------------
(***************************************************************************)
(* Instances of WritePath.                                                  *)
(***************************************************************************)
EXTENDS WritePath, TLC

CONSTANTS w1, w2, l1, l2, b1, b2, b3, b4

\* The first two blocks are mapped, the others are free.
MCInitMap == (l1 :> b1) @@ (l2 :> b2)

\* Writes are alike, and so are the free blocks.
MCSymmetry == Permutations(Write) \cup Permutations(Block \ {b1, b2})

=============================================================================
