------------------------------ MODULE MCDedup ------------------------------
(***************************************************************************)
(* Instance of Dedup.                                                       *)
(***************************************************************************)
EXTENDS Dedup, TLC

CONSTANTS l1, l2

\* l1 is on a disk that verifies, l2 is read.
MCVerifyLba == {l1}
MCReadLba == {l2}

MCSymmetry == Permutations(Write) \cup Permutations(Block) \cup Permutations(Content)

\* Bound: behaviours up to the first window or lost reference, included.
UpToWindow == stale = {} /\ recycled = {} /\ \A b \in Block : lost[b] = 0

=============================================================================
