------------------------------ MODULE MCNodeHA ------------------------------
(* Instances of NodeHA for TLC. *)
EXTENDS NodeHA, TLC

Writers == Permutations(Writer)

\* Explore a behaviour up to the first gap, after which MasterIsFresh says no more
UpToGap == gaps = {}
=============================================================================
