----------------------------- MODULE MCTaskSet -----------------------------
(* TaskSet for TLC, and istate_remove_cmd's loop written as the loop it is. *)
EXTENDS TaskSet, TLC

(***************************************************************************)
(* The TAILQ_FOREACH of istate_remove_cmd: n commands executing and o of   *)
(* them not SIMPLE among the first i - 1; the result is the set of         *)
(* positions put on task_list.                                             *)
(***************************************************************************)
RECURSIVE Scan(_, _, _, _)
Scan(s, i, n, o) ==
  IF i > Len(s) THEN {}
  ELSE LET t == s[i]  simple == attr[t] = "SIMPLE" IN
       IF queued[t] THEN Scan(s, i + 1, n + 1, IF simple THEN o ELSE o + 1)
       ELSE IF simple THEN IF o > 0 THEN {} ELSE {i} \cup Scan(s, i + 1, n + 1, o)
       ELSE IF attr[t] = "HEAD" THEN {}
       ELSE IF n > 0 THEN {} ELSE {i} \cup Scan(s, i + 1, n + 1, o + 1)

(***************************************************************************)
(* The closed form Promoted is what the loop computes, for every list that *)
(* some command may leave from the front in a reachable state.             *)
(***************************************************************************)
PromotedIsScan ==
  queue_list # <<>> =>
    LET s == RemoveAtPos(queue_list, 1) IN Promoted(s) = Scan(s, 1, 0, 0)

Symmetry == Permutations(Task) \cup Permutations(Manager)
=============================================================================
