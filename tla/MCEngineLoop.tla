---------------------------- MODULE MCEngineLoop ----------------------------
(* Three routines, one of which is started: main has a condition, a step   *)
(* that mixes a conditional action with a loop, and a last step; fan calls *)
(* sub once for each item of a list; sub runs one action.                  *)
EXTENDS Engine, TLC
CONSTANTS e1, e2, e3, main, fan, sub, cond, only, loop, last, each, task

MCAction ==
  [k \in Keys |->
     [routine |-> CASE k = each -> fan [] k = task -> sub [] OTHER -> main,
      step    |-> CASE k \in {only, loop} -> 2 [] k = last -> 3 [] OTHER -> 1,
      kind    |-> CASE k = cond -> "condition" [] k = each -> "call" [] OTHER -> "worker",
      runIf   |-> IF k = only THEN cond ELSE None,
      is      |-> "true",
      forEach |-> k \in {loop, each},
      target  |-> IF k = each THEN sub ELSE None]]

(* Identifiers are interchangeable. *)
Identifiers == Permutations(Execs)
=============================================================================
