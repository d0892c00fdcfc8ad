---------------------------- MODULE MCEngineCalls ----------------------------
(* Two routines: main calls sub, which runs a worker action and calls      *)
(* itself when its condition says so.                                      *)
EXTENDS EngineInvariant
CONSTANTS e1, e2, e3, main, sub, task, call, more, again

MCAction ==
  [k \in Keys |->
     [routine |-> IF k = call THEN main ELSE sub,
      step    |-> IF k = again THEN 2 ELSE 1,
      kind    |-> CASE k = more -> "condition" [] k = task -> "worker" [] OTHER -> "call",
      runIf   |-> IF k = again THEN more ELSE None,
      is      |-> "true",
      forEach |-> FALSE,
      target  |-> IF k \in {call, again} THEN sub ELSE None]]
=============================================================================
