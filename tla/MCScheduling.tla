---------------------------- MODULE MCScheduling ----------------------------
(* Two schedules, one twice as frequent as the other, and two replicas.    *)
EXTENDS Scheduling, TLC

CONSTANTS fast, slow, x1, x2, x3, x4

Periods == [c \in Crons |-> IF c = fast THEN 1 ELSE 2]
IdSet == {x1, x2, x3, x4}
IdSymmetry == Permutations(IdSet)
=============================================================================
