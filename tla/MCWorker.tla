------------------------------ MODULE MCWorker ------------------------------
(* The command of one action.  The production clock has ticks of 5 s: the  *)
(* backoff of 1 s, 5 s and 15 s is rounded up, the lease is 60 s, a        *)
(* handler takes 10 s.  The other runs shorten it and keep the order.      *)
EXTENDS Worker, TLC
CONSTANTS c1, c2, c3, c4, m1

OneDelay == <<1>>
ProductionDelays == <<1, 1, 3>>

(* Copies are interchangeable. *)
CopyIdentities == Permutations(Copies)
=============================================================================
