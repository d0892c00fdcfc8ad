------------------------- MODULE ExecutionLifecycle -------------------------
(***************************************************************************)
(* What the routine engine promises about executions, without rows,        *)
(* transactions or messages: the diagram at the head of progress.ts.  A    *)
(* transaction moves one execution and can start others; an execution that *)
(* ends is announced in that same step, once and for all.                  *)
(***************************************************************************)
CONSTANT Execs

VARIABLES
  status,     \* the status of each execution
  announced   \* the verdicts announced for it
lifecycle == <<status, announced>>

Verdicts == {"COMPLETED", "FAILED"}

Init ==
  /\ status = [e \in Execs |-> "unborn"]
  /\ announced = [e \in Execs |-> {}]

(* A transaction can pass through RUNNING: scripting steps take no round   *)
(* trip, so a routine made of them ends in the transaction that starts it. *)
Successors(s) ==
  CASE s = "PENDING" -> {"RUNNING", "WAITING"} \cup Verdicts
    [] s = "RUNNING" -> {"RUNNING", "WAITING"} \cup Verdicts
    [] s = "WAITING" -> {"RUNNING", "WAITING"} \cup Verdicts
    [] OTHER -> {}

Create(e) ==
  /\ status[e] = "unborn"
  /\ status' = [status EXCEPT ![e] = "PENDING"]
  /\ UNCHANGED announced

Move(e, s, called) ==
  /\ s \in Successors(status[e])
  /\ \A f \in called : status[f] = "unborn"
  /\ status' = [f \in Execs |-> IF f = e THEN s ELSE IF f \in called THEN "PENDING" ELSE status[f]]
  /\ announced' = [announced EXCEPT ![e] = @ \cup ({s} \cap Verdicts)]

Delete(gone) ==
  /\ \A e \in gone : status[e] # "unborn"
  /\ status' = [e \in Execs |-> IF e \in gone THEN "deleted" ELSE status[e]]
  /\ UNCHANGED announced

Next ==
  \/ \E e \in Execs : Create(e)
  \/ \E e \in Execs, s \in Verdicts \cup {"RUNNING", "WAITING"}, called \in SUBSET Execs : Move(e, s, called)
  \/ \E gone \in SUBSET Execs : Delete(gone)

Spec == Init /\ [][Next]_lifecycle
=============================================================================
