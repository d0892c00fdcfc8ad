------------------------------ MODULE Execution ------------------------------
(***************************************************************************)
(* One execution of a routine as a value, and the pure functions the       *)
(* routine engine applies to it (services/routine-service/src/domain and   *)
(* the body of #advance in engine.ts).  Nothing here has state: Engine.tla *)
(* puts these functions inside transactions.                               *)
(*                                                                         *)
(* An execution owns one row per action of its routine, <<key, 0>>, and,   *)
(* once a "repeat for each" action has been expanded, one row <<key, i>>   *)
(* per item of its list.  The payload of an action is left out; what is    *)
(* kept of an output is the result of a condition.                         *)
(***************************************************************************)
EXTENDS Integers, FiniteSets

CONSTANTS
  Execs,      \* the identifiers executions can get (randomUUID)
  Routines,   \* the routines that can exist
  Keys,       \* the action keys, each belonging to one routine
  Action,     \* the definition of each action, see ActionDefinition
  MaxItems,   \* longest list of a loop (MAX_LOOP_ITEMS, 50 in the code)
  MaxDepth,   \* deepest call (MAX_CALL_DEPTH, 5 in the code)
  None        \* "no such thing": null in the database

Kinds == {"worker", "condition", "script", "call"}

(***************************************************************************)
(* worker: an action a worker answers through the broker; condition:       *)
(* condition.if; script: variable.set and math.calculate; call:            *)
(* routine.run.  target is the routine a call starts, as its routineId     *)
(* parameter resolves.                                                     *)
(***************************************************************************)
ActionDefinition ==
  [routine : Routines, step : Nat \ {0}, kind : Kinds, runIf : Keys \cup {None},
   is : {"true", "false"}, forEach : BOOLEAN, target : Routines \cup {None}]

(* What validateRoutine accepts: a step runs "only if" a condition of the  *)
(* same routine that runs in an earlier step.                              *)
ValidDefinition(k) ==
  Action[k].runIf \in Keys =>
    LET c == Action[Action[k].runIf] IN
    /\ c.routine = Action[k].routine
    /\ c.kind = "condition"
    /\ c.step < Action[k].step

ASSUME BoundsAssumption == MaxItems \in Nat /\ MaxDepth \in Nat
ASSUME NoneAssumption   == None \notin Execs \cup Routines \cup Keys
ASSUME ActionAssumption == /\ Action \in [Keys -> ActionDefinition]
                           /\ \A k \in Keys : ValidDefinition(k)

Row == Keys \X (0 .. MaxItems)
ASSUME CallerAssumption == None \notin Execs \X Row   \* nobody called it
StepOf(r) == Action[r[1]].step
KindOf(r) == Action[r[1]].kind
Expands(r) == Action[r[1]].forEach /\ r[2] = 0

TERMINAL_EXECUTION_STATUSES == {"COMPLETED", "FAILED"}
TERMINAL_ACTION_STATUSES == {"COMPLETED", "FAILED", "SKIPPED"}
LiveStatus == {"PENDING", "RUNNING", "WAITING"}
\* "unborn": the identifier is not used yet; "deleted": its routine was deleted
ExecutionStatus == LiveStatus \cup TERMINAL_EXECUTION_STATUSES \cup {"unborn", "deleted"}
ActionStatus == {"absent", "PENDING", "DISPATCHED", "RETRYING"} \cup TERMINAL_ACTION_STATUSES
Value == {"none", "true", "false"}

(* A row of the table executions together with its execution_actions.      *)
Execution ==
  [status : ExecutionStatus, routine : Routines \cup {None},
   caller : (Execs \X Row) \cup {None}, depth : 0 .. MaxDepth, step : Nat,
   row : [Row -> ActionStatus], val : [Keys -> Value]]

NoExecution(status) ==
  [status |-> status, routine |-> None, caller |-> None, depth |-> 0, step |-> 0,
   row |-> [r \in Row |-> "absent"], val |-> [k \in Keys |-> "none"]]

(* insertExecution and insertExecutionActions: PENDING, every action of    *)
(* the routine as a PENDING row.                                           *)
NewExecution(routine, caller, depth) ==
  [NoExecution("PENDING") EXCEPT
     !.routine = routine, !.caller = caller, !.depth = depth,
     !.row = [r \in Row |-> IF r[2] = 0 /\ Action[r[1]].routine = routine
                              THEN "PENDING" ELSE "absent"]]

RowsIn(x, statuses) == {r \in Row : x.row[r] \in statuses}
Pending(x)  == RowsIn(x, {"PENDING"})
InFlight(x) == RowsIn(x, {"DISPATCHED", "RETRYING"})

(* decideNext: a failure ends the run, something in flight is waited for,  *)
(* nothing pending completes it, and otherwise the lowest step is due.     *)
Decision(x) ==
  CASE RowsIn(x, {"FAILED"}) # {} -> "fail"
    [] RowsIn(x, {"FAILED"}) = {} /\ InFlight(x) # {} -> "wait"
    [] RowsIn(x, {"FAILED"}) = {} /\ InFlight(x) = {} /\ Pending(x) = {} -> "complete"
    [] RowsIn(x, {"FAILED"}) = {} /\ InFlight(x) = {} /\ Pending(x) # {} -> "dispatch"

EverythingPending(x) == Pending(x)   \* mutant: no barrier between steps
Batch(x) == {r \in Pending(x) : \A q \in Pending(x) : StepOf(r) <= StepOf(q)}
DueStep(x) == StepOf(CHOOSE r \in Batch(x) : TRUE)

(* inFlightStatus.  Whether a DISPATCHED row is older than waitingAfterMs  *)
(* is a question of time: both answers are possible.                       *)
InFlightStatuses(x) ==
  CASE RowsIn(x, {"RETRYING"}) # {} -> {"WAITING"}
    [] RowsIn(x, {"RETRYING"}) = {} /\ RowsIn(x, {"DISPATCHED"}) # {} -> {"RUNNING", "WAITING"}
    [] RowsIn(x, {"RETRYING"}) = {} /\ RowsIn(x, {"DISPATCHED"}) = {} -> {"RUNNING"}

(* conditionMet: the condition ran and produced the expected result.  A    *)
(* condition that was expanded into a loop has a count and no result.      *)
ConditionRan(x, k, is) == x.row[<<k, 0>>] = "COMPLETED"   \* mutant: the result is not compared
ConditionMet(x, k, is) == x.row[<<k, 0>>] = "COMPLETED" /\ x.val[k] = is

Skips(x, r) ==
  /\ r[2] = 0
  /\ Action[r[1]].runIf \in Keys
  /\ ~ConditionMet(x, Action[r[1]].runIf, Action[r[1]].is)

(***************************************************************************)
(* What handling one row of the batch can lead to: its new status, the     *)
(* number of items it expands into, the result a condition evaluates to.   *)
(* A template that does not resolve, a list that is none or too long and   *)
(* a script that cannot be computed all end in FAILED.                     *)
(***************************************************************************)
Outcome == [to : {"SKIPPED", "FAILED", "COMPLETED", "DISPATCHED"},
            items : 0 .. MaxItems, val : Value]

To(status) == [to |-> status, items |-> 0, val |-> "none"]

(* routine.run: the routine must still exist, the call must not be too deep. *)
MayCall(x, r, routines) == Action[r[1]].target \in routines /\ x.depth < MaxDepth

Handled(x, r, routines) ==
  CASE Expands(r) -> {[To("COMPLETED") EXCEPT !.items = n] : n \in 0 .. MaxItems}
    [] ~Expands(r) /\ KindOf(r) = "worker" -> {To("DISPATCHED")}
    [] ~Expands(r) /\ KindOf(r) = "script" -> {To("COMPLETED")}
    [] ~Expands(r) /\ KindOf(r) = "condition" ->
         {[To("COMPLETED") EXCEPT !.val = v] : v \in {"true", "false"}}
    [] ~Expands(r) /\ KindOf(r) = "call" ->
         IF MayCall(x, r, routines) THEN {To("DISPATCHED")} ELSE {}

Outcomes(x, r, routines) ==
  IF Skips(x, r) THEN {To("SKIPPED")} ELSE {To("FAILED")} \cup Handled(x, r, routines)

(* The rows of a batch are handled independently: what one of them reads   *)
(* (conditions, templates) was validated to come from earlier steps.       *)
BatchOutcomes(x, routines) ==
  {o \in [Batch(x) -> Outcome] : \A r \in Batch(x) : o[r] \in Outcomes(x, r, routines)}

AnyFailed(o) == \E r \in DOMAIN o : o[r].to = "FAILED"
Dispatched(o, kind) == {r \in DOMAIN o : o[r].to = "DISPATCHED" /\ KindOf(r) = kind}

(* The command of a worker row is sent only when no row of the batch       *)
(* failed; a call has been started by then.                                *)
SendTheRest(o) == Dispatched(o, "worker")   \* mutant: a failed row does not hold back the others
ToSend(o) == IF AnyFailed(o) THEN {} ELSE Dispatched(o, "worker")
Calls(o)  == Dispatched(o, "call")

RowAfterForgetsCall(x, o, r) ==   \* mutant: a started call is not marked DISPATCHED
  IF r \in DOMAIN o
    THEN IF o[r].to = "DISPATCHED" /\ r \notin ToSend(o) THEN "PENDING" ELSE o[r].to
    ELSE IF /\ <<r[1], 0>> \in DOMAIN o
            /\ r[2] \in 1 .. o[<<r[1], 0>>].items
           THEN "PENDING" ELSE x.row[r]

RowAfter(x, o, r) ==
  IF r \in DOMAIN o
    THEN IF o[r].to = "DISPATCHED" /\ r \notin ToSend(o) \cup Calls(o)
           THEN "PENDING" ELSE o[r].to
    ELSE IF /\ <<r[1], 0>> \in DOMAIN o
            /\ r[2] \in 1 .. o[<<r[1], 0>>].items
           THEN "PENDING" ELSE x.row[r]

ValAfter(x, o, k) == IF <<k, 0>> \in DOMAIN o THEN o[<<k, 0>>].val ELSE x.val[k]

(* One round of the loop in #advance that decided to dispatch. *)
Dispatch(x, o) ==
  [x EXCEPT
     !.row = [r \in Row |-> RowAfter(x, o, r)],
     !.val = [k \in Keys |-> ValAfter(x, o, k)],
     !.status = IF AnyFailed(o) THEN @ ELSE "RUNNING",
     !.step   = IF AnyFailed(o) THEN @ ELSE DueStep(x)]

Complete(x) == [x EXCEPT !.status = "COMPLETED"]

FailAndLeave(x) == [x EXCEPT !.status = "FAILED"]   \* mutant: pending rows are not skipped

(* skipPendingActions, then the execution is FAILED. *)
Fail(x) ==
  [x EXCEPT
     !.status = "FAILED",
     !.row = [r \in Row |-> IF x.row[r] = "PENDING" THEN "SKIPPED" ELSE x.row[r]]]

(* What applyResult makes of the row a result is about. *)
ResultStatus(kind) ==
  CASE kind = "completed" -> "COMPLETED"
    [] kind = "failed" -> "FAILED"
    [] kind = "retry" -> "RETRYING"

ResultKinds == {"completed", "failed", "retry"}

Answered(x, r, kind) == [x EXCEPT !.row[r] = ResultStatus(kind)]
=============================================================================
