---------------------------- MODULE EngineProofs ----------------------------
(***************************************************************************)
(* Proofs about the engine, for any set of executions, routines and        *)
(* actions: first what the functions of Execution do to one execution,     *)
(* then type correctness, then the two inductive invariants, and in the    *)
(* end what the runs check and that the engine implements the lifecycle.   *)
(***************************************************************************)
EXTENDS EngineInvariant, TLAPS, WellFoundedInduction

(* Rows, steps and kinds have their types (ActionDefinition). *)
LEMMA RowType ==
  ASSUME NEW r \in Row
  PROVE  /\ r = <<r[1], r[2]>> /\ r[1] \in Keys /\ r[2] \in 0 .. MaxItems
         /\ <<r[1], 0>> \in Row
         /\ StepOf(r) \in Nat
BY ActionAssumption, BoundsAssumption DEF Row, StepOf, ActionDefinition

(* decideNext: when something is pending there is a lowest pending step. *)
LEMMA BatchNonEmpty ==
  ASSUME NEW x, Pending(x) # {}
  PROVE  Batch(x) # {}
<1> DEFINE Steps == {StepOf(r) : r \in Pending(x)}
<1>1. Pending(x) \subseteq Row
  BY DEF Pending, RowsIn
<1>2. Steps \in SUBSET Nat /\ Steps # {}
  <2>1. \A r \in Pending(x) : StepOf(r) \in Nat
    BY <1>1, RowType
  <2> QED BY <2>1
<1>3. PICK s \in Steps : \A t \in Steps : ~ (<<t, s>> \in OpToRel(<, Nat))
  BY <1>2, NatLessThanWellFounded, WFMin
<1>4. \A t \in Nat : t < s => <<t, s>> \in OpToRel(<, Nat)
  BY <1>2, Zenon DEF OpToRel
<1>5. \A t \in Steps : s <= t
  <2> HIDE DEF Steps
  <2>1. ASSUME NEW t \in Steps PROVE ~(t < s)
    BY <1>2, <1>3, <1>4, Zenon
  <2> QED BY <1>2, <2>1
<1>6. PICK r \in Pending(x) : s = StepOf(r)
  BY <1>3
<1>7. r \in Batch(x)
  BY <1>5, <1>6 DEF Batch
<1> QED BY <1>7

(* The step a round of #advance dispatches is the step of its batch. *)
LEMMA DueStepType ==
  ASSUME NEW x, Pending(x) # {}
  PROVE  DueStep(x) \in Nat
<1>1. PICK r \in Batch(x) : r = (CHOOSE q \in Batch(x) : TRUE)
  BY BatchNonEmpty
<1>2. r \in Row
  BY <1>1 DEF Batch, Pending, RowsIn
<1> QED BY <1>1, <1>2, RowType DEF DueStep

-----------------------------------------------------------------------------
(* Types of the values the engine builds. *)

LEMMA NoExecutionType ==
  ASSUME NEW st \in ExecutionStatus
  PROVE  NoExecution(st) \in Execution
BY BoundsAssumption DEF NoExecution, Execution, ActionStatus, Value

LEMMA NewExecutionType ==
  ASSUME NEW rt \in Routines, NEW c \in (Execs \X Row) \cup {None}, NEW d \in 0 .. MaxDepth
  PROVE  NewExecution(rt, c, d) \in Execution
BY NoExecutionType
   DEF NewExecution, NoExecution, Execution, ActionStatus, Value, ExecutionStatus, LiveStatus

LEMMA DispatchType ==
  ASSUME NEW x \in Execution, NEW S, NEW o \in BatchOutcomes(x, S),
         Decision(x) = "dispatch"
  PROVE  /\ Dispatch(x, o) \in Execution
         /\ DOMAIN o = Batch(x) /\ o \in [Batch(x) -> Outcome]
<1>1. o \in [Batch(x) -> Outcome] /\ DOMAIN o = Batch(x)
  BY DEF BatchOutcomes
<1>2. \A r \in Row : RowAfter(x, o, r) \in ActionStatus
  <2> TAKE r \in Row
  <2>1. CASE r \in DOMAIN o
    <3>1. o[r].to \in {"SKIPPED", "FAILED", "COMPLETED", "DISPATCHED"}
      BY <1>1, <2>1 DEF Outcome
    <3> QED BY <2>1, <3>1 DEF RowAfter, ActionStatus, TERMINAL_ACTION_STATUSES
  <2>2. CASE r \notin DOMAIN o
    BY <2>2 DEF RowAfter, ActionStatus, Execution
  <2> QED BY <2>1, <2>2
<1>3. \A k \in Keys : ValAfter(x, o, k) \in Value
  BY <1>1 DEF ValAfter, Outcome, Execution
<1>4. DueStep(x) \in Nat
  BY DueStepType DEF Decision
<1> QED
  BY <1>1, <1>2, <1>3, <1>4 DEF Dispatch, Execution, ExecutionStatus, LiveStatus

LEMMA FailType ==
  ASSUME NEW x \in Execution
  PROVE  Fail(x) \in Execution /\ Complete(x) \in Execution
BY DEF Fail, Complete, Execution, ExecutionStatus, ActionStatus, TERMINAL_ACTION_STATUSES,
       TERMINAL_EXECUTION_STATUSES

LEMMA AnsweredType ==
  ASSUME NEW x \in Execution, NEW r \in Row, NEW kind \in ResultKinds
  PROVE  /\ Answered(x, r, kind) \in Execution
         /\ ResultStatus(kind) \in {"COMPLETED", "FAILED", "RETRYING"}
<1>1. ResultStatus(kind) \in {"COMPLETED", "FAILED", "RETRYING"}
  BY DEF ResultStatus, ResultKinds
<1> QED
  BY <1>1 DEF Answered, Execution, ActionStatus, TERMINAL_ACTION_STATUSES

-----------------------------------------------------------------------------
(* What a round of #advance and a result do to a good execution. *)

(* Only an expanded action has items, and it is completed by that. *)
LEMMA ItemsOfCompleted ==
  ASSUME NEW x \in Execution, NEW S, NEW o \in BatchOutcomes(x, S), NEW r \in Batch(x)
  PROVE  /\ o[r] \in Outcome
         /\ o[r].items # 0 => o[r].to = "COMPLETED" /\ r[2] = 0
<1>1. o[r] \in Outcomes(x, r, S) /\ o[r] \in Outcome
  BY DEF BatchOutcomes
<1>2. CASE o[r] = To("SKIPPED") \/ o[r] = To("FAILED") \/ o[r] = To("DISPATCHED")
  BY <1>1, <1>2 DEF To
<1>3. CASE o[r] \in Handled(x, r, S)
  <2>1. CASE Expands(r)
    BY <1>1, <1>3, <2>1 DEF Handled, Expands, To
  <2>2. CASE ~Expands(r)
    <3>1. r \in Row /\ KindOf(r) \in Kinds
      BY ActionAssumption DEF Batch, Pending, RowsIn, Row, KindOf, ActionDefinition
    <3> QED BY <1>1, <1>3, <2>2, <3>1 DEF Handled, To, Kinds
  <2> QED BY <2>1, <2>2
<1> QED BY <1>1, <1>2, <1>3 DEF Outcomes

(* The rows of an execution that dispatches: none is in flight or failed,  *)
(* and the batch holds the lowest pending step.                            *)
LEMMA RowsWhenDispatching ==
  ASSUME NEW x \in Execution, Decision(x) = "dispatch"
  PROVE  /\ \A r \in Row : x.row[r] \in {"absent", "PENDING", "COMPLETED", "SKIPPED"}
         /\ \A r \in Batch(x) : r \in Row /\ x.row[r] = "PENDING"
         /\ \A r \in Batch(x), q \in Row : x.row[q] = "PENDING" => StepOf(r) <= StepOf(q)
<1>1. RowsIn(x, {"FAILED"}) = {} /\ InFlight(x) = {}
  BY DEF Decision
<1>2. \A r \in Row : x.row[r] \in ActionStatus
  BY DEF Execution
<1>3. \A r \in Row : x.row[r] \in {"absent", "PENDING", "COMPLETED", "SKIPPED"}
  BY <1>1, <1>2 DEF RowsIn, InFlight, ActionStatus, TERMINAL_ACTION_STATUSES
<1> QED BY <1>3 DEF Batch, Pending, RowsIn

(* What a row is after a round, by where it stood before. *)
LEMMA RowsAfterDispatch ==
  ASSUME NEW x \in Execution, NEW S, NEW o \in BatchOutcomes(x, S),
         Decision(x) = "dispatch", ExpandedOnce(x), NEW r \in Row
  PROVE  /\ Dispatch(x, o).row[r] = RowAfter(x, o, r)
         /\ r \in Batch(x) =>
              RowAfter(x, o, r) \in {"PENDING", "SKIPPED", "FAILED", "COMPLETED", "DISPATCHED"}
         /\ r \notin Batch(x) =>
              \/ RowAfter(x, o, r) = x.row[r]
              \/ /\ RowAfter(x, o, r) = "PENDING"
                 /\ x.row[r] = "absent"
                 /\ r[2] # 0
                 /\ <<r[1], 0>> \in Batch(x)
                 /\ RowAfter(x, o, <<r[1], 0>>) = "COMPLETED"
<1>1. DOMAIN o = Batch(x) /\ o \in [Batch(x) -> Outcome]
  BY DispatchType
<1>2. Dispatch(x, o).row[r] = RowAfter(x, o, r)
  BY DEF Dispatch, Execution
<1>3. ASSUME r \in Batch(x)
      PROVE  RowAfter(x, o, r) \in {"PENDING", "SKIPPED", "FAILED", "COMPLETED", "DISPATCHED"}
  BY <1>1, <1>3 DEF RowAfter, Outcome
<1>4. ASSUME r \notin Batch(x), RowAfter(x, o, r) # x.row[r]
      PROVE  /\ RowAfter(x, o, r) = "PENDING"
             /\ x.row[r] = "absent"
             /\ r[2] # 0
             /\ <<r[1], 0>> \in Batch(x)
             /\ RowAfter(x, o, <<r[1], 0>>) = "COMPLETED"
  <2> DEFINE p == <<r[1], 0>>
  <2>1. p \in Batch(x) /\ r[2] \in 1 .. o[p].items /\ RowAfter(x, o, r) = "PENDING"
    BY <1>1, <1>4 DEF RowAfter
  <2>2. r[2] # 0 /\ p \in Row
    BY <2>1, RowType
  <2>3. o[p].to = "COMPLETED"
    <3>1. o[p].items \in Nat
      BY <1>1, <2>1, BoundsAssumption DEF Outcome
    <3>2. o[p].items # 0
      BY <2>1, <3>1
    <3> QED BY <2>1, <3>2, ItemsOfCompleted
  <2>4. x.row[p] = "PENDING"
    BY <2>1, RowsWhenDispatching
  <2>5. x.row[r] = "absent"
    BY <2>2, <2>4 DEF ExpandedOnce
  <2>6. RowAfter(x, o, p) = "COMPLETED"
    BY <1>1, <2>1, <2>3 DEF RowAfter
  <2> QED BY <2>1, <2>2, <2>5, <2>6
<1> QED BY <1>2, <1>3, <1>4

(* A round of #advance keeps the steps in order: the batch holds the lowest *)
(* pending step, and everything before it is over.                         *)
LEMMA DispatchGood ==
  ASSUME NEW x \in Execution, NEW S, NEW o \in BatchOutcomes(x, S),
         Decision(x) = "dispatch", Good(x), x.status \in LiveStatus
  PROVE  /\ Good(Dispatch(x, o))
         /\ Dispatch(x, o).status \in LiveStatus
         /\ Dispatch(x, o).caller = x.caller /\ Dispatch(x, o).depth = x.depth
         /\ \A r \in Row : x.row[r] \in Left => Dispatch(x, o).row[r] \in Left
         /\ \A r \in ToSend(o) \cup Calls(o) : r \in Row /\ Dispatch(x, o).row[r] \in Left
<1> DEFINE y == Dispatch(x, o)
<1>1. ExpandedOnce(x) /\ Ordered(x)
  BY DEF Good
<1>2. /\ DOMAIN o = Batch(x) /\ o \in [Batch(x) -> Outcome]
      /\ y \in Execution
  BY DispatchType
<1>3. y.status \in LiveStatus /\ y.caller = x.caller /\ y.depth = x.depth
  BY DEF Dispatch, Execution, LiveStatus
<1>4. \A r \in Row :
        /\ y.row[r] = RowAfter(x, o, r)
        /\ r \in Batch(x) =>
             y.row[r] \in {"PENDING", "SKIPPED", "FAILED", "COMPLETED", "DISPATCHED"}
        /\ r \notin Batch(x) =>
             \/ y.row[r] = x.row[r]
             \/ /\ y.row[r] = "PENDING" /\ x.row[r] = "absent" /\ r[2] # 0
                /\ <<r[1], 0>> \in Batch(x)
                /\ y.row[<<r[1], 0>>] = "COMPLETED"
  <2>1. \A r \in Row : y.row[r] = RowAfter(x, o, r)
    BY <1>1, RowsAfterDispatch
  <2>2. \A r \in Row : <<r[1], 0>> \in Row
    BY RowType
  <2> HIDE DEF y
  <2> TAKE r \in Row
  <2>3. r \in Batch(x) =>
          y.row[r] \in {"PENDING", "SKIPPED", "FAILED", "COMPLETED", "DISPATCHED"}
    BY <1>1, <2>1, RowsAfterDispatch
  <2>4. ASSUME r \notin Batch(x), y.row[r] # x.row[r]
        PROVE  /\ y.row[r] = "PENDING" /\ x.row[r] = "absent" /\ r[2] # 0
               /\ <<r[1], 0>> \in Batch(x)
               /\ y.row[<<r[1], 0>>] = "COMPLETED"
    BY <1>1, <2>1, <2>2, <2>4, RowsAfterDispatch
  <2> QED BY <2>1, <2>3, <2>4
<1>5. \A r \in Row : x.row[r] \in Left => y.row[r] \in Left
  BY <1>4, RowsWhenDispatching DEF Left
<1>6. Ordered(y)
  <2> SUFFICES ASSUME NEW r \in Row, NEW q \in Row,
                      y.row[r] \in Left, StepOf(q) < StepOf(r)
               PROVE  y.row[q] \in {"absent", "COMPLETED", "SKIPPED"}
    BY DEF Ordered
  <2>0. StepOf(q) \in Nat /\ StepOf(r) \in Nat
    BY RowType
  <2>1. CASE r \in Batch(x)
    <3>1. x.row[q] # "PENDING"
      BY <2>0, <2>1, RowsWhenDispatching, RowType
    <3>2. x.row[q] \in {"absent", "COMPLETED", "SKIPPED"}
      BY <3>1, RowsWhenDispatching
    <3>3. q \notin Batch(x)
      BY <3>1, RowsWhenDispatching
    <3>4. <<q[1], 0>> \notin Batch(x)
      <4>1. StepOf(<<q[1], 0>>) = StepOf(q) /\ <<q[1], 0>> \in Row
        BY RowType DEF StepOf
      <4> QED BY <2>0, <2>1, <4>1, RowsWhenDispatching, RowType
    <3> QED BY <1>4, <3>2, <3>3, <3>4
  <2>2. CASE r \notin Batch(x)
    <3>1. x.row[r] \in Left
      BY <1>4, <2>2 DEF Left
    <3>2. x.row[q] \in {"absent", "COMPLETED", "SKIPPED"}
      BY <1>1, <3>1 DEF Ordered
    <3>3. q \notin Batch(x)
      BY <3>2, RowsWhenDispatching
    <3>4. <<q[1], 0>> \notin Batch(x)
      <4>1. StepOf(<<q[1], 0>>) = StepOf(q) /\ <<q[1], 0>> \in Row
        BY RowType DEF StepOf
      <4>2. x.row[<<q[1], 0>>] \in {"absent", "COMPLETED", "SKIPPED"}
        BY <1>1, <3>1, <4>1 DEF Ordered
      <4> QED BY <4>2, RowsWhenDispatching
    <3> QED BY <1>4, <3>2, <3>3, <3>4
  <2> QED BY <2>1, <2>2
<1>7. ExpandedOnce(y)
  <2> SUFFICES ASSUME NEW r \in Row, y.row[r] # "absent", r[2] # 0
               PROVE  y.row[<<r[1], 0>>] \notin {"absent", "PENDING"}
    BY DEF ExpandedOnce
  <2> DEFINE p == <<r[1], 0>>
  <2>1. p \in Row
    BY RowType
  <2>2. CASE x.row[r] # "absent"
    <3>1. x.row[p] \notin {"absent", "PENDING"}
      BY <1>1, <2>2 DEF ExpandedOnce
    <3>2. p \notin Batch(x)
      BY <3>1, RowsWhenDispatching
    <3> QED BY <1>4, <2>1, <3>1, <3>2
  <2>3. CASE x.row[r] = "absent"
    <3>1. r \notin Batch(x)
      BY <2>3, RowsWhenDispatching
    <3> QED BY <1>4, <2>3, <3>1
  <2> QED BY <2>2, <2>3
<1>8. Judged(y)
  BY <1>3 DEF Judged, LiveStatus
<1>9. \A r \in ToSend(o) \cup Calls(o) : r \in Row /\ y.row[r] \in Left
  <2> SUFFICES ASSUME NEW r \in ToSend(o) \cup Calls(o)
               PROVE  r \in Row /\ y.row[r] \in Left
    OBVIOUS
  <2>1. r \in Batch(x) /\ o[r].to = "DISPATCHED"
    BY <1>2 DEF ToSend, Calls, Dispatched
  <2>2. r \in Row
    BY <2>1, RowsWhenDispatching
  <2>3. RowAfter(x, o, r) = "DISPATCHED"
    BY <1>2, <2>1 DEF RowAfter
  <2> QED BY <1>4, <2>2, <2>3 DEF Left
<1> QED BY <1>3, <1>5, <1>6, <1>7, <1>8, <1>9 DEF Good

(* Ending an execution: the verdict is what #advance read off the rows. *)
LEMMA EndGood ==
  ASSUME NEW x \in Execution, Good(x)
  PROVE  /\ Decision(x) = "complete" => Good(Complete(x))
         /\ Decision(x) = "fail" => Good(Fail(x))
         /\ Complete(x).row = x.row
         /\ \A r \in Row : x.row[r] \in Left => Fail(x).row[r] \in Left
         /\ Complete(x).caller = x.caller /\ Fail(x).caller = x.caller
         /\ Complete(x).depth = x.depth /\ Fail(x).depth = x.depth
         /\ Complete(x).status = "COMPLETED" /\ Fail(x).status = "FAILED"
<1>1. /\ Complete(x).row = x.row /\ Complete(x).caller = x.caller
      /\ Complete(x).depth = x.depth /\ Complete(x).status = "COMPLETED"
  BY DEF Complete, Execution
<1>2. /\ \A r \in Row : Fail(x).row[r] = IF x.row[r] = "PENDING" THEN "SKIPPED" ELSE x.row[r]
      /\ Fail(x).caller = x.caller /\ Fail(x).depth = x.depth /\ Fail(x).status = "FAILED"
  BY DEF Fail, Execution
<1>3. \A r \in Row : x.row[r] \in ActionStatus
  BY DEF Execution
<1>4. ASSUME Decision(x) = "complete" PROVE Good(Complete(x))
  <2>1. \A r \in Row : x.row[r] \in {"absent", "COMPLETED", "SKIPPED"}
    <3>1. RowsIn(x, {"FAILED"}) = {} /\ InFlight(x) = {} /\ Pending(x) = {}
      BY <1>4 DEF Decision
    <3> QED
      BY <1>3, <3>1 DEF RowsIn, InFlight, Pending, ActionStatus, TERMINAL_ACTION_STATUSES
  <2> QED BY <1>1, <2>1 DEF Good, Ordered, Judged, ExpandedOnce
<1>5. ASSUME Decision(x) = "fail" PROVE Good(Fail(x))
  <2>1. RowsIn(x, {"FAILED"}) # {}
    BY <1>5 DEF Decision
  <2>2. Ordered(Fail(x))
    BY <1>2 DEF Good, Ordered, Left
  <2>3. ExpandedOnce(Fail(x))
    BY <1>2, RowType DEF Good, ExpandedOnce
  <2>4. RowsIn(Fail(x), {"FAILED"}) # {} /\ Pending(Fail(x)) = {}
    BY <1>2, <2>1 DEF RowsIn, Pending
  <2> QED BY <1>2, <2>2, <2>3, <2>4 DEF Good, Judged
<1> QED BY <1>1, <1>2, <1>4, <1>5 DEF Left

(* A result for a row in flight. *)
LEMMA AnsweredGood ==
  ASSUME NEW x \in Execution, Good(x), NEW r \in Row, NEW kind \in ResultKinds,
         x.row[r] \in {"DISPATCHED", "RETRYING"}
  PROVE  /\ Good(Answered(x, r, kind))
         /\ \A q \in Row : x.row[q] \in Left => Answered(x, r, kind).row[q] \in Left
         /\ Answered(x, r, kind).caller = x.caller
         /\ Answered(x, r, kind).depth = x.depth
         /\ Answered(x, r, kind).status = x.status
<1> DEFINE y == Answered(x, r, kind)
<1>1. /\ y.caller = x.caller /\ y.depth = x.depth /\ y.status = x.status
      /\ y.row[r] \in {"COMPLETED", "FAILED", "RETRYING"}
      /\ \A q \in Row : q # r => y.row[q] = x.row[q]
  BY AnsweredType DEF Answered, Execution
<1> HIDE DEF y
<1>2. Ordered(y)
  <2> SUFFICES ASSUME NEW p \in Row, NEW q \in Row,
                      y.row[p] \in Left, StepOf(q) < StepOf(p)
               PROVE  y.row[q] \in {"absent", "COMPLETED", "SKIPPED"}
    BY DEF Ordered
  <2>1. x.row[p] \in Left
    BY <1>1 DEF Left
  <2>2. x.row[q] \in {"absent", "COMPLETED", "SKIPPED"}
    BY <2>1 DEF Good, Ordered
  <2> QED BY <1>1, <2>2
<1>3. ExpandedOnce(y)
  BY <1>1, RowType DEF Good, ExpandedOnce
<1>4. Judged(y)
  <2>1. x.status # "COMPLETED"
    BY DEF Good, Judged
  <2>2. ASSUME x.status = "FAILED"
        PROVE  RowsIn(y, {"FAILED"}) # {} /\ Pending(y) = {}
    <3>1. RowsIn(x, {"FAILED"}) # {} /\ Pending(x) = {}
      BY <2>2 DEF Good, Judged
    <3> QED BY <1>1, <3>1 DEF RowsIn, Pending
  <2> QED BY <1>1, <2>1, <2>2 DEF Judged
<1>5. \A q \in Row : x.row[q] \in Left => y.row[q] \in Left
  BY <1>1 DEF Left
<1> QED BY <1>1, <1>2, <1>3, <1>4, <1>5 DEF Good, y

(* A change between the statuses of a live execution leaves its rows alone. *)
LEMMA StatusGood ==
  ASSUME NEW x \in Execution, Good(x), NEW s \in LiveStatus
  PROVE  /\ Good([x EXCEPT !.status = s])
         /\ [x EXCEPT !.status = s] \in Execution
         /\ [x EXCEPT !.status = s].status = s
         /\ [x EXCEPT !.status = s].row = x.row
         /\ [x EXCEPT !.status = s].caller = x.caller
         /\ [x EXCEPT !.status = s].depth = x.depth
<1> DEFINE y == [x EXCEPT !.status = s]
<1>1. /\ y.status = s /\ y.row = x.row /\ y.caller = x.caller /\ y.depth = x.depth
      /\ y \in Execution
  BY DEF Execution, ExecutionStatus
<1> HIDE DEF y
<1>2. Good(y)
  BY <1>1 DEF Good, Ordered, ExpandedOnce, Judged, LiveStatus
<1> QED BY <1>1, <1>2 DEF y

(* A new execution, a deleted one and one that never was have run nothing. *)
LEMMA NewGood ==
  /\ \A st \in {"unborn", "deleted"} :
       /\ Good(NoExecution(st)) /\ NoExecution(st).status = st /\ NoExecution(st).caller = None
  /\ \A rt, c, d : /\ Good(NewExecution(rt, c, d))
                   /\ NewExecution(rt, c, d).status = "PENDING"
                   /\ NewExecution(rt, c, d).caller = c
<1>1. \A st \in {"unborn", "deleted"} :
       /\ Good(NoExecution(st)) /\ NoExecution(st).status = st /\ NoExecution(st).caller = None
  BY DEF NoExecution, Good, Ordered, Judged, ExpandedOnce, Left
<1>2. ASSUME NEW rt, NEW c, NEW d
      PROVE  /\ Good(NewExecution(rt, c, d))
             /\ NewExecution(rt, c, d).status = "PENDING" /\ NewExecution(rt, c, d).caller = c
  <2> DEFINE y == NewExecution(rt, c, d)
  <2>1. /\ y.status = "PENDING" /\ y.caller = c
        /\ \A r \in Row : y.row[r] \in {"absent", "PENDING"}
        /\ \A r \in Row : r[2] # 0 => y.row[r] = "absent"
    BY DEF NewExecution, NoExecution
  <2> HIDE DEF y
  <2>2. Good(y)
    BY <2>1 DEF Good, Ordered, Judged, ExpandedOnce, Left
  <2> QED BY <2>1, <2>2 DEF y
<1> QED BY <1>1, <1>2

-----------------------------------------------------------------------------
(* Type correctness. *)

LEMMA NoTransactionType == NoTransaction \in Transaction
BY NoExecutionType DEF NoTransaction, Transaction, ExecutionStatus

(* A step that changes the transaction on e to t and no other table. *)
LEMMA TxStepType ==
  ASSUME TypeInv, NEW e \in Execs, NEW t \in Transaction,
         tx' = [tx EXCEPT ![e] = t],
         \A kid \in t.kids :
           t.work.depth < MaxDepth /\ Action[kid[2][1]].target \in Routines
  PROVE  tx' \in [Execs -> Transaction] /\ CallsTyped'
<1>1. tx' \in [Execs -> Transaction]
  BY DEF TypeInv, TypeOK
<1>2. tx'[e] = t /\ \A f \in Execs : f # e => tx'[f] = tx[f]
  BY DEF TypeInv, TypeOK
<1>3. CallsTyped'
  <2> SUFFICES ASSUME NEW f \in Execs, NEW kid \in tx'[f].kids
               PROVE  tx'[f].work.depth < MaxDepth /\ Action[kid[2][1]].target \in Routines
    BY DEF CallsTyped
  <2>1. CASE f = e
    BY <1>2, <2>1
  <2>2. CASE f # e
    BY <1>2, <2>2 DEF TypeInv, CallsTyped
  <2> QED BY <2>1, <2>2
<1> QED BY <1>1, <1>3

LEMMA DispatchStepType ==
  ASSUME TypeInv, NEW e \in Execs, AdvanceDispatch(e)
  PROVE  TypeInv'
<1> DEFINE x == tx[e].work
<1>1. Advancing(e, "dispatch") /\ UNCHANGED <<exec, outbox, sent, routines, stale, aborts>>
  BY DEF AdvanceDispatch
<1>2. PICK o \in BatchOutcomes(x, routines) :
        \E id \in [Calls(o) -> FreeIds] : tx' = [tx EXCEPT ![e] = DispatchTx(e, o, id)]
  BY DEF AdvanceDispatch
<1>2a. PICK id \in [Calls(o) -> FreeIds] : tx' = [tx EXCEPT ![e] = DispatchTx(e, o, id)]
  BY <1>2
<1> DEFINE t == DispatchTx(e, o, id)
<1>3. tx[e] \in Transaction /\ x \in Execution /\ Decision(x) = "dispatch"
  BY <1>1 DEF TypeInv, TypeOK, Transaction, Advancing
<1>4. Dispatch(x, o) \in Execution /\ DOMAIN o = Batch(x) /\ o \in [Batch(x) -> Outcome]
  BY <1>3, DispatchType
<1>5. Batch(x) \subseteq Row /\ ToSend(o) \subseteq Row /\ Calls(o) \subseteq Row
  BY <1>4 DEF Batch, Pending, RowsIn, ToSend, Calls, Dispatched
<1>6. FreeIds \subseteq Execs
  BY DEF FreeIds
<1>7. {ActionRequested(e, r) : r \in ToSend(o)} \subseteq Message
  BY <1>5 DEF ActionRequested, Message, MessageTypes
<1>8. {RoutineTriggered(id[r]) : r \in Calls(o)} \subseteq Message
  BY <1>6 DEF RoutineTriggered, Message, MessageTypes
<1>9. t \in Transaction
  <2>1. t.kids \subseteq Execs \X Row
    BY <1>3, <1>5, <1>6 DEF Transaction, DispatchTx
  <2>2. t.out \subseteq Message
    BY <1>3, <1>7, <1>8 DEF Transaction, DispatchTx
  <2>3. t.phase \in {"none", "advance", "done"} /\ t.seen \in ExecutionStatus
    BY <1>3 DEF PhaseAfter, Transaction, DispatchTx
  <2> QED BY <1>4, <2>1, <2>2, <2>3 DEF Transaction, DispatchTx
<1>10. Dispatch(x, o).depth = x.depth
  BY <1>3 DEF Dispatch, Execution
<1>11. ASSUME NEW r \in Calls(o)
       PROVE  x.depth < MaxDepth /\ Action[r[1]].target \in Routines
  <2>1. r \in Batch(x) /\ o[r].to = "DISPATCHED" /\ KindOf(r) = "call"
    BY <1>4, <1>11 DEF Calls, Dispatched
  <2>2. o[r] \in Outcomes(x, r, routines)
    BY <1>2, <2>1 DEF BatchOutcomes
  <2>3. o[r] \in Handled(x, r, routines)
    BY <2>1, <2>2 DEF Outcomes, To
  <2>4. ~Expands(r)
    <3> SUFFICES ASSUME Expands(r) PROVE FALSE
      OBVIOUS
    <3>1. o[r].to = "COMPLETED"
      BY <2>3 DEF Handled, To
    <3> QED BY <2>1, <3>1
  <2>5. MayCall(x, r, routines)
    BY <2>1, <2>3, <2>4 DEF Handled
  <2> QED BY <2>5 DEF MayCall, TypeInv, TypeOK
<1>12. \A kid \in t.kids :
         t.work.depth < MaxDepth /\ Action[kid[2][1]].target \in Routines
  BY <1>10, <1>11 DEF TypeInv, CallsTyped, DispatchTx
<1>13. tx' \in [Execs -> Transaction] /\ CallsTyped'
  BY <1>2a, <1>9, <1>12, TxStepType
<1> QED BY <1>1, <1>13 DEF TypeInv, TypeOK

LEMMA EndStepType ==
  ASSUME TypeInv, NEW e \in Execs, NEW x \in Execution, End(e, x),
         x.depth = tx[e].work.depth, x.status \in TERMINAL_EXECUTION_STATUSES
  PROVE  TypeInv'
<1> DEFINE t == [tx[e] EXCEPT !.phase = "done", !.work = x,
                   !.out = @ \cup {ExecutionEnded(e, x.status)} \cup Report(x, x.status)]
<1>1. tx' = [tx EXCEPT ![e] = t] /\ tx[e] \in Transaction
  BY DEF End, TypeInv, TypeOK
<1>2. ExecutionEnded(e, x.status) \in Message
  BY DEF ExecutionEnded, Message, MessageTypes
<1>3. Report(x, x.status) \subseteq Message
  BY DEF Report, SubRoutineResult, Message, MessageTypes, Execution
<1>4. t \in Transaction
  BY <1>1, <1>2, <1>3 DEF Transaction
<1>5. \A kid \in t.kids : t.work.depth < MaxDepth /\ Action[kid[2][1]].target \in Routines
  BY <1>1 DEF TypeInv, CallsTyped, Transaction
<1>6. tx' \in [Execs -> Transaction] /\ CallsTyped'
  BY <1>1, <1>4, <1>5, TxStepType
<1> QED BY <1>6 DEF End, TypeInv, TypeOK

LEMMA WaitStepType ==
  ASSUME TypeInv, NEW e \in Execs, AdvanceWait(e)
  PROVE  TypeInv'
<1>1. PICK s \in InFlightStatuses(tx[e].work) :
        tx' = [tx EXCEPT ![e].phase = "done",
                 ![e].work.status = IF s = tx[e].seen THEN @ ELSE s]
  BY DEF AdvanceWait
<1>2. s \in ExecutionStatus
  BY <1>1 DEF InFlightStatuses, ExecutionStatus, LiveStatus
<1> DEFINE w == [tx[e].work EXCEPT !.status = IF s = tx[e].seen THEN @ ELSE s]
           t == [tx[e] EXCEPT !.phase = "done", !.work = w]
<1>3. tx[e] \in Transaction /\ tx' = [tx EXCEPT ![e] = t]
  BY <1>1 DEF TypeInv, TypeOK, Transaction
<1>4. w \in Execution /\ w.depth = tx[e].work.depth
  BY <1>2, <1>3 DEF Transaction, Execution
<1> HIDE DEF w
<1>5. t \in Transaction /\ t.kids = tx[e].kids /\ t.work = w
  BY <1>3, <1>4 DEF Transaction
<1> HIDE DEF t
<1>6. \A kid \in t.kids : t.work.depth < MaxDepth /\ Action[kid[2][1]].target \in Routines
  BY <1>4, <1>5 DEF TypeInv, CallsTyped
<1>7. tx' \in [Execs -> Transaction] /\ CallsTyped'
  BY <1>3, <1>5, <1>6, TxStepType
<1> QED BY <1>7 DEF AdvanceWait, TypeInv, TypeOK

LEMMA OpenStepType ==
  ASSUME TypeInv, NEW e \in Execs, NEW phase \in {"advance", "done"}, NEW w \in Execution,
         NEW seen \in ExecutionStatus, Open(e, phase, w, seen),
         UNCHANGED <<exec, outbox, sent, routines, stale, aborts>>
  PROVE  TypeInv'
<1> DEFINE t == [phase |-> phase, work |-> w, seen |-> seen, out |-> {}, kids |-> {}]
<1>1. t \in Transaction /\ tx' = [tx EXCEPT ![e] = t]
  BY DEF Transaction, Open
<1>2. tx' \in [Execs -> Transaction] /\ CallsTyped'
  BY <1>1, TxStepType
<1> QED BY <1>2 DEF TypeInv, TypeOK

LEMMA NoTransactionStepType ==
  ASSUME TypeInv, NEW e \in Execs, tx' = [tx EXCEPT ![e] = NoTransaction]
  PROVE  tx' \in [Execs -> Transaction] /\ CallsTyped'
<1>1. \A kid \in NoTransaction.kids :
        NoTransaction.work.depth < MaxDepth /\ Action[kid[2][1]].target \in Routines
  BY DEF NoTransaction
<1> QED BY <1>1, NoTransactionType, TxStepType

LEMMA CommitStepType ==
  ASSUME TypeInv, NEW e \in Execs, Commit(e)
  PROVE  TypeInv'
<1>1. tx' \in [Execs -> Transaction] /\ CallsTyped'
  BY NoTransactionStepType DEF Commit
<1>2. ASSUME NEW f \in Execs PROVE exec'[f] \in Execution
  <2>1. tx[e] \in Transaction /\ exec[f] \in Execution
    BY DEF TypeInv, TypeOK
  <2>2. CASE \E r \in Row : <<f, r>> \in tx[e].kids
    <3> DEFINE r == CHOOSE r \in Row : <<f, r>> \in tx[e].kids
    <3>1. r \in Row /\ <<f, r>> \in tx[e].kids
      BY <2>2
    <3> HIDE DEF r
    <3>2. tx[e].work.depth < MaxDepth /\ Action[r[1]].target \in Routines
      BY <3>1 DEF TypeInv, CallsTyped
    <3>3. tx[e].work.depth + 1 \in 0 .. MaxDepth
      BY <2>1, <3>2, BoundsAssumption DEF Transaction, Execution
    <3>4. Child(e, r) \in Execution
      BY <3>1, <3>2, <3>3, NewExecutionType DEF Child
    <3> QED BY <2>1, <2>2, <3>4 DEF Commit, Transaction, r
  <2>3. CASE ~ \E r \in Row : <<f, r>> \in tx[e].kids
    BY <2>1, <2>3 DEF Commit, Transaction
  <2> QED BY <2>2, <2>3
<1>3. exec' \in [Execs -> Execution]
  BY <1>2 DEF Commit
<1>4. outbox' \subseteq Message
  BY DEF Commit, TypeInv, TypeOK, Transaction
<1> QED BY <1>1, <1>3, <1>4 DEF Commit, TypeInv, TypeOK

LEMMA TypeInit == Init => TypeInv
<1> SUFFICES ASSUME Init PROVE TypeInv
  OBVIOUS
<1>1. NoTransaction \in Transaction /\ NoTransaction.kids = {}
  BY NoTransactionType DEF NoTransaction
<1>2. NoExecution("unborn") \in Execution
  BY NoExecutionType DEF ExecutionStatus
<1>3. CallsTyped
  BY <1>1 DEF Init, CallsTyped
<1> QED BY <1>1, <1>2, <1>3, BoundsAssumption, AbortsAssumption DEF Init, TypeInv, TypeOK

LEMMA TypeStep == TypeInv /\ [Next]_vars => TypeInv'
<1> SUFFICES ASSUME TypeInv, [Next]_vars PROVE TypeInv'
  OBVIOUS
<1>0. TypeOK /\ CallsTyped
  BY DEF TypeInv
<1>1. ASSUME NEW e \in Execs, NEW r \in Routines, Trigger(e, r) PROVE TypeInv'
  <2>1. NewExecution(r, None, 0) \in Execution
    BY NewExecutionType, BoundsAssumption
  <2>2. RoutineTriggered(e) \in Message
    BY DEF RoutineTriggered, Message, MessageTypes
  <2> QED BY <1>0, <1>1, <2>1, <2>2 DEF Trigger, TypeInv, TypeOK, CallsTyped
<1>2. ASSUME NEW e \in Execs, Start(e) PROVE TypeInv'
  <2>1. [exec[e] EXCEPT !.status = "RUNNING"] \in Execution
    BY <1>0 DEF TypeOK, Execution, ExecutionStatus, LiveStatus
  <2> QED BY <1>2, <2>1, OpenStepType DEF Start, ExecutionStatus, LiveStatus
<1>3. ASSUME NEW e \in Execs, NEW r \in Row, NEW kind \in ResultKinds, ApplyResult(e, r, kind)
      PROVE  TypeInv'
  <2>1. exec[e] \in Execution /\ exec[e].status \in ExecutionStatus
    BY <1>0 DEF TypeOK, Execution
  <2>2. Answered(exec[e], r, kind) \in Execution
    BY <2>1, AnsweredType
  <2> DEFINE phase == IF exec[e].status \in TERMINAL_EXECUTION_STATUSES THEN "done" ELSE "advance"
  <2>3. /\ phase \in {"advance", "done"}
        /\ Open(e, phase, Answered(exec[e], r, kind), exec[e].status)
    BY <1>3 DEF ApplyResult
  <2> HIDE DEF phase
  <2> QED BY <1>3, <2>1, <2>2, <2>3, OpenStepType DEF ApplyResult
<1>4. ASSUME NEW e \in Execs, AdvanceDispatch(e) PROVE TypeInv'
  BY <1>4, DispatchStepType
<1>5. ASSUME NEW e \in Execs, AdvanceComplete(e) \/ AdvanceFail(e) PROVE TypeInv'
  <2>1. tx[e].work \in Execution
    BY <1>0 DEF TypeOK, Transaction
  <2> DEFINE w == tx[e].work
  <2>2. /\ Complete(w) \in Execution /\ Fail(w) \in Execution
        /\ Complete(w).depth = w.depth /\ Fail(w).depth = w.depth
        /\ Complete(w).status = "COMPLETED" /\ Fail(w).status = "FAILED"
    BY <2>1, FailType DEF Complete, Fail, Execution
  <2>3. ASSUME AdvanceComplete(e) PROVE TypeInv'
    BY <2>2, <2>3, EndStepType DEF AdvanceComplete, TERMINAL_EXECUTION_STATUSES
  <2>4. ASSUME AdvanceFail(e) PROVE TypeInv'
    BY <2>2, <2>4, EndStepType DEF AdvanceFail, TERMINAL_EXECUTION_STATUSES
  <2> QED BY <1>5, <2>3, <2>4
<1>6. ASSUME NEW e \in Execs, AdvanceWait(e) PROVE TypeInv'
  BY <1>6, WaitStepType
<1>7. ASSUME NEW e \in Execs, Commit(e) PROVE TypeInv'
  BY <1>7, CommitStepType
<1>8. ASSUME NEW e \in Execs, Abort(e) PROVE TypeInv'
  <2>1. tx' \in [Execs -> Transaction] /\ CallsTyped'
    BY <1>8, NoTransactionStepType DEF Abort
  <2>2. aborts' \in 0 .. MaxAborts
    BY <1>0, <1>8, AbortsAssumption DEF Abort, TypeOK
  <2> QED BY <1>0, <1>8, <2>1, <2>2 DEF Abort, TypeInv, TypeOK
<1>9. ASSUME NEW e \in Execs, MarkStaleScan(e) PROVE TypeInv'
  BY <1>0, <1>9 DEF MarkStaleScan, TypeInv, TypeOK, CallsTyped
<1>10. ASSUME NEW e \in Execs, MarkStaleWrite(e) PROVE TypeInv'
  <2>1. exec' \in [Execs -> Execution]
    BY <1>0, <1>10 DEF MarkStaleWrite, TypeOK, Execution, ExecutionStatus, LiveStatus
  <2> QED BY <1>0, <1>10, <2>1 DEF MarkStaleWrite, TypeInv, TypeOK, CallsTyped
<1>11. ASSUME NEW m \in outbox, Relay(m) PROVE TypeInv'
  BY <1>0, <1>11 DEF Relay, TypeInv, TypeOK, CallsTyped
<1>12. ASSUME NEW r \in Routines, DeleteRoutine(r) PROVE TypeInv'
  <2>1. NoExecution("deleted") \in Execution
    BY NoExecutionType DEF ExecutionStatus
  <2>2. exec' \in [Execs -> Execution]
    BY <1>0, <1>12, <2>1 DEF DeleteRoutine, TypeOK
  <2> QED BY <1>0, <1>12, <2>2 DEF DeleteRoutine, TypeInv, TypeOK, CallsTyped
<1>13. CASE UNCHANGED vars
  BY <1>0, <1>13 DEF vars, TypeInv, TypeOK, CallsTyped
<1> QED
  BY <1>1, <1>2, <1>3, <1>4, <1>5, <1>6, <1>7, <1>8, <1>9, <1>10, <1>11, <1>12, <1>13 DEF Next

(* Every reachable state is well typed, and no call a transaction has made *)
(* exceeds the depth limit (MAX_CALL_DEPTH): the rows the code writes are  *)
(* rows of its tables.                                                     *)
THEOREM TypeCorrect == Spec => []TypeInv
  BY TypeInit, TypeStep, PTL DEF Spec

-----------------------------------------------------------------------------
(* The inductive invariant. *)

(* What the transaction on e works on: its copy, or the committed rows. *)
Current(e) == IF Locked(e) THEN tx[e].work ELSE exec[e]

(* A step that only changes the transaction on e, to t. *)
LEMMA TxStepInv ==
  ASSUME TypeInv, IInv, NEW e \in Execs, NEW t \in Transaction,
         tx' = [tx EXCEPT ![e] = t], UNCHANGED <<exec, outbox, sent>>,
         Exists(e),
         t.phase # "none",
         t.work.caller = exec[e].caller,
         t.work.status \notin {"unborn", "deleted"},
         t.phase = "advance" => t.work.status \in LiveStatus,
         Good(t.work),
         \A r \in Row : Current(e).row[r] \in Left => t.work.row[r] \in Left,
         \A m \in t.out :
           \/ m.type = "RoutineTriggered" /\ \E kid \in t.kids : kid[1] = m.exec
           \/ m.type \in {"ExecutionCompleted", "ExecutionFailed"} /\ m.exec = e
           \/ m.type = "ActionRequested" /\ m.exec = e /\ m.row \in Row /\ t.work.row[m.row] \in Left
           \/ m.type \in {"ActionCompleted", "ActionFailed"} /\ exec[e].caller # None /\ exec[e].caller = <<m.exec, m.row>>,
         \A kid \in t.kids :
           /\ exec[kid[1]].status = "unborn"
           /\ t.work.row[kid[2]] \in Left
           /\ \A f \in Execs \ {e} : \A l \in tx[f].kids : l[1] # kid[1]
  PROVE  IInv'
<1>1. tx'[e] = t /\ \A f \in Execs : f # e => tx'[f] = tx[f]
  BY DEF TypeInv, TypeOK
<1>2. GoodCopies' /\ LockedExists'
  BY <1>1 DEF IInv, GoodCopies, LockedExists, Locked, Exists
<1>3. KidsFresh'
  <2>1. \A f \in Execs : \A kid \in tx'[f].kids : exec[kid[1]].status = "unborn"
    BY <1>1 DEF IInv, KidsFresh
  <2>2. ASSUME NEW f \in Execs, NEW g \in Execs, NEW k \in tx'[f].kids, NEW l \in tx'[g].kids,
               k[1] = l[1]
        PROVE  f = g
    <3>1. CASE f = e /\ g # e
      BY <1>1, <2>2, <3>1
    <3>2. CASE f # e /\ g = e
      BY <1>1, <2>2, <3>2
    <3>3. CASE f # e /\ g # e
      BY <1>1, <2>2, <3>3 DEF IInv, KidsFresh
    <3> QED BY <3>1, <3>2, <3>3
  <2> QED BY <2>1, <2>2 DEF IInv, KidsFresh
<1>4. ASSUME NEW f \in Execs, NEW r \in Row, WasDispatched(f, r)
      PROVE  WasDispatched(f, r)'
  <2>1. CASE f = e
    <3>1. Current(e).row[r] \in Left
      BY <1>4, <2>1 DEF WasDispatched, Current
    <3> QED BY <1>1, <1>4, <2>1, <3>1 DEF WasDispatched, Exists, Locked
  <2>2. CASE f # e
    BY <1>1, <1>4, <2>2 DEF WasDispatched, Exists, Locked
  <2> QED BY <2>1, <2>2
<1>5. EmittedDispatched'
  <2>1. \A m \in Emitted : m.exec \in Execs
    BY DEF TypeInv, TypeOK, Message, Emitted
  <2> QED BY <1>4, <2>1 DEF IInv, EmittedDispatched, Emitted
<1>6. CallerDispatched'
  <2>1. \A f \in Execs : exec[f].caller # None => exec[f].caller[1] \in Execs /\ exec[f].caller[2] \in Row
    BY DEF TypeInv, TypeOK, Execution
  <2> QED BY <1>4, <2>1 DEF IInv, CallerDispatched
<1>7. OutDispatched'
  <2> SUFFICES ASSUME NEW f \in Execs
               PROVE  \A m \in tx'[f].out :
                        \/ m.type = "RoutineTriggered" /\ \E kid \in tx'[f].kids : kid[1] = m.exec
                        \/ m.type \in {"ExecutionCompleted", "ExecutionFailed"} /\ m.exec = f
                        \/ /\ m.type = "ActionRequested" /\ m.exec = f /\ m.row \in Row
                           /\ tx'[f].work.row[m.row] \in Left
                        \/ m.type \in {"ActionCompleted", "ActionFailed"} /\ exec'[f].caller # None /\ exec'[f].caller = <<m.exec, m.row>>
    BY DEF OutDispatched
  <2>1. CASE f = e
    BY <1>1, <2>1
  <2>2. CASE f # e
    BY <1>1, <2>2 DEF IInv, OutDispatched
  <2> QED BY <2>1, <2>2
<1>8. KidsDispatched'
  BY <1>1 DEF IInv, KidsDispatched
<1> QED BY <1>2, <1>3, <1>5, <1>6, <1>7, <1>8 DEF IInv

(* A result that arrives is for a row that was dispatched. *)
LEMMA ArrivesDispatched ==
  ASSUME TypeInv, IInv, NEW e \in Execs, NEW r \in Row, NEW kind, Arrives(e, r, kind)
  PROVE  WasDispatched(e, r)
<1>1. \A m \in sent : m.type \in RowMessages => WasDispatched(m.exec, m.row)
  BY DEF IInv, EmittedDispatched, Emitted
<1>2. CASE KindOf(r) = "call"
  <2>1. PICK s \in TERMINAL_EXECUTION_STATUSES : SubRoutineResult(<<e, r>>, s) \in sent
    BY <1>2 DEF Arrives
  <2> QED BY <1>1, <2>1 DEF SubRoutineResult, RowMessages
<1>3. CASE KindOf(r) # "call"
  <2>1. ActionRequested(e, r) \in sent
    BY <1>3 DEF Arrives
  <2> QED BY <1>1, <2>1 DEF ActionRequested, RowMessages
<1> QED BY <1>2, <1>3

LEMMA StartInv ==
  ASSUME TypeInv, IInv, NEW e \in Execs, Start(e)
  PROVE  IInv'
<1> DEFINE w == [exec[e] EXCEPT !.status = "RUNNING"]
           t == [phase |-> "advance", work |-> w, seen |-> "RUNNING", out |-> {}, kids |-> {}]
<1>1. exec[e] \in Execution /\ Good(exec[e])
  BY DEF TypeInv, TypeOK, IInv, GoodCopies
<1>2. "RUNNING" \in LiveStatus
  BY DEF LiveStatus
<1>3. /\ Good(w) /\ w \in Execution /\ w.status = "RUNNING"
      /\ w.row = exec[e].row /\ w.caller = exec[e].caller
  BY <1>1, <1>2, StatusGood
<1>4. t \in Transaction /\ tx' = [tx EXCEPT ![e] = t]
  BY <1>3 DEF Transaction, ExecutionStatus, LiveStatus, Start, Open
<1>5. Exists(e) /\ ~Locked(e) /\ UNCHANGED <<exec, outbox, sent>>
  BY DEF Start, Exists
<1>6. /\ t.phase # "none" /\ t.work = w /\ t.out = {} /\ t.kids = {}
  OBVIOUS
<1> HIDE DEF t, w
<1>7. \A r \in Row : Current(e).row[r] \in Left => t.work.row[r] \in Left
  BY <1>3, <1>5, <1>6 DEF Current
<1> QED BY <1>2, <1>3, <1>4, <1>5, <1>6, <1>7, TxStepInv

LEMMA ApplyResultInv ==
  ASSUME TypeInv, IInv, NEW e \in Execs, NEW r \in Row, NEW kind \in ResultKinds,
         ApplyResult(e, r, kind)
  PROVE  IInv'
<1> DEFINE w == Answered(exec[e], r, kind)
           phase == IF exec[e].status \in TERMINAL_EXECUTION_STATUSES THEN "done" ELSE "advance"
           t == [phase |-> phase, work |-> w, seen |-> exec[e].status, out |-> {}, kids |-> {}]
<1>1. exec[e] \in Execution /\ Good(exec[e])
  BY DEF TypeInv, TypeOK, IInv, GoodCopies
<1>2. /\ Exists(e) /\ ~Locked(e) /\ UNCHANGED <<exec, outbox, sent>>
      /\ tx' = [tx EXCEPT ![e] = t]
      /\ exec[e].row[r] \notin TERMINAL_ACTION_STATUSES
  BY DEF ApplyResult, Open
<1>3. exec[e].row[r] \in {"DISPATCHED", "RETRYING"}
  <2>1. WasDispatched(e, r)
    BY ArrivesDispatched DEF ApplyResult
  <2> QED BY <1>2, <2>1 DEF WasDispatched, Left, TERMINAL_ACTION_STATUSES
<1>4. /\ Good(w) /\ w \in Execution /\ w.caller = exec[e].caller /\ w.status = exec[e].status
      /\ \A q \in Row : exec[e].row[q] \in Left => w.row[q] \in Left
  BY <1>1, <1>3, AnsweredGood, AnsweredType
<1>5. exec[e].status \in ExecutionStatus
  BY <1>1 DEF Execution
<1>6. phase \in {"advance", "done"} /\ (phase = "advance" => exec[e].status \in LiveStatus)
  BY <1>2, <1>5 DEF ExecutionStatus, Exists
<1> HIDE DEF w, phase
<1>7. t \in Transaction
  BY <1>4, <1>5, <1>6 DEF Transaction
<1>8. t.phase = phase /\ t.work = w /\ t.out = {} /\ t.kids = {}
  OBVIOUS
<1> HIDE DEF t
<1>9. \A q \in Row : Current(e).row[q] \in Left => t.work.row[q] \in Left
  BY <1>2, <1>4, <1>8 DEF Current
<1>10. t.work.status \notin {"unborn", "deleted"}
  BY <1>2, <1>4, <1>8 DEF Exists
<1> QED BY <1>2, <1>4, <1>6, <1>7, <1>8, <1>9, <1>10, TxStepInv

(* What holds of a transaction that advances. *)
LEMMA AdvancingFacts ==
  ASSUME TypeInv, IInv, NEW e \in Execs, tx[e].phase = "advance"
  PROVE  /\ Locked(e) /\ Exists(e) /\ tx[e] \in Transaction /\ tx[e].work \in Execution
         /\ Good(tx[e].work) /\ tx[e].work.status \in LiveStatus
         /\ tx[e].work.caller = exec[e].caller
         /\ Current(e) = tx[e].work
         /\ \A f \in Execs \ {e} : \A k \in tx[e].kids, l \in tx[f].kids : k[1] # l[1]
<1>1. Locked(e)
  BY DEF Locked
<1>2. tx[e] \in Transaction /\ tx[e].work \in Execution
  BY DEF TypeInv, TypeOK, Transaction
<1> QED
  BY <1>1, <1>2 DEF IInv, GoodCopies, LockedExists, KidsFresh, Current

LEMMA DispatchInv ==
  ASSUME TypeInv, IInv, NEW e \in Execs, AdvanceDispatch(e)
  PROVE  IInv'
<1> DEFINE x == tx[e].work
<1>1. tx[e].phase = "advance" /\ Decision(x) = "dispatch" /\ UNCHANGED <<exec, outbox, sent>>
  BY DEF AdvanceDispatch, Advancing
<1>2. PICK o \in BatchOutcomes(x, routines) :
        \E id \in [Calls(o) -> FreeIds] : tx' = [tx EXCEPT ![e] = DispatchTx(e, o, id)]
  BY DEF AdvanceDispatch
<1>3. PICK id \in [Calls(o) -> FreeIds] : tx' = [tx EXCEPT ![e] = DispatchTx(e, o, id)]
  BY <1>2
<1> DEFINE t == DispatchTx(e, o, id)
<1>4. /\ Exists(e) /\ Locked(e) /\ x \in Execution /\ Good(x) /\ x.status \in LiveStatus
      /\ x.caller = exec[e].caller /\ Current(e) = x /\ tx[e] \in Transaction
      /\ \A f \in Execs \ {e} : \A k \in tx[e].kids, l \in tx[f].kids : k[1] # l[1]
  BY <1>1, AdvancingFacts
<1>5. /\ Good(Dispatch(x, o)) /\ Dispatch(x, o).status \in LiveStatus
      /\ Dispatch(x, o).caller = x.caller
      /\ \A r \in Row : x.row[r] \in Left => Dispatch(x, o).row[r] \in Left
      /\ \A r \in ToSend(o) \cup Calls(o) : r \in Row /\ Dispatch(x, o).row[r] \in Left
  BY <1>1, <1>4, DispatchGood
<1>6. /\ t.work = Dispatch(x, o) /\ t.phase \in {"advance", "done"}
      /\ t.out = tx[e].out \cup {ActionRequested(e, r) : r \in ToSend(o)}
                           \cup {RoutineTriggered(id[r]) : r \in Calls(o)}
      /\ t.kids = tx[e].kids \cup {<<id[r], r>> : r \in Calls(o)}
  BY DEF DispatchTx, PhaseAfter
<1>7. t \in Transaction
  <2>1. TypeInv' /\ tx'[e] = t
    BY <1>3, DispatchStepType DEF TypeInv, TypeOK
  <2> QED BY <2>1 DEF TypeInv, TypeOK
<1> HIDE DEF t
<1>8. ASSUME NEW m \in t.out
      PROVE  \/ m.type = "RoutineTriggered" /\ \E kid \in t.kids : kid[1] = m.exec
             \/ m.type \in {"ExecutionCompleted", "ExecutionFailed"} /\ m.exec = e
             \/ m.type = "ActionRequested" /\ m.exec = e /\ m.row \in Row /\ t.work.row[m.row] \in Left
             \/ m.type \in {"ActionCompleted", "ActionFailed"} /\ exec[e].caller # None /\ exec[e].caller = <<m.exec, m.row>>
  <2>1. CASE m \in tx[e].out
    <3>1. \/ m.type = "RoutineTriggered" /\ \E kid \in tx[e].kids : kid[1] = m.exec
          \/ m.type \in {"ExecutionCompleted", "ExecutionFailed"} /\ m.exec = e
          \/ m.type = "ActionRequested" /\ m.exec = e /\ m.row \in Row /\ x.row[m.row] \in Left
          \/ m.type \in {"ActionCompleted", "ActionFailed"} /\ exec[e].caller # None /\ exec[e].caller = <<m.exec, m.row>>
      BY <2>1 DEF IInv, OutDispatched
    <3> QED BY <1>5, <1>6, <3>1
  <2>2. CASE m \in {ActionRequested(e, r) : r \in ToSend(o)}
    BY <1>5, <1>6, <2>2 DEF ActionRequested
  <2>3. CASE m \in {RoutineTriggered(id[r]) : r \in Calls(o)}
    <3>1. PICK r \in Calls(o) : m = RoutineTriggered(id[r])
      BY <2>3
    <3>2. <<id[r], r>> \in t.kids
      BY <1>6, <3>1
    <3> QED BY <3>1, <3>2 DEF RoutineTriggered
  <2> QED BY <1>6, <1>8, <2>1, <2>2, <2>3
<1>9. ASSUME NEW kid \in t.kids
      PROVE  /\ exec[kid[1]].status = "unborn"
             /\ t.work.row[kid[2]] \in Left
             /\ \A f \in Execs \ {e} : \A l \in tx[f].kids : l[1] # kid[1]
  <2>1. CASE kid \in tx[e].kids
    <3>1. kid[2] \in Row
      BY <1>4, <2>1 DEF Transaction
    <3>2. exec[kid[1]].status = "unborn" /\ x.row[kid[2]] \in Left
      BY <2>1 DEF IInv, KidsFresh, KidsDispatched
    <3> QED BY <1>4, <1>5, <1>6, <2>1, <3>1, <3>2
  <2>2. CASE kid \in {<<id[r], r>> : r \in Calls(o)}
    <3>1. PICK r \in Calls(o) : kid = <<id[r], r>>
      BY <2>2
    <3>2. id[r] \in FreeIds
      BY <3>1
    <3>3. exec[id[r]].status = "unborn" /\ id[r] \notin Inserted
      BY <3>2 DEF FreeIds
    <3>4. \A f \in Execs : \A l \in tx[f].kids : l[1] # id[r]
      BY <3>3 DEF Inserted
    <3> QED BY <1>5, <1>6, <3>1, <3>3, <3>4
  <2> QED BY <1>6, <1>9, <2>1, <2>2
<1>10. \A r \in Row : Current(e).row[r] \in Left => t.work.row[r] \in Left
  BY <1>4, <1>5, <1>6
<1>11. /\ tx' = [tx EXCEPT ![e] = t] /\ t.phase # "none" /\ Good(t.work)
       /\ t.work.caller = exec[e].caller
       /\ t.work.status \in LiveStatus /\ t.work.status \notin {"unborn", "deleted"}
  BY <1>3, <1>4, <1>5, <1>6 DEF LiveStatus, t
<1> QED BY <1>1, <1>4, <1>7, <1>8, <1>9, <1>10, <1>11, TxStepInv

LEMMA EndInv ==
  ASSUME TypeInv, IInv, NEW e \in Execs, AdvanceComplete(e) \/ AdvanceFail(e)
  PROVE  IInv'
<1> DEFINE w == tx[e].work
<1>1. PICK x \in {Complete(w), Fail(w)} :
        /\ End(e, x)
        /\ x = Complete(w) => Decision(w) = "complete"
        /\ x = Fail(w) => Decision(w) = "fail"
  <2>1. Complete(w) # Fail(w)
    <3>1. w \in Execution
      BY DEF TypeInv, TypeOK, Transaction
    <3> QED BY <3>1 DEF Complete, Fail, Execution
  <2> QED BY <2>1 DEF AdvanceComplete, AdvanceFail, Advancing
<1>2. tx[e].phase = "advance" /\ UNCHANGED <<exec, outbox, sent>>
  BY <1>1 DEF AdvanceComplete, AdvanceFail, Advancing, End
<1>3. /\ Exists(e) /\ Locked(e) /\ w \in Execution /\ Good(w)
      /\ w.caller = exec[e].caller /\ Current(e) = w /\ tx[e] \in Transaction
      /\ \A f \in Execs \ {e} : \A k \in tx[e].kids, l \in tx[f].kids : k[1] # l[1]
  BY <1>2, AdvancingFacts
<1>4. /\ x \in Execution /\ Good(x) /\ x.caller = w.caller /\ x.depth = w.depth
      /\ x.status \in TERMINAL_EXECUTION_STATUSES
      /\ \A r \in Row : w.row[r] \in Left => x.row[r] \in Left
  BY <1>1, <1>3, EndGood, FailType DEF TERMINAL_EXECUTION_STATUSES
<1> DEFINE t == [tx[e] EXCEPT !.phase = "done", !.work = x,
                   !.out = @ \cup {ExecutionEnded(e, x.status)} \cup Report(x, x.status)]
<1>5. tx' = [tx EXCEPT ![e] = t]
  BY <1>1, <1>3 DEF End, TypeInv, TypeOK
<1>6. t \in Transaction
  <2>1. TypeInv' /\ tx'[e] = t
    BY <1>1, <1>4, <1>5, EndStepType DEF TypeInv, TypeOK
  <2> QED BY <2>1 DEF TypeInv, TypeOK
<1>7. /\ t.phase = "done" /\ t.work = x /\ t.kids = tx[e].kids
      /\ t.out = tx[e].out \cup {ExecutionEnded(e, x.status)} \cup Report(x, x.status)
  BY <1>3 DEF Transaction
<1> HIDE DEF t
<1>8. ASSUME NEW m \in t.out
      PROVE  \/ m.type = "RoutineTriggered" /\ \E kid \in t.kids : kid[1] = m.exec
             \/ m.type \in {"ExecutionCompleted", "ExecutionFailed"} /\ m.exec = e
             \/ m.type = "ActionRequested" /\ m.exec = e /\ m.row \in Row /\ t.work.row[m.row] \in Left
             \/ m.type \in {"ActionCompleted", "ActionFailed"} /\ exec[e].caller # None /\ exec[e].caller = <<m.exec, m.row>>
  <2>1. CASE m \in tx[e].out
    <3>1. \/ m.type = "RoutineTriggered" /\ \E kid \in tx[e].kids : kid[1] = m.exec
          \/ m.type \in {"ExecutionCompleted", "ExecutionFailed"} /\ m.exec = e
          \/ m.type = "ActionRequested" /\ m.exec = e /\ m.row \in Row /\ w.row[m.row] \in Left
          \/ m.type \in {"ActionCompleted", "ActionFailed"} /\ exec[e].caller # None /\ exec[e].caller = <<m.exec, m.row>>
      BY <2>1 DEF IInv, OutDispatched
    <3> QED BY <1>4, <1>7, <3>1
  <2>2. CASE m = ExecutionEnded(e, x.status)
    BY <2>2 DEF ExecutionEnded
  <2>3. CASE m \in Report(x, x.status)
    <3>1. x.caller # None /\ m = SubRoutineResult(x.caller, x.status)
      BY <2>3 DEF Report
    <3>2. x.caller = <<m.exec, m.row>> /\ m.type \in {"ActionCompleted", "ActionFailed"}
      BY <1>4, <3>1 DEF SubRoutineResult, Execution
    <3> QED BY <1>3, <1>4, <3>1, <3>2
  <2> QED BY <1>7, <1>8, <2>1, <2>2, <2>3
<1>9. \A kid \in t.kids :
        /\ exec[kid[1]].status = "unborn"
        /\ t.work.row[kid[2]] \in Left
        /\ \A f \in Execs \ {e} : \A l \in tx[f].kids : l[1] # kid[1]
  <2>1. \A kid \in tx[e].kids : kid[2] \in Row
    BY <1>3 DEF Transaction
  <2> QED BY <1>3, <1>4, <1>7, <2>1 DEF IInv, KidsFresh, KidsDispatched
<1>10. x.status \notin {"unborn", "deleted"}
  BY <1>4 DEF TERMINAL_EXECUTION_STATUSES
<1> QED BY <1>2, <1>3, <1>4, <1>5, <1>6, <1>7, <1>8, <1>9, <1>10, TxStepInv

LEMMA WaitInv ==
  ASSUME TypeInv, IInv, NEW e \in Execs, AdvanceWait(e)
  PROVE  IInv'
<1> DEFINE w == tx[e].work
<1>1. PICK s \in InFlightStatuses(w) :
        tx' = [tx EXCEPT ![e].phase = "done",
                 ![e].work.status = IF s = tx[e].seen THEN @ ELSE s]
  BY DEF AdvanceWait
<1>2. tx[e].phase = "advance" /\ UNCHANGED <<exec, outbox, sent>>
  BY DEF AdvanceWait, Advancing
<1>3. /\ Exists(e) /\ Locked(e) /\ w \in Execution /\ Good(w) /\ w.status \in LiveStatus
      /\ w.caller = exec[e].caller /\ Current(e) = w /\ tx[e] \in Transaction
      /\ \A f \in Execs \ {e} : \A k \in tx[e].kids, l \in tx[f].kids : k[1] # l[1]
  BY <1>2, AdvancingFacts
<1> DEFINE u == IF s = tx[e].seen THEN w.status ELSE s
           x == [w EXCEPT !.status = u]
           t == [tx[e] EXCEPT !.phase = "done", !.work = x]
<1>4. u \in LiveStatus
  BY <1>1, <1>3 DEF InFlightStatuses, LiveStatus
<1>5. tx' = [tx EXCEPT ![e] = t]
  BY <1>1, <1>3 DEF TypeInv, TypeOK, Transaction
<1> HIDE DEF u
<1>6. x \in Execution /\ Good(x) /\ x.status = u /\ x.row = w.row /\ x.caller = w.caller
  BY <1>3, <1>4, StatusGood
<1> HIDE DEF x
<1>7. /\ t \in Transaction /\ t.phase = "done" /\ t.work = x
      /\ t.kids = tx[e].kids /\ t.out = tx[e].out
  BY <1>3, <1>6 DEF Transaction
<1> HIDE DEF t
<1>8. \A m \in t.out :
        \/ m.type = "RoutineTriggered" /\ \E kid \in t.kids : kid[1] = m.exec
        \/ m.type \in {"ExecutionCompleted", "ExecutionFailed"} /\ m.exec = e
        \/ m.type = "ActionRequested" /\ m.exec = e /\ m.row \in Row /\ t.work.row[m.row] \in Left
        \/ m.type \in {"ActionCompleted", "ActionFailed"} /\ exec[e].caller # None /\ exec[e].caller = <<m.exec, m.row>>
  BY <1>6, <1>7 DEF IInv, OutDispatched
<1>9. \A kid \in t.kids :
        /\ exec[kid[1]].status = "unborn"
        /\ t.work.row[kid[2]] \in Left
        /\ \A f \in Execs \ {e} : \A l \in tx[f].kids : l[1] # kid[1]
  BY <1>3, <1>6, <1>7 DEF IInv, KidsFresh, KidsDispatched
<1>10. u \notin {"unborn", "deleted"}
  BY <1>4 DEF LiveStatus
<1> QED BY <1>2, <1>3, <1>5, <1>6, <1>7, <1>8, <1>9, <1>10, TxStepInv

LEMMA AbortInv ==
  ASSUME TypeInv, IInv, NEW e \in Execs, Abort(e)
  PROVE  IInv'
<1>1. /\ tx'[e] = NoTransaction /\ \A f \in Execs : f # e => tx'[f] = tx[f]
      /\ UNCHANGED <<exec, outbox, sent>>
  BY DEF Abort, TypeInv, TypeOK
<1>2. /\ NoTransaction.phase = "none" /\ NoTransaction.out = {} /\ NoTransaction.kids = {}
  BY DEF NoTransaction
<1>3. GoodCopies' /\ LockedExists' /\ KidsFresh'
  BY <1>1, <1>2 DEF IInv, GoodCopies, LockedExists, KidsFresh, Locked, Exists
<1>4. \A f \in Execs, r \in Row : WasDispatched(f, r) => WasDispatched(f, r)'
  BY <1>1, <1>2 DEF WasDispatched, Exists, Locked
<1>5. EmittedDispatched'
  <2>1. \A m \in Emitted : m.exec \in Execs
    BY DEF TypeInv, TypeOK, Message, Emitted
  <2> QED BY <1>1, <1>4, <2>1 DEF IInv, EmittedDispatched, Emitted
<1>6. CallerDispatched'
  <2>1. \A f \in Execs : exec[f].caller # None => exec[f].caller[1] \in Execs /\ exec[f].caller[2] \in Row
    BY DEF TypeInv, TypeOK, Execution
  <2> QED BY <1>1, <1>4, <2>1 DEF IInv, CallerDispatched
<1>7. OutDispatched' /\ KidsDispatched'
  BY <1>1, <1>2 DEF IInv, OutDispatched, KidsDispatched
<1> QED BY <1>3, <1>5, <1>6, <1>7 DEF IInv

(* Nothing about an execution that existed is forgotten when others are    *)
(* born, moved or deleted. *)
LEMMA ExecStepInv ==
  ASSUME TypeInv, TypeInv', IInv, tx' = tx, sent' \cup outbox' = sent \cup outbox,
         \A f \in Execs :
           \/ exec'[f] = exec[f]
           \/ /\ exec[f].status # "unborn" /\ ~Locked(f)
              /\ exec'[f] = NoExecution("deleted")
           \/ /\ exec[f].status = "RUNNING" /\ ~Locked(f)
              /\ exec'[f] = [exec[f] EXCEPT !.status = "WAITING"]
  PROVE  IInv'
<1>1. ASSUME NEW f \in Execs
      PROVE  /\ Good(exec'[f])
             /\ exec'[f].status = "unborn" <=> exec[f].status = "unborn"
             /\ Exists(f)' => Exists(f) /\ exec'[f].row = exec[f].row
             /\ exec'[f].caller # None => exec'[f].caller = exec[f].caller
             /\ Locked(f) => exec'[f] = exec[f]
  <2>1. exec[f] \in Execution /\ Good(exec[f])
    BY DEF TypeInv, TypeOK, IInv, GoodCopies
  <2>2. CASE exec'[f] = exec[f]
    BY <2>1, <2>2 DEF Exists
  <2>3. CASE exec[f].status # "unborn" /\ ~Locked(f) /\ exec'[f] = NoExecution("deleted")
    BY <2>3, NewGood DEF Exists
  <2>4. CASE /\ exec[f].status = "RUNNING" /\ ~Locked(f)
             /\ exec'[f] = [exec[f] EXCEPT !.status = "WAITING"]
    <3>1. "WAITING" \in LiveStatus
      BY DEF LiveStatus
    <3>2. /\ Good(exec'[f]) /\ exec'[f].status = "WAITING"
          /\ exec'[f].row = exec[f].row /\ exec'[f].caller = exec[f].caller
      BY <2>1, <2>4, <3>1, StatusGood
    <3> QED BY <2>4, <3>2 DEF Exists
  <2> QED BY <2>2, <2>3, <2>4
<1>2. GoodCopies' /\ LockedExists'
  BY <1>1 DEF IInv, GoodCopies, LockedExists, Locked, Exists
<1>3. KidsFresh'
  <2>1. ASSUME NEW f \in Execs, exec'[f].status = "unborn" PROVE exec'[f].routine = None
    <3>1. exec[f].status = "unborn"
      BY <1>1, <2>1
    <3>2. exec'[f] = exec[f]
      BY <3>1
    <3> QED BY <3>1, <3>2 DEF IInv, KidsFresh
  <2>2. \A e \in Execs : \A kid \in tx[e].kids : kid[1] \in Execs
    BY DEF TypeInv, TypeOK, Transaction
  <2> QED BY <1>1, <2>1, <2>2 DEF IInv, KidsFresh
<1>4. \A f \in Execs, r \in Row : WasDispatched(f, r) => WasDispatched(f, r)'
  BY <1>1 DEF WasDispatched, Locked
<1>5. EmittedDispatched'
  <2>1. \A m \in Emitted : m.exec \in Execs
    BY DEF TypeInv, TypeOK, Message, Emitted
  <2>2. Emitted' = Emitted
    BY DEF Emitted
  <2> QED BY <1>1, <1>4, <2>1, <2>2 DEF IInv, EmittedDispatched
<1>6. CallerDispatched'
  <2>1. \A f \in Execs : exec[f].caller # None => exec[f].caller[1] \in Execs /\ exec[f].caller[2] \in Row
    BY DEF TypeInv, TypeOK, Execution
  <2> QED BY <1>1, <1>4, <2>1 DEF IInv, CallerDispatched
<1>7. OutDispatched'
  <2>1. \A e \in Execs : tx[e].out # {} => exec'[e] = exec[e]
    BY <1>1 DEF IInv, LockedExists
  <2> QED BY <2>1 DEF IInv, OutDispatched
<1>8. KidsDispatched'
  BY DEF IInv, KidsDispatched
<1> QED BY <1>2, <1>3, <1>5, <1>6, <1>7, <1>8 DEF IInv

LEMMA TriggerInv ==
  ASSUME TypeInv, TypeInv', IInv, NEW e \in Execs, NEW r \in Routines, Trigger(e, r)
  PROVE  IInv'
<1>1. /\ e \in FreeIds /\ exec' = [exec EXCEPT ![e] = NewExecution(r, None, 0)]
      /\ outbox' = outbox \cup {RoutineTriggered(e)} /\ tx' = tx /\ sent' = sent
  BY DEF Trigger
<1>2. exec[e].status = "unborn" /\ \A f \in Execs : \A kid \in tx[f].kids : kid[1] # e
  BY <1>1 DEF FreeIds, Inserted
<1>3. /\ exec'[e] = NewExecution(r, None, 0) /\ \A f \in Execs : f # e => exec'[f] = exec[f]
  BY <1>1 DEF TypeInv, TypeOK
<1>4. Good(exec'[e]) /\ exec'[e].status = "PENDING" /\ exec'[e].caller = None
  BY <1>3, NewGood
<1>5. ~Locked(e)
  BY <1>2 DEF IInv, LockedExists, Exists
<1>6. GoodCopies' /\ LockedExists'
  BY <1>1, <1>3, <1>4, <1>5 DEF IInv, GoodCopies, LockedExists, Locked, Exists
<1>7. KidsFresh'
  <2>1. \A f \in Execs : \A kid \in tx[f].kids : kid[1] \in Execs
    BY DEF TypeInv, TypeOK, Transaction
  <2> QED BY <1>1, <1>2, <1>3, <1>4, <2>1 DEF IInv, KidsFresh
<1>8. \A f \in Execs, q \in Row : WasDispatched(f, q) => WasDispatched(f, q)'
  BY <1>1, <1>2, <1>3 DEF WasDispatched, Exists, Locked
<1>9. EmittedDispatched'
  <2>1. \A m \in Emitted : m.exec \in Execs
    BY DEF TypeInv, TypeOK, Message, Emitted
  <2>2. Emitted' = Emitted \cup {RoutineTriggered(e)}
    BY <1>1 DEF Emitted
  <2>3. RoutineTriggered(e).exec = e /\ RoutineTriggered(e).type \notin RowMessages
    BY DEF RoutineTriggered, RowMessages
  <2> QED BY <1>3, <1>4, <1>8, <2>1, <2>2, <2>3 DEF IInv, EmittedDispatched
<1>10. CallerDispatched'
  <2>1. \A f \in Execs : exec[f].caller # None => exec[f].caller[1] \in Execs /\ exec[f].caller[2] \in Row
    BY DEF TypeInv, TypeOK, Execution
  <2> QED BY <1>3, <1>4, <1>8, <2>1 DEF IInv, CallerDispatched
<1>11. OutDispatched'
  <2>1. \A f \in Execs : tx[f].out # {} => exec'[f] = exec[f]
    BY <1>3, <1>5 DEF IInv, LockedExists
  <2> QED BY <1>1, <2>1 DEF IInv, OutDispatched
<1>12. KidsDispatched'
  BY <1>1 DEF IInv, KidsDispatched
<1> QED BY <1>6, <1>7, <1>9, <1>10, <1>11, <1>12 DEF IInv

LEMMA CommitInv ==
  ASSUME TypeInv, TypeInv', IInv, NEW e \in Execs, Commit(e)
  PROVE  IInv'
<1> DEFINE w == tx[e].work
<1>1. /\ tx[e].phase = "done" /\ Locked(e)
      /\ tx'[e] = NoTransaction /\ \A f \in Execs : f # e => tx'[f] = tx[f]
      /\ outbox' = outbox \cup tx[e].out /\ sent' = sent
  BY DEF Commit, TypeInv, TypeOK, Locked
<1>2. NoTransaction.phase = "none" /\ NoTransaction.out = {} /\ NoTransaction.kids = {}
  BY DEF NoTransaction
<1>3. /\ Exists(e) /\ w.caller = exec[e].caller /\ w.status \notin {"unborn", "deleted"}
      /\ Good(w) /\ tx[e] \in Transaction
  BY <1>1 DEF IInv, LockedExists, GoodCopies, TypeInv, TypeOK
<1>4. exec'[e] = w
  BY DEF Commit
<1>5. ASSUME NEW f \in Execs, f # e, \A r \in Row : <<f, r>> \notin tx[e].kids
      PROVE  exec'[f] = exec[f]
  BY <1>5 DEF Commit
<1>6. ASSUME NEW f \in Execs, NEW q \in Row, <<f, q>> \in tx[e].kids
      PROVE  /\ f # e /\ exec[f].status = "unborn" /\ ~Locked(f)
             /\ exec'[f].status = "PENDING" /\ Good(exec'[f])
             /\ \E r \in Row : exec'[f].caller = <<e, r>> /\ <<f, r>> \in tx[e].kids
  <2>1. exec[f].status = "unborn"
    BY <1>6 DEF IInv, KidsFresh
  <2>2. f # e /\ ~Locked(f)
    BY <1>3, <2>1 DEF IInv, LockedExists, Exists
  <2> DEFINE r == CHOOSE r \in Row : <<f, r>> \in tx[e].kids
  <2>3. r \in Row /\ <<f, r>> \in tx[e].kids
    BY <1>6
  <2>4. exec'[f] = Child(e, r)
    BY <1>6, <2>2 DEF Commit
  <2> HIDE DEF r
  <2>5. exec'[f].status = "PENDING" /\ Good(exec'[f]) /\ exec'[f].caller = <<e, r>>
    BY <2>4, NewGood DEF Child
  <2> QED BY <2>1, <2>2, <2>3, <2>5
<1>7. \A f \in Execs : f # e /\ Exists(f) => exec'[f] = exec[f]
  BY <1>5, <1>6 DEF Exists
<1>8. GoodCopies'
  <2> SUFFICES ASSUME NEW f \in Execs PROVE Good(exec'[f]) /\ (Locked(f)' => Good(tx'[f].work))
    BY DEF GoodCopies
  <2>1. Locked(f)' => Good(tx'[f].work)
    BY <1>1, <1>2 DEF IInv, GoodCopies, Locked
  <2>2. Good(exec'[f])
    BY <1>3, <1>4, <1>5, <1>6 DEF IInv, GoodCopies
  <2> QED BY <2>1, <2>2
<1>9. LockedExists'
  BY <1>1, <1>2, <1>7 DEF IInv, LockedExists, Locked, Exists
<1>10. KidsFresh'
  <2>1. ASSUME NEW f \in Execs, NEW kid \in tx'[f].kids PROVE exec'[kid[1]].status = "unborn"
    <3>1. f # e /\ kid \in tx[f].kids
      BY <1>1, <1>2, <2>1
    <3>2. kid[1] \in Execs /\ exec[kid[1]].status = "unborn" /\ \A l \in tx[e].kids : l[1] # kid[1]
      BY <3>1 DEF TypeInv, TypeOK, Transaction, IInv, KidsFresh
    <3>3. kid[1] # e
      BY <1>3, <3>2 DEF Exists
    <3> QED BY <1>5, <3>2, <3>3
  <2>2. ASSUME NEW f \in Execs, NEW g \in Execs, NEW k \in tx'[f].kids, NEW l \in tx'[g].kids,
               k[1] = l[1]
        PROVE  f = g
    <3>1. k \in tx[f].kids /\ l \in tx[g].kids
      BY <1>1, <1>2, <2>2
    <3> QED BY <2>2, <3>1 DEF IInv, KidsFresh
  <2>3. ASSUME NEW f \in Execs, exec'[f].status = "unborn" PROVE exec'[f].routine = None
    <3>1. f # e /\ \A r \in Row : <<f, r>> \notin tx[e].kids
      BY <1>3, <1>4, <1>6, <2>3
    <3> QED BY <1>5, <2>3, <3>1 DEF IInv, KidsFresh
  <2> QED BY <2>1, <2>2, <2>3 DEF KidsFresh
<1>11. ASSUME NEW f \in Execs, NEW r \in Row, WasDispatched(f, r)
       PROVE  WasDispatched(f, r)'
  <2>1. CASE f = e
    BY <1>1, <1>2, <1>3, <1>4, <1>11, <2>1 DEF WasDispatched, Exists, Locked
  <2>2. CASE f # e
    <3>1. exec'[f] = exec[f]
      BY <1>5, <1>6, <1>11, <2>2 DEF WasDispatched
    <3> QED BY <1>1, <1>11, <2>2, <3>1 DEF WasDispatched, Exists, Locked
  <2> QED BY <2>1, <2>2
<1>12. ASSUME NEW r \in Row, w.row[r] \in Left
       PROVE  WasDispatched(e, r)'
  BY <1>1, <1>2, <1>3, <1>4, <1>12 DEF WasDispatched, Exists, Locked
<1>13. EmittedDispatched'
  <2> SUFFICES ASSUME NEW m \in outbox' \cup sent'
               PROVE  /\ exec'[m.exec].status # "unborn"
                      /\ m.type \in RowMessages => m.row \in Row /\ WasDispatched(m.exec, m.row)'
    BY DEF EmittedDispatched, Emitted
  <2>0. m \in Message
    BY <1>1, <1>3 DEF TypeInv, TypeOK, Transaction
  <2>1. CASE m \in Emitted
    <3>1. exec[m.exec].status # "unborn" /\ m.exec \in Execs
      BY <2>0, <2>1 DEF IInv, EmittedDispatched, Message
    <3>2. exec'[m.exec].status # "unborn"
      BY <1>3, <1>4, <1>5, <1>6, <3>1
    <3>3. m.type \in RowMessages => m.row \in Row /\ WasDispatched(m.exec, m.row)
      BY <2>1 DEF IInv, EmittedDispatched
    <3> QED BY <1>11, <3>1, <3>2, <3>3
  <2>2. CASE m \in tx[e].out
    <3>1. CASE m.type = "RoutineTriggered" /\ \E kid \in tx[e].kids : kid[1] = m.exec
      <4>1. PICK kid \in tx[e].kids : kid[1] = m.exec
        BY <3>1
      <4>2. kid = <<m.exec, kid[2]>> /\ kid[2] \in Row /\ m.exec \in Execs
        BY <1>3, <4>1 DEF Transaction
      <4>3. exec'[m.exec].status = "PENDING"
        BY <1>6, <4>1, <4>2
      <4> QED BY <3>1, <4>3 DEF RowMessages
    <3>2. CASE m.type \in {"ExecutionCompleted", "ExecutionFailed"} /\ m.exec = e
      BY <1>3, <1>4, <3>2 DEF RowMessages
    <3>3. CASE m.type = "ActionRequested" /\ m.exec = e /\ m.row \in Row /\ w.row[m.row] \in Left
      BY <1>3, <1>4, <1>12, <3>3
    <3>4. CASE m.type \in {"ActionCompleted", "ActionFailed"} /\ exec[e].caller # None /\ exec[e].caller = <<m.exec, m.row>>
      <4>1. exec[e].caller # None
        BY <3>4
      <4>2. WasDispatched(m.exec, m.row) /\ m.row \in Row /\ m.exec \in Execs
        <5>1. exec[e].caller \in Execs \X Row
          BY <4>1 DEF TypeInv, TypeOK, Execution
        <5>2. WasDispatched(exec[e].caller[1], exec[e].caller[2])
          BY <4>1 DEF IInv, CallerDispatched
        <5> QED BY <3>4, <5>1, <5>2
      <4>3. WasDispatched(m.exec, m.row)'
        BY <1>11, <4>2
      <4> QED BY <4>2, <4>3 DEF WasDispatched
    <3> QED BY <2>2, <3>1, <3>2, <3>3, <3>4 DEF IInv, OutDispatched
  <2> QED BY <1>1, <2>1, <2>2 DEF Emitted
<1>14. CallerDispatched'
  <2>1. ASSUME NEW f \in Execs, exec'[f].caller # None
        PROVE  \E g \in Execs, r \in Row :
                 exec'[f].caller[1] = g /\ exec'[f].caller[2] = r /\ WasDispatched(g, r)'
    <3>1. CASE exec'[f].caller = exec[f].caller
      <4>1. exec[f].caller[1] \in Execs /\ exec[f].caller[2] \in Row
        BY <2>1, <3>1 DEF TypeInv, TypeOK, Execution
      <4>2. WasDispatched(exec[f].caller[1], exec[f].caller[2])
        BY <2>1, <3>1 DEF IInv, CallerDispatched
      <4> QED BY <1>11, <3>1, <4>1, <4>2
    <3>2. CASE exec'[f].caller # exec[f].caller
      <4>1. PICK r \in Row : exec'[f].caller = <<e, r>> /\ <<f, r>> \in tx[e].kids
        BY <1>3, <1>4, <1>5, <1>6, <3>2
      <4>2. w.row[r] \in Left
        BY <4>1 DEF IInv, KidsDispatched
      <4> QED BY <1>12, <4>1, <4>2
    <3> QED BY <3>1, <3>2
  <2> QED BY <2>1 DEF CallerDispatched, WasDispatched
<1>15. OutDispatched'
  <2> SUFFICES ASSUME NEW f \in Execs, NEW m \in tx'[f].out
               PROVE  \/ m.type = "RoutineTriggered" /\ \E kid \in tx'[f].kids : kid[1] = m.exec
                      \/ m.type \in {"ExecutionCompleted", "ExecutionFailed"} /\ m.exec = f
                      \/ /\ m.type = "ActionRequested" /\ m.exec = f /\ m.row \in Row
                         /\ tx'[f].work.row[m.row] \in Left
                      \/ m.type \in {"ActionCompleted", "ActionFailed"} /\ exec'[f].caller # None /\ exec'[f].caller = <<m.exec, m.row>>
    BY DEF OutDispatched
  <2>1. f # e /\ tx'[f] = tx[f] /\ Exists(f)
    BY <1>1, <1>2 DEF IInv, LockedExists
  <2> QED BY <1>7, <2>1 DEF IInv, OutDispatched
<1>16. KidsDispatched'
  BY <1>1, <1>2 DEF IInv, KidsDispatched
<1> QED BY <1>8, <1>9, <1>10, <1>13, <1>14, <1>15, <1>16 DEF IInv

LEMMA InvInit == TypeInv /\ Init => IInv
<1> SUFFICES ASSUME TypeInv, Init PROVE IInv
  OBVIOUS
<1>1. \A e \in Execs : /\ exec[e] = NoExecution("unborn") /\ Good(exec[e])
                       /\ exec[e].status = "unborn" /\ exec[e].caller = None
                       /\ exec[e].routine = None
  BY NewGood DEF Init, NoExecution
<1>2. \A e \in Execs : /\ ~Locked(e) /\ tx[e].out = {} /\ tx[e].kids = {}
                       /\ tx[e].phase = "none"
  BY DEF Init, Locked, NoTransaction
<1>3. Emitted = {}
  BY DEF Init, Emitted
<1>4. GoodCopies /\ LockedExists /\ KidsFresh
  BY <1>1, <1>2 DEF GoodCopies, LockedExists, KidsFresh
<1>5. EmittedDispatched /\ CallerDispatched /\ OutDispatched /\ KidsDispatched
  BY <1>1, <1>2, <1>3 DEF EmittedDispatched, CallerDispatched, OutDispatched, KidsDispatched
<1> QED BY <1>4, <1>5 DEF IInv

LEMMA InvStep == TypeInv /\ IInv /\ [Next]_vars => IInv'
<1> SUFFICES ASSUME TypeInv, IInv, [Next]_vars PROVE IInv'
  OBVIOUS
<1>0. TypeInv'
  BY TypeStep
<1>1. ASSUME NEW e \in Execs, NEW r \in Routines, Trigger(e, r) PROVE IInv'
  BY <1>0, <1>1, TriggerInv
<1>2. ASSUME NEW e \in Execs, Start(e) PROVE IInv'
  BY <1>2, StartInv
<1>3. ASSUME NEW e \in Execs, NEW r \in Row, NEW kind \in ResultKinds, ApplyResult(e, r, kind)
      PROVE  IInv'
  BY <1>3, ApplyResultInv
<1>4. ASSUME NEW e \in Execs, AdvanceDispatch(e) PROVE IInv'
  BY <1>4, DispatchInv
<1>5. ASSUME NEW e \in Execs, AdvanceComplete(e) \/ AdvanceFail(e) PROVE IInv'
  BY <1>5, EndInv
<1>6. ASSUME NEW e \in Execs, AdvanceWait(e) PROVE IInv'
  BY <1>6, WaitInv
<1>7. ASSUME NEW e \in Execs, Commit(e) PROVE IInv'
  BY <1>0, <1>7, CommitInv
<1>8. ASSUME NEW e \in Execs, Abort(e) PROVE IInv'
  BY <1>8, AbortInv
<1>9. ASSUME NEW e \in Execs, MarkStaleScan(e) PROVE IInv'
  BY <1>0, <1>9, ExecStepInv DEF MarkStaleScan
<1>10. ASSUME NEW e \in Execs, MarkStaleWrite(e) PROVE IInv'
  <2>1. \A f \in Execs :
          \/ exec'[f] = exec[f]
          \/ /\ exec[f].status = "RUNNING" /\ ~Locked(f)
             /\ exec'[f] = [exec[f] EXCEPT !.status = "WAITING"]
    BY <1>10 DEF MarkStaleWrite, TypeInv, TypeOK
  <2> QED BY <1>0, <1>10, <2>1, ExecStepInv DEF MarkStaleWrite
<1>11. ASSUME NEW m \in outbox, Relay(m) PROVE IInv'
  <2>1. sent' \cup outbox' = sent \cup outbox
    BY <1>11 DEF Relay
  <2> QED BY <1>0, <1>11, <2>1, ExecStepInv DEF Relay
<1>12. ASSUME NEW r \in Routines, DeleteRoutine(r) PROVE IInv'
  <2>1. ASSUME NEW f \in Execs
        PROVE  \/ exec'[f] = exec[f]
               \/ /\ exec[f].status # "unborn" /\ ~Locked(f)
                  /\ exec'[f] = NoExecution("deleted")
    <3>1. exec[f].routine = r => exec[f].status # "unborn"
      BY <1>12, NoneAssumption DEF IInv, KidsFresh
    <3> QED BY <1>12, <3>1 DEF DeleteRoutine
  <2> QED BY <1>0, <1>12, <2>1, ExecStepInv DEF DeleteRoutine
<1>13. CASE UNCHANGED vars
  BY <1>0, <1>13, ExecStepInv DEF vars
<1> QED
  BY <1>1, <1>2, <1>3, <1>4, <1>5, <1>6, <1>7, <1>8, <1>9, <1>10, <1>11, <1>12, <1>13 DEF Next

(* The inductive invariant holds in every reachable state. *)
THEOREM Invariant == Spec => [](TypeInv /\ IInv)
<1>1. Init => TypeInv /\ IInv
  BY TypeInit, InvInit
<1>2. TypeInv /\ IInv /\ [Next]_vars => (TypeInv /\ IInv)'
  BY TypeStep, InvStep
<1> QED BY <1>1, <1>2, PTL DEF Spec

(* For every routine and every order of deliveries: no row runs before all *)
(* rows of the earlier steps are completed or skipped.                     *)
THEOREM StepsInOrder == Spec => []StepBarrier
<1>1. TypeInv /\ IInv => StepBarrier
  BY DEF IInv, GoodCopies, Good, StepBarrier
<1> QED BY <1>1, Invariant, PTL

(* For every routine and every order of deliveries: the verdict of an      *)
(* execution fits its rows, while late results come in as well.            *)
THEOREM VerdictCorrect == Spec => []VerdictFitsRows
<1>1. TypeInv /\ IInv => VerdictFitsRows
  BY DEF IInv, GoodCopies, Good, VerdictFitsRows
<1> QED BY <1>1, Invariant, PTL

-----------------------------------------------------------------------------
(* The second invariant: first one execution. *)

(* What a round leaves in flight is what it is about to emit. *)
LEMMA FlightAfterDispatch ==
  ASSUME NEW x \in Execution, NEW S, NEW o \in BatchOutcomes(x, S),
         Decision(x) = "dispatch", Good(x)
  PROVE  /\ \A r \in ToSend(o) \cup Calls(o) :
              r \in Row /\ x.row[r] = "PENDING" /\ Dispatch(x, o).row[r] = "DISPATCHED"
         /\ \A r \in ToSend(o) : KindOf(r) = "worker"
         /\ \A r \in Calls(o) : KindOf(r) = "call"
         /\ \A r \in Row : Dispatch(x, o).row[r] \in Flight => r \in ToSend(o) \cup Calls(o)
         /\ ToSend(o) # {} => RowsIn(Dispatch(x, o), {"FAILED"}) = {} /\ Dispatch(x, o).status = "RUNNING"
         /\ Dispatch(x, o).status \in {x.status, "RUNNING"}
<1> DEFINE y == Dispatch(x, o)
<1>1. DOMAIN o = Batch(x) /\ o \in [Batch(x) -> Outcome]
  BY DispatchType
<1>2. ASSUME NEW r \in Row
      PROVE  /\ y.row[r] = RowAfter(x, o, r)
             /\ r \notin Batch(x) => RowAfter(x, o, r) \in {x.row[r], "PENDING"}
  BY <1>2, RowsAfterDispatch DEF Good
<1>3. ASSUME NEW r \in ToSend(o) \cup Calls(o)
      PROVE  r \in Row /\ r \in Batch(x) /\ x.row[r] = "PENDING" /\ y.row[r] = "DISPATCHED"
  <2>1. r \in Batch(x) /\ o[r].to = "DISPATCHED"
    BY <1>1 DEF ToSend, Calls, Dispatched
  <2>2. r \in Row /\ x.row[r] = "PENDING"
    BY <2>1, RowsWhenDispatching
  <2>3. RowAfter(x, o, r) = "DISPATCHED"
    BY <1>1, <2>1 DEF RowAfter
  <2> QED BY <1>2, <2>1, <2>2, <2>3
<1>4. ASSUME NEW r \in Row, y.row[r] \in Flight
      PROVE  r \in ToSend(o) \cup Calls(o)
  <2>1. CASE r \in Batch(x)
    BY <1>1, <1>2, <1>4, <2>1 DEF RowAfter, Flight, Outcome
  <2>2. CASE r \notin Batch(x)
    BY <1>2, <1>4, <2>2, RowsWhenDispatching DEF Flight
  <2> QED BY <2>1, <2>2
<1>5. ASSUME ToSend(o) # {}
      PROVE  RowsIn(y, {"FAILED"}) = {} /\ y.status = "RUNNING"
  <2>1. ~AnyFailed(o)
    BY <1>5 DEF ToSend
  <2>2. y.status = "RUNNING"
    BY <2>1 DEF Dispatch, Execution
  <2>3. ASSUME NEW r \in Row PROVE y.row[r] # "FAILED"
    <3>1. CASE r \in Batch(x)
      BY <1>1, <1>2, <2>1, <3>1 DEF RowAfter, AnyFailed
    <3>2. CASE r \notin Batch(x)
      BY <1>2, <3>2, RowsWhenDispatching
    <3> QED BY <3>1, <3>2
  <2> QED BY <2>2, <2>3 DEF RowsIn
<1>6. y.status \in {x.status, "RUNNING"}
  BY DEF Dispatch, Execution
<1>7. /\ \A r \in ToSend(o) : KindOf(r) = "worker"
      /\ \A r \in Calls(o) : KindOf(r) = "call"
  BY DEF ToSend, Calls, Dispatched
<1> QED BY <1>3, <1>4, <1>5, <1>6, <1>7

(* The condition of a row runs in an earlier step (ValidDefinition). *)
LEMMA ConditionBefore ==
  ASSUME NEW k \in Keys, Action[k].runIf \in Keys
  PROVE  /\ <<k, 0>> \in Row /\ <<Action[k].runIf, 0>> \in Row
         /\ StepOf(<<Action[k].runIf, 0>>) < StepOf(<<k, 0>>)
  BY ActionAssumption, BoundsAssumption DEF ValidDefinition, Row, StepOf

(* A round reads conditions that are settled, and leaves them alone. *)
LEMMA DispatchObeys ==
  ASSUME NEW x \in Execution, NEW S, NEW o \in BatchOutcomes(x, S),
         Decision(x) = "dispatch", Good(x), x.status \in LiveStatus, Obeys(x)
  PROVE  Obeys(Dispatch(x, o))
<1> DEFINE y == Dispatch(x, o)
<1>1. /\ DOMAIN o = Batch(x) /\ o \in [Batch(x) -> Outcome]
      /\ ExpandedOnce(x) /\ x.status # "FAILED"
  BY DispatchType DEF Good, LiveStatus
<1>2. ASSUME NEW k \in Keys, x.row[<<k, 0>>] # "PENDING"
      PROVE  y.row[<<k, 0>>] = x.row[<<k, 0>>] /\ y.val[k] = x.val[k]
  <2>1. <<k, 0>> \in Row /\ <<k, 0>>[2] = 0
    BY BoundsAssumption DEF Row
  <2>2. <<k, 0>> \notin Batch(x)
    BY <1>2, <2>1, RowsWhenDispatching
  <2>3. y.row[<<k, 0>>] = x.row[<<k, 0>>]
    BY <1>1, <2>1, <2>2, RowsAfterDispatch
  <2>4. y.val[k] = ValAfter(x, o, k)
    BY DEF Dispatch, Execution
  <2> QED BY <1>1, <2>2, <2>3, <2>4 DEF ValAfter
<1> SUFFICES ASSUME NEW k \in Keys, Action[k].runIf \in Keys
    PROVE  /\ y.row[<<k, 0>>] \in Left => ConditionMet(y, Action[k].runIf, Action[k].is)
           /\ y.row[<<k, 0>>] = "SKIPPED" =>
                /\ ~ConditionMet(y, Action[k].runIf, Action[k].is)
                /\ y.row[<<Action[k].runIf, 0>>] \notin Flight \cup {"PENDING"}
  BY DEF Obeys
<1> DEFINE p == <<k, 0>>
           q == <<Action[k].runIf, 0>>
<1>3. p \in Row /\ q \in Row /\ StepOf(q) < StepOf(p) /\ StepOf(q) \in Nat /\ StepOf(p) \in Nat
  BY ConditionBefore, RowType
<1>4. ASSUME x.row[q] # "PENDING"
      PROVE  /\ ConditionMet(y, Action[k].runIf, Action[k].is) <=> ConditionMet(x, Action[k].runIf, Action[k].is)
             /\ y.row[q] = x.row[q]
  BY <1>2, <1>4 DEF ConditionMet
<1>5. CASE p \in Batch(x)
  <2>1. x.row[q] # "PENDING"
    <3>1. x.row[q] = "PENDING" => StepOf(p) <= StepOf(q)
      BY <1>3, <1>5, RowsWhenDispatching
    <3> QED BY <1>3, <3>1
  <2>2. y.row[q] \notin Flight \cup {"PENDING"}
    BY <1>3, <1>4, <2>1, RowsWhenDispatching DEF Flight
  <2>3. y.row[p] = RowAfter(x, o, p)
    BY <1>1, <1>3, RowsAfterDispatch
  <2>4. o[p] \in Outcomes(x, p, S)
    BY <1>1, <1>5 DEF BatchOutcomes
  <2>5. CASE Skips(x, p)
    <3>1. o[p].to = "SKIPPED"
      BY <2>4, <2>5 DEF Outcomes, To
    <3>2. y.row[p] = "SKIPPED"
      BY <1>1, <1>5, <2>3, <3>1 DEF RowAfter
    <3>3. ~ConditionMet(x, Action[k].runIf, Action[k].is)
      BY <2>5 DEF Skips
    <3> QED BY <1>4, <2>1, <2>2, <3>2, <3>3 DEF Left
  <2>6. CASE ~Skips(x, p)
    <3>1. ConditionMet(x, Action[k].runIf, Action[k].is)
      BY <2>6 DEF Skips
    <3>2. o[p].to # "SKIPPED"
      <4>1. CASE o[p] = To("FAILED")
        BY <4>1 DEF To
      <4>2. CASE o[p] \in Handled(x, p, S)
        <5>1. KindOf(p) \in Kinds
          BY ActionAssumption DEF KindOf, ActionDefinition
        <5>2. CASE Expands(p)
          BY <4>2, <5>2 DEF Handled, To
        <5>3. CASE ~Expands(p)
          BY <4>2, <5>1, <5>3 DEF Handled, To, Kinds
        <5> QED BY <5>2, <5>3
      <4> QED BY <2>4, <2>6, <4>1, <4>2 DEF Outcomes
    <3>3. y.row[p] # "SKIPPED"
      BY <1>1, <1>5, <2>3, <3>2 DEF RowAfter
    <3> QED BY <1>4, <2>1, <3>1, <3>3
  <2> QED BY <2>5, <2>6
<1>6. CASE p \notin Batch(x)
  <2>1. y.row[p] = x.row[p]
    <3>1. p[2] = 0
      OBVIOUS
    <3> QED BY <1>1, <1>3, <1>6, <3>1, RowsAfterDispatch
  <2>2. y.row[p] \in Left => x.row[q] = "COMPLETED" /\ ConditionMet(x, Action[k].runIf, Action[k].is)
    BY <2>1 DEF Obeys, ConditionMet
  <2>3. y.row[p] = "SKIPPED" =>
          /\ ~ConditionMet(x, Action[k].runIf, Action[k].is)
          /\ x.row[q] \notin Flight \cup {"PENDING"}
    BY <1>1, <2>1 DEF Obeys
  <2> QED BY <1>4, <2>2, <2>3
<1> QED BY <1>5, <1>6

(* A result is for a row in flight, which is no settled condition. *)
LEMMA AnsweredObeys ==
  ASSUME NEW x \in Execution, NEW r \in Row, NEW kind \in ResultKinds, x.row[r] \in Flight, Obeys(x)
  PROVE  /\ Obeys(Answered(x, r, kind))
         /\ \A q \in Row : Answered(x, r, kind).row[q] \in Flight => x.row[q] \in Flight
<1> DEFINE y == Answered(x, r, kind)
<1>1. /\ y.status = x.status /\ y.val = x.val
      /\ y.row[r] \in {"COMPLETED", "FAILED", "RETRYING"}
      /\ \A q \in Row : q # r => y.row[q] = x.row[q]
  BY AnsweredType DEF Answered, Execution
<1> HIDE DEF y
<1>2. ASSUME NEW k \in Keys, Action[k].runIf \in Keys
      PROVE  /\ y.row[<<k, 0>>] \in Left => ConditionMet(y, Action[k].runIf, Action[k].is)
             /\ y.row[<<k, 0>>] = "SKIPPED" /\ y.status # "FAILED" =>
                  /\ ~ConditionMet(y, Action[k].runIf, Action[k].is)
                  /\ y.row[<<Action[k].runIf, 0>>] \notin Flight \cup {"PENDING"}
  <2> DEFINE p == <<k, 0>>
             q == <<Action[k].runIf, 0>>
  <2>1. p \in Row /\ q \in Row
    BY <1>2, ConditionBefore
  <2>2. ASSUME y.row[p] \in Left PROVE ConditionMet(y, Action[k].runIf, Action[k].is)
    <3>1. x.row[p] \in Left
      BY <1>1, <2>1, <2>2 DEF Left, Flight
    <3>2. ConditionMet(x, Action[k].runIf, Action[k].is)
      BY <1>2, <3>1 DEF Obeys
    <3>3. q # r
      BY <3>2 DEF ConditionMet, Flight
    <3> QED BY <1>1, <2>1, <3>2, <3>3 DEF ConditionMet
  <2>3. ASSUME y.row[p] = "SKIPPED", y.status # "FAILED"
        PROVE  ~ConditionMet(y, Action[k].runIf, Action[k].is) /\ y.row[q] \notin Flight \cup {"PENDING"}
    <3>1. x.row[p] = "SKIPPED" /\ x.status # "FAILED"
      BY <1>1, <2>1, <2>3
    <3>2. ~ConditionMet(x, Action[k].runIf, Action[k].is) /\ x.row[q] \notin Flight \cup {"PENDING"}
      BY <1>2, <3>1 DEF Obeys
    <3>3. q # r
      BY <3>2
    <3> QED BY <1>1, <2>1, <3>2, <3>3 DEF ConditionMet
  <2> QED BY <2>2, <2>3
<1>3. \A q \in Row : y.row[q] \in Flight => x.row[q] \in Flight
  BY <1>1
<1> QED BY <1>2, <1>3 DEF Obeys, y

(* The end of an execution, and changes between the statuses of a live one. *)
LEMMA StatusObeys ==
  ASSUME NEW x \in Execution, Obeys(x), x.status # "FAILED", NEW s
  PROVE  Obeys([x EXCEPT !.status = s])
<1> DEFINE y == [x EXCEPT !.status = s]
<1>1. y.row = x.row /\ y.val = x.val
  BY DEF Execution
<1> HIDE DEF y
<1> QED BY <1>1 DEF Obeys, ConditionMet, y

LEMMA EndObeys ==
  ASSUME NEW x \in Execution, Obeys(x), x.status \in LiveStatus
  PROVE  Obeys(Complete(x)) /\ Obeys(Fail(x))
<1>1. Obeys(Complete(x))
  BY StatusObeys DEF Complete, LiveStatus
<1> DEFINE y == Fail(x)
<1>2. /\ y.status = "FAILED" /\ y.val = x.val
      /\ \A r \in Row : y.row[r] = IF x.row[r] = "PENDING" THEN "SKIPPED" ELSE x.row[r]
  BY DEF Fail, Execution
<1> HIDE DEF y
<1>3. ASSUME NEW k \in Keys, Action[k].runIf \in Keys, y.row[<<k, 0>>] \in Left
      PROVE  ConditionMet(y, Action[k].runIf, Action[k].is)
  <2>1. <<k, 0>> \in Row /\ <<Action[k].runIf, 0>> \in Row
    BY <1>3, ConditionBefore
  <2>2. x.row[<<k, 0>>] \in Left
    BY <1>2, <1>3, <2>1 DEF Left
  <2>3. ConditionMet(x, Action[k].runIf, Action[k].is)
    BY <1>3, <2>2 DEF Obeys
  <2> QED BY <1>2, <2>1, <2>3 DEF ConditionMet
<1>4. Obeys(y)
  BY <1>2, <1>3 DEF Obeys
<1> QED BY <1>1, <1>4 DEF y

LEMMA NewObeys ==
  /\ \A st \in {"unborn", "deleted"} : Obeys(NoExecution(st)) /\ \A r \in Row : NoExecution(st).row[r] = "absent"
  /\ \A rt, c, d : /\ Obeys(NewExecution(rt, c, d))
                   /\ \A r \in Row : NewExecution(rt, c, d).row[r] \notin Left
                   /\ NewExecution(rt, c, d).depth = d /\ NewExecution(rt, c, d).routine = rt
<1>1. \A k \in Keys : <<k, 0>> \in Row
  BY BoundsAssumption DEF Row
<1>2. ASSUME NEW st \in {"unborn", "deleted"}
      PROVE  Obeys(NoExecution(st)) /\ \A r \in Row : NoExecution(st).row[r] = "absent"
  BY <1>1 DEF NoExecution, Obeys, Left
<1>3. ASSUME NEW rt, NEW c, NEW d
      PROVE  /\ Obeys(NewExecution(rt, c, d))
             /\ \A r \in Row : NewExecution(rt, c, d).row[r] \notin Left
             /\ NewExecution(rt, c, d).depth = d /\ NewExecution(rt, c, d).routine = rt
  <2> DEFINE y == NewExecution(rt, c, d)
  <2>1. /\ \A r \in Row : y.row[r] \in {"absent", "PENDING"}
        /\ y.depth = d /\ y.routine = rt
    BY DEF NewExecution, NoExecution
  <2> HIDE DEF y
  <2>2. Obeys(y)
    BY <1>1, <2>1 DEF Obeys, Left
  <2> QED BY <2>1, <2>2 DEF Left, y
<1> QED BY <1>2, <1>3

(* No round and no result changes the routine of an execution. *)
LEMMA RoutineKept ==
  ASSUME NEW x \in Execution
  PROVE  /\ \A o : Dispatch(x, o).routine = x.routine
         /\ Complete(x).routine = x.routine /\ Fail(x).routine = x.routine
         /\ \A r, kind : Answered(x, r, kind).routine = x.routine
         /\ \A s : [x EXCEPT !.status = s].routine = x.routine
  BY DEF Dispatch, Complete, Fail, Answered, Execution

-----------------------------------------------------------------------------
(* Steps of a transaction: nothing that is committed changes. *)

LEMMA TxStepW ==
  ASSUME TypeInv, WInv, NEW e \in Execs, NEW t, tx' = [tx EXCEPT ![e] = t],
         UNCHANGED <<exec, outbox, sent, routines>>,
         t.phase # "none" => Works(e, exec[e], t) /\ Obeys(t.work)
  PROVE  WInv'
<1>1. tx'[e] = t /\ \A f \in Execs : f # e => tx'[f] = tx[f]
  BY DEF TypeInv, TypeOK
<1>2. WorksRight'
  <2> SUFFICES ASSUME NEW f \in Execs, Locked(f)' PROVE Works(f, exec[f], tx'[f])
    BY DEF WorksRight
  <2> QED BY <1>1 DEF WInv, WorksRight, Locked
<1>3. AllObey'
  <2> SUFFICES ASSUME NEW f \in Execs PROVE Obeys(exec[f]) /\ (Locked(f)' => Obeys(tx'[f].work))
    BY DEF AllObey
  <2> QED BY <1>1 DEF WInv, AllObey, Locked
<1>4. CallersDistinct' /\ ChildrenFit' /\ Triggered' /\ AllMoving'
  BY DEF WInv, CallersDistinct, ChildrenFit, IsChildOf, Exists, Triggered, AllMoving, Emitted
<1>5. AllAwaited'
  BY DEF WInv, AllAwaited, Awaited, ChildrenOf, Exists, Emitted
<1>6. EndAnnounced'
  BY DEF WInv, EndAnnounced, Exists, Emitted
<1> QED BY <1>2, <1>3, <1>4, <1>5, <1>6 DEF WInv

LEMMA StartW ==
  ASSUME TypeInv, IInv, WInv, NEW e \in Execs, Start(e)
  PROVE  WInv'
<1> DEFINE x == exec[e]
           w == [x EXCEPT !.status = "RUNNING"]
           t == [phase |-> "advance", work |-> w, seen |-> "RUNNING", out |-> {}, kids |-> {}]
<1>1. x \in Execution /\ Good(x) /\ Obeys(x) /\ x.status = "PENDING" /\ "RUNNING" \in LiveStatus
  BY DEF TypeInv, TypeOK, IInv, GoodCopies, WInv, AllObey, Start, LiveStatus
<1>2. /\ w.status = "RUNNING" /\ w.row = x.row /\ w.caller = x.caller /\ w.depth = x.depth
      /\ w.routine = x.routine /\ Obeys(w)
  BY <1>1, StatusGood, RoutineKept, StatusObeys
<1>3. tx' = [tx EXCEPT ![e] = t] /\ UNCHANGED <<exec, outbox, sent, routines>>
  BY DEF Start, Open
<1>4. t.phase = "advance" /\ t.work = w /\ t.seen = "RUNNING" /\ t.out = {} /\ t.kids = {}
  OBVIOUS
<1> HIDE DEF t, w
<1>5. Works(e, x, t)
  BY <1>1, <1>2, <1>4 DEF Works, Keeps, Accounts, NewCommands, NewCalls, Advances, LiveStatus
<1> QED BY <1>2, <1>3, <1>4, <1>5, TxStepW

(* A result that changes something is for a row in flight. *)
LEMMA ResultInFlight ==
  ASSUME TypeInv, IInv, NEW e \in Execs, NEW r \in Row, NEW kind, ApplyResult(e, r, kind)
  PROVE  Exists(e) /\ ~Locked(e) /\ exec[e].row[r] \in Flight
<1>1. WasDispatched(e, r) /\ Exists(e) /\ exec[e].row[r] \notin TERMINAL_ACTION_STATUSES /\ ~Locked(e)
  BY ArrivesDispatched DEF ApplyResult
<1> QED BY <1>1 DEF WasDispatched, Left, Flight, TERMINAL_ACTION_STATUSES

LEMMA ApplyResultW ==
  ASSUME TypeInv, IInv, WInv, NEW e \in Execs, NEW r \in Row, NEW kind \in ResultKinds,
         ApplyResult(e, r, kind)
  PROVE  WInv'
<1> DEFINE x == exec[e]
           w == Answered(x, r, kind)
           phase == IF x.status \in TERMINAL_EXECUTION_STATUSES THEN "done" ELSE "advance"
           t == [phase |-> phase, work |-> w, seen |-> x.status, out |-> {}, kids |-> {}]
<1>1. x \in Execution /\ Good(x) /\ Obeys(x) /\ x.row[r] \in Flight /\ Exists(e)
  BY ResultInFlight DEF TypeInv, TypeOK, IInv, GoodCopies, WInv, AllObey
<1>2. /\ w.status = x.status /\ w.caller = x.caller /\ w.depth = x.depth /\ w.routine = x.routine
      /\ Obeys(w)
      /\ \A q \in Row : w.row[q] \in Flight => x.row[q] \in Flight
      /\ \A q \in Row : x.row[q] \in Left => w.row[q] \in Left
  BY <1>1, AnsweredGood, AnsweredObeys, RoutineKept DEF Flight
<1>3. tx' = [tx EXCEPT ![e] = t] /\ UNCHANGED <<exec, outbox, sent, routines>>
  BY DEF ApplyResult, Open
<1>4. /\ t.phase = phase /\ t.work = w /\ t.seen = x.status /\ t.out = {} /\ t.kids = {}
      /\ phase = IF x.status \in TERMINAL_EXECUTION_STATUSES THEN "done" ELSE "advance"
  OBVIOUS
<1>5. x.status \in LiveStatus \cup TERMINAL_EXECUTION_STATUSES
  BY <1>1 DEF Execution, ExecutionStatus, Exists
<1> HIDE DEF t, w, phase
<1>6. Keeps(x, t.work) /\ Accounts(e, x, t) /\ NewCommands(x, t) /\ NewCalls(x, t)
  BY <1>2, <1>4 DEF Keeps, Accounts, NewCommands, NewCalls
<1>7. IF t.phase = "advance" THEN Advances(x, t) ELSE Decides(e, x, t) \/ Records(x, t)
  BY <1>2, <1>4, <1>5 DEF Advances, Records
<1> QED BY <1>2, <1>3, <1>4, <1>6, <1>7, TxStepW DEF Works

(* What the invariant says of a transaction that advances. *)
LEMMA AdvancingW ==
  ASSUME TypeInv, IInv, WInv, NEW e \in Execs, tx[e].phase = "advance"
  PROVE  /\ Keeps(exec[e], tx[e].work) /\ Accounts(e, exec[e], tx[e])
         /\ NewCalls(exec[e], tx[e]) /\ Advances(exec[e], tx[e])
         /\ Obeys(tx[e].work)
<1>1. Locked(e)
  BY DEF Locked
<1> QED BY <1>1 DEF WInv, WorksRight, Works, AllObey

LEMMA DispatchW ==
  ASSUME TypeInv, IInv, WInv, NEW e \in Execs, AdvanceDispatch(e)
  PROVE  WInv'
<1> DEFINE x == exec[e]
           w == tx[e].work
<1>1. tx[e].phase = "advance" /\ Decision(w) = "dispatch" /\ UNCHANGED <<exec, outbox, sent, routines>>
  BY DEF AdvanceDispatch, Advancing
<1>2. PICK o \in BatchOutcomes(w, routines) :
        \E id \in [Calls(o) -> FreeIds] :
          /\ \A r, q \in Calls(o) : id[r] = id[q] => r = q
          /\ tx' = [tx EXCEPT ![e] = DispatchTx(e, o, id)]
  BY DEF AdvanceDispatch
<1>3. PICK id \in [Calls(o) -> FreeIds] :
        /\ \A r, q \in Calls(o) : id[r] = id[q] => r = q
        /\ tx' = [tx EXCEPT ![e] = DispatchTx(e, o, id)]
  BY <1>2
<1> DEFINE t == DispatchTx(e, o, id)
           y == Dispatch(w, o)
<1>4. /\ w \in Execution /\ Good(w) /\ w.status \in LiveStatus /\ tx[e] \in Transaction
  BY <1>1, AdvancingFacts
<1>5. /\ Keeps(x, w) /\ Accounts(e, x, tx[e]) /\ NewCalls(x, tx[e]) /\ Advances(x, tx[e]) /\ Obeys(w)
  BY <1>1, AdvancingW
<1>6. /\ t.work = y /\ t.phase = PhaseAfter(o) /\ t.seen = tx[e].seen
      /\ t.out = tx[e].out \cup {ActionRequested(e, r) : r \in ToSend(o)}
                           \cup {RoutineTriggered(id[r]) : r \in Calls(o)}
      /\ t.kids = tx[e].kids \cup {<<id[r], r>> : r \in Calls(o)}
  BY DEF DispatchTx
<1>7. /\ y.caller = w.caller /\ y.depth = w.depth /\ y.routine = w.routine
      /\ \A r \in Row : w.row[r] \in Left => y.row[r] \in Left
      /\ Obeys(y)
  BY <1>1, <1>4, <1>5, DispatchGood, DispatchObeys, RoutineKept
<1>8. /\ \A r \in ToSend(o) \cup Calls(o) :
           r \in Row /\ w.row[r] = "PENDING" /\ y.row[r] = "DISPATCHED"
      /\ \A r \in ToSend(o) : KindOf(r) = "worker"
      /\ \A r \in Calls(o) : KindOf(r) = "call"
      /\ \A r \in Row : y.row[r] \in Flight => r \in ToSend(o) \cup Calls(o)
      /\ ToSend(o) # {} => RowsIn(y, {"FAILED"}) = {} /\ y.status = "RUNNING"
      /\ y.status \in {w.status, "RUNNING"}
  BY <1>1, <1>4, FlightAfterDispatch
<1> HIDE DEF t, y
<1>9. Keeps(x, t.work)
  BY <1>5, <1>6, <1>7 DEF Keeps
<1>10. Accounts(e, x, t)
  <2> SUFFICES ASSUME NEW r \in Row, y.row[r] \in Flight PROVE OnItsWay(e, t, r)
    BY <1>6 DEF Accounts
  <2>1. CASE r \in ToSend(o)
    <3>1. ActionRequested(e, r) \in t.out /\ KindOf(r) = "worker"
      BY <1>6, <1>8, <2>1
    <3> QED BY <3>1 DEF OnItsWay
  <2>2. CASE r \in Calls(o)
    <3>1. <<id[r], r>> \in t.kids /\ KindOf(r) = "call" /\ <<id[r], r>>[2] = r
      BY <1>6, <1>8, <2>2
    <3> QED BY <3>1 DEF OnItsWay
  <2> QED BY <1>8, <2>1, <2>2
<1>11. \A r \in ToSend(o) \cup Calls(o) : x.row[r] \notin Left
  BY <1>5, <1>8 DEF Keeps, Left
<1>12. ASSUME NEW m \in t.out, m.type # "RoutineTriggered"
       PROVE  \E r \in ToSend(o) : m = ActionRequested(e, r)
  <2>1. m \notin tx[e].out
    BY <1>5, <1>12 DEF Advances
  <2>2. m \notin {RoutineTriggered(id[r]) : r \in Calls(o)}
    BY <1>12 DEF RoutineTriggered
  <2> QED BY <1>6, <1>12, <2>1, <2>2
<1>13. NewCommands(x, t)
  <2> SUFFICES ASSUME NEW m \in t.out, m.type = "ActionRequested"
               PROVE  x.row[m.row] \notin Left /\ RowsIn(y, {"FAILED"}) = {}
    BY <1>6 DEF NewCommands
  <2>1. PICK r \in ToSend(o) : m = ActionRequested(e, r)
    BY <1>12
  <2> QED BY <1>8, <1>11, <2>1 DEF ActionRequested
<1>14. NewCalls(x, t)
  <2>1. ASSUME NEW kid \in tx[e].kids
        PROVE  /\ x.row[kid[2]] \notin Left /\ KindOf(kid[2]) = "call"
               /\ RoutineTriggered(kid[1]) \in t.out
               /\ kid[2] \in Row /\ w.row[kid[2]] \in Left /\ kid[1] \in Inserted
    <3>1. kid[2] \in Row
      BY <1>4 DEF Transaction
    <3>2. w.row[kid[2]] \in Left
      BY DEF IInv, KidsDispatched
    <3>3. kid[1] \in Inserted
      BY DEF Inserted
    <3> QED BY <1>5, <1>6, <3>1, <3>2, <3>3 DEF NewCalls
  <2>2. ASSUME NEW r \in Calls(o)
        PROVE  /\ id[r] \notin Inserted /\ w.row[r] \notin Left /\ x.row[r] \notin Left
               /\ KindOf(r) = "call" /\ RoutineTriggered(id[r]) \in t.out
    BY <1>6, <1>8, <1>11 DEF FreeIds, Left
  <2>3. ASSUME NEW kid \in t.kids
        PROVE  /\ x.row[kid[2]] \notin Left /\ KindOf(kid[2]) = "call" /\ RoutineTriggered(kid[1]) \in t.out
               /\ kid \in tx[e].kids \/ \E r \in Calls(o) : kid = <<id[r], r>>
    BY <1>6, <2>1, <2>2
  <2>4. ASSUME NEW k \in t.kids, NEW l \in t.kids
        PROVE  k[1] = l[1] <=> k[2] = l[2]
    <3>1. CASE k \in tx[e].kids /\ l \in tx[e].kids
      BY <1>5, <3>1 DEF NewCalls
    <3>2. CASE k \in tx[e].kids /\ \E r \in Calls(o) : l = <<id[r], r>>
      BY <2>1, <2>2, <3>2
    <3>3. CASE l \in tx[e].kids /\ \E r \in Calls(o) : k = <<id[r], r>>
      BY <2>1, <2>2, <3>3
    <3>4. CASE (\E r \in Calls(o) : k = <<id[r], r>>) /\ (\E r \in Calls(o) : l = <<id[r], r>>)
      BY <1>3, <3>4
    <3> QED BY <2>3, <3>1, <3>2, <3>3, <3>4
  <2> QED BY <2>3, <2>4 DEF NewCalls
<1>15. CASE ToSend(o) = {}
  <2>1. t.phase = "advance"
    BY <1>6, <1>15 DEF PhaseAfter
  <2>2. Advances(x, t)
    BY <1>5, <1>6, <1>8, <1>12, <1>15 DEF Advances
  <2>3. Works(e, x, t)
    BY <1>9, <1>10, <1>13, <1>14, <2>1, <2>2 DEF Works
  <2> QED BY <1>1, <1>3, <1>6, <1>7, <2>3, TxStepW DEF t
<1>16. CASE ToSend(o) # {}
  <2>1. t.phase = "done"
    BY <1>6, <1>16 DEF PhaseAfter
  <2>2. Decides(e, x, t)
    <3>1. x.status \in LiveStatus /\ y.status = "RUNNING"
      BY <1>5, <1>8, <1>16 DEF Advances
    <3>2. InFlight(y) # {}
      BY <1>8, <1>16 DEF InFlight, RowsIn
    <3>3. \A m \in t.out : m.type \notin EndTypes
      BY <1>12 DEF EndTypes, ActionRequested
    <3>4. Announcements(e, y) = {}
      BY <3>1 DEF Announcements, TERMINAL_EXECUTION_STATUSES
    <3> QED BY <1>6, <3>1, <3>2, <3>3, <3>4 DEF Decides, Moving
  <2>3. Works(e, x, t)
    BY <1>9, <1>10, <1>13, <1>14, <2>1, <2>2 DEF Works
  <2> QED BY <1>1, <1>3, <1>6, <1>7, <2>3, TxStepW DEF t
<1> QED BY <1>15, <1>16

LEMMA EndW ==
  ASSUME TypeInv, IInv, WInv, NEW e \in Execs, AdvanceComplete(e) \/ AdvanceFail(e)
  PROVE  WInv'
<1> DEFINE x == exec[e]
           w == tx[e].work
<1>1. PICK y \in {Complete(w), Fail(w)} : End(e, y)
  BY DEF AdvanceComplete, AdvanceFail
<1>2. tx[e].phase = "advance" /\ UNCHANGED <<exec, outbox, sent, routines>>
  BY <1>1 DEF AdvanceComplete, AdvanceFail, Advancing, End
<1>3. /\ w \in Execution /\ Good(w) /\ w.status \in LiveStatus /\ tx[e] \in Transaction
  BY <1>2, AdvancingFacts
<1>4. /\ Keeps(x, w) /\ Accounts(e, x, tx[e]) /\ NewCalls(x, tx[e]) /\ Advances(x, tx[e]) /\ Obeys(w)
  BY <1>2, AdvancingW
<1>5. /\ y.caller = w.caller /\ y.depth = w.depth /\ y.routine = w.routine
      /\ y.status \in TERMINAL_EXECUTION_STATUSES
      /\ \A r \in Row : w.row[r] \in Left => y.row[r] \in Left
      /\ Obeys(y)
  BY <1>3, <1>4, EndGood, EndObeys, RoutineKept DEF TERMINAL_EXECUTION_STATUSES
<1>6. \A r \in Row : y.row[r] \in Flight => w.row[r] \in Flight
  <2>1. \A r \in Row : Fail(w).row[r] = IF w.row[r] = "PENDING" THEN "SKIPPED" ELSE w.row[r]
    BY <1>3 DEF Fail, Execution
  <2>2. Complete(w).row = w.row
    BY <1>3, EndGood
  <2> QED BY <2>1, <2>2 DEF Flight
<1> DEFINE t == [tx[e] EXCEPT !.phase = "done", !.work = y,
                   !.out = @ \cup {ExecutionEnded(e, y.status)} \cup Report(y, y.status)]
<1>7. tx' = [tx EXCEPT ![e] = t]
  BY <1>1, <1>3 DEF End, TypeInv, TypeOK
<1>8. /\ t.phase = "done" /\ t.work = y /\ t.kids = tx[e].kids
      /\ t.out = tx[e].out \cup {ExecutionEnded(e, y.status)} \cup Report(y, y.status)
  BY <1>3 DEF Transaction
<1> HIDE DEF t
<1>9. Keeps(x, t.work)
  BY <1>4, <1>5, <1>8 DEF Keeps
<1>10. Accounts(e, x, t)
  BY <1>4, <1>6, <1>8 DEF Accounts, OnItsWay
<1>11. NewCalls(x, t)
  BY <1>4, <1>8 DEF NewCalls
<1>12. /\ \A m \in tx[e].out : m.type = "RoutineTriggered"
       /\ ExecutionEnded(e, y.status).type \in {"ExecutionCompleted", "ExecutionFailed"}
       /\ \A m \in Report(y, y.status) : m.type \in {"ActionCompleted", "ActionFailed"}
  BY <1>4 DEF Advances, ExecutionEnded, Report, SubRoutineResult
<1>13. NewCommands(x, t)
  BY <1>8, <1>12 DEF NewCommands
<1>14. Decides(e, x, t)
  <2>1. x.status \in LiveStatus
    BY <1>4 DEF Advances
  <2>2. Announcements(e, y) = {ExecutionEnded(e, y.status)} \cup Report(y, y.status)
    BY <1>5 DEF Announcements
  <2>3. {m \in t.out : m.type \in EndTypes} = {ExecutionEnded(e, y.status)} \cup Report(y, y.status)
    BY <1>8, <1>12 DEF EndTypes
  <2>4. y.status \notin Moving
    BY <1>5 DEF Moving, TERMINAL_EXECUTION_STATUSES
  <2> QED BY <1>5, <1>8, <2>1, <2>2, <2>3, <2>4 DEF Decides
<1>15. Works(e, x, t)
  BY <1>8, <1>9, <1>10, <1>11, <1>13, <1>14 DEF Works
<1> QED BY <1>2, <1>5, <1>7, <1>8, <1>15, TxStepW

LEMMA WaitW ==
  ASSUME TypeInv, IInv, WInv, NEW e \in Execs, AdvanceWait(e)
  PROVE  WInv'
<1> DEFINE x == exec[e]
           w == tx[e].work
<1>1. PICK s \in InFlightStatuses(w) :
        tx' = [tx EXCEPT ![e].phase = "done",
                 ![e].work.status = IF s = tx[e].seen THEN @ ELSE s]
  BY DEF AdvanceWait
<1>2. /\ tx[e].phase = "advance" /\ Decision(w) = "wait"
      /\ UNCHANGED <<exec, outbox, sent, routines>>
  BY DEF AdvanceWait, Advancing
<1>3. /\ w \in Execution /\ Good(w) /\ w.status \in LiveStatus /\ tx[e] \in Transaction
  BY <1>2, AdvancingFacts
<1>4. /\ Keeps(x, w) /\ Accounts(e, x, tx[e]) /\ NewCalls(x, tx[e]) /\ Advances(x, tx[e]) /\ Obeys(w)
  BY <1>2, AdvancingW
<1> DEFINE u == IF s = tx[e].seen THEN w.status ELSE s
           y == [w EXCEPT !.status = u]
           t == [tx[e] EXCEPT !.phase = "done", !.work = y]
<1>5. u \in Moving /\ u \in LiveStatus
  <2>1. s \in Moving
    BY <1>1 DEF InFlightStatuses, Moving
  <2>2. w.status \in {tx[e].seen, "RUNNING"}
    BY <1>4 DEF Advances
  <2> QED BY <2>1, <2>2 DEF Moving, LiveStatus
<1>6. tx' = [tx EXCEPT ![e] = t]
  BY <1>1, <1>3 DEF TypeInv, TypeOK, Transaction
<1> HIDE DEF u
<1>7. /\ y.status = u /\ y.row = w.row /\ y.caller = w.caller /\ y.depth = w.depth
      /\ y.routine = w.routine
  BY <1>3, <1>5, StatusGood, RoutineKept
<1>8. w.status # "FAILED"
  BY <1>3 DEF LiveStatus
<1>9. Obeys(y)
  BY <1>3, <1>4, <1>8, StatusObeys
<1> HIDE DEF y
<1>10. /\ t.phase = "done" /\ t.work = y /\ t.kids = tx[e].kids /\ t.out = tx[e].out
  BY <1>3 DEF Transaction
<1> HIDE DEF t
<1>11. Keeps(x, t.work) /\ Accounts(e, x, t) /\ NewCalls(x, t)
  BY <1>4, <1>7, <1>10 DEF Keeps, Accounts, OnItsWay, NewCalls
<1>12. \A m \in t.out : m.type = "RoutineTriggered"
  BY <1>4, <1>10 DEF Advances
<1>13. NewCommands(x, t)
  BY <1>12 DEF NewCommands
<1>14. Decides(e, x, t)
  <2>1. x.status \in LiveStatus
    BY <1>4 DEF Advances
  <2>2. InFlight(y) # {}
    BY <1>2, <1>7 DEF Decision, InFlight, RowsIn
  <2>3. Announcements(e, y) = {}
    BY <1>5, <1>7 DEF Announcements, Moving, TERMINAL_EXECUTION_STATUSES
  <2>4. {m \in t.out : m.type \in EndTypes} = {}
    BY <1>12 DEF EndTypes
  <2> QED BY <1>5, <1>7, <1>10, <2>1, <2>2, <2>3, <2>4 DEF Decides
<1>15. Works(e, x, t)
  BY <1>10, <1>11, <1>13, <1>14 DEF Works
<1> QED BY <1>2, <1>6, <1>9, <1>10, <1>15, TxStepW

LEMMA AbortW ==
  ASSUME TypeInv, WInv, NEW e \in Execs, Abort(e)
  PROVE  WInv'
<1>1. NoTransaction.phase = "none"
  BY DEF NoTransaction
<1> QED BY <1>1, TxStepW DEF Abort

(* Steps that move one execution to WAITING, delete the executions of a    *)
(* routine, or change nothing the invariant speaks of.                     *)
LEMMA ExecStepW ==
  ASSUME TypeInv, IInv, WInv, tx' = tx, Emitted' = Emitted, routines' \subseteq routines,
         \A f \in Execs :
           \/ exec'[f] = exec[f]
           \/ /\ exec[f].status # "unborn" /\ ~Locked(f) /\ exec[f].routine \notin routines'
              /\ exec'[f] = NoExecution("deleted")
           \/ /\ exec[f].status = "RUNNING" /\ ~Locked(f)
              /\ exec'[f] = [exec[f] EXCEPT !.status = "WAITING"]
  PROVE  WInv'
<1>1. ASSUME NEW f \in Execs
      PROVE  /\ Obeys(exec'[f])
             /\ Exists(f)' => /\ Exists(f) /\ exec'[f].row = exec[f].row
                              /\ exec'[f].depth = exec[f].depth
                              /\ exec'[f].caller = exec[f].caller
                              /\ \/ exec'[f].status = exec[f].status
                                 \/ exec[f].status = "RUNNING" /\ exec'[f].status = "WAITING"
             /\ ~Exists(f)' /\ Exists(f) => exec[f].routine \notin routines'
             /\ exec'[f].caller # None =>
                  exec'[f].caller = exec[f].caller /\ exec'[f].routine = exec[f].routine
                                                   /\ exec'[f].depth = exec[f].depth
             /\ Locked(f) => exec'[f] = exec[f]
  <2>1. exec[f] \in Execution /\ Good(exec[f]) /\ Obeys(exec[f])
    BY DEF TypeInv, TypeOK, IInv, GoodCopies, WInv, AllObey
  <2>2. CASE exec'[f] = exec[f]
    <3>1. Exists(f)' <=> Exists(f)
      BY <2>2 DEF Exists
    <3> QED BY <2>1, <2>2, <3>1
  <2>3. CASE /\ exec[f].status # "unborn" /\ ~Locked(f) /\ exec[f].routine \notin routines'
             /\ exec'[f] = NoExecution("deleted")
    BY <2>3, NewGood, NewObeys DEF Exists
  <2>4. CASE /\ exec[f].status = "RUNNING" /\ ~Locked(f)
             /\ exec'[f] = [exec[f] EXCEPT !.status = "WAITING"]
    <3>1. "WAITING" \in LiveStatus /\ exec[f].status # "FAILED"
      BY <2>4 DEF LiveStatus
    <3>2. /\ exec'[f].status = "WAITING" /\ exec'[f].row = exec[f].row
          /\ exec'[f].caller = exec[f].caller /\ exec'[f].depth = exec[f].depth
          /\ exec'[f].routine = exec[f].routine /\ Obeys(exec'[f])
      BY <2>1, <2>4, <3>1, StatusGood, StatusObeys, RoutineKept
    <3> QED BY <2>4, <3>2 DEF Exists
  <2> QED BY <2>2, <2>3, <2>4
<1>2. \A f \in Execs : exec[f].caller # None => exec[f].caller[1] \in Execs /\ exec[f].caller[2] \in Row
  BY DEF TypeInv, TypeOK, Execution
<1>3. WorksRight'
  BY <1>1 DEF WInv, WorksRight, Locked
<1>4. AllObey'
  BY <1>1 DEF WInv, AllObey, Locked
<1>5. CallersDistinct'
  BY <1>1 DEF WInv, CallersDistinct
<1>6. ChildrenFit'
  BY <1>1, <1>2 DEF WInv, ChildrenFit, IsChildOf
<1>7. AllAwaited'
  <2> SUFFICES ASSUME NEW e \in Execs, Exists(e)', NEW r \in Row, exec'[e].row[r] \in Flight
               PROVE  Awaited(e, r)'
    BY DEF AllAwaited
  <2>1. Awaited(e, r)
    BY <1>1 DEF WInv, AllAwaited
  <2>2. CASE KindOf(r) # "call"
    BY <2>1, <2>2 DEF Awaited
  <2>3. CASE KindOf(r) = "call" /\ Action[r[1]].target \in routines'
    <3>1. PICK f \in ChildrenOf(e, r) : TRUE
      BY <2>1, <2>3 DEF Awaited
    <3>2. f \in Execs /\ Exists(f) /\ exec[f].caller = <<e, r>>
      BY <3>1 DEF ChildrenOf
    <3>3. exec[f].routine = Action[r[1]].target
      <4>1. exec[f].caller # None /\ exec[f].caller[1] = e /\ exec[f].caller[2] = r
        BY <3>2, CallerAssumption
      <4> QED BY <3>2, <4>1 DEF WInv, ChildrenFit, IsChildOf
    <3>4. Exists(f)' /\ exec'[f].caller = <<e, r>>
      BY <1>1, <2>3, <3>2, <3>3
    <3> QED BY <2>3, <3>2, <3>4 DEF Awaited, ChildrenOf, Exists
  <2> QED BY <2>2, <2>3 DEF Awaited
<1>8. Triggered'
  BY <1>1 DEF WInv, Triggered, Exists
<1>9. AllMoving'
  BY <1>1 DEF WInv, AllMoving, Moving, Exists, InFlight, RowsIn
<1>10. EndAnnounced'
  <2> SUFFICES ASSUME NEW f \in Execs, Exists(f)', NEW s \in TERMINAL_EXECUTION_STATUSES
               PROVE  /\ ExecutionEnded(f, s) \in Emitted <=> exec'[f].status = s
                      /\ exec'[f].caller # None =>
                           (SubRoutineResult(exec'[f].caller, s) \in Emitted <=> exec'[f].status = s)
    BY DEF EndAnnounced
  <2>1. exec'[f].status = s <=> exec[f].status = s
    BY <1>1 DEF TERMINAL_EXECUTION_STATUSES
  <2>2. Exists(f) /\ exec'[f].caller = exec[f].caller
    BY <1>1
  <2> QED BY <2>1, <2>2 DEF WInv, EndAnnounced
<1> QED BY <1>3, <1>4, <1>5, <1>6, <1>7, <1>8, <1>9, <1>10 DEF WInv

LEMMA TriggerW ==
  ASSUME TypeInv, IInv, WInv, NEW e \in Execs, NEW rt \in Routines, Trigger(e, rt)
  PROVE  WInv'
<1>1. /\ exec[e].status = "unborn" /\ tx' = tx /\ routines' = routines
      /\ Emitted' = Emitted \cup {RoutineTriggered(e)}
  BY DEF Trigger, FreeIds, Emitted
<1>2. exec'[e] = NewExecution(rt, None, 0) /\ \A f \in Execs : f # e => exec'[f] = exec[f]
  BY DEF Trigger, TypeInv, TypeOK
<1>3. /\ exec'[e].status = "PENDING" /\ exec'[e].caller = None /\ Obeys(exec'[e])
      /\ \A r \in Row : exec'[e].row[r] \notin Left
  BY <1>2, NewGood, NewObeys
<1>4. ~Locked(e) /\ ~Exists(e)
  BY <1>1 DEF IInv, LockedExists, Exists
<1>5. \A f \in Execs : exec[f].caller # None =>
        exec[f].caller[1] \in Execs /\ exec[f].caller[2] \in Row /\ exec[f].caller[1] # e
  BY <1>1 DEF TypeInv, TypeOK, Execution, IInv, CallerDispatched, WasDispatched
<1>6. \A f \in Execs, r \in Row : ChildrenOf(f, r) \subseteq ChildrenOf(f, r)'
  BY <1>2, <1>4 DEF ChildrenOf, Exists
<1>7. WorksRight' /\ AllObey'
  BY <1>1, <1>2, <1>3, <1>4 DEF WInv, WorksRight, AllObey, Locked
<1>8. CallersDistinct'
  BY <1>2, <1>3 DEF WInv, CallersDistinct
<1>9. ChildrenFit'
  BY <1>2, <1>3, <1>5 DEF WInv, ChildrenFit, IsChildOf, Exists
<1>10. AllAwaited'
  <2> SUFFICES ASSUME NEW f \in Execs, Exists(f)', NEW r \in Row, exec'[f].row[r] \in Flight
               PROVE  Awaited(f, r)'
    BY DEF AllAwaited
  <2>1. f # e /\ exec'[f] = exec[f]
    BY <1>2, <1>3 DEF Left, Flight
  <2>2. Awaited(f, r)
    BY <2>1 DEF WInv, AllAwaited, Exists
  <2> QED BY <1>1, <1>6, <2>2 DEF Awaited
<1>11. Triggered' /\ AllMoving'
  BY <1>1, <1>2, <1>3 DEF WInv, Triggered, AllMoving, Moving
<1>12. EndAnnounced'
  <2> SUFFICES ASSUME NEW f \in Execs, Exists(f)', NEW s \in TERMINAL_EXECUTION_STATUSES
               PROVE  /\ ExecutionEnded(f, s) \in Emitted' <=> exec'[f].status = s
                      /\ exec'[f].caller # None =>
                           (SubRoutineResult(exec'[f].caller, s) \in Emitted' <=> exec'[f].status = s)
    BY DEF EndAnnounced
  <2>1. /\ ExecutionEnded(f, s) \in Emitted' <=> ExecutionEnded(f, s) \in Emitted
        /\ \A c : SubRoutineResult(c, s) \in Emitted' <=> SubRoutineResult(c, s) \in Emitted
    BY <1>1 DEF ExecutionEnded, SubRoutineResult, RoutineTriggered
  <2>2. CASE f = e
    <3>1. ExecutionEnded(e, s) \notin Emitted
      BY <1>1 DEF IInv, EmittedDispatched, ExecutionEnded
    <3>2. exec'[e].status # s
      BY <1>3 DEF TERMINAL_EXECUTION_STATUSES
    <3> QED BY <1>3, <2>1, <2>2, <3>1, <3>2
  <2>3. CASE f # e
    <3>1. exec'[f] = exec[f] /\ Exists(f)
      BY <1>2, <2>3 DEF Exists
    <3> QED BY <2>1, <3>1 DEF WInv, EndAnnounced
  <2> QED BY <2>2, <2>3
<1> QED BY <1>7, <1>8, <1>9, <1>10, <1>11, <1>12 DEF WInv

(* What a commit makes visible. *)
LEMMA CommitFacts ==
  ASSUME TypeInv, IInv, WInv, NEW e \in Execs, Commit(e)
  PROVE  /\ tx[e].phase = "done" /\ Locked(e) /\ Exists(e) /\ tx[e] \in Transaction
         /\ tx'[e].phase = "none" /\ \A f \in Execs : f # e => tx'[f] = tx[f]
         /\ Emitted' = Emitted \cup tx[e].out /\ routines' = routines
         /\ Works(e, exec[e], tx[e])
         /\ exec'[e] = tx[e].work
         /\ \A f \in Execs : \/ f = e
                             \/ exec'[f] = exec[f] /\ \A r \in Row : <<f, r>> \notin tx[e].kids
                             \/ \E r \in Row : <<f, r>> \in tx[e].kids
         /\ \A f \in Execs, r \in Row : <<f, r>> \in tx[e].kids =>
              /\ f # e /\ exec[f].status = "unborn" /\ ~Locked(f)
              /\ exec'[f] = Child(e, r)
              /\ exec[e].row[r] \notin Left
              /\ KindOf(r) = "call"
              /\ RoutineTriggered(f) \in tx[e].out
<1>1. /\ tx[e].phase = "done" /\ Locked(e) /\ tx[e] \in Transaction /\ exec'[e] = tx[e].work
      /\ tx'[e] = NoTransaction /\ \A f \in Execs : f # e => tx'[f] = tx[f]
      /\ Emitted' = Emitted \cup tx[e].out /\ routines' = routines
  BY DEF Commit, TypeInv, TypeOK, Locked, Emitted
<1>2. tx'[e].phase = "none"
  BY <1>1 DEF NoTransaction
<1>3. Exists(e) /\ Works(e, exec[e], tx[e]) /\ NewCalls(exec[e], tx[e])
  BY <1>1 DEF IInv, LockedExists, WInv, WorksRight, Works
<1>4. ASSUME NEW f \in Execs, f # e, \A r \in Row : <<f, r>> \notin tx[e].kids
      PROVE  exec'[f] = exec[f]
  BY <1>4 DEF Commit
<1>5. ASSUME NEW f \in Execs, NEW r \in Row, <<f, r>> \in tx[e].kids
      PROVE  /\ f # e /\ exec[f].status = "unborn" /\ ~Locked(f)
             /\ exec'[f] = Child(e, r)
             /\ exec[e].row[r] \notin Left
             /\ KindOf(r) = "call"
             /\ RoutineTriggered(f) \in tx[e].out
  <2>1. exec[f].status = "unborn"
    BY <1>5 DEF IInv, KidsFresh
  <2>2. f # e /\ ~Locked(f)
    BY <1>3, <2>1 DEF IInv, LockedExists, Exists
  <2>3. \A q \in Row : <<f, q>> \in tx[e].kids => q = r
    BY <1>3, <1>5 DEF NewCalls
  <2>4. (CHOOSE q \in Row : <<f, q>> \in tx[e].kids) = r
    BY <1>5, <2>3
  <2>5. exec'[f] = Child(e, r)
    BY <1>5, <2>2, <2>4 DEF Commit
  <2> QED BY <1>3, <1>5, <2>1, <2>2, <2>5 DEF NewCalls
<1>6. \A f \in Execs : \/ f = e
                       \/ exec'[f] = exec[f] /\ \A r \in Row : <<f, r>> \notin tx[e].kids
                       \/ \E r \in Row : <<f, r>> \in tx[e].kids
  BY <1>4
<1> QED BY <1>1, <1>2, <1>3, <1>5, <1>6

(* Nothing was ever sent to, or is awaited from, a row that is dispatched  *)
(* only now. *)
LEMMA FreshRow ==
  ASSUME TypeInv, IInv, NEW e \in Execs, NEW r \in Row, Exists(e), exec[e].row[r] \notin Left
  PROVE  /\ \A m \in Emitted : m.type \in RowMessages => ~(m.exec = e /\ m.row = r)
         /\ \A f \in Execs : exec[f].caller # <<e, r>>
<1>1. ~WasDispatched(e, r)
  BY DEF WasDispatched
<1>2. \A m \in Emitted : m.type \in RowMessages => ~(m.exec = e /\ m.row = r)
  BY <1>1 DEF IInv, EmittedDispatched
<1>3. ASSUME NEW f \in Execs, exec[f].caller = <<e, r>> PROVE FALSE
  <2>1. exec[f].caller # None /\ exec[f].caller[1] = e /\ exec[f].caller[2] = r
    BY <1>3, CallerAssumption
  <2> QED BY <1>1, <2>1 DEF IInv, CallerDispatched
<1> QED BY <1>2, <1>3

LEMMA CommitW ==
  ASSUME TypeInv, IInv, WInv, NEW e \in Execs, Commit(e)
  PROVE  WInv'
<1> DEFINE x == exec[e]
           w == tx[e].work
           t == tx[e]
<1>1. /\ t.phase = "done" /\ Locked(e) /\ Exists(e) /\ t \in Transaction
      /\ tx'[e].phase = "none" /\ \A f \in Execs : f # e => tx'[f] = tx[f]
      /\ Emitted' = Emitted \cup t.out /\ routines' = routines
      /\ Works(e, x, t) /\ exec'[e] = w
  BY CommitFacts
<1>2. \A f \in Execs : \/ f = e
                       \/ exec'[f] = exec[f] /\ \A r \in Row : <<f, r>> \notin t.kids
                       \/ \E r \in Row : <<f, r>> \in t.kids
  BY CommitFacts
<1>3. ASSUME NEW f \in Execs, NEW r \in Row, <<f, r>> \in t.kids
      PROVE  /\ f # e /\ exec[f].status = "unborn" /\ ~Locked(f)
             /\ exec'[f].status = "PENDING" /\ exec'[f].caller = <<e, r>>
             /\ exec'[f].routine = Action[r[1]].target
             /\ exec'[f].depth = w.depth + 1
             /\ Obeys(exec'[f]) /\ \A q \in Row : exec'[f].row[q] \notin Left
             /\ x.row[r] \notin Left /\ KindOf(r) = "call"
             /\ RoutineTriggered(f) \in t.out
  <2>1. /\ f # e /\ exec[f].status = "unborn" /\ ~Locked(f) /\ exec'[f] = Child(e, r)
        /\ x.row[r] \notin Left /\ KindOf(r) = "call" /\ RoutineTriggered(f) \in t.out
    BY <1>3, CommitFacts
  <2>2. /\ Child(e, r).status = "PENDING" /\ Child(e, r).caller = <<e, r>>
        /\ Child(e, r).routine = Action[r[1]].target /\ Child(e, r).depth = w.depth + 1
        /\ Obeys(Child(e, r)) /\ \A q \in Row : Child(e, r).row[q] \notin Left
    BY NewGood, NewObeys DEF Child
  <2> QED BY <2>1, <2>2
<1>4. Keeps(x, w) /\ Accounts(e, x, t) /\ NewCalls(x, t) /\ (Decides(e, x, t) \/ Records(x, t)) /\ Obeys(w)
  BY <1>1 DEF Works, WInv, AllObey
<1>5. ASSUME NEW f \in Execs, \A r \in Row : <<f, r>> \notin t.kids
      PROVE  /\ exec'[f].caller = exec[f].caller /\ exec'[f].routine = exec[f].routine
             /\ exec'[f].depth = exec[f].depth
             /\ f # e => exec'[f] = exec[f]
  BY <1>1, <1>2, <1>4, <1>5 DEF Keeps
<1>6. \A f \in Execs : Exists(f) => Exists(f)' /\ exec'[f].caller = exec[f].caller
  <2>1. Exists(e)'
    BY <1>1 DEF IInv, LockedExists, Exists
  <2> QED BY <1>2, <1>3, <1>5, <2>1 DEF Exists
<1>7. \A f \in Execs, r \in Row : ChildrenOf(f, r) \subseteq ChildrenOf(f, r)'
  BY <1>6 DEF ChildrenOf
<1>8. \A f \in Execs : exec[f].caller # None =>
        /\ exec[f].caller \in Execs \X Row
        /\ exec[exec[f].caller[1]].status # "unborn"
  BY DEF TypeInv, TypeOK, Execution, IInv, CallerDispatched, WasDispatched
<1>9. WorksRight'
  <2> SUFFICES ASSUME NEW f \in Execs, Locked(f)' PROVE Works(f, exec'[f], tx'[f])
    BY DEF WorksRight
  <2>1. f # e /\ Locked(f) /\ tx'[f] = tx[f]
    BY <1>1 DEF Locked
  <2>2. exec'[f] = exec[f]
    BY <1>2, <1>3, <2>1
  <2> QED BY <2>1, <2>2 DEF WInv, WorksRight
<1>10. AllObey'
  <2> SUFFICES ASSUME NEW f \in Execs PROVE Obeys(exec'[f]) /\ (Locked(f)' => Obeys(tx'[f].work))
    BY DEF AllObey
  <2>1. Locked(f)' => Obeys(tx'[f].work)
    BY <1>1 DEF Locked, WInv, AllObey
  <2>2. Obeys(exec'[f])
    BY <1>1, <1>2, <1>3, <1>4 DEF WInv, AllObey
  <2> QED BY <2>1, <2>2
<1>11. CallersDistinct'
  <2>1. ASSUME NEW f \in Execs, NEW r \in Row, <<f, r>> \in t.kids,
               NEW g \in Execs, exec'[g].caller = exec'[f].caller
        PROVE  f = g
    <3>1. exec'[g].caller = <<e, r>> /\ x.row[r] \notin Left
      BY <1>3, <2>1
    <3>2. CASE \E q \in Row : <<g, q>> \in t.kids
      <4>1. PICK q \in Row : <<g, q>> \in t.kids
        BY <3>2
      <4>2. q = r
        BY <1>3, <3>1, <4>1
      <4> QED BY <1>4, <2>1, <4>1, <4>2 DEF NewCalls
    <3>3. CASE \A q \in Row : <<g, q>> \notin t.kids
      <4>1. exec[g].caller = <<e, r>>
        BY <1>5, <3>1, <3>3
      <4> QED BY <1>1, <3>1, <4>1, FreshRow
    <3> QED BY <3>2, <3>3
  <2>2. ASSUME NEW f \in Execs, NEW g \in Execs,
               exec'[f].caller # None, exec'[f].caller = exec'[g].caller
        PROVE  f = g
    <3>1. CASE \E r \in Row : <<f, r>> \in t.kids
      BY <2>1, <2>2, <3>1
    <3>2. CASE \E r \in Row : <<g, r>> \in t.kids
      BY <2>1, <2>2, <3>2
    <3>3. CASE /\ \A r \in Row : <<f, r>> \notin t.kids
               /\ \A r \in Row : <<g, r>> \notin t.kids
      <4>1. exec'[f].caller = exec[f].caller /\ exec'[g].caller = exec[g].caller
        BY <1>5, <3>3
      <4> QED BY <2>2, <4>1 DEF WInv, CallersDistinct
    <3> QED BY <3>1, <3>2, <3>3
  <2> QED BY <2>2 DEF CallersDistinct
<1>12. ChildrenFit'
  <2> SUFFICES ASSUME NEW f \in Execs, exec'[f].caller # None
               PROVE  IsChildOf(f, exec[f].caller[1], exec[f].caller[2])'
    BY DEF ChildrenFit
  <2>1. CASE \E r \in Row : <<f, r>> \in t.kids
    <3>1. PICK r \in Row : <<f, r>> \in t.kids
      BY <2>1
    <3>2. w.depth = exec'[e].depth
      BY <1>1
    <3> QED BY <1>3, <3>1, <3>2 DEF IsChildOf
  <2>2. CASE \A r \in Row : <<f, r>> \notin t.kids
    <3> DEFINE p == exec[f].caller[1]
               q == exec[f].caller[2]
    <3>1. /\ exec'[f].caller = exec[f].caller /\ exec'[f].routine = exec[f].routine
          /\ exec'[f].depth = exec[f].depth
      BY <1>5, <2>2
    <3>2. p \in Execs /\ q \in Row /\ exec[p].status # "unborn"
      BY <1>8, <3>1
    <3>3. IsChildOf(f, p, q)
      BY <3>1 DEF WInv, ChildrenFit
    <3>4. \A r \in Row : <<p, r>> \notin t.kids
      BY <1>3, <3>2
    <3>5. exec'[p].depth = exec[p].depth /\ (Exists(p)' => Exists(p))
      BY <1>1, <1>5, <3>1, <3>2, <3>4 DEF Exists
    <3> QED BY <3>1, <3>3, <3>5 DEF IsChildOf
  <2> QED BY <2>1, <2>2
<1>13. AllAwaited'
  <2> SUFFICES ASSUME NEW f \in Execs, Exists(f)', NEW r \in Row, exec'[f].row[r] \in Flight
               PROVE  Awaited(f, r)'
    BY DEF AllAwaited
  <2>1. \A q \in Row : <<f, q>> \notin t.kids
    BY <1>3 DEF Left, Flight
  <2>2. ASSUME Awaited(f, r) PROVE Awaited(f, r)'
    BY <1>1, <1>7, <2>2 DEF Awaited
  <2>3. CASE f # e
    <3>1. exec'[f] = exec[f] /\ Exists(f)
      BY <1>5, <2>1, <2>3 DEF Exists
    <3> QED BY <2>2, <3>1 DEF WInv, AllAwaited
  <2>4. CASE f = e /\ x.row[r] \in Flight
    BY <1>1, <2>2, <2>4 DEF WInv, AllAwaited
  <2>5. CASE f = e /\ OnItsWay(e, t, r)
    <3>1. CASE KindOf(r) = "call"
      <4>1. PICK kid \in t.kids : kid[2] = r
        BY <2>5, <3>1 DEF OnItsWay
      <4>2. kid[1] \in Execs /\ <<kid[1], r>> \in t.kids
        BY <1>1, <4>1 DEF Transaction
      <4>3. Exists(kid[1])' /\ exec'[kid[1]].caller = <<e, r>>
        BY <1>3, <4>2 DEF Exists
      <4> QED BY <2>5, <3>1, <4>2, <4>3 DEF Awaited, ChildrenOf, Exists
    <3>2. CASE KindOf(r) # "call"
      BY <1>1, <2>5, <3>2 DEF OnItsWay, Awaited
    <3> QED BY <3>1, <3>2
  <2> QED BY <1>1, <1>4, <2>3, <2>4, <2>5 DEF Accounts
<1>14. w.status \in Moving \cup TERMINAL_EXECUTION_STATUSES /\ (w.status \in Moving => InFlight(w) # {})
  BY <1>4 DEF Decides, Records, Moving, TERMINAL_EXECUTION_STATUSES
<1>15. Triggered' /\ AllMoving'
  <2> SUFFICES ASSUME NEW f \in Execs
               PROVE  /\ exec'[f].status = "PENDING" => RoutineTriggered(f) \in Emitted'
                      /\ exec'[f].status \in Moving => InFlight(exec'[f]) # {}
    BY DEF Triggered, AllMoving
  <2>1. CASE f = e
    BY <1>1, <1>14, <2>1 DEF Moving, TERMINAL_EXECUTION_STATUSES
  <2>2. CASE exec'[f] = exec[f]
    BY <1>1, <2>2 DEF WInv, Triggered, AllMoving
  <2>3. CASE \E r \in Row : <<f, r>> \in t.kids
    BY <1>1, <1>3, <2>3 DEF Moving
  <2> QED BY <1>2, <2>1, <2>2, <2>3
<1>16. EndAnnounced'
  <2> SUFFICES ASSUME NEW f \in Execs, Exists(f)', NEW s \in TERMINAL_EXECUTION_STATUSES
               PROVE  /\ ExecutionEnded(f, s) \in Emitted' <=> exec'[f].status = s
                      /\ exec'[f].caller # None =>
                           (SubRoutineResult(exec'[f].caller, s) \in Emitted' <=> exec'[f].status = s)
    BY DEF EndAnnounced
  <2>1. /\ ExecutionEnded(f, s) \in t.out => f = e
        /\ \A c : SubRoutineResult(c, s) \in t.out =>
             exec[e].caller # None /\ exec[e].caller = <<c[1], c[2]>>
    BY DEF IInv, OutDispatched, ExecutionEnded, SubRoutineResult
  <2>2. CASE f = e
    <3>1. EndAnnounced /\ exec'[e].caller = x.caller /\ exec'[e].status = w.status
      BY <1>1, <1>6 DEF WInv
    <3>2. CASE Records(x, t)
      BY <1>1, <2>2, <3>1, <3>2 DEF EndAnnounced, Records
    <3>3. CASE Decides(e, x, t)
      <4>1. x.status # s
        BY <3>3 DEF Decides, LiveStatus, TERMINAL_EXECUTION_STATUSES
      <4>2. /\ ExecutionEnded(e, s) \notin Emitted
            /\ x.caller # None => SubRoutineResult(x.caller, s) \notin Emitted
        BY <1>1, <3>1, <4>1 DEF EndAnnounced
      <4>3. \A m : m \in t.out /\ m.type \in EndTypes <=> m \in Announcements(e, w)
        BY <3>3 DEF Decides
      <4>4. ExecutionEnded(e, s).type \in EndTypes /\ \A c : SubRoutineResult(c, s).type \in EndTypes
        BY DEF ExecutionEnded, SubRoutineResult, EndTypes
      <4>5. ExecutionEnded(e, s) \in Announcements(e, w) <=> w.status = s
        BY DEF Announcements, ExecutionEnded, SubRoutineResult, Report, TERMINAL_EXECUTION_STATUSES
      <4>6. x.caller # None => (SubRoutineResult(x.caller, s) \in Announcements(e, w) <=> w.status = s)
        <5>1. w.caller = x.caller
          BY <1>4 DEF Keeps
        <5> QED BY <5>1 DEF Announcements, ExecutionEnded, SubRoutineResult, Report, TERMINAL_EXECUTION_STATUSES
      <4> QED BY <1>1, <2>2, <3>1, <4>2, <4>3, <4>4, <4>5, <4>6
    <3> QED BY <1>4, <3>2, <3>3
  <2>3. CASE \E r \in Row : <<f, r>> \in t.kids
    <3>1. PICK r \in Row : <<f, r>> \in t.kids
      BY <2>3
    <3>2. /\ f # e /\ exec[f].status = "unborn" /\ exec'[f].status = "PENDING"
          /\ exec'[f].caller = <<e, r>> /\ x.row[r] \notin Left
      BY <1>3, <3>1
    <3>3. exec'[f].status # s
      BY <3>2 DEF TERMINAL_EXECUTION_STATUSES
    <3>4. ExecutionEnded(f, s) \notin Emitted'
      <4>1. ExecutionEnded(f, s) \notin Emitted
        BY <3>2 DEF IInv, EmittedDispatched, ExecutionEnded
      <4> QED BY <1>1, <2>1, <3>2, <4>1
    <3>5. SubRoutineResult(<<e, r>>, s) \notin Emitted'
      <4>1. SubRoutineResult(<<e, r>>, s) \notin Emitted
        <5>1. /\ SubRoutineResult(<<e, r>>, s).type \in RowMessages
              /\ SubRoutineResult(<<e, r>>, s).exec = e /\ SubRoutineResult(<<e, r>>, s).row = r
          BY DEF SubRoutineResult, RowMessages
        <5> QED BY <1>1, <3>2, <5>1, FreshRow
      <4>2. SubRoutineResult(<<e, r>>, s) \in t.out => exec[e].caller = <<e, r>>
        BY <2>1
      <4> QED BY <1>1, <3>2, <4>1, <4>2, FreshRow
    <3> QED BY <3>2, <3>3, <3>4, <3>5
  <2>4. CASE f # e /\ \A r \in Row : <<f, r>> \notin t.kids
    <3>1. exec'[f] = exec[f] /\ Exists(f)
      BY <1>5, <2>4 DEF Exists
    <3>2. ExecutionEnded(f, s) \in Emitted' <=> ExecutionEnded(f, s) \in Emitted
      BY <1>1, <2>1, <2>4
    <3>3. exec[f].caller # None => SubRoutineResult(exec[f].caller, s) \notin t.out
      <4> SUFFICES ASSUME exec[f].caller # None, SubRoutineResult(exec[f].caller, s) \in t.out
                   PROVE  FALSE
        OBVIOUS
      <4>1. exec[f].caller = <<exec[f].caller[1], exec[f].caller[2]>>
        BY <1>8
      <4>2. exec[e].caller = exec[f].caller
        BY <2>1, <4>1
      <4> QED BY <2>4, <4>2 DEF WInv, CallersDistinct
    <3> QED BY <1>1, <3>1, <3>2, <3>3 DEF WInv, EndAnnounced
  <2> QED BY <1>2, <2>2, <2>3, <2>4
<1> QED BY <1>9, <1>10, <1>11, <1>12, <1>13, <1>15, <1>16 DEF WInv

LEMMA WInvInit == TypeInv /\ Init => WInv
<1> SUFFICES ASSUME TypeInv, Init PROVE WInv
  OBVIOUS
<1>1. \A e \in Execs : /\ exec[e] = NoExecution("unborn") /\ Obeys(exec[e])
                       /\ exec[e].status = "unborn" /\ exec[e].caller = None
  BY NewGood, NewObeys DEF Init
<1>2. \A e \in Execs : ~Locked(e)
  BY DEF Init, Locked, NoTransaction
<1>3. \A e \in Execs : ~Exists(e)
  BY <1>1 DEF Exists
<1>4. WorksRight /\ AllObey /\ CallersDistinct /\ ChildrenFit
  BY <1>1, <1>2 DEF WorksRight, AllObey, CallersDistinct, ChildrenFit
<1>5. AllAwaited /\ Triggered /\ AllMoving /\ EndAnnounced
  BY <1>1, <1>3 DEF AllAwaited, Triggered, AllMoving, EndAnnounced, Moving
<1> QED BY <1>4, <1>5 DEF WInv

LEMMA DeletedWith ==
  ASSUME TypeInv, IInv, NEW r \in Routines, DeleteRoutine(r), NEW f \in Execs
  PROVE  \/ exec'[f] = exec[f] /\ exec[f].routine # r
         \/ /\ exec[f].status # "unborn" /\ ~Locked(f) /\ exec[f].routine = r
            /\ exec'[f] = NoExecution("deleted")
<1>1. exec[f].routine = r => exec[f].status # "unborn"
  BY NoneAssumption DEF IInv, KidsFresh
<1> QED BY <1>1 DEF DeleteRoutine

LEMMA WInvStep == TypeInv /\ IInv /\ WInv /\ [Next]_vars => WInv'
<1> SUFFICES ASSUME TypeInv, IInv, WInv, [Next]_vars PROVE WInv'
  OBVIOUS
<1>1. ASSUME NEW e \in Execs, NEW r \in Routines, Trigger(e, r) PROVE WInv'
  BY <1>1, TriggerW
<1>2. ASSUME NEW e \in Execs, Start(e) PROVE WInv'
  BY <1>2, StartW
<1>3. ASSUME NEW e \in Execs, NEW r \in Row, NEW kind \in ResultKinds, ApplyResult(e, r, kind)
      PROVE  WInv'
  BY <1>3, ApplyResultW
<1>4. ASSUME NEW e \in Execs, AdvanceDispatch(e) PROVE WInv'
  BY <1>4, DispatchW
<1>5. ASSUME NEW e \in Execs, AdvanceComplete(e) \/ AdvanceFail(e) PROVE WInv'
  BY <1>5, EndW
<1>6. ASSUME NEW e \in Execs, AdvanceWait(e) PROVE WInv'
  BY <1>6, WaitW
<1>7. ASSUME NEW e \in Execs, Commit(e) PROVE WInv'
  BY <1>7, CommitW
<1>8. ASSUME NEW e \in Execs, Abort(e) PROVE WInv'
  BY <1>8, AbortW
<1>9. ASSUME NEW e \in Execs, MarkStaleScan(e) PROVE WInv'
  BY <1>9, ExecStepW DEF MarkStaleScan, Emitted
<1>10. ASSUME NEW e \in Execs, MarkStaleWrite(e) PROVE WInv'
  <2>1. \A f \in Execs :
          \/ exec'[f] = exec[f]
          \/ /\ exec[f].status = "RUNNING" /\ ~Locked(f)
             /\ exec'[f] = [exec[f] EXCEPT !.status = "WAITING"]
    BY <1>10 DEF MarkStaleWrite, TypeInv, TypeOK
  <2> QED BY <1>10, <2>1, ExecStepW DEF MarkStaleWrite, Emitted
<1>11. ASSUME NEW m \in outbox, Relay(m) PROVE WInv'
  <2>1. Emitted' = Emitted
    BY <1>11 DEF Relay, Emitted
  <2> QED BY <1>11, <2>1, ExecStepW DEF Relay
<1>12. ASSUME NEW r \in Routines, DeleteRoutine(r) PROVE WInv'
  <2>1. routines' = routines \ {r} /\ tx' = tx /\ Emitted' = Emitted
    BY <1>12 DEF DeleteRoutine, Emitted
  <2>2. \A f \in Execs :
          \/ exec'[f] = exec[f]
          \/ /\ exec[f].status # "unborn" /\ ~Locked(f) /\ exec[f].routine \notin routines'
             /\ exec'[f] = NoExecution("deleted")
    BY <1>12, <2>1, DeletedWith
  <2> QED BY <2>1, <2>2, ExecStepW
<1>13. CASE UNCHANGED vars
  BY <1>13, ExecStepW DEF vars, Emitted
<1> QED
  BY <1>1, <1>2, <1>3, <1>4, <1>5, <1>6, <1>7, <1>8, <1>9, <1>10, <1>11, <1>12, <1>13 DEF Next

(* The second invariant holds in every reachable state: what a transaction *)
(* is about to commit follows from what it read, everything an execution   *)
(* waits for is on its way, and the ends are announced.                    *)
THEOREM Bookkeeping == Spec => [](TypeInv /\ IInv /\ WInv)
<1>1. Init => TypeInv /\ IInv /\ WInv
  BY TypeInit, InvInit, WInvInit
<1>2. TypeInv /\ IInv /\ WInv /\ [Next]_vars => (TypeInv /\ IInv /\ WInv)'
  BY TypeStep, InvStep, WInvStep
<1> QED BY <1>1, <1>2, PTL DEF Spec

-----------------------------------------------------------------------------
(* What the runs check, for every size. *)

LEMMA OutIsNew == TypeInv /\ IInv /\ WInv => NothingEmittedTwice
<1> SUFFICES ASSUME TypeInv, IInv, WInv, NEW e \in Execs, NEW m \in tx[e].out
             PROVE  m \notin Emitted
  BY DEF NothingEmittedTwice
<1>1. Locked(e) /\ Exists(e) /\ Works(e, exec[e], tx[e])
  BY DEF IInv, LockedExists, WInv, WorksRight
<1>2. CASE m.type = "RoutineTriggered" /\ \E kid \in tx[e].kids : kid[1] = m.exec
  BY <1>2 DEF IInv, KidsFresh, EmittedDispatched
<1>3. CASE m.type = "ActionRequested" /\ m.exec = e /\ m.row \in Row
  <2>1. exec[e].row[m.row] \notin Left
    BY <1>1, <1>3 DEF Works, NewCommands
  <2> QED BY <1>1, <1>3, <2>1, FreshRow DEF RowMessages
<1>4. CASE m.type \in EndTypes
  <2> DEFINE w == tx[e].work
  <2>1. Decides(e, exec[e], tx[e]) /\ m \in Announcements(e, w)
    <3>1. tx[e].phase # "advance" /\ ~Records(exec[e], tx[e])
      BY <1>1, <1>4 DEF Works, Advances, Records, EndTypes
    <3>2. Decides(e, exec[e], tx[e])
      BY <1>1, <3>1 DEF Works
    <3> QED BY <1>4, <3>2 DEF Decides
  <2>2. w.status \in TERMINAL_EXECUTION_STATUSES /\ exec[e].status # w.status
    BY <2>1 DEF Decides, Announcements, LiveStatus, TERMINAL_EXECUTION_STATUSES
  <2>3. w.caller = exec[e].caller
    BY <1>1 DEF Works, Keeps
  <2>4. m = ExecutionEnded(e, w.status) \/ (w.caller # None /\ m = SubRoutineResult(w.caller, w.status))
    BY <2>1 DEF Announcements, Report
  <2> QED BY <1>1, <2>2, <2>3, <2>4 DEF WInv, EndAnnounced
<1> QED BY <1>2, <1>3, <1>4 DEF IInv, OutDispatched, EndTypes

(* Nothing is emitted twice, for every routine, every number of duplicate  *)
(* triggers and results and every rollback (engine.ts start, applyResult,  *)
(* #advance; outbox.enqueue in the same transaction).                      *)
THEOREM EmittedOnce == Spec => []NothingEmittedTwice
  BY OutIsNew, Bookkeeping, PTL

(* The end of an execution is announced if and only if it has ended, with  *)
(* its verdict, and the calling step is answered with the same one         *)
(* (#advance and #reportToCaller).                                         *)
THEOREM EndsAnnounced == Spec => []EndAnnounced
<1>1. TypeInv /\ IInv /\ WInv => EndAnnounced
  BY DEF WInv
<1> QED BY <1>1, Bookkeeping, PTL

LEMMA ChildOfCall ==
  ASSUME TypeInv, IInv, WInv, NEW e \in Execs, NEW r \in Row, NEW f \in ChildrenOf(e, r)
  PROVE  /\ f \in Execs /\ Exists(f) /\ exec[f].caller = <<e, r>> /\ exec[f].caller # None
         /\ WasDispatched(e, r) /\ IsChildOf(f, e, r)
<1>1. f \in Execs /\ Exists(f) /\ exec[f].caller = <<e, r>>
  BY DEF ChildrenOf
<1>2. exec[f].caller # None /\ exec[f].caller[1] = e /\ exec[f].caller[2] = r
  BY <1>1, CallerAssumption
<1>3. WasDispatched(e, r)
  BY <1>1, <1>2 DEF IInv, CallerDispatched
<1>4. IsChildOf(f, e, r)
  BY <1>1, <1>2 DEF WInv, ChildrenFit
<1> QED BY <1>1, <1>2, <1>3, <1>4

(* A dispatched routine.run row has exactly one child, one level deeper,   *)
(* unless the called routine was deleted (createExecution in #advance).    *)
THEOREM CallsOnce == Spec => []OneChildPerCall
<1>1. ASSUME TypeInv, IInv, WInv PROVE OneChildPerCall
  <2> SUFFICES ASSUME NEW e \in Execs, Exists(e), NEW r \in Row, KindOf(r) = "call"
               PROVE  /\ \A f, g \in ChildrenOf(e, r) : f = g
                      /\ \A f \in ChildrenOf(e, r) :
                           exec[f].depth = exec[e].depth + 1 /\ exec[e].row[r] \in Left
                      /\ exec[e].row[r] \in {"DISPATCHED", "RETRYING"} /\ Action[r[1]].target \in routines
                           => ChildrenOf(e, r) # {}
    BY DEF OneChildPerCall
  <2>1. ASSUME NEW f \in ChildrenOf(e, r), NEW g \in ChildrenOf(e, r) PROVE f = g
    <3>1. /\ f \in Execs /\ exec[f].caller = <<e, r>> /\ exec[f].caller # None
          /\ g \in Execs /\ exec[g].caller = <<e, r>>
      BY <1>1, ChildOfCall
    <3> QED BY <1>1, <3>1 DEF WInv, CallersDistinct
  <2>2. ASSUME NEW f \in ChildrenOf(e, r)
        PROVE  exec[f].depth = exec[e].depth + 1 /\ exec[e].row[r] \in Left
    <3>1. WasDispatched(e, r) /\ IsChildOf(f, e, r)
      BY <1>1, ChildOfCall
    <3> QED BY <3>1 DEF WasDispatched, IsChildOf
  <2>3. exec[e].row[r] \in {"DISPATCHED", "RETRYING"} /\ Action[r[1]].target \in routines
          => ChildrenOf(e, r) # {}
    BY <1>1 DEF WInv, AllAwaited, Awaited, Flight
  <2> QED BY <2>1, <2>2, <2>3
<1> QED BY <1>1, Bookkeeping, PTL

(* An execution that has not ended always has something that will move it, *)
(* its child lost with its routine apart (#advance, inFlightStatus).       *)
THEOREM NeverStranded == Spec => []NoLostWakeup
<1>1. ASSUME TypeInv, IInv, WInv PROVE NoLostWakeup
  <2> SUFFICES ASSUME NEW e \in Execs, exec[e].status \in {"RUNNING", "WAITING"}
               PROVE  \E r \in InFlight(exec[e]) : Owed(e, r)
    BY <1>1 DEF NoLostWakeup, WInv, Triggered
  <2>1. Exists(e)
    BY DEF Exists
  <2>2. PICK r \in Row : r \in InFlight(exec[e]) /\ exec[e].row[r] \in Flight
    BY <1>1 DEF WInv, AllMoving, Moving, InFlight, RowsIn, Flight
  <2>3. Awaited(e, r)
    BY <1>1, <2>1, <2>2 DEF WInv, AllAwaited
  <2>4. ASSUME NEW f \in ChildrenOf(e, r)
        PROVE  \/ exec[f].status \in LiveStatus
               \/ \E s \in TERMINAL_EXECUTION_STATUSES : SubRoutineResult(<<e, r>>, s) \in Emitted
    <3>1. f \in Execs /\ Exists(f) /\ exec[f].caller = <<e, r>> /\ exec[f].caller # None
      BY <1>1, ChildOfCall
    <3>2. exec[f].status \in LiveStatus \cup TERMINAL_EXECUTION_STATUSES
      BY <1>1, <3>1 DEF TypeInv, TypeOK, Execution, ExecutionStatus, Exists
    <3> QED BY <1>1, <3>1, <3>2 DEF WInv, EndAnnounced
  <2>5. Owed(e, r)
    BY <2>3, <2>4 DEF Owed, Awaited
  <2> QED BY <2>2, <2>5
<1> QED BY <1>1, Bookkeeping, PTL

(* runIf: a row with a condition ran only if its condition was met, and in *)
(* a run that did not fail was skipped only if it was not (conditionMet).  *)
THEOREM ConditionsObeyed == Spec => []RunIfObeyed
<1>1. TypeInv /\ IInv /\ WInv => RunIfObeyed
  BY DEF WInv, AllObey, Obeys, ConditionMet, RunIfObeyed
<1> QED BY <1>1, Bookkeeping, PTL

(* Who emits: the trigger of a root, and commits. *)
LEMMA Emits ==
  ASSUME [Next]_vars
  PROVE  \/ Emitted' = Emitted
         \/ \E e \in Execs, r \in Routines : Trigger(e, r)
         \/ \E e \in Execs : Commit(e)
<1>1. ASSUME NEW e \in Execs, Start(e) \/ MarkStaleScan(e) \/ MarkStaleWrite(e) \/ Abort(e)
      PROVE  Emitted' = Emitted
  BY <1>1 DEF Start, MarkStaleScan, MarkStaleWrite, Abort, Emitted
<1>2. ASSUME NEW e \in Execs, AdvanceDispatch(e) \/ AdvanceWait(e) PROVE Emitted' = Emitted
  BY <1>2 DEF AdvanceDispatch, AdvanceWait, Emitted
<1>3. ASSUME NEW e \in Execs, AdvanceComplete(e) \/ AdvanceFail(e) PROVE Emitted' = Emitted
  BY <1>3 DEF AdvanceComplete, AdvanceFail, End, Emitted
<1>4. ASSUME NEW e \in Execs, NEW r \in Row, NEW kind \in ResultKinds, ApplyResult(e, r, kind)
      PROVE  Emitted' = Emitted
  BY <1>4 DEF ApplyResult, Emitted
<1>5. ASSUME NEW m \in outbox, Relay(m) PROVE Emitted' = Emitted
  BY <1>5 DEF Relay, Emitted
<1>6. ASSUME NEW r \in Routines, DeleteRoutine(r) PROVE Emitted' = Emitted
  BY <1>6 DEF DeleteRoutine, Emitted
<1>7. CASE UNCHANGED vars
  BY <1>7 DEF vars, Emitted
<1> QED BY <1>1, <1>2, <1>3, <1>4, <1>5, <1>6, <1>7 DEF Next

(* Once a row of an execution has failed, no command is sent for it, be it *)
(* of an earlier round or of the batch the row belongs to (dispatchDue).   *)
THEOREM FailureStopsCommands == Spec => NoCommandAfterFailure
<1>1. ASSUME TypeInv, IInv, WInv, [Next]_vars, NEW e \in Execs, NEW r \in Row,
             ActionRequested(e, r) \in Emitted' \ Emitted
      PROVE  RowsIn(exec[e]', {"FAILED"}) = {}
  <2>1. CASE \E f \in Execs, rt \in Routines : Trigger(f, rt)
    BY <1>1, <2>1 DEF Trigger, Emitted, RoutineTriggered, ActionRequested
  <2>2. ASSUME NEW f \in Execs, Commit(f) PROVE RowsIn(exec[e]', {"FAILED"}) = {}
    <3>1. /\ Emitted' = Emitted \cup tx[f].out /\ exec'[f] = tx[f].work
          /\ NewCommands(exec[f], tx[f])
      BY <1>1, <2>2, CommitFacts DEF Works
    <3>2. ActionRequested(e, r) \in tx[f].out
      BY <1>1, <3>1
    <3>3. e = f
      BY <1>1, <3>2 DEF IInv, OutDispatched, ActionRequested
    <3>4. RowsIn(tx[f].work, {"FAILED"}) = {}
      BY <3>1, <3>2 DEF NewCommands, ActionRequested
    <3> QED BY <3>1, <3>3, <3>4 DEF RowsIn
  <2> QED BY <1>1, <2>1, <2>2, Emits
<1>2. TypeInv /\ IInv /\ WInv /\ [Next]_vars =>
        [\A e \in Execs : \A r \in Row :
           ActionRequested(e, r) \in Emitted' \ Emitted => RowsIn(exec[e]', {"FAILED"}) = {}]_vars
  BY <1>1
<1> QED BY <1>2, Bookkeeping, PTL DEF NoCommandAfterFailure, Spec

-----------------------------------------------------------------------------
(* The engine implements the lifecycle. *)

Statuses == [e \in Execs |-> exec[e].status]
Announced == [e \in Execs |-> {s \in TERMINAL_EXECUTION_STATUSES : ExecutionEnded(e, s) \in Emitted}]

(* Only a commit announces an end. *)
LEMMA SameVerdicts ==
  ASSUME NEW M, Emitted' = Emitted \cup M,
         \A m \in M : m.type \notin {"ExecutionCompleted", "ExecutionFailed"}
  PROVE  Announced' = Announced
<1>1. \A e \in Execs, s \in TERMINAL_EXECUTION_STATUSES :
        ExecutionEnded(e, s) \in Emitted' <=> ExecutionEnded(e, s) \in Emitted
  BY DEF ExecutionEnded
<1> QED BY <1>1 DEF Announced

LEMMA CommitMoves ==
  ASSUME TypeInv, IInv, WInv, NEW e \in Execs, Commit(e)
  PROVE  [Abstract!Next]_(Abstract!lifecycle)
<1> DEFINE t == tx[e]
           s == t.work.status
<1>0. PICK called \in SUBSET Execs : called = {f \in Execs : \E r \in Row : <<f, r>> \in t.kids}
  OBVIOUS
<1>1. /\ Exists(e) /\ t \in Transaction /\ t.phase = "done"
      /\ Emitted' = Emitted \cup t.out /\ Works(e, exec[e], t) /\ exec'[e] = t.work
  BY CommitFacts
<1>2. ASSUME NEW f \in Execs, f # e
      PROVE  /\ f \in called => exec[f].status = "unborn" /\ exec'[f].status = "PENDING"
             /\ f \notin called => exec'[f].status = exec[f].status
  <2>1. ASSUME NEW r \in Row, <<f, r>> \in t.kids
        PROVE  exec[f].status = "unborn" /\ exec'[f].status = "PENDING"
    <3>1. exec[f].status = "unborn" /\ exec'[f] = Child(e, r)
      BY <2>1, CommitFacts
    <3> QED BY <3>1, NewGood DEF Child
  <2>2. (\A r \in Row : <<f, r>> \notin t.kids) => exec'[f] = exec[f]
    BY <1>2, CommitFacts
  <2> QED BY <1>0, <2>1, <2>2
<1>3. e \notin called
  BY <1>0, CommitFacts
<1>4. CASE Records(exec[e], t)
  <2>1. called = {} /\ t.out = {} /\ exec'[e].status = exec[e].status
    BY <1>0, <1>1, <1>4 DEF Records
  <2>2. \A f \in Execs : exec'[f].status = exec[f].status
    BY <1>2, <2>1
  <2>3. Announced' = Announced
    BY <1>1, <2>1, SameVerdicts
  <2> QED BY <2>2, <2>3 DEF Abstract!lifecycle, Announced
<1>5. CASE Decides(e, exec[e], t)
  <2>1. /\ exec[e].status \in LiveStatus /\ s \in Moving \cup TERMINAL_EXECUTION_STATUSES
        /\ {m \in t.out : m.type \in EndTypes} = Announcements(e, t.work)
    BY <1>5 DEF Decides
  <2>2. s \in Abstract!Successors(exec[e].status)
    BY <2>1 DEF Abstract!Successors, Abstract!Verdicts, LiveStatus, Moving, TERMINAL_EXECUTION_STATUSES
  <2>3. \A f \in called : exec[f].status = "unborn"
    BY <1>2, <1>3
  <2>4. Statuses' = [f \in Execs |-> IF f = e THEN s ELSE IF f \in called THEN "PENDING" ELSE Statuses[f]]
    BY <1>1, <1>2, <1>3 DEF Statuses
  <2>5. ASSUME NEW f \in Execs, NEW v \in TERMINAL_EXECUTION_STATUSES
        PROVE  ExecutionEnded(f, v) \in t.out <=> f = e /\ v = s
    <3>1. ExecutionEnded(f, v).type \in EndTypes
      BY DEF ExecutionEnded, EndTypes
    <3>2. ExecutionEnded(f, v) \in t.out <=> ExecutionEnded(f, v) \in Announcements(e, t.work)
      BY <2>1, <3>1
    <3>3. ExecutionEnded(f, v) \in Announcements(e, t.work) <=> f = e /\ v = s
      BY DEF Announcements, ExecutionEnded, SubRoutineResult, Report, TERMINAL_EXECUTION_STATUSES
    <3> QED BY <3>2, <3>3
  <2>6. ASSUME NEW f \in Execs
        PROVE  Announced'[f] = IF f = e THEN Announced[e] \cup ({s} \cap Abstract!Verdicts) ELSE Announced[f]
    BY <1>1, <2>5 DEF Announced, Abstract!Verdicts, TERMINAL_EXECUTION_STATUSES
  <2>7. Announced' = [Announced EXCEPT ![e] = @ \cup ({s} \cap Abstract!Verdicts)]
    BY <2>6 DEF Announced
  <2>8. Abstract!Move(e, s, called)
    BY <2>2, <2>3, <2>4, <2>7 DEF Abstract!Move, Statuses, Announced
  <2>9. s \in Abstract!Verdicts \cup {"RUNNING", "WAITING"}
    BY <2>1 DEF Abstract!Verdicts, Moving, TERMINAL_EXECUTION_STATUSES
  <2> HIDE DEF s
  <2> QED BY <2>8, <2>9 DEF Abstract!Next
<1> QED BY <1>1, <1>4, <1>5 DEF Works

(* The engine implements ExecutionLifecycle: a trigger creates, a commit   *)
(* moves one execution and creates those it calls, markStale moves one to  *)
(* WAITING, a deleted routine takes its executions with it, and no other   *)
(* step is visible (the diagram at the head of progress.ts).               *)
THEOREM ImplementsLifecycle == Spec => Lifecycle
<1>1. ASSUME Init PROVE Abstract!Init
  <2>1. \A e \in Execs : exec[e].status = "unborn"
    BY <1>1 DEF Init, NoExecution
  <2>2. Emitted = {}
    BY <1>1 DEF Init, Emitted
  <2> QED BY <2>1, <2>2 DEF Abstract!Init
<1>2. ASSUME TypeInv, IInv, WInv, [Next]_vars
      PROVE  [Abstract!Next]_(Abstract!lifecycle)
  <2>1. ASSUME \A f \in Execs : exec'[f].status = exec[f].status, Emitted' = Emitted
        PROVE  [Abstract!Next]_(Abstract!lifecycle)
    BY <2>1 DEF Abstract!lifecycle
  <2>2. ASSUME NEW e \in Execs, NEW r \in Routines, Trigger(e, r)
        PROVE  [Abstract!Next]_(Abstract!lifecycle)
    <3>1. /\ exec[e].status = "unborn" /\ exec'[e] = NewExecution(r, None, 0)
          /\ \A f \in Execs : f # e => exec'[f] = exec[f]
          /\ Emitted' = Emitted \cup {RoutineTriggered(e)}
      BY <1>2, <2>2 DEF Trigger, FreeIds, TypeInv, TypeOK, Emitted
    <3>2. Statuses' = [Statuses EXCEPT ![e] = "PENDING"]
      <4>1. exec'[e].status = "PENDING"
        BY <3>1, NewGood
      <4> QED BY <3>1, <4>1 DEF Statuses
    <3>3. Announced' = Announced
      <4>1. PICK M : M = {RoutineTriggered(e)}
        OBVIOUS
      <4>2. \A m \in M : m.type \notin {"ExecutionCompleted", "ExecutionFailed"}
        BY <4>1 DEF RoutineTriggered
      <4>3. Emitted' = Emitted \cup M
        BY <3>1, <4>1
      <4> QED BY <4>2, <4>3, SameVerdicts
    <3>4. Abstract!Create(e)
      BY <3>1, <3>2, <3>3 DEF Abstract!Create, Statuses, Announced
    <3> QED BY <3>4 DEF Abstract!Next
  <2>3. ASSUME NEW e \in Execs, MarkStaleWrite(e)
        PROVE  [Abstract!Next]_(Abstract!lifecycle)
    <3>1. Emitted' = Emitted
      BY <2>3 DEF MarkStaleWrite, Emitted
    <3>2. CASE exec[e].status # "RUNNING"
      BY <2>1, <2>3, <3>1, <3>2 DEF MarkStaleWrite
    <3>3. CASE exec[e].status = "RUNNING"
      <4>1. exec'[e].status = "WAITING" /\ \A f \in Execs : f # e => exec'[f] = exec[f]
        BY <1>2, <2>3, <3>3 DEF MarkStaleWrite, TypeInv, TypeOK, Execution
      <4>2. Statuses' = [f \in Execs |-> IF f = e THEN "WAITING" ELSE IF f \in {} THEN "PENDING" ELSE Statuses[f]]
        BY <4>1 DEF Statuses
      <4>3. Announced' = [Announced EXCEPT ![e] = @ \cup ({"WAITING"} \cap Abstract!Verdicts)]
        BY <3>1 DEF Announced, Abstract!Verdicts
      <4>4. Abstract!Move(e, "WAITING", {})
        BY <3>3, <4>2, <4>3 DEF Abstract!Move, Abstract!Successors, Statuses, Announced
      <4> QED BY <4>4 DEF Abstract!Next
    <3> QED BY <3>2, <3>3
  <2>4. ASSUME NEW r \in Routines, DeleteRoutine(r)
        PROVE  [Abstract!Next]_(Abstract!lifecycle)
    <3>0. PICK gone \in SUBSET Execs : gone = {f \in Execs : exec[f].routine = r}
      OBVIOUS
    <3>1. Emitted' = Emitted
      BY <2>4 DEF DeleteRoutine, Emitted
    <3>2. ASSUME NEW f \in Execs
          PROVE  /\ f \in gone => exec[f].status # "unborn" /\ exec'[f].status = "deleted"
                 /\ f \notin gone => exec'[f] = exec[f]
      BY <1>2, <2>4, <3>0, DeletedWith, NewGood
    <3>3. Statuses' = [f \in Execs |-> IF f \in gone THEN "deleted" ELSE Statuses[f]]
      BY <3>2 DEF Statuses
    <3>4. Announced' = Announced
      BY <3>1 DEF Announced
    <3>5. Abstract!Delete(gone)
      BY <3>2, <3>3, <3>4 DEF Abstract!Delete, Statuses, Announced
    <3> QED BY <3>5 DEF Abstract!Next
  <2>5. ASSUME NEW e \in Execs, Commit(e)
        PROVE  [Abstract!Next]_(Abstract!lifecycle)
    BY <1>2, <2>5, CommitMoves
  <2>6. ASSUME NEW m \in outbox, Relay(m)
        PROVE  [Abstract!Next]_(Abstract!lifecycle)
    <3>1. Emitted' = Emitted /\ exec' = exec
      BY <2>6 DEF Relay, Emitted
    <3> QED BY <2>1, <3>1
  <2>7. ASSUME UNCHANGED <<exec, outbox, sent>>
        PROVE  [Abstract!Next]_(Abstract!lifecycle)
    BY <2>1, <2>7 DEF Emitted
  <2>8. ASSUME NEW e \in Execs, Start(e) \/ Abort(e) \/ MarkStaleScan(e)
        PROVE  UNCHANGED <<exec, outbox, sent>>
    BY <2>8 DEF Start, Abort, MarkStaleScan
  <2>9. ASSUME NEW e \in Execs, NEW r \in Row, NEW kind \in ResultKinds, ApplyResult(e, r, kind)
        PROVE  UNCHANGED <<exec, outbox, sent>>
    BY <2>9 DEF ApplyResult
  <2>10. ASSUME NEW e \in Execs, AdvanceDispatch(e) \/ AdvanceComplete(e) \/ AdvanceFail(e) \/ AdvanceWait(e)
         PROVE  UNCHANGED <<exec, outbox, sent>>
    BY <2>10 DEF AdvanceDispatch, AdvanceComplete, AdvanceFail, AdvanceWait, End
  <2>11. CASE UNCHANGED vars
    BY <2>7, <2>11 DEF vars
  <2> QED
    BY <1>2, <2>2, <2>3, <2>4, <2>5, <2>6, <2>7, <2>8, <2>9, <2>10, <2>11 DEF Next
<1>3. TypeInv /\ IInv /\ WInv /\ [Next]_vars => [Abstract!Next]_(Abstract!lifecycle)
  BY <1>2
<1> QED BY <1>1, <1>3, Bookkeeping, PTL DEF Lifecycle, Abstract!Spec, Spec
=============================================================================
