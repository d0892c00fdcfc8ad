------------------------------- MODULE Engine -------------------------------
(***************************************************************************)
(* The routine engine (services/routine-service/src/engine.ts) with the    *)
(* tables it writes and the outbox it speaks through.                      *)
(*                                                                         *)
(* Every handler runs in one database transaction that holds the lock on   *)
(* its execution.  Here a transaction has a working copy of its execution, *)
(* collects the messages it enqueues and the executions it inserts, takes  *)
(* one step per round of the loop in #advance, and either commits all of   *)
(* it or nothing (crash, lost connection, foreign key violation).  Several *)
(* replicas work at the same time: transactions on different executions    *)
(* interleave.                                                             *)
(*                                                                         *)
(* Outside the engine: a published message can be delivered late, in any   *)
(* order and any number of times, and a worker that was sent a command can *)
(* answer it with anything, again and again.                               *)
(***************************************************************************)
EXTENDS Execution

CONSTANTS
  MaxAborts,   \* bound on the number of transactions that are rolled back
  MaxRoots     \* bound on the number of executions nobody called

ASSUME AbortsAssumption == MaxAborts \in Nat

VARIABLES
  exec,      \* executions and execution_actions, as committed
  tx,        \* the transaction that holds the lock on an execution
  outbox,    \* enqueued messages not known to be published
  sent,      \* published messages; none is ever forgotten, so all can be redelivered
  routines,  \* the routines that exist
  stale,     \* executions markStaleExecutions found waiting in its snapshot
  aborts     \* transactions rolled back so far
vars == <<exec, tx, outbox, sent, routines, stale, aborts>>

MessageTypes == {"RoutineTriggered", "ActionRequested", "ActionCompleted", "ActionFailed",
                 "ExecutionCompleted", "ExecutionFailed"}
Message == [type : MessageTypes, exec : Execs, row : Row \cup {None}]

RoutineTriggered(e)   == [type |-> "RoutineTriggered", exec |-> e, row |-> None]
ActionRequested(e, r) == [type |-> "ActionRequested", exec |-> e, row |-> r]
ExecutionEnded(e, s)  == [type |-> IF s = "COMPLETED" THEN "ExecutionCompleted" ELSE "ExecutionFailed",
                          exec |-> e, row |-> None]
SubRoutineResult(caller, s) ==
  [type |-> IF s = "COMPLETED" THEN "ActionCompleted" ELSE "ActionFailed",
   exec |-> caller[1], row |-> caller[2]]

(* kids: the executions createExecution inserted, with the calling row.    *)
Transaction == [phase : {"none", "advance", "done"}, work : Execution,
                seen : ExecutionStatus,    \* execution.status as the process remembers it
                out : SUBSET Message, kids : SUBSET (Execs \X Row)]

NoTransaction == [phase |-> "none", work |-> NoExecution("unborn"), seen |-> "unborn",
                  out |-> {}, kids |-> {}]

TypeOK ==
  /\ exec \in [Execs -> Execution]
  /\ tx \in [Execs -> Transaction]
  /\ outbox \subseteq Message
  /\ sent \subseteq Message
  /\ routines \subseteq Routines
  /\ stale \subseteq Execs
  /\ aborts \in 0 .. MaxAborts

Emitted == outbox \cup sent
Exists(e) == exec[e].status \notin {"unborn", "deleted"}
Locked(e) == tx[e].phase # "none"
Inserted == {kid[1] : kid \in UNION {tx[e].kids : e \in Execs}}
FreeIds == {e \in Execs : exec[e].status = "unborn"} \ Inserted

Init ==
  /\ exec = [e \in Execs |-> NoExecution("unborn")]
  /\ tx = [e \in Execs |-> NoTransaction]
  /\ outbox = {}
  /\ sent = {}
  /\ routines = Routines
  /\ stale = {}
  /\ aborts = 0

Roots == {e \in Execs : exec[e].status # "unborn" /\ exec[e].caller = None}

(* createExecution for a user, a webhook or the schedule. *)
Trigger(e, r) ==
  /\ r \in routines
  /\ e \in FreeIds
  /\ Cardinality(Roots) < MaxRoots
  /\ exec' = [exec EXCEPT ![e] = NewExecution(r, None, 0)]
  /\ outbox' = outbox \cup {RoutineTriggered(e)}
  /\ UNCHANGED <<tx, sent, routines, stale, aborts>>

Open(e, phase, work, seen) ==
  tx' = [tx EXCEPT ![e] = [phase |-> phase, work |-> work, seen |-> seen, out |-> {}, kids |-> {}]]

\* mutant: no check of the status in start
StartAgain(e) ==
  /\ RoutineTriggered(e) \in sent
  /\ ~Locked(e)
  /\ Exists(e)
  /\ Open(e, "advance", [exec[e] EXCEPT !.status = "RUNNING"], "RUNNING")
  /\ UNCHANGED <<exec, outbox, sent, routines, stale, aborts>>

(* start: a trigger that finds the execution gone or started is ignored. *)
Start(e) ==
  /\ RoutineTriggered(e) \in sent
  /\ ~Locked(e)
  /\ exec[e].status = "PENDING"
  /\ Open(e, "advance", [exec[e] EXCEPT !.status = "RUNNING"], "RUNNING")
  /\ UNCHANGED <<exec, outbox, sent, routines, stale, aborts>>

(* A result for a row: of a worker that got the command, or of the called  *)
(* routine, which answers with its own end.                                *)
Arrives(e, r, kind) ==
  IF KindOf(r) = "call"
    THEN \E s \in TERMINAL_EXECUTION_STATUSES :
           /\ SubRoutineResult(<<e, r>>, s) \in sent
           /\ kind = IF s = "COMPLETED" THEN "completed" ELSE "failed"
    ELSE ActionRequested(e, r) \in sent

(* applyResult: unknown executions and rows, and finished rows, ignore it; *)
(* a finished execution records it and does nothing else.                  *)
ApplyResult(e, r, kind) ==
  /\ Arrives(e, r, kind)
  /\ ~Locked(e)
  /\ Exists(e)
  /\ exec[e].row[r] \notin TERMINAL_ACTION_STATUSES \cup {"absent"}
  /\ Open(e,
          IF exec[e].status \in TERMINAL_EXECUTION_STATUSES THEN "done" ELSE "advance",
          Answered(exec[e], r, kind), exec[e].status)
  /\ UNCHANGED <<exec, outbox, sent, routines, stale, aborts>>

Advancing(e, decision) == tx[e].phase = "advance" /\ Decision(tx[e].work) = decision

(* Rounds of #advance.  The loop goes on until a round has handed a        *)
(* command to the outbox, or has ended or waits for the execution.         *)
AlwaysReturns(o) == "done"   \* mutant: return after every dispatch
PhaseAfter(o) == IF ToSend(o) # {} THEN "done" ELSE "advance"

(* The transaction after a round that dispatched with outcome o and gave    *)
(* the called executions the identifiers id.                               *)
DispatchTx(e, o, id) ==
  [phase |-> PhaseAfter(o),
   work  |-> Dispatch(tx[e].work, o),
   seen  |-> tx[e].seen,
   out   |-> tx[e].out \cup {ActionRequested(e, r) : r \in ToSend(o)}
                       \cup {RoutineTriggered(id[r]) : r \in Calls(o)},
   kids  |-> tx[e].kids \cup {<<id[r], r>> : r \in Calls(o)}]

AdvanceDispatch(e) ==
  /\ Advancing(e, "dispatch")
  /\ \E o \in BatchOutcomes(tx[e].work, routines) :
       \E id \in [Calls(o) -> FreeIds] :
         /\ \A r, q \in Calls(o) : id[r] = id[q] => r = q
         /\ tx' = [tx EXCEPT ![e] = DispatchTx(e, o, id)]
  /\ UNCHANGED <<exec, outbox, sent, routines, stale, aborts>>

(* #reportToCaller: a called routine answers the step that called it. *)
ReportSuccess(x, s) ==   \* mutant: a failed routine does not answer
  IF x.caller = None \/ s = "FAILED" THEN {} ELSE {SubRoutineResult(x.caller, s)}
Report(x, s) == IF x.caller = None THEN {} ELSE {SubRoutineResult(x.caller, s)}

End(e, x) ==
  /\ tx' = [tx EXCEPT ![e].phase = "done", ![e].work = x,
              ![e].out = @ \cup {ExecutionEnded(e, x.status)} \cup Report(x, x.status)]
  /\ UNCHANGED <<exec, outbox, sent, routines, stale, aborts>>

AdvanceComplete(e) == Advancing(e, "complete") /\ End(e, Complete(tx[e].work))
AdvanceFail(e)     == Advancing(e, "fail")     /\ End(e, Fail(tx[e].work))

AdvanceWait(e) ==
  /\ Advancing(e, "wait")
  /\ \E s \in InFlightStatuses(tx[e].work) :
       tx' = [tx EXCEPT ![e].phase = "done",
                ![e].work.status = IF s = tx[e].seen THEN @ ELSE s]
  /\ UNCHANGED <<exec, outbox, sent, routines, stale, aborts>>

Advance(e) == AdvanceDispatch(e) \/ AdvanceComplete(e) \/ AdvanceFail(e) \/ AdvanceWait(e)

(* withTransaction: everything becomes visible at once. *)
Child(e, r) == NewExecution(Action[r[1]].target, <<e, r>>, tx[e].work.depth + 1)

Commit(e) ==
  /\ tx[e].phase = "done"
  /\ exec' = [f \in Execs |->
                IF f = e THEN tx[e].work
                ELSE IF \E r \in Row : <<f, r>> \in tx[e].kids
                       THEN Child(e, CHOOSE r \in Row : <<f, r>> \in tx[e].kids)
                       ELSE exec[f]]
  /\ outbox' = outbox \cup tx[e].out
  /\ tx' = [tx EXCEPT ![e] = NoTransaction]
  /\ UNCHANGED <<sent, routines, stale, aborts>>

(* ... or nothing does; the message that caused it is delivered again. *)
Abort(e) ==
  /\ Locked(e)
  /\ aborts < MaxAborts
  /\ tx' = [tx EXCEPT ![e] = NoTransaction]
  /\ aborts' = aborts + 1
  /\ UNCHANGED <<exec, outbox, sent, routines, stale>>

(* markStaleExecutionsWaiting is one UPDATE, but at READ COMMITTED it      *)
(* looks for the DISPATCHED row in its snapshot, and when the execution is *)
(* locked it waits and checks only the status again.                       *)
MarkStaleScan(e) ==
  /\ e \notin stale
  /\ exec[e].status = "RUNNING"
  /\ RowsIn(exec[e], {"DISPATCHED"}) # {}
  /\ stale' = stale \cup {e}
  /\ UNCHANGED <<exec, tx, outbox, sent, routines, aborts>>

\* mutant: the status is not checked again after the wait for the lock
MarkStaleBlind(e) ==
  /\ e \in stale
  /\ ~Locked(e)
  /\ Exists(e)
  /\ stale' = stale \ {e}
  /\ exec' = [exec EXCEPT ![e].status = "WAITING"]
  /\ UNCHANGED <<tx, outbox, sent, routines, aborts>>

MarkStaleWrite(e) ==
  /\ e \in stale
  /\ ~Locked(e)
  /\ stale' = stale \ {e}
  /\ exec' = IF exec[e].status = "RUNNING" THEN [exec EXCEPT ![e].status = "WAITING"] ELSE exec
  /\ UNCHANGED <<tx, outbox, sent, routines, aborts>>

(* The outbox relay. *)
Relay(m) ==
  /\ m \in outbox
  /\ outbox' = outbox \ {m}
  /\ sent' = sent \cup {m}
  /\ UNCHANGED <<exec, tx, routines, stale, aborts>>

(* DELETE /routines/:id cascades to the executions.  It waits for the locks *)
(* on them, and for transactions that inserted an execution of the routine. *)
DeleteRoutine(r) ==
  /\ r \in routines
  /\ \A e \in Execs : exec[e].routine = r => ~Locked(e)
  /\ \A e \in Execs : \A kid \in tx[e].kids : Action[kid[2][1]].target # r
  /\ routines' = routines \ {r}
  /\ exec' = [e \in Execs |-> IF exec[e].routine = r THEN NoExecution("deleted") ELSE exec[e]]
  /\ UNCHANGED <<tx, outbox, sent, stale, aborts>>

Next ==
  \/ \E e \in Execs :
       \/ \E r \in Routines : Trigger(e, r)
       \/ Start(e)
       \/ \E r \in Row, kind \in ResultKinds : ApplyResult(e, r, kind)
       \/ AdvanceDispatch(e) \/ AdvanceComplete(e) \/ AdvanceFail(e) \/ AdvanceWait(e)
       \/ Commit(e)
       \/ Abort(e)
       \/ MarkStaleScan(e)
       \/ MarkStaleWrite(e)
  \/ \E m \in outbox : Relay(m)
  \/ \E r \in Routines : DeleteRoutine(r)

Spec == Init /\ [][Next]_vars

-----------------------------------------------------------------------------
(* Safety.  exec is what other transactions and the API can see.           *)

Left == {"DISPATCHED", "RETRYING", "COMPLETED", "FAILED"}

(* Steps run one after the other (decideNext): when a row has left PENDING *)
(* to run, every row of every earlier step, loop rows inserted in between  *)
(* included, has been completed or skipped - whatever order results arrive *)
(* in and however often.                                                   *)
Ordered(x) ==
  \A r, q \in Row :
    x.row[r] \in Left /\ StepOf(q) < StepOf(r) => x.row[q] \in {"absent", "COMPLETED", "SKIPPED"}
StepBarrier == \A e \in Execs : Ordered(exec[e])

(* The verdict of #advance fits the rows and stays so while late results   *)
(* are recorded: COMPLETED means that every row was completed or skipped,  *)
(* FAILED that one failed and none is left to be dispatched.               *)
Judged(x) ==
  /\ x.status = "COMPLETED" => \A r \in Row : x.row[r] \in {"absent", "COMPLETED", "SKIPPED"}
  /\ x.status = "FAILED" => RowsIn(x, {"FAILED"}) # {} /\ Pending(x) = {}
VerdictFitsRows == \A e \in Execs : Judged(exec[e])

(* Exactly once: nothing a transaction is about to emit was emitted before *)
(* - no row is handed to a worker twice, no end is announced twice, and no *)
(* caller is answered twice, for all duplicate triggers and results.       *)
NothingEmittedTwice == \A e \in Execs : tx[e].out \cap Emitted = {}

(* The end of an execution is announced if and only if it has ended, with  *)
(* its verdict, and a calling step is answered with that same verdict.     *)
EndAnnounced ==
  \A e \in Execs : Exists(e) =>
    \A s \in TERMINAL_EXECUTION_STATUSES :
      /\ ExecutionEnded(e, s) \in Emitted <=> exec[e].status = s
      /\ exec[e].caller # None =>
           (SubRoutineResult(exec[e].caller, s) \in Emitted <=> exec[e].status = s)

(* A routine.run row that was dispatched has exactly one child, one level  *)
(* deeper, unless the called routine was deleted; no child has a row that  *)
(* was not dispatched.                                                     *)
ChildrenOf(e, r) == {f \in Execs : Exists(f) /\ exec[f].caller = <<e, r>>}
OneChildPerCall ==
  \A e \in Execs : Exists(e) =>
    \A r \in Row : KindOf(r) = "call" =>
      /\ \A f, g \in ChildrenOf(e, r) : f = g
      /\ \A f \in ChildrenOf(e, r) :
           exec[f].depth = exec[e].depth + 1 /\ exec[e].row[r] \in Left
      /\ exec[e].row[r] \in {"DISPATCHED", "RETRYING"} /\ Action[r[1]].target \in routines
           => ChildrenOf(e, r) # {}

(* No lost wakeup: an execution that has not ended always has something    *)
(* that will move it - its trigger, a row in flight whose command or child *)
(* exists, or the answer of that child - except that the child can have    *)
(* been deleted with its routine.                                          *)
Owed(e, r) ==
  IF KindOf(r) = "call"
    THEN \/ \E f \in ChildrenOf(e, r) : exec[f].status \in LiveStatus
         \/ \E s \in TERMINAL_EXECUTION_STATUSES : SubRoutineResult(<<e, r>>, s) \in Emitted
         \/ Action[r[1]].target \notin routines
    ELSE ActionRequested(e, r) \in Emitted
NoLostWakeup ==
  \A e \in Execs :
    /\ exec[e].status = "PENDING" => RoutineTriggered(e) \in Emitted
    /\ exec[e].status \in {"RUNNING", "WAITING"} =>
         \E r \in InFlight(exec[e]) : Owed(e, r)

(* runIf: a row with a condition ran only if the condition was completed   *)
(* with the expected result, and is skipped in a run that did not fail     *)
(* only if it was not.                                                     *)
RunIfObeyed ==
  \A e \in Execs : \A k \in Keys : Exists(e) /\ Action[k].runIf \in Keys =>
    LET met == /\ exec[e].row[<<Action[k].runIf, 0>>] = "COMPLETED"
               /\ exec[e].val[Action[k].runIf] = Action[k].is
    IN
    /\ exec[e].row[<<k, 0>>] \in Left => met
    /\ exec[e].row[<<k, 0>>] = "SKIPPED" /\ exec[e].status # "FAILED" => ~met

(* A failure ends the run: no command is sent for an execution that has a  *)
(* failed row, be it one of an earlier round or of the very batch the      *)
(* command belongs to.                                                     *)
NoCommandAfterFailure ==
  [][\A e \in Execs : \A r \in Row :
       ActionRequested(e, r) \in Emitted' \ Emitted => RowsIn(exec[e]', {"FAILED"}) = {}]_vars

(* The engine implements the lifecycle in the header of progress.ts. *)
Abstract == INSTANCE ExecutionLifecycle WITH
  status    <- [e \in Execs |-> exec[e].status],
  announced <- [e \in Execs |-> {s \in TERMINAL_EXECUTION_STATUSES : ExecutionEnded(e, s) \in Emitted}]
Lifecycle == Abstract!Spec

-----------------------------------------------------------------------------
(* What comments of the code say and the code does not do.                 *)

(* "actions sharing a step run in parallel": when a row of a step is in    *)
(* flight, no other row of that step is still to be dispatched.            *)
StepRunsInParallel ==
  \A e \in Execs : exec[e].status \in {"RUNNING", "WAITING"} =>
    \A r \in InFlight(exec[e]), q \in Pending(exec[e]) : StepOf(r) # StepOf(q)

(* "its end completes this step": a step that waits for the routine it     *)
(* called has a child that will answer, or the answer of that child.       *)
CallIsAnswered ==
  \A e \in Execs : \A r \in InFlight(exec[e]) :
    KindOf(r) = "call" =>
      \/ ChildrenOf(e, r) # {}
      \/ \E s \in TERMINAL_EXECUTION_STATUSES : SubRoutineResult(<<e, r>>, s) \in Emitted

-----------------------------------------------------------------------------
(* Liveness.  A replica that holds a lock goes on with its transaction, the *)
(* relay publishes what is in the outbox, and what was published is         *)
(* delivered: a trigger starts its execution, and a command is answered in  *)
(* the end, because a worker retries a bounded number of times and then     *)
(* gives up with ActionFailed.  The answer finds the execution unlocked     *)
(* again and again, hence strong fairness.                                  *)
Final(e) == \E r \in Row, kind \in {"completed", "failed"} : ApplyResult(e, r, kind)

Fairness ==
  /\ \A e \in Execs : /\ WF_vars(Start(e))
                      /\ WF_vars(Advance(e) \/ Commit(e))
                      /\ SF_vars(Final(e))
  /\ WF_vars(\E m \in outbox : Relay(m))

FairSpec == Spec /\ Fairness

(* A call whose child was deleted before it could answer. *)
CalleeLost ==
  \E e \in Execs : \E r \in InFlight(exec[e]) :
    /\ KindOf(r) = "call"
    /\ ChildrenOf(e, r) = {}
    /\ \A s \in TERMINAL_EXECUTION_STATUSES : SubRoutineResult(<<e, r>>, s) \notin Emitted

(* Every execution ends (or is deleted with its routine), unless it or one *)
(* it depends on waits for a call whose child was deleted.                 *)
EveryRunEnds ==
  \A e \in Execs : exec[e].status \in LiveStatus ~> ~(exec[e].status \in LiveStatus) \/ CalleeLost
=============================================================================
