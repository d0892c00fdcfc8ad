-------------------------- MODULE EngineInvariant --------------------------
(***************************************************************************)
(* Two inductive invariants.  The first is behind StepBarrier and          *)
(* VerdictFitsRows: both are about one execution, but they break when a    *)
(* result reaches a row that was not dispatched.  That none does rests on  *)
(* everything a row's dispatch leaves behind: its command, the child it    *)
(* inserted, the answer of that child.  The second, over the first, says   *)
(* what a transaction adds to the committed state, and that all that is on *)
(* the way is on the way once: it is behind the other properties.          *)
(***************************************************************************)
EXTENDS Engine

(* The calls a transaction has made are within the depth limit, and of     *)
(* routines: the children its commit inserts are executions.               *)
CallsTyped ==
  \A e \in Execs : \A kid \in tx[e].kids :
    tx[e].work.depth < MaxDepth /\ Action[kid[2][1]].target \in Routines

TypeInv == TypeOK /\ CallsTyped

(* A loop has no rows before it is expanded. *)
ExpandedOnce(x) ==
  \A r \in Row : x.row[r] # "absent" /\ r[2] # 0 => x.row[<<r[1], 0>>] \notin {"absent", "PENDING"}

Good(x) == Ordered(x) /\ Judged(x) /\ ExpandedOnce(x)

GoodCopies == \A e \in Execs : Good(exec[e]) /\ (Locked(e) => Good(tx[e].work))

(* A lock is held on an existing execution, and #advance runs only while   *)
(* the execution has not ended.                                            *)
LockedExists ==
  \A e \in Execs :
    /\ Locked(e) => /\ Exists(e)
                    /\ tx[e].work.caller = exec[e].caller
                    /\ tx[e].work.status \notin {"unborn", "deleted"}
    /\ tx[e].phase = "advance" => tx[e].work.status \in LiveStatus
    /\ ~Locked(e) => tx[e].out = {} /\ tx[e].kids = {}

(* No identifier is given out twice. *)
KidsFresh ==
  /\ \A e \in Execs : exec[e].status = "unborn" => exec[e].routine = None
  /\ \A e \in Execs : \A kid \in tx[e].kids : exec[kid[1]].status = "unborn"
  /\ \A e, f \in Execs : \A k \in tx[e].kids, l \in tx[f].kids : k[1] = l[1] => e = f

(* Row r of e was dispatched, and the transaction on e knows. *)
WasDispatched(e, r) ==
  /\ exec[e].status # "unborn"
  /\ Exists(e) => exec[e].row[r] \in Left
  /\ Locked(e) => tx[e].work.row[r] \in Left

RowMessages == {"ActionRequested", "ActionCompleted", "ActionFailed"}

EmittedDispatched ==
  \A m \in Emitted :
    /\ exec[m.exec].status # "unborn"
    /\ m.type \in RowMessages => m.row \in Row /\ WasDispatched(m.exec, m.row)

CallerDispatched ==
  \A f \in Execs : exec[f].caller # None => WasDispatched(exec[f].caller[1], exec[f].caller[2])

(* What a transaction is about to emit. *)
OutDispatched ==
  \A e \in Execs : \A m \in tx[e].out :
    \/ m.type = "RoutineTriggered" /\ \E kid \in tx[e].kids : kid[1] = m.exec
    \/ m.type \in {"ExecutionCompleted", "ExecutionFailed"} /\ m.exec = e
    \/ m.type = "ActionRequested" /\ m.exec = e /\ m.row \in Row /\ tx[e].work.row[m.row] \in Left
    \/ m.type \in {"ActionCompleted", "ActionFailed"} /\ exec[e].caller # None /\ exec[e].caller = <<m.exec, m.row>>

KidsDispatched == \A e \in Execs : \A kid \in tx[e].kids : tx[e].work.row[kid[2]] \in Left

IInv ==
  /\ GoodCopies
  /\ LockedExists
  /\ KidsFresh
  /\ EmittedDispatched
  /\ CallerDispatched
  /\ OutDispatched
  /\ KidsDispatched

-----------------------------------------------------------------------------
(* The second invariant.  x is an execution as committed, t the            *)
(* transaction that holds its lock.                                        *)

Flight == {"DISPATCHED", "RETRYING"}
Moving == {"RUNNING", "WAITING"}
EndTypes == {"ExecutionCompleted", "ExecutionFailed", "ActionCompleted", "ActionFailed"}

(* A transaction keeps whose execution it is, of which routine, and which  *)
(* rows were dispatched.                                                   *)
Keeps(x, w) ==
  /\ w.depth = x.depth /\ w.caller = x.caller /\ w.routine = x.routine
  /\ \A r \in Row : x.row[r] \in Left => w.row[r] \in Left

(* What it dispatched is about to be emitted, and was not before; commands *)
(* go out only when no row has failed.                                     *)
OnItsWay(e, t, r) ==
  IF KindOf(r) = "call" THEN \E kid \in t.kids : kid[2] = r ELSE ActionRequested(e, r) \in t.out
Accounts(e, x, t) == \A r \in Row : t.work.row[r] \in Flight => x.row[r] \in Flight \/ OnItsWay(e, t, r)
NewCommands(x, t) ==
  \A m \in t.out :
    m.type = "ActionRequested" => x.row[m.row] \notin Left /\ RowsIn(t.work, {"FAILED"}) = {}
NewCalls(x, t) ==
  \A kid \in t.kids :
    /\ x.row[kid[2]] \notin Left
    /\ KindOf(kid[2]) = "call"
    /\ RoutineTriggered(kid[1]) \in t.out
    /\ \A other \in t.kids : kid[1] = other[1] <=> kid[2] = other[2]

(* While it advances it has called routines and nothing else; in the end   *)
(* it has decided about a live execution, and announces an end if and only *)
(* if there is one; or it has recorded a late result.                      *)
Advances(x, t) ==
  /\ x.status \in LiveStatus /\ t.seen \in LiveStatus
  /\ t.work.status \in {t.seen, "RUNNING"}
  /\ \A m \in t.out : m.type = "RoutineTriggered"
Announcements(e, w) ==
  IF w.status \in TERMINAL_EXECUTION_STATUSES
    THEN {ExecutionEnded(e, w.status)} \cup Report(w, w.status) ELSE {}
Decides(e, x, t) ==
  /\ x.status \in LiveStatus
  /\ t.work.status \in Moving \cup TERMINAL_EXECUTION_STATUSES
  /\ t.work.status \in Moving => InFlight(t.work) # {}
  /\ {m \in t.out : m.type \in EndTypes} = Announcements(e, t.work)
Records(x, t) ==
  /\ x.status \in TERMINAL_EXECUTION_STATUSES /\ t.work.status = x.status
  /\ t.out = {} /\ t.kids = {}

Works(e, x, t) ==
  /\ Keeps(x, t.work)
  /\ Accounts(e, x, t)
  /\ NewCommands(x, t)
  /\ NewCalls(x, t)
  /\ IF t.phase = "advance" THEN Advances(x, t) ELSE Decides(e, x, t) \/ Records(x, t)
WorksRight == \A e \in Execs : Locked(e) => Works(e, exec[e], tx[e])

(* runIf in one execution: the condition a row was skipped for is settled. *)
Obeys(x) ==
  \A k \in Keys : Action[k].runIf \in Keys =>
    /\ x.row[<<k, 0>>] \in Left => ConditionMet(x, Action[k].runIf, Action[k].is)
    /\ x.row[<<k, 0>>] = "SKIPPED" /\ x.status # "FAILED" =>
         /\ ~ConditionMet(x, Action[k].runIf, Action[k].is)
         /\ x.row[<<Action[k].runIf, 0>>] \notin Flight \cup {"PENDING"}
AllObey == \A e \in Execs : Obeys(exec[e]) /\ (Locked(e) => Obeys(tx[e].work))

(* A row calls once. *)
CallersDistinct == \A f, g \in Execs : exec[f].caller # None /\ exec[f].caller = exec[g].caller => f = g
IsChildOf(f, e, r) ==
  /\ KindOf(r) = "call"
  /\ exec[f].routine = Action[r[1]].target
  /\ Exists(e) => exec[f].depth = exec[e].depth + 1
ChildrenFit == \A f \in Execs : exec[f].caller # None => IsChildOf(f, exec[f].caller[1], exec[f].caller[2])

(* What an execution waits for is there. *)
Awaited(e, r) ==
  IF KindOf(r) = "call"
    THEN Action[r[1]].target \in routines => ChildrenOf(e, r) # {}
    ELSE ActionRequested(e, r) \in Emitted
AllAwaited == \A e \in Execs : Exists(e) => \A r \in Row : exec[e].row[r] \in Flight => Awaited(e, r)
Triggered == \A e \in Execs : exec[e].status = "PENDING" => RoutineTriggered(e) \in Emitted
AllMoving == \A e \in Execs : exec[e].status \in Moving => InFlight(exec[e]) # {}

WInv ==
  /\ WorksRight
  /\ AllObey
  /\ CallersDistinct
  /\ ChildrenFit
  /\ AllAwaited
  /\ Triggered
  /\ AllMoving
  /\ EndAnnounced
=============================================================================
