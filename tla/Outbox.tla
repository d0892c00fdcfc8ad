------------------------------- MODULE Outbox -------------------------------
(***************************************************************************)
(* The transactional outbox and its relay (services/routine-service/src/   *)
(* outbox.ts), one relay per replica.  A batch is a transaction: its rows  *)
(* are locked, published one after another, and marked when it commits.    *)
(*                                                                         *)
(* The identifiers of the rows (bigserial) are given out when a message is *)
(* enqueued, but a row is seen when its transaction commits: rows can      *)
(* appear in another order than the one of their identifiers.              *)
(***************************************************************************)
EXTENDS Integers, FiniteSets

CONSTANTS
  Rows,        \* the rows of the outbox, numbers: the order of their identifiers
  Replicas,    \* the replicas of the routine service
  BatchSize,   \* how many rows a batch takes (50 in the code)
  MaxFaults    \* bound on crashes, publishes that are not confirmed, and duplicates on purpose

ASSUME RowsAssumption == Rows \subseteq Nat
ASSUME BatchAssumption == BatchSize \in Nat \ {0} /\ MaxFaults \in Nat

VARIABLES
  outbox,    \* each row: not enqueued yet, pending, marked as published, purged
  copies,    \* how often the broker took the message of each row
  batch,     \* the batch of each relay
  faults
vars == <<outbox, copies, batch, faults>>

MaxCopies == MaxFaults + 1

(* todo: locked, not published yet; done: to be marked. *)
Batch == [locked : SUBSET Rows, todo : SUBSET Rows, done : SUBSET Rows]
NoBatch == [locked |-> {}, todo |-> {}, done |-> {}]

TypeOK ==
  /\ outbox \in [Rows -> {"none", "pending", "published", "purged"}]
  /\ copies \in [Rows -> 0 .. MaxCopies]
  /\ batch \in [Replicas -> Batch]
  /\ faults \in 0 .. MaxFaults

Init ==
  /\ outbox = [i \in Rows |-> "none"]
  /\ copies = [i \in Rows |-> 0]
  /\ batch = [p \in Replicas |-> NoBatch]
  /\ faults = 0

Pending == {i \in Rows : outbox[i] = "pending"}
LockedNot == {}   \* mutant: SELECT without FOR UPDATE
Locked == UNION {batch[p].locked : p \in Replicas}

(* enqueue, when the transaction it is part of commits. *)
Enqueue(i) ==
  /\ outbox[i] = "none"
  /\ outbox' = [outbox EXCEPT ![i] = "pending"]
  /\ UNCHANGED <<copies, batch, faults>>

(* FOR UPDATE SKIP LOCKED, the lowest identifiers first. *)
Take(p) ==
  /\ batch[p] = NoBatch
  /\ \E rows \in SUBSET (Pending \ Locked) :
       /\ rows # {} /\ Cardinality(rows) <= BatchSize
       /\ Cardinality(rows) < BatchSize => rows = Pending \ Locked
       /\ \A i \in rows, j \in (Pending \ Locked) \ rows : i < j
       /\ batch' = [batch EXCEPT ![p] = [locked |-> rows, todo |-> rows, done |-> {}]]
  /\ UNCHANGED <<outbox, copies, faults>>

NextRow(p, i) == i \in batch[p].todo /\ \A j \in batch[p].todo : i <= j

(* A row is published, and confirmed by the broker; with duplicateRate > 0 *)
(* it can be published twice on purpose.                                   *)
Publish(p) ==
  \E i \in Rows, n \in {1, 2} :
    /\ NextRow(p, i)
    /\ faults + n - 1 <= MaxFaults
    /\ faults' = faults + n - 1
    /\ copies' = [copies EXCEPT ![i] = @ + n]
    /\ batch' = [batch EXCEPT ![p] = [locked |-> @.locked, todo |-> @.todo \ {i}, done |-> @.done \cup {i}]]
    /\ UNCHANGED outbox

\* mutant: a row whose publish failed is marked with the others
FailureIsMarked(p) ==
  \E i \in Rows, n \in {0, 1} :
    /\ NextRow(p, i)
    /\ faults < MaxFaults
    /\ faults' = faults + 1
    /\ copies' = [copies EXCEPT ![i] = @ + n]
    /\ batch' = [batch EXCEPT ![p].todo = {}, ![p].done = @ \cup {i}]
    /\ UNCHANGED outbox

(* A publish was not confirmed in time: the rest of the batch is left for  *)
(* the next one.  The broker may have taken the message all the same, and  *)
(* the duplicate on purpose can be what was not confirmed (n = 2).         *)
PublishFails(p) ==
  \E i \in Rows, n \in {0, 1, 2} :
    /\ NextRow(p, i)
    /\ faults' = faults + (IF n = 2 THEN 2 ELSE 1)
    /\ faults' <= MaxFaults
    /\ copies' = [copies EXCEPT ![i] = @ + n]
    /\ batch' = [batch EXCEPT ![p].todo = {}]
    /\ UNCHANGED outbox

(* The batch commits: what was published is marked, the locks are gone.    *)
Mark(p) ==
  /\ batch[p].locked # {} /\ batch[p].todo = {}
  /\ outbox' = [i \in Rows |-> IF i \in batch[p].done THEN "published" ELSE outbox[i]]
  /\ batch' = [batch EXCEPT ![p] = NoBatch]
  /\ UNCHANGED <<copies, faults>>

(* A crash, or the connection to the database is lost: nothing is marked.  *)
Crash(p) ==
  /\ batch[p].locked # {}
  /\ faults < MaxFaults
  /\ faults' = faults + 1
  /\ batch' = [batch EXCEPT ![p] = NoBatch]
  /\ UNCHANGED <<outbox, copies>>

\* mutant: old rows are purged, published or not
PurgeOld ==
  /\ \E i \in Rows \ Locked :
       outbox[i] \in {"pending", "published"} /\ outbox' = [outbox EXCEPT ![i] = "purged"]
  /\ UNCHANGED <<copies, batch, faults>>

(* purgePublished; how long a row is kept is left open. *)
Purge ==
  /\ \E i \in Rows : outbox[i] = "published" /\ outbox' = [outbox EXCEPT ![i] = "purged"]
  /\ UNCHANGED <<copies, batch, faults>>

Next ==
  \/ \E i \in Rows : Enqueue(i)
  \/ \E p \in Replicas : Take(p) \/ Publish(p) \/ PublishFails(p) \/ Mark(p) \/ Crash(p)
  \/ Purge

Spec == Init /\ [][Next]_vars

-----------------------------------------------------------------------------
(* Safety.                                                                 *)

(* A row is marked - and can be purged - only when the broker has its      *)
(* message.                                                                *)
MarkedWasPublished == \A i \in Rows : outbox[i] \in {"published", "purged"} => copies[i] > 0

(* "lets several replicas relay concurrently without publishing the same   *)
(* row twice" (outbox.ts): every message is published once, and once more  *)
(* at most for each fault or duplicate on purpose.                         *)
PublishedTwiceOnlyByFault == \A i \in Rows : copies[i] <= faults + 1

(* The relay implements what the engine relies on.                         *)
Waiting == {i \in Rows : outbox[i] = "pending" /\ copies[i] = 0}
Sent == {i \in Rows : copies[i] > 0}
Bus == INSTANCE MessageBus WITH Messages <- Rows, waiting <- Waiting, sent <- Sent

ImplementsBus == Bus!Spec

-----------------------------------------------------------------------------
(* Liveness.  The loop of each relay goes on, and the broker confirms once *)
(* the faults are over.                                                    *)
Fairness == \A p \in Replicas : WF_vars(Take(p) \/ Publish(p) \/ Mark(p))
FairSpec == Spec /\ Fairness

(* Every enqueued message is published in the end, in spite of lower rows  *)
(* that appear late, failed publishes and crashes: sooner or later the     *)
(* broker has the message of every row, marked or not.                     *)
EnqueuedIsPublished == <>[](\A i \in Rows : outbox[i] # "none" => i \in Sent)
=============================================================================
