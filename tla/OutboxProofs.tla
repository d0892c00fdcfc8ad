---------------------------- MODULE OutboxProofs ----------------------------
(***************************************************************************)
(* The relay marks only what the broker has, and implements MessageBus,    *)
(* for any number of rows, replicas, faults and any batch size.            *)
(***************************************************************************)
EXTENDS Outbox, TLAPS

(* Without the bound on copies, which belongs to the model. *)
Types ==
  /\ outbox \in [Rows -> {"none", "pending", "published", "purged"}]
  /\ copies \in [Rows -> Nat]
  /\ batch \in [Replicas -> Batch]

(* A batch holds pending rows that no other batch holds, and marks only    *)
(* rows the broker has.                                                    *)
BatchesInOrder ==
  /\ \A p \in Replicas :
       /\ batch[p].todo \subseteq batch[p].locked
       /\ batch[p].done \subseteq batch[p].locked
       /\ \A i \in batch[p].locked : outbox[i] = "pending"
       /\ \A i \in batch[p].done : copies[i] > 0
  /\ \A p, q \in Replicas : p # q => batch[p].locked \cap batch[q].locked = {}

SentExists == \A i \in Rows : copies[i] > 0 => outbox[i] # "none"

IInv == Types /\ BatchesInOrder /\ SentExists /\ MarkedWasPublished

LEMMA InitInv == Init => IInv
  BY RowsAssumption, BatchAssumption
     DEF Init, IInv, Types, BatchesInOrder, SentExists, MarkedWasPublished, Batch, NoBatch

LEMMA NextInv == IInv /\ [Next]_vars => IInv'
<1> SUFFICES ASSUME IInv, [Next]_vars PROVE IInv'
  OBVIOUS
<1> USE RowsAssumption, BatchAssumption
       DEF IInv, Types, BatchesInOrder, SentExists, MarkedWasPublished, Batch, NoBatch
<1>1. ASSUME NEW i \in Rows, Enqueue(i) PROVE IInv'
  BY <1>1 DEF Enqueue
<1>2. ASSUME NEW p \in Replicas, Take(p) PROVE IInv'
  <2>1. PICK rows \in SUBSET (Pending \ Locked) :
          batch' = [batch EXCEPT ![p] = [locked |-> rows, todo |-> rows, done |-> {}]]
    BY <1>2 DEF Take
  <2>2. UNCHANGED <<outbox, copies>>
    BY <1>2 DEF Take
  <2>3. rows \subseteq Rows /\ (\A i \in rows : outbox[i] = "pending")
    BY DEF Pending
  <2>4. \A q \in Replicas : rows \cap batch[q].locked = {}
    BY DEF Locked
  <2> QED BY <2>1, <2>2, <2>3, <2>4
<1>3. ASSUME NEW p \in Replicas, Publish(p) PROVE IInv'
  <2>1. PICK i \in Rows, n \in {1, 2} :
          /\ i \in batch[p].todo
          /\ copies' = [copies EXCEPT ![i] = @ + n]
          /\ batch' = [batch EXCEPT ![p] =
                         [locked |-> @.locked, todo |-> @.todo \ {i}, done |-> @.done \cup {i}]]
    BY <1>3 DEF Publish, NextRow
  <2>2. outbox' = outbox
    BY <1>3 DEF Publish
  <2>3. copies' \in [Rows -> Nat] /\ copies'[i] > 0 /\ \A j \in Rows \ {i} : copies'[j] = copies[j]
    BY <2>1
  <2>4. /\ batch' \in [Replicas -> Batch]
        /\ batch'[p].locked = batch[p].locked
        /\ batch'[p].todo \subseteq batch[p].todo
        /\ batch'[p].done = batch[p].done \cup {i}
        /\ \A q \in Replicas \ {p} : batch'[q] = batch[q]
    BY <2>1
  <2>5. i \in batch[p].locked /\ outbox[i] = "pending"
    BY <2>1
  <2>6. Types' /\ SentExists' /\ MarkedWasPublished'
    BY <2>2, <2>3, <2>4, <2>5
  <2>7. \A q \in Replicas : /\ batch'[q].locked = batch[q].locked
                            /\ batch'[q].todo \subseteq batch'[q].locked
                            /\ batch'[q].done \subseteq batch'[q].locked
                            /\ \A j \in batch'[q].done : copies'[j] > 0
    BY <2>3, <2>4, <2>5
  <2>8. BatchesInOrder'
    BY <2>2, <2>7
  <2> QED BY <2>6, <2>8
<1>4. ASSUME NEW p \in Replicas, PublishFails(p) PROVE IInv'
  <2>1. PICK i \in Rows, n \in {0, 1, 2} :
          /\ i \in batch[p].todo
          /\ copies' = [copies EXCEPT ![i] = @ + n]
          /\ batch' = [batch EXCEPT ![p].todo = {}]
    BY <1>4 DEF PublishFails, NextRow
  <2>2. outbox' = outbox
    BY <1>4 DEF PublishFails
  <2> QED BY <2>1, <2>2
<1>5. ASSUME NEW p \in Replicas, Mark(p) PROVE IInv'
  BY <1>5 DEF Mark
<1>6. ASSUME NEW p \in Replicas, Crash(p) PROVE IInv'
  BY <1>6 DEF Crash
<1>7. ASSUME Purge PROVE IInv'
  BY <1>7 DEF Purge
<1>8. ASSUME UNCHANGED vars PROVE IInv'
  BY <1>8 DEF vars
<1> QED BY <1>1, <1>2, <1>3, <1>4, <1>5, <1>6, <1>7, <1>8 DEF Next

(* A row is marked, and can be purged, only when the broker has it. *)
THEOREM MarkedCorrect == Spec => []MarkedWasPublished
<1>1. IInv => MarkedWasPublished
  BY DEF IInv
<1> QED BY InitInv, NextInv, <1>1, PTL DEF Spec

-----------------------------------------------------------------------------
(* How often a row is published.  A row whose message the broker took for  *)
(* good is marked, or is to be marked by the batch that holds it; every    *)
(* other copy is paid for by a fault.                                      *)

Kept(i) == outbox[i] \in {"published", "purged"} \/ \E p \in Replicas : i \in batch[p].done

CopiesPaid ==
  /\ faults \in Nat
  /\ \A i \in Rows : copies[i] <= faults + (IF Kept(i) THEN 1 ELSE 0)
  (* What is still to be published is not kept yet. *)
  /\ \A p \in Replicas : batch[p].todo \cap batch[p].done = {}

LEMMA InitPaid == Init => CopiesPaid
  BY DEF Init, CopiesPaid, NoBatch

LEMMA NextPaid == IInv /\ CopiesPaid /\ [Next]_vars => CopiesPaid'
<1> SUFFICES ASSUME IInv, CopiesPaid, [Next]_vars PROVE CopiesPaid'
  OBVIOUS
<1> USE DEF IInv, Types, BatchesInOrder, CopiesPaid, Batch, NoBatch
<1>1. ASSUME NEW i \in Rows, Enqueue(i) PROVE CopiesPaid'
  <2>1. \A j \in Rows : Kept(j) => Kept(j)'
    BY <1>1 DEF Enqueue, Kept
  <2> QED BY <1>1, <2>1 DEF Enqueue
<1>2. ASSUME NEW p \in Replicas, Take(p) PROVE CopiesPaid'
  <2>1. PICK rows \in SUBSET Rows :
          batch' = [batch EXCEPT ![p] = [locked |-> rows, todo |-> rows, done |-> {}]]
    BY <1>2 DEF Take, Pending
  <2>2. UNCHANGED <<outbox, copies, faults>> /\ batch[p].done = {}
    BY <1>2 DEF Take
  <2>3. \A j \in Rows : Kept(j) => Kept(j)'
    BY <2>1, <2>2 DEF Kept
  <2> QED BY <2>1, <2>2, <2>3
<1>3. ASSUME NEW p \in Replicas, Publish(p) PROVE CopiesPaid'
  <2>1. PICK i \in Rows, n \in {1, 2} :
          /\ i \in batch[p].todo
          /\ faults' = faults + n - 1
          /\ copies' = [copies EXCEPT ![i] = @ + n]
          /\ batch' = [batch EXCEPT ![p] =
                         [locked |-> @.locked, todo |-> @.todo \ {i}, done |-> @.done \cup {i}]]
    BY <1>3 DEF Publish, NextRow
  <2>2. outbox' = outbox
    BY <1>3 DEF Publish
  <2>3. Kept(i)' /\ \A j \in Rows : Kept(j) => Kept(j)'
    BY <2>1, <2>2 DEF Kept
  <2>4. ~Kept(i)
    BY <2>1 DEF Kept
  <2>5. faults' \in Nat /\ \A j \in Rows : copies'[j] <= faults' + (IF Kept(j)' THEN 1 ELSE 0)
    BY <2>1, <2>3, <2>4
  <2>6. \A q \in Replicas : batch'[q].todo \cap batch'[q].done = {}
    BY <2>1
  <2> QED BY <2>5, <2>6
<1>4. ASSUME NEW p \in Replicas, PublishFails(p) PROVE CopiesPaid'
  <2>1. PICK i \in Rows, n \in {0, 1, 2} :
          /\ i \in batch[p].todo
          /\ faults' = faults + (IF n = 2 THEN 2 ELSE 1)
          /\ copies' = [copies EXCEPT ![i] = @ + n]
          /\ batch' = [batch EXCEPT ![p].todo = {}]
    BY <1>4 DEF PublishFails, NextRow
  <2>2. outbox' = outbox
    BY <1>4 DEF PublishFails
  <2>3. \A q \in Replicas : batch'[q].done = batch[q].done /\ batch'[q].todo \subseteq batch[q].todo
    BY <2>1
  <2>4. \A j \in Rows : Kept(j)' <=> Kept(j)
    BY <2>2, <2>3 DEF Kept
  <2>5. faults' \in Nat /\ faults' >= faults + n /\ faults' >= faults
    BY <2>1
  <2>6. \A j \in Rows : copies'[j] <= copies[j] + n /\ copies'[j] \in Nat
    BY <2>1
  <2>7. \A j \in Rows : copies'[j] <= faults' + (IF Kept(j)' THEN 1 ELSE 0)
    BY <2>4, <2>5, <2>6
  <2> QED BY <2>3, <2>5, <2>7
<1>5. ASSUME NEW p \in Replicas, Mark(p) PROVE CopiesPaid'
  <2>1. \A j \in Rows : Kept(j) => Kept(j)'
    BY <1>5 DEF Mark, Kept
  <2> QED BY <1>5, <2>1 DEF Mark
<1>6. ASSUME NEW p \in Replicas, Crash(p) PROVE CopiesPaid'
  <2>1. copies' = copies /\ faults' = faults + 1
    BY <1>6 DEF Crash
  <2>2. \A q \in Replicas : batch'[q].todo \cap batch'[q].done = {}
    BY <1>6 DEF Crash
  <2> QED BY <2>1, <2>2
<1>7. ASSUME Purge PROVE CopiesPaid'
  <2>1. \A j \in Rows : Kept(j) => Kept(j)'
    BY <1>7 DEF Purge, Kept
  <2> QED BY <1>7, <2>1 DEF Purge
<1>8. ASSUME UNCHANGED vars PROVE CopiesPaid'
  BY <1>8 DEF vars, Kept
<1> QED BY <1>1, <1>2, <1>3, <1>4, <1>5, <1>6, <1>7, <1>8 DEF Next

(* Every copy of a message beyond the first is the work of a fault. *)
THEOREM CopiesCorrect == Spec => []PublishedTwiceOnlyByFault
<1>1. IInv /\ CopiesPaid => PublishedTwiceOnlyByFault
  BY DEF IInv, Types, CopiesPaid, PublishedTwiceOnlyByFault
<1> QED BY InitInv, NextInv, InitPaid, NextPaid, <1>1, PTL DEF Spec

-----------------------------------------------------------------------------
(* The refinement: a row goes from Waiting to Sent when the broker takes   *)
(* its first copy, and nothing else changes either set.                    *)

LEMMA InitMaps == Init => Bus!Init
  BY DEF Init, Bus!Init, Waiting, Sent

LEMMA FirstCopy ==
  ASSUME IInv, outbox' = outbox, NEW i \in Rows, outbox[i] = "pending", NEW n \in {0, 1, 2},
         copies' = [copies EXCEPT ![i] = @ + n]
  PROVE  Bus!Relay(i) \/ UNCHANGED <<Waiting, Sent>>
<1>1. CASE n = 0 \/ copies[i] > 0
  <2>1. \A j \in Rows : copies'[j] > 0 <=> copies[j] > 0
    BY <1>1 DEF IInv, Types
  <2>2. \A j \in Rows : copies'[j] = 0 <=> copies[j] = 0
    BY <1>1 DEF IInv, Types
  <2> QED BY <2>1, <2>2 DEF Waiting, Sent
<1>2. CASE n # 0 /\ copies[i] = 0
  <2>1. i \in Waiting
    BY <1>2 DEF Waiting
  <2>2. copies'[i] > 0 /\ \A j \in Rows \ {i} : copies'[j] = copies[j]
    BY <1>2 DEF IInv, Types
  <2>3. Waiting' = Waiting \ {i}
    BY <2>2 DEF Waiting
  <2>4. Sent' = Sent \cup {i}
    BY <2>2 DEF Sent
  <2> QED BY <2>1, <2>3, <2>4 DEF Bus!Relay
<1> QED BY <1>1, <1>2 DEF IInv, Types

LEMMA NextMaps == IInv /\ [Next]_vars => [Bus!Next]_<<Waiting, Sent>>
<1> SUFFICES ASSUME IInv, [Next]_vars PROVE Bus!Next \/ UNCHANGED <<Waiting, Sent>>
  OBVIOUS
<1>1. ASSUME NEW i \in Rows, Enqueue(i) PROVE Bus!Enqueue(i)
  <2>1. outbox[i] = "none" /\ outbox' = [outbox EXCEPT ![i] = "pending"] /\ copies' = copies
    BY <1>1 DEF Enqueue
  <2>2. copies[i] = 0
    BY <2>1 DEF IInv, Types, SentExists
  <2>3. i \notin Waiting \cup Sent
    BY <2>1, <2>2 DEF Waiting, Sent
  <2>4. Waiting' = Waiting \cup {i}
    BY <2>1, <2>2 DEF IInv, Types, Waiting
  <2>5. Sent' = Sent
    BY <2>1 DEF Sent
  <2> QED BY <2>3, <2>4, <2>5 DEF Bus!Enqueue
<1>2. ASSUME NEW p \in Replicas, Publish(p) PROVE Bus!Next \/ UNCHANGED <<Waiting, Sent>>
  <2>1. PICK i \in Rows, n \in {1, 2} : i \in batch[p].todo /\ copies' = [copies EXCEPT ![i] = @ + n]
    BY <1>2 DEF Publish, NextRow
  <2>2. outbox' = outbox
    BY <1>2 DEF Publish
  <2>3. outbox[i] = "pending"
    BY <2>1 DEF IInv, BatchesInOrder
  <2> QED BY <2>1, <2>2, <2>3, FirstCopy DEF Bus!Next
<1>3. ASSUME NEW p \in Replicas, PublishFails(p) PROVE Bus!Next \/ UNCHANGED <<Waiting, Sent>>
  <2>1. PICK i \in Rows, n \in {0, 1, 2} : i \in batch[p].todo /\ copies' = [copies EXCEPT ![i] = @ + n]
    BY <1>3 DEF PublishFails, NextRow
  <2>2. outbox' = outbox
    BY <1>3 DEF PublishFails
  <2>3. outbox[i] = "pending"
    BY <2>1 DEF IInv, BatchesInOrder
  <2> QED BY <2>1, <2>2, <2>3, FirstCopy DEF Bus!Next
<1>4. ASSUME NEW p \in Replicas, Mark(p) PROVE UNCHANGED <<Waiting, Sent>>
  <2>1. copies' = copies /\ \A i \in Rows : outbox'[i] # outbox[i] => copies[i] > 0
    BY <1>4 DEF Mark, IInv, Types, BatchesInOrder
  <2>2. \A i \in Rows : copies[i] = 0 => outbox'[i] = outbox[i]
    BY <2>1
  <2> QED BY <2>1, <2>2 DEF Waiting, Sent
<1>5. ASSUME Purge PROVE UNCHANGED <<Waiting, Sent>>
  <2>1. copies' = copies /\ \A i \in Rows : outbox'[i] = "pending" <=> outbox[i] = "pending"
    BY <1>5 DEF Purge, IInv, Types
  <2> QED BY <2>1 DEF Waiting, Sent
<1>6. ASSUME UNCHANGED <<outbox, copies>> PROVE UNCHANGED <<Waiting, Sent>>
  BY <1>6 DEF Waiting, Sent
<1>7. ASSUME NEW p \in Replicas, Take(p) \/ Crash(p) PROVE UNCHANGED <<outbox, copies>>
  BY <1>7 DEF Take, Crash
<1>8. ASSUME UNCHANGED vars PROVE UNCHANGED <<outbox, copies>>
  BY <1>8 DEF vars
<1> QED BY <1>1, <1>2, <1>3, <1>4, <1>5, <1>6, <1>7, <1>8 DEF Next, Bus!Next

(* The relay implements the bus the engine is modelled with: every message *)
(* waits until the broker has it, and a crash or a failed publish loses    *)
(* none.                                                                   *)
THEOREM RelayCorrect == Spec => ImplementsBus
  BY InitInv, NextInv, InitMaps, NextMaps, PTL DEF Spec, ImplementsBus, Bus!Spec
=============================================================================
