------------------------------ MODULE Delivery ------------------------------
(***************************************************************************)
(* How service-kit/src/broker.ts consumes a queue: at-least-once delivery, *)
(* a retry queue per backoff delay, a dead-letter queue.                   *)
(*                                                                         *)
(* What moves is a copy of a message: the work queue, a retry queue and a  *)
(* handler that is running each hold copies.  A retry publishes a new copy *)
(* before the old one is acknowledged, and a lost connection hands the     *)
(* copy to another replica while the first one still runs its handler.     *)
(* How many copies a replica holds at a time (prefetch) is left open.      *)
(***************************************************************************)
EXTENDS Integers, Sequences, FiniteSets

CONSTANTS
  Copies,         \* identities for the copies in circulation
  Msgs,           \* the messages published to the queue
  Delays,         \* retryDelaysMs, in ticks of the clock
  DeliveryLimit,  \* x-delivery-limit of the queue: how often a copy may come back
  MaxPublished,   \* bound: how often a message is published (outbox duplicates)
  MaxFaults,      \* bound: crashes, lost connections, follow-ups not confirmed
  None

ASSUME DelaysAssumption == Delays \in Seq(Nat \ {0})
ASSUME LimitsAssumption == DeliveryLimit \in Nat /\ MaxPublished \in Nat /\ MaxFaults \in Nat
ASSUME CopiesAssumption == None \notin Copies \cup Msgs

VARIABLES
  copy,       \* the copies
  published,  \* how often each message was published
  handled,    \* messages whose handler succeeded at least once
  dead,       \* the dead-letter queue, with what brought each message there
  announced,  \* messages onGiveUp was completed for
  faults
delivery == <<copy, published, handled, dead, announced, faults>>

Attempts == 1 .. Len(Delays) + 1
Ticks == UNION {0 .. Delays[i] : i \in DOMAIN Delays} \cup {0}

(* at: where the copy is; an orphan is a copy whose handler runs although  *)
(* the broker has taken the message back.  step: how far #dispatch and     *)
(* #handleFailure got with a copy that is held.                            *)
Copy ==
  [at : {"unused", "ready", "delayed", "held", "orphan"}, msg : Msgs \cup {None},
   attempt : Attempts, returns : 0 .. DeliveryLimit, left : Ticks,
   step : {"none", "handler", "failed", "retried", "buried", "done"},
   error : {"none", "transient", "permanent"}]

Unused == [at |-> "unused", msg |-> None, attempt |-> 1, returns |-> 0, left |-> 0,
           step |-> "none", error |-> "none"]
Queued(m, attempt, returns) ==
  [Unused EXCEPT !.at = "ready", !.msg = m, !.attempt = attempt, !.returns = returns]
Retry(m, attempt) ==
  [Unused EXCEPT !.at = "delayed", !.msg = m, !.attempt = attempt, !.left = Delays[attempt - 1]]

DeliveryTypeOK ==
  /\ copy \in [Copies -> Copy]
  /\ published \in [Msgs -> 0 .. MaxPublished]
  /\ handled \subseteq Msgs
  /\ dead \subseteq Msgs \X {"gaveUp", "limit"}
  /\ announced \subseteq Msgs
  /\ faults \in 0 .. MaxFaults

DeliveryInit ==
  /\ copy = [c \in Copies |-> Unused]
  /\ published = [m \in Msgs |-> 0]
  /\ handled = {}
  /\ dead = {}
  /\ announced = {}
  /\ faults = 0

Running(c) == copy[c].at \in {"held", "orphan"}
At(c, step) == Running(c) /\ copy[c].step = step
Buried(m) == \E why \in {"gaveUp", "limit"} : <<m, why>> \in dead

Publish(c, m) ==
  /\ copy[c].at = "unused"
  /\ published[m] < MaxPublished
  /\ published' = [published EXCEPT ![m] = @ + 1]
  /\ copy' = [copy EXCEPT ![c] = Queued(m, 1, 0)]
  /\ UNCHANGED <<handled, dead, announced, faults>>

Deliver(c) ==
  /\ copy[c].at = "ready"
  /\ copy' = [copy EXCEPT ![c].at = "held", ![c].step = "handler"]
  /\ UNCHANGED <<published, handled, dead, announced, faults>>

(* #dispatch: the handler returns or throws. *)
HandlerSucceeds(c) ==
  /\ At(c, "handler")
  /\ copy' = [copy EXCEPT ![c].step = "done"]
  /\ handled' = handled \cup {copy[c].msg}
  /\ UNCHANGED <<published, dead, announced, faults>>

HandlerFails(c, error) ==
  /\ At(c, "handler")
  /\ copy' = [copy EXCEPT ![c].step = "failed", ![c].error = error]
  /\ UNCHANGED <<published, handled, dead, announced, faults>>

(* #handleFailure: a copy with the next attempt goes to a retry queue ...  *)
Retries(c) == copy[c].error = "transient" /\ copy[c].attempt <= Len(Delays)

SendRetry(c, d) ==
  /\ At(c, "failed") /\ Retries(c)
  /\ copy[d].at = "unused"
  /\ copy' = [copy EXCEPT ![c].step = "retried", ![d] = Retry(copy[c].msg, copy[c].attempt + 1)]
  /\ UNCHANGED <<published, handled, dead, announced, faults>>

OnRetry(c) ==
  /\ At(c, "retried")
  /\ copy' = [copy EXCEPT ![c].step = "done"]
  /\ UNCHANGED <<published, handled, dead, announced, faults>>

(* ... or the message goes to the dead-letter queue and is given up.       *)
ToDeadLetter(c) ==
  /\ At(c, "failed") /\ ~Retries(c)
  /\ copy' = [copy EXCEPT ![c].step = "buried"]
  /\ dead' = dead \cup {<<copy[c].msg, "gaveUp">>}
  /\ UNCHANGED <<published, handled, announced, faults>>

OnGiveUp(c) ==
  /\ At(c, "buried")
  /\ copy' = [copy EXCEPT ![c].step = "done"]
  /\ announced' = announced \cup {copy[c].msg}
  /\ UNCHANGED <<published, handled, dead, faults>>

(* Acknowledging an orphan has no effect on the broker. *)
Ack(c) ==
  /\ At(c, "done")
  /\ copy' = [copy EXCEPT ![c] = Unused]
  /\ UNCHANGED <<published, handled, dead, announced, faults>>

(* The broker takes a copy back and puts it at the disposal of any replica *)
(* as copy d - or in the dead-letter queue, when it has come back too often. *)
TakenBack(c, d, orphaned) ==
  IF copy[c].returns = DeliveryLimit
    THEN /\ copy' = [copy EXCEPT ![c] = IF orphaned THEN [@ EXCEPT !.at = "orphan"] ELSE Unused]
         /\ dead' = dead \cup {<<copy[c].msg, "limit">>}
    ELSE /\ copy' = [copy EXCEPT ![c] = IF orphaned THEN [@ EXCEPT !.at = "orphan"] ELSE Unused,
                                 ![d] = Queued(copy[c].msg, copy[c].attempt, copy[c].returns + 1)]
         /\ UNCHANGED dead

Fault == faults < MaxFaults /\ faults' = faults + 1

(* #settle: a follow-up was not confirmed; the copy is requeued. *)
SettleAcks(c) ==   \* mutant: a failed follow-up is acknowledged
  /\ At(c, "failed") \/ At(c, "retried") \/ At(c, "buried")
  /\ Fault
  /\ copy' = [copy EXCEPT ![c] = Unused]
  /\ UNCHANGED <<published, handled, dead, announced>>
SettleFails(c) ==
  /\ At(c, "failed") \/ At(c, "retried") \/ At(c, "buried")
  /\ Fault
  /\ IF copy[c].at = "held" THEN TakenBack(c, c, FALSE)
       ELSE copy' = [copy EXCEPT ![c] = Unused] /\ UNCHANGED dead
  /\ UNCHANGED <<published, handled, announced>>

(* The process is gone, and its handlers with it. *)
Crash(c) ==
  /\ Running(c)
  /\ Fault
  /\ IF copy[c].at = "held" THEN TakenBack(c, c, FALSE)
       ELSE copy' = [copy EXCEPT ![c] = Unused] /\ UNCHANGED dead
  /\ UNCHANGED <<published, handled, announced>>

(* The connection is gone, and the handler runs on. *)
LoseConnection(c, d) ==
  /\ copy[c].at = "held"
  /\ copy[d].at = "unused"
  /\ Fault
  /\ TakenBack(c, d, TRUE)
  /\ UNCHANGED <<published, handled, announced>>

(* The delays of the retry queues.  A copy whose time is up is dead-lettered *)
(* back into the work queue.                                               *)
Waits(c) == copy[c].at = "delayed" /\ copy[c].left > 0
Later == [c \in Copies |-> IF Waits(c) THEN [copy[c] EXCEPT !.left = @ - 1] ELSE copy[c]]
Expire(c) ==
  /\ copy[c].at = "delayed" /\ copy[c].left = 0
  /\ copy' = [copy EXCEPT ![c] = Queued(copy[c].msg, copy[c].attempt, 0)]
  /\ UNCHANGED <<published, handled, dead, announced, faults>>

-----------------------------------------------------------------------------
(* Safety.                                                                 *)

(* The broker still has a copy of the message. *)
InCirculation(m) == \E c \in Copies : copy[c].msg = m /\ copy[c].at \in {"ready", "delayed", "held"}

(* "requeues so nothing is lost": a published message is in circulation    *)
(* until a handler succeeded or it is in the dead-letter queue.            *)
NothingLost ==
  \A m \in Msgs : published[m] > 0 => m \in handled \/ Buried(m) \/ InCirculation(m)

=============================================================================
