----------------------------- MODULE WorkerProofs -----------------------------
(***************************************************************************)
(* Who executes an action, and what becomes of its command: for any number *)
(* of copies, commands, retries, faults and redeliveries, any lease longer *)
(* than a handler runs.                                                    *)
(***************************************************************************)
EXTENDS Worker, TLAPS

IsCopy(x) == x = [at |-> x.at, msg |-> x.msg, attempt |-> x.attempt, returns |-> x.returns, left |-> x.left,
                  step |-> x.step, error |-> x.error]
Phases == {"none", "look", "run", "store", "report", "resend", "release"}
Errors == {"none", "transient", "permanent"}
ClaimState == [status : {"none", "IN_PROGRESS", "COMPLETED"}, lease : Nat]
WorkState == [phase : Phases, left : Nat, error : Errors, busy : BOOLEAN]

Types ==
  /\ copy = [c \in Copies |-> copy[c]]
  /\ \A c \in Copies : IsCopy(copy[c])
  /\ claims \in [Msgs -> ClaimState]
  /\ work \in [Copies -> WorkState]
  /\ published \in [Msgs -> Nat]
  /\ faults \in Nat

Addressed == \A c \in Copies : copy[c].at # "unused" => copy[c].msg \in Msgs
Quiet == \A c \in Copies : work[c].phase # "none" => At(c, "handler")

(* A handler that has claimed holds a lease that outlasts it, or the       *)
(* action is completed; and it is the only one.                            *)
Lasting(m, left) ==
  claims[m].status = "COMPLETED" \/ (claims[m].status = "IN_PROGRESS" /\ claims[m].lease > left)
Holds == \A c \in Copies : Claimed(c) => Lasting(Msg(c), work[c].left)
Unique == \A c, d \in Copies : Claimed(c) /\ Claimed(d) /\ Msg(c) = Msg(d) => c = d
Reported == \A c \in Copies : In(c, "report") => claims[Msg(c)].status = "COMPLETED"

(* A copy nobody has followed up yet. *)
Active(c, m) ==
  /\ copy[c].msg = m
  /\ copy[c].at \in {"ready", "delayed"} \/ (copy[c].at = "held" /\ copy[c].step \in {"handler", "failed"})
Settled(m) == m \in handled \/ Buried(m)
Kept == \A m \in Msgs : published[m] > 0 => Settled(m) \/ \E c \in Copies : Active(c, m)

Inv == Types /\ Addressed /\ Quiet /\ Holds /\ Unique /\ Reported /\ Kept /\ FailureReleases

-----------------------------------------------------------------------------
(* Records.                                                                *)

LEMMA CopyFields ==
  ASSUME NEW x, IsCopy(x), NEW v
  PROVE  /\ LET y == [x EXCEPT !.at = v] IN IsCopy(y) /\ y.at = v /\ y.msg = x.msg /\ y.step = x.step
         /\ LET y == [x EXCEPT !.step = v] IN IsCopy(y) /\ y.at = x.at /\ y.msg = x.msg /\ y.step = v
         /\ LET y == [x EXCEPT !.error = v] IN IsCopy(y) /\ y.at = x.at /\ y.msg = x.msg /\ y.step = x.step
         /\ LET y == [x EXCEPT !.left = v] IN IsCopy(y) /\ y.at = x.at /\ y.msg = x.msg /\ y.step = x.step
         /\ LET y == [x EXCEPT !.msg = v] IN IsCopy(y) /\ y.at = x.at /\ y.msg = v /\ y.step = x.step
         /\ LET y == [x EXCEPT !.attempt = v] IN IsCopy(y) /\ y.at = x.at /\ y.msg = x.msg /\ y.step = x.step
         /\ LET y == [x EXCEPT !.returns = v] IN IsCopy(y) /\ y.at = x.at /\ y.msg = x.msg /\ y.step = x.step
<1> DEFINE p == [at |-> x.at, msg |-> x.msg, attempt |-> x.attempt, returns |-> x.returns, left |-> x.left,
                 step |-> x.step, error |-> x.error]
<1>1. x = p
  BY DEF IsCopy
<1>2. [p EXCEPT !.at = v] = [at |-> v, msg |-> x.msg, attempt |-> x.attempt, returns |-> x.returns,
                             left |-> x.left, step |-> x.step, error |-> x.error]
  OBVIOUS
<1>3. [p EXCEPT !.step = v] = [at |-> x.at, msg |-> x.msg, attempt |-> x.attempt, returns |-> x.returns,
                               left |-> x.left, step |-> v, error |-> x.error]
  OBVIOUS
<1>4. [p EXCEPT !.error = v] = [at |-> x.at, msg |-> x.msg, attempt |-> x.attempt, returns |-> x.returns,
                                left |-> x.left, step |-> x.step, error |-> v]
  OBVIOUS
<1>5. [p EXCEPT !.left = v] = [at |-> x.at, msg |-> x.msg, attempt |-> x.attempt, returns |-> x.returns,
                               left |-> v, step |-> x.step, error |-> x.error]
  OBVIOUS
<1>6. [p EXCEPT !.msg = v] = [at |-> x.at, msg |-> v, attempt |-> x.attempt, returns |-> x.returns,
                              left |-> x.left, step |-> x.step, error |-> x.error]
  OBVIOUS
<1>7. [p EXCEPT !.attempt = v] = [at |-> x.at, msg |-> x.msg, attempt |-> v, returns |-> x.returns,
                                  left |-> x.left, step |-> x.step, error |-> x.error]
  OBVIOUS
<1>8. [p EXCEPT !.returns = v] = [at |-> x.at, msg |-> x.msg, attempt |-> x.attempt, returns |-> v,
                                  left |-> x.left, step |-> x.step, error |-> x.error]
  OBVIOUS
<1> HIDE DEF p
<1> QED BY <1>1, <1>2, <1>3, <1>4, <1>5, <1>6, <1>7, <1>8 DEF IsCopy

LEMMA UnusedCopy == IsCopy(Unused) /\ Unused.at = "unused" /\ Unused.step = "none"
BY DEF IsCopy, Unused

LEMMA FreshCopies ==
  ASSUME NEW m, NEW attempt, NEW returns
  PROVE  /\ LET y == Queued(m, attempt, returns)
            IN IsCopy(y) /\ y.at = "ready" /\ y.msg = m /\ y.step = "none"
         /\ LET y == Retry(m, attempt)
            IN IsCopy(y) /\ y.at = "delayed" /\ y.msg = m /\ y.step = "none"
<1> DEFINE r1 == [Unused EXCEPT !.at = "ready"]
           r2 == [r1 EXCEPT !.msg = m]
           r3 == [r2 EXCEPT !.attempt = attempt]
           r4 == [r3 EXCEPT !.returns = returns]
           d1 == [Unused EXCEPT !.at = "delayed"]
           d2 == [d1 EXCEPT !.msg = m]
           d3 == [d2 EXCEPT !.attempt = attempt]
           d4 == [d3 EXCEPT !.left = Delays[attempt - 1]]
<1>1. Queued(m, attempt, returns) = r4
  BY DEF Queued
<1>2. Retry(m, attempt) = d4
  BY DEF Retry
<1>4. IsCopy(r1) /\ r1.at = "ready" /\ r1.step = "none"
  <2>1. r1 = [at |-> "ready", msg |-> None, attempt |-> 1, returns |-> 0, left |-> 0,
              step |-> "none", error |-> "none"]
    BY DEF Unused
  <2> HIDE DEF r1
  <2> QED BY <2>1 DEF IsCopy
<1>5. IsCopy(d1) /\ d1.at = "delayed" /\ d1.step = "none"
  <2>1. d1 = [at |-> "delayed", msg |-> None, attempt |-> 1, returns |-> 0, left |-> 0,
              step |-> "none", error |-> "none"]
    BY DEF Unused
  <2> HIDE DEF d1
  <2> QED BY <2>1 DEF IsCopy
<1> HIDE DEF r1, d1
<1>6. IsCopy(r2) /\ r2.at = "ready" /\ r2.msg = m /\ r2.step = "none"
  BY <1>4, CopyFields
<1>7. IsCopy(d2) /\ d2.at = "delayed" /\ d2.msg = m /\ d2.step = "none"
  BY <1>5, CopyFields
<1> HIDE DEF r2, d2
<1>8. IsCopy(r3) /\ r3.at = "ready" /\ r3.msg = m /\ r3.step = "none"
  BY <1>6, CopyFields
<1>9. IsCopy(d3) /\ d3.at = "delayed" /\ d3.msg = m /\ d3.step = "none"
  BY <1>7, CopyFields
<1> HIDE DEF r3, d3
<1>10. IsCopy(r4) /\ r4.at = "ready" /\ r4.msg = m /\ r4.step = "none"
  BY <1>8, CopyFields
<1>11. IsCopy(d4) /\ d4.at = "delayed" /\ d4.msg = m /\ d4.step = "none"
  BY <1>9, CopyFields
<1> HIDE DEF r4, d4
<1> QED BY <1>1, <1>2, <1>10, <1>11

(* The copy c becomes x. *)
LEMMA Becomes ==
  ASSUME Inv, NEW c \in Copies, NEW x, copy' = [copy EXCEPT ![c] = x]
  PROVE  copy' = [f \in Copies |-> copy'[f]] /\ copy'[c] = x /\ \A f \in Copies \ {c} : copy'[f] = copy[f]
<1> DEFINE old == [f \in Copies |-> copy[f]]
<1>1. copy = old
  BY DEF Inv, Types
<1>2. [old EXCEPT ![c] = x] = [f \in Copies |-> IF f = c THEN x ELSE copy[f]]
  OBVIOUS
<1>3. copy' = [f \in Copies |-> IF f = c THEN x ELSE copy[f]]
  <2> HIDE DEF old
  <2> QED BY <1>1, <1>2
<1> QED BY <1>3

LEMMA WorkBecomes ==
  ASSUME Inv, NEW c \in Copies, NEW x \in WorkState, work' = [work EXCEPT ![c] = x]
  PROVE  work' \in [Copies -> WorkState] /\ work'[c] = x /\ \A f \in Copies \ {c} : work'[f] = work[f]
BY DEF Inv, Types

LEMMA IdleWork == Idle \in WorkState /\ Idle.phase = "none"
BY DEF Idle, WorkState, Phases, Errors

LEMMA WorkFields ==
  ASSUME NEW x \in WorkState
  PROVE  /\ \A phase \in Phases : LET y == [x EXCEPT !.phase = phase]
                                  IN y \in WorkState /\ y.phase = phase /\ y.left = x.left
         /\ \A error \in Errors : LET y == [x EXCEPT !.error = error]
                                  IN y \in WorkState /\ y.phase = x.phase /\ y.left = x.left
         /\ \A n \in Nat : LET y == [x EXCEPT !.left = n]
                           IN y \in WorkState /\ y.phase = x.phase /\ y.left = n
         /\ [x EXCEPT !.busy = TRUE] \in WorkState /\ [x EXCEPT !.busy = TRUE].phase = x.phase
BY DEF WorkState

-----------------------------------------------------------------------------
(* Steps that change no claim.  A copy comes through such a step well when *)
(* it does not claim, gives up a claim only for a fault or a report, and   *)
(* leaves its message with somebody.                                       *)
Fine(f) ==
  /\ IsCopy(copy'[f])
  /\ copy'[f].at # "unused" => copy'[f].msg \in Msgs
  /\ work'[f].phase # "none" => At(f, "handler")'
  /\ Claimed(f)' => Claimed(f) /\ Msg(f)' = Msg(f) /\ work'[f].left = work[f].left
  /\ In(f, "report")' => In(f, "report")
  /\ faults' = 0 => (Claimed(f) => (Claimed(f)' /\ Msg(f)' = Msg(f)) \/ In(f, "report"))
  /\ \A m \in Msgs : Active(f, m) => Settled(m)' \/ \E d \in Copies : Active(d, m)'

Calm ==
  /\ claims' = claims
  /\ published' \in [Msgs -> Nat]
  /\ \A m \in Msgs : published'[m] > 0 => published[m] > 0 \/ \E d \in Copies : Active(d, m)'
  /\ faults' = faults \/ faults' \in Nat \ {0}
  /\ handled \subseteq handled'
  /\ dead \subseteq dead'

LEMMA SettledStays ==
  ASSUME handled \subseteq handled', dead \subseteq dead', NEW m, Settled(m)
  PROVE  Settled(m)'
BY DEF Settled, Buried

LEMMA UntouchedFine ==
  ASSUME Inv, NEW f \in Copies, copy'[f] = copy[f], work'[f] = work[f]
  PROVE  Fine(f)
BY DEF Inv, Types, Addressed, Quiet, Fine, At, Running, In, Claimed, Msg, Active

LEMMA Frame ==
  ASSUME Inv, Calm, copy' = [f \in Copies |-> copy'[f]], work' \in [Copies -> WorkState],
         \A f \in Copies : Fine(f)
  PROVE  Inv'
<1>1. Types'
  BY DEF Inv, Types, Calm, Fine
<1>2. Addressed' /\ Quiet'
  BY DEF Addressed, Quiet, Fine
<1>3. Holds'
  BY DEF Inv, Holds, Lasting, Calm, Fine, Msg
<1>4. Unique'
  BY DEF Inv, Unique, Fine
<1>5. Reported'
  <2> SUFFICES ASSUME NEW c \in Copies, In(c, "report")'
               PROVE  (claims[Msg(c)].status = "COMPLETED")'
    BY DEF Reported
  <2>1. Claimed(c)' /\ In(c, "report")
    BY DEF Fine, Claimed
  <2>2. Msg(c)' = Msg(c)
    BY <2>1 DEF Fine
  <2> QED BY <2>1, <2>2 DEF Inv, Reported, Calm
<1>6. Kept'
  <2> SUFFICES ASSUME NEW m \in Msgs, published'[m] > 0
               PROVE  Settled(m)' \/ \E d \in Copies : Active(d, m)'
    BY DEF Kept
  <2>1. CASE published[m] > 0
    <3>1. Settled(m) \/ \E d \in Copies : Active(d, m)
      BY <2>1 DEF Inv, Kept
    <3>2. Settled(m) => Settled(m)'
      BY SettledStays DEF Calm
    <3> QED BY <3>1, <3>2 DEF Fine
  <2> QED BY <2>1 DEF Calm
<1>7. FailureReleases'
  <2> SUFFICES ASSUME faults' = 0, NEW m \in Msgs,
                      claims'[m].status = "IN_PROGRESS", claims'[m].lease > 0
               PROVE  \E c \in Copies : Claimed(c)' /\ Msg(c)' = m
    BY DEF FailureReleases
  <2>1. PICK c \in Copies : Claimed(c) /\ Msg(c) = m
    BY DEF Inv, FailureReleases, Calm
  <2>2. ~In(c, "report")
    BY <2>1 DEF Inv, Reported, Calm
  <2> QED BY <2>1, <2>2 DEF Fine
<1> QED BY <1>1, <1>2, <1>3, <1>4, <1>5, <1>6, <1>7 DEF Inv

(* Only the copy c and its handler change. *)
LEMMA OneCopy ==
  ASSUME Inv, Calm, NEW c \in Copies, NEW x, NEW w \in WorkState,
         copy' = [copy EXCEPT ![c] = x], IsCopy(x),
         work' = [work EXCEPT ![c] = w],
         x.at # "unused" => x.msg \in Msgs,
         w.phase \in {"none", "look", "resend"},
         w.phase # "none" => x.at \in {"held", "orphan"} /\ x.step = "handler",
         faults' # 0 \/ ~Claimed(c) \/ In(c, "report"),
         \A m \in Msgs : Active(c, m) => Settled(m)' \/ Active(c, m)'
  PROVE  Inv'
<1>1. copy' = [f \in Copies |-> copy'[f]] /\ copy'[c] = x /\ \A f \in Copies \ {c} : copy'[f] = copy[f]
  BY Becomes
<1>2. work' \in [Copies -> WorkState] /\ work'[c] = w /\ \A f \in Copies \ {c} : work'[f] = work[f]
  BY WorkBecomes
<1>3. Fine(c)
  BY <1>1, <1>2 DEF Fine, At, Running, Claimed, In
<1>4. \A f \in Copies : Fine(f)
  BY <1>1, <1>2, <1>3, UntouchedFine
<1> QED BY <1>1, <1>2, <1>4, Frame

-----------------------------------------------------------------------------
(* The copies of Delivery: what a step of a handler makes of its copy.     *)

PutAt(x, v) == [x EXCEPT !.at = v]
PutStep(x, v) == [x EXCEPT !.step = v]
PutError(x, v) == [x EXCEPT !.error = v]
PutLeft(x, v) == [x EXCEPT !.left = v]

LEMMA Puts ==
  ASSUME NEW x, IsCopy(x), NEW v
  PROVE  /\ IsCopy(PutAt(x, v)) /\ PutAt(x, v).at = v /\ PutAt(x, v).msg = x.msg /\ PutAt(x, v).step = x.step
         /\ IsCopy(PutStep(x, v)) /\ PutStep(x, v).at = x.at /\ PutStep(x, v).msg = x.msg /\ PutStep(x, v).step = v
         /\ IsCopy(PutError(x, v)) /\ PutError(x, v).at = x.at /\ PutError(x, v).msg = x.msg
            /\ PutError(x, v).step = x.step
         /\ IsCopy(PutLeft(x, v)) /\ PutLeft(x, v).at = x.at /\ PutLeft(x, v).msg = x.msg
            /\ PutLeft(x, v).step = x.step
<1>1. IsCopy(PutAt(x, v)) /\ PutAt(x, v).at = v /\ PutAt(x, v).msg = x.msg /\ PutAt(x, v).step = x.step
  BY CopyFields DEF PutAt
<1>2. IsCopy(PutStep(x, v)) /\ PutStep(x, v).at = x.at /\ PutStep(x, v).msg = x.msg /\ PutStep(x, v).step = v
  BY CopyFields DEF PutStep
<1>3. IsCopy(PutError(x, v)) /\ PutError(x, v).at = x.at /\ PutError(x, v).msg = x.msg
      /\ PutError(x, v).step = x.step
  BY CopyFields DEF PutError
<1>4. IsCopy(PutLeft(x, v)) /\ PutLeft(x, v).at = x.at /\ PutLeft(x, v).msg = x.msg
      /\ PutLeft(x, v).step = x.step
  BY CopyFields DEF PutLeft
<1> QED BY <1>1, <1>2, <1>3, <1>4

LEMMA CopyTyped ==
  ASSUME Inv, NEW c \in Copies
  PROVE  IsCopy(copy[c]) /\ work[c] \in WorkState /\ copy = [f \in Copies |-> copy[f]]
BY DEF Inv, Types

LEMMA SameWork ==
  ASSUME Inv, NEW c \in Copies, work' = work
  PROVE  work' = [work EXCEPT ![c] = work[c]]
BY DEF Inv, Types

LEMMA StepTo ==
  ASSUME Inv, NEW c \in Copies, NEW s, copy' = [copy EXCEPT ![c].step = s]
  PROVE  \E x : /\ copy' = [copy EXCEPT ![c] = x] /\ IsCopy(x)
                /\ x.at = copy[c].at /\ x.msg = copy[c].msg /\ x.step = s
<1> DEFINE x == PutStep(copy[c], s)
<1>1. copy' = [copy EXCEPT ![c] = x]
  BY DEF PutStep
<1>2. IsCopy(x) /\ x.at = copy[c].at /\ x.msg = copy[c].msg /\ x.step = s
  BY CopyTyped, Puts
<1> QED BY <1>1, <1>2

LEMMA FailTo ==
  ASSUME Inv, NEW c \in Copies, NEW error, copy' = [copy EXCEPT ![c].step = "failed", ![c].error = error]
  PROVE  \E x : /\ copy' = [copy EXCEPT ![c] = x] /\ IsCopy(x)
                /\ x.at = copy[c].at /\ x.msg = copy[c].msg /\ x.step = "failed"
<1> DEFINE y == PutStep(copy[c], "failed")
           x == PutError(y, error)
<1>1. copy' = [copy EXCEPT ![c] = x]
  BY CopyTyped DEF PutStep, PutError
<1>2. IsCopy(y) /\ y.at = copy[c].at /\ y.msg = copy[c].msg /\ y.step = "failed"
  BY CopyTyped, Puts
<1>3. IsCopy(x) /\ x.at = copy[c].at /\ x.msg = copy[c].msg /\ x.step = "failed"
  BY <1>2, Puts
<1> QED BY <1>1, <1>3

-----------------------------------------------------------------------------
(* One lemma per action.                                                   *)

LEMMA PublishKeeps == ASSUME Inv, NEW c \in Copies, NEW m \in Msgs, Publish(c, m), UNCHANGED worker PROVE Inv'
<1> DEFINE x == Queued(m, 1, 0)
<1>1. IsCopy(x) /\ x.at = "ready" /\ x.msg = m /\ x.step = "none"
  BY FreshCopies
<1>2. copy' = [copy EXCEPT ![c] = x]
  BY DEF Publish
<1> HIDE DEF x
<1>3. copy' = [f \in Copies |-> copy'[f]] /\ copy'[c] = x /\ \A f \in Copies \ {c} : copy'[f] = copy[f]
  BY <1>2, Becomes
<1>4. work' = work /\ claims' = claims /\ faults' = faults /\ handled' = handled /\ dead' = dead
  BY DEF Publish, worker
<1>5. copy[c].at = "unused" /\ work[c].phase = "none"
  BY DEF Publish, Inv, Quiet, At, Running
<1>6. Fine(c)
  BY <1>1, <1>3, <1>4, <1>5 DEF Fine, At, Running, Claimed, In, Active
<1>7. \A f \in Copies : Fine(f)
  BY <1>3, <1>4, <1>6, UntouchedFine
<1>8. Calm
  <2>1. published' \in [Msgs -> Nat] /\ \A k \in Msgs \ {m} : published'[k] = published[k]
    BY DEF Publish, Inv, Types
  <2>2. Active(c, m)'
    BY <1>1, <1>3 DEF Active
  <2> QED BY <1>4, <2>1, <2>2 DEF Calm
<1>9. work' \in [Copies -> WorkState]
  BY <1>4 DEF Inv, Types
<1> QED BY <1>3, <1>7, <1>8, <1>9, Frame

LEMMA DeliverKeeps == ASSUME Inv, NEW c \in Copies, Deliver(c), UNCHANGED worker PROVE Inv'
<1> DEFINE y == PutAt(copy[c], "held")
           x == PutStep(y, "handler")
<1>1. copy' = [copy EXCEPT ![c] = x]
  BY CopyTyped DEF Deliver, PutAt, PutStep
<1>2. IsCopy(y) /\ y.at = "held" /\ y.msg = copy[c].msg
  BY CopyTyped, Puts
<1>3. IsCopy(x) /\ x.at = "held" /\ x.msg = copy[c].msg /\ x.step = "handler"
  BY <1>2, Puts
<1> HIDE DEF y, x
<1>4. copy[c].at = "ready" /\ work[c].phase = "none" /\ copy[c].msg \in Msgs
  BY DEF Deliver, Inv, Quiet, At, Running, Addressed
<1>5. Calm
  BY DEF Deliver, worker, Calm, Inv, Types
<1>6. \A m \in Msgs : Active(c, m) => Active(c, m)'
  BY <1>1, <1>3, Becomes DEF Active
<1>7. ~Claimed(c)
  BY <1>4 DEF Claimed, In
<1> QED BY <1>1, <1>3, <1>4, <1>5, <1>6, <1>7, OneCopy, CopyTyped, SameWork DEF worker

LEMMA ExpireKeeps == ASSUME Inv, NEW c \in Copies, Expire(c), UNCHANGED worker PROVE Inv'
<1> DEFINE x == Queued(copy[c].msg, copy[c].attempt, 0)
<1>1. copy' = [copy EXCEPT ![c] = x] /\ IsCopy(x) /\ x.at = "ready" /\ x.msg = copy[c].msg /\ x.step = "none"
  BY FreshCopies DEF Expire
<1> HIDE DEF x
<1>2. copy[c].at = "delayed" /\ work[c].phase = "none" /\ copy[c].msg \in Msgs
  BY DEF Expire, Inv, Quiet, At, Running, Addressed
<1>3. Calm
  BY DEF Expire, worker, Calm, Inv, Types
<1>4. \A m \in Msgs : Active(c, m) => Active(c, m)'
  BY <1>1, Becomes DEF Active
<1>5. ~Claimed(c)
  BY <1>2 DEF Claimed, In
<1> QED BY <1>1, <1>2, <1>3, <1>4, <1>5, OneCopy, CopyTyped, SameWork DEF worker

LEMMA ClaimFailsKeeps == ASSUME Inv, NEW c \in Copies, ClaimFails(c) PROVE Inv'
<1>1. PICK x : /\ copy' = [copy EXCEPT ![c] = x] /\ IsCopy(x)
               /\ x.at = copy[c].at /\ x.msg = copy[c].msg /\ x.step = "failed"
  BY FailTo DEF ClaimFails, HandlerFails
<1>2. At(c, "handler") /\ work[c].phase = "none" /\ ~Claimed(c) /\ copy[c].msg \in Msgs
  BY DEF ClaimFails, In, Claimed, Inv, Addressed, At, Running
<1>3. Calm
  BY DEF ClaimFails, HandlerFails, worker, Calm, Inv, Types
<1>4. \A m \in Msgs : Active(c, m) => Active(c, m)'
  BY <1>1, <1>2, Becomes DEF Active
<1> QED BY <1>1, <1>2, <1>3, <1>4, OneCopy, CopyTyped, SameWork DEF ClaimFails, worker

LEMMA LookKeeps == ASSUME Inv, NEW c \in Copies, Look(c) PROVE Inv'
<1>1. At(c, "handler") /\ work[c].phase = "look" /\ ~Claimed(c) /\ copy[c].msg \in Msgs
  BY DEF Look, In, Claimed, Inv, Addressed, At, Running
<1>2. Calm
  BY DEF Look, delivery, HandlerFails, Calm, Inv, Types
<1>3. CASE claims[Msg(c)].status = "COMPLETED"
  <2> DEFINE w == [work[c] EXCEPT !.phase = "resend"]
  <2>1. work' = [work EXCEPT ![c] = w] /\ copy' = copy
    BY <1>3 DEF Look, Enter, delivery
  <2>2. w \in WorkState /\ w.phase = "resend"
    BY CopyTyped, WorkFields DEF Phases
  <2> HIDE DEF w
  <2>3. copy' = [copy EXCEPT ![c] = copy[c]]
    BY <2>1, CopyTyped
  <2>4. \A m \in Msgs : Active(c, m) => Active(c, m)'
    BY <2>1 DEF Active
  <2> QED BY <1>1, <1>2, <2>1, <2>2, <2>3, <2>4, OneCopy, CopyTyped DEF At, Running
<1>4. CASE claims[Msg(c)].status # "COMPLETED"
  <2> DEFINE w == [Idle EXCEPT !.busy = TRUE]
  <2>1. PICK x : /\ copy' = [copy EXCEPT ![c] = x] /\ IsCopy(x)
                 /\ x.at = copy[c].at /\ x.msg = copy[c].msg /\ x.step = "failed"
    BY <1>4, FailTo DEF Look, HandlerFails
  <2>2. work' = [work EXCEPT ![c] = w]
    BY <1>4 DEF Look
  <2>3. w \in WorkState /\ w.phase = "none"
    BY IdleWork, WorkFields
  <2> HIDE DEF w
  <2>4. \A m \in Msgs : Active(c, m) => Active(c, m)'
    BY <1>1, <2>1, Becomes DEF Active, At
  <2> QED BY <1>1, <1>2, <2>1, <2>2, <2>3, <2>4, OneCopy
<1> QED BY <1>3, <1>4

LEMMA LeaveWork ==
  ASSUME NEW c \in Copies, Leave(c)
  PROVE  work' = [work EXCEPT ![c] = Idle] /\ Idle \in WorkState /\ Idle.phase = "none"
BY IdleWork DEF Leave

LEMMA ReportKeeps == ASSUME Inv, NEW c \in Copies, Report(c) PROVE Inv'
<1>1. PICK x : /\ copy' = [copy EXCEPT ![c] = x] /\ IsCopy(x)
               /\ x.at = copy[c].at /\ x.msg = copy[c].msg /\ x.step = "done"
  BY StepTo DEF Report, HandlerSucceeds
<1>2. At(c, "handler") /\ (~Claimed(c) \/ In(c, "report")) /\ copy[c].msg \in Msgs
  BY DEF Report, In, Claimed, Inv, Addressed, At, Running
<1>3. Calm
  BY DEF Report, HandlerSucceeds, Calm, Inv, Types
<1>4. \A m \in Msgs : Active(c, m) => Settled(m)'
  BY DEF Active, Report, HandlerSucceeds, Settled
<1> QED BY <1>1, <1>2, <1>3, <1>4, OneCopy, LeaveWork DEF Report

LEMMA OnRetryKeeps == ASSUME Inv, NEW c \in Copies, OnRetry(c), UNCHANGED <<claims, work>> PROVE Inv'
<1>1. PICK x : /\ copy' = [copy EXCEPT ![c] = x] /\ IsCopy(x)
               /\ x.at = copy[c].at /\ x.msg = copy[c].msg /\ x.step = "done"
  BY StepTo DEF OnRetry
<1>2. At(c, "retried") /\ work[c].phase = "none" /\ ~Claimed(c) /\ copy[c].msg \in Msgs
  BY DEF OnRetry, In, Claimed, Inv, Addressed, Quiet, At, Running
<1>3. Calm
  BY DEF OnRetry, Calm, Inv, Types
<1>4. \A m \in Msgs : ~Active(c, m)
  BY <1>2 DEF Active, At, Running
<1> QED BY <1>1, <1>2, <1>3, <1>4, OneCopy, CopyTyped, SameWork

LEMMA ToDeadLetterKeeps == ASSUME Inv, NEW c \in Copies, ToDeadLetter(c), UNCHANGED worker PROVE Inv'
<1>1. PICK x : /\ copy' = [copy EXCEPT ![c] = x] /\ IsCopy(x)
               /\ x.at = copy[c].at /\ x.msg = copy[c].msg /\ x.step = "buried"
  BY StepTo DEF ToDeadLetter
<1>2. At(c, "failed") /\ work[c].phase = "none" /\ ~Claimed(c) /\ copy[c].msg \in Msgs
  BY DEF ToDeadLetter, In, Claimed, Inv, Addressed, Quiet, At, Running
<1>3. Calm
  BY DEF ToDeadLetter, worker, Calm, Inv, Types
<1>4. \A m \in Msgs : Active(c, m) => Settled(m)'
  BY DEF Active, ToDeadLetter, Settled, Buried
<1> QED BY <1>1, <1>2, <1>3, <1>4, OneCopy, CopyTyped, SameWork DEF worker

LEMMA OnGiveUpKeeps == ASSUME Inv, NEW c \in Copies, OnGiveUp(c), UNCHANGED <<claims, work>> PROVE Inv'
<1>1. PICK x : /\ copy' = [copy EXCEPT ![c] = x] /\ IsCopy(x)
               /\ x.at = copy[c].at /\ x.msg = copy[c].msg /\ x.step = "done"
  BY StepTo DEF OnGiveUp
<1>2. At(c, "buried") /\ work[c].phase = "none" /\ ~Claimed(c) /\ copy[c].msg \in Msgs
  BY DEF OnGiveUp, In, Claimed, Inv, Addressed, Quiet, At, Running
<1>3. Calm
  BY DEF OnGiveUp, Calm, Inv, Types
<1>4. \A m \in Msgs : ~Active(c, m)
  BY <1>2 DEF Active, At, Running
<1> QED BY <1>1, <1>2, <1>3, <1>4, OneCopy, CopyTyped, SameWork

LEMMA AckKeeps == ASSUME Inv, NEW c \in Copies, Ack(c), Leave(c), UNCHANGED claims PROVE Inv'
<1>1. At(c, "done") /\ work[c].phase = "none" /\ ~Claimed(c)
  BY DEF Ack, In, Claimed, Inv, Quiet, At, Running
<1>2. Calm
  BY DEF Ack, Calm, Inv, Types
<1>3. \A m \in Msgs : ~Active(c, m)
  BY <1>1 DEF Active, At, Running
<1> QED BY <1>1, <1>2, <1>3, OneCopy, UnusedCopy, LeaveWork DEF Ack

LEMMA ExecuteKeeps == ASSUME Inv, NEW c \in Copies, Execute(c) PROVE Inv'
<1>1. In(c, "run") /\ copy' = copy
  BY DEF Execute, delivery
<1>2. PICK w \in WorkState : work' = [work EXCEPT ![c] = w] /\ w.phase \in {"store", "release"} /\ w.left = work[c].left
  <2>1. CASE Enter(c, "store")
    <3> DEFINE w == [work[c] EXCEPT !.phase = "store"]
    <3>1. work' = [work EXCEPT ![c] = w]
      BY <2>1 DEF Enter
    <3>2. w \in WorkState /\ w.phase = "store" /\ w.left = work[c].left
      BY CopyTyped, WorkFields DEF Phases
    <3> QED BY <3>1, <3>2
  <2>2. ASSUME NEW error \in {"transient", "permanent"},
               work' = [work EXCEPT ![c].phase = "release", ![c].error = error]
        PROVE  \E w \in WorkState : /\ work' = [work EXCEPT ![c] = w]
                                    /\ w.phase \in {"store", "release"} /\ w.left = work[c].left
    <3> DEFINE v == [work[c] EXCEPT !.phase = "release"]
               w == [v EXCEPT !.error = error]
    <3>1. work' = [work EXCEPT ![c] = w]
      BY <2>2 DEF Inv, Types
    <3>2. v \in WorkState /\ v.phase = "release" /\ v.left = work[c].left
      BY CopyTyped, WorkFields DEF Phases
    <3>3. w \in WorkState /\ w.phase = "release" /\ w.left = work[c].left
      <4> HIDE DEF v
      <4> QED BY <3>2, WorkFields DEF Errors
    <3> QED BY <3>1, <3>3
  <2> QED BY <2>1, <2>2 DEF Execute
<1>3. work' \in [Copies -> WorkState] /\ work'[c] = w /\ \A f \in Copies \ {c} : work'[f] = work[f]
  BY <1>2, WorkBecomes
<1>4. Claimed(c) /\ Claimed(c)' /\ At(c, "handler")' /\ work'[c].phase # "report"
  BY <1>1, <1>2, <1>3 DEF In, Claimed, At, Running
<1>5. Fine(c)
  BY <1>1, <1>2, <1>3, <1>4, CopyTyped DEF Inv, Addressed, Fine, In, Msg, Active
<1>6. \A f \in Copies : Fine(f)
  BY <1>1, <1>3, <1>5, UntouchedFine
<1>7. Calm
  BY DEF Execute, delivery, Calm, Inv, Types
<1> QED BY <1>1, <1>3, <1>6, <1>7, CopyTyped, Frame

LEMMA StoreOrReportFailsKeeps == ASSUME Inv, NEW c \in Copies, StoreOrReportFails(c) PROVE Inv'
<1> DEFINE v == [work[c] EXCEPT !.phase = "release"]
           w == [v EXCEPT !.error = "transient"]
<1>1. work' = [work EXCEPT ![c] = w]
  BY DEF StoreOrReportFails, Inv, Types
<1>2. v \in WorkState /\ v.phase = "release" /\ v.left = work[c].left
  BY CopyTyped, WorkFields DEF Phases
<1>3. w \in WorkState /\ w.phase = "release" /\ w.left = work[c].left
  <2> HIDE DEF v
  <2> QED BY <1>2, WorkFields DEF Errors
<1> HIDE DEF v, w
<1>4. work' \in [Copies -> WorkState] /\ work'[c] = w /\ \A f \in Copies \ {c} : work'[f] = work[f]
  BY <1>1, <1>3, WorkBecomes
<1>5. Claimed(c) /\ Claimed(c)' /\ At(c, "handler")' /\ work'[c].phase # "report" /\ copy' = copy
  BY <1>3, <1>4 DEF StoreOrReportFails, In, Claimed, At, Running
<1>6. Fine(c)
  BY <1>3, <1>4, <1>5, CopyTyped DEF Inv, Addressed, Fine, In, Msg, Active
<1>7. \A f \in Copies : Fine(f)
  BY <1>4, <1>5, <1>6, UntouchedFine
<1>8. Calm
  BY DEF StoreOrReportFails, Fault, Calm, Inv, Types
<1> QED BY <1>4, <1>5, <1>7, <1>8, CopyTyped, Frame

LEMMA ClaimOrReleaseFailsKeeps == ASSUME Inv, NEW c \in Copies, ClaimOrReleaseFails(c) PROVE Inv'
<1>1. PICK x : /\ copy' = [copy EXCEPT ![c] = x] /\ IsCopy(x)
               /\ x.at = copy[c].at /\ x.msg = copy[c].msg /\ x.step = "failed"
  BY FailTo DEF ClaimOrReleaseFails
<1>2. At(c, "handler") /\ copy[c].msg \in Msgs
  BY DEF ClaimOrReleaseFails, In, Inv, Addressed, At, Running
<1>3. Calm /\ faults' # 0
  BY DEF ClaimOrReleaseFails, Fault, Calm, Inv, Types
<1>4. \A m \in Msgs : Active(c, m) => Active(c, m)'
  BY <1>1, <1>2, Becomes DEF Active, At
<1> QED BY <1>1, <1>2, <1>3, <1>4, OneCopy, LeaveWork DEF ClaimOrReleaseFails

(* The broker takes the copy back: it is queued again, or dead. *)
LEMMA TakenBackKeeps ==
  ASSUME Inv, NEW c \in Copies, Running(c), copy[c].at = "held", Fault, TakenBack(c, c, FALSE),
         Leave(c), UNCHANGED <<published, handled, claims>>
  PROVE  Inv'
<1>1. copy[c].msg \in Msgs /\ faults' # 0
  BY DEF Inv, Addressed, Fault, Types
<1>2. Calm
  BY DEF TakenBack, Fault, Calm, Inv, Types
<1>3. CASE copy[c].returns = DeliveryLimit
  <2>1. copy' = [copy EXCEPT ![c] = Unused]
    BY <1>3 DEF TakenBack
  <2>2. \A m \in Msgs : Active(c, m) => Settled(m)'
    BY <1>3 DEF TakenBack, Active, Settled, Buried
  <2> QED BY <1>1, <1>2, <2>1, <2>2, OneCopy, UnusedCopy, LeaveWork
<1>4. CASE copy[c].returns # DeliveryLimit
  <2> DEFINE x == Queued(copy[c].msg, copy[c].attempt, copy[c].returns + 1)
  <2>1. copy' = [copy EXCEPT ![c] = x]
    BY <1>4, CopyTyped DEF TakenBack
  <2>2. IsCopy(x) /\ x.at = "ready" /\ x.msg = copy[c].msg /\ x.step = "none"
    BY FreshCopies
  <2> HIDE DEF x
  <2>3. \A m \in Msgs : Active(c, m) => Active(c, m)'
    BY <2>1, <2>2, Becomes DEF Active
  <2> QED BY <1>1, <1>2, <2>1, <2>2, <2>3, OneCopy, LeaveWork
<1> QED BY <1>3, <1>4

LEMMA OrphanEnds ==
  ASSUME Inv, NEW c \in Copies, copy[c].at = "orphan", Fault, copy' = [copy EXCEPT ![c] = Unused],
         Leave(c), UNCHANGED <<published, handled, claims, dead>>
  PROVE  Inv'
<1>1. faults' # 0 /\ \A m \in Msgs : ~Active(c, m)
  BY DEF Inv, Fault, Types, Active
<1>2. Calm
  BY DEF Fault, Calm, Inv, Types
<1> QED BY <1>1, <1>2, OneCopy, UnusedCopy, LeaveWork

LEMMA SettleFailsKeeps == ASSUME Inv, NEW c \in Copies, SettleFails(c), Leave(c), UNCHANGED claims PROVE Inv'
BY TakenBackKeeps, OrphanEnds DEF SettleFails, At, Running

LEMMA CrashKeeps == ASSUME Inv, NEW c \in Copies, Crash(c), Leave(c), UNCHANGED claims PROVE Inv'
BY TakenBackKeeps, OrphanEnds DEF Crash, Running

(* Two copies change: the copy c of a message, and the unused copy d. *)
LEMMA TwoBecome ==
  ASSUME Inv, NEW c \in Copies, NEW d \in Copies, c # d, NEW x, NEW y,
         copy' = [copy EXCEPT ![c] = x, ![d] = y]
  PROVE  /\ copy' = [f \in Copies |-> copy'[f]] /\ copy'[c] = x /\ copy'[d] = y
         /\ \A f \in Copies \ {c, d} : copy'[f] = copy[f]
<1> DEFINE old == [f \in Copies |-> copy[f]]
<1>1. copy = old
  BY DEF Inv, Types
<1>2. [old EXCEPT ![c] = x, ![d] = y] = [f \in Copies |-> IF f = d THEN y ELSE IF f = c THEN x ELSE copy[f]]
  OBVIOUS
<1>3. copy' = [f \in Copies |-> IF f = d THEN y ELSE IF f = c THEN x ELSE copy[f]]
  <2> HIDE DEF old
  <2> QED BY <1>1, <1>2
<1> QED BY <1>3

LEMMA SendRetryKeeps ==
  ASSUME Inv, NEW c \in Copies, NEW d \in Copies, SendRetry(c, d), UNCHANGED worker
  PROVE  Inv'
<1> DEFINE x == PutStep(copy[c], "retried")
           y == Retry(copy[c].msg, copy[c].attempt + 1)
<1>1. At(c, "failed") /\ copy[d].at = "unused" /\ c # d
  BY DEF SendRetry, At, Running
<1>2. copy' = [copy EXCEPT ![c] = x, ![d] = y]
  BY DEF SendRetry, PutStep
<1>3. IsCopy(x) /\ x.at = copy[c].at /\ x.msg = copy[c].msg /\ x.step = "retried"
  BY CopyTyped, Puts
<1>4. IsCopy(y) /\ y.at = "delayed" /\ y.msg = copy[c].msg /\ y.step = "none"
  BY FreshCopies
<1> HIDE DEF x, y
<1>5. /\ copy' = [f \in Copies |-> copy'[f]] /\ copy'[c] = x /\ copy'[d] = y
      /\ \A f \in Copies \ {c, d} : copy'[f] = copy[f]
  BY <1>1, <1>2, TwoBecome
<1>6. work' = work /\ work[c].phase = "none" /\ work[d].phase = "none" /\ copy[c].msg \in Msgs
  BY <1>1 DEF worker, Inv, Quiet, Addressed, At, Running
<1>7. \A m \in Msgs : Active(c, m) => Active(d, m)'
  BY <1>4, <1>5 DEF Active
<1>8. Fine(c)
  BY <1>3, <1>5, <1>6, <1>7 DEF Fine, In, Claimed
<1>9. Fine(d)
  BY <1>1, <1>4, <1>5, <1>6 DEF Fine, In, Claimed, Active
<1>10. \A f \in Copies : Fine(f)
  BY <1>5, <1>6, <1>8, <1>9, UntouchedFine
<1>11. Calm /\ work' \in [Copies -> WorkState]
  BY DEF SendRetry, worker, Calm, Inv, Types
<1> QED BY <1>5, <1>10, <1>11, Frame

LEMMA LoseConnectionKeeps ==
  ASSUME Inv, NEW c \in Copies, NEW d \in Copies, LoseConnection(c, d), UNCHANGED worker
  PROVE  Inv'
<1> DEFINE x == PutAt(copy[c], "orphan")
           y == Queued(copy[c].msg, copy[c].attempt, copy[c].returns + 1)
<1>1. copy[c].at = "held" /\ copy[d].at = "unused" /\ c # d
  BY DEF LoseConnection
<1>2. IsCopy(x) /\ x.at = "orphan" /\ x.msg = copy[c].msg /\ x.step = copy[c].step
  BY CopyTyped, Puts
<1>3. IsCopy(y) /\ y.at = "ready" /\ y.msg = copy[c].msg /\ y.step = "none"
  BY FreshCopies
<1>4. work' = work /\ copy[c].msg \in Msgs /\ work[d].phase = "none"
  BY <1>1 DEF worker, Inv, Addressed, Quiet, At, Running
<1>5. Calm /\ work' \in [Copies -> WorkState]
  BY DEF LoseConnection, TakenBack, Fault, worker, Calm, Inv, Types
<1>6. CASE copy[c].returns = DeliveryLimit
  <2>1. copy' = [copy EXCEPT ![c] = x]
    BY <1>6 DEF LoseConnection, TakenBack, PutAt
  <2> HIDE DEF x
  <2>2. copy' = [f \in Copies |-> copy'[f]] /\ copy'[c] = x /\ \A f \in Copies \ {c} : copy'[f] = copy[f]
    BY <2>1, Becomes
  <2>3. \A m \in Msgs : Active(c, m) => Settled(m)'
    BY <1>6 DEF LoseConnection, TakenBack, Active, Settled, Buried
  <2>4. Fine(c)
    BY <1>1, <1>2, <1>4, <2>2, <2>3 DEF Fine, In, Claimed, At, Running, Msg, Inv, Quiet
  <2>5. \A f \in Copies : Fine(f)
    BY <1>4, <2>2, <2>4, UntouchedFine
  <2> QED BY <1>5, <2>2, <2>5, Frame
<1>7. CASE copy[c].returns # DeliveryLimit
  <2>1. copy' = [copy EXCEPT ![c] = x, ![d] = y]
    BY <1>7 DEF LoseConnection, TakenBack, PutAt
  <2> HIDE DEF x, y
  <2>2. /\ copy' = [f \in Copies |-> copy'[f]] /\ copy'[c] = x /\ copy'[d] = y
        /\ \A f \in Copies \ {c, d} : copy'[f] = copy[f]
    BY <1>1, <2>1, TwoBecome
  <2>3. \A m \in Msgs : Active(c, m) => Active(d, m)'
    BY <1>3, <2>2 DEF Active
  <2>4. Fine(c)
    BY <1>1, <1>2, <1>4, <2>2, <2>3 DEF Fine, In, Claimed, At, Running, Msg, Inv, Quiet
  <2>5. Fine(d)
    BY <1>1, <1>3, <1>4, <2>2 DEF Fine, In, Claimed, Active
  <2>6. \A f \in Copies : Fine(f)
    BY <1>4, <2>2, <2>4, <2>5, UntouchedFine
  <2> QED BY <1>5, <2>2, <2>6, Frame
<1> QED BY <1>6, <1>7

-----------------------------------------------------------------------------
(* The steps that change a claim.                                          *)

LEMMA ClaimBecomes ==
  ASSUME Inv, NEW m \in Msgs, NEW x \in ClaimState, claims' = [claims EXCEPT ![m] = x]
  PROVE  claims' \in [Msgs -> ClaimState] /\ claims'[m] = x /\ \A k \in Msgs \ {m} : claims'[k] = claims[k]
BY DEF Inv, Types

LEMMA MsgTyped ==
  ASSUME Inv, NEW c \in Copies, At(c, "handler")
  PROVE  Msg(c) \in Msgs /\ claims[Msg(c)] \in ClaimState
BY DEF Inv, Addressed, Types, Msg, At, Running

(* What is out of the reach of a step inside a handler. *)
LEMMA SameDelivery ==
  ASSUME Inv, UNCHANGED delivery, work' \in [Copies -> WorkState], claims' \in [Msgs -> ClaimState],
         \A f \in Copies : work'[f].phase # "none" => work[f].phase # "none"
  PROVE  Types' /\ Addressed' /\ Quiet' /\ Kept'
<1>1. Types' /\ Addressed'
  BY DEF delivery, Inv, Types, Addressed
<1>2. Quiet'
  BY DEF delivery, Inv, Quiet, At, Running
<1>3. Kept'
  BY DEF delivery, Inv, Kept, Active, Settled, Buried
<1> QED BY <1>1, <1>2, <1>3

(* A claim is given to a handler when nobody holds it: the others it could *)
(* meet would hold a lease that is not over.                               *)
LEMMA TryClaimKeeps == ASSUME Inv, NEW c \in Copies, TryClaim(c) PROVE Inv'
<1>1. In(c, "none") /\ At(c, "handler") /\ UNCHANGED delivery
  BY DEF TryClaim, In
<1>2. CASE ~Claimable(Msg(c))
  <2> DEFINE w == [work[c] EXCEPT !.phase = "look"]
  <2>1. work' = [work EXCEPT ![c] = w] /\ UNCHANGED claims
    BY <1>2 DEF TryClaim, Enter
  <2>2. w \in WorkState /\ w.phase = "look"
    <3>1. work[c] \in WorkState /\ "look" \in Phases
      BY CopyTyped DEF Phases
    <3> QED BY <3>1, WorkFields
  <2> HIDE DEF w
  <2>3. copy' = [copy EXCEPT ![c] = copy[c]]
    BY <1>1, CopyTyped DEF delivery
  <2>4. \A m \in Msgs : Active(c, m) => Active(c, m)'
    BY <1>1 DEF delivery, Active
  <2>5. Calm /\ ~Claimed(c) /\ copy[c].msg \in Msgs
    BY <1>1, <2>1, MsgTyped DEF delivery, Calm, Inv, Types, Claimed, In, Msg
  <2> QED BY <1>1, <2>1, <2>2, <2>3, <2>4, <2>5, OneCopy, CopyTyped DEF At, Running
<1>3. CASE Claimable(Msg(c))
  <2> DEFINE m == Msg(c)
             x == [status |-> "IN_PROGRESS", lease |-> Lease]
             v == [Idle EXCEPT !.phase = "run"]
             w == [v EXCEPT !.left = MaxRun]
  <2>1. m \in Msgs /\ claims' = [claims EXCEPT ![m] = x] /\ work' = [work EXCEPT ![c] = w]
    BY <1>1, <1>3, MsgTyped, IdleWork DEF TryClaim
  <2>2. x \in ClaimState /\ x.status = "IN_PROGRESS" /\ x.lease = Lease
    BY LeaseAssumption DEF ClaimState
  <2>3. v \in WorkState /\ v.phase = "run"
    BY IdleWork, WorkFields DEF Phases
  <2>4. w \in WorkState /\ w.phase = "run" /\ w.left = MaxRun
    <3> HIDE DEF v
    <3> QED BY <2>3, WorkFields, LeaseAssumption
  <2> HIDE DEF m, x, v, w
  <2>5. claims' \in [Msgs -> ClaimState] /\ claims'[m] = x /\ \A k \in Msgs \ {m} : claims'[k] = claims[k]
    BY <2>1, <2>2, ClaimBecomes
  <2>6. work' \in [Copies -> WorkState] /\ work'[c] = w /\ \A f \in Copies \ {c} : work'[f] = work[f]
    BY <2>1, <2>4, WorkBecomes
  <2>7. \A f \in Copies : Claimed(f) => Msg(f) # m
    BY <1>3 DEF Inv, Holds, Lasting, Claimable, Types, WorkState, m
  <2>8. Msg(c)' = m /\ Claimed(c)' /\ ~In(c, "report")'
    BY <1>1, <2>4, <2>6 DEF Msg, m, Claimed, In, At, Running, delivery
  <2>9. \A f \in Copies \ {c} : /\ Msg(f)' = Msg(f) /\ Claimed(f)' = Claimed(f) /\ work'[f] = work[f]
                                /\ In(f, "report")' = In(f, "report")
    BY <1>1, <2>6 DEF Msg, Claimed, In, At, Running, delivery
  <2>10. Types' /\ Addressed' /\ Kept'
    <3>1. Types' /\ Addressed'
      BY <1>1, <2>5, <2>6 DEF delivery, Inv, Types, Addressed
    <3>2. Kept'
      BY <1>1 DEF delivery, Inv, Kept, Active, Settled, Buried
    <3> QED BY <3>1, <3>2
  <2>11. Quiet'
    BY <1>1, <2>6 DEF delivery, Inv, Quiet, At, Running
  <2>12. Holds'
    <3> SUFFICES ASSUME NEW f \in Copies, Claimed(f)' PROVE Lasting(Msg(f), work[f].left)'
      BY DEF Holds
    <3>1. CASE f = c
      BY <3>1, <2>2, <2>4, <2>5, <2>6, <2>8, HandlersEndBeforeTheLease DEF Lasting
    <3>2. CASE f # c
      <4>1. Claimed(f) /\ Msg(f) # m /\ Msg(f)' = Msg(f) /\ work'[f] = work[f] /\ Msg(f) \in Msgs
        BY <3>2, <2>7, <2>9, MsgTyped DEF Claimed, In
      <4> QED BY <4>1, <2>5 DEF Inv, Holds, Lasting
    <3> QED BY <3>1, <3>2
  <2>13. Unique'
    BY <2>7, <2>8, <2>9 DEF Inv, Unique
  <2>14. Reported'
    <3> SUFFICES ASSUME NEW f \in Copies, In(f, "report")'
                 PROVE  (claims[Msg(f)].status = "COMPLETED")'
      BY DEF Reported
    <3>1. f # c /\ In(f, "report") /\ Claimed(f) /\ Msg(f)' = Msg(f)
      BY <2>8, <2>9 DEF Claimed
    <3>2. Msg(f) # m /\ Msg(f) \in Msgs
      BY <3>1, <2>7, MsgTyped DEF In
    <3> QED BY <3>1, <3>2, <2>5 DEF Inv, Reported
  <2>15. FailureReleases'
    <3> SUFFICES ASSUME faults' = 0, NEW k \in Msgs, claims'[k].status = "IN_PROGRESS", claims'[k].lease > 0
                 PROVE  \E f \in Copies : Claimed(f)' /\ Msg(f)' = k
      BY DEF FailureReleases
    <3>1. CASE k = m
      BY <3>1, <2>8
    <3>2. CASE k # m
      <4>1. PICK f \in Copies : Claimed(f) /\ Msg(f) = k
        BY <3>2, <1>1, <2>5 DEF Inv, FailureReleases, delivery
      <4>2. f # c
        BY <4>1, <1>1 DEF Claimed, In
      <4> QED BY <4>1, <4>2, <2>9
    <3> QED BY <3>1, <3>2
  <2> QED BY <2>10, <2>11, <2>12, <2>13, <2>14, <2>15 DEF Inv
<1> QED BY <1>2, <1>3

LEMMA StoreKeeps == ASSUME Inv, NEW c \in Copies, Store(c) PROVE Inv'
<1> DEFINE m == Msg(c)
           x == [status |-> "COMPLETED", lease |-> 0]
           w == [work[c] EXCEPT !.phase = "report"]
<1>1. In(c, "store") /\ At(c, "handler") /\ UNCHANGED delivery /\ m \in Msgs /\ Claimed(c)
  BY MsgTyped DEF Store, In, delivery, Claimed
<1>2. claims' = [claims EXCEPT ![m] = x] /\ work' = [work EXCEPT ![c] = w]
  BY DEF Store, Enter
<1>3. x \in ClaimState /\ x.status = "COMPLETED"
  BY DEF ClaimState
<1>4. w \in WorkState /\ w.phase = "report" /\ w.left = work[c].left
  <2>1. work[c] \in WorkState /\ "report" \in Phases
    BY CopyTyped DEF Phases
  <2> QED BY <2>1, WorkFields
<1> HIDE DEF m, x, w
<1>5. claims' \in [Msgs -> ClaimState] /\ claims'[m] = x /\ \A k \in Msgs \ {m} : claims'[k] = claims[k]
  BY <1>1, <1>2, <1>3, ClaimBecomes
<1>6. work' \in [Copies -> WorkState] /\ work'[c] = w /\ \A f \in Copies \ {c} : work'[f] = work[f]
  BY <1>2, <1>4, WorkBecomes
<1>7. Claimed(c)' /\ Msg(c)' = m
  BY <1>1, <1>4, <1>6 DEF Claimed, In, At, Running, delivery, Msg, m
<1>8. \A f \in Copies \ {c} : /\ Msg(f)' = Msg(f) /\ Claimed(f)' = Claimed(f) /\ work'[f] = work[f]
                              /\ In(f, "report")' = In(f, "report")
  BY <1>1, <1>6 DEF Msg, Claimed, In, At, Running, delivery
<1>9. Types' /\ Addressed' /\ Quiet' /\ Kept'
  <2>1. work[c].phase # "none"
    BY <1>1 DEF In
  <2> QED BY <2>1, <1>1, <1>5, <1>6, SameDelivery
<1>10. Holds'
  <2> SUFFICES ASSUME NEW f \in Copies, Claimed(f)' PROVE Lasting(Msg(f), work[f].left)'
    BY DEF Holds
  <2>1. CASE Msg(f)' = m
    BY <2>1, <1>3, <1>5 DEF Lasting
  <2>2. CASE Msg(f)' # m
    <3>1. Claimed(f) /\ Msg(f)' = Msg(f) /\ work'[f] = work[f] /\ Msg(f) \in Msgs
      BY <2>2, <1>7, <1>8, MsgTyped DEF Claimed, In
    <3> QED BY <2>2, <3>1, <1>5 DEF Inv, Holds, Lasting
  <2> QED BY <2>1, <2>2
<1>11. Unique'
  BY <1>1, <1>7, <1>8 DEF Inv, Unique, m
<1>12. Reported'
  <2> SUFFICES ASSUME NEW f \in Copies, In(f, "report")' PROVE (claims[Msg(f)].status = "COMPLETED")'
    BY DEF Reported
  <2>1. CASE Msg(f)' = m
    BY <2>1, <1>3, <1>5
  <2>2. CASE Msg(f)' # m
    <3>1. In(f, "report") /\ Msg(f)' = Msg(f) /\ Msg(f) \in Msgs
      BY <2>2, <1>7, <1>8, MsgTyped DEF In
    <3> QED BY <2>2, <3>1, <1>5 DEF Inv, Reported
  <2> QED BY <2>1, <2>2
<1>13. FailureReleases'
  <2> SUFFICES ASSUME faults' = 0, NEW k \in Msgs, claims'[k].status = "IN_PROGRESS", claims'[k].lease > 0
               PROVE  \E f \in Copies : Claimed(f)' /\ Msg(f)' = k
    BY DEF FailureReleases
  <2>1. k # m
    BY <1>3, <1>5
  <2>2. PICK f \in Copies : Claimed(f) /\ Msg(f) = k
    BY <2>1, <1>1, <1>5 DEF Inv, FailureReleases, delivery
  <2> QED BY <2>1, <2>2, <1>8 DEF m
<1> QED BY <1>9, <1>10, <1>11, <1>12, <1>13 DEF Inv

LEMMA ReleaseKeeps == ASSUME Inv, NEW c \in Copies, Release(c) PROVE Inv'
<1> DEFINE m == Msg(c)
           n == [claims[m] EXCEPT !.lease = 0]
<1>1. In(c, "release") /\ At(c, "handler") /\ m \in Msgs /\ claims[m] \in ClaimState /\ Claimed(c)
  BY MsgTyped DEF Release, In, Claimed
<1>2. claims' = [claims EXCEPT ![m] = n] /\ published' = published /\ handled' = handled /\ dead' = dead
      /\ faults' = faults
  BY DEF Release, HandlerFails
<1>3. n \in ClaimState /\ n.status = claims[m].status /\ n.lease = 0
  BY <1>1 DEF ClaimState
<1>4. PICK x : /\ copy' = [copy EXCEPT ![c] = x] /\ IsCopy(x)
               /\ x.at = copy[c].at /\ x.msg = copy[c].msg /\ x.step = "failed"
  BY FailTo DEF Release, HandlerFails
<1> HIDE DEF n
<1>5. claims' \in [Msgs -> ClaimState] /\ claims'[m] = n /\ \A k \in Msgs \ {m} : claims'[k] = claims[k]
  BY <1>1, <1>2, <1>3, ClaimBecomes
<1>6. copy' = [f \in Copies |-> copy'[f]] /\ copy'[c] = x /\ \A f \in Copies \ {c} : copy'[f] = copy[f]
  BY <1>4, Becomes
<1>7. work' \in [Copies -> WorkState] /\ work'[c].phase = "none" /\ \A f \in Copies \ {c} : work'[f] = work[f]
  BY LeaveWork, WorkBecomes DEF Release
<1>8. \A f \in Copies : Claimed(f)' => f # c /\ Claimed(f)
  BY <1>6, <1>7 DEF Claimed, In, At, Running
<1>9. \A f \in Copies \ {c} : Msg(f)' = Msg(f) /\ work'[f] = work[f] /\ In(f, "report")' = In(f, "report")
                              /\ Claimed(f)' = Claimed(f)
  BY <1>6, <1>7 DEF Claimed, In, At, Running, Msg
<1>10. \A f \in Copies : f # c /\ Claimed(f) => Msg(f) # m
  BY <1>1 DEF Inv, Unique
<1> HIDE DEF m
<1>11. Types' /\ Addressed' /\ Quiet'
  <2>1. Types'
    BY <1>2, <1>4, <1>5, <1>6, <1>7 DEF Inv, Types
  <2>2. Addressed'
    BY <1>1, <1>4, <1>6 DEF Inv, Addressed, m, Msg
  <2>3. Quiet'
    BY <1>6, <1>7 DEF Inv, Quiet, At, Running
  <2> QED BY <2>1, <2>2, <2>3
<1>12. Holds'
  <2> SUFFICES ASSUME NEW f \in Copies, Claimed(f)' PROVE Lasting(Msg(f), work[f].left)'
    BY DEF Holds
  <2>1. Claimed(f) /\ f # c /\ Msg(f) # m /\ Msg(f)' = Msg(f) /\ work'[f] = work[f] /\ Msg(f) \in Msgs
    BY <1>8, <1>9, <1>10, MsgTyped DEF Claimed, In
  <2> QED BY <2>1, <1>5 DEF Inv, Holds, Lasting
<1>13. Unique'
  BY <1>8, <1>9 DEF Inv, Unique
<1>14. Reported'
  <2> SUFFICES ASSUME NEW f \in Copies, In(f, "report")' PROVE (claims[Msg(f)].status = "COMPLETED")'
    BY DEF Reported
  <2>1. Claimed(f)'
    BY DEF Claimed
  <2>2. f # c /\ In(f, "report") /\ Msg(f)' = Msg(f) /\ Msg(f) # m /\ Msg(f) \in Msgs
    BY <2>1, <1>8, <1>9, <1>10, MsgTyped DEF In
  <2> QED BY <2>2, <1>5 DEF Inv, Reported
<1>15. Kept'
  <2>1. \A k \in Msgs : Active(c, k) => Active(c, k)'
    BY <1>1, <1>4, <1>6 DEF Active, At
  <2>2. \A f \in Copies : \A k \in Msgs : Active(f, k) => Active(f, k)'
    BY <2>1, <1>6 DEF Active
  <2> QED BY <2>2, <1>2 DEF Inv, Kept, Settled, Buried
<1>16. FailureReleases'
  <2> SUFFICES ASSUME faults' = 0, NEW k \in Msgs, claims'[k].status = "IN_PROGRESS", claims'[k].lease > 0
               PROVE  \E f \in Copies : Claimed(f)' /\ Msg(f)' = k
    BY DEF FailureReleases
  <2>1. k # m
    BY <1>3, <1>5
  <2>2. PICK f \in Copies : Claimed(f) /\ Msg(f) = k
    BY <2>1, <1>2, <1>5 DEF Inv, FailureReleases
  <2> QED BY <2>1, <2>2, <1>9 DEF m
<1> QED BY <1>11, <1>12, <1>13, <1>14, <1>15, <1>16 DEF Inv

(* A tick shortens a lease by no more than the time of the handler that    *)
(* holds it.                                                               *)
LEMMA ClockTickKeeps == ASSUME Inv, ClockTick PROVE Inv'
<1>1. /\ copy' = [f \in Copies |-> copy'[f]]
      /\ \A f \in Copies : /\ IsCopy(copy'[f]) /\ copy'[f].at = copy[f].at
                           /\ copy'[f].msg = copy[f].msg /\ copy'[f].step = copy[f].step
  <2>1. copy' = [f \in Copies |-> IF Waits(f) THEN PutLeft(copy[f], copy[f].left - 1) ELSE copy[f]]
    BY DEF ClockTick, Later, PutLeft
  <2>2. \A f \in Copies : copy'[f] = PutLeft(copy[f], copy[f].left - 1) \/ copy'[f] = copy[f]
    BY <2>1
  <2>3. \A f \in Copies : LET x == PutLeft(copy[f], copy[f].left - 1)
                          IN IsCopy(x) /\ x.at = copy[f].at /\ x.msg = copy[f].msg /\ x.step = copy[f].step
    BY CopyTyped, Puts
  <2>4. copy' = [f \in Copies |-> copy'[f]]
    BY <2>1
  <2> QED BY <2>2, <2>3, <2>4, CopyTyped
<1>2. /\ claims' \in [Msgs -> ClaimState]
      /\ \A m \in Msgs : /\ claims'[m].status = claims[m].status
                         /\ claims'[m].lease = IF claims[m].lease = 0 THEN 0 ELSE claims[m].lease - 1
  <2>1. \A m \in Msgs : claims[m] \in ClaimState
    BY DEF Inv, Types
  <2>2. \A m \in Msgs : claims'[m] = IF claims[m].lease = 0 THEN claims[m]
                                       ELSE [claims[m] EXCEPT !.lease = claims[m].lease - 1]
    BY DEF ClockTick
  <2>3. \A m \in Msgs : claims[m].lease # 0 =>
          LET y == [claims[m] EXCEPT !.lease = claims[m].lease - 1]
          IN y \in ClaimState /\ y.status = claims[m].status /\ y.lease = claims[m].lease - 1
    BY <2>1 DEF ClaimState
  <2>4. \A m \in Msgs : claims'[m] \in ClaimState
    BY <2>1, <2>2, <2>3
  <2>5. claims' = [m \in Msgs |-> claims'[m]]
    BY DEF ClockTick
  <2> QED BY <2>1, <2>2, <2>3, <2>4, <2>5
<1>3. /\ work' \in [Copies -> WorkState]
      /\ \A f \in Copies : /\ work'[f].phase = work[f].phase
                           /\ Claimed(f) => work[f].left > 0 /\ work'[f].left = work[f].left - 1
  <2>1. \A f \in Copies : work[f] \in WorkState
    BY DEF Inv, Types
  <2>2. \A f \in Copies : work'[f] = IF Claimed(f) THEN [work[f] EXCEPT !.left = work[f].left - 1] ELSE work[f]
    BY DEF ClockTick
  <2>3. \A f \in Copies : Claimed(f) => work[f].left > 0
    BY DEF ClockTick
  <2>4. \A f \in Copies : Claimed(f) =>
          LET y == [work[f] EXCEPT !.left = work[f].left - 1]
          IN y \in WorkState /\ y.phase = work[f].phase /\ y.left = work[f].left - 1
    BY <2>1, <2>3 DEF WorkState
  <2>5. work' = [f \in Copies |-> work'[f]]
    BY DEF ClockTick
  <2>6. \A f \in Copies : work'[f] \in WorkState
    BY <2>1, <2>2, <2>4
  <2> QED BY <2>1, <2>2, <2>3, <2>4, <2>5, <2>6
<1>4. published' = published /\ handled' = handled /\ dead' = dead /\ faults' = faults
  BY DEF ClockTick
<1>5. \A f \in Copies : /\ Claimed(f)' = Claimed(f) /\ Msg(f)' = Msg(f) /\ In(f, "report")' = In(f, "report")
                        /\ At(f, "handler")' = At(f, "handler")
  BY <1>1, <1>3 DEF Claimed, Msg, In, At, Running
<1>6. Types' /\ Addressed' /\ Quiet'
  <2>1. Types'
    BY <1>1, <1>2, <1>3, <1>4 DEF Inv, Types
  <2>2. Addressed'
    BY <1>1 DEF Inv, Addressed
  <2>3. Quiet'
    BY <1>3, <1>5 DEF Inv, Quiet
  <2> QED BY <2>1, <2>2, <2>3
<1>7. Holds'
  <2> SUFFICES ASSUME NEW f \in Copies, Claimed(f)' PROVE Lasting(Msg(f), work[f].left)'
    BY DEF Holds
  <2>1. /\ Claimed(f) /\ Msg(f) \in Msgs /\ Msg(f)' = Msg(f) /\ claims[Msg(f)] \in ClaimState
        /\ work[f] \in WorkState /\ work[f].left > 0 /\ work'[f].left = work[f].left - 1
    BY <1>3, <1>5, MsgTyped, CopyTyped DEF Claimed, In
  <2>2. Lasting(Msg(f), work[f].left)
    BY <2>1 DEF Inv, Holds
  <2>3. claims[Msg(f)].lease \in Nat /\ work[f].left \in Nat
    BY <2>1 DEF ClaimState, WorkState
  <2> QED BY <2>1, <2>2, <2>3, <1>2 DEF Lasting
<1>8. Unique' /\ Reported'
  <2>1. Unique'
    BY <1>5 DEF Inv, Unique
  <2>2. Reported'
    <3> SUFFICES ASSUME NEW f \in Copies, In(f, "report")' PROVE (claims[Msg(f)].status = "COMPLETED")'
      BY DEF Reported
    <3>1. In(f, "report") /\ Msg(f)' = Msg(f) /\ Msg(f) \in Msgs
      BY <1>5, MsgTyped DEF In
    <3> QED BY <3>1, <1>2 DEF Inv, Reported
  <2> QED BY <2>1, <2>2
<1>9. Kept'
  BY <1>1, <1>4 DEF Inv, Kept, Active, Settled, Buried
<1>10. FailureReleases'
  <2> SUFFICES ASSUME faults' = 0, NEW m \in Msgs, claims'[m].status = "IN_PROGRESS", claims'[m].lease > 0
               PROVE  \E f \in Copies : Claimed(f)' /\ Msg(f)' = m
    BY DEF FailureReleases
  <2>1. claims[m].lease \in Nat
    BY DEF Inv, Types, ClaimState
  <2>2. claims[m].status = "IN_PROGRESS" /\ claims[m].lease > 0
    BY <2>1, <1>2
  <2> QED BY <2>2, <1>4, <1>5 DEF Inv, FailureReleases
<1> QED BY <1>6, <1>7, <1>8, <1>9, <1>10 DEF Inv

-----------------------------------------------------------------------------
(* The invariant, and what follows from it.                                *)

LEMMA InitInv == Init => Inv
<1> SUFFICES ASSUME Init PROVE Inv
  OBVIOUS
<1>1. \A c \in Copies : copy[c] = Unused /\ work[c] = Idle
  BY DEF Init, DeliveryInit
<1>2. Types
  <2>1. copy = [c \in Copies |-> copy[c]] /\ \A c \in Copies : IsCopy(copy[c])
    BY <1>1, UnusedCopy DEF Init, DeliveryInit
  <2>2. claims \in [Msgs -> ClaimState]
    BY DEF Init, ClaimState
  <2>3. work \in [Copies -> WorkState]
    BY IdleWork DEF Init
  <2> QED BY <2>1, <2>2, <2>3 DEF Types, Init, DeliveryInit
<1>3. Addressed /\ Quiet /\ \A c \in Copies : ~Claimed(c)
  BY <1>1, UnusedCopy, IdleWork DEF Addressed, Quiet, Claimed, In
<1>4. Holds /\ Unique /\ Reported
  BY <1>3 DEF Holds, Unique, Reported, Claimed
<1>5. Kept /\ FailureReleases
  BY DEF Init, DeliveryInit, Kept, FailureReleases
<1> QED BY <1>2, <1>3, <1>4, <1>5 DEF Inv

LEMMA NextInv == Inv /\ [Next]_vars => Inv'
<1> SUFFICES ASSUME Inv, [Next]_vars PROVE Inv'
  OBVIOUS
<1>1. ASSUME NEW c \in Copies, Arrival(c) PROVE Inv'
  BY <1>1, PublishKeeps, DeliverKeeps, ExpireKeeps DEF Arrival
<1>2. ASSUME NEW c \in Copies, Handle(c) PROVE Inv'
  BY <1>2, TryClaimKeeps, ClaimFailsKeeps, LookKeeps, ExecuteKeeps, StoreKeeps, ReportKeeps, ReleaseKeeps
  DEF Handle
<1>3. ASSUME NEW c \in Copies, FollowUp(c) PROVE Inv'
  BY <1>3, SendRetryKeeps, OnRetryKeeps, ToDeadLetterKeeps, OnGiveUpKeeps, AckKeeps DEF FollowUp
<1>4. ASSUME NEW c \in Copies, Interrupted(c) PROVE Inv'
  BY <1>4, SettleFailsKeeps, CrashKeeps, LoseConnectionKeeps DEF Interrupted
<1>5. CASE UNCHANGED vars
  BY <1>5 DEF vars, worker, delivery, Inv, Types, Addressed, Quiet, Holds, Lasting, Unique, Reported, Kept,
              FailureReleases, Active, Settled, Buried, Claimed, In, At, Running, Msg
<1> QED BY <1>1, <1>2, <1>3, <1>4, <1>5, StoreOrReportFailsKeeps, ClaimOrReleaseFailsKeeps, ClockTickKeeps
        DEF Next

(* "a replica may only execute an action it has claimed": of all handlers, *)
(* those that lost their connection included, one executes an action.      *)
THEOREM ExecutesAlone == Spec => []OneAtATime
<1>1. Inv => OneAtATime
  BY DEF Inv, Unique, OneAtATime, Claimed
<1> QED BY InitInv, NextInv, <1>1, PTL DEF Spec

(* #dispatch, #handleFailure and #settle lose no command: it is handled,   *)
(* in the dead-letter queue, or the broker has a copy of it.               *)
THEOREM CommandsAreKept == Spec => []NothingLost
<1>1. Inv => NothingLost
  BY DEF Inv, Kept, Settled, Active, NothingLost, InCirculation
<1> QED BY InitInv, NextInv, <1>1, PTL DEF Spec

(* A failed attempt leaves no lease behind.                                *)
THEOREM LeaseEndsWithTheAttempt == Spec => []FailureReleases
<1>1. Inv => FailureReleases
  BY DEF Inv
<1> QED BY InitInv, NextInv, <1>1, PTL DEF Spec

-----------------------------------------------------------------------------
(* A completed action stays completed, and a handler enters its execution  *)
(* by a claim only.                                                        *)
Entered(c) == In(c, "run")' /\ ~In(c, "run")

(* A step that starts no handler. *)
NoStart == \A c \in Copies : work'[c].phase = work[c].phase \/ work'[c].phase # "run"

LEMMA NoEntry ==
  ASSUME Inv, NoStart, NEW c \in Copies, Entered(c)
  PROVE  FALSE
<1>1. work[c].phase = "run"
  BY DEF Entered, In, NoStart
<1>2. At(c, "handler")
  BY <1>1 DEF Inv, Quiet
<1> QED BY <1>1, <1>2 DEF Entered, In

LEMMA ChangeStartsNothing ==
  ASSUME Inv, NEW d \in Copies, NEW w, w.phase # "run", work' = [work EXCEPT ![d] = w]
  PROVE  NoStart
BY DEF Inv, Types, NoStart

LEMMA EnterStartsNothing ==
  ASSUME Inv, NEW d \in Copies, NEW phase \in Phases \ {"run"}, Enter(d, phase)
  PROVE  NoStart
<1> DEFINE w == [work[d] EXCEPT !.phase = phase]
<1>1. work' = [work EXCEPT ![d] = w]
  BY DEF Enter
<1>2. w.phase # "run"
  BY CopyTyped, WorkFields
<1> HIDE DEF w
<1> QED BY <1>1, <1>2, ChangeStartsNothing

LEMMA LeaveStartsNothing == ASSUME Inv, NEW d \in Copies, Leave(d) PROVE NoStart
BY LeaveWork, ChangeStartsNothing

LEMMA SameStartsNothing == ASSUME work' = work PROVE NoStart
BY DEF NoStart

LEMMA OnlyClaimsStart ==
  ASSUME Inv, NEW d \in Copies,
         \/ Arrival(d) \/ ClaimFails(d) \/ Look(d) \/ Execute(d) \/ Store(d) \/ Report(d) \/ Release(d)
         \/ FollowUp(d) \/ StoreOrReportFails(d) \/ ClaimOrReleaseFails(d) \/ Interrupted(d)
  PROVE  NoStart
<1>1. CASE Arrival(d) \/ ClaimFails(d) \/ FollowUp(d) \/ Interrupted(d)
  BY <1>1, SameStartsNothing, LeaveStartsNothing DEF Arrival, ClaimFails, FollowUp, Interrupted, worker
<1>2. CASE Report(d) \/ Release(d) \/ ClaimOrReleaseFails(d)
  BY <1>2, LeaveStartsNothing DEF Report, Release, ClaimOrReleaseFails
<1>3. CASE Store(d)
  BY <1>3, EnterStartsNothing DEF Store, Phases
<1>4. CASE Look(d)
  <2>1. CASE Enter(d, "resend")
    BY <2>1, EnterStartsNothing DEF Phases
  <2>2. CASE work' = [work EXCEPT ![d] = [Idle EXCEPT !.busy = TRUE]]
    <3> DEFINE w == [Idle EXCEPT !.busy = TRUE]
    <3>1. w.phase # "run"
      BY IdleWork, WorkFields
    <3>2. work' = [work EXCEPT ![d] = w]
      BY <2>2
    <3> HIDE DEF w
    <3> QED BY <3>1, <3>2, ChangeStartsNothing
  <2> QED BY <1>4, <2>1, <2>2 DEF Look
<1>5. ASSUME NEW error \in {"transient", "permanent"}, work' = [work EXCEPT ![d].phase = "release", ![d].error = error]
      PROVE  NoStart
  <2> DEFINE v == [work[d] EXCEPT !.phase = "release"]
             w == [v EXCEPT !.error = error]
  <2>1. work' = [work EXCEPT ![d] = w]
    BY <1>5 DEF Inv, Types
  <2>2. v \in WorkState /\ v.phase = "release"
    BY CopyTyped, WorkFields DEF Phases
  <2>3. w.phase # "run"
    <3> HIDE DEF v
    <3> QED BY <2>2, WorkFields DEF Errors
  <2> HIDE DEF v, w
  <2> QED BY <2>1, <2>3, ChangeStartsNothing
<1>6. CASE Execute(d)
  BY <1>5, <1>6, EnterStartsNothing DEF Execute, Phases
<1>7. CASE StoreOrReportFails(d)
  BY <1>5, <1>7 DEF StoreOrReportFails
<1> QED BY <1>1, <1>2, <1>3, <1>4, <1>6, <1>7

LEMMA TicksStartNothing == ASSUME Inv, ClockTick PROVE NoStart
<1>1. \A f \in Copies : work'[f] = IF Claimed(f) THEN [work[f] EXCEPT !.left = work[f].left - 1] ELSE work[f]
  BY DEF ClockTick
<1> QED BY <1>1 DEF Inv, Types, WorkState, NoStart

(* "A completed action is never executed twice": a handler that starts to  *)
(* execute comes from a claim, and a completed action is not claimed.      *)
THEOREM CompletedStaysCompleted == Spec => CompletedNeverRunsAgain
<1>1. ASSUME Inv, [Next]_vars, NEW c \in Copies, Entered(c)
      PROVE  claims[Msg(c)].status # "COMPLETED"
  <2>1. CASE \E d \in Copies : TryClaim(d)
    <3>1. PICK d \in Copies : TryClaim(d)
      BY <2>1
    <3>2. CASE Claimable(Msg(d)) /\ c = d
      BY <3>2 DEF Claimable
    <3>3. CASE Claimable(Msg(d)) /\ c # d
      <4> DEFINE v == [[Idle EXCEPT !.phase = "run"] EXCEPT !.left = MaxRun]
      <4>1. work' = [work EXCEPT ![d] = v]
        BY <3>1, <3>3 DEF TryClaim, Idle
      <4> HIDE DEF v
      <4>2. work'[c] = work[c]
        BY <3>3, <4>1 DEF Inv, Types
      <4>3. copy' = copy
        BY <3>1 DEF TryClaim, delivery
      <4> QED BY <1>1, <4>2, <4>3 DEF Entered, In, At, Running
    <3>4. CASE ~Claimable(Msg(d))
      BY <1>1, <3>1, <3>4, EnterStartsNothing, NoEntry DEF TryClaim, Phases
    <3> QED BY <3>2, <3>3, <3>4
  <2>2. CASE ~\E d \in Copies : TryClaim(d)
    <3>1. NoStart
      <4>1. CASE UNCHANGED vars
        BY <4>1, SameStartsNothing DEF vars, worker
      <4> QED BY <1>1, <2>2, <4>1, OnlyClaimsStart, TicksStartNothing DEF Next, Handle
    <3> QED BY <1>1, <3>1, NoEntry
  <2> QED BY <2>1, <2>2
<1>2. Inv /\ [Next]_vars =>
        [\A c \in Copies : In(c, "run")' /\ ~In(c, "run") => claims[Msg(c)].status # "COMPLETED"]_vars
  BY <1>1 DEF Entered
<1> QED BY InitInv, NextInv, <1>2, PTL DEF Spec, CompletedNeverRunsAgain
-----------------------------------------------------------------------------
(* No answer is lost: until the engine has its answer, some copy of the    *)
(* command is about to get it - a handler that failed still retries or     *)
(* gives up, and one that gave up still tells the engine.                  *)
Owes(c, m) ==
  /\ copy[c].msg = m
  /\ copy[c].at \in {"ready", "delayed"}
     \/ (copy[c].at = "held" /\ copy[c].step \in {"handler", "failed", "buried"})
NoAnswerLost == \A m \in Msgs : published[m] > 0 => Answered(m) \/ \E c \in Copies : Owes(c, m)

Keeps == results \subseteq results' /\ dead \subseteq dead'

LEMMA AnswersStay ==
  ASSUME Keeps, NEW m, Answered(m)
  PROVE  Answered(m)'
BY DEF Keeps, Answered

LEMMA AnswersKept ==
  ASSUME NoAnswerLost, Keeps,
         \A m \in Msgs : published'[m] > 0 => published[m] > 0 \/ \E d \in Copies : Owes(d, m)',
         \A f \in Copies, m \in Msgs : Owes(f, m) => Answered(m)' \/ \E d \in Copies : Owes(d, m)'
  PROVE  NoAnswerLost'
<1> SUFFICES ASSUME NEW m \in Msgs, published'[m] > 0
             PROVE  Answered(m)' \/ \E d \in Copies : Owes(d, m)'
  BY DEF NoAnswerLost
<1>1. CASE published[m] > 0
  <2>1. Answered(m) \/ \E c \in Copies : Owes(c, m)
    BY <1>1 DEF NoAnswerLost
  <2> QED BY <2>1, AnswersStay
<1> QED BY <1>1

(* Only the copy c changes. *)
LEMMA OneCopyAnswers ==
  ASSUME Inv, NoAnswerLost, Keeps, published' = published, NEW c \in Copies, NEW x,
         copy' = [copy EXCEPT ![c] = x],
         \A m \in Msgs : Owes(c, m) => Answered(m)' \/ Owes(c, m)'
  PROVE  NoAnswerLost'
<1>1. \A f \in Copies \ {c} : copy'[f] = copy[f]
  BY Becomes
<1>2. \A f \in Copies, m \in Msgs : Owes(f, m) => Answered(m)' \/ \E d \in Copies : Owes(d, m)'
  BY <1>1 DEF Owes
<1> QED BY <1>2, AnswersKept

(* The handler of the copy c goes on, or failed. *)
LEMMA StillOwing ==
  ASSUME Inv, NoAnswerLost, Keeps, published' = published, NEW c \in Copies, NEW x,
         copy' = [copy EXCEPT ![c] = x], x.at = copy[c].at, x.msg = copy[c].msg,
         x.step \in {"handler", "failed", "buried"}
  PROVE  NoAnswerLost'
<1>1. copy'[c] = x
  BY Becomes
<1>2. \A m \in Msgs : Owes(c, m) => Owes(c, m)'
  BY <1>1 DEF Owes
<1> QED BY <1>2, OneCopyAnswers

(* Nothing of the copies changes, or only the time they wait. *)
LEMMA SameCopies ==
  ASSUME Inv, NoAnswerLost, Keeps, published' = published,
         \A f \in Copies : copy'[f].at = copy[f].at /\ copy'[f].msg = copy[f].msg /\ copy'[f].step = copy[f].step
  PROVE  NoAnswerLost'
<1>1. \A f \in Copies, m \in Msgs : Owes(f, m) => Owes(f, m)'
  BY DEF Owes
<1> QED BY <1>1, AnswersKept

LEMMA ArrivalAnswers == ASSUME Inv, NoAnswerLost, NEW c \in Copies, Arrival(c) PROVE NoAnswerLost'
<1>1. ASSUME NEW m \in Msgs, Publish(c, m), UNCHANGED worker PROVE NoAnswerLost'
  <2> DEFINE x == Queued(m, 1, 0)
  <2>1. x.at = "ready" /\ x.msg = m
    BY FreshCopies
  <2>2. copy' = [copy EXCEPT ![c] = x] /\ copy[c].at = "unused"
    BY <1>1 DEF Publish
  <2> HIDE DEF x
  <2>3. copy'[c] = x /\ \A f \in Copies \ {c} : copy'[f] = copy[f]
    BY <2>2, Becomes
  <2>4. Owes(c, m)'
    BY <2>1, <2>3 DEF Owes
  <2>5. \A k \in Msgs \ {m} : published'[k] = published[k]
    BY <1>1 DEF Publish, Inv, Types
  <2>6. \A f \in Copies, k \in Msgs : Owes(f, k) => Owes(f, k)'
    BY <2>2, <2>3 DEF Owes
  <2>7. Keeps
    BY <1>1 DEF Publish, worker, Keeps
  <2> QED BY <2>4, <2>5, <2>6, <2>7, AnswersKept
<1>2. ASSUME Deliver(c), UNCHANGED worker PROVE NoAnswerLost'
  <2> DEFINE y == PutAt(copy[c], "held")
             x == PutStep(y, "handler")
  <2>1. copy' = [copy EXCEPT ![c] = x]
    BY <1>2, CopyTyped DEF Deliver, PutAt, PutStep
  <2>2. IsCopy(y) /\ y.at = "held" /\ y.msg = copy[c].msg
    BY CopyTyped, Puts
  <2>3. x.at = "held" /\ x.msg = copy[c].msg /\ x.step = "handler"
    BY <2>2, Puts
  <2> HIDE DEF y, x
  <2>4. Keeps /\ published' = published
    BY <1>2 DEF Deliver, worker, Keeps
  <2>5. \A m \in Msgs : Owes(c, m) => Owes(c, m)'
    BY <2>1, <2>3, Becomes DEF Owes
  <2> QED BY <2>1, <2>4, <2>5, OneCopyAnswers
<1>3. ASSUME Expire(c), UNCHANGED worker PROVE NoAnswerLost'
  <2> DEFINE x == Queued(copy[c].msg, copy[c].attempt, 0)
  <2>1. copy' = [copy EXCEPT ![c] = x] /\ x.at = "ready" /\ x.msg = copy[c].msg
    BY <1>3, FreshCopies DEF Expire
  <2> HIDE DEF x
  <2>2. Keeps /\ published' = published
    BY <1>3 DEF Expire, worker, Keeps
  <2>3. \A m \in Msgs : Owes(c, m) => Owes(c, m)'
    BY <2>1, Becomes DEF Owes
  <2> QED BY <2>1, <2>2, <2>3, OneCopyAnswers
<1> QED BY <1>1, <1>2, <1>3 DEF Arrival

(* A handler answers when it succeeds, and owes the answer until then. *)
LEMMA HandleAnswers == ASSUME Inv, NoAnswerLost, NEW c \in Copies, Handle(c) PROVE NoAnswerLost'
<1>1. ASSUME NEW error, HandlerFails(c, error), results' = results PROVE NoAnswerLost'
  <2>1. PICK x : /\ copy' = [copy EXCEPT ![c] = x] /\ IsCopy(x)
                 /\ x.at = copy[c].at /\ x.msg = copy[c].msg /\ x.step = "failed"
    BY <1>1, FailTo DEF HandlerFails
  <2>2. Keeps /\ published' = published
    BY <1>1 DEF HandlerFails, Keeps
  <2> QED BY <2>1, <2>2, StillOwing
<1>2. ASSUME UNCHANGED delivery, results' = results PROVE NoAnswerLost'
  BY <1>2, SameCopies DEF delivery, Keeps
<1>3. CASE Report(c)
  <2>1. PICK x : copy' = [copy EXCEPT ![c] = x]
    BY <1>3, StepTo DEF Report, HandlerSucceeds
  <2>2. Keeps /\ published' = published
    BY <1>3 DEF Report, HandlerSucceeds, Tell, Keeps
  <2>3. \A m \in Msgs : Owes(c, m) => Answered(m)'
    BY <1>3 DEF Report, Tell, Msg, Owes, Answered
  <2> QED BY <2>1, <2>2, <2>3, OneCopyAnswers
<1>4. CASE TryClaim(c) \/ Execute(c) \/ Store(c)
  BY <1>2, <1>4 DEF TryClaim, Execute, Store
<1>5. CASE ClaimFails(c) \/ Look(c) \/ Release(c)
  BY <1>1, <1>2, <1>5 DEF ClaimFails, Look, Release, worker, delivery
<1> QED BY <1>3, <1>4, <1>5 DEF Handle

(* A retry passes what is owed on to its copy; giving up announces it.     *)
LEMMA FollowUpAnswers == ASSUME Inv, NoAnswerLost, NEW c \in Copies, FollowUp(c) PROVE NoAnswerLost'
<1>1. ASSUME NEW d \in Copies, SendRetry(c, d), UNCHANGED worker PROVE NoAnswerLost'
  <2> DEFINE x == PutStep(copy[c], "retried")
             y == Retry(copy[c].msg, copy[c].attempt + 1)
  <2>1. copy[d].at = "unused" /\ c # d
    BY <1>1 DEF SendRetry, At, Running
  <2>2. copy' = [copy EXCEPT ![c] = x, ![d] = y]
    BY <1>1 DEF SendRetry, PutStep
  <2>3. y.at = "delayed" /\ y.msg = copy[c].msg
    BY FreshCopies
  <2> HIDE DEF x, y
  <2>4. copy'[d] = y /\ \A f \in Copies \ {c, d} : copy'[f] = copy[f]
    BY <2>1, <2>2, TwoBecome
  <2>5. \A f \in Copies, m \in Msgs : Owes(f, m) => Owes(f, m)' \/ Owes(d, m)'
    BY <2>1, <2>3, <2>4 DEF Owes
  <2>6. Keeps /\ published' = published
    BY <1>1 DEF SendRetry, worker, Keeps
  <2> QED BY <2>5, <2>6, AnswersKept
<1>2. ASSUME OnRetry(c), Tell(c, "retry") PROVE NoAnswerLost'
  <2>1. PICK x : copy' = [copy EXCEPT ![c] = x]
    BY <1>2, StepTo DEF OnRetry
  <2>2. Keeps /\ published' = published /\ \A m \in Msgs : ~Owes(c, m)
    BY <1>2 DEF OnRetry, Tell, Keeps, Owes, At, Running
  <2> QED BY <2>1, <2>2, OneCopyAnswers
<1>3. ASSUME ToDeadLetter(c), UNCHANGED worker PROVE NoAnswerLost'
  <2>1. PICK x : /\ copy' = [copy EXCEPT ![c] = x] /\ IsCopy(x)
                 /\ x.at = copy[c].at /\ x.msg = copy[c].msg /\ x.step = "buried"
    BY <1>3, StepTo DEF ToDeadLetter
  <2>2. Keeps /\ published' = published
    BY <1>3 DEF ToDeadLetter, worker, Keeps
  <2> QED BY <2>1, <2>2, StillOwing
<1>4. ASSUME OnGiveUp(c), Tell(c, "failed") PROVE NoAnswerLost'
  <2>1. PICK x : copy' = [copy EXCEPT ![c] = x]
    BY <1>4, StepTo DEF OnGiveUp
  <2>2. Keeps /\ published' = published
    BY <1>4 DEF OnGiveUp, Tell, Keeps
  <2>3. \A m \in Msgs : Owes(c, m) => Answered(m)'
    BY <1>4 DEF Tell, Msg, Owes, Answered
  <2> QED BY <2>1, <2>2, <2>3, OneCopyAnswers
<1>5. ASSUME Ack(c), results' = results PROVE NoAnswerLost'
  <2>1. Keeps /\ published' = published /\ \A m \in Msgs : ~Owes(c, m)
    BY <1>5 DEF Ack, Keeps, Owes, At, Running
  <2> QED BY <1>5, <2>1, OneCopyAnswers DEF Ack
<1> QED BY <1>1, <1>2, <1>3, <1>4, <1>5 DEF FollowUp

(* What the broker takes back is owed again, or beyond the delivery limit. *)
LEMMA TakenBackAnswers ==
  ASSUME Inv, NoAnswerLost, NEW c \in Copies, TakenBack(c, c, FALSE),
         UNCHANGED <<published, results>>
  PROVE  NoAnswerLost'
<1>1. Keeps
  BY DEF TakenBack, Keeps
<1>2. CASE copy[c].returns = DeliveryLimit
  <2>1. copy' = [copy EXCEPT ![c] = Unused]
    BY <1>2 DEF TakenBack
  <2>2. \A m \in Msgs : Owes(c, m) => Answered(m)'
    BY <1>2 DEF TakenBack, Owes, Answered
  <2> QED BY <1>1, <2>1, <2>2, OneCopyAnswers
<1>3. CASE copy[c].returns # DeliveryLimit
  <2> DEFINE x == Queued(copy[c].msg, copy[c].attempt, copy[c].returns + 1)
  <2>1. copy' = [copy EXCEPT ![c] = x]
    BY <1>3, CopyTyped DEF TakenBack
  <2>2. x.at = "ready" /\ x.msg = copy[c].msg
    BY FreshCopies
  <2> HIDE DEF x
  <2>3. \A m \in Msgs : Owes(c, m) => Owes(c, m)'
    BY <2>1, <2>2, Becomes DEF Owes
  <2> QED BY <1>1, <2>1, <2>3, OneCopyAnswers
<1> QED BY <1>2, <1>3

LEMMA LoseConnectionAnswers ==
  ASSUME Inv, NoAnswerLost, NEW c \in Copies, NEW d \in Copies, LoseConnection(c, d), UNCHANGED worker
  PROVE  NoAnswerLost'
<1> DEFINE x == PutAt(copy[c], "orphan")
           y == Queued(copy[c].msg, copy[c].attempt, copy[c].returns + 1)
<1>1. copy[c].at = "held" /\ copy[d].at = "unused" /\ c # d
  BY DEF LoseConnection
<1>2. Keeps /\ published' = published
  BY DEF LoseConnection, TakenBack, worker, Keeps
<1>3. CASE copy[c].returns = DeliveryLimit
  <2>1. copy' = [copy EXCEPT ![c] = x]
    BY <1>3 DEF LoseConnection, TakenBack, PutAt
  <2> HIDE DEF x
  <2>2. \A m \in Msgs : Owes(c, m) => Answered(m)'
    BY <1>3 DEF LoseConnection, TakenBack, Owes, Answered
  <2> QED BY <1>2, <2>1, <2>2, OneCopyAnswers
<1>4. CASE copy[c].returns # DeliveryLimit
  <2>1. copy' = [copy EXCEPT ![c] = x, ![d] = y]
    BY <1>4 DEF LoseConnection, TakenBack, PutAt
  <2>2. y.at = "ready" /\ y.msg = copy[c].msg
    BY FreshCopies
  <2> HIDE DEF x, y
  <2>3. copy'[d] = y /\ \A f \in Copies \ {c, d} : copy'[f] = copy[f]
    BY <1>1, <2>1, TwoBecome
  <2>4. \A f \in Copies, m \in Msgs : Owes(f, m) => Owes(f, m)' \/ Owes(d, m)'
    BY <1>1, <2>2, <2>3 DEF Owes
  <2> QED BY <1>2, <2>4, AnswersKept
<1> QED BY <1>3, <1>4

LEMMA FaultAnswers ==
  ASSUME Inv, NoAnswerLost, NEW c \in Copies,
         StoreOrReportFails(c) \/ ClaimOrReleaseFails(c) \/ Interrupted(c)
  PROVE  NoAnswerLost'
<1>1. CASE StoreOrReportFails(c)
  BY <1>1, SameCopies DEF StoreOrReportFails, Tell, Keeps
<1>2. CASE ClaimOrReleaseFails(c)
  <2>1. PICK x : /\ copy' = [copy EXCEPT ![c] = x] /\ IsCopy(x)
                 /\ x.at = copy[c].at /\ x.msg = copy[c].msg /\ x.step = "failed"
    BY <1>2, FailTo DEF ClaimOrReleaseFails
  <2>2. Keeps /\ published' = published
    BY <1>2 DEF ClaimOrReleaseFails, Tell, Keeps
  <2> QED BY <2>1, <2>2, StillOwing
<1>3. ASSUME copy[c].at # "held", Running(c), copy' = [copy EXCEPT ![c] = Unused],
             UNCHANGED <<published, results, dead>>
      PROVE  NoAnswerLost'
  <2>1. Keeps /\ \A m \in Msgs : ~Owes(c, m)
    BY <1>3 DEF Keeps, Owes, Running
  <2> QED BY <1>3, <2>1, OneCopyAnswers
<1>4. CASE SettleFails(c) /\ Leave(c) /\ UNCHANGED <<claims, results>>
  BY <1>3, <1>4, TakenBackAnswers DEF SettleFails, At
<1>5. CASE Crash(c) /\ Leave(c) /\ UNCHANGED <<claims, results>>
  BY <1>3, <1>5, TakenBackAnswers DEF Crash
<1>6. CASE Interrupted(c)
  BY <1>4, <1>5, <1>6, LoseConnectionAnswers DEF Interrupted
<1> QED BY <1>1, <1>2, <1>6

LEMMA ClockTickAnswers == ASSUME Inv, NoAnswerLost, ClockTick PROVE NoAnswerLost'
<1>1. copy' = [f \in Copies |-> IF Waits(f) THEN PutLeft(copy[f], copy[f].left - 1) ELSE copy[f]]
  BY DEF ClockTick, Later, PutLeft
<1>2. \A f \in Copies : copy'[f] = PutLeft(copy[f], copy[f].left - 1) \/ copy'[f] = copy[f]
  BY <1>1
<1>3. \A f \in Copies : copy'[f].at = copy[f].at /\ copy'[f].msg = copy[f].msg /\ copy'[f].step = copy[f].step
  BY <1>2, CopyTyped, Puts
<1> QED BY <1>3, SameCopies DEF ClockTick, Keeps

(* "requeues so nothing is lost": of every command the engine has got its  *)
(* answer, the delivery limit took it, or a copy of it still owes the      *)
(* answer - whatever fails, crashes or is delivered again.  What fairness  *)
(* adds to that is EveryCommandIsAnswered.                                 *)
THEOREM AnswersAreOwed == Spec => []NoAnswerLost
<1>1. Init => NoAnswerLost
  BY DEF Init, DeliveryInit, NoAnswerLost
<1>2. Inv /\ NoAnswerLost /\ [Next]_vars => NoAnswerLost'
  <2> SUFFICES ASSUME Inv, NoAnswerLost, [Next]_vars PROVE NoAnswerLost'
    OBVIOUS
  <2>1. CASE UNCHANGED vars
    BY <2>1, SameCopies DEF vars, worker, delivery, Keeps
  <2> QED BY <2>1, ArrivalAnswers, HandleAnswers, FollowUpAnswers, FaultAnswers, ClockTickAnswers DEF Next
<1> QED BY <1>1, <1>2, InitInv, NextInv, PTL DEF Spec
=============================================================================
