------------------------------- MODULE Worker -------------------------------
(***************************************************************************)
(* The integration worker (services/integration-worker/src/main.ts): its   *)
(* replicas consume commands (Delivery) and share one table of claims.  A  *)
(* message of Delivery is the command of one action; each copy of it is    *)
(* handled by some replica, and a handler reads and writes the table in    *)
(* steps other replicas come between.                                      *)
(***************************************************************************)
EXTENDS Delivery

CONSTANTS
  Lease,    \* leaseSeconds, in ticks
  MaxRun,   \* bound on a handler that has claimed: it ends within so many ticks (timeoutMs)
  Chaos     \* chaosFailureRate > 0: a delivery can fail before its handler runs

ASSUME LeaseAssumption == Lease \in Nat \ {0} /\ MaxRun \in Nat /\ Chaos \in BOOLEAN
ASSUME HandlersEndBeforeTheLease == MaxRun < Lease

VARIABLES
  claims,   \* action_executions: the claim on each action
  work,     \* how far the handler of each copy is
  results   \* what was published to the results exchange
worker == <<claims, work, results>>
vars == <<delivery, worker>>

Claim == [status : {"none", "IN_PROGRESS", "COMPLETED"}, lease : 0 .. Lease]

(* phase: "look" after a claim was refused, "run" while the action is      *)
(* executed, then "store" and "report", or "release" in the catch block;   *)
(* "resend" for the stored result of a completed action.                   *)
Work == [phase : {"none", "look", "run", "store", "report", "resend", "release"},
         left : 0 .. MaxRun, error : {"none", "transient", "permanent"}, busy : BOOLEAN]
Idle == [phase |-> "none", left |-> 0, error |-> "none", busy |-> FALSE]

Result == Msgs \X {"completed", "failed", "retry"}

TypeOK ==
  /\ DeliveryTypeOK
  /\ claims \in [Msgs -> Claim]
  /\ work \in [Copies -> Work]
  /\ results \subseteq Result

Init ==
  /\ DeliveryInit
  /\ claims = [m \in Msgs |-> [status |-> "none", lease |-> 0]]
  /\ work = [c \in Copies |-> Idle]
  /\ results = {}

Msg(c) == copy[c].msg
In(c, phase) == At(c, "handler") /\ work[c].phase = phase
Enter(c, phase) == work' = [work EXCEPT ![c].phase = phase]
Leave(c) == work' = [work EXCEPT ![c] = Idle]
Tell(c, kind) == results' = results \cup {<<Msg(c), kind>>}

(* INSERT ... ON CONFLICT DO UPDATE ... WHERE: a new action, or one that   *)
(* is IN_PROGRESS with a lease that is over.                               *)
ClaimableByStatus(m) == claims[m].status # "COMPLETED"   \* mutant: the lease is not compared
ClaimableByLease(m) == claims[m].lease = 0               \* mutant: the status is not compared
Claimable(m) ==
  \/ claims[m].status = "none"
  \/ claims[m].status = "IN_PROGRESS" /\ claims[m].lease = 0

TryClaim(c) ==
  /\ In(c, "none")
  /\ IF Claimable(Msg(c))
       THEN /\ claims' = [claims EXCEPT ![Msg(c)] = [status |-> "IN_PROGRESS", lease |-> Lease]]
            /\ work' = [work EXCEPT ![c] = [Idle EXCEPT !.phase = "run", !.left = MaxRun]]
       ELSE Enter(c, "look") /\ UNCHANGED claims
  /\ UNCHANGED <<delivery, results>>

(* The simulated failure of #dispatch. *)
ClaimFails(c) ==
  /\ In(c, "none")
  /\ Chaos
  /\ HandlerFails(c, "transient")
  /\ UNCHANGED worker

BusyIsDone(c) ==   \* mutant: a busy action is left to the replica that has it
  /\ In(c, "look")
  /\ IF claims[Msg(c)].status = "COMPLETED"
       THEN Enter(c, "resend") /\ UNCHANGED <<delivery, claims, results>>
       ELSE Leave(c) /\ HandlerSucceeds(c) /\ UNCHANGED <<claims, results>>

(* The refused claim looks at the row again: completed, or busy. *)
Look(c) ==
  /\ In(c, "look")
  /\ IF claims[Msg(c)].status = "COMPLETED"
       THEN Enter(c, "resend") /\ UNCHANGED <<delivery, claims, results>>
       ELSE /\ work' = [work EXCEPT ![c] = [Idle EXCEPT !.busy = TRUE]]
            /\ HandlerFails(c, "transient")
            /\ UNCHANGED <<claims, results>>

(* executeAction: success, or a failure that is transient or permanent.    *)
Execute(c) ==
  /\ In(c, "run")
  /\ \/ Enter(c, "store")
     \/ \E error \in {"transient", "permanent"} :
          work' = [work EXCEPT ![c].phase = "release", ![c].error = error]
  /\ UNCHANGED <<delivery, claims, results>>

Store(c) ==
  /\ In(c, "store")
  /\ claims' = [claims EXCEPT ![Msg(c)] = [status |-> "COMPLETED", lease |-> 0]]
  /\ Enter(c, "report")
  /\ UNCHANGED <<delivery, results>>

Report(c) ==
  /\ In(c, "report") \/ In(c, "resend")
  /\ Tell(c, "completed")
  /\ HandlerSucceeds(c)
  /\ Leave(c)
  /\ UNCHANGED claims

(* Storing or publishing the result failed: inside the try block, where    *)
(* the message may have been published all the same ...                    *)
StoreOrReportFails(c) ==
  /\ In(c, "store") \/ In(c, "report")
  /\ Fault
  /\ work' = [work EXCEPT ![c].phase = "release", ![c].error = "transient"]
  /\ (In(c, "report") /\ Tell(c, "completed")) \/ UNCHANGED results
  /\ UNCHANGED <<copy, published, handled, dead, announced, claims>>

(* ... and outside of it: the claim, the stored result, the release. *)
ClaimOrReleaseFails(c) ==
  /\ \E phase \in {"none", "look", "resend", "release"} : In(c, phase)
  /\ Fault
  /\ copy' = [copy EXCEPT ![c].step = "failed", ![c].error = "transient"]
  /\ Leave(c)
  /\ (In(c, "resend") /\ Tell(c, "completed")) \/ UNCHANGED results
  /\ UNCHANGED <<published, handled, dead, announced, claims>>

(* The catch block: the lease ends now, whoever holds it. *)
ReleaseForgotten(c) ==   \* mutant: the lease is kept
  /\ In(c, "release")
  /\ HandlerFails(c, work[c].error)
  /\ Leave(c)
  /\ UNCHANGED <<claims, results>>
Release(c) ==
  /\ In(c, "release")
  /\ claims' = [claims EXCEPT ![Msg(c)].lease = 0]
  /\ HandlerFails(c, work[c].error)
  /\ Leave(c)
  /\ UNCHANGED results

(* What #dispatch does with the copy afterwards; onRetry and onGiveUp tell *)
(* the engine.                                                             *)
FollowUp(c) ==
  \/ \E d \in Copies : SendRetry(c, d) /\ UNCHANGED worker
  \/ OnRetry(c) /\ Tell(c, "retry") /\ UNCHANGED <<claims, work>>
  \/ ToDeadLetter(c) /\ UNCHANGED worker
  \/ OnGiveUp(c) /\ Tell(c, "failed") /\ UNCHANGED <<claims, work>>
  \/ Ack(c) /\ Leave(c) /\ UNCHANGED <<claims, results>>

(* The faults of Delivery, as they hit a handler. *)
Interrupted(c) ==
  \/ SettleFails(c) /\ Leave(c) /\ UNCHANGED <<claims, results>>
  \/ Crash(c) /\ Leave(c) /\ UNCHANGED <<claims, results>>
  \/ \E d \in Copies : LoseConnection(c, d) /\ UNCHANGED worker

Arrival(c) ==
  /\ \/ \E m \in Msgs : Publish(c, m)
     \/ Deliver(c)
     \/ Expire(c)
  /\ UNCHANGED worker

(* A tick of the clock shortens delays, leases and the time a handler has left. *)
Claimed(c) == \E phase \in {"run", "store", "report", "release"} : In(c, phase)

ClockTick ==
  /\ (\E c \in Copies : Waits(c)) \/ (\E m \in Msgs : claims[m].lease > 0)
  /\ \A c \in Copies : Claimed(c) => work[c].left > 0
  /\ copy' = Later
  /\ claims' = [m \in Msgs |-> IF claims[m].lease = 0 THEN claims[m]
                                 ELSE [claims[m] EXCEPT !.lease = @ - 1]]
  /\ work' = [c \in Copies |-> IF Claimed(c) THEN [work[c] EXCEPT !.left = @ - 1] ELSE work[c]]
  /\ UNCHANGED <<published, handled, dead, announced, faults, results>>

Handle(c) ==
  TryClaim(c) \/ ClaimFails(c) \/ Look(c) \/ Execute(c) \/ Store(c) \/ Report(c) \/ Release(c)

Next ==
  \/ \E c \in Copies :
       \/ Arrival(c)
       \/ Handle(c)
       \/ FollowUp(c)
       \/ StoreOrReportFails(c) \/ ClaimOrReleaseFails(c)
       \/ Interrupted(c)
  \/ ClockTick

Spec == Init /\ [][Next]_vars

-----------------------------------------------------------------------------
(* Safety.                                                                 *)

(* "a replica may only execute an action it has claimed": two replicas do  *)
(* not execute an action at the same time, when a handler ends before its  *)
(* lease - not after a redelivery, a duplicate or a lost connection, whose *)
(* handler runs on.                                                        *)
OneAtATime ==
  \A c, d \in Copies : (In(c, "run") /\ In(d, "run") /\ Msg(c) = Msg(d)) => c = d

(* "A completed action is never executed twice": no handler starts to      *)
(* execute an action that is completed, also not after a handler failed    *)
(* behind the UPDATE and released the lease of a completed row.            *)
CompletedNeverRunsAgain ==
  [][\A c \in Copies : In(c, "run")' /\ ~In(c, "run") => claims[Msg(c)].status # "COMPLETED"]_vars

(* A failed attempt hands the action over: once a copy waits for its next  *)
(* attempt and no handler is at work, the lease does not stand in the way  *)
(* - unless a fault took the handler that had it.                          *)
FailureReleases ==
  faults = 0 =>
    \A m \in Msgs : (claims[m].status = "IN_PROGRESS" /\ claims[m].lease > 0) =>
      \E c \in Copies : Claimed(c) /\ Msg(c) = m

-----------------------------------------------------------------------------
(* What a comment of the code says and the code does not do.               *)

(* "an action currently leased by another replica is retried later": a     *)
(* command is not given up because its action was leased.                  *)
LeasedIsRetried == \A c \in Copies : At(c, "buried") => ~work[c].busy

-----------------------------------------------------------------------------
(* Liveness.  Handlers end, follow-ups are confirmed once the faults are   *)
(* over, time passes.                                                      *)
Goes(c) == ((Deliver(c) \/ Expire(c)) /\ UNCHANGED worker) \/ Handle(c) \/ FollowUp(c)
Fairness == (\A c \in Copies : WF_vars(Goes(c))) /\ WF_vars(ClockTick)
FairSpec == Spec /\ Fairness

(* The engine gets an answer to every command, unless the delivery limit   *)
(* of the queue took the command away.                                     *)
Answered(m) == (\E kind \in {"completed", "failed"} : <<m, kind>> \in results) \/ <<m, "limit">> \in dead
EveryCommandIsAnswered == <>[](\A m \in Msgs : published[m] > 0 => Answered(m))
=============================================================================
