----------------------------- MODULE MCServices -----------------------------
(* Parts of the services, side by side: the relay of the routine service,  *)
(* the integration worker (W), the task and the notification service, and  *)
(* what the service kit does for all of them.  They share no state, so one *)
(* of them is at work in each behaviour while the others are at rest - in  *)
(* states in which nothing of them is due, so that their fairness asks for *)
(* nothing.                                                                *)
EXTENDS Outbox, TaskStore, NotificationStore, Startup, TLC

CONSTANTS p1, p2, a1, m1, e1, k1, k2, s1, s2, o1, o2, x1, x2, c1, c2, c3, CommandCopies

ActionOfCopies == x1 :> a1 @@ x2 :> a1
EventOfCopies == k1 :> e1 @@ k2 :> e1
MigrationCounts == s1 :> 1 @@ s2 :> 2
OneDelay == <<1>>

VARIABLES part, copy, publishedCommands, handled, dead, announced, workerFaults, claims, work, results
workerVars == <<copy, publishedCommands, handled, dead, announced, workerFaults, claims, work, results>>

W == INSTANCE Worker WITH
       Copies <- CommandCopies, Msgs <- {m1}, Delays <- OneDelay, DeliveryLimit <- 1, MaxPublished <- 1,
       MaxFaults <- 1, Lease <- 2, MaxRun <- 1, Chaos <- FALSE,
       published <- publishedCommands, faults <- workerFaults

(* The worker's result is what the engine waits for. *)
EveryCommandIsAnswered == W!EveryCommandIsAnswered

TaskStoreAtRest ==
  /\ lists = [l \in ListIds |-> IF l = 1 THEN [at |-> "kept", owner |-> o1, default |-> FALSE] ELSE FreeList]
  /\ tasks = [t \in TaskIds |-> IF t = 1 THEN [at |-> "kept", owner |-> o1, list |-> 1, action |-> a1] ELSE FreeTask]
  /\ command = [a \in Actions |-> [owner |-> o1, list |-> 1]]
  /\ handler = [h \in Copies \cup Users |-> [Start(1) EXCEPT !.step = "done"]]
  /\ named = {<<a1, 1>>} /\ storeFaults = 0
NotificationAtRest ==
  /\ format = "v2" /\ reader = [r \in Readers |-> "tolerant"]
  /\ wire = [e \in Events |-> NoFormat] /\ note = [e \in Events |-> "none"]
  /\ copyStep = [c \in EventCopies |-> [step |-> "queued", try |-> 1]] /\ arrived = {} /\ deletions = 0
StartupAtRest ==
  /\ process = [s \in Services |-> [Gone EXCEPT !.phase = "serving"]]
  /\ database = TRUE /\ locked = "nobody" /\ schema = <<1, 2>> /\ mishaps = 0
ServicesInit ==
  /\ part \in {"relay", "worker", "tasks", "notifications", "startup"}
  /\ Init
  /\ W!Init
  /\ IF part = "tasks" THEN TaskStoreInit ELSE TaskStoreAtRest
  /\ IF part = "notifications" THEN NotificationInit ELSE NotificationAtRest
  /\ IF part = "startup" THEN StartupInit ELSE StartupAtRest

(* A step of one part. *)
Relay(A) == part = "relay" /\ A /\ UNCHANGED <<part, workerVars, taskStoreVars, notificationVars, startupVars>>
WorkerStep(A) == part = "worker" /\ A /\ UNCHANGED <<part, vars, taskStoreVars, notificationVars, startupVars>>
Tasks(A) == part = "tasks" /\ A /\ UNCHANGED <<part, vars, workerVars, notificationVars, startupVars>>
Notifications(A) == part = "notifications" /\ A /\ UNCHANGED <<part, vars, workerVars, taskStoreVars, startupVars>>
Starting(A) == part = "startup" /\ A /\ UNCHANGED <<part, vars, workerVars, taskStoreVars, notificationVars>>

ServicesNext ==
  Relay(Next) \/ WorkerStep(W!Next) \/ Tasks(TaskStoreNext) \/ Notifications(NotificationNext) \/ Starting(StartupNext)

Everything == <<part, vars, workerVars, taskStoreVars, notificationVars, startupVars>>

ServicesSpec ==
  /\ ServicesInit
  /\ [][ServicesNext]_Everything
  /\ Fairness /\ W!Fairness /\ TaskStoreFairness /\ NotificationFairness
=============================================================================
