# A model of the routine platform

Users of this platform build *routines*: lists of actions that run in numbered
steps, start by hand, on a schedule or through a webhook, and are executed by
services that talk through RabbitMQ. The modules here describe, in TLA+, what
keeps those executions correct while replicas, messages and transactions
interleave, and what keeps the pages of the web client true to what the services
store. TLC checks the models on small instances; TLAPS proves the central
invariants for every size. `PROJECT.json` lists runs, mutants, the map from
definitions to source lines, hazards, findings and theorems.

Paths below are relative to `src/`; `engine.ts` and its neighbours without a
path are those of `services/routine-service/src/`.

## 1. Inventory

| Component | State | Operations | Hard behaviour |
|---|---|---|---|
| Execution engine (`engine.ts`, `domain/progress.ts`, `domain/control.ts`, `store.ts`) | `executions`, `execution_actions`; a lock per execution | createExecution, start, applyResult, #advance with loops, conditions, scripts and calls, markStaleExecutions | results that are late, doubled or out of order; transactions that roll back; a retry, a result and the stale check on one status; routines that call each other |
| Routines (`api.ts`, `store.ts`, `domain/definition.ts`) | `routines` with version, next run, webhook token | create, change, switch, rotate, delete, start by hand or webhook; the validation of a definition | repeated requests (Idempotency-Key); optimistic versions; deletion while something runs |
| Scheduler (`scheduler.ts`, `domain/schedule.ts`) | the transaction of a tick, the clock of a replica | tick: lock due routines, start an execution each, store the next run | several replicas, clocks that differ, missed slots, full batches, a change of the schedule during a tick |
| Outbox (`outbox.ts`) | `outbox`; the batch of each relay | enqueue, relayBatch, purgePublished | crash between publish and commit; rows that appear out of order; relays side by side |
| Consumers (`libs/service-kit/src/broker.ts`, `infra/rabbitmq/definitions.json`) | copies of messages in the queue, the retry queues, the dead-letter queue, a handler | consume, #dispatch, #handleFailure, #toDeadLetter, #settle | redelivery, follow-ups that fail, the delivery limit of the queue |
| Integration worker (`services/integration-worker/src`) | `action_executions`: claim, lease, stored output | claim, execute, store, report, release | a crash with a lease, two replicas on one action, a result that is lost after it was stored |
| Task service (`services/task-service/src/main.ts`) | `tasks`, `lists`; what a handler has read | create a task by command or request, the default list, delete a task or a list | no transaction around the statements: a task or its list is deleted between two of them, beside a second delivery of the command |
| Notification service (`services/notification-service/src`) | `notifications`; the formats a replica reads | notify by event, mark read, delete | second deliveries after a deletion; two formats of an event in one queue during a rolling upgrade |
| Service kit: database and lifecycle (`db.ts`, `lifecycle.ts`) | applied migrations, the advisory lock, work under way | waitForDatabase, migrate, start, stop | replicas of two releases that start together, lose the database, crash or are stopped at work |
| Service kit: authentication (`auth.ts`) | the key set fetched last, the pause after a failed fetch | verify | keys that are rotated while the identity service is down; requests that share one fetch |
| Gateway (`services/gateway/src/main.ts`) | connections to the replicas of a service | forward a read, a write or a webhook | a replica that goes away before or after it handled a request |
| Pages of tasks and notifications (`web/src/hooks.ts`, `pages/Tasks.tsx`, `pages/Inbox.tsx`) | polled data, what is shown before the server agreed | poll, reload, optimistic change, several requests at once | an answer older than the change it overwrites; clicks whose requests overlap; a failed request among several; a hidden tab |
| Session (`web/src/auth.ts`, `api.ts`) | the tokens of the OIDC client and of the store | restore, renew, expire, remove, send requests | a renewal that fails, a reload in between, a request that is rejected late |
| Routine editor (`pages/RoutineEditor.tsx`, `schedule.ts`, `cron.ts`) | the draft, the version it is based on, the schedule form | load, save, switch, rotate; move, link and remove steps; write and read a cron expression | another editor in between, half a save; a draft that is numbered anew on its way out; a page and a service that judge by different rules |
| External API mock, other pages, contracts, infrastructure, deployment | none of their own | – | – |

How they interact: the API and the scheduler insert an execution and, in the
same transaction, a `RoutineTriggered` message in the outbox. The relay
publishes it; the engine consumes it, moves the execution and enqueues
`ActionRequested` commands; a worker, the task service or the notification
service executes one and publishes a result; the engine consumes that and moves
on, until it announces the end of the run, which the notification service puts
into an inbox. A `routine.run` action inserts an execution of another routine,
whose end comes back as a result message. The table `execution_actions` is
therefore the only memory of what is on the way. The pages know all of this only
through polls and the answers to their requests, by way of the gateway.

What makes each part correct:

- **engine**: steps in order, a verdict that fits the rows and never changes,
  every command sent exactly once and only for a dispatched row, one child per
  call, an end for every run that is announced once, no run nobody will wake;
- **routines and scheduler**: a slot and an idempotency key start one execution
  each; the stored next run fits the stored schedule; nothing due is forgotten;
  a webhook URL changes only by rotation;
- **outbox**: nothing marked (or purged) that was not published, nothing
  published twice without a fault, everything published in the end;
- **consumers**: nothing lost, whatever is given up is announced;
- **worker**: an action runs on one replica at a time and never again once it is
  completed; every command is answered;
- **task service**: a task is in a list of its owner; all results of one action
  name one task; an action gets its task;
- **notification service**: what was published in any format reaches the inbox;
- **service kit**: replicas never make each other fail, a replica that serves
  has its schema, work ends before the pool; the keys fetched last decide;
- **gateway**: a write is handled at most once and its answer is true;
- **pages**: what a page shows is what the server has, as soon as nothing is
  under way; what a page shows it settles on;
- **session**: the token in use is the one that is kept; an outage of the
  identity service does not end a session that need not end;
- **editor**: nobody overwrites a definition they have not seen; what is saved
  is what was shown; an accepted reference resolves; the phrase of a schedule
  says when it fires.

## 2. Modules

| Module | Models | Form |
|---|---|---|
| `Execution` | one execution as a value; `decideNext`, the rounds of `#advance`, results | pure functions |
| `Engine` | the tables of the engine, its transactions, the outbox, deletion | state machine, composes `Execution` |
| `ExecutionLifecycle` | the diagram at the head of `progress.ts`: statuses and announcements only | abstract specification, `Engine` implements it |
| `MessageBus` | a message waits, then it was sent | abstract specification, `Outbox` implements it |
| `Outbox` | `relayBatch` of several replicas, purge, crashes | state machine |
| `Routine` | one row of `routines` as a value, and what each write does to it | pure functions |
| `Scheduling` | the API, the webhooks, and the ticks of several schedulers | state machine, composes `Routine` |
| `Delivery` | how `broker.ts` consumes a queue | actions, composed by `Worker` |
| `Worker` | handlers of commands with the claim table | state machine, composes `Delivery` |
| `TaskStore` | handlers and requests of the task service, statement by statement | state machine |
| `NotificationStore` | events in two formats, replicas that are upgraded | state machine |
| `Startup` | replicas from launch to the end of their shutdown | state machine |
| `KeyCache` | the verification of tokens over a cached key set | state machine |
| `Gateway` | a request on its way to a replica and back to the page | state machine |
| `Polling` | `usePolling`: one resource of a page | steps, composed by the pages |
| `TaskPage`, `Inbox` | the two pages and the requests they make | state machines, compose `Polling` |
| `Editing` | pages of the editor over one routine | state machine, composes `Routine` |
| `Drafts` | the steps of a draft, their checks by page and service | state machine over pure functions |
| `ScheduleForm` | the form, the cron expression, its phrase and its next time | state machine over pure functions |
| `Session` | tokens, renewals, reloads, rejected requests | state machine |
| `EngineInvariant` | the two inductive invariants of the engine | invariants |
| `EngineProofs`, `SchedulingProofs`, `OutboxProofs`, `WorkerProofs`, `ServicesProofs` (task and notification service, startup), `AccessProofs` (gateway, keys, session), `PagesProofs` (pages, versions of the editor), `EditorProofs` (drafts, schedule form) | section 5 | proofs |
| `MCEngineLoop`, `MCEngineCalls`, `MCScheduling`, `MCWorker`, `MCEditing`, `MCSchedule` | definitions, symmetry and sample data for TLC | instances |
| `MCPages`, `MCServices` | parts of the client, parts of the services, side by side | instances of several modules each |

`MCPages` and `MCServices` put parts that share no state into one state space:
in each behaviour one part is at work and the others are at rest, in states in
which nothing of them is due. The set of behaviours is the union of those of the
parts, and so is what is checked.

### Engine

`exec[e]` is an execution with its rows as committed. A row is `<<key, 0>>` for
an action and `<<key, i>>` for the i-th item of a loop. `tx[e]` is the
transaction that holds the row lock of `e`: a working copy, the messages
enqueued, and the executions inserted. `Commit` makes all of it visible in one
step and `Abort` drops it, as `withTransaction` does; a transaction on another
execution comes between any two rounds.

| Action | Code |
|---|---|
| `Trigger` | `createExecution`, reached from the API, a webhook or the scheduler |
| `Start` | `start` on `RoutineTriggered` |
| `ApplyResult` | `applyResult` on a completed, failed or retry message |
| `AdvanceDispatch`, `AdvanceComplete`, `AdvanceFail`, `AdvanceWait` | the rounds of the loop in `#advance`, by what `decideNext` says; `#reportToCaller` is part of the last rounds |
| `Commit`, `Abort` | the end of `withTransaction` |
| `MarkStaleScan`, `MarkStaleWrite` | `markStaleExecutionsWaiting`: an UPDATE under READ COMMITTED selects from its snapshot, waits for the row lock, and evaluates its WHERE again on the row |
| `Relay` | the outbox, as `MessageBus` promises it |
| `DeleteRoutine` | `DELETE /routines/:id`, which cascades to the executions |

A message that was sent stays in `sent`, so it can be delivered any number of
times, in any order and arbitrarily late; `ApplyResult` takes any result of any
command that was sent. Values and templates are abstracted: a condition is
true, false or fails; a list has any length up to `MaxItems` or fails to
resolve; a call may not resolve. What was kept is everything that decides which
rows are dispatched, skipped, completed or failed.

### Outbox

A row of the table is pending, then marked, then purged. `Take` selects the
oldest rows no other relay has locked (`FOR UPDATE SKIP LOCKED`), `Publish`,
`PublishFails` and `Mark` are the loop and the end of `relayBatch`, `Crash` is a
rollback with what was already published. Identifiers come from a sequence, so
rows appear in any order. Duplicates on purpose (the demonstration setting of
the relay) and failed publishes and crashes together cost `MaxFaults`.

### Routines, schedules and requests

`routine[r]` is the row; the writes of `Routine` are the SQL of `store.ts`. A
tick is a transaction that locks a batch of due rows (`StartTick`), inserts
executions and computes next runs from the row *as it was read* with the clock
*of its process* (`Fire`), and stores both (`CommitTick`); `AbortTick` rolls it
back. Users change, switch, rotate, delete and trigger between any two of these
steps but wait for a lock. A cron expression is reduced to its period, since
`nextRun` is only asked for the next slot after a moment. `replies` remembers
which answer belonged to which request.

### Delivery and worker

`Delivery` follows copies of a message: `ready` in the queue, `delayed` in a
retry queue, `held` by a handler, or `orphan` when the connection is gone and
its handler still runs. `SendRetry`, `OnRetry`, `ToDeadLetter`, `OnGiveUp` and
`Ack` are the steps of `#handleFailure` and `#settle`; a fault between them
requeues the copy (`TakenBack`), until the delivery limit of the queue moves it
to the dead-letter queue behind the handler's back. `Worker` refines the handler
step: `TryClaim`, `Look`, `Execute`, `Store`, `Report`, `Release` are the
statements of `main.ts`, each its own step, because each is its own statement of
the database or the broker. Queue, claim table and results are shared by all
copies; which replica handles which copy makes no difference.

### Task service

`handler[h]` is the handler of a copy of a command, or a request of a user, at
the statement that comes next: `Look` (is the list there and the owner's?),
`Ensure` and `Default` (the default list: an insert that may meet an existing
one, and the read after it), `InsertForAction` (ON CONFLICT DO NOTHING), `Read`
(the task another delivery inserted), `Report` (the result), `PostTask` and
`InsertForUser` for a request, `DeleteList` and `Cascade`. No transaction holds
them together, so everything of others comes between any two of them. `Fail` and
`Interrupted` end a handler, whose copy is handled again up to `MaxAttempts`
times. `named` remembers which task a result named.

### Notification service

`format` is what the routine service publishes (`EXECUTION_COMPLETED_FORMAT`:
v1, both, v2), `reader[r]` what a replica of the consumer reads. `Expand`,
`Upgrade` and `Contract` are the deployment in its documented order.
`PublishEvent` writes a message in the format of the moment; `Receive` validates
it with the schema of the replica that got it, `Insert` meets or does not meet
an existing notification, and `ReadExisting` is the read after a conflict,
between which `MarkRead` and `DeleteNote` may come.

### Startup and shutdown

`process[s]` is a replica: `Launch`, `Wait` (the attempts of
`waitForDatabase`), `Lock` (the advisory lock), `ReadApplied`, `Skip`,
`BeginMigration` and `CommitMigration` per file, `Serve`; then `TakeWork` and
`Finish`, and after `Signal` one `StopStep` for each task of the shutdown in
`StopOrder`. `CrashService`, `Outage` and `Recovery` come at any point; a
replica that exits is launched again.

### Tokens, gateway

`KeyCache`: `known` is the key set jose fetched last, `unreachableUntil` the
moment before which nobody asks again. `Verify` decides from the cache or waits for the one
fetch under way, whose end, `Fetched` or `FetchFailed`, decides for all who
wait. `NewKey` and `WithdrawKey` are the rotation. `Gateway`: a request is
checked (`AtGateway`), given to a replica (`Connect`), which handles it
(`AtService`) and answers (`Respond`); a replica that goes away before or after
that breaks the connection, and a read is tried again (`MayRetry`).

### Pages

`Polling` has the steps of one resource of `usePolling`: `Ask`, `Serve` (the
server's answer is fixed), `Arrived`, `ArriveFailed`, and `Restart` for
`reload`; a change before the server agreed (`Mutated`) raises the generation,
so that an answer asked for earlier is not shown. `TaskPage` composes it with
the requests of the page (`Toggle`, `SaveList`, `RemoveList`, `AddTask`), what
the service does with each (`Handle`, `Lose`) and what the page does with the
answer. `Inbox` composes it with clicks (`Click` is `remove` and `markRead`),
each with a request per notification (`Serviced`, `RequestLost`). No button waits
for the requests of an earlier click, so clicks overlap; `Promise.all` ends a
click when all its requests succeeded (`AllOk`) or at the first failure
(`FirstFailure`), and requests that are still under way then outlive it.

`Session` has the store's token (`session`), the client's (`kept`), and the
timer of the renewal: `Restore`, `Renew`, `Renewed`, `RenewalFailed`,
`RetryRenewal`, `TokenExpired`, `RemoveUser` are the handlers of `auth.ts`,
`SendCall` and `CallAnswered` those of `api.ts`; `ReloadPage` forgets everything
but the storage.

### Editor

`Editing`: `Load`, `SaveAccepted`, `SaveRefused`, `Switch`, `Rotate`,
`RotateAnswered` and `Leave` are the requests of one page and what the page
keeps of their answers; `Elsewhere` is everything others do to the routine
through the API.

`Drafts`: `ToLanes` and `FromLanes` number the steps (a lane is its number, and
to leave one means to get a number between two others), `MoveAction`,
`SetParallel`, `AddAction`, `RemoveAction`, `RunOnlyIf` are the edits,
`ToInput` and `FromRoutine` the way out and back, `ClientIssues` what the page
refuses, `Issues` and `Sorted` what the service refuses and stores.

`ScheduleForm`: `ToCron` and `ParseSchedule` are the form's two directions,
`Phrase` the preview, `NextFire` and `SeldomEnough` the search for the next time
and the check of the interval, over a short calendar. The phrase is kept as what
it says (an interval, or times and days), and `PreviewSaysWhatRuns` compares
that with the moments at which the expression fires.

## 3. Runs

| Run | Shows | Bounds |
|---|---|---|
| `engine_loop` | `StepBarrier`, `VerdictFitsRows`, `RunIfObeyed`, `OneChildPerCall`, `NoLostWakeup`, `NoCommandAfterFailure` | one run of one of three routines: condition, conditional action, loop and last step; a call for each item; a single action. Lists of 0 to 2 items, three identifiers |
| `engine_calls` | `NothingEmittedTwice`, `EndAnnounced`, the refinement of `ExecutionLifecycle` (`Lifecycle`), and that every run ends (`EveryRunEnds`) | a call of a routine that calls itself if its condition says so; depth 1, so that the second call meets the limit; one rollback |
| `schedules` | `SlotFiredOnce`, `NextFits`, `CatchesUpOnce`, `UrlChangesByRotation` | two replicas with clocks one tick apart, two schedules, one routine |
| `requests` | `KeyNamesOneExecution`, and that what is due is handled (`DueIsHandled`) | two routines, a shared key, batches of one, one rollback |
| `services` | outbox: `PublishedTwiceOnlyByFault`, `ImplementsBus`, `EnqueuedIsPublished`; worker: `EveryCommandIsAnswered`; tasks: `TaskIsWithItsOwner`, `ResultNamesItsTask`, `ActionGetsItsTask`; notifications: `EventReachesInbox`; start: `StartsDoNotDisturbEachOther` | three rows, two relays, batches of two, two faults; three copies of one command, one fault; two copies of one command, three lists and tasks, three attempts, one fault; two copies of one event, two replicas, three attempts, two deletions; two replicas of two releases, three mishaps |
| `worker` | `OneAtATime`, `CompletedNeverRunsAgain`, `FailureReleases`, `NothingLost` | one command published twice, three copies at a time, two faults, one retry, delivery limit 1, simulated failures |
| `pages` | `PageTruthful`, `PageSettles`, `InboxTruthful`; `TokensFitSession`, `OutlivesOutages`; `WriteHandledOnce`, `LastKeysDecide`; `SavesOverWhatItLoaded`; `SavedAsShown`, `PageAndServiceAgree`; `PreviewSaysWhatRuns` | two lists with a task, two requests at a time; two notifications, two clicks that overlap, one incident; tokens of four ticks, three of them; one request, two replicas, three breaks; two tokens to check, two keys; two pages of the editor, four versions; three steps, four edits; weeks of three days of four hours of six minutes of six ticks |
| `engine_parallel`, `engine_callee`, `editing_lost_update`, `worker_lease`, `schedule_interval` | a statement the code does not keep (section 6) | the smallest instance that shows it; `worker_lease` has the production values |

Why the bounds are enough to be interesting. A loop of two items has a first and
a last one, and with the other rows of its step four rows in flight. Depth 1
holds a caller, a callee and a refused call. Results can be repeated without
any bound. One rollback anywhere is enough for a message of a
transaction that never happened. Two relays, replicas or pages suffice for a
race between two; batches are smaller than what waits, so that they fill. The
delivery limit and the number of retries are both small enough to be used up.
In `worker` three copies allow an original, its retry and a duplicate at once.
Two requests of a page at a time, with a poll under way, have all orders of
their answers; two clicks in the inbox, each with up to two requests, overlap in
every way, and one lost request makes a click end early. Three lists are a named one, the default list, and the default
list that is created after that was deleted. Three tokens are one, the one it is
renewed to, and another after a reload or a new sign-in. Three steps are a
condition, a step that depends on it, and one that depends on that. The short
calendar has the units of the real one, each with at least one multiple that
divides the next unit and one that does not, which is what the form and the
phrase depend on; the days are a working week of two and a day off.

`MaxAborts`, `MaxRoots`, `MaxItems`, `MaxDepth`, `MaxTime`, `MaxRuns`,
`MaxVersion`, `MaxFaults`, `MaxPublished`, `MaxRun`, `MaxLists`, `MaxTasks`,
`MaxPosts`, `MaxAttempts`, `MaxStoreFaults`, `MaxTries`, `MaxDeletions`,
`MaxMishaps`, `MaxTicks`, `MaxBreaks`, `MaxRequests`, `MaxTrouble`,
`MaxClicks`, `MaxIncidents`, `MaxTokens` and `MaxEdits` are the bounds that
counters have in guards. `MaxItems`, `MaxDepth`, `MaxAttempts`, `MaxTries`,
`MaxActions`, `MaxStep`, `Retries`, `WaitAttempts`, the batch sizes, the delays,
the lease, the ages of the key cache and the delivery limit stand for settings
the code has. Every bounded system stops when its bounds are used up, and a
finished run has nothing left to do: deadlock is not checked, what must happen
is a liveness property instead. `engine_loop`, `schedules` and `worker` use
symmetry over identifiers and copies, which no action compares; runs with a
liveness property use none.

Every property has a mutant of the code, written beside the definition it
changes and marked `mutant`, that makes TLC report that property: among them a
`runIf` that ignores the result of its condition, a stale check that does not
look again, a claim that does not compare the lease, a list whose owner is not
compared, a reader that knows one format, an advisory lock nobody takes, a
connection error after which writes are tried again, a poll that is never asked
again after a failure, a renewal that gives up.

## 4. Fairness

- **Engine.** A replica that holds a lock goes on with its transaction
  (`WF(Advance or Commit)`; nothing in the loop waits for others). The relay
  polls for ever (`WF` of a relay of some message), which `services` shows of the
  real one. A trigger that was published is delivered (`WF(Start)`). Some final
  result is applied again and again while it is possible (`SF(Final)`): a worker
  retries a bounded number of times and then reports a failure, and a delivery
  that finds the execution locked waits for the lock. Strong fairness, because
  each other transaction on the execution interrupts the possibility.
- **Worker.** Each copy's handler goes on and its follow-ups are done once the
  faults are over; the clock goes on. No fairness for faults or for duplicates.
- **Scheduling.** The loop of every replica calls `tick` again and again and a
  tick comes to its end: `WF` per replica of `StartTick`, `Fire`, `CommitTick`.
- **Outbox.** Each relay takes, publishes and marks; `WF` per relay. Faults and
  enqueueing are not fair.
- **TaskStore, NotificationStore.** The broker delivers a copy again until it
  was handled or its attempts are used up, and a handler goes on: `WF` per copy.
- **TaskPage.** The timer of a followed resource fires, its request is answered
  or fails, a reload runs (`WF` per resource); a request of the page is answered
  or fails (`WF` per request). Nothing makes the user act or the tab visible.

Nothing assumes that users do anything, that time passes outside of `Worker`, or
that a replay of the dead-letter queue takes place, with one exception: a
trigger is delivered in the end. A trigger that fails three times waits in the
dead-letter queue for `scripts/replay-dlq.sh`; nobody ends that execution.

## 5. Proofs

Proved with TLAPS, for any number of executions, routines, actions, items,
rows, replicas, copies, lists, pages and requests, any depth, and any number of
rollbacks, faults, crashes and outages, from the assumptions the modules name:

| Theorem | Statement |
|---|---|
| `EngineProofs!TypeCorrect` | `Spec => []TypeInv`: types, and calls stay within the depth |
| `EngineProofs!Invariant` | `Spec => []IInv` |
| `EngineProofs!StepsInOrder` | `Spec => []StepBarrier` |
| `EngineProofs!VerdictCorrect` | `Spec => []VerdictFitsRows` |
| `EngineProofs!Bookkeeping` | `Spec => [](TypeInv /\ IInv /\ WInv)` |
| `EngineProofs!EmittedOnce` | `Spec => []NothingEmittedTwice` |
| `EngineProofs!EndsAnnounced` | `Spec => []EndAnnounced` |
| `EngineProofs!CallsOnce` | `Spec => []OneChildPerCall` |
| `EngineProofs!NeverStranded` | `Spec => []NoLostWakeup` |
| `EngineProofs!ConditionsObeyed` | `Spec => []RunIfObeyed` |
| `EngineProofs!FailureStopsCommands` | `Spec => NoCommandAfterFailure` |
| `EngineProofs!ImplementsLifecycle` | `Spec => Lifecycle` |
| `SchedulingProofs!Invariant` | `Spec => []Inv` |
| `SchedulingProofs!SlotsFiredOnce` | `Spec => []SlotFiredOnce` |
| `SchedulingProofs!NextRunsFit` | `Spec => []NextFits` |
| `SchedulingProofs!KeysNameOneExecution` | `Spec => []KeyNamesOneExecution` |
| `SchedulingProofs!MissedRunsCaughtUpOnce` | `Spec => CatchesUpOnce` |
| `SchedulingProofs!UrlsChangeByRotation` | `Spec => UrlChangesByRotation` |
| `OutboxProofs!MarkedCorrect` | `Spec => []MarkedWasPublished` |
| `OutboxProofs!CopiesCorrect` | `Spec => []PublishedTwiceOnlyByFault` |
| `OutboxProofs!RelayCorrect` | `Spec => ImplementsBus` |
| `WorkerProofs!ExecutesAlone` | `Spec => []OneAtATime` |
| `WorkerProofs!CompletedStaysCompleted` | `Spec => CompletedNeverRunsAgain` |
| `WorkerProofs!CommandsAreKept` | `Spec => []NothingLost` |
| `WorkerProofs!LeaseEndsWithTheAttempt` | `Spec => []FailureReleases` |
| `WorkerProofs!AnswersAreOwed` | `Spec => []NoAnswerLost` |
| `ServicesProofs!TasksWithOwners` | `TaskStoreSpec => []TaskIsWithItsOwner` |
| `ServicesProofs!ResultsAgree` | `TaskStoreSpec => []ResultNamesItsTask` |
| `ServicesProofs!NothingGivenUpLightly` | `TaskStoreSpec => []GivenUpForCause` |
| `ServicesProofs!EventsSettledInTheInbox` | `NotificationSpec => []SettledHasArrived` |
| `ServicesProofs!MigrationsCorrect` | `StartupSpec => []MigratedBeforeServing` |
| `ServicesProofs!ShutdownCorrect` | `StartupSpec => []WorkEndsBeforeThePool` |
| `ServicesProofs!StartsCorrect` | `StartupSpec => StartsDoNotDisturbEachOther` |
| `AccessProofs!KeysCorrect` | `KeysSpec => LastKeysDecide` |
| `AccessProofs!WritesCorrect` | `GatewaySpec => []WriteHandledOnce` |
| `AccessProofs!ReadsCorrect` | `GatewaySpec => []ReadOutlivesBreaks` |
| `AccessProofs!SessionCorrect` | `SessionSpec => []TokensFitSession` |
| `AccessProofs!OutagesOutlived` | `SessionSpec => OutlivesOutages` |
| `PagesProofs!PageCorrect` | `TaskPageSpec => []PageTruthful` |
| `PagesProofs!InboxCorrect` | `InboxSpec => []InboxTruthful` |
| `PagesProofs!SavesCorrect` | `Spec => SavesOverWhatItLoaded` |
| `EditorProofs!DraftSurvivesSaving` | `DraftsSpec => SavedAsShown` |
| `EditorProofs!ChecksAgree` | `DraftsSpec => []PageAndServiceAgree` |
| `EditorProofs!PreviewCorrect` | `ScheduleSpec => []PreviewSaysWhatRuns` |

The assumptions: definitions are well formed, `None` is no identifier, bounds
are natural numbers, the maps from copies to messages and from tasks to lists
are functions, a period is positive, a token lives longer than the renewal comes
before its end; the editor is opened with a routine the service accepted, or with
none (`DraftsAssumption`), the units of the calendar are positive, and what a user
types as a schedule has its fields in range (`TypedAssumption`) - of anything else
the page shows the message of cron-parser and no phrase. One says more than that: `HandlersEndBeforeTheLease` of `Worker`, that a handler runs
shorter than its lease (`timeoutMs` 10 s, `ACTION_LEASE_SECONDS` 60 s by default,
`services/integration-worker/src/main.ts:37-38`). Without it `OneAtATime` is
false, since neither the release nor the completion asks whose lease it is.

*Engine.* `StepBarrier` and `VerdictFitsRows` speak about one execution, and
`Dispatch`, `Complete`, `Fail` and a result of a dispatched row keep them
(lemmas about the pure functions of `Execution`). They are not inductive: were
there a result for a row that was never dispatched, `ApplyResult` would complete
it out of turn, for `applyResult` does not ask whether a row was dispatched. So
`IInv` adds everything that can lead to a result: every command, every child,
every answer of a child, and every message still inside a transaction belongs to
a row that was dispatched (`EmittedDispatched`, `CallerDispatched`,
`OutDispatched`, `KidsDispatched`), identifiers of children are given out once
(`KidsFresh`), a lock is held on an execution that exists (`LockedExists`), and
the working copies are in order, too (`GoodCopies`). The proof has a lemma per
kind of step and one step per action of `Next`.

The other properties are about what a commit makes visible. `WInv`, proved over
`IInv`, therefore says what the working copy of a transaction may differ in from
what it read (`Works`): it keeps caller, depth, routine and every row that was
dispatched; what is newly in flight has its command or its child in the same
transaction (`Accounts`); commands and children are for rows that were not
dispatched before (`NewCommands`, `NewCalls`), so nothing for them can have been
sent, answered or inserted (lemma `FreshRow`); while the loop of `#advance` runs
it has called routines and nothing else (`Advances`), and in the end it has
either announced the one end it decided on, or left something in flight
(`Decides`), or recorded a late result (`Records`). On the side of what is
committed it adds that a row calls once (`CallersDistinct`), that a child fits
its call (`ChildrenFit`), that what is in flight is there (`AllAwaited`) and that
a running execution has something in flight (`AllMoving`). `Obeys` fixes the
condition of a step from the moment the step is decided: a condition runs in an
earlier step (`ValidDefinition`) and a completed row never changes. The
refinement then needs one case per action that is visible: a trigger creates, a
commit moves one execution and creates those it called, the stale check moves
one to WAITING, a deletion deletes.

*Scheduling.* Nothing of `SlotFiredOnce` is inductive: whether a slot was fired
is asked by `createExecution` in the transaction of the tick, and the answer has
to hold until the commit. A routine that is locked is still as it was read, and
by one tick only (`LockedAsRead`); what a tick has fired is for the slot of the
row, not taken, and once per routine (`FiredOnce`); the next run it has prepared
is a slot of the schedule the row has (`NextPrepared`). `NeverBack` relates the
two tables: the next run lies after every moment at which a slot of the routine
was fired. Clocks may be wrong by `Skew` in either direction, so it is later
than the present of the replica that computed it, and `CatchesUpOnce` follows
from that. The arithmetic of slots is in two lemmas about multiples of a
period (`Division`, `NextRunLater`).

*Outbox.* A relay's batch holds rows of its own that are pending, and what it
calls published was published; the number of copies of a row is paid for by
faults and by the relay that has it in progress. The refinement follows from
the first invariant: `Waiting` and `Sent` change only when a row is enqueued or
when the broker takes its first copy.

*Worker.* `OneAtATime` alone says nothing of what comes next. The invariant adds
that whoever has claimed an action holds a lease that outlasts it, unless the
action is completed (`Holds`), and that an action is claimed by one handler
(`Unique`): nobody else can claim meanwhile, and the one who releases or
completes touches its own lease. A handler that reports has a completed action
(`Reported`), which nobody claims again. `Kept` says that every published
command is settled or has a copy no handler has followed up yet; a copy whose
retry or dead letter was sent and not acknowledged no longer counts. The proof
has a lemma per action of `Delivery` and of the handler. `NoAnswerLost` is about
answers instead of handlers: a copy owes one (`Owes`) while it waits, is handled,
failed, or was given up and not announced; a retry passes the debt on to its copy
before the old copy is acknowledged, and what the broker takes back owes again.
It is the safety half of `EveryCommandIsAnswered`: fairness only has to drive the
copies on.

*Task service.* `TaskIsWithItsOwner` needs what a handler remembers (`Knows`):
the list it is about to insert into belonged to its owner, though it may be gone
by now, and then the foreign key refuses the insert; an identifier is never given
out again. `ResultNamesItsTask` follows from the unique key of the action
(`OneTaskPerAction`) and from every result naming a task that was inserted for
its action (`NamesTheAction`). `GivenUpForCause` is the safety half of
`ActionGetsItsTask`: a copy is acknowledged without a task only when its
attempts have met `MaxAttempts` crashes and deleted lists. No list counts
twice, for none can make a copy fail twice (`Excused`): a handler that holds a
list, or goes to read a task, has a reason to spare, the deletion of that list,
which has not happened yet, and `LostWithTheirList` says that a task goes only
with its list.

*Notification service.* The new format is published, and on its way, only when
all replicas read it (`InOrder`, about `format`, `wire` and `reader` at once), so
no replica ever receives what it does not understand (lemma
`EveryReplicaUnderstands`), and a copy comes past the insertion only with an
event that has arrived (`PastArrived`). That is the safety half of
`EventReachesInbox`: what is settled, even as a dead letter, has been in the
inbox.

*Startup.* Only the holder of the lock reads and migrates, and what is applied is
what it read and what it has done since (`Migrating`); so a file is inserted
once, and in order. A replica that serves went through all of its files. The
steps of the shutdown that are over left no work of their kind behind
(`StoppedInOrder`), though a message may still be at work: its consumer is
cancelled, not awaited.

*Session.* The token in use and the one kept differ only while the page finds out
or removes what it keeps (`SameToken`). `RenewalOnTime` says in every phase of
the renewal what it knows of the identity service: a retry runs while the last
outage is at most a tick old, and the timer is switched off only for an expired
token. `OutlivesOutages` needs both, over the ticks of the clock.

*Pages.* Both pages are at rest in ways that say nothing of why they are right.
The invariant speaks of one resource at a time: it is up to date, or will be
once its request is answered or its timer asks again (`UpToDateWith`, with the
lemmas about every step of `usePolling`, which the two pages share), unless
somebody *owes* it a reload - a request that changed the store and whose end the
page has not seen, a click that is not over, a reload that was called and has not
run. `PageInv` and `InboxInv` say that of every resource the page follows; each
handler either settles its debt by a reload or leaves it. In the inbox the last
click to end settles it for all of them: its reload comes after whatever the
requests of the others did. What it cannot settle - a request that succeeds
after its click is over, the count after a mark that failed halfway - `missed`
remembers until the service has answered the page once more, and `InboxTruthful`
excepts a resource for just as long.

*Tokens, gateway, editor.* A check that waits remembers the key set that was
known when it began to wait, and that is still the one fetched last
(`FallbackIsKnown`). A write that waits for its connection never had one before
(`WriteOnItsWay`), and each attempt of a read but the present one ended with its
connection (`ReadOnItsWay`). The definition of a page that has the current
version and adopted none blindly was not changed by others since it was loaded
(`Informed`), and versions only grow.

*Drafts.* A lane is the number it has on the page, and both the lanes and the
sort of the service put actions in order by a rank and by their place
(`Arranged`). What the lemmas `Placing` and `Arranging` say of that is the heart
of the proof: every action has a place of its own, every place an action, and the
order of the places is the order of the ranks. So the sort of the service is a
bijection that keeps what is above what within a lane (`Places`), each step comes
back with its fields (`BackFields`), its link finds the condition it was made
from even under a new key, though it travels as that key and comes back as
another uid (`SameLink`), and each row of the picture is the row it was
(`SamePicture`). That needs the draft to be typed, which every edit keeps.
`PageAndServiceAgree` compares two checks of different things: links by uid in the
draft as it is, and links by key in what `ToInput` makes of it, sorted. They agree
only in drafts the page can be in (`DraftSound`): uids name one step each, a link
leads to a condition that is in the draft, and numbers are within the API's
bounds. `RemoveAction` has to unlink and `FromLanes` to renumber for that, and the
proof has a step for every edit; that what the service stores opens as such a
draft again (`OpenedSound`) is the other half. Sorting does not matter to the
check (`Permuted`, `SortedFine`).

*Schedule form.* The preview speaks of the values of three fields; when they
fire is a question about the digits of a tick (`TimeOfDay`: of its second, minute
and hour, and back). `Describes` has a case for every phrase: values in even
steps over the whole range are those with one remainder (`Grid`, which counts
them), and a remainder of minutes is one of ticks (`Divides`, `TwoDigits`). It
holds for any fields that are in range, so what is left is that the form writes
none that are not and reads none that lead to one (`WritesFitting`,
`ReadsFitting`).

Only model-checked: all liveness (`EveryRunEnds`, `DueIsHandled`,
`EnqueuedIsPublished`, `EveryCommandIsAnswered`, `ActionGetsItsTask`,
`EventReachesInbox`, `PageSettles`), which needs fairness and `ENABLED` and is
out of the prover's reach. Every safety property that a passing run checks is
proved above. 

## 6. Where the code and its descriptions differ

1. `engine_parallel`: `domain/definition.ts:68` says that actions that share a
   step run in parallel. The rows of an expanded loop are dispatched by a later
   round, which does not come while another row of the step is in flight.
2. `engine_callee`: `engine.ts:304` says the end of a called routine completes
   the calling step. Deleting that routine deletes its executions, and the step
   waits for ever; `EveryRunEnds` therefore excepts this case by name.
3. `editing_lost_update`: after a rotation the page adopts the new version but
   not the definition it belongs to, and its next save overwrites a change that
   somebody else made, which `routine-api.yaml:76` promises to refuse. In the
   shortest trace the other change leaves the definition as it was; the same
   steps with another definition lose it.
   `SavesOverWhatItLoaded` therefore speaks of pages that adopted no version
   blindly.
4. `worker_lease`: `main.ts:50` of the worker says a leased action is retried
   later. The backoff ends after 21 s, the lease of a crashed replica after 60 s:
   the command is given up and the run fails.
5. `schedule_interval`: `routine-api.yaml:331` promises a minimum interval of
   10 s. Page and service compare only the two occurrences that follow the
   moment of the request (`domain/schedule.ts:20-22`, `web/src/cron.ts:153`), so
   an expression like `*/55 * * * * *` is accepted or refused by the second at
   which it is saved.

Seen while modelling, without a run: a repeated call with an Idempotency-Key is
answered 409 once the routine has been deactivated (`api.ts:261`, against
`routine-api.yaml:137`); a new routine whose activation fails is created again
by the next save (`RoutineEditor.tsx:509`); the queues of triggers and results
have no `onGiveUp`; a reference to the output of a step that was skipped is
accepted and fails the run when it is resolved (the service compares step
numbers only, and no description promises more); a request rejected late, for a
token that has been renewed since, ends the renewed session.

## 7. Not modelled, and why

- Reading endpoints, the other pages, the external API mock, contracts,
  deployment and the configuration of third-party software keep no state of this
  program; the limits and queues of the broker are in `Delivery`, the retries of
  the proxy in `Gateway`.
- The HTTP and waiting actions of the worker are one step that succeeds or
  fails. Within the engine, templates and values are abstracted; the position of
  a row (its place on the page) is left out, as only its step decides.
- The order in which single statements take their locks, and so the database's
  deadlock detection, shows only as a rollback.
- In the task service, creating and renaming lists and changing single tasks are
  one statement each; they appear in `TaskPage`, as what the page asks for. The
  command `notification.send` takes the path of the event.
- The probes of the gateway's status page are input and output. Logging,
  configuration and tracing keep no state a property could be about.
- In the editor, the fields of a single step, the test data and the page for a
  new routine; a step refers to at most one other, and to no variable
  (`{{vars.…}}`). In `Editing` the URL is not rotated while a conflict is shown:
  it would be one more version adopted blindly, which `SavesOverWhatItLoaded`
  excepts. In `Gateway`, which requests are tried again after a broken connection
  is the retry policy of the proxy library. In the session, signing in and out by redirect begins and ends
  the page.

## 8. Plan

Done: the engine with its calls; consumers and worker; routines and schedules;
the outbox; tasks, notifications, starts, tokens and the gateway; the editor with
its drafts and its schedule; the pages and the session; proofs in eight modules.

Model next: `Locks`, the order of row locks when a routine is deleted while a
call of it starts, with a deadlock the database resolves by a rollback; the page
for a new routine in `Editing`; several pages over one gateway and one session,
in which a rejected request meets a renewal.

Prove next: `Locks`, that a deadlock leaves nothing behind; and of the service
pairs, that the relay and the consumers together deliver what a service wrote
(one theorem over `OutboxProofs` and `WorkerProofs`).
