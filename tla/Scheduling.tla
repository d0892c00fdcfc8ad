----------------------------- MODULE Scheduling -----------------------------
(***************************************************************************)
(* How executions come into being: the scheduler (scheduler.ts) of every   *)
(* replica of the routine service, users and webhooks (api.ts), all        *)
(* through createExecution (engine.ts).                                    *)
(*                                                                         *)
(* A handler of the API locks the one routine it is about for its whole    *)
(* transaction, so it is one step here, which waits while the routine is   *)
(* locked.  A tick of the scheduler locks several routines, fires them one *)
(* after another and commits them together.                                *)
(*                                                                         *)
(* The clock of the database is `now'.  The process of a replica reads a   *)
(* clock of its own, which differs by up to Skew.                          *)
(***************************************************************************)
EXTENDS Routine, FiniteSets

CONSTANTS
  Routines,     \* the routines that can be created
  Replicas,     \* the replicas of the routine service
  Ids,          \* the identifiers executions can get
  Keys,         \* the values of the Idempotency-Key header
  BatchSize,    \* how many routines a tick locks (20 in the code)
  Skew,         \* how far the clock of a process is off
  MaxTime,      \* bound on the clock
  MaxRuns,      \* bound on the executions users and webhooks start
  MaxVersion,   \* bound on the version of a routine: how often it is changed
  MaxAborts     \* bound on the ticks that are rolled back

ASSUME BatchAssumption == BatchSize \in Nat \ {0}
ASSUME ClockAssumption == Skew \in Nat /\ MaxTime \in Nat /\ MaxAborts \in Nat

VARIABLES
  routine,   \* the table routines, as committed
  deleted,   \* the routines that were deleted
  execs,     \* the table executions, as committed
  tick,      \* the transaction of the scheduler of each replica
  replies,   \* the answers given to those who trigger a routine with a key
  now,       \* the clock of the database
  aborts     \* ticks that were rolled back
vars == <<routine, deleted, execs, tick, replies, now, aborts>>

(* slot: scheduled_for.  at: when a scheduled execution was inserted.      *)
Execution == [id : Ids, routine : Routines, slot : Nat \cup {None}, key : Keys \cup {None}, at : Nat]

(* due: locked and not handled yet; read: the rows as they were locked;    *)
(* next: the runs set by setNextRun; fired: the executions inserted.       *)
Tick == [locked : SUBSET Routines, due : SUBSET Routines, read : [Routines -> RoutineRow \cup {None}],
         next : [Routines -> Nat \cup {None}], fired : SUBSET Execution]
Nothing == [r \in Routines |-> None]
NoTick == [locked |-> {}, due |-> {}, read |-> Nothing, next |-> Nothing, fired |-> {}]

Reply == [routine : Routines, key : Keys, status : {"accepted", "existing", "conflict"}, id : Ids \cup {None}]

TypeOK ==
  /\ routine \in [Routines -> RoutineRow \cup {None}]
  /\ \A r \in Routines : routine[r] # None /\ routine[r].trigger = "webhook" => routine[r].token # 0
  /\ deleted \subseteq Routines
  /\ execs \subseteq Execution
  /\ tick \in [Replicas -> Tick]
  /\ replies \subseteq Reply
  /\ now \in 0 .. MaxTime
  /\ aborts \in 0 .. MaxAborts

Init ==
  /\ routine = [r \in Routines |-> None]
  /\ deleted = {}
  /\ execs = {}
  /\ tick = [p \in Replicas |-> NoTick]
  /\ replies = {}
  /\ now = 0
  /\ aborts = 0

(* What the clock of a process can show. *)
Clocks == {c \in 0 .. MaxTime + Skew : c - now \in -Skew .. Skew}

Exists(r) == routine[r] # None
LockedByTick(r) == \E p \in Replicas : r \in tick[p].locked
NeverLocked(r) == Exists(r)   \* mutant: handlers and ticks do not wait for a lock
Free(r) == Exists(r) /\ ~LockedByTick(r)

FreeIds == Ids \ ({x.id : x \in execs} \cup UNION {{x.id : x \in tick[p].fired} : p \in Replicas})

-----------------------------------------------------------------------------
(* Users change routines. *)

Create(r, definition, trigger) ==
  /\ ~Exists(r) /\ r \notin deleted
  /\ routine' = [routine EXCEPT ![r] = Inserted(definition, trigger)]
  /\ UNCHANGED <<deleted, execs, tick, replies, now, aborts>>

Change(r, row) ==
  /\ Free(r)
  /\ routine[r].version < MaxVersion
  /\ routine' = [routine EXCEPT ![r] = row]
  /\ UNCHANGED <<deleted, execs, tick, replies, now, aborts>>

Update(r) ==
  \E definition \in Definitions, trigger \in Trigger, clock \in Clocks :
    Change(r, Updated(routine[r], definition, trigger, clock))
SetActive(r) ==
  \E active \in BOOLEAN, clock \in Clocks : Change(r, Activated(routine[r], active, clock))
Rotate(r) == Free(r) /\ routine[r].trigger = "webhook" /\ Change(r, Rotated(routine[r]))

(* The executions of a routine go with it. *)
Delete(r) ==
  /\ Free(r)
  /\ routine' = [routine EXCEPT ![r] = None]
  /\ deleted' = deleted \cup {r}
  /\ execs' = {x \in execs : x.routine # r}
  /\ UNCHANGED <<tick, replies, now, aborts>>

-----------------------------------------------------------------------------
(* Users and webhooks start routines. *)

KeyOfAnyRoutine(x, r, key) == x.key = key   \* mutant: the key is not scoped to the routine
SameRequest(x, r, key) == x.routine = r /\ x.key = key

Existing(r, key) == {x \in execs : key # None /\ SameRequest(x, r, key)}

Answer(r, key, status, id) ==
  replies' = IF key = None THEN replies
             ELSE replies \cup {[routine |-> r, key |-> key, status |-> status, id |-> id]}

(* createExecution of an active routine, or the answer for its execution. *)
Accept(r, key) ==
  \/ \E x \in Existing(r, key) : Answer(r, key, "existing", x.id) /\ UNCHANGED execs
  \/ /\ Existing(r, key) = {}
     /\ Cardinality({x \in execs : x.slot = None}) < MaxRuns
     /\ \E id \in FreeIds :
          /\ execs' = execs \cup {[id |-> id, routine |-> r, slot |-> None, key |-> key, at |-> 0]}
          /\ Answer(r, key, "accepted", id)

StartRun(r, key) ==
  /\ Free(r)
  /\ IF routine[r].active THEN Accept(r, key)
       ELSE Answer(r, key, "conflict", None) /\ UNCHANGED execs
  /\ UNCHANGED <<routine, deleted, tick, now, aborts>>

TriggerManually(r, key) == StartRun(r, key)

(* A call of the webhook URL with the given token.  An unknown token and a *)
(* routine that is not (any more) triggered by a webhook answer 404.       *)
ValidHook(r, token) == routine[r].trigger = "webhook" /\ routine[r].token = token
CallWebhook(r, token, key) == Free(r) /\ ValidHook(r, token) /\ StartRun(r, key)

-----------------------------------------------------------------------------
(* The scheduler. *)

Due == {r \in Routines : Free(r) /\ routine[r].active /\ routine[r].next # None /\ routine[r].next <= now}

(* lockDueRoutines: SKIP LOCKED, the earliest first, at most BatchSize.    *)
Batches ==
  {b \in SUBSET Due :
     /\ Cardinality(b) = IF Cardinality(Due) < BatchSize THEN Cardinality(Due) ELSE BatchSize
     /\ \A r \in b, q \in Due \ b : routine[r].next <= routine[q].next}

StartTick(p) ==
  /\ tick[p].locked = {}
  /\ Due # {}
  /\ \E b \in Batches :
       tick' = [tick EXCEPT ![p] =
         [NoTick EXCEPT !.locked = b, !.due = b, !.read = [r \in Routines |-> IF r \in b THEN routine[r] ELSE None]]]
  /\ UNCHANGED <<routine, deleted, execs, replies, now, aborts>>

NeverTaken(r, slot) == FALSE   \* mutant: no UNIQUE (routine_id, scheduled_for)
Taken(r, slot) == \E x \in execs : x.routine = r /\ x.slot = slot

FollowingSlot(cron, slot, clock) == NextRun(cron, slot)   \* mutant: every missed slot is fired
Following(cron, slot, clock) == NextRun(cron, IF slot > clock THEN slot ELSE clock)

(* createExecution for the slot, unless it was taken.  The first branch of *)
(* tick, for a routine that is not scheduled, inserts nothing either.      *)
NewRuns(r, read) ==
  IF read.trigger \notin Crons \/ Taken(r, read.next) THEN {{}}
  ELSE {{[id |-> id, routine |-> r, slot |-> read.next, key |-> None, at |-> now]} : id \in FreeIds}

NextAfter(read, clock) ==
  IF read.trigger \in Crons THEN Following(read.trigger, read.next, clock) ELSE None

Fire(p, r) ==
  /\ r \in tick[p].due
  /\ \E clock \in Clocks, runs \in NewRuns(r, tick[p].read[r]) :
       tick' = [tick EXCEPT
         ![p].due = @ \ {r},
         ![p].fired = @ \cup runs,
         ![p].next[r] = NextAfter(tick[p].read[r], clock)]
  /\ UNCHANGED <<routine, deleted, execs, replies, now, aborts>>

NextRunNotStored(p) ==   \* mutant: setNextRun is forgotten
  /\ tick[p].locked # {} /\ tick[p].due = {}
  /\ execs' = execs \cup tick[p].fired
  /\ tick' = [tick EXCEPT ![p] = NoTick]
  /\ UNCHANGED <<routine, deleted, replies, now, aborts>>

CommitTick(p) ==
  /\ tick[p].locked # {} /\ tick[p].due = {}
  /\ routine' = [r \in Routines |->
       IF r \in tick[p].locked /\ Exists(r) THEN [routine[r] EXCEPT !.next = tick[p].next[r]] ELSE routine[r]]
  /\ execs' = execs \cup tick[p].fired
  /\ tick' = [tick EXCEPT ![p] = NoTick]
  /\ UNCHANGED <<deleted, replies, now, aborts>>

AbortTick(p) ==
  /\ tick[p].locked # {}
  /\ aborts < MaxAborts
  /\ tick' = [tick EXCEPT ![p] = NoTick]
  /\ aborts' = aborts + 1
  /\ UNCHANGED <<routine, deleted, execs, replies, now>>

TimePasses ==
  /\ now < MaxTime
  /\ now' = now + 1
  /\ UNCHANGED <<routine, deleted, execs, tick, replies, aborts>>

Next ==
  \/ \E r \in Routines :
       \/ \E definition \in Definitions, trigger \in Trigger : Create(r, definition, trigger)
       \/ Update(r) \/ SetActive(r) \/ Rotate(r) \/ Delete(r)
       \/ \E key \in Keys \cup {None} :
            TriggerManually(r, key) \/ \E token \in 1 .. MaxVersion : CallWebhook(r, token, key)
  \/ \E p \in Replicas :
       StartTick(p) \/ (\E r \in Routines : Fire(p, r)) \/ CommitTick(p) \/ AbortTick(p)
  \/ TimePasses

Spec == Init /\ [][Next]_vars

-----------------------------------------------------------------------------
(* Safety.                                                                 *)

(* "any number of replicas can run the scheduler without firing a slot     *)
(* twice" (scheduler.ts) - also when a change of the routine, with a clock *)
(* that is behind, has set the next run back to the slot just fired.       *)
SlotFiredOnce ==
  \A x, y \in execs : x.routine = y.routine /\ x.slot = y.slot /\ x.slot # None => x = y

(* next_run_at belongs to the schedule the routine has now: a tick that    *)
(* read the routine before it was changed does not write after it.         *)
NextFits ==
  \A r \in Routines : Exists(r) =>
    IF routine[r].active /\ routine[r].trigger \in Crons
      THEN routine[r].next # None /\ routine[r].next % Period[routine[r].trigger] = 0
      ELSE routine[r].next = None

(* "catches up on missed runs once, not for every single missed slot"      *)
(* (docs/architecture.md): a slot that is fired had not yet come when the  *)
(* slot before it was fired, give or take the clock.                       *)
CatchesUpOnce ==
  [][\A x \in execs' \ execs, y \in execs :
       x.slot # None /\ y.slot # None /\ x.routine = y.routine => x.slot > y.at - Skew]_vars

(* "a repeated call does not start a second execution" (routine-api.yaml): *)
(* whoever got an execution for a key gets the same one for ever, and one  *)
(* of the routine that was called.                                         *)
KeyNamesOneExecution ==
  \A a \in replies : a.id # None =>
    /\ \A b \in replies : a.routine = b.routine /\ a.key = b.key /\ b.id # None => a.id = b.id
    /\ a.routine \notin deleted =>
         \E x \in execs : x.id = a.id /\ x.routine = a.routine /\ x.key = a.key

(* A webhook URL stops working only when it is rotated: changes of the     *)
(* routine keep it, also through another trigger and back again.           *)
UrlChangesByRotation ==
  [][\A r \in Routines :
       Exists(r) /\ Exists(r)' /\ routine[r].token \notin {0, routine'[r].token} =>
         /\ routine[r].trigger = "webhook"
         /\ routine'[r] = [routine[r] EXCEPT !.token = @ + 1, !.version = @ + 1]]_vars

-----------------------------------------------------------------------------
(* Liveness.  The loop of every replica calls tick again and again; a      *)
(* transaction comes to its end.                                           *)
FairSpec ==
  Spec /\ \A p \in Replicas : WF_vars(StartTick(p) \/ (\E r \in Routines : Fire(p, r)) \/ CommitTick(p))

(* A slot that is due is handled, unless the routine is changed: no        *)
(* routine waits for ever behind the others of a full batch, and none is   *)
(* left behind by a tick that was rolled back.                             *)
IsDue(r, slot) == Exists(r) /\ routine[r].active /\ routine[r].next = slot /\ slot <= now
DueIsHandled == \A r \in Routines, slot \in 1 .. MaxTime : IsDue(r, slot) ~> ~IsDue(r, slot)
=============================================================================
