-------------------------- MODULE SchedulingProofs --------------------------
(***************************************************************************)
(* What Scheduling promises, for any number of routines, replicas, keys    *)
(* and executions, for any schedules, and for clocks that differ by any    *)
(* Skew: the properties of the runs "schedules" and "requests".            *)
(***************************************************************************)
EXTENDS Scheduling, TLAPS

(* The next run is later than what was fired at the given time, give or    *)
(* take the clock.                                                         *)
LaterThan(next, at) == next # None => next > at - Skew

Multiple(next, cron) == next # None /\ next % Period[cron] = 0

(* A locked routine is as it was read, and due.  What is locked by one     *)
(* tick is not locked by another.                                          *)
LockedAsRead ==
  \A p \in Replicas :
    /\ tick[p].due \subseteq tick[p].locked
    /\ \A r \in tick[p].locked : Exists(r) /\ tick[p].read[r] = routine[r] /\ routine[r].next # None
    /\ \A q \in Replicas \ {p} : tick[p].locked \cap tick[q].locked = {}

(* What a tick has prepared for a routine it has handled. *)
NextPrepared ==
  \A p \in Replicas : \A r \in tick[p].locked \ tick[p].due :
    /\ Multiple(tick[p].next[r], routine[r].trigger)
    /\ \A x \in execs \cup tick[p].fired :
         x.routine = r /\ x.slot # None => LaterThan(tick[p].next[r], x.at)

FiredOnce ==
  \A p \in Replicas :
    /\ \A x \in tick[p].fired :
         /\ x.routine \in tick[p].locked \ tick[p].due
         /\ x.slot = routine[x.routine].next
         /\ x.key = None
         /\ x.at <= now
         /\ ~Taken(x.routine, x.slot)
    /\ \A x, y \in tick[p].fired : x.routine = y.routine => x = y

NeverBack ==
  \A x \in execs : x.slot # None =>
    x.at <= now /\ (Exists(x.routine) => LaterThan(routine[x.routine].next, x.at))

KeysKept ==
  /\ \A x, y \in execs : x.routine = y.routine /\ x.key = y.key /\ x.key # None => x = y
  /\ \A a \in replies : a.key # None
  /\ \A r \in deleted : ~Exists(r)

RowFits(x) ==
  IF x.active /\ x.trigger \in Crons THEN Multiple(x.next, x.trigger) ELSE x.next = None

Inv ==
  /\ TypeOK /\ LockedAsRead /\ NextPrepared /\ FiredOnce /\ NeverBack /\ KeysKept
  /\ SlotFiredOnce /\ NextFits /\ KeyNamesOneExecution

-----------------------------------------------------------------------------
(* Times.                                                                  *)

LEMMA Division ==
  ASSUME NEW n \in Nat, NEW m \in Nat \ {0}
  PROVE  /\ n \div m \in Nat
         /\ (n \div m + 1) * m > n
         /\ ((n \div m + 1) * m) % m = 0
<1>1. n \div m \in Nat /\ n % m \in 0 .. m - 1 /\ n = m * (n \div m) + (n % m)
  OBVIOUS
<1>2. PICK q \in Nat : q = n \div m
  BY <1>1
<1>3. (q + 1) * m = m * q + m
  BY <1>2
<1>4. ((q + 1) * m) % m = 0
  OBVIOUS
<1> QED BY <1>1, <1>2, <1>3, <1>4

LEMMA NextRunLater ==
  ASSUME NEW cron \in Crons, NEW after \in Nat
  PROVE  /\ NextRun(cron, after) \in Nat
         /\ NextRun(cron, after) > after
         /\ Multiple(NextRun(cron, after), cron)
<1>1. Period[cron] \in Nat \ {0}
  BY PeriodAssumption
<1>2. PICK m \in Nat \ {0} : m = Period[cron]
  BY <1>1
<1>3. (after \div m + 1) * m \in Nat
  BY <1>2, Division
<1> QED BY <1>2, <1>3, Division, TriggerAssumption DEF NextRun, Multiple

LEMMA FirstRunFits ==
  ASSUME NEW trigger, NEW active, NEW clock \in Nat
  PROVE  LET next == FirstRun(trigger, active, clock) IN
         /\ next \in Nat \cup {None}
         /\ next # None => next > clock
         /\ IF active /\ trigger \in Crons THEN Multiple(next, trigger) ELSE next = None
BY NextRunLater DEF FirstRun

LEMMA ClockReads ==
  ASSUME NEW clock \in Clocks, now \in Nat
  PROVE  clock \in Nat /\ clock >= now - Skew
BY ClockAssumption DEF Clocks

-----------------------------------------------------------------------------
(* The rows that the handlers of the API write.                            *)

LEMMA Fields ==
  ASSUME NEW row \in RoutineRow
  PROVE  /\ \A x \in Definitions : [row EXCEPT !.definition = x] \in RoutineRow
         /\ \A x \in Trigger : [row EXCEPT !.trigger = x] \in RoutineRow
         /\ \A x \in BOOLEAN : [row EXCEPT !.active = x] \in RoutineRow
         /\ \A x \in Nat \cup {None} : [row EXCEPT !.next = x] \in RoutineRow
         /\ \A x \in Nat : [row EXCEPT !.token = x] \in RoutineRow
         /\ \A x \in Nat \ {0} : [row EXCEPT !.version = x] \in RoutineRow
<1>1. \A x \in Definitions : [row EXCEPT !.definition = x] \in RoutineRow
  BY DEF RoutineRow
<1>2. \A x \in Trigger : [row EXCEPT !.trigger = x] \in RoutineRow
  BY DEF RoutineRow
<1>3. \A x \in BOOLEAN : [row EXCEPT !.active = x] \in RoutineRow
  BY DEF RoutineRow
<1>4. \A x \in Nat \cup {None} : [row EXCEPT !.next = x] \in RoutineRow
  BY DEF RoutineRow
<1>5. \A x \in Nat : [row EXCEPT !.token = x] \in RoutineRow
  BY DEF RoutineRow
<1>6. \A x \in Nat \ {0} : [row EXCEPT !.version = x] \in RoutineRow
  BY DEF RoutineRow
<1> QED BY <1>1, <1>2, <1>3, <1>4, <1>5, <1>6

LEMMA Numbers ==
  ASSUME NEW row \in RoutineRow
  PROVE  row.token \in Nat /\ row.token + 1 \in Nat /\ row.version + 1 \in Nat \ {0}
BY DEF RoutineRow

LEMMA RowInserted ==
  ASSUME NEW definition \in Definitions, NEW trigger \in Trigger
  PROVE  LET row == Inserted(definition, trigger) IN
         row \in RoutineRow /\ RowFits(row) /\ row.next = None
         /\ (row.trigger = "webhook" => row.token # 0)
BY DEF Inserted, RoutineRow, RowFits, TokenFor

LEMMA RowUpdated ==
  ASSUME NEW row \in RoutineRow, NEW definition \in Definitions, NEW trigger \in Trigger, NEW clock \in Nat
  PROVE  LET new == Updated(row, definition, trigger, clock) IN
         /\ new \in RoutineRow
         /\ RowFits(new)
         /\ new.next # None => new.next > clock
         /\ new.trigger = "webhook" => new.token # 0
         /\ new.token \in {row.token, 1} /\ (row.token # 0 => new.token = row.token)
<1> DEFINE next == FirstRun(trigger, row.active, clock)
<1>1. /\ next \in Nat \cup {None}
      /\ next # None => next > clock
      /\ IF row.active /\ trigger \in Crons THEN Multiple(next, trigger) ELSE next = None
  BY FirstRunFits
<1> HIDE DEF next
<1>2. Updated(row, definition, trigger, clock) =
        [row EXCEPT !.definition = definition, !.trigger = trigger, !.next = next,
                    !.token = TokenFor(@, trigger), !.version = @ + 1]
  BY DEF Updated, next
<1>3. /\ Updated(row, definition, trigger, clock).trigger = trigger
      /\ Updated(row, definition, trigger, clock).active = row.active
      /\ Updated(row, definition, trigger, clock).next = next
      /\ Updated(row, definition, trigger, clock).token = TokenFor(row.token, trigger)
  BY <1>2 DEF RoutineRow
<1>4. TokenFor(row.token, trigger) \in Nat
  BY DEF RoutineRow, TokenFor
<1>5. Updated(row, definition, trigger, clock) \in RoutineRow
  <2>1. PICK a \in RoutineRow : a = [row EXCEPT !.definition = definition]
    BY Fields
  <2>2. PICK b \in RoutineRow : b = [a EXCEPT !.trigger = trigger]
    BY Fields
  <2>3. PICK c \in RoutineRow : c = [b EXCEPT !.next = next]
    BY <1>1, Fields
  <2>4. PICK d \in RoutineRow : d = [c EXCEPT !.token = TokenFor(row.token, trigger)]
    BY <1>4, Fields
  <2>5. [d EXCEPT !.version = row.version + 1] \in RoutineRow
    BY Numbers, Fields
  <2> QED BY <1>2, <2>1, <2>2, <2>3, <2>4, <2>5
<1> QED BY <1>1, <1>3, <1>5 DEF RowFits, TokenFor

LEMMA RowActivated ==
  ASSUME NEW row \in RoutineRow, row.trigger = "webhook" => row.token # 0,
         NEW active \in BOOLEAN, NEW clock \in Nat
  PROVE  LET new == Activated(row, active, clock) IN
         /\ new \in RoutineRow
         /\ RowFits(new)
         /\ new.next # None => new.next > clock
         /\ new.trigger = "webhook" => new.token # 0
         /\ new.token = row.token
<1> DEFINE next == FirstRun(row.trigger, active, clock)
<1>1. /\ next \in Nat \cup {None}
      /\ next # None => next > clock
      /\ IF active /\ row.trigger \in Crons THEN Multiple(next, row.trigger) ELSE next = None
  BY FirstRunFits
<1> HIDE DEF next
<1>2. Activated(row, active, clock) = [row EXCEPT !.active = active, !.next = next, !.version = @ + 1]
  BY DEF Activated, next
<1>3. /\ Activated(row, active, clock).trigger = row.trigger
      /\ Activated(row, active, clock).active = active
      /\ Activated(row, active, clock).next = next
      /\ Activated(row, active, clock).token = row.token
  BY <1>2 DEF RoutineRow
<1>4. Activated(row, active, clock) \in RoutineRow
  <2>1. PICK a \in RoutineRow : a = [row EXCEPT !.active = active]
    BY Fields
  <2>2. PICK b \in RoutineRow : b = [a EXCEPT !.next = next]
    BY <1>1, Fields
  <2>3. [b EXCEPT !.version = row.version + 1] \in RoutineRow
    BY Numbers, Fields
  <2> QED BY <1>2, <2>1, <2>2, <2>3
<1> QED BY <1>1, <1>3, <1>4 DEF RowFits

LEMMA RowRotated ==
  ASSUME NEW row \in RoutineRow, RowFits(row)
  PROVE  LET new == Rotated(row) IN
         new \in RoutineRow /\ RowFits(new) /\ new.next = row.next /\ new.token # 0
<1>1. Rotated(row) \in RoutineRow
  <2>1. PICK a \in RoutineRow : a = [row EXCEPT !.token = row.token + 1]
    BY Numbers, Fields
  <2>2. [a EXCEPT !.version = row.version + 1] \in RoutineRow
    BY Numbers, Fields
  <2> QED BY <2>1, <2>2 DEF Rotated
<1>2. /\ Rotated(row).trigger = row.trigger /\ Rotated(row).active = row.active
      /\ Rotated(row).next = row.next /\ Rotated(row).token = row.token + 1
  BY DEF Rotated, RoutineRow
<1>3. row.token \in Nat
  BY DEF RoutineRow
<1> QED BY <1>1, <1>2, <1>3 DEF RowFits

-----------------------------------------------------------------------------
(* The steps of users and of the API.                                      *)

LEMMA TickTyped ==
  ASSUME Inv, NEW p \in Replicas
  PROVE  /\ tick[p].locked \subseteq Routines /\ tick[p].due \subseteq tick[p].locked
         /\ tick[p].read \in [Routines -> RoutineRow \cup {None}]
         /\ tick[p].next \in [Routines -> Nat \cup {None}]
         /\ tick[p].fired \subseteq Execution
<1>1. tick[p] \in Tick
  BY DEF Inv, TypeOK
<1> QED BY <1>1 DEF Inv, LockedAsRead, Tick

LEMMA Unlocked ==
  ASSUME NEW r \in Routines, Free(r), NEW p \in Replicas
  PROVE  r \notin tick[p].locked
BY DEF Free, LockedByTick

LEMMA TypedRow ==
  ASSUME TypeOK, NEW r \in Routines, Exists(r)
  PROVE  routine[r] \in RoutineRow /\ (routine[r].trigger = "webhook" => routine[r].token # 0)
BY DEF TypeOK, Exists

(* Everything but the rows of routines that no tick has locked.            *)
LEMMA RowsOnly ==
  ASSUME Inv,
         routine' \in [Routines -> RoutineRow \cup {None}],
         \A q \in Routines : (\E p \in Replicas : q \in tick[p].locked) => routine'[q] = routine[q],
         UNCHANGED <<tick, now, aborts>>
  PROVE  /\ LockedAsRead'
         /\ (UNCHANGED execs => NextPrepared' /\ FiredOnce')
<1>1. LockedAsRead'
  <2>1. \A p \in Replicas : \A r \in tick[p].locked : routine'[r] = routine[r]
    BY TickTyped
  <2> QED BY <2>1 DEF Inv, LockedAsRead, Exists
<1>2. ASSUME UNCHANGED execs PROVE NextPrepared'
  <2>1. \A p \in Replicas : \A r \in tick[p].locked : routine'[r] = routine[r]
    BY TickTyped
  <2> QED BY <1>2, <2>1 DEF Inv, NextPrepared, Multiple, LaterThan
<1>3. ASSUME UNCHANGED execs PROVE FiredOnce'
  <2>1. \A p \in Replicas : \A x \in tick[p].fired : routine'[x.routine] = routine[x.routine]
    BY DEF Inv, FiredOnce, TypeOK, Tick, Execution
  <2> QED BY <1>3, <2>1 DEF Inv, FiredOnce, Taken
<1> QED BY <1>1, <1>2, <1>3

(* A handler of the API writes one row, which no tick has locked.          *)
LEMMA RowWritten ==
  ASSUME Inv, NEW r \in Routines, NEW row \in RoutineRow,
         \A p \in Replicas : r \notin tick[p].locked,
         Exists(r) \/ r \notin deleted,
         row.trigger = "webhook" => row.token # 0,
         RowFits(row),
         row.next = None \/ row.next > now - Skew \/ (Exists(r) /\ row.next = routine[r].next),
         routine' = [routine EXCEPT ![r] = row],
         UNCHANGED <<deleted, execs, tick, replies, now, aborts>>
  PROVE  Inv'
<1>1. /\ routine' \in [Routines -> RoutineRow \cup {None}]
      /\ routine'[r] = row
      /\ \A q \in Routines \ {r} : routine'[q] = routine[q]
  BY DEF Inv, TypeOK
<1>2. TypeOK'
  BY <1>1 DEF Inv, TypeOK
<1>3. LockedAsRead' /\ NextPrepared' /\ FiredOnce'
  BY <1>1, RowsOnly
<1>4. NeverBack'
  <2> SUFFICES ASSUME NEW x \in execs, x.slot # None, routine'[x.routine] # None
               PROVE  x.at <= now /\ LaterThan(routine'[x.routine].next, x.at)
    BY DEF Inv, NeverBack, LaterThan, Exists
  <2>1. x.routine \in Routines /\ x.at \in Nat /\ now \in Nat /\ Skew \in Nat /\ x.at <= now
    BY ClockAssumption DEF Inv, TypeOK, Execution, NeverBack
  <2>2. CASE x.routine # r
    BY <1>1, <2>1, <2>2 DEF Inv, NeverBack, Exists
  <2>3. CASE x.routine = r
    <3>1. row.next \in Nat \cup {None}
      BY DEF RoutineRow
    <3> QED BY <1>1, <2>1, <2>3, <3>1 DEF Inv, NeverBack, LaterThan, Exists
  <2> QED BY <2>2, <2>3
<1>5. KeysKept'
  BY <1>1 DEF Inv, KeysKept, Exists
<1>6. SlotFiredOnce' /\ KeyNamesOneExecution'
  BY DEF Inv, SlotFiredOnce, KeyNamesOneExecution
<1>7. NextFits'
  BY <1>1 DEF Inv, NextFits, RowFits, Multiple, Exists
<1> QED BY <1>2, <1>3, <1>4, <1>5, <1>6, <1>7 DEF Inv

LEMMA CreateStep ==
  ASSUME Inv, NEW r \in Routines, NEW definition \in Definitions, NEW trigger \in Trigger,
         Create(r, definition, trigger)
  PROVE  Inv'
<1>1. \A p \in Replicas : r \notin tick[p].locked
  BY DEF Inv, LockedAsRead, Create
<1> QED BY <1>1, RowInserted, RowWritten DEF Create

LEMMA Now == ASSUME Inv PROVE now \in Nat
BY ClockAssumption DEF Inv, TypeOK

LEMMA RowOfInv ==
  ASSUME Inv, NEW r \in Routines, Free(r)
  PROVE  /\ routine[r] \in RoutineRow /\ RowFits(routine[r]) /\ Exists(r)
         /\ routine[r].trigger = "webhook" => routine[r].token # 0
         /\ \A p \in Replicas : r \notin tick[p].locked
BY TypedRow, Unlocked DEF Inv, Free, NextFits, RowFits, Multiple

LEMMA UpdateStep ==
  ASSUME Inv, NEW r \in Routines, Update(r)
  PROVE  Inv'
<1>1. PICK definition \in Definitions, trigger \in Trigger, clock \in Clocks :
        Change(r, Updated(routine[r], definition, trigger, clock))
  BY DEF Update
<1>2. PICK row : row = Updated(routine[r], definition, trigger, clock)
  OBVIOUS
<1>3. Free(r) /\ clock \in Nat /\ clock >= now - Skew /\ now \in Nat /\ Skew \in Nat
  BY <1>1, ClockReads, Now, ClockAssumption DEF Change
<1>4. row \in RoutineRow /\ RowFits(row) /\ (row.trigger = "webhook" => row.token # 0)
      /\ (row.next # None => row.next > clock)
  BY <1>2, <1>3, RowOfInv, RowUpdated
<1>5. row.next = None \/ row.next > now - Skew
  BY <1>3, <1>4 DEF RoutineRow
<1> QED BY <1>1, <1>2, <1>3, <1>4, <1>5, RowOfInv, RowWritten DEF Change

LEMMA SetActiveStep ==
  ASSUME Inv, NEW r \in Routines, SetActive(r)
  PROVE  Inv'
<1>1. PICK active \in BOOLEAN, clock \in Clocks : Change(r, Activated(routine[r], active, clock))
  BY DEF SetActive
<1>2. PICK row : row = Activated(routine[r], active, clock)
  OBVIOUS
<1>3. Free(r) /\ clock \in Nat /\ clock >= now - Skew /\ now \in Nat /\ Skew \in Nat
  BY <1>1, ClockReads, Now, ClockAssumption DEF Change
<1>4. row \in RoutineRow /\ RowFits(row) /\ (row.trigger = "webhook" => row.token # 0)
      /\ (row.next # None => row.next > clock)
  BY <1>2, <1>3, RowOfInv, RowActivated
<1>5. row.next = None \/ row.next > now - Skew
  BY <1>3, <1>4 DEF RoutineRow
<1> QED BY <1>1, <1>2, <1>3, <1>4, <1>5, RowOfInv, RowWritten DEF Change

LEMMA RotateStep ==
  ASSUME Inv, NEW r \in Routines, Rotate(r)
  PROVE  Inv'
BY RowOfInv, RowRotated, RowWritten DEF Rotate, Change

(* The executions of a routine go with it, and no tick had locked it.      *)
LEMMA DeleteStep ==
  ASSUME Inv, NEW r \in Routines, Delete(r)
  PROVE  Inv'
<1>1. /\ routine' \in [Routines -> RoutineRow \cup {None}]
      /\ routine'[r] = None
      /\ \A q \in Routines \ {r} : routine'[q] = routine[q]
      /\ execs' = {x \in execs : x.routine # r}
      /\ deleted' = deleted \cup {r}
      /\ UNCHANGED <<tick, replies, now, aborts>>
  BY DEF Inv, TypeOK, Delete
<1>2. TypeOK'
  BY <1>1 DEF Inv, TypeOK
<1>3. \A p \in Replicas : r \notin tick[p].locked
  BY Unlocked DEF Delete
<1>4. LockedAsRead'
  BY <1>1, <1>3, RowsOnly
<1>5. NextPrepared'
  <2>1. \A p \in Replicas : \A q \in tick[p].locked : routine'[q] = routine[q]
    BY <1>1, <1>3, TickTyped
  <2> QED BY <1>1, <2>1 DEF Inv, NextPrepared, Multiple, LaterThan
<1>6. FiredOnce'
  <2>1. \A p \in Replicas : \A x \in tick[p].fired : routine'[x.routine] = routine[x.routine]
    BY <1>1, <1>3 DEF Inv, FiredOnce, TypeOK, Tick, Execution
  <2> QED BY <1>1, <2>1 DEF Inv, FiredOnce, Taken
<1>7. NeverBack'
  BY <1>1 DEF Inv, NeverBack, TypeOK, Execution, Exists
<1>8. KeysKept'
  BY <1>1 DEF Inv, KeysKept, TypeOK, Exists
<1>9. SlotFiredOnce' /\ KeyNamesOneExecution'
  BY <1>1 DEF Inv, SlotFiredOnce, KeyNamesOneExecution
<1>10. NextFits'
  BY <1>1 DEF Inv, NextFits, Exists
<1> QED BY <1>2, <1>4, <1>5, <1>6, <1>7, <1>8, <1>9, <1>10 DEF Inv

-----------------------------------------------------------------------------
(* Users and webhooks start routines.                                      *)

(* An execution that is not scheduled changes nothing for the schedules.   *)
LEMMA UnscheduledRun ==
  ASSUME Inv, NEW x \in Execution, x.slot = None,
         execs' = execs \cup {x},
         UNCHANGED <<routine, deleted, tick, now, aborts>>
  PROVE  LockedAsRead' /\ NextPrepared' /\ FiredOnce' /\ NeverBack' /\ SlotFiredOnce' /\ NextFits'
<1>1. LockedAsRead'
  BY DEF Inv, LockedAsRead, Exists
<1>2. NextPrepared'
  BY DEF Inv, NextPrepared, Multiple, LaterThan
<1>3. FiredOnce'
  <2>1. \A p \in Replicas : \A y \in tick[p].fired : y.slot # None
    BY DEF Inv, FiredOnce, LockedAsRead
  <2> QED BY <2>1 DEF Inv, FiredOnce, Taken
<1>4. NeverBack'
  BY DEF Inv, NeverBack, LaterThan, Exists
<1>5. SlotFiredOnce'
  BY DEF Inv, SlotFiredOnce
<1>6. NextFits'
  BY DEF Inv, NextFits, Exists
<1> QED BY <1>1, <1>2, <1>3, <1>4, <1>5, <1>6

(* The executions stay as they are, and a request gets a (further) answer. *)
LEMMA Answered ==
  ASSUME Inv, NEW r \in Routines, NEW key \in Keys \cup {None}, NEW status \in {"accepted", "existing", "conflict"},
         NEW id \in Ids \cup {None}, Answer(r, key, status, id)
  PROVE  /\ replies' \subseteq Reply
         /\ \A a \in replies' : a.key # None
         /\ \A a \in replies' : a \in replies
              \/ (a.routine = r /\ a.key = key /\ a.id = id /\ a.key # None)
<1>1. CASE key = None
  BY <1>1 DEF Answer, Inv, TypeOK, KeysKept
<1>2. CASE key # None
  <2>1. PICK a : a = [routine |-> r, key |-> key, status |-> status, id |-> id]
    OBVIOUS
  <2>2. a \in Reply /\ a.routine = r /\ a.key = key /\ a.id = id
    BY <1>2, <2>1 DEF Reply
  <2>3. replies' = replies \cup {a}
    BY <1>2, <2>1 DEF Answer
  <2> QED BY <1>2, <2>2, <2>3 DEF Inv, TypeOK, KeysKept
<1> QED BY <1>1, <1>2

LEMMA Conflict ==
  ASSUME Inv, NEW r \in Routines, NEW key \in Keys \cup {None},
         Answer(r, key, "conflict", None),
         UNCHANGED <<routine, deleted, execs, tick, now, aborts>>
  PROVE  Inv'
<1>1. /\ replies' \subseteq Reply
      /\ \A a \in replies' : a.key # None
      /\ \A a \in replies' : a \in replies \/ a.id = None
  BY Answered
<1>2. TypeOK'
  BY <1>1 DEF Inv, TypeOK
<1>3. LockedAsRead' /\ NextPrepared' /\ FiredOnce'
  BY RowsOnly DEF Inv, TypeOK
<1>4. NeverBack' /\ SlotFiredOnce' /\ NextFits'
  BY DEF Inv, NeverBack, SlotFiredOnce, NextFits, Exists, LaterThan
<1>5. KeysKept'
  BY <1>1 DEF Inv, KeysKept, Exists
<1>6. KeyNamesOneExecution'
  BY <1>1 DEF Inv, KeyNamesOneExecution
<1> QED BY <1>2, <1>3, <1>4, <1>5, <1>6 DEF Inv

(* The execution of an earlier request is named again. *)
LEMMA Repeated ==
  ASSUME Inv, NEW r \in Routines, NEW key \in Keys \cup {None}, Exists(r),
         NEW x \in Existing(r, key), Answer(r, key, "existing", x.id),
         UNCHANGED <<routine, deleted, execs, tick, now, aborts>>
  PROVE  Inv'
<1>1. x \in execs /\ x.routine = r /\ x.key = key /\ key # None /\ x.id \in Ids /\ r \notin deleted
  BY DEF Existing, SameRequest, Inv, TypeOK, Execution, KeysKept, Exists
<1>2. /\ replies' \subseteq Reply
      /\ \A a \in replies' : a.key # None
      /\ \A a \in replies' : a \in replies \/ (a.routine = r /\ a.key = key /\ a.id = x.id)
  BY <1>1, Answered
<1>3. TypeOK'
  BY <1>2 DEF Inv, TypeOK
<1>4. LockedAsRead' /\ NextPrepared' /\ FiredOnce'
  BY RowsOnly DEF Inv, TypeOK
<1>5. NeverBack' /\ SlotFiredOnce' /\ NextFits'
  BY DEF Inv, NeverBack, SlotFiredOnce, NextFits, Exists, LaterThan
<1>6. KeysKept'
  BY <1>2 DEF Inv, KeysKept, Exists
<1>7. \A a \in replies : a.id # None /\ a.routine = r /\ a.key = key => a.id = x.id
  <2> SUFFICES ASSUME NEW a \in replies, a.id # None, a.routine = r, a.key = key
               PROVE  a.id = x.id
    OBVIOUS
  <2>1. PICK y \in execs : y.id = a.id /\ y.routine = r /\ y.key = key
    BY <1>1 DEF Inv, KeyNamesOneExecution
  <2> QED BY <1>1, <2>1 DEF Inv, KeysKept
<1>8. KeyNamesOneExecution'
  BY <1>1, <1>2, <1>7 DEF Inv, KeyNamesOneExecution
<1> QED BY <1>3, <1>4, <1>5, <1>6, <1>8 DEF Inv

LEMMA Accepted ==
  ASSUME Inv, NEW r \in Routines, NEW key \in Keys \cup {None}, Exists(r),
         Existing(r, key) = {}, NEW id \in FreeIds,
         execs' = execs \cup {[id |-> id, routine |-> r, slot |-> None, key |-> key, at |-> 0]},
         Answer(r, key, "accepted", id),
         UNCHANGED <<routine, deleted, tick, now, aborts>>
  PROVE  Inv'
<1>1. PICK x : x = [id |-> id, routine |-> r, slot |-> None, key |-> key, at |-> 0]
  OBVIOUS
<1>2. /\ x \in Execution /\ x.id = id /\ x.routine = r /\ x.slot = None /\ x.key = key
      /\ execs' = execs \cup {x}
      /\ id \in Ids
  BY <1>1 DEF Execution, FreeIds
<1>3. \A y \in execs : y.routine = r /\ y.key = key => key = None
  BY DEF Existing, SameRequest
<1>4. /\ replies' \subseteq Reply
      /\ \A a \in replies' : a.key # None
      /\ \A a \in replies' : a \in replies \/ (a.routine = r /\ a.key = key /\ a.id = id)
  BY <1>2, Answered
<1>5. TypeOK'
  BY <1>2, <1>4 DEF Inv, TypeOK
<1>6. LockedAsRead' /\ NextPrepared' /\ FiredOnce' /\ NeverBack' /\ SlotFiredOnce' /\ NextFits'
  BY <1>2, UnscheduledRun
<1>7. KeysKept'
  BY <1>2, <1>3, <1>4 DEF Inv, KeysKept, Exists
<1>8. r \notin deleted
  BY DEF Inv, KeysKept
<1>9. \A a \in replies : a.routine = r /\ a.key = key => a.id = None
  BY <1>3, <1>8 DEF Inv, KeyNamesOneExecution, KeysKept
<1>10. KeyNamesOneExecution'
  BY <1>2, <1>4, <1>9 DEF Inv, KeyNamesOneExecution
<1> QED BY <1>5, <1>6, <1>7, <1>10 DEF Inv

LEMMA StartRunStep ==
  ASSUME Inv, NEW r \in Routines, NEW key \in Keys \cup {None}, StartRun(r, key)
  PROVE  Inv'
<1>1. Exists(r)
  BY DEF StartRun, Free
<1>2. CASE ~routine[r].active
  BY <1>2, Conflict DEF StartRun
<1>3. CASE routine[r].active
  <2>1. Accept(r, key) /\ UNCHANGED <<routine, deleted, tick, now, aborts>>
    BY <1>3 DEF StartRun
  <2>2. ASSUME NEW x \in Existing(r, key), Answer(r, key, "existing", x.id), UNCHANGED execs
        PROVE  Inv'
    BY <1>1, <2>1, <2>2, Repeated
  <2>3. ASSUME Existing(r, key) = {}, NEW id \in FreeIds,
               execs' = execs \cup {[id |-> id, routine |-> r, slot |-> None, key |-> key, at |-> 0]},
               Answer(r, key, "accepted", id)
        PROVE  Inv'
    BY <1>1, <2>1, <2>3, Accepted
  <2> QED BY <2>1, <2>2, <2>3 DEF Accept
<1> QED BY <1>2, <1>3

-----------------------------------------------------------------------------
(* The scheduler.                                                          *)

LEMMA TickFields ==
  ASSUME NEW t \in Tick
  PROVE  /\ \A x \in SUBSET Routines : [t EXCEPT !.locked = x] \in Tick
         /\ \A x \in SUBSET Routines : [t EXCEPT !.due = x] \in Tick
         /\ \A x \in [Routines -> RoutineRow \cup {None}] : [t EXCEPT !.read = x] \in Tick
         /\ \A x \in [Routines -> Nat \cup {None}] : [t EXCEPT !.next = x] \in Tick
         /\ \A x \in SUBSET Execution : [t EXCEPT !.fired = x] \in Tick
<1>1. \A x \in SUBSET Routines : [t EXCEPT !.locked = x] \in Tick
  BY DEF Tick
<1>2. \A x \in SUBSET Routines : [t EXCEPT !.due = x] \in Tick
  BY DEF Tick
<1>3. \A x \in [Routines -> RoutineRow \cup {None}] : [t EXCEPT !.read = x] \in Tick
  BY DEF Tick
<1>4. \A x \in [Routines -> Nat \cup {None}] : [t EXCEPT !.next = x] \in Tick
  BY DEF Tick
<1>5. \A x \in SUBSET Execution : [t EXCEPT !.fired = x] \in Tick
  BY DEF Tick
<1> QED BY <1>1, <1>2, <1>3, <1>4, <1>5

LEMMA TickStarted ==
  ASSUME NEW b \in SUBSET Routines, NEW read \in [Routines -> RoutineRow \cup {None}]
  PROVE  LET t == [NoTick EXCEPT !.locked = b, !.due = b, !.read = read] IN
         t \in Tick /\ t.locked = b /\ t.due = b /\ t.read = read /\ t.fired = {}
<1>1. NoTick \in Tick /\ NoTick.fired = {}
  BY DEF NoTick, Tick, Nothing
<1>2. PICK old \in Tick : old = NoTick
  BY <1>1
<1>3. PICK a \in Tick : a = [old EXCEPT !.locked = b]
  BY TickFields
<1>4. PICK c \in Tick : c = [a EXCEPT !.due = b]
  BY TickFields
<1>5. PICK t \in Tick : t = [c EXCEPT !.read = read]
  BY TickFields
<1>6. t.locked = b /\ t.due = b /\ t.read = read /\ t.fired = {}
  BY <1>1, <1>2, <1>3, <1>4, <1>5 DEF Tick
<1> QED BY <1>2, <1>3, <1>4, <1>5, <1>6

LEMMA OneTick ==
  ASSUME Inv, NEW p \in Replicas, NEW t \in Tick, tick' = [tick EXCEPT ![p] = t]
  PROVE  tick' \in [Replicas -> Tick] /\ tick'[p] = t /\ \A q \in Replicas \ {p} : tick'[q] = tick[q]
BY DEF Inv, TypeOK

(* Everything but the ticks stays. *)
LEMMA TicksOnly ==
  ASSUME Inv, tick' \in [Replicas -> Tick], UNCHANGED <<routine, deleted, execs, replies, now>>,
         aborts' \in 0 .. MaxAborts
  PROVE  TypeOK' /\ NeverBack' /\ KeysKept' /\ SlotFiredOnce' /\ NextFits' /\ KeyNamesOneExecution'
<1>1. TypeOK'
  BY DEF Inv, TypeOK
<1>2. NeverBack' /\ KeysKept' /\ SlotFiredOnce' /\ NextFits' /\ KeyNamesOneExecution'
  BY DEF Inv, NeverBack, KeysKept, SlotFiredOnce, NextFits, KeyNamesOneExecution, Exists, LaterThan
<1> QED BY <1>1, <1>2

LEMMA StartTickStep ==
  ASSUME Inv, NEW p \in Replicas, StartTick(p)
  PROVE  Inv'
<1>1. PICK b \in Batches :
        tick' = [tick EXCEPT ![p] =
          [NoTick EXCEPT !.locked = b, !.due = b, !.read = [r \in Routines |-> IF r \in b THEN routine[r] ELSE None]]]
  BY DEF StartTick
<1>2. b \subseteq Due
  BY DEF Batches
<1>3. PICK read : read = [r \in Routines |-> IF r \in b THEN routine[r] ELSE None]
  OBVIOUS
<1>4. read \in [Routines -> RoutineRow \cup {None}] /\ \A r \in b : read[r] = routine[r]
  BY <1>2, <1>3 DEF Inv, TypeOK, Due
<1>5. b \in SUBSET Routines
  BY <1>2 DEF Due
<1>6. PICK t : t = [NoTick EXCEPT !.locked = b, !.due = b, !.read = read]
  OBVIOUS
<1>7. t \in Tick /\ t.locked = b /\ t.due = b /\ t.read = read /\ t.fired = {} /\ tick' = [tick EXCEPT ![p] = t]
  BY <1>1, <1>3, <1>4, <1>5, <1>6, TickStarted
<1>8. tick' \in [Replicas -> Tick] /\ tick'[p] = t /\ \A q \in Replicas \ {p} : tick'[q] = tick[q]
  BY <1>7, OneTick
<1>9. UNCHANGED <<routine, deleted, execs, replies, now, aborts>>
  BY DEF StartTick
<1>10. TypeOK' /\ NeverBack' /\ KeysKept' /\ SlotFiredOnce' /\ NextFits' /\ KeyNamesOneExecution'
  BY <1>8, <1>9, TicksOnly DEF Inv, TypeOK
<1>11. \A r \in b : Exists(r) /\ routine[r].next # None /\ \A q \in Replicas : r \notin tick[q].locked
  BY <1>2 DEF Due, Free, LockedByTick
<1>12. LockedAsRead'
  BY <1>4, <1>7, <1>8, <1>9, <1>11 DEF Inv, LockedAsRead, Exists
<1>13. NextPrepared'
  BY <1>7, <1>8, <1>9 DEF Inv, NextPrepared, Multiple, LaterThan
<1>14. FiredOnce'
  BY <1>7, <1>8, <1>9 DEF Inv, FiredOnce, Taken
<1> QED BY <1>10, <1>12, <1>13, <1>14 DEF Inv

(* What a tick finds out about a routine it handles. *)
LEMMA Handling ==
  ASSUME Inv, NEW p \in Replicas, NEW r \in tick[p].due, NEW clock \in Clocks
  PROVE  /\ r \in Routines /\ r \in tick[p].locked
         /\ tick[p].read[r] = routine[r] /\ Exists(r) /\ routine[r] \in RoutineRow
         /\ routine[r].trigger \in Crons /\ routine[r].next \in Nat
         /\ NextAfter(routine[r], clock) \in Nat
         /\ Multiple(NextAfter(routine[r], clock), routine[r].trigger)
         /\ NextAfter(routine[r], clock) > now - Skew
<1>1. r \in Routines /\ r \in tick[p].locked /\ tick[p].read[r] = routine[r] /\ Exists(r) /\ routine[r].next # None
  BY TickTyped DEF Inv, LockedAsRead
<1>2. routine[r] \in RoutineRow
  BY <1>1, TypedRow DEF Inv
<1>3. routine[r].trigger \in Crons
  BY <1>1 DEF Inv, NextFits
<1>4. routine[r].next \in Nat
  BY <1>1, <1>2 DEF RoutineRow
<1>5. clock \in Nat /\ clock >= now - Skew /\ now \in Nat /\ Skew \in Nat
  BY ClockReads, Now, ClockAssumption
<1>6. PICK after \in Nat : after = (IF routine[r].next > clock THEN routine[r].next ELSE clock)
  BY <1>4, <1>5
<1>7. NextAfter(routine[r], clock) = NextRun(routine[r].trigger, after) /\ after >= clock
  BY <1>3, <1>4, <1>5, <1>6 DEF NextAfter, Following
<1>8. NextRun(routine[r].trigger, after) \in Nat /\ NextRun(routine[r].trigger, after) > after
      /\ Multiple(NextRun(routine[r].trigger, after), routine[r].trigger)
  BY <1>3, NextRunLater
<1> QED BY <1>1, <1>2, <1>3, <1>4, <1>5, <1>7, <1>8

(* What it inserts: at most one execution, for the slot that was due.      *)
LEMMA Firing ==
  ASSUME Inv, NEW r \in Routines, NEW read \in RoutineRow, read.next \in Nat, NEW runs \in NewRuns(r, read)
  PROVE  /\ runs \subseteq Execution
         /\ \A x \in runs : /\ x.routine = r /\ x.slot = read.next /\ x.key = None /\ x.at = now
                            /\ ~Taken(r, read.next)
         /\ \A x, y \in runs : x = y
<1>1. CASE runs = {}
  BY <1>1
<1>2. CASE runs # {}
  <2>1. PICK id \in FreeIds :
          /\ runs = {[id |-> id, routine |-> r, slot |-> read.next, key |-> None, at |-> now]}
          /\ ~Taken(r, read.next)
    BY <1>2 DEF NewRuns
  <2>2. PICK x : x = [id |-> id, routine |-> r, slot |-> read.next, key |-> None, at |-> now]
    OBVIOUS
  <2>3. x \in Execution /\ x.routine = r /\ x.slot = read.next /\ x.key = None /\ x.at = now
    BY <2>2, Now DEF Execution, FreeIds
  <2> QED BY <2>1, <2>2, <2>3
<1> QED BY <1>1, <1>2

LEMMA FireStep ==
  ASSUME Inv, NEW p \in Replicas, NEW r \in Routines, Fire(p, r)
  PROVE  Inv'
<1>1. PICK clock \in Clocks, runs \in NewRuns(r, tick[p].read[r]) :
        tick' = [tick EXCEPT
          ![p].due = @ \ {r}, ![p].fired = @ \cup runs, ![p].next[r] = NextAfter(tick[p].read[r], clock)]
  BY DEF Fire
<1>2. r \in tick[p].due /\ UNCHANGED <<routine, deleted, execs, replies, now, aborts>>
  BY DEF Fire
<1>3. PICK next : next = NextAfter(routine[r], clock)
  OBVIOUS
<1>4. /\ r \in tick[p].locked
      /\ tick[p].read[r] = routine[r] /\ Exists(r) /\ routine[r] \in RoutineRow /\ routine[r].next \in Nat
      /\ next \in Nat /\ Multiple(next, routine[r].trigger) /\ next > now - Skew
  BY <1>2, <1>3, Handling
<1>5. /\ runs \subseteq Execution
      /\ \A x \in runs : x.routine = r /\ x.slot = routine[r].next /\ x.key = None /\ x.at = now
                         /\ ~Taken(r, routine[r].next)
      /\ \A x, y \in runs : x = y
  BY <1>1, <1>4, Firing
<1>6. tick[p] \in Tick /\ tick \in [Replicas -> Tick]
  BY DEF Inv, TypeOK
<1>7. PICK t : t = [tick[p] EXCEPT !.due = @ \ {r}, !.fired = @ \cup runs, !.next[r] = next]
  OBVIOUS
<1>8. /\ t \in Tick
      /\ t.locked = tick[p].locked /\ t.due = tick[p].due \ {r} /\ t.read = tick[p].read
      /\ t.next[r] = next /\ \A q \in Routines \ {r} : t.next[q] = tick[p].next[q]
      /\ t.fired = tick[p].fired \cup runs
  <2>1. PICK old \in Tick : old = tick[p]
    BY <1>6
  <2>2. PICK nexts \in [Routines -> Nat \cup {None}] : nexts = [old.next EXCEPT ![r] = next]
    BY <1>4 DEF Tick
  <2>3. PICK a \in Tick : a = [old EXCEPT !.due = old.due \ {r}]
    BY TickFields DEF Tick
  <2>4. old.fired \cup runs \in SUBSET Execution
    BY <1>5 DEF Tick
  <2>5. PICK c \in Tick : c = [a EXCEPT !.fired = old.fired \cup runs]
    BY <2>4, TickFields
  <2>6. PICK u \in Tick : u = [c EXCEPT !.next = nexts]
    BY TickFields
  <2>7. t = u
    <3>1. a.fired = old.fired /\ c.next = old.next
      BY <2>3, <2>5 DEF Tick
    <3>2. t = [[a EXCEPT !.fired = old.fired \cup runs] EXCEPT !.next[r] = next]
      BY <1>7, <2>1, <2>3
    <3>3. t = [c EXCEPT !.next[r] = next]
      BY <2>5, <3>2
    <3> QED BY <2>2, <2>6, <3>1, <3>3
  <2>8. u.locked = old.locked /\ u.due = old.due \ {r} /\ u.read = old.read
        /\ u.next = nexts /\ u.fired = old.fired \cup runs
    BY <2>3, <2>5, <2>6 DEF Tick
  <2>9. nexts[r] = next /\ \A q \in Routines \ {r} : nexts[q] = old.next[q]
    BY <2>2 DEF Tick
  <2> QED BY <2>1, <2>7, <2>8, <2>9
<1>9. tick' \in [Replicas -> Tick] /\ tick'[p] = t /\ \A q \in Replicas \ {p} : tick'[q] = tick[q]
  <2>1. PICK a : a = [tick EXCEPT ![p].due = @ \ {r}]
    OBVIOUS
  <2>2. PICK c : c = [a EXCEPT ![p].fired = @ \cup runs]
    OBVIOUS
  <2>3. tick' = [c EXCEPT ![p].next[r] = next]
    BY <1>1, <1>3, <1>4, <2>1, <2>2
  <2>4. tick'[p] = t /\ DOMAIN tick' = Replicas /\ \A q \in Replicas \ {p} : tick'[q] = tick[q]
    BY <1>6, <1>7, <2>1, <2>2, <2>3
  <2>5. tick' = [q \in Replicas |-> tick'[q]]
    BY <1>6, <2>1, <2>2, <2>3
  <2> QED BY <1>6, <1>8, <2>4, <2>5
<1>10. TypeOK' /\ NeverBack' /\ KeysKept' /\ SlotFiredOnce' /\ NextFits' /\ KeyNamesOneExecution'
  BY <1>2, <1>9, TicksOnly DEF Inv, TypeOK
<1>11. LockedAsRead'
  BY <1>2, <1>8, <1>9 DEF Inv, LockedAsRead, Exists
<1>12. NextPrepared'
  <2>1. ASSUME NEW q \in Replicas \ {p}, NEW s \in tick[q].locked \ tick[q].due
        PROVE  /\ Multiple(tick[q].next[s], routine[s].trigger)
               /\ \A x \in execs \cup tick[q].fired :
                    x.routine = s /\ x.slot # None => LaterThan(tick[q].next[s], x.at)
    BY DEF Inv, NextPrepared
  <2>2. ASSUME NEW s \in t.locked \ t.due
        PROVE  /\ Multiple(t.next[s], routine[s].trigger)
               /\ \A x \in execs \cup t.fired : x.routine = s /\ x.slot # None => LaterThan(t.next[s], x.at)
    <3>1. CASE s # r
      <4>1. s \in tick[p].locked \ tick[p].due /\ t.next[s] = tick[p].next[s]
        BY <1>8, <2>2, <3>1, TickTyped
      <4> QED BY <1>5, <1>8, <3>1, <4>1 DEF Inv, NextPrepared
    <3>2. CASE s = r
      <4>1. \A x \in tick[p].fired : x.routine # r
        BY <1>2 DEF Inv, FiredOnce
      <4>2. \A x \in execs : x.slot # None => x.at <= now /\ x.at \in Nat
        BY DEF Inv, NeverBack, TypeOK, Execution
      <4>3. now \in Nat /\ Skew \in Nat
        BY Now, ClockAssumption
      <4> QED BY <1>4, <1>5, <1>8, <3>2, <4>1, <4>2, <4>3 DEF LaterThan
    <3> QED BY <3>1, <3>2
  <2> QED BY <1>2, <1>9, <2>1, <2>2 DEF NextPrepared, Multiple, LaterThan
<1>13. FiredOnce'
  <2>1. \A x \in tick[p].fired : x.routine # r
    BY <1>2 DEF Inv, FiredOnce
  <2>2. \A x, y \in t.fired : x.routine = y.routine => x = y
    BY <1>5, <1>8, <2>1 DEF Inv, FiredOnce
  <2>3. \A x \in t.fired : /\ x.routine \in t.locked \ t.due /\ x.slot = routine[x.routine].next
                           /\ x.key = None /\ x.at <= now /\ ~Taken(x.routine, x.slot)
    BY <1>4, <1>5, <1>8, <2>1, Now DEF Inv, FiredOnce
  <2> QED BY <1>2, <1>9, <2>2, <2>3 DEF Inv, FiredOnce, Taken
<1> QED BY <1>10, <1>11, <1>12, <1>13 DEF Inv

LEMMA NoTickTyped == NoTick \in Tick /\ NoTick.locked = {} /\ NoTick.due = {} /\ NoTick.fired = {}
BY DEF NoTick, Tick, Nothing

LEMMA AbortTickStep ==
  ASSUME Inv, NEW p \in Replicas, AbortTick(p)
  PROVE  Inv'
<1>1. tick' \in [Replicas -> Tick] /\ tick'[p] = NoTick /\ \A q \in Replicas \ {p} : tick'[q] = tick[q]
  BY NoTickTyped, OneTick DEF AbortTick
<1>2. UNCHANGED <<routine, deleted, execs, replies, now>> /\ aborts' \in 0 .. MaxAborts
  BY ClockAssumption DEF AbortTick, Inv, TypeOK
<1>3. TypeOK' /\ NeverBack' /\ KeysKept' /\ SlotFiredOnce' /\ NextFits' /\ KeyNamesOneExecution'
  BY <1>1, <1>2, TicksOnly
<1>4. LockedAsRead'
  BY <1>1, <1>2, NoTickTyped DEF Inv, LockedAsRead, Exists
<1>5. NextPrepared'
  BY <1>1, <1>2, NoTickTyped DEF Inv, NextPrepared, Multiple, LaterThan
<1>6. FiredOnce'
  BY <1>1, <1>2, NoTickTyped DEF Inv, FiredOnce, Taken
<1> QED BY <1>3, <1>4, <1>5, <1>6 DEF Inv

(* The commit: the next runs are stored and the executions inserted, of    *)
(* routines that nobody else had in hand.                                  *)
LEMMA Committed ==
  ASSUME Inv, NEW p \in Replicas, CommitTick(p)
  PROVE  /\ routine' \in [Routines -> RoutineRow \cup {None}]
         /\ \A r \in Routines :
              /\ Exists(r)' => Exists(r)
              /\ r \notin tick[p].locked => routine'[r] = routine[r]
              /\ r \in tick[p].locked =>
                   /\ Exists(r)
                   /\ routine'[r] = [routine[r] EXCEPT !.next = tick[p].next[r]]
                   /\ routine'[r].next = tick[p].next[r]
                   /\ routine'[r].token = routine[r].token
                   /\ routine'[r].trigger = routine[r].trigger /\ routine'[r].active = routine[r].active
         /\ tick' \in [Replicas -> Tick] /\ tick'[p] = NoTick
         /\ \A q \in Replicas \ {p} : tick'[q] = tick[q] /\ tick[q].locked \cap tick[p].locked = {}
         /\ execs' = execs \cup tick[p].fired
         /\ UNCHANGED <<deleted, replies, now, aborts>>
         /\ tick[p].due = {}
<1>1. /\ routine' = [r \in Routines |->
           IF r \in tick[p].locked /\ Exists(r) THEN [routine[r] EXCEPT !.next = tick[p].next[r]] ELSE routine[r]]
      /\ execs' = execs \cup tick[p].fired /\ tick' = [tick EXCEPT ![p] = NoTick]
      /\ UNCHANGED <<deleted, replies, now, aborts>> /\ tick[p].due = {}
  BY DEF CommitTick
<1>2. \A r \in tick[p].locked : r \in Routines /\ Exists(r)
  BY TickTyped DEF Inv, LockedAsRead
<1>3. ASSUME NEW r \in Routines, r \in tick[p].locked
      PROVE  /\ routine'[r] \in RoutineRow
             /\ routine'[r] = [routine[r] EXCEPT !.next = tick[p].next[r]]
             /\ routine'[r].next = tick[p].next[r] /\ routine'[r].token = routine[r].token
             /\ routine'[r].trigger = routine[r].trigger /\ routine'[r].active = routine[r].active
  <2>1. PICK row \in RoutineRow : row = routine[r]
    BY <1>2, <1>3, TypedRow DEF Inv
  <2>2. PICK next \in Nat \cup {None} : next = tick[p].next[r]
    BY <1>3, TickTyped
  <2>3. routine'[r] = [row EXCEPT !.next = next]
    BY <1>1, <1>2, <1>3, <2>1, <2>2
  <2>4. [row EXCEPT !.next = next] \in RoutineRow
    BY Fields
  <2>5. routine'[r].next = next /\ routine'[r].token = row.token
        /\ routine'[r].trigger = row.trigger /\ routine'[r].active = row.active
    BY <2>3 DEF RoutineRow
  <2> QED BY <2>1, <2>2, <2>3, <2>4, <2>5
<1>4. \A r \in Routines : r \notin tick[p].locked => routine'[r] = routine[r] /\ routine'[r] \in RoutineRow \cup {None}
  BY <1>1 DEF Inv, TypeOK
<1>5. routine' \in [Routines -> RoutineRow \cup {None}]
  <2>1. \A r \in Routines : routine'[r] \in RoutineRow \cup {None}
    BY <1>3, <1>4
  <2> QED BY <1>1, <2>1
<1>6. \A r \in Routines : Exists(r)' => Exists(r)
  BY <1>2, <1>4 DEF Exists
<1>7. tick' \in [Replicas -> Tick] /\ tick'[p] = NoTick /\ \A q \in Replicas \ {p} : tick'[q] = tick[q]
  BY <1>1, NoTickTyped, OneTick
<1>8. \A q \in Replicas \ {p} : tick[q].locked \cap tick[p].locked = {}
  BY DEF Inv, LockedAsRead
<1> QED BY <1>1, <1>2, <1>3, <1>4, <1>5, <1>6, <1>7, <1>8

LEMMA CommitTickStep ==
  ASSUME Inv, NEW p \in Replicas, CommitTick(p)
  PROVE  Inv'
<1> DEFINE L == tick[p].locked
           F == tick[p].fired
<1>1. /\ routine' \in [Routines -> RoutineRow \cup {None}]
      /\ \A r \in Routines : Exists(r)' => Exists(r)
      /\ \A r \in Routines : r \notin L => routine'[r] = routine[r]
      /\ \A r \in Routines : r \in L =>
           /\ Exists(r)
           /\ routine'[r].next = tick[p].next[r]
           /\ routine'[r].token = routine[r].token
           /\ routine'[r].trigger = routine[r].trigger /\ routine'[r].active = routine[r].active
      /\ tick' \in [Replicas -> Tick] /\ tick'[p] = NoTick
      /\ \A q \in Replicas \ {p} : tick'[q] = tick[q] /\ tick[q].locked \cap L = {}
      /\ execs' = execs \cup F
      /\ UNCHANGED <<deleted, replies, now, aborts>>
      /\ tick[p].due = {}
  BY Committed
<1>2. L \subseteq Routines /\ F \subseteq Execution
  BY TickTyped
<1>3. \A x \in F : /\ x.routine \in L /\ x.slot = routine[x.routine].next /\ x.key = None /\ x.at <= now
                   /\ ~Taken(x.routine, x.slot)
  BY DEF Inv, FiredOnce
<1>4. \A r \in L : /\ Multiple(tick[p].next[r], routine[r].trigger)
                   /\ \A x \in execs \cup F : x.routine = r /\ x.slot # None => LaterThan(tick[p].next[r], x.at)
  BY <1>1 DEF Inv, NextPrepared
<1> HIDE DEF L, F
<1>5. TypeOK'
  <2>1. \A r \in Routines : routine'[r] # None /\ routine'[r].trigger = "webhook" => routine'[r].token # 0
    BY <1>1 DEF Inv, TypeOK, Exists
  <2> QED BY <1>1, <1>2, <2>1 DEF Inv, TypeOK
<1>6. \A q \in Replicas \ {p} : \A r \in tick[q].locked : r \in Routines /\ r \notin L /\ routine'[r] = routine[r]
  BY <1>1, TickTyped
<1>7. LockedAsRead'
  BY <1>1, <1>6, NoTickTyped DEF Inv, LockedAsRead, Exists
<1>8. NextPrepared'
  <2> SUFFICES ASSUME NEW q \in Replicas \ {p}, NEW r \in tick[q].locked \ tick[q].due
               PROVE  /\ Multiple(tick[q].next[r], routine[r].trigger)
                      /\ \A x \in execs' \cup tick[q].fired :
                           x.routine = r /\ x.slot # None => LaterThan(tick[q].next[r], x.at)
    BY <1>1, <1>6, NoTickTyped DEF NextPrepared, Multiple, LaterThan
  <2>1. r \notin L
    BY <1>6
  <2>2. \A x \in F : x.routine # r
    BY <1>3, <2>1
  <2> QED BY <1>1, <2>2 DEF Inv, NextPrepared
<1>9. FiredOnce'
  <2>1. ASSUME NEW q \in Replicas \ {p}, NEW x \in tick[q].fired
        PROVE  /\ x.routine \in tick[q].locked \ tick[q].due /\ x.slot = routine'[x.routine].next
               /\ x.key = None /\ x.at <= now
               /\ ~ \E y \in execs' : y.routine = x.routine /\ y.slot = x.slot
    <3>1. /\ x.routine \in tick[q].locked \ tick[q].due /\ x.slot = routine[x.routine].next
          /\ x.key = None /\ x.at <= now /\ ~Taken(x.routine, x.slot)
      BY DEF Inv, FiredOnce
    <3>2. \A y \in F : y.routine # x.routine
      BY <1>3, <1>6, <3>1
    <3> QED BY <1>1, <1>6, <3>1, <3>2 DEF Taken
  <2>2. \A q \in Replicas \ {p} : \A x, y \in tick[q].fired : x.routine = y.routine => x = y
    BY DEF Inv, FiredOnce
  <2> QED BY <1>1, <2>1, <2>2, NoTickTyped DEF FiredOnce, Taken
<1>10. NeverBack'
  <2> SUFFICES ASSUME NEW x \in execs', x.slot # None
               PROVE  x.at <= now /\ (routine'[x.routine] # None => LaterThan(routine'[x.routine].next, x.at))
    BY <1>1 DEF NeverBack, Exists, LaterThan
  <2>1. x \in execs \cup F /\ x.routine \in Routines
    BY <1>1, <1>2 DEF Inv, TypeOK, Execution
  <2>2. x.at <= now
    BY <1>3, <2>1 DEF Inv, NeverBack
  <2>3. CASE x.routine \in L
    BY <1>1, <1>4, <2>1, <2>2, <2>3
  <2>4. CASE x.routine \notin L
    BY <1>1, <1>3, <2>1, <2>2, <2>4 DEF Inv, NeverBack, Exists
  <2> QED BY <2>3, <2>4
<1>11. KeysKept'
  BY <1>1, <1>3 DEF Inv, KeysKept, TypeOK
<1>12. SlotFiredOnce'
  <2>1. \A x, y \in F : x.routine = y.routine => x = y
    BY DEF Inv, FiredOnce, F
  <2>2. \A x \in F, y \in execs : x.routine # y.routine \/ x.slot # y.slot
    BY <1>3 DEF Taken
  <2> QED BY <1>1, <2>1, <2>2 DEF Inv, SlotFiredOnce
<1>13. NextFits'
  <2> SUFFICES ASSUME NEW r \in Routines, routine'[r] # None
               PROVE  IF routine'[r].active /\ routine'[r].trigger \in Crons
                        THEN Multiple(routine'[r].next, routine'[r].trigger) ELSE routine'[r].next = None
    BY DEF NextFits, Exists, Multiple
  <2>1. CASE r \notin L
    BY <1>1, <2>1 DEF Inv, NextFits, Exists, Multiple
  <2>2. CASE r \in L
    <3>1. routine[r].next # None
      BY <2>2 DEF Inv, LockedAsRead, L
    <3>2. routine[r].active /\ routine[r].trigger \in Crons
      BY <1>1, <2>2, <3>1 DEF Inv, NextFits
    <3> QED BY <1>1, <1>4, <2>2, <3>2
  <2> QED BY <2>1, <2>2
<1>14. KeyNamesOneExecution'
  BY <1>1 DEF Inv, KeyNamesOneExecution
<1> QED BY <1>5, <1>7, <1>8, <1>9, <1>10, <1>11, <1>12, <1>13, <1>14 DEF Inv

LEMMA TimePassesStep ==
  ASSUME Inv, TimePasses
  PROVE  Inv'
<1>1. now \in Nat /\ now' = now + 1 /\ now' \in 0 .. MaxTime
      /\ UNCHANGED <<routine, deleted, execs, tick, replies, aborts>>
  BY Now, ClockAssumption DEF TimePasses
<1>2. \A x \in Execution : x.at <= now => x.at <= now'
  BY <1>1 DEF Execution
<1>3. TypeOK'
  BY <1>1 DEF Inv, TypeOK
<1>4. LockedAsRead' /\ NextPrepared'
  BY <1>1 DEF Inv, LockedAsRead, NextPrepared, Exists, Multiple, LaterThan
<1>5. FiredOnce'
  BY <1>1, <1>2, TickTyped DEF Inv, FiredOnce, Taken
<1>6. NeverBack'
  BY <1>1, <1>2 DEF Inv, NeverBack, TypeOK, Exists, LaterThan
<1>7. KeysKept' /\ SlotFiredOnce' /\ NextFits' /\ KeyNamesOneExecution'
  BY <1>1 DEF Inv, KeysKept, SlotFiredOnce, NextFits, KeyNamesOneExecution, Exists
<1> QED BY <1>3, <1>4, <1>5, <1>6, <1>7 DEF Inv

LEMMA Stutter == ASSUME Inv, UNCHANGED vars PROVE Inv'
<1>1. TypeOK' /\ LockedAsRead' /\ NextPrepared'
  BY DEF vars, Inv, TypeOK, LockedAsRead, NextPrepared, Exists, Multiple, LaterThan
<1>2. FiredOnce' /\ NeverBack' /\ KeysKept'
  BY DEF vars, Inv, FiredOnce, NeverBack, KeysKept, Exists, LaterThan, Taken
<1>3. SlotFiredOnce' /\ NextFits' /\ KeyNamesOneExecution'
  BY DEF vars, Inv, SlotFiredOnce, NextFits, KeyNamesOneExecution, Exists
<1> QED BY <1>1, <1>2, <1>3 DEF Inv

-----------------------------------------------------------------------------
(* The theorems.                                                           *)

LEMMA InvInit == ASSUME Init PROVE Inv
<1>1. TypeOK
  BY NoTickTyped, ClockAssumption DEF Init, TypeOK
<1>2. \A p \in Replicas : tick[p] = NoTick
  BY DEF Init
<1>3. LockedAsRead /\ NextPrepared /\ FiredOnce
  BY <1>2, NoTickTyped DEF LockedAsRead, NextPrepared, FiredOnce
<1>4. NeverBack /\ KeysKept /\ SlotFiredOnce /\ NextFits /\ KeyNamesOneExecution
  BY DEF Init, NeverBack, KeysKept, SlotFiredOnce, NextFits, KeyNamesOneExecution, Exists
<1> QED BY <1>1, <1>3, <1>4 DEF Inv

LEMMA InvNext == ASSUME Inv, [Next]_vars PROVE Inv'
<1>1. ASSUME NEW r \in Routines,
             \/ \E definition \in Definitions, trigger \in Trigger : Create(r, definition, trigger)
             \/ Update(r) \/ SetActive(r) \/ Rotate(r) \/ Delete(r)
      PROVE  Inv'
  BY <1>1, CreateStep, UpdateStep, SetActiveStep, RotateStep, DeleteStep
<1>2. ASSUME NEW r \in Routines, NEW key \in Keys \cup {None},
             TriggerManually(r, key) \/ \E token \in 1 .. MaxVersion : CallWebhook(r, token, key)
      PROVE  Inv'
  BY <1>2, StartRunStep DEF TriggerManually, CallWebhook
<1>3. ASSUME NEW p \in Replicas,
             StartTick(p) \/ (\E r \in Routines : Fire(p, r)) \/ CommitTick(p) \/ AbortTick(p)
      PROVE  Inv'
  BY <1>3, StartTickStep, FireStep, CommitTickStep, AbortTickStep
<1>4. CASE TimePasses
  BY <1>4, TimePassesStep
<1>5. CASE UNCHANGED vars
  BY <1>5, Stutter
<1> QED BY <1>1, <1>2, <1>3, <1>4, <1>5 DEF Next

(* Type correctness, together with all that it takes to prove the others.  *)
THEOREM Invariant == Spec => []Inv
<1> QED BY InvInit, InvNext, PTL DEF Spec

(* No slot of a routine is fired twice, by whatever replicas, and whatever *)
(* a change of the routine makes of its next run: createExecution finds    *)
(* the slot taken, and the lock keeps others from inserting in between.    *)
THEOREM SlotsFiredOnce == Spec => []SlotFiredOnce
<1>1. Inv => SlotFiredOnce
  BY DEF Inv
<1> QED BY Invariant, <1>1, PTL

(* next_run_at belongs to the schedule the routine has now: what a tick    *)
(* prepares fits the row as it is until the tick commits.                  *)
THEOREM NextRunsFit == Spec => []NextFits
<1>1. Inv => NextFits
  BY DEF Inv
<1> QED BY Invariant, <1>1, PTL

(* A key names one execution of one routine, for everyone who used it.     *)
THEOREM KeysNameOneExecution == Spec => []KeyNamesOneExecution
<1>1. Inv => KeyNamesOneExecution
  BY DEF Inv
<1> QED BY Invariant, <1>1, PTL

(* Missed slots are caught up on once, because the next run is always      *)
(* later than the time at which anything of the routine was fired, less    *)
(* the error of the clock (NeverBack).                                     *)
THEOREM MissedRunsCaughtUpOnce == Spec => CatchesUpOnce
<1> DEFINE A == \A x \in execs' \ execs, y \in execs :
                  x.slot # None /\ y.slot # None /\ x.routine = y.routine => x.slot > y.at - Skew
<1>1. Inv /\ [Next]_vars => A
  <2> SUFFICES ASSUME Inv, [Next]_vars, NEW x \in execs' \ execs, NEW y \in execs,
                      x.slot # None, y.slot # None, x.routine = y.routine
               PROVE  x.slot > y.at - Skew
    OBVIOUS
  <2>1. ASSUME NEW r \in Routines,
               \/ \E definition \in Definitions, trigger \in Trigger : Create(r, definition, trigger)
               \/ Update(r) \/ SetActive(r) \/ Rotate(r) \/ Delete(r)
        PROVE  FALSE
    BY <2>1 DEF Create, Update, SetActive, Rotate, Change, Delete
  <2>2. ASSUME NEW r \in Routines, NEW key \in Keys \cup {None}, StartRun(r, key)
        PROVE  FALSE
    BY <2>2 DEF StartRun, Accept
  <2>3. ASSUME NEW p \in Replicas, StartTick(p) \/ (\E r \in Routines : Fire(p, r)) \/ AbortTick(p)
        PROVE  FALSE
    BY <2>3 DEF StartTick, Fire, AbortTick
  <2>4. ASSUME NEW p \in Replicas, CommitTick(p)
        PROVE  x.slot > y.at - Skew
    <3>1. x \in tick[p].fired
      BY <2>4 DEF CommitTick
    <3>2. x.slot = routine[x.routine].next /\ Exists(x.routine)
      BY <3>1 DEF Inv, FiredOnce, LockedAsRead
    <3>3. LaterThan(routine[x.routine].next, y.at)
      BY <3>2 DEF Inv, NeverBack
    <3> QED BY <3>2, <3>3 DEF LaterThan
  <2>5. ~ TimePasses /\ ~ UNCHANGED vars
    BY DEF TimePasses, vars
  <2> QED BY <2>1, <2>2, <2>3, <2>4, <2>5 DEF Next, TriggerManually, CallWebhook
<1>2. Inv /\ [Next]_vars => [A]_vars
  BY <1>1
<1> QED BY Invariant, <1>2, PTL DEF Spec, CatchesUpOnce

(* Nothing but a rotation takes a webhook URL away.                        *)
THEOREM UrlsChangeByRotation == Spec => UrlChangesByRotation
<1> DEFINE Same(r) == Exists(r) /\ Exists(r)' /\ routine[r].token # 0 => routine'[r].token = routine[r].token
           Turned(r) == /\ routine[r].trigger = "webhook"
                        /\ routine'[r] = [routine[r] EXCEPT !.token = @ + 1, !.version = @ + 1]
           A == \A r \in Routines :
                  Exists(r) /\ Exists(r)' /\ routine[r].token \notin {0, routine'[r].token} => Turned(r)
<1>1. Inv /\ [Next]_vars => A
  <2> SUFFICES ASSUME Inv, [Next]_vars, NEW r \in Routines PROVE Same(r) \/ Turned(r)
    BY DEF Exists
  <2>1. UNCHANGED routine => Same(r)
    BY DEF Exists
  <2>2. ASSUME NEW q \in Routines, NEW definition \in Definitions, NEW trigger \in Trigger,
               Create(q, definition, trigger)
        PROVE  Same(r)
    BY <2>2 DEF Create, Exists, Inv, TypeOK
  <2>3. ASSUME NEW q \in Routines, NEW row, Change(q, row), r # q \/ routine[q].token = 0 \/ row.token = routine[q].token
        PROVE  Same(r)
    BY <2>3 DEF Change, Exists, Inv, TypeOK
  <2>4. ASSUME NEW q \in Routines, Update(q)
        PROVE  Same(r)
    <3>1. PICK definition \in Definitions, trigger \in Trigger, clock \in Clocks :
            Change(q, Updated(routine[q], definition, trigger, clock))
      BY <2>4 DEF Update
    <3>2. routine[q] \in RoutineRow /\ clock \in Nat
      BY <3>1, RowOfInv, ClockReads, Now DEF Change
    <3> QED BY <2>3, <3>1, <3>2, RowUpdated
  <2>5. ASSUME NEW q \in Routines, SetActive(q)
        PROVE  Same(r)
    <3>1. PICK active \in BOOLEAN, clock \in Clocks : Change(q, Activated(routine[q], active, clock))
      BY <2>5 DEF SetActive
    <3>2. routine[q] \in RoutineRow /\ (routine[q].trigger = "webhook" => routine[q].token # 0) /\ clock \in Nat
      BY <3>1, RowOfInv, ClockReads, Now DEF Change
    <3> QED BY <2>3, <3>1, <3>2, RowActivated
  <2>6. ASSUME NEW q \in Routines, Rotate(q)
        PROVE  Same(r) \/ Turned(r)
    <3>1. CASE r # q
      BY <2>3, <2>6, <3>1 DEF Rotate
    <3>2. CASE r = q
      BY <2>6, <3>2 DEF Rotate, Change, Rotated, Inv, TypeOK
    <3> QED BY <3>1, <3>2
  <2>7. ASSUME NEW q \in Routines, Delete(q)
        PROVE  Same(r)
    BY <2>7 DEF Delete, Exists, Inv, TypeOK
  <2>8. ASSUME NEW q \in Routines, NEW key \in Keys \cup {None}, StartRun(q, key)
        PROVE  Same(r)
    BY <2>1, <2>8 DEF StartRun
  <2>9. ASSUME NEW p \in Replicas, CommitTick(p)
        PROVE  Same(r)
    BY <2>9, Committed
  <2>10. ASSUME NEW p \in Replicas, StartTick(p) \/ (\E q \in Routines : Fire(p, q)) \/ AbortTick(p)
         PROVE  Same(r)
    BY <2>1, <2>10 DEF StartTick, Fire, AbortTick
  <2>11. ASSUME TimePasses \/ UNCHANGED vars
         PROVE  Same(r)
    BY <2>1, <2>11 DEF TimePasses, vars
  <2> HIDE DEF Same, Turned
  <2>12. ASSUME NEW q \in Routines,
                \/ \E definition \in Definitions, trigger \in Trigger : Create(q, definition, trigger)
                \/ Update(q) \/ SetActive(q) \/ Rotate(q) \/ Delete(q)
         PROVE  Same(r) \/ Turned(r)
    BY <2>2, <2>4, <2>5, <2>6, <2>7, <2>12
  <2> QED BY <2>8, <2>9, <2>10, <2>11, <2>12 DEF Next, TriggerManually, CallWebhook
<1>2. Inv /\ [Next]_vars => [A]_vars
  BY <1>1
<1> QED BY Invariant, <1>2, PTL DEF Spec, UrlChangesByRotation
=============================================================================
