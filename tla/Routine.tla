------------------------------- MODULE Routine -------------------------------
(***************************************************************************)
(* One routine as a row of the table routines, and what the handlers of    *)
(* services/routine-service/src/api.ts make of it (the UPDATEs of          *)
(* store.ts).  The definition is one value; of it only the trigger is told *)
(* apart, because the schedule and the webhook depend on it.               *)
(***************************************************************************)
EXTENDS Integers

CONSTANTS
  Definitions,  \* what a user can have written: name, actions, icon, colour
  Crons,        \* the schedules a routine can have
  Period,       \* the distance between two occurrences of each schedule
  None

ASSUME PeriodAssumption == Period \in [Crons -> Nat \ {0}]
ASSUME TriggerAssumption == Crons \cap {"manual", "webhook"} = {} /\ None \notin Nat

Trigger == {"manual", "webhook"} \cup Crons

(* token: which of its webhook URLs is valid, 0 before there is one.       *)
RoutineRow ==
  [definition : Definitions, trigger : Trigger, active : BOOLEAN,
   next : Nat \cup {None}, token : Nat, version : Nat \ {0}]

(* The next occurrence strictly after the given time. *)
NextRun(cron, after) == (after \div Period[cron] + 1) * Period[cron]

FirstRun(trigger, active, clock) ==
  IF active /\ trigger \in Crons THEN NextRun(trigger, clock) ELSE None

(* tokenFor with COALESCE: a routine keeps the URL it had. *)
TokenForgotten(token, trigger) == IF trigger = "webhook" THEN token + 1 ELSE 0   \* mutant: no COALESCE
TokenFor(token, trigger) == IF trigger = "webhook" /\ token = 0 THEN 1 ELSE token

Inserted(definition, trigger) ==
  [definition |-> definition, trigger |-> trigger, active |-> FALSE, next |-> None,
   token |-> TokenFor(0, trigger), version |-> 1]

Updated(row, definition, trigger, clock) ==
  [row EXCEPT !.definition = definition, !.trigger = trigger,
              !.next = FirstRun(trigger, row.active, clock),
              !.token = TokenFor(@, trigger), !.version = @ + 1]

(* PATCH: icon and colour only; schedule and webhook stay untouched. *)
Restyled(row, definition) == [row EXCEPT !.definition = definition, !.version = @ + 1]

Activated(row, active, clock) ==
  [row EXCEPT !.active = active, !.next = FirstRun(row.trigger, active, clock), !.version = @ + 1]

Rotated(row) == [row EXCEPT !.token = @ + 1, !.version = @ + 1]
=============================================================================
