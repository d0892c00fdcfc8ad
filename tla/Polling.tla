------------------------------- MODULE Polling -------------------------------
(***************************************************************************)
(* usePolling of the web client (web/src/hooks.ts): a page asks for its    *)
(* resources again and again while its tab is visible, changes what it     *)
(* shows before the server has agreed, and asks at once after a change.    *)
(* The operators describe the step of one resource; the pages compose them *)
(* with what else happens in the step.                                     *)
(***************************************************************************)
EXTENDS Integers, Sequences, FiniteSets

CONSTANT Unknown   \* what a page shows before its first answer

VARIABLES
  poll,      \* the state of usePolling for each resource
  visible    \* is the tab visible?
polling == <<poll, visible>>

(* phase: the timer runs, or a request is under way.  stale: mutate was    *)
(* called since it was sent (generation).  restart: reload was called and  *)
(* its effect has not run yet.                                             *)
Starting == [phase |-> "waiting", data |-> Unknown, answer |-> Unknown, stale |-> FALSE,
             restart |-> FALSE, error |-> FALSE]

PollingInit(resources) ==
  /\ poll = [r \in resources |-> Starting]
  /\ visible \in BOOLEAN

Loaded(r) == poll[r].data # Unknown

(* Hidden tabs load once and pause then. *)
MayAsk(r) == visible \/ ~Loaded(r)

(* The timer is over (or the page is opened), and run asks.                *)
Ask(r) ==
  /\ poll[r].phase = "waiting"
  /\ MayAsk(r)
  /\ poll' = [poll EXCEPT ![r].phase = "sent"]

RestartBesides(r) ==   \* mutant: the request under way is not cancelled
  /\ poll[r].restart
  /\ poll' = [poll EXCEPT ![r].restart = FALSE,
                          ![r].phase = IF @ = "waiting" /\ MayAsk(r) THEN "sent" ELSE @]

(* The effect of reload: the request under way is cancelled, run asks.     *)
Restart(r) ==
  /\ poll[r].restart
  /\ poll' = [poll EXCEPT ![r] = [@ EXCEPT !.phase = IF MayAsk(r) THEN "sent" ELSE "waiting",
                                           !.answer = Unknown, !.stale = FALSE, !.restart = FALSE]]

(* The service answers with what it stores, or the request fails.          *)
Serve(r, content) ==
  /\ poll[r].phase = "sent"
  /\ poll' = [poll EXCEPT ![r].phase = "answered", ![r].answer = IF poll[r].stale THEN Unknown ELSE content]

Break(r) ==
  /\ poll[r].phase = "sent"
  /\ poll' = [poll EXCEPT ![r].phase = "failed"]

(* An answer that was asked for before the last mutate is dropped.         *)
Arrived(p) ==
  LET seen == [p EXCEPT !.phase = "waiting", !.answer = Unknown, !.stale = FALSE]
  IN IF p.stale THEN seen ELSE [seen EXCEPT !.data = p.answer, !.error = FALSE]

ArriveFinally(r) ==   \* mutant: a failed request is the last one
  /\ poll[r].phase = "failed"
  /\ poll' = [poll EXCEPT ![r].phase = "stopped", ![r].error = TRUE]

(* A failure is shown and the data stays.                                  *)
ArriveFailed(r) ==
  /\ poll[r].phase = "failed"
  /\ poll' = [poll EXCEPT ![r].phase = "waiting", ![r].stale = FALSE, ![r].error = TRUE]

Turn == visible' = ~visible /\ UNCHANGED poll

(* mutate and reload, as functions of the state of one resource. *)
Mutated(p, data) ==
  [p EXCEPT !.data = IF @ = Unknown THEN @ ELSE data, !.stale = p.phase # "waiting", !.answer = Unknown]
Reloading(p) == [p EXCEPT !.restart = TRUE]

(* Nothing of the resource is under way. *)
AtRest(r) == poll[r].phase = "waiting" /\ ~poll[r].restart /\ ~poll[r].error /\ Loaded(r)
=============================================================================
