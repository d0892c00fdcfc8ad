------------------------------- MODULE MCPages -------------------------------
(* The parts of the web client, side by side.  They share no state, so one *)
(* of them is at work in each behaviour while the others are at rest: one  *)
(* run checks each of them by itself.                                      *)
EXTENDS Editing, TaskPage, Inbox, Drafts, ScheduleForm, Session, Gateway, KeyCache, TLC

CONSTANTS l0, l1, t1, d1, d2

(* A routine without a schedule; a list with a task. *)
NoPeriods == [c \in {} |-> 1]
ListOfTask == t1 :> l1

Step(key, type, step, runIf, ref) == [key |-> key, type |-> type, step |-> step, runIf |-> runIf, ref |-> ref]
Definitions3 ==
  {<<>>,
   <<Step("a", "condition", 1, Nothing, Nothing), Step("b", "other", 3, "a", Nothing)>>,
   <<Step("a", "condition", 1, Nothing, Nothing), Step("b", "other", 1, Nothing, Nothing),
     Step("c", "other", 2, "a", "b")>>}

DefaultSchedule == Simple("daily", 3, 1, {1}, 2, "minutes")
TypedExpressions ==
  {Expression(s, m, h, d) : s \in {None5, Star, <<"at", 1>>, <<"list", 1, 3>>},
                            m \in {Star, <<"list", 1, 3, 5>>, <<"list", 0, 2, 5>>, <<"at", 2>>},
                            h \in {Star, <<"list", 0, 2>>, <<"list", 1, 2>>}, d \in {Star, <<"range">>}}

VARIABLE part

EditingAtRest == row = Inserted(d1, Kind) /\ editor = [e \in Editors |-> Closed] /\ foreign = [e \in Editors |-> FALSE]
TaskPageAtRest ==
  /\ list = [l \in PageLists |-> "there"] /\ task = [t \in PageTasks |-> "open"] /\ view = "open"
  /\ request = [q \in Requests |-> NoRequest] /\ made = 0 /\ trouble = 0 /\ exposed = FALSE
InboxAtRest == mailbox = [n \in Notes |-> "read"] /\ clicks = <<>> /\ incidents = 0 /\ missed = {}
DraftsAtRest == draft = <<>> /\ stored = <<>> /\ edits = 0
ScheduleAtRest == cron = ToCron(Default) /\ custom = FALSE /\ editing = FALSE
SessionAtRest ==
  /\ issued = <<0>> /\ kept = 0 /\ session = 0 /\ renewal = "off" /\ removing = FALSE
  /\ call = [c \in Calls |-> 0] /\ keycloak = TRUE /\ time = 0 /\ lastOutage = 0
GatewayAtRest ==
  /\ hop = [h \in Hops |-> NoHop] /\ backend = [b \in Backends |-> TRUE] /\ breaks = 0 /\ online = TRUE

KeysAtRest ==
  /\ published = {1} /\ reachable = TRUE /\ known = NeverFetched /\ unreachableUntil = 0 /\ ticks = 0
  /\ check = [r \in Checks |-> NoCheck]

PagesInit ==
  /\ part \in {"editing", "tasks", "inbox", "drafts", "schedule", "session", "gateway", "keys"}
  /\ IF part = "editing" THEN Init ELSE EditingAtRest
  /\ IF part = "tasks" THEN TaskPageInit ELSE TaskPageAtRest
  /\ IF part = "inbox" THEN InboxInit ELSE InboxAtRest
  /\ part \notin {"tasks", "inbox"} => PollingInit({}) /\ visible
  /\ IF part = "drafts" THEN DraftsInit ELSE DraftsAtRest
  /\ IF part = "schedule" THEN ScheduleInit ELSE ScheduleAtRest
  /\ IF part = "session" THEN SessionInit ELSE SessionAtRest
  /\ IF part = "gateway" THEN GatewayInit ELSE GatewayAtRest
  /\ IF part = "keys" THEN KeysInit ELSE KeysAtRest

PagesNext ==
  \/ part = "editing" /\ Next
     /\ UNCHANGED <<part, polling, page, inboxPage, draftVars, scheduleVars, sessionVars, gatewayVars, keyVars>>
  \/ part = "tasks" /\ TaskPageNext
     /\ UNCHANGED <<part, vars, inboxPage, draftVars, scheduleVars, sessionVars, gatewayVars, keyVars>>
  \/ part = "inbox" /\ InboxNext
     /\ UNCHANGED <<part, vars, page, draftVars, scheduleVars, sessionVars, gatewayVars, keyVars>>
  \/ part = "drafts" /\ DraftsNext
     /\ UNCHANGED <<part, vars, polling, page, inboxPage, scheduleVars, sessionVars, gatewayVars, keyVars>>
  \/ part = "schedule" /\ ScheduleNext
     /\ UNCHANGED <<part, vars, polling, page, inboxPage, draftVars, sessionVars, gatewayVars, keyVars>>
  \/ part = "session" /\ SessionNext
     /\ UNCHANGED <<part, vars, polling, page, inboxPage, draftVars, scheduleVars, gatewayVars, keyVars>>
  \/ part = "gateway" /\ GatewayNext
     /\ UNCHANGED <<part, vars, polling, page, inboxPage, draftVars, scheduleVars, sessionVars, keyVars>>
  \/ part = "keys" /\ KeysNext
     /\ UNCHANGED <<part, vars, polling, page, inboxPage, draftVars, scheduleVars, sessionVars, gatewayVars>>

PagesSpec ==
  /\ PagesInit
  /\ [][PagesNext]_<<part, vars, polling, page, inboxPage, draftVars, scheduleVars, sessionVars, gatewayVars, keyVars>>
  /\ TaskPageFairness
=============================================================================
