------------------------------ MODULE TaskPage ------------------------------
(***************************************************************************)
(* The page of tasks and lists (web/src/pages/Tasks.tsx) and the requests  *)
(* it makes, over what the task service stores for its user - which other  *)
(* clients and routines change, too.  A request is handled in one step of  *)
(* the service (TaskStore has the steps) and answered in a later one.      *)
(***************************************************************************)
EXTENDS Polling

CONSTANTS
  PageLists,     \* the lists there can be
  Todo,          \* the default list among them
  PageTasks,     \* the tasks there can be
  ListOf,        \* the list each task is put in
  Requests,      \* numbers for the page's requests under way
  Watched,       \* which resources are followed: sets of "tasks" and "lists"
  MaxRequests,   \* bound: how many requests the user makes
  MaxTrouble     \* bound: changes by others, lost requests and lost answers, together

ASSUME TodoAssumption == Todo \in PageLists
ASSUME ListOfAssumption == ListOf \in [PageTasks -> PageLists]
ASSUME WatchedAssumption == \A resources \in Watched : resources \subseteq {"tasks", "lists"}

VARIABLES
  list,      \* each list: not created yet, there, or deleted
  task,      \* each task: not created yet, open or done (a deleted list takes its tasks with it)
  view,      \* the list the page shows, or the smart list "open"
  request,   \* the page's requests
  made, trouble,   \* counters for the bounds
  exposed    \* history: did anything change that the page was not told of?
page == <<list, task, view, request, made, trouble, exposed>>
taskPageVars == <<polling, page>>

NoRequest == [phase |-> "none", kind |-> "toggle", item |-> Todo, done |-> FALSE]

TaskPageInit ==
  /\ \E resources \in Watched : PollingInit(resources)
  /\ list \in [PageLists -> {"new", "there"}] /\ list[Todo] = "there"
  /\ task \in [PageTasks -> {"new", "open"}] /\ \A t \in PageTasks : task[t] = "open" => list[ListOf[t]] = "there"
  /\ view = "open"
  /\ request = [q \in Requests |-> NoRequest]
  /\ made = 0 /\ trouble = 0
  /\ exposed = FALSE

ThereIs(t) == task[t] # "new" /\ list[ListOf[t]] = "there"
Content(r) ==
  IF r = "lists" THEN {l \in PageLists : list[l] = "there"}
  ELSE [t \in {u \in PageTasks : ThereIs(u)} |-> task[t] = "done"]

Shown(r) == poll[r].data
Followed == DOMAIN poll \cap {"tasks", "lists"}
ShownTasks == IF "tasks" \in Followed /\ Loaded("tasks") THEN DOMAIN Shown("tasks") ELSE {}
(* Lists that are not followed may show whatever there is or was, and the  *)
(* view any of them.                                                       *)
ShownLists ==
  IF "lists" \notin Followed THEN {l \in PageLists : list[l] # "new"}
  ELSE IF Loaded("lists") THEN Shown("lists") ELSE {}
Viewed(l) == view = l \/ "lists" \notin Followed
GoTo(v) == view' = IF "lists" \in Followed THEN v ELSE view

(* The effect that follows each change of the view and of the lists: a     *)
(* list that is not there any more gives way to "open".                    *)
Fallback(v, p) == IF v \in PageLists /\ p.data # Unknown /\ v \notin p.data THEN "open" ELSE v

-----------------------------------------------------------------------------
(* The user.                                                               *)

Free == {q \in Requests : request[q].phase = "none"}
NextRequest(q) == q \in Free /\ \A p \in Free : q <= p

Send(q, kind, item, done) ==
  /\ NextRequest(q)
  /\ made < MaxRequests
  /\ made' = made + 1
  /\ request' = [request EXCEPT ![q] = [phase |-> "sent", kind |-> kind, item |-> item, done |-> done]]
  /\ UNCHANGED <<list, task, view, trouble, exposed, visible>>

Ticked(p, t, done) == Mutated(p, IF t \in DOMAIN p.data THEN [p.data EXCEPT ![t] = done] ELSE p.data)

(* toggle: ticked at once, and the request follows. *)
Toggle(q, t) ==
  /\ t \in ShownTasks
  /\ Send(q, "toggle", t, ~Shown("tasks")[t])
  /\ poll' = [poll EXCEPT !["tasks"] = Ticked(@, t, ~@.data[t])]

(* removeList, from the menu of the list that is shown. *)
RemoveList(q, l) ==
  /\ l \in ShownLists \ {Todo}
  /\ Viewed(l)
  /\ Send(q, "remove", l, FALSE)
  /\ UNCHANGED poll

(* ListDialog, for a new list or the one that is shown. *)
SaveList(q, l) ==
  /\ list[l] = "new" \/ Viewed(l)
  /\ Send(q, "save", l, FALSE)
  /\ UNCHANGED poll

(* TaskDialog. *)
AddTask(q, t) ==
  /\ task[t] = "new"
  /\ ListOf[t] \in ShownLists \cup {Todo}
  /\ Send(q, "add", t, FALSE)
  /\ UNCHANGED poll

Select(v) ==
  /\ v \in ShownLists \cup {"open"}
  /\ GoTo(v)
  /\ UNCHANGED <<polling, list, task, request, made, trouble, exposed>>

-----------------------------------------------------------------------------
(* The service.                                                            *)

Possible(kind, item) ==
  CASE kind = "toggle" -> ThereIs(item)
    [] kind = "remove" -> list[item] = "there"
    [] kind = "save"   -> list[item] # "deleted"
    [] kind = "add"    -> list[ListOf[item]] = "there" /\ task[item] = "new"

Carry(kind, item, done) ==
  /\ list' = CASE kind = "remove" -> [list EXCEPT ![item] = "deleted"]
               [] kind = "save" -> [list EXCEPT ![item] = "there"]
               [] OTHER -> list
  /\ task' = CASE kind = "toggle" -> [task EXCEPT ![item] = IF done THEN "done" ELSE "open"]
               [] kind = "add" -> [task EXCEPT ![item] = "open"]
               [] OTHER -> task

Trouble == trouble < MaxTrouble /\ trouble' = trouble + 1

Reply(q, phase) == request' = [request EXCEPT ![q].phase = phase]
Sent(q) == request[q].phase = "sent"

Handle(q) ==
  /\ Sent(q)
  /\ LET it == request[q]
     IN IF Possible(it.kind, it.item)
          THEN Carry(it.kind, it.item, it.done) /\ Reply(q, "accepted")
          ELSE Reply(q, "refused") /\ UNCHANGED <<list, task>>
  /\ UNCHANGED <<polling, view, made, trouble, exposed>>

(* The request, or only its answer, is lost. *)
Lose(q) ==
  /\ Sent(q)
  /\ Trouble
  /\ \/ UNCHANGED <<list, task>>
     \/ Possible(request[q].kind, request[q].item) /\ Carry(request[q].kind, request[q].item, request[q].done)
  /\ Reply(q, "refused")
  /\ exposed' = TRUE
  /\ UNCHANGED <<polling, view, made>>

(* Another client, or a routine. *)
ChangeOutside ==
  /\ Trouble
  /\ \E kind \in {"toggle", "remove", "save", "add"}, item \in PageLists \cup PageTasks, done \in BOOLEAN :
       /\ (item \in PageTasks) = (kind \in {"toggle", "add"})
       /\ item # Todo
       /\ Possible(kind, item)
       /\ Carry(kind, item, done)
  /\ exposed' = TRUE
  /\ UNCHANGED <<polling, view, request, made>>

-----------------------------------------------------------------------------
(* What the page does with the answers to its requests.                    *)

Finish(q, phase, kind) ==
  /\ request[q].phase = phase
  /\ request[q].kind = kind
  /\ request' = [request EXCEPT ![q] = NoRequest]
  /\ UNCHANGED <<list, task, made, trouble, visible>>
  /\ phase = "accepted" \/ kind # "toggle" => UNCHANGED exposed

ReloadOf(resources) == [r \in DOMAIN poll |-> IF r \in resources THEN Reloading(poll[r]) ELSE poll[r]]

Toggled(q) ==
  /\ Finish(q, "accepted", "toggle")
  /\ poll' = ReloadOf({"tasks"})
  /\ UNCHANGED view

ToggleUndone(q) ==
  /\ Finish(q, "refused", "toggle")
  /\ poll' = [poll EXCEPT !["tasks"] = Ticked(@, request[q].item, ~request[q].done)]
  /\ exposed' = TRUE
  /\ UNCHANGED view

ListRemoved(q) ==
  /\ Finish(q, "accepted", "remove")
  /\ GoTo("open")
  /\ poll' = ReloadOf({"tasks", "lists"})

(* onSaved: the list is in the data before the view changes. *)
ListSaved(q) ==
  /\ Finish(q, "accepted", "save")
  /\ poll' = [poll EXCEPT !["lists"] = Reloading(Mutated(@, ShownLists \cup {request[q].item}))]
  /\ GoTo(request[q].item)

TaskAdded(q) ==
  /\ Finish(q, "accepted", "add")
  /\ poll' = ReloadOf({"tasks"})
  /\ UNCHANGED view

(* A toast, and the dialog stays open. *)
Refused(q) ==
  /\ \E kind \in {"remove", "save", "add"} : Finish(q, "refused", kind)
  /\ UNCHANGED <<poll, view>>

-----------------------------------------------------------------------------
(* The polls.                                                              *)

Arrive(r) ==
  /\ poll[r].phase = "answered"
  /\ poll' = [poll EXCEPT ![r] = Arrived(@)]
  /\ view' = IF r = "lists" THEN Fallback(view, poll'[r]) ELSE view
  /\ UNCHANGED <<visible, list, task, request, made, trouble, exposed>>

PollStep(r) ==
  /\ Ask(r) \/ Serve(r, Content(r)) \/ ArriveFailed(r)
  /\ UNCHANGED <<visible, page>>

Reload(r) ==
  /\ Restart(r)
  /\ exposed' = (exposed \/ ~MayAsk(r))
  /\ UNCHANGED <<visible, list, task, view, request, made, trouble>>

PollLost(r) ==
  /\ Break(r)
  /\ Trouble
  /\ UNCHANGED <<visible, list, task, view, request, made, exposed>>

TurnTab == Turn /\ UNCHANGED page

RequestStep(q) ==
  \/ Handle(q) \/ Toggled(q) \/ ToggleUndone(q) \/ ListRemoved(q) \/ ListSaved(q) \/ TaskAdded(q) \/ Refused(q)

TaskPageNext ==
  \/ \E q \in Requests :
       \/ \E t \in PageTasks : Toggle(q, t) \/ AddTask(q, t)
       \/ \E l \in PageLists : RemoveList(q, l) \/ SaveList(q, l)
       \/ RequestStep(q) \/ Lose(q)
  \/ \E v \in PageLists \cup {"open"} : Select(v)
  \/ ChangeOutside
  \/ \E r \in Followed : PollStep(r) \/ Reload(r) \/ Arrive(r) \/ PollLost(r)
  \/ TurnTab

(* Timers fire, requests are answered, effects run.  The user, others and  *)
(* the tab do what they like.                                              *)
PageProgress(r) == PollStep(r) \/ Reload(r) \/ Arrive(r)
TaskPageFairness ==
  /\ \A r \in {"tasks", "lists"} : WF_taskPageVars(r \in Followed /\ PageProgress(r))
  /\ \A q \in Requests : WF_taskPageVars(RequestStep(q))

TaskPageSpec == TaskPageInit /\ [][TaskPageNext]_taskPageVars /\ TaskPageFairness

-----------------------------------------------------------------------------
(* What a page shows at rest is what is stored - whatever it changed       *)
(* before it was allowed to, and in whichever order the answers to its     *)
(* polls and requests came - unless somebody else changed something, a     *)
(* request failed, or the tab was hidden when it should have asked again;  *)
(* then the next poll corrects it.                                         *)
PageTruthful ==
  \A r \in Followed :
    AtRest(r) /\ ~exposed /\ (\A q \in Requests : request[q].phase = "none") => Shown(r) = Content(r)

(* "The next poll confirms or corrects it": a page that stays visible      *)
(* shows in the end what is stored, without an error.                      *)
PageSettles ==
  <>[]visible => <>[](\A r \in Followed : Shown(r) = Content(r) /\ ~poll[r].error)
=============================================================================
