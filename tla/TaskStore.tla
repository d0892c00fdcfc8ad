------------------------------ MODULE TaskStore ------------------------------
(***************************************************************************)
(* The task service (services/task-service/src/main.ts).  Replicas handle  *)
(* the copies of the messages that ask for a task, and the requests of     *)
(* users, with one SQL statement after the other and no transaction around *)
(* them: lists come and go between two statements of a handler.            *)
(* Redelivery is the one of Delivery, as far as this service can tell it:  *)
(* a copy is handled again after a failure, at most MaxAttempts times.     *)
(***************************************************************************)
EXTENDS Integers, FiniteSets

CONSTANTS
  Owners,
  Actions,      \* the actions of routines that ask for a task
  Copies,       \* the copies of their messages
  ActionOf,     \* the action each copy is about
  Users,        \* HTTP requests that can be under way at a time
  MaxLists, MaxTasks,   \* bounds: lists and tasks that are ever created ...
  MaxPosts,     \* ... and tasks that users create
  MaxAttempts,  \* 1 + the number of retryDelaysMs
  MaxStoreFaults,    \* bound: crashes and results that are not confirmed
  None

ASSUME ActionOfAssumption == ActionOf \in [Copies -> Actions]
ASSUME NamesAssumption == Owners # {} /\ None \notin Actions
ASSUME StoreBoundsAssumption ==
  MaxLists \in Nat \ {0} /\ MaxTasks \in Nat /\ MaxPosts \in Nat /\ MaxAttempts \in Nat \ {0} /\ MaxStoreFaults \in Nat

VARIABLES
  lists,     \* task_lists, by number
  tasks,     \* tasks, by number
  command,   \* what each action asks for: its owner, and a list or None
  handler,   \* the handler of each copy and of each request
  named,     \* the results that were published: action, task
  storeFaults
taskStoreVars == <<lists, tasks, command, handler, named, storeFaults>>

ListIds == 1 .. MaxLists
TaskIds == 1 .. MaxTasks
TaskList == [at : {"free", "kept", "deleted"}, owner : Owners \cup {None}, default : BOOLEAN]
Task == [at : {"free", "kept", "deleted"}, owner : Owners \cup {None}, list : ListIds \cup {None},
         action : Actions \cup {None}]
FreeList == [at |-> "free", owner |-> None, default |-> FALSE]
FreeTask == [at |-> "free", owner |-> None, list |-> None, action |-> None]

(* step: the statement that comes next.  list, task: what the statements   *)
(* before it have found.                                                   *)
Handler ==
  [step : {"start", "look", "ensure", "default", "insert", "read", "report", "delete", "done"},
   owner : Owners \cup {None}, list : ListIds \cup {None}, task : TaskIds \cup {None},
   attempt : 1 .. MaxAttempts]
Start(attempt) == [step |-> "start", owner |-> None, list |-> None, task |-> None, attempt |-> attempt]

Kept(l) == lists[l].at = "kept"
Exists(t) == tasks[t].at = "kept"
Unused(table, ids) == CHOOSE i \in ids : table[i].at = "free"   \* gen_random_uuid
HasFree(table, ids) == \E i \in ids : table[i].at = "free"

(* One list that can be deleted, of some owner.                            *)
TaskStoreInit ==
  /\ lists = [l \in ListIds |->
                IF l = 1 THEN [at |-> "kept", owner |-> CHOOSE owner \in Owners : TRUE, default |-> FALSE] ELSE FreeList]
  /\ tasks = [t \in TaskIds |-> FreeTask]
  /\ command \in [Actions -> [owner : Owners, list : {1, None}]]
  /\ handler = [h \in Copies \cup Users |-> Start(1)]
  /\ named = {}
  /\ storeFaults = 0

Do(h, new) == handler' = [handler EXCEPT ![h] = new]
Goto(h, step) == Do(h, [handler[h] EXCEPT !.step = step])
At(h, step) == handler[h].step = step

-----------------------------------------------------------------------------
(* A message is delivered; parseCreateTask.  A failure goes to the retry   *)
(* queue, until onGiveUp announces ActionFailed.                           *)

Fail(c) ==
  IF handler[c].attempt < MaxAttempts THEN Do(c, Start(handler[c].attempt + 1)) ELSE Goto(c, "done")

Begin(c) ==
  /\ At(c, "start")
  /\ LET asked == command[ActionOf[c]]
     IN Do(c, [handler[c] EXCEPT !.step = IF asked.list = None THEN "ensure" ELSE "look",
                                 !.owner = asked.owner, !.list = asked.list])
  /\ UNCHANGED <<lists, tasks, command, named, storeFaults>>

(* The process is gone, or the publish was not confirmed. *)
Interrupted(c) ==
  /\ handler[c].step \notin {"start", "done"}
  /\ storeFaults < MaxStoreFaults /\ storeFaults' = storeFaults + 1
  /\ Fail(c)
  /\ UNCHANGED <<lists, tasks, command, named>>

-----------------------------------------------------------------------------
(* The statements.                                                         *)

Given(owner, l) == TRUE        \* mutant: the list is not looked up
Anybody(owner, l) == Kept(l)   \* mutant: the owner is not compared
(* ownedListId *)
Owned(owner, l) == Kept(l) /\ lists[l].owner = owner

(* A message goes to the default list instead, a request is refused (422). *)
Look(h) ==
  /\ At(h, "look")
  /\ IF Owned(handler[h].owner, handler[h].list) THEN Goto(h, "insert")
     ELSE IF h \in Copies THEN Goto(h, "ensure") ELSE Do(h, Start(1))
  /\ UNCHANGED <<lists, tasks, command, named, storeFaults>>

(* defaultListId: INSERT ... ON CONFLICT DO NOTHING, and the SELECT.       *)
DefaultOf(owner) == {l \in ListIds : Kept(l) /\ lists[l].default /\ lists[l].owner = owner}

Ensure(h) ==
  /\ At(h, "ensure")
  /\ Goto(h, "default")
  /\ IF DefaultOf(handler[h].owner) # {} THEN UNCHANGED lists
     ELSE /\ HasFree(lists, ListIds)
          /\ lists' = [lists EXCEPT ![Unused(lists, ListIds)] =
                         [at |-> "kept", owner |-> handler[h].owner, default |-> TRUE]]
  /\ UNCHANGED <<tasks, command, named, storeFaults>>

Default(h) ==
  /\ At(h, "default")
  /\ \E l \in DefaultOf(handler[h].owner) : Do(h, [handler[h] EXCEPT !.step = "insert", !.list = l])
  /\ UNCHANGED <<lists, tasks, command, named, storeFaults>>

NoneOf(action) == {}   \* mutant: source_action_id is not unique
TaskOf(action) == {t \in TaskIds : Exists(t) /\ tasks[t].action = action}

(* INSERT INTO tasks: refused silently when the action has its task, and   *)
(* with an error when the list is gone.                                    *)
NewTask(owner, l, action) ==
  /\ HasFree(tasks, TaskIds)
  /\ tasks' = [tasks EXCEPT ![Unused(tasks, TaskIds)] =
                 [at |-> "kept", owner |-> owner, list |-> l, action |-> action]]

InsertForAction(c) ==
  /\ At(c, "insert")
  /\ IF TaskOf(ActionOf[c]) # {} THEN Goto(c, "read") /\ UNCHANGED tasks
     ELSE IF Kept(handler[c].list)
       THEN /\ NewTask(handler[c].owner, handler[c].list, ActionOf[c])
            /\ Do(c, [handler[c] EXCEPT !.step = "report", !.task = Unused(tasks, TaskIds)])
       ELSE Fail(c) /\ UNCHANGED tasks
  /\ UNCHANGED <<lists, command, named, storeFaults>>

(* The task that was in the way - if it still is. *)
Read(c) ==
  /\ At(c, "read")
  /\ \/ \E t \in TaskOf(ActionOf[c]) : Do(c, [handler[c] EXCEPT !.step = "report", !.task = t])
     \/ TaskOf(ActionOf[c]) = {} /\ Fail(c)
  /\ UNCHANGED <<lists, tasks, command, named, storeFaults>>

(* publishResult *)
Report(c) ==
  /\ At(c, "report")
  /\ named' = named \cup {<<ActionOf[c], handler[c].task>>}
  /\ Goto(c, "done")
  /\ UNCHANGED <<lists, tasks, command, storeFaults>>

-----------------------------------------------------------------------------
(* Requests.                                                               *)

Posted == {t \in TaskIds : tasks[t].at # "free" /\ tasks[t].action = None}

PostTask(u, owner, l) ==
  /\ At(u, "start")
  /\ Cardinality(Posted) < MaxPosts
  /\ Do(u, [handler[u] EXCEPT !.step = IF l = None THEN "ensure" ELSE "look", !.owner = owner, !.list = l])
  /\ UNCHANGED <<lists, tasks, command, named, storeFaults>>

InsertForUser(u) ==
  /\ At(u, "insert")
  /\ Do(u, Start(1))
  /\ IF Kept(handler[u].list) THEN NewTask(handler[u].owner, handler[u].list, None) ELSE UNCHANGED tasks
  /\ UNCHANGED <<lists, command, named, storeFaults>>

(* DELETE: the SELECT answers 404 or 409; then the list and its tasks go.  *)
DeleteList(u, owner, l) ==
  /\ At(u, "start")
  /\ Owned(owner, l) /\ ~lists[l].default
  /\ Do(u, [handler[u] EXCEPT !.step = "delete", !.list = l])
  /\ UNCHANGED <<lists, tasks, command, named, storeFaults>>

Cascade(u) ==
  /\ At(u, "delete")
  /\ lists' = [lists EXCEPT ![handler[u].list].at = "deleted"]
  /\ tasks' = [t \in TaskIds |-> IF Exists(t) /\ tasks[t].list = handler[u].list
                                   THEN [tasks[t] EXCEPT !.at = "deleted"] ELSE tasks[t]]
  /\ Do(u, Start(1))
  /\ UNCHANGED <<command, named, storeFaults>>

CopyStep(c) ==
  Begin(c) \/ Look(c) \/ Ensure(c) \/ Default(c) \/ InsertForAction(c) \/ Read(c) \/ Report(c)
UserStep(u) == Look(u) \/ Ensure(u) \/ Default(u) \/ InsertForUser(u) \/ Cascade(u)

TaskStoreNext ==
  \/ \E c \in Copies : CopyStep(c) \/ Interrupted(c)
  \/ \E u \in Users : UserStep(u)
  \/ \E u \in Users, owner \in Owners :
       \E l \in ListIds : PostTask(u, owner, l) \/ PostTask(u, owner, None) \/ DeleteList(u, owner, l)

TaskStoreFairness == \A c \in Copies : WF_taskStoreVars(CopyStep(c))
TaskStoreSpec == TaskStoreInit /\ [][TaskStoreNext]_taskStoreVars /\ TaskStoreFairness

-----------------------------------------------------------------------------
(* Every task is in a list that is there and belongs to the owner of the   *)
(* task - with lists that are deleted, or are somebody else's, by the time *)
(* the task is inserted.                                                   *)
TaskIsWithItsOwner ==
  \A t \in TaskIds : Exists(t) => Kept(tasks[t].list) /\ lists[tasks[t].list].owner = tasks[t].owner

(* "Idempotent": all results of an action name the same task, whoever      *)
(* handled the copies of its message - unless the task was deleted with    *)
(* its list in between.                                                    *)
ResultNamesItsTask ==
  \A a \in Actions, t1, t2 \in TaskIds :
    <<a, t1>> \in named /\ <<a, t2>> \in named /\ t1 # t2 => ~(Exists(t1) /\ Exists(t2))

(* "A list that was deleted ... is no reason to lose the task": whatever   *)
(* happens to the lists meanwhile, an action is answered with a task.      *)
ActionGetsItsTask == <>[](\A a \in Actions : \E t \in TaskIds : <<a, t>> \in named)
=============================================================================
