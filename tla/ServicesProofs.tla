---------------------------- MODULE ServicesProofs ----------------------------
(***************************************************************************)
(* What the task service promises although its handlers run one statement  *)
(* after the other and nothing holds the lists in between: for any number  *)
(* of owners, copies, requests and lists.  And what the notification       *)
(* service promises while the format of its events changes: for any number *)
(* of events, copies, replicas and deployments.                            *)
(***************************************************************************)
EXTENDS TaskStore, NotificationStore, Startup, FiniteSetTheorems, TLAPS

Handlers == Copies \cup Users

Types ==
  /\ lists \in [ListIds -> TaskList]
  /\ tasks \in [TaskIds -> Task]
  /\ command \in [Actions -> [owner : Owners, list : {1, None}]]
  /\ handler \in [Handlers -> Handler]

HasList == \A t \in TaskIds : Exists(t) => tasks[t].list \in ListIds

(* tasks_source_action_id is unique among the tasks that are there.        *)
OneTaskPerAction ==
  \A t, u \in TaskIds :
    Exists(t) /\ Exists(u) /\ tasks[t].action \in Actions /\ tasks[t].action = tasks[u].action => t = u

(* What a handler has found stays true but for the deletions: a list keeps *)
(* its owner, a task its action.                                           *)
MayInsert(x) == x.step = "insert" => x.list \in ListIds /\ lists[x.list].at # "free" /\ lists[x.list].owner = x.owner
MayLook(x) == x.step \in {"look", "delete"} => x.list \in ListIds
MayReport(c, x) ==
  x.step = "report" => x.task \in TaskIds /\ tasks[x.task].at # "free" /\ tasks[x.task].action = ActionOf[c]
Knows(h, x) == MayInsert(x) /\ MayLook(x) /\ (h \in Copies => MayReport(h, x))

NamesTheAction ==
  \A a \in Actions, t \in TaskIds : <<a, t>> \in named => tasks[t].at # "free" /\ tasks[t].action = a

Inv ==
  /\ Types
  /\ HasList
  /\ TaskIsWithItsOwner
  /\ OneTaskPerAction
  /\ NamesTheAction
  /\ \A h \in Handlers : Knows(h, handler[h])

-----------------------------------------------------------------------------
(* Steps of a handler that change no table. *)

LEMMA OneHandler ==
  ASSUME Inv, NEW h \in Handlers, NEW new \in Handler, Knows(h, new),
         handler' = [handler EXCEPT ![h] = new], UNCHANGED <<lists, tasks, command>>,
         NamesTheAction'
  PROVE  Inv'
<1>1. Types' /\ HasList' /\ TaskIsWithItsOwner' /\ OneTaskPerAction'
  BY DEF Inv, Types, HasList, TaskIsWithItsOwner, OneTaskPerAction, Exists, Kept
<1>2. ASSUME NEW g \in Handlers PROVE Knows(g, handler'[g])
  BY DEF Inv, Types
<1>3. \A g \in Handlers : Knows(g, handler[g])'
  BY <1>2 DEF Knows, MayInsert, MayLook, MayReport
<1> QED BY <1>1, <1>3 DEF Inv

LEMMA KeepsNames ==
  ASSUME Inv, UNCHANGED <<tasks, named>>
  PROVE  NamesTheAction'
  BY DEF Inv, NamesTheAction

LEMMA Starts ==
  ASSUME NEW attempt \in 1 .. MaxAttempts, NEW h \in Handlers
  PROVE  Start(attempt) \in Handler /\ Knows(h, Start(attempt))
  BY DEF Start, Handler, Knows, MayInsert, MayLook, MayReport

LEMMA HandlerSteps ==
  ASSUME NEW x \in Handler
  PROVE  /\ \A step \in {"start", "look", "ensure", "default", "insert", "read", "report", "delete", "done"} :
              [x EXCEPT !.step = step] \in Handler
         /\ \A owner \in Owners \cup {None} : [x EXCEPT !.owner = owner] \in Handler
         /\ \A l \in ListIds \cup {None} : [x EXCEPT !.list = l] \in Handler
         /\ \A t \in TaskIds \cup {None} : [x EXCEPT !.task = t] \in Handler
<1>1. ASSUME NEW step \in {"start", "look", "ensure", "default", "insert", "read", "report", "delete", "done"}
      PROVE  [x EXCEPT !.step = step] \in Handler
  BY DEF Handler
<1>2. ASSUME NEW owner \in Owners \cup {None} PROVE [x EXCEPT !.owner = owner] \in Handler
  BY DEF Handler
<1>3. ASSUME NEW l \in ListIds \cup {None} PROVE [x EXCEPT !.list = l] \in Handler
  BY DEF Handler
<1>4. ASSUME NEW t \in TaskIds \cup {None} PROVE [x EXCEPT !.task = t] \in Handler
  BY DEF Handler
<1> QED BY <1>1, <1>2, <1>3, <1>4

LEMMA StepAndList ==
  ASSUME NEW x \in Handler, NEW step \in {"look", "ensure", "insert", "delete"},
         NEW l \in ListIds \cup {None}
  PROVE  [x EXCEPT !.step = step, !.list = l] \in Handler
<1>1. [x EXCEPT !.step = step] \in Handler
  BY HandlerSteps
<1>2. [[x EXCEPT !.step = step] EXCEPT !.list = l] \in Handler
  BY <1>1, HandlerSteps
<1> QED BY <1>2

LEMMA StepOwnerAndList ==
  ASSUME NEW x \in Handler, NEW step \in {"look", "ensure"},
         NEW owner \in Owners, NEW l \in ListIds \cup {None}
  PROVE  [x EXCEPT !.step = step, !.owner = owner, !.list = l] \in Handler
<1>1. [x EXCEPT !.step = step] \in Handler
  BY HandlerSteps
<1>2. [[x EXCEPT !.step = step] EXCEPT !.owner = owner] \in Handler
  BY <1>1, HandlerSteps
<1>3. [[[x EXCEPT !.step = step] EXCEPT !.owner = owner] EXCEPT !.list = l] \in Handler
  BY <1>2, HandlerSteps
<1> QED BY <1>3

LEMMA StepAndTask ==
  ASSUME NEW x \in Handler, NEW t \in TaskIds
  PROVE  [x EXCEPT !.step = "report", !.task = t] \in Handler
<1>1. [x EXCEPT !.step = "report"] \in Handler
  BY HandlerSteps
<1>2. [[x EXCEPT !.step = "report"] EXCEPT !.task = t] \in Handler
  BY <1>1, HandlerSteps
<1> QED BY <1>2

LEMMA Typed ==
  ASSUME Inv, NEW h \in Handlers
  PROVE  handler[h] \in Handler /\ Knows(h, handler[h])
  BY DEF Inv, Types

(* The next statement is one that asks for nothing found before. *)
LEMMA Goes ==
  ASSUME Inv, NEW h \in Handlers, NEW step \in {"ensure", "default", "read", "done"},
         Goto(h, step), UNCHANGED <<lists, tasks, command>>, NamesTheAction'
  PROVE  Inv'
<1> DEFINE new == [handler[h] EXCEPT !.step = step]
<1>1. new \in Handler
  BY Typed, HandlerSteps
<1>2. new.step = step /\ handler' = [handler EXCEPT ![h] = new]
  BY Typed DEF Goto, Do, Handler
<1> HIDE DEF new
<1>3. Knows(h, new)
  BY <1>2 DEF Knows, MayInsert, MayLook, MayReport
<1> QED BY <1>1, <1>2, <1>3, OneHandler

(* A failure: the next attempt, or the end. *)
LEMMA Fails ==
  ASSUME Inv, NEW c \in Copies, Fail(c), UNCHANGED <<lists, tasks, command, named>>
  PROVE  Inv'
<1>1. NamesTheAction' /\ c \in Handlers
  BY KeepsNames DEF Handlers
<1>2. CASE handler[c].attempt < MaxAttempts
  <2>1. handler[c].attempt + 1 \in 1 .. MaxAttempts
    BY <1>1, <1>2, Typed, StoreBoundsAssumption DEF Handler
  <2>2. handler' = [handler EXCEPT ![c] = Start(handler[c].attempt + 1)]
    BY <1>2 DEF Fail, Do
  <2> QED BY <1>1, <2>1, <2>2, Starts, OneHandler
<1>3. CASE ~(handler[c].attempt < MaxAttempts)
  BY <1>1, <1>3, Goes DEF Fail
<1> QED BY <1>2, <1>3

(* A task that is there has a list. *)
LEMMA ListsOfTasks ==
  ASSUME Inv, NEW t \in TaskIds, Exists(t)
  PROVE  tasks[t].list \in ListIds
  BY DEF Inv, HasList

-----------------------------------------------------------------------------
LEMMA InitInv == TaskStoreInit => Inv
<1> SUFFICES ASSUME TaskStoreInit PROVE Inv
  OBVIOUS
<1>1. 1 \in 1 .. MaxAttempts /\ 1 \in ListIds
  BY StoreBoundsAssumption DEF ListIds
<1>2. lists \in [ListIds -> TaskList]
  <2>1. (CHOOSE owner \in Owners : TRUE) \in Owners
    BY NamesAssumption
  <2> QED BY <2>1 DEF TaskStoreInit, TaskList, FreeList
<1>3. tasks \in [TaskIds -> Task] /\ \A t \in TaskIds : tasks[t].at = "free"
  BY DEF TaskStoreInit, Task, FreeTask
<1>4. \A h \in Handlers : handler[h] = Start(1)
  BY DEF TaskStoreInit, Handlers
<1>5. \A h \in Handlers : handler[h] \in Handler /\ Knows(h, handler[h])
  BY <1>1, <1>4, Starts
<1>6. Types
  BY <1>2, <1>3, <1>5 DEF TaskStoreInit, Types, Handlers
<1>7. HasList /\ TaskIsWithItsOwner /\ OneTaskPerAction /\ NamesTheAction
  BY <1>3 DEF TaskStoreInit, HasList, TaskIsWithItsOwner, OneTaskPerAction, NamesTheAction, Exists
<1> QED BY <1>5, <1>6, <1>7 DEF Inv

-----------------------------------------------------------------------------
(* The statements that change a table. *)

(* A list comes, under an identifier that no task and no handler knows.    *)
LEMMA NewList ==
  ASSUME Inv, NEW l \in ListIds, lists[l].at = "free",
         NEW owner \in Owners \cup {None},
         lists' = [lists EXCEPT ![l] = [at |-> "kept", owner |-> owner, default |-> TRUE]],
         NEW h \in Handlers, Goto(h, "default"), UNCHANGED <<tasks, command, named>>
  PROVE  Inv'
<1> DEFINE new == [handler[h] EXCEPT !.step = "default"]
<1>1. new \in Handler
  BY Typed, HandlerSteps
<1>2. new.step = "default" /\ handler' = [handler EXCEPT ![h] = new]
  BY Typed DEF Goto, Do, Handler
<1> HIDE DEF new
<1>3. [at |-> "kept", owner |-> owner, default |-> TRUE] \in TaskList
  BY DEF TaskList
<1>4. Types'
  BY <1>1, <1>2, <1>3 DEF Inv, Types
<1>5. \A k \in ListIds : lists[k].at # "free" => lists'[k] = lists[k]
  BY DEF Inv, Types
<1>6. TaskIsWithItsOwner'
  <2> SUFFICES ASSUME NEW t \in TaskIds, Exists(t)'
               PROVE  lists'[tasks[t].list].at = "kept" /\ lists'[tasks[t].list].owner = tasks[t].owner
    BY DEF TaskIsWithItsOwner, Kept
  <2>1. Exists(t) /\ Kept(tasks[t].list) /\ lists[tasks[t].list].owner = tasks[t].owner
    BY DEF Inv, TaskIsWithItsOwner, Exists
  <2>2. CASE tasks[t].list \in ListIds
    BY <1>5, <2>1, <2>2 DEF Kept
  <2> QED BY <2>1, <2>2, ListsOfTasks
<1>7. HasList' /\ OneTaskPerAction' /\ NamesTheAction'
  BY DEF Inv, HasList, OneTaskPerAction, NamesTheAction, Exists
<1>8. \A g \in Handlers : Knows(g, handler[g])'
  <2> SUFFICES ASSUME NEW g \in Handlers PROVE Knows(g, handler[g])'
    OBVIOUS
  <2>1. CASE g = h
    BY <1>2, <2>1 DEF Inv, Types, Knows, MayInsert, MayLook, MayReport
  <2>2. CASE g # h
    BY <1>2, <1>5, <2>2 DEF Inv, Types, Knows, MayInsert, MayLook, MayReport
  <2> QED BY <2>1, <2>2
<1> QED BY <1>4, <1>6, <1>7, <1>8 DEF Inv

(* A task comes, into a list that is there and belongs to its owner.       *)
LEMMA InsertedTask ==
  ASSUME Inv, NEW h \in Handlers, handler[h].step = "insert", Kept(handler[h].list),
         NEW action \in Actions \cup {None}, action \in Actions => TaskOf(action) = {},
         NEW t \in TaskIds, tasks[t].at = "free",
         tasks' = [tasks EXCEPT ![t] = [at |-> "kept", owner |-> handler[h].owner, list |-> handler[h].list,
                                        action |-> action]],
         NEW new \in Handler, handler' = [handler EXCEPT ![h] = new],
         new.step \in {"start", "report"},
         new.step = "report" /\ h \in Copies => new.task = t /\ action = ActionOf[h],
         UNCHANGED <<lists, command, named>>
  PROVE  Inv'
<1>1. /\ handler[h].list \in ListIds /\ lists[handler[h].list].owner = handler[h].owner
      /\ handler[h].owner \in Owners \cup {None}
  BY Typed DEF Knows, MayInsert, Handler
<1>2. [at |-> "kept", owner |-> handler[h].owner, list |-> handler[h].list, action |-> action] \in Task
  BY <1>1 DEF Task
<1>3. Types'
  BY <1>2 DEF Inv, Types
<1>4. /\ \A u \in TaskIds \ {t} : tasks'[u] = tasks[u]
      /\ tasks'[t].at = "kept" /\ tasks'[t].owner = handler[h].owner
      /\ tasks'[t].list = handler[h].list /\ tasks'[t].action = action
  BY DEF Inv, Types
<1>5. TaskIsWithItsOwner'
  <2> SUFFICES ASSUME NEW u \in TaskIds, Exists(u)'
               PROVE  Kept(tasks'[u].list) /\ lists[tasks'[u].list].owner = tasks'[u].owner
    BY DEF TaskIsWithItsOwner, Kept
  <2>1. CASE u = t
    BY <1>1, <1>4, <2>1
  <2>2. CASE u # t
    BY <1>4, <2>2 DEF Inv, TaskIsWithItsOwner, Exists
  <2> QED BY <2>1, <2>2
<1>6. OneTaskPerAction'
  <2>1. ASSUME action \in Actions, NEW u \in TaskIds \ {t}, Exists(u) PROVE tasks[u].action # action
    BY <2>1 DEF TaskOf
  <2>2. \A u \in TaskIds \ {t} : Exists(u)' => Exists(u)
    BY <1>4 DEF Exists
  <2> QED BY <1>4, <2>1, <2>2 DEF Inv, OneTaskPerAction
<1>7. HasList' /\ NamesTheAction'
  BY <1>1, <1>4 DEF Inv, HasList, NamesTheAction, Exists
<1>8. \A g \in Handlers : Knows(g, handler[g])'
  <2> SUFFICES ASSUME NEW g \in Handlers PROVE Knows(g, handler[g])'
    OBVIOUS
  <2>1. CASE g = h
    BY <1>4, <2>1 DEF Inv, Types, Knows, MayInsert, MayLook, MayReport
  <2>2. CASE g # h
    BY <1>4, <2>2 DEF Inv, Types, Knows, MayInsert, MayLook, MayReport
  <2> QED BY <2>1, <2>2
<1> QED BY <1>3, <1>5, <1>6, <1>7, <1>8 DEF Inv

(* A list goes, and its tasks with it. *)
LEMMA Cascaded ==
  ASSUME Inv, NEW u \in Users, Cascade(u)
  PROVE  Inv'
<1> DEFINE gone == handler[u].list
<1>1. /\ u \in Handlers /\ gone \in ListIds
      /\ lists' = [lists EXCEPT ![gone].at = "deleted"]
      /\ handler' = [handler EXCEPT ![u] = Start(1)]
      /\ tasks' = [t \in TaskIds |-> IF Exists(t) /\ tasks[t].list = gone
                                       THEN [tasks[t] EXCEPT !.at = "deleted"] ELSE tasks[t]]
      /\ UNCHANGED <<command, named>>
  <2>1. u \in Handlers
    BY DEF Handlers
  <2>2. gone \in ListIds
    BY <2>1, Typed DEF Cascade, At, Knows, MayLook
  <2> QED BY <2>1, <2>2 DEF Cascade, Do
<1>2. 1 \in 1 .. MaxAttempts
  BY StoreBoundsAssumption
<1>3. Start(1) \in Handler
  BY <1>1, <1>2, Starts
<1>4. /\ lists' \in [ListIds -> TaskList]
      /\ \A l \in ListIds : lists'[l].owner = lists[l].owner /\ (lists[l].at # "free" => lists'[l].at # "free")
      /\ \A l \in ListIds \ {gone} : lists'[l] = lists[l]
  <2>1. [lists[gone] EXCEPT !.at = "deleted"] \in TaskList
    BY <1>1 DEF Inv, Types, TaskList
  <2>2. lists' = [lists EXCEPT ![gone] = [lists[gone] EXCEPT !.at = "deleted"]]
    BY <1>1
  <2>3. [lists[gone] EXCEPT !.at = "deleted"].owner = lists[gone].owner
        /\ [lists[gone] EXCEPT !.at = "deleted"].at = "deleted"
    BY <1>1 DEF Inv, Types, TaskList
  <2> QED BY <1>1, <2>1, <2>2, <2>3 DEF Inv, Types
<1>5. ASSUME NEW t \in TaskIds
      PROVE  /\ tasks'[t] \in Task /\ tasks'[t].list = tasks[t].list /\ tasks'[t].owner = tasks[t].owner
             /\ tasks'[t].action = tasks[t].action
             /\ tasks[t].at # "free" => tasks'[t].at # "free"
             /\ Exists(t)' => Exists(t) /\ tasks[t].list # gone
  <2>1. tasks[t] \in Task
    BY DEF Inv, Types
  <2>2. CASE Exists(t) /\ tasks[t].list = gone
    <3>1. tasks'[t] = [tasks[t] EXCEPT !.at = "deleted"]
      BY <1>1, <2>2
    <3>2. tasks'[t] \in Task /\ tasks'[t].at = "deleted"
      BY <2>1, <3>1 DEF Task
    <3> QED BY <2>1, <3>1, <3>2 DEF Task, Exists
  <2>3. CASE ~(Exists(t) /\ tasks[t].list = gone)
    <3>1. tasks'[t] = tasks[t]
      BY <1>1, <2>3
    <3> QED BY <2>1, <2>3, <3>1 DEF Exists
  <2> QED BY <2>2, <2>3
<1>6. tasks' \in [TaskIds -> Task]
  BY <1>1, <1>5
<1>7. Types'
  BY <1>1, <1>3, <1>4, <1>6 DEF Inv, Types
<1>8. TaskIsWithItsOwner'
  <2> SUFFICES ASSUME NEW t \in TaskIds, Exists(t)'
               PROVE  lists'[tasks'[t].list].at = "kept" /\ lists'[tasks'[t].list].owner = tasks'[t].owner
    BY DEF TaskIsWithItsOwner, Kept
  <2>1. Exists(t) /\ tasks[t].list \in ListIds \ {gone}
    BY <1>5, ListsOfTasks
  <2> QED BY <1>4, <1>5, <2>1 DEF Inv, TaskIsWithItsOwner, Kept
<1>9. HasList' /\ OneTaskPerAction' /\ NamesTheAction'
  BY <1>1, <1>5 DEF Inv, HasList, OneTaskPerAction, NamesTheAction
<1>10. \A g \in Handlers : Knows(g, handler[g])'
  <2> SUFFICES ASSUME NEW g \in Handlers PROVE Knows(g, handler[g])'
    OBVIOUS
  <2>1. CASE g = u
    <3>1. handler'[g].step = "start"
      BY <1>1, <2>1 DEF Inv, Types, Start
    <3> QED BY <3>1 DEF Knows, MayInsert, MayLook, MayReport
  <2>2. CASE g # u
    <3>1. handler'[g] = handler[g] /\ Knows(g, handler[g])
      BY <1>1, <2>2 DEF Inv, Types
    <3> QED BY <1>4, <1>5, <3>1 DEF Knows, MayInsert, MayLook, MayReport
  <2> QED BY <2>1, <2>2
<1> QED BY <1>7, <1>8, <1>9, <1>10 DEF Inv

-----------------------------------------------------------------------------
LEMMA NextInv == Inv /\ [TaskStoreNext]_taskStoreVars => Inv'
<1> SUFFICES ASSUME Inv, [TaskStoreNext]_taskStoreVars PROVE Inv'
  OBVIOUS
<1> USE DEF Handlers
<1>1. ASSUME NEW c \in Copies, Begin(c) PROVE Inv'
  <2> DEFINE asked == command[ActionOf[c]]
  <2> DEFINE step == IF asked.list = None THEN "ensure" ELSE "look"
  <2> DEFINE new == [handler[c] EXCEPT !.step = step, !.owner = asked.owner, !.list = asked.list]
  <2>1. handler' = [handler EXCEPT ![c] = new] /\ UNCHANGED <<lists, tasks, command, named>>
    BY <1>1 DEF Begin, Do
  <2>2. asked.owner \in Owners /\ asked.list \in ListIds \cup {None}
    <3>1. ActionOf[c] \in Actions
      BY ActionOfAssumption
    <3>2. asked \in [owner : Owners, list : {1, None}]
      BY <3>1 DEF Inv, Types
    <3> QED BY <3>2, StoreBoundsAssumption DEF ListIds
  <2>3. step \in {"look", "ensure"}
    OBVIOUS
  <2>4. new \in Handler
    <3> HIDE DEF step, asked
    <3> QED BY <2>2, <2>3, Typed, StepOwnerAndList
  <2>5. new.step = step /\ new.list = asked.list
    BY Typed DEF Handler
  <2>6. Knows(c, new)
    <3> HIDE DEF new
    <3> QED BY <2>2, <2>5 DEF Knows, MayInsert, MayLook, MayReport
  <2> HIDE DEF new
  <2> QED BY <2>1, <2>4, <2>6, KeepsNames, OneHandler
<1>2. ASSUME NEW h \in Handlers, Look(h) PROVE Inv'
  <2>1. UNCHANGED <<lists, tasks, command, named>> /\ NamesTheAction' /\ handler[h].step = "look"
    BY <1>2, KeepsNames DEF Look, At
  <2>2. CASE Goto(h, "insert") /\ Owned(handler[h].owner, handler[h].list)
    <3> DEFINE new == [handler[h] EXCEPT !.step = "insert"]
    <3>1. new \in Handler
      BY Typed, HandlerSteps
    <3>2. /\ new.step = "insert" /\ new.list = handler[h].list /\ new.owner = handler[h].owner
          /\ handler' = [handler EXCEPT ![h] = new]
      BY <2>2, Typed DEF Goto, Do, Handler
    <3> HIDE DEF new
    <3>3. Knows(h, new)
      BY <2>1, <2>2, <3>2, Typed DEF Owned, Kept, Knows, MayInsert, MayLook, MayReport
    <3> QED BY <2>1, <3>1, <3>2, <3>3, OneHandler
  <2>3. CASE Goto(h, "ensure")
    BY <2>1, <2>3, Goes
  <2>4. CASE Do(h, Start(1))
    <3>1. 1 \in 1 .. MaxAttempts
      BY StoreBoundsAssumption
    <3> QED BY <2>1, <2>4, <3>1, Starts, OneHandler DEF Do
  <2> QED BY <1>2, <2>2, <2>3, <2>4 DEF Look
<1>3. ASSUME NEW h \in Handlers, Ensure(h) PROVE Inv'
  <2>1. UNCHANGED <<tasks, command, named>> /\ NamesTheAction' /\ Goto(h, "default")
    BY <1>3, KeepsNames DEF Ensure
  <2>2. CASE UNCHANGED lists
    BY <2>1, <2>2, Goes
  <2>3. CASE DefaultOf(handler[h].owner) = {}
    <3> DEFINE l == Unused(lists, ListIds)
    <3>1. l \in ListIds /\ lists[l].at = "free"
      BY <1>3, <2>3 DEF Ensure, HasFree, Unused
    <3>2. lists' = [lists EXCEPT ![l] = [at |-> "kept", owner |-> handler[h].owner, default |-> TRUE]]
      BY <1>3, <2>3 DEF Ensure
    <3>3. handler[h].owner \in Owners \cup {None}
      BY Typed DEF Handler
    <3> HIDE DEF l
    <3> QED BY <2>1, <3>1, <3>2, <3>3, NewList
  <2> QED BY <1>3, <2>2, <2>3 DEF Ensure
<1>4. ASSUME NEW h \in Handlers, Default(h) PROVE Inv'
  <2>1. PICK l \in DefaultOf(handler[h].owner) : Do(h, [handler[h] EXCEPT !.step = "insert", !.list = l])
    BY <1>4 DEF Default
  <2>2. l \in ListIds /\ lists[l].at = "kept" /\ lists[l].owner = handler[h].owner
    BY DEF DefaultOf, Kept
  <2> DEFINE new == [handler[h] EXCEPT !.step = "insert", !.list = l]
  <2>3. handler' = [handler EXCEPT ![h] = new] /\ UNCHANGED <<lists, tasks, command, named>>
    BY <1>4, <2>1 DEF Default, Do
  <2>4. new \in Handler
    BY <2>2, Typed, StepAndList
  <2>5. new.step = "insert" /\ new.list = l /\ new.owner = handler[h].owner
    BY Typed DEF Handler
  <2> HIDE DEF new
  <2>6. Knows(h, new)
    BY <2>2, <2>5 DEF Knows, MayInsert, MayLook, MayReport
  <2> QED BY <2>3, <2>4, <2>6, KeepsNames, OneHandler
<1>5. ASSUME NEW c \in Copies, InsertForAction(c) PROVE Inv'
  <2>1. UNCHANGED <<lists, command, named>> /\ handler[c].step = "insert" /\ ActionOf[c] \in Actions
    BY <1>5, ActionOfAssumption DEF InsertForAction, At
  <2>2. CASE Goto(c, "read") /\ UNCHANGED tasks
    BY <2>1, <2>2, KeepsNames, Goes
  <2>3. CASE Fail(c) /\ UNCHANGED tasks
    BY <2>1, <2>3, Fails
  <2>4. CASE TaskOf(ActionOf[c]) = {} /\ Kept(handler[c].list)
    <3> DEFINE t == Unused(tasks, TaskIds)
    <3> DEFINE new == [handler[c] EXCEPT !.step = "report", !.task = t]
    <3>1. /\ HasFree(tasks, TaskIds)
          /\ tasks' = [tasks EXCEPT ![t] = [at |-> "kept", owner |-> handler[c].owner, list |-> handler[c].list,
                                            action |-> ActionOf[c]]]
          /\ handler' = [handler EXCEPT ![c] = new]
      BY <1>5, <2>4 DEF InsertForAction, NewTask, Do
    <3>2. t \in TaskIds /\ tasks[t].at = "free"
      BY <3>1 DEF HasFree, Unused
    <3> HIDE DEF t
    <3>3. new \in Handler
      BY <3>2, Typed, StepAndTask
    <3>4. new.step = "report" /\ new.task = t
      BY Typed DEF Handler
    <3> HIDE DEF new
    <3> QED BY <2>1, <2>4, <3>1, <3>2, <3>3, <3>4, InsertedTask
  <2> QED BY <1>5, <2>2, <2>3, <2>4 DEF InsertForAction
<1>6. ASSUME NEW c \in Copies, Read(c) PROVE Inv'
  <2>1. UNCHANGED <<lists, tasks, command, named>> /\ NamesTheAction'
    BY <1>6, KeepsNames DEF Read
  <2>2. ASSUME NEW t \in TaskOf(ActionOf[c]), Do(c, [handler[c] EXCEPT !.step = "report", !.task = t]) PROVE Inv'
    <3> DEFINE new == [handler[c] EXCEPT !.step = "report", !.task = t]
    <3>1. t \in TaskIds /\ tasks[t].at = "kept" /\ tasks[t].action = ActionOf[c]
      BY <2>2 DEF TaskOf, Exists
    <3>2. new \in Handler
      BY <3>1, Typed, StepAndTask
    <3>3. new.step = "report" /\ new.task = t
      BY Typed DEF Handler
    <3>4. handler' = [handler EXCEPT ![c] = new]
      BY <2>2 DEF Do
    <3> HIDE DEF new
    <3>5. Knows(c, new)
      BY <3>1, <3>3 DEF Knows, MayInsert, MayLook, MayReport
    <3> QED BY <2>1, <3>2, <3>4, <3>5, OneHandler
  <2> QED BY <1>6, <2>1, <2>2, Fails DEF Read
<1>7. ASSUME NEW c \in Copies, Report(c) PROVE Inv'
  <2>1. /\ named' = named \cup {<<ActionOf[c], handler[c].task>>}
        /\ UNCHANGED <<lists, tasks, command>> /\ Goto(c, "done") /\ handler[c].step = "report"
    BY <1>7 DEF Report, At
  <2>2. NamesTheAction'
    BY <2>1, Typed DEF Inv, NamesTheAction, Knows, MayReport
  <2> QED BY <2>1, <2>2, Goes
<1>8. ASSUME NEW c \in Copies, Interrupted(c) PROVE Inv'
  BY <1>8, Fails DEF Interrupted
<1>9. ASSUME NEW u \in Users, InsertForUser(u) PROVE Inv'
  <2>1. /\ UNCHANGED <<lists, command, named>> /\ handler[u].step = "insert"
        /\ handler' = [handler EXCEPT ![u] = Start(1)]
    BY <1>9 DEF InsertForUser, At, Do
  <2>2. Start(1) \in Handler /\ Knows(u, Start(1)) /\ Start(1).step = "start"
    <3>1. 1 \in 1 .. MaxAttempts
      BY StoreBoundsAssumption
    <3> QED BY <3>1, Starts DEF Start
  <2>3. CASE UNCHANGED tasks
    BY <2>1, <2>2, <2>3, KeepsNames, OneHandler
  <2>4. CASE Kept(handler[u].list)
    <3> DEFINE t == Unused(tasks, TaskIds)
    <3>1. /\ HasFree(tasks, TaskIds)
          /\ tasks' = [tasks EXCEPT ![t] = [at |-> "kept", owner |-> handler[u].owner, list |-> handler[u].list,
                                            action |-> None]]
      BY <1>9, <2>4 DEF InsertForUser, NewTask
    <3>2. t \in TaskIds /\ tasks[t].at = "free"
      BY <3>1 DEF HasFree, Unused
    <3> HIDE DEF t
    <3> QED BY <2>1, <2>2, <2>4, <3>1, <3>2, NamesAssumption, InsertedTask
  <2> QED BY <1>9, <2>3, <2>4 DEF InsertForUser
<1>10. ASSUME NEW u \in Users, Cascade(u) PROVE Inv'
  BY <1>10, Cascaded
<1>11. ASSUME NEW u \in Users, NEW owner \in Owners, NEW l \in ListIds \cup {None}, PostTask(u, owner, l) PROVE Inv'
  <2> DEFINE step == IF l = None THEN "ensure" ELSE "look"
  <2> DEFINE new == [handler[u] EXCEPT !.step = step, !.owner = owner, !.list = l]
  <2>1. handler' = [handler EXCEPT ![u] = new] /\ UNCHANGED <<lists, tasks, command, named>>
    BY <1>11 DEF PostTask, Do
  <2>2. step \in {"look", "ensure"} /\ (step = "look" => l \in ListIds)
    OBVIOUS
  <2> HIDE DEF step
  <2>3. new \in Handler
    BY <2>2, Typed, StepOwnerAndList
  <2>4. new.step = step /\ new.list = l
    BY Typed DEF Handler
  <2> HIDE DEF new
  <2>5. Knows(u, new)
    BY <2>2, <2>4 DEF Knows, MayInsert, MayLook, MayReport
  <2> QED BY <2>1, <2>3, <2>5, KeepsNames, OneHandler
<1>12. ASSUME NEW u \in Users, NEW owner \in Owners, NEW l \in ListIds, DeleteList(u, owner, l) PROVE Inv'
  <2> DEFINE new == [handler[u] EXCEPT !.step = "delete", !.list = l]
  <2>1. handler' = [handler EXCEPT ![u] = new] /\ UNCHANGED <<lists, tasks, command, named>>
    BY <1>12 DEF DeleteList, Do
  <2>2. new \in Handler
    BY Typed, StepAndList
  <2>3. new.step = "delete" /\ new.list = l
    BY Typed DEF Handler
  <2> HIDE DEF new
  <2>4. Knows(u, new)
    BY <2>3 DEF Knows, MayInsert, MayLook, MayReport
  <2> QED BY <2>1, <2>2, <2>4, KeepsNames, OneHandler
<1>13. CASE UNCHANGED taskStoreVars
  BY <1>13 DEF taskStoreVars, Inv, Types, HasList, TaskIsWithItsOwner, OneTaskPerAction, NamesTheAction, Exists, Kept,
               Knows, MayInsert, MayLook, MayReport
<1> QED
  BY <1>1, <1>2, <1>3, <1>4, <1>5, <1>6, <1>7, <1>8, <1>9, <1>10, <1>11, <1>12, <1>13
     DEF TaskStoreNext, CopyStep, UserStep

LEMMA AlwaysInv == TaskStoreSpec => []Inv
<1> QED BY InitInv, NextInv, PTL DEF TaskStoreSpec

(* Whatever happens to the lists between the statements of a handler, a    *)
(* task is in a list that is there and belongs to its owner (ownedListId   *)
(* and defaultListId of the task service).                                 *)
THEOREM TasksWithOwners == TaskStoreSpec => []TaskIsWithItsOwner
<1>1. Inv => TaskIsWithItsOwner
  BY DEF Inv
<1> QED BY <1>1, AlwaysInv, PTL

(* All results of an action name the same task, for any number of copies   *)
(* of its message (createTaskFromAction: "Idempotent").                    *)
THEOREM ResultsAgree == TaskStoreSpec => []ResultNamesItsTask
<1>1. Inv => ResultNamesItsTask
  BY DEF Inv, ResultNamesItsTask, NamesTheAction, OneTaskPerAction, Exists
<1> QED BY <1>1, AlwaysInv, PTL

-----------------------------------------------------------------------------
(* What an action of the task service is owed.  A handler fails because of *)
(* a crash, or because a list went away between two of its statements; and *)
(* no list makes it fail twice: its next attempt finds another one.        *)

Deleted == {l \in ListIds : lists[l].at = "deleted"}
Answered(action) == \E t \in TaskIds : <<action, t>> \in named

(* The reasons to fail that there have been, and those without a list.     *)
Reasons == storeFaults + Cardinality(Deleted)
ReasonsBut(l) == storeFaults + Cardinality(Deleted \ {l})

(* A copy is given up only when it has had MaxAttempts reasons to fail: so *)
(* many crashes and deleted lists.                                         *)
GivenUpForCause ==
  \A c \in Copies : At(c, "done") => Answered(ActionOf[c]) \/ MaxAttempts <= Reasons

(* Each earlier attempt has had a reason of its own, and none of them is   *)
(* the list that the handler, or the task it will look for, is about: that *)
(* list was there in this attempt.                                         *)
Excused(c, x) ==
  /\ x.step = "insert" => x.attempt <= 1 + ReasonsBut(x.list)
  /\ x.step = "read" =>
       \E t \in TaskIds :
         tasks[t].at # "free" /\ tasks[t].action = ActionOf[c] /\ x.attempt <= 1 + ReasonsBut(tasks[t].list)
  /\ x.step = "done" => Answered(ActionOf[c]) \/ MaxAttempts <= Reasons
  /\ x.step \notin {"insert", "read", "done"} => x.attempt <= 1 + Reasons

LostWithTheirList == \A t \in TaskIds : tasks[t].at = "deleted" => tasks[t].list \in Deleted

CauseInv ==
  /\ storeFaults \in Nat
  /\ LostWithTheirList
  /\ \A c \in Copies : Excused(c, handler[c])

LEMMA DeletedIsFinite == IsFiniteSet(Deleted)
<1>1. IsFiniteSet(ListIds)
  BY FS_Interval, StoreBoundsAssumption DEF ListIds
<1> QED BY <1>1, FS_Subset DEF Deleted

LEMMA OneReasonLess ==
  ASSUME storeFaults \in Nat, NEW l
  PROVE  /\ Reasons \in Nat /\ ReasonsBut(l) \in Nat
         /\ ReasonsBut(l) <= Reasons
         /\ l \in Deleted => Reasons = ReasonsBut(l) + 1
         /\ l \notin Deleted => ReasonsBut(l) = Reasons
<1>1. /\ Cardinality(Deleted) \in Nat /\ Cardinality(Deleted \ {l}) \in Nat
      /\ Cardinality(Deleted \ {l}) = IF l \in Deleted THEN Cardinality(Deleted) - 1 ELSE Cardinality(Deleted)
  <2>1. /\ IsFiniteSet(Deleted \ {l})
        /\ Cardinality(Deleted \ {l}) = IF l \in Deleted THEN Cardinality(Deleted) - 1 ELSE Cardinality(Deleted)
    BY DeletedIsFinite, FS_RemoveElement
  <2> QED BY <2>1, DeletedIsFinite, FS_CardinalityType
<1> QED BY <1>1 DEF Reasons, ReasonsBut

(* What has happened stays so: lists and tasks that are deleted, results   *)
(* that were published, crashes.                                           *)
History ==
  /\ storeFaults' \in Nat /\ storeFaults <= storeFaults'
  /\ Deleted \subseteq Deleted'
  /\ named \subseteq named'
  /\ \A t \in TaskIds :
       tasks[t].at # "free" =>
         tasks'[t].at # "free" /\ tasks'[t].list = tasks[t].list /\ tasks'[t].action = tasks[t].action

LEMMA ReasonsStay ==
  ASSUME CauseInv, History, NEW l
  PROVE  Reasons <= Reasons' /\ ReasonsBut(l) <= ReasonsBut(l)' /\ Reasons' \in Nat /\ ReasonsBut(l)' \in Nat
<1>1. IsFiniteSet(Deleted')
  <2>1. IsFiniteSet(ListIds)
    BY FS_Interval, StoreBoundsAssumption DEF ListIds
  <2> QED BY <2>1, FS_Subset DEF Deleted
<1>2. IsFiniteSet(Deleted' \ {l})
  BY <1>1, FS_Subset
<1>3. /\ Cardinality(Deleted) <= Cardinality(Deleted')
      /\ Cardinality(Deleted \ {l}) <= Cardinality(Deleted' \ {l})
  <2>1. Deleted \in SUBSET Deleted' /\ (Deleted \ {l}) \in SUBSET (Deleted' \ {l})
    BY DEF History
  <2> QED BY <1>1, <1>2, <2>1, FS_Subset
<1>4. /\ Cardinality(Deleted') \in Nat /\ Cardinality(Deleted' \ {l}) \in Nat
  BY <1>1, <1>2, FS_CardinalityType
<1>5. /\ Cardinality(Deleted) \in Nat /\ Cardinality(Deleted \ {l}) \in Nat
  <2>1. IsFiniteSet(Deleted \ {l})
    BY DeletedIsFinite, FS_Subset
  <2> QED BY <2>1, DeletedIsFinite, FS_CardinalityType
<1> QED BY <1>3, <1>4, <1>5 DEF CauseInv, History, Reasons, ReasonsBut

LEMMA ExcusedStays ==
  ASSUME CauseInv, History, NEW c \in Copies, NEW x \in Handler, Excused(c, x)
  PROVE  Excused(c, x)'
<1>1. x.attempt \in Nat /\ Reasons \in Nat /\ MaxAttempts \in Nat
  BY OneReasonLess, StoreBoundsAssumption DEF CauseInv, Handler
<1>2. CASE x.step = "insert"
  <2>1. x.attempt <= 1 + ReasonsBut(x.list) /\ ReasonsBut(x.list) \in Nat
    BY <1>2, OneReasonLess DEF Excused, CauseInv
  <2>2. ReasonsBut(x.list) <= ReasonsBut(x.list)' /\ ReasonsBut(x.list)' \in Nat
    BY ReasonsStay
  <2>3. x.attempt <= 1 + ReasonsBut(x.list)'
    BY <1>1, <2>1, <2>2
  <2> QED BY <1>2, <2>3 DEF Excused
<1>3. CASE x.step = "read"
  <2>1. PICK t \in TaskIds :
          tasks[t].at # "free" /\ tasks[t].action = ActionOf[c] /\ x.attempt <= 1 + ReasonsBut(tasks[t].list)
    BY <1>3 DEF Excused
  <2>2. tasks'[t].at # "free" /\ tasks'[t].list = tasks[t].list /\ tasks'[t].action = ActionOf[c]
    BY <2>1 DEF History
  <2> DEFINE l == tasks[t].list
  <2>3. l = tasks[t].list /\ tasks'[t].list = l
    BY <2>2
  <2>4. PICK k : k = l
    OBVIOUS
  <2>5. ReasonsBut(k) \in Nat /\ ReasonsBut(k) <= ReasonsBut(k)' /\ ReasonsBut(k)' \in Nat
    BY OneReasonLess, ReasonsStay DEF CauseInv
  <2>6. x.attempt <= 1 + ReasonsBut(k)'
    BY <1>1, <2>1, <2>4, <2>5
  <2>7. x.attempt <= 1 + ReasonsBut(tasks[t].list)'
    BY <2>3, <2>4, <2>6 DEF ReasonsBut
  <2> QED BY <1>3, <2>2, <2>7 DEF Excused
<1>4. CASE x.step = "done"
  <2>1. CASE Answered(ActionOf[c])
    <3>1. Answered(ActionOf[c])'
      BY <2>1 DEF Answered, History
    <3> QED BY <1>4, <3>1 DEF Excused
  <2>2. CASE MaxAttempts <= Reasons
    <3>1. MaxAttempts <= Reasons'
      BY <1>1, <2>2, ReasonsStay
    <3> QED BY <1>4, <3>1 DEF Excused
  <2> QED BY <1>4, <2>1, <2>2 DEF Excused
<1>5. CASE x.step \notin {"insert", "read", "done"}
  <2>1. x.attempt <= 1 + Reasons
    BY <1>5 DEF Excused
  <2>2. x.attempt <= 1 + Reasons'
    BY <1>1, <2>1, ReasonsStay
  <2> QED BY <1>5, <2>2 DEF Excused
<1> QED BY <1>2, <1>3, <1>4, <1>5

-----------------------------------------------------------------------------
(* Every step adds to the history. *)

Persists ==
  /\ History
  /\ LostWithTheirList'

LEMMA NoTableChanges ==
  ASSUME Inv, CauseInv, UNCHANGED <<lists, tasks>>, named \subseteq named',
         storeFaults' \in Nat, storeFaults <= storeFaults'
  PROVE  Persists
<1>1. Deleted' = Deleted
  BY DEF Deleted
<1>2. History
  BY <1>1 DEF History
<1>3. LostWithTheirList'
  BY <1>1 DEF CauseInv, LostWithTheirList
<1> QED BY <1>2, <1>3 DEF Persists

LEMMA TaskComes ==
  ASSUME Inv, CauseInv, NEW owner, NEW l, NEW action, NewTask(owner, l, action),
         UNCHANGED <<lists, named, storeFaults>>
  PROVE  Persists
<1>1. PICK t \in TaskIds :
        /\ tasks[t].at = "free"
        /\ tasks' = [tasks EXCEPT ![t] = [at |-> "kept", owner |-> owner, list |-> l, action |-> action]]
  BY DEF NewTask, HasFree, Unused
<1>2. tasks'[t].at = "kept" /\ \A u \in TaskIds \ {t} : tasks'[u] = tasks[u]
  BY <1>1 DEF Inv, Types
<1>3. Deleted' = Deleted
  BY DEF Deleted
<1>4. History
  BY <1>1, <1>2, <1>3 DEF History, CauseInv
<1>5. LostWithTheirList'
  BY <1>2, <1>3 DEF CauseInv, LostWithTheirList
<1> QED BY <1>4, <1>5 DEF Persists

LEMMA ListComes ==
  ASSUME Inv, CauseInv, NEW h, Ensure(h)
  PROVE  Persists
<1>1. UNCHANGED <<tasks, named, storeFaults>>
  BY DEF Ensure
<1>2. CASE UNCHANGED lists
  BY <1>1, <1>2, NoTableChanges DEF CauseInv
<1>3. CASE ~UNCHANGED lists
  <2>1. PICK l \in ListIds :
          /\ lists[l].at = "free"
          /\ lists' = [lists EXCEPT ![l] = [at |-> "kept", owner |-> handler[h].owner, default |-> TRUE]]
    BY <1>3 DEF Ensure, HasFree, Unused
  <2>2. lists'[l].at = "kept" /\ \A k \in ListIds \ {l} : lists'[k] = lists[k]
    BY <2>1 DEF Inv, Types
  <2>3. Deleted' = Deleted
    BY <2>1, <2>2 DEF Deleted
  <2>4. History
    BY <1>1, <2>3 DEF History, CauseInv
  <2>5. LostWithTheirList'
    BY <1>1, <2>3 DEF CauseInv, LostWithTheirList
  <2> QED BY <2>4, <2>5 DEF Persists
<1> QED BY <1>2, <1>3

LEMMA ListGoes ==
  ASSUME Inv, CauseInv, NEW u \in Users, Cascade(u)
  PROVE  Persists
<1>1. PICK gone \in ListIds : gone = handler[u].list
  <2>1. u \in Handlers
    BY DEF Handlers
  <2> QED BY <2>1, Typed DEF Cascade, At, Knows, MayLook
<1>2. /\ lists' = [lists EXCEPT ![gone].at = "deleted"]
      /\ tasks' = [t \in TaskIds |-> IF Exists(t) /\ tasks[t].list = gone
                                       THEN [tasks[t] EXCEPT !.at = "deleted"] ELSE tasks[t]]
      /\ UNCHANGED <<named, storeFaults>>
  BY <1>1 DEF Cascade
<1>3. lists'[gone].at = "deleted" /\ \A l \in ListIds \ {gone} : lists'[l] = lists[l]
  BY <1>2 DEF Inv, Types, TaskList
<1>4. Deleted' = Deleted \cup {gone}
  BY <1>3 DEF Deleted
<1>5. ASSUME NEW t \in TaskIds
      PROVE  /\ tasks'[t].list = tasks[t].list /\ tasks'[t].action = tasks[t].action
             /\ tasks[t].at # "free" => tasks'[t].at # "free"
             /\ tasks'[t].at = "deleted" => tasks[t].at = "deleted" \/ tasks[t].list = gone
  <2>1. tasks[t] \in Task
    BY DEF Inv, Types
  <2>2. CASE Exists(t) /\ tasks[t].list = gone
    <3>1. tasks'[t] = [tasks[t] EXCEPT !.at = "deleted"]
      BY <1>2, <2>2
    <3> QED BY <2>1, <2>2, <3>1 DEF Task
  <2>3. CASE ~(Exists(t) /\ tasks[t].list = gone)
    <3>1. tasks'[t] = tasks[t]
      BY <1>2, <2>3
    <3> QED BY <3>1
  <2> QED BY <2>2, <2>3
<1>6. History
  BY <1>2, <1>4, <1>5 DEF History, CauseInv
<1>7. LostWithTheirList'
  BY <1>4, <1>5 DEF CauseInv, LostWithTheirList
<1> QED BY <1>6, <1>7 DEF Persists

LEMMA EveryStepPersists ==
  ASSUME Inv, CauseInv, TaskStoreNext
  PROVE  Persists
<1>1. ASSUME NEW h \in Handlers, Look(h) \/ Default(h) PROVE Persists
  <2>1. UNCHANGED <<lists, tasks, named, storeFaults>>
    BY <1>1 DEF Look, Default
  <2> QED BY <2>1, NoTableChanges DEF CauseInv
<1>2. ASSUME NEW h, Ensure(h) PROVE Persists
  BY <1>2, ListComes
<1>3. ASSUME NEW c \in Copies, Begin(c) \/ Read(c) PROVE Persists
  <2>1. UNCHANGED <<lists, tasks, named, storeFaults>>
    BY <1>3 DEF Begin, Read
  <2> QED BY <2>1, NoTableChanges DEF CauseInv
<1>4. ASSUME NEW c \in Copies, InsertForAction(c) PROVE Persists
  <2>1. UNCHANGED <<lists, named, storeFaults>>
    BY <1>4 DEF InsertForAction
  <2>2. CASE UNCHANGED tasks
    BY <2>1, <2>2, NoTableChanges DEF CauseInv
  <2>3. CASE NewTask(handler[c].owner, handler[c].list, ActionOf[c])
    BY <2>1, <2>3, TaskComes
  <2> QED BY <1>4, <2>2, <2>3 DEF InsertForAction
<1>5. ASSUME NEW c \in Copies, Report(c) PROVE Persists
  BY <1>5, NoTableChanges DEF Report, CauseInv
<1>6. ASSUME NEW c \in Copies, Interrupted(c) PROVE Persists
  BY <1>6, NoTableChanges DEF Interrupted, CauseInv
<1>7. ASSUME NEW u \in Users, InsertForUser(u) PROVE Persists
  <2>1. UNCHANGED <<lists, named, storeFaults>>
    BY <1>7 DEF InsertForUser
  <2>2. CASE UNCHANGED tasks
    BY <2>1, <2>2, NoTableChanges DEF CauseInv
  <2>3. CASE NewTask(handler[u].owner, handler[u].list, None)
    BY <2>1, <2>3, TaskComes
  <2> QED BY <1>7, <2>2, <2>3 DEF InsertForUser
<1>8. ASSUME NEW u \in Users, NEW owner, NEW l, PostTask(u, owner, l) \/ DeleteList(u, owner, l) PROVE Persists
  <2>1. UNCHANGED <<lists, tasks, named, storeFaults>>
    BY <1>8 DEF PostTask, DeleteList
  <2> QED BY <2>1, NoTableChanges DEF CauseInv
<1>9. ASSUME NEW c \in Copies, CopyStep(c) \/ Interrupted(c) PROVE Persists
  <2>1. c \in Handlers
    BY DEF Handlers
  <2> QED BY <1>1, <1>2, <1>3, <1>4, <1>5, <1>6, <1>9, <2>1 DEF CopyStep
<1>10. ASSUME NEW u \in Users, UserStep(u) PROVE Persists
  <2>1. u \in Handlers
    BY DEF Handlers
  <2> QED BY <1>1, <1>2, <1>7, <1>10, <2>1, ListGoes DEF UserStep
<1> QED BY <1>8, <1>9, <1>10 DEF TaskStoreNext

-----------------------------------------------------------------------------
(* What a handler goes on with is excused by what it had before. *)

LEMMA OnlyOneMoves ==
  ASSUME Inv, NEW h \in Handlers, NEW new, Do(h, new)
  PROVE  handler'[h] = new /\ \A g \in Handlers \ {h} : handler'[g] = handler[g]
  BY DEF Inv, Types, Do

(* A statement that concerns no list or task. *)
Plain(x) == x.step \notin {"insert", "read", "done"}

LEMMA GoesOn ==
  ASSUME CauseInv, NEW c \in Copies, NEW new, Plain(handler[c]), Plain(new), new.attempt = handler[c].attempt
  PROVE  Excused(c, new)
  BY DEF CauseInv, Excused, Plain

LEMMA StartsAfresh ==
  ASSUME CauseInv, NEW c \in Copies
  PROVE  Excused(c, Start(1))
<1>1. Start(1).step = "start" /\ Start(1).attempt = 1
  BY DEF Start
<1>2. Reasons \in Nat
  BY OneReasonLess DEF CauseInv
<1> QED BY <1>1, <1>2 DEF Excused

LEMMA FindsAList ==
  ASSUME CauseInv, NEW c \in Copies, NEW new, Plain(handler[c]), new.step = "insert", Kept(new.list),
         new.attempt = handler[c].attempt
  PROVE  Excused(c, new)
<1>1. handler[c].attempt <= 1 + Reasons
  BY DEF CauseInv, Excused, Plain
<1>2. new.list \notin Deleted
  BY DEF Kept, Deleted
<1>3. PICK l : l = new.list
  OBVIOUS
<1>4. ReasonsBut(l) = Reasons
  BY <1>2, <1>3, OneReasonLess DEF CauseInv
<1>5. new.attempt <= 1 + ReasonsBut(new.list)
  BY <1>1, <1>3, <1>4
<1> QED BY <1>5 DEF Excused

(* A handler that has a list, or looks for a task, has a reason to spare.  *)
LEMMA WhateverItHas ==
  ASSUME Inv, CauseInv, NEW c \in Copies, handler[c].step # "done"
  PROVE  handler[c].attempt <= 1 + Reasons
<1>1. handler[c].attempt \in Nat /\ Excused(c, handler[c]) /\ storeFaults \in Nat /\ Reasons \in Nat
  <2>1. c \in Handlers
    BY DEF Handlers
  <2> QED BY <2>1, Typed, OneReasonLess DEF Handler, CauseInv
<1>2. \A l : ReasonsBut(l) \in Nat /\ ReasonsBut(l) <= Reasons
  BY <1>1, OneReasonLess
<1>3. CASE handler[c].step = "insert"
  <2>1. PICK l : l = handler[c].list
    OBVIOUS
  <2>2. handler[c].attempt <= 1 + ReasonsBut(l)
    BY <1>1, <1>3, <2>1 DEF Excused
  <2> QED BY <1>1, <1>2, <2>2
<1>4. CASE handler[c].step = "read"
  <2>1. PICK l : handler[c].attempt <= 1 + ReasonsBut(l)
    BY <1>1, <1>4 DEF Excused
  <2> QED BY <1>1, <1>2, <2>1
<1> QED BY <1>1, <1>3, <1>4 DEF Excused

LEMMA ListIsGone ==
  ASSUME Inv, CauseInv, NEW c \in Copies, handler[c].step = "insert", ~Kept(handler[c].list)
  PROVE  handler[c].attempt <= Reasons
<1>1. c \in Handlers
  BY DEF Handlers
<1>2. /\ handler[c].attempt \in Nat /\ storeFaults \in Nat
      /\ handler[c].list \in ListIds /\ lists[handler[c].list].at # "free"
      /\ handler[c].attempt <= 1 + ReasonsBut(handler[c].list)
  BY <1>1, Typed DEF Knows, MayInsert, Handler, CauseInv, Excused
<1>3. PICK l \in ListIds : l = handler[c].list
  BY <1>2
<1>4. l \in Deleted
  <2>1. lists[l] \in TaskList
    BY DEF Inv, Types
  <2> QED BY <1>2, <1>3, <2>1 DEF TaskList, Kept, Deleted
<1>5. Reasons = ReasonsBut(l) + 1 /\ ReasonsBut(l) \in Nat
  BY <1>2, <1>4, OneReasonLess
<1>6. handler[c].attempt <= 1 + ReasonsBut(l)
  BY <1>2, <1>3
<1> QED BY <1>2, <1>5, <1>6

LEMMA TaskIsGone ==
  ASSUME Inv, CauseInv, NEW c \in Copies, handler[c].step = "read", TaskOf(ActionOf[c]) = {}
  PROVE  handler[c].attempt <= Reasons
<1>1. handler[c].attempt \in Nat /\ storeFaults \in Nat
  <2>1. c \in Handlers
    BY DEF Handlers
  <2> QED BY <2>1, Typed DEF Handler, CauseInv
<1>2. PICK t \in TaskIds :
        tasks[t].at # "free" /\ tasks[t].action = ActionOf[c] /\ handler[c].attempt <= 1 + ReasonsBut(tasks[t].list)
  BY DEF CauseInv, Excused
<1>3. tasks[t].at = "deleted"
  <2>1. tasks[t] \in Task
    BY DEF Inv, Types
  <2> QED BY <1>2, <2>1 DEF Task, TaskOf, Exists
<1>4. PICK l : l = tasks[t].list
  OBVIOUS
<1>5. l \in Deleted
  BY <1>3, <1>4 DEF CauseInv, LostWithTheirList
<1>6. Reasons = ReasonsBut(l) + 1 /\ ReasonsBut(l) \in Nat
  BY <1>1, <1>5, OneReasonLess
<1>7. handler[c].attempt <= 1 + ReasonsBut(l)
  BY <1>2, <1>4
<1> QED BY <1>1, <1>6, <1>7

LEMMA FailsFor ==
  ASSUME Inv, NEW c \in Copies, NEW reasons \in Nat, handler[c].attempt <= reasons, Fail(c)
  PROVE  /\ \A g \in Handlers \ {c} : handler'[g] = handler[g]
         /\ \/ handler'[c].step = "start" /\ handler'[c].attempt <= 1 + reasons
            \/ handler'[c].step = "done" /\ MaxAttempts <= reasons
<1>1. c \in Handlers
  BY DEF Handlers
<1>2. handler[c] \in Handler /\ handler[c].attempt \in Nat /\ MaxAttempts \in Nat
  BY <1>1, Typed, StoreBoundsAssumption DEF Handler
<1>3. CASE handler[c].attempt < MaxAttempts
  <2> DEFINE new == Start(handler[c].attempt + 1)
  <2>1. Do(c, new)
    BY <1>3 DEF Fail
  <2>2. new.step = "start" /\ new.attempt = handler[c].attempt + 1
    BY DEF Start
  <2> HIDE DEF new
  <2>3. handler'[c] = new /\ \A g \in Handlers \ {c} : handler'[g] = handler[g]
    BY <1>1, <2>1, OnlyOneMoves
  <2> QED BY <1>2, <2>2, <2>3
<1>4. CASE ~(handler[c].attempt < MaxAttempts)
  <2> DEFINE new == [handler[c] EXCEPT !.step = "done"]
  <2>1. Do(c, new)
    BY <1>4 DEF Fail, Goto
  <2>2. new.step = "done"
    BY <1>2 DEF Handler
  <2> HIDE DEF new
  <2>3. handler'[c] = new /\ \A g \in Handlers \ {c} : handler'[g] = handler[g]
    BY <1>1, <2>1, OnlyOneMoves
  <2> QED BY <1>2, <1>4, <2>2, <2>3
<1> QED BY <1>3, <1>4

LEMMA ExcusedThenAndNow ==
  ASSUME Inv, Inv', CauseInv, Persists,
         NEW h \in Handlers, \A g \in Handlers \ {h} : handler'[g] = handler[g],
         h \in Copies => Excused(h, handler'[h]) \/ Excused(h, handler[h])'
  PROVE  CauseInv'
<1>1. ASSUME NEW c \in Copies PROVE Excused(c, handler[c])'
  <2>1. c \in Handlers /\ handler'[c] \in Handler
    BY DEF Handlers, Inv, Types
  <2>2. PICK x \in Handler : x = handler'[c]
    BY <2>1
  <2>3. Excused(c, x) => Excused(c, x)'
    BY ExcusedStays DEF Persists
  <2>4. Excused(c, x)' => Excused(c, handler[c])'
    BY <2>2 DEF Excused, Reasons, ReasonsBut, Deleted, Answered
  <2>5. CASE c = h
    BY <2>2, <2>3, <2>4, <2>5
  <2>6. CASE c # h
    <3>1. x = handler[c]
      BY <2>1, <2>2, <2>6
    <3> QED BY <2>3, <2>4, <3>1 DEF CauseInv
  <2> QED BY <2>5, <2>6
<1> QED BY <1>1 DEF CauseInv, Persists, History

LEMMA Proceeds ==
  ASSUME Inv, Inv', CauseInv, Persists, NEW h \in Handlers, NEW new, Do(h, new), h \in Copies => Excused(h, new)
  PROVE  CauseInv'
<1>1. handler'[h] = new /\ \A g \in Handlers \ {h} : handler'[g] = handler[g]
  BY OnlyOneMoves
<1> QED BY <1>1, ExcusedThenAndNow

LEMMA ProceedsTo ==
  ASSUME Inv, Inv', CauseInv, Persists, NEW h \in Handlers,
         NEW step \in {"look", "ensure", "default", "report", "delete"}, Goto(h, step),
         h \in Copies => handler[h].step # "done"
  PROVE  CauseInv'
<1> DEFINE new == [handler[h] EXCEPT !.step = step]
<1>1. Do(h, new)
  BY DEF Goto
<1>2. handler[h] \in Handler
  BY Typed
<1>3. new.step = step /\ new.attempt = handler[h].attempt
  BY <1>2 DEF Handler
<1> HIDE DEF new
<1>4. h \in Copies => Excused(h, new)
  BY <1>3, WhateverItHas DEF Excused
<1> QED BY <1>1, <1>4, Proceeds

LEMMA FailureIsExcused ==
  ASSUME Inv, Inv', CauseInv, Persists, NEW c \in Copies, handler[c].attempt <= Reasons, Fail(c)
  PROVE  CauseInv'
<1>1. c \in Handlers /\ Reasons \in Nat
  BY OneReasonLess DEF Handlers, CauseInv
<1>2. PICK reasons \in Nat : reasons = Reasons
  BY <1>1
<1>3. /\ \A g \in Handlers \ {c} : handler'[g] = handler[g]
      /\ \/ handler'[c].step = "start" /\ handler'[c].attempt <= 1 + reasons
         \/ handler'[c].step = "done" /\ MaxAttempts <= reasons
  BY <1>2, FailsFor
<1>4. Excused(c, handler'[c])
  BY <1>2, <1>3 DEF Excused
<1> QED BY <1>1, <1>3, <1>4, ExcusedThenAndNow

LEMMA InterruptionIsExcused ==
  ASSUME Inv, Inv', CauseInv, Persists, NEW c \in Copies, Interrupted(c)
  PROVE  CauseInv'
<1>1. /\ c \in Handlers /\ handler[c].step # "done" /\ storeFaults' = storeFaults + 1 /\ Deleted' = Deleted
  BY DEF Interrupted, Handlers, Deleted
<1>2. Reasons' = 1 + Reasons /\ Reasons \in Nat
  <2>1. storeFaults \in Nat /\ Cardinality(Deleted) \in Nat
    BY DeletedIsFinite, FS_CardinalityType DEF CauseInv
  <2> QED BY <1>1, <2>1 DEF Reasons
<1>3. handler[c].attempt <= 1 + Reasons
  BY <1>1, <1>2, WhateverItHas
<1>4. PICK reasons \in Nat : reasons = 1 + Reasons
  BY <1>2
<1>5. /\ \A g \in Handlers \ {c} : handler'[g] = handler[g]
      /\ \/ handler'[c].step = "start" /\ handler'[c].attempt <= 1 + reasons
         \/ handler'[c].step = "done" /\ MaxAttempts <= reasons
  <2>1. Fail(c)
    BY DEF Interrupted
  <2> QED BY <1>3, <1>4, <2>1, FailsFor
<1>6. Excused(c, handler[c])'
  BY <1>2, <1>4, <1>5 DEF Excused
<1> QED BY <1>1, <1>5, <1>6, ExcusedThenAndNow

LEMMA ReportIsExcused ==
  ASSUME Inv, Inv', CauseInv, Persists, NEW c \in Copies, Report(c)
  PROVE  CauseInv'
<1> DEFINE new == [handler[c] EXCEPT !.step = "done"]
<1>1. c \in Handlers /\ Do(c, new)
  BY DEF Report, Goto, Handlers
<1>2. new.step = "done"
  BY <1>1, Typed DEF Handler
<1> HIDE DEF new
<1>3. handler'[c] = new /\ \A g \in Handlers \ {c} : handler'[g] = handler[g]
  BY <1>1, OnlyOneMoves
<1>4. handler[c].task \in TaskIds
  BY <1>1, Typed DEF Report, At, Knows, MayReport
<1>5. Answered(ActionOf[c])'
  BY <1>4 DEF Answered, Report
<1>6. Excused(c, handler[c])'
  BY <1>2, <1>3, <1>5 DEF Excused
<1> QED BY <1>1, <1>3, <1>6, ExcusedThenAndNow

LEMMA InsertIsExcused ==
  ASSUME Inv, Inv', CauseInv, Persists, NEW c \in Copies, InsertForAction(c)
  PROVE  CauseInv'
<1>1. c \in Handlers /\ handler[c].step = "insert"
  BY DEF Handlers, InsertForAction, At
<1>2. handler[c] \in Handler
  BY <1>1, Typed
<1>3. CASE TaskOf(ActionOf[c]) # {}
  <2>1. PICK t \in TaskIds : tasks[t].at = "kept" /\ tasks[t].action = ActionOf[c]
    BY <1>3 DEF TaskOf, Exists
  <2>2. PICK l : l = tasks[t].list
    OBVIOUS
  <2>3. l \notin Deleted
    BY <2>1, <2>2 DEF Inv, TaskIsWithItsOwner, Exists, Kept, Deleted
  <2>4. ReasonsBut(l) = Reasons
    BY <2>3, OneReasonLess DEF CauseInv
  <2> DEFINE new == [handler[c] EXCEPT !.step = "read"]
  <2>5. Do(c, new)
    BY <1>3 DEF InsertForAction, Goto
  <2>6. new.step = "read" /\ new.attempt = handler[c].attempt
    BY <1>2 DEF Handler
  <2> HIDE DEF new
  <2>7. new.attempt <= 1 + ReasonsBut(tasks[t].list)
    BY <1>1, <2>2, <2>4, <2>6, WhateverItHas
  <2>8. Excused(c, new)
    BY <2>1, <2>6, <2>7 DEF Excused
  <2> QED BY <1>1, <2>5, <2>8, Proceeds
<1>4. CASE TaskOf(ActionOf[c]) = {} /\ Kept(handler[c].list)
  <2> DEFINE t == Unused(tasks, TaskIds)
  <2> DEFINE new == [handler[c] EXCEPT !.step = "report", !.task = t]
  <2>1. Do(c, new)
    BY <1>4 DEF InsertForAction
  <2>2. new.step = "report" /\ new.attempt = handler[c].attempt
    BY <1>2 DEF Handler
  <2> HIDE DEF new, t
  <2>3. Excused(c, new)
    BY <1>1, <2>2, WhateverItHas DEF Excused
  <2> QED BY <1>1, <2>1, <2>3, Proceeds
<1>5. CASE TaskOf(ActionOf[c]) = {} /\ ~Kept(handler[c].list)
  <2>1. Fail(c)
    BY <1>5 DEF InsertForAction
  <2> QED BY <1>1, <1>5, <2>1, ListIsGone, FailureIsExcused
<1> QED BY <1>3, <1>4, <1>5

LEMMA CauseNextInv == Inv /\ Inv' /\ CauseInv /\ [TaskStoreNext]_taskStoreVars => CauseInv'
<1> SUFFICES ASSUME Inv, Inv', CauseInv, TaskStoreNext PROVE CauseInv'
  <2>1. CASE UNCHANGED taskStoreVars
    BY <2>1 DEF taskStoreVars, CauseInv, LostWithTheirList, Excused, Reasons, ReasonsBut, Deleted, Answered
  <2> QED BY <2>1
<1>1. Persists
  BY EveryStepPersists
<1>2. ASSUME NEW c \in Copies, Begin(c) PROVE CauseInv'
  <2> DEFINE asked == command[ActionOf[c]]
  <2> DEFINE step == IF asked.list = None THEN "ensure" ELSE "look"
  <2> DEFINE new == [handler[c] EXCEPT !.step = step, !.owner = asked.owner, !.list = asked.list]
  <2>1. c \in Handlers /\ handler[c].step = "start" /\ Do(c, new)
    BY <1>2 DEF Begin, At, Handlers
  <2>2. step \in {"ensure", "look"}
    OBVIOUS
  <2>3. new.step = step /\ new.attempt = handler[c].attempt
    <3> HIDE DEF step, asked
    <3> QED BY <2>1, Typed DEF Handler
  <2> HIDE DEF new, step
  <2>4. Excused(c, new)
    BY <2>1, <2>2, <2>3, GoesOn DEF Plain
  <2> QED BY <1>1, <2>1, <2>4, Proceeds
<1>3. ASSUME NEW h \in Handlers, Look(h) PROVE CauseInv'
  <2>1. handler[h].step = "look"
    BY <1>3 DEF Look, At
  <2>2. CASE Owned(handler[h].owner, handler[h].list)
    <3> DEFINE new == [handler[h] EXCEPT !.step = "insert"]
    <3>1. Do(h, new)
      BY <1>3, <2>2 DEF Look, Goto
    <3>2. new.step = "insert" /\ new.attempt = handler[h].attempt /\ new.list = handler[h].list
      BY Typed DEF Handler
    <3> HIDE DEF new
    <3>3. h \in Copies => Excused(h, new)
      BY <2>1, <2>2, <3>2, FindsAList DEF Plain, Owned, Kept
    <3> QED BY <1>1, <3>1, <3>3, Proceeds
  <2>3. CASE Goto(h, "ensure")
    BY <1>1, <2>1, <2>3, ProceedsTo
  <2>4. CASE Do(h, Start(1))
    BY <1>1, <2>4, StartsAfresh, Proceeds
  <2> QED BY <1>3, <2>2, <2>3, <2>4 DEF Look
<1>4. ASSUME NEW h \in Handlers, Ensure(h) PROVE CauseInv'
  <2>1. Goto(h, "default") /\ handler[h].step = "ensure"
    BY <1>4 DEF Ensure, At
  <2> QED BY <1>1, <2>1, ProceedsTo
<1>5. ASSUME NEW h \in Handlers, Default(h) PROVE CauseInv'
  <2>1. PICK l \in DefaultOf(handler[h].owner) : Do(h, [handler[h] EXCEPT !.step = "insert", !.list = l])
    BY <1>5 DEF Default
  <2> DEFINE new == [handler[h] EXCEPT !.step = "insert", !.list = l]
  <2>2. handler[h].step = "default" /\ Kept(l) /\ Do(h, new)
    BY <1>5, <2>1 DEF Default, At, DefaultOf
  <2>3. new.step = "insert" /\ new.attempt = handler[h].attempt /\ new.list = l
    BY Typed DEF Handler
  <2> HIDE DEF new
  <2>4. h \in Copies => Excused(h, new)
    BY <2>2, <2>3, FindsAList DEF Plain, Kept
  <2> QED BY <1>1, <2>2, <2>4, Proceeds
<1>6. ASSUME NEW c \in Copies, Read(c) PROVE CauseInv'
  <2>1. c \in Handlers /\ handler[c].step = "read"
    BY <1>6 DEF Read, At, Handlers
  <2>2. ASSUME NEW t \in TaskIds, Do(c, [handler[c] EXCEPT !.step = "report", !.task = t]) PROVE CauseInv'
    <3> DEFINE new == [handler[c] EXCEPT !.step = "report", !.task = t]
    <3>1. new.step = "report" /\ new.attempt = handler[c].attempt /\ Do(c, new)
      BY <2>1, <2>2, Typed DEF Handler
    <3> HIDE DEF new
    <3>2. Excused(c, new)
      BY <2>1, <3>1, WhateverItHas DEF Excused
    <3> QED BY <1>1, <2>1, <3>1, <3>2, Proceeds
  <2>3. CASE TaskOf(ActionOf[c]) = {} /\ Fail(c)
    BY <1>1, <2>1, <2>3, TaskIsGone, FailureIsExcused
  <2> QED BY <1>6, <2>2, <2>3 DEF Read, TaskOf
<1>7. ASSUME NEW u \in Users, InsertForUser(u) \/ Cascade(u) PROVE CauseInv'
  <2>1. u \in Handlers /\ Do(u, Start(1))
    BY <1>7 DEF InsertForUser, Cascade, Handlers
  <2> QED BY <1>1, <2>1, StartsAfresh, Proceeds
<1>8. ASSUME NEW u \in Users, NEW owner, NEW l, PostTask(u, owner, l) \/ DeleteList(u, owner, l) PROVE CauseInv'
  <2>1. u \in Handlers /\ handler[u].step = "start"
    BY <1>8 DEF PostTask, DeleteList, At, Handlers
  <2>2. CASE PostTask(u, owner, l)
    <3> DEFINE step == IF l = None THEN "ensure" ELSE "look"
    <3> DEFINE new == [handler[u] EXCEPT !.step = step, !.owner = owner, !.list = l]
    <3>1. Do(u, new) /\ step \in {"ensure", "look"}
      BY <2>2 DEF PostTask
    <3> HIDE DEF step
    <3>2. new.step = step /\ new.attempt = handler[u].attempt
      BY <2>1, Typed DEF Handler
    <3> HIDE DEF new
    <3>3. u \in Copies => Excused(u, new)
      BY <2>1, <3>1, <3>2, GoesOn DEF Plain
    <3> QED BY <1>1, <2>1, <3>1, <3>3, Proceeds
  <2>3. CASE DeleteList(u, owner, l)
    <3> DEFINE new == [handler[u] EXCEPT !.step = "delete", !.list = l]
    <3>1. Do(u, new)
      BY <2>3 DEF DeleteList
    <3>2. new.step = "delete" /\ new.attempt = handler[u].attempt
      BY <2>1, Typed DEF Handler
    <3> HIDE DEF new
    <3>3. u \in Copies => Excused(u, new)
      BY <2>1, <3>2, GoesOn DEF Plain
    <3> QED BY <1>1, <2>1, <3>1, <3>3, Proceeds
  <2> QED BY <1>8, <2>2, <2>3
<1>9. ASSUME NEW c \in Copies, CopyStep(c) \/ Interrupted(c) PROVE CauseInv'
  <2>1. c \in Handlers
    BY DEF Handlers
  <2>2. CASE InsertForAction(c) \/ Report(c) \/ Interrupted(c)
    BY <1>1, <2>2, InsertIsExcused, ReportIsExcused, InterruptionIsExcused
  <2> QED BY <1>2, <1>3, <1>4, <1>5, <1>6, <1>9, <2>1, <2>2 DEF CopyStep
<1>10. ASSUME NEW u \in Users, UserStep(u) PROVE CauseInv'
  <2>1. u \in Handlers
    BY DEF Handlers
  <2> QED BY <1>3, <1>4, <1>5, <1>7, <1>10, <2>1 DEF UserStep
<1> QED BY <1>8, <1>9, <1>10 DEF TaskStoreNext

LEMMA CauseInitInv == TaskStoreInit => CauseInv
<1> SUFFICES ASSUME TaskStoreInit PROVE CauseInv
  OBVIOUS
<1>1. storeFaults = 0 /\ \A t \in TaskIds : tasks[t].at = "free"
  BY DEF TaskStoreInit, FreeTask
<1>2. Reasons \in Nat
  BY <1>1, OneReasonLess
<1>3. \A c \in Copies : handler[c].step = "start" /\ handler[c].attempt = 1
  BY DEF TaskStoreInit, Start
<1>4. \A c \in Copies : Excused(c, handler[c])
  BY <1>2, <1>3 DEF Excused
<1> QED BY <1>1, <1>4 DEF CauseInv, LostWithTheirList

(* A message of an action is acknowledged without a task only when it has  *)
(* failed MaxAttempts times, each time because of a crash or a list of its *)
(* own that was deleted meanwhile: no attempt is lost to anything else     *)
(* (createTaskFromAction and the retries of the service kit).              *)
THEOREM NothingGivenUpLightly == TaskStoreSpec => []GivenUpForCause
<1>1. CauseInv => GivenUpForCause
  BY DEF CauseInv, GivenUpForCause, Excused, At
<1> QED BY <1>1, CauseInitInv, CauseNextInv, AlwaysInv, PTL DEF TaskStoreSpec

-----------------------------------------------------------------------------
(* The notification service.                                               *)

CopyState == [step : Steps, try : Nat]
NotificationTypes ==
  /\ format \in Formats
  /\ reader \in [Readers -> {"legacy", "tolerant"}]
  /\ wire \in [Events -> Formats \cup {NoFormat}]
  /\ note \in [Events -> Notes]
  /\ copyStep \in [EventCopies -> CopyState]

(* The new format is on the wire only when every replica reads it.         *)
AllTolerant == \A r \in Readers : reader[r] = "tolerant"
Sent(e, f) == wire[e] # NoFormat /\ wire[e] = f
InOrder == (format = "v2" \/ \E e \in Events : Sent(e, "v2")) => AllTolerant

(* What is stored has arrived, and a copy comes past the insertion only    *)
(* with an event that has.                                                 *)
StoredArrived == \A e \in Events : Stored(e) => e \in arrived
Past(c) == copyStep[c].step \in {"read", "done", "dead"}
PastArrived == \A c \in EventCopies : Past(c) => EventOf[c] \in arrived

NotificationInv == NotificationTypes /\ InOrder /\ StoredArrived /\ PastArrived

(* The consumer settles a copy - acknowledges it or leaves it to the dead  *)
(* letters - only when its event has reached the inbox.                    *)
SettledHasArrived == \A c \in EventCopies : EventAt(c, "done") \/ EventAt(c, "dead") => EventOf[c] \in arrived

LEMMA EveryReplicaUnderstands ==
  ASSUME NotificationInv, NEW e \in Events, wire[e] # NoFormat, NEW r \in Readers
  PROVE  Understands(reader[r], wire[e])
<1>1. wire[e] \in Formats /\ reader[r] \in {"legacy", "tolerant"}
  BY DEF NotificationInv, NotificationTypes
<1>2. reader[r] = "legacy" => wire[e] # "v2"
  BY DEF NotificationInv, InOrder, Sent, AllTolerant
<1> QED BY <1>1, <1>2 DEF Understands, HasMessage, HasNotification, Formats

LEMMA CopyMoves ==
  ASSUME NotificationInv, NEW c \in EventCopies, NEW step \in Steps, MoveTo(c, step)
  PROVE  /\ copyStep' \in [EventCopies -> CopyState] /\ copyStep'[c].step = step
         /\ \A d \in EventCopies \ {c} : copyStep'[d] = copyStep[d]
<1> DEFINE new == [copyStep[c] EXCEPT !.step = step]
<1>1. copyStep[c] \in CopyState
  BY DEF NotificationInv, NotificationTypes
<1>2. new \in CopyState /\ new.step = step
  BY <1>1 DEF CopyState
<1>3. copyStep' = [copyStep EXCEPT ![c] = new]
  BY DEF MoveTo
<1> HIDE DEF new
<1> QED BY <1>2, <1>3 DEF NotificationInv, NotificationTypes

(* A step of the copy c, to a place that only arrived events come to.      *)
LEMMA CopyKeeps ==
  ASSUME NotificationInv, NEW c \in EventCopies, copyStep' \in [EventCopies -> CopyState],
         \A d \in EventCopies \ {c} : copyStep'[d] = copyStep[d],
         Past(c)' => EventOf[c] \in arrived', arrived \subseteq arrived',
         note' \in [Events -> Notes], StoredArrived', UNCHANGED <<format, reader, wire>>
  PROVE  NotificationInv'
<1>1. NotificationTypes' /\ InOrder'
  BY DEF NotificationInv, NotificationTypes, InOrder, Sent, AllTolerant
<1>2. ASSUME NEW d \in EventCopies, Past(d)' PROVE EventOf[d] \in arrived'
  BY <1>2 DEF NotificationInv, PastArrived, Past
<1> QED BY <1>1, <1>2 DEF NotificationInv, PastArrived

LEMMA ReceiveKeeps ==
  ASSUME NotificationInv, NEW c \in EventCopies, NEW r \in Readers, Receive(c, r)
  PROVE  NotificationInv'
<1>1. Understands(reader[r], wire[EventOf[c]])
  BY EveryReplicaUnderstands, EventOfAssumption DEF Receive
<1>2. MoveTo(c, "insert")
  BY <1>1 DEF Receive
<1>3. /\ copyStep' \in [EventCopies -> CopyState] /\ copyStep'[c].step = "insert"
      /\ \A d \in EventCopies \ {c} : copyStep'[d] = copyStep[d]
  BY <1>2, CopyMoves DEF Steps
<1>4. note' \in [Events -> Notes] /\ StoredArrived' /\ UNCHANGED <<format, reader, wire, arrived>>
  BY DEF Receive, NotificationInv, NotificationTypes, StoredArrived, Stored
<1>5. ~Past(c)'
  BY <1>3 DEF Past
<1> QED BY <1>3, <1>4, <1>5, CopyKeeps

LEMMA InsertKeeps == ASSUME NotificationInv, NEW c \in EventCopies, Insert(c) PROVE NotificationInv'
<1>1. EventOf[c] \in Events /\ UNCHANGED <<format, reader, wire>>
  BY EventOfAssumption DEF Insert
<1>2. PICK step \in {"read", "done"} : MoveTo(c, step)
  BY DEF Insert
<1>3. /\ copyStep' \in [EventCopies -> CopyState]
      /\ \A d \in EventCopies \ {c} : copyStep'[d] = copyStep[d]
  BY <1>2, CopyMoves DEF Steps
<1>4. CASE Stored(EventOf[c])
  <2>1. UNCHANGED <<note, arrived>>
    BY <1>4 DEF Insert
  <2>2. note' \in [Events -> Notes] /\ StoredArrived' /\ EventOf[c] \in arrived
    BY <1>1, <1>4, <2>1 DEF NotificationInv, NotificationTypes, StoredArrived, Stored
  <2> QED BY <1>1, <1>3, <2>1, <2>2, CopyKeeps
<1>5. CASE ~Stored(EventOf[c])
  <2>1. note' = [note EXCEPT ![EventOf[c]] = "unread"] /\ arrived' = arrived \cup {EventOf[c]}
    BY <1>5 DEF Insert
  <2>2. note' \in [Events -> Notes] /\ StoredArrived'
    BY <1>1, <2>1 DEF NotificationInv, NotificationTypes, StoredArrived, Stored, Notes
  <2> QED BY <1>1, <1>3, <2>1, <2>2, CopyKeeps
<1> QED BY <1>4, <1>5

LEMMA ReadExistingKeeps == ASSUME NotificationInv, NEW c \in EventCopies, ReadExisting(c) PROVE NotificationInv'
<1>1. note' \in [Events -> Notes] /\ StoredArrived' /\ UNCHANGED <<format, reader, wire, arrived>>
  BY DEF ReadExisting, NotificationInv, NotificationTypes, StoredArrived, Stored
<1>2. EventOf[c] \in arrived
  BY DEF ReadExisting, EventAt, NotificationInv, PastArrived, Past
<1>3. CASE MoveTo(c, "done") \/ MoveTo(c, "dead")
  <2>1. /\ copyStep' \in [EventCopies -> CopyState]
        /\ \A d \in EventCopies \ {c} : copyStep'[d] = copyStep[d]
    BY <1>3, CopyMoves DEF Steps
  <2> QED BY <1>1, <1>2, <2>1, CopyKeeps
<1>4. CASE copyStep' = [copyStep EXCEPT ![c] = [step |-> "queued", try |-> copyStep[c].try + 1]]
  <2>1. [step |-> "queued", try |-> copyStep[c].try + 1] \in CopyState
    BY DEF NotificationInv, NotificationTypes, CopyState, Steps
  <2>2. /\ copyStep' \in [EventCopies -> CopyState]
        /\ \A d \in EventCopies \ {c} : copyStep'[d] = copyStep[d]
    BY <1>4, <2>1 DEF NotificationInv, NotificationTypes
  <2> QED BY <1>1, <1>2, <2>2, CopyKeeps
<1> QED BY <1>3, <1>4 DEF ReadExisting

(* The deployments, the publisher and the user. *)
LEMMA OthersKeep ==
  ASSUME NotificationInv, NotificationTypes', UNCHANGED <<copyStep, arrived>>, InOrder', StoredArrived'
  PROVE  NotificationInv'
BY DEF NotificationInv, PastArrived, Past

LEMMA NotificationNextInv == NotificationInv /\ [NotificationNext]_notificationVars => NotificationInv'
<1> SUFFICES ASSUME NotificationInv, [NotificationNext]_notificationVars PROVE NotificationInv'
  OBVIOUS
<1>1. CASE Expand \/ Contract
  <2>1. format' \in Formats /\ (format' = "v2" => AllTolerant)
    BY <1>1 DEF Expand, Contract, Formats, AllTolerant
  <2>2. UNCHANGED <<reader, wire, note, copyStep, arrived>>
    BY <1>1 DEF Expand, Contract
  <2>3. NotificationTypes' /\ InOrder' /\ StoredArrived'
    BY <2>1, <2>2 DEF NotificationInv, NotificationTypes, InOrder, Sent, AllTolerant, StoredArrived, Stored
  <2> QED BY <2>2, <2>3, OthersKeep
<1>2. ASSUME NEW r \in Readers, Upgrade(r) PROVE NotificationInv'
  <2>1. reader' = [reader EXCEPT ![r] = "tolerant"] /\ UNCHANGED <<format, wire, note, copyStep, arrived>>
    BY <1>2 DEF Upgrade
  <2>2. NotificationTypes' /\ InOrder' /\ StoredArrived'
    BY <2>1 DEF NotificationInv, NotificationTypes, InOrder, Sent, AllTolerant, StoredArrived, Stored
  <2> QED BY <2>1, <2>2, OthersKeep
<1>3. ASSUME NEW e \in Events, PublishEvent(e) PROVE NotificationInv'
  <2>1. wire' = [wire EXCEPT ![e] = format] /\ UNCHANGED <<format, reader, note, copyStep, arrived>>
    BY <1>3 DEF PublishEvent
  <2>2. \A f \in Events : Sent(f, "v2")' => Sent(f, "v2") \/ format = "v2"
    BY <2>1 DEF NotificationInv, NotificationTypes, Sent
  <2>3. NotificationTypes' /\ StoredArrived'
    BY <2>1 DEF NotificationInv, NotificationTypes, StoredArrived, Stored
  <2>4. InOrder'
    BY <2>1, <2>2 DEF NotificationInv, InOrder, AllTolerant
  <2> QED BY <2>1, <2>3, <2>4, OthersKeep
<1>4. ASSUME NEW e \in Events, MarkRead(e) \/ DeleteNote(e) PROVE NotificationInv'
  <2>1. PICK n \in {"read", "deleted"} : note' = [note EXCEPT ![e] = n]
    BY <1>4 DEF MarkRead, DeleteNote
  <2>2. Stored(e) /\ UNCHANGED <<format, reader, wire, copyStep, arrived>>
    BY <1>4 DEF MarkRead, DeleteNote
  <2>3. NotificationTypes' /\ InOrder'
    BY <2>1, <2>2 DEF NotificationInv, NotificationTypes, Notes, InOrder, Sent, AllTolerant
  <2>4. StoredArrived'
    BY <2>1, <2>2 DEF NotificationInv, NotificationTypes, StoredArrived, Stored
  <2> QED BY <2>2, <2>3, <2>4, OthersKeep
<1>5. ASSUME NEW c \in EventCopies, HandleEvent(c) PROVE NotificationInv'
  BY <1>5, ReceiveKeeps, InsertKeeps, ReadExistingKeeps DEF HandleEvent
<1>6. CASE UNCHANGED notificationVars
  BY <1>6 DEF notificationVars, NotificationInv, NotificationTypes, InOrder, Sent, AllTolerant, StoredArrived, Stored,
              PastArrived, Past
<1> QED BY <1>1, <1>2, <1>3, <1>4, <1>5, <1>6 DEF NotificationNext

LEMMA NotificationInitInv == NotificationInit => NotificationInv
<1> SUFFICES ASSUME NotificationInit PROVE NotificationInv
  OBVIOUS
<1>1. NotificationTypes
  BY DEF NotificationInit, NotificationTypes, Notes, CopyState, Steps
<1>2. InOrder
  BY DEF NotificationInit, InOrder, Sent, AllTolerant
<1>3. StoredArrived /\ PastArrived
  BY DEF NotificationInit, StoredArrived, Stored, PastArrived, Past
<1> QED BY <1>1, <1>2, <1>3 DEF NotificationInv

(* "v2 ... requires consumers that read v2": whatever the order of the     *)
(* deployments of the other services, no replica leaves an event to the    *)
(* dead letters that is not in the inbox, and none acknowledges one.  What *)
(* fairness adds to that is EventReachesInbox.                             *)
THEOREM EventsSettledInTheInbox == NotificationSpec => []SettledHasArrived
<1>1. NotificationInv => SettledHasArrived
  BY DEF NotificationInv, PastArrived, Past, SettledHasArrived, EventAt
<1> QED BY NotificationInitInv, NotificationNextInv, <1>1, PTL DEF NotificationSpec

-----------------------------------------------------------------------------
(***************************************************************************)
(* Starting and stopping, for any number of replicas and releases: nobody  *)
(* serves without the migrations of its release, replicas that migrate at  *)
(* the same time do not fail for it, and the pool ends after the work.     *)
(***************************************************************************)

Phases == {"gone", "waiting", "locking", "reading", "migrating", "serving"}
Process ==
  [phase : Phases, attempts : Nat, seen : SUBSET Nat, file : Nat \ {0}, open : BOOLEAN,
   work : SUBSET Kinds, stop : 0 .. 4]

StartupTypes ==
  /\ process \in [Services -> Process]
  /\ locked \in Services \cup {"nobody"}
  /\ schema \in Seq(Nat)
  /\ mishaps \in Nat

SchemaInOrder == \A i \in DOMAIN schema : schema[i] = i

(* Who migrates holds the lock, and knows what it found and what it did.   *)
Fresh(x) == x.file = 1 /\ x.open = FALSE /\ x.work = {} /\ x.stop = 0
Migrating(x, applied) ==
  /\ x.work = {} /\ x.stop = 0
  /\ applied = x.seen \cup 1 .. x.file - 1
  /\ x.open => x.file \notin x.seen
(* The steps of the shutdown that are over left nothing behind that the    *)
(* next ones take away.                                                    *)
StoppedInOrder(x) == \A n \in 1 .. x.stop - 1 : StopOrder[n] = "message" \/ StopOrder[n] \notin x.work

ProcessInOrder(x, release, applied) ==
  /\ x.phase \in {"gone", "waiting", "locking", "reading"} => Fresh(x)
  /\ x.phase = "migrating" => Migrating(x, applied)
  /\ x.phase = "serving" => 1 .. release \subseteq applied
  /\ StoppedInOrder(x)

HoldsLock(x) == x.phase \in {"reading", "migrating"}

StartupInv ==
  /\ StartupTypes
  /\ SchemaInOrder
  /\ \A s \in Services : ProcessInOrder(process[s], Migrations[s], Applied)
  /\ \A s \in Services : HoldsLock(process[s]) => locked = s

-----------------------------------------------------------------------------
(* A step that changes one field keeps the type of a process. *)
LEMMA Fields ==
  ASSUME NEW x \in Process
  PROVE  /\ \A phase \in Phases : [x EXCEPT !.phase = phase] \in Process
         /\ \A attempts \in Nat : [x EXCEPT !.attempts = attempts] \in Process
         /\ \A seen \in SUBSET Nat : [x EXCEPT !.seen = seen] \in Process
         /\ [x EXCEPT !.file = @ + 1] \in Process
         /\ \A open \in BOOLEAN : [x EXCEPT !.open = open] \in Process
         /\ \A work \in SUBSET Kinds : [x EXCEPT !.work = work] \in Process
         /\ \A stop \in 0 .. 4 : [x EXCEPT !.stop = stop] \in Process
<1>1. ASSUME NEW phase \in Phases PROVE [x EXCEPT !.phase = phase] \in Process
  BY DEF Process
<1>2. ASSUME NEW attempts \in Nat PROVE [x EXCEPT !.attempts = attempts] \in Process
  BY DEF Process
<1>3. ASSUME NEW seen \in SUBSET Nat PROVE [x EXCEPT !.seen = seen] \in Process
  BY DEF Process
<1>4. [x EXCEPT !.file = @ + 1] \in Process
  BY DEF Process
<1>5. ASSUME NEW open \in BOOLEAN PROVE [x EXCEPT !.open = open] \in Process
  BY DEF Process
<1>6. ASSUME NEW work \in SUBSET Kinds PROVE [x EXCEPT !.work = work] \in Process
  BY DEF Process
<1>7. ASSUME NEW stop \in 0 .. 4 PROVE [x EXCEPT !.stop = stop] \in Process
  BY DEF Process
<1> QED BY <1>1, <1>2, <1>3, <1>4, <1>5, <1>6, <1>7

LEMMA GoneTyped == Gone \in Process
  BY DEF Gone, Process, Phases, Kinds

LEMMA Launched ==
  ASSUME NEW x \in Process
  PROVE  [x EXCEPT !.phase = "waiting", !.attempts = 1] \in Process
<1>1. [x EXCEPT !.phase = "waiting"] \in Process
  BY Fields DEF Phases
<1>2. [[x EXCEPT !.phase = "waiting"] EXCEPT !.attempts = 1] \in Process
  BY <1>1, Fields
<1> QED BY <1>2

LEMMA HasRead ==
  ASSUME NEW x \in Process, NEW seen \in SUBSET Nat
  PROVE  [x EXCEPT !.phase = "migrating", !.seen = seen] \in Process
<1>1. [x EXCEPT !.phase = "migrating"] \in Process
  BY Fields DEF Phases
<1>2. [[x EXCEPT !.phase = "migrating"] EXCEPT !.seen = seen] \in Process
  BY <1>1, Fields
<1> QED BY <1>2

LEMMA Committed ==
  ASSUME NEW x \in Process
  PROVE  [x EXCEPT !.file = @ + 1, !.open = FALSE] \in Process
<1>1. [x EXCEPT !.file = @ + 1] \in Process
  BY Fields
<1>2. [[x EXCEPT !.file = @ + 1] EXCEPT !.open = FALSE] \in Process
  BY <1>1, Fields
<1> QED BY <1>2

-----------------------------------------------------------------------------
LEMMA StartupInitInv == StartupInit => StartupInv
<1> SUFFICES ASSUME StartupInit PROVE StartupInv
  OBVIOUS
<1>1. StartupTypes
  BY GoneTyped DEF StartupInit, StartupTypes
<1>2. SchemaInOrder
  BY DEF StartupInit, SchemaInOrder
<1>3. ASSUME NEW s \in Services PROVE ProcessInOrder(process[s], Migrations[s], Applied) /\ ~HoldsLock(process[s])
  BY DEF StartupInit, Gone, ProcessInOrder, HoldsLock, Fresh, StoppedInOrder
<1> QED BY <1>1, <1>2, <1>3 DEF StartupInv

(* A step of one replica that leaves the schema alone. *)
LEMMA OneProcess ==
  ASSUME StartupInv, NEW s \in Services, NEW new \in Process,
         process' = [process EXCEPT ![s] = new], UNCHANGED schema, mishaps' \in Nat,
         ProcessInOrder(new, Migrations[s], Applied),
         locked' \in Services \cup {"nobody"},
         HoldsLock(new) => locked' = s,
         \A t \in Services \ {s} : HoldsLock(process[t]) => locked' = t
  PROVE  StartupInv'
<1>1. StartupTypes'
  BY DEF StartupInv, StartupTypes
<1>2. SchemaInOrder' /\ Applied' = Applied
  BY DEF StartupInv, SchemaInOrder, Applied
<1>3. ASSUME NEW t \in Services
      PROVE  /\ ProcessInOrder(process'[t], Migrations[t], Applied)
             /\ HoldsLock(process'[t]) => locked' = t
  BY DEF StartupInv, StartupTypes
<1> QED BY <1>1, <1>2, <1>3 DEF StartupInv

(* The end of a process: the lock goes with it. *)
LEMMA OneExit ==
  ASSUME StartupInv, NEW s \in Services, Exit(s), UNCHANGED schema, mishaps' \in Nat
  PROVE  StartupInv'
<1>1. ProcessInOrder(Gone, Migrations[s], Applied) /\ ~HoldsLock(Gone)
  BY DEF Gone, ProcessInOrder, HoldsLock, Fresh, StoppedInOrder
<1>2. process' = [process EXCEPT ![s] = Gone]
  BY DEF Exit
<1>3. locked' \in Services \cup {"nobody"} /\ \A t \in Services \ {s} : HoldsLock(process[t]) => locked' = t
  BY DEF Exit, ReleaseLock, StartupInv, StartupTypes
<1> QED BY <1>1, <1>2, <1>3, GoneTyped, OneProcess

(* What a step of the start or of the shutdown may assume. *)
LEMMA ProcessTyped ==
  ASSUME StartupInv, NEW s \in Services
  PROVE  /\ process[s] \in Process /\ ProcessInOrder(process[s], Migrations[s], Applied)
         /\ HoldsLock(process[s]) => locked = s
         /\ locked \in Services \cup {"nobody"} /\ mishaps \in Nat
         /\ Migrations[s] \in Nat \ {0}
  BY MigrationsAssumption DEF StartupInv, StartupTypes

LEMMA AppliedSchema == StartupInv => Applied = 1 .. Len(schema)
  BY DEF StartupInv, StartupTypes, SchemaInOrder, Applied

(* A migration takes effect: nobody else's picture of the schema matters,  *)
(* because nobody else migrates.                                           *)
LEMMA CommitInv ==
  ASSUME StartupInv, NEW s \in Services, CommitMigration(s), process[s].file \notin Applied
  PROVE  StartupInv'
<1> DEFINE new == [process[s] EXCEPT !.file = @ + 1, !.open = FALSE]
<1> DEFINE file == process[s].file
<1>1. /\ process' = [process EXCEPT ![s] = new] /\ schema' = Append(schema, file)
      /\ UNCHANGED <<mishaps, locked>> /\ process[s].phase = "migrating"
  BY DEF CommitMigration, InPhase
<1>2. new \in Process
  BY ProcessTyped, Committed
<1>3. /\ new.phase = "migrating" /\ new.seen = process[s].seen /\ new.open = FALSE
      /\ new.file = file + 1 /\ new.file - 1 = file
      /\ new.work = process[s].work /\ new.stop = process[s].stop
  BY <1>1, ProcessTyped DEF Process
<1> HIDE DEF new
<1>4. Migrating(process[s], Applied) /\ StoppedInOrder(process[s]) /\ locked = s /\ file \in Nat \ {0}
  BY <1>1, ProcessTyped DEF ProcessInOrder, HoldsLock, Process
<1>5. Applied = 1 .. Len(schema) /\ schema \in Seq(Nat) /\ \A i \in 1 .. Len(schema) : schema[i] = i
  BY AppliedSchema DEF StartupInv, StartupTypes, SchemaInOrder
<1>6. file = Len(schema) + 1
  <2>1. 1 .. file - 1 \subseteq 1 .. Len(schema) /\ file \notin 1 .. Len(schema)
    BY <1>4, <1>5 DEF Migrating
  <2>2. Len(schema) \in Nat
    BY <1>5
  <2>3. CASE file = 1
    BY <1>4, <2>1, <2>2, <2>3
  <2>4. CASE file > 1
    <3>1. file - 1 \in 1 .. Len(schema)
      BY <1>4, <2>1, <2>4
    <3> QED BY <1>4, <2>1, <2>2, <3>1
  <2> QED BY <1>4, <2>3, <2>4
<1>7. schema' \in Seq(Nat) /\ Len(schema') = file /\ \A i \in 1 .. file : schema'[i] = i
  BY <1>1, <1>4, <1>5, <1>6
<1>8. SchemaInOrder'
  BY <1>7 DEF SchemaInOrder
<1>9. Applied' = 1 .. file /\ Applied' = Applied \cup {file}
  <2>1. Applied' = {schema'[i] : i \in 1 .. file}
    BY <1>7 DEF Applied
  <2>2. {schema'[i] : i \in 1 .. file} = 1 .. file
    BY <1>7
  <2>3. 1 .. file = 1 .. Len(schema) \cup {file}
    BY <1>5, <1>6
  <2> QED BY <1>5, <2>1, <2>2, <2>3
<1>10. StartupTypes'
  BY <1>1, <1>2, <1>7 DEF StartupInv, StartupTypes
<1>11. ProcessInOrder(new, Migrations[s], Applied')
  <2>1. 1 .. file = 1 .. file - 1 \cup {file}
    BY <1>4
  <2>2. Migrating(new, Applied')
    BY <1>3, <1>4, <1>9, <2>1 DEF Migrating
  <2> QED BY <1>3, <1>4, <2>2 DEF ProcessInOrder, StoppedInOrder
<1>12. ASSUME NEW t \in Services \ {s} PROVE ProcessInOrder(process'[t], Migrations[t], Applied')
  <2>1. process'[t] = process[t]
    BY <1>1
  <2>2. ProcessInOrder(process[t], Migrations[t], Applied) /\ process[t].phase # "migrating"
    BY <1>4, ProcessTyped DEF HoldsLock
  <2> QED BY <1>9, <2>1, <2>2 DEF ProcessInOrder
<1>13. process'[s] = new /\ \A t \in Services \ {s} : process'[t] = process[t]
  BY <1>1 DEF StartupInv, StartupTypes
<1>14. \A t \in Services : HoldsLock(process'[t]) => locked' = t
  BY <1>1, <1>4, <1>13 DEF StartupInv
<1> QED BY <1>8, <1>10, <1>11, <1>12, <1>13, <1>14 DEF StartupInv

(* A step of one replica does not end another. *)
LEMMA OthersStay ==
  ASSUME NEW s \in Services, NEW t \in Services, t # s, process \in [Services -> Process], Progress(t)
  PROVE  process'[s] = process[s]
  BY DEF Progress, Launch, Wait, Lock, ReadApplied, BeginMigration, CommitMigration, Serve, LoseDatabase,
         StopStep, Stopped, Finish, GiveUpStart, Exit

(* A start ends by itself only without a database: the migration it would  *)
(* commit is not in effect, because nobody else migrates.                  *)
LEMMA OwnEnd ==
  ASSUME StartupInv, NEW s \in Services, Progress(s), database,
         process[s].phase \in {"waiting", "locking", "reading", "migrating"}
  PROVE  process'[s].phase # "gone"
<1>1. process \in [Services -> Process] /\ process[s] \in Process /\ process[s].stop = 0 /\ process[s].work = {}
  BY ProcessTyped DEF StartupInv, StartupTypes, ProcessInOrder, Fresh, Migrating
<1>2. process[s].phase # "gone" /\ process[s].phase # "serving"
  OBVIOUS
<1>3. CASE Wait(s)
  <2>1. CASE process' = [process EXCEPT ![s].phase = "locking"]
    BY <1>1, <2>1 DEF Process
  <2>2. process' = [process EXCEPT ![s].phase = "locking"]
    BY <1>3 DEF Wait
  <2> QED BY <2>1, <2>2
<1>4. CASE Lock(s) \/ ReadApplied(s)
  <2>1. CASE process' = [process EXCEPT ![s].phase = "reading"]
    BY <1>1, <2>1 DEF Process
  <2>2. CASE process' = [process EXCEPT ![s].phase = "migrating", ![s].seen = Applied]
    BY <1>1, <2>2 DEF Process
  <2> QED BY <1>4, <2>1, <2>2 DEF Lock, ReadApplied
<1>5. CASE BeginMigration(s)
  BY <1>1, <1>2, <1>5 DEF BeginMigration, Process
<1>6. CASE CommitMigration(s)
  <2>1. process[s].open /\ process[s].phase = "migrating"
    BY <1>6 DEF CommitMigration, InPhase
  <2>2. Applied = process[s].seen \cup 1 .. process[s].file - 1 /\ process[s].file \notin process[s].seen
    BY <2>1, ProcessTyped DEF ProcessInOrder, Migrating
  <2>3. process[s].file \notin Applied
    BY <1>1, <2>2 DEF Process
  <2>4. process' = [process EXCEPT ![s].file = @ + 1, ![s].open = FALSE]
    BY <1>6, <2>3 DEF CommitMigration
  <2> QED BY <1>1, <1>2, <2>4 DEF Process
<1>7. CASE Serve(s)
  BY <1>1, <1>7 DEF Serve, Gone
<1>8. CASE Launch(s) \/ LoseDatabase(s) \/ StopStep(s) \/ Stopped(s) \/ \E kind \in Kinds : Finish(s, kind)
  BY <1>1, <1>2, <1>8 DEF Launch, LoseDatabase, StopStep, Stopped, Finish, InPhase, StopOrder
<1> QED BY <1>3, <1>4, <1>5, <1>6, <1>7, <1>8 DEF Progress

LEMMA StartupNextInv == StartupInv /\ [StartupNext]_startupVars => StartupInv'
<1> SUFFICES ASSUME StartupInv, [StartupNext]_startupVars PROVE StartupInv'
  OBVIOUS
<1>1. ASSUME NEW s \in Services, Launch(s) PROVE StartupInv'
  <2> DEFINE new == [process[s] EXCEPT !.phase = "waiting", !.attempts = 1]
  <2>1. process' = [process EXCEPT ![s] = new] /\ UNCHANGED schema /\ mishaps' \in Nat /\ process[s].phase = "gone"
    BY <1>1, ProcessTyped DEF Launch, InPhase
  <2>2. new \in Process
    BY <2>1, ProcessTyped, Launched
  <2>3. /\ new.phase = "waiting"
        /\ new.file = process[s].file
        /\ new.open = process[s].open
        /\ new.seen = process[s].seen
        /\ new.work = process[s].work
        /\ new.stop = process[s].stop
    BY ProcessTyped DEF Process
  <2> HIDE DEF new
  <2>4. ProcessInOrder(new, Migrations[s], Applied)
    BY <2>1, <2>2, <2>3, ProcessTyped DEF ProcessInOrder, Fresh, StoppedInOrder, Process
  <2>5. locked' = locked /\ (HoldsLock(new) => HoldsLock(process[s]))
    BY <1>1, <2>1, <2>3 DEF HoldsLock, Launch, InPhase
  <2>6. \A t \in Services : HoldsLock(process[t]) => locked = t
    BY DEF StartupInv
  <2>7. locked \in Services \cup {"nobody"}
    BY ProcessTyped
  <2> QED BY <2>1, <2>2, <2>4, <2>5, <2>6, <2>7, OneProcess
<1>2. ASSUME NEW s \in Services, Wait(s) PROVE StartupInv'
  <2>1. CASE process' = [process EXCEPT ![s].phase = "locking"] /\ UNCHANGED <<locked, schema, mishaps>>
    <3> DEFINE new == [process[s] EXCEPT !.phase = "locking"]
    <3>1. new \in Process
      BY ProcessTyped, Fields DEF Phases
    <3>2. new.phase = "locking" /\ new.file = process[s].file /\ new.open = process[s].open
          /\ new.work = process[s].work /\ new.stop = process[s].stop
      BY ProcessTyped DEF Process
    <3>3. process' = [process EXCEPT ![s] = new]
      BY <2>1
    <3> HIDE DEF new
    <3>4. ProcessInOrder(new, Migrations[s], Applied) /\ ~HoldsLock(new)
      BY <1>2, <3>2, ProcessTyped DEF Wait, InPhase, ProcessInOrder, Fresh, StoppedInOrder, HoldsLock
    <3> QED BY <2>1, <3>1, <3>3, <3>4, ProcessTyped, OneProcess DEF StartupInv
  <2>2. CASE process' = [process EXCEPT ![s].attempts = @ + 1] /\ UNCHANGED <<locked, schema, mishaps>>
    <3> DEFINE new == [process[s] EXCEPT !.attempts = @ + 1]
    <3>1. process[s].attempts + 1 \in Nat
      BY ProcessTyped DEF Process
    <3>2. new \in Process
      BY <3>1, ProcessTyped, Fields
    <3>3. new.phase = process[s].phase /\ new.file = process[s].file /\ new.open = process[s].open
          /\ new.work = process[s].work /\ new.stop = process[s].stop
      BY ProcessTyped DEF Process
    <3>4. process' = [process EXCEPT ![s] = new]
      BY <2>2
    <3> HIDE DEF new
    <3>5. ProcessInOrder(new, Migrations[s], Applied) /\ ~HoldsLock(new)
      BY <1>2, <3>3, ProcessTyped DEF Wait, InPhase, ProcessInOrder, Fresh, StoppedInOrder, HoldsLock
    <3> QED BY <2>2, <3>2, <3>4, <3>5, ProcessTyped, OneProcess DEF StartupInv
  <2>3. CASE GiveUpStart(s)
    BY <2>3, ProcessTyped, OneExit DEF GiveUpStart
  <2> QED BY <1>2, <2>1, <2>2, <2>3 DEF Wait
<1>3. ASSUME NEW s \in Services, Lock(s) PROVE StartupInv'
  <2> DEFINE new == [process[s] EXCEPT !.phase = "reading"]
  <2>1. process' = [process EXCEPT ![s] = new] /\ UNCHANGED schema /\ mishaps' \in Nat /\ process[s].phase = "locking"
    BY <1>3, ProcessTyped DEF Lock, InPhase
  <2>2. new \in Process
    BY <2>1, ProcessTyped, Fields DEF Phases
  <2>3. /\ new.phase = "reading"
        /\ new.file = process[s].file
        /\ new.open = process[s].open
        /\ new.seen = process[s].seen
        /\ new.work = process[s].work
        /\ new.stop = process[s].stop
    BY ProcessTyped DEF Process
  <2> HIDE DEF new
  <2>4. ProcessInOrder(new, Migrations[s], Applied)
    BY <2>1, <2>2, <2>3, ProcessTyped DEF ProcessInOrder, Fresh, StoppedInOrder, Process
  <2>5. /\ locked' \in Services \cup {"nobody"}
        /\ HoldsLock(new) => locked' = s
        /\ \A t \in Services \ {s} : HoldsLock(process[t]) => locked' = t
    BY <1>3, <2>1, <2>3, ProcessTyped, ServicesAssumption DEF StartupInv, Lock, MayLock, HoldsLock
  <2> QED BY <2>1, <2>2, <2>4, <2>5, OneProcess
<1>4. ASSUME NEW s \in Services, ReadApplied(s) PROVE StartupInv'
  <2> DEFINE new == [process[s] EXCEPT !.phase = "migrating", !.seen = Applied]
  <2>1. process' = [process EXCEPT ![s] = new] /\ UNCHANGED <<schema, mishaps, locked>> /\ process[s].phase = "reading"
    BY <1>4 DEF ReadApplied, InPhase
  <2>2. Applied \in SUBSET Nat
    BY AppliedSchema DEF StartupInv, StartupTypes
  <2>3. new \in Process
    BY <2>2, ProcessTyped, HasRead
  <2>4. /\ new.phase = "migrating" /\ new.seen = Applied
        /\ new.file = process[s].file /\ new.open = process[s].open
        /\ new.work = process[s].work /\ new.stop = process[s].stop
    BY ProcessTyped DEF Process
  <2> HIDE DEF new
  <2>5. Fresh(process[s]) /\ locked = s
    BY <2>1, ProcessTyped DEF ProcessInOrder, HoldsLock
  <2>6. ProcessInOrder(new, Migrations[s], Applied)
    BY <2>4, <2>5 DEF Fresh, ProcessInOrder, Migrating, StoppedInOrder
  <2> QED BY <2>1, <2>3, <2>5, <2>6, ProcessTyped, OneProcess DEF StartupInv
<1>5. ASSUME NEW s \in Services, BeginMigration(s) PROVE StartupInv'
  <2>1. UNCHANGED <<schema, mishaps, locked>> /\ process[s].phase = "migrating" /\ process[s].open = FALSE
    BY <1>5, ProcessTyped DEF BeginMigration, InPhase, Process
  <2>2. Migrating(process[s], Applied) /\ StoppedInOrder(process[s]) /\ locked = s
    BY <2>1, ProcessTyped DEF ProcessInOrder, HoldsLock
  <2>3. CASE Skip(s)
    <3> DEFINE new == [process[s] EXCEPT !.file = @ + 1]
    <3>1. process' = [process EXCEPT ![s] = new]
      BY <1>5, <2>3 DEF BeginMigration
    <3>2. new \in Process
      BY ProcessTyped, Fields
    <3>3. /\ new.phase = "migrating" /\ new.seen = process[s].seen /\ new.open = FALSE
          /\ new.file = process[s].file + 1 /\ new.file - 1 = process[s].file
          /\ new.work = process[s].work /\ new.stop = process[s].stop
      BY <2>1, ProcessTyped DEF Process
    <3>4. process[s].file \in process[s].seen /\ process[s].file \in Nat \ {0}
      BY <2>3, ProcessTyped DEF Skip, Process
    <3>5. 1 .. process[s].file = 1 .. process[s].file - 1 \cup {process[s].file}
      BY <3>4
    <3> HIDE DEF new
    <3>6. ProcessInOrder(new, Migrations[s], Applied)
      BY <2>2, <3>3, <3>4, <3>5 DEF ProcessInOrder, Migrating, StoppedInOrder
    <3> QED BY <2>1, <2>2, <3>1, <3>2, <3>6, ProcessTyped, OneProcess DEF StartupInv
  <2>4. CASE ~Skip(s)
    <3> DEFINE new == [process[s] EXCEPT !.open = TRUE]
    <3>1. process' = [process EXCEPT ![s] = new]
      BY <1>5, <2>4 DEF BeginMigration
    <3>2. new \in Process
      BY ProcessTyped, Fields
    <3>3. /\ new.phase = "migrating" /\ new.seen = process[s].seen /\ new.open = TRUE
          /\ new.file = process[s].file /\ new.work = process[s].work /\ new.stop = process[s].stop
      BY <2>1, ProcessTyped DEF Process
    <3>4. process[s].file \notin process[s].seen
      BY <1>5, <2>4 DEF BeginMigration, Skip
    <3> HIDE DEF new
    <3>5. ProcessInOrder(new, Migrations[s], Applied)
      BY <2>2, <3>3, <3>4 DEF ProcessInOrder, Migrating, StoppedInOrder
    <3> QED BY <2>1, <2>2, <3>1, <3>2, <3>5, ProcessTyped, OneProcess DEF StartupInv
  <2> QED BY <2>3, <2>4
<1>6. ASSUME NEW s \in Services, CommitMigration(s) PROVE StartupInv'
  <2>1. CASE GiveUpStart(s)
    BY <2>1, ProcessTyped, OneExit DEF GiveUpStart
  <2>2. CASE process[s].file \notin Applied
    BY <1>6, <2>2, CommitInv
  <2> QED BY <1>6, <2>1, <2>2 DEF CommitMigration
<1>7. ASSUME NEW s \in Services, Serve(s) PROVE StartupInv'
  <2> DEFINE new == [Gone EXCEPT !.phase = "serving"]
  <2>1. /\ process' = [process EXCEPT ![s] = new] /\ UNCHANGED <<schema, mishaps>> /\ ReleaseLock(s)
        /\ process[s].phase = "migrating" /\ process[s].file > Migrations[s]
    BY <1>7 DEF Serve, InPhase
  <2>2. new \in Process
    BY GoneTyped, Fields DEF Phases
  <2>3. new.phase = "serving" /\ new.stop = 0
    BY DEF Gone
  <2> HIDE DEF new
  <2>4. Migrating(process[s], Applied) /\ locked = s
    BY <2>1, ProcessTyped DEF ProcessInOrder, HoldsLock
  <2>5. 1 .. Migrations[s] \subseteq Applied
    BY <2>1, <2>4, ProcessTyped DEF Migrating, Process
  <2>6. ProcessInOrder(new, Migrations[s], Applied) /\ ~HoldsLock(new)
    BY <2>3, <2>5 DEF ProcessInOrder, StoppedInOrder, HoldsLock
  <2>7. locked' = "nobody" /\ \A t \in Services \ {s} : ~HoldsLock(process[t])
    BY <2>1, <2>4 DEF ReleaseLock, StartupInv
  <2> QED BY <2>1, <2>2, <2>6, <2>7, ProcessTyped, OneProcess
<1>8. ASSUME NEW s \in Services, LoseDatabase(s) PROVE StartupInv'
  BY <1>8, ProcessTyped, OneExit DEF LoseDatabase, GiveUpStart
<1>9. ASSUME NEW s \in Services, NEW kind \in Kinds, TakeWork(s, kind) PROVE StartupInv'
  <2> DEFINE new == [process[s] EXCEPT !.work = @ \cup {kind}]
  <2>1. /\ process' = [process EXCEPT ![s] = new] /\ UNCHANGED <<schema, mishaps, locked>>
        /\ process[s].phase = "serving" /\ Takes(s, kind)
    BY <1>9 DEF TakeWork, InPhase
  <2>2. process[s].work \cup {kind} \in SUBSET Kinds
    BY ProcessTyped DEF Process
  <2>3. new \in Process
    BY <2>2, ProcessTyped, Fields
  <2>4. new.phase = "serving" /\ new.stop = process[s].stop /\ new.work = process[s].work \cup {kind}
    BY <2>1, ProcessTyped DEF Process
  <2> HIDE DEF new
  <2>5. StoppedInOrder(new)
    BY <2>1, <2>4, ProcessTyped DEF ProcessInOrder, StoppedInOrder, Takes, Process
  <2>6. ProcessInOrder(new, Migrations[s], Applied) /\ ~HoldsLock(new)
    BY <2>1, <2>4, <2>5, ProcessTyped DEF ProcessInOrder, HoldsLock
  <2> QED BY <2>1, <2>3, <2>6, ProcessTyped, OneProcess DEF StartupInv
<1>10. ASSUME NEW s \in Services, NEW kind \in Kinds, Finish(s, kind) PROVE StartupInv'
  <2> DEFINE new == [process[s] EXCEPT !.work = @ \ {kind}]
  <2>1. /\ process' = [process EXCEPT ![s] = new] /\ UNCHANGED <<schema, mishaps, locked>>
        /\ kind \in process[s].work
    BY <1>10 DEF Finish
  <2>2. process[s].work \ {kind} \in SUBSET Kinds
    BY ProcessTyped DEF Process
  <2>3. new \in Process
    BY <2>2, ProcessTyped, Fields
  <2>4. new.phase = process[s].phase /\ new.stop = process[s].stop /\ new.work = process[s].work \ {kind}
    BY ProcessTyped DEF Process
  <2>5. process[s].phase = "serving"
    BY <2>1, ProcessTyped DEF ProcessInOrder, Fresh, Migrating, Process, Phases
  <2> HIDE DEF new
  <2>6. ProcessInOrder(new, Migrations[s], Applied) /\ ~HoldsLock(new)
    BY <2>4, <2>5, ProcessTyped DEF ProcessInOrder, StoppedInOrder, HoldsLock
  <2> QED BY <2>1, <2>3, <2>6, ProcessTyped, OneProcess DEF StartupInv
<1>11. ASSUME NEW s \in Services, StopStep(s) PROVE StartupInv'
  <2> DEFINE new == [process[s] EXCEPT !.stop = @ + 1]
  <2>1. /\ process' = [process EXCEPT ![s] = new] /\ UNCHANGED <<schema, mishaps, locked>>
        /\ process[s].phase = "serving" /\ process[s].stop \in 1 .. 3 /\ ~Awaited(s)
    BY <1>11 DEF StopStep, InPhase, StopOrder
  <2>2. process[s].stop + 1 \in 0 .. 4
    BY <2>1
  <2>3. new \in Process
    BY <2>2, ProcessTyped, Fields
  <2>4. new.phase = "serving" /\ new.stop = process[s].stop + 1 /\ new.work = process[s].work
    BY <2>1, ProcessTyped DEF Process
  <2> HIDE DEF new
  <2>5. StopOrder[process[s].stop] = "message" \/ StopOrder[process[s].stop] \notin process[s].work
    BY <2>1 DEF Awaited
  <2>6. StoppedInOrder(new)
    <3> SUFFICES ASSUME NEW n \in 1 .. process[s].stop
                 PROVE  StopOrder[n] = "message" \/ StopOrder[n] \notin process[s].work
      BY <2>1, <2>4 DEF StoppedInOrder
    <3>1. n = process[s].stop \/ n \in 1 .. process[s].stop - 1
      BY <2>1
    <3> QED BY <2>5, <3>1, ProcessTyped DEF ProcessInOrder, StoppedInOrder
  <2>7. ProcessInOrder(new, Migrations[s], Applied) /\ ~HoldsLock(new)
    BY <2>1, <2>4, <2>6, ProcessTyped DEF ProcessInOrder, HoldsLock
  <2> QED BY <2>1, <2>3, <2>7, ProcessTyped, OneProcess DEF StartupInv
<1>12. ASSUME NEW s \in Services, Stopped(s) PROVE StartupInv'
  BY <1>12, ProcessTyped, OneExit DEF Stopped
<1>13. ASSUME NEW s \in Services, Signal(s) PROVE StartupInv'
  <2> DEFINE new == [process[s] EXCEPT !.stop = 1]
  <2>1. /\ process' = [process EXCEPT ![s] = new] /\ UNCHANGED <<schema, locked>> /\ mishaps' = mishaps + 1
        /\ process[s].phase = "serving"
    <3>1. process' = [process EXCEPT ![s] = new]
      BY <1>13 DEF Signal
    <3>2. UNCHANGED <<schema, locked>> /\ process[s].phase = "serving"
      BY <1>13 DEF Signal, InPhase
    <3>3. mishaps' = mishaps + 1
      BY <1>13 DEF Signal, Mishap
    <3> QED BY <3>1, <3>2, <3>3
  <2>2. new \in Process
    <3>1. 1 \in 0 .. 4
      OBVIOUS
    <3> QED BY <3>1, ProcessTyped, Fields
  <2>3. new.phase = "serving" /\ new.stop = 1
    BY <2>1, ProcessTyped DEF Process
  <2> HIDE DEF new
  <2>4. ProcessInOrder(new, Migrations[s], Applied) /\ ~HoldsLock(new)
    BY <2>1, <2>3, ProcessTyped DEF ProcessInOrder, StoppedInOrder, HoldsLock
  <2>5. mishaps' \in Nat
    BY <2>1, ProcessTyped
  <2> QED BY <2>1, <2>2, <2>4, <2>5, ProcessTyped, OneProcess DEF StartupInv
<1>14. ASSUME NEW s \in Services, CrashService(s) PROVE StartupInv'
  <2>1. mishaps' \in Nat
    BY <1>14, ProcessTyped DEF CrashService, Mishap
  <2> QED BY <1>14, <2>1, OneExit DEF CrashService
<1>15. CASE UNCHANGED <<process, locked, schema>> /\ mishaps' \in Nat
  BY <1>15 DEF StartupInv, StartupTypes, SchemaInOrder, Applied
<1>16. CASE Outage \/ Recovery
  BY <1>15, <1>16 DEF Outage, Recovery, Mishap, StartupInv, StartupTypes
<1>17. CASE UNCHANGED startupVars
  BY <1>15, <1>17 DEF startupVars, StartupInv, StartupTypes
<1> QED
  BY <1>1, <1>2, <1>3, <1>4, <1>5, <1>6, <1>7, <1>8, <1>9, <1>10, <1>11, <1>12, <1>13, <1>14, <1>16, <1>17
     DEF StartupNext, Progress

LEMMA StartupAlwaysInv == StartupSpec => []StartupInv
<1> QED BY StartupInitInv, StartupNextInv, PTL DEF StartupSpec

(* Nobody serves before every migration of its release is in effect, each  *)
(* once and in order (runMigrations before createApp in every main.ts).    *)
THEOREM MigrationsCorrect == StartupSpec => []MigratedBeforeServing
<1>1. StartupInv => MigratedBeforeServing
  BY DEF StartupInv, MigratedBeforeServing, SchemaInOrder, ProcessInOrder, InPhase
<1> QED BY <1>1, StartupAlwaysInv, PTL

(* When the pool of connections ends, no request and no tick of a loop is  *)
(* under way (onShutdown of the services, lifecycle.ts).                   *)
THEOREM ShutdownCorrect == StartupSpec => []WorkEndsBeforeThePool
<1>1. ASSUME StartupInv, NEW s \in Services, process[s].stop > 0, StopOrder[process[s].stop] = "pool"
      PROVE  process[s].work \subseteq {"message"}
  <2>1. process[s].stop \in 1 .. 4 /\ process[s].work \subseteq Kinds /\ StoppedInOrder(process[s])
    BY <1>1, ProcessTyped DEF Process, ProcessInOrder
  <2>2. process[s].stop = 4
    BY <1>1, <2>1 DEF StopOrder
  <2>3. "request" \notin process[s].work /\ "tick" \notin process[s].work
    BY <2>1, <2>2 DEF StoppedInOrder, StopOrder
  <2> QED BY <2>1, <2>3 DEF Kinds
<1>2. StartupInv => WorkEndsBeforeThePool
  BY <1>1 DEF WorkEndsBeforeThePool
<1> QED BY <1>2, StartupAlwaysInv, PTL

(* Replicas of one or of several releases that start at the same time do   *)
(* not make each other fail: the comment at the lock in db.ts:38.          *)
THEOREM StartsCorrect == StartupSpec => StartsDoNotDisturbEachOther
<1> DEFINE Undisturbed ==
      \A s \in Services :
        process[s].phase \in {"waiting", "locking", "reading", "migrating"} /\ process'[s].phase = "gone" =>
          ~database \/ mishaps' # mishaps
<1>1. ASSUME StartupInv, [StartupNext]_startupVars PROVE Undisturbed
  <2> SUFFICES ASSUME NEW s \in Services, process[s].phase \in {"waiting", "locking", "reading", "migrating"},
                      process'[s].phase = "gone", database, mishaps' = mishaps
               PROVE  FALSE
    OBVIOUS
  <2>1. process[s] \in Process /\ process \in [Services -> Process]
    BY <1>1 DEF StartupInv, StartupTypes
  <2>2. ASSUME NEW t \in Services, Progress(t) PROVE FALSE
    <3>1. CASE t # s
      BY <2>1, <2>2, <3>1, OthersStay
    <3>2. CASE t = s
      BY <1>1, <2>2, <3>2, OwnEnd
    <3> QED BY <3>1, <3>2
  <2>3. ASSUME NEW t \in Services, Signal(t) \/ CrashService(t) PROVE FALSE
    <3>1. mishaps' = mishaps + 1 /\ mishaps \in Nat
      BY <1>1, <2>3 DEF Signal, CrashService, Mishap, StartupInv, StartupTypes
    <3> QED BY <3>1
  <2>4. ASSUME NEW t \in Services, NEW kind \in Kinds, TakeWork(t, kind) PROVE FALSE
    BY <2>1, <2>4 DEF TakeWork, Process
  <2>5. CASE Outage \/ Recovery \/ UNCHANGED startupVars
    BY <2>5 DEF Outage, Recovery, startupVars
  <2> QED BY <1>1, <2>2, <2>3, <2>4, <2>5 DEF StartupNext
<1>2. StartupSpec => [][Undisturbed]_startupVars
  BY <1>1, StartupAlwaysInv, PTL DEF StartupSpec
<1> QED BY <1>2 DEF StartsDoNotDisturbEachOther
===============================================================================
