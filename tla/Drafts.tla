-------------------------------- MODULE Drafts --------------------------------
(***************************************************************************)
(* The steps of a routine while they are edited (RoutineEditor.tsx): the   *)
(* page shows them in lanes, numbers them on the way out, checks the draft *)
(* itself and sends it; the routine service checks it again                *)
(* (domain/definition.ts), sorts it and stores it.  A step has a key, may  *)
(* run only if an earlier condition held, and may refer to the output of   *)
(* another step by its key.                                                *)
(***************************************************************************)
EXTENDS Integers, Sequences, FiniteSets

CONSTANTS
  StepKeys,       \* what steps can be called
  DraftStarts,    \* the definitions the editor is opened with
  MaxActions,     \* bound of the API and the page: steps of one routine
  MaxStep,        \* bound of the API and the page: the number of a step
  MaxEdits,       \* bound: how often the draft is edited
  Nothing         \* no link, no reference, nothing stored

VARIABLES
  draft,     \* what the page has: a sequence of steps
  stored,    \* the definition the service has
  edits      \* counter for the bound
draftVars == <<draft, stored, edits>>

(* In a draft a link (runIf) is the uid of the condition, in a definition  *)
(* its key; a reference is a key in both.                                  *)
DraftAction(uid, key, type, step) ==
  [uid |-> uid, key |-> key, type |-> type, step |-> step, runIf |-> Nothing, ref |-> Nothing]

-----------------------------------------------------------------------------
(* Lanes.  A lane is the number it has on the page; an action is known by  *)
(* its place in the draft.                                                 *)

Before(rank, i, j) == rank[i] < rank[j] \/ (rank[i] = rank[j] /\ i < j)
Place(some, rank, i) == Cardinality({j \in some : j = i \/ Before(rank, j, i)})

(* Some of the actions by rank; of the same rank, in the order they had.   *)
Arranged(actions, some, rank) ==
  [p \in 1 .. Cardinality(some) |-> actions[CHOOSE i \in some : Place(some, rank, i) = p]]

(* Lanes are numbered without a gap, those that became empty are gone. *)
Numbered(lane) ==
  [i \in DOMAIN lane |-> Cardinality({lane[j] : j \in {k \in DOMAIN lane : lane[k] <= lane[i]}})]

Steps(actions) == [i \in DOMAIN actions |-> actions[i].step]
ToLanes(actions) == Numbered(Steps(actions))
FromLanes(actions, lane) ==
  Arranged([i \in DOMAIN lane |-> [actions[i] EXCEPT !.step = Numbered(lane)[i]]], DOMAIN lane, lane)

Shares(lane, i) == \E j \in DOMAIN lane : j # i /\ lane[j] = lane[i]
(* A lane of its own, before (-1) or after (1) the one it was in. *)
LeaveLane(lane, i, side) == [j \in DOMAIN lane |-> IF j = i THEN 2 * lane[j] + side ELSE 2 * lane[j]]
Swap(lane, from, to) ==
  [j \in DOMAIN lane |-> IF lane[j] = from THEN to ELSE IF lane[j] = to THEN from ELSE lane[j]]

(* moveAction: a step that shares its lane leaves it, one alone swaps.     *)
MoveAction(actions, i, direction) ==
  LET lane == ToLanes(actions)
      to == lane[i] + direction
  IN IF Shares(lane, i) THEN FromLanes(actions, LeaveLane(lane, i, direction))
     ELSE IF \A j \in DOMAIN lane : lane[j] # to THEN actions
     ELSE FromLanes(actions, Swap(lane, lane[i], to))

(* A draft is in the order of its steps: who joins a lane is its last.     *)
SetParallel(actions, i, parallel) ==
  LET lane == ToLanes(actions)
  IN IF ~parallel THEN FromLanes(actions, LeaveLane(lane, i, 1))
     ELSE IF lane[i] = 1 THEN actions
     ELSE FromLanes(actions, [lane EXCEPT ![i] = @ - 1])

-----------------------------------------------------------------------------
(* Between the page and the service.                                       *)

KeyNow(actions, uid) ==
  IF \E i \in DOMAIN actions : actions[i].uid = uid
  THEN actions[CHOOSE i \in DOMAIN actions : actions[i].uid = uid].key ELSE Nothing

ToInput(actions) ==
  [i \in DOMAIN actions |->
     [key |-> actions[i].key, type |-> actions[i].type, step |-> actions[i].step,
      runIf |-> KeyNow(actions, actions[i].runIf), ref |-> actions[i].ref]]

(* fromRoutine: new uids, links by uid again; of two steps with one key    *)
(* the last.                                                               *)
FromRoutine(definition) ==
  LET Named(key) == {i \in DOMAIN definition : definition[i].key = key}
  IN [i \in DOMAIN definition |->
        [uid |-> i, key |-> definition[i].key, type |-> definition[i].type,
         step |-> definition[i].step, ref |-> definition[i].ref,
         runIf |-> IF Named(definition[i].runIf) = {} THEN Nothing
                   ELSE CHOOSE j \in Named(definition[i].runIf) : \A k \in Named(definition[i].runIf) : k <= j]]

(* clientIssues. *)
LinkBroken(actions, i) ==
  ~\E j \in DOMAIN actions : actions[j].uid = actions[i].runIf /\ actions[j].step < actions[i].step

ClientIssues(actions) ==
  (IF actions = <<>> THEN {"no steps"} ELSE {})
  \cup {"link" : i \in {j \in DOMAIN actions : actions[j].runIf # Nothing /\ LinkBroken(actions, j)}}
  \cup {"key" : i \in {j \in DOMAIN actions : \E k \in 1 .. j - 1 : actions[k].key = actions[j].key}}

(* validateRoutine: the sort keeps the order within a step. *)
SortedBackwards(input) ==   \* mutant: the last of a step comes first
  Arranged(input, DOMAIN input, [i \in DOMAIN input |-> MaxActions * input[i].step - i])
Sorted(input) == Arranged(input, DOMAIN input, Steps(input))

(* Of two steps with one key either: the routine is refused for the key.   *)
Named(actions, key) == \E i \in DOMAIN actions : actions[i].key = key
StepNamed(actions, key) == actions[CHOOSE i \in DOMAIN actions : actions[i].key = key]

LinkIssues(actions, a) ==
  IF a.runIf = Nothing THEN {}
  ELSE IF ~Named(actions, a.runIf) THEN {"link"}
  ELSE IF StepNamed(actions, a.runIf).type # "condition" THEN {"not a condition"}
  ELSE IF StepNamed(actions, a.runIf).step >= a.step THEN {"link"} ELSE {}
RefIssues(actions, a) ==
  IF a.ref = Nothing THEN {}
  ELSE IF ~Named(actions, a.ref) THEN {"unknown reference"}
  ELSE IF StepNamed(actions, a.ref).step >= a.step THEN {"late reference"} ELSE {}

Issues(input) ==
  LET actions == Sorted(input)
      a == {actions[i] : i \in DOMAIN actions}
  IN (IF Len(actions) \in 1 .. MaxActions THEN {} ELSE {"number of steps"})
     \cup (IF \A b \in a : b.step \in 1 .. MaxStep THEN {} ELSE {"number of a step"})
     \cup (IF Cardinality({b.key : b \in a}) = Len(actions) THEN {} ELSE {"key"})
     \cup UNION {LinkIssues(actions, b) \cup RefIssues(actions, b) : b \in a}

Types == {"condition", "other"}
DraftStep == [uid : Nat, key : StepKeys, type : Types, step : Nat, runIf : Nat \cup {Nothing},
              ref : StepKeys \cup {Nothing}]
StoredStep == [key : StepKeys, type : Types, step : Nat, runIf : StepKeys \cup {Nothing},
               ref : StepKeys \cup {Nothing}]
DraftSteps == Seq(DraftStep)
StoredSteps == Seq(StoredStep)

(* The editor is opened with a routine the service accepted, or with none. *)
(* 20 steps, numbered up to 50.                                            *)
ASSUME DraftsAssumption ==
  /\ Nothing \notin StepKeys \cup Nat
  /\ MaxActions \in Nat /\ MaxStep \in Nat /\ MaxActions <= MaxStep
  /\ \A d \in DraftStarts : d \in StoredSteps /\ (d = <<>> \/ Issues(d) = {})

-----------------------------------------------------------------------------
(* What the user does.                                                     *)

DraftsInit ==
  /\ stored \in DraftStarts
  /\ draft = FromRoutine(stored)
  /\ edits = 0

Edit(new) ==
  /\ edits < MaxEdits
  /\ edits' = edits + 1
  /\ draft' = new
  /\ UNCHANGED stored

InDraft == DOMAIN draft
MaxOf(S) == CHOOSE n \in S : \A m \in S : m <= n

(* addAction: beyond the last number a new step joins the last ones. *)
AddAction(type, key) ==
  /\ Len(draft) < MaxActions
  /\ ~Named(draft, key)
  /\ LET step == MaxOf({0} \cup {draft[i].step : i \in InDraft}) + 1
         uid == MaxOf({0} \cup {draft[i].uid : i \in InDraft}) + 1
     IN Edit(Append(draft, DraftAction(uid, key, type, IF step > MaxStep THEN MaxStep ELSE step)))

RemoveAndLeaveLinks(i) ==   \* mutant: links to what is removed stay
  Edit(FromLanes(draft, [j \in InDraft \ {i} |-> draft[j].step]))

(* removeAction: what ran only if it held now always runs. *)
RemoveAction(i) ==
  LET unlinked == [j \in InDraft |-> IF draft[j].runIf = draft[i].uid THEN [draft[j] EXCEPT !.runIf = Nothing]
                                    ELSE draft[j]]
  IN Edit(FromLanes(unlinked, [j \in InDraft \ {i} |-> draft[j].step]))

Reorder(i, direction) == Edit(MoveAction(draft, i, direction))

ToggleParallel(i) ==
  LET lane == ToLanes(draft)
  IN (Shares(lane, i) \/ lane[i] > 1) /\ Edit(SetParallel(draft, i, ~Shares(lane, i)))

UpdateAction(i, action) == Edit([draft EXCEPT ![i] = action])

(* Only conditions of earlier steps are offered, and the link there is.    *)
RunOnlyIf(i, uid) ==
  /\ \/ uid = Nothing
     \/ \E j \in InDraft : draft[j].uid = uid /\ draft[j].type = "condition" /\ draft[j].step < draft[i].step
  /\ UpdateAction(i, [draft[i] EXCEPT !.runIf = uid])

(* save: the page goes to the routine, and is opened again from there.     *)
SaveDraft ==
  /\ ClientIssues(draft) = {} /\ Issues(ToInput(draft)) = {}
  /\ stored' = Sorted(ToInput(draft))
  /\ draft' = FromRoutine(stored')
  /\ UNCHANGED edits

DraftsNext ==
  \/ \E type \in Types, key \in StepKeys : AddAction(type, key)
  \/ \E i \in InDraft :
       \/ RemoveAction(i)
       \/ \E direction \in {-1, 1} : Reorder(i, direction)
       \/ ToggleParallel(i)
       \/ \E key \in StepKeys : UpdateAction(i, [draft[i] EXCEPT !.key = key])
       \/ \E key \in StepKeys : UpdateAction(i, [draft[i] EXCEPT !.ref = key])
       \/ \E uid \in {Nothing} \cup {draft[j].uid : j \in InDraft} : RunOnlyIf(i, uid)
  \/ SaveDraft

DraftsSpec == DraftsInit /\ [][DraftsNext]_draftVars

-----------------------------------------------------------------------------
(* What the page shows: steps with their keys, what comes before each of   *)
(* them, what is above it in its lane, and the step it waits for.          *)
Picture(actions) ==
  LET keys(some) == {actions[j].key : j \in some}
  IN {[key |-> actions[i].key, type |-> actions[i].type, ref |-> actions[i].ref,
       onlyIf |-> KeyNow(actions, actions[i].runIf),
       before |-> keys({j \in DOMAIN actions : actions[j].step < actions[i].step}),
       above |-> keys({j \in 1 .. i - 1 : actions[j].step = actions[i].step})] : i \in DOMAIN actions}

(* A draft that is saved comes back as the user left it: the same lanes in *)
(* the same order, and every step still runs only if the condition that    *)
(* was picked for it held, under whatever name that condition has now.     *)
SavedAsShown == [][stored' # stored => Picture(draft') = Picture(draft)]_draftVars

(* The page and the service find fault with the same drafts: whatever was  *)
(* added, moved, joined, renamed, linked and removed, the service refuses  *)
(* what the page lets through (clientIssues follows links by uid in the    *)
(* draft) only for its references, which the page does not look at, and    *)
(* the page holds back nothing else that the service would take            *)
(* (validateRoutine follows links by key, in the order of the steps).      *)
PageAndServiceAgree ==
  ClientIssues(draft) = {} <=> Issues(ToInput(draft)) \subseteq {"unknown reference", "late reference"}
=============================================================================
