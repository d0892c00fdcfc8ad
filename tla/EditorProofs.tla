----------------------------- MODULE EditorProofs -----------------------------
(***************************************************************************)
(* The routine editor: a draft survives the way to the service and back,   *)
(* the page and the service find fault with the same drafts, and the form  *)
(* of the schedule says what its expression does - for drafts of any       *)
(* length, any keys and numbers of steps, any number of edits and          *)
(* calendars of any size.                                                  *)
(***************************************************************************)
EXTENDS Drafts, ScheduleForm, FiniteSetTheorems, FunctionTheorems, WellFoundedInduction, TLAPS

-----------------------------------------------------------------------------
(* Putting in order. *)

Ranked(n, some, rank) == n \in Nat /\ some \subseteq 1 .. n /\ \A i \in some : rank[i] \in Int

LEMMA Placing ==
  ASSUME NEW n, NEW some, NEW rank, Ranked(n, some, rank)
  PROVE  /\ IsFiniteSet(some) /\ Cardinality(some) \in Nat
         /\ \A i \in some : Place(some, rank, i) \in 1 .. Cardinality(some)
         /\ \A i, j \in some : Before(rank, i, j) <=> Place(some, rank, i) < Place(some, rank, j)
         /\ \A i, j \in some : Place(some, rank, i) = Place(some, rank, j) => i = j
         /\ \A p \in 1 .. Cardinality(some) : \E i \in some : Place(some, rank, i) = p
<1> DEFINE Upto(i) == {j \in some : j = i \/ Before(rank, j, i)}
           place(i) == Place(some, rank, i)
           size == Cardinality(some)
<1>1. n \in Nat /\ some \subseteq 1 .. n /\ some \subseteq Nat /\ \A i \in some : rank[i] \in Int
  BY DEF Ranked
<1>2. IsFiniteSet(some) /\ size \in Nat
  <2>1. some \in SUBSET (1 .. n) /\ IsFiniteSet(1 .. n)
    BY <1>1, FS_Interval
  <2> QED BY <2>1, FS_Subset, FS_CardinalityType
<1>3. ASSUME NEW i \in some PROVE IsFiniteSet(Upto(i)) /\ place(i) \in 1 .. size
  <2>1. Upto(i) \in SUBSET some /\ Upto(i) # {}
    OBVIOUS
  <2>2. IsFiniteSet(Upto(i)) /\ Cardinality(Upto(i)) <= size
    BY <1>2, <2>1, FS_Subset
  <2>3. Cardinality(Upto(i)) \in Nat /\ Cardinality(Upto(i)) # 0
    BY <2>1, <2>2, FS_CardinalityType, FS_EmptySet
  <2> QED BY <1>2, <2>2, <2>3 DEF Place
<1>4. ASSUME NEW i \in some, NEW j \in some, Before(rank, i, j) PROVE place(i) < place(j)
  <2>1. Upto(i) \in SUBSET Upto(j)
    <3>1. ASSUME NEW k \in some, Before(rank, k, i) PROVE Before(rank, k, j)
      <4>1. /\ k \in Nat /\ i \in Nat /\ j \in Nat
            /\ rank[k] \in Int /\ rank[i] \in Int /\ rank[j] \in Int
        BY <1>1
      <4> QED BY <1>4, <3>1, <4>1 DEF Before
    <3> QED BY <1>4, <3>1
  <2>2. j \in Upto(j) /\ j \notin Upto(i)
    BY <1>1, <1>4 DEF Before
  <2>3. Cardinality(Upto(i)) <= Cardinality(Upto(j)) /\ Cardinality(Upto(i)) # Cardinality(Upto(j))
    <3>1. IsFiniteSet(Upto(j))
      BY <1>3
    <3>2. Upto(i) # Upto(j)
      BY <2>2
    <3> HIDE DEF Upto
    <3> QED BY <2>1, <3>1, <3>2, FS_Subset
  <2>4. place(i) = Cardinality(Upto(i)) /\ place(j) = Cardinality(Upto(j))
    BY DEF Place
  <2> HIDE DEF Upto, place
  <2> QED BY <1>2, <1>3, <2>3, <2>4
<1>5. \A i, j \in some : i = j \/ Before(rank, i, j) \/ Before(rank, j, i)
  BY <1>1 DEF Before
<1> HIDE DEF Upto, place, size
<1>6. \A i \in some : place(i) \in Nat
  BY <1>2, <1>3
<1>7. \A i, j \in some : Before(rank, i, j) => place(i) < place(j)
  BY <1>4
<1>8. \A i, j \in some : place(i) < place(j) => Before(rank, i, j)
  BY <1>5, <1>6, <1>7
<1>9. \A i, j \in some : place(i) = place(j) => i = j
  BY <1>5, <1>6, <1>7
<1>10. ASSUME NEW p \in 1 .. size PROVE \E i \in some : place(i) = p
  <2> DEFINE f == [i \in some |-> place(i)]
             T == 1 .. size
  <2>1. IsFiniteSet(T) /\ Cardinality(T) = size
    <3>1. Cardinality(1 .. size) = IF 1 > size THEN 0 ELSE size - 1 + 1
      BY <1>2, FS_Interval
    <3> QED BY <1>2, <3>1, FS_Interval
  <2>2. f \in Injection(some, T)
    BY <1>3, <1>9 DEF Injection, IsInjective
  <2>3. f \in Surjection(some, T)
    <3> HIDE DEF f, T
    <3> QED BY <1>2, <2>1, <2>2, FS_Injection DEF size
  <2> QED BY <2>3 DEF Surjection
<1> QED BY <1>2, <1>3, <1>7, <1>8, <1>9, <1>10 DEF place, size

(* What comes out: each of them once, at its place. *)
LEMMA Arranging ==
  ASSUME NEW n, NEW some, NEW rank, Ranked(n, some, rank), NEW actions
  PROVE  LET new == Arranged(actions, some, rank) IN
         /\ DOMAIN new = 1 .. Cardinality(some)
         /\ \A i \in some : new[Place(some, rank, i)] = actions[i]
         /\ \A S : (\A i \in some : actions[i] \in S) => new \in Seq(S)
<1> DEFINE new == Arranged(actions, some, rank)
           at(p) == CHOOSE i \in some : Place(some, rank, i) = p
<1>1. DOMAIN new = 1 .. Cardinality(some) /\ \A p \in 1 .. Cardinality(some) : new[p] = actions[at(p)]
  BY DEF Arranged
<1>2. \A p \in 1 .. Cardinality(some) : at(p) \in some /\ Place(some, rank, at(p)) = p
  BY Placing
<1> HIDE DEF at
<1>3. ASSUME NEW i \in some PROVE new[Place(some, rank, i)] = actions[i]
  <2>1. PICK p \in 1 .. Cardinality(some) : p = Place(some, rank, i)
    BY Placing
  <2>2. at(p) = i
    BY <1>2, <2>1, Placing
  <2> QED BY <1>1, <2>1, <2>2
<1>4. ASSUME NEW S, \A i \in some : actions[i] \in S PROVE new \in Seq(S)
  <2>1. \A p \in 1 .. Cardinality(some) : new[p] \in S
    BY <1>1, <1>2, <1>4
  <2>2. new = [p \in 1 .. Cardinality(some) |-> new[p]]
    BY DEF Arranged
  <2>3. Cardinality(some) \in Nat
    BY Placing
  <2> HIDE DEF new
  <2>4. new \in [1 .. Cardinality(some) -> S]
    BY <2>1, <2>2
  <2> QED BY <2>3, <2>4
<1> QED BY <1>1, <1>3, <1>4

LEMMA Latest ==
  ASSUME NEW n, NEW some, NEW rank, Ranked(n, some, rank), some # {}
  PROVE  \E i \in some : \A j \in some : rank[j] <= rank[i]
<1>1. Cardinality(some) \in 1 .. Cardinality(some)
  BY Placing, FS_EmptySet
<1>2. PICK i \in some : Place(some, rank, i) = Cardinality(some)
  BY <1>1, Placing
<1>3. ASSUME NEW j \in some PROVE rank[j] <= rank[i]
  <2>1. ~(Place(some, rank, i) < Place(some, rank, j))
    BY <1>2, Placing
  <2>2. ~Before(rank, i, j)
    BY <2>1, Placing
  <2> QED BY <2>2 DEF Before, Ranked
<1> QED BY <1>3

LEMMA NextNumber ==
  ASSUME NEW n \in Nat, NEW number, \A i \in 1 .. n : number[i] \in Nat
  PROVE  LET most == MaxOf({0} \cup {number[i] : i \in 1 .. n})
         IN most \in Nat /\ \A i \in 1 .. n : number[i] <= most
<1> DEFINE S == {0} \cup {number[i] : i \in 1 .. n}
<1>1. \E m \in S : \A k \in S : k <= m
  <2>1. CASE n = 0
    BY <2>1
  <2>2. CASE n # 0
    <3>1. Ranked(n, 1 .. n, number) /\ 1 \in 1 .. n
      BY <2>2 DEF Ranked
    <3>2. PICK i \in 1 .. n : \A j \in 1 .. n : number[j] <= number[i]
      BY <3>1, Latest
    <3>3. number[i] \in S /\ \A k \in S : k <= number[i]
      BY <3>2
    <3> QED BY <3>3
  <2> QED BY <2>1, <2>2
<1>2. S \subseteq Nat
  OBVIOUS
<1> QED BY <1>1, <1>2 DEF MaxOf

LEMMA Numbers ==
  ASSUME NEW n \in Nat, NEW lane, DOMAIN lane \subseteq 1 .. n, \A i \in DOMAIN lane : lane[i] \in Int
  PROVE  /\ DOMAIN Numbered(lane) = DOMAIN lane
         /\ \A i \in DOMAIN lane : Numbered(lane)[i] \in 1 .. n
<1>1. ASSUME NEW i \in DOMAIN lane PROVE Numbered(lane)[i] \in 1 .. n
  <2> DEFINE K == {k \in DOMAIN lane : lane[k] <= lane[i]}
             T == {lane[j] : j \in K}
             f == [j \in K |-> lane[j]]
  <2>1. K \in SUBSET (1 .. n) /\ lane[i] \in T
    OBVIOUS
  <2>2. IsFiniteSet(1 .. n) /\ Cardinality(1 .. n) = n
    <3>1. Cardinality(1 .. n) = IF 1 > n THEN 0 ELSE n - 1 + 1
      BY FS_Interval
    <3> QED BY <3>1, FS_Interval
  <2>3. f \in Surjection(K, T)
    BY DEF Surjection
  <2> HIDE DEF K, T, f
  <2>4. IsFiniteSet(K) /\ Cardinality(K) <= n
    BY <2>1, <2>2, FS_Subset
  <2>5. IsFiniteSet(T) /\ Cardinality(T) <= Cardinality(K)
    BY <2>3, <2>4, FS_Surjection
  <2>6. Cardinality(T) \in Nat /\ Cardinality(K) \in Nat /\ Cardinality(T) # 0
    BY <2>1, <2>4, <2>5, FS_CardinalityType, FS_EmptySet
  <2>7. Cardinality(T) \in 1 .. n
    BY <2>4, <2>5, <2>6
  <2> QED BY <2>7 DEF Numbered, K, T
<1> QED BY <1>1 DEF Numbered

-----------------------------------------------------------------------------
(* What a draft and a definition are made of.                              *)

DraftTyped == draft \in DraftSteps

(* Every step is told from the others, and what it waits for is there.     *)
Distinct(actions, some) == \A i, j \in some : actions[i].uid = actions[j].uid => i = j
Linked(actions, some) ==
  \A i \in some : actions[i].runIf # Nothing =>
    \E j \in some : actions[j].uid = actions[i].runIf /\ actions[j].type = "condition"

(* A draft the editor can have: within the bounds of the API, too. *)
Sound(actions) ==
  /\ actions \in DraftSteps /\ Len(actions) <= MaxActions
  /\ \A i \in DOMAIN actions : actions[i].step \in 1 .. MaxStep
  /\ Distinct(actions, DOMAIN actions) /\ Linked(actions, DOMAIN actions)
DraftSound == Sound(draft)

LEMMA StepFields ==
  ASSUME NEW a \in DraftStep
  PROVE  /\ a.uid \in Nat /\ a.key \in StepKeys /\ a.type \in Types /\ a.step \in Nat
         /\ a.runIf \in Nat \cup {Nothing} /\ a.ref \in StepKeys \cup {Nothing}
         /\ \A x \in StepKeys : [a EXCEPT !.key = x] \in DraftStep
         /\ \A x \in Nat : [a EXCEPT !.step = x] \in DraftStep
         /\ \A x \in Nat \cup {Nothing} : [a EXCEPT !.runIf = x] \in DraftStep
         /\ \A x \in StepKeys : [a EXCEPT !.ref = x] \in DraftStep
<1>1. \A x \in StepKeys : [a EXCEPT !.key = x] \in DraftStep
  BY DEF DraftStep
<1>2. \A x \in Nat : [a EXCEPT !.step = x] \in DraftStep
  BY DEF DraftStep
<1>3. \A x \in Nat \cup {Nothing} : [a EXCEPT !.runIf = x] \in DraftStep
  BY DEF DraftStep
<1>4. \A x \in StepKeys : [a EXCEPT !.ref = x] \in DraftStep
  BY DEF DraftStep
<1>5. /\ a.uid \in Nat /\ a.key \in StepKeys /\ a.type \in Types /\ a.step \in Nat
      /\ a.runIf \in Nat \cup {Nothing} /\ a.ref \in StepKeys \cup {Nothing}
  BY DEF DraftStep
<1> QED BY <1>1, <1>2, <1>3, <1>4, <1>5

LEMMA Drafted ==
  ASSUME NEW actions \in DraftSteps
  PROVE  /\ Len(actions) \in Nat /\ DOMAIN actions = 1 .. Len(actions)
         /\ \A i \in DOMAIN actions : actions[i] \in DraftStep
BY DEF DraftSteps

LEMMA FromLanesTyped ==
  ASSUME NEW n \in Nat, NEW actions, NEW lane, DOMAIN lane \subseteq 1 .. n,
         \A i \in DOMAIN lane : actions[i] \in DraftStep /\ lane[i] \in Int
  PROVE  FromLanes(actions, lane) \in DraftSteps
<1> DEFINE numbered == [i \in DOMAIN lane |-> [actions[i] EXCEPT !.step = Numbered(lane)[i]]]
<1>1. \A i \in DOMAIN lane : numbered[i] \in DraftStep
  <2>1. \A i \in DOMAIN lane : Numbered(lane)[i] \in Nat
    BY Numbers
  <2> QED BY <2>1, StepFields
<1>2. Ranked(n, DOMAIN lane, lane)
  BY DEF Ranked
<1> HIDE DEF numbered
<1>3. Arranged(numbered, DOMAIN lane, lane) \in Seq(DraftStep)
  BY <1>1, <1>2, Arranging
<1> QED BY <1>3 DEF FromLanes, numbered, DraftSteps

LEMMA LanesSound ==
  ASSUME NEW n \in Nat, n <= MaxActions, NEW actions, NEW lane, DOMAIN lane \subseteq 1 .. n,
         \A i \in DOMAIN lane : actions[i] \in DraftStep /\ lane[i] \in Int,
         Distinct(actions, DOMAIN lane), Linked(actions, DOMAIN lane)
  PROVE  Sound(FromLanes(actions, lane))
<1> DEFINE some == DOMAIN lane
           numbered == [i \in some |-> [actions[i] EXCEPT !.step = Numbered(lane)[i]]]
           new == FromLanes(actions, lane)
           place(i) == Place(some, lane, i)
<1>1. new \in DraftSteps
  BY FromLanesTyped
<1>2. \A i \in some : /\ numbered[i].uid = actions[i].uid /\ numbered[i].type = actions[i].type
                      /\ numbered[i].runIf = actions[i].runIf /\ numbered[i].step \in 1 .. n
  <2>1. \A i \in some : Numbered(lane)[i] \in 1 .. n
    BY Numbers
  <2> QED BY <2>1 DEF DraftStep
<1>3. new = Arranged(numbered, some, lane)
  BY DEF FromLanes
<1>4. Ranked(n, some, lane)
  BY DEF Ranked
<1> HIDE DEF numbered, new, some
<1>5. DOMAIN new = 1 .. Cardinality(some) /\ \A i \in some : new[place(i)] = numbered[i]
  BY <1>3, <1>4, Arranging
<1>6. /\ Cardinality(some) \in Nat
      /\ \A i \in some : place(i) \in 1 .. Cardinality(some)
      /\ \A p \in 1 .. Cardinality(some) : \E i \in some : place(i) = p
  BY <1>4, Placing
<1>7. Cardinality(some) <= n
  <2>1. n \in Nat /\ some \subseteq 1 .. n
    BY <1>4 DEF Ranked
  <2>2. IsFiniteSet(1 .. n) /\ Cardinality(1 .. n) = n
    <3>1. IsFiniteSet(1 .. n) /\ Cardinality(1 .. n) = IF 1 > n THEN 0 ELSE n - 1 + 1
      BY <2>1, FS_Interval
    <3> QED BY <2>1, <3>1
  <2>3. Cardinality(some) <= Cardinality(1 .. n)
    BY <2>1, <2>2, FS_Subset
  <2> QED BY <2>2, <2>3
<1> HIDE DEF place
<1>8. Len(new) <= MaxActions
  <2>1. Len(new) = Cardinality(some)
    BY <1>1, <1>5, <1>6 DEF DraftSteps
  <2> QED BY <1>6, <1>7, <2>1, DraftsAssumption
<1>9. \A p \in DOMAIN new : new[p].step \in 1 .. MaxStep
  <2>1. \A p \in DOMAIN new : new[p].step \in 1 .. n
    BY <1>2, <1>5, <1>6
  <2> QED BY <2>1, DraftsAssumption
<1>10. Distinct(new, DOMAIN new)
  <2> SUFFICES ASSUME NEW p \in DOMAIN new, NEW q \in DOMAIN new, new[p].uid = new[q].uid PROVE p = q
    BY DEF Distinct
  <2>1. PICK i \in some : place(i) = p
    BY <1>5, <1>6
  <2>2. PICK j \in some : place(j) = q
    BY <1>5, <1>6
  <2>3. i = j
    BY <1>2, <1>5, <2>1, <2>2 DEF Distinct, some
  <2> QED BY <2>1, <2>2, <2>3
<1>11. Linked(new, DOMAIN new)
  <2> SUFFICES ASSUME NEW p \in DOMAIN new, new[p].runIf # Nothing
               PROVE  \E q \in DOMAIN new : new[q].uid = new[p].runIf /\ new[q].type = "condition"
    BY DEF Linked
  <2>1. PICK i \in some : place(i) = p
    BY <1>5, <1>6
  <2>2. actions[i].runIf # Nothing /\ new[p].runIf = actions[i].runIf
    BY <1>2, <1>5, <2>1
  <2>3. PICK j \in some : actions[j].uid = actions[i].runIf /\ actions[j].type = "condition"
    BY <2>2 DEF Linked, some
  <2> QED BY <1>2, <1>5, <1>6, <2>2, <2>3
<1> QED BY <1>1, <1>8, <1>9, <1>10, <1>11 DEF Sound, new

LEMMA SoundFields ==
  ASSUME DraftSound
  PROVE  /\ DraftTyped /\ Len(draft) \in Nat /\ Len(draft) <= MaxActions /\ InDraft = 1 .. Len(draft)
         /\ \A i \in InDraft : draft[i] \in DraftStep /\ draft[i].step \in 1 .. MaxStep
         /\ Distinct(draft, InDraft) /\ Linked(draft, InDraft)
BY Drafted DEF DraftSound, Sound, DraftTyped, InDraft

LEMMA LanesTyped ==
  ASSUME DraftSound
  PROVE  /\ DOMAIN ToLanes(draft) = InDraft
         /\ \A i \in InDraft : ToLanes(draft)[i] \in Nat
<1>1. DOMAIN Steps(draft) = InDraft /\ \A i \in InDraft : Steps(draft)[i] \in Int
  BY SoundFields DEF Steps, InDraft
<1>2. /\ DOMAIN Numbered(Steps(draft)) = InDraft
      /\ \A i \in InDraft : Numbered(Steps(draft))[i] \in 1 .. Len(draft)
  BY <1>1, SoundFields, Numbers
<1> QED BY <1>2, SoundFields DEF ToLanes

LEMMA Relaned ==
  ASSUME DraftSound, NEW lane, DOMAIN lane = InDraft, \A i \in InDraft : lane[i] \in Int
  PROVE  Sound(FromLanes(draft, lane))
BY SoundFields, LanesSound

LEMMA LeftSound ==
  ASSUME DraftSound, NEW i \in InDraft, NEW side \in {-1, 1}
  PROVE  Sound(FromLanes(draft, LeaveLane(ToLanes(draft), i, side)))
<1> DEFINE lane == LeaveLane(ToLanes(draft), i, side)
<1>1. DOMAIN lane = InDraft /\ \A j \in InDraft : lane[j] \in Int
  BY LanesTyped DEF LeaveLane
<1> HIDE DEF lane
<1> QED BY <1>1, Relaned DEF lane

LEMMA ReorderStep ==
  ASSUME DraftSound, NEW i \in InDraft, NEW direction \in {-1, 1}, Reorder(i, direction)
  PROVE  DraftSound'
<1> DEFINE lane == ToLanes(draft)
           to == lane[i] + direction
<1>1. draft' = MoveAction(draft, i, direction)
  BY DEF Reorder, Edit
<1>2. CASE Shares(lane, i)
  BY <1>1, <1>2, LeftSound DEF MoveAction, DraftSound
<1>3. CASE ~Shares(lane, i) /\ \A j \in DOMAIN lane : lane[j] # to
  BY <1>1, <1>3 DEF MoveAction, DraftSound
<1>4. CASE ~Shares(lane, i) /\ ~\A j \in DOMAIN lane : lane[j] # to
  <2> DEFINE swapped == Swap(lane, lane[i], to)
  <2>1. DOMAIN swapped = InDraft /\ \A j \in InDraft : swapped[j] \in Int
    BY LanesTyped DEF Swap
  <2>2. draft' = FromLanes(draft, swapped)
    BY <1>1, <1>4 DEF MoveAction
  <2> HIDE DEF swapped
  <2> QED BY <2>1, <2>2, Relaned DEF DraftSound
<1> QED BY <1>2, <1>3, <1>4

LEMMA ToggleStep == ASSUME DraftSound, NEW i \in InDraft, ToggleParallel(i) PROVE DraftSound'
<1> DEFINE lane == ToLanes(draft)
<1>1. draft' = SetParallel(draft, i, ~Shares(lane, i))
  BY DEF ToggleParallel, Edit
<1>2. CASE Shares(lane, i)
  BY <1>1, <1>2, LeftSound DEF SetParallel, DraftSound
<1>3. CASE ~Shares(lane, i) /\ lane[i] = 1
  BY <1>1, <1>3 DEF SetParallel, DraftSound
<1>4. CASE ~Shares(lane, i) /\ lane[i] # 1
  <2> DEFINE joined == [lane EXCEPT ![i] = @ - 1]
  <2>1. DOMAIN joined = InDraft /\ \A j \in InDraft : joined[j] \in Int
    BY LanesTyped
  <2>2. draft' = FromLanes(draft, joined)
    BY <1>1, <1>4 DEF SetParallel
  <2> HIDE DEF joined
  <2> QED BY <2>1, <2>2, Relaned DEF DraftSound
<1> QED BY <1>2, <1>3, <1>4

(* Whoever waited for the step that is removed waits for nothing.          *)
LEMMA RemoveStep == ASSUME DraftSound, NEW i \in InDraft, RemoveAction(i) PROVE DraftSound'
<1> DEFINE unlinked == [j \in InDraft |->
                         IF draft[j].runIf = draft[i].uid THEN [draft[j] EXCEPT !.runIf = Nothing] ELSE draft[j]]
           lane == [j \in InDraft \ {i} |-> draft[j].step]
<1>1. draft' = FromLanes(unlinked, lane)
  BY DEF RemoveAction, Edit
<1>2. /\ InDraft = 1 .. Len(draft) /\ Len(draft) \in Nat /\ Len(draft) <= MaxActions
      /\ \A j \in InDraft : draft[j] \in DraftStep
      /\ Distinct(draft, InDraft) /\ Linked(draft, InDraft)
  BY SoundFields
<1>3. \A j \in InDraft : /\ unlinked[j] \in DraftStep
                         /\ unlinked[j].uid = draft[j].uid /\ unlinked[j].type = draft[j].type
                         /\ unlinked[j].runIf \in {Nothing, draft[j].runIf}
                         /\ unlinked[j].runIf # Nothing => unlinked[j].runIf # draft[i].uid
  <2> SUFFICES ASSUME NEW j \in InDraft
               PROVE  /\ unlinked[j] \in DraftStep
                      /\ unlinked[j].uid = draft[j].uid /\ unlinked[j].type = draft[j].type
                      /\ unlinked[j].runIf \in {Nothing, draft[j].runIf}
                      /\ unlinked[j].runIf # Nothing => unlinked[j].runIf # draft[i].uid
    OBVIOUS
  <2>1. CASE draft[j].runIf = draft[i].uid
    BY <1>2, <2>1 DEF DraftStep
  <2>2. CASE draft[j].runIf # draft[i].uid
    BY <1>2, <2>2
  <2> QED BY <2>1, <2>2
<1>4. DOMAIN lane \subseteq 1 .. Len(draft) /\ \A j \in DOMAIN lane : lane[j] \in Int
  BY <1>2, StepFields
<1>5. DOMAIN lane = InDraft \ {i}
  OBVIOUS
<1> HIDE DEF unlinked, lane
<1>6. Distinct(unlinked, DOMAIN lane)
  BY <1>2, <1>3, <1>5 DEF Distinct
<1>7. Linked(unlinked, DOMAIN lane)
  <2> SUFFICES ASSUME NEW j \in InDraft \ {i}, unlinked[j].runIf # Nothing
               PROVE  \E k \in InDraft \ {i} : unlinked[k].uid = unlinked[j].runIf /\ unlinked[k].type = "condition"
    BY <1>5 DEF Linked
  <2>1. draft[j].runIf = unlinked[j].runIf /\ unlinked[j].runIf # draft[i].uid
    BY <1>3
  <2>2. PICK k \in InDraft : draft[k].uid = draft[j].runIf /\ draft[k].type = "condition"
    BY <1>2, <2>1 DEF Linked
  <2> QED BY <1>3, <2>1, <2>2
<1>8. Sound(FromLanes(unlinked, lane))
  BY <1>2, <1>3, <1>4, <1>5, <1>6, <1>7, LanesSound
<1> QED BY <1>1, <1>8 DEF DraftSound

LEMMA AddStep ==
  ASSUME DraftSound, NEW type \in Types, NEW key \in StepKeys, AddAction(type, key)
  PROVE  DraftSound'
<1> DEFINE n == Len(draft)
           step == MaxOf({0} \cup {draft[i].step : i \in 1 .. n}) + 1
           uid == MaxOf({0} \cup {draft[i].uid : i \in 1 .. n}) + 1
           number == IF step > MaxStep THEN MaxStep ELSE step
           new == DraftAction(uid, key, type, number)
<1>1. n \in Nat /\ InDraft = 1 .. n /\ draft \in Seq(DraftStep) /\ \A i \in 1 .. n : draft[i] \in DraftStep
  BY SoundFields DEF DraftTyped, DraftSteps
<1>2. draft' = Append(draft, new) /\ n < MaxActions
  BY <1>1 DEF AddAction, Edit
<1>3. step \in Nat /\ uid \in Nat /\ step > 0 /\ \A i \in 1 .. n : draft[i].uid < uid
  <2> DEFINE steps == [i \in 1 .. n |-> draft[i].step]
             uids == [i \in 1 .. n |-> draft[i].uid]
  <2>1. \A i \in 1 .. n : steps[i] \in Nat /\ uids[i] \in Nat /\ uids[i] = draft[i].uid
    BY <1>1, StepFields
  <2>2. /\ {steps[i] : i \in 1 .. n} = {draft[i].step : i \in 1 .. n}
        /\ {uids[i] : i \in 1 .. n} = {draft[i].uid : i \in 1 .. n}
    OBVIOUS
  <2> HIDE DEF steps, uids
  <2>3. /\ MaxOf({0} \cup {steps[i] : i \in 1 .. n}) \in Nat
        /\ MaxOf({0} \cup {uids[i] : i \in 1 .. n}) \in Nat
        /\ \A i \in 1 .. n : uids[i] <= MaxOf({0} \cup {uids[j] : j \in 1 .. n})
    BY <1>1, <2>1, NextNumber
  <2>4. PICK s \in Nat : s = MaxOf({0} \cup {steps[i] : i \in 1 .. n})
    BY <2>3
  <2>5. PICK u \in Nat : u = MaxOf({0} \cup {uids[i] : i \in 1 .. n})
    BY <2>3
  <2>6. step = s + 1 /\ uid = u + 1
    BY <2>2, <2>4, <2>5
  <2>7. \A i \in 1 .. n : draft[i].uid <= u /\ draft[i].uid \in Nat
    BY <2>1, <2>3, <2>5
  <2> HIDE DEF step, uid
  <2> QED BY <2>6, <2>7
<1> HIDE DEF step, uid
<1>4. number \in 1 .. MaxStep
  BY <1>1, <1>2, <1>3, DraftsAssumption
<1> HIDE DEF number
<1>5. new \in DraftStep /\ new.uid = uid /\ new.step = number /\ new.runIf = Nothing
  BY <1>3, <1>4, DraftsAssumption DEF DraftStep, DraftAction
<1> HIDE DEF new
<1>6. draft' \in DraftSteps /\ Len(draft') = n + 1 /\ DOMAIN draft' = 1 .. n + 1
  BY <1>1, <1>2, <1>5 DEF DraftSteps
<1>7. draft'[n + 1] = new /\ \A i \in 1 .. n : draft'[i] = draft[i]
  BY <1>1, <1>2, <1>5
<1>8. \A i \in DOMAIN draft' : i = n + 1 \/ i \in 1 .. n
  BY <1>1, <1>6
<1>9. \A i \in DOMAIN draft' : draft'[i].step \in 1 .. MaxStep
  BY <1>1, <1>4, <1>5, <1>7, <1>8, SoundFields
<1>10. Distinct(draft', DOMAIN draft')
  <2>1. Distinct(draft, 1 .. n) /\ \A i \in 1 .. n : draft[i].uid # uid
    BY <1>1, <1>3, SoundFields, StepFields
  <2> QED BY <1>5, <1>7, <1>8, <2>1 DEF Distinct
<1>11. Linked(draft', DOMAIN draft')
  <2>1. Linked(draft, 1 .. n) /\ \A i \in 1 .. n : i \in DOMAIN draft'
    BY <1>1, <1>6, SoundFields
  <2> QED BY <1>5, <1>7, <1>8, <2>1 DEF Linked
<1>12. Len(draft') <= MaxActions
  BY <1>1, <1>2, <1>6, DraftsAssumption
<1> QED BY <1>6, <1>9, <1>10, <1>11, <1>12 DEF DraftSound, Sound

(* A step that is changed keeps its uid, its type and its number.          *)
LEMMA UpdateStep ==
  ASSUME DraftSound, NEW i \in InDraft, NEW action \in DraftStep, UpdateAction(i, action),
         action.uid = draft[i].uid, action.type = draft[i].type, action.step = draft[i].step,
         \/ action.runIf \in {Nothing, draft[i].runIf}
         \/ \E j \in InDraft : draft[j].uid = action.runIf /\ draft[j].type = "condition"
  PROVE  DraftSound'
<1>1. draft' = [draft EXCEPT ![i] = action]
  BY DEF UpdateAction, Edit
<1>2. draft' \in DraftSteps /\ Len(draft') = Len(draft) /\ DOMAIN draft' = InDraft
  BY <1>1, SoundFields DEF DraftTyped, DraftSteps, InDraft
<1>3. draft'[i] = action /\ \A j \in InDraft : j # i => draft'[j] = draft[j]
  BY <1>1 DEF InDraft
<1>4. \A j \in InDraft : /\ draft'[j].uid = draft[j].uid /\ draft'[j].type = draft[j].type
                         /\ draft'[j].step = draft[j].step
  BY <1>3
<1>5. Distinct(draft', InDraft)
  BY <1>4, SoundFields DEF Distinct
<1>6. Linked(draft', InDraft)
  <2> SUFFICES ASSUME NEW j \in InDraft, draft'[j].runIf # Nothing
               PROVE  \E k \in InDraft : draft'[k].uid = draft'[j].runIf /\ draft'[k].type = "condition"
    BY DEF Linked
  <2>1. \E k \in InDraft : draft[k].uid = draft'[j].runIf /\ draft[k].type = "condition"
    BY <1>3, SoundFields DEF Linked
  <2> QED BY <1>4, <2>1
<1> QED BY <1>2, <1>4, <1>5, <1>6, SoundFields DEF DraftSound, Sound

LEMMA Opened == ASSUME NEW definition \in StoredSteps PROVE FromRoutine(definition) \in DraftSteps
<1> DEFINE n == Len(definition)
           named(key) == {i \in DOMAIN definition : definition[i].key = key}
           link(key) == IF named(key) = {} THEN Nothing
                        ELSE CHOOSE j \in named(key) : \A k \in named(key) : k <= j
<1>1. n \in Nat /\ DOMAIN definition = 1 .. n /\ \A i \in 1 .. n : definition[i] \in StoredStep
  BY DEF StoredSteps
<1>2. ASSUME NEW key PROVE link(key) \in Nat \cup {Nothing}
  <2>1. CASE named(key) = {}
    BY <2>1
  <2>2. CASE named(key) # {}
    <3> DEFINE rank == [i \in 1 .. n |-> i]
    <3>1. Ranked(n, named(key), rank)
      BY <1>1 DEF Ranked
    <3>2. PICK j \in named(key) : \A k \in named(key) : rank[k] <= rank[j]
      BY <2>2, <3>1, Latest
    <3>3. \A k \in named(key) : k <= j
      BY <1>1, <3>2
    <3>4. link(key) \in named(key)
      BY <2>2, <3>3
    <3> QED BY <1>1, <3>4
  <2> QED BY <2>1, <2>2
<1> HIDE DEF link
<1>3. FromRoutine(definition) =
        [i \in 1 .. n |-> [uid |-> i, key |-> definition[i].key, type |-> definition[i].type,
                           step |-> definition[i].step, ref |-> definition[i].ref,
                           runIf |-> link(definition[i].runIf)]]
  BY <1>1 DEF FromRoutine, link
<1>4. \A i \in 1 .. n : FromRoutine(definition)[i] \in DraftStep
  BY <1>1, <1>2, <1>3 DEF DraftStep, StoredStep
<1>5. FromRoutine(definition) \in [1 .. n -> DraftStep]
  <2> DEFINE f == FromRoutine(definition)
  <2>1. f = [i \in 1 .. n |-> f[i]]
    BY <1>3
  <2> HIDE DEF f
  <2> QED BY <1>4, <2>1 DEF f
<1> QED BY <1>1, <1>5 DEF DraftSteps

-----------------------------------------------------------------------------
(* Saving.                                                                 *)

LEMMA KeyTyped ==
  ASSUME NEW actions \in DraftSteps, NEW uid
  PROVE  /\ KeyNow(actions, uid) \in StepKeys \cup {Nothing}
         /\ KeyNow(actions, uid) # Nothing => \E j \in DOMAIN actions : actions[j].key = KeyNow(actions, uid)
<1>1. \A j \in DOMAIN actions : actions[j].key \in StepKeys
  BY Drafted, StepFields
<1>2. CASE \E i \in DOMAIN actions : actions[i].uid = uid
  <2>1. PICK i \in DOMAIN actions : KeyNow(actions, uid) = actions[i].key
    BY <1>2 DEF KeyNow
  <2> QED BY <1>1, <2>1
<1>3. CASE ~\E i \in DOMAIN actions : actions[i].uid = uid
  BY <1>3 DEF KeyNow
<1> QED BY <1>2, <1>3

LEMMA InputFields ==
  ASSUME DraftTyped
  PROVE  LET input == ToInput(draft) IN
         /\ DOMAIN input = 1 .. Len(draft) /\ Len(draft) \in Nat
         /\ \A i \in 1 .. Len(draft) :
              /\ input[i] \in StoredStep
              /\ input[i].key = draft[i].key /\ input[i].type = draft[i].type
              /\ input[i].step = draft[i].step /\ input[i].ref = draft[i].ref
              /\ input[i].runIf = KeyNow(draft, draft[i].runIf)
<1>1. Len(draft) \in Nat /\ DOMAIN draft = 1 .. Len(draft) /\ \A i \in 1 .. Len(draft) : draft[i] \in DraftStep
  BY Drafted DEF DraftTyped
<1>2. \A i \in 1 .. Len(draft) : KeyNow(draft, draft[i].runIf) \in StepKeys \cup {Nothing}
  BY KeyTyped DEF DraftTyped
<1>3. \A i \in 1 .. Len(draft) :
        ToInput(draft)[i] = [key |-> draft[i].key, type |-> draft[i].type, step |-> draft[i].step,
                             runIf |-> KeyNow(draft, draft[i].runIf), ref |-> draft[i].ref]
  BY <1>1 DEF ToInput
<1>4. ASSUME NEW i \in 1 .. Len(draft) PROVE ToInput(draft)[i] \in StoredStep
  <2>1. PICK a \in DraftStep : a = draft[i]
    BY <1>1
  <2>2. PICK link \in StepKeys \cup {Nothing} : link = KeyNow(draft, draft[i].runIf)
    BY <1>2
  <2>3. ToInput(draft)[i] = [key |-> a.key, type |-> a.type, step |-> a.step, runIf |-> link, ref |-> a.ref]
    BY <1>3, <2>1, <2>2
  <2> QED BY <2>3, StepFields DEF StoredStep
<1> QED BY <1>1, <1>3, <1>4 DEF ToInput

(* The service sorts: each step of the draft is at its place.              *)
PlaceOf(i) == Place(1 .. Len(draft), Steps(ToInput(draft)), i)

LEMMA InputRanked == ASSUME DraftTyped PROVE Ranked(Len(draft), 1 .. Len(draft), Steps(ToInput(draft)))
<1>1. \A i \in 1 .. Len(draft) : ToInput(draft)[i].step \in Nat
  BY InputFields DEF StoredStep
<1> QED BY <1>1, InputFields DEF Ranked, Steps

LEMMA StoredFields ==
  ASSUME NEW d \in StoredSteps
  PROVE  /\ Len(d) \in Nat /\ DOMAIN d = 1 .. Len(d)
         /\ \A i \in 1 .. Len(d) :
              /\ d[i].key \in StepKeys /\ d[i].key # Nothing /\ d[i].step \in Nat
              /\ d[i].runIf \in StepKeys \cup {Nothing}
<1>1. ASSUME NEW a \in StoredStep
      PROVE  /\ a.key \in StepKeys /\ a.key # Nothing /\ a.step \in Nat
             /\ a.runIf \in StepKeys \cup {Nothing}
  BY <1>1, DraftsAssumption DEF StoredStep
<1>2. Len(d) \in Nat /\ DOMAIN d = 1 .. Len(d) /\ \A i \in 1 .. Len(d) : d[i] \in StoredStep
  BY DEF StoredSteps
<1> QED BY <1>1, <1>2

LEMMA SortedSteps ==
  ASSUME NEW n \in Nat, NEW input, DOMAIN input = 1 .. n, \A i \in 1 .. n : input[i] \in StoredStep
  PROVE  LET place(i) == Place(1 .. n, Steps(input), i) IN
         /\ Sorted(input) \in StoredSteps /\ DOMAIN Sorted(input) = 1 .. n
         /\ \A i \in 1 .. n : place(i) \in 1 .. n /\ Sorted(input)[place(i)] = input[i]
         /\ \A p \in 1 .. n : \E i \in 1 .. n : place(i) = p
         /\ \A i, j \in 1 .. n : place(i) = place(j) => i = j
<1> DEFINE all == 1 .. n
           rank == Steps(input)
<1>1. Sorted(input) = Arranged(input, all, rank)
  BY DEF Sorted
<1>2. Ranked(n, all, rank)
  BY DEF Ranked, Steps, StoredStep
<1>3. Cardinality(all) = n
  <2>1. Cardinality(1 .. n) = IF 1 > n THEN 0 ELSE n - 1 + 1
    BY FS_Interval
  <2> QED BY <2>1
<1> HIDE DEF all, rank
<1>4. /\ DOMAIN Arranged(input, all, rank) = 1 .. n
      /\ \A i \in all : Arranged(input, all, rank)[Place(all, rank, i)] = input[i]
      /\ (\A i \in all : input[i] \in StoredStep) => Arranged(input, all, rank) \in Seq(StoredStep)
  BY <1>2, <1>3, Arranging
<1>5. /\ \A i \in all : Place(all, rank, i) \in 1 .. n
      /\ \A p \in 1 .. n : \E i \in all : Place(all, rank, i) = p
      /\ \A i, j \in all : Place(all, rank, i) = Place(all, rank, j) => i = j
  BY <1>2, <1>3, Placing
<1> QED BY <1>1, <1>4, <1>5 DEF StoredSteps, all, rank

LEMMA SortedInput ==
  ASSUME DraftTyped
  PROVE  LET sorted == Sorted(ToInput(draft)) IN
         /\ sorted \in StoredSteps /\ DOMAIN sorted = 1 .. Len(draft)
         /\ \A i \in 1 .. Len(draft) : sorted[PlaceOf(i)] = ToInput(draft)[i]
<1>1. PICK n : n = Len(draft)
  OBVIOUS
<1>2. PICK input : input = ToInput(draft)
  OBVIOUS
<1>3. n \in Nat /\ DOMAIN input = 1 .. n /\ \A i \in 1 .. n : input[i] \in StoredStep
  BY <1>1, <1>2, InputFields
<1>4. /\ Sorted(input) \in StoredSteps /\ DOMAIN Sorted(input) = 1 .. n
      /\ \A i \in 1 .. n : Sorted(input)[Place(1 .. n, Steps(input), i)] = input[i]
  BY <1>3, SortedSteps
<1> QED BY <1>1, <1>2, <1>4, Zenon DEF PlaceOf

LEMMA Places ==
  ASSUME DraftTyped
  PROVE  LET n == Len(draft) IN
         /\ \A i \in 1 .. n : PlaceOf(i) \in 1 .. n
         /\ \A p \in 1 .. n : \E i \in 1 .. n : PlaceOf(i) = p
         /\ \A i, j \in 1 .. n : PlaceOf(i) = PlaceOf(j) => i = j
         /\ \A i, j \in 1 .. n : draft[i].step = draft[j].step => (i < j <=> PlaceOf(i) < PlaceOf(j))
<1> DEFINE n == Len(draft)
           rank == Steps(ToInput(draft))
<1>1. Ranked(n, 1 .. n, rank) /\ n \in Nat
  BY InputRanked, InputFields
<1>2. Cardinality(1 .. n) = n
  <2>1. Cardinality(1 .. n) = IF 1 > n THEN 0 ELSE n - 1 + 1
    BY <1>1, FS_Interval
  <2> QED BY <1>1, <2>1
<1>3. \A i \in 1 .. n : rank[i] = draft[i].step /\ rank[i] \in Int
  BY <1>1, InputFields DEF Steps, Ranked
<1> HIDE DEF n, rank
<1>4. /\ \A i \in 1 .. n : Place(1 .. n, rank, i) \in 1 .. n
      /\ \A p \in 1 .. n : \E i \in 1 .. n : Place(1 .. n, rank, i) = p
      /\ \A i, j \in 1 .. n : Place(1 .. n, rank, i) = Place(1 .. n, rank, j) => i = j
      /\ \A i, j \in 1 .. n : Before(rank, i, j) <=> Place(1 .. n, rank, i) < Place(1 .. n, rank, j)
  <2> DEFINE all == 1 .. n
  <2> HIDE DEF all
  <2>1. Ranked(n, all, rank) /\ Cardinality(all) = n
    BY <1>1, <1>2 DEF all
  <2>2. /\ \A i \in all : Place(all, rank, i) \in 1 .. Cardinality(all)
        /\ \A i, j \in all : Before(rank, i, j) <=> Place(all, rank, i) < Place(all, rank, j)
        /\ \A i, j \in all : Place(all, rank, i) = Place(all, rank, j) => i = j
        /\ \A p \in 1 .. Cardinality(all) : \E i \in all : Place(all, rank, i) = p
    BY <2>1, Placing
  <2>3. /\ \A i \in all : Place(all, rank, i) \in 1 .. n
        /\ \A p \in 1 .. n : \E i \in all : Place(all, rank, i) = p
    BY <2>1, <2>2
  <2> QED BY <2>2, <2>3 DEF all
<1>5. \A i, j \in 1 .. n : draft[i].step = draft[j].step => (i < j <=> Before(rank, i, j))
  BY <1>3 DEF Before
<1> QED BY <1>4, <1>5 DEF PlaceOf, n, rank

(* What is opened, step by step: a link is the place of its condition, or  *)
(* there is none of that key.                                              *)
LEMMA OpenedFields ==
  ASSUME NEW definition \in StoredSteps, NEW p \in DOMAIN definition
  PROVE  LET opened == FromRoutine(definition) IN
         /\ DOMAIN opened = DOMAIN definition
         /\ opened[p].uid = p /\ opened[p].key = definition[p].key /\ opened[p].type = definition[p].type
         /\ opened[p].step = definition[p].step /\ opened[p].ref = definition[p].ref
         /\ \/ /\ opened[p].runIf = Nothing
               /\ \A q \in DOMAIN definition : definition[q].key # definition[p].runIf
            \/ /\ opened[p].runIf \in DOMAIN definition
               /\ definition[opened[p].runIf].key = definition[p].runIf
<1> DEFINE n == Len(definition)
           named == {i \in DOMAIN definition : definition[i].key = definition[p].runIf}
           link == IF named = {} THEN Nothing ELSE CHOOSE j \in named : \A k \in named : k <= j
           rank == [i \in 1 .. n |-> i]
<1>1. n \in Nat /\ DOMAIN definition = 1 .. n
  BY DEF StoredSteps
<1>2. named # {} => link \in named
  <2> SUFFICES ASSUME named # {} PROVE link \in named
    OBVIOUS
  <2>1. Ranked(n, named, rank)
    BY <1>1 DEF Ranked
  <2>2. PICK j \in named : \A k \in named : rank[k] <= rank[j]
    BY <2>1, Latest
  <2>3. \A k \in named : k <= j
    BY <1>1, <2>2
  <2> QED BY <2>3
<1>3. FromRoutine(definition)[p] =
        [uid |-> p, key |-> definition[p].key, type |-> definition[p].type,
         step |-> definition[p].step, ref |-> definition[p].ref, runIf |-> link]
  BY DEF FromRoutine
<1>4. DOMAIN FromRoutine(definition) = DOMAIN definition
  BY DEF FromRoutine
<1>5. CASE named = {}
  <2>1. link = Nothing /\ \A q \in DOMAIN definition : definition[q].key # definition[p].runIf
    BY <1>5
  <2> HIDE DEF link
  <2> QED BY <1>3, <1>4, <2>1
<1>6. CASE named # {}
  <2>1. link \in DOMAIN definition /\ definition[link].key = definition[p].runIf
    BY <1>2, <1>6
  <2> HIDE DEF link
  <2> QED BY <1>3, <1>4, <2>1
<1> QED BY <1>5, <1>6

-----------------------------------------------------------------------------
(* What the service accepts, references apart.                             *)

RefsOnly == {"unknown reference", "late reference"}
OneKeyEach(d, n) == \A i, j \in 1 .. n : d[i].key = d[j].key => i = j
InOrder(d, n, i) ==
  d[i].runIf # Nothing =>
    \E j \in 1 .. n : d[j].key = d[i].runIf /\ d[j].type = "condition" /\ d[j].step < d[i].step
Fine(d, n) ==
  /\ n \in 1 .. MaxActions
  /\ \A i \in 1 .. n : d[i].step \in 1 .. MaxStep
  /\ OneKeyEach(d, n)
  /\ \A i \in 1 .. n : InOrder(d, n, i)

LEMMA KeysCounted ==
  ASSUME NEW n \in Nat, NEW d
  PROVE  Cardinality({d[i].key : i \in 1 .. n}) = n <=> OneKeyEach(d, n)
<1> DEFINE S == 1 .. n
           T == {d[i].key : i \in S}
           f == [i \in S |-> d[i].key]
<1>1. IsFiniteSet(S) /\ Cardinality(S) = n
  <2>1. Cardinality(1 .. n) = IF 1 > n THEN 0 ELSE n - 1 + 1
    BY FS_Interval
  <2> QED BY <2>1, FS_Interval
<1>2. f \in Surjection(S, T)
  BY DEF Surjection
<1>3. f \in Injection(S, T) <=> OneKeyEach(d, n)
  BY DEF Injection, IsInjective, OneKeyEach
<1> HIDE DEF S, T, f
<1>4. Cardinality(T) = Cardinality(S) <=> f \in Injection(S, T)
  BY <1>1, <1>2, FS_Surjection
<1> QED BY <1>1, <1>3, <1>4 DEF S, T

LEMMA LinkChecked ==
  ASSUME NEW n \in Nat, NEW d, DOMAIN d = 1 .. n, \A j \in 1 .. n : d[j].step \in Nat, OneKeyEach(d, n),
         NEW i \in 1 .. n
  PROVE  LinkIssues(d, d[i]) = {} <=> InOrder(d, n, i)
<1>1. CASE d[i].runIf = Nothing
  BY <1>1 DEF LinkIssues, InOrder
<1>2. CASE d[i].runIf # Nothing /\ ~Named(d, d[i].runIf)
  BY <1>2 DEF LinkIssues, InOrder, Named
<1>3. CASE d[i].runIf # Nothing /\ Named(d, d[i].runIf)
  <2>1. PICK j \in 1 .. n : d[j].key = d[i].runIf /\ StepNamed(d, d[i].runIf) = d[j]
    BY <1>3 DEF Named, StepNamed
  <2>2. \A k \in 1 .. n : d[k].key = d[i].runIf => k = j
    BY <2>1 DEF OneKeyEach
  <2>3. InOrder(d, n, i) <=> d[j].type = "condition" /\ d[j].step < d[i].step
    BY <1>3, <2>1, <2>2 DEF InOrder
  <2>4. LinkIssues(d, d[i]) = {} <=> d[j].type = "condition" /\ ~(d[j].step >= d[i].step)
    BY <1>3, <2>1 DEF LinkIssues
  <2> QED BY <2>3, <2>4
<1> QED BY <1>1, <1>2, <1>3

LEMMA ServiceIssues ==
  ASSUME NEW n \in Nat, NEW input, DOMAIN input = 1 .. n, \A i \in 1 .. n : input[i] \in StoredStep
  PROVE  Issues(input) \subseteq RefsOnly <=> Fine(Sorted(input), n)
<1> DEFINE d == Sorted(input)
           a == {d[i] : i \in DOMAIN d}
           size == IF Len(d) \in 1 .. MaxActions THEN {} ELSE {"number of steps"}
           numbers == IF \A b \in a : b.step \in 1 .. MaxStep THEN {} ELSE {"number of a step"}
           keys == IF Cardinality({b.key : b \in a}) = Len(d) THEN {} ELSE {"key"}
           each(b) == LinkIssues(d, b) \cup RefIssues(d, b)
<1>1. d \in StoredSteps /\ DOMAIN d = 1 .. n
  BY SortedSteps
<1>2. Issues(input) = size \cup numbers \cup keys \cup UNION {each(b) : b \in a}
  BY DEF Issues
<1> HIDE DEF d
<1>3. Len(d) = n /\ \A i \in 1 .. n : d[i].step \in Nat
  <2>1. Len(d) \in Nat /\ DOMAIN d = 1 .. Len(d)
    BY <1>1, StoredFields
  <2>2. Len(d) = n
    BY <1>1, <2>1
  <2> QED BY <1>1, <2>2, StoredFields
<1>4. size \subseteq RefsOnly <=> n \in 1 .. MaxActions
  BY <1>3 DEF RefsOnly
<1>5. numbers \subseteq RefsOnly <=> \A i \in 1 .. n : d[i].step \in 1 .. MaxStep
  BY <1>1 DEF RefsOnly
<1>6. keys \subseteq RefsOnly <=> OneKeyEach(d, n)
  <2>1. {b.key : b \in a} = {d[i].key : i \in 1 .. n}
    BY <1>1
  <2>2. Cardinality({b.key : b \in a}) = Len(d) <=> OneKeyEach(d, n)
    BY <1>3, <2>1, KeysCounted
  <2> QED BY <2>2 DEF RefsOnly
<1>7. ASSUME OneKeyEach(d, n)
      PROVE  UNION {each(b) : b \in a} \subseteq RefsOnly <=> \A i \in 1 .. n : InOrder(d, n, i)
  <2>1. ASSUME NEW i \in 1 .. n PROVE each(d[i]) \subseteq RefsOnly <=> InOrder(d, n, i)
    <3>1. RefIssues(d, d[i]) \subseteq RefsOnly
      BY DEF RefIssues, RefsOnly
    <3>2. LinkIssues(d, d[i]) \subseteq RefsOnly <=> LinkIssues(d, d[i]) = {}
      BY DEF LinkIssues, RefsOnly
    <3>3. LinkIssues(d, d[i]) = {} <=> InOrder(d, n, i)
      BY <1>1, <1>3, <1>7, LinkChecked
    <3> QED BY <3>1, <3>2, <3>3
  <2> HIDE DEF each
  <2>2. UNION {each(b) : b \in a} \subseteq RefsOnly <=> \A i \in 1 .. n : each(d[i]) \subseteq RefsOnly
    BY <1>1
  <2> QED BY <2>1, <2>2
<1> HIDE DEF size, numbers, keys, a
<1> DEFINE steps == UNION {each(b) : b \in a}
<1> HIDE DEF steps, each
<1>8. Issues(input) \subseteq RefsOnly <=>
        size \subseteq RefsOnly /\ numbers \subseteq RefsOnly /\ keys \subseteq RefsOnly /\ steps \subseteq RefsOnly
  BY <1>2 DEF steps
<1> QED BY <1>4, <1>5, <1>6, <1>7, <1>8 DEF Fine, d, steps

(* The order the steps are sent in does not matter. *)
Permutes(n, d, e, place) ==
  /\ \A i \in 1 .. n : place[i] \in 1 .. n /\ e[place[i]] = d[i]
  /\ \A p \in 1 .. n : \E i \in 1 .. n : place[i] = p
  /\ \A i, j \in 1 .. n : place[i] = place[j] => i = j

LEMMA Permuted ==
  ASSUME NEW n \in Nat, NEW d, NEW e, NEW place, Permutes(n, d, e, place)
  PROVE  Fine(d, n) <=> Fine(e, n)
<1> USE DEF Permutes
<1>1. \A p \in 1 .. n : \E i \in 1 .. n : place[i] = p /\ e[p] = d[i]
  OBVIOUS
<1>2. (\A i \in 1 .. n : d[i].step \in 1 .. MaxStep) <=> (\A p \in 1 .. n : e[p].step \in 1 .. MaxStep)
  BY <1>1
<1>3. OneKeyEach(d, n) <=> OneKeyEach(e, n)
  <2>1. ASSUME OneKeyEach(e, n), NEW i \in 1 .. n, NEW j \in 1 .. n, d[i].key = d[j].key PROVE i = j
    BY <2>1 DEF OneKeyEach
  <2>2. ASSUME OneKeyEach(d, n), NEW p \in 1 .. n, NEW q \in 1 .. n, e[p].key = e[q].key PROVE p = q
    <3>1. PICK i \in 1 .. n : place[i] = p /\ e[p] = d[i]
      BY <1>1
    <3>2. PICK j \in 1 .. n : place[j] = q /\ e[q] = d[j]
      BY <1>1
    <3> QED BY <2>2, <3>1, <3>2 DEF OneKeyEach
  <2> QED BY <2>1, <2>2 DEF OneKeyEach
<1>4. ASSUME NEW i \in 1 .. n PROVE InOrder(d, n, i) <=> InOrder(e, n, place[i])
  <2>1. ASSUME NEW j \in 1 .. n PROVE \E q \in 1 .. n : e[q] = d[j]
    OBVIOUS
  <2>2. ASSUME NEW q \in 1 .. n PROVE \E j \in 1 .. n : d[j] = e[q]
    BY <1>1
  <2>3. e[place[i]] = d[i] /\ place[i] \in 1 .. n
    OBVIOUS
  <2>4. ASSUME InOrder(d, n, i), e[place[i]].runIf # Nothing
        PROVE  \E q \in 1 .. n : /\ e[q].key = e[place[i]].runIf /\ e[q].type = "condition"
                                /\ e[q].step < e[place[i]].step
    <3>1. PICK j \in 1 .. n : d[j].key = d[i].runIf /\ d[j].type = "condition" /\ d[j].step < d[i].step
      BY <2>3, <2>4 DEF InOrder
    <3>2. PICK q \in 1 .. n : e[q] = d[j]
      BY <2>1
    <3> QED BY <2>3, <3>1, <3>2
  <2>5. ASSUME InOrder(e, n, place[i]), d[i].runIf # Nothing
        PROVE  \E j \in 1 .. n : d[j].key = d[i].runIf /\ d[j].type = "condition" /\ d[j].step < d[i].step
    <3>1. PICK q \in 1 .. n : /\ e[q].key = e[place[i]].runIf /\ e[q].type = "condition"
                             /\ e[q].step < e[place[i]].step
      BY <2>3, <2>5 DEF InOrder
    <3>2. PICK j \in 1 .. n : d[j] = e[q]
      BY <2>2
    <3> QED BY <2>3, <3>1, <3>2
  <2> QED BY <2>4, <2>5 DEF InOrder
<1>5. (\A i \in 1 .. n : InOrder(d, n, i)) <=> (\A p \in 1 .. n : InOrder(e, n, p))
  BY <1>4
<1> QED BY <1>2, <1>3, <1>5 DEF Fine

LEMMA SortedFine ==
  ASSUME NEW n \in Nat, NEW input, DOMAIN input = 1 .. n, \A i \in 1 .. n : input[i] \in StoredStep
  PROVE  Fine(Sorted(input), n) <=> Fine(input, n)
<1> DEFINE at(i) == Place(1 .. n, Steps(input), i)
           place == [i \in 1 .. n |-> at(i)]
           sorted == Sorted(input)
<1>1. /\ \A i \in 1 .. n : at(i) \in 1 .. n /\ sorted[at(i)] = input[i]
      /\ \A p \in 1 .. n : \E i \in 1 .. n : at(i) = p
      /\ \A i, j \in 1 .. n : at(i) = at(j) => i = j
  BY SortedSteps
<1> HIDE DEF at, sorted
<1>2. \A i \in 1 .. n : place[i] = at(i)
  OBVIOUS
<1> HIDE DEF place
<1>3. \A i \in 1 .. n : place[i] \in 1 .. n /\ sorted[place[i]] = input[i]
  BY <1>1, <1>2
<1>4. \A p \in 1 .. n : \E i \in 1 .. n : place[i] = p
  BY <1>1, <1>2
<1>5. ASSUME NEW i \in 1 .. n, NEW j \in 1 .. n, place[i] = place[j] PROVE i = j
  <2>1. at(i) = at(j)
    BY <1>2, <1>5
  <2> QED BY <1>1, <2>1
<1>6. Permutes(n, input, sorted, place)
  BY <1>3, <1>4, <1>5 DEF Permutes
<1>7. Fine(input, n) <=> Fine(sorted, n)
  BY <1>6, Permuted
<1> QED BY <1>7 DEF sorted

LEMMA Accepted ==
  ASSUME NEW definition \in StoredSteps, Issues(definition) = {}
  PROVE  Fine(definition, Len(definition)) /\ Fine(Sorted(definition), Len(definition))
<1>1. /\ Len(definition) \in Nat /\ DOMAIN definition = 1 .. Len(definition)
      /\ \A i \in 1 .. Len(definition) : definition[i] \in StoredStep
  BY DEF StoredSteps
<1> QED BY <1>1, ServiceIssues, SortedFine

(* What the service accepts opens as a sound draft. *)
LEMMA OpenedSound ==
  ASSUME NEW definition \in StoredSteps, definition = <<>> \/ Fine(definition, Len(definition))
  PROVE  Sound(FromRoutine(definition))
<1> DEFINE n == Len(definition)
           opened == FromRoutine(definition)
<1>1. n \in Nat /\ DOMAIN definition = 1 .. n /\ \A i \in 1 .. n : definition[i].runIf \in StepKeys \cup {Nothing}
  BY StoredFields
<1>2. opened \in DraftSteps /\ DOMAIN opened = 1 .. n
  BY <1>1, Opened DEF FromRoutine
<1>3. ASSUME NEW p \in 1 .. n
      PROVE  /\ opened[p].uid = p /\ opened[p].type = definition[p].type /\ opened[p].step = definition[p].step
             /\ \/ opened[p].runIf = Nothing
                \/ opened[p].runIf \in 1 .. n /\ definition[opened[p].runIf].key = definition[p].runIf
  BY <1>1, OpenedFields
<1>4. \A i \in 1 .. n : definition[i].key # Nothing
  BY StoredFields
<1> HIDE DEF n, opened
<1>5. Len(opened) = n
  BY <1>1, <1>2 DEF DraftSteps
<1>6. CASE n = 0
  BY <1>1, <1>2, <1>5, <1>6, DraftsAssumption DEF Sound, Distinct, Linked, opened
<1>7. CASE Fine(definition, n)
  <2>1. Len(opened) <= MaxActions /\ \A p \in 1 .. n : opened[p].step \in 1 .. MaxStep
    BY <1>3, <1>5, <1>7 DEF Fine
  <2>2. Distinct(opened, 1 .. n)
    BY <1>3 DEF Distinct
  <2>3. Linked(opened, 1 .. n)
    <3> SUFFICES ASSUME NEW p \in 1 .. n, opened[p].runIf # Nothing
                 PROVE  \E q \in 1 .. n : opened[q].uid = opened[p].runIf /\ opened[q].type = "condition"
      BY DEF Linked
    <3>1. PICK q \in 1 .. n : q = opened[p].runIf /\ definition[q].key = definition[p].runIf
      BY <1>3
    <3>2. PICK j \in 1 .. n : definition[j].key = definition[p].runIf /\ definition[j].type = "condition"
      BY <1>4, <1>7, <3>1 DEF Fine, InOrder
    <3>3. j = q
      BY <1>7, <3>1, <3>2 DEF Fine, OneKeyEach
    <3> QED BY <1>3, <3>1, <3>2, <3>3
  <2> QED BY <1>2, <2>1, <2>2, <2>3 DEF Sound, opened
<1>8. definition = <<>> => n = 0
  BY DEF n
<1> QED BY <1>6, <1>7, <1>8 DEF n

-----------------------------------------------------------------------------
(* What the page accepts.                                                  *)

LEMMA LinkNow ==
  ASSUME DraftSound, NEW i \in InDraft
  PROVE  /\ draft[i].runIf = Nothing => KeyNow(draft, draft[i].runIf) = Nothing
         /\ \A j \in InDraft : draft[j].uid = draft[i].runIf => KeyNow(draft, draft[i].runIf) = draft[j].key
<1>1. \A j \in InDraft : draft[j].uid \in Nat
  BY SoundFields, StepFields
<1>2. draft[i].runIf = Nothing => KeyNow(draft, draft[i].runIf) = Nothing
  BY <1>1, DraftsAssumption DEF KeyNow, InDraft
<1>3. ASSUME NEW j \in InDraft, draft[j].uid = draft[i].runIf
      PROVE  KeyNow(draft, draft[i].runIf) = draft[j].key
  <2>1. PICK k \in InDraft : draft[k].uid = draft[i].runIf /\ KeyNow(draft, draft[i].runIf) = draft[k].key
    BY <1>3 DEF KeyNow, InDraft
  <2>2. k = j
    BY <1>3, <2>1, SoundFields DEF Distinct
  <2> QED BY <2>1, <2>2
<1> QED BY <1>2, <1>3

LEMMA PageIssues ==
  ASSUME DraftSound
  PROVE  ClientIssues(draft) = {} <=> /\ Len(draft) # 0
                                      /\ \A i \in InDraft : draft[i].runIf # Nothing => ~LinkBroken(draft, i)
                                      /\ OneKeyEach(draft, Len(draft))
<1> DEFINE links == {j \in DOMAIN draft : draft[j].runIf # Nothing /\ LinkBroken(draft, j)}
           twice == {j \in DOMAIN draft : \E k \in 1 .. j - 1 : draft[k].key = draft[j].key}
           n == Len(draft)
<1>1. n \in Nat /\ DOMAIN draft = 1 .. n
  BY SoundFields DEF InDraft
<1>2. ClientIssues(draft) = {} <=> draft # <<>> /\ links = {} /\ twice = {}
  <2>1. ClientIssues(draft) =
          (IF draft = <<>> THEN {"no steps"} ELSE {}) \cup {"link" : i \in links} \cup {"key" : i \in twice}
    BY DEF ClientIssues
  <2> HIDE DEF links, twice
  <2> QED BY <2>1
<1>3. draft # <<>> <=> n # 0
  BY SoundFields DEF DraftTyped, DraftSteps
<1>4. links = {} <=> \A i \in InDraft : draft[i].runIf # Nothing => ~LinkBroken(draft, i)
  BY DEF InDraft
<1>5. twice = {} <=> OneKeyEach(draft, n)
  <2>1. ASSUME OneKeyEach(draft, n), NEW j \in 1 .. n, NEW k \in 1 .. j - 1, draft[k].key = draft[j].key PROVE FALSE
    BY <1>1, <2>1 DEF OneKeyEach
  <2>2. ASSUME twice = {}, NEW i \in 1 .. n, NEW j \in 1 .. n, draft[i].key = draft[j].key PROVE i = j
    <3>1. ASSUME i < j PROVE FALSE
      BY <1>1, <2>2, <3>1
    <3>2. ASSUME j < i PROVE FALSE
      BY <1>1, <2>2, <3>2
    <3> QED BY <1>1, <3>1, <3>2
  <2> QED BY <1>1, <2>1, <2>2 DEF OneKeyEach
<1> HIDE DEF links, twice
<1> QED BY <1>2, <1>3, <1>4, <1>5

(* A link by uid says the same as one by key. *)
LEMMA BothAgree == ASSUME DraftSound PROVE ClientIssues(draft) = {} <=> Fine(ToInput(draft), Len(draft))
<1> DEFINE n == Len(draft)
           input == ToInput(draft)
<1>1. /\ n \in Nat /\ n <= MaxActions /\ InDraft = 1 .. n
      /\ \A i \in 1 .. n : draft[i] \in DraftStep /\ draft[i].step \in 1 .. MaxStep
  BY SoundFields
<1>2. \A i \in 1 .. n : /\ input[i].key = draft[i].key /\ input[i].type = draft[i].type
                        /\ input[i].step = draft[i].step /\ input[i].runIf = KeyNow(draft, draft[i].runIf)
  BY SoundFields, InputFields
<1> HIDE DEF input, n
<1>3. OneKeyEach(input, n) <=> OneKeyEach(draft, n)
  BY <1>2 DEF OneKeyEach
<1>4. ASSUME OneKeyEach(draft, n), NEW i \in 1 .. n
      PROVE  InOrder(input, n, i) <=> (draft[i].runIf # Nothing => ~LinkBroken(draft, i))
  <2>1. CASE draft[i].runIf = Nothing
    <3>1. input[i].runIf = Nothing
      BY <1>1, <1>2, <2>1, LinkNow
    <3> QED BY <2>1, <3>1 DEF InOrder
  <2>2. CASE draft[i].runIf # Nothing
    <3>1. PICK j \in 1 .. n : draft[j].uid = draft[i].runIf /\ draft[j].type = "condition"
      BY <1>1, <2>2, SoundFields DEF Linked
    <3>2. input[i].runIf = draft[j].key
      BY <1>1, <1>2, <3>1, LinkNow
    <3>3. input[i].runIf # Nothing
      BY <1>1, <3>2, StepFields, DraftsAssumption
    <3>4. \A k \in 1 .. n : draft[k].key = draft[j].key => k = j
      BY <1>4 DEF OneKeyEach
    <3>5. \A k \in 1 .. n : draft[k].uid = draft[i].runIf => k = j
      BY <1>1, <3>1, SoundFields DEF Distinct
    <3>6. InOrder(input, n, i) <=> draft[j].step < draft[i].step
      BY <1>2, <3>1, <3>2, <3>3, <3>4 DEF InOrder
    <3>7. ~LinkBroken(draft, i) <=> draft[j].step < draft[i].step
      BY <1>1, <3>1, <3>5 DEF LinkBroken, InDraft
    <3> QED BY <2>2, <3>6, <3>7
  <2> QED BY <2>1, <2>2
<1>5. n \in 1 .. MaxActions <=> n # 0
  BY <1>1, DraftsAssumption
<1>6. \A i \in 1 .. n : input[i].step \in 1 .. MaxStep
  BY <1>1, <1>2
<1>7. ClientIssues(draft) = {} <=> /\ n # 0
                                   /\ \A i \in 1 .. n : draft[i].runIf # Nothing => ~LinkBroken(draft, i)
                                   /\ OneKeyEach(draft, n)
  BY <1>1, PageIssues DEF n
<1> QED BY <1>3, <1>4, <1>5, <1>6, <1>7 DEF Fine, input, n

-----------------------------------------------------------------------------
(* A draft stays sound.                                                    *)

LEMMA SaveStep == ASSUME DraftSound, SaveDraft PROVE DraftSound'
<1> DEFINE n == Len(draft)
           input == ToInput(draft)
<1>1. n \in Nat /\ DOMAIN input = 1 .. n /\ \A i \in 1 .. n : input[i] \in StoredStep
  BY SoundFields, InputFields
<1>2. Sorted(input) \in StoredSteps /\ Len(Sorted(input)) = n
  <2>1. Sorted(input) \in StoredSteps /\ DOMAIN Sorted(input) = 1 .. n
    BY <1>1, SortedSteps
  <2> HIDE DEF input, n
  <2> QED BY <1>1, <2>1 DEF StoredSteps
<1>3. Issues(input) = {} /\ draft' = FromRoutine(Sorted(input))
  BY DEF SaveDraft
<1> HIDE DEF input, n
<1>4. Fine(Sorted(input), n)
  BY <1>1, <1>3, ServiceIssues
<1> QED BY <1>2, <1>3, <1>4, OpenedSound DEF DraftSound

LEMMA DraftsStart == DraftsInit => DraftSound
BY DraftsAssumption, Accepted, OpenedSound DEF DraftsInit, DraftSound

LEMMA DraftsStep == DraftSound /\ [DraftsNext]_draftVars => DraftSound'
<1> SUFFICES ASSUME DraftSound, [DraftsNext]_draftVars PROVE DraftSound'
  OBVIOUS
<1>1. ASSUME NEW i \in InDraft PROVE draft[i] \in DraftStep
  BY SoundFields
<1>2. ASSUME NEW i \in InDraft, NEW key \in StepKeys, UpdateAction(i, [draft[i] EXCEPT !.key = key])
      PROVE  DraftSound'
  <2> DEFINE action == [draft[i] EXCEPT !.key = key]
  <2>1. /\ action \in DraftStep /\ action.uid = draft[i].uid /\ action.type = draft[i].type
        /\ action.step = draft[i].step /\ action.runIf = draft[i].runIf
    BY <1>1 DEF DraftStep
  <2> HIDE DEF action
  <2> QED BY <1>2, <2>1, UpdateStep DEF action
<1>3. ASSUME NEW i \in InDraft, NEW key \in StepKeys, UpdateAction(i, [draft[i] EXCEPT !.ref = key])
      PROVE  DraftSound'
  <2> DEFINE action == [draft[i] EXCEPT !.ref = key]
  <2>1. /\ action \in DraftStep /\ action.uid = draft[i].uid /\ action.type = draft[i].type
        /\ action.step = draft[i].step /\ action.runIf = draft[i].runIf
    BY <1>1 DEF DraftStep
  <2> HIDE DEF action
  <2> QED BY <1>3, <2>1, UpdateStep DEF action
<1>4. ASSUME NEW i \in InDraft, NEW uid \in {Nothing} \cup {draft[j].uid : j \in InDraft}, RunOnlyIf(i, uid)
      PROVE  DraftSound'
  <2> DEFINE action == [draft[i] EXCEPT !.runIf = uid]
  <2>1. uid \in Nat \cup {Nothing}
    BY <1>1, StepFields
  <2>2. /\ action \in DraftStep /\ action.uid = draft[i].uid /\ action.type = draft[i].type
        /\ action.step = draft[i].step /\ action.runIf = uid
    BY <1>1, <2>1 DEF DraftStep
  <2>3. uid = Nothing \/ \E j \in InDraft : draft[j].uid = uid /\ draft[j].type = "condition"
    BY <1>4 DEF RunOnlyIf
  <2>4. UpdateAction(i, action)
    BY <1>4 DEF RunOnlyIf
  <2> HIDE DEF action
  <2> QED BY <2>2, <2>3, <2>4, UpdateStep
<1>5. CASE UNCHANGED draftVars
  BY <1>5 DEF draftVars, DraftSound
<1> QED BY <1>2, <1>3, <1>4, <1>5, AddStep, RemoveStep, ReorderStep, ToggleStep, SaveStep DEF DraftsNext

(* The page and the service find fault with the same drafts. *)
THEOREM ChecksAgree == DraftsSpec => []PageAndServiceAgree
<1>1. DraftSound => PageAndServiceAgree
  <2> SUFFICES ASSUME DraftSound PROVE PageAndServiceAgree
    OBVIOUS
  <2> DEFINE n == Len(draft)
             input == ToInput(draft)
  <2>1. n \in Nat /\ DOMAIN input = 1 .. n /\ \A i \in 1 .. n : input[i] \in StoredStep
    BY SoundFields, InputFields
  <2>2. ClientIssues(draft) = {} <=> Fine(input, n)
    BY BothAgree
  <2> HIDE DEF n, input
  <2>3. Issues(input) \subseteq RefsOnly <=> Fine(input, n)
    BY <2>1, ServiceIssues, SortedFine
  <2> QED BY <2>2, <2>3 DEF PageAndServiceAgree, RefsOnly, input
<1> QED BY <1>1, DraftsStart, DraftsStep, PTL DEF DraftsSpec

-----------------------------------------------------------------------------
(* Who changes the definition the service has: only the user who saves. *)

LEMMA OnlySaves == DraftsNext => SaveDraft \/ UNCHANGED stored
BY DEF DraftsNext, AddAction, RemoveAction, Reorder, ToggleParallel, UpdateAction, RunOnlyIf, Edit

(* A saved step is the step it was.                                        *)
Back == FromRoutine(Sorted(ToInput(draft)))

LEMMA BackFields ==
  ASSUME DraftTyped, NEW i \in 1 .. Len(draft)
  PROVE  /\ DOMAIN Back = 1 .. Len(draft) /\ PlaceOf(i) \in 1 .. Len(draft)
         /\ Back[PlaceOf(i)].uid = PlaceOf(i)
         /\ Back[PlaceOf(i)].key = draft[i].key /\ Back[PlaceOf(i)].type = draft[i].type
         /\ Back[PlaceOf(i)].step = draft[i].step /\ Back[PlaceOf(i)].ref = draft[i].ref
<1> DEFINE sorted == Sorted(ToInput(draft))
<1>1. sorted \in StoredSteps /\ DOMAIN sorted = 1 .. Len(draft) /\ sorted[PlaceOf(i)] = ToInput(draft)[i]
  BY SortedInput
<1>2. PlaceOf(i) \in 1 .. Len(draft)
  BY Places
<1> HIDE DEF sorted
<1>3. LET opened == FromRoutine(sorted) IN
      /\ DOMAIN opened = DOMAIN sorted
      /\ opened[PlaceOf(i)].uid = PlaceOf(i) /\ opened[PlaceOf(i)].key = sorted[PlaceOf(i)].key
      /\ opened[PlaceOf(i)].type = sorted[PlaceOf(i)].type
      /\ opened[PlaceOf(i)].step = sorted[PlaceOf(i)].step /\ opened[PlaceOf(i)].ref = sorted[PlaceOf(i)].ref
  BY <1>1, <1>2, OpenedFields
<1>4. Back = FromRoutine(sorted)
  BY DEF Back, sorted
<1> QED BY <1>1, <1>2, <1>3, <1>4, InputFields

(* It waits for the same condition.                                        *)
LEMMA SameLink ==
  ASSUME DraftTyped, NEW i \in 1 .. Len(draft)
  PROVE  KeyNow(Back, Back[PlaceOf(i)].runIf) = KeyNow(draft, draft[i].runIf)
<1> DEFINE sorted == Sorted(ToInput(draft))
           n == Len(draft)
           key == KeyNow(draft, draft[i].runIf)
           link == Back[PlaceOf(i)].runIf
<1>1. n \in Nat /\ sorted \in StoredSteps /\ DOMAIN sorted = 1 .. n /\ DOMAIN draft = 1 .. n
  BY SortedInput, Drafted DEF DraftTyped
<1>2. PlaceOf(i) \in 1 .. n /\ sorted[PlaceOf(i)].runIf = key
  BY SortedInput, InputFields, Places
<1>3. \A p \in 1 .. n : sorted[p].key \in StepKeys
  <2>1. \A p \in 1 .. n : sorted[p] \in StoredStep
    BY <1>1 DEF StoredSteps
  <2> HIDE DEF sorted, n
  <2> QED BY <2>1 DEF StoredStep
<1>4. Back = FromRoutine(sorted)
  BY DEF Back
<1>5. key # Nothing => \E j \in 1 .. n : draft[j].key = key
  BY <1>1, KeyTyped DEF DraftTyped
<1>6. \A j \in 1 .. n : PlaceOf(j) \in 1 .. n /\ sorted[PlaceOf(j)].key = draft[j].key
  BY SortedInput, InputFields, Places
<1> HIDE DEF sorted, n, key
<1>7. DOMAIN Back = 1 .. n /\ \A p \in 1 .. n : Back[p].uid = p /\ Back[p].key = sorted[p].key
  <2>1. ASSUME NEW p \in 1 .. n
        PROVE  DOMAIN Back = 1 .. n /\ Back[p].uid = p /\ Back[p].key = sorted[p].key
    BY <1>1, <1>4, OpenedFields
  <2> QED BY <1>2, <2>1
<1>8. \/ link = Nothing /\ \A q \in 1 .. n : sorted[q].key # key
      \/ link \in 1 .. n /\ sorted[link].key = key
  BY <1>1, <1>2, <1>4, OpenedFields
<1> HIDE DEF link
<1>9. CASE link = Nothing /\ \A q \in 1 .. n : sorted[q].key # key
  <2>1. key = Nothing
    BY <1>5, <1>6, <1>9
  <2>2. \A p \in DOMAIN Back : Back[p].uid # link
    BY <1>1, <1>7, <1>9, DraftsAssumption
  <2> QED BY <2>1, <2>2 DEF KeyNow, key, link
<1>10. CASE link \in 1 .. n /\ sorted[link].key = key
  <2>1. KeyNow(Back, link) = Back[link].key
    BY <1>7, <1>10 DEF KeyNow
  <2> QED BY <1>7, <1>10, <2>1 DEF key, link
<1> QED BY <1>8, <1>9, <1>10

(* The same steps come before it, and the same are above it in its lane.   *)
Earlier(actions, i) == {actions[j].key : j \in {k \in DOMAIN actions : actions[k].step < actions[i].step}}
Above(actions, i) == {actions[j].key : j \in {k \in 1 .. i - 1 : actions[k].step = actions[i].step}}

LEMMA SameEarlier ==
  ASSUME DraftTyped, NEW i \in 1 .. Len(draft)
  PROVE  Earlier(Back, PlaceOf(i)) = Earlier(draft, i)
<1> DEFINE n == Len(draft)
<1>1. DOMAIN draft = 1 .. n /\ DOMAIN Back = 1 .. n
  BY Drafted, BackFields DEF DraftTyped
<1>2. \A j \in 1 .. n :
        /\ PlaceOf(j) \in 1 .. n
        /\ Back[PlaceOf(j)].key = draft[j].key /\ Back[PlaceOf(j)].step = draft[j].step
  BY BackFields
<1>3. \A p \in 1 .. n : \E j \in 1 .. n : PlaceOf(j) = p
  BY Places
<1> HIDE DEF n
<1>4. ASSUME NEW key \in Earlier(draft, i) PROVE key \in Earlier(Back, PlaceOf(i))
  <2>1. PICK j \in 1 .. n : key = draft[j].key /\ draft[j].step < draft[i].step
    BY <1>1 DEF Earlier
  <2> QED BY <1>1, <1>2, <2>1 DEF Earlier, n
<1>5. ASSUME NEW key \in Earlier(Back, PlaceOf(i)) PROVE key \in Earlier(draft, i)
  <2>1. PICK p \in 1 .. n : key = Back[p].key /\ Back[p].step < Back[PlaceOf(i)].step
    BY <1>1 DEF Earlier
  <2>2. PICK j \in 1 .. n : PlaceOf(j) = p
    BY <1>3
  <2> QED BY <1>1, <1>2, <2>1, <2>2 DEF Earlier, n
<1> QED BY <1>4, <1>5

LEMMA SameAbove ==
  ASSUME DraftTyped, NEW i \in 1 .. Len(draft)
  PROVE  Above(Back, PlaceOf(i)) = Above(draft, i)
<1> DEFINE n == Len(draft)
<1>1. n \in Nat /\ i \in 1 .. n /\ PlaceOf(i) \in 1 .. n
  BY Drafted, BackFields DEF DraftTyped
<1>2. \A j \in 1 .. n :
        /\ PlaceOf(j) \in 1 .. n
        /\ Back[PlaceOf(j)].key = draft[j].key /\ Back[PlaceOf(j)].step = draft[j].step
  BY BackFields
<1>3. \A p \in 1 .. n : \E j \in 1 .. n : PlaceOf(j) = p
  BY Places
<1>4. \A j \in 1 .. n : draft[j].step = draft[i].step => (j < i <=> PlaceOf(j) < PlaceOf(i))
  BY Places
<1> HIDE DEF n
<1>5. ASSUME NEW key \in Above(draft, i) PROVE key \in Above(Back, PlaceOf(i))
  <2>1. PICK j \in 1 .. i - 1 : key = draft[j].key /\ draft[j].step = draft[i].step
    BY DEF Above
  <2>2. j \in 1 .. n /\ j < i
    BY <1>1, <2>1
  <2>3. PlaceOf(j) \in 1 .. n /\ PlaceOf(j) < PlaceOf(i)
    BY <1>2, <1>4, <2>1, <2>2
  <2>4. PlaceOf(j) \in 1 .. PlaceOf(i) - 1
    BY <1>1, <2>3
  <2> QED BY <1>1, <1>2, <2>1, <2>2, <2>4 DEF Above
<1>6. ASSUME NEW key \in Above(Back, PlaceOf(i)) PROVE key \in Above(draft, i)
  <2>1. PICK p \in 1 .. PlaceOf(i) - 1 : key = Back[p].key /\ Back[p].step = Back[PlaceOf(i)].step
    BY DEF Above
  <2>2. p \in 1 .. n /\ p < PlaceOf(i)
    BY <1>1, <2>1
  <2>3. PICK j \in 1 .. n : PlaceOf(j) = p
    BY <1>3, <2>2
  <2>4. draft[j].step = draft[i].step /\ key = draft[j].key
    BY <1>1, <1>2, <2>1, <2>3
  <2>5. j \in 1 .. i - 1
    BY <1>1, <1>4, <2>2, <2>3, <2>4
  <2> QED BY <2>4, <2>5 DEF Above
<1> QED BY <1>5, <1>6

(* All a row of the picture shows of an action. *)
Row(actions, i) ==
  [key |-> actions[i].key, type |-> actions[i].type, ref |-> actions[i].ref,
   onlyIf |-> KeyNow(actions, actions[i].runIf), before |-> Earlier(actions, i), above |-> Above(actions, i)]

LEMMA SamePicture == ASSUME DraftTyped PROVE Picture(Back) = Picture(draft)
<1> DEFINE n == Len(draft)
<1>1. Picture(draft) = {Row(draft, i) : i \in 1 .. n}
  <2>1. DOMAIN draft = 1 .. n
    BY Drafted DEF DraftTyped
  <2> QED BY <2>1 DEF Picture, Row, Earlier, Above
<1>2. Picture(Back) = {Row(Back, p) : p \in 1 .. n}
  <2>1. DOMAIN Back = 1 .. n
    BY SortedInput DEF Back, FromRoutine
  <2> QED BY <2>1 DEF Picture, Row, Earlier, Above
<1>3. \A i \in 1 .. n : Row(Back, PlaceOf(i)) = Row(draft, i)
  BY BackFields, SameLink, SameEarlier, SameAbove DEF Row
<1>4. /\ \A i \in 1 .. n : PlaceOf(i) \in 1 .. n
      /\ \A p \in 1 .. n : \E i \in 1 .. n : PlaceOf(i) = p
  BY Places
<1>5. ASSUME NEW row \in Picture(draft) PROVE row \in Picture(Back)
  <2>1. PICK i \in 1 .. n : row = Row(draft, i)
    BY <1>1
  <2> QED BY <1>2, <1>3, <1>4, <2>1
<1>6. ASSUME NEW row \in Picture(Back) PROVE row \in Picture(draft)
  <2>1. PICK p \in 1 .. n : row = Row(Back, p)
    BY <1>2
  <2>2. PICK i \in 1 .. n : PlaceOf(i) = p
    BY <1>4
  <2> QED BY <1>1, <1>3, <2>1, <2>2
<1> QED BY <1>5, <1>6

(* The draft comes back from the service as the user left it. *)
THEOREM DraftSurvivesSaving == DraftsSpec => SavedAsShown
<1>1. ASSUME DraftSound, [DraftsNext]_draftVars
      PROVE  [stored' # stored => Picture(draft') = Picture(draft)]_draftVars
  <2>1. CASE UNCHANGED draftVars
    BY <2>1
  <2>2. CASE DraftsNext /\ UNCHANGED stored
    BY <2>2
  <2>3. CASE SaveDraft
    <3>1. draft' = Back
      BY <2>3 DEF SaveDraft, Back
    <3> QED BY <1>1, <3>1, SamePicture, SoundFields
  <2> QED BY <1>1, <2>1, <2>2, <2>3, OnlySaves
<1> QED BY <1>1, DraftsStart, DraftsStep, PTL DEF DraftsSpec, SavedAsShown

-----------------------------------------------------------------------------
(* Digits: a number in a system of two bases.                              *)

LEMMA Monotone ==
  ASSUME NEW m \in Nat, NEW a \in Nat, NEW b \in Nat, a <= b
  PROVE  m * a <= m * b
<1>1. PICK d \in Nat : b = a + d
  OBVIOUS
<1>2. m * b = m * a + m * d
  BY <1>1
<1>3. m * d \in Nat /\ m * a \in Nat
  OBVIOUS
<1> QED BY <1>2, <1>3

LEMMA Digits ==
  ASSUME NEW m \in Nat \ {0}, NEW t \in Nat
  PROVE  /\ t \div m \in Nat /\ t % m \in 0 .. m - 1
         /\ t = m * (t \div m) + (t % m)
OBVIOUS

LEMMA OneReading ==
  ASSUME NEW m \in Nat \ {0}, NEW a \in Nat, NEW b \in Nat, NEW x \in 0 .. m - 1, NEW y \in 0 .. m - 1,
         m * a + x = m * b + y
  PROVE  a = b /\ x = y
<1>1. ASSUME NEW c \in Nat, NEW d \in Nat, NEW u \in 0 .. m - 1, NEW v \in 0 .. m - 1, c < d
      PROVE  m * c + u < m * d + v
  <2>1. m * (c + 1) <= m * d
    BY <1>1, Monotone
  <2>2. m * (c + 1) = m * c + m
    OBVIOUS
  <2>3. m * c \in Nat /\ m * d \in Nat
    OBVIOUS
  <2> QED BY <2>1, <2>2, <2>3
<1>2. ~(a < b) /\ ~(b < a)
  <2>1. a < b => m * a + x < m * b + y
    BY <1>1
  <2>2. b < a => m * b + y < m * a + x
    BY <1>1
  <2>3. m * a + x \in Nat
    OBVIOUS
  <2> QED BY <2>1, <2>2, <2>3
<1> QED BY <1>2

LEMMA Reading ==
  ASSUME NEW m \in Nat \ {0}, NEW a \in Nat, NEW x \in 0 .. m - 1
  PROVE  /\ m * a + x \in Nat
         /\ (m * a + x) \div m = a /\ (m * a + x) % m = x
<1>1. m * a + x \in Nat
  OBVIOUS
<1>2. PICK t \in Nat : t = m * a + x
  BY <1>1
<1>3. PICK b \in Nat : b = t \div m
  BY <1>2, Digits
<1>4. PICK y \in 0 .. m - 1 : y = t % m
  BY <1>2, Digits
<1>5. t = m * b + y
  BY <1>2, <1>3, <1>4, Digits
<1>6. a = b /\ x = y
  BY <1>2, <1>5, OneReading
<1> QED BY <1>2, <1>3, <1>4, <1>6

(* The lower digit of the upper one. *)
LEMMA TwoDigits ==
  ASSUME NEW m \in Nat \ {0}, NEW n \in Nat \ {0}, NEW t \in Nat
  PROVE  /\ t % (m * n) = m * ((t \div m) % n) + (t % m)
         /\ t \div (m * n) = (t \div m) \div n
         /\ m * n \in Nat \ {0}
<1>1. PICK w \in Nat, r \in 0 .. m - 1 : w = t \div m /\ r = t % m /\ t = m * w + r
  BY Digits
<1>2. PICK q \in Nat, v \in 0 .. n - 1 : q = w \div n /\ v = w % n /\ w = n * q + v
  BY Digits
<1>3. PICK p \in Nat \ {0} : p = m * n
  OBVIOUS
<1>4. PICK x : x = m * v + r
  OBVIOUS
<1>5. x \in 0 .. p - 1
  <2>1. m * v <= m * (n - 1)
    BY <1>2, Monotone
  <2>2. m * (n - 1) = p - m
    BY <1>3
  <2>3. m * v \in Nat
    BY <1>2
  <2> QED BY <2>1, <2>2, <2>3, <1>1, <1>3, <1>4
<1>6. t = p * q + x
  <2>1. m * w = m * (n * q + v)
    BY <1>2
  <2>2. m * (n * q + v) = (m * n) * q + m * v
    BY <1>2
  <2>3. m * v \in Nat /\ (m * n) * q \in Nat
    BY <1>2
  <2> QED BY <2>1, <2>2, <2>3, <1>1, <1>3, <1>4
<1>7. t % p = x /\ t \div p = q
  BY <1>2, <1>3, <1>5, <1>6, Reading
<1> QED BY <1>1, <1>2, <1>3, <1>4, <1>7

LEMMA Below ==
  ASSUME NEW m \in Nat \ {0}, NEW n \in Nat \ {0}, NEW t \in Nat
  PROVE  t < m * n <=> t \div m < n
<1>1. t \div m \in Nat /\ t % m \in 0 .. m - 1 /\ t = m * (t \div m) + (t % m)
  BY Digits
<1>2. m * n \in Nat /\ m * (t \div m) \in Nat
  BY <1>1
<1>3. ASSUME t \div m < n PROVE t < m * n
  <2>1. m * (t \div m + 1) <= m * n
    BY <1>1, <1>3, Monotone
  <2>2. m * (t \div m + 1) = m * (t \div m) + m
    BY <1>1
  <2> QED BY <1>1, <1>2, <2>1, <2>2
<1>4. ASSUME ~(t \div m < n) PROVE ~(t < m * n)
  <2>1. m * n <= m * (t \div m)
    BY <1>1, <1>4, Monotone
  <2> QED BY <1>1, <1>2, <2>1
<1> QED BY <1>3, <1>4

(* A period that divides another. *)
LEMMA Divides ==
  ASSUME NEW n \in Nat \ {0}, NEW k \in Nat \ {0}, NEW t \in Nat
  PROVE  (t % (n * k)) % n = t % n
<1>1. PICK a \in Nat : a = (t \div n) % k
  BY Digits
<1>2. PICK r \in 0 .. n - 1 : r = t % n
  BY Digits
<1>3. t % (n * k) = n * a + r
  BY <1>1, <1>2, TwoDigits
<1>4. (n * a + r) % n = r
  BY Reading
<1> QED BY <1>2, <1>3, <1>4, Zenon

-----------------------------------------------------------------------------
(* Sets of values.                                                         *)

LEMMA LowestOf ==
  ASSUME NEW V \in SUBSET Nat, V # {}
  PROVE  Lowest(V) \in V /\ \A w \in V : Lowest(V) <= w
<1>1. PICK v \in V : \A w \in V : ~ (<<w, v>> \in OpToRel(<, Nat))
  BY NatLessThanWellFounded, WFMin
<1>2. \A w \in Nat : w < v => <<w, v>> \in OpToRel(<, Nat)
  BY <1>1, Zenon DEF OpToRel
<1>3. ASSUME NEW w \in V PROVE v <= w
  <2>1. ~(w < v)
    BY <1>1, <1>2
  <2>2. v \in Nat /\ w \in Nat
    OBVIOUS
  <2> QED BY <2>1, <2>2
<1>4. \E u \in V : \A w \in V : u <= w
  BY <1>3
<1> QED BY <1>4, Zenon DEF Lowest

LEMMA Counting ==
  ASSUME NEW range \in Nat \ {0}, NEW values \in SUBSET (0 .. range - 1), values # {}
  PROVE  /\ IsFiniteSet(values) /\ Cardinality(values) \in Nat \ {0}
         /\ Every(values, range) => values = 0 .. range - 1
         /\ ~(Cardinality(values) > 1) => values = {Lowest(values)}
<1>1. IsFiniteSet(0 .. range - 1) /\ Cardinality(0 .. range - 1) = range
  <2>1. Cardinality(0 .. range - 1) = IF 0 > range - 1 THEN 0 ELSE (range - 1) - 0 + 1
    BY FS_Interval
  <2> QED BY <2>1, FS_Interval
<1>2. IsFiniteSet(values) /\ (Cardinality(0 .. range - 1) = Cardinality(values) => 0 .. range - 1 = values)
  BY <1>1, FS_Subset
<1>3. Cardinality(values) \in Nat /\ Cardinality(values) # 0
  BY <1>2, FS_CardinalityType, FS_EmptySet
<1>4. ASSUME ~(Cardinality(values) > 1) PROVE values = {Lowest(values)}
  <2>1. Cardinality(values) = 1
    BY <1>3, <1>4
  <2>2. PICK v : values = {v}
    BY <1>2, <2>1, FS_Singleton
  <2>3. v \in values
    BY <2>2
  <2>4. values \in SUBSET Nat
    OBVIOUS
  <2> QED BY <2>2, <2>4, LowestOf
<1> QED BY <1>1, <1>2, <1>3, <1>4 DEF Every

(* Values in even steps are those with one remainder. *)
LEMMA Grid ==
  ASSUME NEW range \in Nat \ {0}, NEW values \in SUBSET (0 .. range - 1), values # {},
         StepOf(values, range) # 0
  PROVE  LET n == StepOf(values, range) IN
         /\ n \in Nat \ {0} /\ \E k \in Nat \ {0} : range = n * k
         /\ Lowest(values) \in 0 .. n - 1
         /\ \A v \in 0 .. range - 1 : v \in values <=> v % n = Lowest(values)
<1>1. PICK c \in Nat \ {0} : c = Cardinality(values)
  BY Counting
<1>2. PICK n \in Nat : n = range \div c
  BY Digits
<1>3. PICK low \in Nat : low = Lowest(values)
  <2>1. values \in SUBSET Nat
    OBVIOUS
  <2> QED BY <2>1, LowestOf
<1>4. /\ StepOf(values, range) = n /\ n # 0
      /\ range % c = 0 /\ low < n
      /\ values = {low + i * n : i \in 0 .. c - 1}
  BY <1>1, <1>2, <1>3 DEF StepOf
<1>5. range = n * c
  <2>1. range = c * n + 0
    BY <1>2, <1>4, Digits
  <2> QED BY <2>1
<1>6. ASSUME NEW v \in values PROVE v % n = low
  <2>1. PICK i \in 0 .. c - 1 : v = low + i * n
    BY <1>4
  <2>2. v = n * i + low /\ i \in Nat /\ low \in 0 .. n - 1
    BY <2>1, <1>4
  <2> QED BY <2>2, <1>4, Reading
<1>7. ASSUME NEW v \in 0 .. range - 1, v % n = low PROVE v \in values
  <2> v \in Nat
    OBVIOUS
  <2>1. PICK i \in Nat : i = v \div n
    BY <1>4, Digits
  <2>2. v = n * i + low
    BY <1>4, <1>7, <2>1, Digits
  <2>3. i < c
    BY <1>4, <1>5, <2>1, Below
  <2>4. i \in 0 .. c - 1 /\ v = low + i * n
    BY <2>2, <2>3
  <2> QED BY <1>4, <2>4
<1>8. \A v \in 0 .. range - 1 : v \in values <=> v % n = low
  BY <1>6, <1>7
<1>9. low \in 0 .. n - 1 /\ n \in Nat \ {0}
  BY <1>4
<1>10. \E k \in Nat \ {0} : range = n * k
  BY <1>5
<1> QED BY <1>3, <1>4, <1>8, <1>9, <1>10

-----------------------------------------------------------------------------
(* The times of a day.                                                     *)

Second(t) == t % MinuteTicks
Minute(t) == (t \div MinuteTicks) % HourMinutes
Hour(t) == t \div HourTicks
Day == 0 .. DayTicks - 1

LEMMA Calendar ==
  /\ MinuteTicks \in Nat \ {0} /\ HourMinutes \in Nat \ {0} /\ DayHours \in Nat \ {0} /\ WeekDays \in Nat \ {0}
  /\ HourTicks = MinuteTicks * HourMinutes /\ HourTicks \in Nat \ {0}
  /\ DayTicks = HourTicks * DayHours /\ DayTicks \in Nat \ {0}
<1>1. MinuteTicks \in Nat \ {0} /\ HourMinutes \in Nat \ {0} /\ DayHours \in Nat \ {0} /\ WeekDays \in Nat \ {0}
  BY CalendarAssumption
<1>2. HourTicks = MinuteTicks * HourMinutes /\ HourTicks \in Nat \ {0}
  BY <1>1, TwoDigits DEF HourTicks
<1>3. DayTicks = HourTicks * DayHours /\ DayTicks \in Nat \ {0}
  BY <1>1, <1>2, TwoDigits DEF DayTicks
<1> QED BY <1>1, <1>2, <1>3

LEMMA TimeOfDay ==
  ASSUME NEW t \in Day
  PROVE  /\ Second(t) \in 0 .. MinuteTicks - 1 /\ Minute(t) \in 0 .. HourMinutes - 1
         /\ Hour(t) \in 0 .. DayHours - 1 /\ t % HourTicks \in 0 .. HourTicks - 1
         /\ t % HourTicks = MinuteTicks * Minute(t) + Second(t)
         /\ t = HourTicks * Hour(t) + (t % HourTicks)
<1> USE Calendar
<1>1. t \in Nat /\ t < DayTicks
  BY DEF Day
<1>2. t \div MinuteTicks \in Nat
  BY <1>1, Digits
<1>3. Second(t) \in 0 .. MinuteTicks - 1 /\ Minute(t) \in 0 .. HourMinutes - 1
  BY <1>1, <1>2, Digits DEF Second, Minute
<1>4. t % HourTicks = MinuteTicks * Minute(t) + Second(t)
  BY <1>1, TwoDigits DEF Second, Minute
<1>5. t % HourTicks \in 0 .. HourTicks - 1 /\ t = HourTicks * Hour(t) + (t % HourTicks) /\ Hour(t) \in Nat
  BY <1>1, Digits DEF Hour
<1>6. Hour(t) < DayHours
  BY <1>1, Below DEF Hour
<1> QED BY <1>3, <1>4, <1>5, <1>6

LEMMA FiresAt ==
  ASSUME NEW c, NEW day \in 0 .. WeekDays - 1, NEW t \in Day
  PROVE  Fires(c, day * DayTicks + t) <=>
           /\ Second(t) \in Values(c.second, MinuteTicks)
           /\ Minute(t) \in Values(c.minute, HourMinutes)
           /\ Hour(t) \in Values(c.hour, DayHours)
           /\ day \in Values(c.days, WeekDays)
<1> USE Calendar
<1>1. t \in Nat /\ t \in 0 .. DayTicks - 1 /\ day \in Nat
  BY DEF Day
<1>2. PICK now \in Nat : now = day * DayTicks + t /\ now = DayTicks * day + t
  BY <1>1
<1>3. now \div DayTicks = day /\ now % DayTicks = t
  BY <1>1, <1>2, Reading
<1>4. PICK h \in 0 .. DayHours - 1 : h = (now \div HourTicks) % DayHours
  <2>1. now \div HourTicks \in Nat
    BY Digits
  <2> QED BY <2>1, Digits
<1>5. PICK x \in 0 .. HourTicks - 1 : x = now % HourTicks
  BY Digits
<1>6. t = HourTicks * h + x
  <2> now \in Nat /\ HourTicks \in Nat \ {0} /\ DayHours \in Nat \ {0}
    OBVIOUS
  <2> HIDE Calendar
  <2>1. now % (HourTicks * DayHours) = HourTicks * ((now \div HourTicks) % DayHours) + (now % HourTicks)
    BY TwoDigits
  <2> USE Calendar
  <2> QED BY <1>3, <1>4, <1>5, <2>1
<1>7. h = Hour(t) /\ x = t % HourTicks
  BY <1>6, Reading DEF Hour
<1>8. PICK m \in 0 .. HourMinutes - 1 : m = (now \div MinuteTicks) % HourMinutes
  <2>1. now \div MinuteTicks \in Nat
    BY Digits
  <2> QED BY <2>1, Digits
<1>9. PICK s \in 0 .. MinuteTicks - 1 : s = now % MinuteTicks
  BY Digits
<1>10. x = MinuteTicks * m + s
  <2>1. now % (MinuteTicks * HourMinutes) = MinuteTicks * ((now \div MinuteTicks) % HourMinutes) + (now % MinuteTicks)
    BY TwoDigits, Zenon
  <2> QED BY <1>5, <1>8, <1>9, <2>1
<1>11. m = Minute(t) /\ s = Second(t)
  <2>1. PICK n \in 0 .. HourMinutes - 1, u \in 0 .. MinuteTicks - 1 :
          n = Minute(t) /\ u = Second(t) /\ t % HourTicks = MinuteTicks * n + u
    BY TimeOfDay
  <2>2. MinuteTicks * m + s = MinuteTicks * n + u
    BY <1>7, <1>10, <2>1
  <2> QED BY <2>1, <2>2, OneReading
<1>12. day % WeekDays = day
  <2>1. day = WeekDays * 0 + day
    BY <1>1
  <2> QED BY <2>1, Reading
<1> QED BY <1>2, <1>3, <1>4, <1>7, <1>8, <1>9, <1>11, <1>12 DEF Fires

-----------------------------------------------------------------------------
(* The phrases, one by one. *)

FiringTimes(seconds, minutes, hours) ==
  {t \in Day : Second(t) \in seconds /\ Minute(t) \in minutes /\ Hour(t) \in hours}
Says(phrase, times) ==
  CASE phrase = Silence -> TRUE
    [] phrase[1] = "every" -> \E r \in 0 .. phrase[2] - 1 : times = Evenly(phrase[2], r)
    [] phrase[1] = "past" -> \E r \in 0 .. phrase[2] - 1 :
                               r % HourTicks = phrase[3] /\ times = Evenly(phrase[2], r)
    [] phrase[1] = "at" -> times = phrase[2]

LEMMA SaysNothing == ASSUME NEW times PROVE Says(Silence, times)
<1>1. Silence = <<"silence">> /\ Silence[1] = "silence"
  BY DEF Silence
<1>2. Silence[1] # "every" /\ Silence[1] # "past" /\ Silence[1] # "at"
  BY <1>1
<1> HIDE DEF Silence
<1> QED BY <1>2 DEF Says

LEMMA SaysEvery ==
  ASSUME NEW n, NEW r \in 0 .. n - 1, NEW times, times = Evenly(n, r)
  PROVE  Says(<<"every", n>>, times)
<1> DEFINE phrase == <<"every", n>>
<1>1. phrase[1] = "every" /\ phrase[2] = n /\ phrase # Silence
  BY DEF Silence
<1> QED BY <1>1 DEF Says

LEMMA SaysPast ==
  ASSUME NEW n, NEW r \in 0 .. n - 1, NEW mark, NEW times, times = Evenly(n, r), r % HourTicks = mark
  PROVE  Says(<<"past", n, mark>>, times)
<1> DEFINE phrase == <<"past", n, mark>>
<1>1. phrase[1] = "past" /\ phrase[2] = n /\ phrase[3] = mark /\ phrase # Silence
  BY DEF Silence
<1> QED BY <1>1 DEF Says

LEMMA SaysAt ==
  ASSUME NEW times
  PROVE  Says(<<"at", times>>, times)
<1> DEFINE phrase == <<"at", times>>
<1>1. phrase[1] = "at" /\ phrase[2] = times /\ phrase # Silence
  BY DEF Silence
<1> QED BY <1>1 DEF Says

AllMinutes == 0 .. HourMinutes - 1
AllHours == 0 .. DayHours - 1

LEMMA EverySecond == FiringTimes(0 .. MinuteTicks - 1, AllMinutes, AllHours) = Evenly(1, 0)
<1>1. ASSUME NEW t \in Day PROVE t % 1 = 0
  BY Calendar DEF Day
<1> QED BY <1>1, TimeOfDay DEF FiringTimes, Evenly, AllMinutes, AllHours, Day

LEMMA SecondsInSteps ==
  ASSUME NEW seconds \in SUBSET (0 .. MinuteTicks - 1), seconds # {}, StepOf(seconds, MinuteTicks) # 0
  PROVE  FiringTimes(seconds, AllMinutes, AllHours) = Evenly(StepOf(seconds, MinuteTicks), Lowest(seconds))
<1> DEFINE n == StepOf(seconds, MinuteTicks)
<1>1. n \in Nat \ {0} /\ \E k \in Nat \ {0} : MinuteTicks = n * k
  BY Calendar, Grid
<1>2. \A v \in 0 .. MinuteTicks - 1 : v \in seconds <=> v % n = Lowest(seconds)
  BY Calendar, Grid
<1>3. ASSUME NEW t \in Day PROVE Second(t) \in seconds <=> t % n = Lowest(seconds)
  <2>1. PICK k \in Nat \ {0} : MinuteTicks = n * k
    BY <1>1
  <2>2. t \in Nat
    BY Calendar DEF Day
  <2>3. Second(t) % n = t % n
    BY <1>1, <2>1, <2>2, Divides DEF Second
  <2> QED BY <1>2, <2>3, TimeOfDay
<1> QED BY <1>3, TimeOfDay DEF FiringTimes, Evenly, AllMinutes, AllHours, Day

LEMMA EveryMinute ==
  ASSUME NEW s
  PROVE  FiringTimes({s}, AllMinutes, AllHours) = Evenly(MinuteTicks, s)
BY TimeOfDay DEF FiringTimes, Evenly, AllMinutes, AllHours, Second, Day

LEMMA MinutesInSteps ==
  ASSUME NEW s \in 0 .. MinuteTicks - 1, NEW minutes \in SUBSET AllMinutes, minutes # {},
         StepOf(minutes, HourMinutes) # 0
  PROVE  LET n == StepOf(minutes, HourMinutes) * MinuteTicks
             r == MinuteTicks * Lowest(minutes) + s
         IN r \in 0 .. n - 1 /\ FiringTimes({s}, minutes, AllHours) = Evenly(n, r)
<1> DEFINE size == StepOf(minutes, HourMinutes)
           low == Lowest(minutes)
<1> USE Calendar
<1>1. /\ size \in Nat \ {0} /\ \E k \in Nat \ {0} : HourMinutes = size * k
      /\ low \in 0 .. size - 1
      /\ \A v \in AllMinutes : v \in minutes <=> v % size = low
  BY Grid DEF AllMinutes
<1> HIDE DEF size, low
<1>2. PICK n \in Nat \ {0} : n = size * MinuteTicks /\ n = MinuteTicks * size
  BY <1>1
<1>3. PICK r \in Nat : r = MinuteTicks * low + s
  BY <1>1
<1>4. r < n
  <2>1. r \div MinuteTicks = low
    BY <1>1, <1>3, Reading
  <2> QED BY <1>1, <1>2, <2>1, Below
<1>5. ASSUME NEW t \in Day PROVE t % n = r <=> Second(t) = s /\ Minute(t) \in minutes
  <2> t \in Nat
    BY DEF Day
  <2>1. PICK w \in Nat : w = t \div MinuteTicks
    BY Digits
  <2>2. PICK k \in Nat \ {0} : HourMinutes = size * k
    BY <1>1
  <2>3. PICK m \in 0 .. size - 1 : m = w % size
    BY <1>1, Digits
  <2>4. Minute(t) % size = m
    <3>1. (w % (size * k)) % size = w % size
      BY <1>1, Divides
    <3> QED BY <2>1, <2>2, <2>3, <3>1 DEF Minute
  <2>5. PICK u \in 0 .. MinuteTicks - 1 : u = Second(t)
    BY TimeOfDay
  <2>6. t % n = MinuteTicks * m + u
    <3>1. t % (MinuteTicks * size) = MinuteTicks * ((t \div MinuteTicks) % size) + (t % MinuteTicks)
      BY <1>1, TwoDigits, Zenon
    <3> QED BY <1>2, <2>1, <2>3, <2>5, <3>1 DEF Second
  <2>7. Minute(t) \in minutes <=> m = low
    BY <1>1, <2>4, TimeOfDay DEF AllMinutes
  <2>8. MinuteTicks * m + u = MinuteTicks * low + s => m = low /\ u = s
    BY <1>1, OneReading
  <2> QED BY <1>3, <2>5, <2>6, <2>7, <2>8
<1>6. FiringTimes({s}, minutes, AllHours) = Evenly(n, r)
  BY <1>5, TimeOfDay DEF FiringTimes, Evenly, AllHours, Day
<1> QED BY <1>2, <1>3, <1>4, <1>6 DEF size, low

LEMMA Mark ==
  ASSUME NEW s \in 0 .. MinuteTicks - 1, NEW m \in AllMinutes
  PROVE  /\ m * MinuteTicks + s \in 0 .. HourTicks - 1
         /\ \A t \in Day : t % HourTicks = m * MinuteTicks + s <=> Second(t) = s /\ Minute(t) = m
<1> USE Calendar DEF AllMinutes
<1>1. PICK mark \in Nat : mark = MinuteTicks * m + s /\ mark = m * MinuteTicks + s
  OBVIOUS
<1>2. mark < HourTicks
  <2>1. mark \div MinuteTicks = m
    BY <1>1, Reading
  <2> QED BY <1>1, <2>1, Below
<1>3. ASSUME NEW t \in Day PROVE t % HourTicks = mark <=> Second(t) = s /\ Minute(t) = m
  <2>1. PICK n \in AllMinutes, u \in 0 .. MinuteTicks - 1 :
          n = Minute(t) /\ u = Second(t) /\ t % HourTicks = MinuteTicks * n + u
    BY TimeOfDay
  <2>2. MinuteTicks * n + u = MinuteTicks * m + s => n = m /\ u = s
    BY OneReading
  <2> QED BY <1>1, <2>1, <2>2
<1> QED BY <1>1, <1>2, <1>3

LEMMA OncePerHour ==
  ASSUME NEW s \in 0 .. MinuteTicks - 1, NEW m \in AllMinutes
  PROVE  FiringTimes({s}, {m}, AllHours) = Evenly(HourTicks, m * MinuteTicks + s)
BY Mark, TimeOfDay DEF FiringTimes, Evenly, AllHours, Day

LEMMA HoursInSteps ==
  ASSUME NEW s \in 0 .. MinuteTicks - 1, NEW m \in AllMinutes, NEW hours \in SUBSET AllHours, hours # {},
         StepOf(hours, DayHours) # 0
  PROVE  LET n == StepOf(hours, DayHours) * HourTicks
             mark == m * MinuteTicks + s
             r == HourTicks * Lowest(hours) + mark
         IN /\ r \in 0 .. n - 1 /\ r % HourTicks = mark
            /\ FiringTimes({s}, {m}, hours) = Evenly(n, r)
<1> DEFINE size == StepOf(hours, DayHours)
           low == Lowest(hours)
<1> USE Calendar
<1>1. /\ size \in Nat \ {0} /\ \E k \in Nat \ {0} : DayHours = size * k
      /\ low \in 0 .. size - 1
      /\ \A v \in AllHours : v \in hours <=> v % size = low
  BY Grid DEF AllHours
<1> HIDE DEF size, low
<1>2. PICK n \in Nat \ {0} : n = size * HourTicks /\ n = HourTicks * size
  BY <1>1
<1>3. PICK mark \in 0 .. HourTicks - 1 : mark = m * MinuteTicks + s
  BY Mark
<1>4. PICK r \in Nat : r = HourTicks * low + mark
  BY <1>1
<1>5. r \div HourTicks = low /\ r % HourTicks = mark
  BY <1>1, <1>4, Reading
<1>6. r < n
  BY <1>1, <1>2, <1>5, Below
<1>7. ASSUME NEW t \in Day PROVE t % n = r <=> t % HourTicks = mark /\ Hour(t) \in hours
  <2>1. t \in Nat
    BY DEF Day
  <2>2. PICK h \in 0 .. size - 1 : h = Hour(t) % size
    BY <1>1, TimeOfDay, Digits
  <2>3. PICK u \in 0 .. HourTicks - 1 : u = t % HourTicks
    BY TimeOfDay
  <2>4. t % n = HourTicks * h + u
    BY <1>1, <1>2, <2>1, <2>2, <2>3, TwoDigits DEF Hour
  <2>5. Hour(t) \in hours <=> h = low
    BY <1>1, <2>2, TimeOfDay DEF AllHours
  <2>6. HourTicks * h + u = HourTicks * low + mark => h = low /\ u = mark
    BY <1>1, OneReading
  <2> QED BY <1>4, <2>3, <2>4, <2>5, <2>6
<1>8. FiringTimes({s}, {m}, hours) = Evenly(n, r)
  BY <1>3, <1>7, Mark DEF FiringTimes, Evenly, Day
<1> QED BY <1>2, <1>3, <1>4, <1>5, <1>6, <1>8 DEF size, low

LEMMA AtHours ==
  ASSUME NEW s \in 0 .. MinuteTicks - 1, NEW m \in AllMinutes, NEW hours \in SUBSET AllHours
  PROVE  FiringTimes({s}, {m}, hours) = {h * HourTicks + (m * MinuteTicks + s) : h \in hours}
<1> USE Calendar DEF AllHours
<1>1. PICK mark \in 0 .. HourTicks - 1 : mark = m * MinuteTicks + s
  BY Mark
<1>2. ASSUME NEW t \in FiringTimes({s}, {m}, hours) PROVE \E h \in hours : t = h * HourTicks + mark
  <2>1. t \in Day /\ Second(t) = s /\ Minute(t) = m /\ Hour(t) \in hours
    BY DEF FiringTimes
  <2>2. t % HourTicks = mark
    BY <1>1, <2>1, Mark
  <2>3. PICK h \in hours : h = Hour(t)
    BY <2>1
  <2>4. t = HourTicks * h + mark
    BY <2>1, <2>2, <2>3, TimeOfDay
  <2>5. t = h * HourTicks + mark
    BY <2>4
  <2> QED BY <2>5
<1>3. ASSUME NEW h \in hours PROVE h * HourTicks + mark \in FiringTimes({s}, {m}, hours)
  <2>1. PICK t \in Nat : t = h * HourTicks + mark /\ t = HourTicks * h + mark
    OBVIOUS
  <2>2. t \div HourTicks = h /\ t % HourTicks = mark
    BY <2>1, Reading
  <2>3. t < DayTicks
    BY <2>2, Below
  <2>4. t \in Day /\ Hour(t) = h
    BY <2>2, <2>3 DEF Day, Hour
  <2> QED BY <1>1, <2>1, <2>2, <2>4, Mark DEF FiringTimes
<1> QED BY <1>1, <1>2, <1>3

(* describeTime: whatever it says is so. *)
LEMMA Describes ==
  ASSUME NEW seconds \in SUBSET (0 .. MinuteTicks - 1), seconds # {},
         NEW minutes \in SUBSET AllMinutes, minutes # {},
         NEW hours \in SUBSET AllHours, hours # {}
  PROVE  Says(DescribeTime(seconds, minutes, hours), FiringTimes(seconds, minutes, hours))
<1> DEFINE phrase == DescribeTime(seconds, minutes, hours)
           times == FiringTimes(seconds, minutes, hours)
           s == Lowest(seconds)
           m == Lowest(minutes)
           mark == m * MinuteTicks + s
           size == StepOf(minutes, HourMinutes)
           stride == StepOf(hours, DayHours)
<1> USE Calendar
<1>1. /\ Every(seconds, MinuteTicks) => seconds = 0 .. MinuteTicks - 1
      /\ ~(Cardinality(seconds) > 1) => seconds = {s}
      /\ s \in 0 .. MinuteTicks - 1
  <2>1. seconds \in SUBSET Nat
    OBVIOUS
  <2> QED BY <2>1, Counting, LowestOf
<1>2. /\ Every(minutes, HourMinutes) => minutes = AllMinutes
      /\ Cardinality(minutes) = 1 => minutes = {m}
      /\ m \in AllMinutes
  <2>1. minutes \in SUBSET Nat
    BY DEF AllMinutes
  <2>2. Every(minutes, HourMinutes) => minutes = AllMinutes
    BY Counting DEF AllMinutes
  <2>3. ~(Cardinality(minutes) > 1) => minutes = {m}
    BY Counting DEF AllMinutes
  <2>4. m \in AllMinutes
    BY <2>1, LowestOf
  <2> QED BY <2>2, <2>3, <2>4
<1>3. Every(hours, DayHours) => hours = AllHours
  BY Counting DEF AllHours
<1>4. Says(Silence, times)
  BY SaysNothing
<1>5. CASE Cardinality(seconds) > 1
  <2>1. CASE ~(Every(minutes, HourMinutes) /\ Every(hours, DayHours))
    <3>1. phrase = Silence
      BY <1>5, <2>1 DEF DescribeTime
    <3> QED BY <1>4, <3>1
  <2>2. CASE Every(minutes, HourMinutes) /\ Every(hours, DayHours) /\ Every(seconds, MinuteTicks)
    <3>1. phrase = <<"every", 1>>
      BY <1>5, <2>2 DEF DescribeTime
    <3>2. times = Evenly(1, 0)
      BY <1>1, <1>2, <1>3, <2>2, EverySecond
    <3>3. 0 \in 0 .. 1 - 1
      OBVIOUS
    <3> QED BY <3>1, <3>2, <3>3, SaysEvery
  <2>3. CASE /\ Every(minutes, HourMinutes) /\ Every(hours, DayHours) /\ ~Every(seconds, MinuteTicks)
             /\ StepOf(seconds, MinuteTicks) # 0
    <3>1. phrase = <<"every", StepOf(seconds, MinuteTicks)>>
      BY <1>5, <2>3 DEF DescribeTime
    <3>2. times = Evenly(StepOf(seconds, MinuteTicks), s)
      BY <1>2, <1>3, <2>3, SecondsInSteps
    <3>3. s \in 0 .. StepOf(seconds, MinuteTicks) - 1
      BY <2>3, Grid
    <3> QED BY <3>1, <3>2, <3>3, SaysEvery
  <2>4. CASE /\ Every(minutes, HourMinutes) /\ Every(hours, DayHours) /\ ~Every(seconds, MinuteTicks)
             /\ StepOf(seconds, MinuteTicks) = 0
    <3>1. phrase = Silence
      BY <1>5, <2>4 DEF DescribeTime
    <3> QED BY <1>4, <3>1
  <2> QED BY <2>1, <2>2, <2>3, <2>4
<1>6. CASE ~(Cardinality(seconds) > 1) /\ Every(minutes, HourMinutes)
  <2>1. CASE Every(hours, DayHours)
    <3>1. phrase = <<"every", MinuteTicks>>
      BY <1>6, <2>1 DEF DescribeTime
    <3>2. times = Evenly(MinuteTicks, s)
      BY <1>1, <1>2, <1>3, <1>6, <2>1, EveryMinute
    <3> QED BY <1>1, <3>1, <3>2, SaysEvery
  <2>2. CASE ~Every(hours, DayHours)
    <3>1. phrase = Silence
      BY <1>6, <2>2 DEF DescribeTime
    <3> QED BY <1>4, <3>1
  <2> QED BY <2>1, <2>2
<1>7. CASE ~(Cardinality(seconds) > 1) /\ ~Every(minutes, HourMinutes)
  <2>1. CASE size # 0 /\ Every(hours, DayHours)
    <3>1. phrase = <<"every", size * MinuteTicks>>
      BY <1>7, <2>1 DEF DescribeTime
    <3> DEFINE r == MinuteTicks * m + s
               n == size * MinuteTicks
    <3>2. r \in 0 .. n - 1 /\ times = Evenly(n, r)
      BY <1>1, <1>3, <1>7, <2>1, MinutesInSteps
    <3> QED BY <3>1, <3>2, SaysEvery
  <2>2. CASE ~(size # 0 /\ Every(hours, DayHours)) /\ Cardinality(minutes) # 1
    <3>1. phrase = Silence
      BY <1>7, <2>2 DEF DescribeTime
    <3> QED BY <1>4, <3>1
  <2>3. CASE ~(size # 0 /\ Every(hours, DayHours)) /\ Cardinality(minutes) = 1
    <3>1. seconds = {s} /\ minutes = {m}
      BY <1>1, <1>2, <1>7, <2>3
    <3>2. mark \in 0 .. HourTicks - 1
      BY <1>1, <1>2, Mark
    <3>3. CASE Every(hours, DayHours)
      <4>1. phrase = <<"past", HourTicks, mark>>
        BY <1>7, <2>3, <3>3 DEF DescribeTime
      <4>2. times = Evenly(HourTicks, mark)
        BY <1>1, <1>2, <1>3, <3>1, <3>3, OncePerHour
      <4>3. mark % HourTicks = mark
        <5>1. mark = HourTicks * 0 + mark
          BY <3>2
        <5> QED BY <3>2, <5>1, Reading
      <4> QED BY <3>2, <4>1, <4>2, <4>3, SaysPast
    <3>4. CASE ~Every(hours, DayHours) /\ stride # 0
      <4>1. phrase = <<"past", stride * HourTicks, mark>>
        BY <1>7, <2>3, <3>4 DEF DescribeTime
      <4> DEFINE n == stride * HourTicks
      <4>2. PICK x \in 0 .. MinuteTicks - 1, y \in AllMinutes : x = s /\ y = m
        BY <1>1, <1>2
      <4> DEFINE lowest == HourTicks * Lowest(hours) + (y * MinuteTicks + x)
      <4>3. /\ lowest \in 0 .. n - 1 /\ lowest % HourTicks = y * MinuteTicks + x
            /\ FiringTimes({x}, {y}, hours) = Evenly(n, lowest)
        BY <3>4, HoursInSteps
      <4>4. lowest % HourTicks = mark /\ times = Evenly(n, lowest)
        BY <3>1, <4>2, <4>3
      <4> HIDE DEF n, lowest, mark, times, phrase
      <4>5. Says(<<"past", n, mark>>, times)
        BY <4>3, <4>4, SaysPast
      <4>6. phrase = <<"past", n, mark>>
        BY <4>1 DEF n
      <4>7. Says(phrase, times)
        BY <4>5, <4>6, Zenon
      <4> QED BY <4>7 DEF phrase, times
    <3>5. CASE ~Every(hours, DayHours) /\ stride = 0 /\ Cardinality(hours) <= 3
      <4>1. phrase = <<"at", {h * HourTicks + mark : h \in hours}>>
        BY <1>7, <2>3, <3>5 DEF DescribeTime
      <4>2. times = {h * HourTicks + mark : h \in hours}
        BY <1>1, <1>2, <3>1, AtHours
      <4> QED BY <4>1, <4>2, SaysAt
    <3>6. CASE ~Every(hours, DayHours) /\ stride = 0 /\ ~(Cardinality(hours) <= 3)
      <4>1. phrase = Silence
        BY <1>7, <2>3, <3>6 DEF DescribeTime
      <4> QED BY <1>4, <4>1
    <3> QED BY <3>3, <3>4, <3>5, <3>6
  <2> QED BY <2>1, <2>2, <2>3
<1> QED BY <1>5, <1>6, <1>7

-----------------------------------------------------------------------------
(* The expressions the page has. *)

LEMMA FormFields ==
  ASSUME NEW D, NEW s \in Forms(D)
  PROVE  /\ \A x \in Frequencies : [s EXCEPT !.frequency = x] \in Forms(D)
         /\ \A x \in AllMinutes : [s EXCEPT !.minute = x] \in Forms(D)
         /\ \A x \in AllHours : [s EXCEPT !.hour = x] \in Forms(D)
         /\ \A x : [s EXCEPT !.days = x] \in Forms({x})
         /\ \A x \in Nat \ {0} : [s EXCEPT !.every = x] \in Forms(D)
         /\ \A x \in {"minutes", "seconds"} : [s EXCEPT !.unit = x] \in Forms(D)
<1>1. \A x \in Frequencies : [s EXCEPT !.frequency = x] \in Forms(D)
  BY DEF Forms
<1>2. \A x \in AllMinutes : [s EXCEPT !.minute = x] \in Forms(D)
  BY DEF Forms, AllMinutes
<1>3. \A x \in AllHours : [s EXCEPT !.hour = x] \in Forms(D)
  BY DEF Forms, AllHours
<1>4. \A x : [s EXCEPT !.days = x] \in Forms({x})
  BY DEF Forms
<1>5. \A x \in Nat \ {0} : [s EXCEPT !.every = x] \in Forms(D)
  BY DEF Forms
<1>6. \A x \in {"minutes", "seconds"} : [s EXCEPT !.unit = x] \in Forms(D)
  BY DEF Forms
<1> QED BY <1>1, <1>2, <1>3, <1>4, <1>5, <1>6

LEMMA FieldsFit ==
  ASSUME NEW range \in Nat \ {0}
  PROVE  /\ FieldFits(None5, range) /\ FieldFits(Star, range)
         /\ \A n \in 0 .. range - 1 : FieldFits(<<"at", n>>, range)
         /\ \A n \in Nat \ {0} : FieldFits(<<"step", n>>, range)
<1>1. FieldFits(None5, range) /\ FieldFits(Star, range)
  <2>1. Values(None5, range) = {0} /\ None5[1] # "step"
    BY DEF Values, None5
  <2>2. Values(Star, range) = 0 .. range - 1 /\ Star[1] # "step"
    BY DEF Values, Star
  <2>3. 0 \in 0 .. range - 1
    OBVIOUS
  <2> QED BY <2>1, <2>2, <2>3 DEF FieldFits
<1>2. ASSUME NEW n \in 0 .. range - 1 PROVE FieldFits(<<"at", n>>, range)
  <2> DEFINE field == <<"at", n>>
  <2>1. field[1] = "at" /\ field[2] = n
    OBVIOUS
  <2> HIDE DEF field
  <2>2. Values(field, range) = {n}
    BY <2>1 DEF Values
  <2> QED BY <2>1, <2>2 DEF FieldFits, field
<1>3. ASSUME NEW n \in Nat \ {0} PROVE FieldFits(<<"step", n>>, range)
  <2> DEFINE field == <<"step", n>>
  <2>1. field[1] = "step" /\ field[2] = n
    OBVIOUS
  <2> HIDE DEF field
  <2>2. Values(field, range) = {v \in 0 .. range - 1 : v % n = 0}
    BY <2>1 DEF Values
  <2>3. 0 % n = 0
    <3>1. (n * 0 + 0) % n = 0
      BY Reading
    <3> QED BY <3>1
  <2> QED BY <2>1, <2>2, <2>3 DEF FieldFits, field
<1> QED BY <1>1, <1>2, <1>3

(* What the form writes fits, and so does what it reads. *)
LEMMA WritesFitting ==
  ASSUME NEW D, NEW s \in Forms(D)
  PROVE  Fits(ToCron(s))
<1> DEFINE c == ToCron(s)
<1> USE Calendar
<1>1. /\ s.frequency \in Frequencies /\ s.minute \in 0 .. HourMinutes - 1 /\ s.hour \in 0 .. DayHours - 1
      /\ s.every \in Nat \ {0} /\ s.unit \in {"minutes", "seconds"}
  BY DEF Forms
<1>2. /\ c.second \in {None5, <<"step", s.every>>}
      /\ c.minute \in {Star, <<"at", s.minute>>, <<"at", 0>>, <<"step", s.every>>}
      /\ c.hour \in {Star, <<"at", s.hour>>}
  <2>1. CASE s.frequency \in {"daily", "weekdays", "weekly"}
    <3>1. \E days : c = Expression(None5, <<"at", s.minute>>, <<"at", s.hour>>, days)
      BY <2>1 DEF ToCron
    <3> QED BY <3>1 DEF Expression
  <2>2. CASE s.frequency = "hourly"
    <3>1. c = Expression(None5, <<"at", 0>>, Star, Star)
      BY <2>2 DEF ToCron
    <3> QED BY <3>1 DEF Expression
  <2>3. CASE s.frequency = "interval" /\ s.unit = "seconds"
    <3>1. c = Expression(<<"step", s.every>>, Star, Star, Star)
      BY <2>3 DEF ToCron
    <3> QED BY <3>1 DEF Expression
  <2>4. CASE s.frequency = "interval" /\ s.unit # "seconds"
    <3>1. c = Expression(None5, <<"step", s.every>>, Star, Star)
      BY <2>4 DEF ToCron
    <3> QED BY <3>1 DEF Expression
  <2> QED BY <1>1, <2>1, <2>2, <2>3, <2>4 DEF Frequencies
<1> HIDE DEF c
<1>3. FieldFits(c.second, MinuteTicks)
  BY <1>1, <1>2, FieldsFit
<1>4. FieldFits(c.minute, HourMinutes)
  <2>1. 0 \in 0 .. HourMinutes - 1
    OBVIOUS
  <2> QED BY <1>1, <1>2, <2>1, FieldsFit
<1>5. FieldFits(c.hour, DayHours)
  BY <1>1, <1>2, FieldsFit
<1> QED BY <1>3, <1>4, <1>5 DEF Fits, c

LEMMA AtFits ==
  ASSUME NEW range, NEW field, FieldFits(field, range), field[1] = "at"
  PROVE  field[2] \in 0 .. range - 1
<1>1. Values(field, range) = {field[2]}
  BY DEF Values
<1> QED BY <1>1 DEF FieldFits

LEMMA DefaultForm == \E d : Default \in Forms({d})
<1>1. Default \in Forms({Default.days})
  BY DefaultAssumption DEF Forms
<1> QED BY <1>1

LEMMA ReadsFitting ==
  ASSUME NEW c, Fits(c)
  PROVE  /\ \E d : ParseSchedule(c) \in Forms({d})
         /\ HasForm(c) => ParseSchedule(c).frequency \in Frequencies
<1> DEFINE s == ParseSchedule(c)
<1>1. PICK d : Default \in Forms({d})
  BY DefaultForm
<1>2. CASE ~HasForm(c)
  BY <1>1, <1>2 DEF ParseSchedule
<1>3. CASE HasForm(c)
  <2>1. s = Parsed(c)
    BY <1>3 DEF ParseSchedule
  <2>2. CASE IsClock(c)
    <3>1. c.minute[2] \in AllMinutes /\ c.hour[2] \in AllHours
      BY <2>2, AtFits DEF IsClock, Fits, AllMinutes, AllHours
    <3>2. Clock(c) \in Forms({d})
      BY <1>1, <3>1, FormFields DEF Clock
    <3>3. PICK f \in Frequencies : \E days : s = [Clock(c) EXCEPT !.frequency = f, !.days = days]
      BY <2>1, <2>2 DEF Parsed, Frequencies
    <3> PICK days : s = [Clock(c) EXCEPT !.frequency = f, !.days = days]
      BY <3>3
    <3>4. PICK x \in Forms({d}) : x = [Clock(c) EXCEPT !.frequency = f]
      BY <3>2, FormFields
    <3>5. s \in Forms({days})
      <4>1. s = [x EXCEPT !.days = days]
        BY <3>4, Zenon
      <4>2. [x EXCEPT !.days = days] \in Forms({days})
        BY FormFields
      <4> QED BY <4>1, <4>2
    <3>6. s.frequency \in Frequencies
      BY <3>5 DEF Forms
    <3> QED BY <3>5, <3>6
  <2>3. CASE ~IsClock(c) /\ c.minute[1] = "at"
    <3>1. s = [Default EXCEPT !.frequency = "hourly"]
      BY <2>1, <2>3 DEF Parsed
    <3>2. s \in Forms({d})
      BY <1>1, <3>1, FormFields DEF Frequencies
    <3>3. s.frequency \in Frequencies
      BY <3>2 DEF Forms
    <3> QED BY <3>2, <3>3
  <2>4. CASE ~IsClock(c) /\ c.minute[1] # "at"
    <3> DEFINE every == IF c.second = None5 THEN c.minute[2] ELSE c.second[2]
               unit == IF c.second = None5 THEN "minutes" ELSE "seconds"
    <3>1. \/ c.second = None5 /\ c.minute[1] = "step"
          \/ c.second # None5 /\ c.second[1] = "step"
      <4>1. ASSUME c = Expression(None5, <<"at", 0>>, Star, Star) PROVE FALSE
        BY <2>4, <4>1 DEF Expression
      <4>2. None5[1] # "step"
        BY DEF None5
      <4> QED BY <1>3, <2>4, <4>1, <4>2 DEF HasForm
    <3>2. every \in Nat \ {0}
      BY <3>1 DEF Fits, FieldFits
    <3>3. unit \in {"minutes", "seconds"}
      OBVIOUS
    <3>4. s = [Default EXCEPT !.frequency = "interval", !.every = every, !.unit = unit]
      BY <2>1, <2>4 DEF Parsed
    <3> HIDE DEF every, unit
    <3>5. [Default EXCEPT !.frequency = "interval"] \in Forms({d})
      BY <1>1, FormFields DEF Frequencies
    <3>6. PICK x \in Forms({d}) : x = [[Default EXCEPT !.frequency = "interval"] EXCEPT !.every = every]
      BY <3>2, <3>5, FormFields
    <3>7. s \in Forms({d})
      <4>1. s = [x EXCEPT !.unit = unit]
        BY <3>4, <3>6, Zenon
      <4>2. [x EXCEPT !.unit = unit] \in Forms({d})
        BY <3>3, FormFields
      <4> QED BY <4>1, <4>2
    <3>8. s.frequency \in Frequencies
      BY <3>7 DEF Forms
    <3> QED BY <3>7, <3>8
  <2> QED BY <2>2, <2>3, <2>4
<1> QED BY <1>2, <1>3

LEMMA ScheduleStarts == ScheduleInit => Fits(cron)
BY DefaultForm, WritesFitting DEF ScheduleInit

LEMMA ScheduleStep == Fits(cron) /\ [ScheduleNext]_scheduleVars => Fits(cron)'
<1> SUFFICES ASSUME Fits(cron), [ScheduleNext]_scheduleVars PROVE Fits(cron')
  BY DEF Fits
<1>1. PICK d : ParseSchedule(cron) \in Forms({d})
  BY ReadsFitting
<1>2. ASSUME NEW frequency \in Frequencies, PickFrequency(frequency) PROVE Fits(cron')
  <2>1. [ParseSchedule(cron) EXCEPT !.frequency = frequency] \in Forms({d})
    BY <1>1, FormFields
  <2> QED BY <1>2, <2>1, WritesFitting DEF PickFrequency, Change, WithFrequency
<1>3. ASSUME NEW minute \in 0 .. HourMinutes - 1, NEW hour \in 0 .. DayHours - 1, PickTime(minute, hour)
      PROVE  Fits(cron')
  <2>1. [ParseSchedule(cron) EXCEPT !.minute = minute] \in Forms({d})
    BY <1>1, FormFields DEF AllMinutes
  <2>2. [[ParseSchedule(cron) EXCEPT !.minute = minute] EXCEPT !.hour = hour] \in Forms({d})
    BY <2>1, FormFields DEF AllHours
  <2> QED BY <1>3, <2>2, WritesFitting DEF PickTime, Change
<1>4. ASSUME NEW day, PickDay(day) PROVE Fits(cron')
  <2>1. PICK days : cron' = ToCron([ParseSchedule(cron) EXCEPT !.days = days])
    BY <1>4 DEF PickDay, Change
  <2>2. [ParseSchedule(cron) EXCEPT !.days = days] \in Forms({days})
    BY <1>1, FormFields
  <2> QED BY <2>1, <2>2, WritesFitting
<1>5. ASSUME NEW every \in 1 .. HourMinutes - 1, NEW unit \in {"minutes", "seconds"}, PickInterval(every, unit)
      PROVE  Fits(cron')
  <2>1. every \in Nat \ {0}
    BY Calendar
  <2>2. [ParseSchedule(cron) EXCEPT !.every = every] \in Forms({d})
    BY <1>1, <2>1, FormFields
  <2>3. [[ParseSchedule(cron) EXCEPT !.every = every] EXCEPT !.unit = unit] \in Forms({d})
    BY <2>2, FormFields
  <2> QED BY <1>5, <2>3, WritesFitting DEF PickInterval, Change
<1>6. ASSUME NEW c \in Typed, TypeExpression(c) PROVE Fits(cron')
  BY <1>6, TypedAssumption DEF TypeExpression, Change
<1>7. ASSUME SaveSchedule \/ Reopen \/ UNCHANGED scheduleVars PROVE Fits(cron')
  BY <1>7 DEF SaveSchedule, Reopen, scheduleVars
<1> QED BY <1>2, <1>3, <1>4, <1>5, <1>6, <1>7 DEF ScheduleNext

LEMMA PreviewHolds == ASSUME Fits(cron) PROVE PreviewSaysWhatRuns
<1> DEFINE S == Values(cron.second, MinuteTicks)
           M == Values(cron.minute, HourMinutes)
           H == Values(cron.hour, DayHours)
           phrase == Phrase(cron).time
<1>1. phrase = DescribeTime(S, M, H) /\ Phrase(cron).days = Values(cron.days, WeekDays)
  BY DEF Phrase
<1>2. Says(phrase, FiringTimes(S, M, H))
  BY <1>1, Describes DEF Fits, FieldFits, AllMinutes, AllHours
<1>3. ASSUME NEW day \in 0 .. WeekDays - 1, day \notin Phrase(cron).days PROVE FiresOn(day) = {}
  BY <1>1, <1>3, FiresAt DEF FiresOn, Day
<1>4. ASSUME NEW day \in 0 .. WeekDays - 1, day \in Phrase(cron).days PROVE FiresOn(day) = FiringTimes(S, M, H)
  BY <1>1, <1>4, FiresAt DEF FiresOn, FiringTimes, Day
<1> HIDE DEF phrase
<1>5. ASSUME NEW day \in 0 .. WeekDays - 1, day \in Phrase(cron).days PROVE Says(phrase, FiresOn(day))
  BY <1>2, <1>4, <1>5
<1> QED BY <1>3, <1>5 DEF PreviewSaysWhatRuns, Says, phrase

(* The preview says what will happen for every expression whose fields are *)
(* in range, in every calendar - and the form never leaves them.           *)
THEOREM PreviewCorrect == ScheduleSpec => []PreviewSaysWhatRuns
<1>1. ScheduleSpec => []Fits(cron)
  BY ScheduleStarts, ScheduleStep, PTL DEF ScheduleSpec
<1> QED BY <1>1, PreviewHolds, PTL
===============================================================================
