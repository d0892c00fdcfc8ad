----------------------------- MODULE PagesProofs -----------------------------
(***************************************************************************)
(* What the pages of the web client show and save, for any number of       *)
(* tasks, lists, notifications, requests, editors, definitions and         *)
(* versions: usePolling, the page of tasks and lists, the page of          *)
(* notifications with the count of unread ones, and the optimistic locking *)
(* of the routine editor.                                                  *)
(***************************************************************************)
EXTENDS TaskPage, Inbox, Editing, TLAPS

-----------------------------------------------------------------------------
(* usePolling. *)

PollPhases == {"waiting", "sent", "answered", "failed"}
PollSet(D) ==
  [phase : PollPhases, data : D, answer : D, stale : BOOLEAN, restart : BOOLEAN, error : BOOLEAN]
PollState(p) == p \in PollSet({p.data, p.answer})

PollsTyped == poll = [r \in DOMAIN poll |-> poll[r]] /\ \A r \in DOMAIN poll : PollState(poll[r])

(* What is shown is what is stored, or will be when the answer arrives. *)
UpToDateWith(p, content) ==
  /\ ~p.stale
  /\ p.phase = "answered" => p.answer = content
  /\ p.phase = "waiting" /\ p.data # Unknown /\ ~p.error => p.data = content

LEMMA PollTyped ==
  ASSUME NEW D, NEW p \in PollSet(D)
  PROVE  PollState(p)
BY DEF PollState, PollSet

LEMMA PollFields ==
  ASSUME NEW D, NEW p \in PollSet(D)
  PROVE  /\ \A x \in PollPhases : [p EXCEPT !.phase = x] \in PollSet(D)
         /\ \A x \in D : [p EXCEPT !.data = x] \in PollSet(D) /\ [p EXCEPT !.answer = x] \in PollSet(D)
         /\ \A x \in BOOLEAN : /\ [p EXCEPT !.stale = x] \in PollSet(D)
                               /\ [p EXCEPT !.restart = x] \in PollSet(D)
                               /\ [p EXCEPT !.error = x] \in PollSet(D)
<1>1. \A x \in PollPhases : [p EXCEPT !.phase = x] \in PollSet(D)
  BY DEF PollSet
<1>2. \A x \in D : [p EXCEPT !.data = x] \in PollSet(D)
  BY DEF PollSet
<1>3. \A x \in D : [p EXCEPT !.answer = x] \in PollSet(D)
  BY DEF PollSet
<1>4. \A x \in BOOLEAN : [p EXCEPT !.stale = x] \in PollSet(D)
  BY DEF PollSet
<1>5. \A x \in BOOLEAN : [p EXCEPT !.restart = x] \in PollSet(D)
  BY DEF PollSet
<1>6. \A x \in BOOLEAN : [p EXCEPT !.error = x] \in PollSet(D)
  BY DEF PollSet
<1> QED BY <1>1, <1>2, <1>3, <1>4, <1>5, <1>6

(* reload. *)
LEMMA PollReloading ==
  ASSUME NEW p, PollState(p)
  PROVE  PollState(Reloading(p)) /\ Reloading(p).restart /\ Reloading(p).stale = p.stale
<1>1. PICK D : p \in PollSet(D)
  BY DEF PollState
<1>2. Reloading(p) \in PollSet(D)
  BY <1>1, PollFields DEF Reloading
<1> QED BY <1>1, <1>2, PollTyped DEF Reloading, PollSet

(* mutate. *)
LEMMA PollMutated ==
  ASSUME NEW p, PollState(p), NEW data
  PROVE  PollState(Mutated(p, data)) /\ Mutated(p, data).restart = p.restart
<1>1. PICK D : D = {p.data, p.answer, data, Unknown}
  OBVIOUS
<1>2. p \in PollSet(D)
  BY <1>1 DEF PollState, PollSet
<1>3. PICK d \in D : d = IF p.data = Unknown THEN p.data ELSE data
  BY <1>1
<1>4. PICK s \in BOOLEAN : s = (p.phase # "waiting")
  OBVIOUS
<1>5. [p EXCEPT !.data = d] \in PollSet(D)
  BY <1>2, PollFields
<1>6. [[p EXCEPT !.data = d] EXCEPT !.stale = s] \in PollSet(D)
  BY <1>5, PollFields
<1>7. [[[p EXCEPT !.data = d] EXCEPT !.stale = s] EXCEPT !.answer = Unknown] \in PollSet(D)
  BY <1>1, <1>6, PollFields
<1>8. Mutated(p, data) = [[[p EXCEPT !.data = d] EXCEPT !.stale = s] EXCEPT !.answer = Unknown]
  BY <1>3, <1>4 DEF Mutated
<1>9. Mutated(p, data) \in PollSet(D) /\ Mutated(p, data).restart = p.restart
  BY <1>2, <1>7, <1>8 DEF PollSet
<1> QED BY <1>9, PollTyped

(* An answer arrives: dropped when it is stale, else shown. *)
LEMMA PollArrived ==
  ASSUME NEW p, PollState(p)
  PROVE  LET q == Arrived(p)
         IN /\ PollState(q) /\ q.phase = "waiting" /\ q.restart = p.restart /\ ~q.stale
            /\ ~p.stale => q.data = p.answer
<1>1. PICK D : D = {p.data, p.answer, Unknown}
  OBVIOUS
<1>2. p \in PollSet(D)
  BY <1>1 DEF PollState, PollSet
<1>3. PICK seen : seen = [p EXCEPT !.phase = "waiting", !.answer = Unknown, !.stale = FALSE]
  OBVIOUS
<1>4. seen \in PollSet(D)
  <2>1. [p EXCEPT !.phase = "waiting"] \in PollSet(D)
    BY <1>2, PollFields DEF PollPhases
  <2>2. [[p EXCEPT !.phase = "waiting"] EXCEPT !.answer = Unknown] \in PollSet(D)
    BY <1>1, <2>1, PollFields
  <2>3. [[[p EXCEPT !.phase = "waiting"] EXCEPT !.answer = Unknown] EXCEPT !.stale = FALSE] \in PollSet(D)
    BY <2>2, PollFields
  <2> QED BY <1>3, <2>3
<1>5. seen.phase = "waiting" /\ seen.restart = p.restart /\ ~seen.stale
  BY <1>2, <1>3 DEF PollSet
<1>6. p.answer \in D
  BY <1>1
<1>7. PICK next : next = [seen EXCEPT !.data = p.answer, !.error = FALSE]
  OBVIOUS
<1>8. next \in PollSet(D)
  <2>1. [seen EXCEPT !.data = p.answer] \in PollSet(D)
    BY <1>4, <1>6, PollFields
  <2>2. [[seen EXCEPT !.data = p.answer] EXCEPT !.error = FALSE] \in PollSet(D)
    BY <2>1, PollFields
  <2> QED BY <1>7, <2>2
<1>9. next.phase = "waiting" /\ next.restart = p.restart /\ ~next.stale /\ next.data = p.answer
  BY <1>4, <1>5, <1>7 DEF PollSet
<1>10. Arrived(p) = IF p.stale THEN seen ELSE next
  BY <1>3, <1>7 DEF Arrived
<1> QED BY <1>4, <1>5, <1>8, <1>9, <1>10, PollTyped

-----------------------------------------------------------------------------
(* The steps of one resource. *)

(* Only r changes. *)
LEMMA PollOne ==
  ASSUME PollsTyped, NEW r \in DOMAIN poll, NEW new, PollState(new), poll' = [poll EXCEPT ![r] = new]
  PROVE  /\ PollsTyped' /\ DOMAIN poll' = DOMAIN poll /\ poll'[r] = new
         /\ \A s \in DOMAIN poll : s # r => poll'[s] = poll[s]
BY DEF PollsTyped

(* A poll goes on, and is up to date if it was. *)
Continues(r, content) ==
  /\ PollsTyped' /\ DOMAIN poll' = DOMAIN poll
  /\ \A s \in DOMAIN poll : s # r => poll'[s] = poll[s]
  /\ poll'[r].restart = poll[r].restart
  /\ ~poll[r].stale => ~poll'[r].stale
  /\ UpToDateWith(poll[r], content) => UpToDateWith(poll'[r], content)

LEMMA PollContinues ==
  ASSUME PollsTyped, NEW r \in DOMAIN poll, NEW content,
         \/ Ask(r) \/ Serve(r, content) \/ Break(r) \/ ArriveFailed(r)
         \/ poll[r].phase = "answered" /\ poll' = [poll EXCEPT ![r] = Arrived(@)]
  PROVE  Continues(r, content)
<1>1. PollState(poll[r])
  BY DEF PollsTyped
<1>2. PICK p : p = poll[r]
  OBVIOUS
<1>3. PICK D : D = {p.data, p.answer, content, Unknown}
  OBVIOUS
<1>4. p \in PollSet(D)
  BY <1>1, <1>2, <1>3 DEF PollState, PollSet
<1>5. ASSUME NEW new, new \in PollSet(D), poll' = [poll EXCEPT ![r] = new], new.restart = p.restart,
             ~p.stale => ~new.stale, UpToDateWith(p, content) => UpToDateWith(new, content)
      PROVE  Continues(r, content)
  BY <1>2, <1>5, PollOne, PollTyped DEF Continues
<1>6. CASE Ask(r)
  <2>1. PICK new : new = [p EXCEPT !.phase = "sent"]
    OBVIOUS
  <2>2. new \in PollSet(D)
    BY <1>4, <2>1, PollFields DEF PollPhases
  <2>3. new.restart = p.restart /\ new.stale = p.stale /\ new.phase = "sent"
    BY <1>4, <2>1 DEF PollSet
  <2>4. poll' = [poll EXCEPT ![r] = new]
    BY <1>2, <1>6, <2>1 DEF Ask, PollsTyped
  <2> QED BY <1>5, <2>2, <2>3, <2>4 DEF UpToDateWith
<1>7. CASE Serve(r, content)
  <2>1. PICK answer \in D : answer = IF p.stale THEN Unknown ELSE content
    BY <1>3
  <2>2. PICK new : new = [[p EXCEPT !.phase = "answered"] EXCEPT !.answer = answer]
    OBVIOUS
  <2>3. new \in PollSet(D)
    <3>1. [p EXCEPT !.phase = "answered"] \in PollSet(D)
      BY <1>4, PollFields DEF PollPhases
    <3> QED BY <2>2, <3>1, PollFields
  <2>4. new.restart = p.restart /\ new.stale = p.stale /\ new.phase = "answered" /\ new.answer = answer
    BY <1>4, <2>2 DEF PollSet
  <2>5. poll' = [poll EXCEPT ![r] = new]
    BY <1>2, <1>7, <2>1, <2>2 DEF Serve, PollsTyped
  <2> QED BY <1>5, <2>1, <2>3, <2>4, <2>5 DEF UpToDateWith
<1>8. CASE Break(r)
  <2>1. PICK new : new = [p EXCEPT !.phase = "failed"]
    OBVIOUS
  <2>2. new \in PollSet(D)
    BY <1>4, <2>1, PollFields DEF PollPhases
  <2>3. new.restart = p.restart /\ new.stale = p.stale /\ new.phase = "failed"
    BY <1>4, <2>1 DEF PollSet
  <2>4. poll' = [poll EXCEPT ![r] = new]
    BY <1>2, <1>8, <2>1 DEF Break, PollsTyped
  <2> QED BY <1>5, <2>2, <2>3, <2>4 DEF UpToDateWith
<1>9. CASE ArriveFailed(r)
  <2>1. PICK new : new = [[[p EXCEPT !.phase = "waiting"] EXCEPT !.stale = FALSE] EXCEPT !.error = TRUE]
    OBVIOUS
  <2>2. new \in PollSet(D)
    <3>1. [p EXCEPT !.phase = "waiting"] \in PollSet(D)
      BY <1>4, PollFields DEF PollPhases
    <3>2. [[p EXCEPT !.phase = "waiting"] EXCEPT !.stale = FALSE] \in PollSet(D)
      BY <3>1, PollFields
    <3> QED BY <2>1, <3>2, PollFields
  <2>3. new.restart = p.restart /\ ~new.stale /\ new.phase = "waiting" /\ new.error
    BY <1>4, <2>1 DEF PollSet
  <2>4. poll' = [poll EXCEPT ![r] = new]
    BY <1>2, <1>9, <2>1 DEF ArriveFailed, PollsTyped
  <2> QED BY <1>5, <2>2, <2>3, <2>4 DEF UpToDateWith
<1>10. CASE poll[r].phase = "answered" /\ poll' = [poll EXCEPT ![r] = Arrived(@)]
  <2>1. PICK new : new = Arrived(p)
    OBVIOUS
  <2>2. PollState(new) /\ new.phase = "waiting" /\ new.restart = p.restart /\ ~new.stale
          /\ (~p.stale => new.data = p.answer)
    BY <1>1, <1>2, <2>1, PollArrived
  <2>3. poll' = [poll EXCEPT ![r] = new] /\ p.phase = "answered"
    BY <1>2, <1>10, <2>1
  <2>4. UpToDateWith(p, content) => UpToDateWith(new, content)
    BY <2>2, <2>3 DEF UpToDateWith
  <2> QED BY <1>2, <2>2, <2>3, <2>4, PollOne DEF Continues
<1> QED BY <1>6, <1>7, <1>8, <1>9, <1>10

(* An answer that will not be dropped is up to date. *)
LEMMA PollServes ==
  ASSUME PollsTyped, NEW r \in DOMAIN poll, NEW content, Serve(r, content), ~poll[r].stale
  PROVE  UpToDateWith(poll'[r], content)
<1>1. PICK p : p = poll[r]
  OBVIOUS
<1>2. PICK D : D = {p.data, p.answer, content}
  OBVIOUS
<1>3. p \in PollSet(D) /\ ~p.stale
  BY <1>1, <1>2 DEF PollsTyped, PollState, PollSet
<1>4. PICK new : new = [[p EXCEPT !.phase = "answered"] EXCEPT !.answer = content]
  OBVIOUS
<1>5. ~new.stale /\ new.phase = "answered" /\ new.answer = content
  BY <1>3, <1>4 DEF PollSet
<1>6. poll'[r] = new
  BY <1>1, <1>3, <1>4 DEF Serve, PollsTyped
<1> QED BY <1>5, <1>6 DEF UpToDateWith

(* Asking again: whatever comes is up to date. *)
LEMMA PollRestarts ==
  ASSUME PollsTyped, NEW r \in DOMAIN poll, Restart(r)
  PROVE  /\ PollsTyped' /\ DOMAIN poll' = DOMAIN poll /\ ~poll'[r].stale
         /\ \A s \in DOMAIN poll : s # r => poll'[s] = poll[s]
         /\ MayAsk(r) => \A content : UpToDateWith(poll'[r], content)
<1>1. PICK p : p = poll[r]
  OBVIOUS
<1>2. PICK D : D = {p.data, p.answer, Unknown}
  OBVIOUS
<1>3. p \in PollSet(D)
  BY <1>1, <1>2 DEF PollsTyped, PollState, PollSet
<1>4. PICK phase \in PollPhases : phase = IF MayAsk(r) THEN "sent" ELSE "waiting"
  BY DEF PollPhases
<1>5. PICK new : new = [[[[p EXCEPT !.phase = phase] EXCEPT !.answer = Unknown] EXCEPT !.stale = FALSE]
                          EXCEPT !.restart = FALSE]
  OBVIOUS
<1>6. new \in PollSet(D)
  <2>1. [p EXCEPT !.phase = phase] \in PollSet(D)
    BY <1>3, PollFields
  <2>2. [[p EXCEPT !.phase = phase] EXCEPT !.answer = Unknown] \in PollSet(D)
    BY <1>2, <2>1, PollFields
  <2>3. [[[p EXCEPT !.phase = phase] EXCEPT !.answer = Unknown] EXCEPT !.stale = FALSE] \in PollSet(D)
    BY <2>2, PollFields
  <2> QED BY <1>5, <2>3, PollFields
<1>7. new.phase = phase /\ ~new.stale
  BY <1>3, <1>5 DEF PollSet
<1>8. poll' = [poll EXCEPT ![r] = new]
  BY <1>1, <1>4, <1>5 DEF Restart
<1> QED BY <1>4, <1>6, <1>7, <1>8, PollOne, PollTyped DEF UpToDateWith

(* reload of some resources, from whatever mutate has made of them. *)
LEMMA PollsReload ==
  ASSUME PollsTyped, NEW resources,
         poll' = [r \in DOMAIN poll |-> IF r \in resources THEN Reloading(poll[r]) ELSE poll[r]]
  PROVE  /\ PollsTyped' /\ DOMAIN poll' = DOMAIN poll
         /\ \A r \in DOMAIN poll : IF r \in resources THEN poll'[r].restart ELSE poll'[r] = poll[r]
BY PollReloading DEF PollsTyped

-----------------------------------------------------------------------------
(* The page of notifications. *)

Statuses == {"sent", "ok", "failed"}
RequestsOf == UNION {[some -> Statuses] : some \in SUBSET Notes}
ClickSet == [kind : {"delete", "read"}, requests : RequestsOf, over : BOOLEAN]
AllOver == \A c \in DOMAIN clicks : clicks[c].over

(* Only the page of notifications changes what is shown before the server  *)
(* has agreed.                                                             *)
CountFresh == \A r \in DOMAIN poll : r # "notifications" => ~poll[r].stale

(* Once every click is over: what will not be asked for again is taken     *)
(* when it arrives, and is up to date - or the page missed a change.       *)
Told(r) ==
  AllOver /\ ~poll[r].restart =>
    /\ ~poll[r].stale
    /\ r \notin missed => UpToDateWith(poll[r], Answer(r))

InboxInv ==
  /\ PollsTyped /\ DOMAIN poll \subseteq {"notifications", "unread"}
  /\ clicks \in Seq(ClickSet)
  /\ CountFresh
  /\ \A r \in DOMAIN poll : Told(r)

LEMMA SameAnswers == ASSUME UNCHANGED mailbox PROVE \A r : Answer(r)' = Answer(r)
BY DEF Answer, Present

(* Nothing has been asked for yet. *)
LEMMA PollsStart ==
  ASSUME NEW resources, PollingInit(resources)
  PROVE  /\ PollsTyped /\ DOMAIN poll = resources
         /\ \A r \in DOMAIN poll : \A content : UpToDateWith(poll[r], content)
<1>1. Starting \in PollSet({Unknown})
  BY DEF Starting, PollSet, PollPhases
<1>2. PollState(Starting) /\ Starting.phase = "waiting" /\ ~Starting.stale /\ Starting.data = Unknown
  BY <1>1, PollTyped DEF Starting
<1>3. poll = [r \in resources |-> Starting]
  BY DEF PollingInit
<1> HIDE DEF Starting
<1> QED BY <1>2, <1>3 DEF PollsTyped, UpToDateWith

LEMMA InboxStarts == InboxInit => InboxInv
<1> SUFFICES ASSUME InboxInit PROVE InboxInv
  OBVIOUS
<1>1. PICK resource \in {"notifications", "unread"} : PollingInit({resource})
  BY DEF InboxInit
<1>2. /\ PollsTyped /\ DOMAIN poll = {resource}
      /\ \A r \in DOMAIN poll : \A content : UpToDateWith(poll[r], content)
  BY <1>1, PollsStart
<1>3. clicks \in Seq(ClickSet)
  BY DEF InboxInit
<1>4. \A r \in DOMAIN poll : UpToDateWith(poll[r], Answer(r))
  BY <1>2
<1>5. \A r \in DOMAIN poll : ~poll[r].stale
  BY <1>4 DEF UpToDateWith
<1> QED BY <1>2, <1>3, <1>4, <1>5 DEF InboxInv, CountFresh, Told

(* While a click is under way nothing is promised. *)
LEMMA UnderWay ==
  ASSUME InboxInv, PollsTyped', DOMAIN poll' = DOMAIN poll, clicks' \in Seq(ClickSet), CountFresh', ~AllOver'
  PROVE  InboxInv'
BY DEF InboxInv, Told

-----------------------------------------------------------------------------
(* The requests of the clicks.                                             *)

LEMMA ClickFields ==
  ASSUME NEW c \in DOMAIN clicks, clicks \in Seq(ClickSet)
  PROVE  /\ clicks[c] \in ClickSet /\ clicks[c].kind \in {"delete", "read"} /\ clicks[c].over \in BOOLEAN
         /\ DOMAIN clicks[c].requests \in SUBSET Notes
         /\ clicks[c].requests \in [DOMAIN clicks[c].requests -> Statuses]
<1>1. clicks[c] \in ClickSet
  OBVIOUS
<1>2. clicks[c].requests \in RequestsOf /\ clicks[c].kind \in {"delete", "read"} /\ clicks[c].over \in BOOLEAN
  BY <1>1 DEF ClickSet
<1>3. PICK some \in SUBSET Notes : clicks[c].requests \in [some -> Statuses]
  BY <1>2 DEF RequestsOf
<1> QED BY <1>1, <1>2, <1>3

(* A click with other requests. *)
LEMMA Requesting ==
  ASSUME NEW click \in ClickSet, NEW some \in SUBSET Notes, NEW requests \in [some -> Statuses]
  PROVE  [click EXCEPT !.requests = requests] \in ClickSet /\ [click EXCEPT !.requests = requests].over = click.over
<1>1. requests \in RequestsOf
  BY DEF RequestsOf
<1> HIDE DEF RequestsOf
<1> QED BY <1>1 DEF ClickSet

(* What is left of the requests. *)
LEMMA Fewer ==
  ASSUME NEW c \in DOMAIN clicks, clicks \in Seq(ClickSet), NEW some \in SUBSET DOMAIN clicks[c].requests
  PROVE  some \in SUBSET Notes /\ Only(clicks[c].requests, some) \in [some -> Statuses]
<1>1. \A n \in some : clicks[c].requests[n] \in Statuses
  BY ClickFields
<1> QED BY <1>1, ClickFields DEF Only

(* One click becomes another. *)
LEMMA ClickBecomes ==
  ASSUME NEW c \in DOMAIN clicks, clicks \in Seq(ClickSet), NEW click \in ClickSet,
         clicks' = [clicks EXCEPT ![c] = click]
  PROVE  /\ clicks' \in Seq(ClickSet) /\ DOMAIN clicks' = DOMAIN clicks /\ clicks'[c] = click
         /\ \A d \in DOMAIN clicks : d # c => clicks'[d] = clicks[d]
OBVIOUS

LEMMA AnsweredClick ==
  ASSUME NEW c \in DOMAIN clicks, clicks \in Seq(ClickSet), NEW n \in With(c, "sent"), NEW status \in Statuses,
         Answered(c, n, status)
  PROVE  clicks' \in Seq(ClickSet) /\ AllOver' = AllOver
<1> DEFINE click == clicks[c]
           requests == click.requests
           left == DOMAIN requests \ {n}
           new == IF click.over THEN Only(requests, left) ELSE [requests EXCEPT ![n] = status]
           next == [click EXCEPT !.requests = new]
<1>1. click \in ClickSet /\ DOMAIN requests \in SUBSET Notes /\ requests \in [DOMAIN requests -> Statuses]
  BY ClickFields
<1>2. n \in DOMAIN requests
  BY DEF With
<1>3. clicks' = [clicks EXCEPT ![c] = next]
  BY DEF Answered
<1>4. \E some \in SUBSET Notes : new \in [some -> Statuses]
  <2>1. CASE click.over
    <3>1. left \in SUBSET DOMAIN requests
      OBVIOUS
    <3> HIDE DEF left
    <3>2. Only(requests, left) \in [left -> Statuses] /\ left \in SUBSET Notes
      BY <3>1, Fewer
    <3> QED BY <2>1, <3>2
  <2>2. CASE ~click.over
    <3>1. [requests EXCEPT ![n] = status] \in [DOMAIN requests -> Statuses]
      BY <1>1, <1>2
    <3> QED BY <1>1, <2>2, <3>1
  <2> QED BY <2>1, <2>2
<1> HIDE DEF new
<1>5. PICK some \in SUBSET Notes : new \in [some -> Statuses]
  BY <1>4
<1>6. next \in ClickSet /\ next.over = click.over
  BY <1>1, <1>5, Requesting
<1> HIDE DEF next
<1>7. /\ clicks' \in Seq(ClickSet) /\ DOMAIN clicks' = DOMAIN clicks
      /\ \A d \in DOMAIN clicks : clicks'[d].over = clicks[d].over
  BY <1>3, <1>6, ClickBecomes
<1> QED BY <1>7 DEF AllOver

LEMMA ClickOver ==
  ASSUME NEW c \in DOMAIN clicks, clicks \in Seq(ClickSet), Over(c)
  PROVE  clicks' \in Seq(ClickSet)
<1> DEFINE left == With(c, "sent")
           rest == Only(clicks[c].requests, left)
           next == [kind |-> clicks[c].kind, requests |-> rest, over |-> TRUE]
<1>1. clicks' = [clicks EXCEPT ![c] = next]
  BY DEF Over
<1>2. left \in SUBSET DOMAIN clicks[c].requests
  BY DEF With
<1>3. left \in SUBSET Notes /\ rest \in [left -> Statuses]
  BY <1>2, Fewer
<1>4. rest \in RequestsOf /\ clicks[c].kind \in {"delete", "read"}
  BY <1>3, ClickFields DEF RequestsOf
<1> HIDE DEF left, rest
<1>5. next \in ClickSet
  BY <1>4 DEF ClickSet
<1> HIDE DEF next
<1> QED BY <1>1, <1>5, ClickBecomes

LEMMA Clicks ==
  ASSUME InboxInv, NEW kind \in {"delete", "read"}, NEW chosen \in SUBSET Notes, Click(kind, chosen)
  PROVE  InboxInv'
<1> DEFINE click == Clicked(kind, chosen)
<1>1. clicks' = Append(clicks, click) /\ clicks \in Seq(ClickSet)
  BY DEF Click, InboxInv
<1>2. click \in ClickSet /\ ~click.over
  <2>1. [n \in chosen |-> "sent"] \in RequestsOf
    BY DEF RequestsOf, Statuses
  <2> QED BY <2>1 DEF ClickSet, Clicked
<1> HIDE DEF click
<1>3. clicks' \in Seq(ClickSet) /\ ~AllOver'
  BY <1>1, <1>2 DEF AllOver
<1>4. PollsTyped' /\ DOMAIN poll' = DOMAIN poll /\ CountFresh'
  <2>1. PICK data : poll' = MutatedTo(data) \/ poll' = poll
    BY DEF Click
  <2>2. CASE poll' = poll
    BY <2>2 DEF InboxInv, PollsTyped, CountFresh
  <2>3. CASE poll' = MutatedTo(data)
    BY <2>3, PollMutated DEF InboxInv, PollsTyped, MutatedTo, CountFresh
  <2> QED BY <2>1, <2>2, <2>3
<1> QED BY <1>3, <1>4, UnderWay

(* An answer, or none: when the click is not over, the page is about to    *)
(* ask again; when it is, the page may have missed a change.               *)
LEMMA RequestEnds ==
  ASSUME InboxInv, NEW c \in DOMAIN clicks, NEW n \in Notes, Serviced(c, n) \/ RequestLost(c, n)
  PROVE  InboxInv'
<1>1. \E status \in Statuses : Answered(c, n, status)
  BY DEF Serviced, RequestLost, Statuses
<1>2. n \in With(c, "sent") /\ UNCHANGED poll
  BY DEF Serviced, RequestLost, polling
<1>3. clicks' \in Seq(ClickSet) /\ AllOver' = AllOver
  BY <1>1, <1>2, AnsweredClick DEF InboxInv
<1>4. PollsTyped' /\ CountFresh' /\ DOMAIN poll' = DOMAIN poll
  BY <1>2 DEF InboxInv, PollsTyped, CountFresh
<1>5. CASE UNCHANGED <<mailbox, missed>>
  <2>1. \A r : Answer(r)' = Answer(r)
    BY <1>5, SameAnswers
  <2> QED BY <1>2, <1>3, <1>4, <1>5, <2>1 DEF InboxInv, Told
<1>6. CASE Unnoticed(c)
  <2>1. CASE clicks[c].over
    <3>1. missed' = DOMAIN poll
      BY <1>6, <2>1 DEF Unnoticed
    <3> QED BY <1>2, <1>3, <1>4, <3>1 DEF InboxInv, Told
  <2>2. CASE ~clicks[c].over
    <3>1. ~AllOver'
      BY <1>3, <2>2 DEF AllOver
    <3> QED BY <1>3, <1>4, <3>1, UnderWay
  <2> QED BY <2>1, <2>2
<1> QED BY <1>5, <1>6 DEF Serviced, RequestLost

(* Promise.all returns: what is not asked for again was missed. *)
LEMMA ReloadStep ==
  ASSUME InboxInv, NEW resources, poll' = ReloadedToo(resources), clicks' \in Seq(ClickSet),
         \A r \in DOMAIN poll : r \notin resources => r # "notifications" /\ r \in missed'
  PROVE  InboxInv'
<1>1. /\ PollsTyped' /\ DOMAIN poll' = DOMAIN poll
      /\ \A r \in DOMAIN poll : IF r \in resources THEN poll'[r].restart ELSE poll'[r] = poll[r]
  BY PollsReload DEF InboxInv, ReloadedToo
<1>2. \A r \in DOMAIN poll : r # "notifications" => ~poll'[r].stale
  <2>1. \A r \in DOMAIN poll : poll'[r].stale = poll[r].stale
    BY PollReloading DEF InboxInv, PollsTyped, ReloadedToo
  <2> QED BY <2>1 DEF InboxInv, CountFresh
<1>3. ASSUME NEW r \in DOMAIN poll PROVE Told(r)'
  <2>1. CASE r \in resources
    BY <1>1, <2>1 DEF Told
  <2>2. CASE r \notin resources
    BY <1>2, <2>2 DEF Told
  <2> QED BY <2>1, <2>2
<1> QED BY <1>1, <1>2, <1>3 DEF InboxInv, CountFresh

LEMMA OverStep ==
  ASSUME InboxInv, NEW c \in DOMAIN clicks, AllOk(c) \/ FirstFailure(c)
  PROVE  InboxInv'
<1>1. clicks' \in Seq(ClickSet)
  BY ClickOver DEF AllOk, FirstFailure, InboxInv
<1>2. DOMAIN poll \subseteq {"notifications", "unread"}
  BY DEF InboxInv
<1>3. CASE AllOk(c)
  BY <1>1, <1>2, <1>3, ReloadStep DEF AllOk
<1>4. CASE FirstFailure(c) /\ clicks[c].kind = "delete"
  BY <1>1, <1>2, <1>4, ReloadStep DEF FirstFailure
<1>5. CASE FirstFailure(c) /\ clicks[c].kind # "delete"
  <2>1. poll' = ReloadedToo({"notifications"}) /\ missed' = missed \cup (DOMAIN poll \cap {"unread"})
    BY <1>5 DEF FirstFailure
  <2> QED BY <1>1, <1>2, <2>1, ReloadStep
<1> QED BY <1>3, <1>4, <1>5

-----------------------------------------------------------------------------
(* The polls.                                                              *)

LEMMA InboxPollStep == ASSUME InboxInv, NEW r \in DOMAIN poll, Poll(r) \/ PollBroken(r) PROVE InboxInv'
<1>1. Continues(r, Answer(r))
  BY PollContinues DEF InboxInv, Poll, PollBroken
<1>2. UNCHANGED <<mailbox, clicks, missed>>
  BY DEF Poll, PollBroken, inboxPage
<1>3. \A s : Answer(s)' = Answer(s)
  BY <1>2, SameAnswers
<1>4. AllOver' = AllOver
  BY <1>2 DEF AllOver
<1> QED BY <1>1, <1>2, <1>3, <1>4 DEF InboxInv, Continues, CountFresh, Told

LEMMA InboxServed == ASSUME InboxInv, NEW r \in DOMAIN poll, PollServed(r) PROVE InboxInv'
<1>1. Continues(r, Answer(r)) /\ (~poll[r].stale => UpToDateWith(poll'[r], Answer(r)))
  BY PollContinues, PollServes DEF InboxInv, PollServed
<1>2. UNCHANGED <<mailbox, clicks>> /\ missed' = missed \ {r}
  BY DEF PollServed
<1>3. \A s : Answer(s)' = Answer(s)
  BY <1>2, SameAnswers
<1>4. AllOver' = AllOver
  BY <1>2 DEF AllOver
<1>5. ASSUME NEW s \in DOMAIN poll PROVE Told(s)'
  BY <1>1, <1>2, <1>3, <1>4 DEF InboxInv, Continues, Told
<1> QED BY <1>1, <1>2, <1>5 DEF InboxInv, Continues, CountFresh

LEMMA InboxPollAgain == ASSUME InboxInv, NEW r \in DOMAIN poll, PollAgain(r) PROVE InboxInv'
<1>1. /\ PollsTyped' /\ DOMAIN poll' = DOMAIN poll /\ ~poll'[r].stale
      /\ \A s \in DOMAIN poll : s # r => poll'[s] = poll[s]
      /\ MayAsk(r) => \A content : UpToDateWith(poll'[r], content)
  BY PollRestarts DEF InboxInv, PollAgain
<1>2. UNCHANGED <<mailbox, clicks>> /\ missed' = IF MayAsk(r) THEN missed ELSE missed \cup {r}
  BY DEF PollAgain
<1>3. \A s : Answer(s)' = Answer(s)
  BY <1>2, SameAnswers
<1>4. AllOver' = AllOver
  BY <1>2 DEF AllOver
<1>5. ASSUME NEW s \in DOMAIN poll PROVE Told(s)'
  <2>1. CASE s = r
    BY <1>1, <1>2, <2>1 DEF Told
  <2>2. CASE s # r
    BY <1>1, <1>2, <1>3, <1>4, <2>2 DEF InboxInv, Told
  <2> QED BY <2>1, <2>2
<1> QED BY <1>1, <1>2, <1>5 DEF InboxInv, CountFresh

LEMMA InboxStep == InboxInv /\ [InboxNext]_inboxVars => InboxInv'
<1> SUFFICES ASSUME InboxInv, [InboxNext]_inboxVars PROVE InboxInv'
  OBVIOUS
<1>1. ASSUME NEW kind \in {"delete", "read"}, NEW chosen \in SUBSET Notes, Click(kind, chosen) PROVE InboxInv'
  BY <1>1, Clicks
<1>2. ASSUME NEW c \in DOMAIN clicks, ClickStep(c) PROVE InboxInv'
  BY <1>2, RequestEnds, OverStep DEF ClickStep
<1>3. CASE ChangedElsewhere
  <2>1. missed' = DOMAIN poll /\ UNCHANGED <<poll, clicks>>
    BY <1>3 DEF ChangedElsewhere, polling
  <2> QED BY <2>1 DEF InboxInv, PollsTyped, CountFresh, Told, AllOver
<1>4. ASSUME NEW r \in DOMAIN poll, Poll(r) \/ PollServed(r) \/ PollAgain(r) \/ PollBroken(r) PROVE InboxInv'
  BY <1>4, InboxPollStep, InboxServed, InboxPollAgain
<1>5. CASE UNCHANGED <<poll, inboxPage>>
  <2>1. \A r : Answer(r)' = Answer(r)
    BY <1>5, SameAnswers DEF inboxPage
  <2> QED BY <1>5, <2>1 DEF inboxPage, InboxInv, PollsTyped, CountFresh, Told, AllOver
<1> QED BY <1>1, <1>2, <1>3, <1>4, <1>5 DEF InboxNext, inboxVars, polling, Turn

(* When every click is over, the page of notifications and the count tell  *)
(* the truth at rest, or the page has missed a change and has not asked    *)
(* since: the clicks may overlap, and their requests be answered, fail,    *)
(* outlive the click or be overtaken by polls in any order (Promise.all    *)
(* and usePolling), for any number of notifications and clicks.            *)
THEOREM InboxCorrect == InboxSpec => []InboxTruthful
<1>1. InboxInv => InboxTruthful
  BY DEF InboxInv, InboxTruthful, Told, AllOver, AtRest, Loaded, UpToDateWith
<1> QED BY <1>1, InboxStarts, InboxStep, PTL DEF InboxSpec

-----------------------------------------------------------------------------
(* The page of tasks and lists. *)

Kinds == {"toggle", "remove", "save", "add"}
RequestPhases == {"none", "sent", "accepted", "refused"}
RequestSet(D) == [phase : RequestPhases, kind : Kinds, item : PageTasks \cup PageLists, done : D]
ItemsOf(kind) == IF kind \in {"toggle", "add"} THEN PageTasks ELSE PageLists
RequestState(x) == x \in RequestSet({x.done}) /\ (x.phase # "none" => x.item \in ItemsOf(x.kind))
RequestsTyped ==
  /\ request = [q \in Requests |-> request[q]]
  /\ \A q \in Requests : RequestState(request[q])

(* A task is put in a list that was created before it. *)
StoreTyped ==
  /\ list \in [PageLists -> {"new", "there", "deleted"}]
  /\ task \in [PageTasks -> {"new", "open", "done"}]
  /\ \A t \in PageTasks : task[t] # "new" => list[ListOf[t]] # "new"

(* What a request changes, for the resources the page follows.             *)
Affected(kind) == IF kind = "remove" THEN {"tasks", "lists"} ELSE IF kind = "save" THEN {"lists"} ELSE {"tasks"}

(* A request whose end the page has not seen yet: it was accepted and will *)
(* be followed by a reload, or it was ticked before it was accepted.       *)
Owes(q, r) ==
  \/ request[q].phase = "accepted" /\ r \in Affected(request[q].kind)
  \/ request[q].phase # "none" /\ request[q].kind = "toggle" /\ r = "tasks"

Truthful(r) ==
  ~exposed /\ ~poll[r].restart /\ (\A q \in Requests : ~Owes(q, r)) => UpToDateWith(poll[r], Content(r))

(* What is followed is up to date, or will be asked for again, once no     *)
(* request owes it a reload.                                               *)
PageInv ==
  /\ PollsTyped /\ DOMAIN poll \subseteq {"tasks", "lists"}
  /\ RequestsTyped
  /\ StoreTyped
  /\ exposed \in BOOLEAN
  /\ \A r \in DOMAIN poll : Truthful(r)

LEMMA NothingRequested == RequestState(NoRequest) /\ NoRequest.phase = "none"
BY TodoAssumption DEF NoRequest, RequestState, RequestSet, RequestPhases, Kinds

LEMMA PageStarts == TaskPageInit => PageInv
<1> SUFFICES ASSUME TaskPageInit PROVE PageInv
  OBVIOUS
<1>1. PICK resources \in Watched : PollingInit(resources)
  BY DEF TaskPageInit
<1>2. /\ PollsTyped /\ DOMAIN poll = resources
      /\ \A r \in DOMAIN poll : \A content : UpToDateWith(poll[r], content)
  BY <1>1, PollsStart
<1>3. resources \subseteq {"tasks", "lists"}
  BY WatchedAssumption
<1>4. RequestsTyped
  BY NothingRequested DEF TaskPageInit, RequestsTyped
<1>5. StoreTyped
  BY DEF TaskPageInit, StoreTyped
<1>6. \A r \in DOMAIN poll : Truthful(r)
  BY <1>2 DEF Truthful
<1> QED BY <1>2, <1>3, <1>4, <1>5, <1>6 DEF TaskPageInit, PageInv

(* A change in the service is seen in the resources it affects only. *)
LEMMA CarryAffects ==
  ASSUME StoreTyped, NEW kind \in Kinds, NEW item \in ItemsOf(kind), NEW done, Possible(kind, item),
         Carry(kind, item, done)
  PROVE  StoreTyped' /\ \A r \in {"tasks", "lists"} : r \notin Affected(kind) => Content(r)' = Content(r)
<1>1. CASE kind = "toggle"
  <2>1. item \in PageTasks /\ task[item] # "new" /\ list' = list
        /\ task' = [task EXCEPT ![item] = IF done THEN "done" ELSE "open"]
    BY <1>1 DEF ItemsOf, Possible, ThereIs, Carry
  <2>2. StoreTyped'
    BY <2>1 DEF StoreTyped
  <2> QED BY <1>1, <2>1, <2>2 DEF Affected, Content
<1>2. CASE kind = "remove"
  <2>1. item \in PageLists /\ list' = [list EXCEPT ![item] = "deleted"] /\ task' = task
    BY <1>2 DEF ItemsOf, Carry
  <2>2. StoreTyped'
    BY <2>1, ListOfAssumption DEF StoreTyped
  <2> QED BY <1>2, <2>2 DEF Affected
<1>3. CASE kind = "save"
  <2>1. item \in PageLists /\ list' = [list EXCEPT ![item] = "there"] /\ task' = task /\ list[item] # "deleted"
    BY <1>3 DEF ItemsOf, Carry, Possible
  <2>2. StoreTyped'
    BY <2>1, ListOfAssumption DEF StoreTyped
  <2>3. \A u \in PageTasks : ThereIs(u)' <=> ThereIs(u)
    BY <2>1, ListOfAssumption DEF ThereIs, StoreTyped
  <2>4. Content("tasks")' = Content("tasks")
    BY <2>1, <2>3 DEF Content
  <2> QED BY <1>3, <2>2, <2>4 DEF Affected
<1>4. CASE kind = "add"
  <2>1. item \in PageTasks /\ list' = list /\ list[ListOf[item]] = "there" /\ task' = [task EXCEPT ![item] = "open"]
    BY <1>4 DEF ItemsOf, Carry, Possible
  <2>2. StoreTyped'
    BY <2>1 DEF StoreTyped
  <2> QED BY <1>4, <2>1, <2>2 DEF Affected, Content
<1> QED BY <1>1, <1>2, <1>3, <1>4 DEF Kinds

LEMMA SameContent == UNCHANGED <<list, task>> => (StoreTyped' <=> StoreTyped) /\ \A r : Content(r)' = Content(r)
BY DEF StoreTyped, Content, ThereIs

-----------------------------------------------------------------------------
(* One request changes. *)
OnlyRequest(q) == RequestsTyped' /\ \A p \in Requests : p # q => request'[p] = request[p]

LEMMA RequestChanges ==
  ASSUME RequestsTyped, NEW q \in Requests, NEW new, RequestState(new), request' = [request EXCEPT ![q] = new]
  PROVE  OnlyRequest(q) /\ request'[q] = new
BY DEF RequestsTyped, OnlyRequest

(* Whoever else owes something still does. *)
LEMMA OthersOwe ==
  ASSUME NEW q \in Requests, OnlyRequest(q), NEW r, ~Owes(q, r), \A p \in Requests : ~Owes(p, r)'
  PROVE  \A p \in Requests : ~Owes(p, r)
BY DEF OnlyRequest, Owes

LEMMA ReplyTyped ==
  ASSUME RequestsTyped, NEW q \in Requests, NEW phase \in RequestPhases \ {"none"}, request[q].phase = "sent",
         Reply(q, phase)
  PROVE  OnlyRequest(q) /\ request'[q].phase = phase /\ request'[q].kind = request[q].kind
<1>1. PICK x : x = request[q]
  OBVIOUS
<1>2. x \in RequestSet({x.done}) /\ x.item \in ItemsOf(x.kind)
  BY <1>1 DEF RequestsTyped, RequestState
<1>3. PICK new : new = [x EXCEPT !.phase = phase]
  OBVIOUS
<1>4. new \in RequestSet({x.done}) /\ new.phase = phase /\ new.kind = x.kind /\ new.item = x.item /\ new.done = x.done
  BY <1>2, <1>3 DEF RequestSet
<1>5. RequestState(new)
  BY <1>2, <1>4 DEF RequestState
<1>6. request' = [request EXCEPT ![q] = new]
  BY <1>1, <1>3 DEF Reply, RequestsTyped
<1> QED BY <1>1, <1>4, <1>5, <1>6, RequestChanges

LEMMA SendTyped ==
  ASSUME RequestsTyped, NEW q \in Requests, NEW kind \in Kinds, NEW item \in ItemsOf(kind), NEW done,
         Send(q, kind, item, done)
  PROVE  /\ OnlyRequest(q) /\ request'[q].phase = "sent" /\ request'[q].kind = kind /\ request[q].phase = "none"
         /\ UNCHANGED <<list, task, exposed>>
<1>1. PICK new : new = [phase |-> "sent", kind |-> kind, item |-> item, done |-> done]
  OBVIOUS
<1>2. item \in PageTasks \cup PageLists
  BY DEF ItemsOf
<1>3. RequestState(new)
  BY <1>1, <1>2 DEF RequestState, RequestSet, RequestPhases
<1>4. request' = [request EXCEPT ![q] = new]
  BY <1>1 DEF Send
<1>5. OnlyRequest(q) /\ request'[q] = new
  BY <1>3, <1>4, RequestChanges
<1> QED BY <1>1, <1>5 DEF Send, NextRequest, Free

(* The page sends a request and shows nothing of it yet. *)
LEMMA SentQuietly ==
  ASSUME PageInv, NEW q \in Requests, NEW kind \in Kinds, NEW item \in ItemsOf(kind), NEW done,
         kind # "toggle", Send(q, kind, item, done), UNCHANGED poll
  PROVE  PageInv'
<1>1. /\ OnlyRequest(q) /\ request'[q].phase = "sent" /\ request'[q].kind = kind /\ request[q].phase = "none"
      /\ UNCHANGED <<list, task, exposed>>
  BY SendTyped DEF PageInv
<1>2. \A r : ~Owes(q, r)
  BY <1>1 DEF Owes
<1>3. ASSUME NEW r \in DOMAIN poll PROVE Truthful(r)'
  BY <1>1, <1>2, OthersOwe, SameContent DEF PageInv, Truthful
<1>4. PollsTyped'
  BY DEF PageInv, PollsTyped
<1> QED BY <1>1, <1>3, <1>4, SameContent DEF PageInv, OnlyRequest

(* toggle: the page shows the tick at once. *)
LEMMA ToggleStep == ASSUME PageInv, NEW q \in Requests, NEW t \in PageTasks, Toggle(q, t) PROVE PageInv'
<1>1. /\ OnlyRequest(q) /\ request'[q].phase = "sent" /\ request'[q].kind = "toggle" /\ request[q].phase = "none"
      /\ UNCHANGED <<list, task, exposed>>
  <2>1. "toggle" \in Kinds /\ t \in ItemsOf("toggle")
    BY DEF Kinds, ItemsOf
  <2> QED BY <2>1, SendTyped DEF PageInv, Toggle
<1>2. "tasks" \in DOMAIN poll
  BY DEF Toggle, ShownTasks, Followed
<1>3. PICK data : poll' = [poll EXCEPT !["tasks"] = Mutated(poll["tasks"], data)]
  BY DEF Toggle, Ticked
<1>4. PollsTyped' /\ DOMAIN poll' = DOMAIN poll /\ \A r \in DOMAIN poll : r # "tasks" => poll'[r] = poll[r]
  <2>1. PICK new : new = Mutated(poll["tasks"], data)
    OBVIOUS
  <2>2. PollState(new)
    BY <1>2, <2>1, PollMutated DEF PageInv, PollsTyped
  <2> QED BY <1>2, <1>3, <2>1, <2>2, PollOne DEF PageInv
<1>5. ASSUME NEW r \in DOMAIN poll PROVE Truthful(r)'
  <2>1. CASE r = "tasks"
    BY <1>1, <2>1 DEF Truthful, Owes
  <2>2. CASE r # "tasks"
    <3>1. ~Owes(q, r)
      BY <1>1 DEF Owes
    <3> QED BY <1>1, <1>4, <2>2, <3>1, OthersOwe, SameContent DEF PageInv, Truthful
  <2> QED BY <2>1, <2>2
<1> QED BY <1>1, <1>4, <1>5, SameContent DEF PageInv, OnlyRequest

(* The service handles a request: it owes what it has changed. *)
LEMMA HandleStep == ASSUME PageInv, NEW q \in Requests, Handle(q) PROVE PageInv'
<1>1. PICK it : it = request[q]
  OBVIOUS
<1>2. it.phase = "sent" /\ it.kind \in Kinds /\ it.item \in ItemsOf(it.kind)
  BY <1>1 DEF Handle, Sent, PageInv, RequestsTyped, RequestState, RequestSet
<1>3. PollsTyped' /\ poll' = poll /\ exposed' = exposed
  BY DEF Handle, polling, PageInv, PollsTyped
<1>4. CASE Carry(it.kind, it.item, it.done) /\ Reply(q, "accepted") /\ Possible(it.kind, it.item)
  <2>1. OnlyRequest(q) /\ request'[q].phase = "accepted" /\ request'[q].kind = it.kind
    BY <1>1, <1>2, <1>4, ReplyTyped DEF PageInv, RequestPhases
  <2>2. StoreTyped' /\ \A r \in {"tasks", "lists"} : r \notin Affected(it.kind) => Content(r)' = Content(r)
    BY <1>2, <1>4, CarryAffects DEF PageInv
  <2>3. ASSUME NEW r \in DOMAIN poll PROVE Truthful(r)'
    <3>1. CASE r \in Affected(it.kind)
      BY <2>1, <3>1 DEF Truthful, Owes
    <3>2. CASE r \notin Affected(it.kind)
      <4>1. ~Owes(q, r)
        BY <1>1, <3>2 DEF Owes, Affected
      <4>2. Content(r)' = Content(r)
        BY <2>2, <3>2 DEF PageInv
      <4> QED BY <1>3, <2>1, <4>1, <4>2, OthersOwe DEF PageInv, Truthful
    <3> QED BY <3>1, <3>2
  <2> QED BY <1>3, <2>1, <2>2, <2>3 DEF PageInv, OnlyRequest
<1>5. CASE Reply(q, "refused") /\ UNCHANGED <<list, task>>
  <2>1. OnlyRequest(q) /\ request'[q].phase = "refused" /\ request'[q].kind = it.kind
    BY <1>1, <1>2, <1>5, ReplyTyped DEF PageInv, RequestPhases
  <2>2. ASSUME NEW r \in DOMAIN poll PROVE Truthful(r)'
    <3>1. Owes(q, r) => Owes(q, r)'
      BY <1>1, <1>2, <2>1 DEF Owes
    <3> QED BY <1>3, <1>5, <2>1, <3>1, OthersOwe, SameContent DEF PageInv, Truthful
  <2> QED BY <1>3, <1>5, <2>1, <2>2, SameContent DEF PageInv, OnlyRequest
<1> QED BY <1>1, <1>4, <1>5 DEF Handle

(* The page cannot know: nothing is promised any more. *)
LEMMA Exposed ==
  ASSUME PageInv, PollsTyped', DOMAIN poll' = DOMAIN poll, RequestsTyped', StoreTyped', exposed' = TRUE
  PROVE  PageInv'
BY DEF PageInv, Truthful

LEMMA LoseStep == ASSUME PageInv, NEW q \in Requests, Lose(q) PROVE PageInv'
<1>1. PICK it : it = request[q]
  OBVIOUS
<1>2. it.phase = "sent" /\ it.kind \in Kinds /\ it.item \in ItemsOf(it.kind)
  BY <1>1 DEF Lose, Sent, PageInv, RequestsTyped, RequestState, RequestSet
<1>3. PollsTyped' /\ DOMAIN poll' = DOMAIN poll /\ exposed' = TRUE
  BY DEF Lose, polling, PageInv, PollsTyped
<1>4. RequestsTyped'
  BY <1>1, <1>2, ReplyTyped DEF Lose, PageInv, RequestPhases, OnlyRequest
<1>5. StoreTyped'
  <2>1. CASE UNCHANGED <<list, task>>
    BY <2>1, SameContent DEF PageInv
  <2>2. CASE Possible(it.kind, it.item) /\ Carry(it.kind, it.item, it.done)
    BY <1>2, <2>2, CarryAffects DEF PageInv
  <2> QED BY <1>1, <2>1, <2>2 DEF Lose
<1> QED BY <1>3, <1>4, <1>5, Exposed

LEMMA OutsideStep == ASSUME PageInv, ChangeOutside PROVE PageInv'
<1>1. PICK kind \in Kinds, item \in PageLists \cup PageTasks, done \in BOOLEAN :
        /\ (item \in PageTasks) = (kind \in {"toggle", "add"})
        /\ Possible(kind, item)
        /\ Carry(kind, item, done)
  BY DEF ChangeOutside, Kinds
<1>2. item \in ItemsOf(kind)
  BY <1>1 DEF ItemsOf
<1>3. StoreTyped'
  BY <1>1, <1>2, CarryAffects DEF PageInv
<1>4. PollsTyped' /\ DOMAIN poll' = DOMAIN poll /\ exposed' = TRUE /\ RequestsTyped'
  BY DEF ChangeOutside, polling, PageInv, PollsTyped, RequestsTyped
<1> QED BY <1>3, <1>4, Exposed

-----------------------------------------------------------------------------
(* The page has the answer to a request. *)
LEMMA FinishTyped ==
  ASSUME RequestsTyped, NEW q \in Requests, NEW phase, NEW kind, Finish(q, phase, kind)
  PROVE  /\ OnlyRequest(q) /\ \A r : ~Owes(q, r)'
         /\ request[q].phase = phase /\ request[q].kind = kind /\ UNCHANGED <<list, task>>
         /\ phase = "accepted" \/ kind # "toggle" => UNCHANGED exposed
<1>1. request' = [request EXCEPT ![q] = NoRequest]
  BY DEF Finish
<1>2. OnlyRequest(q) /\ request'[q] = NoRequest
  BY <1>1, NothingRequested, RequestChanges
<1>3. \A r : ~Owes(q, r)'
  BY <1>2, NothingRequested DEF Owes
<1> QED BY <1>2, <1>3 DEF Finish

(* It was accepted, and what it affected is asked for again. *)
LEMMA ReloadedAfter ==
  ASSUME PageInv, NEW q \in Requests, NEW kind, Finish(q, "accepted", kind),
         PollsTyped', DOMAIN poll' = DOMAIN poll,
         \A r \in DOMAIN poll : IF r \in Affected(kind) THEN poll'[r].restart ELSE poll'[r] = poll[r]
  PROVE  PageInv'
<1>1. /\ OnlyRequest(q) /\ \A r : ~Owes(q, r)'
      /\ request[q].phase = "accepted" /\ request[q].kind = kind /\ UNCHANGED <<list, task, exposed>>
  BY FinishTyped DEF PageInv
<1>2. ASSUME NEW r \in DOMAIN poll, r \notin Affected(kind) PROVE Truthful(r)'
  <2>1. ~Owes(q, r)
    BY <1>1, <1>2 DEF Owes, Affected
  <2> QED BY <1>1, <1>2, <2>1, OthersOwe, SameContent DEF PageInv, Truthful
<1>3. ASSUME NEW r \in DOMAIN poll, r \in Affected(kind) PROVE Truthful(r)'
  BY <1>3 DEF Truthful
<1> QED BY <1>1, <1>2, <1>3, SameContent DEF PageInv, OnlyRequest

LEMMA AnswerStep ==
  ASSUME PageInv, NEW q \in Requests,
         Toggled(q) \/ ListRemoved(q) \/ ListSaved(q) \/ TaskAdded(q)
  PROVE  PageInv'
<1>1. ASSUME NEW kind, Finish(q, "accepted", kind), poll' = ReloadOf(Affected(kind))
      PROVE  PageInv'
  <2>1. /\ PollsTyped' /\ DOMAIN poll' = DOMAIN poll
        /\ \A r \in DOMAIN poll : IF r \in Affected(kind) THEN poll'[r].restart ELSE poll'[r] = poll[r]
    BY <1>1, PollsReload DEF PageInv, ReloadOf
  <2> QED BY <1>1, <2>1, ReloadedAfter
<1>2. CASE Toggled(q) \/ TaskAdded(q) \/ ListRemoved(q)
  BY <1>1, <1>2 DEF Toggled, TaskAdded, ListRemoved, Affected
<1>3. CASE ListSaved(q)
  <2>1. Finish(q, "accepted", "save")
    BY <1>3 DEF ListSaved
  <2>2. PICK data : poll' = [poll EXCEPT !["lists"] = Reloading(Mutated(poll["lists"], data))]
    BY <1>3 DEF ListSaved
  <2>3. CASE "lists" \in DOMAIN poll
    <3>1. PICK new : new = Reloading(Mutated(poll["lists"], data))
      OBVIOUS
    <3>2. PollState(new) /\ new.restart
      BY <2>3, <3>1, PollMutated, PollReloading DEF PageInv, PollsTyped
    <3>3. /\ PollsTyped' /\ DOMAIN poll' = DOMAIN poll /\ poll'["lists"] = new
          /\ \A s \in DOMAIN poll : s # "lists" => poll'[s] = poll[s]
      BY <2>2, <2>3, <3>1, <3>2, PollOne DEF PageInv
    <3> QED BY <2>1, <3>2, <3>3, ReloadedAfter DEF Affected
  <2>4. CASE "lists" \notin DOMAIN poll
    <3>1. poll' = poll
      BY <2>2, <2>4 DEF PageInv, PollsTyped
    <3>2. PollsTyped'
      BY <3>1 DEF PageInv, PollsTyped
    <3> QED BY <2>1, <2>4, <3>1, <3>2, ReloadedAfter DEF Affected
  <2> QED BY <2>3, <2>4
<1> QED BY <1>2, <1>3

LEMMA UndoStep == ASSUME PageInv, NEW q \in Requests, ToggleUndone(q) PROVE PageInv'
<1>1. OnlyRequest(q) /\ UNCHANGED <<list, task>>
  BY FinishTyped DEF ToggleUndone, PageInv
<1>2. PICK data : poll' = [poll EXCEPT !["tasks"] = Mutated(poll["tasks"], data)]
  BY DEF ToggleUndone, Ticked
<1>3. PollsTyped' /\ DOMAIN poll' = DOMAIN poll
  <2>1. CASE "tasks" \in DOMAIN poll
    <3>1. PICK new : new = Mutated(poll["tasks"], data)
      OBVIOUS
    <3>2. PollState(new)
      BY <2>1, <3>1, PollMutated DEF PageInv, PollsTyped
    <3> QED BY <1>2, <2>1, <3>1, <3>2, PollOne DEF PageInv
  <2>2. CASE "tasks" \notin DOMAIN poll
    <3>1. poll' = poll
      BY <1>2, <2>2 DEF PageInv, PollsTyped
    <3> QED BY <3>1 DEF PageInv, PollsTyped
  <2> QED BY <2>1, <2>2
<1>4. exposed' = TRUE
  BY DEF ToggleUndone
<1>5. StoreTyped'
  BY <1>1, SameContent DEF PageInv
<1> QED BY <1>1, <1>3, <1>4, <1>5, Exposed DEF OnlyRequest

LEMMA RequestRefused == ASSUME PageInv, NEW q \in Requests, Refused(q) PROVE PageInv'
<1>1. PICK kind \in {"remove", "save", "add"} : Finish(q, "refused", kind)
  BY DEF Refused
<1>2. /\ OnlyRequest(q) /\ request[q].phase = "refused" /\ request[q].kind = kind
      /\ UNCHANGED <<list, task, exposed>>
  BY <1>1, FinishTyped DEF PageInv
<1>3. poll' = poll /\ PollsTyped'
  BY DEF Refused, PageInv, PollsTyped
<1>4. ASSUME NEW r \in DOMAIN poll PROVE Truthful(r)'
  <2>1. ~Owes(q, r)
    BY <1>2 DEF Owes
  <2> QED BY <1>2, <1>3, <2>1, OthersOwe, SameContent DEF PageInv, Truthful
<1> QED BY <1>2, <1>3, <1>4, SameContent DEF PageInv, OnlyRequest

-----------------------------------------------------------------------------
(* The polls of the page. *)
LEMMA SameRequests ==
  ASSUME request' = request
  PROVE  (RequestsTyped' <=> RequestsTyped) /\ \A q, r : Owes(q, r)' <=> Owes(q, r)
BY DEF RequestsTyped, Owes

LEMMA PagePollStep == ASSUME PageInv, NEW r \in DOMAIN poll, PollStep(r) \/ Arrive(r) \/ PollLost(r) PROVE PageInv'
<1>1. Continues(r, Content(r))
  BY PollContinues DEF PageInv, PollStep, Arrive, PollLost
<1>2. UNCHANGED <<list, task, request, exposed>>
  BY DEF PollStep, Arrive, PollLost, page
<1>3. ASSUME NEW s \in DOMAIN poll PROVE Truthful(s)'
  BY <1>1, <1>2, SameContent, SameRequests DEF PageInv, Continues, Truthful
<1> QED BY <1>1, <1>2, <1>3, SameContent, SameRequests DEF PageInv, Continues

LEMMA PageReload == ASSUME PageInv, NEW r \in DOMAIN poll, Reload(r) PROVE PageInv'
<1>1. /\ PollsTyped' /\ DOMAIN poll' = DOMAIN poll
      /\ \A s \in DOMAIN poll : s # r => poll'[s] = poll[s]
      /\ MayAsk(r) => \A content : UpToDateWith(poll'[r], content)
  BY PollRestarts DEF PageInv, Reload
<1>2. UNCHANGED <<list, task, request>> /\ exposed' = (exposed \/ ~MayAsk(r))
  BY DEF Reload
<1>3. ASSUME NEW s \in DOMAIN poll PROVE Truthful(s)'
  BY <1>1, <1>2, SameContent, SameRequests DEF PageInv, Truthful
<1> QED BY <1>1, <1>2, <1>3, SameContent, SameRequests DEF PageInv

LEMMA PageRests == ASSUME PageInv, UNCHANGED <<poll, list, task, request, exposed>> PROVE PageInv'
<1>1. PollsTyped'
  BY DEF PageInv, PollsTyped
<1>2. ASSUME NEW s \in DOMAIN poll PROVE Truthful(s)'
  BY SameContent, SameRequests DEF PageInv, Truthful
<1> QED BY <1>1, <1>2, SameContent, SameRequests DEF PageInv

LEMMA PageStep == PageInv /\ [TaskPageNext]_taskPageVars => PageInv'
<1> SUFFICES ASSUME PageInv, [TaskPageNext]_taskPageVars PROVE PageInv'
  OBVIOUS
<1>1. ASSUME NEW q \in Requests, NEW t \in PageTasks, Toggle(q, t) \/ AddTask(q, t) PROVE PageInv'
  BY <1>1, ToggleStep, SentQuietly DEF AddTask, Kinds, ItemsOf
<1>2. ASSUME NEW q \in Requests, NEW l \in PageLists, RemoveList(q, l) \/ SaveList(q, l) PROVE PageInv'
  BY <1>2, SentQuietly DEF RemoveList, SaveList, Kinds, ItemsOf
<1>3. ASSUME NEW q \in Requests, RequestStep(q) \/ Lose(q) PROVE PageInv'
  BY <1>3, HandleStep, AnswerStep, UndoStep, RequestRefused, LoseStep DEF RequestStep
<1>4. ASSUME NEW v, Select(v) PROVE PageInv'
  BY <1>4, PageRests DEF Select, polling
<1>5. CASE ChangeOutside
  BY <1>5, OutsideStep
<1>6. ASSUME NEW r \in Followed, PollStep(r) \/ Reload(r) \/ Arrive(r) \/ PollLost(r) PROVE PageInv'
  BY <1>6, PagePollStep, PageReload DEF Followed
<1>7. CASE TurnTab
  BY <1>7, PageRests DEF TurnTab, Turn, page
<1>8. CASE UNCHANGED taskPageVars
  BY <1>8, PageRests DEF taskPageVars, polling, page
<1> QED BY <1>1, <1>2, <1>3, <1>4, <1>5, <1>6, <1>7, <1>8 DEF TaskPageNext

(* At rest the page of tasks shows what is stored, whatever it showed      *)
(* before it was allowed to, and in whichever order the answers to its     *)
(* polls and requests arrive, for any number of tasks, lists and requests, *)
(* and whichever of the two resources it follows.                          *)
THEOREM PageCorrect == TaskPageSpec => []PageTruthful
<1>1. PageInv => PageTruthful
  BY DEF PageInv, Truthful, PageTruthful, Followed, Shown, AtRest, Loaded, UpToDateWith, Owes
<1> QED BY <1>1, PageStarts, PageStep, PTL DEF TaskPageSpec

-----------------------------------------------------------------------------
(* Optimistic locking of a routine. *)

EditorPhases == {"closed", "open", "switching", "rotating", "conflict"}
PageState ==
  [phase : EditorPhases, base : Definitions \cup {None}, active : BOOLEAN, version : Nat, reply : Nat, adopted : BOOLEAN]

(* An editor that has the current version and did not take it over from a  *)
(* rotation has seen everything others have written.                       *)
Informed(e) == editor[e].version = row.version /\ ~editor[e].adopted => ~foreign[e]

EditingInv ==
  /\ row \in RoutineRow /\ row.trigger = Kind
  /\ editor \in [Editors -> PageState]
  /\ foreign \in [Editors -> BOOLEAN]
  /\ \A e \in Editors : editor[e].version <= row.version /\ editor[e].reply <= row.version /\ Informed(e)

-----------------------------------------------------------------------------
(* Every write counts the version.                                         *)
Counts(new) == new \in RoutineRow /\ new.trigger = Kind /\ new.version = row.version + 1

LEMMA NoSchedule ==
  ASSUME NEW active, NEW clock
  PROVE  FirstRun(Kind, active, clock) = None
BY KindAssumption, TriggerAssumption DEF FirstRun

Alike(r, s) == s \in RoutineRow /\ s.trigger = r.trigger /\ s.version = r.version /\ s.token = r.token

(* One field of a row changes. *)
LEMMA RowFields ==
  ASSUME NEW r \in RoutineRow
  PROVE  /\ \A x \in Definitions : Alike(r, [r EXCEPT !.definition = x])
         /\ \A x \in BOOLEAN : Alike(r, [r EXCEPT !.active = x])
         /\ Alike(r, [r EXCEPT !.next = None])
         /\ \A x \in Trigger : LET s == [r EXCEPT !.trigger = x]
                              IN s \in RoutineRow /\ s.trigger = x /\ s.version = r.version /\ s.token = r.token
         /\ \A x \in Nat : LET s == [r EXCEPT !.token = x]
                          IN s \in RoutineRow /\ s.trigger = r.trigger /\ s.version = r.version
         /\ \A x \in Nat \ {0} : LET s == [r EXCEPT !.version = x]
                                IN s \in RoutineRow /\ s.trigger = r.trigger /\ s.version = x
<1>1. \A x \in Definitions : Alike(r, [r EXCEPT !.definition = x])
  BY DEF RoutineRow, Alike
<1>2. \A x \in BOOLEAN : Alike(r, [r EXCEPT !.active = x])
  BY DEF RoutineRow, Alike
<1>3. Alike(r, [r EXCEPT !.next = None])
  BY DEF RoutineRow, Alike
<1>4. \A x \in Trigger : LET s == [r EXCEPT !.trigger = x]
                       IN s \in RoutineRow /\ s.trigger = x /\ s.version = r.version /\ s.token = r.token
  BY DEF RoutineRow
<1>5. \A x \in Nat : LET s == [r EXCEPT !.token = x]
                   IN s \in RoutineRow /\ s.trigger = r.trigger /\ s.version = r.version
  BY DEF RoutineRow
<1>6. \A x \in Nat \ {0} : LET s == [r EXCEPT !.version = x]
                         IN s \in RoutineRow /\ s.trigger = r.trigger /\ s.version = x
  BY DEF RoutineRow
<1> QED BY <1>1, <1>2, <1>3, <1>4, <1>5, <1>6

LEMMA Counted ==
  ASSUME EditingInv, NEW r \in RoutineRow, r.trigger = Kind, r.version = row.version
  PROVE  Counts([r EXCEPT !.version = row.version + 1])
<1>1. row.version + 1 \in Nat \ {0}
  BY DEF EditingInv, RoutineRow
<1> QED BY <1>1, RowFields DEF Counts

LEMMA Writes ==
  ASSUME EditingInv, NEW definition \in Definitions, NEW active \in BOOLEAN
  PROVE  /\ Counts(Updated(row, definition, Kind, 0))
         /\ Counts(Restyled(row, definition))
         /\ Counts(Activated(row, active, 0))
         /\ Counts(Rotated(row))
<1>1. FirstRun(Kind, row.active, 0) = None /\ FirstRun(row.trigger, active, 0) = None
  BY NoSchedule DEF EditingInv
<1>2. TokenFor(row.token, Kind) \in Nat /\ row.token + 1 \in Nat
  BY DEF EditingInv, RoutineRow, TokenFor
<1>3. Kind \in Trigger
  BY KindAssumption DEF Trigger
<1>4. row \in RoutineRow /\ row.trigger = Kind
  BY DEF EditingInv
<1>5. Counts(Updated(row, definition, Kind, 0))
  <2> DEFINE r1 == [row EXCEPT !.definition = definition]
             r2 == [r1 EXCEPT !.trigger = Kind]
             r3 == [r2 EXCEPT !.next = None]
             r4 == [r3 EXCEPT !.token = TokenFor(row.token, Kind)]
             r5 == [r4 EXCEPT !.version = row.version + 1]
  <2>1. Updated(row, definition, Kind, 0) = r5
    BY <1>1 DEF Updated
  <2>2. Alike(row, r1)
    BY <1>4, RowFields
  <2> HIDE DEF r1
  <2>3. r2 \in RoutineRow /\ r2.trigger = Kind /\ r2.version = row.version
    BY <1>3, <2>2, RowFields DEF Alike
  <2> HIDE DEF r2
  <2>4. r3 \in RoutineRow /\ r3.trigger = Kind /\ r3.version = row.version
    BY <2>3, RowFields DEF Alike
  <2> HIDE DEF r3
  <2>5. r4 \in RoutineRow /\ r4.trigger = Kind /\ r4.version = row.version
    BY <1>2, <2>4, RowFields
  <2> HIDE DEF r4
  <2>6. Counts(r5)
    BY <2>5, Counted
  <2> HIDE DEF r5
  <2> QED BY <2>1, <2>6
<1>6. Counts(Restyled(row, definition))
  <2> DEFINE r1 == [row EXCEPT !.definition = definition]
             r2 == [r1 EXCEPT !.version = row.version + 1]
  <2>1. Restyled(row, definition) = r2
    BY DEF Restyled
  <2>2. Alike(row, r1)
    BY <1>4, RowFields
  <2> HIDE DEF r1
  <2>3. Counts(r2)
    BY <1>4, <2>2, Counted DEF Alike
  <2> HIDE DEF r2
  <2> QED BY <2>1, <2>3
<1>7. Counts(Activated(row, active, 0))
  <2> DEFINE r1 == [row EXCEPT !.active = active]
             r2 == [r1 EXCEPT !.next = None]
             r3 == [r2 EXCEPT !.version = row.version + 1]
  <2>1. Activated(row, active, 0) = r3
    BY <1>1 DEF Activated
  <2>2. Alike(row, r1)
    BY <1>4, RowFields
  <2> HIDE DEF r1
  <2>3. Alike(r1, r2)
    BY <2>2, RowFields DEF Alike
  <2> HIDE DEF r2
  <2>4. Counts(r3)
    BY <1>4, <2>2, <2>3, Counted DEF Alike
  <2> HIDE DEF r3
  <2> QED BY <2>1, <2>4
<1>8. Counts(Rotated(row))
  <2> DEFINE r1 == [row EXCEPT !.token = row.token + 1]
             r2 == [r1 EXCEPT !.version = row.version + 1]
  <2>1. Rotated(row) = r2
    BY DEF Rotated
  <2>2. r1 \in RoutineRow /\ r1.trigger = Kind /\ r1.version = row.version
    BY <1>2, <1>4, RowFields
  <2> HIDE DEF r1
  <2>3. Counts(r2)
    BY <2>2, Counted
  <2> HIDE DEF r2
  <2> QED BY <2>1, <2>3
<1> QED BY <1>5, <1>6, <1>7, <1>8

(* Whoever has the version before a write does not have the one after it.  *)
LEMMA Outdated ==
  ASSUME EditingInv, Counts(row'), NEW f \in Editors, editor'[f].version = editor[f].version,
         editor'[f].reply \in {editor[f].reply, 0, row'.version}
  PROVE  editor'[f].version <= row'.version /\ editor'[f].reply <= row'.version /\ Informed(f)'
<1>1. row.version \in Nat /\ row'.version = row.version + 1
  BY DEF EditingInv, RoutineRow, Counts
<1>2. editor[f].version \in Nat /\ editor[f].version <= row.version /\ editor[f].reply \in Nat
        /\ editor[f].reply <= row.version
  BY DEF EditingInv, PageState
<1> QED BY <1>1, <1>2 DEF Informed

(* A page that is closed has no version. *)
LEMMA ClosedPage == Closed \in PageState /\ Closed.version = 0 /\ Closed.reply = 0
BY DEF Closed, PageState, EditorPhases

-----------------------------------------------------------------------------
(* What a write of a page, or of others, leaves behind.                    *)
Touches(e) == \A f \in Editors : f # e => editor'[f] = editor[f]

LEMMA WrittenBy ==
  ASSUME EditingInv, NEW e \in Editors, Counts(row'), foreign' \in [Editors -> BOOLEAN],
         editor' \in [Editors -> PageState], Touches(e),
         \/ editor'[e].version = editor[e].version /\ editor'[e].reply \in {editor[e].reply, 0, row'.version}
         \/ editor'[e].version = 0 /\ editor'[e].reply = 0
  PROVE  EditingInv'
<1>1. ASSUME NEW f \in Editors
      PROVE  editor'[f].version <= row'.version /\ editor'[f].reply <= row'.version /\ Informed(f)'
  <2>1. CASE editor'[f].version = editor[f].version /\ editor'[f].reply \in {editor[f].reply, 0, row'.version}
    BY <2>1, Outdated
  <2>2. CASE editor'[f].version = 0 /\ editor'[f].reply = 0
    BY <2>2 DEF Informed, Counts, RoutineRow
  <2> QED BY <2>1, <2>2 DEF Touches
<1> QED BY <1>1 DEF EditingInv, Counts

(* Nothing is written: only one page changes. *)
LEMMA PageOnly ==
  ASSUME EditingInv, NEW e \in Editors, UNCHANGED row, foreign' \in [Editors -> BOOLEAN],
         editor' \in [Editors -> PageState], Touches(e), \A f \in Editors : f # e => foreign'[f] = foreign[f],
         editor'[e].version <= row.version, editor'[e].reply <= row.version, Informed(e)'
  PROVE  EditingInv'
<1>1. ASSUME NEW f \in Editors, f # e
      PROVE  editor'[f].version <= row'.version /\ editor'[f].reply <= row'.version /\ Informed(f)'
  BY <1>1 DEF EditingInv, Touches, Informed
<1> QED BY <1>1 DEF EditingInv

-----------------------------------------------------------------------------
LEMMA EditingStarts == Init => EditingInv
<1> SUFFICES ASSUME Init PROVE EditingInv
  OBVIOUS
<1>1. PICK definition \in Definitions : row = Inserted(definition, Kind)
  BY DEF Init
<1>2. row \in RoutineRow /\ row.trigger = Kind
  <2>1. TokenFor(0, Kind) \in Nat /\ Kind \in Trigger
    BY KindAssumption DEF TokenFor, Trigger
  <2> QED BY <1>1, <2>1 DEF Inserted, RoutineRow
<1>3. \A e \in Editors : editor[e] = Closed /\ ~foreign[e]
  BY DEF Init
<1>4. editor \in [Editors -> PageState] /\ foreign \in [Editors -> BOOLEAN]
  BY ClosedPage DEF Init
<1> QED BY <1>2, <1>3, <1>4, ClosedPage DEF EditingInv, Informed, RoutineRow

LEMMA LoadStep == ASSUME EditingInv, NEW e \in Editors, Load(e) PROVE EditingInv'
<1> DEFINE p == [Closed EXCEPT !.phase = "open", !.base = row.definition, !.active = row.active, !.version = row.version]
<1>1. p \in PageState /\ p.version = row.version /\ p.reply = 0
  <2> DEFINE r1 == [Closed EXCEPT !.phase = "open"]
             r2 == [r1 EXCEPT !.base = row.definition]
             r3 == [r2 EXCEPT !.active = row.active]
             r4 == [r3 EXCEPT !.version = row.version]
  <2>1. row.definition \in Definitions /\ row.active \in BOOLEAN /\ row.version \in Nat
    BY DEF EditingInv, RoutineRow
  <2>2. p = r4
    OBVIOUS
  <2>3. r1 \in PageState /\ r1.reply = 0
    BY DEF Closed, PageState, EditorPhases
  <2> HIDE DEF r1
  <2>4. r2 \in PageState /\ r2.reply = 0
    BY <2>1, <2>3 DEF PageState
  <2> HIDE DEF r2
  <2>5. r3 \in PageState /\ r3.reply = 0
    BY <2>1, <2>4 DEF PageState
  <2> HIDE DEF r3
  <2>6. r4 \in PageState /\ r4.reply = 0 /\ r4.version = row.version
    BY <2>1, <2>5 DEF PageState
  <2> HIDE DEF r4, p
  <2> QED BY <2>2, <2>6
<1>2. editor' = [editor EXCEPT ![e] = p] /\ foreign' = [foreign EXCEPT ![e] = FALSE] /\ UNCHANGED row
  BY DEF Load
<1> HIDE DEF p
<1>3. editor' \in [Editors -> PageState] /\ Touches(e) /\ editor'[e] = p
  BY <1>1, <1>2 DEF EditingInv, Touches
<1>4. foreign' \in [Editors -> BOOLEAN] /\ ~foreign'[e] /\ \A f \in Editors : f # e => foreign'[f] = foreign[f]
  BY <1>2 DEF EditingInv
<1>5. editor'[e].version <= row.version /\ editor'[e].reply <= row.version
  BY <1>1, <1>3 DEF EditingInv, RoutineRow
<1> QED BY <1>2, <1>3, <1>4, <1>5, PageOnly DEF Informed

(* A page that changes only its phase. *)
LEMMA OtherPhase ==
  ASSUME EditingInv, NEW e \in Editors, NEW phase \in EditorPhases
  PROVE  LET p == [editor[e] EXCEPT !.phase = phase]
         IN p \in PageState /\ p.version = editor[e].version /\ p.reply = editor[e].reply /\ p.adopted = editor[e].adopted
BY DEF EditingInv, PageState

LEMMA SaveRefusedStep == ASSUME EditingInv, NEW e \in Editors, SaveRefused(e) PROVE EditingInv'
<1> DEFINE p == [editor[e] EXCEPT !.phase = "conflict"]
<1>1. p \in PageState /\ p.version = editor[e].version /\ p.reply = editor[e].reply /\ p.adopted = editor[e].adopted
  BY OtherPhase DEF EditorPhases
<1>2. editor' = [editor EXCEPT ![e] = p] /\ UNCHANGED <<row, foreign>>
  BY DEF SaveRefused, EditingInv
<1> HIDE DEF p
<1>3. editor' \in [Editors -> PageState] /\ Touches(e) /\ editor'[e] = p
  BY <1>1, <1>2 DEF EditingInv, Touches
<1> QED BY <1>1, <1>2, <1>3, PageOnly DEF EditingInv, Informed

LEMMA ForeignAfter == ASSUME EditingInv, NEW e \in Editors, ChangedBy(e) PROVE foreign' \in [Editors -> BOOLEAN]
BY DEF EditingInv, ChangedBy

LEMMA AcceptedStep ==
  ASSUME EditingInv, NEW e \in Editors, NEW definition \in Definitions, NEW active \in BOOLEAN,
         SaveAccepted(e, definition, active)
  PROVE  EditingInv'
<1>1. Counts(row') /\ foreign' \in [Editors -> BOOLEAN]
  BY Writes, ForeignAfter DEF SaveAccepted, Write
<1>2. CASE UNCHANGED editor
  BY <1>1, <1>2, WrittenBy DEF EditingInv, Touches
<1>3. CASE editor' = [editor EXCEPT ![e] = Closed]
  <2>1. editor' \in [Editors -> PageState] /\ Touches(e) /\ editor'[e] = Closed
    BY <1>3, ClosedPage DEF EditingInv, Touches
  <2> QED BY <1>1, <2>1, ClosedPage, WrittenBy
<1>4. CASE editor' = [editor EXCEPT ![e] = [editor[e] EXCEPT !.phase = "switching", !.active = active]]
  <2> DEFINE p == [editor[e] EXCEPT !.phase = "switching", !.active = active]
  <2>1. p \in PageState /\ p.version = editor[e].version /\ p.reply = editor[e].reply
    BY DEF EditingInv, PageState, EditorPhases
  <2> HIDE DEF p
  <2>2. editor' \in [Editors -> PageState] /\ Touches(e) /\ editor'[e] = p
    BY <1>4, <2>1 DEF EditingInv, Touches, p
  <2> QED BY <1>1, <2>1, <2>2, WrittenBy
<1>5. \/ UNCHANGED editor
      \/ editor' = [editor EXCEPT ![e] = Closed]
      \/ editor' = [editor EXCEPT ![e] = [editor[e] EXCEPT !.phase = "switching", !.active = active]]
  BY DEF SaveAccepted, EditingInv
<1> QED BY <1>2, <1>3, <1>4, <1>5

LEMMA SwitchStep == ASSUME EditingInv, NEW e \in Editors, Switch(e) PROVE EditingInv'
<1>1. PICK phase \in {"closed", "open"} :
        /\ phase = "closed" => row' # row
        /\ editor' = [editor EXCEPT ![e] = IF phase = "closed" THEN Closed ELSE [@ EXCEPT !.phase = "open"]]
  BY DEF Switch
<1> DEFINE p == IF phase = "closed" THEN Closed ELSE [editor[e] EXCEPT !.phase = "open"]
<1>2. /\ p \in PageState
      /\ \/ phase = "open" /\ p.version = editor[e].version /\ p.reply = editor[e].reply /\ p.adopted = editor[e].adopted
         \/ phase = "closed" /\ p.version = 0 /\ p.reply = 0
  <2>1. CASE phase = "closed"
    BY <2>1, ClosedPage
  <2>2. CASE phase = "open"
    BY <2>2, OtherPhase DEF EditorPhases
  <2> QED BY <2>1, <2>2
<1>3. editor' = [editor EXCEPT ![e] = p]
  BY <1>1 DEF EditingInv
<1> HIDE DEF p
<1>4. editor' \in [Editors -> PageState] /\ Touches(e) /\ editor'[e] = p
  BY <1>2, <1>3 DEF EditingInv, Touches
<1>5. CASE Write(Activated(row, editor[e].active, 0)) /\ ChangedBy(e)
  <2>1. editor[e].active \in BOOLEAN
    BY DEF EditingInv, PageState
  <2>2. row.definition \in Definitions
    BY DEF EditingInv, RoutineRow
  <2>3. Counts(row') /\ foreign' \in [Editors -> BOOLEAN]
    BY <1>5, <2>1, <2>2, Writes, ForeignAfter DEF Write
  <2> QED BY <1>2, <1>4, <2>3, WrittenBy
<1>6. CASE UNCHANGED <<row, foreign>>
  <2>1. phase = "open"
    BY <1>1, <1>6
  <2> QED BY <1>2, <1>4, <1>6, <2>1, PageOnly DEF EditingInv, Informed
<1> QED BY <1>5, <1>6 DEF Switch

LEMMA RotateStep == ASSUME EditingInv, NEW e \in Editors, Rotate(e) PROVE EditingInv'
<1> DEFINE p == [[editor[e] EXCEPT !.phase = "rotating"] EXCEPT !.reply = row.version + 1]
<1>1. row.definition \in Definitions /\ row.version + 1 \in Nat
  BY DEF EditingInv, RoutineRow
<1>2. Counts(row') /\ foreign' \in [Editors -> BOOLEAN]
  BY <1>1, Writes, ForeignAfter DEF Rotate, Write
<1>3. p \in PageState /\ p.version = editor[e].version /\ p.reply = row.version + 1
  BY <1>1 DEF EditingInv, PageState, EditorPhases
<1>4. editor' = [editor EXCEPT ![e] = p]
  BY DEF Rotate, EditingInv
<1> HIDE DEF p
<1>5. editor' \in [Editors -> PageState] /\ Touches(e) /\ editor'[e] = p
  BY <1>3, <1>4 DEF EditingInv, Touches
<1> QED BY <1>2, <1>3, <1>5, WrittenBy DEF Counts

(* The answer is lost, or its version is taken over: Informed says nothing *)
(* of a version that was adopted.                                          *)
LEMMA AnsweredStep == ASSUME EditingInv, NEW e \in Editors, RotateAnswered(e) PROVE EditingInv'
<1> DEFINE lost == [[editor[e] EXCEPT !.phase = "open"] EXCEPT !.reply = 0]
           taken == [[lost EXCEPT !.version = editor[e].reply] EXCEPT !.adopted = TRUE]
<1>1. lost \in PageState /\ lost.version = editor[e].version /\ lost.reply = 0 /\ lost.adopted = editor[e].adopted
  BY DEF EditingInv, PageState, EditorPhases
<1>2. editor[e].reply \in Nat
  BY DEF EditingInv, PageState
<1> HIDE DEF lost
<1>3. taken \in PageState /\ taken.version = editor[e].reply /\ taken.reply = 0 /\ taken.adopted
  BY <1>1, <1>2 DEF PageState
<1> HIDE DEF taken
<1>4. UNCHANGED <<row, foreign>> /\ (editor' = [editor EXCEPT ![e] = lost] \/ editor' = [editor EXCEPT ![e] = taken])
  BY DEF RotateAnswered, EditingInv, lost, taken
<1>5. CASE editor' = [editor EXCEPT ![e] = lost]
  <2>1. editor' \in [Editors -> PageState] /\ Touches(e) /\ editor'[e] = lost
    BY <1>1, <1>5 DEF EditingInv, Touches
  <2> QED BY <1>1, <1>4, <2>1, PageOnly DEF EditingInv, Informed, RoutineRow
<1>6. CASE editor' = [editor EXCEPT ![e] = taken]
  <2>1. editor' \in [Editors -> PageState] /\ Touches(e) /\ editor'[e] = taken
    BY <1>3, <1>6 DEF EditingInv, Touches
  <2> QED BY <1>3, <1>4, <2>1, PageOnly DEF EditingInv, Informed, RoutineRow
<1> QED BY <1>4, <1>5, <1>6

LEMMA LeaveStep == ASSUME EditingInv, NEW e \in Editors, Leave(e) PROVE EditingInv'
<1>1. editor' = [editor EXCEPT ![e] = Closed] /\ UNCHANGED <<row, foreign>>
  BY DEF Leave
<1>2. editor' \in [Editors -> PageState] /\ Touches(e) /\ editor'[e] = Closed
  BY <1>1, ClosedPage DEF EditingInv, Touches
<1> QED BY <1>1, <1>2, ClosedPage, PageOnly DEF EditingInv, Informed, RoutineRow

LEMMA ElsewhereStep == ASSUME EditingInv, Elsewhere PROVE EditingInv'
<1>1. Counts(row')
  <2>1. ASSUME NEW definition \in Definitions,
               Write(Restyled(row, definition)) \/ Write(Updated(row, definition, Kind, 0))
        PROVE  Counts(row')
    BY <2>1, Writes DEF Write
  <2>2. ASSUME NEW active \in BOOLEAN, Write(Activated(row, active, 0))
        PROVE  Counts(row')
    <3>1. row.definition \in Definitions
      BY DEF EditingInv, RoutineRow
    <3> QED BY <2>2, <3>1, Writes DEF Write
  <2> QED BY <2>1, <2>2 DEF Elsewhere
<1>2. foreign' \in [Editors -> BOOLEAN] /\ UNCHANGED editor
  BY DEF Elsewhere
<1>3. ASSUME NEW f \in Editors
      PROVE  editor'[f].version <= row'.version /\ editor'[f].reply <= row'.version /\ Informed(f)'
  BY <1>1, <1>2, Outdated
<1> QED BY <1>1, <1>2, <1>3 DEF EditingInv, Counts

LEMMA EditingStep == EditingInv /\ [Next]_vars => EditingInv'
<1> SUFFICES ASSUME EditingInv, [Next]_vars PROVE EditingInv'
  OBVIOUS
<1>1. CASE UNCHANGED vars
  BY <1>1 DEF vars, EditingInv, Informed
<1>2. ASSUME NEW e \in Editors, Load(e) \/ SaveRefused(e) \/ Switch(e) \/ Rotate(e) \/ RotateAnswered(e) \/ Leave(e)
      PROVE  EditingInv'
  BY <1>2, LoadStep, SaveRefusedStep, SwitchStep, RotateStep, AnsweredStep, LeaveStep
<1>3. ASSUME NEW e \in Editors, NEW definition \in Definitions, NEW active \in BOOLEAN,
             SaveAccepted(e, definition, active)
      PROVE  EditingInv'
  BY <1>3, AcceptedStep
<1>4. CASE Elsewhere
  BY <1>4, ElsewhereStep
<1> QED BY <1>1, <1>2, <1>3, <1>4 DEF Next

(* Optimistic locking (registerRoutes compares the version under the lock  *)
(* of the row): a page that saves with the version it was loaded with      *)
(* overwrites nothing its user has not seen.                               *)
THEOREM SavesCorrect == Spec => SavesOverWhatItLoaded
<1>1. ASSUME EditingInv, [Next]_vars
      PROVE  [\A e \in Editors, definition \in Definitions, active \in BOOLEAN :
                SaveAccepted(e, definition, active) /\ ~editor[e].adopted => ~foreign[e]]_vars
  BY <1>1 DEF EditingInv, Informed, SaveAccepted, UpToDate
<1> QED BY <1>1, EditingStarts, EditingStep, PTL DEF Spec, SavesOverWhatItLoaded
==============================================================================
