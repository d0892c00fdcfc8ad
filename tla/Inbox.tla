-------------------------------- MODULE Inbox --------------------------------
(***************************************************************************)
(* The page of notifications (web/src/pages/Inbox.tsx) and the count of    *)
(* unread ones beside the navigation (App.tsx).  The page deletes and      *)
(* marks several notifications with one request each; Promise.all returns  *)
(* when all of them are answered, or at the first failure - while others   *)
(* are still under way.  Nothing keeps the user from clicking again before *)
(* that: the requests of several clicks overlap.                           *)
(***************************************************************************)
EXTENDS Polling

CONSTANTS
  Notes,         \* the notifications there can be
  MaxClicks,     \* bound: how often the user deletes or marks some
  MaxIncidents   \* bound: changes by others, lost requests and lost answers, together

VARIABLES
  mailbox,   \* each notification: none yet, unread, read or deleted
  clicks,    \* the clicks so far, with their requests
  incidents,
  missed     \* history: what changed without the page asking for it since
inboxPage == <<mailbox, clicks, incidents, missed>>
inboxVars == <<polling, inboxPage>>

(* requests: what became of the request for each notification.  over:      *)
(* Promise.all has returned; the requests left then are still under way.   *)
Clicked(kind, chosen) == [kind |-> kind, requests |-> [n \in chosen |-> "sent"], over |-> FALSE]

InboxInit ==
  /\ \E resource \in {"notifications", "unread"} : PollingInit({resource})
  /\ mailbox \in [Notes -> {"none", "unread"}]
  /\ clicks = <<>>
  /\ incidents = 0
  /\ missed = {}

Present(n) == mailbox[n] \in {"unread", "read"}
Answer(r) ==
  IF r = "unread" THEN {n \in Notes : mailbox[n] = "unread"}
  ELSE [n \in {m \in Notes : Present(m)} |-> mailbox[n] = "read"]

(* The page can delete what it shows and mark what it shows as unread.     *)
(* When only the count is followed, it is another page and may show        *)
(* whatever there is or was.                                               *)
Offered(kind) ==
  IF "notifications" \notin DOMAIN poll THEN {n \in Notes : mailbox[n] # "none"}
  ELSE IF ~Loaded("notifications") THEN {}
  ELSE LET data == poll["notifications"].data
       IN {n \in DOMAIN data : kind = "read" => ~data[n]}

WithoutNotes(data, chosen) == [n \in DOMAIN data \ chosen |-> data[n]]
Marked(data, chosen) == [n \in DOMAIN data |-> data[n] \/ n \in chosen]
MutatedTo(data) ==
  [r \in DOMAIN poll |-> IF r = "notifications" THEN Mutated(poll[r], data) ELSE poll[r]]
ReloadedToo(resources) ==
  [r \in DOMAIN poll |-> IF r \in resources THEN Reloading(poll[r]) ELSE poll[r]]

(* remove and markRead: shown at once, one request for each.  A poll may   *)
(* leave the dialog that confirms a delete with nothing to delete.         *)
Click(kind, chosen) ==
  /\ chosen \subseteq Offered(kind) /\ (kind = "read" => chosen # {})
  /\ "notifications" \in DOMAIN poll => Loaded("notifications")
  /\ Len(clicks) < MaxClicks
  /\ clicks' = Append(clicks, Clicked(kind, chosen))
  /\ poll' = IF "notifications" \in DOMAIN poll
               THEN LET data == poll["notifications"].data
                    IN MutatedTo(IF kind = "delete" THEN WithoutNotes(data, chosen) ELSE Marked(data, chosen))
               ELSE poll
  /\ UNCHANGED <<visible, mailbox, incidents, missed>>

(* The answer counts until the click is over; nobody hears a later one.    *)
With(c, status) == {n \in DOMAIN clicks[c].requests : clicks[c].requests[n] = status}
Only(requests, some) == [n \in some |-> requests[n]]
Answered(c, n, status) ==
  clicks' = [clicks EXCEPT ![c].requests =
               IF clicks[c].over THEN Only(@, DOMAIN @ \ {n}) ELSE [@ EXCEPT ![n] = status]]

(* The service: DELETE and POST .../read.  The page was told to ask again  *)
(* only if the click is not over.                                          *)
Apply(kind, n) == mailbox' = [mailbox EXCEPT ![n] = IF kind = "delete" THEN "deleted" ELSE "read"]
Unnoticed(c) == missed' = IF clicks[c].over THEN DOMAIN poll ELSE missed

(* 404 when the notification is gone. *)
Serviced(c, n) ==
  /\ n \in With(c, "sent")
  /\ Answered(c, n, IF Present(n) THEN "ok" ELSE "failed")
  /\ IF Present(n) THEN Apply(clicks[c].kind, n) /\ Unnoticed(c) ELSE UNCHANGED <<mailbox, missed>>
  /\ UNCHANGED <<polling, incidents>>

Incident == incidents < MaxIncidents /\ incidents' = incidents + 1

RequestLost(c, n) ==
  /\ n \in With(c, "sent")
  /\ Incident
  /\ Answered(c, n, "failed")
  /\ \/ UNCHANGED <<mailbox, missed>>
     \/ Present(n) /\ Apply(clicks[c].kind, n) /\ Unnoticed(c)
  /\ UNCHANGED polling

(* Promise.all has returned.                                               *)
Over(c) ==
  clicks' = [clicks EXCEPT ![c] = [kind |-> @.kind, requests |-> Only(@.requests, With(c, "sent")), over |-> TRUE]]

AllOk(c) ==
  /\ ~clicks[c].over
  /\ With(c, "ok") = DOMAIN clicks[c].requests
  /\ poll' = ReloadedToo({"notifications", "unread"})
  /\ Over(c)
  /\ UNCHANGED <<visible, mailbox, incidents, missed>>

FirstFailureQuietly(c) ==   \* mutant: the page asks again only when all requests succeeded
  /\ ~clicks[c].over
  /\ With(c, "failed") # {}
  /\ UNCHANGED poll
  /\ missed' = IF clicks[c].kind = "delete" THEN missed ELSE missed \cup (DOMAIN poll \cap {"unread"})
  /\ Over(c)
  /\ UNCHANGED <<visible, mailbox, incidents>>

(* The first failure: a toast, and the page asks again (finally).  The     *)
(* count does after a delete only (onChange).                              *)
FirstFailure(c) ==
  /\ ~clicks[c].over
  /\ With(c, "failed") # {}
  /\ poll' = ReloadedToo(IF clicks[c].kind = "delete" THEN {"notifications", "unread"} ELSE {"notifications"})
  /\ missed' = IF clicks[c].kind = "delete" THEN missed ELSE missed \cup (DOMAIN poll \cap {"unread"})
  /\ Over(c)
  /\ UNCHANGED <<visible, mailbox, incidents>>

ChangedElsewhere ==
  /\ Incident
  /\ \E n \in Notes :
       \/ mailbox[n] = "none" /\ mailbox' = [mailbox EXCEPT ![n] = "unread"]
       \/ Present(n) /\ \E kind \in {"delete", "read"} : Apply(kind, n)
  /\ missed' = DOMAIN poll
  /\ UNCHANGED <<polling, clicks>>

(* The polls: what is answered from now on has seen every change so far.   *)
PollServed(r) ==
  /\ Serve(r, Answer(r))
  /\ missed' = missed \ {r}
  /\ UNCHANGED <<visible, mailbox, clicks, incidents>>

Poll(r) ==
  /\ \/ Ask(r) \/ ArriveFailed(r)
     \/ poll[r].phase = "answered" /\ poll' = [poll EXCEPT ![r] = Arrived(@)]
  /\ UNCHANGED <<visible, inboxPage>>

(* A hidden tab that has its data does not ask, even when told to.         *)
PollAgain(r) ==
  /\ Restart(r)
  /\ missed' = IF MayAsk(r) THEN missed ELSE missed \cup {r}
  /\ UNCHANGED <<visible, mailbox, clicks, incidents>>

PollBroken(r) ==
  /\ Break(r)
  /\ Incident
  /\ UNCHANGED <<visible, mailbox, clicks, missed>>

ClickStep(c) ==
  \/ \E n \in Notes : Serviced(c, n) \/ RequestLost(c, n)
  \/ AllOk(c)
  \/ FirstFailure(c)

InboxNext ==
  \/ \E kind \in {"delete", "read"}, chosen \in SUBSET Notes : Click(kind, chosen)
  \/ \E c \in DOMAIN clicks : ClickStep(c)
  \/ ChangedElsewhere
  \/ \E r \in DOMAIN poll : Poll(r) \/ PollServed(r) \/ PollAgain(r) \/ PollBroken(r)
  \/ Turn /\ UNCHANGED inboxPage

InboxSpec == InboxInit /\ [][InboxNext]_inboxVars

-----------------------------------------------------------------------------
(* When every click is over, what the page shows at rest is what is        *)
(* stored, and the count counts it - however the clicks overlapped, after  *)
(* failures, too, and while requests that outlived their click are still   *)
(* under way (Promise.all in Inbox.tsx).  Only a change nobody tells the   *)
(* page of - by such a request when it gets through, by a mark that failed *)
(* halfway for the count, by somebody else, or while the tab is hidden -   *)
(* may stay unseen, and no longer than until the service has answered the  *)
(* page once more.                                                         *)
InboxTruthful ==
  \A r \in DOMAIN poll \cap {"notifications", "unread"} :
    /\ AtRest(r) /\ r \notin missed
    /\ \A c \in DOMAIN clicks : clicks[c].over
    => poll[r].data = Answer(r)
=============================================================================
