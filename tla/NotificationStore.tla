-------------------------- MODULE NotificationStore --------------------------
(***************************************************************************)
(* The notification service (services/notification-service/src/main.ts)    *)
(* as the consumer of the events about executions, while the format of     *)
(* these events changes: the routine service and the replicas of the       *)
(* consumer are deployed one after the other, and a message keeps the      *)
(* format it was published with.  A failure puts a copy back, at most      *)
(* MaxAttempts times; an event nobody understands goes to the dead letters. *)
(***************************************************************************)
EXTENDS Integers, FiniteSets

CONSTANTS
  Events,        \* the executions that end, by the source_key of their notification
  EventCopies,   \* the copies of their messages
  EventOf,       \* the event each copy is about
  Readers,      \* the replicas of the notification service
  MaxTries,      \* 1 + the number of retryDelaysMs
  MaxDeletions,  \* bound: how often the user deletes a notification
  NoFormat

ASSUME EventOfAssumption == EventOf \in [EventCopies -> Events]
ASSUME TriesAssumption == MaxTries \in Nat \ {0} /\ MaxDeletions \in Nat

VARIABLES
  format,    \* EXECUTION_COMPLETED_FORMAT of the routine service
  reader,    \* COMPLETION_READER_MODE of each replica
  wire,      \* the format each event was published with
  note,      \* the notification of each event
  copyStep,  \* the handler of each copy: which statement comes next, and the attempt
  arrived,   \* history: the events whose notification was stored
  deletions
notificationVars == <<format, reader, wire, note, copyStep, arrived, deletions>>

Formats == {"v1", "expand", "v2"}
Notes == {"none", "unread", "read", "deleted"}
Steps == {"queued", "insert", "read", "done", "dead"}

NotificationInit ==
  /\ format \in Formats
  /\ reader \in [Readers -> {"legacy", "tolerant"}]
  /\ format = "v2" => \A r \in Readers : reader[r] = "tolerant"
  /\ wire = [e \in Events |-> NoFormat]
  /\ note = [e \in Events |-> "none"]
  /\ copyStep = [c \in EventCopies |-> [step |-> "queued", try |-> 1]]
  /\ arrived = {}
  /\ deletions = 0

(* Deployments.  "v2 ... requires consumers that read v2". *)
Expand ==
  /\ format = "v1" /\ format' = "expand"
  /\ UNCHANGED <<reader, wire, note, copyStep, arrived, deletions>>
Contract ==
  /\ format = "expand" /\ format' = "v2"
  /\ \A r \in Readers : reader[r] = "tolerant"
  /\ UNCHANGED <<reader, wire, note, copyStep, arrived, deletions>>
Upgrade(r) ==
  /\ reader' = [reader EXCEPT ![r] = "tolerant"]
  /\ reader' # reader
  /\ UNCHANGED <<format, wire, note, copyStep, arrived, deletions>>

(* executionCompleted *)
PublishEvent(e) ==
  /\ wire[e] = NoFormat
  /\ wire' = [wire EXCEPT ![e] = format]
  /\ UNCHANGED <<format, reader, note, copyStep, arrived, deletions>>

HasMessage(f) == f \in {"v1", "expand"}
HasNotification(f) == f \in {"expand", "v2"}

UnderstandsEach(mode, f) ==   \* mutant: the new reader does not know the old field
  IF mode = "legacy" THEN HasMessage(f) ELSE HasNotification(f)
(* readExecutionEvent *)
Understands(mode, f) ==
  IF mode = "legacy" THEN HasMessage(f) ELSE HasNotification(f) \/ HasMessage(f)

EventAt(c, step) == copyStep[c].step = step
MoveTo(c, step) == copyStep' = [copyStep EXCEPT ![c].step = step]
Stored(e) == note[e] \in {"unread", "read"}

Receive(c, r) ==
  /\ EventAt(c, "queued")
  /\ wire[EventOf[c]] # NoFormat
  /\ MoveTo(c, IF Understands(reader[r], wire[EventOf[c]]) THEN "insert" ELSE "dead")
  /\ UNCHANGED <<format, reader, wire, note, arrived, deletions>>

(* deliver: INSERT ... ON CONFLICT DO NOTHING, then the SELECT of the row  *)
(* in the way.  Without a row the handler fails and the copy is retried.   *)
Insert(c) ==
  /\ EventAt(c, "insert")
  /\ IF Stored(EventOf[c])
       THEN MoveTo(c, "read") /\ UNCHANGED <<note, arrived>>
       ELSE /\ MoveTo(c, "done")
            /\ note' = [note EXCEPT ![EventOf[c]] = "unread"]
            /\ arrived' = arrived \cup {EventOf[c]}
  /\ UNCHANGED <<format, reader, wire, deletions>>

ReadExisting(c) ==
  /\ EventAt(c, "read")
  /\ IF Stored(EventOf[c]) THEN MoveTo(c, "done")
     ELSE IF copyStep[c].try < MaxTries
       THEN copyStep' = [copyStep EXCEPT ![c] = [step |-> "queued", try |-> @.try + 1]]
       ELSE MoveTo(c, "dead")
  /\ UNCHANGED <<format, reader, wire, note, arrived, deletions>>

MarkRead(e) ==
  /\ Stored(e)
  /\ note' = [note EXCEPT ![e] = "read"]
  /\ UNCHANGED <<format, reader, wire, copyStep, arrived, deletions>>

DeleteNote(e) ==
  /\ Stored(e)
  /\ deletions < MaxDeletions /\ deletions' = deletions + 1
  /\ note' = [note EXCEPT ![e] = "deleted"]
  /\ UNCHANGED <<format, reader, wire, copyStep, arrived>>

HandleEvent(c) == (\E r \in Readers : Receive(c, r)) \/ Insert(c) \/ ReadExisting(c)

NotificationNext ==
  \/ Expand \/ Contract
  \/ \E r \in Readers : Upgrade(r)
  \/ \E e \in Events : PublishEvent(e) \/ MarkRead(e) \/ DeleteNote(e)
  \/ \E c \in EventCopies : HandleEvent(c)

NotificationFairness == \A c \in EventCopies : WF_notificationVars(HandleEvent(c))
NotificationSpec == NotificationInit /\ [][NotificationNext]_notificationVars /\ NotificationFairness

-----------------------------------------------------------------------------
(* Expand and contract: every event that is published reaches the inbox -  *)
(* whichever format it was published in, whichever replica receives it     *)
(* after which deployments, and whatever the user deletes meanwhile.       *)
EventReachesInbox == <>[](\A e \in Events : wire[e] # NoFormat => e \in arrived)
=============================================================================
