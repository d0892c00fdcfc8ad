----------------------------- MODULE MessageBus -----------------------------
(***************************************************************************)
(* What the engine relies on (Engine.tla, outbox and sent): an enqueued    *)
(* message waits until it is published, and stays published.               *)
(***************************************************************************)
CONSTANT Messages

VARIABLES waiting, sent

Init == waiting = {} /\ sent = {}

Enqueue(m) ==
  /\ m \notin waiting \cup sent
  /\ waiting' = waiting \cup {m}
  /\ sent' = sent

Relay(m) ==
  /\ m \in waiting
  /\ waiting' = waiting \ {m}
  /\ sent' = sent \cup {m}

Next == \E m \in Messages : Enqueue(m) \/ Relay(m)

Spec == Init /\ [][Next]_<<waiting, sent>>
=============================================================================
