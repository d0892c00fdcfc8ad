------------------------------- MODULE KeyCache -------------------------------
(***************************************************************************)
(* How a service decides on an access token (createTokenVerifier and       *)
(* installAuth in service-kit/src/auth.ts, over the key set that the       *)
(* library jose fetches and keeps).  The identity service rotates its keys *)
(* and is unreachable from time to time.  Requests are checked at the same *)
(* time; those that wait for a fetch share it.                             *)
(***************************************************************************)
EXTENDS Integers, FiniteSets

CONSTANTS
  Checks,        \* requests that are checked at the same time
  SigningKeys,   \* 1 .. n, in the order they come into use
  CacheMaxAge, Cooldown, RetryAfter,   \* in ticks of 5 s
  MaxTicks       \* bound on the clock

ASSUME AgesAssumption == CacheMaxAge \in Nat /\ Cooldown \in Nat /\ RetryAfter \in Nat

VARIABLES
  published,    \* the keys the identity service signs and verifies with
  reachable,
  known,        \* the key set fetched last (cache, lastKnownGood)
  unreachableUntil,
  ticks,
  check         \* each request
keyVars == <<published, reachable, known, unreachableUntil, ticks, check>>

NeverFetched == [keys |-> {}, at |-> -1]
NoCheck == [phase |-> "idle", key |-> 1, fallback |-> NeverFetched]

KeysInit ==
  /\ published = {1}
  /\ reachable \in BOOLEAN
  /\ known = NeverFetched
  /\ unreachableUntil = 0
  /\ ticks = 0
  /\ check = [r \in Checks |-> NoCheck]

Has(set) == set.at >= 0
Verdict(key, keys) == IF key \in keys THEN "accepted" ELSE "rejected"
Fresh == Has(known) /\ ticks < known.at + CacheMaxAge
CoolingDown == ticks < known.at + Cooldown
WaitingChecks == {r \in Checks : check[r].phase = "waiting"}

(* jose: a request waits for a fetch when there are no fresh keys, or when *)
(* its key is not among them and the last fetch is some time ago.          *)
NeedsFetch(key) == ~Fresh \/ (key \notin known.keys /\ ~CoolingDown)

(* keys: for a while after a failed fetch the last keys decide at once.    *)
Verify(r, key) ==
  /\ check[r].phase \in {"idle", "accepted", "rejected"}
  /\ check' = [check EXCEPT ![r] =
       IF (Has(known) /\ ticks < unreachableUntil) \/ ~NeedsFetch(key)
       THEN [phase |-> Verdict(key, known.keys), key |-> key, fallback |-> NeverFetched]
       ELSE [phase |-> "waiting", key |-> key, fallback |-> known]]
  /\ UNCHANGED <<published, reachable, known, unreachableUntil, ticks>>

Decided(Keys(_)) ==
  check' = [r \in Checks |-> IF r \in WaitingChecks THEN [check[r] EXCEPT !.phase = Verdict(check[r].key, Keys(r)), !.fallback = NeverFetched]
                             ELSE check[r]]

(* A key the fetched set does not have is rejected. *)
StillKnown(r) == published \cup check[r].fallback.keys   \* mutant: the fallback decides then, too
FetchedKeys(r) == published
Fetched ==
  /\ WaitingChecks # {}
  /\ reachable
  /\ known' = [keys |-> published, at |-> ticks]
  /\ Decided(FetchedKeys)
  /\ UNCHANGED <<published, reachable, unreachableUntil, ticks>>

Pause == RetryAfter

(* The fetch fails: the keys from before it decide, if there are any. *)
FetchFailed ==
  /\ WaitingChecks # {}
  /\ ~reachable
  /\ LET FallbackKeys(r) == check[r].fallback.keys IN Decided(FallbackKeys)
  /\ unreachableUntil' = IF \E r \in WaitingChecks : Has(check[r].fallback) THEN ticks + Pause ELSE unreachableUntil
  /\ UNCHANGED <<published, reachable, known, ticks>>

-----------------------------------------------------------------------------
(* The identity service.                                                   *)

NewKey ==
  /\ \E k \in SigningKeys :
       /\ k \notin published /\ k - 1 \in published
       /\ published' = published \cup {k}
  /\ UNCHANGED <<reachable, known, unreachableUntil, ticks, check>>

WithdrawKey ==
  /\ Cardinality(published) > 1
  /\ published' = {k \in published : \E j \in published : j < k}
  /\ UNCHANGED <<reachable, known, unreachableUntil, ticks, check>>

Reachability ==
  /\ reachable' = ~reachable
  /\ UNCHANGED <<published, known, unreachableUntil, ticks, check>>

(* A fetch ends, or times out, within a tick. *)
ClockTicks ==
  /\ WaitingChecks = {}
  /\ ticks < MaxTicks
  /\ ticks' = ticks + 1
  /\ UNCHANGED <<published, reachable, known, unreachableUntil, check>>

KeysNext ==
  \/ \E r \in Checks, key \in SigningKeys : Verify(r, key)
  \/ Fetched \/ FetchFailed \/ NewKey \/ WithdrawKey \/ Reachability \/ ClockTicks

KeysSpec == KeysInit /\ [][KeysNext]_keyVars

-----------------------------------------------------------------------------
Answers(r, verdict) == check'[r] # check[r] /\ check'[r].phase = verdict

(* The last key set that was fetched decides, whether the identity service *)
(* is reachable or not: an outage rejects nobody whose key was in it, and  *)
(* a key that was withdrawn before the last fetch is accepted by nobody -  *)
(* not even by a request that had the older set when it began to wait.     *)
LastKeysDecide ==
  [][\A r \in Checks :
       /\ Answers(r, "accepted") => check'[r].key \in known'.keys
       /\ Answers(r, "rejected") => check'[r].key \notin known'.keys]_keyVars

=============================================================================
