---------------------------- MODULE AccessProofs ----------------------------
(***************************************************************************)
(* The way of a request to a service: what the gateway promises about      *)
(* broken connections, which keys decide on its token, and how the page    *)
(* holds on to the token it sends - for any number of requests, replicas,  *)
(* retries, keys and calls, any ages, pauses and lives, and however long   *)
(* the identity service is away.                                           *)
(***************************************************************************)
EXTENDS Gateway, KeyCache, Session, TLAPS

-----------------------------------------------------------------------------
(* The gateway. *)

HopPhases == {"idle", "gateway", "connect", "service", "handled", "answered"}
Statuses == {0, 200, 401, 503}
HopType ==
  [phase : HopPhases, method : Methods, token : BOOLEAN, at : Backends \cup {"none"},
   tries : Nat, broken : Nat, effects : Nat, status : Statuses]

(* Nothing was done for a request that has not reached a replica.          *)
NothingDoneYet(x) == x.phase \in {"idle", "gateway"} => x.effects = 0 /\ x.tries = 0 /\ x.broken = 0

(* A write that waits for its connection never had one before.             *)
WriteOnItsWay(x) ==
  x.method # "read" =>
    /\ x.phase \in {"connect", "service"} => x.effects = 0
    /\ x.phase = "handled" => x.effects = 1
    /\ x.phase = "answered" =>
         /\ x.effects <= 1
         /\ x.status = 200 => x.effects = 1
         /\ x.status = 401 => x.effects = 0

(* Every attempt of a read but the present one ended with its connection.  *)
ReadOnItsWay(x) ==
  x.method = "read" =>
    /\ x.phase = "connect" => x.tries = x.broken /\ x.broken <= Retries
    /\ x.phase \in {"service", "handled"} => x.tries = x.broken + 1 /\ x.broken <= Retries
    /\ x.phase = "answered" /\ x.status = 503 => x.broken = Retries + 1

OnItsWay(x) == NothingDoneYet(x) /\ WriteOnItsWay(x) /\ ReadOnItsWay(x)

HopsInOrder ==
  /\ hop = [h \in Hops |-> hop[h]]
  /\ \A h \in Hops : hop[h] \in HopType /\ OnItsWay(hop[h])

-----------------------------------------------------------------------------
(* A step that changes one field keeps the type of a request. *)
LEMMA HopFields ==
  ASSUME NEW x \in HopType
  PROVE  /\ \A phase \in HopPhases : [x EXCEPT !.phase = phase] \in HopType
         /\ \A method \in Methods : [x EXCEPT !.method = method] \in HopType
         /\ \A token \in BOOLEAN : [x EXCEPT !.token = token] \in HopType
         /\ \A at \in Backends \cup {"none"} : [x EXCEPT !.at = at] \in HopType
         /\ \A status \in Statuses : [x EXCEPT !.status = status] \in HopType
         /\ [x EXCEPT !.tries = @ + 1] \in HopType
         /\ [x EXCEPT !.broken = @ + 1] \in HopType
         /\ [x EXCEPT !.effects = @ + 1] \in HopType
<1>1. ASSUME NEW phase \in HopPhases PROVE [x EXCEPT !.phase = phase] \in HopType
  BY DEF HopType
<1>2. ASSUME NEW at \in Backends \cup {"none"} PROVE [x EXCEPT !.at = at] \in HopType
  BY DEF HopType
<1>3. ASSUME NEW status \in Statuses PROVE [x EXCEPT !.status = status] \in HopType
  BY DEF HopType
<1>4. [x EXCEPT !.tries = @ + 1] \in HopType
  BY DEF HopType
<1>5. [x EXCEPT !.broken = @ + 1] \in HopType
  BY DEF HopType
<1>6. [x EXCEPT !.effects = @ + 1] \in HopType
  BY DEF HopType
<1>7. ASSUME NEW method \in Methods PROVE [x EXCEPT !.method = method] \in HopType
  BY DEF HopType
<1>8. ASSUME NEW token \in BOOLEAN PROVE [x EXCEPT !.token = token] \in HopType
  BY DEF HopType
<1> QED BY <1>1, <1>2, <1>3, <1>4, <1>5, <1>6, <1>7, <1>8

LEMMA StatusCodes == 200 \in Statuses /\ 401 \in Statuses /\ 503 \in Statuses
  BY DEF Statuses

LEMMA Answered ==
  ASSUME NEW x \in HopType, NEW status \in Statuses
  PROVE  [x EXCEPT !.phase = "answered", !.status = status, !.at = "none"] \in HopType
<1>1. [x EXCEPT !.phase = "answered"] \in HopType
  BY HopFields DEF HopPhases
<1>2. [[x EXCEPT !.phase = "answered"] EXCEPT !.status = status] \in HopType
  BY <1>1, HopFields
<1>3. [[[x EXCEPT !.phase = "answered"] EXCEPT !.status = status] EXCEPT !.at = "none"] \in HopType
  BY <1>2, HopFields
<1> QED BY <1>3

AnswerWith(x, status) == [x EXCEPT !.phase = "answered", !.status = status, !.at = "none"]

LEMMA AnswerTyped ==
  ASSUME NEW x \in HopType, NEW status \in Statuses
  PROVE  /\ AnswerWith(x, status) \in HopType
         /\ AnswerWith(x, status).phase = "answered"
         /\ AnswerWith(x, status).method = x.method
         /\ AnswerWith(x, status).tries = x.tries
         /\ AnswerWith(x, status).broken = x.broken
         /\ AnswerWith(x, status).effects = x.effects
         /\ AnswerWith(x, status).status = status
<1>1. AnswerWith(x, status) \in HopType
  BY Answered DEF AnswerWith
<1>2. /\ AnswerWith(x, status).phase = "answered"
      /\ AnswerWith(x, status).method = x.method
      /\ AnswerWith(x, status).tries = x.tries
      /\ AnswerWith(x, status).broken = x.broken
      /\ AnswerWith(x, status).effects = x.effects
      /\ AnswerWith(x, status).status = status
  BY DEF AnswerWith, HopType
<1> QED BY <1>1, <1>2

LEMMA Connected ==
  ASSUME NEW x \in HopType, NEW b \in Backends
  PROVE  [x EXCEPT !.phase = "service", !.at = b, !.tries = @ + 1] \in HopType
<1>1. [x EXCEPT !.phase = "service"] \in HopType
  BY HopFields DEF HopPhases
<1>2. [[x EXCEPT !.phase = "service"] EXCEPT !.at = b] \in HopType
  BY <1>1, HopFields
<1>3. [[[x EXCEPT !.phase = "service"] EXCEPT !.at = b] EXCEPT !.tries = @ + 1] \in HopType
  BY <1>2, HopFields
<1> QED BY <1>3

LEMMA Retried ==
  ASSUME NEW x \in HopType
  PROVE  [x EXCEPT !.phase = "connect", !.at = "none", !.broken = @ + 1] \in HopType
<1>1. [x EXCEPT !.phase = "connect"] \in HopType
  BY HopFields DEF HopPhases
<1>2. [[x EXCEPT !.phase = "connect"] EXCEPT !.at = "none"] \in HopType
  BY <1>1, HopFields
<1>3. [[[x EXCEPT !.phase = "connect"] EXCEPT !.at = "none"] EXCEPT !.broken = @ + 1] \in HopType
  BY <1>2, HopFields
<1> QED BY <1>3

LEMMA GivenUp ==
  ASSUME NEW x \in HopType, NEW status \in Statuses
  PROVE  [x EXCEPT !.phase = "answered", !.at = "none", !.status = status, !.broken = @ + 1] \in HopType
<1>1. [x EXCEPT !.phase = "answered"] \in HopType
  BY HopFields DEF HopPhases
<1>2. [[x EXCEPT !.phase = "answered"] EXCEPT !.at = "none"] \in HopType
  BY <1>1, HopFields
<1>3. [[[x EXCEPT !.phase = "answered"] EXCEPT !.at = "none"] EXCEPT !.status = status] \in HopType
  BY <1>2, HopFields
<1>4. [[[[x EXCEPT !.phase = "answered"] EXCEPT !.at = "none"] EXCEPT !.status = status] EXCEPT !.broken = @ + 1]
        \in HopType
  BY <1>3, HopFields
<1> QED BY <1>4

LEMMA HopHandled ==
  ASSUME NEW x \in HopType
  PROVE  [x EXCEPT !.phase = "handled", !.effects = @ + 1] \in HopType
<1>1. [x EXCEPT !.phase = "handled"] \in HopType
  BY HopFields DEF HopPhases
<1>2. [[x EXCEPT !.phase = "handled"] EXCEPT !.effects = @ + 1] \in HopType
  BY <1>1, HopFields
<1> QED BY <1>2

LEMMA NoHopTyped == NoHop \in HopType
  BY DEF NoHop, HopType, HopPhases, Statuses, Methods

LEMMA InitInOrder == GatewayInit => HopsInOrder
  BY DEF GatewayInit, HopsInOrder, NoHop, HopType, HopPhases, Statuses, Methods,
         OnItsWay, NothingDoneYet, WriteOnItsWay, ReadOnItsWay

(* A step concerns one request. *)
LEMMA OneHop ==
  ASSUME HopsInOrder, NEW h \in Hops, NEW new \in HopType, OnItsWay(new), hop' = [hop EXCEPT ![h] = new]
  PROVE  HopsInOrder'
  BY DEF HopsInOrder

LEMMA NextInOrder == HopsInOrder /\ [GatewayNext]_gatewayVars => HopsInOrder'
<1> SUFFICES ASSUME HopsInOrder, [GatewayNext]_gatewayVars PROVE HopsInOrder'
  OBVIOUS
<1>1. ASSUME NEW h \in Hops, NEW method \in Methods, NEW token \in BOOLEAN, Request(h, method, token)
      PROVE  HopsInOrder'
  <2> DEFINE new == [NoHop EXCEPT !.phase = "gateway", !.method = method, !.token = token]
  <2>1. new \in HopType
    <3>1. [NoHop EXCEPT !.phase = "gateway"] \in HopType
      BY NoHopTyped, HopFields DEF HopPhases
    <3>2. [[NoHop EXCEPT !.phase = "gateway"] EXCEPT !.method = method] \in HopType
      BY <3>1, HopFields
    <3>3. [[[NoHop EXCEPT !.phase = "gateway"] EXCEPT !.method = method] EXCEPT !.token = token] \in HopType
      BY <3>2, HopFields
    <3> QED BY <3>3
  <2>2. OnItsWay(new)
    <3>1. new.phase = "gateway" /\ new.effects = 0 /\ new.tries = 0 /\ new.broken = 0
      BY DEF NoHop
    <3> HIDE DEF new
    <3> QED BY <3>1 DEF OnItsWay, NothingDoneYet, WriteOnItsWay, ReadOnItsWay
  <2>3. hop' = [hop EXCEPT ![h] = new]
    BY <1>1 DEF Request
  <2> QED BY <2>1, <2>2, <2>3, OneHop
<1>2. ASSUME NEW h \in Hops, AtGateway(h) PROVE HopsInOrder'
  <2>1. hop[h] \in HopType /\ OnItsWay(hop[h]) /\ hop[h].phase = "gateway"
    BY <1>2 DEF HopsInOrder, AtGateway, AtPhase
  <2>2. CASE Goes(h, "connect")
    <3> DEFINE new == [hop[h] EXCEPT !.phase = "connect"]
    <3>1. new \in HopType
      BY <2>1, HopFields DEF HopPhases
    <3>2. /\ new.phase = "connect"
          /\ new.method = hop[h].method
          /\ new.tries = hop[h].tries
          /\ new.broken = hop[h].broken
          /\ new.effects = hop[h].effects
          /\ new.status = hop[h].status
      BY <2>1 DEF HopType
    <3>3. hop' = [hop EXCEPT ![h] = new]
      BY <2>2 DEF Goes
    <3> HIDE DEF new
    <3>4. OnItsWay(new)
      BY <3>2, <2>1, RetriesAssumption
         DEF HopType, OnItsWay, NothingDoneYet, WriteOnItsWay, ReadOnItsWay
    <3> QED BY <3>1, <3>3, <3>4, OneHop
  <2>3. CASE Refuse(h)
    <3> DEFINE new == AnswerWith(hop[h], 401)
    <3>1. new \in HopType
      BY <2>1, AnswerTyped, StatusCodes
    <3>2. /\ new.phase = "answered"
          /\ new.method = hop[h].method
          /\ new.tries = hop[h].tries
          /\ new.broken = hop[h].broken
          /\ new.effects = hop[h].effects
          /\ new.status = 401
      BY <2>1, AnswerTyped, StatusCodes
    <3>3. hop' = [hop EXCEPT ![h] = new]
      BY <2>3 DEF Refuse, ReplyWith, AnswerWith
    <3> HIDE DEF new
    <3>4. OnItsWay(new)
      BY <3>2, <2>1, RetriesAssumption
         DEF HopType, OnItsWay, NothingDoneYet, WriteOnItsWay, ReadOnItsWay
    <3> QED BY <3>1, <3>3, <3>4, OneHop
  <2> QED BY <1>2, <2>2, <2>3 DEF AtGateway
<1>3. ASSUME NEW h \in Hops, NEW b \in Backends, Connect(h, b) PROVE HopsInOrder'
  <2>1. hop[h] \in HopType /\ OnItsWay(hop[h]) /\ hop[h].phase = "connect"
    BY <1>3 DEF HopsInOrder, Connect, AtPhase
  <2> DEFINE new == [hop[h] EXCEPT !.phase = "service", !.at = b, !.tries = @ + 1]
  <2>2. new \in HopType
    BY <2>1, Connected
  <2>3. /\ new.phase = "service"
        /\ new.method = hop[h].method
        /\ new.tries = hop[h].tries + 1
        /\ new.broken = hop[h].broken
        /\ new.effects = hop[h].effects
        /\ new.status = hop[h].status
    BY <2>1 DEF HopType
  <2>4. hop' = [hop EXCEPT ![h] = new]
    BY <1>3 DEF Connect
  <2> HIDE DEF new
  <2>5. OnItsWay(new)
    BY <2>3, <2>1, RetriesAssumption
       DEF HopType, OnItsWay, NothingDoneYet, WriteOnItsWay, ReadOnItsWay
  <2> QED BY <2>2, <2>4, <2>5, OneHop
<1>4. ASSUME NEW h \in Hops, Disconnected(h) PROVE HopsInOrder'
  <2>1. hop[h] \in HopType /\ OnItsWay(hop[h]) /\ hop[h].phase \in {"service", "handled"}
    BY <1>4 DEF HopsInOrder, Disconnected
  <2>2. CASE MayRetry(h)
    <3> DEFINE new == [hop[h] EXCEPT !.phase = "connect", !.at = "none", !.broken = @ + 1]
    <3>1. new \in HopType
      BY <2>1, Retried
    <3>2. /\ new.phase = "connect"
          /\ new.method = hop[h].method
          /\ new.tries = hop[h].tries
          /\ new.broken = hop[h].broken + 1
          /\ new.effects = hop[h].effects
          /\ new.status = hop[h].status
      BY <2>1 DEF HopType
    <3>3. hop' = [hop EXCEPT ![h] = new]
      BY <1>4, <2>2 DEF Disconnected, Broken
    <3> HIDE DEF new
    <3>4. OnItsWay(new)
      BY <3>2, <2>1, <2>2, RetriesAssumption
         DEF MayRetry, HopType, OnItsWay, NothingDoneYet, WriteOnItsWay, ReadOnItsWay
    <3> QED BY <3>1, <3>3, <3>4, OneHop
  <2>3. CASE ~MayRetry(h)
    <3> DEFINE new == [hop[h] EXCEPT !.phase = "answered", !.at = "none", !.status = 503, !.broken = @ + 1]
    <3>1. new \in HopType
      <4>1. \A status \in Statuses :
              [hop[h] EXCEPT !.phase = "answered", !.at = "none", !.status = status, !.broken = @ + 1] \in HopType
        BY <2>1, GivenUp
      <4> QED BY <4>1, StatusCodes
    <3>2. /\ new.phase = "answered"
          /\ new.method = hop[h].method
          /\ new.tries = hop[h].tries
          /\ new.broken = hop[h].broken + 1
          /\ new.effects = hop[h].effects
          /\ new.status = 503
      BY <2>1 DEF HopType
    <3>3. hop' = [hop EXCEPT ![h] = new]
      BY <1>4, <2>3 DEF Disconnected, Broken
    <3> HIDE DEF new
    <3>4. OnItsWay(new)
      BY <3>2, <2>1, <2>3, RetriesAssumption
         DEF MayRetry, HopType, OnItsWay, NothingDoneYet, WriteOnItsWay, ReadOnItsWay
    <3> QED BY <3>1, <3>3, <3>4, OneHop
  <2> QED BY <2>2, <2>3
<1>5. ASSUME NEW h \in Hops, AtService(h) PROVE HopsInOrder'
  <2>1. hop[h] \in HopType /\ OnItsWay(hop[h]) /\ hop[h].phase = "service"
    BY <1>5 DEF HopsInOrder, AtService, AtPhase
  <2>2. CASE hop' = [hop EXCEPT ![h].phase = "handled", ![h].effects = @ + 1]
    <3> DEFINE new == [hop[h] EXCEPT !.phase = "handled", !.effects = @ + 1]
    <3>1. new \in HopType
      BY <2>1, HopHandled
    <3>2. /\ new.phase = "handled"
          /\ new.method = hop[h].method
          /\ new.tries = hop[h].tries
          /\ new.broken = hop[h].broken
          /\ new.effects = hop[h].effects + 1
          /\ new.status = hop[h].status
      BY <2>1 DEF HopType
    <3>3. hop' = [hop EXCEPT ![h] = new]
      BY <2>2 DEF HopsInOrder
    <3> HIDE DEF new
    <3>4. OnItsWay(new)
      BY <3>2, <2>1, RetriesAssumption
         DEF HopType, OnItsWay, NothingDoneYet, WriteOnItsWay, ReadOnItsWay
    <3> QED BY <3>1, <3>3, <3>4, OneHop
  <2>3. CASE Refuse(h)
    <3> DEFINE new == AnswerWith(hop[h], 401)
    <3>1. new \in HopType
      BY <2>1, AnswerTyped, StatusCodes
    <3>2. /\ new.phase = "answered"
          /\ new.method = hop[h].method
          /\ new.tries = hop[h].tries
          /\ new.broken = hop[h].broken
          /\ new.effects = hop[h].effects
          /\ new.status = 401
      BY <2>1, AnswerTyped, StatusCodes
    <3>3. hop' = [hop EXCEPT ![h] = new]
      BY <2>3 DEF Refuse, ReplyWith, AnswerWith
    <3> HIDE DEF new
    <3>4. OnItsWay(new)
      BY <3>2, <2>1, RetriesAssumption
         DEF HopType, OnItsWay, NothingDoneYet, WriteOnItsWay, ReadOnItsWay
    <3> QED BY <3>1, <3>3, <3>4, OneHop
  <2> QED BY <1>5, <2>2, <2>3 DEF AtService
<1>6. ASSUME NEW h \in Hops, Respond(h) PROVE HopsInOrder'
  <2>1. hop[h] \in HopType /\ OnItsWay(hop[h]) /\ hop[h].phase = "handled"
    BY <1>6 DEF HopsInOrder, Respond, AtPhase
  <2> DEFINE new == AnswerWith(hop[h], 200)
  <2>2. new \in HopType
    BY <2>1, AnswerTyped, StatusCodes
  <2>3. /\ new.phase = "answered"
        /\ new.method = hop[h].method
        /\ new.tries = hop[h].tries
        /\ new.broken = hop[h].broken
        /\ new.effects = hop[h].effects
        /\ new.status = 200
    BY <2>1, AnswerTyped, StatusCodes
  <2>4. hop' = [hop EXCEPT ![h] = new]
    BY <1>6 DEF Respond, ReplyWith, AnswerWith
  <2> HIDE DEF new
  <2>5. OnItsWay(new)
    BY <2>3, <2>1, RetriesAssumption
       DEF HopType, OnItsWay, NothingDoneYet, WriteOnItsWay, ReadOnItsWay
  <2> QED BY <2>2, <2>4, <2>5, OneHop
<1>7. ASSUME NEW h \in Hops, ShownAnswer(h) PROVE HopsInOrder'
  <2>1. NoHop \in HopType /\ OnItsWay(NoHop)
    BY DEF NoHop, HopType, HopPhases, Statuses, Methods, OnItsWay, NothingDoneYet, WriteOnItsWay, ReadOnItsWay
  <2>2. hop' = [hop EXCEPT ![h] = NoHop]
    BY <1>7 DEF ShownAnswer
  <2> QED BY <2>1, <2>2, OneHop
<1>8. CASE hop' = hop
  BY <1>8 DEF HopsInOrder
<1>9. ASSUME NEW b \in Backends, BackendGoes(b) \/ BackendComes(b) PROVE HopsInOrder'
  BY <1>8, <1>9 DEF BackendGoes, BackendComes
<1> QED
  BY <1>1, <1>2, <1>3, <1>4, <1>5, <1>6, <1>7, <1>8, <1>9 DEF GatewayNext, gatewayVars

LEMMA AlwaysInOrder == GatewaySpec => []HopsInOrder
<1> QED BY InitInOrder, NextInOrder, PTL DEF GatewaySpec

(* A connection that breaks after the work was done never lets the work be *)
(* done again (the retry of the proxy, main.ts of the gateway), for any    *)
(* number of requests, replicas and retries.                               *)
THEOREM WritesCorrect == GatewaySpec => []WriteHandledOnce
<1>1. HopsInOrder => WriteHandledOnce
  BY DEF HopsInOrder, WriteHandledOnce, HopType, HopPhases, AtPhase, OnItsWay, NothingDoneYet, WriteOnItsWay
<1> QED BY <1>1, AlwaysInOrder, PTL

(* A read is answered with 503 only when as many connections broke as the  *)
(* proxy may open: Retries + 1.                                            *)
THEOREM ReadsCorrect == GatewaySpec => []ReadOutlivesBreaks
<1>1. HopsInOrder => ReadOutlivesBreaks
  BY DEF HopsInOrder, ReadOutlivesBreaks, AtPhase, OnItsWay, ReadOnItsWay
<1> QED BY <1>1, AlwaysInOrder, PTL

-----------------------------------------------------------------------------
(* The keys of the identity service. *)

IsCheck(x) == x = [phase |-> x.phase, key |-> x.key, fallback |-> x.fallback]

(* What a request keeps as its fallback is what was fetched last: everyone *)
(* who waits is decided when something is fetched.                         *)
FallbackIsKnown == \A r \in Checks : check[r].phase = "waiting" => check[r].fallback = known

KeysInv ==
  /\ check = [r \in Checks |-> check[r]]
  /\ \A r \in Checks : IsCheck(check[r])
  /\ FallbackIsKnown

LEMMA KeysStart == KeysInit => KeysInv
  BY DEF KeysInit, KeysInv, FallbackIsKnown, NoCheck, IsCheck

DecidedAs(x, verdict) == [x EXCEPT !.phase = verdict, !.fallback = NeverFetched]

(* A verdict ends the waiting and leaves the key alone. *)
LEMMA Decides ==
  ASSUME NEW x, IsCheck(x), NEW verdict
  PROVE  IsCheck(DecidedAs(x, verdict)) /\ DecidedAs(x, verdict).phase = verdict /\ DecidedAs(x, verdict).key = x.key
<1> DEFINE p == [phase |-> x.phase, key |-> x.key, fallback |-> x.fallback]
<1> DEFINE q == [phase |-> verdict, key |-> x.key, fallback |-> x.fallback]
<1>1. [p EXCEPT !.phase = verdict] = q
  OBVIOUS
<1>2. [q EXCEPT !.fallback = NeverFetched] = [phase |-> verdict, key |-> x.key, fallback |-> NeverFetched]
  OBVIOUS
<1>3. [[p EXCEPT !.phase = verdict] EXCEPT !.fallback = NeverFetched]
        = [phase |-> verdict, key |-> x.key, fallback |-> NeverFetched]
  BY <1>1, <1>2
<1>4. DecidedAs(x, verdict) = [phase |-> verdict, key |-> x.key, fallback |-> NeverFetched]
  <2>1. x = p
    BY DEF IsCheck
  <2> HIDE DEF p
  <2> QED BY <1>3, <2>1 DEF DecidedAs
<1> QED BY <1>4 DEF IsCheck

(* All requests that wait are decided at once, each by the keys it has. *)
DecidedBy(keys) ==
  check' = [r \in Checks |-> IF r \in WaitingChecks
             THEN DecidedAs(check[r], Verdict(check[r].key, keys[r]))
             ELSE check[r]]

LEMMA AllDecided ==
  ASSUME KeysInv, NEW keys, DecidedBy(keys)
  PROVE  /\ KeysInv'
         /\ \A r \in Checks :
              check'[r] = check[r] \/ (check'[r].phase = Verdict(check'[r].key, keys[r]) /\ r \in WaitingChecks)
<1>1. ASSUME NEW r \in Checks
      PROVE  /\ IsCheck(check'[r]) /\ check'[r].phase # "waiting"
             /\ check'[r] = check[r] \/ (check'[r].phase = Verdict(check'[r].key, keys[r]) /\ r \in WaitingChecks)
  <2>1. CASE r \in WaitingChecks
    <3>1. IsCheck(check[r])
      BY DEF KeysInv
    <3>2. check'[r] = DecidedAs(check[r], Verdict(check[r].key, keys[r]))
      BY <2>1 DEF DecidedBy
    <3>3. /\ IsCheck(check'[r]) /\ check'[r].key = check[r].key
          /\ check'[r].phase = Verdict(check[r].key, keys[r])
      BY <3>1, <3>2, Decides
    <3>4. check'[r].phase # "waiting"
      BY <3>3 DEF Verdict
    <3> QED BY <2>1, <3>3, <3>4
  <2>2. CASE r \notin WaitingChecks
    BY <2>2 DEF WaitingChecks, KeysInv, DecidedBy
  <2> QED BY <2>1, <2>2
<1>2. check' = [r \in Checks |-> check'[r]]
  BY DEF DecidedBy
<1> QED BY <1>1, <1>2 DEF KeysInv, FallbackIsKnown, IsCheck

LEMMA FetchedStep ==
  ASSUME KeysInv, Fetched
  PROVE  /\ KeysInv'
         /\ \A r \in Checks : check'[r] = check[r] \/ check'[r].phase = Verdict(check'[r].key, known'.keys)
<1> DEFINE keys == [r \in Checks |-> published]
<1>1. check' = [r \in Checks |-> IF r \in WaitingChecks
        THEN [check[r] EXCEPT !.phase = Verdict(check[r].key, published), !.fallback = NeverFetched]
        ELSE check[r]]
  BY DEF Fetched, Decided, FetchedKeys
<1>2. DecidedBy(keys)
  BY <1>1 DEF DecidedBy, DecidedAs
<1>3. known'.keys = published /\ \A r \in Checks : keys[r] = published
  BY DEF Fetched
<1> HIDE DEF keys
<1>4. /\ KeysInv'
      /\ \A r \in Checks :
           check'[r] = check[r] \/ (check'[r].phase = Verdict(check'[r].key, keys[r]) /\ r \in WaitingChecks)
  BY <1>2, AllDecided
<1> QED BY <1>3, <1>4

LEMMA FetchFailedStep ==
  ASSUME KeysInv, FetchFailed
  PROVE  /\ KeysInv'
         /\ \A r \in Checks : check'[r] = check[r] \/ check'[r].phase = Verdict(check'[r].key, known'.keys)
<1> DEFINE keys == [r \in Checks |-> check[r].fallback.keys]
<1>1. check' = [r \in Checks |-> IF r \in WaitingChecks
        THEN [check[r] EXCEPT !.phase = Verdict(check[r].key, check[r].fallback.keys), !.fallback = NeverFetched]
        ELSE check[r]]
  BY DEF FetchFailed, Decided
<1>2. DecidedBy(keys)
  BY <1>1 DEF DecidedBy, DecidedAs
<1>3. known' = known /\ \A r \in WaitingChecks : keys[r] = known.keys
  BY DEF FetchFailed, KeysInv, FallbackIsKnown, WaitingChecks
<1> HIDE DEF keys
<1>4. /\ KeysInv'
      /\ \A r \in Checks :
           check'[r] = check[r] \/ (check'[r].phase = Verdict(check'[r].key, keys[r]) /\ r \in WaitingChecks)
  BY <1>2, AllDecided
<1> QED BY <1>3, <1>4

LEMMA VerifyStep ==
  ASSUME KeysInv, NEW r \in Checks, NEW key \in SigningKeys, Verify(r, key)
  PROVE  /\ KeysInv'
         /\ known' = known
         /\ \A q \in Checks : \/ check'[q] = check[q] \/ check'[q].phase = "waiting"
                              \/ check'[q].phase = Verdict(check'[q].key, known.keys)
<1>1. known' = known
  BY DEF Verify
<1>2. CASE check' = [check EXCEPT ![r] = [phase |-> Verdict(key, known.keys), key |-> key, fallback |-> NeverFetched]]
  BY <1>1, <1>2 DEF KeysInv, IsCheck, FallbackIsKnown, Verdict
<1>3. CASE check' = [check EXCEPT ![r] = [phase |-> "waiting", key |-> key, fallback |-> known]]
  BY <1>1, <1>3 DEF KeysInv, IsCheck, FallbackIsKnown
<1> QED BY <1>1, <1>2, <1>3 DEF Verify

LEMMA KeysStep == KeysInv /\ [KeysNext]_keyVars => KeysInv'
<1> SUFFICES ASSUME KeysInv, [KeysNext]_keyVars PROVE KeysInv'
  OBVIOUS
<1>1. CASE UNCHANGED <<check, known>>
  BY <1>1 DEF KeysInv, IsCheck, FallbackIsKnown
<1> QED
  BY <1>1, VerifyStep, FetchedStep, FetchFailedStep
     DEF KeysNext, NewKey, WithdrawKey, Reachability, ClockTicks, keyVars

(* However long the identity service is unreachable, the keys fetched last *)
(* decide, and only they: for requests that waited, for requests that came *)
(* in the pause after a failure, and for a key that was withdrawn before   *)
(* the last fetch (createTokenVerifier in auth.ts).                        *)
THEOREM KeysCorrect == KeysSpec => LastKeysDecide
<1> DEFINE Right ==
      \A r \in Checks :
        /\ Answers(r, "accepted") => check'[r].key \in known'.keys
        /\ Answers(r, "rejected") => check'[r].key \notin known'.keys
<1>1. ASSUME KeysInv, [KeysNext]_keyVars PROVE Right
  <2>1. ASSUME NEW r \in Checks,
               \/ check'[r] = check[r] \/ check'[r].phase = "waiting"
               \/ check'[r].phase = Verdict(check'[r].key, known'.keys)
        PROVE  /\ Answers(r, "accepted") => check'[r].key \in known'.keys
               /\ Answers(r, "rejected") => check'[r].key \notin known'.keys
    BY <2>1 DEF Answers, Verdict
  <2>2. ASSUME NEW r \in Checks
        PROVE  \/ check'[r] = check[r] \/ check'[r].phase = "waiting"
               \/ check'[r].phase = Verdict(check'[r].key, known'.keys)
    BY <1>1, VerifyStep, FetchedStep, FetchFailedStep
       DEF KeysNext, NewKey, WithdrawKey, Reachability, ClockTicks, keyVars
  <2> QED BY <2>1, <2>2
<1>2. KeysSpec => []KeysInv
  BY KeysStart, KeysStep, PTL DEF KeysSpec
<1>3. KeysSpec => [][Right]_keyVars
  BY <1>1, <1>2, PTL DEF KeysSpec
<1> QED BY <1>3 DEF LastKeysDecide

-----------------------------------------------------------------------------
(* The session of the page. *)

Renewals == {"loading", "off", "armed", "asked", "later", "retry"}

SessionTyped ==
  /\ issued \in Seq(Nat)
  /\ kept \in 0 .. Len(issued) /\ session \in {0, kept}
  /\ renewal \in Renewals /\ removing \in BOOLEAN /\ keycloak \in BOOLEAN
  /\ call \in [Calls -> Nat]
  /\ time \in Nat /\ lastOutage \in Nat

(* The two can differ only while the page is about to find out what it     *)
(* keeps, or while the tokens are being removed.                           *)
SameToken ==
  \/ session = kept
  \/ removing
  \/ renewal \in {"loading", "asked"}

(* How far the renewal of the token of a session is, and what it knows of  *)
(* Keycloak.                                                               *)
RenewalOnTime ==
  /\ keycloak \/ lastOutage >= time
  /\ renewal = "loading" => session = 0
  /\ session # 0 =>
       /\ renewal \in {"armed", "asked", "later"} => ~Expired(session)
       /\ renewal = "later" => lastOutage >= time
       /\ renewal = "retry" => lastOutage >= time - 1
       /\ renewal = "off" => Expired(session) /\ lastOutage >= time - 1

SessionInv == SessionTyped /\ SameToken /\ RenewalOnTime

(* The same, of the state after a step that says what it leaves alone.     *)
LEMMA SessionFacts ==
  ASSUME SessionInv
  PROVE  /\ Len(issued) \in Nat /\ Life \in Nat /\ RenewBefore \in Nat /\ RenewBefore >= 1 /\ RenewBefore < Life
         /\ session # 0 => session = kept /\ session \in 1 .. Len(issued) /\ Expires(session) \in Nat
         /\ kept # 0 => kept \in 1 .. Len(issued) /\ Expires(kept) \in Nat
<1>1. Len(issued) \in Nat /\ \A t \in 1 .. Len(issued) : issued[t] \in Nat
  BY DEF SessionInv, SessionTyped
<1> QED BY <1>1, LifeAssumption DEF SessionInv, SessionTyped, Expires

LEMMA NewToken ==
  ASSUME SessionInv, issued' = Append(issued, time)
  PROVE  /\ issued' \in Seq(Nat) /\ Len(issued') = Len(issued) + 1 /\ Len(issued') # 0
         /\ issued'[Len(issued')] = time
<1>1. issued \in Seq(Nat) /\ time \in Nat
  BY DEF SessionInv, SessionTyped
<1> QED BY <1>1

LEMMA SessionStarts == SessionInit => SessionInv
<1> SUFFICES ASSUME SessionInit PROVE SessionInv
  OBVIOUS
<1>1. issued \in Seq(Nat) /\ Len(issued) = 1
  BY DEF SessionInit
<1>2. kept \in 0 .. Len(issued) /\ session \in {0, kept}
  BY <1>1 DEF SessionInit
<1>3. call \in [Calls -> Nat]
  BY DEF SessionInit
<1>4. renewal \in Renewals /\ removing \in BOOLEAN /\ keycloak \in BOOLEAN /\ time \in Nat /\ lastOutage \in Nat
  BY DEF SessionInit, Renewals
<1>5. SessionTyped
  BY <1>1, <1>2, <1>3, <1>4 DEF SessionTyped
<1> QED BY <1>5 DEF SessionInit, SessionInv, SameToken, RenewalOnTime

(* The token of the session is renewed, or a new one comes with a new page. *)
LEMMA TokenIssued ==
  ASSUME SessionInv,
         issued' = Append(issued, time), kept' = Len(issued'), session' = Len(issued'),
         renewal' = "armed", removing' \in BOOLEAN, call' \in [Calls -> Nat],
         UNCHANGED <<keycloak, time, lastOutage>>
  PROVE  SessionInv'
<1>1. /\ issued' \in Seq(Nat) /\ Len(issued') = Len(issued) + 1 /\ Len(issued') # 0
      /\ issued'[Len(issued')] = time
  BY NewToken
<1>2. SessionTyped'
  BY <1>1, SessionFacts DEF SessionInv, SessionTyped, Renewals
<1>3. SameToken'
  BY DEF SameToken
<1>4. ~Expired(session)'
  BY <1>1, SessionFacts DEF Expired, Expires, SessionInv, SessionTyped
<1>5. RenewalOnTime'
  BY <1>4 DEF SessionInv, RenewalOnTime
<1> QED BY <1>2, <1>3, <1>5 DEF SessionInv

(* A session ends: either nothing is kept any more, or it is being removed. *)
LEMMA SessionEnds ==
  ASSUME SessionInv, session' = 0,
         kept' \in {0, kept}, removing' \in BOOLEAN, kept' = 0 \/ removing',
         call' \in [Calls -> Nat],
         UNCHANGED <<issued, renewal, keycloak, time, lastOutage>>
  PROVE  SessionInv'
<1>1. SessionTyped'
  BY SessionFacts DEF SessionInv, SessionTyped
<1>2. SameToken' /\ RenewalOnTime'
  BY DEF SessionInv, SameToken, RenewalOnTime
<1> QED BY <1>1, <1>2 DEF SessionInv

LEMMA SessionStep == SessionInv /\ [SessionNext]_sessionVars => SessionInv'
<1> SUFFICES ASSUME SessionInv, [SessionNext]_sessionVars PROVE SessionInv'
  OBVIOUS
<1>0. SessionTyped /\ SameToken /\ RenewalOnTime
  BY DEF SessionInv
<1>1. CASE Restore
  <2>1. session = 0 /\ removing \in BOOLEAN
    BY <1>0, <1>1 DEF Restore, RenewalOnTime, SessionTyped
  <2>2. SessionTyped'
    BY <1>0, <1>1 DEF Restore, Set, SessionTyped, Renewals
  <2>3. SameToken'
    BY <1>1, <2>1 DEF Restore, Set, SameToken
  <2>4. RenewalOnTime'
    BY <1>0, <1>1, <2>1 DEF Restore, Set, RenewalOnTime, Expired, Expires
  <2> QED BY <2>2, <2>3, <2>4 DEF SessionInv
<1>2. CASE Renew
  <2>1. renewal = "armed" /\ kept # 0 /\ (session # 0 => ~Expired(kept))
    BY <1>0, <1>2, SessionFacts DEF Renew, RenewalDue, RenewalOnTime
  <2>2. SessionTyped'
    BY <1>0, <1>2 DEF Renew, SessionTyped, Renewals
  <2>3. SameToken'
    BY <1>0, <1>2, <2>1 DEF Renew, SameToken
  <2>4. RenewalOnTime'
    BY <1>0, <1>2, <2>1, SessionFacts DEF Renew, RenewalOnTime, Expired, Expires
  <2> QED BY <2>2, <2>3, <2>4 DEF SessionInv
<1>3. CASE Renewed
  BY <1>0, <1>3, TokenIssued DEF Renewed, Set, SessionTyped
<1>4. CASE RenewalFailed
  <2>1. SessionTyped'
    BY <1>0, <1>4 DEF RenewalFailed, AfterError, SessionTyped, Renewals
  <2>2. SameToken'
    BY <1>0, <1>4 DEF RenewalFailed, AfterError, SameToken, SessionTyped
  <2>3. RenewalOnTime'
    BY <1>0, <1>4 DEF RenewalFailed, AfterError, RenewalOnTime, Expired, Expires, SessionTyped
  <2> QED BY <2>1, <2>2, <2>3 DEF SessionInv
<1>5. CASE RetryRenewal
  <2>1. SessionTyped'
    BY <1>0, <1>5 DEF RetryRenewal, SessionTyped, Renewals
  <2>2. SameToken'
    BY <1>0, <1>5 DEF RetryRenewal, SameToken
  <2>3. RenewalOnTime'
    BY <1>0, <1>5, SessionFacts DEF RetryRenewal, RenewalOnTime, Expired, Expires
  <2> QED BY <2>1, <2>2, <2>3 DEF SessionInv
<1>6. CASE TokenExpired
  BY <1>0, <1>6, SessionEnds DEF TokenExpired, ExpiryDue, Set, SessionTyped
<1>7. CASE RemoveUser
  BY <1>0, <1>7, SessionEnds DEF RemoveUser, SessionTyped
<1>8. ASSUME NEW c \in Calls, SendCall(c)
      PROVE  SessionInv'
  <2>1. call' \in [Calls -> Nat]
    BY <1>0, <1>8, SessionFacts DEF SendCall, SessionTyped
  <2> QED BY <1>0, <1>8, <2>1 DEF SendCall, SessionInv, SessionTyped, SameToken, RenewalOnTime, Expired, Expires
<1>9. ASSUME NEW c \in Calls, CallAnswered(c)
      PROVE  SessionInv'
  <2>1. call' \in [Calls -> Nat]
    BY <1>0, <1>9 DEF CallAnswered, SessionTyped
  <2>2. CASE Expired(call[c]) /\ session # 0
    BY <1>0, <1>9, <2>1, <2>2, SessionEnds DEF CallAnswered, Set, SessionTyped
  <2>3. CASE ~(Expired(call[c]) /\ session # 0)
    BY <1>0, <1>9, <2>1, <2>3
       DEF CallAnswered, SessionInv, SessionTyped, SameToken, RenewalOnTime, Expired, Expires
  <2> QED BY <2>2, <2>3
<1>10. CASE ReloadPage
  BY <1>0, <1>10 DEF ReloadPage, SessionInv, SessionTyped, SameToken, RenewalOnTime, Renewals
<1>11. CASE SignIn
  <2>1. call' \in [Calls -> Nat]
    BY <1>11 DEF SignIn
  <2> QED BY <1>0, <1>11, <2>1, TokenIssued DEF SignIn, SessionTyped
<1>12. CASE SignOut
  BY <1>0, <1>12 DEF SignOut, SessionInv, SessionTyped, SameToken, RenewalOnTime, Expired, Expires
<1>13. CASE KeycloakChanges
  <2>1. lastOutage' = time /\ time \in Nat
    BY <1>0, <1>13 DEF KeycloakChanges, SessionTyped
  <2> QED BY <1>0, <1>13, <2>1
          DEF KeycloakChanges, SessionInv, SessionTyped, SameToken, RenewalOnTime, Expired, Expires
<1>14. CASE Tick5s
  <2>1. time' = time + 1 /\ time \in Nat /\ lastOutage \in Nat /\ session = kept
        /\ UNCHANGED <<issued, kept, session, removing, call, keycloak>>
        /\ lastOutage' = (IF keycloak THEN lastOutage ELSE time')
        /\ renewal' = (IF renewal = "later" THEN "retry" ELSE renewal)
        /\ renewal \in {"off", "armed", "later"}
    BY <1>0, <1>14 DEF Tick5s, Settled, SessionTyped, SameToken, Renewals
  <2>2. SessionTyped'
    BY <1>0, <2>1 DEF SessionTyped, Renewals
  <2>3. SameToken'
    BY <2>1 DEF SameToken
  <2>4. session # 0 => renewal # "off"
    BY <1>0, <1>14, <2>1 DEF Tick5s, ExpiryDue, RenewalOnTime
  <2>5. session # 0 /\ renewal = "armed" => ~Expired(session)'
    BY <1>0, <1>14, <2>1, SessionFacts DEF Tick5s, RenewalDue, Expired, Expires
  <2>6. RenewalOnTime'
    BY <1>0, <2>1, <2>4, <2>5 DEF RenewalOnTime
  <2> QED BY <2>2, <2>3, <2>6 DEF SessionInv
<1>15. CASE UNCHANGED sessionVars
  BY <1>0, <1>15 DEF sessionVars, SessionInv, SessionTyped, SameToken, RenewalOnTime, Expired, Expires
<1> QED BY <1>1, <1>2, <1>3, <1>4, <1>5, <1>6, <1>7, <1>8, <1>9, <1>10, <1>11, <1>12, <1>13, <1>14, <1>15
        DEF SessionNext

(* The page and the OIDC client agree whenever nothing is under way, for   *)
(* any life of the tokens and any number of requests.                      *)
THEOREM SessionCorrect == SessionSpec => []TokensFitSession
<1>1. SessionInv => TokensFitSession
  BY DEF SessionInv, SameToken, TokensFitSession, Settled
<1> QED BY SessionStarts, SessionStep, <1>1, PTL DEF SessionSpec

(* A session whose token expired had Keycloak down in the last five        *)
(* seconds: the renewal is retried until then.                             *)
THEOREM OutagesOutlived == SessionSpec => OutlivesOutages
<1> DEFINE A == session # 0 /\ session' = 0 /\ renewal' # "loading" /\ Expired(session) => lastOutage >= time - 1
<1>1. SessionInv /\ [SessionNext]_sessionVars => A
  <2> SUFFICES ASSUME SessionInv, session # 0, Expired(session) PROVE lastOutage >= time - 1
    OBVIOUS
  <2>1. renewal \in {"off", "retry"}
    BY DEF SessionInv, SessionTyped, RenewalOnTime, Renewals
  <2> QED BY <2>1 DEF SessionInv, RenewalOnTime
<1>2. SessionInv /\ [SessionNext]_sessionVars => [A]_sessionVars
  BY <1>1
<1> QED BY SessionStarts, SessionStep, <1>2, PTL DEF SessionSpec, OutlivesOutages
=============================================================================
