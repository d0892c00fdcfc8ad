------------------------------- MODULE Gateway -------------------------------
(***************************************************************************)
(* Requests of the web client on their way through the gateway             *)
(* (gateway/src/main.ts) to one of the replicas of a service, and back     *)
(* (service-kit/src/http.ts, web/src/api.ts).  The token is checked by the *)
(* gateway and again by the service.  Replicas go away, before or after    *)
(* they handled a request; the proxy (external) then tries a read once     *)
(* more, on another connection.                                            *)
(***************************************************************************)
EXTENDS Integers, FiniteSets

CONSTANTS
  Hops,       \* requests under way
  Backends,   \* the replicas of the service
  Retries,    \* RETRIES_ON_BROKEN_CONNECTION
  MaxBreaks   \* bound: how often a replica goes away

ASSUME RetriesAssumption == Retries \in Nat

VARIABLES
  hop,       \* each request
  backend,   \* is the replica there?
  breaks,    \* counter for the bound
  online     \* what the page shows of the connection: connectionStore
gatewayVars == <<hop, backend, breaks, online>>

(* A webhook call carries its secret in the URL instead of a token.        *)
Methods == {"read", "write", "hook"}
(* at: the replica; tries: attempts that began; effects (history): how     *)
(* often a replica handled it.                                             *)
NoHop == [phase |-> "idle", method |-> "read", token |-> FALSE, at |-> "none", tries |-> 0,
          broken |-> 0, effects |-> 0, status |-> 0]

GatewayInit ==
  /\ hop = [h \in Hops |-> NoHop]
  /\ backend \in [Backends -> BOOLEAN]
  /\ breaks = 0
  /\ online = TRUE

AtPhase(h, phase) == hop[h].phase = phase
Goes(h, phase) == hop' = [hop EXCEPT ![h].phase = phase]
ReplyWith(h, status) ==
  hop' = [hop EXCEPT ![h] = [@ EXCEPT !.phase = "answered", !.status = status, !.at = "none"]]

Request(h, method, token) ==
  /\ AtPhase(h, "idle")
  /\ hop' = [hop EXCEPT ![h] = [NoHop EXCEPT !.phase = "gateway", !.method = method, !.token = token]]
  /\ UNCHANGED <<backend, breaks, online>>

(* installAuth, of the gateway and of the service: the prefix of the hooks *)
(* is public.  A good token can be refused (KeyCache), a bad one is not    *)
(* accepted.                                                               *)
MayPass(h) == hop[h].method = "hook" \/ hop[h].token
Refuse(h) == hop[h].method # "hook" /\ ReplyWith(h, 401)

AtGateway(h) ==
  /\ AtPhase(h, "gateway")
  /\ \/ MayPass(h) /\ Goes(h, "connect")
     \/ Refuse(h)
  /\ UNCHANGED <<backend, breaks, online>>

RetriesAnything(h) == hop[h].tries <= Retries   \* mutant: writes, too
MayRetry(h) == hop[h].method = "read" /\ hop[h].tries <= Retries

(* The connection broke: once more, or 503. *)
Broken(h) ==
  IF MayRetry(h) THEN [hop[h] EXCEPT !.phase = "connect", !.at = "none", !.broken = @ + 1]
  ELSE [hop[h] EXCEPT !.phase = "answered", !.at = "none", !.status = 503, !.broken = @ + 1]

Connect(h, b) ==
  /\ AtPhase(h, "connect")
  /\ hop' = [hop EXCEPT ![h].phase = "service", ![h].at = b, ![h].tries = @ + 1]
  /\ UNCHANGED <<backend, breaks, online>>

Disconnected(h) ==
  /\ hop[h].phase \in {"service", "handled"}
  /\ ~backend[hop[h].at]
  /\ hop' = [hop EXCEPT ![h] = Broken(h)]
  /\ UNCHANGED <<backend, breaks, online>>

AtService(h) ==
  /\ AtPhase(h, "service") /\ backend[hop[h].at]
  /\ \/ MayPass(h) /\ hop' = [hop EXCEPT ![h].phase = "handled", ![h].effects = @ + 1]
     \/ Refuse(h)
  /\ UNCHANGED <<backend, breaks, online>>

Respond(h) ==
  /\ AtPhase(h, "handled") /\ backend[hop[h].at]
  /\ ReplyWith(h, 200)
  /\ UNCHANGED <<backend, breaks, online>>

(* The page: whatever it asked for, the banner follows the last answer.    *)
ShownAnswer(h) ==
  /\ AtPhase(h, "answered")
  /\ online' = (hop[h].status # 503)
  /\ hop' = [hop EXCEPT ![h] = NoHop]
  /\ UNCHANGED <<backend, breaks>>

BackendGoes(b) ==
  /\ backend[b] /\ breaks < MaxBreaks
  /\ backend' = [backend EXCEPT ![b] = FALSE]
  /\ breaks' = breaks + 1
  /\ UNCHANGED <<hop, online>>
BackendComes(b) == ~backend[b] /\ backend' = [backend EXCEPT ![b] = TRUE] /\ UNCHANGED <<hop, breaks, online>>

GatewayNext ==
  \/ \E h \in Hops :
       \/ \E method \in Methods, token \in BOOLEAN : Request(h, method, token)
       \/ AtGateway(h) \/ \E b \in Backends : Connect(h, b)
       \/ Disconnected(h) \/ AtService(h) \/ Respond(h) \/ ShownAnswer(h)
  \/ \E b \in Backends : BackendGoes(b) \/ BackendComes(b)

GatewaySpec == GatewayInit /\ [][GatewayNext]_gatewayVars

-----------------------------------------------------------------------------
(* What changes something reaches a replica at most once, and the answer   *)
(* says so: done, refused without effect, or unknown - never done twice    *)
(* because a connection broke after the work was done.                     *)
WriteHandledOnce ==
  \A h \in Hops :
    hop[h].method # "read" =>
      /\ hop[h].effects <= 1
      /\ AtPhase(h, "answered") /\ hop[h].status = 200 => hop[h].effects = 1
      /\ AtPhase(h, "answered") /\ hop[h].status = 401 => hop[h].effects = 0

(* A read fails only after as many broken connections as are allowed, and  *)
(* a single replica that goes away fails none.                             *)
ReadOutlivesBreaks ==
  \A h \in Hops :
    AtPhase(h, "answered") /\ hop[h].status = 503 /\ hop[h].method = "read" => hop[h].broken = Retries + 1
=============================================================================
