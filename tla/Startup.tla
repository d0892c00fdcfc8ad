------------------------------- MODULE Startup -------------------------------
(***************************************************************************)
(* The life of the replicas of one service (main.ts of each service, over  *)
(* service-kit's db.ts and lifecycle.ts): wait for the database, migrate   *)
(* it, serve, and stop in order.  Replicas of two releases start at the    *)
(* same time, crash, and lose the database; docker starts them again.      *)
(***************************************************************************)
EXTENDS Integers, Sequences, FiniteSets

CONSTANTS
  Services,      \* the replicas
  Migrations,    \* the migrations each of them brings: files 1 .. Migrations[s]
  WaitAttempts,  \* how often waitForDatabase asks
  MaxMishaps     \* bound: crashes, outages of the database, and stops

ASSUME MigrationsAssumption == Migrations \in [Services -> Nat \ {0}]
ASSUME ServicesAssumption == "nobody" \notin Services   \* locked tells them apart

VARIABLES
  process,     \* each replica
  database,    \* is it reachable?
  locked,      \* who holds the advisory lock: a replica or "nobody"
  schema,      \* the migrations in effect, in the order they were applied
  mishaps      \* counter for the bound
startupVars == <<process, database, locked, schema, mishaps>>

Kinds == {"request", "tick", "message"}
(* seen: what schema_migrations had; file: the next one to look at; open:  *)
(* is its transaction open?  work: what is under way; stop: how many steps *)
(* of the shutdown have begun.                                             *)
Gone == [phase |-> "gone", attempts |-> 0, seen |-> {}, file |-> 1, open |-> FALSE, work |-> {}, stop |-> 0]

StartupInit ==
  /\ process = [s \in Services |-> Gone]
  /\ database \in BOOLEAN
  /\ locked = "nobody"
  /\ schema = <<>>
  /\ mishaps = 0

Applied == {schema[i] : i \in DOMAIN schema}
InPhase(s, phase) == process[s].phase = phase
ReleaseLock(s) == locked' = IF locked = s THEN "nobody" ELSE locked

Launch(s) ==
  /\ InPhase(s, "gone")
  /\ process' = [process EXCEPT ![s].phase = "waiting", ![s].attempts = 1]
  /\ UNCHANGED <<database, locked, schema, mishaps>>

(* The process ends; its session goes, and with it the lock. *)
Exit(s) ==
  /\ process' = [process EXCEPT ![s] = Gone]
  /\ ReleaseLock(s)

GiveUpStart(s) == Exit(s) /\ UNCHANGED <<database, schema, mishaps>>

(* waitForDatabase: SELECT 1, up to so many times. *)
Wait(s) ==
  /\ InPhase(s, "waiting")
  /\ IF database
     THEN /\ process' = [process EXCEPT ![s].phase = "locking"]
          /\ UNCHANGED <<database, locked, schema, mishaps>>
     ELSE IF process[s].attempts < WaitAttempts
     THEN /\ process' = [process EXCEPT ![s].attempts = @ + 1]
          /\ UNCHANGED <<database, locked, schema, mishaps>>
     ELSE GiveUpStart(s)

MayLockAlways(s) == TRUE   \* mutant: no advisory lock
MayLock(s) == locked = "nobody"

(* runMigrations. *)
Lock(s) ==
  /\ InPhase(s, "locking")
  /\ database /\ MayLock(s)
  /\ locked' = s
  /\ process' = [process EXCEPT ![s].phase = "reading"]
  /\ UNCHANGED <<database, schema, mishaps>>

ReadApplied(s) ==
  /\ InPhase(s, "reading")
  /\ database
  /\ process' = [process EXCEPT ![s].phase = "migrating", ![s].seen = Applied]
  /\ UNCHANGED <<database, locked, schema, mishaps>>

Skip(s) == process[s].file <= Migrations[s] /\ process[s].file \in process[s].seen

BeginMigration(s) ==
  /\ InPhase(s, "migrating") /\ ~process[s].open
  /\ database
  /\ process[s].file <= Migrations[s]
  /\ process' = IF Skip(s) THEN [process EXCEPT ![s].file = @ + 1] ELSE [process EXCEPT ![s].open = TRUE]
  /\ UNCHANGED <<database, locked, schema, mishaps>>

(* The statements and the row of schema_migrations, in one transaction.    *)
(* Where the migration is in effect already they are refused.              *)
CommitMigration(s) ==
  /\ InPhase(s, "migrating") /\ process[s].open
  /\ database
  /\ IF process[s].file \in Applied THEN GiveUpStart(s)
     ELSE /\ schema' = Append(schema, process[s].file)
          /\ process' = [process EXCEPT ![s].file = @ + 1, ![s].open = FALSE]
          /\ UNCHANGED <<database, locked, mishaps>>

(* The lock is given back, the consumers and loops start, the port opens.  *)
Serve(s) ==
  /\ InPhase(s, "migrating") /\ ~process[s].open
  /\ process[s].file > Migrations[s]
  /\ ReleaseLock(s)
  /\ process' = [process EXCEPT ![s] = [Gone EXCEPT !.phase = "serving"]]
  /\ UNCHANGED <<database, schema, mishaps>>

(* A query of the start that the database does not answer ends it. *)
LoseDatabase(s) ==
  /\ process[s].phase \in {"locking", "reading", "migrating"}
  /\ ~database
  /\ GiveUpStart(s)

-----------------------------------------------------------------------------
(* Serving and stopping: the steps given to onShutdown, in their order.    *)

StopOrder == <<"request", "tick", "message", "pool">>

(* What a step closes, and all the steps before it, takes nothing new.     *)
Takes(s, kind) == \A n \in 1 .. process[s].stop : StopOrder[n] # kind

TakeWork(s, kind) ==
  /\ InPhase(s, "serving")
  /\ kind \notin process[s].work
  /\ Takes(s, kind)
  /\ process' = [process EXCEPT ![s].work = @ \cup {kind}]
  /\ UNCHANGED <<database, locked, schema, mishaps>>

Finish(s, kind) ==
  /\ kind \in process[s].work
  /\ process' = [process EXCEPT ![s].work = @ \ {kind}]
  /\ UNCHANGED <<database, locked, schema, mishaps>>

(* close() waits for the requests, stop() for the tick of the loop; the    *)
(* channels of the broker are closed under the handlers' feet.             *)
Awaited(s) == process[s].stop > 0 /\ StopOrder[process[s].stop] \in process[s].work \ {"message"}

StopStep(s) ==
  /\ InPhase(s, "serving")
  /\ process[s].stop \in 1 .. Len(StopOrder) - 1
  /\ ~Awaited(s)
  /\ process' = [process EXCEPT ![s].stop = @ + 1]
  /\ UNCHANGED <<database, locked, schema, mishaps>>

Stopped(s) ==
  /\ process[s].stop = Len(StopOrder)
  /\ ~Awaited(s)
  /\ Exit(s)
  /\ UNCHANGED <<database, schema, mishaps>>

-----------------------------------------------------------------------------
Mishap == mishaps < MaxMishaps /\ mishaps' = mishaps + 1

Signal(s) ==
  /\ InPhase(s, "serving") /\ process[s].stop = 0
  /\ Mishap
  /\ process' = [process EXCEPT ![s].stop = 1]
  /\ UNCHANGED <<database, locked, schema>>

CrashService(s) ==
  /\ ~InPhase(s, "gone")
  /\ Mishap
  /\ Exit(s)
  /\ UNCHANGED <<database, schema>>

Outage == database /\ Mishap /\ database' = FALSE /\ UNCHANGED <<process, locked, schema>>
Recovery == ~database /\ database' = TRUE /\ UNCHANGED <<process, locked, schema, mishaps>>

Progress(s) ==
  \/ Launch(s) \/ Wait(s) \/ Lock(s) \/ ReadApplied(s) \/ BeginMigration(s) \/ CommitMigration(s) \/ Serve(s)
  \/ LoseDatabase(s) \/ StopStep(s) \/ Stopped(s) \/ \E kind \in Kinds : Finish(s, kind)

StartupNext ==
  \/ \E s \in Services :
       Progress(s) \/ Signal(s) \/ CrashService(s) \/ \E kind \in Kinds : TakeWork(s, kind)
  \/ Outage \/ Recovery

StartupSpec == StartupInit /\ [][StartupNext]_startupVars

-----------------------------------------------------------------------------
(* "An advisory lock makes this safe when several replicas of a service    *)
(* start at the same time": a start fails only because the database was    *)
(* away, never because another replica was migrating.                      *)
StartsDoNotDisturbEachOther ==
  [][\A s \in Services :
       process[s].phase \in {"waiting", "locking", "reading", "migrating"} /\ process'[s].phase = "gone" =>
         ~database \/ mishaps' # mishaps]_startupVars

(* A replica that serves has the schema its release needs, every migration *)
(* once and in order - the newer ones of another release may be there.     *)
MigratedBeforeServing ==
  /\ \A i \in DOMAIN schema : schema[i] = i
  /\ \A s \in Services : InPhase(s, "serving") => 1 .. Migrations[s] \subseteq Applied

(* Stopping takes the database away only from what is delivered again:     *)
(* when the pool ends, no request and no tick of a loop is under way.      *)
WorkEndsBeforeThePool ==
  \A s \in Services :
    process[s].stop > 0 /\ StopOrder[process[s].stop] = "pool" => process[s].work \subseteq {"message"}

=============================================================================
