--------------------------- MODULE ServiceProcess ---------------------------
(***************************************************************************)
(* The life of the service's processes: main, Svc.New with the migrations  *)
(* of MigrateDatabaseUp, Svc.Run with its graceful shutdown, the           *)
(* connection pool and the handlers that use it.  Replicas of the service  *)
(* share one database; each may be interrupted, may die and start again.   *)
(*                                                                         *)
(* golang-migrate, echo and pgxpool are external: migrate takes an         *)
(* advisory lock that ends with its session, marks the schema dirty around *)
(* every migration and asks GracefulStop before each; Shutdown stops       *)
(* accepting and waits for what runs; Close waits for every connection.    *)
(***************************************************************************)
EXTENDS Integers, FiniteSets

CONSTANTS
    Replicas, Handlers, None,
    Last,               \* the number of migrations embedded in the binary
    PoolSize,
    HandlerDeadline,    \* ContextTimeout, 10 s
    ReadTimeout,        \* of the server, 30 s, unless APP_ENV is "dev"
    ShutdownTimeout,    \* of the graceful shutdown, 30 s
    Production,         \* APP_ENV is not "dev"
    MaxAge,             \* bound: ages saturate here
    MaxStarts           \* bound: how often a replica is started

ASSUME ProcessAssumption ==
    /\ Replicas \cap Handlers = {}
    /\ None \notin Replicas
    /\ Last \in Nat /\ PoolSize \in Nat \ {0} /\ MaxStarts \in Nat
    /\ HandlerDeadline \in Nat \ {0}
    /\ ReadTimeout \in Nat
    /\ ShutdownTimeout \in Nat
    /\ MaxAge \in Nat
    /\ HandlerDeadline =< ShutdownTimeout
    /\ ShutdownTimeout =< MaxAge
    /\ ReadTimeout =< MaxAge
    /\ Production \in BOOLEAN

VARIABLES
    version, dirty,     \* the row of schema_migrations
    applied,            \* migrations whose SQL has taken effect
    lock,               \* the replica that holds the advisory lock
    brokenOff,          \* history: a process died inside a migration
    phase,              \* where each process is
    stopping,           \* its context is done
    gracefulStop,       \* the relay has told migrate to stop
    conns,              \* who uses a connection of its pool
    shutdownAge,        \* how long Shutdown has been waiting
    starts,             \* how often it has been started
    hpc, at, age        \* each handler: where, on which replica, for how long

schemaVars  == <<version, dirty, applied, lock, brokenOff>>
processVars == <<phase, stopping, gracefulStop, conns, shutdownAge, starts>>
handlerVars == <<hpc, at, age>>
vars == <<schemaVars, processVars, handlerVars>>

Phase == {"down", "booting", "locked", "applying", "applied", "wired",
          "serving", "draining", "closing"}

TypeOK ==
    /\ version \in 0..Last /\ applied \in 0..Last
    /\ dirty \in BOOLEAN /\ brokenOff \in BOOLEAN
    /\ lock \in Replicas \cup {None}
    /\ phase \in [Replicas -> Phase]
    /\ stopping \in [Replicas -> BOOLEAN]
    /\ gracefulStop \in [Replicas -> BOOLEAN]
    /\ conns \in [Replicas -> SUBSET (Replicas \cup Handlers)]
    /\ shutdownAge \in [Replicas -> 0..ShutdownTimeout]
    /\ starts \in [Replicas -> 0..MaxStarts]
    /\ hpc \in [Handlers -> {"none", "reading", "waiting", "holding"}]
    /\ at \in [Handlers -> Replicas \cup {None}]
    /\ age \in [Handlers -> 0..MaxAge]

Init ==
    /\ version = 0 /\ applied = 0 /\ dirty = FALSE /\ brokenOff = FALSE
    /\ lock = None
    /\ phase = [r \in Replicas |-> "down"]
    /\ stopping = [r \in Replicas |-> FALSE]
    /\ gracefulStop = [r \in Replicas |-> FALSE]
    /\ conns = [r \in Replicas |-> {}]
    /\ shutdownAge = [r \in Replicas |-> 0]
    /\ starts = [r \in Replicas |-> 0]
    /\ hpc = [h \in Handlers |-> "none"]
    /\ at = [h \in Handlers |-> None]
    /\ age = [h \in Handlers |-> 0]

-----------------------------------------------------------------------------
Become(r, p) == phase' = [phase EXCEPT ![r] = p]
Migrating(r) == phase[r] \in {"locked", "applying", "applied"}
ActiveOn(r)  == {h \in Handlers : at[h] = r}

\* Mutant: the dedicated connection is not given back.
ReleaseNothing(r) == UNCHANGED conns

\* m.Close gives the connection of WithInstance back to the pool.
ReleaseMigrator(r) == conns' = [conns EXCEPT ![r] = @ \ {r}]

\* The process ends, and with it its handlers, its connections and its lock.
Exit(r) ==
    /\ Become(r, "down")
    /\ stopping' = [stopping EXCEPT ![r] = FALSE]
    /\ gracefulStop' = [gracefulStop EXCEPT ![r] = FALSE]
    /\ conns' = [conns EXCEPT ![r] = {}]
    /\ shutdownAge' = [shutdownAge EXCEPT ![r] = 0]
    /\ lock' = IF lock = r THEN None ELSE lock
    /\ hpc' = [h \in Handlers |-> IF at[h] = r THEN "none" ELSE hpc[h]]
    /\ age' = [h \in Handlers |-> IF at[h] = r THEN 0 ELSE age[h]]
    /\ at'  = [h \in Handlers |-> IF at[h] = r THEN None ELSE at[h]]
    /\ UNCHANGED starts

-----------------------------------------------------------------------------
(* From the start to the end of the migrations. *)

\* main, New, and MigrateDatabaseUp until m.Up asks for the advisory lock.
Boot(r) ==
    /\ phase[r] = "down"
    /\ starts[r] < MaxStarts
    /\ starts' = [starts EXCEPT ![r] = @ + 1]
    /\ Become(r, "booting")
    /\ conns' = [conns EXCEPT ![r] = {r}]
    /\ UNCHANGED <<schemaVars, stopping, gracefulStop, shutdownAge, handlerVars>>

\* The lock is free, or m.Up gives up waiting for it and main panics.
Lock(r) ==
    /\ phase[r] = "booting"
    /\ \/ /\ lock = None
          /\ lock' = r
          /\ Become(r, "locked")
          /\ UNCHANGED <<stopping, gracefulStop, conns, shutdownAge, starts, handlerVars>>
       \/ /\ lock # None
          /\ Exit(r)
    /\ UNCHANGED <<version, dirty, applied, brokenOff>>

\* m.Up has returned nil or ErrNoChange; New goes on to register the routes.
Migrated(r) ==
    /\ lock' = None
    /\ Become(r, "wired")
    /\ ReleaseMigrator(r)
    /\ UNCHANGED <<version, dirty, applied, brokenOff, stopping, gracefulStop,
                   shutdownAge, starts, handlerVars>>

\* Mutant: whatever m.Up returns, the service goes on.
UpIgnoringErrors(r) ==
    /\ phase[r] = "locked"
    /\ dirty \/ gracefulStop[r] \/ version = Last
    /\ Migrated(r)

\* m.Up ends: at the last version, or asked to stop (which is no error); a dirty
\* schema is one, and main panics.
Up(r) ==
    /\ phase[r] = "locked"
    /\ \/ /\ ~dirty
          /\ gracefulStop[r] \/ version = Last
          /\ Migrated(r)
       \/ /\ dirty
          /\ Exit(r)
          /\ UNCHANGED <<version, dirty, applied, brokenOff>>

\* Mutant: the last version is not recognised.
AnnouncePastLast(r) ==
    /\ phase[r] = "locked"
    /\ ~dirty /\ ~gracefulStop[r]
    /\ version' = version + 1
    /\ dirty' = TRUE
    /\ Become(r, "applying")
    /\ UNCHANGED <<applied, lock, brokenOff, stopping, gracefulStop, conns,
                   shutdownAge, starts, handlerVars>>

\* The next migration is announced, its SQL run, the announcement withdrawn.
Announce(r) ==
    /\ phase[r] = "locked"
    /\ ~dirty /\ ~gracefulStop[r] /\ version < Last
    /\ version' = version + 1
    /\ dirty' = TRUE
    /\ Become(r, "applying")
    /\ UNCHANGED <<applied, lock, brokenOff, stopping, gracefulStop, conns,
                   shutdownAge, starts, handlerVars>>

Apply(r) ==
    /\ phase[r] = "applying"
    /\ applied' = version
    /\ Become(r, "applied")
    /\ UNCHANGED <<version, dirty, lock, brokenOff, stopping, gracefulStop, conns,
                   shutdownAge, starts, handlerVars>>

Withdraw(r) ==
    /\ phase[r] = "applied"
    /\ dirty' = FALSE
    /\ Become(r, "locked")
    /\ UNCHANGED <<version, applied, lock, brokenOff, stopping, gracefulStop, conns,
                   shutdownAge, starts, handlerVars>>

\* Mutant: the interrupt ends the process in the middle of a migration.
RelayKills(r) ==
    /\ stopping[r]
    /\ Migrating(r)
    /\ Exit(r)
    /\ UNCHANGED <<version, dirty, applied, brokenOff>>

\* The goroutine of MigrateDatabaseUp hands the interrupt on.
Relay(r) ==
    /\ stopping[r] /\ ~gracefulStop[r]
    /\ phase[r] = "booting" \/ Migrating(r)
    /\ gracefulStop' = [gracefulStop EXCEPT ![r] = TRUE]
    /\ UNCHANGED <<schemaVars, phase, stopping, conns, shutdownAge, starts, handlerVars>>

-----------------------------------------------------------------------------
(* Serving and shutting down. *)

\* Run: the server listens, or its port is taken and the group's context is done.
Listen(r) ==
    /\ phase[r] = "wired"
    /\ \/ /\ Become(r, "serving")
          /\ UNCHANGED stopping
       \/ /\ stopping' = [stopping EXCEPT ![r] = TRUE]
          /\ Become(r, "draining")
    /\ UNCHANGED <<schemaVars, gracefulStop, conns, shutdownAge, starts, handlerVars>>

\* The other goroutine of Run sees its context done and calls Shutdown; after
\* that the server does not start any more.
Shutdown(r) ==
    /\ phase[r] \in {"wired", "serving"}
    /\ stopping[r]
    /\ Become(r, "draining")
    /\ UNCHANGED <<schemaVars, stopping, gracefulStop, conns, shutdownAge, starts,
                   handlerVars>>

\* Mutants: Shutdown does not wait; it waits without a timeout.
DrainedAtOnce(r) ==
    /\ phase[r] = "draining"
    /\ Become(r, "closing")
    /\ UNCHANGED <<schemaVars, stopping, gracefulStop, conns, shutdownAge, starts,
                   handlerVars>>
DrainedInTheEnd(r) ==
    /\ phase[r] = "draining"
    /\ ActiveOn(r) = {}
    /\ Become(r, "closing")
    /\ UNCHANGED <<schemaVars, stopping, gracefulStop, conns, shutdownAge, starts,
                   handlerVars>>

\* Shutdown returns, with an error when its time is over; the deferred Close of
\* the pool follows either way.
Drained(r) ==
    /\ phase[r] = "draining"
    /\ ActiveOn(r) = {} \/ shutdownAge[r] >= ShutdownTimeout
    /\ Become(r, "closing")
    /\ UNCHANGED <<schemaVars, stopping, gracefulStop, conns, shutdownAge, starts,
                   handlerVars>>

\* Close returns, Wait returns and main ends.
Closed(r) ==
    /\ phase[r] = "closing"
    /\ conns[r] = {}
    /\ Exit(r)
    /\ UNCHANGED <<version, dirty, applied, brokenOff>>

\* An interrupt or SIGTERM.
Signal(r) ==
    /\ phase[r] # "down" /\ ~stopping[r]
    /\ stopping' = [stopping EXCEPT ![r] = TRUE]
    /\ UNCHANGED <<schemaVars, phase, gracefulStop, conns, shutdownAge, starts,
                   handlerVars>>

\* A kill, a lost host, or a panic because a call at start-up has failed.
Die(r) ==
    /\ phase[r] # "down"
    /\ brokenOff' = (brokenOff \/ phase[r] \in {"applying", "applied"})
    /\ Exit(r)
    /\ UNCHANGED <<version, dirty, applied>>

-----------------------------------------------------------------------------
(* Handlers. *)

\* A request is accepted; its deadline runs while the log middleware reads it.
Accept(h, r) ==
    /\ hpc[h] = "none"
    /\ phase[r] = "serving"
    /\ hpc' = [hpc EXCEPT ![h] = "reading"]
    /\ at' = [at EXCEPT ![h] = r]
    /\ UNCHANGED <<schemaVars, processVars, age>>

BodyEnds(h) ==
    /\ hpc[h] = "reading"
    /\ hpc' = [hpc EXCEPT ![h] = "waiting"]
    /\ UNCHANGED <<schemaVars, processVars, at, age>>

\* The server's read timeout ends the body of a slow client.
BodyTimeout(h) ==
    /\ Production
    /\ age[h] >= ReadTimeout
    /\ BodyEnds(h)

\* Mutant: the context of a request has no deadline.
AcquireAnyTime(h) ==
    /\ hpc[h] = "waiting"
    /\ phase[at[h]] # "closing"
    /\ Cardinality(conns[at[h]]) < PoolSize
    /\ hpc' = [hpc EXCEPT ![h] = "holding"]
    /\ conns' = [conns EXCEPT ![at[h]] = @ \cup {h}]
    /\ UNCHANGED <<schemaVars, phase, stopping, gracefulStop, shutdownAge, starts, at, age>>

\* A query or a transaction needs a connection of a pool that is open, in time.
Acquire(h) ==
    /\ hpc[h] = "waiting"
    /\ age[h] < HandlerDeadline
    /\ phase[at[h]] # "closing"
    /\ Cardinality(conns[at[h]]) < PoolSize
    /\ hpc' = [hpc EXCEPT ![h] = "holding"]
    /\ conns' = [conns EXCEPT ![at[h]] = @ \cup {h}]
    /\ UNCHANGED <<schemaVars, phase, stopping, gracefulStop, shutdownAge, starts, at, age>>

\* The transaction is over, by commit, rollback or the end of its context.
Release(h) ==
    /\ hpc[h] = "holding"
    /\ hpc' = [hpc EXCEPT ![h] = "waiting"]
    /\ conns' = [conns EXCEPT ![at[h]] = @ \ {h}]
    /\ UNCHANGED <<schemaVars, phase, stopping, gracefulStop, shutdownAge, starts, at, age>>

Respond(h) ==
    /\ hpc[h] = "waiting"
    /\ hpc' = [hpc EXCEPT ![h] = "none"]
    /\ at' = [at EXCEPT ![h] = None]
    /\ age' = [age EXCEPT ![h] = 0]
    /\ UNCHANGED <<schemaVars, processVars>>

\* Time passes, but not past a limit the code sets itself: calls to the database
\* return when their context is done, and so does Shutdown.
Tick ==
    /\ \A h \in Handlers :
          /\ hpc[h] \in {"waiting", "holding"} => age[h] < HandlerDeadline
          /\ hpc[h] = "reading" /\ Production => age[h] < ReadTimeout
    /\ \A r \in Replicas : phase[r] = "draining" => shutdownAge[r] < ShutdownTimeout
    /\ age' = [h \in Handlers |->
          IF hpc[h] # "none" /\ age[h] < MaxAge THEN age[h] + 1 ELSE age[h]]
    /\ shutdownAge' = [r \in Replicas |->
          IF phase[r] = "draining" THEN shutdownAge[r] + 1 ELSE shutdownAge[r]]
    /\ UNCHANGED <<schemaVars, phase, stopping, gracefulStop, conns, starts, hpc, at>>

-----------------------------------------------------------------------------
ProcessStep(r) ==
    \/ Lock(r) \/ Up(r) \/ Announce(r) \/ Apply(r) \/ Withdraw(r) \/ Relay(r)
    \/ Listen(r) \/ Shutdown(r) \/ Drained(r) \/ Closed(r)

HandlerStep(h) == BodyTimeout(h) \/ Release(h) \/ Respond(h)

Next ==
    \/ \E r \in Replicas : Boot(r) \/ ProcessStep(r) \/ Signal(r) \/ Die(r)
    \/ \E h \in Handlers :
          \/ \E r \in Replicas : Accept(h, r)
          \/ BodyEnds(h)
          \/ Acquire(h)
          \/ HandlerStep(h)
    \/ Tick

Spec == Init /\ [][Next]_vars

\* Processes and handlers go on, the database answers, time passes.  Nothing is
\* assumed of signals, of deaths, of clients that send their body slowly.
FairSpec ==
    /\ Spec
    /\ \A r \in Replicas : WF_vars(ProcessStep(r))
    /\ \A h \in Handlers : WF_vars(HandlerStep(h))
    /\ WF_vars(Tick)

-----------------------------------------------------------------------------
\* A process that listens has every table it needs, whatever became of it, or of
\* another replica, in an earlier migration; unless its own migrations were stopped.
\* For m.Up stopped returns no error, and such a process may listen for a moment before
\* Shutdown is called, whatever it lacks.
ServesCompleteSchema ==
    \A r \in Replicas : phase[r] = "serving" /\ ~gracefulStop[r] =>
        applied = Last /\ ~dirty

\* Only a death inside a migration leaves a schema that no start accepts.  An
\* interrupt does not: it is handed on and waits for the end of the migration.
DirtyOnlyByDeath ==
    dirty => brokenOff \/ \E r \in Replicas : phase[r] \in {"applying", "applied"}

\* Shutdown drops no request that could still be answered: whoever is left when
\* the pool closes has outlived its own deadline.
ShutdownLosesNoWork ==
    \A r \in Replicas : phase[r] = "closing" =>
        \A h \in ActiveOn(r) : age[h] >= HandlerDeadline

\* In production every request ends, however few connections the pool has and
\* however slowly its body comes.
EveryRequestEnds == \A h \in Handlers : at[h] # None ~> at[h] = None

\* An interrupt ends the process: neither the lock of the migrations, nor a slow
\* client, nor a connection that is never given back keeps it alive.
StoppedProcessEnds == \A r \in Replicas : stopping[r] ~> phase[r] = "down"
=============================================================================
