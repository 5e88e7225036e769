# A TLA+ development of the appointment scheduler

This directory holds TLA+ modules of the booking service in `src/`, TLC
configurations that check them on small instances, and TLAPS proofs for every
instance. Paths below are relative to the repository root; `appointments/`
abbreviates `src/internal/appointments/` and `common/` `src/internal/common/`.

## 1. The system

A dealership service is booked in two phases. `POST /reservations` chooses a
technician and a service bay and stores an appointment (`pending`) with a
reservation that holds the slot for `ReservationTTL`. `PUT /reservations/{id}`
confirms it while the hold lasts, `PUT /appointments/{id}` cancels it once it is
confirmed. Handlers share nothing in memory: they meet in PostgreSQL.

| component | state | operations | what makes it correct |
|---|---|---|---|
| Booking path (`app/request_booking.go`, `adapters/db/appointment_repository.go:33-148`) | none of its own; one SERIALIZABLE transaction per attempt | check start time, look the key up, validate, ask catalog and workforce, transaction (key, busy rows, choice, three inserts), backstop | no two claims on one technician or bay; one reservation per key; a refusal only when somebody else has the slot; the best free candidates; every request answered |
| Confirm and cancel (`appointment_repository.go:150-213`) | none; one REPEATABLE READ transaction per attempt | load, domain rule, `UPDATE` | status only advances; at most one success per transition; never out of attempts |
| Domain rules (`domain/`) | immutable values | start time window, hold expiry, `Confirm`, `Cancel`, `NewVehicle`, builder | the rules themselves, evaluated by the host's clock |
| Stubs (`adapters/catalog`, `adapters/workforce`) | constant rosters and catalog | `GetServiceEntry`, `ListTechnicians`, `ListServiceBays` | half-open windows, certificates |
| Tables and queries (`adapters/db/queries`, `migrations`) | appointment and reservation rows, unique index on the key | the five queries of the write path | holds count until they expire by `now()` |
| Transactions (`common/db.go`) | attempts so far | begin, roll back, commit, retry on "could not serialize access", at most 10 times | bounded retries, nothing kept of a failed attempt |
| Migrations (`common/migrations.go`) | `schema_migrations` (version, dirty), advisory lock, one connection of the pool | `MigrateDatabaseUp` with its relay goroutine, `m.Up`, `m.Close` | nobody serves an incomplete schema, unless its migrations were interrupted; an interrupt leaves no dirty one; the connection goes back |
| Process lifecycle (`cmd/main.go`, `svc.go`, `common/http/echo.go`, `middlewares.go`) | context, server, pool, handlers in flight | `New`, `Run`, graceful shutdown, `Close`; deadline and timeouts of a request | shutdown cuts off nobody who could be answered; every request and every interrupted process ends |
| HTTP surface (`common/http`, `common/errors.go`, `ports/http`) | none of its own; one response per request | routing, binding, required headers, errors to responses, deadline, recovery, request log | a caller is told what is so; an error keeps its meaning; nothing is written twice; nothing fails silently |
| Read model (`adapters/db/reservation_read_model.go`) | none | one `SELECT` | shows what its caller was told before, to the owner only |
| Client and server code generated from `openapi.yaml` and the queries | editors of the client | build, edit and send a request, parse the answer; wrappers, strict handlers; queries | every declared status has its field |
| Configuration (`common/config/config.go`, `domain/factory.go:11-46`) | read once | durations from the environment, defaults | any environment gives holds that last and, if it means something, what it says |
| Logging (`common/echo.go`, `common/log/slog.go`, `common/http/truncate.go`) | level, output, handler | setters, fifteen printing methods, fatal and panic, shortening of bodies | levels in every order of the setters; long arrays shortened, nothing lost uncounted |
| Helpers (`enum.go`, `uuid.go`, `email.go`, correlation id) | none | conversions | not modelled: stateless |

What is hard here is what no test of the repository reaches: two handlers
between each other's statements, a clock that passes a deadline between the
check and the commit, an answer lost after the commit, a retry after any of
these, and three different clocks for one deadline. `PROJECT.json` lists each of
these hazards at its line with the properties that watch it.

## 2. Modules

| module | models |
|---|---|
| `Scheduling` | parameters and their assumptions; windows and overlap; the domain's time and status rules as operators |
| `Candidates` | rosters, `ListTechnicians`, `ListServiceBays`, and the choice among what they list |
| `Tables` | the rows, the database clock, the queries |
| `RequestBooking` | the booking handlers and their transactions |
| `ReservationUpdates` | the confirm and cancel handlers and their transactions |
| `AppointmentService` | the composition, its fairness, its properties |
| `ServiceInvariant` | the inductive invariant, in named parts |
| `BookingLedger` | what the service promises: reserve, confirm and cancel as indivisible steps of a ledger |
| `LedgerRefinement` | the mapping from `AppointmentService` to `BookingLedger`, and what the mapping needs of the state |
| `MCAppointmentService` | instances for TLC: rosters, catalog, requests, skews |
| `ServiceProcess` | replicas of the process: start, migrations, serving, graceful shutdown, pool, handlers |
| `MCServiceProcess` | its instances for TLC |
| `HttpSurface` | errors, wrappers, handlers, responses, error handler and request log as operators |
| `ApiClient` | the generated client as operators: building, editing, parsing |
| `ReservationApi` | calls end to end: client, surface, `updateInTx` statement by statement, reads, faults |
| `ApiInvariant` | the inductive invariant of `ReservationApi`, in named parts |
| `MCReservationApi` | eight scenarios of three calls |
| `Settings` | `newAppointmentConfig` and `NewBookingFactory` on words that wrap |
| `BookingRules` | one booking under any settings: window, builder, hold, confirmation, cancellation, each decided before it is committed |
| `MCBookingRules` | 150 environments |
| `LogTruncation` | `truncate.go` on JSON trees: what it computes by recursion is a function of a tree's height |
| `Logging` | echo's logger on slog, and the request log |
| `MCLogging` | bodies three levels deep |
| `ApiClientProofs` | lemmas about the client's editors and the surface's operators |
| `AppointmentServiceProofs`, `ChoiceProofs`, `LedgerProofs`, `ServiceProcessProofs`, `BookingRulesProofs`, `ReservationApiProofs`, `LoggingProofs` | the theorems |

`AppointmentService` composes `RequestBooking` and `ReservationUpdates` over
`Tables`. `ServiceProcess` stands beside it: what a handler does with its
connection is `AppointmentService`'s matter, that it has one, and until when, is
`ServiceProcess`'s; `Abandon` and `UAbandon` are where the two meet.
`ReservationApi` is the third view of the same handlers: it composes `ApiClient`,
`HttpSurface` and the transaction runner, and leaves to chance what
`AppointmentService` decides by windows, rosters and clocks (`BookingRefusals`,
the choice between "no availability" and going on, `DomainErrors`). In return it
has what `AppointmentService` lumps together: each of the three inserts, failing
statements and commits, panics, errors on their way out, reads, and callers that
lose answers. `BookingRules` takes one booking out of that and puts every
configuration in.

**State.** A *booker* is one `POST` handler with its request. It commits at
most one appointment, so the uuids drawn for the appointment and the reservation
are both named by the booker. `status[b]`, `row[b]` are that appointment's
columns; `status[b] = "absent"` until the commit, which is also when others can
see the row. `confirmedAt` is a history variable. `pc`, `txNow`, `busy`,
`missed`, `tries`, `result`, `outcome` are the booker's position, the `now()` of
its transaction, the busy rows in its snapshot, the bookings committed since that
snapshot, its attempts, and its answer. `upc`, `target`, `caller`, `seen`,
`utries`, `uoutcome` are the same for *updaters* (confirmers and cancellers).

**Actions of a booker** (each is everything the handler does between two touches
of the clock or the database):

| action | code |
|---|---|
| `Arrive` | `ValidateStartTime`, `request_booking.go:80` |
| `Lookup` | fast path, `request_booking.go:84-95` |
| `Prepare` | `NewVehicle`, `NewAppointmentBuilder`, `GetServiceEntry`, the two lists, `request_booking.go:97-139` |
| `Begin` | `BeginTx`, `common/db.go:88`: fixes `now()`, not yet the snapshot |
| `TakeSnapshot` | re-check of the key and busy rows, one snapshot, `appointment_repository.go:61-79` |
| `Create` | `createFn`, `request_booking.go:157-198` |
| `Insert` | the three inserts, `appointment_repository.go:92-129`; waits for an open transaction with the same key |
| `Commit`, `CommitReplay` | the deferred commit, `common/db.go:104` |
| `Backstop` | `appointment_repository.go:133-143` |
| `SerializationFailure` | `common/db.go:64-67` and the retry |
| `Abandon` | the deadline of 10 s (`common/http/middlewares.go:30`), a lost connection, the end of the process |

`Commit(b, "error")` is a commit whose answer is lost. Updaters have `UArrive`,
`Read`, `Check`, `Update`, `UCommit`, `UAbandon`. Time passes by `Tick`.

**PostgreSQL** is external and modelled by what it promises and permits:
- a SERIALIZABLE transaction does not commit when a booking in a window that
  overlaps its own was committed after its snapshot (each read what the other
  wrote: `ReadSkewed`). It may fail with a serialization failure whenever it
  missed *any* commit, because predicate locks cover index pages; it never fails
  when it missed none;
- an insert waits for an open transaction that has the same key in the unique
  index (`HoldsKeyEntry`), and finds a violation if that one commits;
- REPEATABLE READ guards only the `UPDATE`: it waits for the row lock
  (`LocksRow`) and fails if the row has changed since the snapshot
  (`RowUnchanged`); what was read is not checked, and such a transaction takes no
  part in the serializable check of others.

**Abstractions.** Ids, keys and users are model values. Times are integers, one
unit being any length: it never matters how long a hold is, only in what order
clocks and deadlines pass. The handler trims key and user and rejects blank ones
before the service is called, so requests have both. The vehicle row has a fresh
uuid in every request, so its upsert cannot conflict. `sort.Slice` is not
stable: among technicians of equal score any may come first
(`BestTechnicians` is a set). Each host may have a clock of its own
(`ClockSkew`), constant during a behaviour.

**The ledger.** `BookingLedger` has no transactions, attempts, snapshots or
answers in preparation. `Reserve` stores a slot that fits (listed, on duty,
certified, unclaimed, held no longer than the TTL) under a new key; `Replay` tells
the reservation of a key; `Confirm` and `Cancel` move a status one step for the
owner; `Refuse` and `URefuse` leave no trace; an answer may be an error although
the step was taken (it was lost). `LedgerRefinement` maps a row of the service to
a slot once it is committed and a result to a named reservation once it is
answered, so that everything between `Begin` and `Commit` is a stutter.

**The process.** `ServiceProcess` has replicas that share one database. `phase[r]`
goes from `down` through `booting` (until `m.Up` asks for the lock), `locked`,
`applying` and `applied` (inside `m.Up`, between, before and after the SQL of a
migration), `wired` (`New` has returned), `serving`, `draining` (in `Shutdown`) to
`closing` (in the deferred `Close`). `version` and `dirty` are the row of
`schema_migrations`, `applied` what its tables really are; `brokenOff` is a history
variable. `conns[r]` are the users of the pool's connections, the migrator being
`r` itself. A handler reads its body, waits, holds a connection, waits, responds.

| action | code |
|---|---|
| `Boot`, `Lock`, `Up` | `main.go`, `svc.go:36-93`, `migrations.go:20-86`; an error of `m.Up` panics in `main` |
| `Announce`, `Apply`, `Withdraw` | golang-migrate around one migration: dirty, SQL, clean |
| `Relay` | the goroutine `migrations.go:72-80` |
| `Listen`, `Shutdown`, `Drained`, `Closed` | the two goroutines of `Run`, `svc.go:95-121` |
| `Signal`, `Die` | an interrupt; a kill, a lost host, or a panic on a failed call at start-up |
| `Accept`, `BodyEnds`, `BodyTimeout` | `ContextTimeout` and the reading of the body by the log middleware |
| `Acquire`, `Release`, `Respond` | `BeginTx` and the deferred end of the transaction |
| `Tick` | time; it does not pass a limit that the code sets itself |

**A call.** `ReservationApi` has *calls*. `form[c]` is what the caller wants (an
element of a scenario), `request[c]` what its client sent, `told[c]` the field of
the typed response it read, `cpc[c]` where it stands. On the server `spc[c]` is the
position of the handler, `err`, `answer`, `wire`, `log` its error, its answer, what
was really written, and the entry of the request log. `tries`, `found`, `draft`,
`seen` belong to its transaction: attempts, the reservation it will name, rows
written but not committed, the status it read. `store[b]` is which of the three rows
of booking `b` are committed, `status[b]` the appointment's. `did` and `since` are
history: the call has committed a write; who had read a success when it was sent.

| action | code |
|---|---|
| `Send`, `Deliver` | `New...Request`, `applyEditors`, `Parse...ClientResponse` of `client.gen.go` |
| `GiveUp` | a lost request or answer, the caller's timeout |
| `Receive` | middlewares, router, wrapper, strict handler, required headers |
| `RequestBooking`, `UpdateBooking`, `GetReservation` | the service up to its transaction; the read model |
| `Begin`, `LoadForBooking`, `LoadForUpdate` | `BeginTx`; the reads of the repository and the domain rule |
| `UpsertVehicle`, `CreateAppointment`, `CreateReservation`, `UpdateAppointmentStatus` | one statement each, with the unique index and the row lock |
| `Commit`, `Rollback`, `Backstop` | the deferred end of `updateInTx` with the retry loop of `db.go:59-80`; `appointment_repository.go:131-145` |
| `StatementFails`, `Panic`, `Crash` | faults |
| `Return`, `Recover` | request log, `ContextTimeout`, `EchoErrorHandler`, from the inside out |

`Commit` may be done and still return an error (its answer is lost), which decides
what may be tried again. `Rollback` may fail too and joins its error. An error keeps
only its kind, status, slug and whether its chain holds `DeadlineExceeded`.

**A configuration.** In `BookingRules` `env` is what the environment says and
`factory` what the booking factory makes of it: products of durations wrap
(`Wrap`), what is not positive becomes the default. `Ask`, `NewAppointmentBuilder`,
`Build`, `Confirm`, `Cancel` each look at the clock, as the code does, and decide;
`Commit` stores what was decided at a later time, so long as the request has not passed
its deadline (`Lands`). `Lag` is what the database may take over a `COMMIT` it was sent
in time. `TryAgain` is a serialization failure, after which the clock is read again,
`GiveUp` every other end. `step` is where the request is that runs; one runs at a time,
since what they do to each other is `AppointmentService`'s matter.

**Logs.** In `Logging` `default` is the handler of `slog.Default`, `handler` that of
the adapter echo logs with, `level` and `output` the adapter's own, `last` the entry
just made. Nobody in the repository calls the setters; `echo.Logger` offers them to
whoever uses the server. JSON is a tree of leaves, arrays and objects, `Size` its
length. `Trees[n]` are the trees with at most `n` containers around each other,
`MaxNesting` what `json.Unmarshal` accepts (10000); a deeper body is a text, since the
code treats what it cannot parse so. `Walk[n]` is `truncateJSONArrays` on `Trees[n]`,
and `Accounts[n]` relates a tree to one that was logged for it.

## 3. Properties

| property | says |
|---|---|
| `ConflictOnlyIfConfirmedLate` | two live claims (a hold that has not expired, or a confirmed booking) on one technician or bay for overlapping windows imply that one was confirmed after its hold had run out |
| `RepliesNameOneReservation` | all successful answers for a key name one stored reservation |
| `BackstopFindsTheWinner` | the read after a unique violation is never empty |
| `RefusedOnlyForAnother` | nobody is refused because of its own earlier request, and racers are never all refused |
| `GivingUpTakesManyWinners` | who exhausts its attempts lost each to a different stored booking |
| `PassedOverOnlyIfTaken` | a better technician or an earlier bay was passed over only because a stored booking has it |
| `StatusOnlyAdvances` | absent, pending, confirmed, cancelled; one step at a time, never back |
| `OneAnswerPerTransition` | at most one confirm and one cancel succeed, and what they say is so |
| `UpdatesNeedTwoTries` | no confirm or cancel ever exhausts two attempts |
| `EveryRequestIsAnswered` | every request that arrived is answered |
| `LedgerSpec` | every behaviour is one of `BookingLedger` |
| `ServesCompleteSchema` | a process that serves, unless its own migrations were interrupted, has every migration applied, whatever became of earlier starts |
| `DirtyOnlyByDeath` | only a death inside a migration leaves the schema dirty, an interrupt never |
| `ShutdownLosesNoWork` | the pool closes only on handlers that have outlived their deadline |
| `EveryRequestEnds` | in production every request ends, however small the pool and slow the client |
| `StoppedProcessEnds` | an interrupted process ends |
| `PartialOnlyAfterPanic` | the three rows of a booking are committed together or not at all, unless the handler panicked between them; what a panic leaves has no reservation, so it takes neither key nor slot |
| `AnswersAreTrue` (`ReservationApi`) | a success the caller has read is in the tables, complete and its own |
| `SameKeySameReservation` | callers with one key who get a reservation get the same one, also when their requests overlap |
| `RefusedMeansUndone` | who reads a refusal (4xx) has changed nothing |
| `ErrorsKeepTheirMeaning` | what was refused reaches the caller with its slug in the field of its status; failures and the deadline are the default |
| `ActsForOneUser` | nothing is read or written for a request that names no user, a blank one, or two |
| `ReadsSeeWhatWasTold` | a booking its caller was told of is found by every later request of its owner |
| `AnswerIsNotOverwritten` | an answer on its way is not followed by an error |
| `EveryFailureIsLogged` | every answer has a log entry, which has an error or the status that was sent; except after a panic |
| `EveryRequestEnds` (`ReservationApi`) | transactions never wait for each other in a circle |
| `HoldsLast` | under every environment a hold runs out after it was made, and after it was stored if it is as long as a request may take |
| `AcceptedAsConfigured` | positive numbers that fit mean what they say |
| `ConfirmedSoonEnough` | a confirmation is stored no later after the start than two deadlines, the hold and the delay of a commit exceed the minimum lead time |
| `LevelIsHonoured` | levels and outputs in every order of the setters; last words are always written |
| `LongArraysAreShortened` | a large body is logged without a long array at its top or in a field of an object, however deep |
| `NothingIsLostUncounted` | a logged body is an account of the body: at every depth it has the same items in the same places, or a marker for exactly the items that are missing |

`StatusOnlyAdvances` and `ReplayIsNotRefused` are action properties, `LedgerSpec`
a refinement, `EveryRequestIsAnswered`, `EveryRequestEnds` and
`StoppedProcessEnds` liveness, the rest invariants. `AnswersAreTrue` is also the name
of a theorem about `AppointmentService`.

## 4. Runs

The first seven runs below instantiate `MCAppointmentService`, the next two
`MCServiceProcess`, the last three the MC module of their component. The rosters keep
the features of the stub: `d1` is `dealer-solo` (one technician, one bay), `d2` has a
certified technician, a better one without the certificate, and a bay under
maintenance.

| run | instance | states | shows |
|---|---|---|---|
| `race` | 3 bookers, windows [10,12) [11,13) [12,14), and an incomplete form; 2 attempts, holds of 1, clock to 2 | 416k | serializability keeps claims apart, including holds that expire between attempts; what giving up takes |
| `key_reuse` | one key for two slots and two users, a competitor; fairness | 61k | one key, one reservation; backstop; no replay meets its own booking; the ledger's `Replay`; all are answered |
| `choice` | 5 bookers at `d2`: certificate, two equal slots, too early, bad vehicle, unknown service | 133k | the choice of candidates; the refusals before the transaction but that of an incomplete form, which `race` has |
| `skew` | 2 bookers of 2 users, a confirmer, a canceller, hosts ahead and behind, 1 attempt, holds of 2, clock to 2 | 327k | late confirmation is the only way to a conflict, clocks need not agree; every step is one of the ledger or none |
| `life` | 1 booker, 2 confirmers, 1 canceller, 2 users; fairness | 49k | the life of an appointment |
| `double_booking` | 2 bookers, 2 confirmers, agreeing clocks, holds of 1 | violated | finding 1 |
| `late_replay` | 2 requests with one key, lead time passes; fairness | violated | finding 2 |
| `migrations` | 2 replicas, 2 migrations, 2 starts each, a pool of 1, `APP_ENV` dev; fairness | 58k | start-up under races, interrupts, deaths and restarts; an interrupted process ends even if its clients do not |
| `shutdown` | 1 replica, 2 handlers, a pool of 1, `APP_ENV` not dev; fairness | 2k | shutdown loses no work, every request ends |
| `http` | 3 calls, 8 scenarios, 2 attempts, 1 fault; fairness | 193k | retries, updates and reads of one booking, and what callers get wrong, under every single fault |
| `settings` | 150 environments, a word of -32..31, clock to 7, deadlines of 2, a delay of 1 | 4.1M | what survives any configuration, with commits that come later than their decisions |
| `logging` | trees of three levels, texts up to 9, 2 sinks | 42k | truncation and levels |

**Bounds.** `MaxTime` bounds the clock: a hold must be able to run out before
and after each step of another handler, so it is the TTL or more. `MaxTries`
is 10 in the code; the paths differ only between "not the last attempt" and "the
last attempt", which 2 has, and `race` needs three bookers so that two attempts
can be lost. One unit of slack in windows (half-overlapping and back-to-back
neighbours) covers each comparison of the overlap test. Identities are few
because conflicts are between pairs. In `ServiceProcess`, `MaxStarts` bounds
restarts: two starts let one replica meet what the other, or its own earlier
start, left behind; two migrations have one between. A pool of one connection is
the smallest on which the migrator, two handlers and `Close` wait for each other.
Ages saturate at `MaxAge`; the deadline of 1 against timeouts of 3 keeps the order
of 10 s against 30 s, which `ProcessAssumption` states. The proofs (section 5) have none of these
bounds.

In `ReservationApi`, `MaxFaults` bounds lost messages, failed statements and
commits, panics and crashes together: one fault lands at every step of every
interleaving of three calls, and the backstop, the joined error and the ambiguous
commit each need only one. The eight scenarios are: a retry and a read; a confirm
and a cancel; two confirms; another user's confirm and read; and four in which
editors drop, cut or retype the body, name two users, break the uuid or fail, and
headers are missing or blank. Two attempts again separate "not the last" from "the
last". In `BookingRules` a word of 64 nanoseconds is large enough for the defaults
(2, 2 and 12) and small enough that the environments reach negative, zero and
positive wraps; holds are as long as a request may take and shorter, and the clock
leaves room for a booking and a confirmation that each use up their deadline: the bound
of `ConfirmedSoonEnough` is reached but for the three units by which `<` and the
deadlines are strict. In `Logging` three levels have an array in an
object in an array, within a nesting limit of 4; arrays of 0, 3 and 5 items lie on both
sides of the limit of 3.
Its entries are looked at one at a time because none depends on another.

**Fairness.** `FairSpec` is weak fairness of each handler's own steps
(`BookerStep`, `UpdaterStep`): a goroutine that can run is run, and a database
that can answer answers. Arrival, the clock, lost answers and abandonment have no
fairness. Serialization failures stay possible at every step of a transaction
that missed a commit; that the loop ends anyway is the counting of attempts.

`FairSpec` of `ReservationApi` is weak fairness of `Serve(c)`: the goroutine of a
request that was received goes on, through its transaction and its answer. Nothing
is assumed of callers, of the network or of faults, and a request that has not been
received need not be. `EveryRequestEnds` there does not count on the deadline.

In `ServiceProcess` processes and handlers go on (`ProcessStep`, `HandlerStep`) and
time passes (`Tick`); no fairness for starts, signals, deaths, clients or for
`Acquire`, so a connection is never promised. `Tick` is held back at the limits the
code sets itself: a call to the database returns when the context of its handler
is done, `Shutdown` when its own is, and the server ends a body at `ReadTimeout`.
This takes the delay between the end of a context and the return of the call to
be nothing against seconds.

**Deadlock** is checked in the other runs: in `AppointmentService` nothing is left to do only when
all are answered (`AllAnswered`), in `ServiceProcess` time goes on. In `http`,
`settings` and `logging` it is not: there a behaviour ends when all calls are done,
the clock is at its bound, or `Fatal` has ended the process.

## 5. Proofs

For every value of the constants that meets the assumptions in `Scheduling`,
`Candidates` and `Tables` (the first fourteen), `ProcessAssumption` (the next four),
`UnitsAssumption` and `RulesAssumption` (the next five), `ScenariosAssumption`,
`BoundsAssumption` and `NoneAssumption` of `ReservationApi` (the next eleven), or
`TruncationAssumption`, `SinksAssumption` and `BodiesAssumption` (the last four):

| theorem | property |
|---|---|
| `TypeCorrect` | `TypeOK`, with the bound on attempts |
| `Invariance` | `IInv` |
| `NoConflictInTime` | `ConflictOnlyIfConfirmedLate` |
| `Idempotent` | `RepliesNameOneReservation` |
| `BackstopSound` | `BackstopFindsTheWinner` |
| `StatusAdvances` | `StatusOnlyAdvances` |
| `AnswersAreTrue` | `OneAnswerPerTransition` |
| `TwoTriesAreEnough` | `UpdatesNeedTwoTries` |
| `PassedOverTaken` (`ChoiceProofs`) | `PassedOverOnlyIfTaken` |
| `RefusedForAnother` | `RefusedOnlyForAnother` |
| `GivingUp` | `GivingUpTakesManyWinners` |
| `ImplementsLedger` (`LedgerProofs`) | `LedgerSpec` |
| `LedgerIsSound` | `Sound` of `BookingLedger`, for the ledger |
| `ServiceIsSound` | the same for the service |
| `ProcessTypes` (`ServiceProcessProofs`) | `TypeOK` of `ServiceProcess` |
| `SchemaIsComplete` | `ServesCompleteSchema` |
| `DirtyIsExplained` | `DirtyOnlyByDeath` |
| `ShutdownIsGraceful` | `ShutdownLosesNoWork` |
| `RulesTypes` (`BookingRulesProofs`) | `TypeOK` of `BookingRules` |
| `HoldsAlwaysLast` | `HoldsLast` |
| `WindowAsConfigured` | `AcceptedAsConfigured` |
| `ConfirmationIsBounded` | `ConfirmedSoonEnough` |
| `ConfigurationIsUsable` | `NewBookingFactory` has three positive durations under every environment |
| `TypeCorrect` (`ReservationApiProofs`) | `TypeOK` of `ReservationApi` |
| `Invariance` | `IInv` of `ApiInvariant` |
| `RowsTogether` | `PartialOnlyAfterPanic` |
| `SuccessIsTrue` | `AnswersAreTrue` |
| `OneReservationPerKey` | `SameKeySameReservation` |
| `RefusalIsUndone` | `RefusedMeansUndone` |
| `ErrorsAreKept` | `ErrorsKeepTheirMeaning` |
| `OneUser` | `ActsForOneUser` |
| `ReadsAreCurrent` | `ReadsSeeWhatWasTold` |
| `AnswerIsFinal` | `AnswerIsNotOverwritten` |
| `FailuresAreLogged` | `EveryFailureIsLogged` |
| `LoggingTypes` (`LoggingProofs`) | `TypeOK` of `Logging` |
| `LevelHonoured` | `LevelIsHonoured` |
| `ArraysShortened` | `LongArraysAreShortened` |
| `NothingUncounted` | `NothingIsLostUncounted` |

**The argument.** None of these properties is inductive. `IInv` joins:
- `HandlerInv`: a handler that has not answered has stored nothing, and the
  `now()` of its transaction is not in the future;
- `UpdateInv`: an updater about to commit is alone with its row, whose status is
  the one it read and the one its rule requires;
- `KeyInv`: stored reservations and open index entries have different keys, and
  what a handler has answered or is about to answer is in the index;
- `ClaimInv`, the heart: everything stored that overlaps a booking in progress
  was committed behind its back (`missed`), or was busy in its snapshot, or is
  *harmless*: cancelled, a hold that is over, or confirmed late. What was busy
  shares nothing with the choice; what was missed stops the commit; what is
  harmless stays harmless, because time only moves forward and a confirmation of a
  hold that is over is late by definition. Hence two stored bookings in conflict
  always have a harmless one among them.

The answers (`AnswerInv`) and the attempts (`TriesInv`) of updaters are two more
inductive invariants on top of `IInv`: a second attempt reads a status that has
moved on, and the domain rule ends it. One lemma per part and per kind of actor,
one step per action.

**The choice and the count** (`ChoiceProofs`) stand on `IInv` too. `ChoiceInv`: what
is busy for a booking overlaps it and has another key, because the key was looked up
in the same snapshot, and who has chosen took the best of what the busy left. A
refusal then needs that a best exists: of the finitely many sets "free and no worse
than `i`" one is smallest (`GreatestExists`, from the well-foundedness of inclusion).
`WinnersInv`: with `n` attempts lost, at least `n` other bookings were stored before
the snapshot of the attempt that runs now. An attempt fails only when it has missed a
commit, and what it missed is not among those it had seen (`OneMore`). That only
finitely many are stored is part of the invariant, so `Bookers` may be infinite.

**The refinement.** `ImplementsLedger` goes action by action: a step maps to one
action of the ledger or changes nothing it sees. `Commit` is `Reserve`: that its
slot fits is `ClaimInv` (no claim that does not give way overlaps the draft) with
`DraftInv` (the draft was chosen from the lists, and its hold was stamped no later
than now); that its key is new is `KeyInv`. `UCommit` is `Confirm` or `Cancel`:
that the status is still what was read is `UpdateInv`, that the caller owns the row
is `OwnerInv`.

**The ledger by itself.** An abstract specification can be implemented and yet promise
nothing. `LedgerIsSound` says what this one does promise, and its proof uses no action
of the service: of two stored bookings in one another's way one *gives way* (it is
cancelled, its hold is over, or it was confirmed after it), which lasts because a
confirmation of a hold that is over is late (`GivingWayLasts`); a key is stored once;
who is told of success can rely on it. `ServiceIsSound` is then the refinement and
nothing else. For this `FitFor` says that the end of a hold is a time, which
`CommitFits` shows of the code's.

**The process.** `SchemaInv`: whoever is inside `m.Up` holds the lock, a clean
version is what the tables are, and a process whose migrations were not stopped left
`m.Up` at the last one. A stopped `m.Up` returns no error, so a process that was
interrupted during its migrations goes on to `Run` and may listen for a moment on a
schema that is not complete, until `Shutdown` is called: `ServesCompleteSchema` excepts
it, in the model as in the code, and only it. `DrainInv`: handlers live only in
processes that serve or drain, and each is at least as old as the wait of
`Shutdown`, because none is accepted after it. So the proof needs nothing but the
assumption that the deadline of a handler is within the timeout of the shutdown.

**The rules.** `RulesInv` adds to the types that `factory` is what `NewBookingFactory`
makes of the environment, that its three durations are positive (`FactoryPositive`:
the defaults are, and everything else is replaced), and what the readings of the clock
have to do with each other (`InOrder`): the builder was made within the window and no
earlier than its request came, the hold was stamped before that request's deadline and
runs from there, a confirmation under way came before the hold was over, and what is
committed is committed before its own request's deadline and the database's delay are
over. `ConfirmedSoonEnough` is then a chain of five inequalities through two requests.
It holds for every configuration. With the defaults (an hour of lead time, a hold of 5
minutes, deadlines of 10 seconds) it means that nothing is confirmed that has begun,
unless a commit takes most of an hour;
with a hold close to the lead time or longer it says how late a confirmation can be.
`AcceptedAsConfigured` needs one more fact, that `Wrap` leaves alone what fits
(`WrapFits`). Nothing is assumed of the environment but that its values are
integers or not numbers. `ConfigurationIsUsable` is what the other components build
on: the three durations that `FactoryAssumption` of `Scheduling` asks to be positive
are so under every environment.

**A call.** What a caller may conclude from an answer depends on everything between
its client and the tables, so the invariant of `ApiInvariant` follows a call all the
way. `CallerInv`: it is sent once, handled once, told once, and what the editors leave
is still a request to its route with its key. `HandlerInv`, `TriesInv`, `RouteInv`:
what a handler has *not* done yet: before its transaction ends it has stored nothing
and has no answer; an attempt is left for every transaction it will begin.
`DraftInv`: what the open transaction has written is exactly what the statements
before its position write, and the function that returns without an error has written
all or found the key's reservation; a part of the rows can be stored only by a panic.
`KeyInv`: reservations that are stored *or drafted* have different keys, which is the
unique index with its wait. `StatusInv`: who has updated a status is alone with the
row and it is what was read. `ErrorInv`: the errors each operation may end with, and
the decisive line: an error of a handler that has written, or that had a unique
violation, is a failure and never a refusal; `RefusedMeansUndone` is this line carried
to the caller. `AnswerInv`, `WireInv`: an answer says what is in the tables, and what
is on the wire and told is that answer, or its error in the shape of its status.
`SinceInv`: a `404` is not an error of a call that was sent after its target was told.

None is inductive without the others: that an answer stays true needs the unique
index and the row lock, these need the shape of the draft, and the draft that of the
retry. The proof has a lemma per action; `Frame` and `LastingForAll` say once what an
action of one call leaves of all the others (keys gain holders, a status only goes
on, a row stays), `CommitCases`, `RollbackCases`, `ErrorCases`, `AnswerCases` and
`WireCases` split the actions whose code branches on faults. `Crash` is a step of all
handlers at once. Editors are any finite list: that `ApplyEditors`, a recursive
function, keeps a request well-formed is an induction, done with a set of naturals
(`InductiveSet`) since the induction theorems of the library cannot be instantiated.

**The logs.** `LoggingInv` is a small invariant: the handler is that of the adapter's
level and output from `SetOutput` to `SetLevel`, and an entry is what the adapter, or
the truncation of a body, made of it. The work is in the truncation, whose functions
are recursive on the height of a tree. First each is shown to satisfy its defining
equation (`TreesAre`, `WalkIs`, `ShortFieldsAre`, `AccountsAre`): a recursive function
is a `CHOOSE`, and that there is something to choose is an induction on the height
(`Heights`, from `InductiveSet`). Then four more inductions: the walk of a tree is a
tree of that height (`WalkKeeps`), it leaves no field long (`WalkShortens`), every tree
is an account of itself (`AccountsReflexive`), and the walk of a tree, shortened before
or not, is an account of the tree (`WalkAccounts`). In the last the hypothesis must
cover both, since the walk shortens a field before it enters it; the step that a
shortened array needs, with its marker and its last item in a new place, is
`WalkLongAccounts`. The limits, the nesting and the bodies are arbitrary. A property
asks of a large body `IsLarge`, not that its `Size` be a greater number: the sum over the
items is a fold, of which nothing is proved.

**Only model-checked:** `EveryRequestIsAnswered`, `EveryRequestEnds` (twice) and
`StoppedProcessEnds`, which are liveness. Every invariant and every action property
that a passing run checks has a theorem. What `Size` adds up to is only evaluated by TLC.

## 6. Findings

1. **Two confirmed appointments in one slot** (`double_booking`).
   `ConfirmAppointment` checks the hold by the host's clock and commits later,
   outside the serializable check. If the hold runs out in between, a booking may
   take the slot and both are confirmed. `ConflictOnlyIfConfirmedLate` is what
   remains true, and is proved. The document says that no write skew is possible
   here (`docs/SYSTEM_DESIGN.md:204`).
2. **A late replay is refused** (`late_replay`). The lead time rule is applied
   before the key is looked up, so a retry that comes too close to the start is
   told `invalid-appointment` although its reservation is stored.

Met on the way and stated nowhere as a run, because they are a matter of wording:
- `truncateJSONArrays` says that it truncates "any nested arrays"
  (`common/http/truncate.go:42-43`); an array directly inside an array stays as long
  as it is, as `LongArraysAreShortened` has it. And JSON that is still too large
  after the walk is logged whole, where `truncate.go:15` promises head and tail.
- `Confirm` does not look at the start time and its commit not at the clock. A
  configuration whose hold, with the deadlines around it, exceeds the minimum lead time
  is accepted, and then a confirmation can be stored after the start and never be
  cancelled.
- A service that is interrupted during its migrations goes on to listen for a moment,
  whatever its schema lacks (`migrations.go:82-86`).
- Every failed request is logged with the status 200 beside its error
  (`middlewares.go:137`): `EchoErrorHandler` writes after the log.
- The wrappers refuse a malformed uuid and a second value of a header with 400, which
  `openapi.yaml` does not declare for `GET /reservations/{reservation_uuid}`; the
  client finds it in its default field.

## 7. Mutants

Every property of every passing run has a mutant of the code that breaks it; they
stand in the modules next to the definition they change.
- Booking: a dropped conflict check, a re-check of the key left out, a backstop
  inside the failed transaction, a missing unique index, a sort in the wrong
  direction, holds that do not count, holds compared with the host's clock, a
  retry in the transaction that failed, attempts counted off by one.
- Confirm and cancel: a row that is not version-checked, a retry that does not
  read again, retries that are not counted, a lookup without the user, a cancel of
  pending appointments.
- Process: errors of `m.Up` ignored, a last version that is not recognised, an
  interrupt that kills, a connection that is not given back, a shutdown that does
  not wait or waits forever, a request without a deadline.
- Surface: a retry of any error, one attempt too many, an unchecked commit, a commit
  after an error, an insert without its index, a transaction left open, a read of
  confirmed bookings only; an error without its slug, a user that is not trimmed, an
  error after an answer, a log entry without its error.
- Settings and logs: hours taken for seconds, a zero let through, a commit that
  ignores the deadline of its request; a level that silences last words, a handler without its
  level, an array in a shortened array forgotten, an item counted twice.

## 8. Plan

Done: the write path, its ledger and refinement, the process, the HTTP surface from
end to end, reads, settings, logs; every safety property of these is proved, and so is
what one component assumes of another: that the configuration gives usable durations,
and that the ledger has the promises it is there for. Left is what is out of the
provers' reach, liveness.

**Not modelled**, and not planned: CORS and the correlation id (what a browser sends,
a header echoed), `/healthz`, the server's port and the database URL, enum, uuid and
email helpers, wording, prefix and format of logs, the getters of the client's
responses and the typed error responses and queries nobody uses
(`UpdateInReadCommittedTx`, `GetAppointmentByUUID`, `GetVehicleByUUID` among them), an
older binary against a newer schema (one version of the binary is modelled).
