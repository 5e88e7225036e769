---------------------------- MODULE ReservationApi ----------------------------
(***************************************************************************)
(* The service end to end: calls made with the generated client, the HTTP  *)
(* surface, the transaction runner of common/db.go with its statements,    *)
(* and the way of an error or an answer back to the caller.                *)
(*                                                                         *)
(* AppointmentService has the bookings' windows, rosters and clocks; here  *)
(* those decide nondeterministically, and what it leaves out is modelled:  *)
(* the three inserts one by one, panics, failing statements and commits,   *)
(* reads, status codes, and a network that loses requests and answers.     *)
(* A call with the op "request" names the reservation and the appointment  *)
(* it may create.  A retry is another call with the same key; it may come  *)
(* while the first is still at work.                                       *)
(***************************************************************************)
EXTENDS ApiClient, FiniteSets

CONSTANTS
    Calls,
    Scenarios,          \* functions from Calls to operation, uuid, params, request editors
    ClientEditors,      \* the request editors of the client
    MaxTries,           \* backoff.WithMaxTries
    MaxFaults           \* bound: lost messages, failures, panics and crashes in all

ASSUME ScenariosAssumption ==
    /\ \A s \in Scenarios, c \in Calls :
          /\ s[c].op \in {"request", "get", "confirm", "cancel"}
          /\ s[c].uuid \in Calls
          /\ s[c].editors \in Seq(Editors)
    /\ ClientEditors \in Seq(Editors)

ASSUME BoundsAssumption == MaxTries \in Nat \ {0} /\ MaxFaults \in Nat

VARIABLES
    form,                           \* the scenario
    cpc, request, told,             \* the caller: position, request, outcome
    spc, err, answer, wire, log,    \* the handler: position, error, answer, response, log
    tries, found, draft, seen,      \* its transaction: attempts, reservation, writes, read
    panicked,                       \* it has panicked
    store, status,                  \* the rows of a booking, its appointment's status
    did, since, faults              \* history: it wrote; who had succeeded when it was sent;
                                    \* the faults so far

clientVars == <<form, cpc, request, told, since>>
tableVars  == <<store, status, did>>
txVars     == <<tries, found, draft, seen>>
httpVars   == <<answer, wire, log>>
vars == <<clientVars, spc, err, httpVars, txVars, panicked, tableVars, faults>>

Bookings == {c \in Calls : form[c].op = "request"}
Rows == {"vehicle", "appointment", "reservation"}

\* Inside the function given to updateInTx.
TxPc == {"load", "vehicle", "appointment", "reservation", "update"}
ServerPc == {"away", "service", "begin", "finish", "backstop", "return", "gone"} \cup TxPc

Serialization == [PlainError(FALSE) EXCEPT !.slug = "could not serialize access"]
UniqueViolation == [PlainError(FALSE) EXCEPT !.slug = "unique violation"]

\* Told by a text in the message and by errors.As: both also find it in an error
\* that is joined with that of a failed rollback.
IsSerialization(e)   == e.slug = Serialization.slug
IsUniqueViolation(e) == e.slug = UniqueViolation.slug

Statuses == {"pending", "confirmed", "cancelled"}

\* What answers, errors, entries of the log and outcomes of calls look like.
Slugs ==
    {"", "could not serialize access", "unique violation", "internal_server_error",
     "bad_request", "unsupported_media_type", "service_unavailable", "not-authenticated",
     "missing-idempotency-key", "invalid-appointment", "invalid-vehicle",
     "service-type-not-found", "no-availability", "reservation-not-found",
     "appointment-not-found", "appointment-not-pending", "reservation-expired",
     "appointment-already-cancelled", "appointment-not-confirmed", "appointment-in-the-past"}
Bodies == Calls \cup {None} \cup [reservation : Calls, status : Statuses]
Responses == [status : 200..599, json : BOOLEAN, body : Bodies, slug : Slugs]
Errors ==
    [kind : {"none", "http", "common", "plain"}, status : 0..599, slug : Slugs, late : BOOLEAN]
LogEntries == [status : 200..599, failed : BOOLEAN]
Fields == {"JSON200", "JSON201", "JSON400", "JSON401", "JSON404", "JSON409", "JSON410",
           "JSONDefault", "none", "error"}
Outcomes == [field : Fields, body : Bodies, slug : Slugs]

\* No value is told from every value.
ASSUME NoneAssumption == None \notin Calls \cup Responses \cup LogEntries \cup Outcomes

TypeOK ==
    /\ form \in Scenarios
    /\ cpc \in [Calls -> {"idle", "sent", "done"}]
    /\ spc \in [Calls -> ServerPc]
    /\ tries \in [Calls -> 0..MaxTries]
    /\ found \in [Calls -> Calls \cup {None}]
    /\ draft \in [Calls -> SUBSET (Rows \cup {"status"})]
    /\ panicked \in [Calls -> BOOLEAN]
    /\ faults \in 0..MaxFaults
    /\ store \in [Calls -> SUBSET Rows]
    /\ status \in [Calls -> Statuses]
    /\ seen \in [Calls -> Statuses \cup {"none"}]
    /\ DOMAIN request = Calls
    /\ told \in [Calls -> Outcomes \cup {None}]
    /\ err \in [Calls -> Errors]
    /\ answer \in [Calls -> Responses \cup {None}]
    /\ wire \in [Calls -> Responses \cup {None}]
    /\ log \in [Calls -> LogEntries \cup {None}]
    /\ did \in [Calls -> BOOLEAN]
    /\ since \in [Calls -> SUBSET Calls]

Init ==
    /\ form \in Scenarios
    /\ cpc = [c \in Calls |-> "idle"]
    /\ request = [c \in Calls |-> None]
    /\ told = [c \in Calls |-> None]
    /\ spc = [c \in Calls |-> "away"]
    /\ err = [c \in Calls |-> NoError]
    /\ answer = [c \in Calls |-> None]
    /\ wire = [c \in Calls |-> None]
    /\ log = [c \in Calls |-> None]
    /\ tries = [c \in Calls |-> 0]
    /\ found = [c \in Calls |-> None]
    /\ draft = [c \in Calls |-> {}]
    /\ seen = [c \in Calls |-> "none"]
    /\ panicked = [c \in Calls |-> FALSE]
    /\ store = [c \in Calls |-> {}]
    /\ status = [c \in Calls |-> "pending"]
    /\ did = [c \in Calls |-> FALSE]
    /\ since = [c \in Calls |-> {}]
    /\ faults = 0

Fault == faults < MaxFaults /\ faults' = faults + 1
Goto(c, label) == spc' = [spc EXCEPT ![c] = label]
ReturnError(c, e) == Goto(c, "return") /\ err' = [err EXCEPT ![c] = e]
ReturnAnswer(c, rsp) == Goto(c, "return") /\ answer' = [answer EXCEPT ![c] = rsp]

UserOf(c) == HeaderValue(request[c].user)
Target(c) == request[c].uuid

-----------------------------------------------------------------------------
(* The queries, each in one snapshot of the committed rows. *)

GetReservationByIdempotencyKey(key) ==
    {b \in Bookings :
        "reservation" \in store[b] /\ HeaderValue(request[b].key) = key}
GetReservationByUUID(b) == b \in Bookings /\ "reservation" \in store[b]
GetAppointmentByUUIDAndUserID(b, user) ==
    b \in Bookings /\ "appointment" \in store[b] /\ UserOf(b) = user
\* Mutant: only a confirmed appointment is joined.
GetReservationWithConfirmedAppointment(b, user) ==
    GetReservationByUUID(b) /\ GetAppointmentByUUIDAndUserID(b, user) /\ status[b] = "confirmed"

GetReservationWithAppointmentByUUID(b, user) ==
    GetReservationByUUID(b) /\ GetAppointmentByUUIDAndUserID(b, user)

\* A statement outside of a transaction is next.
AtRead(c) == spc[c] = "service" /\ Route(request[c]) \in {"request", "get"}

KeyHolders(c) == GetReservationByIdempotencyKey(HeaderValue(request[c].key))

-----------------------------------------------------------------------------
(* The caller. *)

Build(c) ==
    LET f == form[c]
    IN  CASE f.op = "request" -> NewRequestBookingRequest(f.params)
          [] f.op = "get"     -> NewGetReservationRequest(f.uuid, f.params)
          [] f.op = "confirm" -> NewConfirmBookingRequest(f.uuid, f.params)
          [] f.op = "cancel"  -> NewCancelBookingRequest(f.uuid, f.params)

Parse(c) ==
    CASE form[c].op = "request" -> ParseRequestBookingClientResponse(wire[c])
      [] form[c].op = "get"     -> ParseGetReservationClientResponse(wire[c])
      [] form[c].op = "confirm" -> ParseConfirmBookingClientResponse(wire[c])
      [] form[c].op = "cancel"  -> ParseCancelBookingClientResponse(wire[c])

Succeeded(c) == told[c] # None /\ told[c].field \in {"JSON200", "JSON201", "none"}

EndCall(c, outcome) ==
    /\ cpc' = [cpc EXCEPT ![c] = "done"]
    /\ told' = [told EXCEPT ![c] = outcome]

Send(c) ==
    /\ cpc[c] = "idle"
    /\ since' = [since EXCEPT ![c] = {u \in Calls : Succeeded(u)}]
    /\ LET r == ApplyEditors(Build(c), ClientEditors, form[c].editors)
       IN  \/ /\ r # None
              /\ request' = [request EXCEPT ![c] = r]
              /\ cpc' = [cpc EXCEPT ![c] = "sent"]
              /\ UNCHANGED told
           \/ r = None /\ EndCall(c, Failed) /\ UNCHANGED request
    /\ UNCHANGED <<form, spc, err, httpVars, txVars, panicked, tableVars, faults>>

Deliver(c) ==
    /\ cpc[c] = "sent"
    /\ wire[c] # None
    /\ EndCall(c, Parse(c))
    /\ UNCHANGED <<form, request, since, spc, err, httpVars, txVars, panicked, tableVars, faults>>

\* The request or the answer is lost, half of the answer arrives, or the caller's
\* own timeout is over.  The server may still be at work, or not have begun.
GiveUp(c) ==
    /\ cpc[c] = "sent"
    /\ EndCall(c, Failed)
    /\ Fault
    /\ UNCHANGED <<form, request, since, spc, err, httpVars, txVars, panicked, tableVars>>

-----------------------------------------------------------------------------
(* The handler, up to its transaction. *)

\* Middlewares, router, wrapper, strict handler, handler.
Receive(c) ==
    /\ spc[c] = "away"
    /\ request[c] # None
    /\ LET e == Refusal(request[c])
       IN  \/ e # NoError /\ ReturnError(c, e)
           \/ e = NoError /\ Goto(c, "service") /\ UNCHANGED err
    /\ UNCHANGED <<clientVars, httpVars, txVars, panicked, tableVars, faults>>

\* ReservationReadModel.GetReservationByID
GetReservation(c) ==
    /\ spc[c] = "service"
    /\ Route(request[c]) = "get"
    /\ \/ /\ GetReservationWithAppointmentByUUID(Target(c), UserOf(c))
          /\ ReturnAnswer(c, VisitGetReservation200([reservation |-> Target(c),
                                                     status |-> status[Target(c)]]))
          /\ UNCHANGED err
       \/ /\ ~GetReservationWithAppointmentByUUID(Target(c), UserOf(c))
          /\ ReturnError(c, NewNotFoundError("reservation-not-found"))
          /\ UNCHANGED answer
    /\ UNCHANGED <<clientVars, wire, log, txVars, panicked, tableVars, faults>>

\* What Service.RequestBooking refuses before its transaction.
BookingRefusals ==
    {NewInvalidInputError("invalid-appointment"), NewInvalidInputError("invalid-vehicle"),
     NewNotFoundError("service-type-not-found"), NewConflictError("no-availability")}

\* Service.RequestBooking up to RequestAppointment.  Without a body every field
\* is empty, and the start time is refused first.
RequestBooking(c) ==
    /\ spc[c] = "service"
    /\ Route(request[c]) = "request"
    /\ \/ \E e \in BookingRefusals :
            /\ request[c].body = "none" => e = NewInvalidInputError("invalid-appointment")
            /\ ReturnError(c, e)
            /\ UNCHANGED answer
       \/ \E b \in KeyHolders(c) :
            /\ request[c].body # "none"
            /\ ReturnAnswer(c, VisitRequestBooking201(b))
            /\ UNCHANGED err
       \/ /\ KeyHolders(c) = {}
          /\ request[c].body # "none"
          /\ Goto(c, "begin")
          /\ UNCHANGED <<err, answer>>
    /\ UNCHANGED <<clientVars, wire, log, txVars, panicked, tableVars, faults>>

\* Service.ConfirmBooking, Service.CancelBooking
UpdateBooking(c) ==
    /\ spc[c] = "service"
    /\ Route(request[c]) \in {"confirm", "cancel"}
    /\ Goto(c, "begin")
    /\ UNCHANGED <<clientVars, err, httpVars, txVars, panicked, tableVars, faults>>

-----------------------------------------------------------------------------
(* The transaction: updateInTx with the repository's functions. *)

Begin(c) ==
    /\ spc[c] = "begin"
    /\ Goto(c, "load")
    /\ tries' = [tries EXCEPT ![c] = @ + 1]
    /\ UNCHANGED <<clientVars, err, httpVars, found, draft, seen, panicked, tableVars, faults>>

\* The function returns: the deferred end of updateInTx is next.
FnReturns(c, e) == Goto(c, "finish") /\ err' = [err EXCEPT ![c] = e]

\* RequestAppointment: the key again, the busy rows, createFn.
LoadForBooking(c) ==
    /\ spc[c] = "load"
    /\ Route(request[c]) = "request"
    /\ \/ \E b \in KeyHolders(c) :
            /\ found' = [found EXCEPT ![c] = b]
            /\ FnReturns(c, NoError)
       \/ /\ KeyHolders(c) = {}
          /\ \/ FnReturns(c, NewConflictError("no-availability"))
             \/ Goto(c, "vehicle") /\ UNCHANGED err
          /\ UNCHANGED found
    /\ UNCHANGED <<clientVars, httpVars, tries, draft, seen, panicked, tableVars, faults>>

\* What Appointment.Confirm and Appointment.Cancel may say of a status; whether
\* the hold is over or the start has passed is left to the clock.
DomainErrors(op, s) ==
    CASE op = "confirm" /\ s # "pending"   -> {NewConflictError("appointment-not-pending")}
      [] op = "confirm" /\ s = "pending"   -> {NoError, NewExpiredError("reservation-expired")}
      [] op = "cancel"  /\ s = "cancelled" -> {NewConflictError("appointment-already-cancelled")}
      [] op = "cancel"  /\ s = "pending"   -> {NewConflictError("appointment-not-confirmed")}
      [] OTHER -> {NoError, NewInvalidInputError("appointment-in-the-past")}

\* getReservation and getAppointment, then the domain rule.
UpdateErrors(c) ==
    IF Route(request[c]) = "confirm" /\ ~GetReservationByUUID(Target(c))
    THEN {NewNotFoundError("reservation-not-found")}
    ELSE IF ~GetAppointmentByUUIDAndUserID(Target(c), UserOf(c))
    THEN {NewNotFoundError("appointment-not-found")}
    ELSE DomainErrors(Route(request[c]), status[Target(c)])

LoadForUpdate(c) ==
    /\ spc[c] = "load"
    /\ Route(request[c]) \in {"confirm", "cancel"}
    /\ \E e \in UpdateErrors(c) :
          \/ e # NoError /\ FnReturns(c, e) /\ UNCHANGED seen
          \/ /\ e = NoError
             /\ seen' = [seen EXCEPT ![c] = status[Target(c)]]
             /\ Goto(c, "update")
             /\ UNCHANGED err
    /\ UNCHANGED <<clientVars, httpVars, tries, found, draft, panicked, tableVars, faults>>

Write(c, what) == draft' = [draft EXCEPT ![c] = @ \cup {what}]

UpsertVehicle(c) ==
    /\ spc[c] = "vehicle"
    /\ Write(c, "vehicle")
    /\ Goto(c, "appointment")
    /\ UNCHANGED <<clientVars, err, httpVars, tries, found, seen, panicked, tableVars, faults>>

CreateAppointment(c) ==
    /\ spc[c] = "appointment"
    /\ Write(c, "appointment")
    /\ Goto(c, "reservation")
    /\ UNCHANGED <<clientVars, err, httpVars, tries, found, seen, panicked, tableVars, faults>>

\* Mutant: the index is not unique.
CreateReservationAnyway(c) ==
    /\ spc[c] = "reservation"
    /\ Write(c, "reservation")
    /\ found' = [found EXCEPT ![c] = c]
    /\ FnReturns(c, NoError)
    /\ UNCHANGED <<clientVars, httpVars, tries, seen, panicked, tableVars, faults>>

\* The unique index on the key: the insert waits for an open transaction that
\* holds an entry of it and fails on one that is committed.
CreateReservation(c) ==
    /\ spc[c] = "reservation"
    /\ \A b \in Bookings \ {c} : "reservation" \in draft[b] => request[b].key # request[c].key
    /\ \/ /\ KeyHolders(c) = {}
          /\ Write(c, "reservation")
          /\ found' = [found EXCEPT ![c] = c]
          /\ FnReturns(c, NoError)
       \/ /\ KeyHolders(c) # {}
          /\ FnReturns(c, UniqueViolation)
          /\ UNCHANGED <<draft, found>>
    /\ UNCHANGED <<clientVars, httpVars, tries, seen, panicked, tableVars, faults>>

\* REPEATABLE READ: the row is locked, and must not have changed since the read.
UpdateAppointmentStatus(c) ==
    /\ spc[c] = "update"
    /\ \A u \in Calls \ {c} : "status" \in draft[u] => Target(u) # Target(c)
    /\ \/ /\ status[Target(c)] = seen[c]
          /\ Write(c, "status")
          /\ FnReturns(c, NoError)
       \/ /\ status[Target(c)] # seen[c]
          /\ FnReturns(c, Serialization)
          /\ UNCHANGED draft
    /\ UNCHANGED <<clientVars, httpVars, tries, found, seen, panicked, tableVars, faults>>

\* A statement fails: deadline, connection, or a conflict with another transaction.
StatementFails(c) ==
    /\ \/ /\ spc[c] \in TxPc
          /\ \E e \in {PlainError(TRUE), PlainError(FALSE), Serialization} : FnReturns(c, e)
       \/ /\ spc[c] \in {"begin", "backstop"} \/ AtRead(c)
          /\ \E late \in BOOLEAN : ReturnError(c, PlainError(late))
    /\ Fault
    /\ UNCHANGED <<clientVars, httpVars, txVars, panicked, tableVars>>

\* The handler panics: inside the function its deferred end still runs.
Panic(c) ==
    /\ spc[c] \in TxPc \cup {"service"}
    /\ panicked' = [panicked EXCEPT ![c] = TRUE]
    /\ Goto(c, IF spc[c] \in TxPc THEN "finish" ELSE "return")
    /\ Fault
    /\ UNCHANGED <<clientVars, err, httpVars, txVars, tableVars>>

\* The draft becomes the committed rows.
Apply(c) ==
    /\ store' = [store EXCEPT ![c] = @ \cup (draft[c] \cap Rows)]
    /\ status' = IF "status" \in draft[c]
                 THEN [status EXCEPT ![Target(c)] = IF Route(request[c]) = "confirm"
                                                    THEN "confirmed" ELSE "cancelled"]
                 ELSE status
    /\ did' = [did EXCEPT ![c] = @ \/ draft[c] # {}]

Success(c) ==
    CASE Route(request[c]) = "request" -> VisitRequestBooking201(found[c])
      [] Route(request[c]) = "confirm" -> VisitConfirmBooking200(Target(c))
      [] Route(request[c]) = "cancel"  -> VisitCancelBooking204

\* Mutants: one try more, any error is tried again.
MayRetryOnceMore(c, e) == IsSerialization(e) /\ ~e.late /\ tries[c] =< MaxTries
MayRetryAny(c, e) == e # NoError /\ ~e.late /\ tries[c] < MaxTries

MayRetry(c, e) == IsSerialization(e) /\ ~e.late /\ tries[c] < MaxTries

\* updateInTx has returned e: the backoff tries again or not, and the repository
\* looks for the violation of the unique index.
AfterTx(c, e) ==
    \/ /\ e = NoError
       /\ ReturnAnswer(c, Success(c))
       /\ err' = [err EXCEPT ![c] = NoError]
    \/ /\ MayRetry(c, e)
       /\ Goto(c, "begin")
       /\ err' = [err EXCEPT ![c] = NoError]
       /\ UNCHANGED answer
    \/ /\ IsUniqueViolation(e)
       /\ Goto(c, "backstop")
       /\ err' = [err EXCEPT ![c] = e]
       /\ UNCHANGED answer
    \/ /\ e # NoError /\ ~MayRetry(c, e) /\ ~IsUniqueViolation(e)
       /\ ReturnError(c, e)
       /\ UNCHANGED answer

\* Mutant: the connection goes back with its transaction open.
EndTxLeftOpen(c) ==
    /\ spc[c] = "finish"
    /\ seen' = [seen EXCEPT ![c] = "none"]
    /\ UNCHANGED <<clientVars, wire, log, tries, found, draft, panicked>>

EndTx(c) ==
    /\ spc[c] = "finish"
    /\ draft' = [draft EXCEPT ![c] = {}]
    /\ seen' = [seen EXCEPT ![c] = "none"]
    /\ UNCHANGED <<clientVars, wire, log, tries, found, panicked>>

\* Mutant: the error of COMMIT is dropped.
CommitUnchecked(c) ==
    /\ EndTx(c)
    /\ err[c] = NoError
    /\ \/ Apply(c) /\ UNCHANGED faults
       \/ UNCHANGED tableVars /\ Fault
    /\ \/ panicked[c] /\ Goto(c, "return") /\ UNCHANGED <<err, answer>>
       \/ ~panicked[c] /\ AfterTx(c, NoError)

\* err is nil: COMMIT.  It may be refused, fail, or be done and its answer lost; the
\* named result is then the error.  A panic commits too, and goes on.
Commit(c) ==
    /\ EndTx(c)
    /\ err[c] = NoError
    /\ \E e \in {NoError, Serialization, PlainError(TRUE), PlainError(FALSE)} :
          /\ \/ ~IsSerialization(e) /\ Apply(c)
             \/ e # NoError /\ UNCHANGED tableVars
          /\ \/ e = NoError /\ UNCHANGED faults
             \/ e # NoError /\ Fault
          /\ \/ panicked[c] /\ Goto(c, "return") /\ UNCHANGED <<err, answer>>
             \/ ~panicked[c] /\ AfterTx(c, e)

\* Mutant: COMMIT whatever the function returned.
RollbackCommits(c) ==
    /\ EndTx(c)
    /\ err[c] # NoError
    /\ AfterTx(c, err[c])
    /\ Apply(c)
    /\ UNCHANGED faults

\* ROLLBACK, whose own failure is joined to err; after the deadline it does fail.
Rollback(c) ==
    /\ EndTx(c)
    /\ err[c] # NoError
    /\ \/ AfterTx(c, err[c]) /\ UNCHANGED faults
       \/ AfterTx(c, [err[c] EXCEPT !.late = TRUE]) /\ Fault
    /\ UNCHANGED tableVars

\* The key once more, outside the transaction; after the deadline that fails.
Backstop(c) ==
    /\ spc[c] = "backstop"
    /\ \/ \E b \in KeyHolders(c) :
            /\ ~err[c].late
            /\ ReturnAnswer(c, VisitRequestBooking201(b))
            /\ err' = [err EXCEPT ![c] = NoError]
       \/ /\ err[c].late \/ KeyHolders(c) = {}
          /\ ReturnError(c, PlainError(err[c].late))
          /\ UNCHANGED answer
    /\ UNCHANGED <<clientVars, wire, log, txVars, panicked, tableVars, faults>>

-----------------------------------------------------------------------------
(* The way back. *)

\* The answer is written, which may fail half-way; then, from the inside out,
\* requestLogMiddleware, ContextTimeout and EchoErrorHandler.
Return(c) ==
    /\ spc[c] = "return"
    /\ ~panicked[c]
    /\ \E e \in IF answer[c] = None THEN {err[c]} ELSE {NoError, PlainError(FALSE)} :
          /\ IF e = err[c] THEN UNCHANGED faults ELSE Fault
          /\ log' = [log EXCEPT ![c] = RequestLog(e, answer[c])]
          /\ wire' = [wire EXCEPT ![c] = EchoErrorHandler(ContextTimeout(e), answer[c])]
    /\ Goto(c, "gone")
    /\ UNCHANGED <<clientVars, err, answer, txVars, panicked, tableVars>>

\* middleware.Recover is outside of requestLogMiddleware.
Recover(c) ==
    /\ spc[c] = "return"
    /\ panicked[c]
    /\ wire' = [wire EXCEPT ![c] = EchoErrorHandler(PlainError(FALSE), None)]
    /\ Goto(c, "gone")
    /\ UNCHANGED <<clientVars, err, answer, log, txVars, panicked, tableVars, faults>>

\* The process dies with all its requests; another one takes those that come later.
Crash ==
    /\ \E c \in Calls : spc[c] \notin {"away", "gone"}
    /\ spc' = [c \in Calls |-> IF spc[c] = "away" THEN "away" ELSE "gone"]
    /\ draft' = [c \in Calls |-> {}]
    /\ Fault
    /\ UNCHANGED <<clientVars, err, httpVars, tries, found, seen, panicked, tableVars>>

-----------------------------------------------------------------------------
Serve(c) ==
    \/ GetReservation(c) \/ RequestBooking(c) \/ UpdateBooking(c) \/ Begin(c)
    \/ LoadForBooking(c) \/ LoadForUpdate(c)
    \/ UpsertVehicle(c) \/ CreateAppointment(c) \/ CreateReservation(c)
    \/ UpdateAppointmentStatus(c)
    \/ Commit(c) \/ Rollback(c) \/ Backstop(c) \/ Return(c) \/ Recover(c)

Next ==
    \/ \E c \in Calls :
          \/ Send(c) \/ Deliver(c) \/ GiveUp(c)
          \/ Receive(c) \/ Serve(c) \/ StatementFails(c) \/ Panic(c)
    \/ Crash

Spec == Init /\ [][Next]_vars

\* A handler goroutine runs until it returns.  Nothing is assumed of the callers and
\* of the network, and no statement has to fail.
FairSpec == Spec /\ \A c \in Calls : WF_vars(Serve(c))

-----------------------------------------------------------------------------
(* What must hold. *)

Told(c, field) == cpc[c] = "done" /\ told[c].field = field
ToldRefused(c) ==
    \E field \in {"JSON400", "JSON401", "JSON404", "JSON409", "JSON410"} : Told(c, field)
SameKey(c, b) == HeaderValue(request[c].key) = HeaderValue(request[b].key)

\* Vehicle, appointment and reservation are committed together or not at all,
\* unless the handler panicked between them: updateInTx then sees err = nil and
\* commits what there is.  That part never has the reservation, so it takes neither
\* the key from a retry nor, being a pending appointment without a hold, the slot.
PartialOnlyAfterPanic ==
    \A b \in Bookings : store[b] \notin {{}, Rows} =>
        panicked[b] /\ "reservation" \notin store[b]

\* A success the caller has read is in the tables, whatever was lost, retried or
\* died before and after it: the reservation has all its rows and the caller's key,
\* a confirmed booking is not pending, a cancelled one stays cancelled, and a
\* booking is shown to its owner only.
AnswersAreTrue ==
    \A c \in Calls :
        /\ Told(c, "JSON201") => store[told[c].body] = Rows /\ SameKey(c, told[c].body)
        /\ Told(c, "JSON200") /\ form[c].op = "confirm" =>
              did[c] /\ status[told[c].body] # "pending"
        /\ Told(c, "none") => did[c] /\ status[Target(c)] = "cancelled"
        /\ Told(c, "JSON200") /\ form[c].op = "get" =>
              /\ UserOf(told[c].body.reservation) = UserOf(c)
              /\ told[c].body.status # "pending" => status[Target(c)] # "pending"

\* Callers with one key who both get a reservation get the same one, also when
\* their requests overlap (the unique index and its backstop).
SameKeySameReservation ==
    \A c, d \in Bookings :
        Told(c, "JSON201") /\ Told(d, "JSON201") /\ SameKey(c, d) => told[c].body = told[d].body

\* A caller who reads a refusal (4xx) has changed nothing.  It holds because only
\* a serialization failure, which commits nothing, is tried again: a retry after a
\* commit that was done would be refused by its own first try.
RefusedMeansUndone == \A c \in Calls : ToldRefused(c) => ~did[c]

\* What the handlers, the service or the database refuse reaches the caller under its
\* slug and in the field the API declares for its status; what the wrappers refuse
\* keeps the slug of its status (a malformed uuid of a GET and a body that is no JSON
\* have no field of their own).  Failures and the deadline are the default.
ErrorsKeepTheirMeaning ==
    \A c \in Calls : cpc[c] = "done" /\ told[c].field # "error" /\ err[c] # NoError =>
        IF err[c].late \/ err[c].kind = "plain" THEN Told(c, "JSONDefault")
        ELSE /\ told[c].slug = err[c].slug
             /\ err[c].kind = "common" => ToldRefused(c)

\* Nothing is read or written for a request that names no user or two of them.
ActsForOneUser ==
    \A c \in Calls :
        spc[c] \in TxPc \cup {"service", "begin", "finish", "backstop"} \/ did[c] =>
            Len(request[c].user) = 1 /\ ~IsBlank(UserOf(c))

\* A booking its caller knows of is found by every request of its owner that is
\* sent afterwards.
ReadsSeeWhatWasTold ==
    \A c \in Calls : Told(c, "JSON404") /\ form[c].op # "request" =>
        \A b \in since[c] \cap Bookings :
            told[b].body = Target(c) => UserOf(c) # UserOf(Target(c)) 

\* An answer that is on its way is not followed by an error (Committed).
AnswerIsNotOverwritten ==
    \A c \in Calls : answer[c] # None /\ wire[c] # None => wire[c] = answer[c]

\* Of every request that got an answer the log has an entry, and one without an
\* error only if the status in it is what was sent; except after a panic, which
\* Recover turns into an answer outside of the log.
EveryFailureIsLogged ==
    \A c \in Calls : wire[c] # None /\ ~panicked[c] =>
        /\ log[c] # None
        /\ ~log[c].failed => log[c].status = wire[c].status

\* Every request that was received ends, without a deadline: the transactions wait
\* for each other's rows and index entries, but never in a circle.
EveryRequestEnds ==
    \A c \in Calls : spc[c] \notin {"away", "gone"} ~> spc[c] = "gone"
=============================================================================
