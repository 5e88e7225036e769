------------------------- MODULE ReservationApiProofs -------------------------
(***************************************************************************)
(* Proofs about ReservationApi for every number of calls, every scenario,  *)
(* every list of request editors, every number of attempts and of faults.  *)
(***************************************************************************)
EXTENDS ApiInvariant, ApiClientProofs

-----------------------------------------------------------------------------
(* The requests. *)

\* What is sent is well formed: the editors of client and call leave its route alone
\* and its key.
LEMMA SentWellFormed ==
    ASSUME TypeOK, NEW c \in Calls,
           NEW r, r = ApplyEditors(Build(c), ClientEditors, form[c].editors), r # None
    PROVE  WellFormed(r, form[c].op)
<1> DEFINE q == Build(c)
<1>1. /\ form[c].op \in {"request", "get", "confirm", "cancel"}
      /\ form[c].editors \in Seq(Editors) /\ ClientEditors \in Seq(Editors)
    BY ScenariosAssumption DEF TypeOK
<1>2. /\ q = [method |-> q.method, path |-> q.path, uuid |-> q.uuid, user |-> q.user,
              key |-> q.key, body |-> q.body]
      /\ q.user = OptionalHeader(form[c].params, "user")
      /\ q.key = <<>> \/ q.key = OptionalHeader(form[c].params, "key")
      /\ Route(q) = form[c].op
    BY <1>1 DEF Build, Request, NewRequestBookingRequest, NewRequestBookingRequestWithBody,
           NewGetReservationRequest, NewConfirmBookingRequest, NewCancelBookingRequest, Route
<1>3. q.user \in Seq(Values(q))
    <2>1. q.user = <<>> \/ q.user = <<form[c].params["user"]>>
        BY <1>2 DEF OptionalHeader
    <2>2. CASE q.user = <<>>
        BY <2>2
    <2>3. CASE q.user = <<form[c].params["user"]>>
        <3> DEFINE u == form[c].params["user"]
        <3> HIDE DEF u
        <3>1. q.user = <<u>>
            BY <2>3 DEF u
        <3>2. u \in Values(q)
            BY <3>1 DEF Values
        <3> QED
            BY <3>1, <3>2
    <2> QED
        BY <2>1, <2>2, <2>3
<1>4. q \in Edited(q)
    BY <1>2, <1>3 DEF Edited
<1>5. r \in Edited(q)
    BY <1>1, <1>4, EditorsKeep
<1>6. r.method = q.method /\ r.path = q.path /\ r.key = q.key /\ r.user \in Seq(Values(q))
    BY <1>5 DEF Edited
<1>7. Route(r) = form[c].op
    BY <1>2, <1>6 DEF Route
<1>8. r.user \in Seq({r.user[i] : i \in DOMAIN r.user})
    BY <1>6
<1>9. r.key = <<>> \/ (r.key = <<HeaderValue(r.key)>> /\ HeaderValue(r.key) # None)
    BY <1>2, <1>6 DEF OptionalHeader, HeaderValue
<1> QED
    BY <1>7, <1>8, <1>9 DEF WellFormed

-----------------------------------------------------------------------------
(* The initial state. *)

\* Nothing is sent, at work or stored, and the invariant holds.
LEMMA InitInv == Init => IInv
<1> SUFFICES ASSUME Init PROVE IInv
    OBVIOUS
<1>1. NoError \in Errors
    BY DEF NoError, Error, Errors, Slugs
<1>2. TypeOK
    <2>1. panicked \in [Calls -> BOOLEAN] /\ did \in [Calls -> BOOLEAN]
        BY DEF Init
    <2>2. tries = [c \in Calls |-> 0] /\ faults = 0
        BY DEF Init
    <2>3. tries \in [Calls -> 0..MaxTries] /\ faults \in 0..MaxFaults
        BY <2>2, BoundsAssumption
    <2>4. /\ status \in [Calls -> Statuses] /\ seen \in [Calls -> Statuses \cup {"none"}]
          /\ spc \in [Calls -> ServerPc] /\ store \in [Calls -> SUBSET Rows]
          /\ err \in [Calls -> Errors]
        BY <1>1 DEF Init, ServerPc, Statuses, Rows
    <2> QED
        BY <2>1, <2>3, <2>4 DEF Init, TypeOK
<1>3. CallerInv /\ RouteInv /\ DraftInv
    BY DEF Init, CallerOK, RouteOK, DraftOK, CallerInv, RouteInv, DraftInv, Rows, AtWork, InTx, TxPc
<1>4. HandlerInv /\ TriesInv
    <2>1. ASSUME NEW c \in Calls
          PROVE  /\ ~did[c] /\ store[c] = {} /\ ~panicked[c]
                 /\ answer[c] = None /\ wire[c] = None /\ err[c] = NoError
        BY DEF Init
    <2>2. tries = [c \in Calls |-> 0]
        BY DEF Init
    <2>3. ASSUME NEW c \in Calls PROVE tries[c] < MaxTries
        BY <2>2, BoundsAssumption
    <2> QED
        BY <2>1, <2>3 DEF HandlerInv, HandlerOK, TriesInv
<1>5. KeyInv /\ StatusInv
    BY DEF Init, KeyInv, StatusInv, Indexed
<1>6. ErrorInv
    BY DEF Init, ErrorInv, ErrorOK, IsUniqueViolation, IsSerialization, UniqueViolation, Serialization,
           PlainError, NoError, Error, AtWork, InTx, TxPc
<1>7. AnswerInv /\ WireInv
    BY DEF Init, AnswerInv, AnswerOK, WireInv, WireOK
<1>8. SinceInv
    <2>1. NoError.status # 404
        BY DEF NoError, Error
    <2>2. ASSUME NEW c \in Calls PROVE since[c] = {} /\ err[c].status # 404
        BY <2>1 DEF Init
    <2> QED
        BY <2>2 DEF SinceInv, SinceOK
<1>9. ActsForOneUser /\ EveryFailureIsLogged
    BY DEF Init, ActsForOneUser, EveryFailureIsLogged, TxPc
<1> QED
    BY <1>2, <1>3, <1>4, <1>5, <1>6, <1>7, <1>8, <1>9 DEF IInv

-----------------------------------------------------------------------------
(* Frames: what a step of one call leaves alone. *)

\* The steps of one call: its caller, its handler, its faults.
CallStep(c) ==
    \/ Send(c) \/ Deliver(c) \/ GiveUp(c)
    \/ Receive(c) \/ Serve(c) \/ StatementFails(c) \/ Panic(c)

USE DEF clientVars, tableVars, txVars, httpVars, Goto, ReturnError, ReturnAnswer, EndCall,
        FnReturns, Write, EndTx, CallStep, Serve

\* A step of one call changes no variable of another, but a status.
LEMMA Frame ==
    ASSUME TypeOK, NEW c \in Calls, NEW d \in Calls \ {c}, CallStep(c)
    PROVE  /\ cpc'[d] = cpc[d] /\ request'[d] = request[d] /\ told'[d] = told[d]
           /\ since'[d] = since[d] /\ spc'[d] = spc[d] /\ err'[d] = err[d]
           /\ answer'[d] = answer[d] /\ wire'[d] = wire[d] /\ log'[d] = log[d]
           /\ found'[d] = found[d] /\ draft'[d] = draft[d]
           /\ seen'[d] = seen[d] /\ panicked'[d] = panicked[d] /\ store'[d] = store[d]
           /\ did'[d] = did[d] /\ tries'[d] = tries[d]
<1> USE DEF TypeOK
<1>1. CASE Send(c)
    BY <1>1 DEF Send
<1>2. CASE Deliver(c)
    BY <1>2 DEF Deliver
<1>3. CASE GiveUp(c)
    BY <1>3 DEF GiveUp
<1>4. CASE Receive(c)
    BY <1>4 DEF Receive
<1>5. CASE GetReservation(c)
    BY <1>5 DEF GetReservation
<1>6. CASE RequestBooking(c)
    BY <1>6 DEF RequestBooking
<1>7. CASE UpdateBooking(c)
    BY <1>7 DEF UpdateBooking
<1>8. CASE Begin(c)
    BY <1>8 DEF Begin
<1>9. CASE LoadForBooking(c)
    BY <1>9 DEF LoadForBooking
<1>10. CASE LoadForUpdate(c)
    BY <1>10 DEF LoadForUpdate
<1>11. CASE UpsertVehicle(c)
    BY <1>11 DEF UpsertVehicle
<1>12. CASE CreateAppointment(c)
    BY <1>12 DEF CreateAppointment
<1>13. CASE CreateReservation(c)
    BY <1>13 DEF CreateReservation
<1>14. CASE UpdateAppointmentStatus(c)
    BY <1>14 DEF UpdateAppointmentStatus
<1>15. CASE Commit(c)
    BY <1>15 DEF Commit, Apply, AfterTx
<1>16. CASE Rollback(c)
    BY <1>16 DEF Rollback, AfterTx
<1>17. CASE Backstop(c)
    BY <1>17 DEF Backstop
<1>18. CASE Return(c)
    BY <1>18 DEF Return
<1>19. CASE Recover(c)
    BY <1>19 DEF Recover
<1>20. CASE StatementFails(c)
    BY <1>20 DEF StatementFails
<1>21. CASE Panic(c)
    BY <1>21 DEF Panic
<1> QED
    BY <1>1, <1>2, <1>3, <1>4, <1>5, <1>6, <1>7, <1>8, <1>9, <1>10, <1>11, <1>12, <1>13,
       <1>14, <1>15, <1>16, <1>17, <1>18, <1>19, <1>20, <1>21

-----------------------------------------------------------------------------
(* The parts of the invariant that a handler keeps by itself. *)

\* The kinds and slugs of the errors that are not refusals.
LEMMA PlainErrorFacts ==
    /\ PlainError(TRUE).kind = "plain" /\ PlainError(TRUE).slug = ""
    /\ PlainError(FALSE).kind = "plain" /\ PlainError(FALSE).slug = ""
    /\ Serialization.kind = "plain" /\ Serialization.slug = "could not serialize access"
    /\ UniqueViolation.kind = "plain" /\ UniqueViolation.slug = "unique violation"
    /\ NoError.kind = "none" /\ NoError.slug = ""
BY DEF PlainError, Serialization, UniqueViolation, NoError, Error

\* They have no status.
LEMMA PlainErrorStatus ==
    /\ PlainError(TRUE).status = 0 /\ PlainError(FALSE).status = 0
    /\ Serialization.status = 0 /\ UniqueViolation.status = 0 /\ NoError.status = 0
BY DEF PlainError, Serialization, UniqueViolation, NoError, Error

\* And they are errors.
LEMMA PlainErrorTypes ==
    /\ PlainError(TRUE) \in Errors /\ PlainError(FALSE) \in Errors
    /\ Serialization \in Errors /\ UniqueViolation \in Errors /\ NoError \in Errors
<1>1. PlainError(TRUE) \in Errors /\ PlainError(FALSE) \in Errors
    BY DEF PlainError, Error, Errors, Slugs
<1>2. Serialization \in Errors /\ UniqueViolation \in Errors
    <2>1. PICK e \in Errors : e = PlainError(FALSE)
        BY <1>1
    <2>2. ASSUME NEW slug \in Slugs PROVE [e EXCEPT !.slug = slug] \in Errors
        BY DEF Errors
    <2>3. "could not serialize access" \in Slugs /\ "unique violation" \in Slugs
        BY DEF Slugs
    <2> QED
        BY <2>1, <2>2, <2>3 DEF Serialization, UniqueViolation
<1>3. NoError \in Errors
    BY DEF NoError, Error, Errors, Slugs
<1> QED
    BY <1>1, <1>2, <1>3

\* The errors of the wrappers and of the strict handler.
LEMMA HTTPErrorFacts ==
    /\ HTTPError(400).kind = "http" /\ HTTPError(400).status = 400
    /\ HTTPError(400).slug = "bad_request" /\ HTTPError(400) \in Errors
    /\ HTTPError(415).kind = "http" /\ HTTPError(415).status = 415
    /\ HTTPError(415).slug = "unsupported_media_type" /\ HTTPError(415) \in Errors
    /\ \A e \in {HTTPError(400), HTTPError(415)} :
          e # NoError /\ ~IsUniqueViolation(e) /\ ~IsSerialization(e)
<1>1. /\ HTTPError(400).kind = "http" /\ HTTPError(400).status = 400
      /\ HTTPError(400).slug = "bad_request" /\ HTTPError(400) \in Errors
    BY DEF HTTPError, StatusSlug, Error, Errors, Slugs
<1>2. /\ HTTPError(415).kind = "http" /\ HTTPError(415).status = 415
      /\ HTTPError(415).slug = "unsupported_media_type" /\ HTTPError(415) \in Errors
    BY DEF HTTPError, StatusSlug, Error, Errors, Slugs
<1>3. ASSUME NEW e \in {HTTPError(400), HTTPError(415)}
      PROVE  e # NoError /\ ~IsUniqueViolation(e) /\ ~IsSerialization(e)
    <2>1. e.kind = "http" /\ e.slug \in {"bad_request", "unsupported_media_type"}
        BY <1>1, <1>2
    <2> QED
        BY <2>1, PlainErrorFacts DEF IsUniqueViolation, IsSerialization
<1> QED
    BY <1>1, <1>2, <1>3

\* A refusal: an error that the code gives a status and a slug of its own.
Refused(e, status0) ==
    /\ e \in Errors /\ e.kind = "common" /\ e.status = status0
    /\ e # NoError /\ ~IsUniqueViolation(e) /\ ~IsSerialization(e)
Refusals == Slugs \ {UniqueViolation.slug, Serialization.slug}

\* The constructors of common/errors.go make refusals, each with its status.
LEMMA RefusedFacts ==
    ASSUME NEW slug \in Refusals
    PROVE  /\ Refused(NewNotFoundError(slug), 404)
           /\ Refused(NewInvalidInputError(slug), 400)
           /\ Refused(NewUnauthorizedError(slug), 401)
           /\ Refused(NewExpiredError(slug), 410)
           /\ Refused(NewConflictError(slug), 409)
<1>0. slug \in Slugs
    BY DEF Refusals
<1>1. Refused(NewNotFoundError(slug), 404)
    <2>1. NewNotFoundError(slug) \in Errors
        BY <1>0 DEF NewNotFoundError, Error, Errors
    <2>2. /\ NewNotFoundError(slug).status = 404 /\ NewNotFoundError(slug).slug = slug
          /\ NewNotFoundError(slug).kind = "common"
        BY DEF NewNotFoundError, Error
    <2>3. NewNotFoundError(slug) # NoError
        BY <2>2, PlainErrorFacts
    <2>4. ~IsUniqueViolation(NewNotFoundError(slug)) /\ ~IsSerialization(NewNotFoundError(slug))
        BY <2>2 DEF Refusals, IsUniqueViolation, IsSerialization
    <2> QED
        BY <2>1, <2>2, <2>3, <2>4 DEF Refused
<1>2. Refused(NewInvalidInputError(slug), 400)
    <2>1. NewInvalidInputError(slug) \in Errors
        BY <1>0 DEF NewInvalidInputError, Error, Errors
    <2>2. /\ NewInvalidInputError(slug).status = 400 /\ NewInvalidInputError(slug).slug = slug
          /\ NewInvalidInputError(slug).kind = "common"
        BY DEF NewInvalidInputError, Error
    <2>3. NewInvalidInputError(slug) # NoError
        BY <2>2, PlainErrorFacts
    <2>4. ~IsUniqueViolation(NewInvalidInputError(slug)) /\ ~IsSerialization(NewInvalidInputError(slug))
        BY <2>2 DEF Refusals, IsUniqueViolation, IsSerialization
    <2> QED
        BY <2>1, <2>2, <2>3, <2>4 DEF Refused
<1>3. Refused(NewUnauthorizedError(slug), 401)
    <2>1. NewUnauthorizedError(slug) \in Errors
        BY <1>0 DEF NewUnauthorizedError, Error, Errors
    <2>2. /\ NewUnauthorizedError(slug).status = 401 /\ NewUnauthorizedError(slug).slug = slug
          /\ NewUnauthorizedError(slug).kind = "common"
        BY DEF NewUnauthorizedError, Error
    <2>3. NewUnauthorizedError(slug) # NoError
        BY <2>2, PlainErrorFacts
    <2>4. ~IsUniqueViolation(NewUnauthorizedError(slug)) /\ ~IsSerialization(NewUnauthorizedError(slug))
        BY <2>2 DEF Refusals, IsUniqueViolation, IsSerialization
    <2> QED
        BY <2>1, <2>2, <2>3, <2>4 DEF Refused
<1>4. Refused(NewExpiredError(slug), 410)
    <2>1. NewExpiredError(slug) \in Errors
        BY <1>0 DEF NewExpiredError, Error, Errors
    <2>2. /\ NewExpiredError(slug).status = 410 /\ NewExpiredError(slug).slug = slug
          /\ NewExpiredError(slug).kind = "common"
        BY DEF NewExpiredError, Error
    <2>3. NewExpiredError(slug) # NoError
        BY <2>2, PlainErrorFacts
    <2>4. ~IsUniqueViolation(NewExpiredError(slug)) /\ ~IsSerialization(NewExpiredError(slug))
        BY <2>2 DEF Refusals, IsUniqueViolation, IsSerialization
    <2> QED
        BY <2>1, <2>2, <2>3, <2>4 DEF Refused
<1>5. Refused(NewConflictError(slug), 409)
    <2>1. NewConflictError(slug) \in Errors
        BY <1>0 DEF NewConflictError, Error, Errors
    <2>2. /\ NewConflictError(slug).status = 409 /\ NewConflictError(slug).slug = slug
          /\ NewConflictError(slug).kind = "common"
        BY DEF NewConflictError, Error
    <2>3. NewConflictError(slug) # NoError
        BY <2>2, PlainErrorFacts
    <2>4. ~IsUniqueViolation(NewConflictError(slug)) /\ ~IsSerialization(NewConflictError(slug))
        BY <2>2 DEF Refusals, IsUniqueViolation, IsSerialization
    <2> QED
        BY <2>1, <2>2, <2>3, <2>4 DEF Refused
<1> QED
    BY <1>1, <1>2, <1>3, <1>4, <1>5

\* The slugs of the service, the repository and the domain are slugs of refusals.
LEMMA RefusalSlugs ==
    /\ "not-authenticated" \in Refusals /\ "missing-idempotency-key" \in Refusals
    /\ "invalid-appointment" \in Refusals /\ "invalid-vehicle" \in Refusals
    /\ "service-type-not-found" \in Refusals /\ "no-availability" \in Refusals
    /\ "reservation-not-found" \in Refusals /\ "appointment-not-found" \in Refusals
    /\ "appointment-not-pending" \in Refusals /\ "reservation-expired" \in Refusals
    /\ "appointment-already-cancelled" \in Refusals
    /\ "appointment-not-confirmed" \in Refusals /\ "appointment-in-the-past" \in Refusals
BY PlainErrorFacts DEF Refusals, Slugs

\* How a COMMIT can end; only a serialization failure is tried again.
CommitErrors == {NoError, Serialization, PlainError(TRUE), PlainError(FALSE)}

\* None of them is the unique index, and all but one are final failures.
LEMMA CommitErrorFacts ==
    ASSUME NEW e \in CommitErrors
    PROVE  /\ ~IsUniqueViolation(e)
           /\ IsSerialization(e) <=> e = Serialization
           /\ e # NoError => e.kind = "plain"
           /\ e \in Errors
<1>1. ~IsUniqueViolation(e) /\ (IsSerialization(e) <=> e = Serialization)
    BY PlainErrorFacts DEF CommitErrors, IsUniqueViolation, IsSerialization
<1>2. e # NoError => e.kind = "plain"
    BY PlainErrorFacts DEF CommitErrors
<1>3. e \in Errors
    BY PlainErrorTypes DEF CommitErrors
<1> QED
    BY <1>1, <1>2, <1>3

\* What the end of a transaction by COMMIT comes to: the handler had panicked; or it
\* answers; or it tries again and nothing is committed; or it fails.
LEMMA CommitCases ==
    ASSUME NEW c \in Calls, Commit(c)
    PROVE  /\ spc[c] = "finish" /\ err[c] = NoError
           /\ draft' = [draft EXCEPT ![c] = {}] /\ seen' = [seen EXCEPT ![c] = "none"]
           /\ UNCHANGED <<clientVars, wire, log, tries, found, panicked>>
           /\ \/ /\ panicked[c] /\ spc' = [spc EXCEPT ![c] = "return"]
                 /\ Apply(c) \/ UNCHANGED tableVars
                 /\ UNCHANGED <<err, answer>>
              \/ /\ ~panicked[c] /\ spc' = [spc EXCEPT ![c] = "return"]
                 /\ Apply(c)
                 /\ answer' = [answer EXCEPT ![c] = Success(c)]
                 /\ err' = [err EXCEPT ![c] = NoError]
              \/ /\ ~panicked[c] /\ spc' = [spc EXCEPT ![c] = "begin"]
                 /\ UNCHANGED <<tableVars, answer>>
                 /\ err' = [err EXCEPT ![c] = NoError]
                 /\ MayRetry(c, Serialization)
              \/ /\ ~panicked[c] /\ spc' = [spc EXCEPT ![c] = "return"]
                 /\ Apply(c) \/ UNCHANGED tableVars
                 /\ UNCHANGED answer
                 /\ \E e \in CommitErrors \ {NoError} : err' = [err EXCEPT ![c] = e]
<1>1. PICK e \in CommitErrors :
          /\ \/ ~IsSerialization(e) /\ Apply(c)
             \/ e # NoError /\ UNCHANGED tableVars
          /\ \/ panicked[c] /\ Goto(c, "return") /\ UNCHANGED <<err, answer>>
             \/ ~panicked[c] /\ AfterTx(c, e)
    BY DEF Commit, CommitErrors
<1>2. ~IsUniqueViolation(e) /\ (IsSerialization(e) <=> e = Serialization)
    BY CommitErrorFacts
<1>3. /\ spc[c] = "finish" /\ err[c] = NoError
      /\ draft' = [draft EXCEPT ![c] = {}] /\ seen' = [seen EXCEPT ![c] = "none"]
      /\ UNCHANGED <<clientVars, wire, log, tries, found, panicked>>
    BY DEF Commit
<1>4. CASE panicked[c]
    BY <1>1, <1>3, <1>4
<1>5. CASE ~panicked[c] /\ e = NoError
    BY <1>1, <1>2, <1>3, <1>5 DEF AfterTx, MayRetry
<1>6. CASE ~panicked[c] /\ e # NoError /\ MayRetry(c, e)
    BY <1>1, <1>2, <1>3, <1>6 DEF AfterTx, MayRetry
<1>7. CASE ~panicked[c] /\ e # NoError /\ ~MayRetry(c, e)
    BY <1>1, <1>2, <1>3, <1>7 DEF AfterTx
<1> QED
    BY <1>4, <1>5, <1>6, <1>7

\* What the end by ROLLBACK comes to: another attempt, the search for the winner after a
\* violation of the unique index, or the answer with the error.
LEMMA RollbackCases ==
    ASSUME IInv, NEW c \in Calls, Rollback(c)
    PROVE  /\ spc[c] = "finish" /\ err[c] # NoError /\ ~panicked[c]
           /\ draft' = [draft EXCEPT ![c] = {}] /\ seen' = [seen EXCEPT ![c] = "none"]
           /\ UNCHANGED <<clientVars, wire, log, tries, found, panicked, tableVars, answer>>
           /\ \E e \in Errors :
              /\ e # NoError /\ (e = err[c] \/ e.late)
              /\ e.kind = err[c].kind /\ e.status = err[c].status /\ e.slug = err[c].slug
              /\ \/ /\ spc' = [spc EXCEPT ![c] = "begin"] /\ err' = [err EXCEPT ![c] = NoError]
                    /\ MayRetry(c, e)
                 \/ /\ spc' = [spc EXCEPT ![c] = "backstop"] /\ err' = [err EXCEPT ![c] = e]
                    /\ IsUniqueViolation(e)
                 \/ spc' = [spc EXCEPT ![c] = "return"] /\ err' = [err EXCEPT ![c] = e]
<1>1. PICK e \in {err[c], [err[c] EXCEPT !.late = TRUE]} : AfterTx(c, e)
    BY DEF Rollback
<1>2. err[c] # NoError /\ err[c] \in Errors /\ err[c].kind # "none"
    BY DEF Rollback, IInv, ErrorInv, ErrorOK, TypeOK
<1>3. /\ e.kind = err[c].kind /\ e.status = err[c].status /\ e.slug = err[c].slug
      /\ e \in Errors /\ (e = err[c] \/ e.late)
    <2> DEFINE x == err[c]
    <2>1. x \in Errors
        BY <1>2
    <2> HIDE DEF x
    <2>2. LET y == [x EXCEPT !.late = TRUE]
          IN  y \in Errors /\ y.late /\ y.kind = x.kind /\ y.status = x.status /\ y.slug = x.slug
        BY <2>1 DEF Errors
    <2>3. e = x \/ e = [x EXCEPT !.late = TRUE]
        BY DEF x
    <2>4. CASE e = x
        BY <2>1, <2>4 DEF x
    <2>5. CASE e = [x EXCEPT !.late = TRUE]
        BY <2>2, <2>5 DEF x
    <2> QED
        BY <2>3, <2>4, <2>5
<1>4. e # NoError
    <2>1. NoError.kind = "none"
        BY DEF NoError, Error
    <2> QED
        BY <1>2, <1>3, <2>1
<1>5. ~panicked[c]
    BY <1>2 DEF IInv, HandlerInv, HandlerOK
<1>6. /\ spc[c] = "finish"
      /\ draft' = [draft EXCEPT ![c] = {}] /\ seen' = [seen EXCEPT ![c] = "none"]
      /\ UNCHANGED <<clientVars, wire, log, tries, found, panicked, tableVars>>
    BY DEF Rollback
<1> QED
    BY <1>1, <1>2, <1>3, <1>4, <1>5, <1>6 DEF AfterTx

\* The handler: what it has not done yet.
LEMMA HandlerStep ==
    ASSUME IInv, NEW c \in Calls, CallStep(c)
    PROVE  HandlerOK(c)'
<1> USE DEF TypeOK, IInv, HandlerInv, HandlerOK, AtWork, InTx, TxPc
<1>1. CASE Send(c)
    BY <1>1 DEF Send
<1>2. CASE Deliver(c)
    BY <1>2 DEF Deliver
<1>3. CASE GiveUp(c)
    BY <1>3 DEF GiveUp
<1>4. CASE Receive(c)
    BY <1>4 DEF Receive
<1>5. CASE GetReservation(c)
    BY <1>5 DEF GetReservation
<1>6. CASE RequestBooking(c)
    BY <1>6 DEF RequestBooking
<1>7. CASE UpdateBooking(c)
    BY <1>7 DEF UpdateBooking
<1>8. CASE Begin(c)
    BY <1>8 DEF Begin
<1>9. CASE LoadForBooking(c)
    BY <1>9 DEF LoadForBooking
<1>10. CASE LoadForUpdate(c)
    BY <1>10 DEF LoadForUpdate
<1>11. CASE UpsertVehicle(c)
    BY <1>11 DEF UpsertVehicle
<1>12. CASE CreateAppointment(c)
    BY <1>12 DEF CreateAppointment
<1>13. CASE CreateReservation(c)
    BY <1>13 DEF CreateReservation
<1>14. CASE UpdateAppointmentStatus(c)
    BY <1>14 DEF UpdateAppointmentStatus
<1>15. CASE Commit(c)
    BY <1>15, CommitCases DEF Apply
<1>16. CASE Rollback(c)
    BY <1>16, RollbackCases
<1>17. CASE Backstop(c)
    BY <1>17 DEF Backstop
<1>18. CASE Return(c)
    BY <1>18 DEF Return
<1>19. CASE Recover(c)
    BY <1>19 DEF Recover
<1>20. CASE StatementFails(c)
    BY <1>20 DEF StatementFails, AtRead
<1>21. CASE Panic(c)
    BY <1>21 DEF Panic
<1> QED
    BY <1>1, <1>2, <1>3, <1>4, <1>5, <1>6, <1>7, <1>8, <1>9, <1>10, <1>11, <1>12, <1>13,
       <1>14, <1>15, <1>16, <1>17, <1>18, <1>19, <1>20, <1>21

-----------------------------------------------------------------------------
(* The caller's side. *)

\* The statuses of success an operation declares.
Succeeding(op) ==
    CASE op = "request" -> {201}
      [] op = "get"     -> {200}
      [] op = "confirm" -> {200}
      [] op = "cancel"  -> {}

\* The four parsers are one switch with different cases.
LEMMA ParseIsDeclared ==
    ASSUME TypeOK, NEW c \in Calls
    PROVE  Parse(c) = ParseDeclared(wire[c], Succeeding(form[c].op) \cup Declared(form[c].op))
<1>1. form[c].op \in {"request", "get", "confirm", "cancel"}
    BY ScenariosAssumption DEF TypeOK
<1>2. CASE form[c].op = "request"
    <2>1. {201} \cup {400, 401, 404, 409} = {201, 400, 401, 404, 409}
        OBVIOUS
    <2> QED
        BY <1>2, <2>1 DEF Parse, Succeeding, Declared, ParseRequestBookingClientResponse
<1>3. CASE form[c].op = "get"
    <2>1. {200} \cup {401, 404} = {200, 401, 404}
        OBVIOUS
    <2> QED
        BY <1>3, <2>1 DEF Parse, Succeeding, Declared, ParseGetReservationClientResponse
<1>4. CASE form[c].op = "confirm"
    <2>1. {200} \cup {400, 401, 404, 409, 410} = {200, 400, 401, 404, 409, 410}
        OBVIOUS
    <2> QED
        BY <1>4, <2>1 DEF Parse, Succeeding, Declared, ParseConfirmBookingClientResponse
<1>5. CASE form[c].op = "cancel"
    <2>1. {} \cup {400, 401, 404, 409} = {400, 401, 404, 409}
        OBVIOUS
    <2> QED
        BY <1>5, <2>1 DEF Parse, Succeeding, Declared, ParseCancelBookingClientResponse
<1> QED
    BY <1>1, <1>2, <1>3, <1>4, <1>5

\* The fields of refusals.
RefusedFields == {"JSON400", "JSON401", "JSON404", "JSON409", "JSON410"}

\* What the field that is set says of the answer that was parsed.
LEMMA ParseFacts ==
    ASSUME TypeOK, NEW c \in Calls, wire[c] # None
    PROVE  /\ Parse(c) \in Outcomes
           /\ Parse(c).body = wire[c].body /\ Parse(c).slug = wire[c].slug
           /\ Parse(c).field # "error"
           /\ Parse(c).field = "none" => ~wire[c].json
           /\ Parse(c).field = "JSON200" => wire[c].status = 200 /\ form[c].op \in {"get", "confirm"}
           /\ Parse(c).field = "JSON201" => wire[c].status = 201 /\ form[c].op = "request"
           /\ Parse(c).field = "JSON404" => wire[c].status = 404
           /\ Parse(c).field \in RefusedFields => wire[c].status \in {400, 401, 404, 409, 410}
           /\ wire[c].json /\ wire[c].status \in Declared(form[c].op) =>
                 Parse(c).field \in RefusedFields
           /\ wire[c].json /\ wire[c].status \in {500, 503} => Parse(c).field = "JSONDefault"
<1> DEFINE rsp == wire[c]
           op == form[c].op
           D == Succeeding(op) \cup Declared(op)
<1>1. op \in {"request", "get", "confirm", "cancel"} /\ rsp \in Responses
    BY ScenariosAssumption DEF TypeOK
<1>2. /\ Succeeding(op) \subseteq {200, 201}
      /\ Declared(op) \subseteq {400, 401, 404, 409, 410}
      /\ 201 \in D => op = "request"
      /\ 200 \in D => op \in {"get", "confirm"}
    BY <1>1 DEF Succeeding, Declared
<1>3. Parse(c) = ParseDeclared(rsp, D)
    BY ParseIsDeclared
<1>4. rsp.body \in Bodies /\ rsp.slug \in Slugs /\ rsp.json \in BOOLEAN
    BY <1>1 DEF Responses
<1> HIDE DEF rsp, op, D
<1>5. CASE ~rsp.json
    <2>1. Parse(c) = [field |-> "none", body |-> rsp.body, slug |-> rsp.slug]
        BY <1>3, <1>5 DEF ParseDeclared, Parsed
    <2>2. Parse(c) \in Outcomes
        BY <1>4, <2>1 DEF Outcomes, Fields
    <2> QED
        BY <1>5, <2>1, <2>2 DEF rsp, RefusedFields
<1>6. CASE rsp.json /\ rsp.status \notin D
    <2>1. Parse(c) = [field |-> "JSONDefault", body |-> rsp.body, slug |-> rsp.slug]
        BY <1>3, <1>6 DEF ParseDeclared, Parsed
    <2>2. Parse(c) \in Outcomes
        BY <1>4, <2>1 DEF Outcomes, Fields
    <2>3. rsp.status \notin Declared(op)
        BY <1>6 DEF D
    <2> QED
        BY <2>1, <2>2, <2>3 DEF rsp, op, RefusedFields
<1>7. CASE rsp.json /\ rsp.status \in D
    <2>1. Parse(c) = [field |-> JSONField(rsp.status), body |-> rsp.body, slug |-> rsp.slug]
        BY <1>3, <1>7 DEF ParseDeclared, Parsed
    <2>2. rsp.status \in {200, 201, 400, 401, 404, 409, 410}
        BY <1>2, <1>7 DEF D
    <2>3. JSONField(rsp.status) \in Fields \ {"error", "none", "JSONDefault"}
        BY <2>2 DEF JSONField, Fields
    <2>4. Parse(c) \in Outcomes
        BY <1>4, <2>1, <2>3 DEF Outcomes
    <2>5. /\ JSONField(rsp.status) = "JSON200" => rsp.status = 200
          /\ JSONField(rsp.status) = "JSON201" => rsp.status = 201
          /\ JSONField(rsp.status) = "JSON404" => rsp.status = 404
          /\ JSONField(rsp.status) \in RefusedFields <=> rsp.status \in {400, 401, 404, 409, 410}
        BY <2>2 DEF JSONField, RefusedFields
    <2>6. rsp.status = 201 => op = "request"
        BY <1>2, <1>7
    <2>7. rsp.status = 200 => op \in {"get", "confirm"}
        BY <1>2, <1>7
    <2>8. rsp.status \notin {500, 503}
        BY <2>2
    <2> QED
        BY <1>2, <1>7, <2>1, <2>3, <2>4, <2>5, <2>6, <2>7, <2>8 DEF rsp, op
<1> QED
    BY <1>4, <1>5, <1>6, <1>7

\* The outcome of a call that failed on the way is an outcome.
LEMMA FailedType == Failed \in Outcomes /\ Failed # None
<1>1. Failed \in Outcomes
    BY DEF Failed, Outcomes, Fields, Bodies, Slugs
<1> QED
    BY <1>1, NoneAssumption

\* The caller: sent once, told once.
LEMMA CallerStep ==
    ASSUME IInv, NEW c \in Calls, CallStep(c)
    PROVE  CallerOK(c)'
<1> USE DEF TypeOK, IInv, CallerInv, CallerOK
<1>1. CASE Send(c)
    <2> DEFINE r == ApplyEditors(Build(c), ClientEditors, form[c].editors)
    <2>1. /\ cpc[c] = "idle" /\ spc' = spc /\ form' = form
          /\ \/ /\ r # None /\ request' = [request EXCEPT ![c] = r]
                /\ cpc' = [cpc EXCEPT ![c] = "sent"] /\ told' = told
             \/ /\ cpc' = [cpc EXCEPT ![c] = "done"] /\ told' = [told EXCEPT ![c] = Failed]
                /\ request' = request
        BY <1>1 DEF Send
    <2>2. r # None => WellFormed(r, form[c].op)
        BY SentWellFormed
    <2> HIDE DEF r
    <2> QED
        BY <2>1, <2>2, FailedType
<1>2. CASE Deliver(c)
    BY <1>2, ParseFacts, NoneAssumption DEF Deliver
<1>3. CASE GiveUp(c)
    <2>1. /\ cpc[c] = "sent" /\ UNCHANGED <<spc, form, request>>
          /\ cpc' = [cpc EXCEPT ![c] = "done"] /\ told' = [told EXCEPT ![c] = Failed]
        BY <1>3 DEF GiveUp
    <2> QED
        BY <2>1, FailedType
<1>4. CASE Receive(c)
    BY <1>4 DEF Receive
<1>5. CASE GetReservation(c)
    BY <1>5 DEF GetReservation
<1>6. CASE RequestBooking(c)
    BY <1>6 DEF RequestBooking
<1>7. CASE UpdateBooking(c)
    BY <1>7 DEF UpdateBooking
<1>8. CASE Begin(c)
    BY <1>8 DEF Begin
<1>9. CASE LoadForBooking(c)
    BY <1>9 DEF LoadForBooking
<1>10. CASE LoadForUpdate(c)
    BY <1>10 DEF LoadForUpdate
<1>11. CASE UpsertVehicle(c)
    BY <1>11 DEF UpsertVehicle
<1>12. CASE CreateAppointment(c)
    BY <1>12 DEF CreateAppointment
<1>13. CASE CreateReservation(c)
    BY <1>13 DEF CreateReservation
<1>14. CASE UpdateAppointmentStatus(c)
    BY <1>14 DEF UpdateAppointmentStatus
<1>15. CASE Commit(c)
    BY <1>15 DEF Commit, Apply, AfterTx
<1>16. CASE Rollback(c)
    BY <1>16 DEF Rollback, AfterTx
<1>17. CASE Backstop(c)
    BY <1>17 DEF Backstop
<1>18. CASE Return(c)
    BY <1>18 DEF Return
<1>19. CASE Recover(c)
    BY <1>19 DEF Recover
<1>20. CASE StatementFails(c)
    <2>1. UNCHANGED clientVars /\ spc[c] # "away"
        BY <1>20 DEF StatementFails, AtRead, TxPc
    <2> QED
        BY <2>1
<1>21. CASE Panic(c)
    <2>1. UNCHANGED clientVars /\ spc[c] # "away"
        BY <1>21 DEF Panic, AtRead, TxPc
    <2> QED
        BY <2>1
<1> QED
    BY <1>1, <1>2, <1>3, <1>4, <1>5, <1>6, <1>7, <1>8, <1>9, <1>10, <1>11, <1>12, <1>13,
       <1>14, <1>15, <1>16, <1>17, <1>18, <1>19, <1>20, <1>21

-----------------------------------------------------------------------------
(* What only grows. *)

\* A step of a call leaves its scenario and what was sent, answered or told alone, and
\* takes no row away.
LEMMA Lasting ==
    ASSUME IInv, NEW c \in Calls, CallStep(c)
    PROVE  /\ form' = form
           /\ store[c] \subseteq store'[c]
           /\ request[c] # None => request'[c] = request[c]
           /\ told[c] # None => told'[c] = told[c]
           /\ answer[c] # None => answer'[c] = answer[c]
           /\ wire[c] # None => wire'[c] = wire[c]
           /\ did[c] => did'[c]
           /\ cpc[c] # "idle" => since'[c] = since[c]
<1> USE DEF TypeOK, IInv, CallerInv, CallerOK, HandlerInv, HandlerOK, AtWork, InTx, TxPc
<1>1. CASE Send(c)
    BY <1>1 DEF Send
<1>2. CASE Deliver(c)
    BY <1>2 DEF Deliver
<1>3. CASE GiveUp(c)
    BY <1>3 DEF GiveUp
<1>4. CASE Receive(c)
    BY <1>4 DEF Receive
<1>5. CASE GetReservation(c)
    BY <1>5 DEF GetReservation
<1>6. CASE RequestBooking(c)
    BY <1>6 DEF RequestBooking
<1>7. CASE UpdateBooking(c)
    BY <1>7 DEF UpdateBooking
<1>8. CASE Begin(c)
    BY <1>8 DEF Begin
<1>9. CASE LoadForBooking(c)
    BY <1>9 DEF LoadForBooking
<1>10. CASE LoadForUpdate(c)
    BY <1>10 DEF LoadForUpdate
<1>11. CASE UpsertVehicle(c)
    BY <1>11 DEF UpsertVehicle
<1>12. CASE CreateAppointment(c)
    BY <1>12 DEF CreateAppointment
<1>13. CASE CreateReservation(c)
    BY <1>13 DEF CreateReservation
<1>14. CASE UpdateAppointmentStatus(c)
    BY <1>14 DEF UpdateAppointmentStatus
<1>15. CASE Commit(c)
    BY <1>15, CommitCases DEF Apply
<1>16. CASE Rollback(c)
    BY <1>16, RollbackCases
<1>17. CASE Backstop(c)
    BY <1>17 DEF Backstop
<1>18. CASE Return(c)
    BY <1>18 DEF Return
<1>19. CASE Recover(c)
    BY <1>19 DEF Recover
<1>20. CASE StatementFails(c)
    BY <1>20 DEF StatementFails, AtRead
<1>21. CASE Panic(c)
    BY <1>21 DEF Panic
<1> QED
    BY <1>1, <1>2, <1>3, <1>4, <1>5, <1>6, <1>7, <1>8, <1>9, <1>10, <1>11, <1>12, <1>13,
       <1>14, <1>15, <1>16, <1>17, <1>18, <1>19, <1>20, <1>21

\* The same of every call, whoever takes the step.
LEMMA LastingForAll ==
    ASSUME IInv, NEW c \in Calls, CallStep(c), NEW d \in Calls
    PROVE  /\ form' = form
           /\ store[d] \subseteq store'[d]
           /\ request[d] # None => request'[d] = request[d]
           /\ told[d] # None => told'[d] = told[d]
BY Lasting, Frame DEF IInv

\* A reservation that is stored was requested, and stays what its key finds.
LEMMA KeyHoldersGrow ==
    ASSUME IInv, NEW c \in Calls, CallStep(c), NEW d \in Calls, request[d] # None
    PROVE  KeyHolders(d) \subseteq KeyHolders(d)'
<1> SUFFICES ASSUME NEW b \in KeyHolders(d) PROVE b \in KeyHolders(d)'
    OBVIOUS
<1>1. /\ b \in Bookings /\ "reservation" \in store[b]
      /\ HeaderValue(request[b].key) = HeaderValue(request[d].key)
    BY DEF KeyHolders, GetReservationByIdempotencyKey
<1>2. b \in Calls /\ request[b] # None
    BY <1>1 DEF Bookings, IInv, CallerInv, CallerOK, HandlerInv, HandlerOK
<1>3. /\ form' = form /\ "reservation" \in store'[b]
      /\ request'[b] = request[b] /\ request'[d] = request[d]
    BY <1>1, <1>2, LastingForAll
<1> QED
    BY <1>1, <1>2, <1>3 DEF KeyHolders, GetReservationByIdempotencyKey, Bookings

\* The route of a request that was received is the operation of its call.
LEMMA RouteIsOperation ==
    ASSUME IInv, NEW c \in Calls, request[c] # None
    PROVE  Route(request[c]) = form[c].op /\ form[c].op \in {"request", "get", "confirm", "cancel"}
BY ScenariosAssumption DEF IInv, TypeOK, CallerInv, CallerOK, WellFormed

\* What a confirmation or a cancellation finds: a booking of the caller in the status
\* its rule asks for, or one of the refusals its operation declares.
LEMMA UpdateErrorFacts ==
    ASSUME IInv, NEW c \in Calls, Route(request[c]) \in {"confirm", "cancel"},
           NEW e \in UpdateErrors(c)
    PROVE  \/ /\ e = NoError
              /\ Target(c) \in Bookings /\ "appointment" \in store[Target(c)]
              /\ UserOf(Target(c)) = UserOf(c)
              /\ status[Target(c)] = IF Route(request[c]) = "confirm" THEN "pending" ELSE "confirmed"
           \/ \E s \in Declared(Route(request[c])) :
                 /\ Refused(e, s)
                 /\ s = 404 => \/ ~GetReservationByUUID(Target(c))
                               \/ ~GetAppointmentByUUIDAndUserID(Target(c), UserOf(c))
<1> DEFINE op == Route(request[c])
<1>1. op \in {"confirm", "cancel"}
    OBVIOUS
<1>2. /\ Declared(op) = IF op = "confirm" THEN {400, 401, 404, 409, 410} ELSE {400, 401, 404, 409}
    BY <1>1 DEF Declared
<1> HIDE DEF op
<1>3. CASE op = "confirm" /\ ~GetReservationByUUID(Target(c))
    <2>1. e = NewNotFoundError("reservation-not-found")
        BY <1>3 DEF UpdateErrors, op
    <2>2. Refused(e, 404)
        BY <2>1, RefusedFacts, RefusalSlugs
    <2> QED
        BY <1>2, <1>3, <2>2 DEF op
<1>4. CASE ~GetAppointmentByUUIDAndUserID(Target(c), UserOf(c)) /\
           ~(op = "confirm" /\ ~GetReservationByUUID(Target(c)))
    <2>1. e = NewNotFoundError("appointment-not-found")
        BY <1>4 DEF UpdateErrors, op
    <2>2. Refused(e, 404)
        BY <2>1, RefusedFacts, RefusalSlugs
    <2> QED
        BY <1>1, <1>2, <1>4, <2>2 DEF op
<1>5. CASE GetAppointmentByUUIDAndUserID(Target(c), UserOf(c)) /\
           ~(op = "confirm" /\ ~GetReservationByUUID(Target(c)))
    <2>1. e \in DomainErrors(op, status[Target(c)])
        BY <1>5 DEF UpdateErrors, op
    <2>2. /\ Target(c) \in Bookings /\ "appointment" \in store[Target(c)]
          /\ UserOf(Target(c)) = UserOf(c)
        BY <1>5 DEF GetAppointmentByUUIDAndUserID
    <2>3. status[Target(c)] \in Statuses
        BY <2>2 DEF IInv, TypeOK, Bookings
    <2>4. \/ e = NewConflictError("appointment-not-pending")
          \/ op = "confirm" /\ e = NewExpiredError("reservation-expired")
          \/ e = NewConflictError("appointment-already-cancelled")
          \/ e = NewConflictError("appointment-not-confirmed")
          \/ e = NewInvalidInputError("appointment-in-the-past")
          \/ /\ e = NoError
             /\ status[Target(c)] = IF op = "confirm" THEN "pending" ELSE "confirmed"
        BY <1>1, <2>1, <2>3 DEF DomainErrors, Statuses
    <2>5. CASE e = NewConflictError("appointment-not-pending")
        <3>1. Refused(e, 409)
            BY <2>5, RefusedFacts, RefusalSlugs
        <3> QED
            BY <1>1, <1>2, <2>5, <3>1 DEF op
    <2>6. CASE op = "confirm" /\ e = NewExpiredError("reservation-expired")
        <3>1. Refused(e, 410)
            BY <2>6, RefusedFacts, RefusalSlugs
        <3> QED
            BY <1>1, <1>2, <2>6, <3>1 DEF op
    <2>7. CASE e = NewConflictError("appointment-already-cancelled")
        <3>1. Refused(e, 409)
            BY <2>7, RefusedFacts, RefusalSlugs
        <3> QED
            BY <1>1, <1>2, <2>7, <3>1 DEF op
    <2>8. CASE e = NewConflictError("appointment-not-confirmed")
        <3>1. Refused(e, 409)
            BY <2>8, RefusedFacts, RefusalSlugs
        <3> QED
            BY <1>1, <1>2, <2>8, <3>1 DEF op
    <2>9. CASE e = NewInvalidInputError("appointment-in-the-past")
        <3>1. Refused(e, 400)
            BY <2>9, RefusedFacts, RefusalSlugs
        <3> QED
            BY <1>1, <1>2, <2>9, <3>1 DEF op
    <2>10. CASE e = NoError /\
                status[Target(c)] = IF op = "confirm" THEN "pending" ELSE "confirmed"
        BY <2>2, <2>10 DEF op
    <2> QED
        BY <2>4, <2>5, <2>6, <2>7, <2>8, <2>9, <2>10
<1> QED
    BY <1>3, <1>4, <1>5

-----------------------------------------------------------------------------
(* What the steps that end the function of a transaction do. *)

\* The insert of the reservation takes the key or finds it taken.
LEMMA CreateReservationEffect ==
    ASSUME TypeOK, NEW c \in Calls, CreateReservation(c)
    PROVE  /\ spc[c] = "reservation" /\ spc'[c] = "finish"
           /\ UNCHANGED <<store, panicked>>
           /\ \/ /\ draft'[c] = draft[c] \cup {"reservation"} /\ found'[c] = c
                 /\ err'[c] = NoError
              \/ draft'[c] = draft[c] /\ err'[c] = UniqueViolation /\ UniqueViolation # NoError
BY PlainErrorFacts DEF CreateReservation, TypeOK

\* The update writes the status or finds it changed.
LEMMA UpdateAppointmentStatusEffect ==
    ASSUME TypeOK, NEW c \in Calls, UpdateAppointmentStatus(c)
    PROVE  /\ spc[c] = "update" /\ spc'[c] = "finish"
           /\ UNCHANGED <<store, panicked>>
           /\ \/ draft'[c] = draft[c] \cup {"status"} /\ err'[c] = NoError
              \/ draft'[c] = draft[c] /\ err'[c] = Serialization /\ Serialization # NoError
BY PlainErrorFacts DEF UpdateAppointmentStatus, TypeOK

\* A failure ends the function, or the request.
LEMMA StatementFailsEffect ==
    ASSUME TypeOK, NEW c \in Calls, StatementFails(c)
    PROVE  /\ UNCHANGED <<clientVars, httpVars, txVars, panicked, tableVars>>
           /\ \/ spc[c] \in TxPc /\ spc' = [spc EXCEPT ![c] = "finish"]
              \/ spc[c] \in {"begin", "backstop", "service"} /\ spc' = [spc EXCEPT ![c] = "return"]
           /\ \E e \in CommitErrors \ {NoError} : err' = [err EXCEPT ![c] = e]
<1>1. /\ PlainError(TRUE) # NoError /\ PlainError(FALSE) # NoError /\ Serialization # NoError
    BY PlainErrorFacts
<1>2. UNCHANGED <<clientVars, httpVars, txVars, panicked, tableVars>>
    BY DEF StatementFails
<1>3. CASE spc[c] \in TxPc /\ \E e \in {PlainError(TRUE), PlainError(FALSE), Serialization} :
                                    FnReturns(c, e)
    BY <1>1, <1>2, <1>3 DEF CommitErrors
<1>4. CASE /\ spc[c] \in {"begin", "backstop"} \/ AtRead(c)
           /\ \E late \in BOOLEAN : ReturnError(c, PlainError(late))
    <2>1. ReturnError(c, PlainError(TRUE)) \/ ReturnError(c, PlainError(FALSE))
        BY <1>4
    <2> QED
        BY <1>1, <1>2, <1>4, <2>1 DEF CommitErrors, AtRead
<1> QED
    BY <1>3, <1>4 DEF StatementFails

-----------------------------------------------------------------------------
(* Routes and drafts. *)

\* Who is where in the transaction.
LEMMA RouteStep ==
    ASSUME IInv, NEW c \in Calls, CallStep(c)
    PROVE  RouteOK(c)'
<1>0. /\ form' = form
      /\ spc[c] # "away" => Route(request[c]) = form[c].op
      /\ form[c].op \in {"request", "get", "confirm", "cancel"}
    BY Lasting, ScenariosAssumption
       DEF IInv, TypeOK, CallerInv, CallerOK, WellFormed
<1> USE <1>0 DEF TypeOK, IInv, RouteInv, RouteOK, AtWork, InTx, TxPc
<1>1. CASE Send(c)
    BY <1>1 DEF Send
<1>2. CASE Deliver(c)
    BY <1>2 DEF Deliver
<1>3. CASE GiveUp(c)
    BY <1>3 DEF GiveUp
<1>4. CASE Receive(c)
    BY <1>4 DEF Receive
<1>5. CASE GetReservation(c)
    BY <1>5 DEF GetReservation
<1>6. CASE RequestBooking(c)
    BY <1>6 DEF RequestBooking
<1>7. CASE UpdateBooking(c)
    BY <1>7 DEF UpdateBooking
<1>8. CASE Begin(c)
    BY <1>8 DEF Begin
<1>9. CASE LoadForBooking(c)
    BY <1>9 DEF LoadForBooking
<1>10. CASE LoadForUpdate(c)
    BY <1>10 DEF LoadForUpdate
<1>11. CASE UpsertVehicle(c)
    BY <1>11 DEF UpsertVehicle
<1>12. CASE CreateAppointment(c)
    BY <1>12 DEF CreateAppointment
<1>13. CASE CreateReservation(c)
    BY <1>13 DEF CreateReservation
<1>14. CASE UpdateAppointmentStatus(c)
    BY <1>14 DEF UpdateAppointmentStatus
<1>15. CASE Commit(c)
    <2>1. store'[c] # {} => form[c].op = "request"
        BY <1>15, CommitCases DEF Apply, DraftInv, DraftOK, Rows
    <2> QED
        BY <1>15, <2>1, CommitCases
<1>16. CASE Rollback(c)
    <2>1. /\ \/ spc' = [spc EXCEPT ![c] = "begin"] \/ spc' = [spc EXCEPT ![c] = "return"]
             \/ spc' = [spc EXCEPT ![c] = "backstop"] /\ IsUniqueViolation(err[c])
          /\ spc[c] = "finish" /\ UNCHANGED store
        BY <1>16, RollbackCases DEF IsUniqueViolation
    <2> QED
        BY <2>1 DEF ErrorInv, ErrorOK
<1>17. CASE Backstop(c)
    BY <1>17 DEF Backstop
<1>18. CASE Return(c)
    BY <1>18 DEF Return
<1>19. CASE Recover(c)
    BY <1>19 DEF Recover
<1>20. CASE StatementFails(c)
    BY <1>20 DEF StatementFails, AtRead
<1>21. CASE Panic(c)
    BY <1>21 DEF Panic
<1> QED
    BY <1>1, <1>2, <1>3, <1>4, <1>5, <1>6, <1>7, <1>8, <1>9, <1>10, <1>11, <1>12, <1>13,
       <1>14, <1>15, <1>16, <1>17, <1>18, <1>19, <1>20, <1>21

\* The five drafts are different.
LEMMA DraftShapes ==
    /\ {} # Rows /\ {"vehicle"} # Rows /\ {"vehicle", "appointment"} # Rows /\ {"status"} # Rows
    /\ {"vehicle"} # {"status"} /\ {"vehicle", "appointment"} # {"status"}
    /\ {} # {"status"} /\ {} # {"vehicle"} /\ {} # {"vehicle", "appointment"}
    /\ {"vehicle", "appointment"} \cup {"reservation"} = Rows
    /\ {"vehicle"} \cup {"appointment"} = {"vehicle", "appointment"}
<1>1. "reservation" \in Rows /\ "reservation" \notin {"vehicle", "appointment"}
    BY DEF Rows
<1>2. "status" \notin Rows /\ "reservation" \in Rows
    BY DEF Rows
<1>3. {"vehicle", "appointment"} \cup {"reservation"} = Rows
    BY DEF Rows
<1> QED
    BY <1>1, <1>2, <1>3

\* What the transaction has written when its function is where it is; and that of the
\* three rows of a booking there are some only after a panic.
LEMMA DraftStep ==
    ASSUME IInv, NEW c \in Calls, CallStep(c)
    PROVE  DraftOK(c)'
<1>0. /\ form' = form
      /\ spc[c] # "away" => Route(request[c]) = form[c].op
      /\ form[c].op \in {"request", "get", "confirm", "cancel"}
    BY Lasting, ScenariosAssumption
       DEF IInv, TypeOK, CallerInv, CallerOK, WellFormed
<1>a. spc[c] # "away" => KeyHolders(c) \subseteq KeyHolders(c)'
    BY KeyHoldersGrow DEF IInv, CallerInv, CallerOK
<1> USE <1>0, <1>a, DraftShapes DEF TypeOK, IInv, DraftInv, DraftOK, HandlerInv, HandlerOK, RouteInv,
       RouteOK, AtWork, InTx, TxPc
<1>1. CASE Send(c)
    BY <1>1 DEF Send
<1>2. CASE Deliver(c)
    BY <1>2 DEF Deliver
<1>3. CASE GiveUp(c)
    BY <1>3 DEF GiveUp
<1>4. CASE Receive(c)
    <2>1. /\ UNCHANGED <<draft, store, panicked, found>> /\ spc[c] = "away"
          /\ spc'[c] \in {"return", "service"}
        BY <1>4 DEF Receive
    <2>2. draft[c] = {} /\ store[c] = {}
        BY <2>1
    <2> QED
        BY <2>1, <2>2
<1>5. CASE GetReservation(c)
    BY <1>5 DEF GetReservation
<1>6. CASE RequestBooking(c)
    BY <1>6 DEF RequestBooking
<1>7. CASE UpdateBooking(c)
    BY <1>7 DEF UpdateBooking
<1>8. CASE Begin(c)
    BY <1>8 DEF Begin
<1>9. CASE LoadForBooking(c)
    <2>1. /\ spc[c] = "load" /\ UNCHANGED <<draft, store, panicked>>
          /\ \/ found'[c] \in KeyHolders(c) /\ spc'[c] = "finish" /\ form[c].op = "request"
             \/ spc'[c] = "finish" /\ err'[c] # NoError
             \/ spc'[c] = "vehicle" /\ err' = err
        BY <1>9, RefusedFacts, RefusalSlugs DEF LoadForBooking, Refused
    <2> QED
        BY <2>1
<1>10. CASE LoadForUpdate(c)
    <2>1. /\ spc[c] = "load" /\ UNCHANGED <<draft, store, panicked, found>>
          /\ \/ spc'[c] = "finish" /\ err'[c] # NoError
             \/ spc'[c] = "update" /\ err' = err
        BY <1>10 DEF LoadForUpdate
    <2> QED
        BY <2>1
<1>11. CASE UpsertVehicle(c)
    BY <1>11 DEF UpsertVehicle
<1>12. CASE CreateAppointment(c)
    BY <1>12 DEF CreateAppointment
<1>13. CASE CreateReservation(c)
    <2>0. spc[c] = "reservation" /\ draft[c] = {"vehicle", "appointment"}
        BY <1>13, CreateReservationEffect
    <2>1. /\ spc[c] = "reservation" /\ spc'[c] = "finish" /\ UNCHANGED <<store, panicked>>
          /\ \/ draft'[c] = Rows /\ found'[c] = c /\ err'[c] = NoError
             \/ draft'[c] = {"vehicle", "appointment"} /\ err'[c] # NoError
        <3> HIDE DEF IInv, DraftInv, DraftOK, HandlerInv, HandlerOK, RouteInv, RouteOK
        <3> QED
            BY <1>13, <2>0, CreateReservationEffect, DraftShapes DEF IInv
    <2>2. form[c].op = "request" /\ store'[c] = {} /\ ~panicked'[c]
        BY <2>1
    <2>3. CASE draft'[c] = Rows /\ found'[c] = c /\ err'[c] = NoError
        BY <2>1, <2>2, <2>3, DraftShapes
    <2>4. CASE draft'[c] = {"vehicle", "appointment"} /\ err'[c] # NoError
        BY <2>1, <2>2, <2>4, DraftShapes
    <2> QED
        BY <2>1, <2>3, <2>4
<1>14. CASE UpdateAppointmentStatus(c)
    <2>1. /\ spc[c] = "update" /\ spc'[c] = "finish" /\ UNCHANGED <<store, panicked>>
          /\ \/ draft'[c] = {"status"} /\ err'[c] = NoError
             \/ draft'[c] = {} /\ err'[c] # NoError
        BY <1>14, UpdateAppointmentStatusEffect
    <2>2. form[c].op \in {"confirm", "cancel"} /\ store[c] = {} /\ ~panicked[c]
        BY <2>1
    <2> QED
        BY <2>1, <2>2, DraftShapes
<1>15. CASE Commit(c)
    <2>1. /\ draft'[c] = {} /\ spc[c] = "finish" /\ err[c] = NoError /\ panicked' = panicked
          /\ spc'[c] \in {"return", "begin"}
          /\ store'[c] = store[c] \cup (draft[c] \cap Rows) \/ store'[c] = store[c]
        BY <1>15, CommitCases DEF Apply
    <2>2. store[c] = {}
        BY <2>1
    <2>3. ~panicked[c] => draft[c] \cap Rows \in {{}, Rows}
        BY <2>1
    <2>4. "reservation" \in draft[c] => draft[c] = Rows
        BY <2>1
    <2>5. "reservation" \in draft[c] => ~panicked[c]
        BY <2>4
    <2>6. store'[c] \notin {{}, Rows} => panicked'[c] /\ "reservation" \notin store'[c]
        <3> HIDE DEF IInv, DraftInv, DraftOK, HandlerInv, HandlerOK, RouteInv, RouteOK, TypeOK
        <3> QED
            BY <2>1, <2>2, <2>3, <2>5
    <2> QED
        BY <2>1, <2>6, DraftShapes
<1>16. CASE Rollback(c)
    <2>1. /\ draft'[c] = {} /\ store'[c] = store[c] /\ panicked'[c] = panicked[c]
          /\ spc'[c] \in {"begin", "backstop", "return"}
        BY <1>16, RollbackCases
    <2> QED
        BY <2>1
<1>17. CASE Backstop(c)
    BY <1>17 DEF Backstop
<1>18. CASE Return(c)
    BY <1>18 DEF Return
<1>19. CASE Recover(c)
    BY <1>19 DEF Recover
<1>20. CASE StatementFails(c)
    <2>1. /\ UNCHANGED <<draft, store, panicked>>
          /\ \/ spc[c] \in TxPc /\ spc'[c] = "finish" /\ err'[c] # NoError
             \/ spc[c] \in {"begin", "backstop", "service"} /\ spc'[c] = "return"
        BY <1>20, StatementFailsEffect
    <2>2. draft[c] \notin {Rows, {"status"}} /\ ~panicked[c] /\ store[c] = {}
        BY <2>1, DraftShapes
    <2> QED
        BY <2>1, <2>2
<1>21. CASE Panic(c)
    <2>1. /\ UNCHANGED <<draft, store, err>> /\ panicked'[c]
          /\ \/ spc[c] \in TxPc /\ spc'[c] = "finish"
             \/ spc[c] = "service" /\ spc'[c] = "return"
        BY <1>21 DEF Panic
    <2>2. draft[c] \notin {Rows, {"status"}} /\ store[c] = {}
        BY <2>1, DraftShapes
    <2> QED
        BY <2>1, <2>2
<1> QED
    BY <1>1, <1>2, <1>3, <1>4, <1>5, <1>6, <1>7, <1>8, <1>9, <1>10, <1>11, <1>12, <1>13,
       <1>14, <1>15, <1>16, <1>17, <1>18, <1>19, <1>20, <1>21

-----------------------------------------------------------------------------
(* Types. *)

\* The numbers: an attempt is begun only when one is left, a fault only when one may
\* still happen.
LEMMA NumbersStep ==
    ASSUME IInv, NEW c \in Calls, CallStep(c)
    PROVE  tries' \in [Calls -> 0..MaxTries] /\ faults' \in 0..MaxFaults
<1>1. /\ tries \in [Calls -> 0..MaxTries] /\ faults \in 0..MaxFaults
      /\ spc[c] = "begin" => tries[c] < MaxTries
    BY DEF IInv, TypeOK, TriesInv
<1>2. \/ tries' = tries
      \/ spc[c] = "begin" /\ tries' = [tries EXCEPT ![c] = @ + 1]
    <2>1. CASE Send(c)
        BY <2>1 DEF Send
    <2>2. CASE Deliver(c)
        BY <2>2 DEF Deliver
    <2>3. CASE GiveUp(c)
        BY <2>3 DEF GiveUp
    <2>4. CASE Receive(c)
        BY <2>4 DEF Receive
    <2>5. CASE GetReservation(c)
        BY <2>5 DEF GetReservation
    <2>6. CASE RequestBooking(c)
        BY <2>6 DEF RequestBooking
    <2>7. CASE UpdateBooking(c)
        BY <2>7 DEF UpdateBooking
    <2>8. CASE Begin(c)
        BY <2>8 DEF Begin
    <2>9. CASE LoadForBooking(c)
        BY <2>9 DEF LoadForBooking
    <2>10. CASE LoadForUpdate(c)
        BY <2>10 DEF LoadForUpdate
    <2>11. CASE UpsertVehicle(c)
        BY <2>11 DEF UpsertVehicle
    <2>12. CASE CreateAppointment(c)
        BY <2>12 DEF CreateAppointment
    <2>13. CASE CreateReservation(c)
        BY <2>13 DEF CreateReservation
    <2>14. CASE UpdateAppointmentStatus(c)
        BY <2>14 DEF UpdateAppointmentStatus
    <2>15. CASE Commit(c)
        BY <2>15, CommitCases
    <2>16. CASE Rollback(c)
        BY <2>16, RollbackCases
    <2>17. CASE Backstop(c)
        BY <2>17 DEF Backstop
    <2>18. CASE Return(c)
        BY <2>18 DEF Return
    <2>19. CASE Recover(c)
        BY <2>19 DEF Recover
    <2>20. CASE StatementFails(c)
        BY <2>20 DEF StatementFails, AtRead
    <2>21. CASE Panic(c)
        BY <2>21 DEF Panic
    <2> QED
        BY <2>1, <2>2, <2>3, <2>4, <2>5, <2>6, <2>7, <2>8, <2>9, <2>10, <2>11, <2>12, <2>13,
           <2>14, <2>15, <2>16, <2>17, <2>18, <2>19, <2>20, <2>21
<1>3. faults' = faults \/ Fault
    <2>1. CASE Send(c)
        BY <2>1 DEF Send
    <2>2. CASE Deliver(c)
        BY <2>2 DEF Deliver
    <2>3. CASE GiveUp(c)
        BY <2>3 DEF GiveUp
    <2>4. CASE Receive(c)
        BY <2>4 DEF Receive
    <2>5. CASE GetReservation(c)
        BY <2>5 DEF GetReservation
    <2>6. CASE RequestBooking(c)
        BY <2>6 DEF RequestBooking
    <2>7. CASE UpdateBooking(c)
        BY <2>7 DEF UpdateBooking
    <2>8. CASE Begin(c)
        BY <2>8 DEF Begin
    <2>9. CASE LoadForBooking(c)
        BY <2>9 DEF LoadForBooking
    <2>10. CASE LoadForUpdate(c)
        BY <2>10 DEF LoadForUpdate
    <2>11. CASE UpsertVehicle(c)
        BY <2>11 DEF UpsertVehicle
    <2>12. CASE CreateAppointment(c)
        BY <2>12 DEF CreateAppointment
    <2>13. CASE CreateReservation(c)
        BY <2>13 DEF CreateReservation
    <2>14. CASE UpdateAppointmentStatus(c)
        BY <2>14 DEF UpdateAppointmentStatus
    <2>15. CASE Commit(c)
        BY <2>15 DEF Commit
    <2>16. CASE Rollback(c)
        BY <2>16 DEF Rollback, AfterTx
    <2>17. CASE Backstop(c)
        BY <2>17 DEF Backstop
    <2>18. CASE Return(c)
        BY <2>18 DEF Return
    <2>19. CASE Recover(c)
        BY <2>19 DEF Recover
    <2>20. CASE StatementFails(c)
        BY <2>20 DEF StatementFails, AtRead
    <2>21. CASE Panic(c)
        BY <2>21 DEF Panic
    <2> QED
        BY <2>1, <2>2, <2>3, <2>4, <2>5, <2>6, <2>7, <2>8, <2>9, <2>10, <2>11, <2>12, <2>13,
           <2>14, <2>15, <2>16, <2>17, <2>18, <2>19, <2>20, <2>21
<1>4. tries' \in [Calls -> 0..MaxTries]
    BY <1>1, <1>2, BoundsAssumption
<1>5. faults' \in 0..MaxFaults
    BY <1>1, <1>3, BoundsAssumption DEF Fault
<1> QED
    BY <1>4, <1>5

\* The positions, what the transactions hold and the tables.
LEMMA PlacesStep ==
    ASSUME IInv, NEW c \in Calls, CallStep(c)
    PROVE  /\ form' \in Scenarios
           /\ cpc' \in [Calls -> {"idle", "sent", "done"}]
           /\ spc' \in [Calls -> ServerPc]
           /\ found' \in [Calls -> Calls \cup {None}]
           /\ draft' \in [Calls -> SUBSET (Rows \cup {"status"})]
           /\ store' \in [Calls -> SUBSET Rows]
           /\ seen' \in [Calls -> Statuses \cup {"none"}]
           /\ DOMAIN request' = Calls
           /\ since' \in [Calls -> SUBSET Calls]
<1> USE DEF IInv, TypeOK, ServerPc, TxPc, Rows
<1>1. CASE Send(c)
    BY <1>1 DEF Send
<1>2. CASE Deliver(c)
    BY <1>2 DEF Deliver
<1>3. CASE GiveUp(c)
    BY <1>3 DEF GiveUp
<1>4. CASE Receive(c)
    BY <1>4 DEF Receive
<1>5. CASE GetReservation(c)
    BY <1>5 DEF GetReservation
<1>6. CASE RequestBooking(c)
    BY <1>6 DEF RequestBooking
<1>7. CASE UpdateBooking(c)
    BY <1>7 DEF UpdateBooking
<1>8. CASE Begin(c)
    BY <1>8 DEF Begin
<1>9. CASE LoadForBooking(c)
    BY <1>9 DEF LoadForBooking, KeyHolders, GetReservationByIdempotencyKey, Bookings
<1>10. CASE LoadForUpdate(c)
    <2>1. /\ UNCHANGED <<form, cpc, found, draft, store, request, since>>
          /\ spc' = [spc EXCEPT ![c] = "finish"] \/ spc' = [spc EXCEPT ![c] = "update"]
          /\ \/ seen' = seen
             \/ NoError \in UpdateErrors(c) /\ Route(request[c]) \in {"confirm", "cancel"}
                /\ seen' = [seen EXCEPT ![c] = status[Target(c)]]
        BY <1>10 DEF LoadForUpdate
    <2>2. NoError \in UpdateErrors(c) /\ Route(request[c]) \in {"confirm", "cancel"} =>
             Target(c) \in Calls
        BY UpdateErrorFacts DEF Refused, Bookings
    <2>3. seen' \in [Calls -> Statuses \cup {"none"}]
        BY <2>1, <2>2
    <2> QED
        BY <2>1, <2>3
<1>11. CASE UpsertVehicle(c)
    BY <1>11 DEF UpsertVehicle
<1>12. CASE CreateAppointment(c)
    BY <1>12 DEF CreateAppointment
<1>13. CASE CreateReservation(c)
    BY <1>13 DEF CreateReservation
<1>14. CASE UpdateAppointmentStatus(c)
    BY <1>14 DEF UpdateAppointmentStatus
<1>15. CASE Commit(c)
    <2>1. /\ spc' = [spc EXCEPT ![c] = "return"] \/ spc' = [spc EXCEPT ![c] = "begin"]
          /\ draft' = [draft EXCEPT ![c] = {}] /\ seen' = [seen EXCEPT ![c] = "none"]
          /\ UNCHANGED <<form, cpc, found, request, since>>
          /\ \/ store' = [store EXCEPT ![c] = @ \cup (draft[c] \cap Rows)]
             \/ store' = store
        BY <1>15, CommitCases DEF Apply
    <2>2. store' \in [Calls -> SUBSET Rows]
        BY <2>1
    <2>3. draft' \in [Calls -> SUBSET (Rows \cup {"status"})]
        BY <2>1
    <2>4. seen' \in [Calls -> Statuses \cup {"none"}]
        BY <2>1
    <2>5. spc' \in [Calls -> ServerPc]
        BY <2>1
    <2> QED
        BY <2>1, <2>2, <2>3, <2>4, <2>5
<1>16. CASE Rollback(c)
    BY <1>16, RollbackCases
<1>17. CASE Backstop(c)
    BY <1>17 DEF Backstop
<1>18. CASE Return(c)
    BY <1>18 DEF Return
<1>19. CASE Recover(c)
    BY <1>19 DEF Recover
<1>20. CASE StatementFails(c)
    BY <1>20, StatementFailsEffect
<1>21. CASE Panic(c)
    BY <1>21 DEF Panic
<1> QED
    BY <1>1, <1>2, <1>3, <1>4, <1>5, <1>6, <1>7, <1>8, <1>9, <1>10, <1>11, <1>12, <1>13,
       <1>14, <1>15, <1>16, <1>17, <1>18, <1>19, <1>20, <1>21

\* The Booleans.
LEMMA BooleansStep ==
    ASSUME IInv, NEW c \in Calls, CallStep(c)
    PROVE  panicked' \in [Calls -> BOOLEAN] /\ did' \in [Calls -> BOOLEAN]
<1> USE DEF IInv, TypeOK
<1>1. CASE Send(c)
    BY <1>1 DEF Send
<1>2. CASE Deliver(c)
    BY <1>2 DEF Deliver
<1>3. CASE GiveUp(c)
    BY <1>3 DEF GiveUp
<1>4. CASE Receive(c)
    BY <1>4 DEF Receive
<1>5. CASE GetReservation(c)
    BY <1>5 DEF GetReservation
<1>6. CASE RequestBooking(c)
    BY <1>6 DEF RequestBooking
<1>7. CASE UpdateBooking(c)
    BY <1>7 DEF UpdateBooking
<1>8. CASE Begin(c)
    BY <1>8 DEF Begin
<1>9. CASE LoadForBooking(c)
    BY <1>9 DEF LoadForBooking
<1>10. CASE LoadForUpdate(c)
    BY <1>10 DEF LoadForUpdate
<1>11. CASE UpsertVehicle(c)
    BY <1>11 DEF UpsertVehicle
<1>12. CASE CreateAppointment(c)
    BY <1>12 DEF CreateAppointment
<1>13. CASE CreateReservation(c)
    BY <1>13 DEF CreateReservation
<1>14. CASE UpdateAppointmentStatus(c)
    BY <1>14 DEF UpdateAppointmentStatus
<1>15. CASE Commit(c)
    <2>1. /\ panicked' = panicked
          /\ did' = did \/ did' = [did EXCEPT ![c] = @ \/ draft[c] # {}]
        BY <1>15, CommitCases DEF Apply
    <2> QED
        BY <2>1, Zenon
<1>16. CASE Rollback(c)
    BY <1>16, RollbackCases
<1>17. CASE Backstop(c)
    BY <1>17 DEF Backstop
<1>18. CASE Return(c)
    BY <1>18 DEF Return
<1>19. CASE Recover(c)
    BY <1>19 DEF Recover
<1>20. CASE StatementFails(c)
    BY <1>20 DEF StatementFails, AtRead
<1>21. CASE Panic(c)
    BY <1>21 DEF Panic
<1> QED
    BY <1>1, <1>2, <1>3, <1>4, <1>5, <1>6, <1>7, <1>8, <1>9, <1>10, <1>11, <1>12, <1>13,
       <1>14, <1>15, <1>16, <1>17, <1>18, <1>19, <1>20, <1>21

-----------------------------------------------------------------------------
(* Errors. *)

\* What no query finds for a confirmation, a cancellation or a read that is refused as
\* not found.
NothingFound(c) ==
    ~GetReservationByUUID(Target(c)) \/ ~GetAppointmentByUUIDAndUserID(Target(c), UserOf(c))

\* Where an error of a handler comes from: it stays; it is a failure or none; it is the
\* unique index; it comes back from the rolled back transaction; it is a refusal that
\* the operation declares, or one of the wrappers.
LEMMA ErrorCases ==
    ASSUME IInv, NEW c \in Calls, CallStep(c)
    PROVE  \/ /\ err' = err
              /\ spc'[c] = "backstop" => spc[c] = "backstop"
              /\ did' = did \/ err[c] = NoError
           \/ \E e \in CommitErrors : err' = [err EXCEPT ![c] = e] /\ spc'[c] # "backstop"
           \/ /\ err' = [err EXCEPT ![c] = UniqueViolation]
              /\ form[c].op = "request" /\ spc'[c] = "finish" /\ did' = did /\ ~did[c]
           \/ \E e \in Errors :
              /\ e # NoError /\ err[c] # NoError /\ err' = [err EXCEPT ![c] = e]
              /\ e.kind = err[c].kind /\ e.status = err[c].status /\ e.slug = err[c].slug
              /\ did' = did
              /\ spc'[c] = "backstop" => IsUniqueViolation(e)
           \/ \E s \in Declared(form[c].op), e \in Errors :
              /\ Refused(e, s) /\ err' = [err EXCEPT ![c] = e]
              /\ spc'[c] # "backstop" /\ did' = did /\ ~did[c]
              /\ s = 404 /\ form[c].op # "request" => NothingFound(c)
           \/ \E e \in {HTTPError(400), HTTPError(415)} :
              /\ err' = [err EXCEPT ![c] = e] /\ spc'[c] # "backstop" /\ did' = did /\ ~did[c]
<1>0. request[c] # None =>
         Route(request[c]) = form[c].op /\ form[c].op \in {"request", "get", "confirm", "cancel"}
    BY RouteIsOperation
<1>a. spc[c] # "away" => request[c] # None
    BY DEF IInv, CallerInv, CallerOK
<1>b. /\ spc \in [Calls -> ServerPc] /\ err \in [Calls -> Errors]
      /\ spc[c] \in TxPc \cup {"away", "service", "begin"} => err[c] = NoError
      /\ spc[c] \in TxPc \cup {"away", "service", "begin", "finish", "backstop"} => ~did[c]
    BY DEF IInv, TypeOK, HandlerInv, HandlerOK, AtWork, InTx
<1>c. NoError \in CommitErrors
    BY DEF CommitErrors
<1> USE <1>b
<1>1. CASE Send(c)
    BY <1>1 DEF Send
<1>2. CASE Deliver(c)
    BY <1>2 DEF Deliver
<1>3. CASE GiveUp(c)
    BY <1>3 DEF GiveUp
<1>4. CASE Receive(c)
    <2>1. /\ request[c] # None /\ spc[c] = "away" /\ did' = did
          /\ \/ err' = [err EXCEPT ![c] = Refusal(request[c])] /\ spc'[c] = "return"
             \/ err' = err /\ spc'[c] = "service"
        BY <1>4 DEF Receive
    <2>2. \/ Refusal(request[c]) = NoError
          \/ Refusal(request[c]) \in {HTTPError(400), HTTPError(415)}
          \/ Refusal(request[c]) = NewUnauthorizedError("not-authenticated")
          \/ /\ form[c].op = "request"
             /\ Refusal(request[c]) = NewInvalidInputError("missing-idempotency-key")
        BY <1>0, <2>1, RefusalErrors
    <2>3. /\ Refused(NewUnauthorizedError("not-authenticated"), 401)
          /\ Refused(NewInvalidInputError("missing-idempotency-key"), 400)
        BY RefusedFacts, RefusalSlugs
    <2>4. 401 \in Declared(form[c].op) /\ (form[c].op = "request" => 400 \in Declared(form[c].op))
        BY <1>0, <2>1 DEF Declared
    <2> QED
        BY <1>c, <2>1, <2>2, <2>3, <2>4 DEF Refused, TxPc
<1>5. CASE GetReservation(c)
    <2>1. /\ spc[c] = "service" /\ spc'[c] = "return" /\ did' = did /\ form[c].op = "get"
          /\ \/ err' = err
             \/ /\ err' = [err EXCEPT ![c] = NewNotFoundError("reservation-not-found")]
                /\ NothingFound(c)
        BY <1>0, <1>a, <1>5 DEF GetReservation, NothingFound, GetReservationWithAppointmentByUUID
    <2>2. Refused(NewNotFoundError("reservation-not-found"), 404) /\ 404 \in Declared(form[c].op)
        BY <2>1, RefusedFacts, RefusalSlugs DEF Declared
    <2> QED
        BY <2>1, <2>2 DEF Refused
<1>6. CASE RequestBooking(c)
    <2>1. /\ spc[c] = "service" /\ spc'[c] # "backstop" /\ did' = did /\ form[c].op = "request"
          /\ err' = err \/ \E e \in BookingRefusals : err' = [err EXCEPT ![c] = e]
        BY <1>0, <1>a, <1>6 DEF RequestBooking
    <2>2. \A e \in BookingRefusals : \E s \in {400, 404, 409} : Refused(e, s)
        BY RefusedFacts, RefusalSlugs DEF BookingRefusals
    <2>3. {400, 404, 409} \subseteq Declared(form[c].op)
        BY <2>1 DEF Declared
    <2> QED
        BY <2>1, <2>2, <2>3 DEF Refused
<1>7. CASE UpdateBooking(c)
    BY <1>7 DEF UpdateBooking
<1>8. CASE Begin(c)
    BY <1>8 DEF Begin
<1>9. CASE LoadForBooking(c)
    <2>1. /\ spc[c] = "load" /\ spc'[c] # "backstop" /\ did' = did /\ form[c].op = "request"
          /\ \/ err' = err \/ err' = [err EXCEPT ![c] = NoError]
             \/ err' = [err EXCEPT ![c] = NewConflictError("no-availability")]
        BY <1>0, <1>a, <1>9 DEF LoadForBooking
    <2>2. Refused(NewConflictError("no-availability"), 409)
        BY RefusedFacts, RefusalSlugs
    <2>3. 409 \in Declared(form[c].op)
        BY <2>1 DEF Declared
    <2> QED
        BY <1>c, <2>1, <2>2, <2>3 DEF Refused, TxPc
<1>10. CASE LoadForUpdate(c)
    <2>1. /\ spc[c] = "load" /\ spc'[c] # "backstop" /\ did' = did
          /\ Route(request[c]) = form[c].op /\ form[c].op \in {"confirm", "cancel"}
          /\ \/ err' = err
             \/ \E e \in UpdateErrors(c) : e # NoError /\ err' = [err EXCEPT ![c] = e]
        BY <1>0, <1>a, <1>10 DEF LoadForUpdate
    <2>2. CASE err' = err
        BY <2>1, <2>2
    <2>3. ASSUME NEW e \in UpdateErrors(c), e # NoError, err' = [err EXCEPT ![c] = e]
          PROVE  \E s \in Declared(form[c].op) :
                    Refused(e, s) /\ (s = 404 => NothingFound(c))
        BY <2>1, <2>3, UpdateErrorFacts DEF NothingFound
    <2> QED
        BY <2>1, <2>2, <2>3 DEF Refused, TxPc
<1>11. CASE UpsertVehicle(c)
    BY <1>11 DEF UpsertVehicle
<1>12. CASE CreateAppointment(c)
    BY <1>12 DEF CreateAppointment
<1>13. CASE CreateReservation(c)
    <2>1. /\ spc[c] = "reservation" /\ spc'[c] = "finish" /\ did' = did
          /\ err' = [err EXCEPT ![c] = NoError] \/ err' = [err EXCEPT ![c] = UniqueViolation]
        BY <1>13 DEF CreateReservation
    <2>2. form[c].op = "request"
        BY <2>1 DEF IInv, RouteInv, RouteOK
    <2> QED
        BY <1>c, <2>1, <2>2 DEF TxPc
<1>14. CASE UpdateAppointmentStatus(c)
    <2>1. /\ spc'[c] = "finish"
          /\ err' = [err EXCEPT ![c] = NoError] \/ err' = [err EXCEPT ![c] = Serialization]
        BY <1>14 DEF UpdateAppointmentStatus
    <2> QED
        BY <1>c, <2>1 DEF CommitErrors
<1>15. CASE Commit(c)
    <2>1. /\ spc'[c] # "backstop" /\ err[c] = NoError
          /\ err' = err \/ \E e \in CommitErrors : err' = [err EXCEPT ![c] = e]
        BY <1>c, <1>15, CommitCases
    <2> QED
        BY <2>1
<1>16. CASE Rollback(c)
    <2>1. /\ did' = did
          /\ \/ err' = [err EXCEPT ![c] = NoError] /\ spc'[c] # "backstop"
             \/ \E e \in Errors :
                /\ e # NoError /\ err[c] # NoError /\ err' = [err EXCEPT ![c] = e]
                /\ e.kind = err[c].kind /\ e.status = err[c].status /\ e.slug = err[c].slug
                /\ spc'[c] = "backstop" => IsUniqueViolation(e)
        BY <1>16, RollbackCases
    <2> QED
        BY <1>c, <2>1
<1>17. CASE Backstop(c)
    <2>1. /\ spc'[c] = "return" /\ err[c].late \in BOOLEAN
          /\ \/ err' = [err EXCEPT ![c] = NoError]
             \/ err' = [err EXCEPT ![c] = PlainError(err[c].late)]
        BY <1>17 DEF Backstop, Errors
    <2>2. PlainError(err[c].late) \in {PlainError(TRUE), PlainError(FALSE)}
        BY <2>1
    <2> QED
        BY <1>c, <2>1, <2>2 DEF CommitErrors
<1>18. CASE Return(c)
    BY <1>18 DEF Return
<1>19. CASE Recover(c)
    BY <1>19 DEF Recover
<1>20. CASE StatementFails(c)
    <2>1. spc' = [spc EXCEPT ![c] = "finish"] \/ spc' = [spc EXCEPT ![c] = "return"]
        BY <1>20, StatementFailsEffect DEF IInv
    <2>2. \E e \in CommitErrors : err' = [err EXCEPT ![c] = e]
        BY <1>20, StatementFailsEffect DEF IInv
    <2> QED
        BY <2>1, <2>2
<1>21. CASE Panic(c)
    BY <1>21 DEF Panic
<1> QED
    BY <1>1, <1>2, <1>3, <1>4, <1>5, <1>6, <1>7, <1>8, <1>9, <1>10, <1>11, <1>12, <1>13,
       <1>14, <1>15, <1>16, <1>17, <1>18, <1>19, <1>20, <1>21

\* Every error of a handler is one its operation can end with, and one that ends after
\* something was written is no refusal.
LEMMA ErrorStep ==
    ASSUME IInv, NEW c \in Calls, CallStep(c)
    PROVE  err' \in [Calls -> Errors] /\ ErrorOK(c)'
<1>1. form' = form /\ err \in [Calls -> Errors] /\ ErrorOK(c)
    BY Lasting DEF IInv, TypeOK, ErrorInv
<1>2. CASE /\ err' = err
           /\ spc'[c] = "backstop" => spc[c] = "backstop"
           /\ did' = did \/ err[c] = NoError
    <2>1. err'[c] = err[c] /\ err' \in [Calls -> Errors] /\ form'[c] = form[c]
        BY <1>1, <1>2
    <2>2. /\ err[c].kind = "none" <=> err[c] = NoError
          /\ err[c].kind = "common" => err[c].status \in Declared(form[c].op)
          /\ err[c].kind = "http" => err[c].status \in {400, 415}
        BY <1>1 DEF ErrorOK
    <2>3. /\ IsUniqueViolation(err[c]) \/ IsSerialization(err[c]) => err[c].kind = "plain"
          /\ IsUniqueViolation(err[c]) => form[c].op = "request"
        BY <1>1 DEF ErrorOK
    <2>4. did'[c] \/ spc'[c] = "backstop" => err[c].kind \in {"none", "plain"}
        BY <1>1, <1>2, <2>2 DEF ErrorOK
    <2>5. spc'[c] = "backstop" => err[c] # NoError
        BY <1>1, <1>2 DEF ErrorOK
    <2>6. ErrorOK(c)'
        BY <2>1, <2>2, <2>3, <2>4, <2>5, SMTT(30) DEF ErrorOK, IsUniqueViolation, IsSerialization
    <2> QED
        BY <2>1, <2>6
<1>3. ASSUME NEW e \in CommitErrors, err' = [err EXCEPT ![c] = e], spc'[c] # "backstop"
      PROVE  err' \in [Calls -> Errors] /\ ErrorOK(c)'
    <2>1. err'[c] = e /\ err' \in [Calls -> Errors]
        BY <1>1, <1>3, CommitErrorFacts
    <2>2. /\ e.kind \in {"none", "plain"} /\ (e.kind = "none" <=> e = NoError)
          /\ ~IsUniqueViolation(e) /\ (IsSerialization(e) => e.kind = "plain")
        BY CommitErrorFacts, PlainErrorFacts DEF CommitErrors, IsSerialization
    <2> QED
        BY <1>3, <2>1, <2>2 DEF ErrorOK, IsUniqueViolation, IsSerialization
<1>4. CASE /\ err' = [err EXCEPT ![c] = UniqueViolation]
           /\ form[c].op = "request" /\ spc'[c] = "finish" /\ did' = did /\ ~did[c]
    <2>1. err'[c] = UniqueViolation /\ err' \in [Calls -> Errors]
        BY <1>1, <1>4, PlainErrorTypes
    <2> QED
        BY <1>1, <1>4, <2>1, PlainErrorFacts DEF ErrorOK, IsUniqueViolation, IsSerialization
<1>5. ASSUME NEW e \in Errors,
             e # NoError, err[c] # NoError, err' = [err EXCEPT ![c] = e],
             e.kind = err[c].kind, e.status = err[c].status, e.slug = err[c].slug,
             did' = did, spc'[c] = "backstop" => IsUniqueViolation(e)
      PROVE  err' \in [Calls -> Errors] /\ ErrorOK(c)'
    <2>1. err'[c] = e /\ err' \in [Calls -> Errors]
        BY <1>1, <1>5
    <2>2. e.kind # "none"
        BY <1>1, <1>5 DEF ErrorOK
    <2>3. /\ IsUniqueViolation(e) <=> IsUniqueViolation(err[c])
          /\ IsSerialization(e) <=> IsSerialization(err[c])
        BY <1>5 DEF IsUniqueViolation, IsSerialization
    <2>4. /\ e.kind = "common" => e.status \in Declared(form'[c].op)
          /\ e.kind = "http" => e.status \in {400, 415}
        BY <1>1, <1>5 DEF ErrorOK
    <2>5. did'[c] \/ spc'[c] = "backstop" => e.kind \in {"none", "plain"}
        BY <1>1, <1>5, <2>3 DEF ErrorOK
    <2>6. /\ IsUniqueViolation(e) \/ IsSerialization(e) => e.kind = "plain"
          /\ IsUniqueViolation(e) => form'[c].op = "request"
        BY <1>1, <1>5, <2>3 DEF ErrorOK
    <2>7. form'[c] = form[c] /\ (e.kind = "none" <=> e = NoError)
        BY <1>1, <1>5, <2>2
    <2>8. ErrorOK(c)'
        BY <1>5, <2>1, <2>4, <2>5, <2>6, <2>7, SMTT(30)
           DEF ErrorOK, IsUniqueViolation, IsSerialization
    <2> QED
        BY <2>1, <2>8
<1>6. ASSUME NEW s \in Declared(form[c].op), NEW e \in Errors, Refused(e, s),
             err' = [err EXCEPT ![c] = e], spc'[c] # "backstop", did' = did, ~did[c]
      PROVE  err' \in [Calls -> Errors] /\ ErrorOK(c)'
    <2>1. err'[c] = e /\ err' \in [Calls -> Errors]
        BY <1>1, <1>6
    <2> QED
        BY <1>1, <1>6, <2>1 DEF ErrorOK, Refused, IsUniqueViolation, IsSerialization
<1>7. ASSUME NEW e \in {HTTPError(400), HTTPError(415)},
             err' = [err EXCEPT ![c] = e], spc'[c] # "backstop", did' = did, ~did[c]
      PROVE  err' \in [Calls -> Errors] /\ ErrorOK(c)'
    <2>1. err'[c] = e /\ err' \in [Calls -> Errors]
        BY <1>1, <1>7, HTTPErrorFacts
    <2>2. /\ e.kind = "http" /\ e.status \in {400, 415} /\ e # NoError
          /\ ~IsUniqueViolation(e) /\ ~IsSerialization(e)
        BY HTTPErrorFacts
    <2> QED
        BY <1>7, <2>1, <2>2 DEF ErrorOK, IsUniqueViolation, IsSerialization
<1> QED
    BY ErrorCases, <1>2, <1>3, <1>4, <1>5, <1>6, <1>7

-----------------------------------------------------------------------------
(* Answers. *)

\* Only the COMMIT of a transaction that has updated it changes a status.
LEMMA StatusChange ==
    ASSUME IInv, NEW c \in Calls, CallStep(c), status' # status
    PROVE  /\ Commit(c) /\ "status" \in draft[c] /\ spc[c] = "finish"
           /\ status' = [status EXCEPT ![Target(c)] = IF Route(request[c]) = "confirm"
                                                      THEN "confirmed" ELSE "cancelled"]
           /\ \E s : status' = [status EXCEPT ![Target(c)] = s]
<1>1. CASE Send(c)
    BY <1>1 DEF Send
<1>2. CASE Deliver(c)
    BY <1>2 DEF Deliver
<1>3. CASE GiveUp(c)
    BY <1>3 DEF GiveUp
<1>4. CASE Receive(c)
    BY <1>4 DEF Receive
<1>5. CASE GetReservation(c)
    BY <1>5 DEF GetReservation
<1>6. CASE RequestBooking(c)
    BY <1>6 DEF RequestBooking
<1>7. CASE UpdateBooking(c)
    BY <1>7 DEF UpdateBooking
<1>8. CASE Begin(c)
    BY <1>8 DEF Begin
<1>9. CASE LoadForBooking(c)
    BY <1>9 DEF LoadForBooking
<1>10. CASE LoadForUpdate(c)
    BY <1>10 DEF LoadForUpdate
<1>11. CASE UpsertVehicle(c)
    BY <1>11 DEF UpsertVehicle
<1>12. CASE CreateAppointment(c)
    BY <1>12 DEF CreateAppointment
<1>13. CASE CreateReservation(c)
    BY <1>13 DEF CreateReservation
<1>14. CASE UpdateAppointmentStatus(c)
    BY <1>14 DEF UpdateAppointmentStatus
<1>15. CASE Commit(c)
    BY <1>15, CommitCases DEF Apply
<1>16. CASE Rollback(c)
    BY <1>16, RollbackCases
<1>17. CASE Backstop(c)
    BY <1>17 DEF Backstop
<1>18. CASE Return(c)
    BY <1>18 DEF Return
<1>19. CASE Recover(c)
    BY <1>19 DEF Recover
<1>20. CASE StatementFails(c)
    BY <1>20, StatementFailsEffect DEF IInv
<1>21. CASE Panic(c)
    BY <1>21 DEF Panic
<1> QED
    BY <1>1, <1>2, <1>3, <1>4, <1>5, <1>6, <1>7, <1>8, <1>9, <1>10, <1>11, <1>12, <1>13,
       <1>14, <1>15, <1>16, <1>17, <1>18, <1>19, <1>20, <1>21

\* The status of an appointment goes from pending to confirmed to cancelled: only who
\* holds the lock of the row changes it, and only from the status he has read.
LEMMA StatusGoesOn ==
    ASSUME IInv, NEW c \in Calls, CallStep(c), NEW b \in Calls
    PROVE  /\ status' \in [Calls -> Statuses]
           /\ status[b] # "pending" => status'[b] # "pending"
           /\ status[b] = "cancelled" => status'[b] = "cancelled"
<1>1. status \in [Calls -> Statuses]
    BY DEF IInv, TypeOK
<1>2. CASE status' = status
    BY <1>1, <1>2
<1>3. CASE Commit(c) /\ status' # status
    <2>1. /\ "status" \in draft[c] /\ spc[c] = "finish"
          /\ status' = [status EXCEPT ![Target(c)] = IF Route(request[c]) = "confirm"
                                                     THEN "confirmed" ELSE "cancelled"]
        BY <1>3, StatusChange
    <2>2. /\ Target(c) \in Bookings /\ status[Target(c)] = seen[c]
          /\ seen[c] = IF form[c].op = "confirm" THEN "pending" ELSE "confirmed"
        BY <2>1 DEF IInv, StatusInv
    <2>3. request[c] # None
        BY <2>1 DEF IInv, CallerInv, CallerOK
    <2>4. Route(request[c]) = form[c].op
        BY <2>3, RouteIsOperation
    <2>5. Target(c) \in Calls
        BY <2>2 DEF Bookings
    <2> QED
        BY <1>1, <2>1, <2>2, <2>4, <2>5 DEF Statuses
<1> QED
    BY <1>2, <1>3, StatusChange

\* An answer stays as it is and stays true.
LEMMA AnswerStays ==
    ASSUME IInv, NEW c \in Calls, CallStep(c), NEW d \in Calls, answer[d] # None
    PROVE  answer'[d] = answer[d] /\ AnswerOK(d)'
<1>1. /\ form' = form /\ request'[d] = request[d] /\ answer'[d] = answer[d]
      /\ did[d] => did'[d]
      /\ request[d] # None
      /\ \A b \in Calls : store[b] \subseteq store'[b]
      /\ \A b \in Calls : request[b] # None => request'[b] = request[b]
    <2>1. request[d] # None
        BY DEF IInv, HandlerInv, HandlerOK, CallerInv, CallerOK
    <2>2. answer'[d] = answer[d] /\ (did[d] => did'[d])
        BY Lasting, Frame DEF IInv
    <2> QED
        BY <2>1, <2>2, LastingForAll
<1>2. form[d].op \in {"request", "get", "confirm", "cancel"}
    BY <1>1, RouteIsOperation
<1>3. AnswerOK(d)
    BY DEF IInv, AnswerInv
<1>4. Target(d)' = Target(d) /\ UserOf(d)' = UserOf(d) /\ Bookings' = Bookings
    BY <1>1 DEF Target, UserOf, Bookings
<1>5. CASE form[d].op = "request"
    <2>1. /\ answer[d] = VisitRequestBooking201(answer[d].body)
          /\ answer[d].body \in KeyHolders(d)
        BY <1>3, <1>5 DEF AnswerOK
    <2>2. answer[d].body \in KeyHolders(d)'
        BY <1>1, <2>1, KeyHoldersGrow
    <2> QED
        BY <1>1, <1>5, <2>1, <2>2 DEF AnswerOK
<1>6. CASE form[d].op = "get"
    <2>1. /\ answer[d] = VisitGetReservation200([reservation |-> Target(d),
                                                 status |-> answer[d].body.status])
          /\ Target(d) \in Bookings /\ UserOf(Target(d)) = UserOf(d)
          /\ "appointment" \in store[Target(d)]
          /\ answer[d].body.status # "pending" => status[Target(d)] # "pending"
        BY <1>3, <1>6 DEF AnswerOK
    <2>2. Target(d) \in Calls /\ request[Target(d)] # None
        BY <2>1 DEF Bookings, IInv, CallerInv, CallerOK, HandlerInv, HandlerOK
    <2>3. UserOf(Target(d))' = UserOf(Target(d))
        BY <1>1, <1>4, <2>2 DEF UserOf
    <2>4. "appointment" \in store'[Target(d)]
        BY <1>1, <2>1, <2>2
    <2>5. status[Target(d)] # "pending" => status'[Target(d)] # "pending"
        BY <2>2, StatusGoesOn
    <2> QED
        BY <1>1, <1>4, <1>6, <2>1, <2>3, <2>4, <2>5 DEF AnswerOK
<1>7. CASE form[d].op = "confirm"
    <2>1. /\ answer[d] = VisitConfirmBooking200(Target(d))
          /\ did[d] /\ Target(d) \in Bookings /\ status[Target(d)] # "pending"
        BY <1>3, <1>7 DEF AnswerOK
    <2>2. status'[Target(d)] # "pending"
        BY <2>1, StatusGoesOn DEF Bookings
    <2> QED
        BY <1>1, <1>4, <1>7, <2>1, <2>2 DEF AnswerOK
<1>8. CASE form[d].op = "cancel"
    <2>1. /\ answer[d] = VisitCancelBooking204
          /\ did[d] /\ Target(d) \in Bookings /\ status[Target(d)] = "cancelled"
        BY <1>3, <1>8 DEF AnswerOK
    <2>2. status'[Target(d)] = "cancelled"
        BY <2>1, StatusGoesOn DEF Bookings
    <2> QED
        BY <1>1, <1>4, <1>8, <2>1, <2>2 DEF AnswerOK
<1> QED
    BY <1>1, <1>2, <1>5, <1>6, <1>7, <1>8

\* What is written with a status, a body and a slug is a response.
LEMMA ResponseType ==
    ASSUME NEW n \in 200..599, NEW json \in BOOLEAN, NEW body \in Bodies, NEW slug \in Slugs
    PROVE  [status |-> n, json |-> json, body |-> body, slug |-> slug] \in Responses
BY DEF Responses

\* What successes look like: a reservation's, and a confirmation's.
LEMMA SuccessFacts ==
    ASSUME NEW b \in Calls
    PROVE  /\ VisitRequestBooking201(b) \in Responses
           /\ VisitRequestBooking201(b).body = b /\ VisitRequestBooking201(b).status = 201
           /\ VisitRequestBooking201(b).json
           /\ VisitConfirmBooking200(b) \in Responses
           /\ VisitConfirmBooking200(b).body = b /\ VisitConfirmBooking200(b).status = 200
           /\ VisitConfirmBooking200(b).json
<1>1. b \in Bodies /\ "" \in Slugs /\ 200 \in 200..599 /\ 201 \in 200..599 /\ TRUE \in BOOLEAN
    BY DEF Bodies, Slugs
<1>2. VisitRequestBooking201(b) \in Responses
    BY <1>1, ResponseType, ZenonT(30) DEF VisitRequestBooking201, Response
<1>3. VisitConfirmBooking200(b) \in Responses
    BY <1>1, ResponseType, ZenonT(30) DEF VisitConfirmBooking200, Response
<1> QED
    BY <1>2, <1>3 DEF VisitRequestBooking201, VisitConfirmBooking200, Response

\* A reading's.
LEMMA ReadingFacts ==
    ASSUME NEW b \in Calls, NEW s \in Statuses
    PROVE  /\ VisitGetReservation200([reservation |-> b, status |-> s]) \in Responses
           /\ VisitGetReservation200([reservation |-> b, status |-> s]).body =
                 [reservation |-> b, status |-> s]
           /\ VisitGetReservation200([reservation |-> b, status |-> s]).status = 200
           /\ VisitGetReservation200([reservation |-> b, status |-> s]).json
<1>1. /\ [reservation |-> b, status |-> s] \in Bodies
      /\ "" \in Slugs /\ 200 \in 200..599 /\ TRUE \in BOOLEAN
    BY DEF Bodies, Slugs
<1>2. VisitGetReservation200([reservation |-> b, status |-> s]) \in Responses
    BY <1>1, ResponseType, Zenon DEF VisitGetReservation200, Response
<1> QED
    BY <1>2 DEF VisitGetReservation200, Response

\* And a cancellation's, which has no body.
LEMMA CancelledFacts ==
    /\ VisitCancelBooking204 \in Responses /\ VisitCancelBooking204.status = 204
    /\ ~VisitCancelBooking204.json /\ VisitCancelBooking204.body = None
<1>1. None \in Bodies /\ "" \in Slugs /\ 204 \in 200..599 /\ FALSE \in BOOLEAN
    BY DEF Bodies, Slugs
<1>2. VisitCancelBooking204 \in Responses
    BY <1>1, ResponseType, Zenon DEF VisitCancelBooking204, Response
<1> QED
    BY <1>2 DEF VisitCancelBooking204, Response

\* Where an answer comes from: the read, the key, or a transaction that is committed.
LEMMA AnswerCases ==
    ASSUME IInv, NEW c \in Calls, CallStep(c), answer[c] = None
    PROVE  \/ answer' = answer
           \/ /\ form[c].op = "get" /\ UNCHANGED <<clientVars, tableVars>>
              /\ GetReservationWithAppointmentByUUID(Target(c), UserOf(c))
              /\ answer' = [answer EXCEPT ![c] =
                     VisitGetReservation200([reservation |-> Target(c),
                                             status |-> status[Target(c)]])]
           \/ /\ form[c].op = "request" /\ UNCHANGED <<clientVars, tableVars>>
              /\ \E b \in KeyHolders(c) :
                    answer' = [answer EXCEPT ![c] = VisitRequestBooking201(b)]
           \/ /\ spc[c] = "finish" /\ err[c] = NoError /\ ~panicked[c]
              /\ UNCHANGED <<clientVars, found>> /\ Apply(c)
              /\ answer' = [answer EXCEPT ![c] = Success(c)]
<1>0. request[c] # None => Route(request[c]) = form[c].op
    BY RouteIsOperation
<1>a. spc[c] # "away" => request[c] # None
    BY DEF IInv, CallerInv, CallerOK
<1>1. CASE Send(c)
    BY <1>1 DEF Send
<1>2. CASE Deliver(c)
    BY <1>2 DEF Deliver
<1>3. CASE GiveUp(c)
    BY <1>3 DEF GiveUp
<1>4. CASE Receive(c)
    BY <1>4 DEF Receive
<1>5. CASE GetReservation(c)
    BY <1>0, <1>a, <1>5 DEF GetReservation
<1>6. CASE RequestBooking(c)
    BY <1>0, <1>a, <1>6 DEF RequestBooking
<1>7. CASE UpdateBooking(c)
    BY <1>7 DEF UpdateBooking
<1>8. CASE Begin(c)
    BY <1>8 DEF Begin
<1>9. CASE LoadForBooking(c)
    BY <1>9 DEF LoadForBooking
<1>10. CASE LoadForUpdate(c)
    BY <1>10 DEF LoadForUpdate
<1>11. CASE UpsertVehicle(c)
    BY <1>11 DEF UpsertVehicle
<1>12. CASE CreateAppointment(c)
    BY <1>12 DEF CreateAppointment
<1>13. CASE CreateReservation(c)
    BY <1>13 DEF CreateReservation
<1>14. CASE UpdateAppointmentStatus(c)
    BY <1>14 DEF UpdateAppointmentStatus
<1>15. CASE Commit(c)
    BY <1>15, CommitCases
<1>16. CASE Rollback(c)
    BY <1>16, RollbackCases
<1>17. CASE Backstop(c)
    <2>1. form[c].op = "request"
        BY <1>17 DEF Backstop, IInv, RouteInv, RouteOK
    <2> QED
        BY <1>17, <2>1 DEF Backstop
<1>18. CASE Return(c)
    BY <1>18 DEF Return
<1>19. CASE Recover(c)
    BY <1>19 DEF Recover
<1>20. CASE StatementFails(c)
    BY <1>20, StatementFailsEffect DEF IInv
<1>21. CASE Panic(c)
    BY <1>21 DEF Panic
<1> QED
    BY <1>1, <1>2, <1>3, <1>4, <1>5, <1>6, <1>7, <1>8, <1>9, <1>10, <1>11, <1>12, <1>13,
       <1>14, <1>15, <1>16, <1>17, <1>18, <1>19, <1>20, <1>21

\* A new answer is true.
LEMMA AnswerIsNew ==
    ASSUME IInv, NEW c \in Calls, CallStep(c), answer[c] = None
    PROVE  answer' \in [Calls -> Responses \cup {None}] /\ AnswerOK(c)'
<1>1. /\ answer \in [Calls -> Responses \cup {None}] /\ status \in [Calls -> Statuses]
      /\ store \in [Calls -> SUBSET Rows] /\ did \in [Calls -> BOOLEAN]
    BY DEF IInv, TypeOK
<1>2. CASE answer' = answer
    BY <1>1, <1>2 DEF AnswerOK
<1>3. CASE /\ form[c].op = "get" /\ UNCHANGED <<clientVars, tableVars>>
           /\ GetReservationWithAppointmentByUUID(Target(c), UserOf(c))
           /\ answer' = [answer EXCEPT ![c] =
                  VisitGetReservation200([reservation |-> Target(c),
                                          status |-> status[Target(c)]])]
    <2>1. PICK b \in Calls, s \in Statuses : b = Target(c) /\ s = status[b] /\ b \in Bookings
        BY <1>1, <1>3 DEF GetReservationWithAppointmentByUUID, GetAppointmentByUUIDAndUserID, Bookings
    <2> DEFINE rsp == VisitGetReservation200([reservation |-> b, status |-> s])
    <2>2. UserOf(b) = UserOf(c) /\ "appointment" \in store[b]
        BY <1>3, <2>1 DEF GetReservationWithAppointmentByUUID, GetAppointmentByUUIDAndUserID
    <2>3. rsp \in Responses /\ rsp.body.status = s
        BY ReadingFacts
    <2>4. Target(c)' = b /\ UserOf(c)' = UserOf(c) /\ Bookings' = Bookings /\ UserOf(b)' = UserOf(b)
        BY <1>3, <2>1 DEF Target, UserOf, Bookings
    <2>5. answer' = [answer EXCEPT ![c] = rsp] /\ status' = status /\ store' = store /\ form' = form
        BY <1>3, <2>1
    <2>6. rsp = VisitGetReservation200([reservation |-> b, status |-> rsp.body.status])
        BY <2>3
    <2> HIDE DEF rsp
    <2>7. answer'[c] = rsp /\ answer' \in [Calls -> Responses \cup {None}]
        BY <1>1, <2>3, <2>5
    <2>8. UserOf(Target(c))' = UserOf(c)'
        BY <2>2, <2>4 DEF UserOf
    <2> QED
        BY <1>3, <2>1, <2>2, <2>3, <2>4, <2>5, <2>6, <2>7, <2>8 DEF AnswerOK
<1>4. ASSUME form[c].op = "request", UNCHANGED <<clientVars, tableVars>>, NEW b \in KeyHolders(c),
             answer' = [answer EXCEPT ![c] = VisitRequestBooking201(b)]
      PROVE  answer' \in [Calls -> Responses \cup {None}] /\ AnswerOK(c)'
    <2>1. b \in Calls
        BY DEF KeyHolders, GetReservationByIdempotencyKey, Bookings
    <2>2. VisitRequestBooking201(b) \in Responses /\ VisitRequestBooking201(b).body = b
        BY <2>1, SuccessFacts
    <2>3. b \in KeyHolders(c)'
        BY <1>4 DEF KeyHolders, GetReservationByIdempotencyKey, Bookings
    <2>4. /\ answer'[c] = VisitRequestBooking201(b)
          /\ answer' \in [Calls -> Responses \cup {None}]
        BY <1>1, <1>4, <2>2
    <2> QED
        BY <1>4, <2>2, <2>3, <2>4 DEF AnswerOK
<1>5. CASE /\ spc[c] = "finish" /\ err[c] = NoError /\ ~panicked[c]
           /\ UNCHANGED <<clientVars, found>> /\ Apply(c)
           /\ answer' = [answer EXCEPT ![c] = Success(c)]
    <2>1. request[c] # None
        BY <1>5 DEF IInv, CallerInv, CallerOK
    <2>2. Route(request[c]) = form[c].op /\ form[c].op \in {"request", "confirm", "cancel"}
        BY <1>5, <2>1, RouteIsOperation DEF IInv, RouteInv, RouteOK, AtWork, InTx
    <2>3. IF form[c].op = "request"
          THEN \/ draft[c] = Rows /\ found[c] = c
               \/ draft[c] = {} /\ found[c] \in KeyHolders(c)
          ELSE draft[c] = {"status"}
        BY <1>5 DEF IInv, DraftInv, DraftOK
    <2>4. /\ Target(c)' = Target(c) /\ Bookings' = Bookings /\ form' = form /\ found' = found
        BY <1>5 DEF Target, Bookings
    <2>5. CASE form[c].op = "request"
        <3>1. found[c] \in KeyHolders(c)'
            <4>1. CASE draft[c] = Rows /\ found[c] = c
                <5>1. store' = [store EXCEPT ![c] = @ \cup (draft[c] \cap Rows)]
                    BY <1>5 DEF Apply
                <5>2. "reservation" \in store'[c]
                    BY <1>1, <4>1, <5>1 DEF Rows
                <5> QED
                    BY <1>5, <2>5, <4>1, <5>2
                       DEF KeyHolders, GetReservationByIdempotencyKey, Bookings
            <4>2. CASE found[c] \in KeyHolders(c)
                BY <2>1, <4>2, KeyHoldersGrow
            <4> QED
                BY <2>3, <2>5, <4>1, <4>2
        <3>2. found[c] \in Calls
            BY <3>1, <2>4 DEF KeyHolders, GetReservationByIdempotencyKey, Bookings
        <3>3. Success(c) = VisitRequestBooking201(found[c])
            BY <2>2, <2>5 DEF Success
        <3>4. /\ VisitRequestBooking201(found[c]) \in Responses
              /\ VisitRequestBooking201(found[c]).body = found[c]
            BY <3>2, SuccessFacts
        <3>5. /\ answer'[c] = VisitRequestBooking201(found[c])
              /\ answer' \in [Calls -> Responses \cup {None}]
            BY <1>1, <1>5, <3>3, <3>4
        <3> QED
            BY <2>4, <2>5, <3>1, <3>4, <3>5 DEF AnswerOK
    <2>6. CASE form[c].op \in {"confirm", "cancel"}
        <3>1. draft[c] = {"status"} /\ "status" \in draft[c] /\ draft[c] # {}
            BY <2>3, <2>6
        <3>2. Target(c) \in Bookings /\ Target(c) \in Calls
            BY <3>1 DEF IInv, StatusInv, Bookings
        <3>3. /\ status'[Target(c)] = IF form[c].op = "confirm" THEN "confirmed" ELSE "cancelled"
              /\ did'[c]
            BY <1>1, <1>5, <2>2, <3>1, <3>2 DEF Apply
        <3>4. /\ VisitConfirmBooking200(Target(c)) \in Responses
              /\ VisitCancelBooking204 \in Responses
            BY <3>2, SuccessFacts, CancelledFacts
        <3>5. Success(c) = IF form[c].op = "confirm" THEN VisitConfirmBooking200(Target(c))
                           ELSE VisitCancelBooking204
            BY <2>2, <2>6 DEF Success
        <3>6. answer'[c] = Success(c) /\ answer' \in [Calls -> Responses \cup {None}]
            BY <1>1, <1>5, <3>4, <3>5
        <3> QED
            BY <2>4, <2>6, <3>2, <3>3, <3>5, <3>6 DEF AnswerOK
    <2> QED
        BY <2>2, <2>5, <2>6
<1> QED
    BY AnswerCases, <1>2, <1>3, <1>4, <1>5

-----------------------------------------------------------------------------
(* The unique index and the row lock. *)

\* A reservation comes into the index by its insert only.
LEMMA IndexedCases ==
    ASSUME IInv, NEW c \in Calls, CallStep(c), NEW d \in Calls, Indexed(d)'
    PROVE  \/ Indexed(d)
           \/ d = c /\ CreateReservation(c) /\ KeyHolders(c) = {}
<1>1. CASE d # c
    BY <1>1, Frame DEF Indexed, IInv
<1>2. CASE d = c
    <2> USE <1>2 DEF IInv, TypeOK, Indexed
    <2>1. CASE Send(c)
        BY <2>1 DEF Send
    <2>2. CASE Deliver(c)
        BY <2>2 DEF Deliver
    <2>3. CASE GiveUp(c)
        BY <2>3 DEF GiveUp
    <2>4. CASE Receive(c)
        BY <2>4 DEF Receive
    <2>5. CASE GetReservation(c)
        BY <2>5 DEF GetReservation
    <2>6. CASE RequestBooking(c)
        BY <2>6 DEF RequestBooking
    <2>7. CASE UpdateBooking(c)
        BY <2>7 DEF UpdateBooking
    <2>8. CASE Begin(c)
        BY <2>8 DEF Begin
    <2>9. CASE LoadForBooking(c)
        BY <2>9 DEF LoadForBooking
    <2>10. CASE LoadForUpdate(c)
        BY <2>10 DEF LoadForUpdate
    <2>11. CASE UpsertVehicle(c)
        BY <2>11 DEF UpsertVehicle
    <2>12. CASE CreateAppointment(c)
        BY <2>12 DEF CreateAppointment
    <2>13. CASE CreateReservation(c)
        BY <2>13 DEF CreateReservation
    <2>14. CASE UpdateAppointmentStatus(c)
        BY <2>14 DEF UpdateAppointmentStatus
    <2>15. CASE Commit(c)
        BY <2>15, CommitCases DEF Apply
    <2>16. CASE Rollback(c)
        BY <2>16, RollbackCases
    <2>17. CASE Backstop(c)
        BY <2>17 DEF Backstop
    <2>18. CASE Return(c)
        BY <2>18 DEF Return
    <2>19. CASE Recover(c)
        BY <2>19 DEF Recover
    <2>20. CASE StatementFails(c)
        BY <2>20, StatementFailsEffect
    <2>21. CASE Panic(c)
        BY <2>21 DEF Panic
    <2> QED
        BY <2>1, <2>2, <2>3, <2>4, <2>5, <2>6, <2>7, <2>8, <2>9, <2>10, <2>11, <2>12, <2>13,
           <2>14, <2>15, <2>16, <2>17, <2>18, <2>19, <2>20, <2>21
<1> QED
    BY <1>1, <1>2

\* Who has a reservation in the index has sent a request for it.
LEMMA IndexedWasSent ==
    ASSUME IInv, NEW d \in Calls, Indexed(d)
    PROVE  d \in Bookings /\ request[d] # None
<1>1. CASE "reservation" \in store[d]
    BY <1>1 DEF IInv, CallerInv, CallerOK, HandlerInv, HandlerOK, RouteInv, RouteOK, Bookings
<1>2. CASE "reservation" \in draft[d]
    <2>1. draft[d] # {} /\ draft[d] = Rows
        BY <1>2, DraftShapes DEF IInv, DraftInv, DraftOK
    <2>2. form[d].op = "request" /\ spc[d] \in {"appointment", "reservation", "finish"}
        BY <2>1 DEF IInv, DraftInv, DraftOK
    <2> QED
        BY <2>2 DEF IInv, CallerInv, CallerOK, Bookings
<1> QED
    BY <1>1, <1>2 DEF Indexed

\* The index is unique: the insert fails on a key that is committed and waits for one
\* that an open transaction holds.
LEMMA KeyStep ==
    ASSUME IInv, NEW c \in Calls, CallStep(c)
    PROVE  KeyInv'
<1>1. ASSUME NEW d \in Calls, Indexed(d) PROVE request'[d] = request[d]
    BY <1>1, IndexedWasSent, LastingForAll
<1>2. ASSUME NEW d \in Calls \ {c}, CreateReservation(c), KeyHolders(c) = {}, Indexed(d)
      PROVE  /\ request'[c] = request[c] /\ request'[d] = request[d]
             /\ HeaderValue(request[c].key) # HeaderValue(request[d].key)
    <2>1. d \in Bookings /\ request[d] # None /\ request'[d] = request[d]
        BY <1>1, <1>2, IndexedWasSent
    <2>2. request' = request /\ spc[c] = "reservation"
        BY <1>2 DEF CreateReservation
    <2>3. request[c] # None
        BY <2>2 DEF IInv, CallerInv, CallerOK
    <2>4. CASE "reservation" \in store[d]
        BY <1>2, <2>1, <2>2, <2>4 DEF KeyHolders, GetReservationByIdempotencyKey
    <2>5. CASE "reservation" \in draft[d]
        <3>1. request[d].key # request[c].key
            BY <1>2, <2>1, <2>5 DEF CreateReservation
        <3>2. WellFormed(request[c], form[c].op) /\ WellFormed(request[d], form[d].op)
            BY <2>1, <2>3 DEF IInv, CallerInv, CallerOK
        <3>3. HeaderValue(<<>>) = None
            BY DEF HeaderValue
        <3> QED
            BY <2>1, <2>2, <3>1, <3>2, <3>3 DEF WellFormed
    <2> QED
        BY <1>2, <2>4, <2>5 DEF Indexed
<1> SUFFICES ASSUME NEW d \in Calls, NEW e \in Calls, Indexed(d)', Indexed(e)', d # e
             PROVE  ~SameKey(d, e)'
    BY DEF KeyInv
<1>3. CASE Indexed(d) /\ Indexed(e)
    <2>1. ~SameKey(d, e)
        BY <1>3 DEF IInv, KeyInv
    <2> QED
        BY <1>1, <1>3, <2>1 DEF SameKey
<1>4. CASE d = c /\ CreateReservation(c) /\ KeyHolders(c) = {} /\ Indexed(e)
    BY <1>2, <1>4 DEF SameKey
<1>5. CASE e = c /\ CreateReservation(c) /\ KeyHolders(c) = {} /\ Indexed(d)
    BY <1>2, <1>5 DEF SameKey
<1> QED
    BY <1>3, <1>4, <1>5, IndexedCases

\* Who updates a status, or has updated it, already did so, or has just read it, or got
\* the lock just now.
LEMMA LockCases ==
    ASSUME IInv, NEW c \in Calls, CallStep(c)
    PROVE  /\ "status" \in draft'[c] =>
                /\ seen'[c] = seen[c] /\ request'[c] = request[c] /\ status' = status
                /\ \/ "status" \in draft[c]
                   \/ UpdateAppointmentStatus(c) /\ status[Target(c)] = seen[c]
           /\ spc'[c] = "update" =>
                /\ request'[c] = request[c]
                /\ \/ spc[c] = "update" /\ seen'[c] = seen[c]
                   \/ /\ LoadForUpdate(c) /\ NoError \in UpdateErrors(c)
                      /\ seen'[c] = status[Target(c)]
<1> USE DEF IInv, TypeOK
<1>1. CASE Send(c)
    <2>1. spc[c] = "away"
        BY <1>1 DEF Send, CallerInv, CallerOK
    <2>2. draft[c] = {}
        BY <2>1 DEF DraftInv, DraftOK
    <2> QED
        BY <1>1, <2>1, <2>2 DEF Send
<1>2. CASE Deliver(c)
    BY <1>2 DEF Deliver
<1>3. CASE GiveUp(c)
    BY <1>3 DEF GiveUp
<1>4. CASE Receive(c)
    BY <1>4 DEF Receive
<1>5. CASE GetReservation(c)
    BY <1>5 DEF GetReservation
<1>6. CASE RequestBooking(c)
    BY <1>6 DEF RequestBooking
<1>7. CASE UpdateBooking(c)
    BY <1>7 DEF UpdateBooking
<1>8. CASE Begin(c)
    BY <1>8 DEF Begin
<1>9. CASE LoadForBooking(c)
    BY <1>9 DEF LoadForBooking
<1>10. CASE LoadForUpdate(c)
    <2>1. spc[c] = "load" /\ draft'[c] = draft[c] /\ request' = request
        BY <1>10 DEF LoadForUpdate
    <2>2. draft[c] = {}
        BY <2>1 DEF DraftInv, DraftOK
    <2>3. \/ spc'[c] = "finish"
          \/ NoError \in UpdateErrors(c) /\ seen'[c] = status[Target(c)]
        BY <1>10 DEF LoadForUpdate
    <2> QED
        BY <1>10, <2>1, <2>2, <2>3
<1>11. CASE UpsertVehicle(c)
    BY <1>11 DEF UpsertVehicle
<1>12. CASE CreateAppointment(c)
    BY <1>12 DEF CreateAppointment
<1>13. CASE CreateReservation(c)
    BY <1>13 DEF CreateReservation
<1>14. CASE UpdateAppointmentStatus(c)
    BY <1>14 DEF UpdateAppointmentStatus
<1>15. CASE Commit(c)
    BY <1>15, CommitCases
<1>16. CASE Rollback(c)
    BY <1>16, RollbackCases
<1>17. CASE Backstop(c)
    BY <1>17 DEF Backstop
<1>18. CASE Return(c)
    BY <1>18 DEF Return
<1>19. CASE Recover(c)
    BY <1>19 DEF Recover
<1>20. CASE StatementFails(c)
    BY <1>20, StatementFailsEffect
<1>21. CASE Panic(c)
    BY <1>21 DEF Panic
<1> QED
    BY <1>1, <1>2, <1>3, <1>4, <1>5, <1>6, <1>7, <1>8, <1>9, <1>10, <1>11, <1>12, <1>13,
       <1>14, <1>15, <1>16, <1>17, <1>18, <1>19, <1>20, <1>21

\* The row lock: the status that was read is still there when it is changed, and no two
\* transactions change that of one appointment.
LEMMA LockStep ==
    ASSUME IInv, NEW c \in Calls, CallStep(c)
    PROVE  StatusInv'
<1>0. /\ form' = form /\ Bookings' = Bookings /\ status \in [Calls -> Statuses]
      /\ spc[c] # "away" => request[c] # None
    BY Lasting DEF Bookings, IInv, TypeOK, CallerInv, CallerOK
<1>1. ASSUME NEW d \in Calls, "status" \in draft'[d]
      PROVE  /\ Target(d)' = Target(d) /\ seen'[d] = seen[d]
             /\ Target(d) \in Bookings /\ status[Target(d)] = seen[d]
             /\ seen[d] = IF form[d].op = "confirm" THEN "pending" ELSE "confirmed"
             /\ \/ "status" \in draft[d]
                \/ d = c /\ UpdateAppointmentStatus(c)
    <2>1. CASE d = c
        <3>1. /\ seen'[c] = seen[c] /\ request'[c] = request[c]
              /\ \/ "status" \in draft[c]
                 \/ UpdateAppointmentStatus(c) /\ status[Target(c)] = seen[c]
            BY <1>1, <2>1, LockCases
        <3>2. UpdateAppointmentStatus(c) => spc[c] = "update"
            BY DEF UpdateAppointmentStatus
        <3> QED
            BY <2>1, <3>1, <3>2 DEF Target, IInv, StatusInv
    <2>2. CASE d # c
        <3>1. /\ seen'[d] = seen[d] /\ request'[d] = request[d] /\ "status" \in draft[d]
            BY <1>1, <2>2, Frame DEF IInv
        <3> QED
            BY <3>1 DEF Target, IInv, StatusInv
    <2> QED
        BY <2>1, <2>2
<1>2. ASSUME NEW d \in Calls, spc'[d] = "update"
      PROVE  /\ Target(d)' \in Bookings
             /\ seen'[d] = IF form[d].op = "confirm" THEN "pending" ELSE "confirmed"
    <2>1. CASE d = c
        <3>1. CASE spc[c] = "update" /\ seen'[c] = seen[c] /\ request'[c] = request[c]
            BY <2>1, <3>1 DEF Target, IInv, StatusInv
        <3>2. CASE /\ LoadForUpdate(c) /\ NoError \in UpdateErrors(c)
                   /\ seen'[c] = status[Target(c)] /\ request'[c] = request[c]
            <4>1. Route(request[c]) \in {"confirm", "cancel"} /\ Route(request[c]) = form[c].op
                BY <1>0, <3>2, RouteIsOperation DEF LoadForUpdate
            <4>2. /\ Target(c) \in Bookings
                  /\ status[Target(c)] = IF form[c].op = "confirm" THEN "pending" ELSE "confirmed"
                BY <3>2, <4>1, UpdateErrorFacts DEF Refused
            <4> QED
                BY <2>1, <3>2, <4>2 DEF Target
        <3> QED
            BY <1>2, <2>1, <3>1, <3>2, LockCases
    <2>2. CASE d # c
        <3>1. /\ seen'[d] = seen[d] /\ request'[d] = request[d] /\ spc[d] = "update"
            BY <1>2, <2>2, Frame DEF IInv
        <3> QED
            BY <3>1 DEF Target, IInv, StatusInv
    <2> QED
        BY <2>1, <2>2
<1>3. ASSUME NEW d \in Calls, "status" \in draft'[d]
      PROVE  status'[Target(d)] = status[Target(d)]
    <2>1. CASE status' = status
        BY <2>1
    <2>2. CASE d # c /\ status' # status
        <3>1. Commit(c) /\ "status" \in draft[c] /\ \E s : status' = [status EXCEPT ![Target(c)] = s]
            BY <2>2, StatusChange
        <3>2. "status" \in draft[d]
            BY <1>1, <1>3, <2>2
        <3>3. Target(c) # Target(d) /\ Target(d) \in Calls
            BY <2>2, <3>1, <3>2 DEF IInv, StatusInv, Bookings
        <3> QED
            BY <1>0, <3>1, <3>3
    <2>3. CASE d = c
        BY <1>3, <2>3, LockCases
    <2> QED
        BY <2>1, <2>2, <2>3
<1>4. ASSUME NEW d \in Calls, NEW e \in Calls, "status" \in draft'[d], "status" \in draft'[e], d # e
      PROVE  Target(d) # Target(e)
    <2>1. CASE "status" \in draft[d] /\ "status" \in draft[e]
        BY <1>4, <2>1 DEF IInv, StatusInv
    <2>2. CASE d = c /\ UpdateAppointmentStatus(c) /\ "status" \in draft[e]
        BY <1>4, <2>2 DEF UpdateAppointmentStatus
    <2>3. CASE e = c /\ UpdateAppointmentStatus(c) /\ "status" \in draft[d]
        BY <1>4, <2>3 DEF UpdateAppointmentStatus
    <2> QED
        BY <1>1, <1>4, <2>1, <2>2, <2>3
<1>5. \A d \in Calls : spc'[d] = "update" \/ "status" \in draft'[d] =>
          /\ Target(d)' \in Bookings'
          /\ seen'[d] = IF form'[d].op = "confirm" THEN "pending" ELSE "confirmed"
    BY <1>0, <1>1, <1>2
<1>6. \A d \in Calls : "status" \in draft'[d] => status'[Target(d)'] = seen'[d]
    BY <1>1, <1>3
<1>7. \A d, e \in Calls : "status" \in draft'[d] /\ "status" \in draft'[e] /\ d # e =>
          Target(d)' # Target(e)'
    BY <1>1, <1>4
<1> QED
    BY <1>5, <1>6, <1>7 DEF StatusInv

-----------------------------------------------------------------------------
(* Attempts, and the way back. *)

\* Who begins an attempt has one left: the backoff is asked before the next one.
LEMMA TriesStep ==
    ASSUME IInv, NEW c \in Calls, CallStep(c)
    PROVE  TriesInv'
<1>1. \A d \in Calls \ {c} : spc'[d] = spc[d] /\ tries'[d] = tries[d]
    BY Frame DEF IInv
<1>2. \/ spc'[c] \notin {"away", "service", "begin"}
      \/ spc[c] \in {"away", "service", "begin"} /\ tries'[c] = tries[c]
      \/ tries'[c] = tries[c] /\ MayRetry(c, Serialization)
      \/ \E e \in Errors : tries'[c] = tries[c] /\ MayRetry(c, e)
    <2> USE DEF IInv, TypeOK
    <2>1. CASE Send(c)
        BY <2>1 DEF Send, CallerInv, CallerOK
    <2>2. CASE Deliver(c)
        BY <2>2 DEF Deliver
    <2>3. CASE GiveUp(c)
        BY <2>3 DEF GiveUp
    <2>4. CASE Receive(c)
        BY <2>4 DEF Receive
    <2>5. CASE GetReservation(c)
        BY <2>5 DEF GetReservation
    <2>6. CASE RequestBooking(c)
        BY <2>6 DEF RequestBooking
    <2>7. CASE UpdateBooking(c)
        BY <2>7 DEF UpdateBooking
    <2>8. CASE Begin(c)
        BY <2>8 DEF Begin
    <2>9. CASE LoadForBooking(c)
        BY <2>9 DEF LoadForBooking
    <2>10. CASE LoadForUpdate(c)
        BY <2>10 DEF LoadForUpdate
    <2>11. CASE UpsertVehicle(c)
        BY <2>11 DEF UpsertVehicle
    <2>12. CASE CreateAppointment(c)
        BY <2>12 DEF CreateAppointment
    <2>13. CASE CreateReservation(c)
        BY <2>13 DEF CreateReservation
    <2>14. CASE UpdateAppointmentStatus(c)
        BY <2>14 DEF UpdateAppointmentStatus
    <2>15. CASE Commit(c)
        BY <2>15, CommitCases
    <2>16. CASE Rollback(c)
        BY <2>16, RollbackCases
    <2>17. CASE Backstop(c)
        BY <2>17 DEF Backstop
    <2>18. CASE Return(c)
        BY <2>18 DEF Return
    <2>19. CASE Recover(c)
        BY <2>19 DEF Recover
    <2>20. CASE StatementFails(c)
        BY <2>20, StatementFailsEffect
    <2>21. CASE Panic(c)
        BY <2>21 DEF Panic
    <2> QED
        BY <2>1, <2>2, <2>3, <2>4, <2>5, <2>6, <2>7, <2>8, <2>9, <2>10, <2>11, <2>12, <2>13,
           <2>14, <2>15, <2>16, <2>17, <2>18, <2>19, <2>20, <2>21
<1>3. spc'[c] \in {"away", "service", "begin"} => tries'[c] < MaxTries
    <2>1. spc[c] \in {"away", "service", "begin"} => tries[c] < MaxTries
        BY DEF IInv, TriesInv
    <2> QED
        BY <1>2, <2>1 DEF MayRetry
<1>4. ASSUME NEW d \in Calls, spc'[d] \in {"away", "service", "begin"} PROVE tries'[d] < MaxTries
    <2>1. CASE d = c
        BY <1>3, <1>4, <2>1
    <2>2. CASE d # c
        <3>1. spc[d] \in {"away", "service", "begin"} => tries[d] < MaxTries
            BY DEF IInv, TriesInv
        <3> QED
            BY <1>1, <1>4, <2>2, <3>1
    <2> QED
        BY <2>1, <2>2
<1> QED
    BY <1>4 DEF TriesInv

\* How an answer or an error of a handler gets on the wire and into the log, and how a
\* call ends.
LEMMA WireCases ==
    ASSUME IInv, NEW c \in Calls, CallStep(c)
    PROVE  /\ \/ Return(c)
              \/ Recover(c)
              \/ /\ UNCHANGED <<wire, log>>
                 /\ wire[c] # None =>
                       /\ err'[c] = err[c] /\ answer'[c] = answer[c]
                       /\ panicked'[c] = panicked[c]
           /\ \/ told' = told
              \/ told' = [told EXCEPT ![c] = Failed]
              \/ told' = [told EXCEPT ![c] = Parse(c)] /\ wire[c] # None /\ wire' = wire
<1>0. wire[c] # None => spc[c] = "gone"
    BY DEF IInv, HandlerInv, HandlerOK
<1> USE <1>0 DEF TxPc
<1>1. CASE Send(c)
    BY <1>1 DEF Send
<1>2. CASE Deliver(c)
    BY <1>2 DEF Deliver
<1>3. CASE GiveUp(c)
    BY <1>3 DEF GiveUp
<1>4. CASE Receive(c)
    BY <1>4 DEF Receive
<1>5. CASE GetReservation(c)
    BY <1>5 DEF GetReservation
<1>6. CASE RequestBooking(c)
    BY <1>6 DEF RequestBooking
<1>7. CASE UpdateBooking(c)
    BY <1>7 DEF UpdateBooking
<1>8. CASE Begin(c)
    BY <1>8 DEF Begin
<1>9. CASE LoadForBooking(c)
    BY <1>9 DEF LoadForBooking
<1>10. CASE LoadForUpdate(c)
    BY <1>10 DEF LoadForUpdate
<1>11. CASE UpsertVehicle(c)
    BY <1>11 DEF UpsertVehicle
<1>12. CASE CreateAppointment(c)
    BY <1>12 DEF CreateAppointment
<1>13. CASE CreateReservation(c)
    BY <1>13 DEF CreateReservation
<1>14. CASE UpdateAppointmentStatus(c)
    BY <1>14 DEF UpdateAppointmentStatus
<1>15. CASE Commit(c)
    BY <1>15, CommitCases
<1>16. CASE Rollback(c)
    BY <1>16, RollbackCases
<1>17. CASE Backstop(c)
    BY <1>17 DEF Backstop
<1>18. CASE Return(c)
    <2>1. UNCHANGED told
        BY <1>18 DEF Return
    <2> QED
        BY <1>18, <2>1
<1>19. CASE Recover(c)
    <2>1. UNCHANGED told
        BY <1>19 DEF Recover
    <2> QED
        BY <1>19, <2>1
<1>20. CASE StatementFails(c)
    BY <1>20, StatementFailsEffect DEF IInv
<1>21. CASE Panic(c)
    BY <1>21 DEF Panic
<1> QED
    BY <1>1, <1>2, <1>3, <1>4, <1>5, <1>6, <1>7, <1>8, <1>9, <1>10, <1>11, <1>12, <1>13,
       <1>14, <1>15, <1>16, <1>17, <1>18, <1>19, <1>20, <1>21

\* The statuses of failures.
FailureStatuses == {400, 401, 404, 409, 410, 415, 500, 503}

\* The response of a failure.
Failure(n, slug) == Response(n, TRUE, None, slug)

\* It is a response with that status and that slug.
LEMMA FailureType ==
    ASSUME NEW n \in FailureStatuses, NEW slug \in Slugs
    PROVE  /\ Failure(n, slug) \in Responses
           /\ Failure(n, slug).status = n /\ Failure(n, slug).slug = slug
           /\ Failure(n, slug).json /\ Failure(n, slug).body = None
<1>1. n \in 200..599
    BY DEF FailureStatuses
<1>2. TRUE \in BOOLEAN /\ None \in Bodies
    BY DEF Bodies
<1>3. Failure(n, slug) = [status |-> n, json |-> TRUE, body |-> None, slug |-> slug]
    BY DEF Failure, Response
<1>4. Failure(n, slug) \in Responses
    <2>1. [status |-> n, json |-> TRUE, body |-> None, slug |-> slug] \in Responses
        BY <1>1, <1>2, ResponseType
    <2> QED
        BY <1>3, <2>1, Zenon
<1> QED
    BY <1>3, <1>4

\* What the deadline is written as.
LEMMA DeadlineFacts ==
    HTTPError(503) # NoError /\ ErrorResponse(HTTPError(503)) = Failure(503, "service_unavailable")
<1>1. HTTPError(503).kind = "http" /\ NoError.kind = "none"
    BY DEF HTTPError, NoError, Error
<1>2. HTTPError(503).status = 503 /\ HTTPError(503).slug = "service_unavailable"
    BY DEF HTTPError, StatusSlug, Error
<1>3. ErrorResponse(HTTPError(503)) = Failure(HTTPError(503).status, HTTPError(503).slug)
    <2>1. HTTPError(503).kind # "plain"
        BY <1>1
    <2> QED
        BY <2>1, Zenon DEF ErrorResponse, Failure
<1> QED
    BY <1>1, <1>2, <1>3

\* The errors that a handler can end with.
Writable(e) ==
    /\ e \in Errors /\ e # NoError /\ e.kind # "none"
    /\ e.kind = "common" => e.status \in {400, 401, 404, 409, 410}
    /\ e.kind = "http" => e.status \in {400, 415}

\* What an error is written as: a status of failure, its slug and no body.
LEMMA WrittenError ==
    ASSUME NEW e, Writable(e)
    PROVE  /\ ContextTimeout(e) # NoError
           /\ ErrorResponse(ContextTimeout(e)) \in Responses
           /\ ErrorResponse(ContextTimeout(e)).json
           /\ ErrorResponse(ContextTimeout(e)).body = None
           /\ IF e.late THEN ErrorResponse(ContextTimeout(e)).status = 503
              ELSE IF e.kind = "plain" THEN ErrorResponse(ContextTimeout(e)).status = 500
              ELSE /\ ErrorResponse(ContextTimeout(e)).status = e.status
                   /\ ErrorResponse(ContextTimeout(e)).slug = e.slug
<1>1. /\ e.slug \in Slugs /\ e.late \in BOOLEAN /\ e # NoError
      /\ e.kind \in {"http", "common", "plain"}
    BY DEF Errors, Writable
<1>2. "service_unavailable" \in Slugs /\ "internal_server_error" \in Slugs
    BY DEF Slugs
<1>3. 503 \in FailureStatuses /\ 500 \in FailureStatuses
    BY DEF FailureStatuses
<1>4. CASE e.late
    <2>1. ContextTimeout(e) = HTTPError(503)
        BY <1>4 DEF ContextTimeout
    <2> QED
        BY <1>2, <1>3, <1>4, <2>1, DeadlineFacts, FailureType
<1>5. CASE ~e.late /\ e.kind = "plain"
    <2>1. ContextTimeout(e) = e
        BY <1>5 DEF ContextTimeout
    <2>2. ErrorResponse(e) = Failure(500, "internal_server_error")
        BY <1>5 DEF ErrorResponse, Failure
    <2> QED
        BY <1>1, <1>2, <1>3, <1>5, <2>1, <2>2, FailureType
<1>6. CASE ~e.late /\ e.kind \in {"common", "http"}
    <2>1. ContextTimeout(e) = e
        BY <1>6 DEF ContextTimeout
    <2>2. ErrorResponse(e) = Failure(e.status, e.slug)
        BY <1>6 DEF ErrorResponse, Failure
    <2>3. e.status \in FailureStatuses
        BY <1>6 DEF Writable, FailureStatuses
    <2> QED
        BY <1>1, <1>6, <2>1, <2>2, <2>3, FailureType
<1> QED
    BY <1>1, <1>4, <1>5, <1>6

\* Every error of a handler can be written.
LEMMA ErrorIsWritable ==
    ASSUME IInv, NEW c \in Calls, err[c] # NoError
    PROVE  Writable(err[c])
<1>1. ErrorOK(c) /\ err[c] \in Errors
    BY DEF IInv, ErrorInv, TypeOK
<1>2. form[c].op \in {"request", "get", "confirm", "cancel"}
    BY ScenariosAssumption DEF IInv, TypeOK
<1>3. Declared(form[c].op) \subseteq {400, 401, 404, 409, 410}
    BY <1>2 DEF Declared
<1> QED
    BY <1>1, <1>3 DEF ErrorOK, Writable

\* What the middlewares and EchoErrorHandler make of what the handler leaves.
LEMMA ReturnEffect ==
    ASSUME IInv, NEW c \in Calls, Return(c)
    PROVE  /\ UNCHANGED <<told, answer, err, panicked>> /\ ~panicked[c]
           /\ \E rsp \in Responses \cup {None}, entry \in LogEntries :
              /\ wire' = [wire EXCEPT ![c] = rsp] /\ log' = [log EXCEPT ![c] = entry]
              /\ IF answer[c] # None THEN rsp = answer[c]
                 ELSE IF err[c] = NoError THEN rsp = None
                 ELSE rsp # None /\ rsp = ErrorResponse(ContextTimeout(err[c]))
              /\ rsp # None /\ ~entry.failed => entry.status = rsp.status
<1>1. /\ UNCHANGED <<told, answer, err, panicked>> /\ ~panicked[c]
    BY DEF Return
<1>2. PICK e \in IF answer[c] = None THEN {err[c]} ELSE {NoError, PlainError(FALSE)} :
          /\ log' = [log EXCEPT ![c] = RequestLog(e, answer[c])]
          /\ wire' = [wire EXCEPT ![c] = EchoErrorHandler(ContextTimeout(e), answer[c])]
    BY DEF Return
<1>3. answer[c] \in Responses \cup {None}
    BY DEF IInv, TypeOK
<1> DEFINE rsp == EchoErrorHandler(ContextTimeout(e), answer[c])
           entry == RequestLog(e, answer[c])
<1>4. entry \in LogEntries
    <2>1. (e # NoError) \in BOOLEAN
        OBVIOUS
    <2>2. (IF answer[c] = None THEN 200 ELSE answer[c].status) \in 200..599
        BY <1>3 DEF Responses
    <2> QED
        BY <2>1, <2>2 DEF RequestLog, LogEntries
<1>5. /\ entry.failed <=> e # NoError
      /\ answer[c] # None => entry.status = answer[c].status
    BY DEF RequestLog
<1>6. CASE answer[c] # None
    <2>1. rsp = answer[c]
        BY <1>6 DEF EchoErrorHandler
    <2> HIDE DEF rsp, entry
    <2>2. wire' = [wire EXCEPT ![c] = rsp] /\ log' = [log EXCEPT ![c] = entry]
        BY <1>2 DEF rsp, entry
    <2> QED
        BY <1>1, <1>3, <1>4, <1>5, <1>6, <2>1, <2>2, ZenonT(30)
<1>7. CASE answer[c] = None /\ err[c] = NoError
    <2>1. e = NoError
        BY <1>7
    <2>2. ContextTimeout(e) = NoError
        <3>1. ~NoError.late
            BY DEF NoError, Error
        <3> QED
            BY <2>1, <3>1, ZenonT(30) DEF ContextTimeout
    <2>3. rsp = None
        BY <1>7, <2>2 DEF EchoErrorHandler
    <2> HIDE DEF rsp, entry
    <2>4. wire' = [wire EXCEPT ![c] = rsp] /\ log' = [log EXCEPT ![c] = entry]
        BY <1>2 DEF rsp, entry
    <2> QED
        BY <1>1, <1>4, <1>7, <2>3, <2>4
<1>8. CASE answer[c] = None /\ err[c] # NoError
    <2>1. e = err[c] /\ Writable(e)
        BY <1>8, ErrorIsWritable
    <2>2. ContextTimeout(e) # NoError /\ ErrorResponse(ContextTimeout(e)) \in Responses
        BY <2>1, WrittenError
    <2>3. rsp = ErrorResponse(ContextTimeout(e))
        BY <1>8, <2>2 DEF EchoErrorHandler
    <2>4. rsp \in Responses /\ rsp # None
        BY <2>2, <2>3, NoneAssumption
    <2>5. entry.failed
        BY <1>5, <1>8, <2>1
    <2> HIDE DEF rsp, entry
    <2>6. wire' = [wire EXCEPT ![c] = rsp] /\ log' = [log EXCEPT ![c] = entry]
        BY <1>2 DEF rsp, entry
    <2> QED
        BY <1>1, <1>4, <1>8, <2>1, <2>3, <2>4, <2>5, <2>6
<1> QED
    BY <1>6, <1>7, <1>8

\* What a panic is written as.
LEMMA PanicFacts ==
    /\ ErrorResponse(PlainError(FALSE)) \in Responses
    /\ ErrorResponse(PlainError(FALSE)).json
    /\ ErrorResponse(PlainError(FALSE)).status = 500
    /\ ErrorResponse(PlainError(FALSE)).body = None
<1>1. ErrorResponse(PlainError(FALSE)) = Failure(500, "internal_server_error")
    BY PlainErrorFacts DEF ErrorResponse, Failure
<1>2. "internal_server_error" \in Slugs /\ 500 \in FailureStatuses
    BY DEF Slugs, FailureStatuses
<1>3. /\ Failure(500, "internal_server_error") \in Responses
      /\ Failure(500, "internal_server_error").json
      /\ Failure(500, "internal_server_error").status = 500
      /\ Failure(500, "internal_server_error").body = None
    BY <1>2, FailureType
<1>4. PICK r \in Responses : r = Failure(500, "internal_server_error")
    BY <1>3
<1>5. r.json /\ r.status = 500 /\ r.body = None
    BY <1>3, <1>4
<1>6. ErrorResponse(PlainError(FALSE)) = r
    BY <1>1, <1>4
<1> QED
    BY <1>5, <1>6

\* What Recover does.
LEMMA RecoverEffect ==
    ASSUME NEW c \in Calls, Recover(c)
    PROVE  /\ UNCHANGED <<told, log, answer, err, panicked>> /\ panicked[c]
           /\ wire' = [wire EXCEPT ![c] = ErrorResponse(PlainError(FALSE))]
<1>1. PlainError(FALSE) # NoError
    BY PlainErrorFacts
<1>2. EchoErrorHandler(PlainError(FALSE), None) = ErrorResponse(PlainError(FALSE))
    BY <1>1 DEF EchoErrorHandler
<1> QED
    BY <1>2 DEF Recover

\* What EveryFailureIsLogged says of one call.
Logged(c) ==
    wire[c] # None /\ ~panicked[c] =>
        /\ log[c] # None
        /\ ~log[c].failed => log[c].status = wire[c].status

\* The wire has the answer, or the error of the handler; the log has an entry of it; the
\* caller is told what was on the wire.
LEMMA WireStep ==
    ASSUME IInv, NEW c \in Calls, CallStep(c)
    PROVE  /\ wire' \in [Calls -> Responses \cup {None}]
           /\ log' \in [Calls -> LogEntries \cup {None}]
           /\ told' \in [Calls -> Outcomes \cup {None}]
           /\ WireOK(c)' /\ Logged(c)'
<1>1. /\ wire \in [Calls -> Responses \cup {None}] /\ log \in [Calls -> LogEntries \cup {None}]
      /\ told \in [Calls -> Outcomes \cup {None}] /\ TypeOK
      /\ WireOK(c) /\ Logged(c) /\ form' = form
    BY Lasting DEF IInv, TypeOK, WireInv, EveryFailureIsLogged, Logged
<1>2. told' \in [Calls -> Outcomes \cup {None}]
    BY <1>1, WireCases, ParseFacts, FailedType
<1>3. told'[c] # None => \/ told'[c] = Failed
                         \/ wire[c] # None /\ told'[c] = Parse(c)
    BY <1>1, WireCases DEF WireOK
<1>4. wire[c] # None => wire'[c] = wire[c]
    BY Lasting
<1>5. wire[c] # None => Parse(c)' = Parse(c)
    BY <1>1, <1>4 DEF Parse
<1>6. told'[c] # None => told'[c] = Failed \/ (wire'[c] # None /\ told'[c] = Parse(c)')
    BY <1>3, <1>4, <1>5
<1>7. CASE Return(c)
    <2>1. PICK rsp \in Responses \cup {None}, entry \in LogEntries :
              /\ wire' = [wire EXCEPT ![c] = rsp] /\ log' = [log EXCEPT ![c] = entry]
              /\ IF answer[c] # None THEN rsp = answer[c]
                 ELSE IF err[c] = NoError THEN rsp = None
                 ELSE rsp # None /\ rsp = ErrorResponse(ContextTimeout(err[c]))
              /\ rsp # None /\ ~entry.failed => entry.status = rsp.status
        BY <1>7, ReturnEffect
    <2>2. UNCHANGED <<told, answer, err, panicked>> /\ ~panicked[c]
        BY <1>7, ReturnEffect
    <2>3. wire'[c] = rsp /\ log'[c] = entry /\ entry # None
        BY <1>1, <2>1, NoneAssumption
    <2>4. /\ wire' \in [Calls -> Responses \cup {None}]
          /\ log' \in [Calls -> LogEntries \cup {None}]
        BY <1>1, <2>1
    <2>5. Logged(c)'
        BY <2>1, <2>3 DEF Logged
    <2>6. WireOK(c)'
        BY <1>6, <2>1, <2>2, <2>3 DEF WireOK
    <2> QED
        BY <1>2, <2>4, <2>5, <2>6
<1>8. CASE Recover(c)
    <2>1. /\ UNCHANGED <<told, log, answer, err, panicked>> /\ panicked[c]
          /\ wire' = [wire EXCEPT ![c] = ErrorResponse(PlainError(FALSE))]
        BY <1>8, RecoverEffect
    <2>2. answer[c] = None
        BY <2>1 DEF IInv, HandlerInv, HandlerOK
    <2>3. /\ wire'[c] = ErrorResponse(PlainError(FALSE))
          /\ wire' \in [Calls -> Responses \cup {None}]
        <3>1. PICK rsp \in Responses : rsp = ErrorResponse(PlainError(FALSE))
            BY PanicFacts, Zenon
        <3>2. wire' = [wire EXCEPT ![c] = rsp]
            BY <2>1, <3>1
        <3>3. wire'[c] = rsp /\ wire' \in [Calls -> Responses \cup {None}]
            BY <1>1, <3>2
        <3> QED
            BY <3>1, <3>3
    <2>4. Logged(c)'
        BY <2>1 DEF Logged
    <2>5. WireOK(c)'
        BY <1>6, <2>1, <2>2, <2>3 DEF WireOK
    <2> QED
        BY <1>1, <1>2, <2>1, <2>3, <2>4, <2>5
<1>9. CASE /\ UNCHANGED <<wire, log>>
           /\ wire[c] # None =>
                 err'[c] = err[c] /\ answer'[c] = answer[c] /\ panicked'[c] = panicked[c]
    <2>1. Logged(c)'
        BY <1>1, <1>9 DEF Logged
    <2>2. WireOK(c)'
        BY <1>1, <1>6, <1>9 DEF WireOK
    <2> QED
        BY <1>1, <1>2, <1>9, <2>1, <2>2
<1> QED
    BY WireCases, <1>7, <1>8, <1>9

-----------------------------------------------------------------------------
(* What callers have been told. *)

\* An outcome that is a success is the handler's answer.
LEMMA SuccessWasAnswered ==
    ASSUME IInv, NEW c \in Calls, Succeeded(c)
    PROVE  /\ told[c] = Parse(c) /\ wire[c] # None /\ wire[c] = answer[c] /\ answer[c] # None
           /\ told[c].body = answer[c].body
<1>1. told[c] # None /\ told[c].field \in {"JSON200", "JSON201", "none"}
    BY DEF Succeeded
<1>2. told[c] # Failed
    <2>1. Failed.field = "error"
        BY DEF Failed
    <2> QED
        BY <1>1, <2>1
<1>3. wire[c] # None /\ told[c] = Parse(c)
    BY <1>1, <1>2 DEF IInv, WireInv, WireOK
<1>4. ASSUME answer[c] = None PROVE FALSE
    <2>1. wire[c].json /\ wire[c].status \in FailureStatuses
        <3>1. CASE panicked[c]
            <4>1. wire[c] = ErrorResponse(PlainError(FALSE))
                BY <1>3, <1>4, <3>1 DEF IInv, WireInv, WireOK
            <4>2. wire[c].json /\ wire[c].status = 500
                BY <4>1, PanicFacts, ZenonT(40)
            <4> QED
                BY <4>2 DEF FailureStatuses
        <3>2. CASE ~panicked[c]
            <4>1. wire[c] = ErrorResponse(ContextTimeout(err[c])) /\ err[c] # NoError
                BY <1>3, <1>4, <3>2 DEF IInv, WireInv, WireOK
            <4>2. Writable(err[c])
                BY <4>1, ErrorIsWritable
            <4>3. /\ wire[c].json
                  /\ IF err[c].late THEN wire[c].status = 503
                     ELSE IF err[c].kind = "plain" THEN wire[c].status = 500
                     ELSE wire[c].status = err[c].status
                BY <4>1, <4>2, WrittenError
            <4>4. ~err[c].late /\ err[c].kind # "plain" => err[c].status \in FailureStatuses
                BY <4>2 DEF Writable, Errors, FailureStatuses
            <4>5. 503 \in FailureStatuses /\ 500 \in FailureStatuses
                BY DEF FailureStatuses
            <4> QED
                BY <4>3, <4>4, <4>5
        <3> QED
            BY <3>1, <3>2
    <2>2. TypeOK
        BY DEF IInv
    <2>3. /\ Parse(c).field = "none" => ~wire[c].json
          /\ Parse(c).field = "JSON200" => wire[c].status = 200
          /\ Parse(c).field = "JSON201" => wire[c].status = 201
        BY <1>3, <2>2, ParseFacts
    <2>4. wire[c].status # 200 /\ wire[c].status # 201
        BY <2>1 DEF FailureStatuses
    <2> QED
        BY <1>1, <1>3, <2>1, <2>3, <2>4
<1>5. wire[c] = answer[c]
    BY <1>3, <1>4 DEF IInv, WireInv, WireOK
<1>6. told[c].body = wire[c].body
    BY <1>3, ParseFacts DEF IInv
<1> QED
    BY <1>3, <1>4, <1>5, <1>6

\* A caller with a reservation was told of one that has all its rows, and his key.
LEMMA ToldBooking ==
    ASSUME IInv, NEW b \in Bookings, Succeeded(b)
    PROVE  /\ told[b].body \in KeyHolders(b) /\ told[b].body \in Bookings
           /\ store[told[b].body] = Rows /\ SameKey(b, told[b].body)
           /\ request[told[b].body] # None
<1>1. b \in Calls /\ form[b].op = "request"
    BY DEF Bookings
<1>2. answer[b] # None /\ told[b].body = answer[b].body
    BY <1>1, SuccessWasAnswered
<1>3. told[b].body \in KeyHolders(b)
    BY <1>1, <1>2 DEF IInv, AnswerInv, AnswerOK
<1> DEFINE x == told[b].body
<1>4. /\ x \in Bookings /\ x \in Calls /\ "reservation" \in store[x] /\ SameKey(b, x)
    BY <1>3 DEF KeyHolders, GetReservationByIdempotencyKey, Bookings, SameKey
<1> HIDE DEF x
<1>5. store[x] = Rows
    <2>1. store[x] \notin {{}, Rows} => "reservation" \notin store[x]
        BY <1>4 DEF IInv, DraftInv, DraftOK
    <2> QED
        BY <1>4, <2>1
<1>6. request[x] # None
    BY <1>4, IndexedWasSent DEF Indexed
<1> QED
    BY <1>3, <1>4, <1>5, <1>6 DEF x

\* Who finds nothing misses nothing.
LEMMA NothingIsMissed ==
    ASSUME IInv, NEW c \in Calls, NothingFound(c)
    PROVE  ~Missed(c)
<1> SUFFICES ASSUME Missed(c) PROVE FALSE
    OBVIOUS
<1>1. PICK b \in since[c] \cap Bookings :
          told[b].body = Target(c) /\ UserOf(c) = UserOf(Target(c))
    BY DEF Missed
<1>2. Succeeded(b)
    BY <1>1 DEF IInv, SinceInv, SinceOK
<1>3. Target(c) \in Bookings /\ store[Target(c)] = Rows
    BY <1>1, <1>2, ToldBooking
<1>4. "reservation" \in store[Target(c)] /\ "appointment" \in store[Target(c)]
    BY <1>3 DEF Rows
<1> QED
    BY <1>1, <1>3, <1>4 DEF NothingFound, GetReservationByUUID, GetAppointmentByUUIDAndUserID

\* What is not missed is not missed later.
LEMMA MissedStays ==
    ASSUME IInv, NEW c \in Calls, CallStep(c), NEW d \in Calls, request[d] # None, Missed(d)'
    PROVE  Missed(d)
<1>1. /\ form' = form /\ request'[d] = request[d] /\ Bookings' = Bookings
      /\ \A u \in Calls : told[u] # None => told'[u] = told[u]
      /\ \A u \in Calls : request[u] # None => request'[u] = request[u]
    BY LastingForAll DEF Bookings
<1>2. since'[d] = since[d]
    <2>1. cpc[d] # "idle"
        BY DEF IInv, CallerInv, CallerOK
    <2> QED
        BY <2>1, Lasting, Frame DEF IInv
<1>3. PICK b \in since[d] \cap Bookings :
          told'[b].body = Target(d)' /\ UserOf(d)' = UserOf(Target(d))'
    BY <1>1, <1>2 DEF Missed
<1>4. Succeeded(b) /\ b \in Calls
    BY DEF IInv, SinceInv, SinceOK, Bookings
<1>5. told'[b] = told[b] /\ Target(d)' = Target(d) /\ UserOf(d)' = UserOf(d)
    BY <1>1, <1>4 DEF Succeeded, Target, UserOf
<1>6. told[b].body = Target(d)
    BY <1>3, <1>5
<1>7. Target(d) \in Calls /\ request[Target(d)] # None
    BY <1>4, <1>6, ToldBooking DEF Bookings
<1>8. UserOf(Target(d))' = UserOf(Target(d))
    BY <1>1, <1>5, <1>7 DEF UserOf
<1> QED
    BY <1>3, <1>5, <1>6, <1>8 DEF Missed

\* Who had succeeded when a call was sent.
LEMMA SinceCases ==
    ASSUME IInv, NEW c \in Calls, CallStep(c)
    PROVE  since'[c] = since[c] \/ since'[c] = {u \in Calls : Succeeded(u)}
<1> USE DEF IInv, TypeOK
<1>1. CASE Send(c)
    BY <1>1 DEF Send
<1>2. CASE Deliver(c)
    BY <1>2 DEF Deliver
<1>3. CASE GiveUp(c)
    BY <1>3 DEF GiveUp
<1>4. CASE Receive(c)
    BY <1>4 DEF Receive
<1>5. CASE GetReservation(c)
    BY <1>5 DEF GetReservation
<1>6. CASE RequestBooking(c)
    BY <1>6 DEF RequestBooking
<1>7. CASE UpdateBooking(c)
    BY <1>7 DEF UpdateBooking
<1>8. CASE Begin(c)
    BY <1>8 DEF Begin
<1>9. CASE LoadForBooking(c)
    BY <1>9 DEF LoadForBooking
<1>10. CASE LoadForUpdate(c)
    BY <1>10 DEF LoadForUpdate
<1>11. CASE UpsertVehicle(c)
    BY <1>11 DEF UpsertVehicle
<1>12. CASE CreateAppointment(c)
    BY <1>12 DEF CreateAppointment
<1>13. CASE CreateReservation(c)
    BY <1>13 DEF CreateReservation
<1>14. CASE UpdateAppointmentStatus(c)
    BY <1>14 DEF UpdateAppointmentStatus
<1>15. CASE Commit(c)
    BY <1>15, CommitCases
<1>16. CASE Rollback(c)
    BY <1>16, RollbackCases
<1>17. CASE Backstop(c)
    BY <1>17 DEF Backstop
<1>18. CASE Return(c)
    BY <1>18 DEF Return
<1>19. CASE Recover(c)
    BY <1>19 DEF Recover
<1>20. CASE StatementFails(c)
    BY <1>20, StatementFailsEffect
<1>21. CASE Panic(c)
    BY <1>21 DEF Panic
<1> QED
    BY <1>1, <1>2, <1>3, <1>4, <1>5, <1>6, <1>7, <1>8, <1>9, <1>10, <1>11, <1>12, <1>13,
       <1>14, <1>15, <1>16, <1>17, <1>18, <1>19, <1>20, <1>21

\* None of the failures has the status of what is not found.
LEMMA NotFoundIsRefused ==
    /\ \A e \in CommitErrors : e.status # 404
    /\ UniqueViolation.status # 404
    /\ \A e \in {HTTPError(400), HTTPError(415)} : e.status # 404
<1>1. \A e \in CommitErrors : e.status = 0
    BY PlainErrorStatus DEF CommitErrors
<1>2. UniqueViolation.status = 0
    BY PlainErrorStatus
<1>3. \A e \in {HTTPError(400), HTTPError(415)} : e.status \in {400, 415}
    BY DEF HTTPError, Error
<1> QED
    BY <1>1, <1>2, <1>3

\* An error that says not found is there because the queries found nothing.
LEMMA NotFoundStep ==
    ASSUME IInv, NEW c \in Calls, CallStep(c), err'[c].status = 404, form[c].op # "request"
    PROVE  err[c].status = 404 \/ NothingFound(c)
<1>1. err \in [Calls -> Errors]
    BY DEF IInv, TypeOK
<1>2. ASSUME NEW e \in CommitErrors, err' = [err EXCEPT ![c] = e] PROVE FALSE
    BY <1>1, <1>2, NotFoundIsRefused
<1>3. ASSUME err' = [err EXCEPT ![c] = UniqueViolation] PROVE FALSE
    BY <1>1, <1>3, NotFoundIsRefused
<1>4. ASSUME NEW e \in {HTTPError(400), HTTPError(415)}, err' = [err EXCEPT ![c] = e] PROVE FALSE
    BY <1>1, <1>4, NotFoundIsRefused
<1>5. ASSUME NEW e, e.status = err[c].status, err' = [err EXCEPT ![c] = e]
      PROVE  err[c].status = 404
    BY <1>1, <1>5
<1>6. ASSUME NEW s, NEW e, Refused(e, s), err' = [err EXCEPT ![c] = e],
             s = 404 /\ form[c].op # "request" => NothingFound(c)
      PROVE  NothingFound(c)
    BY <1>1, <1>6 DEF Refused
<1> QED
    BY ErrorCases, <1>2, <1>3, <1>4, <1>5, <1>6

\* Without a request there is no handler.
LEMMA QuietBeforeRequest ==
    ASSUME IInv, NEW c \in Calls, CallStep(c), request[c] = None
    PROVE  err'[c] = err[c]
<1>0. spc[c] = "away"
    BY DEF IInv, CallerInv, CallerOK
<1> USE <1>0 DEF TxPc
<1>1. CASE Send(c)
    BY <1>1 DEF Send
<1>2. CASE Deliver(c)
    BY <1>2 DEF Deliver
<1>3. CASE GiveUp(c)
    BY <1>3 DEF GiveUp
<1>4. CASE Receive(c)
    BY <1>4 DEF Receive
<1>5. CASE GetReservation(c)
    BY <1>5 DEF GetReservation
<1>6. CASE RequestBooking(c)
    BY <1>6 DEF RequestBooking
<1>7. CASE UpdateBooking(c)
    BY <1>7 DEF UpdateBooking
<1>8. CASE Begin(c)
    BY <1>8 DEF Begin
<1>9. CASE LoadForBooking(c)
    BY <1>9 DEF LoadForBooking
<1>10. CASE LoadForUpdate(c)
    BY <1>10 DEF LoadForUpdate
<1>11. CASE UpsertVehicle(c)
    BY <1>11 DEF UpsertVehicle
<1>12. CASE CreateAppointment(c)
    BY <1>12 DEF CreateAppointment
<1>13. CASE CreateReservation(c)
    BY <1>13 DEF CreateReservation
<1>14. CASE UpdateAppointmentStatus(c)
    BY <1>14 DEF UpdateAppointmentStatus
<1>15. CASE Commit(c)
    BY <1>15 DEF Commit
<1>16. CASE Rollback(c)
    BY <1>16 DEF Rollback
<1>17. CASE Backstop(c)
    BY <1>17 DEF Backstop
<1>18. CASE Return(c)
    BY <1>18 DEF Return
<1>19. CASE Recover(c)
    BY <1>19 DEF Recover
<1>20. CASE StatementFails(c)
    BY <1>20 DEF StatementFails, AtRead
<1>21. CASE Panic(c)
    BY <1>21 DEF Panic
<1> QED
    BY <1>1, <1>2, <1>3, <1>4, <1>5, <1>6, <1>7, <1>8, <1>9, <1>10, <1>11, <1>12, <1>13,
       <1>14, <1>15, <1>16, <1>17, <1>18, <1>19, <1>20, <1>21

\* A call knows of successes only, and what it knows of it does not miss.
LEMMA SinceStep ==
    ASSUME IInv, NEW c \in Calls, CallStep(c)
    PROVE  SinceInv' /\ since' \in [Calls -> SUBSET Calls]
<1>0. since' \in [Calls -> SUBSET Calls]
    BY PlacesStep
<1>1. ASSUME NEW u \in Calls, Succeeded(u) PROVE Succeeded(u)'
    BY <1>1, LastingForAll DEF Succeeded
<1>2. ASSUME NEW d \in Calls, NEW u \in since'[d] PROVE Succeeded(u)'
    <2>1. u \in Calls
        BY <1>0
    <2>2. since'[d] = since[d] \/ since'[d] = {v \in Calls : Succeeded(v)}
        BY SinceCases, Frame DEF IInv
    <2>3. Succeeded(u)
        BY <1>2, <2>2 DEF IInv, SinceInv, SinceOK
    <2> QED
        BY <1>1, <2>1, <2>3
<1>3. ASSUME NEW d \in Calls, err'[d].status = 404, form'[d].op # "request" PROVE ~Missed(d)'
    <2>0. form' = form
        BY Lasting
    <2>1. ~Missed(d)
        <3>1. CASE err[d].status = 404
            BY <1>3, <2>0, <3>1 DEF IInv, SinceInv, SinceOK
        <3>2. CASE err[d].status # 404
            <4>1. d = c
                BY <1>3, <3>2, Frame DEF IInv
            <4>2. NothingFound(c)
                BY <1>3, <2>0, <3>2, <4>1, NotFoundStep
            <4> QED
                BY <4>1, <4>2, NothingIsMissed
        <3> QED
            BY <3>1, <3>2
    <2>2. request[d] # None
        <3>1. CASE request[d] = None
            <4>1. spc[d] = "away" /\ err[d] = NoError
                BY <3>1 DEF IInv, CallerInv, CallerOK, HandlerInv, HandlerOK
            <4>2. err[d].status # 404
                BY <4>1, PlainErrorStatus
            <4>3. d = c
                BY <1>3, <4>2, Frame DEF IInv
            <4>4. err'[c] = err[c]
                BY <3>1, <4>1, <4>3, QuietBeforeRequest
            <4> QED
                BY <1>3, <4>2, <4>3, <4>4
        <3> QED
            BY <3>1
    <2> QED
        BY <2>1, <2>2, MissedStays
<1> QED
    BY <1>0, <1>2, <1>3 DEF SinceInv, SinceOK

-----------------------------------------------------------------------------
(* For whom a handler acts. *)

\* Past the refusals, for one user.
Acts(c) == spc[c] \in TxPc \cup {"service", "begin", "finish", "backstop"} \/ did[c]
NamesOneUser(c) == Len(request[c].user) = 1 /\ ~IsBlank(UserOf(c))

\* The only way there is past them.
LEMMA ActsCases ==
    ASSUME IInv, NEW c \in Calls, CallStep(c), Acts(c)'
    PROVE  Acts(c) \/ (Receive(c) /\ Refusal(request[c]) = NoError)
<1> USE DEF IInv, TypeOK, Acts, TxPc
<1>1. CASE Send(c)
    BY <1>1 DEF Send
<1>2. CASE Deliver(c)
    BY <1>2 DEF Deliver
<1>3. CASE GiveUp(c)
    BY <1>3 DEF GiveUp
<1>4. CASE Receive(c)
    BY <1>4 DEF Receive
<1>5. CASE GetReservation(c)
    BY <1>5 DEF GetReservation
<1>6. CASE RequestBooking(c)
    BY <1>6 DEF RequestBooking
<1>7. CASE UpdateBooking(c)
    BY <1>7 DEF UpdateBooking
<1>8. CASE Begin(c)
    BY <1>8 DEF Begin
<1>9. CASE LoadForBooking(c)
    BY <1>9 DEF LoadForBooking
<1>10. CASE LoadForUpdate(c)
    BY <1>10 DEF LoadForUpdate
<1>11. CASE UpsertVehicle(c)
    BY <1>11 DEF UpsertVehicle
<1>12. CASE CreateAppointment(c)
    BY <1>12 DEF CreateAppointment
<1>13. CASE CreateReservation(c)
    BY <1>13 DEF CreateReservation
<1>14. CASE UpdateAppointmentStatus(c)
    BY <1>14 DEF UpdateAppointmentStatus
<1>15. CASE Commit(c)
    BY <1>15 DEF Commit
<1>16. CASE Rollback(c)
    BY <1>16 DEF Rollback
<1>17. CASE Backstop(c)
    BY <1>17 DEF Backstop
<1>18. CASE Return(c)
    BY <1>18 DEF Return
<1>19. CASE Recover(c)
    BY <1>19 DEF Recover
<1>20. CASE StatementFails(c)
    BY <1>20 DEF StatementFails
<1>21. CASE Panic(c)
    BY <1>21 DEF Panic
<1> QED
    BY <1>1, <1>2, <1>3, <1>4, <1>5, <1>6, <1>7, <1>8, <1>9, <1>10, <1>11, <1>12, <1>13,
       <1>14, <1>15, <1>16, <1>17, <1>18, <1>19, <1>20, <1>21

\* Every handler that acts does so for one user.
LEMMA ActsStep ==
    ASSUME IInv, NEW c \in Calls, CallStep(c)
    PROVE  ActsForOneUser'
<1>1. ASSUME NEW d \in Calls, Acts(d) PROVE NamesOneUser(d)
    BY <1>1 DEF IInv, ActsForOneUser, Acts, NamesOneUser
<1>2. ASSUME NEW d \in Calls, Acts(d)' PROVE NamesOneUser(d) /\ request'[d] = request[d]
    <2>1. CASE Acts(d)
        <3>1. request[d] # None
            BY <2>1 DEF Acts, IInv, CallerInv, CallerOK, HandlerInv, HandlerOK, TxPc
        <3> QED
            BY <1>1, <2>1, <3>1, LastingForAll
    <2>2. CASE d = c /\ Receive(c) /\ Refusal(request[c]) = NoError
        <3>1. request[c] # None /\ request' = request
            BY <2>2 DEF Receive
        <3>2. /\ request[c].user \in Seq({request[c].user[i] : i \in DOMAIN request[c].user})
              /\ Route(request[c]) \in {"request", "get", "confirm", "cancel"}
            BY <3>1, RouteIsOperation DEF IInv, CallerInv, CallerOK, WellFormed
        <3>3. Len(request[c].user) = 1 /\ ~IsBlank(HeaderValue(request[c].user))
            BY <2>2, <3>2, AcceptedNamesOneUser
        <3> QED
            BY <2>2, <3>1, <3>3 DEF NamesOneUser, UserOf
    <2>3. Acts(d) \/ (d = c /\ Receive(c) /\ Refusal(request[c]) = NoError)
        <3>1. CASE d = c
            BY <1>2, <3>1, ActsCases
        <3>2. CASE d # c
            <4>1. spc'[d] = spc[d] /\ did'[d] = did[d]
                BY <3>2, Frame DEF IInv
            <4> QED
                BY <1>2, <4>1 DEF Acts
        <3> QED
            BY <3>1, <3>2
    <2> QED
        BY <2>1, <2>2, <2>3
<1>3. ASSUME NEW d \in Calls, Acts(d)' PROVE NamesOneUser(d)'
    BY <1>2, <1>3 DEF NamesOneUser, UserOf
<1> QED
    BY <1>3 DEF ActsForOneUser, Acts, NamesOneUser

\* An answer that stays leaves all answers as they are.
LEMMA AnswerStaysFunction ==
    ASSUME IInv, NEW c \in Calls, CallStep(c), answer'[c] = answer[c]
    PROVE  answer' = answer
<1>0. answer \in [Calls -> Responses \cup {None}]
    BY DEF IInv, TypeOK
<1>1. CASE Send(c)
    BY <1>1, <1>0 DEF Send
<1>2. CASE Deliver(c)
    BY <1>2, <1>0 DEF Deliver
<1>3. CASE GiveUp(c)
    BY <1>3, <1>0 DEF GiveUp
<1>4. CASE Receive(c)
    BY <1>4, <1>0 DEF Receive
<1>5. CASE GetReservation(c)
    BY <1>5, <1>0 DEF GetReservation
<1>6. CASE RequestBooking(c)
    BY <1>6, <1>0 DEF RequestBooking
<1>7. CASE UpdateBooking(c)
    BY <1>7, <1>0 DEF UpdateBooking
<1>8. CASE Begin(c)
    BY <1>8, <1>0 DEF Begin
<1>9. CASE LoadForBooking(c)
    BY <1>9, <1>0 DEF LoadForBooking
<1>10. CASE LoadForUpdate(c)
    BY <1>10, <1>0 DEF LoadForUpdate
<1>11. CASE UpsertVehicle(c)
    BY <1>11, <1>0 DEF UpsertVehicle
<1>12. CASE CreateAppointment(c)
    BY <1>12, <1>0 DEF CreateAppointment
<1>13. CASE CreateReservation(c)
    BY <1>13, <1>0 DEF CreateReservation
<1>14. CASE UpdateAppointmentStatus(c)
    BY <1>14, <1>0 DEF UpdateAppointmentStatus
<1>15. CASE Commit(c)
    BY <1>0, <1>15, CommitCases
<1>16. CASE Rollback(c)
    BY <1>0, <1>16, RollbackCases
<1>17. CASE Backstop(c)
    BY <1>17, <1>0 DEF Backstop
<1>18. CASE Return(c)
    BY <1>18, <1>0 DEF Return
<1>19. CASE Recover(c)
    BY <1>19, <1>0 DEF Recover
<1>20. CASE StatementFails(c)
    BY <1>0, <1>20, StatementFailsEffect DEF IInv
<1>21. CASE Panic(c)
    BY <1>21, <1>0 DEF Panic
<1> QED
    BY <1>1, <1>2, <1>3, <1>4, <1>5, <1>6, <1>7, <1>8, <1>9, <1>10, <1>11, <1>12, <1>13,
       <1>14, <1>15, <1>16, <1>17, <1>18, <1>19, <1>20, <1>21

-----------------------------------------------------------------------------
(* Every step of a call keeps the invariant. *)

\* Types.
LEMMA TypeStep ==
    ASSUME IInv, NEW c \in Calls, CallStep(c)
    PROVE  TypeOK'
<1>1. answer' \in [Calls -> Responses \cup {None}]
    <2>1. CASE answer[c] = None
        BY <2>1, AnswerIsNew
    <2>2. CASE answer[c] # None
        <3>1. answer'[c] = answer[c]
            BY <2>2, AnswerStays
        <3>2. answer' = answer
            BY <3>1, AnswerStaysFunction
        <3> QED
            BY <3>2 DEF IInv, TypeOK
    <2> QED
        BY <2>1, <2>2
<1>2. /\ form' \in Scenarios
      /\ cpc' \in [Calls -> {"idle", "sent", "done"}]
      /\ spc' \in [Calls -> ServerPc]
      /\ found' \in [Calls -> Calls \cup {None}]
      /\ draft' \in [Calls -> SUBSET (Rows \cup {"status"})]
      /\ store' \in [Calls -> SUBSET Rows]
      /\ seen' \in [Calls -> Statuses \cup {"none"}]
      /\ DOMAIN request' = Calls
      /\ since' \in [Calls -> SUBSET Calls]
    BY PlacesStep
<1>3. panicked' \in [Calls -> BOOLEAN] /\ did' \in [Calls -> BOOLEAN]
    BY BooleansStep
<1>4. tries' \in [Calls -> 0..MaxTries] /\ faults' \in 0..MaxFaults
    BY NumbersStep
<1>5. status' \in [Calls -> Statuses] /\ err' \in [Calls -> Errors]
    BY StatusGoesOn, ErrorStep
<1>6. /\ wire' \in [Calls -> Responses \cup {None}]
      /\ log' \in [Calls -> LogEntries \cup {None}]
      /\ told' \in [Calls -> Outcomes \cup {None}]
    BY WireStep
<1> QED
    BY <1>1, <1>2, <1>3, <1>4, <1>5, <1>6, Zenon DEF TypeOK

\* The parts that speak of one call: its own step keeps them, and the others' steps.
LEMMA PartsStep ==
    ASSUME IInv, NEW c \in Calls, CallStep(c)
    PROVE  /\ CallerInv' /\ HandlerInv' /\ RouteInv' /\ DraftInv' /\ ErrorInv' /\ AnswerInv'
           /\ WireInv' /\ EveryFailureIsLogged'
<1>1. /\ CallerOK(c)' /\ HandlerOK(c)' /\ RouteOK(c)' /\ DraftOK(c)' /\ ErrorOK(c)'
      /\ WireOK(c)' /\ Logged(c)'
    BY CallerStep, HandlerStep, RouteStep, DraftStep, ErrorStep, WireStep
<1>2. AnswerOK(c)'
    BY AnswerStays, AnswerIsNew
<1>3. ASSUME NEW d \in Calls \ {c}
      PROVE  /\ CallerOK(d)' /\ HandlerOK(d)' /\ RouteOK(d)' /\ DraftOK(d)' /\ ErrorOK(d)'
             /\ AnswerOK(d)' /\ WireOK(d)' /\ Logged(d)'
    <2>1. /\ cpc'[d] = cpc[d] /\ request'[d] = request[d] /\ told'[d] = told[d]
          /\ spc'[d] = spc[d] /\ err'[d] = err[d]
          /\ answer'[d] = answer[d] /\ wire'[d] = wire[d] /\ log'[d] = log[d]
          /\ found'[d] = found[d] /\ draft'[d] = draft[d]
          /\ panicked'[d] = panicked[d] /\ store'[d] = store[d]
          /\ did'[d] = did[d]
        BY Frame DEF IInv
    <2>2. form' = form
        BY Lasting
    <2>3. CallerOK(d)'
        BY <2>1, <2>2 DEF IInv, CallerInv, CallerOK
    <2>4. HandlerOK(d)'
        BY <2>1 DEF IInv, HandlerInv, HandlerOK, AtWork, InTx
    <2>5. RouteOK(d)'
        BY <2>1, <2>2 DEF IInv, RouteInv, RouteOK, AtWork, InTx
    <2>6. DraftOK(d)'
        <3>1. spc[d] = "finish" => KeyHolders(d) \subseteq KeyHolders(d)'
            BY KeyHoldersGrow DEF IInv, CallerInv, CallerOK
        <3> QED
            BY <2>1, <2>2, <3>1 DEF IInv, DraftInv, DraftOK
    <2>7. ErrorOK(d)'
        BY <2>1, <2>2 DEF IInv, ErrorInv, ErrorOK, IsUniqueViolation, IsSerialization
    <2>8. AnswerOK(d)'
        <3>1. CASE answer[d] # None
            BY <3>1, AnswerStays
        <3>2. CASE answer[d] = None
            BY <2>1, <3>2 DEF AnswerOK
        <3> QED
            BY <3>1, <3>2
    <2>9. WireOK(d)'
        BY <2>1, <2>2 DEF IInv, WireInv, WireOK, Parse
    <2>10. Logged(d)'
        BY <2>1 DEF IInv, EveryFailureIsLogged, Logged
    <2> QED
        BY <2>3, <2>4, <2>5, <2>6, <2>7, <2>8, <2>9, <2>10
<1> QED
    BY <1>1, <1>2, <1>3, Zenon DEF CallerInv, HandlerInv, RouteInv, DraftInv, ErrorInv, AnswerInv, WireInv,
       EveryFailureIsLogged, Logged

\* Together.
LEMMA CallKeepsInv ==
    ASSUME IInv, NEW c \in Calls, CallStep(c)
    PROVE  IInv'
BY TypeStep, TriesStep, PartsStep, KeyStep, LockStep, SinceStep, ActsStep DEF IInv

-----------------------------------------------------------------------------
(* A crash, and the invariant. *)

\* A crash loses the handlers with what they had not committed, and keeps the invariant.
LEMMA CrashKeepsInv == ASSUME IInv, Crash PROVE IInv'
<1>1. /\ spc' = [c \in Calls |-> IF spc[c] = "away" THEN "away" ELSE "gone"]
      /\ draft' = [c \in Calls |-> {}]
      /\ UNCHANGED <<form, cpc, request, told, since, err, answer, wire, log, tries, found, seen,
                     panicked, store, status, did>>
      /\ Fault
    BY DEF Crash
<1>2. ASSUME NEW c \in Calls
      PROVE  /\ spc[c] = "away" => spc'[c] = "away"
             /\ spc[c] # "away" => spc'[c] = "gone"
             /\ draft'[c] = {}
    BY <1>1
<1>3. Bookings' = Bookings
    BY <1>1 DEF Bookings
<1>4. TypeOK'
    <2>1. spc' \in [Calls -> ServerPc] /\ draft' \in [Calls -> SUBSET (Rows \cup {"status"})]
        BY <1>1 DEF ServerPc
    <2>2. faults' \in 0..MaxFaults
        <3>1. faults \in 0..MaxFaults
            BY DEF IInv, TypeOK
        <3> QED
            BY <1>1, <3>1, BoundsAssumption DEF Fault
    <2>3. TypeOK
        BY DEF IInv
    <2> QED
        BY <1>1, <2>1, <2>2, <2>3, Zenon DEF TypeOK
<1>5. TriesInv'
    BY <1>1, <1>2 DEF IInv, TriesInv
<1>6. CallerInv'
    BY <1>1, <1>2 DEF IInv, CallerInv, CallerOK
<1>7. HandlerInv'
    BY <1>1, <1>2 DEF IInv, HandlerInv, HandlerOK, AtWork, InTx, TxPc
<1>8. RouteInv'
    BY <1>1, <1>2 DEF IInv, RouteInv, RouteOK, AtWork, InTx, TxPc
<1>9. DraftInv'
    BY <1>1, <1>2, DraftShapes DEF IInv, DraftInv, DraftOK
<1>10. KeyInv'
    BY <1>1, <1>2 DEF IInv, KeyInv, Indexed, SameKey
<1>11. StatusInv'
    BY <1>1, <1>2 DEF IInv, StatusInv
<1>12. ErrorInv'
    BY <1>1, <1>2 DEF IInv, ErrorInv, ErrorOK, IsUniqueViolation, IsSerialization
<1>13. AnswerInv'
    BY <1>1, <1>3 DEF IInv, AnswerInv, AnswerOK, Target, UserOf, KeyHolders,
                      GetReservationByIdempotencyKey
<1>14. WireInv'
    BY <1>1 DEF IInv, WireInv, WireOK, Parse
<1>15. SinceInv'
    BY <1>1, <1>3 DEF IInv, SinceInv, SinceOK, Succeeded, Missed, Target, UserOf
<1>16. ActsForOneUser'
    BY <1>1, <1>2 DEF IInv, ActsForOneUser, UserOf, TxPc
<1>17. EveryFailureIsLogged'
    BY <1>1 DEF IInv, EveryFailureIsLogged
<1> QED
    BY <1>4, <1>5, <1>6, <1>7, <1>8, <1>9, <1>10, <1>11, <1>12, <1>13, <1>14, <1>15, <1>16, <1>17
       DEF IInv

\* So does doing nothing.
LEMMA StutterKeepsInv == ASSUME IInv, UNCHANGED vars PROVE IInv'
<1>1. UNCHANGED <<form, cpc, request, told, since, err, answer, wire, log, tries, found, seen,
                  draft, spc, panicked, store, status, did, faults>>
    BY DEF vars
<1>2. Bookings' = Bookings
    BY <1>1 DEF Bookings
<1>3. TypeOK' /\ TriesInv' /\ CallerInv'
    BY <1>1 DEF IInv, TypeOK, TriesInv, CallerInv, CallerOK
<1>4. HandlerInv' /\ RouteInv'
    BY <1>1 DEF IInv, HandlerInv, HandlerOK, RouteInv, RouteOK, AtWork, InTx
<1>5. DraftInv'
    BY <1>1, <1>2 DEF IInv, DraftInv, DraftOK, KeyHolders, GetReservationByIdempotencyKey
<1>6. KeyInv'
    BY <1>1 DEF IInv, KeyInv, Indexed, SameKey
<1>7. StatusInv'
    BY <1>1, <1>2 DEF IInv, StatusInv, Target
<1>8. ErrorInv'
    BY <1>1 DEF IInv, ErrorInv, ErrorOK, IsUniqueViolation, IsSerialization
<1>9. AnswerInv'
    BY <1>1, <1>2 DEF IInv, AnswerInv, AnswerOK, Target, UserOf, KeyHolders,
                      GetReservationByIdempotencyKey
<1>10. WireInv'
    BY <1>1 DEF IInv, WireInv, WireOK, Parse
<1>11. SinceInv'
    BY <1>1, <1>2 DEF IInv, SinceInv, SinceOK, Succeeded, Missed, Target, UserOf
<1>12. ActsForOneUser' /\ EveryFailureIsLogged'
    BY <1>1 DEF IInv, ActsForOneUser, EveryFailureIsLogged, UserOf
<1> QED
    BY <1>3, <1>4, <1>5, <1>6, <1>7, <1>8, <1>9, <1>10, <1>11, <1>12 DEF IInv

\* The invariant of the service: it holds at first and every step keeps it.
THEOREM Invariance == Spec => []IInv
<1>1. Init => IInv
    BY InitInv
<1>2. IInv /\ [Next]_vars => IInv'
    <2> SUFFICES ASSUME IInv, [Next]_vars PROVE IInv'
        OBVIOUS
    <2>1. ASSUME NEW c \in Calls, CallStep(c) PROVE IInv'
        BY <2>1, CallKeepsInv
    <2>2. CASE Crash
        BY <2>2, CrashKeepsInv
    <2>3. CASE UNCHANGED vars
        BY <2>3, StutterKeepsInv
    <2> QED
        BY <2>1, <2>2, <2>3 DEF Next
<1> QED
    BY <1>1, <1>2, PTL DEF Spec

-----------------------------------------------------------------------------
(* What follows for the callers. *)

\* Every outcome but the failure on the way is what the client makes of the wire.
LEMMA ToldByTheWire ==
    ASSUME IInv, NEW c \in Calls, cpc[c] = "done", told[c].field # "error"
    PROVE  wire[c] # None /\ told[c] = Parse(c)
<1>1. told[c] # None
    BY DEF IInv, CallerInv, CallerOK
<1>2. told[c] # Failed
    <2>1. Failed.field = "error"
        BY DEF Failed
    <2> QED
        BY <2>1
<1> QED
    BY <1>1, <1>2 DEF IInv, WireInv, WireOK

\* The statuses and the bodies of successes.
LEMMA AnswerFields ==
    ASSUME NEW b
    PROVE  /\ VisitRequestBooking201(b).status = 201 /\ VisitRequestBooking201(b).json
           /\ VisitGetReservation200(b).status = 200 /\ VisitGetReservation200(b).json
           /\ VisitGetReservation200(b).body = b
           /\ VisitConfirmBooking200(b).status = 200 /\ VisitConfirmBooking200(b).json
           /\ VisitConfirmBooking200(b).body = b
           /\ VisitCancelBooking204.status = 204
BY DEF VisitRequestBooking201, VisitGetReservation200, VisitConfirmBooking200,
       VisitCancelBooking204, Response

\* An answer has a status of success, and only a cancellation's is no JSON.
LEMMA AnswerStatus ==
    ASSUME IInv, NEW c \in Calls, answer[c] # None
    PROVE  /\ answer[c].status \in {200, 201, 204}
           /\ ~answer[c].json => form[c].op = "cancel"
<1>1. AnswerOK(c)
    BY DEF IInv, AnswerInv
<1>2. form[c].op \in {"request", "get", "confirm", "cancel"}
    BY ScenariosAssumption DEF IInv, TypeOK
<1>3. CASE form[c].op = "request"
    <2>1. PICK b : answer[c] = VisitRequestBooking201(b)
        BY <1>1, <1>3 DEF AnswerOK
    <2> QED
        BY <2>1, AnswerFields
<1>4. CASE form[c].op = "get"
    <2>1. PICK b : answer[c] = VisitGetReservation200(b)
        BY <1>1, <1>4 DEF AnswerOK
    <2> QED
        BY <2>1, AnswerFields
<1>5. CASE form[c].op = "confirm"
    <2>1. PICK b : answer[c] = VisitConfirmBooking200(b)
        BY <1>1, <1>5 DEF AnswerOK
    <2> QED
        BY <2>1, AnswerFields
<1>6. CASE form[c].op = "cancel"
    BY <1>1, <1>6, AnswerFields DEF AnswerOK
<1> QED
    BY <1>2, <1>3, <1>4, <1>5, <1>6

\* A refusal on the wire is the error the handler ended with.
LEMMA RefusalOnTheWire ==
    ASSUME IInv, NEW c \in Calls, wire[c] # None, wire[c].status \in {400, 401, 404, 409, 410}
    PROVE  /\ err[c] # NoError /\ err[c].kind \in {"common", "http"}
           /\ err[c].status = wire[c].status
<1>1. WireOK(c)
    BY DEF IInv, WireInv
<1>2. answer[c] = None
    <2>1. CASE answer[c] # None
        <3>1. wire[c] = answer[c] /\ answer[c].status \in {200, 201, 204}
            BY <1>1, <2>1, AnswerStatus DEF WireOK
        <3> QED
            BY <3>1
    <2> QED
        BY <2>1
<1>3. ~panicked[c]
    <2>1. CASE panicked[c]
        <3>1. wire[c] = ErrorResponse(PlainError(FALSE))
            BY <1>1, <1>2, <2>1 DEF WireOK
        <3>2. wire[c].status = 500
            BY <3>1, PanicFacts, ZenonT(40)
        <3> QED
            BY <3>2
    <2> QED
        BY <2>1
<1>4. err[c] # NoError /\ wire[c] = ErrorResponse(ContextTimeout(err[c]))
    BY <1>1, <1>2, <1>3 DEF WireOK
<1>5. Writable(err[c])
    BY <1>4, ErrorIsWritable
<1>6. /\ IF err[c].late THEN wire[c].status = 503
         ELSE IF err[c].kind = "plain" THEN wire[c].status = 500
         ELSE wire[c].status = err[c].status
    BY <1>4, <1>5, WrittenError
<1>7. err[c].kind \in {"common", "http", "plain"}
    BY <1>5 DEF Writable, Errors
<1>8. ~err[c].late /\ err[c].kind # "plain"
    BY <1>6
<1> QED
    BY <1>4, <1>6, <1>7, <1>8

\* The types of everything the service and its callers hold.
THEOREM TypeCorrect == Spec => []TypeOK
<1>1. IInv => TypeOK
    BY DEF IInv
<1> QED
    BY <1>1, Invariance, PTL

\* The three rows of a booking are committed together or not at all, unless the handler
\* panicked between them; and what a panic leaves has no reservation.
THEOREM RowsTogether == Spec => []PartialOnlyAfterPanic
<1>1. IInv => PartialOnlyAfterPanic
    BY DEF IInv, DraftInv, DraftOK, PartialOnlyAfterPanic, Bookings
<1> QED
    BY <1>1, Invariance, PTL

\* What a caller reads of a success is in the tables, whatever was lost, retried or died.
THEOREM SuccessIsTrue == Spec => []AnswersAreTrue
<1>1. ASSUME IInv, NEW c \in Calls, Told(c, "JSON201")
      PROVE  store[told[c].body] = Rows /\ SameKey(c, told[c].body)
    <2>1. cpc[c] = "done" /\ told[c].field = "JSON201"
        BY <1>1 DEF Told
    <2>2. Succeeded(c) /\ wire[c] # None /\ told[c] = Parse(c)
        BY <1>1, <2>1, ToldByTheWire DEF Succeeded, IInv, CallerInv, CallerOK
    <2>3. c \in Bookings
        BY <1>1, <2>1, <2>2, ParseFacts DEF IInv, Bookings
    <2> QED
        BY <1>1, <2>2, <2>3, ToldBooking
<1>2. ASSUME IInv, NEW c \in Calls, Told(c, "JSON200"), form[c].op = "confirm"
      PROVE  did[c] /\ status[told[c].body] # "pending"
    <2>1. Succeeded(c)
        BY <1>2 DEF Told, Succeeded, IInv, CallerInv, CallerOK
    <2>2. answer[c] # None /\ told[c].body = answer[c].body
        BY <1>2, <2>1, SuccessWasAnswered
    <2>3. /\ answer[c] = VisitConfirmBooking200(Target(c)) /\ did[c]
          /\ status[Target(c)] # "pending"
        BY <1>2, <2>2 DEF IInv, AnswerInv, AnswerOK
    <2>4. answer[c].body = Target(c)
        BY <2>3, AnswerFields
    <2> QED
        BY <2>2, <2>3, <2>4
<1>3. ASSUME IInv, NEW c \in Calls, Told(c, "none")
      PROVE  did[c] /\ status[Target(c)] = "cancelled"
    <2>1. Succeeded(c) /\ cpc[c] = "done" /\ told[c].field = "none"
        BY <1>3 DEF Told, Succeeded, IInv, CallerInv, CallerOK
    <2>2. answer[c] # None /\ wire[c] = answer[c] /\ wire[c] # None /\ told[c] = Parse(c)
        BY <1>3, <2>1, SuccessWasAnswered
    <2>3. ~wire[c].json
        BY <1>3, <2>1, <2>2, ParseFacts DEF IInv
    <2>4. form[c].op = "cancel"
        BY <1>3, <2>2, <2>3, AnswerStatus
    <2> QED
        BY <1>3, <2>2, <2>4 DEF IInv, AnswerInv, AnswerOK
<1>4. ASSUME IInv, NEW c \in Calls, Told(c, "JSON200"), form[c].op = "get"
      PROVE  /\ UserOf(told[c].body.reservation) = UserOf(c)
             /\ told[c].body.status # "pending" => status[Target(c)] # "pending"
    <2>1. Succeeded(c)
        BY <1>4 DEF Told, Succeeded, IInv, CallerInv, CallerOK
    <2>2. answer[c] # None /\ told[c].body = answer[c].body
        BY <1>4, <2>1, SuccessWasAnswered
    <2>3. /\ answer[c] = VisitGetReservation200([reservation |-> Target(c),
                                                 status |-> answer[c].body.status])
          /\ UserOf(Target(c)) = UserOf(c)
          /\ answer[c].body.status # "pending" => status[Target(c)] # "pending"
        BY <1>4, <2>2 DEF IInv, AnswerInv, AnswerOK
    <2>4. answer[c].body.reservation = Target(c)
        <3>1. PICK details : /\ details = [reservation |-> Target(c), status |-> answer[c].body.status]
                             /\ answer[c] = VisitGetReservation200(details)
            BY <2>3
        <3>2. answer[c].body = details
            BY <3>1, AnswerFields
        <3> QED
            BY <3>1, <3>2
    <2> QED
        BY <2>2, <2>3, <2>4
<1>5. IInv => AnswersAreTrue
    BY <1>1, <1>2, <1>3, <1>4 DEF AnswersAreTrue
<1> QED
    BY <1>5, Invariance, PTL

\* One key, one reservation: callers with one key who both get a reservation get the same.
THEOREM OneReservationPerKey == Spec => []SameKeySameReservation
<1>1. ASSUME IInv, NEW c \in Bookings, Told(c, "JSON201")
      PROVE  /\ told[c].body \in Calls /\ Indexed(told[c].body)
             /\ SameKey(c, told[c].body)
    <2>1. c \in Calls
        BY DEF Bookings
    <2>2. Succeeded(c)
        BY <1>1, <2>1 DEF Told, Succeeded, IInv, CallerInv, CallerOK
    <2>3. /\ told[c].body \in Bookings /\ store[told[c].body] = Rows /\ SameKey(c, told[c].body)
        BY <1>1, <2>2, ToldBooking
    <2> QED
        BY <2>3 DEF Indexed, Rows, Bookings
<1>2. ASSUME IInv, NEW c \in Bookings, NEW d \in Bookings,
             Told(c, "JSON201"), Told(d, "JSON201"), SameKey(c, d)
      PROVE  told[c].body = told[d].body
    <2>1. SameKey(told[c].body, told[d].body)
        BY <1>1, <1>2 DEF SameKey
    <2> QED
        BY <1>1, <1>2, <2>1 DEF IInv, KeyInv
<1>3. IInv => SameKeySameReservation
    BY <1>2 DEF SameKeySameReservation
<1> QED
    BY <1>3, Invariance, PTL

\* Who reads a refusal has changed nothing.
THEOREM RefusalIsUndone == Spec => []RefusedMeansUndone
<1>1. ASSUME IInv, NEW c \in Calls, ToldRefused(c) PROVE ~did[c]
    <2>1. cpc[c] = "done" /\ told[c].field \in RefusedFields
        BY <1>1 DEF ToldRefused, Told, RefusedFields
    <2>2. wire[c] # None /\ told[c] = Parse(c)
        BY <1>1, <2>1, ToldByTheWire DEF RefusedFields
    <2>3. wire[c].status \in {400, 401, 404, 409, 410}
        BY <1>1, <2>1, <2>2, ParseFacts DEF IInv
    <2>4. err[c].kind \in {"common", "http"}
        BY <1>1, <2>2, <2>3, RefusalOnTheWire
    <2> QED
        BY <1>1, <2>4 DEF IInv, ErrorInv, ErrorOK
<1>2. IInv => RefusedMeansUndone
    BY <1>1 DEF RefusedMeansUndone
<1> QED
    BY <1>2, Invariance, PTL

\* Errors reach the caller under their slug, in the field of their status.
THEOREM ErrorsAreKept == Spec => []ErrorsKeepTheirMeaning
<1>1. ASSUME IInv, NEW c \in Calls, cpc[c] = "done", told[c].field # "error", err[c] # NoError
      PROVE  IF err[c].late \/ err[c].kind = "plain" THEN Told(c, "JSONDefault")
             ELSE /\ told[c].slug = err[c].slug
                  /\ err[c].kind = "common" => ToldRefused(c)
    <2>1. wire[c] # None /\ told[c] = Parse(c)
        BY <1>1, ToldByTheWire
    <2>2. answer[c] = None /\ ~panicked[c]
        BY <1>1 DEF IInv, HandlerInv, HandlerOK
    <2>3. wire[c] = ErrorResponse(ContextTimeout(err[c]))
        BY <1>1, <2>1, <2>2 DEF IInv, WireInv, WireOK
    <2>4. Writable(err[c])
        BY <1>1, ErrorIsWritable
    <2>5. /\ wire[c].json
          /\ IF err[c].late THEN wire[c].status = 503
             ELSE IF err[c].kind = "plain" THEN wire[c].status = 500
             ELSE wire[c].status = err[c].status /\ wire[c].slug = err[c].slug
        BY <2>3, <2>4, WrittenError
    <2>6. /\ Parse(c).slug = wire[c].slug
          /\ wire[c].json /\ wire[c].status \in Declared(form[c].op) => Parse(c).field \in RefusedFields
          /\ wire[c].json /\ wire[c].status \in {500, 503} => Parse(c).field = "JSONDefault"
        BY <1>1, <2>1, ParseFacts DEF IInv
    <2>7. err[c].kind = "common" => err[c].status \in Declared(form[c].op)
        BY <1>1 DEF IInv, ErrorInv, ErrorOK
    <2>8. CASE err[c].late \/ err[c].kind = "plain"
        <3>1. wire[c].status \in {500, 503}
            BY <2>5, <2>8
        <3> QED
            BY <1>1, <2>1, <2>5, <2>6, <2>8, <3>1 DEF Told
    <2>9. CASE ~(err[c].late \/ err[c].kind = "plain")
        <3>1. err[c].kind = "common" => Parse(c).field \in RefusedFields
            BY <2>5, <2>6, <2>7, <2>9
        <3>2. err[c].kind = "common" => ToldRefused(c)
            BY <1>1, <2>1, <3>1 DEF ToldRefused, Told, RefusedFields
        <3> QED
            BY <2>1, <2>5, <2>6, <2>9, <3>2
    <2> QED
        BY <2>8, <2>9
<1>2. IInv => ErrorsKeepTheirMeaning
    BY <1>1 DEF ErrorsKeepTheirMeaning
<1> QED
    BY <1>2, Invariance, PTL

\* Nothing is read or written for a request that does not name one user.
THEOREM OneUser == Spec => []ActsForOneUser
<1>1. IInv => ActsForOneUser
    BY DEF IInv
<1> QED
    BY <1>1, Invariance, PTL

\* A booking that is known is found by its owner.
THEOREM ReadsAreCurrent == Spec => []ReadsSeeWhatWasTold
<1>1. ASSUME IInv, NEW c \in Calls, Told(c, "JSON404"), form[c].op # "request",
             NEW b \in since[c] \cap Bookings, told[b].body = Target(c)
      PROVE  UserOf(c) # UserOf(Target(c))
    <2>1. cpc[c] = "done" /\ told[c].field = "JSON404"
        BY <1>1 DEF Told
    <2>2. wire[c] # None /\ told[c] = Parse(c)
        BY <1>1, <2>1, ToldByTheWire
    <2>3. wire[c].status = 404
        BY <1>1, <2>1, <2>2, ParseFacts DEF IInv
    <2>4. err[c].status = 404
        BY <1>1, <2>2, <2>3, RefusalOnTheWire
    <2>5. ~Missed(c)
        BY <1>1, <2>4 DEF IInv, SinceInv, SinceOK
    <2> QED
        BY <1>1, <2>5 DEF Missed
<1>2. IInv => ReadsSeeWhatWasTold
    BY <1>1 DEF ReadsSeeWhatWasTold
<1> QED
    BY <1>2, Invariance, PTL

\* An answer that is on its way is not followed by an error.
THEOREM AnswerIsFinal == Spec => []AnswerIsNotOverwritten
<1>1. IInv => AnswerIsNotOverwritten
    BY DEF IInv, WireInv, WireOK, AnswerIsNotOverwritten
<1> QED
    BY <1>1, Invariance, PTL

\* The log has an entry of every request that got an answer, true of a success.
THEOREM FailuresAreLogged == Spec => []EveryFailureIsLogged
<1>1. IInv => EveryFailureIsLogged
    BY DEF IInv
<1> QED
    BY <1>1, Invariance, PTL

=============================================================================
