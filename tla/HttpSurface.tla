----------------------------- MODULE HttpSurface -----------------------------
(***************************************************************************)
(* The server's side of HTTP, as operators without state: which errors     *)
(* there are, what the generated wrappers and the handlers refuse before   *)
(* the service is called, what a success is written as, and what           *)
(* EchoErrorHandler and the middlewares make of an error.                  *)
(*                                                                         *)
(* A request is a record; a header is the sequence of values it was sent   *)
(* with.  A value, a uuid or a body is only what the code tells apart.     *)
(***************************************************************************)
EXTENDS Integers, Sequences

CONSTANTS
    None,               \* no value
    Blank,              \* a header value of white space
    Malformed           \* a path parameter that is no uuid

-----------------------------------------------------------------------------
(* Errors, as EchoErrorHandler and ContextTimeout tell them apart.  late: the  *)
(* chain holds context.DeadlineExceeded.                                       *)

Error(kind, status, slug, late) ==
    [kind |-> kind, status |-> status, slug |-> slug, late |-> late]

NoError == Error("none", 0, "", FALSE)

\* http.StatusText in lower case with underscores.
StatusSlug(status) ==
    CASE status = 400 -> "bad_request"
      [] status = 404 -> "not_found"
      [] status = 415 -> "unsupported_media_type"
      [] status = 503 -> "service_unavailable"

HTTPError(status) == Error("http", status, StatusSlug(status), FALSE)

NewNotFoundError(slug)     == Error("common", 404, slug, FALSE)
NewInvalidInputError(slug) == Error("common", 400, slug, FALSE)
NewUnauthorizedError(slug) == Error("common", 401, slug, FALSE)
NewExpiredError(slug)      == Error("common", 410, slug, FALSE)
NewConflictError(slug)     == Error("common", 409, slug, FALSE)

\* Any error that is neither: of the database, of the context, a panic.
PlainError(late) == Error("plain", 0, "", late)

FirstError(errors) ==
    LET bad == {i \in DOMAIN errors : errors[i] # NoError}
    IN  IF bad = {} THEN NoError
        ELSE errors[CHOOSE i \in bad : \A j \in bad : i =< j]

-----------------------------------------------------------------------------
(* The wrappers bind path and headers, the strict handler binds the body. *)

BindUuid(uuid) == IF uuid = Malformed THEN HTTPError(400) ELSE NoError
BindHeader(values) == IF Len(values) > 1 THEN HTTPError(400) ELSE NoError

WrapCancelBooking(r)  == FirstError(<<BindUuid(r.uuid), BindHeader(r.user)>>)
WrapRequestBooking(r) == FirstError(<<BindHeader(r.user), BindHeader(r.key)>>)
WrapGetReservation(r) == FirstError(<<BindUuid(r.uuid), BindHeader(r.user)>>)
WrapConfirmBooking(r) == FirstError(<<BindUuid(r.uuid), BindHeader(r.user)>>)

\* BindBody of echo: no body leaves the struct empty and is no error, so the
\* handler never meets a nil body.
StrictRequestBooking(r) ==
    CASE r.body = "malformed" -> HTTPError(400)
      [] r.body = "text"      -> HTTPError(415)
      [] OTHER                -> NoError

-----------------------------------------------------------------------------
(* The handlers, up to the call of the service or of the read model. *)

HeaderValue(values) == IF values = <<>> THEN None ELSE values[1]
IsBlank(value) == value \in {None, Blank}

\* Mutant: the value is not trimmed.
RequireUserIDUntrimmed(r) ==
    IF HeaderValue(r.user) = None
    THEN NewUnauthorizedError("not-authenticated") ELSE NoError

RequireUserID(r) ==
    IF IsBlank(HeaderValue(r.user))
    THEN NewUnauthorizedError("not-authenticated") ELSE NoError

RequireKey(r) ==
    IF IsBlank(HeaderValue(r.key))
    THEN NewInvalidInputError("missing-idempotency-key") ELSE NoError

HandlerRequestBooking(r) == FirstError(<<RequireUserID(r), RequireKey(r)>>)
HandlerConfirmBooking(r) == RequireUserID(r)
HandlerCancelBooking(r)  == RequireUserID(r)
HandlerGetReservation(r) == RequireUserID(r)

-----------------------------------------------------------------------------
(* The router and, behind it, everything that can refuse a request. *)

Route(r) ==
    CASE r.method = "POST" /\ r.path = "reservations" -> "request"
      [] r.method = "GET"  /\ r.path = "reservations" -> "get"
      [] r.method = "PUT"  /\ r.path = "reservations" -> "confirm"
      [] r.method = "PUT"  /\ r.path = "appointments" -> "cancel"
      [] OTHER                                        -> "none"

\* What comes back before the service is called, NoError if nothing does.
Refusal(r) ==
    CASE Route(r) = "request" ->
            FirstError(<<WrapRequestBooking(r), StrictRequestBooking(r),
                         HandlerRequestBooking(r)>>)
      [] Route(r) = "get" ->
            FirstError(<<WrapGetReservation(r), HandlerGetReservation(r)>>)
      [] Route(r) = "confirm" ->
            FirstError(<<WrapConfirmBooking(r), HandlerConfirmBooking(r)>>)
      [] Route(r) = "cancel" ->
            FirstError(<<WrapCancelBooking(r), HandlerCancelBooking(r)>>)
      [] OTHER -> HTTPError(404)

-----------------------------------------------------------------------------
(* Responses.  body is what the JSON names, slug that of an error. *)

Response(status, json, body, slug) ==
    [status |-> status, json |-> json, body |-> body, slug |-> slug]

VisitRequestBooking201(uuid)    == Response(201, TRUE, uuid, "")
VisitGetReservation200(details) == Response(200, TRUE, details, "")
VisitConfirmBooking200(uuid)    == Response(200, TRUE, uuid, "")
VisitCancelBooking204           == Response(204, FALSE, None, "")

\* Mutant: a common.Error is told by the status alone.
ErrorResponseWithoutSlug(e) ==
    IF e.kind = "plain" THEN Response(500, TRUE, None, "internal_server_error")
    ELSE Response(e.status, TRUE, None, "internal_server_error")

\* httpErrorResponseFromErr
ErrorResponse(e) ==
    IF e.kind = "plain" THEN Response(500, TRUE, None, "internal_server_error")
    ELSE Response(e.status, TRUE, None, e.slug)

\* middleware.ContextTimeout, given what comes back from the handler.
ContextTimeout(e) == IF e.late THEN HTTPError(503) ELSE e

\* Mutant: an answer already on its way is not looked at.
EchoErrorHandlerAgain(e, sent) == IF e = NoError THEN sent ELSE ErrorResponse(e)

\* EchoErrorHandler: what is on the wire after it, given what was before.
EchoErrorHandler(e, sent) ==
    IF e = NoError \/ sent # None THEN sent ELSE ErrorResponse(e)

\* Mutant: the entry does not carry the error.
RequestLogWithoutError(e, sent) ==
    [status |-> IF sent = None THEN 200 ELSE sent.status, failed |-> FALSE]

\* requestLogMiddleware logs before EchoErrorHandler has written: of a request
\* that failed it knows the error, and the status echo starts with.
RequestLog(e, sent) ==
    [status |-> IF sent = None THEN 200 ELSE sent.status, failed |-> e # NoError]
=============================================================================
