------------------------------ MODULE ApiClient ------------------------------
(***************************************************************************)
(* The generated HTTP client as operators without state: how a call is     *)
(* made into a request, what request editors may do to it, and which field *)
(* of the typed response an answer ends up in.                             *)
(***************************************************************************)
EXTENDS HttpSurface

CONSTANT SecondUser     \* a second value of X-User-Id

\* params is None (nil) or a record; an optional header is set only when given.
OptionalHeader(params, name) ==
    IF params = None THEN <<>>
    ELSE IF params[name] = None THEN <<>> ELSE <<params[name]>>

Request(method, path, uuid, params, key, body) ==
    [method |-> method, path |-> path, uuid |-> uuid,
     user |-> OptionalHeader(params, "user"), key |-> key, body |-> body]

NewCancelBookingRequest(uuid, params) ==
    Request("PUT", "appointments", uuid, params, <<>>, "none")
NewRequestBookingRequestWithBody(params, body) ==
    Request("POST", "reservations", None, params, OptionalHeader(params, "key"), body)
NewRequestBookingRequest(params) == NewRequestBookingRequestWithBody(params, "json")
NewGetReservationRequest(uuid, params) ==
    Request("GET", "reservations", uuid, params, <<>>, "none")
NewConfirmBookingRequest(uuid, params) ==
    Request("PUT", "reservations", uuid, params, <<>>, "none")

-----------------------------------------------------------------------------
\* Request editors are the caller's: one that adds a value to a header, ones that
\* replace the body or the path parameter, one that fails.
Edit(r, editor) ==
    CASE editor = "second-user" -> [r EXCEPT !.user = Append(@, SecondUser)]
      [] editor = "drop-body"   -> [r EXCEPT !.body = "none"]
      [] editor = "cut-body"    -> [r EXCEPT !.body = "malformed"]
      [] editor = "text-body"   -> [r EXCEPT !.body = "text"]
      [] editor = "bad-uuid"    -> [r EXCEPT !.uuid = Malformed]

\* "fail" is the one that returns an error.
Editors == {"second-user", "drop-body", "cut-body", "text-body", "bad-uuid", "fail"}

\* The client's editors, then those of the call; the first that fails ends it and
\* nothing is sent (None).  edited[i] is the request after the first i of them.
ApplyEditors(r, own, additional) ==
    LET editors == own \o additional
        edited[i \in 0..Len(editors)] ==
            IF i = 0 THEN r
            ELSE IF edited[i - 1] = None \/ editors[i] = "fail" THEN None
            ELSE Edit(edited[i - 1], editors[i])
    IN  edited[Len(editors)]

-----------------------------------------------------------------------------
(* The typed response: the field that is set, and what it holds. *)

Parsed(field, rsp) == [field |-> field, body |-> rsp.body, slug |-> rsp.slug]

\* The call returned an error: nothing sent, nothing received, or half a body.
Failed == [field |-> "error", body |-> None, slug |-> ""]

JSONField(status) ==
    CASE status = 200 -> "JSON200" [] status = 201 -> "JSON201"
      [] status = 400 -> "JSON400" [] status = 401 -> "JSON401"
      [] status = 404 -> "JSON404" [] status = 409 -> "JSON409"
      [] status = 410 -> "JSON410"

\* The cases of one switch: declared statuses have a field of their own, every
\* other JSON answer is the default.
ParseDeclared(rsp, declared) ==
    IF ~rsp.json THEN Parsed("none", rsp)
    ELSE IF rsp.status \in declared THEN Parsed(JSONField(rsp.status), rsp)
    ELSE Parsed("JSONDefault", rsp)

ParseCancelBookingClientResponse(rsp) ==
    ParseDeclared(rsp, {400, 401, 404, 409})
ParseRequestBookingClientResponse(rsp) ==
    ParseDeclared(rsp, {201, 400, 401, 404, 409})
ParseGetReservationClientResponse(rsp) ==
    ParseDeclared(rsp, {200, 401, 404})
ParseConfirmBookingClientResponse(rsp) ==
    ParseDeclared(rsp, {200, 400, 401, 404, 409, 410})
=============================================================================
