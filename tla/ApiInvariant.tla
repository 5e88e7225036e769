----------------------------- MODULE ApiInvariant -----------------------------
(***************************************************************************)
(* The inductive invariant behind the safety properties of ReservationApi, *)
(* in the parts in which ReservationApiProofs proves it.                   *)
(***************************************************************************)
EXTENDS ReservationApi

\* A handler that has not got to its answer, and one inside its transaction.
InTx(c) == spc[c] \in TxPc \cup {"begin", "finish"}
AtWork(c) == InTx(c) \/ spc[c] \in {"service", "backstop"}

\* What the editors leave of a request: its route, a header that is a sequence,
\* at most one key.
WellFormed(r, op) ==
    /\ Route(r) = op
    /\ r.user \in Seq({r.user[i] : i \in DOMAIN r.user})
    /\ (r.key = <<HeaderValue(r.key)>> /\ HeaderValue(r.key) # None) \/ r.key = <<>>

\* The caller and its request: sent once, handled once, told once.
CallerOK(c) ==
    /\ cpc[c] = "idle" => request[c] = None
    /\ cpc[c] = "sent" => request[c] # None
    /\ cpc[c] = "done" <=> told[c] # None
    /\ request[c] = None => spc[c] = "away"
    /\ request[c] # None => WellFormed(request[c], form[c].op)
CallerInv == \A c \in Calls : CallerOK(c)

\* What a handler knows of itself while it runs: what it has not done yet.
HandlerOK(c) ==
    /\ spc[c] = "away" \/ AtWork(c) =>
          ~did[c] /\ store[c] = {}
    /\ spc[c] \notin {"finish", "return", "gone"} => ~panicked[c]
    /\ panicked[c] => err[c] = NoError /\ answer[c] = None
    /\ answer[c] # None => spc[c] \in {"return", "gone"} /\ err[c] = NoError
    /\ wire[c] # None => spc[c] = "gone"
    /\ spc[c] \in TxPc \cup {"away", "service", "begin"} => err[c] = NoError
HandlerInv == \A c \in Calls : HandlerOK(c)

\* An attempt is left for a handler that will begin one.
TriesInv ==
    \A c \in Calls : spc[c] \in {"away", "service", "begin"} => tries[c] < MaxTries

\* The routes that have a transaction, and who is where in it.
RouteOK(c) ==
    /\ AtWork(c) /\ spc[c] # "service" => form[c].op # "get"
    /\ spc[c] \in {"vehicle", "appointment", "reservation", "backstop"} =>
          form[c].op = "request"
    /\ spc[c] = "update" => form[c].op \in {"confirm", "cancel"}
    /\ store[c] # {} => form[c].op = "request"
RouteInv == \A c \in Calls : RouteOK(c)

\* What the transaction has written when its function is where it is.
DraftOK(c) ==
    /\ spc[c] \notin {"appointment", "reservation", "finish"} => draft[c] = {}
    /\ spc[c] = "appointment" => draft[c] = {"vehicle"}
    /\ spc[c] = "reservation" => draft[c] = {"vehicle", "appointment"}
    /\ draft[c] \in {{}, {"vehicle"}, {"vehicle", "appointment"}, Rows, {"status"}}
    /\ draft[c] \in {{"vehicle"}, {"vehicle", "appointment"}, Rows} =>
          form[c].op = "request"
    /\ draft[c] = {"status"} => form[c].op \in {"confirm", "cancel"}
    /\ spc[c] = "finish" /\ err[c] = NoError /\ ~panicked[c] =>
          IF form[c].op = "request"
          THEN \/ draft[c] = Rows /\ found[c] = c
               \/ draft[c] = {} /\ found[c] \in KeyHolders(c)
          ELSE draft[c] = {"status"}
    /\ store[c] \notin {{}, Rows} => panicked[c] /\ "reservation" \notin store[c]
    /\ draft[c] \in {Rows, {"status"}} => err[c] = NoError /\ ~panicked[c]
DraftInv == \A c \in Calls : DraftOK(c)

\* The unique index: committed and open reservations all have different keys.
Indexed(c) == "reservation" \in store[c] \cup draft[c]

KeyInv == \A c, d \in Calls : Indexed(c) /\ Indexed(d) /\ c # d => ~SameKey(c, d)

\* The row lock: who has updated a status is alone with it and has read it.
StatusInv ==
    /\ \A c \in Calls : spc[c] = "update" \/ "status" \in draft[c] =>
          /\ Target(c) \in Bookings
          /\ seen[c] = IF form[c].op = "confirm" THEN "pending" ELSE "confirmed"
    /\ \A c \in Calls : "status" \in draft[c] => status[Target(c)] = seen[c]
    /\ \A c, d \in Calls :
          "status" \in draft[c] /\ "status" \in draft[d] /\ c # d => Target(c) # Target(d)

\* The errors each operation can end with.  Who has written something can only
\* have failed, never have been refused.
Declared(op) ==
    CASE op = "request" -> {400, 401, 404, 409}
      [] op = "get"     -> {401, 404}
      [] op = "confirm" -> {400, 401, 404, 409, 410}
      [] op = "cancel"  -> {400, 401, 404, 409}

ErrorOK(c) ==
    /\ err[c].kind = "none" <=> err[c] = NoError
    /\ err[c].kind = "common" => err[c].status \in Declared(form[c].op)
    /\ err[c].kind = "http" => err[c].status \in {400, 415}
    /\ did[c] \/ spc[c] = "backstop" => err[c].kind \in {"none", "plain"}
    /\ IsUniqueViolation(err[c]) \/ IsSerialization(err[c]) => err[c].kind = "plain"
    /\ IsUniqueViolation(err[c]) => form[c].op = "request"
    /\ spc[c] = "backstop" => err[c] # NoError
ErrorInv == \A c \in Calls : ErrorOK(c)

\* What an answer says is in the tables.
AnswerOK(c) ==
    answer[c] # None =>
    CASE form[c].op = "request" ->
            /\ answer[c] = VisitRequestBooking201(answer[c].body)
            /\ answer[c].body \in KeyHolders(c)
      [] form[c].op = "get" ->
            /\ answer[c] = VisitGetReservation200([reservation |-> Target(c),
                                                   status |-> answer[c].body.status])
            /\ Target(c) \in Bookings /\ UserOf(Target(c)) = UserOf(c)
            /\ "appointment" \in store[Target(c)]
            /\ answer[c].body.status # "pending" => status[Target(c)] # "pending"
      [] form[c].op = "confirm" ->
            /\ answer[c] = VisitConfirmBooking200(Target(c))
            /\ did[c] /\ Target(c) \in Bookings /\ status[Target(c)] # "pending"
      [] form[c].op = "cancel" ->
            /\ answer[c] = VisitCancelBooking204
            /\ did[c] /\ Target(c) \in Bookings /\ status[Target(c)] = "cancelled"
AnswerInv == \A c \in Calls : AnswerOK(c)

\* What is on the wire is the answer or the error, what is told is what was on it.
WireOK(c) ==
    /\ wire[c] # None =>
          IF answer[c] # None THEN wire[c] = answer[c]
          ELSE IF panicked[c] THEN wire[c] = ErrorResponse(PlainError(FALSE))
          ELSE err[c] # NoError /\ wire[c] = ErrorResponse(ContextTimeout(err[c]))
    /\ told[c] # None => told[c] = Failed \/ (wire[c] # None /\ told[c] = Parse(c))
WireInv == \A c \in Calls : WireOK(c)

\* A booking known to be made when a request was sent is not missed by it.
Missed(c) ==
    \E b \in since[c] \cap Bookings :
        told[b].body = Target(c) /\ UserOf(c) = UserOf(Target(c))

SinceOK(c) ==
    /\ \A u \in since[c] : Succeeded(u)
    /\ err[c].status = 404 /\ form[c].op # "request" => ~Missed(c)
SinceInv == \A c \in Calls : SinceOK(c)

IInv ==
    /\ TypeOK /\ TriesInv /\ CallerInv /\ HandlerInv /\ RouteInv /\ DraftInv /\ KeyInv /\ StatusInv
    /\ ErrorInv /\ AnswerInv /\ WireInv /\ SinceInv /\ ActsForOneUser /\ EveryFailureIsLogged
=============================================================================
