---------------------------- MODULE MCReservationApi ----------------------------
(* Instances of ReservationApi for TLC. *)
EXTENDS ReservationApi, TLC

CONSTANTS a, b, c, u1, u2, key1

By(user) == [user |-> user, key |-> None]
Keyed(user) == [user |-> user, key |-> key1]
Form(op, params, editors) == [op |-> op, uuid |-> a, params |-> params, editors |-> editors]
Scenario(first, second, third) == a :> first @@ b :> second @@ c :> third

Booking == Form("request", Keyed(u1), <<>>)

\* Three calls about the booking of a: a retry, a confirmation, a cancellation or a
\* read of it; then what callers do wrong.
TheScenarios ==
    { Scenario(Booking, Booking, Form("get", By(u1), <<>>)),
      Scenario(Booking, Form("confirm", By(u1), <<>>), Form("cancel", By(u1), <<>>)),
      Scenario(Booking, Form("confirm", By(u1), <<>>), Form("confirm", By(u1), <<>>)),
      Scenario(Booking, Form("confirm", By(u2), <<>>), Form("get", By(u2), <<>>)),
      Scenario(Form("request", Keyed(u1), <<"drop-body">>),
               Form("confirm", By(u1), <<"second-user">>), Form("get", By(u1), <<"bad-uuid">>)),
      Scenario(Form("request", Keyed(u1), <<"cut-body">>),
               Form("cancel", By(u1), <<"bad-uuid">>), Form("get", By(Blank), <<>>)),
      Scenario(Form("request", By(u1), <<>>),
               Form("request", Keyed(u1), <<"text-body">>), Form("get", By(u1), <<"fail">>)),
      Scenario(Form("request", Keyed(Blank), <<>>),
               Form("request", Keyed(u1), <<"second-user">>), Form("get", None, <<>>)) }

NoEditors == <<>>
=============================================================================
