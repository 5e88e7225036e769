--------------------------- MODULE RequestBooking ---------------------------
(***************************************************************************)
(* POST /reservations: Service.RequestBooking and the SERIALIZABLE         *)
(* transaction of AppointmentRepository.RequestAppointment, retried by     *)
(* updateInTxWithIsolation, one action per interval in which the handler   *)
(* touches the clock or the database.                                      *)
(*                                                                         *)
(* PostgreSQL's serializable snapshot isolation is modelled by what it     *)
(* promises and what it permits.  missed[b] is the set of bookings that    *)
(* were committed after b's snapshot.  It promises that two bookings that  *)
(* each read the window the other wrote do not both commit (ReadSkewed     *)
(* stops the second).  It permits a serialization failure in any statement *)
(* of a transaction that has missed a commit, whether or not the windows   *)
(* meet, because predicate locks cover whole index pages.                  *)
(***************************************************************************)
EXTENDS Tables

VARIABLES
    pc,                 \* where each booker is
    txNow,              \* now() of its transaction
    busy,               \* the busy rows its snapshot held
    missed,             \* bookings committed since its snapshot
    tries,              \* attempts of updateInTxWithIsolation so far
    result,             \* the reservation it is about to return
    outcome             \* what the client was told

bookerVars == <<pc, txNow, busy, missed, tries, result, outcome>>

BookerPc ==
    {"idle", "lookup", "prepare", "begin", "snapshot", "create", "insert",
     "commit", "backstop", "done"}

BookerOutcome ==
    {"none", "ok", "error", "invalid-appointment", "invalid-vehicle",
     "service-type-not-found", "no-availability", "could-not-serialize",
     "no-rows"}

BookersTypeOK ==
    /\ pc \in [Bookers -> BookerPc]
    /\ txNow \in [Bookers -> Nat]
    /\ busy \in [Bookers -> SUBSET Bookers]
    /\ missed \in [Bookers -> SUBSET Bookers]
    /\ tries \in [Bookers -> 0..MaxTries]
    /\ result \in [Bookers -> Bookers \cup {None}]
    /\ outcome \in [Bookers -> BookerOutcome]

BookersInit ==
    /\ pc = [b \in Bookers |-> "idle"]
    /\ txNow = [b \in Bookers |-> 0]
    /\ busy = [b \in Bookers |-> {}]
    /\ missed = [b \in Bookers |-> {}]
    /\ tries = [b \in Bookers |-> 0]
    /\ result = [b \in Bookers |-> None]
    /\ outcome = [b \in Bookers |-> "none"]

\* Transactions that hold a snapshot.
InSnapshot(b) == pc[b] \in {"create", "insert", "commit"}

\* b has written its reservation and not committed: its entry in the unique
\* index makes every other insert of the same key wait.
HoldsKeyEntry(b) == pc[b] = "commit" /\ result[b] = b

\* uq_reservation_idempotency_key holds an entry of b's key already committed.
NoUniqueIndex(b) == FALSE
KeyTaken(b) == KeyHolders(Request[b].key) # {}

\* Attempt tries[b] is the last one WithMaxTries allows.
LastTryTooEarly(b) == tries[b] + 1 >= MaxTries
LastTryTooLate(b) == tries[b] > MaxTries
LastTry(b) == tries[b] >= MaxTries

\* Each read the window that the other wrote, and the other has committed.
NoSSI(b) == FALSE
ReadSkewed(b) == \E a \in missed[b] : Overlaps(a, b)

-----------------------------------------------------------------------------
(* How a handler ends, and how a transaction ends without a commit. *)

Goto(b, label) == pc' = [pc EXCEPT ![b] = label]

\* The transaction's reads and uncommitted rows are gone.
CloseTx(b) ==
    /\ txNow' = [txNow EXCEPT ![b] = 0]
    /\ busy' = [busy EXCEPT ![b] = {}]

Rollback(b) ==
    /\ CloseTx(b)
    /\ missed' = [missed EXCEPT ![b] = {}]
    /\ row' = [row EXCEPT ![b] = NoRow]
    /\ UNCHANGED <<now, status, confirmedAt>>

Reply(b, slug, reservation) ==
    /\ Goto(b, "done")
    /\ outcome' = [outcome EXCEPT ![b] = slug]
    /\ result' = [result EXCEPT ![b] = reservation]

\* A handler outside any transaction answers.
ReplyNoTx(b, slug, reservation) ==
    /\ Reply(b, slug, reservation)
    /\ UNCHANGED <<tableVars, txNow, busy, missed, tries>>

-----------------------------------------------------------------------------
(* Before the transaction. *)

\* A request arrives; ValidateStartTime comes before everything else.
Arrive(b) ==
    /\ pc[b] = "idle"
    /\ \/ /\ StartTimeAllowed(StartOf(b), AppNow(b))
          /\ Goto(b, "lookup")
          /\ UNCHANGED <<tableVars, txNow, busy, missed, tries, result, outcome>>
       \/ /\ ~StartTimeAllowed(StartOf(b), AppNow(b))
          /\ ReplyNoTx(b, "invalid-appointment", None)

\* FindReservationByIdempotencyKey, a read of its own.
Lookup(b) ==
    /\ pc[b] = "lookup"
    /\ \/ /\ KeyHolders(Request[b].key) = {}
          /\ Goto(b, "prepare")
          /\ UNCHANGED <<tableVars, txNow, busy, missed, tries, result, outcome>>
       \/ \E a \in KeyHolders(Request[b].key) : ReplyNoTx(b, "ok", a)

\* NewVehicle accepts the vehicle; GetServiceEntry knows the service type.
VehicleValid(b) == Request[b].vehicleValid
InCatalog(b)    == Request[b].service \in Offered

\* NewAppointmentBuilder: the start time is tested again, by a later clock.
BuilderAccepts(b) ==
    Request[b].fieldsPresent /\ StartTimeAllowed(StartOf(b), AppNow(b))

\* The first refusal, in the order of the code: the vehicle, the fields and the
\* start time, the catalog, the rosters.
Preparation(b) ==
    CASE ~VehicleValid(b)                         -> "invalid-vehicle"
      [] VehicleValid(b) /\ ~BuilderAccepts(b)    -> "invalid-appointment"
      [] VehicleValid(b) /\ BuilderAccepts(b)
         /\ ~InCatalog(b)                         -> "service-type-not-found"
      [] OTHER -> IF ListTechnicians(b) = {} \/ ListServiceBays(b) = {}
                  THEN "no-availability"
                  ELSE "ok"

Prepare(b) ==
    /\ pc[b] = "prepare"
    /\ \/ /\ Preparation(b) = "ok"
          /\ Goto(b, "begin")
          /\ UNCHANGED <<tableVars, txNow, busy, missed, tries, result, outcome>>
       \/ /\ Preparation(b) # "ok"
          /\ ReplyNoTx(b, Preparation(b), None)

-----------------------------------------------------------------------------
(* The transaction. *)

\* BeginTx: now() is fixed here, the snapshot only by the first statement.
Begin(b) ==
    /\ pc[b] = "begin"
    /\ Goto(b, "snapshot")
    /\ txNow' = [txNow EXCEPT ![b] = now]
    /\ tries' = [tries EXCEPT ![b] = @ + 1]
    /\ UNCHANGED <<tableVars, busy, missed, result, outcome>>

\* Mutant: the transaction does not look the key up.
TakeSnapshotWithoutKey(b) ==
    /\ pc[b] = "snapshot"
    /\ Goto(b, "create")
    /\ busy' = [busy EXCEPT ![b] = BusyRows(b, txNow[b])]
    /\ UNCHANGED <<tableVars, txNow, missed, tries, result, outcome>>

\* The re-check of the key and, when it is free, getBusyCandidates: both read
\* the snapshot the first of them takes.
TakeSnapshot(b) ==
    /\ pc[b] = "snapshot"
    /\ \/ /\ KeyHolders(Request[b].key) = {}
          /\ Goto(b, "create")
          /\ busy' = [busy EXCEPT ![b] = BusyRows(b, txNow[b])]
          /\ UNCHANGED result
       \/ \E a \in KeyHolders(Request[b].key) :
            /\ Goto(b, "commit")
            /\ result' = [result EXCEPT ![b] = a]
            /\ UNCHANGED busy
    /\ UNCHANGED <<tableVars, txNow, missed, tries, outcome>>

\* createFn: it picks from the candidates, builds the appointment and stamps
\* the reservation with the host's clock, or refuses and rolls back.
Create(b) ==
    LET technicians == BestTechnicians(b, BusyTechnicians(busy[b]))
        bays        == FirstServiceBay(b, BusyBays(busy[b]))
    IN  /\ pc[b] = "create"
        /\ \/ \E t \in technicians, y \in bays :
                /\ row' = [row EXCEPT ![b] =
                       [technician |-> t, bay |-> y,
                        expiredAt |-> AppNow(b) + ReservationTTL]]
                /\ Goto(b, "insert")
                /\ UNCHANGED <<now, status, confirmedAt, txNow, busy, missed,
                               result, outcome>>
           \/ /\ technicians = {} \/ bays = {}
              /\ Rollback(b)
              /\ Reply(b, "no-availability", None)
        /\ UNCHANGED tries

\* UpsertVehicle, CreateAppointment, CreateReservation.  The insert of the
\* reservation waits for a transaction that holds an entry of the same key; an
\* entry already committed is a violation of uq_reservation_idempotency_key.
Insert(b) ==
    /\ pc[b] = "insert"
    /\ \A a \in Bookers \ {b} : HoldsKeyEntry(a) => Request[a].key # Request[b].key
    /\ \/ /\ ~KeyTaken(b)
          /\ Goto(b, "commit")
          /\ result' = [result EXCEPT ![b] = b]
          /\ UNCHANGED <<tableVars, txNow, busy, missed, tries, outcome>>
       \/ /\ KeyTaken(b)
          /\ Goto(b, "backstop")
          /\ Rollback(b)
          /\ UNCHANGED <<tries, result, outcome>>

\* Mutant: the backstop reads in the snapshot of the transaction that failed.
BackstopInSnapshot(b) == pc[b] = "backstop" /\ ReplyNoTx(b, "no-rows", None)

\* The backstop: the key is read again outside the failed transaction.
Backstop(b) ==
    /\ pc[b] = "backstop"
    /\ \/ \E a \in KeyHolders(Request[b].key) : ReplyNoTx(b, "ok", a)
       \/ /\ KeyHolders(Request[b].key) = {}
          /\ ReplyNoTx(b, "no-rows", None)

\* COMMIT of a booking.  The answer may be lost: slug is "ok" when the client
\* hears of it and "error" when the connection or the process died in between.
Commit(b, slug) ==
    /\ pc[b] = "commit"
    /\ result[b] = b
    /\ ~ReadSkewed(b)
    /\ status' = [status EXCEPT ![b] = "pending"]
    /\ missed' = [a \in Bookers |->
           IF a = b THEN {}
           ELSE IF InSnapshot(a) THEN missed[a] \cup {b} ELSE missed[a]]
    /\ CloseTx(b)
    /\ Reply(b, slug, b)
    /\ UNCHANGED <<now, row, confirmedAt, tries>>

\* COMMIT of a transaction that only found its key taken: it wrote nothing.
CommitReplay(b) ==
    /\ pc[b] = "commit"
    /\ result[b] # b
    /\ CloseTx(b)
    /\ missed' = [missed EXCEPT ![b] = {}]
    /\ Reply(b, "ok", result[b])
    /\ UNCHANGED <<tableVars, tries>>

\* Mutant: the function is tried again in the transaction that failed.
SerializationFailureSameTx(b) ==
    /\ InSnapshot(b)
    /\ missed[b] # {}
    /\ Goto(b, "create")
    /\ row' = [row EXCEPT ![b] = NoRow]
    /\ result' = [result EXCEPT ![b] = None]
    /\ UNCHANGED <<now, status, confirmedAt, txNow, busy, missed, tries, outcome>>

\* "could not serialize access": roll back, then try again with a new
\* transaction, or give up after WithMaxTries attempts.
SerializationFailure(b) ==
    /\ InSnapshot(b)
    /\ missed[b] # {}
    /\ Rollback(b)
    /\ \/ /\ ~LastTry(b)
          /\ Goto(b, "begin")
          /\ result' = [result EXCEPT ![b] = None]
          /\ UNCHANGED outcome
       \/ /\ LastTry(b)
          /\ Reply(b, "could-not-serialize", None)
    /\ UNCHANGED tries

\* The 10 s ContextTimeout, a lost connection or the end of the process: the
\* server rolls an open transaction back and the client sees an error or nothing.
Abandon(b) ==
    /\ pc[b] \notin {"idle", "done"}
    /\ Rollback(b)
    /\ Reply(b, "error", None)
    /\ UNCHANGED tries

\* What the program and the database do for b once its request has arrived.
BookerStep(b) ==
    \/ Lookup(b)
    \/ Prepare(b)
    \/ Begin(b)
    \/ TakeSnapshot(b)
    \/ Create(b)
    \/ Insert(b)
    \/ Backstop(b)
    \/ Commit(b, "ok")
    \/ CommitReplay(b)
    \/ SerializationFailure(b)

\* Everything a booker can meet.
BookerNext(b) ==
    \/ Arrive(b)
    \/ BookerStep(b)
    \/ Commit(b, "error")
    \/ Abandon(b)
=============================================================================
