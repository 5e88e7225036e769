------------------------- MODULE AppointmentService -------------------------
(***************************************************************************)
(* The appointments service at work: any number of booking, confirm and    *)
(* cancel handlers, on hosts with clocks of their own, against one         *)
(* database.  The module composes RequestBooking and ReservationUpdates    *)
(* over the shared Tables and states what the service promises.            *)
(***************************************************************************)
EXTENDS FiniteSets, RequestBooking, ReservationUpdates

vars == <<tableVars, bookerVars, updaterVars>>

Init == TablesInit /\ BookersInit /\ UpdatersInit

TypeOK == TablesTypeOK /\ BookersTypeOK /\ UpdatersTypeOK

\* Every handler has answered and the bounded clock has run out.
AllAnswered ==
    /\ now = MaxTime
    /\ \A b \in Bookers : pc[b] = "done"
    /\ \A u \in Updaters : upc[u] = "done"
    /\ UNCHANGED vars

Next ==
    \/ \E b \in Bookers : BookerNext(b) /\ UNCHANGED updaterVars
    \/ \E u \in Updaters : UpdaterNext(u) /\ UNCHANGED bookerVars
    \/ Tick /\ UNCHANGED <<status, row, confirmedAt, bookerVars, updaterVars>>
    \/ AllAnswered

Spec == Init /\ [][Next]_vars

\* The scheduler runs every handler that can run, and the database answers.
\* Nothing is assumed of the clock, of clients, of failures.
FairSpec ==
    /\ Spec
    /\ \A b \in Bookers : WF_vars(BookerStep(b) /\ UNCHANGED updaterVars)
    /\ \A u \in Updaters : WF_vars(UpdaterStep(u) /\ UNCHANGED bookerVars)

-----------------------------------------------------------------------------
(* No double booking. *)

SharesResource(a, b) ==
    \/ row[a].technician = row[b].technician
    \/ row[a].bay = row[b].bay

Conflict(a, b) == a # b /\ Overlaps(a, b) /\ SharesResource(a, b)

\* A hold that has not expired by the database clock, or a confirmed booking.
Claims(a) ==
    \/ status[a] = "confirmed"
    \/ status[a] = "pending" /\ now < row[a].expiredAt

\* Confirmed by a transaction that committed when the hold was already over.
ConfirmedLate(a) == status[a] = "confirmed" /\ confirmedAt[a] >= row[a].expiredAt

\* The service keeps every slot to one customer, but for one way out: of two
\* customers who hold or own the same technician or bay for overlapping windows,
\* at least one was confirmed after its hold had run out.
ConflictOnlyIfConfirmedLate ==
    \A a, b \in Bookers :
        Claims(a) /\ Claims(b) /\ Conflict(a, b)
            => ConfirmedLate(a) \/ ConfirmedLate(b)

\* What the documentation says without the exception: no two confirmed
\* appointments with overlapping windows share a technician or a bay.
NoDoubleBooking ==
    \A a, b \in Bookers :
        status[a] = "confirmed" /\ status[b] = "confirmed" => ~Conflict(a, b)

\* The best-reviewed free technician and the first free bay: whoever or whatever
\* comes before the chosen one was taken by another stored booking.  It ties the
\* two maps of busy ids, the order of the candidates and the window rules of
\* roster and calendar together.
PassedOverOnlyIfTaken ==
    \A b \in Bookers : Committed(b) =>
        LET roster == Technicians[Request[b].dealer]
            bays   == ServiceBays[Request[b].dealer]
            rivals == {a \in Bookers \ {b} : Committed(a) /\ Overlaps(a, b)}
        IN  /\ \E i \in ListTechnicians(b) :
                 /\ roster[i].id = row[b].technician
                 /\ \A j \in ListTechnicians(b) : roster[j].score > roster[i].score
                        => \E a \in rivals : row[a].technician = roster[j].id
            /\ \E i \in ListServiceBays(b) :
                 /\ bays[i].id = row[b].bay
                 /\ \A j \in ListServiceBays(b) : j < i
                        => \E a \in rivals : row[a].bay = bays[j].id

-----------------------------------------------------------------------------
(* Idempotency. *)

\* Requests that carry the same key, from the same client or not, are all told
\* the same reservation, and that reservation is stored: across the fast path,
\* the re-check in the transaction, the backstop, and answers that were lost.
RepliesNameOneReservation ==
    /\ \A b \in Bookers : outcome[b] = "ok" => Committed(result[b])
    /\ \A a, b \in Bookers :
        outcome[a] = "ok" /\ outcome[b] = "ok" /\ Request[a].key = Request[b].key
            => result[a] = result[b]

\* The backstop runs because the unique index has an entry of the key, so its
\* read never comes back empty (it would be a 500 for a request that is a replay).
BackstopFindsTheWinner == \A b \in Bookers : outcome[b] # "no-rows"

\* A refused booking lost to somebody else's: it is never refused because its
\* own earlier request, or a retry of it, took the slot, and requests that race
\* for a slot are never all refused.
RefusedOnlyForAnother ==
    \A b \in Bookers :
        /\ outcome[b] = "no-availability"
        /\ ListTechnicians(b) # {}
        /\ ListServiceBays(b) # {}
        => \E a \in Bookers :
              /\ Committed(a)
              /\ Overlaps(a, b)
              /\ Request[a].key # Request[b].key

\* A booking that gives up on serialization failures lost every one of its
\* attempts to a different stored booking.
GivingUpTakesManyWinners ==
    \A b \in Bookers : outcome[b] = "could-not-serialize" =>
        Cardinality({a \in Bookers \ {b} : Committed(a)}) >= MaxTries

\* "A replay must return its original reservation": once a reservation of its
\* key is stored, a booking is not refused as invalid.
ReplayIsNotRefused ==
    [][\A b \in Bookers :
          /\ outcome[b] = "none"
          /\ outcome'[b] = "invalid-appointment"
          => KeyHolders(Request[b].key) = {}]_vars

-----------------------------------------------------------------------------
(* The life of an appointment. *)

Rank(s) == CASE s = "absent" -> 0 [] s = "pending" -> 1
             [] s = "confirmed" -> 2 [] s = "cancelled" -> 3

\* An appointment only moves on, one status at a time: in particular no confirm
\* that read "pending" brings a cancelled appointment back.
StatusOnlyAdvances ==
    [][\A b \in Bookers : Rank(status'[b]) \in {Rank(status[b]), Rank(status[b]) + 1}]_vars

\* At most one confirm and at most one cancel of an appointment is answered with
\* success, and what a successful answer says has happened.
OneAnswerPerTransition ==
    /\ \A u \in Confirmers : uoutcome[u] = "ok" =>
          status[target[u]] \in {"confirmed", "cancelled"}
    /\ \A u \in Cancellers : uoutcome[u] = "ok" => status[target[u]] = "cancelled"
    /\ \A u, v \in Updaters :
          /\ u # v /\ uoutcome[u] = "ok" /\ uoutcome[v] = "ok"
          /\ target[u] = target[v]
          => NewStatus(u) # NewStatus(v)

\* A confirm or a cancel is never told "could not serialize": a lost race shows
\* it a status that its domain rule rejects, so two attempts are enough.
UpdatesNeedTwoTries ==
    MaxTries >= 2 => \A u \in Updaters : uoutcome[u] # "could-not-serialize"

-----------------------------------------------------------------------------
(* Progress. *)

\* Every request that has arrived is answered: no wait for an index entry, no
\* row lock and no retry loop keeps a handler for ever.
EveryRequestIsAnswered ==
    /\ \A b \in Bookers : pc[b] # "idle" ~> pc[b] = "done"
    /\ \A u \in Updaters : upc[u] # "idle" ~> upc[u] = "done"
=============================================================================
