----------------------------- MODULE Scheduling -----------------------------
(***************************************************************************)
(* The booking rules of internal/appointments/domain as operators without  *)
(* state, and the parameters every other module shares.                    *)
(*                                                                         *)
(* A handler of POST /reservations is a member of Bookers.  It carries one *)
(* request (the constant Request) and commits at most one appointment with *)
(* its reservation, so the two uuids NewUUIDv7 draws for it are both named *)
(* by the handler itself.  Times are integers; one unit is as long or as   *)
(* short as the instance likes.                                            *)
(***************************************************************************)
EXTENDS Integers

CONSTANTS
    Bookers,            \* handlers of POST /reservations
    Confirmers,         \* handlers of PUT  .../confirm
    Cancellers,         \* handlers of PUT  .../cancel
    Users,              \* values of X-User-Id
    Keys,               \* values of Idempotency-Key
    Dealers,
    ServiceTypes,       \* what a request may name
    Offered,            \* the service types the catalog knows
    Certifications,
    Catalog,            \* service type -> duration and certifications
    Request,            \* booker -> the request it handles
    MinStartLeadTime, MaxStartLeadTime, ReservationTTL,
    MaxTries,           \* attempts of one transaction (10 in the code)
    ClockSkew           \* handler -> its host's clock minus the database's

Updaters == Confirmers \cup Cancellers

\* What the HTTP handler lets through: key and user are trimmed and not blank, a
\* dealer or a service type may be (then fieldsPresent is FALSE).
RequestData ==
    [key : Keys, user : Users, dealer : Dealers, service : ServiceTypes,
     start : Int, vehicleValid : BOOLEAN, fieldsPresent : BOOLEAN]

ASSUME ActorsAssumption ==
    /\ Confirmers \cap Cancellers = {}
    /\ Bookers \cap Updaters = {}
    /\ Offered \subseteq ServiceTypes

\* What the stub catalog serves: every duration is positive.
ASSUME CatalogAssumption ==
    Catalog \in [Offered -> [duration : Nat \ {0}, certs : SUBSET Certifications]]

ASSUME RequestAssumption == Request \in [Bookers -> RequestData]

\* NewBookingFactory replaces a duration that is not positive by its default.
ASSUME FactoryAssumption ==
    /\ MinStartLeadTime \in Nat \ {0}
    /\ MaxStartLeadTime \in Nat \ {0}
    /\ ReservationTTL \in Nat \ {0}
    /\ MaxTries \in Nat \ {0}

ASSUME SkewAssumption == ClockSkew \in [Bookers \cup Updaters -> Int]

-----------------------------------------------------------------------------
(* The window a request asks for. *)

StartOf(b) == Request[b].start
EndOf(b)   == Request[b].start + Catalog[Request[b].service].duration

\* The window test of GetBusyServiceBaysAndTechnicians: same dealer, half-open
\* overlap, so back-to-back appointments do not conflict.
Overlaps(a, b) ==
    /\ Request[a].dealer = Request[b].dealer
    /\ StartOf(a) < EndOf(b)
    /\ EndOf(a) > StartOf(b)

-----------------------------------------------------------------------------
(* Time rules.  t is the clock of the host that evaluates them. *)

\* startTimeErrorDetail: the zero time is far below any minimum.
StartTimeAllowed(start, t) ==
    /\ start >= t + MinStartLeadTime
    /\ start =< t + MaxStartLeadTime

\* Reservation.IsExpired
HoldIsExpired(expiredAt, t) == t >= expiredAt

\* Appointment.Confirm.  reservation-mismatch cannot be returned: the caller
\* loads the appointment by the reservation's own appointment uuid.
ConfirmOutcome(status, expiredAt, t) ==
    CASE status # "pending"          -> "appointment-not-pending"
      [] status = "pending" /\ HoldIsExpired(expiredAt, t) -> "reservation-expired"
      [] OTHER                       -> "ok"

\* Mutant: a pending appointment can be cancelled.
CancelOutcomePending(status, start, t) ==
    CASE status = "cancelled"                     -> "appointment-already-cancelled"
      [] status # "cancelled" /\ start < t        -> "appointment-in-the-past"
      [] OTHER                                    -> "ok"

\* Appointment.Cancel
CancelOutcome(status, start, t) ==
    CASE status = "cancelled"                    -> "appointment-already-cancelled"
      [] status \notin {"cancelled", "confirmed"} -> "appointment-not-confirmed"
      [] status = "confirmed" /\ start < t       -> "appointment-in-the-past"
      [] OTHER                                   -> "ok"
=============================================================================
