----------------------------- MODULE BookingRules -----------------------------
(***************************************************************************)
(* One booking under whatever the environment configures: its requests,    *)
(* each with its own looks at the clock and, some time after the last of   *)
(* them, its commit.  There is one host and one request at a time;         *)
(* AppointmentService has them interleave.                                 *)
(***************************************************************************)
EXTENDS Settings

CONSTANTS
    Environments,       \* what the environment may say: ttl, min and max
    Starts,             \* the start times asked for
    Durations,          \* the catalog's, which are positive
    Deadline,           \* middleware.ContextTimeout
    Lag,                \* how long the database may take over a COMMIT it was sent
    MaxTime             \* bound of the clock

ASSUME RulesAssumption ==
    /\ \A env \in Environments : \A f \in {"ttl", "min", "max"} :
          env[f] \in Int \cup {Unset, NotANumber}
    /\ {Unset, NotANumber} \cap Int = {}
    /\ Starts \subseteq Int
    /\ Durations \subseteq Nat \ {0}
    /\ Deadline \in Nat /\ Lag \in Nat /\ MaxTime \in Nat

VARIABLES
    env, factory,       \* the environment, BookingFactory.config
    now,
    status,             \* of the stored appointment; "none": there is none
    step,               \* where the request is that runs
    start, end,         \* of the appointment
    arrived, built,     \* when the request came, when the builder was made
    createdAt, expiredAt,       \* of the reservation
    storedAt, confirmedAt       \* history: when booking and confirmation were committed

draftVars == <<start, end, built, createdAt, expiredAt>>
vars == <<env, factory, now, status, step, arrived, draftVars, storedAt, confirmedAt>>

Deciding == {"asked", "building", "confirm", "cancel"}
Writing  == {"booking", "confirming", "cancelling"}

\* The readings of the clock lie behind it.
TypeOK ==
    /\ env \in Environments
    /\ factory \in [ttl : Int, min : Int, max : Int]
    /\ now \in 0..MaxTime
    /\ status \in {"none", "pending", "confirmed", "cancelled"}
    /\ step \in {"idle"} \cup Deciding \cup Writing
    /\ start \in Int /\ end \in Int
    /\ arrived \in 0..now /\ built \in 0..now
    /\ createdAt \in 0..now /\ expiredAt \in Int
    /\ storedAt \in 0..now /\ confirmedAt \in 0..now

\* NewConfig, once, and Module.Init.
Init ==
    /\ env \in Environments
    /\ factory = NewBookingFactory(NewAppointmentConfig(env))
    /\ now = 0
    /\ status = "none" /\ step = "idle"
    /\ start = 0 /\ end = 0 /\ arrived = 0 /\ built = 0
    /\ createdAt = 0 /\ expiredAt = 0
    /\ storedAt = 0 /\ confirmedAt = 0

Tick ==
    /\ now < MaxTime
    /\ now' = now + 1
    /\ UNCHANGED <<env, factory, status, step, arrived, draftVars, storedAt, confirmedAt>>

-----------------------------------------------------------------------------
(* The deadline of a request, from its arrival. *)

\* Its context is not done: it can look at the clock and use the database.
Live == now < arrived + Deadline

\* Mutant: the transaction is not bound to the context of the request.
LandsAnyTime == TRUE

\* A COMMIT sent in time takes effect, the database's own delay included.
Lands == now < arrived + Deadline + Lag

\* Refused, failed or out of time; nothing is stored.
GiveUp ==
    /\ step # "idle"
    /\ step' = "idle" /\ arrived' = 0
    /\ \/ /\ status = "none"
          /\ start' = 0 /\ end' = 0 /\ built' = 0
          /\ createdAt' = 0 /\ expiredAt' = 0
       \/ status # "none" /\ UNCHANGED draftVars
    /\ UNCHANGED <<env, factory, now, status, storedAt, confirmedAt>>

\* The transaction could not be serialized: its function is called again, and looks
\* at the clock again.
TryAgain ==
    /\ Live
    /\ \/ step = "booking" /\ step' = "building"
       \/ step = "confirming" /\ step' = "confirm"
       \/ step = "cancelling" /\ step' = "cancel"
    /\ UNCHANGED <<env, factory, now, status, arrived, draftVars, storedAt, confirmedAt>>

\* What the transaction wrote is stored, some time after it was decided.
Commit ==
    /\ step \in Writing
    /\ Lands
    /\ step' = "idle" /\ arrived' = 0
    /\ status' = CASE step = "booking" -> "pending"
                   [] step = "confirming" -> "confirmed"
                   [] step = "cancelling" -> "cancelled"
    /\ storedAt' = IF step = "booking" THEN now ELSE storedAt
    /\ confirmedAt' = IF step = "confirming" THEN now ELSE confirmedAt
    /\ UNCHANGED <<env, factory, now, draftVars>>

-----------------------------------------------------------------------------
(* The booking. *)

\* startTimeErrorDetail, with a start time.  A minimum above the maximum is accepted
\* by the configuration and leaves no start time at all.
InWindow(s) == now + factory.min =< s /\ s =< now + factory.max

\* Mutant: the request counts from its start time.
AskAtStart(s) ==
    /\ status = "none" /\ step = "idle"
    /\ InWindow(s)
    /\ step' = "asked"
    /\ start' = s
    /\ arrived' = s
    /\ UNCHANGED <<env, factory, now, status, end, built, createdAt, expiredAt,
                   storedAt, confirmedAt>>

\* ValidateStartTime of a request that has just come.  A refused one changes nothing.
Ask(s) ==
    /\ status = "none" /\ step = "idle"
    /\ InWindow(s)
    /\ step' = "asked"
    /\ start' = s
    /\ arrived' = now
    /\ UNCHANGED <<env, factory, now, status, end, built, createdAt, expiredAt,
                   storedAt, confirmedAt>>

\* NewAppointmentBuilder looks at the clock again.
NewAppointmentBuilder ==
    /\ step = "asked"
    /\ Live
    /\ InWindow(start)
    /\ step' = "building"
    /\ built' = now
    /\ UNCHANGED <<env, factory, now, status, start, end, arrived, createdAt, expiredAt,
                   storedAt, confirmedAt>>

\* Build and CreateReservation, in the transaction: the hold runs from here.  What
\* Build requires is there.
Build(duration) ==
    /\ step = "building"
    /\ Live
    /\ step' = "booking"
    /\ end' = start + duration
    /\ createdAt' = now
    /\ expiredAt' = now + factory.ttl
    /\ UNCHANGED <<env, factory, now, status, start, arrived, built, storedAt, confirmedAt>>

-----------------------------------------------------------------------------
(* Its confirmation and its cancellation. *)

\* A request to confirm or to cancel comes, and reads the appointment.
Receive(request) ==
    /\ status # "none" /\ step = "idle"
    /\ step' = request
    /\ arrived' = now
    /\ UNCHANGED <<env, factory, now, status, draftVars, storedAt, confirmedAt>>

\* Reservation.IsExpired
HoldIsOver == now >= expiredAt

\* Appointment.Confirm: the rule, not yet the row.
Confirm ==
    /\ step = "confirm"
    /\ Live
    /\ status = "pending"
    /\ ~HoldIsOver
    /\ step' = "confirming"
    /\ UNCHANGED <<env, factory, now, status, arrived, draftVars, storedAt, confirmedAt>>

\* Appointment.Cancel
Cancel ==
    /\ step = "cancel"
    /\ Live
    /\ status = "confirmed"
    /\ start >= now
    /\ step' = "cancelling"
    /\ UNCHANGED <<env, factory, now, status, arrived, draftVars, storedAt, confirmedAt>>

Next ==
    \/ Tick
    \/ \E s \in Starts : Ask(s)
    \/ NewAppointmentBuilder
    \/ \E duration \in Durations : Build(duration)
    \/ \E request \in {"confirm", "cancel"} : Receive(request)
    \/ Confirm
    \/ Cancel
    \/ TryAgain
    \/ Commit
    \/ GiveUp

Spec == Init /\ [][Next]_vars

-----------------------------------------------------------------------------
(* What must hold. *)

Stored == status # "none"

\* Whatever the environment says, zero, negative or too large for a word, a hold is
\* given for some time.  It may be over before it is stored, but not if it is as long
\* as a request may take.
HoldsLast ==
    Stored =>
        /\ createdAt < expiredAt
        /\ factory.ttl >= Deadline + Lag => storedAt < expiredAt

\* A booking is made as far ahead as the environment says, when it says positive
\* numbers whose products fit a word.
Positive == \A f \in {"ttl", "min", "max"} : env[f] \in {Unset, NotANumber} \/ env[f] > 0
AcceptedAsConfigured ==
    Stored /\ Fits(env) /\ Positive =>
        /\ start - built >= GetIntEnv(env.min, MinHours) * Hour
        /\ start - built =< GetIntEnv(env.max, MaxDays) * (HoursPerDay * Hour)
        /\ expiredAt - createdAt = GetIntEnv(env.ttl, TTLSeconds) * Second

\* Confirm does not look at the start time, and its commit does not look at the clock.
\* So a confirmation may be stored after the start, and then never be cancelled; how
\* long after is bounded by the deadlines of the two requests and the hold between
\* them, less the minimum lead time.  Where the lead time is no less than these, nothing
\* is confirmed that has begun.
ConfirmedSoonEnough ==
    status \in {"confirmed", "cancelled"} =>
        confirmedAt - start < (Deadline + factory.ttl + Deadline + Lag) - factory.min
=============================================================================
