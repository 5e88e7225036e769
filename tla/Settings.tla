------------------------------ MODULE Settings ------------------------------
(***************************************************************************)
(* From the environment to the durations of the booking factory:           *)
(* common/config/config.go and NewBookingFactory.  A time.Duration is a    *)
(* signed word of nanoseconds, and the products of newAppointmentConfig    *)
(* are not checked: they wrap.                                             *)
(***************************************************************************)
EXTENDS Integers

CONSTANTS
    Word,                       \* a duration is in -Word..Word - 1 (Word is 2^63)
    Second, Hour, HoursPerDay,  \* the units, 24 hours a day
    TTLSeconds, MinHours, MaxDays,      \* the fallbacks 300, 1 and 30
    Unset, NotANumber           \* values of a variable that are no number

ASSUME UnitsAssumption ==
    /\ Word \in Nat
    /\ {Second, Hour, HoursPerDay, TTLSeconds, MinHours, MaxDays} \subseteq Nat \ {0}
    /\ {TTLSeconds * Second, MinHours * Hour, MaxDays * (HoursPerDay * Hour)} \subseteq 1..Word - 1

Wrap(n) == ((n + Word) % (2 * Word)) - Word

\* ParseInt: what is no number or does not fit 64 bits counts as NotANumber.
GetIntEnv(value, fallback) ==
    IF value \in {Unset, NotANumber} THEN fallback ELSE value

\* Mutant: the minimum in seconds.
NewAppointmentConfigSeconds(env) ==
    [ttl |-> Wrap(GetIntEnv(env.ttl, TTLSeconds) * Second),
     min |-> Wrap(GetIntEnv(env.min, MinHours) * Second),
     max |-> Wrap(GetIntEnv(env.max, MaxDays) * (HoursPerDay * Hour))]

NewAppointmentConfig(env) ==
    [ttl |-> Wrap(GetIntEnv(env.ttl, TTLSeconds) * Second),
     min |-> Wrap(GetIntEnv(env.min, MinHours) * Hour),
     max |-> Wrap(GetIntEnv(env.max, MaxDays) * (HoursPerDay * Hour))]

\* Without overflow.
Fits(env) ==
    /\ GetIntEnv(env.ttl, TTLSeconds) * Second \in -Word..Word - 1
    /\ GetIntEnv(env.min, MinHours) * Hour \in -Word..Word - 1
    /\ GetIntEnv(env.max, MaxDays) * (HoursPerDay * Hour) \in -Word..Word - 1

\* The package's own defaults are 5 minutes, 1 hour and 30 days: the fallbacks again.
DefaultReservationTTL   == TTLSeconds * Second
DefaultMinStartLeadTime == MinHours * Hour
DefaultMaxStartLeadTime == MaxDays * (HoursPerDay * Hour)

\* Mutant: a zero is let through.
NewBookingFactoryWithZero(config) ==
    [ttl |-> IF config.ttl < 0 THEN DefaultReservationTTL ELSE config.ttl,
     min |-> IF config.min < 0 THEN DefaultMinStartLeadTime ELSE config.min,
     max |-> IF config.max < 0 THEN DefaultMaxStartLeadTime ELSE config.max]

NewBookingFactory(config) ==
    [ttl |-> IF config.ttl =< 0 THEN DefaultReservationTTL ELSE config.ttl,
     min |-> IF config.min =< 0 THEN DefaultMinStartLeadTime ELSE config.min,
     max |-> IF config.max =< 0 THEN DefaultMaxStartLeadTime ELSE config.max]
=============================================================================
