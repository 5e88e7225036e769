-------------------------- MODULE BookingRulesProofs --------------------------
(***************************************************************************)
(* What BookingRules promises, for every word width, unit, environment,    *)
(* start time, duration, deadline and delay of the database.               *)
(***************************************************************************)
EXTENDS BookingRules, TLAPS

\* What the code relies on without saying so: the factory's durations are positive
\* whatever was configured and however it wrapped.
PositiveFactory == factory.ttl > 0 /\ factory.min > 0 /\ factory.max > 0

\* What the readings of the clock have to do with each other.  The builder is made while
\* the window is open and the request not over; the hold is stamped, and the booking
\* stored, in the time its request has; a confirmation that is under way came before
\* the hold was over, and is stored in the time it has.
InOrder ==
    /\ step \in {"asked", "building", "booking"} => status = "none"
    /\ step \in {"building", "booking"} => arrived =< built
    /\ step \in {"building", "booking"} \/ Stored =>
          start >= built + factory.min /\ start =< built + factory.max
    /\ step = "booking" => arrived =< createdAt
    /\ step = "booking" \/ Stored =>
          createdAt < built + Deadline /\ expiredAt = createdAt + factory.ttl
    /\ Stored => storedAt < createdAt + Deadline + Lag
    /\ step = "confirming" => Stored /\ arrived < expiredAt
    /\ step = "cancelling" => status = "confirmed"
    /\ status \in {"confirmed", "cancelled"} => confirmedAt < expiredAt + Deadline + Lag

Configured == factory = NewBookingFactory(NewAppointmentConfig(env))

RulesInv == TypeOK /\ Configured /\ PositiveFactory /\ InOrder

-----------------------------------------------------------------------------
\* A duration that fits the word is not changed by Wrap.
LEMMA WrapFits ==
    ASSUME NEW n \in Int, n \in -Word..Word - 1
    PROVE  Wrap(n) = n
<1>1. Word \in Nat /\ n + Word \in 0..2 * Word - 1
  BY UnitsAssumption
<1>2. (n + Word) % (2 * Word) = n + Word
  BY <1>1
<1> QED
  BY <1>1, <1>2 DEF Wrap

\* Wrap gives an integer whatever it is given.
LEMMA WrapType ==
    ASSUME NEW n \in Int
    PROVE  Wrap(n) \in Int
<1>1. Word \in Nat /\ Word > 0
  BY UnitsAssumption
<1>2. (n + Word) % (2 * Word) \in Int
  BY <1>1
<1> QED
  BY <1>1, <1>2 DEF Wrap

\* What a variable stands for is an integer.
LEMMA EnvType ==
    ASSUME NEW e \in Environments, NEW f \in {"ttl", "min", "max"}, NEW fallback \in Int
    PROVE  GetIntEnv(e[f], fallback) \in Int
  BY RulesAssumption DEF GetIntEnv

\* newAppointmentConfig yields three integers.
LEMMA ConfigType ==
    ASSUME NEW e \in Environments
    PROVE  /\ NewAppointmentConfig(e).ttl \in Int
           /\ NewAppointmentConfig(e).min \in Int
           /\ NewAppointmentConfig(e).max \in Int
<1> DEFINE t == GetIntEnv(e.ttl, TTLSeconds)
           h == GetIntEnv(e.min, MinHours)
           d == GetIntEnv(e.max, MaxDays)
<1>1. t \in Int /\ h \in Int /\ d \in Int
  BY EnvType, UnitsAssumption
<1>2. Second \in Int /\ Hour \in Int /\ HoursPerDay * Hour \in Int
  BY UnitsAssumption
<1> HIDE DEF t, h, d
<1>3. t * Second \in Int /\ h * Hour \in Int /\ d * (HoursPerDay * Hour) \in Int
  BY <1>1, <1>2
<1>4. Wrap(t * Second) \in Int /\ Wrap(h * Hour) \in Int /\ Wrap(d * (HoursPerDay * Hour)) \in Int
  BY <1>3, WrapType
<1> QED
  BY <1>4 DEF NewAppointmentConfig, t, h, d

\* NewBookingFactory makes three positive integers of any three integers.
LEMMA FactoryPositive ==
    ASSUME NEW c, c.ttl \in Int, c.min \in Int, c.max \in Int
    PROVE  LET f == NewBookingFactory(c)
           IN  /\ f \in [ttl : Int, min : Int, max : Int]
               /\ f.ttl > 0 /\ f.min > 0 /\ f.max > 0
<1>1. /\ DefaultReservationTTL \in Int /\ DefaultReservationTTL > 0
      /\ DefaultMinStartLeadTime \in Int /\ DefaultMinStartLeadTime > 0
      /\ DefaultMaxStartLeadTime \in Int /\ DefaultMaxStartLeadTime > 0
  BY UnitsAssumption
     DEF DefaultReservationTTL, DefaultMinStartLeadTime, DefaultMaxStartLeadTime
<1> QED
  BY <1>1 DEF NewBookingFactory

-----------------------------------------------------------------------------
\* The invariant holds at first.
LEMMA RulesInit == Init => RulesInv
<1> SUFFICES ASSUME Init PROVE RulesInv
  OBVIOUS
<1>1. env \in Environments
  BY DEF Init
<1>2. /\ NewAppointmentConfig(env).ttl \in Int
      /\ NewAppointmentConfig(env).min \in Int
      /\ NewAppointmentConfig(env).max \in Int
  BY <1>1, ConfigType
<1>3. /\ factory \in [ttl : Int, min : Int, max : Int]
      /\ factory.ttl > 0 /\ factory.min > 0 /\ factory.max > 0
  BY <1>2, FactoryPositive DEF Init
<1>4. TypeOK
  BY <1>1, <1>3, RulesAssumption DEF Init, TypeOK
<1>5. Configured /\ PositiveFactory /\ InOrder
  BY <1>3 DEF Init, Configured, PositiveFactory, InOrder, Stored
<1> QED
  BY <1>4, <1>5 DEF RulesInv

\* Every step keeps it.
LEMMA RulesStep == RulesInv /\ [Next]_vars => RulesInv'
<1> SUFFICES ASSUME RulesInv, [Next]_vars PROVE RulesInv'
  OBVIOUS
<1> USE RulesAssumption
    DEF RulesInv, TypeOK, Configured, PositiveFactory, InOrder, Stored, Deciding, Writing, draftVars
<1>1. CASE Tick
  BY <1>1 DEF Tick
<1>2. ASSUME NEW s \in Starts, Ask(s) PROVE RulesInv'
  BY <1>2 DEF Ask
<1>3. CASE NewAppointmentBuilder
  BY <1>3 DEF NewAppointmentBuilder, InWindow, Live
<1>4. ASSUME NEW duration \in Durations, Build(duration) PROVE RulesInv'
  BY <1>4 DEF Build, Live
<1>5. ASSUME NEW request \in {"confirm", "cancel"}, Receive(request) PROVE RulesInv'
  BY <1>5 DEF Receive
<1>6. CASE Confirm
  BY <1>6 DEF Confirm, HoldIsOver
<1>7. CASE Cancel
  BY <1>7 DEF Cancel
<1>8. CASE TryAgain
  BY <1>8 DEF TryAgain
<1>9. CASE Commit
  <2>1. CASE step = "booking"
    BY <1>9, <2>1 DEF Commit, Lands
  <2>2. CASE step = "confirming"
    BY <1>9, <2>2 DEF Commit, Lands
  <2>3. CASE step = "cancelling"
    BY <1>9, <2>3 DEF Commit
  <2> QED
    BY <1>9, <2>1, <2>2, <2>3 DEF Commit
<1>10. CASE GiveUp
  BY <1>10 DEF GiveUp
<1>11. CASE UNCHANGED vars
  BY <1>11 DEF vars
<1> QED
  BY <1>1, <1>2, <1>3, <1>4, <1>5, <1>6, <1>7, <1>8, <1>9, <1>10, <1>11 DEF Next

\* So it always holds.
LEMMA RulesAlways == Spec => []RulesInv
  BY RulesInit, RulesStep, PTL DEF Spec

-----------------------------------------------------------------------------
\* The types of the rules: the readings of the clock lie behind it.
THEOREM RulesTypes == Spec => []TypeOK
  BY RulesAlways, PTL DEF RulesInv

\* A stored hold was given for some time, for every environment and word width, and
\* outlasts its own commit if it is as long as a request may take.
THEOREM HoldsAlwaysLast == Spec => []HoldsLast
<1>1. RulesInv => HoldsLast
  BY RulesAssumption DEF RulesInv, TypeOK, PositiveFactory, InOrder, HoldsLast
<1> QED
  BY <1>1, RulesAlways, PTL

\* No confirmation is stored later after the start than the two deadlines, the hold
\* between them and the delay of the database exceed the minimum lead time.
THEOREM ConfirmationIsBounded == Spec => []ConfirmedSoonEnough
<1>1. RulesInv => ConfirmedSoonEnough
  BY RulesAssumption DEF RulesInv, TypeOK, InOrder, Stored, ConfirmedSoonEnough
<1> QED
  BY <1>1, RulesAlways, PTL

\* The bookable window and the hold are those of the environment, if it says positive
\* numbers that fit.
THEOREM WindowAsConfigured == Spec => []AcceptedAsConfigured
<1>1. ASSUME RulesInv, Fits(env), Positive
      PROVE  /\ factory.ttl = GetIntEnv(env.ttl, TTLSeconds) * Second
             /\ factory.min = GetIntEnv(env.min, MinHours) * Hour
             /\ factory.max = GetIntEnv(env.max, MaxDays) * (HoursPerDay * Hour)
  <2> DEFINE t == GetIntEnv(env.ttl, TTLSeconds)
             h == GetIntEnv(env.min, MinHours)
             d == GetIntEnv(env.max, MaxDays)
             day == HoursPerDay * Hour
  <2>1. t \in Int /\ h \in Int /\ d \in Int
    BY <1>1, EnvType, UnitsAssumption DEF RulesInv, TypeOK
  <2>2. t > 0 /\ h > 0 /\ d > 0
    BY <1>1, UnitsAssumption DEF Positive, GetIntEnv
  <2>3. /\ Second \in Int /\ Second > 0 /\ Hour \in Int /\ Hour > 0
        /\ day \in Int /\ day > 0
    BY UnitsAssumption
  <2>4. t * Second \in -Word..Word - 1 /\ h * Hour \in -Word..Word - 1 /\ d * day \in -Word..Word - 1
    BY <1>1 DEF Fits
  <2>5. NewAppointmentConfig(env) = [ttl |-> Wrap(t * Second), min |-> Wrap(h * Hour), max |-> Wrap(d * day)]
    BY DEF NewAppointmentConfig
  <2> HIDE DEF t, h, d, day
  <2>6. /\ t * Second \in Int /\ t * Second > 0
        /\ h * Hour \in Int /\ h * Hour > 0
        /\ d * day \in Int /\ d * day > 0
    BY <2>1, <2>2, <2>3
  <2>7. NewAppointmentConfig(env) = [ttl |-> t * Second, min |-> h * Hour, max |-> d * day]
    BY <2>4, <2>5, <2>6, WrapFits
  <2>8. factory = [ttl |-> t * Second, min |-> h * Hour, max |-> d * day]
    BY <1>1, <2>6, <2>7 DEF RulesInv, Configured, NewBookingFactory
  <2> QED
    BY <2>8 DEF t, h, d, day
<1>2. RulesInv => AcceptedAsConfigured
  BY <1>1 DEF RulesInv, TypeOK, InOrder, Stored, AcceptedAsConfigured
<1> QED
  BY <1>2, RulesAlways, PTL

\* No environment makes the service unusable: whatever the variables say, and however
\* the durations wrap, NewBookingFactory has three positive ones.  It is what Scheduling
\* assumes of the factory (FactoryAssumption).
THEOREM ConfigurationIsUsable ==
    \A e \in Environments :
        NewBookingFactory(NewAppointmentConfig(e)) \in
            [ttl : Nat \ {0}, min : Nat \ {0}, max : Nat \ {0}]
<1> SUFFICES ASSUME NEW e \in Environments
             PROVE  NewBookingFactory(NewAppointmentConfig(e)) \in
                        [ttl : Nat \ {0}, min : Nat \ {0}, max : Nat \ {0}]
  OBVIOUS
<1> DEFINE c == NewAppointmentConfig(e)
<1>1. c.ttl \in Int /\ c.min \in Int /\ c.max \in Int
  BY ConfigType
<1> HIDE DEF c
<1> DEFINE f == NewBookingFactory(c)
<1>2. f \in [ttl : Int, min : Int, max : Int] /\ f.ttl > 0 /\ f.min > 0 /\ f.max > 0
  BY <1>1, FactoryPositive
<1> HIDE DEF f
<1>3. f \in [ttl : Nat \ {0}, min : Nat \ {0}, max : Nat \ {0}]
  BY <1>2
<1> QED
  BY <1>3 DEF f, c
=============================================================================
