------------------------ MODULE ServiceProcessProofs ------------------------
(***************************************************************************)
(* The safety of ServiceProcess, for any number of replicas, migrations,   *)
(* handlers and connections.                                               *)
(***************************************************************************)
EXTENDS ServiceProcess, TLAPS

\* The lock keeps migrations apart, and a clean version tells the truth.
SchemaInv ==
    /\ \A r \in Replicas : Migrating(r) <=> lock = r
    /\ ~dirty => applied = version
    /\ \A r \in Replicas :
          /\ phase[r] \in {"applying", "applied"} => dirty
          /\ phase[r] = "applied" => applied = version
          /\ phase[r] \in {"wired", "serving"} /\ ~gracefulStop[r] =>
                 version = Last /\ ~dirty
          /\ gracefulStop[r] => stopping[r]

\* A handler lives in a process that serves or drains, and is at least as old as
\* the wait of Shutdown.
DrainInv ==
    /\ \A h \in Handlers :
          /\ hpc[h] = "none" <=> at[h] = None
          /\ at[h] # None => phase[at[h]] \in {"serving", "draining", "closing"}
          /\ at[h] # None => age[h] >= shutdownAge[at[h]]
    /\ \A r \in Replicas :
          /\ phase[r] \notin {"draining", "closing"} => shutdownAge[r] = 0
          /\ phase[r] = "closing" =>
                 ActiveOn(r) = {} \/ shutdownAge[r] >= HandlerDeadline

-----------------------------------------------------------------------------
\* The types are right at first and kept by every step.
LEMMA TypeInit == Init => TypeOK
<1> SUFFICES ASSUME Init PROVE TypeOK
    OBVIOUS
<1>0. version \in 0..Last /\ applied \in 0..Last
    BY ProcessAssumption DEF Init
<1>1. dirty \in BOOLEAN /\ brokenOff \in BOOLEAN /\ lock \in Replicas \cup {None}
    BY Zenon DEF Init
<1>2. /\ phase \in [Replicas -> Phase] /\ stopping \in [Replicas -> BOOLEAN]
      /\ gracefulStop \in [Replicas -> BOOLEAN]
      /\ conns \in [Replicas -> SUBSET (Replicas \cup Handlers)]
    BY DEF Init, Phase
<1>3. /\ shutdownAge \in [Replicas -> 0..ShutdownTimeout]
      /\ starts \in [Replicas -> 0..MaxStarts]
      /\ hpc \in [Handlers -> {"none", "reading", "waiting", "holding"}]
      /\ at \in [Handlers -> Replicas \cup {None}]
      /\ age \in [Handlers -> 0..MaxAge]
    BY ProcessAssumption DEF Init
<1> QED
    BY <1>0, <1>1, <1>2, <1>3 DEF TypeOK

\* The end of a process keeps the types.
LEMMA TypeExit ==
    ASSUME TypeOK, NEW r \in Replicas, Exit(r),
           UNCHANGED <<version, dirty, applied>>, brokenOff' \in BOOLEAN
    PROVE  TypeOK'
<1>1. /\ phase' \in [Replicas -> Phase] /\ lock' \in Replicas \cup {None}
      /\ stopping' \in [Replicas -> BOOLEAN] /\ gracefulStop' \in [Replicas -> BOOLEAN]
    BY DEF TypeOK, Exit, Become, Phase
<1>2. /\ conns' \in [Replicas -> SUBSET (Replicas \cup Handlers)]
      /\ shutdownAge' \in [Replicas -> 0..ShutdownTimeout]
      /\ starts' \in [Replicas -> 0..MaxStarts]
    BY ProcessAssumption DEF TypeOK, Exit
<1>3. /\ hpc' \in [Handlers -> {"none", "reading", "waiting", "holding"}]
      /\ at' \in [Handlers -> Replicas \cup {None}]
      /\ age' \in [Handlers -> 0..MaxAge]
    BY ProcessAssumption DEF TypeOK, Exit
<1> QED
    BY <1>1, <1>2, <1>3 DEF TypeOK

\* Every step keeps the types.
LEMMA TypeStep == TypeOK /\ [Next]_vars => TypeOK'
<1> SUFFICES ASSUME TypeOK, [Next]_vars
             PROVE  TypeOK'
    OBVIOUS
<1> USE ProcessAssumption DEF TypeOK, Become, Phase, schemaVars, processVars, handlerVars
<1>1. ASSUME NEW r \in Replicas, Boot(r) \/ Signal(r) \/ Relay(r)
      PROVE  TypeOK'
    <2>1. CASE Boot(r)
        BY <2>1 DEF Boot
    <2>2. CASE Signal(r)
        BY <2>2 DEF Signal
    <2>3. CASE Relay(r)
        BY <2>3 DEF Relay
    <2> QED
        BY <1>1, <2>1, <2>2, <2>3
<1>2. ASSUME NEW r \in Replicas, Announce(r) \/ Apply(r) \/ Withdraw(r)
      PROVE  TypeOK'
    <2>1. CASE Announce(r)
        BY <2>1 DEF Announce
    <2>2. CASE Apply(r)
        BY <2>2 DEF Apply
    <2>3. CASE Withdraw(r)
        BY <2>3 DEF Withdraw
    <2> QED
        BY <1>2, <2>1, <2>2, <2>3
<1>3. ASSUME NEW r \in Replicas, Listen(r) \/ Shutdown(r) \/ Drained(r)
      PROVE  TypeOK'
    BY <1>3 DEF Listen, Shutdown, Drained
<1>4. ASSUME NEW r \in Replicas, Lock(r) \/ Up(r) \/ Closed(r) \/ Die(r)
      PROVE  TypeOK'
    <2>1. ASSUME Exit(r), UNCHANGED <<version, dirty, applied>>, brokenOff' \in BOOLEAN
          PROVE  TypeOK'
        BY <2>1, TypeExit
    <2>2. CASE Lock(r)
        BY <2>1, <2>2 DEF Lock
    <2>3. CASE Up(r)
        BY <2>1, <2>3 DEF Up, Migrated, ReleaseMigrator
    <2>4. CASE Closed(r)
        BY <2>1, <2>4 DEF Closed
    <2>5. CASE Die(r)
        BY <2>1, <2>5 DEF Die
    <2> QED
        BY <1>4, <2>2, <2>3, <2>4, <2>5
<1>5. ASSUME NEW h \in Handlers, NEW r \in Replicas, Accept(h, r)
      PROVE  TypeOK'
    BY <1>5 DEF Accept
<1>6. ASSUME NEW h \in Handlers, BodyEnds(h) \/ Respond(h)
      PROVE  TypeOK'
    BY <1>6 DEF BodyEnds, Respond
<1>7. ASSUME NEW h \in Handlers, Acquire(h) \/ Release(h)
      PROVE  TypeOK'
    BY <1>7 DEF Acquire, Release
<1>8. CASE Tick
    BY <1>8 DEF Tick
<1>9. CASE UNCHANGED vars
    BY <1>9 DEF vars
<1> QED
    BY <1>1, <1>2, <1>3, <1>4, <1>5, <1>6, <1>7, <1>8, <1>9
    DEF Next, ProcessStep, HandlerStep, BodyTimeout

-----------------------------------------------------------------------------
(* Migrations. *)

\* Nothing is locked, dirty or announced at first.
LEMMA SchemaInit == Init => SchemaInv
BY ProcessAssumption DEF Init, SchemaInv, Migrating

\* The end of a process frees its lock and disturbs no other process.
LEMMA SchemaExit ==
    ASSUME TypeOK, SchemaInv, NEW r \in Replicas, Exit(r),
           UNCHANGED <<version, dirty, applied>>
    PROVE  SchemaInv'
<1>1. \A q \in Replicas : Migrating(q)' <=> lock' = q
    BY ProcessAssumption DEF TypeOK, SchemaInv, Migrating, Exit, Become
<1>2. \A q \in Replicas :
         /\ q # r => /\ phase'[q] = phase[q] /\ stopping'[q] = stopping[q]
                     /\ gracefulStop'[q] = gracefulStop[q]
         /\ q = r => phase'[q] = "down" /\ ~gracefulStop'[q]
    BY DEF TypeOK, Exit, Become
<1> QED
    BY <1>1, <1>2 DEF SchemaInv

\* Every step keeps SchemaInv.
LEMMA SchemaStep == TypeOK /\ SchemaInv /\ [Next]_vars => SchemaInv'
<1> SUFFICES ASSUME TypeOK, SchemaInv, [Next]_vars
             PROVE  SchemaInv'
    OBVIOUS
<1> USE DEF Become, Migrating
<1>1. ASSUME UNCHANGED <<version, dirty, applied, lock, phase, stopping, gracefulStop>>
      PROVE  SchemaInv'
    BY <1>1 DEF SchemaInv
<1>2. ASSUME NEW r \in Replicas, Exit(r), UNCHANGED <<version, dirty, applied>>
      PROVE  SchemaInv'
    BY <1>2, SchemaExit
<1>3. ASSUME NEW r \in Replicas, Boot(r)
      PROVE  SchemaInv'
    BY <1>3 DEF Boot, TypeOK, SchemaInv, schemaVars
<1>4. ASSUME NEW r \in Replicas, Lock(r)
      PROVE  SchemaInv'
    BY <1>2, <1>4, ProcessAssumption DEF Lock, TypeOK, SchemaInv
<1>5. ASSUME NEW r \in Replicas, Up(r)
      PROVE  SchemaInv'
    BY <1>2, <1>5, ProcessAssumption DEF Up, Migrated, TypeOK, SchemaInv
<1>6. ASSUME NEW r \in Replicas, Announce(r)
      PROVE  SchemaInv'
    BY <1>6 DEF Announce, TypeOK, SchemaInv
<1>7. ASSUME NEW r \in Replicas, Apply(r)
      PROVE  SchemaInv'
    BY <1>7 DEF Apply, TypeOK, SchemaInv
<1>8. ASSUME NEW r \in Replicas, Withdraw(r)
      PROVE  SchemaInv'
    BY <1>8 DEF Withdraw, TypeOK, SchemaInv
<1>9. ASSUME NEW r \in Replicas, Relay(r) \/ Signal(r)
      PROVE  SchemaInv'
    BY <1>9 DEF Relay, Signal, TypeOK, SchemaInv, schemaVars
<1>10. ASSUME NEW r \in Replicas, Listen(r) \/ Shutdown(r) \/ Drained(r)
       PROVE  SchemaInv'
    BY <1>10 DEF Listen, Shutdown, Drained, TypeOK, SchemaInv, schemaVars
<1>11. ASSUME NEW r \in Replicas, Closed(r) \/ Die(r)
       PROVE  SchemaInv'
    BY <1>2, <1>11 DEF Closed, Die
<1>12. ASSUME NEW h \in Handlers,
              \/ \E r \in Replicas : Accept(h, r)
              \/ BodyEnds(h) \/ Acquire(h) \/ HandlerStep(h)
       PROVE  SchemaInv'
    BY <1>1, <1>12 DEF Accept, BodyEnds, BodyTimeout, Acquire, HandlerStep, Release,
                       Respond, schemaVars, processVars
<1>13. CASE Tick \/ UNCHANGED vars
    BY <1>1, <1>13 DEF Tick, vars, schemaVars, processVars
<1> QED
    BY <1>3, <1>4, <1>5, <1>6, <1>7, <1>8, <1>9, <1>10, <1>11, <1>12, <1>13
    DEF Next, ProcessStep

\* A process that listens, and whose own migrations were not stopped by an interrupt,
\* has the whole schema, for any number of replicas, migrations, deaths and restarts.
\* A process interrupted later is no exception.
THEOREM SchemaIsComplete == Spec => []ServesCompleteSchema
<1>1. Init => TypeOK /\ SchemaInv
    BY TypeInit, SchemaInit
<1>2. TypeOK /\ SchemaInv /\ [Next]_vars => TypeOK' /\ SchemaInv'
    BY TypeStep, SchemaStep
<1>3. SchemaInv => ServesCompleteSchema
    BY DEF SchemaInv, ServesCompleteSchema
<1> QED
    BY <1>1, <1>2, <1>3, PTL DEF Spec

\* Every step keeps a dirty schema explained.
LEMMA DirtyStep ==
    TypeOK /\ SchemaInv /\ DirtyOnlyByDeath /\ [Next]_vars => DirtyOnlyByDeath'
<1> SUFFICES ASSUME TypeOK, SchemaInv, DirtyOnlyByDeath, [Next]_vars
             PROVE  DirtyOnlyByDeath'
    OBVIOUS
<1> USE DEF Become, DirtyOnlyByDeath
<1>1. ASSUME NEW r \in Replicas, UNCHANGED <<dirty, brokenOff>>,
             \A q \in Replicas : q # r => phase'[q] = phase[q],
             phase[r] \in {"applying", "applied"} => phase'[r] = "applied"
      PROVE  DirtyOnlyByDeath'
    BY <1>1
<1>2. ASSUME NEW r \in Replicas, Exit(r), UNCHANGED <<dirty, brokenOff>>,
             phase[r] \notin {"applying", "applied"}
      PROVE  DirtyOnlyByDeath'
    BY <1>1, <1>2 DEF Exit, TypeOK
<1>3. ASSUME NEW r \in Replicas, Announce(r)
      PROVE  DirtyOnlyByDeath'
    BY <1>3 DEF Announce, TypeOK
<1>4. ASSUME NEW r \in Replicas, Withdraw(r)
      PROVE  DirtyOnlyByDeath'
    BY <1>4 DEF Withdraw
<1>5. ASSUME NEW r \in Replicas, Die(r)
      PROVE  DirtyOnlyByDeath'
    BY <1>5, <1>2 DEF Die, Exit, TypeOK
<1>6. ASSUME NEW r \in Replicas, Lock(r) \/ Up(r) \/ Closed(r)
      PROVE  DirtyOnlyByDeath'
    <2>1. CASE Lock(r)
        BY <1>1, <1>2, <2>1 DEF Lock, TypeOK
    <2>2. CASE Up(r)
        BY <1>1, <1>2, <2>2 DEF Up, Migrated, TypeOK
    <2>3. CASE Closed(r)
        BY <1>2, <2>3 DEF Closed
    <2> QED
        BY <1>6, <2>1, <2>2, <2>3
<1>7. ASSUME NEW r \in Replicas, Boot(r) \/ Apply(r) \/ Listen(r) \/ Shutdown(r) \/ Drained(r)
      PROVE  DirtyOnlyByDeath'
    BY <1>1, <1>7 DEF Boot, Apply, Listen, Shutdown, Drained, TypeOK, schemaVars
<1>8. ASSUME UNCHANGED <<dirty, brokenOff, phase>>
      PROVE  DirtyOnlyByDeath'
    BY <1>8
<1>9. ASSUME NEW r \in Replicas, Relay(r) \/ Signal(r)
      PROVE  DirtyOnlyByDeath'
    BY <1>8, <1>9 DEF Relay, Signal, schemaVars
<1>10. ASSUME NEW h \in Handlers,
              \/ \E r \in Replicas : Accept(h, r)
              \/ BodyEnds(h) \/ Acquire(h) \/ HandlerStep(h)
       PROVE  DirtyOnlyByDeath'
    BY <1>8, <1>10 DEF Accept, BodyEnds, BodyTimeout, Acquire, HandlerStep, Release,
                       Respond, schemaVars, processVars
<1>11. CASE Tick \/ UNCHANGED vars
    BY <1>8, <1>11 DEF Tick, vars, schemaVars, processVars
<1> QED
    BY <1>3, <1>4, <1>5, <1>6, <1>7, <1>9, <1>10, <1>11 DEF Next, ProcessStep

\* Interrupts never leave a schema dirty, deaths inside a migration may.
THEOREM DirtyIsExplained == Spec => []DirtyOnlyByDeath
<1>1. Init => TypeOK /\ SchemaInv /\ DirtyOnlyByDeath
    BY TypeInit, SchemaInit DEF Init, DirtyOnlyByDeath
<1>2. TypeOK /\ SchemaInv /\ DirtyOnlyByDeath /\ [Next]_vars
          => TypeOK' /\ SchemaInv' /\ DirtyOnlyByDeath'
    BY TypeStep, SchemaStep, DirtyStep
<1> QED
    BY <1>1, <1>2, PTL DEF Spec

-----------------------------------------------------------------------------
(* Shutdown. *)

\* No handler lives at first.
LEMMA DrainInit == Init => DrainInv
BY ProcessAssumption DEF Init, DrainInv, ActiveOn

\* The end of a process takes its handlers along.
LEMMA DrainExit ==
    ASSUME TypeOK, DrainInv, NEW r \in Replicas, Exit(r)
    PROVE  DrainInv'
<1>1. \A q \in Replicas :
         /\ q # r => phase'[q] = phase[q] /\ shutdownAge'[q] = shutdownAge[q]
         /\ q = r => phase'[q] = "down" /\ shutdownAge'[q] = 0
    BY DEF TypeOK, Exit, Become
<1>2. \A h \in Handlers :
         /\ at[h] # r => at'[h] = at[h] /\ hpc'[h] = hpc[h] /\ age'[h] = age[h]
         /\ at[h] = r => at'[h] = None /\ hpc'[h] = "none"
    BY DEF Exit
<1>3. \A q \in Replicas : q # r => ActiveOn(q)' = ActiveOn(q)
    BY <1>2, ProcessAssumption DEF ActiveOn
<1>4. \A h \in Handlers : at[h] \in Replicas \cup {None}
    BY DEF TypeOK
<1>5. \A h \in Handlers :
         /\ hpc'[h] = "none" <=> at'[h] = None
         /\ at'[h] # None =>
               /\ phase'[at'[h]] \in {"serving", "draining", "closing"}
               /\ age'[h] >= shutdownAge'[at'[h]]
    BY <1>1, <1>2, <1>4 DEF DrainInv
<1> QED
    BY <1>1, <1>3, <1>5 DEF DrainInv

\* Every step keeps DrainInv.
LEMMA DrainStep == TypeOK /\ DrainInv /\ [Next]_vars => DrainInv'
<1> SUFFICES ASSUME TypeOK, DrainInv, [Next]_vars
             PROVE  DrainInv'
    OBVIOUS
<1> USE DEF Become
<1>1. ASSUME UNCHANGED <<phase, shutdownAge, hpc, at, age>>
      PROVE  DrainInv'
    BY <1>1 DEF DrainInv, ActiveOn
\* A process moves on from a phase without handlers, or to Shutdown.
<1>2. ASSUME NEW r \in Replicas, NEW p \in Phase, Become(r, p),
             UNCHANGED <<shutdownAge, hpc, at, age>>,
             phase[r] \notin {"draining", "closing"},
             p # "closing",
             phase[r] = "serving" => p \in {"serving", "draining"}
      PROVE  DrainInv'
    <2>1. \A q \in Replicas : phase'[q] = IF q = r THEN p ELSE phase[q]
        BY <1>2 DEF TypeOK
    <2>2. \A h \in Handlers : at[h] # None => at[h] \in Replicas
        BY DEF TypeOK
    <2> QED
        BY <1>2, <2>1, <2>2 DEF DrainInv, ActiveOn
<1>3. ASSUME NEW r \in Replicas,
             Boot(r) \/ Announce(r) \/ Apply(r) \/ Withdraw(r) \/ Listen(r) \/ Shutdown(r)
      PROVE  DrainInv'
    BY <1>2, <1>3 DEF Boot, Announce, Apply, Withdraw, Listen, Shutdown, handlerVars, Phase
<1>4. ASSUME NEW r \in Replicas, Lock(r) \/ Up(r) \/ Closed(r) \/ Die(r)
      PROVE  DrainInv'
    <2>1. CASE Exit(r)
        BY <2>1, DrainExit
    <2>2. CASE ~Exit(r)
        BY <1>2, <1>4, <2>2 DEF Lock, Up, Migrated, Closed, Die, handlerVars, Phase
    <2> QED
        BY <2>1, <2>2
<1>5. ASSUME NEW r \in Replicas, Relay(r) \/ Signal(r)
      PROVE  DrainInv'
    BY <1>1, <1>5 DEF Relay, Signal, handlerVars
<1>6. ASSUME NEW r \in Replicas, Drained(r)
      PROVE  DrainInv'
    <2>1. UNCHANGED <<shutdownAge, hpc, at, age>> /\ phase[r] = "draining"
        BY <1>6 DEF Drained, handlerVars
    <2>2. \A q \in Replicas : phase'[q] = IF q = r THEN "closing" ELSE phase[q]
        BY <1>6 DEF Drained, TypeOK
    <2>3. ActiveOn(r)' = {} \/ shutdownAge'[r] >= HandlerDeadline
        BY <1>6, <2>1, ProcessAssumption DEF Drained, ActiveOn, TypeOK
    <2>4. \A q \in Replicas : ActiveOn(q)' = ActiveOn(q)
        BY <2>1 DEF ActiveOn
    <2>5. \A h \in Handlers : at[h] # None => at[h] \in Replicas
        BY DEF TypeOK
    <2> QED
        BY <2>1, <2>2, <2>3, <2>4, <2>5 DEF DrainInv
<1>7. ASSUME NEW h \in Handlers, NEW r \in Replicas, Accept(h, r)
      PROVE  DrainInv'
    <2>1. /\ UNCHANGED <<phase, shutdownAge, age>>
          /\ phase[r] = "serving" /\ shutdownAge[r] = 0 /\ r # None
        BY <1>7, ProcessAssumption DEF Accept, processVars, DrainInv
    <2>2. \A g \in Handlers :
             /\ g # h => hpc'[g] = hpc[g] /\ at'[g] = at[g]
             /\ g = h => hpc'[g] = "reading" /\ at'[g] = r
        BY <1>7 DEF Accept, TypeOK
    <2>3. \A q \in Replicas : phase[q] = "closing" => ActiveOn(q)' = ActiveOn(q)
        <3> SUFFICES ASSUME NEW q \in Replicas, phase[q] = "closing"
                     PROVE  ActiveOn(q)' = ActiveOn(q)
            OBVIOUS
        <3>1. q # r /\ at[h] = None /\ q # None
            BY <1>7, <2>1, ProcessAssumption DEF Accept, DrainInv
        <3>2. \A g \in Handlers : at'[g] = q <=> at[g] = q
            BY <2>2, <3>1
        <3> QED
            BY <3>2 DEF ActiveOn
    <2>4. age[h] >= 0
        BY DEF TypeOK
    <2> QED
        BY <2>1, <2>2, <2>3, <2>4 DEF DrainInv
<1>8. ASSUME NEW h \in Handlers, BodyEnds(h) \/ Acquire(h) \/ Release(h)
      PROVE  DrainInv'
    <2>1. UNCHANGED <<phase, shutdownAge, at, age>>
        BY <1>8 DEF BodyEnds, Acquire, Release, processVars
    <2>2. \A g \in Handlers : hpc'[g] = "none" <=> hpc[g] = "none"
        BY <1>8 DEF BodyEnds, Acquire, Release, TypeOK
    <2> QED
        BY <2>1, <2>2 DEF DrainInv, ActiveOn
<1>9. ASSUME NEW h \in Handlers, Respond(h)
      PROVE  DrainInv'
    <2>1. UNCHANGED <<phase, shutdownAge>>
        BY <1>9 DEF Respond, processVars
    <2>2. \A g \in Handlers :
             /\ g # h => hpc'[g] = hpc[g] /\ at'[g] = at[g] /\ age'[g] = age[g]
             /\ g = h => hpc'[g] = "none" /\ at'[g] = None
        BY <1>9 DEF Respond, TypeOK
    <2>3. \A q \in Replicas : ActiveOn(q)' \subseteq ActiveOn(q)
        BY <2>2, ProcessAssumption DEF ActiveOn
    <2> QED
        BY <2>1, <2>2, <2>3 DEF DrainInv
<1>10. CASE Tick
    <2>1. UNCHANGED <<phase, hpc, at>>
        BY <1>10 DEF Tick
    <2>2. \A q \in Replicas :
             /\ shutdownAge'[q] = IF phase[q] = "draining" THEN shutdownAge[q] + 1
                                  ELSE shutdownAge[q]
             /\ phase[q] = "draining" => shutdownAge[q] < ShutdownTimeout
             /\ shutdownAge[q] \in Nat
        BY <1>10 DEF Tick, TypeOK
    <2>3. \A h \in Handlers :
             /\ hpc[h] # "none" /\ age[h] < MaxAge => age'[h] = age[h] + 1
             /\ ~(hpc[h] # "none" /\ age[h] < MaxAge) => age'[h] = age[h]
             /\ age[h] \in Nat /\ age[h] =< MaxAge
        BY <1>10, ProcessAssumption DEF Tick, TypeOK
    <2>4. ASSUME NEW h \in Handlers, at[h] # None
          PROVE  age'[h] >= shutdownAge'[at[h]]
        <3>1. at[h] \in Replicas /\ hpc[h] # "none" /\ age[h] >= shutdownAge[at[h]]
            BY <2>4 DEF DrainInv, TypeOK
        <3>2. ShutdownTimeout =< MaxAge /\ ShutdownTimeout \in Nat /\ MaxAge \in Nat
            BY ProcessAssumption
        <3> QED
            BY <2>2, <2>3, <3>1, <3>2
    <2>5. \A q \in Replicas : ActiveOn(q)' = ActiveOn(q)
        BY <2>1 DEF ActiveOn
    <2> QED
        BY <2>1, <2>2, <2>4, <2>5 DEF DrainInv
<1>11. CASE UNCHANGED vars
    BY <1>1, <1>11 DEF vars, processVars, handlerVars
<1> QED
    BY <1>3, <1>4, <1>5, <1>6, <1>7, <1>8, <1>9, <1>10, <1>11
    DEF Next, ProcessStep, HandlerStep, BodyTimeout

\* The pool closes on nobody who could still have been answered, whatever the
\* deadlines, as long as Shutdown waits for at least as long as a handler may run.
THEOREM ShutdownIsGraceful == Spec => []ShutdownLosesNoWork
<1>1. Init => TypeOK /\ DrainInv
    BY TypeInit, DrainInit
<1>2. TypeOK /\ DrainInv /\ [Next]_vars => TypeOK' /\ DrainInv'
    BY TypeStep, DrainStep
<1>3. TypeOK /\ DrainInv => ShutdownLosesNoWork
    <2> SUFFICES ASSUME TypeOK, DrainInv, NEW r \in Replicas, phase[r] = "closing",
                        NEW h \in ActiveOn(r)
                 PROVE  age[h] >= HandlerDeadline
        BY DEF ShutdownLosesNoWork
    <2>1. h \in Handlers /\ at[h] = r /\ at[h] # None
        BY ProcessAssumption DEF ActiveOn
    <2>2. age[h] >= shutdownAge[r] /\ shutdownAge[r] >= HandlerDeadline
        BY <2>1 DEF DrainInv
    <2>3. age[h] \in Int /\ shutdownAge[r] \in Int /\ HandlerDeadline \in Int
        BY <2>1, ProcessAssumption DEF TypeOK
    <2> QED
        BY <2>2, <2>3
<1> QED
    BY <1>1, <1>2, <1>3, PTL DEF Spec

\* Every variable keeps its type: no version beyond the last migration, and no
\* wait of Shutdown beyond its timeout.
THEOREM ProcessTypes == Spec => []TypeOK
    BY TypeInit, TypeStep, PTL DEF Spec
=============================================================================
