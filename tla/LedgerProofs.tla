---------------------------- MODULE LedgerProofs ----------------------------
(***************************************************************************)
(* AppointmentService implements BookingLedger: the proof, for every value *)
(* of the constants.                                                       *)
(***************************************************************************)
EXTENDS LedgerRefinement, AppointmentServiceProofs

-----------------------------------------------------------------------------
(* What a transaction drafts. *)

\* The technician that createFn picks is one that the workforce listed.
LEMMA ListedTechnician ==
    ASSUME NEW b, NEW S, NEW t \in BestTechnicians(b, S)
    PROVE  \E i \in ListTechnicians(b) : Technicians[Request[b].dealer][i].id = t
BY DEF BestTechnicians

\* The same of the bay.
LEMMA ListedBay ==
    ASSUME NEW b, NEW S, NEW y \in FirstServiceBay(b, S)
    PROVE  \E i \in ListServiceBays(b) : ServiceBays[Request[b].dealer][i].id = y
BY DEF FirstServiceBay

\* What DraftInv says of one booker.
Passed(b) == VehicleValid(b) /\ Request[b].fieldsPresent /\ InCatalog(b)
Listed(b) ==
    /\ \E i \in ListTechnicians(b) :
          Technicians[Request[b].dealer][i].id = row[b].technician
    /\ \E i \in ListServiceBays(b) :
          ServiceBays[Request[b].dealer][i].id = row[b].bay
    /\ row[b].expiredAt =< AppNow(b) + ReservationTTL
DraftOf(b) ==
    /\ pc[b] \in {"begin", "snapshot", "create", "insert", "commit"} => Passed(b)
    /\ Drafting(b) => Listed(b)

\* DraftInv is DraftOf each booker.
LEMMA DraftSplit == DraftInv <=> \A b \in Bookers : DraftOf(b)
BY DEF DraftInv, DraftOf, Passed, Listed

\* The lists are of the roster and the request, which stay.
LEMMA ListsStay ==
    ASSUME NEW b
    PROVE  ListTechnicians(b)' = ListTechnicians(b) /\ ListServiceBays(b)' = ListServiceBays(b)
<1>1. ListTechnicians(b)' = ListTechnicians(b)
    BY DEF ListTechnicians, StartOf, EndOf
<1>2. ListServiceBays(b)' = ListServiceBays(b)
    BY DEF ListServiceBays, StartOf, EndOf
<1> QED
    BY <1>1, <1>2

\* A booker that another's step leaves alone keeps its draft while time passes.
LEMMA DraftKept ==
    ASSUME TypeOK, NEW b \in Bookers, DraftOf(b), now =< now', now' \in Nat,
           pc'[b] = pc[b], row'[b] = row[b], result'[b] = result[b]
    PROVE  DraftOf(b)'
<1>1. AppNow(b) =< AppNow(b)' /\ AppNow(b) \in Int /\ AppNow(b)' \in Int
    BY SkewAssumption DEF AppNow, TypeOK, TablesTypeOK
<1>2. row[b].expiredAt \in Int
    BY DEF TypeOK, TablesTypeOK, Row
<1>3. Drafting(b)' <=> Drafting(b)
    BY DEF Drafting, HoldsKeyEntry
<1>4. Passed(b)' <=> Passed(b)
    BY DEF Passed, VehicleValid, InCatalog
<1>5. ASSUME Listed(b) PROVE Listed(b)'
    <2>1. row[b].expiredAt =< AppNow(b)' + ReservationTTL
        BY <1>1, <1>2, <1>5, FactoryAssumption DEF Listed
    <2> QED
        BY <1>5, <2>1, ListsStay DEF Listed
<1> QED
    BY <1>3, <1>4, <1>5 DEF DraftOf

\* createFn drafts a slot that the workforce listed, held for the TTL.
LEMMA DraftCreate ==
    ASSUME TypeOK, NEW b \in Bookers, DraftOf(b), Create(b), pc'[b] = "insert"
    PROVE  Passed(b) /\ Listed(b)'
<1>1. PICK t \in BestTechnicians(b, BusyTechnicians(busy[b])),
           y \in FirstServiceBay(b, BusyBays(busy[b])) :
          /\ row' = [row EXCEPT ![b] =
                 [technician |-> t, bay |-> y, expiredAt |-> AppNow(b) + ReservationTTL]]
          /\ now' = now
    BY DEF Create, Reply, Goto, TypeOK, BookersTypeOK
<1>2. /\ row'[b].technician = t /\ row'[b].bay = y
      /\ row'[b].expiredAt = AppNow(b) + ReservationTTL
    BY <1>1 DEF TypeOK, TablesTypeOK
<1>3. \E i \in ListTechnicians(b) : Technicians[Request[b].dealer][i].id = t
    BY ListedTechnician
<1>4. \E i \in ListServiceBays(b) : ServiceBays[Request[b].dealer][i].id = y
    BY ListedBay
<1>5. AppNow(b) \in Int /\ AppNow(b)' = AppNow(b)
    <2>1. ClockSkew[b] \in Int /\ now \in Nat /\ now' = now
        BY <1>1, SkewAssumption DEF TypeOK, TablesTypeOK
    <2> QED
        BY <2>1 DEF AppNow
<1>6. Listed(b)'
    BY <1>2, <1>3, <1>4, <1>5, FactoryAssumption, ListsStay DEF Listed
<1>7. Passed(b)
    BY DEF DraftOf, Create
<1> QED
    BY <1>6, <1>7

\* A step of a booker keeps its own draft in order.
LEMMA DraftOwn ==
    ASSUME TypeOK, HandlerInv, NEW b \in Bookers, DraftOf(b), BookerNext(b)
    PROVE  DraftOf(b)'
<1> USE DEF TypeOK, TablesTypeOK, BookersTypeOK, Goto, Reply
<1>0. Passed(b)' <=> Passed(b)
    BY DEF Passed, VehicleValid, InCatalog
<1>q. ASSUME pc'[b] \in {"lookup", "prepare", "backstop", "done"}
      PROVE  DraftOf(b)'
    BY <1>q DEF DraftOf, Drafting, HoldsKeyEntry
<1>1. CASE Arrive(b)
    BY <1>1, <1>q DEF Arrive, ReplyNoTx
<1>2. CASE Lookup(b)
    BY <1>2, <1>q DEF Lookup, ReplyNoTx
<1>3. CASE Prepare(b)
    <2>1. CASE Preparation(b) = "ok"
        <3>1. Passed(b)
            BY <2>1 DEF Preparation, Passed, BuilderAccepts
        <3> QED
            BY <1>0, <1>3, <2>1, <3>1 DEF Prepare, DraftOf, Drafting, HoldsKeyEntry
    <2>2. CASE Preparation(b) # "ok"
        BY <1>3, <1>q, <2>2 DEF Prepare, ReplyNoTx
    <2> QED
        BY <2>1, <2>2
<1>4. CASE Begin(b)
    BY <1>0, <1>4 DEF Begin, DraftOf, Drafting, HoldsKeyEntry
<1>5. CASE TakeSnapshot(b)
    BY <1>0, <1>5
    DEF TakeSnapshot, DraftOf, Drafting, HoldsKeyEntry, KeyHolders, Committed, HandlerInv
<1>6. CASE Create(b)
    <2>1. CASE pc'[b] = "insert"
        BY <1>0, <1>6, <2>1, DraftCreate DEF DraftOf
    <2>2. CASE pc'[b] # "insert"
        BY <1>6, <1>q, <2>2 DEF Create
    <2> QED
        BY <2>1, <2>2
<1>7. CASE Insert(b)
    <2>1. CASE KeyTaken(b)
        BY <1>7, <1>q, <2>1 DEF Insert, KeyTaken
    <2>2. CASE ~KeyTaken(b)
        <3>1. UNCHANGED <<now, row>> /\ Passed(b) /\ Listed(b)
            BY <1>7, <2>2 DEF Insert, DraftOf, Drafting, tableVars
        <3>2. Listed(b)'
            BY <3>1 DEF Listed, ListTechnicians, ListServiceBays, StartOf, EndOf, AppNow
        <3> QED
            BY <1>0, <3>1, <3>2 DEF DraftOf
    <2> QED
        BY <2>1, <2>2
<1>8. CASE Backstop(b)
    BY <1>8, <1>q DEF Backstop, ReplyNoTx
<1>9. ASSUME NEW slug \in {"ok", "error"}, Commit(b, slug)
      PROVE  DraftOf(b)'
    BY <1>9, <1>q DEF Commit
<1>10. CASE CommitReplay(b)
    BY <1>10, <1>q DEF CommitReplay
<1>11. CASE SerializationFailure(b)
    <2>1. CASE pc'[b] = "begin"
        BY <1>0, <1>11, <2>1
        DEF SerializationFailure, InSnapshot, DraftOf, Drafting, HoldsKeyEntry
    <2>2. CASE pc'[b] # "begin"
        BY <1>11, <1>q, <2>2 DEF SerializationFailure
    <2> QED
        BY <2>1, <2>2
<1>12. CASE Abandon(b)
    BY <1>12, <1>q DEF Abandon
<1> QED
    BY <1>1, <1>2, <1>3, <1>4, <1>5, <1>6, <1>7, <1>8, <1>9,
       <1>10, <1>11, <1>12 DEF BookerNext, BookerStep

\* Every step keeps what transactions have drafted in order.
LEMMA DraftStep == ASSUME IInv, DraftInv, [Next]_vars PROVE DraftInv'
<1> USE DEF IInv
<1>0. now \in Nat
    BY DEF TypeOK, TablesTypeOK
<1>1. ASSUME NEW b \in Bookers, BookerNext(b)
      PROVE  DraftInv'
    <2>1. \A a \in Bookers : a # b => DraftOf(a)'
        BY <1>0, <1>1, BookerFrame, DraftSplit, DraftKept
    <2>2. DraftOf(b)'
        BY <1>1, DraftSplit, DraftOwn
    <2> QED
        BY <2>1, <2>2 DEF DraftInv, DraftOf, Passed, Listed
<1>2. ASSUME UNCHANGED <<row, bookerVars>>, now =< now', now' \in Nat
      PROVE  DraftInv'
    <2>1. \A a \in Bookers : DraftOf(a)'
        BY <1>2, DraftSplit, DraftKept DEF bookerVars
    <2> QED
        BY <2>1 DEF DraftInv, DraftOf, Passed, Listed
<1>3. ASSUME NEW u \in Updaters, UpdaterNext(u), UNCHANGED bookerVars
      PROVE  DraftInv'
    BY <1>0, <1>2, <1>3, UpdaterKeepsRows
<1>4. CASE /\ Tick \/ UNCHANGED now
           /\ UNCHANGED <<row, bookerVars>>
    BY <1>0, <1>2, <1>4 DEF Tick
<1> QED
    BY <1>1, <1>3, <1>4 DEF Next, AllAnswered, vars, tableVars

\* Every step keeps what updaters know of the owner of their row.
LEMMA OwnerStep == ASSUME IInv, OwnerInv, [Next]_vars PROVE OwnerInv'
<1>1. CASE UNCHANGED updaterVars
    BY <1>1 DEF OwnerInv, updaterVars
<1>2. ASSUME NEW u \in Updaters, UpdaterNext(u)
      PROVE  OwnerInv'
    <2> USE <1>2 DEF IInv, TypeOK, UpdatersTypeOK, OwnerInv, UGoto, UReply
    <2>1. CASE UArrive(u)
        BY <2>1 DEF UArrive
    <2>2. CASE Read(u)
        BY <2>2 DEF Read, Missing
    <2>3. CASE Check(u)
        BY <2>3 DEF Check
    <2>4. CASE Update(u)
        BY <2>4 DEF Update, URetry
    <2>5. ASSUME NEW slug \in {"ok", "error"}, UCommit(u, slug)
          PROVE  OwnerInv'
        BY <2>5 DEF UCommit
    <2>6. CASE UAbandon(u)
        BY <2>6 DEF UAbandon
    <2> QED
        BY <2>1, <2>2, <2>3, <2>4, <2>5, <2>6 DEF UpdaterNext, UpdaterStep
<1> QED
    BY <1>1, <1>2 DEF Next, AllAnswered, vars

\* Both are invariants.
LEMMA LedgerInvariance == Spec => [](IInv /\ LedgerInv)
<1>1. Init => LedgerInv
    BY DEF Init, TablesInit, BookersInit, UpdatersInit, LedgerInv, DraftInv, OwnerInv,
           Drafting, HoldsKeyEntry
<1>2. IInv /\ LedgerInv /\ [Next]_vars => LedgerInv'
    BY DraftStep, OwnerStep DEF LedgerInv
<1> QED
    BY <1>1, <1>2, Invariance, PTL DEF Spec

-----------------------------------------------------------------------------
(* The steps of a booker, as the ledger sees them. *)

\* It works on, and the ledger sees nothing.
WorksOn(b) ==
    /\ status' = status /\ outcome' = outcome
    /\ pc[b] # "done" /\ pc'[b] # "done"

\* It answers without having stored anything.
Answered(b, reservation) ==
    /\ status' = status /\ pc[b] # "done" /\ pc'[b] = "done"
    /\ outcome' = [outcome EXCEPT ![b] = outcome'[b]]
    /\ result'[b] = reservation

Refused(b)  == Answered(b, None) /\ outcome'[b] \notin {"none", "ok"}
Replayed(b) ==
    \E a \in KeyHolders(Request[b].key) : Answered(b, a) /\ outcome'[b] = "ok"

\* There is no other step but the commit.
LEMMA BookerKinds ==
    ASSUME IInv, NEW b \in Bookers, BookerNext(b)
    PROVE  \/ WorksOn(b) \/ Refused(b) \/ Replayed(b)
           \/ \E slug \in {"ok", "error"} : Commit(b, slug)
<1> USE DEF IInv, TypeOK, TablesTypeOK, BookersTypeOK, Goto, Reply, tableVars, WorksOn,
            Answered, Refused, Replayed
<1>1. CASE Arrive(b)
    BY <1>1 DEF Arrive, ReplyNoTx
<1>2. CASE Lookup(b)
    BY <1>2 DEF Lookup, ReplyNoTx
<1>3. CASE Prepare(b)
    BY <1>3 DEF Prepare, ReplyNoTx, Preparation
<1>4. CASE Begin(b)
    BY <1>4 DEF Begin
<1>5. CASE TakeSnapshot(b)
    BY <1>5 DEF TakeSnapshot
<1>6. CASE Create(b)
    BY <1>6 DEF Create, Rollback
<1>7. CASE Insert(b)
    BY <1>7 DEF Insert, Rollback
<1>8. CASE Backstop(b)
    BY <1>8 DEF Backstop, ReplyNoTx
<1>9. CASE CommitReplay(b)
    BY <1>9 DEF CommitReplay, KeyInv
<1>10. CASE SerializationFailure(b)
    BY <1>10 DEF SerializationFailure, Rollback, InSnapshot
<1>11. CASE Abandon(b)
    BY <1>11 DEF Abandon, Rollback
<1> QED
    BY <1>1, <1>2, <1>3, <1>4, <1>5, <1>6, <1>7, <1>8, <1>9,
       <1>10, <1>11 DEF BookerNext, BookerStep

\* A step that stores nothing leaves every slot of the ledger alone.
LEMMA SlotsKept ==
    ASSUME status' = status, \A a \in Bookers : Committed(a) => row'[a] = row[a]
    PROVE  Slots' = Slots
BY DEF Slots, Committed

\* The other bookers have named what they have named.
LEMMA AnswersKept ==
    ASSUME NEW b \in Bookers,
           \A a \in Bookers : a # b => pc'[a] = pc[a] /\ result'[a] = result[a]
    PROVE  /\ pc[b] # "done" /\ pc'[b] # "done" => Answers' = Answers
           /\ pc'[b] = "done" => Answers' = [Answers EXCEPT ![b] = result'[b]]
BY DEF Answers

\* The ledger reads rosters and windows as the service does.
LEMMA SameReadings ==
    /\ \A a, b : Ledger!Overlaps(a, b) <=> Overlaps(a, b)
    /\ \A b : Ledger!ListTechnicians(b) = ListTechnicians(b)
    /\ \A b : Ledger!ListServiceBays(b) = ListServiceBays(b)
BY DEF Ledger!Overlaps, Overlaps, Ledger!StartOf, StartOf, Ledger!EndOf, EndOf,
       Ledger!ListTechnicians, ListTechnicians, Ledger!ListServiceBays, ListServiceBays,
       Ledger!OnDuty, OnDuty, Ledger!HasAllCertifications, HasAllCertifications

-----------------------------------------------------------------------------
(* Bookers implement the ledger. *)

\* A booker that works on stutters in the ledger.
LEMMA WorksOnStutters ==
    ASSUME IInv, NEW b \in Bookers, BookerNext(b), WorksOn(b), UNCHANGED updaterVars
    PROVE  UNCHANGED Ledger!vars
<1>1. UNCHANGED <<now, status, confirmedAt, outcome, target, caller, uoutcome>>
    BY BookerFrame DEF IInv, WorksOn, updaterVars
<1>2. Slots' = Slots
    BY BookerFrame, SlotsKept DEF IInv, WorksOn
<1>3. Answers' = Answers
    BY BookerFrame, AnswersKept DEF IInv, WorksOn
<1> QED
    BY <1>1, <1>2, <1>3 DEF Ledger!vars

\* A refusal is a refusal of the ledger.
LEMMA RefusedRefuses ==
    ASSUME IInv, NEW b \in Bookers, BookerNext(b), Refused(b), UNCHANGED updaterVars
    PROVE  Ledger!Refuse(b)
<1>1. UNCHANGED <<now, status, confirmedAt, target, caller, uoutcome>>
    BY BookerFrame DEF IInv, Refused, Answered, updaterVars
<1>2. Slots' = Slots
    BY BookerFrame, SlotsKept DEF IInv, Refused, Answered
<1>3. Answers' = [Answers EXCEPT ![b] = None]
    BY BookerFrame, AnswersKept DEF IInv, Refused, Answered
<1>4. outcome[b] = "none" /\ outcome' = [outcome EXCEPT ![b] = outcome'[b]]
      /\ outcome'[b] \notin {"none", "ok"}
    BY DEF IInv, HandlerInv, Refused, Answered
<1> QED
    BY <1>1, <1>2, <1>3, <1>4 DEF Ledger!Refuse, Ledger!Answer

\* An answer from the stored reservation of the key is a replay of the ledger.
LEMMA ReplayedReplays ==
    ASSUME IInv, NEW b \in Bookers, BookerNext(b), Replayed(b), UNCHANGED updaterVars
    PROVE  Ledger!Replay(b)
<1> PICK a \in KeyHolders(Request[b].key) : Answered(b, a) /\ outcome'[b] = "ok"
    BY DEF Replayed
<1>1. UNCHANGED <<now, status, confirmedAt, target, caller, uoutcome>>
    BY BookerFrame DEF IInv, Answered, updaterVars
<1>2. Slots' = Slots
    BY BookerFrame, SlotsKept DEF IInv, Answered
<1>3. Answers' = [Answers EXCEPT ![b] = a]
    BY BookerFrame, AnswersKept DEF IInv, Answered
<1>4. outcome[b] = "none" /\ outcome' = [outcome EXCEPT ![b] = "ok"]
    BY DEF IInv, HandlerInv, Answered
<1>5. a \in Bookers /\ Ledger!Stored(a) /\ Request[a].key = Request[b].key
    BY DEF KeyHolders, Committed, Ledger!Stored
<1> QED
    BY <1>1, <1>2, <1>3, <1>4, <1>5 DEF Ledger!Replay, Ledger!Answer

\* What is committed and overlaps a booking that commits claims nothing of it.
LEMMA NothingClaimed ==
    ASSUME IInv, NEW b \in Bookers, NEW slug, Commit(b, slug),
           NEW a \in Bookers, Committed(a), Overlaps(a, b)
    PROVE  \/ row[a].technician # row[b].technician /\ row[a].bay # row[b].bay
           \/ Harmless(a)
<1>1. Drafting(b) /\ a \notin missed[b]
    BY DEF Commit, ReadSkewed, Drafting, HoldsKeyEntry
<1>2. a \in busy[b] \/ Harmless(a)
    BY <1>1 DEF IInv, ClaimInv
<1>3. a \in busy[b] => ~SharesResource(a, b)
    BY <1>1 DEF IInv, ClaimInv
<1> QED
    BY <1>2, <1>3 DEF SharesResource

\* The slot that is committed fits.
LEMMA CommitFits ==
    ASSUME IInv, DraftInv, NEW b \in Bookers, NEW slug, Commit(b, slug)
    PROVE  Ledger!WellFormed(b) /\ Ledger!FitFor(b, row[b])
<1>1. Drafting(b) /\ pc[b] = "commit"
    BY DEF Commit, Drafting, HoldsKeyEntry
<1>2. Passed(b) /\ Listed(b)
    BY <1>1, DraftSplit DEF DraftOf
<1>3. Ledger!WellFormed(b)
    BY <1>2 DEF Passed, VehicleValid, InCatalog, Ledger!WellFormed
<1>4. ASSUME NEW a \in Bookers, Ledger!Stored(a), Ledger!Overlaps(a, b)
      PROVE  \/ Slots[a].technician # row[b].technician /\ Slots[a].bay # row[b].bay
             \/ Ledger!GivesWay(a)
    <2>1. Committed(a) /\ Overlaps(a, b) /\ Slots[a] = row[a]
        BY <1>4, SameReadings DEF Ledger!Stored, Committed, Slots
    <2>2. Harmless(a) => Ledger!GivesWay(a)
        BY <2>1 DEF Harmless, ConfirmedLate, Ledger!GivesWay
    <2> QED
        BY <2>1, <2>2, NothingClaimed
<1>5. row[b].expiredAt =< now + ClockSkew[b] + ReservationTTL
    BY <1>2 DEF Listed, AppNow
<1>6. row[b].expiredAt \in Int
    BY DEF IInv, TypeOK, TablesTypeOK, Row
<1> QED
    BY <1>2, <1>3, <1>4, <1>5, <1>6, SameReadings DEF Ledger!FitFor, Listed

\* The commit of a booking is the ledger's reservation.
LEMMA CommitReserves ==
    ASSUME IInv, DraftInv, NEW b \in Bookers, NEW slug \in {"ok", "error"},
           Commit(b, slug), BookerNext(b), UNCHANGED updaterVars
    PROVE  Ledger!Reserve(b)
<1> USE DEF IInv, TypeOK, TablesTypeOK, BookersTypeOK
<1>1. UNCHANGED <<now, row, confirmedAt, target, caller, uoutcome>>
    BY DEF Commit, updaterVars
<1>2. status[b] = "absent" /\ outcome[b] = "none" /\ pc[b] = "commit" /\ result[b] = b
    BY DEF HandlerInv, Commit
<1>3. /\ status' = [status EXCEPT ![b] = "pending"]
      /\ outcome' = [outcome EXCEPT ![b] = slug]
      /\ pc'[b] = "done" /\ result'[b] = b
    BY DEF Commit, Reply, Goto
<1>4. Slots' = [Slots EXCEPT ![b] = row[b]]
    BY <1>1, <1>2, <1>3 DEF Slots, Committed
<1>5. Slots'[b] = row[b]
    BY <1>4 DEF Slots
<1>6. Answers' = [Answers EXCEPT ![b] = b]
    BY <1>2, <1>3, BookerFrame, AnswersKept
<1>7. \A a \in Bookers : Ledger!Stored(a) => Request[a].key # Request[b].key
    BY <1>2 DEF KeyInv, HoldsKeyEntry, Committed, Ledger!Stored
<1>8. Ledger!WellFormed(b) /\ Ledger!FitFor(b, Slots'[b])
    BY <1>5, CommitFits
<1> QED
    BY <1>1, <1>2, <1>3, <1>4, <1>5, <1>6, <1>7, <1>8
    DEF Ledger!Reserve, Ledger!Answer

\* So every step of a booker is one of the ledger.
LEMMA BookerImplements ==
    ASSUME IInv, DraftInv, NEW b \in Bookers, BookerNext(b), UNCHANGED updaterVars
    PROVE  [Ledger!Next]_(Ledger!vars)
BY BookerKinds, WorksOnStutters, RefusedRefuses, ReplayedReplays, CommitReserves
DEF Ledger!Next

-----------------------------------------------------------------------------
(* Updaters implement the ledger. *)

\* A step that changes no row and no booker changes no slot and no answer.
LEMMA NoSlotMoves ==
    ASSUME UNCHANGED <<row, bookerVars>>,
           \A a \in Bookers : Committed(a)' <=> Committed(a)
    PROVE  Slots' = Slots /\ Answers' = Answers
BY DEF Slots, Answers, bookerVars

\* Every step of an updater is one of the ledger.
LEMMA UpdaterImplements ==
    ASSUME IInv, OwnerInv, NEW u \in Updaters, UpdaterNext(u), UNCHANGED bookerVars
    PROVE  [Ledger!Next]_(Ledger!vars)
<1> USE DEF IInv, TypeOK, TablesTypeOK, UpdatersTypeOK, UGoto, UReply, tableVars,
            Updaters, Ledger!Updaters
<1>s. Slots' = Slots /\ Answers' = Answers /\ UNCHANGED <<now, row, outcome>>
    BY UpdaterKeepsRows, NoSlotMoves DEF bookerVars
<1>r. ASSUME UNCHANGED <<status, confirmedAt, target, caller>>,
             upc[u] \notin {"idle", "done"},
             uoutcome' = [uoutcome EXCEPT ![u] = uoutcome'[u]],
             uoutcome'[u] \notin {"none", "ok"}
      PROVE  Ledger!URefuse(u)
    BY <1>s, <1>r DEF Ledger!URefuse, Underway, HandlerInv
<1>w. ASSUME UNCHANGED <<status, confirmedAt, target, caller, uoutcome>>
      PROVE  UNCHANGED Ledger!vars
    BY <1>s, <1>w DEF Ledger!vars
<1>1. CASE UArrive(u)
    <2>1. Ledger!Ask(u)
        BY <1>s, <1>1 DEF UArrive, OwnerInv, Ledger!Ask
    <2> QED
        BY <2>1 DEF Ledger!Next
<1>2. CASE Read(u)
    <2>1. CASE Missing(u) = "nothing"
        BY <1>w, <1>2, <2>1 DEF Read
    <2>2. CASE Missing(u) # "nothing"
        BY <1>r, <1>2, <2>2 DEF Read, Missing, Ledger!Next
    <2> QED
        BY <2>1, <2>2
<1>3. CASE Check(u)
    <2>1. CASE DomainOutcome(u) = "ok"
        BY <1>w, <1>3, <2>1 DEF Check
    <2>2. CASE DomainOutcome(u) # "ok"
        <3>1. DomainOutcome(u) # "none"
            BY DEF DomainOutcome, ConfirmOutcome, CancelOutcome
        <3> QED
            BY <1>r, <1>3, <2>2, <3>1 DEF Check, Ledger!Next
    <2> QED
        BY <2>1, <2>2
<1>4. CASE Update(u)
    BY <1>r, <1>w, <1>4 DEF Update, URetry, Ledger!Next
<1>5. ASSUME NEW slug \in {"ok", "error"}, UCommit(u, slug)
      PROVE  \/ u \in Confirmers /\ Ledger!Confirm(u)
             \/ u \in Cancellers /\ Ledger!Cancel(u)
    <2>1. /\ target[u] \in Bookers /\ uoutcome[u] = "none"
          /\ Request[target[u]].user = caller[u]
          /\ status[target[u]] = IF u \in Confirmers THEN "pending" ELSE "confirmed"
        BY <1>5 DEF UCommit, Underway, HandlerInv, UpdateInv, OwnerInv
    <2>2. UNCHANGED <<target, caller>> /\ uoutcome' = [uoutcome EXCEPT ![u] = slug]
        BY <1>5 DEF UCommit
    <2>3. CASE u \in Confirmers
        BY <1>s, <1>5, <2>1, <2>2, <2>3
        DEF UCommit, NewStatus, Ledger!Confirm, Ledger!Move
    <2>4. CASE u \notin Confirmers
        BY <1>s, <1>5, <2>1, <2>2, <2>4
        DEF UCommit, NewStatus, Updaters, Ledger!Cancel, Ledger!Move
    <2> QED
        BY <2>3, <2>4
<1>6. CASE UAbandon(u)
    BY <1>r, <1>6 DEF UAbandon, Ledger!Next
<1>7. (\E slug \in {"ok", "error"} : UCommit(u, slug)) => Ledger!Next
    BY <1>5 DEF Ledger!Next
<1> QED
    BY <1>1, <1>2, <1>3, <1>4, <1>6, <1>7 DEF UpdaterNext, UpdaterStep

-----------------------------------------------------------------------------
(* The refinement. *)

\* The tables start as an empty ledger.
LEMMA InitImplements == Init => Ledger!Init
BY DEF Init, TablesInit, BookersInit, UpdatersInit, Slots, Answers, Committed,
       Ledger!Init, Ledger!NoSlot, NoRow, Updaters, Ledger!Updaters

\* Every step of the service is a step of the ledger, or one it does not see.
LEMMA StepImplements ==
    ASSUME IInv, LedgerInv, [Next]_vars
    PROVE  [Ledger!Next]_(Ledger!vars)
<1>1. ASSUME NEW b \in Bookers, BookerNext(b), UNCHANGED updaterVars
      PROVE  [Ledger!Next]_(Ledger!vars)
    BY <1>1, BookerImplements DEF LedgerInv
<1>2. ASSUME NEW u \in Updaters, UpdaterNext(u), UNCHANGED bookerVars
      PROVE  [Ledger!Next]_(Ledger!vars)
    BY <1>2, UpdaterImplements DEF LedgerInv
<1>3. ASSUME UNCHANGED <<status, row, confirmedAt, bookerVars, updaterVars>>
      PROVE  /\ UNCHANGED <<status, Slots, confirmedAt, outcome, Answers, target, caller,
                            uoutcome>>
    BY <1>3, NoSlotMoves DEF Committed, bookerVars, updaterVars
<1>4. CASE Tick /\ UNCHANGED <<status, row, confirmedAt, bookerVars, updaterVars>>
    BY <1>3, <1>4 DEF Tick, Ledger!Pass, Ledger!Next
<1>5. CASE UNCHANGED vars
    BY <1>3, <1>5 DEF vars, tableVars, Ledger!vars
<1> QED
    BY <1>1, <1>2, <1>4, <1>5 DEF Next, AllAnswered

\* The service implements the ledger: what takes a snapshot, several statements, a
\* commit that may fail and any number of retries is to every client one step, or
\* none, whatever the interleaving, the clocks and the answers that are lost.
THEOREM ImplementsLedger == Spec => LedgerSpec
<1>1. Init => Ledger!Init
    BY InitImplements
<1>2. IInv /\ LedgerInv /\ [Next]_vars => [Ledger!Next]_(Ledger!vars)
    BY StepImplements
<1> QED
    BY <1>1, <1>2, LedgerInvariance, PTL DEF Spec, LedgerSpec, Ledger!Spec

-----------------------------------------------------------------------------
(* What the ledger comes to.  These lemmas are about the ledger alone: of the service  *)
(* they use no action, and of Slots and Answers nothing but that the ledger has them.  *)

\* The part of the ledger that the steps below read.
LedgerTypeOK ==
    /\ now \in Int
    /\ status \in [Bookers -> {"absent", "pending", "confirmed", "cancelled"}]
    /\ DOMAIN Slots = Bookers /\ DOMAIN confirmedAt = Bookers
    /\ DOMAIN outcome = Bookers /\ DOMAIN Answers = Bookers
    /\ DOMAIN target = Updaters /\ DOMAIN caller = Updaters /\ DOMAIN uoutcome = Updaters
    /\ \A b \in Bookers : Ledger!Stored(b) => Slots[b].expiredAt \in Int

LedgerSound == LedgerTypeOK /\ Ledger!Sound

\* An empty ledger is sound.
LEMMA LedgerStartsSound == Ledger!Init => LedgerSound
<1> SUFFICES ASSUME Ledger!Init PROVE LedgerSound
    OBVIOUS
<1> USE DEF Ledger!Init, Ledger!Stored
<1>1. LedgerTypeOK
    BY DEF LedgerTypeOK, Ledger!Updaters, Updaters
<1>2. Ledger!SlotsAreSafe /\ Ledger!KeysAreStoredOnce
    BY DEF Ledger!SlotsAreSafe, Ledger!KeysAreStoredOnce
<1>3. Ledger!BookingsStand /\ Ledger!UpdatesStand
    BY DEF Ledger!BookingsStand, Ledger!UpdatesStand
<1> QED
    BY <1>1, <1>2, <1>3 DEF LedgerSound, Ledger!Sound

\* A booking that gives way does so for ever, as long as the clock does not go back and
\* the status either stays or is the next one.
LEMMA GivingWayLasts ==
    ASSUME LedgerTypeOK, NEW a \in Bookers, Ledger!GivesWay(a), Ledger!Stored(a),
           now' = now \/ now' = now + 1, Slots'[a] = Slots[a],
           \/ status'[a] = status[a] /\ confirmedAt'[a] = confirmedAt[a]
           \/ status[a] = "pending" /\ status'[a] = "confirmed" /\ confirmedAt'[a] = now
           \/ status'[a] = "cancelled"
    PROVE  Ledger!GivesWay(a)'
<1>1. now \in Int /\ now' \in Int /\ now =< now' /\ Slots[a].expiredAt \in Int
    BY DEF LedgerTypeOK
<1>2. CASE status'[a] = "cancelled"
    BY <1>2 DEF Ledger!GivesWay
<1>3. CASE status'[a] = status[a] /\ confirmedAt'[a] = confirmedAt[a]
    BY <1>1, <1>3 DEF Ledger!GivesWay
<1>4. CASE status[a] = "pending" /\ status'[a] = "confirmed" /\ confirmedAt'[a] = now
    BY <1>1, <1>4 DEF Ledger!GivesWay
<1> QED
    BY <1>2, <1>3, <1>4

\* A slot is taken when all that stand against it give way, and a key when it is new.
LEMMA ReserveSound ==
    ASSUME LedgerSound, NEW b \in Bookers, Ledger!Reserve(b)
    PROVE  LedgerSound'
<1> USE DEF LedgerSound, LedgerTypeOK
<1>1. /\ status[b] = "absent" /\ status' = [status EXCEPT ![b] = "pending"]
      /\ Slots' = [Slots EXCEPT ![b] = Slots'[b]] /\ Ledger!FitFor(b, Slots'[b])
      /\ \A a \in Bookers : Ledger!Stored(a) => Request[a].key # Request[b].key
      /\ UNCHANGED <<now, confirmedAt, target, caller, uoutcome>>
    BY DEF Ledger!Reserve
<1>2. PICK slug \in {"ok", "error"} :
          outcome' = [outcome EXCEPT ![b] = slug] /\ Answers' = [Answers EXCEPT ![b] = b]
    BY DEF Ledger!Reserve, Ledger!Answer
<1>3. \A a \in Bookers \ {b} : status'[a] = status[a] /\ Slots'[a] = Slots[a]
    BY <1>1
<1>4. status'[b] = "pending" /\ Ledger!Stored(b)' /\ ~Ledger!Stored(b)
    BY <1>1 DEF Ledger!Stored
<1>5. \A a \in Bookers \ {b} : Ledger!Stored(a)' <=> Ledger!Stored(a)
    BY <1>3 DEF Ledger!Stored
<1>6. LedgerTypeOK'
    <2>1. Slots'[b].expiredAt \in Int
        BY <1>1 DEF Ledger!FitFor
    <2>2. \A a \in Bookers : Ledger!Stored(a)' => Slots'[a].expiredAt \in Int
        BY <1>3, <1>5, <2>1
    <2>3. status' \in [Bookers -> {"absent", "pending", "confirmed", "cancelled"}]
        BY <1>1
    <2>4. DOMAIN Slots' = Bookers /\ DOMAIN outcome' = Bookers /\ DOMAIN Answers' = Bookers
        BY <1>1, <1>2, Zenon
    <2> QED
        BY <1>1, <2>2, <2>3, <2>4
<1>7. Ledger!SlotsAreSafe'
    <2>1. ASSUME NEW a \in Bookers \ {b}, Ledger!Stored(a), Ledger!GivesWay(a)
          PROVE  Ledger!GivesWay(a)'
        BY <1>1, <1>3, <2>1, GivingWayLasts
    <2>2. ASSUME NEW a \in Bookers \ {b}, Ledger!Stored(a), Ledger!Overlaps(a, b),
                 Slots'[a].technician = Slots'[b].technician \/ Slots'[a].bay = Slots'[b].bay
          PROVE  Ledger!GivesWay(a)'
        <3>1. \/ Slots[a].technician # Slots'[b].technician /\ Slots[a].bay # Slots'[b].bay
              \/ Ledger!GivesWay(a)
            BY <1>1, <2>2 DEF Ledger!FitFor
        <3>2. Ledger!GivesWay(a)
            BY <1>3, <2>2, <3>1
        <3> QED
            BY <2>1, <2>2, <3>2
    <2>3. \A a, c \in Bookers :
              (Ledger!Overlaps(a, c)' <=> Ledger!Overlaps(a, c))
              /\ (Ledger!Overlaps(a, c) => Ledger!Overlaps(c, a))
        <3>1. \A a, c \in Bookers : Ledger!Overlaps(a, c)' <=> Ledger!Overlaps(a, c)
            BY DEF Ledger!Overlaps, Ledger!StartOf, Ledger!EndOf
        <3>2. \A a, c \in Bookers : Ledger!Overlaps(a, c) => Ledger!Overlaps(c, a)
            BY DEF Ledger!Overlaps
        <3> QED
            BY <3>1, <3>2
    <2> SUFFICES ASSUME NEW a \in Bookers, NEW c \in Bookers,
                        a # c, Ledger!Stored(a)', Ledger!Stored(c)', Ledger!Overlaps(a, c)',
                        Slots'[a].technician = Slots'[c].technician \/ Slots'[a].bay = Slots'[c].bay
                 PROVE  Ledger!GivesWay(a)' \/ Ledger!GivesWay(c)'
        BY DEF Ledger!SlotsAreSafe
    <2>4. CASE a = b
        BY <1>5, <2>2, <2>3, <2>4
    <2>5. CASE c = b
        BY <1>5, <2>2, <2>3, <2>5
    <2>6. CASE a # b /\ c # b
        <3>1. Ledger!GivesWay(a) \/ Ledger!GivesWay(c)
            BY <1>3, <1>5, <2>3, <2>6 DEF Ledger!Sound, Ledger!SlotsAreSafe
        <3> QED
            BY <1>5, <2>1, <2>6, <3>1
    <2> QED
        BY <2>4, <2>5, <2>6
<1>8. Ledger!KeysAreStoredOnce'
    BY <1>1, <1>5 DEF Ledger!Sound, Ledger!KeysAreStoredOnce
<1>9. Ledger!BookingsStand'
    <2> SUFFICES ASSUME NEW a \in Bookers, outcome'[a] = "ok"
                 PROVE  /\ Answers'[a] \in Bookers /\ status'[Answers'[a]] # "absent"
                        /\ Request[Answers'[a]].key = Request[a].key
        BY DEF Ledger!BookingsStand, Ledger!Stored
    <2>1. CASE a = b
        BY <1>2, <1>4, <2>1
    <2>2. CASE a # b
        <3>1. outcome[a] = "ok" /\ Answers'[a] = Answers[a]
            BY <1>2, <2>2
        <3>2. /\ Answers[a] \in Bookers /\ status[Answers[a]] # "absent"
              /\ Request[Answers[a]].key = Request[a].key
            BY <3>1 DEF Ledger!Sound, Ledger!BookingsStand, Ledger!Stored
        <3> QED
            BY <1>3, <1>4, <3>1, <3>2
    <2> QED
        BY <2>1, <2>2
<1>10. Ledger!UpdatesStand'
    <2> SUFFICES ASSUME NEW u \in Updaters, uoutcome'[u] = "ok"
                 PROVE  /\ target'[u] \in Bookers /\ caller'[u] = Request[target'[u]].user
                        /\ status'[target'[u]] \in {"confirmed", "cancelled"}
                        /\ u \in Cancellers => status'[target'[u]] = "cancelled"
        BY DEF Ledger!UpdatesStand, Ledger!Updaters, Updaters
    <2>1. /\ target[u] \in Bookers /\ caller[u] = Request[target[u]].user
          /\ status[target[u]] \in {"confirmed", "cancelled"}
          /\ u \in Cancellers => status[target[u]] = "cancelled"
        BY <1>1 DEF Ledger!Sound, Ledger!UpdatesStand, Ledger!Updaters, Updaters
    <2>2. target[u] # b
        BY <1>1, <2>1
    <2> QED
        BY <1>1, <1>3, <2>1, <2>2
<1> QED
    BY <1>6, <1>7, <1>8, <1>9, <1>10 DEF Ledger!Sound

\* What stands stays when neither a status nor a slot changes, and the clock at most goes on.
LEMMA StandingSound ==
    ASSUME LedgerSound, UNCHANGED <<status, Slots, confirmedAt>>, now' = now \/ now' = now + 1
    PROVE  Ledger!SlotsAreSafe' /\ Ledger!KeysAreStoredOnce'
<1>1. \A a \in Bookers : Ledger!Stored(a)' <=> Ledger!Stored(a)
    BY DEF Ledger!Stored
<1>2. \A a, c \in Bookers : Ledger!Overlaps(a, c)' <=> Ledger!Overlaps(a, c)
    BY DEF Ledger!Overlaps, Ledger!StartOf, Ledger!EndOf
<1>3. ASSUME NEW a \in Bookers, Ledger!Stored(a), Ledger!GivesWay(a)
      PROVE  Ledger!GivesWay(a)'
    BY <1>3, GivingWayLasts DEF LedgerSound
<1>4. Ledger!SlotsAreSafe'
    BY <1>1, <1>2, <1>3 DEF LedgerSound, Ledger!Sound, Ledger!SlotsAreSafe
<1>5. Ledger!KeysAreStoredOnce'
    BY <1>1 DEF LedgerSound, Ledger!Sound, Ledger!KeysAreStoredOnce
<1> QED
    BY <1>4, <1>5

\* A booking is told of success only when its key is stored.
LEMMA AnswerSound ==
    ASSUME LedgerSound, NEW b \in Bookers, Ledger!Replay(b) \/ Ledger!Refuse(b)
    PROVE  LedgerSound'
<1> USE DEF LedgerSound, LedgerTypeOK
<1>1. PICK slug, reservation :
          /\ outcome' = [outcome EXCEPT ![b] = slug] /\ Answers' = [Answers EXCEPT ![b] = reservation]
          /\ slug = "ok" => /\ reservation \in Bookers /\ status[reservation] # "absent"
                            /\ Request[reservation].key = Request[b].key
    <2>1. CASE Ledger!Replay(b)
        BY <2>1 DEF Ledger!Replay, Ledger!Answer, Ledger!Stored
    <2>2. CASE Ledger!Refuse(b)
        <3>1. outcome' = [outcome EXCEPT ![b] = outcome'[b]] /\ outcome'[b] # "ok"
              /\ Answers' = [Answers EXCEPT ![b] = None]
            BY <2>2 DEF Ledger!Refuse, Ledger!Answer
        <3> QED
            BY <3>1
    <2> QED
        BY <2>1, <2>2
<1>2. UNCHANGED <<now, status, Slots, confirmedAt, target, caller, uoutcome>>
    BY DEF Ledger!Replay, Ledger!Refuse
<1>3. LedgerTypeOK'
    <2>1. DOMAIN outcome' = Bookers /\ DOMAIN Answers' = Bookers
        BY <1>1, Zenon
    <2> QED
        BY <1>2, <2>1 DEF Ledger!Stored
<1>4. Ledger!SlotsAreSafe' /\ Ledger!KeysAreStoredOnce'
    BY <1>2, StandingSound
<1>5. Ledger!BookingsStand'
    <2> SUFFICES ASSUME NEW a \in Bookers, outcome'[a] = "ok"
                 PROVE  /\ Answers'[a] \in Bookers /\ status'[Answers'[a]] # "absent"
                        /\ Request[Answers'[a]].key = Request[a].key
        BY DEF Ledger!BookingsStand, Ledger!Stored
    <2>1. CASE a = b
        BY <1>1, <1>2, <2>1
    <2>2. CASE a # b
        <3>1. outcome[a] = "ok" /\ Answers'[a] = Answers[a]
            BY <1>1, <2>2
        <3> QED
            BY <1>2, <3>1 DEF Ledger!Sound, Ledger!BookingsStand, Ledger!Stored
    <2> QED
        BY <2>1, <2>2
<1>6. Ledger!UpdatesStand'
    BY <1>2 DEF Ledger!Sound, Ledger!UpdatesStand
<1> QED
    BY <1>3, <1>4, <1>5, <1>6 DEF Ledger!Sound

\* A confirmation after the end of the hold gives way like the hold did; nothing else that
\* is stored changes, and the owner who is told of success has moved the appointment.
LEMMA MoveSound ==
    ASSUME LedgerSound, NEW u \in Updaters,
           \/ u \in Confirmers /\ Ledger!Confirm(u)
           \/ u \in Cancellers /\ Ledger!Cancel(u)
    PROVE  LedgerSound'
<1> USE DEF LedgerSound, LedgerTypeOK
<1>1. PICK from \in {"pending", "confirmed"}, to \in {"confirmed", "cancelled"} :
          /\ Ledger!Move(u, from, to)
          /\ \/ /\ u \in Confirmers /\ from = "pending" /\ to = "confirmed"
                /\ confirmedAt' = [confirmedAt EXCEPT ![target[u]] = now]
             \/ u \in Cancellers /\ from = "confirmed" /\ to = "cancelled" /\ UNCHANGED confirmedAt
    BY DEF Ledger!Confirm, Ledger!Cancel
<1>2. PICK d \in Bookers : d = target[u]
    BY <1>1 DEF Ledger!Move
<1>3. /\ status[d] = from /\ status' = [status EXCEPT ![d] = to] /\ Request[d].user = caller[u]
      /\ UNCHANGED <<now, Slots, outcome, Answers, target, caller>>
    BY <1>1, <1>2 DEF Ledger!Move
<1>4. PICK slug : uoutcome' = [uoutcome EXCEPT ![u] = slug]
    BY <1>1 DEF Ledger!Move
<1>5. /\ status'[d] = to
      /\ \A a \in Bookers \ {d} : status'[a] = status[a] /\ confirmedAt'[a] = confirmedAt[a]
    BY <1>1, <1>2, <1>3
<1>6. \A a \in Bookers : Ledger!Stored(a)' <=> Ledger!Stored(a)
    BY <1>3, <1>5 DEF Ledger!Stored
<1>7. LedgerTypeOK'
    <2>1. status' \in [Bookers -> {"absent", "pending", "confirmed", "cancelled"}]
        BY <1>3
    <2>2. DOMAIN confirmedAt' = Bookers /\ DOMAIN uoutcome' = Updaters
        BY <1>1, <1>4
    <2> QED
        BY <1>3, <1>6, <2>1, <2>2
<1>8. Ledger!SlotsAreSafe'
    <2>1. \A a, c \in Bookers : Ledger!Overlaps(a, c)' <=> Ledger!Overlaps(a, c)
        BY DEF Ledger!Overlaps, Ledger!StartOf, Ledger!EndOf
    <2>2. ASSUME NEW a \in Bookers, Ledger!Stored(a), Ledger!GivesWay(a)
          PROVE  Ledger!GivesWay(a)'
        <3>1. \/ status'[a] = status[a] /\ confirmedAt'[a] = confirmedAt[a]
              \/ status[a] = "pending" /\ status'[a] = "confirmed" /\ confirmedAt'[a] = now
              \/ status'[a] = "cancelled"
            BY <1>1, <1>2, <1>3, <1>5
        <3> QED
            BY <1>3, <2>2, <3>1, GivingWayLasts
    <2> QED
        BY <1>3, <1>6, <2>1, <2>2 DEF Ledger!Sound, Ledger!SlotsAreSafe
<1>9. Ledger!KeysAreStoredOnce'
    BY <1>6 DEF Ledger!Sound, Ledger!KeysAreStoredOnce
<1>10. Ledger!BookingsStand'
    <2> SUFFICES ASSUME NEW a \in Bookers, outcome'[a] = "ok"
                 PROVE  /\ Answers'[a] \in Bookers /\ status'[Answers'[a]] # "absent"
                        /\ Request[Answers'[a]].key = Request[a].key
        BY DEF Ledger!BookingsStand, Ledger!Stored
    <2>1. /\ Answers[a] \in Bookers /\ status[Answers[a]] # "absent"
          /\ Request[Answers[a]].key = Request[a].key
        BY <1>3 DEF Ledger!Sound, Ledger!BookingsStand, Ledger!Stored
    <2> QED
        BY <1>3, <1>5, <2>1
<1>11. Ledger!UpdatesStand'
    <2> SUFFICES ASSUME NEW v \in Updaters, uoutcome'[v] = "ok"
                 PROVE  /\ target'[v] \in Bookers /\ caller'[v] = Request[target'[v]].user
                        /\ status'[target'[v]] \in {"confirmed", "cancelled"}
                        /\ v \in Cancellers => status'[target'[v]] = "cancelled"
        BY DEF Ledger!UpdatesStand, Ledger!Updaters, Updaters
    <2>1. CASE v = u
        <3>1. v \in Cancellers => to = "cancelled"
            BY <1>1, <2>1, ActorsAssumption
        <3> QED
            BY <1>2, <1>3, <1>5, <2>1, <3>1
    <2>2. CASE v # u
        <3>1. /\ target[v] \in Bookers /\ caller[v] = Request[target[v]].user
              /\ status[target[v]] \in {"confirmed", "cancelled"}
              /\ v \in Cancellers => status[target[v]] = "cancelled"
            BY <1>4, <2>2 DEF Ledger!Sound, Ledger!UpdatesStand, Ledger!Updaters, Updaters
        <3>2. target[v] = d => status'[target[v]] = "cancelled" \/ status[target[v]] = "pending"
            BY <1>1, <1>3, <1>5
        <3> QED
            BY <1>3, <1>5, <3>1, <3>2
    <2> QED
        BY <2>1, <2>2
<1> QED
    BY <1>7, <1>8, <1>9, <1>10, <1>11 DEF Ledger!Sound

\* Asking changes only what was not asked yet, and a refusal is no success.
LEMMA AskingSound ==
    ASSUME LedgerSound, NEW u \in Updaters, Ledger!Ask(u) \/ Ledger!URefuse(u)
    PROVE  /\ DOMAIN target' = Updaters /\ DOMAIN caller' = Updaters /\ DOMAIN uoutcome' = Updaters
           /\ \A v \in Updaters : uoutcome'[v] = "ok" =>
                 uoutcome[v] = "ok" /\ target'[v] = target[v] /\ caller'[v] = caller[v]
<1> USE DEF LedgerSound, LedgerTypeOK
<1>1. CASE Ledger!Ask(u)
    <2>1. PICK d, x :
              /\ target[u] = None /\ target' = [target EXCEPT ![u] = d]
              /\ caller' = [caller EXCEPT ![u] = x] /\ uoutcome' = uoutcome
        BY <1>1 DEF Ledger!Ask
    <2>2. uoutcome[u] # "ok"
        BY <2>1, NoneAssumption DEF Ledger!Sound, Ledger!UpdatesStand, Ledger!Updaters, Updaters
    <2> QED
        BY <2>1, <2>2
<1>2. CASE Ledger!URefuse(u)
    <2>1. PICK slug : slug # "ok" /\ uoutcome' = [uoutcome EXCEPT ![u] = slug]
        BY <1>2 DEF Ledger!URefuse
    <2>2. target' = target /\ caller' = caller
        BY <1>2 DEF Ledger!URefuse
    <2> QED
        BY <2>1, <2>2
<1> QED
    BY <1>1, <1>2

\* So asking, being refused and waiting leave the ledger sound.
LEMMA IdleSound ==
    ASSUME LedgerSound,
           \/ \E u \in Updaters : Ledger!Ask(u) \/ Ledger!URefuse(u)
           \/ Ledger!Pass
           \/ UNCHANGED Ledger!vars
    PROVE  LedgerSound'
<1> USE DEF LedgerSound, LedgerTypeOK
<1>1. /\ UNCHANGED <<status, Slots, confirmedAt, outcome, Answers>>
      /\ now' = now \/ now' = now + 1
    BY DEF Ledger!Ask, Ledger!URefuse, Ledger!Pass, Ledger!vars
<1>2. /\ DOMAIN target' = Updaters /\ DOMAIN caller' = Updaters /\ DOMAIN uoutcome' = Updaters
      /\ \A v \in Updaters : uoutcome'[v] = "ok" =>
            uoutcome[v] = "ok" /\ target'[v] = target[v] /\ caller'[v] = caller[v]
    <2>1. CASE UNCHANGED <<target, caller, uoutcome>>
        BY <2>1
    <2>2. CASE \E u \in Updaters : Ledger!Ask(u) \/ Ledger!URefuse(u)
        BY <2>2, AskingSound
    <2> QED
        BY <2>1, <2>2 DEF Ledger!Pass, Ledger!vars
<1>3. LedgerTypeOK'
    BY <1>1, <1>2 DEF Ledger!Stored
<1>4. Ledger!SlotsAreSafe' /\ Ledger!KeysAreStoredOnce'
    BY <1>1, StandingSound
<1>5. Ledger!BookingsStand'
    BY <1>1 DEF Ledger!Sound, Ledger!BookingsStand, Ledger!Stored
<1>6. Ledger!UpdatesStand'
    BY <1>1, <1>2 DEF Ledger!Sound, Ledger!UpdatesStand, Ledger!Updaters, Updaters
<1> QED
    BY <1>3, <1>4, <1>5, <1>6 DEF Ledger!Sound

\* Every step of the ledger leaves it sound.
LEMMA LedgerStepSound == LedgerSound /\ [Ledger!Next]_(Ledger!vars) => LedgerSound'
<1> SUFFICES ASSUME LedgerSound, [Ledger!Next]_(Ledger!vars) PROVE LedgerSound'
    OBVIOUS
<1>1. ASSUME NEW b \in Bookers, Ledger!Reserve(b) \/ Ledger!Replay(b) \/ Ledger!Refuse(b)
      PROVE  LedgerSound'
    BY <1>1, ReserveSound, AnswerSound
<1>2. ASSUME NEW u \in Confirmers, Ledger!Confirm(u) PROVE LedgerSound'
    BY <1>2, MoveSound DEF Updaters
<1>3. ASSUME NEW u \in Cancellers, Ledger!Cancel(u) PROVE LedgerSound'
    BY <1>3, MoveSound DEF Updaters
<1>4. CASE \E u \in Updaters : Ledger!Ask(u) \/ Ledger!URefuse(u)
    BY <1>4, IdleSound
<1>5. CASE Ledger!Pass \/ UNCHANGED Ledger!vars
    BY <1>5, IdleSound
<1> QED
    BY <1>1, <1>2, <1>3, <1>4, <1>5 DEF Ledger!Next, Ledger!Updaters, Updaters

\* The ledger promises something: whoever implements it never has two stored bookings in
\* one another's way unless one gives way, stores a key once, and tells of success only
\* what is stored, confirmed or cancelled for the one who asked.
THEOREM LedgerIsSound == LedgerSpec => []Ledger!Sound
<1>1. Ledger!Init => LedgerSound
    BY LedgerStartsSound
<1>2. LedgerSound /\ [Ledger!Next]_(Ledger!vars) => LedgerSound'
    BY LedgerStepSound
<1>3. LedgerSound => Ledger!Sound
    BY DEF LedgerSound
<1> QED
    BY <1>1, <1>2, <1>3, PTL DEF LedgerSpec, Ledger!Spec

\* What the service's committed rows and answers therefore are, by the refinement alone.
THEOREM ServiceIsSound == Spec => []Ledger!Sound
BY ImplementsLedger, LedgerIsSound, PTL
=============================================================================
