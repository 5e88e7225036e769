----------------------------- MODULE ChoiceProofs -----------------------------
(***************************************************************************)
(* Proofs about AppointmentService that rest on counting and on the best   *)
(* of a finite set: who is chosen, who is refused, and what giving up      *)
(* takes.                                                                  *)
(***************************************************************************)
EXTENDS AppointmentServiceProofs, FiniteSetTheorems, WellFoundedInduction

-----------------------------------------------------------------------------
(* The choice among the candidates. *)

\* A finite set of naturals has a greatest element: of the sets of those that are
\* no less than a given one, one is smallest.
LEMMA GreatestExists ==
    ASSUME NEW S, IsFiniteSet(S), S # {}, NEW f, \A i \in S : f[i] \in Nat
    PROVE  \E i \in S : \A k \in S : f[k] =< f[i]
<1> DEFINE NoLess(i) == {k \in S : f[k] >= f[i]}
           F == {NoLess(i) : i \in S}
           R == StrictSubsetOrdering(S)
<1>1. IsWellFoundedOn(R, SUBSET S)
    BY FS_StrictSubsetOrderingWellFounded, FS_FiniteSubsetsOfFinite
<1>2. F \subseteq SUBSET S /\ F # {}
    OBVIOUS
<1> HIDE DEF R
<1>3. PICK U \in F : \A V \in F : <<V, U>> \notin R
    BY <1>1, <1>2, WFMin
<1>4. PICK i \in S : U = NoLess(i)
    BY <1>3
<1>5. ASSUME NEW k \in S, ~(f[k] =< f[i]) PROVE FALSE
    <2>1. NoLess(k) \subseteq U /\ i \in U /\ i \notin NoLess(k)
        BY <1>4, <1>5
    <2>2. <<NoLess(k), U>> \in R
        BY <1>2, <1>3, <2>1 DEF R, StrictSubsetOrdering
    <2> QED
        BY <1>3, <2>2
<1> QED
    BY <1>5

\* The entries of the rosters of b's dealer.
LEMMA Rosters ==
    ASSUME NEW b \in Bookers
    PROVE  /\ Technicians[Request[b].dealer] \in Seq(TechnicianEntry)
           /\ ServiceBays[Request[b].dealer] \in Seq(BayEntry)
BY RequestAssumption, RosterAssumption DEF RequestData

\* Positions in a list are finitely many.
LEMMA FinitePositions ==
    ASSUME NEW T, NEW s \in Seq(T), NEW P \in SUBSET (DOMAIN s)
    PROVE  IsFiniteSet(P) /\ P \subseteq Nat
<1>1. DOMAIN s = 1..Len(s) /\ Len(s) \in Nat
    OBVIOUS
<1>2. IsFiniteSet(1..Len(s))
    BY <1>1, FS_Interval
<1>3. P \in SUBSET (1..Len(s))
    BY <1>1
<1>4. IsFiniteSet(P)
    BY <1>2, <1>3, FS_Subset
<1> QED
    BY <1>1, <1>3, <1>4

\* Scores are naturals.
LEMMA Scores ==
    ASSUME NEW b \in Bookers, NEW i \in DOMAIN Technicians[Request[b].dealer]
    PROVE  Technicians[Request[b].dealer][i].score \in Nat
<1> DEFINE roster == Technicians[Request[b].dealer]
<1>1. roster \in Seq(TechnicianEntry)
    BY Rosters
<1> HIDE DEF roster
<1>2. roster[i] \in TechnicianEntry
    BY <1>1 DEF roster
<1> QED
    BY <1>2 DEF TechnicianEntry, roster

\* createFn finds a technician when one of the list is free.
LEMMA BestExists ==
    ASSUME NEW b \in Bookers, NEW S, NEW i \in ListTechnicians(b),
           Technicians[Request[b].dealer][i].id \notin S
    PROVE  BestTechnicians(b, S) # {}
<1> DEFINE roster == Technicians[Request[b].dealer]
           free == {k \in ListTechnicians(b) : roster[k].id \notin S}
           score == [k \in DOMAIN roster |-> roster[k].score]
<1>1. free \subseteq DOMAIN roster /\ free # {}
    BY DEF ListTechnicians
<1>2. IsFiniteSet(free)
    BY <1>1, Rosters, FinitePositions
<1>3. \A k \in free : score[k] = roster[k].score /\ score[k] \in Nat
    BY <1>1, Scores
<1> HIDE DEF free, score
<1>4. PICK k \in free : \A j \in free : score[j] =< score[k]
    BY <1>1, <1>2, <1>3, GreatestExists
<1>5. \A j \in free : roster[j].score =< roster[k].score
    BY <1>3, <1>4
<1> QED
    BY <1>5 DEF BestTechnicians, free

\* And a bay when one of its list is free.
LEMMA FirstExists ==
    ASSUME NEW b \in Bookers, NEW S, NEW i \in ListServiceBays(b),
           ServiceBays[Request[b].dealer][i].id \notin S
    PROVE  FirstServiceBay(b, S) # {}
<1> DEFINE roster == ServiceBays[Request[b].dealer]
           free == {k \in ListServiceBays(b) : roster[k].id \notin S}
<1>1. free \subseteq DOMAIN roster /\ free # {}
    BY DEF ListServiceBays
<1>2. free \subseteq Nat
    BY <1>1, Rosters, FinitePositions
<1> HIDE DEF free
<1>3. PICK k \in free : \A j \in free : <<j, k>> \notin OpToRel(<, Nat)
    BY <1>1, <1>2, NatLessThanWellFounded, WFMin
<1>4. \A j \in free : k =< j
    <2> SUFFICES ASSUME NEW j \in free, j < k PROVE FALSE
        BY <1>2
    <2>1. <<j, k>> \in OpToRel(<, Nat)
        BY <1>2 DEF OpToRel
    <2> QED
        BY <1>3, <2>1
<1> QED
    BY <1>4 DEF FirstServiceBay, free

\* Whoever has a better score than the chosen one was not free.
LEMMA ChosenIsBest ==
    ASSUME NEW b \in Bookers, NEW S, NEW t \in BestTechnicians(b, S)
    PROVE  LET roster == Technicians[Request[b].dealer]
           IN  \E i \in ListTechnicians(b) :
                  /\ roster[i].id = t
                  /\ \A j \in ListTechnicians(b) :
                        roster[j].score > roster[i].score => roster[j].id \in S
<1> DEFINE roster == Technicians[Request[b].dealer]
           free == {i \in ListTechnicians(b) : roster[i].id \notin S}
<1>1. PICK i \in free : roster[i].id = t /\ \A k \in free : roster[k].score =< roster[i].score
    BY DEF BestTechnicians
<1>2. \A j \in ListTechnicians(b) : roster[j].score \in Nat
    BY Scores DEF ListTechnicians
<1>3. ASSUME NEW j \in ListTechnicians(b), roster[j].score > roster[i].score, roster[j].id \notin S
      PROVE  FALSE
    BY <1>1, <1>2, <1>3
<1> QED
    BY <1>1, <1>3

\* Whatever comes before the chosen bay was not free.
LEMMA ChosenIsFirst ==
    ASSUME NEW b \in Bookers, NEW S, NEW y \in FirstServiceBay(b, S)
    PROVE  LET bays == ServiceBays[Request[b].dealer]
           IN  \E i \in ListServiceBays(b) :
                  /\ bays[i].id = y
                  /\ \A j \in ListServiceBays(b) : j < i => bays[j].id \in S
<1> DEFINE bays == ServiceBays[Request[b].dealer]
           free == {i \in ListServiceBays(b) : bays[i].id \notin S}
<1>1. PICK i \in free : bays[i].id = y /\ \A k \in free : i =< k
    BY DEF FirstServiceBay
<1>2. ListServiceBays(b) \subseteq Nat
    BY Rosters, FinitePositions DEF ListServiceBays
<1>3. ASSUME NEW j \in ListServiceBays(b), j < i, bays[j].id \notin S
      PROVE  FALSE
    BY <1>1, <1>2, <1>3
<1> QED
    BY <1>1, <1>3

-----------------------------------------------------------------------------
(* Who is chosen and who is refused. *)

\* What a step of b does to its busy rows, its draft and its answer.
ChoiceOf(b) ==
    /\ \/ busy'[b] \subseteq busy[b]
       \/ busy'[b] = BusyRows(b, txNow[b]) /\ KeyHolders(Request[b].key) = {}
    /\ Drafting(b)' \/ Committed(b)' =>
          \/ (Drafting(b) \/ Committed(b)) /\ row'[b] = row[b]
          \/ /\ pc[b] = "create"
             /\ row'[b].technician \in BestTechnicians(b, BusyTechnicians(busy[b]))
             /\ row'[b].bay \in FirstServiceBay(b, BusyBays(busy[b]))
    /\ outcome'[b] = "no-availability" =>
          \/ outcome[b] = "no-availability"
          \/ ListTechnicians(b) = {} \/ ListServiceBays(b) = {}
          \/ /\ pc[b] = "create"
             /\ \/ BestTechnicians(b, BusyTechnicians(busy[b])) = {}
                \/ FirstServiceBay(b, BusyBays(busy[b])) = {}

\* Every step of a booker does one of these.
LEMMA ChoiceEffect ==
    ASSUME TypeOK, HandlerInv, NEW b \in Bookers, BookerNext(b)
    PROVE  ChoiceOf(b)
<1> USE NoneAssumption
    DEF TypeOK, TablesTypeOK, BookersTypeOK, HandlerInv, Committed, Drafting, HoldsKeyEntry, ChoiceOf,
        Goto, Reply, tableVars
<1>1. CASE Arrive(b)
    BY <1>1 DEF Arrive, ReplyNoTx
<1>2. CASE Lookup(b)
    BY <1>2 DEF Lookup, ReplyNoTx, KeyHolders
<1>3. CASE Prepare(b)
    BY <1>3 DEF Prepare, ReplyNoTx, Preparation
<1>4. CASE Begin(b)
    BY <1>4 DEF Begin
<1>5. CASE TakeSnapshot(b)
    <2>1. CASE pc'[b] = "create"
        BY <1>5, <2>1 DEF TakeSnapshot
    <2>2. CASE pc'[b] # "create"
        BY <1>5, <2>2 DEF TakeSnapshot, KeyHolders
    <2> QED
        BY <2>1, <2>2
<1>6. CASE Create(b)
    <2> DEFINE T == BestTechnicians(b, BusyTechnicians(busy[b]))
               Y == FirstServiceBay(b, BusyBays(busy[b]))
    <2>1. CASE pc'[b] = "insert"
        <3>1. PICK t \in T, y \in Y :
                  row' = [row EXCEPT ![b] =
                      [technician |-> t, bay |-> y,
                       expiredAt |-> AppNow(b) + ReservationTTL]]
            BY <1>6, <2>1 DEF Create
        <3> HIDE DEF T, Y
        <3>2. row'[b].technician = t /\ row'[b].bay = y
            BY <3>1
        <3>3. pc[b] = "create" /\ UNCHANGED <<busy, outcome>>
            BY <1>6, <2>1 DEF Create
        <3> QED
            BY <3>2, <3>3 DEF T, Y
    <2>2. CASE pc'[b] # "insert"
        <3>1. /\ pc[b] = "create" /\ pc'[b] = "done" /\ busy'[b] = {} /\ UNCHANGED status
              /\ T = {} \/ Y = {}
            BY <1>6, <2>2 DEF Create, Rollback, CloseTx
        <3> QED
            BY <3>1
    <2> QED
        BY <2>1, <2>2
<1>7. CASE Insert(b)
    <2>1. CASE KeyTaken(b)
        BY <1>7, <2>1 DEF Insert, Rollback, CloseTx
    <2>2. CASE ~KeyTaken(b)
        BY <1>7, <2>2 DEF Insert
    <2> QED
        BY <2>1, <2>2
<1>8. CASE Backstop(b)
    BY <1>8 DEF Backstop, ReplyNoTx, KeyHolders
<1>9. ASSUME NEW slug \in {"ok", "error"}, Commit(b, slug)
      PROVE  ChoiceOf(b)
    BY <1>9 DEF Commit, CloseTx
<1>10. CASE CommitReplay(b)
    BY <1>10 DEF CommitReplay, CloseTx
<1>11. CASE SerializationFailure(b)
    <2>1. pc'[b] \in {"begin", "done"} /\ busy'[b] = {} /\ UNCHANGED status
        BY <1>11 DEF SerializationFailure, Rollback, CloseTx
    <2>2. outcome'[b] # "no-availability" \/ outcome'[b] = outcome[b]
        BY <1>11 DEF SerializationFailure
    <2>3. status[b] = "absent"
        BY <1>11 DEF SerializationFailure, InSnapshot
    <2> QED
        BY <2>1, <2>2, <2>3
<1>12. CASE Abandon(b)
    <2>1. pc'[b] = "done" /\ busy'[b] = {} /\ UNCHANGED status
        BY <1>12 DEF Abandon, Rollback, CloseTx
    <2>2. outcome'[b] = "error" /\ status[b] = "absent"
        BY <1>12 DEF Abandon
    <2> QED
        BY <2>1, <2>2
<1> QED
    BY <1>1, <1>2, <1>3, <1>4, <1>5, <1>6, <1>7, <1>8, <1>9,
       <1>10, <1>11, <1>12 DEF BookerNext, BookerStep

\* Nobody else's answer.
LEMMA OtherAnswers ==
    ASSUME TypeOK, NEW b \in Bookers, BookerNext(b)
    PROVE  \A a \in Bookers \ {b} : outcome'[a] = outcome[a] /\ tries'[a] = tries[a]
<1> USE DEF TypeOK, BookersTypeOK, Goto, Reply, ReplyNoTx
<1>1. ASSUME NEW slug \in {"ok", "error"}, Commit(b, slug)
      PROVE  \A a \in Bookers \ {b} : outcome'[a] = outcome[a] /\ tries'[a] = tries[a]
    BY <1>1 DEF Commit
<1> QED
    BY <1>1 DEF BookerNext, BookerStep, Arrive, Lookup, Prepare, Begin, TakeSnapshot, Create,
                Insert, Backstop, CommitReplay, SerializationFailure, Abandon

\* What was passed over stays taken while stored rows stay as they are.
LEMMA RestStays ==
    ASSUME NEW b \in Bookers, row'[b] = row[b],
           \A a \in Bookers : Committed(a) => Committed(a)' /\ row'[a] = row[a]
    PROVE  /\ BestOfTheRest(b) => BestOfTheRest(b)'
           /\ FirstOfTheRest(b) => FirstOfTheRest(b)'
<1>1. \A a \in Rivals(b) : a \in Rivals(b)' /\ row'[a] = row[a]
    BY DEF Rivals, Overlaps, StartOf, EndOf
<1>2. ASSUME BestOfTheRest(b) PROVE BestOfTheRest(b)'
    <2>1. ListTechnicians(b)' = ListTechnicians(b)
        BY DEF ListTechnicians, StartOf, EndOf
    <2> DEFINE roster == Technicians[Request[b].dealer]
    <2>2. PICK i \in ListTechnicians(b) :
             /\ roster[i].id = row[b].technician
             /\ \A j \in ListTechnicians(b) : roster[j].score > roster[i].score
                    => \E a \in Rivals(b) : row[a].technician = roster[j].id
        BY <1>2 DEF BestOfTheRest
    <2>3. roster[i].id = row'[b].technician
        BY <2>2
    <2>4. ASSUME NEW j \in ListTechnicians(b), roster[j].score > roster[i].score
          PROVE  \E a \in Rivals(b)' : row'[a].technician = roster[j].id
        BY <1>1, <2>2, <2>4
    <2> HIDE DEF roster
    <2>5. \E k \in ListTechnicians(b)' :
             /\ roster[k].id = row'[b].technician
             /\ \A j \in ListTechnicians(b)' : roster[j].score > roster[k].score
                    => \E a \in Rivals(b)' : row'[a].technician = roster[j].id
        BY <2>1, <2>3, <2>4
    <2> QED
        BY <2>5 DEF BestOfTheRest, roster
<1>3. ASSUME FirstOfTheRest(b) PROVE FirstOfTheRest(b)'
    <2>1. ListServiceBays(b)' = ListServiceBays(b)
        BY DEF ListServiceBays, StartOf, EndOf
    <2> DEFINE bays == ServiceBays[Request[b].dealer]
    <2>2. PICK i \in ListServiceBays(b) :
             /\ bays[i].id = row[b].bay
             /\ \A j \in ListServiceBays(b) : j < i
                    => \E a \in Rivals(b) : row[a].bay = bays[j].id
        BY <1>3 DEF FirstOfTheRest
    <2>3. bays[i].id = row'[b].bay
        BY <2>2
    <2>4. ASSUME NEW j \in ListServiceBays(b), j < i
          PROVE  \E a \in Rivals(b)' : row'[a].bay = bays[j].id
        BY <1>1, <2>2, <2>4
    <2> HIDE DEF bays
    <2>5. \E k \in ListServiceBays(b)' :
             /\ bays[k].id = row'[b].bay
             /\ \A j \in ListServiceBays(b)' : j < k
                    => \E a \in Rivals(b)' : row'[a].bay = bays[j].id
        BY <2>1, <2>3, <2>4
    <2> QED
        BY <2>5 DEF FirstOfTheRest, bays
<1> QED
    BY <1>2, <1>3

\* Nobody has chosen at first.
LEMMA ChoiceInit == Init => ChoiceInv
BY DEF Init, TablesInit, BookersInit, ChoiceInv, RefusedOnlyForAnother, Committed, Drafting,
       HoldsKeyEntry

\* A booking that has just chosen took the best of what its busy rows left, and those
\* are other bookings in its way.
LEMMA JustChosen ==
    ASSUME TypeOK, HandlerInv, ClaimInv, ChoiceInv, NEW b \in Bookers, pc[b] = "create",
           \A a \in Bookers : Committed(a) => Committed(a)' /\ row'[a] = row[a],
           row'[b].technician \in BestTechnicians(b, BusyTechnicians(busy[b])),
           row'[b].bay \in FirstServiceBay(b, BusyBays(busy[b]))
    PROVE  BestOfTheRest(b)' /\ FirstOfTheRest(b)'
<1>1. \A a \in busy[b] : a \in Rivals(b)' /\ row'[a] = row[a]
    <2> SUFFICES ASSUME NEW a \in busy[b] PROVE a \in Rivals(b)' /\ row'[a] = row[a]
        OBVIOUS
    <2>1. a \in Bookers /\ Committed(a) /\ Overlaps(a, b)
        BY DEF TypeOK, BookersTypeOK, ClaimInv, ChoiceInv
    <2>2. a # b
        BY <2>1 DEF HandlerInv, Committed
    <2>3. Overlaps(a, b)'
        BY <2>1 DEF Overlaps, StartOf, EndOf
    <2> QED
        BY <2>1, <2>2, <2>3 DEF Rivals
<1>2. BestOfTheRest(b)'
    <2> DEFINE roster == Technicians[Request[b].dealer]
    <2>1. PICK i \in ListTechnicians(b) :
              /\ roster[i].id = row'[b].technician
              /\ \A j \in ListTechnicians(b) : roster[j].score > roster[i].score
                    => roster[j].id \in BusyTechnicians(busy[b])
        BY ChosenIsBest
    <2>2. \A j \in ListTechnicians(b) : roster[j].score > roster[i].score
              => \E a \in Rivals(b)' : row'[a].technician = roster[j].id
        BY <1>1, <2>1 DEF BusyTechnicians
    <2>3. ListTechnicians(b)' = ListTechnicians(b)
        BY DEF ListTechnicians, StartOf, EndOf
    <2> QED
        BY <2>1, <2>2, <2>3 DEF BestOfTheRest
<1>3. FirstOfTheRest(b)'
    <2> DEFINE bays == ServiceBays[Request[b].dealer]
    <2>1. PICK i \in ListServiceBays(b) :
              /\ bays[i].id = row'[b].bay
              /\ \A j \in ListServiceBays(b) : j < i => bays[j].id \in BusyBays(busy[b])
        BY ChosenIsFirst
    <2>2. \A j \in ListServiceBays(b) : j < i
              => \E a \in Rivals(b)' : row'[a].bay = bays[j].id
        BY <1>1, <2>1 DEF BusyBays
    <2>3. ListServiceBays(b)' = ListServiceBays(b)
        BY DEF ListServiceBays, StartOf, EndOf
    <2> QED
        BY <2>1, <2>2, <2>3 DEF FirstOfTheRest
<1> QED
    BY <1>2, <1>3

\* Who is refused although somebody or something is listed found all of it busy.
LEMMA JustRefused ==
    ASSUME TypeOK, ClaimInv, ChoiceInv, NEW b \in Bookers,
           \/ BestTechnicians(b, BusyTechnicians(busy[b])) = {}
           \/ FirstServiceBay(b, BusyBays(busy[b])) = {},
           ListTechnicians(b) # {}, ListServiceBays(b) # {}
    PROVE  \E a \in Bookers :
              Committed(a) /\ Overlaps(a, b) /\ Request[a].key # Request[b].key
<1>1. busy[b] # {}
    <2>1. CASE BestTechnicians(b, BusyTechnicians(busy[b])) = {}
        BY <2>1, BestExists DEF BusyTechnicians
    <2>2. CASE FirstServiceBay(b, BusyBays(busy[b])) = {}
        BY <2>2, FirstExists DEF BusyBays
    <2> QED
        BY <2>1, <2>2
<1>2. \A a \in busy[b] :
          a \in Bookers /\ Committed(a) /\ Overlaps(a, b) /\ Request[a].key # Request[b].key
    BY DEF ClaimInv, ChoiceInv, TypeOK, BookersTypeOK
<1> QED
    BY <1>1, <1>2

\* A step of a booker keeps the choices.
LEMMA ChoiceBooker ==
    ASSUME TypeOK, HandlerInv, ClaimInv, ChoiceInv,
           NEW b \in Bookers, BookerNext(b), UNCHANGED updaterVars
    PROVE  ChoiceInv'
<1>1. /\ ChoiceOf(b)
      /\ \A a \in Bookers : Committed(a) => status'[a] = status[a] /\ row'[a] = row[a]
      /\ \A a \in Bookers : a # b =>
            /\ status'[a] = status[a] /\ row'[a] = row[a] /\ pc'[a] = pc[a]
            /\ busy'[a] = busy[a] /\ result'[a] = result[a] /\ outcome'[a] = outcome[a]
    BY ChoiceEffect, BookerFrame, OtherAnswers
<1>2. \A a \in Bookers : Committed(a) => Committed(a)' /\ row'[a] = row[a]
    BY <1>1 DEF Committed
<1>3. \A c \in Bookers : \A a \in busy'[c] :
          Overlaps(a, c) /\ Request[a].key # Request[c].key
    <2> SUFFICES ASSUME NEW c \in Bookers, NEW a \in busy'[c], a \notin busy[c]
                 PROVE  Overlaps(a, c) /\ Request[a].key # Request[c].key
        BY DEF ChoiceInv
    <2>1. c = b
        BY <1>1
    <2>2. a \in BusyRows(b, txNow[b]) /\ KeyHolders(Request[b].key) = {}
        BY <1>1, <2>1 DEF ChoiceOf
    <2> QED
        BY <2>1, <2>2 DEF BusyRows, KeyHolders
<1>4. ASSUME NEW c \in Bookers, Drafting(c)' \/ Committed(c)'
      PROVE  BestOfTheRest(c)' /\ FirstOfTheRest(c)'
    <2>1. CASE (Drafting(c) \/ Committed(c)) /\ row'[c] = row[c]
        BY <1>2, <2>1, RestStays DEF ChoiceInv
    <2>2. CASE c # b
        BY <1>1, <1>4, <2>1, <2>2 DEF Drafting, HoldsKeyEntry, Committed
    <2>3. CASE c = b
        BY <1>1, <1>2, <1>4, <2>1, <2>3, JustChosen DEF ChoiceOf
    <2> QED
        BY <2>2, <2>3
<1>5. RefusedOnlyForAnother'
    <2> SUFFICES ASSUME NEW c \in Bookers, outcome'[c] = "no-availability",
                        ListTechnicians(c) # {}, ListServiceBays(c) # {}
                 PROVE  \E a \in Bookers :
                           Committed(a)' /\ Overlaps(a, c) /\ Request[a].key # Request[c].key
        BY DEF RefusedOnlyForAnother, ListTechnicians, ListServiceBays, Overlaps, StartOf, EndOf
    <2>1. CASE outcome[c] = "no-availability"
        BY <1>2, <2>1 DEF ChoiceInv, RefusedOnlyForAnother
    <2>2. CASE outcome[c] # "no-availability"
        <3>1. c = b
            BY <1>1, <2>2
        <3>2. \/ BestTechnicians(c, BusyTechnicians(busy[c])) = {}
              \/ FirstServiceBay(c, BusyBays(busy[c])) = {}
            BY <1>1, <2>2, <3>1 DEF ChoiceOf
        <3> QED
            BY <1>2, <3>2, JustRefused
    <2> QED
        BY <2>1, <2>2
<1>6. \A c \in Bookers : \A a \in busy'[c] :
          Overlaps(a, c)' /\ Request[a].key # Request[c].key
    BY <1>3 DEF Overlaps, StartOf, EndOf
<1> QED
    BY <1>4, <1>5, <1>6 DEF ChoiceInv

\* So does a step that leaves the bookers, the rows and what is stored alone.
LEMMA ChoiceOthers ==
    ASSUME ChoiceInv, UNCHANGED <<row, bookerVars>>,
           \A a \in Bookers : Committed(a)' <=> Committed(a)
    PROVE  ChoiceInv'
<1>1. \A a \in Bookers : Drafting(a)' <=> Drafting(a)
    BY DEF Drafting, HoldsKeyEntry, bookerVars
<1>2. \A a \in Bookers : Drafting(a)' \/ Committed(a)' => BestOfTheRest(a)' /\ FirstOfTheRest(a)'
    BY <1>1, RestStays DEF ChoiceInv
<1>3. RefusedOnlyForAnother'
    BY DEF ChoiceInv, RefusedOnlyForAnother, bookerVars, ListTechnicians, ListServiceBays, Overlaps,
           StartOf, EndOf
<1> QED
    BY <1>2, <1>3 DEF ChoiceInv, bookerVars, Overlaps, StartOf, EndOf

\* Every step keeps the choices, given the invariant of AppointmentServiceProofs.
LEMMA ChoiceStep == IInv /\ ChoiceInv /\ [Next]_vars => ChoiceInv'
<1> SUFFICES ASSUME IInv, ChoiceInv, [Next]_vars
             PROVE  ChoiceInv'
    OBVIOUS
<1> USE DEF IInv
<1>1. ASSUME NEW b \in Bookers, BookerNext(b), UNCHANGED updaterVars
      PROVE  ChoiceInv'
    BY <1>1, ChoiceBooker
<1>2. ASSUME NEW u \in Updaters, UpdaterNext(u), UNCHANGED bookerVars
      PROVE  ChoiceInv'
    BY <1>2, UpdaterKeepsRows, ChoiceOthers
<1>3. CASE UNCHANGED <<status, row, bookerVars>>
    BY <1>3, ChoiceOthers DEF Committed
<1> QED
    BY <1>1, <1>2, <1>3 DEF Next, AllAnswered, vars, tableVars

\* Whoever is better reviewed, and whichever bay comes first, was passed over only
\* because another stored booking in the same window has it.
THEOREM PassedOverTaken == Spec => []PassedOverOnlyIfTaken
<1>1. ChoiceInv => PassedOverOnlyIfTaken
    BY DEF ChoiceInv, PassedOverOnlyIfTaken, BestOfTheRest, FirstOfTheRest, Rivals
<1>2. Init => ChoiceInv
    BY ChoiceInit
<1> QED
    BY <1>1, <1>2, ChoiceStep, Invariance, PTL DEF Spec

\* A booking that is refused although its lists are not empty lost to a stored
\* booking with another key: never to an earlier try of its own, nor to nobody.
THEOREM RefusedForAnother == Spec => []RefusedOnlyForAnother
<1>1. ChoiceInv => RefusedOnlyForAnother
    BY DEF ChoiceInv
<1>2. Init => ChoiceInv
    BY ChoiceInit
<1> QED
    BY <1>1, <1>2, ChoiceStep, Invariance, PTL DEF Spec

-----------------------------------------------------------------------------
(* What giving up takes. *)

\* The count of b: of the bookings it has lost to.
WinnersOf(b) ==
    /\ missed[b] \subseteq Others(b)
    /\ ~InSnapshot(b) => missed[b] = {}
    /\ pc[b] \notin {"backstop", "done"} => Cardinality(Others(b) \ missed[b]) >= Lost(b)
    /\ outcome[b] = "could-not-serialize" => Cardinality(Others(b)) >= MaxTries

\* At first nobody has lost and nobody is stored.
LEMMA WinnersInit == Init => WinnersInv
<1> SUFFICES ASSUME Init PROVE WinnersInv
    OBVIOUS
<1>1. {a \in Bookers : Committed(a)} = {} /\ \A b \in Bookers : Others(b) = {}
    BY DEF Init, TablesInit, Committed, Others
<1>2. \A b \in Bookers : missed[b] = {} /\ Others(b) \ missed[b] = {} /\ Lost(b) = 0
    BY <1>1 DEF Init, BookersInit, Lost, InSnapshot
<1>3. \A b \in Bookers : outcome[b] = "none"
    BY DEF Init, BookersInit
<1> QED
    BY <1>1, <1>2, <1>3, FS_EmptySet DEF WinnersInv

\* The other stored bookings are finitely many.
LEMMA FinitelyMany ==
    ASSUME WinnersInv, NEW b \in Bookers
    PROVE  /\ IsFiniteSet(Others(b)) /\ Cardinality(Others(b)) \in Nat
           /\ Cardinality(Others(b) \ missed[b]) \in Nat
<1>1. Others(b) \in SUBSET {a \in Bookers : Committed(a)}
    BY DEF Others
<1>2. IsFiniteSet(Others(b))
    BY <1>1, FS_Subset DEF WinnersInv
<1>3. IsFiniteSet(Others(b) \ missed[b])
    BY <1>2, FS_Difference
<1> QED
    BY <1>2, <1>3, FS_CardinalityType

\* Who has missed one has one more to count than those it had seen.
LEMMA OneMore ==
    ASSUME WinnersInv, NEW b \in Bookers, missed[b] # {}
    PROVE  Cardinality(Others(b)) >= Cardinality(Others(b) \ missed[b]) + 1
<1>1. missed[b] \subseteq Others(b)
    BY DEF WinnersInv
<1>3. IsFiniteSet(Others(b)) /\ Cardinality(Others(b)) \in Nat
    BY FinitelyMany
<1>4. Others(b) \ missed[b] \in SUBSET Others(b) /\ Others(b) \ missed[b] # Others(b)
    BY <1>1
<1>5. /\ Cardinality(Others(b) \ missed[b]) =< Cardinality(Others(b))
      /\ Cardinality(Others(b) \ missed[b]) # Cardinality(Others(b))
    BY <1>3, <1>4, FS_Subset
<1>6. Cardinality(Others(b) \ missed[b]) \in Nat
    BY FinitelyMany
<1> QED
    BY <1>3, <1>5, <1>6

\* A step that stores nothing leaves everybody else's count alone.
LEMMA WinnersFrame ==
    ASSUME WinnersInv, UNCHANGED status, NEW a \in Bookers,
           pc'[a] = pc[a], missed'[a] = missed[a], tries'[a] = tries[a], outcome'[a] = outcome[a]
    PROVE  WinnersOf(a)'
<1>1. Others(a)' = Others(a)
    BY DEF Others, Committed
<1>2. (InSnapshot(a)' <=> InSnapshot(a)) /\ Lost(a)' = Lost(a)
    BY DEF InSnapshot, Lost
<1> QED
    BY <1>1, <1>2 DEF WinnersInv, WinnersOf

\* What a step of b that stores nothing does to its own count.
CountsOn(b) ==
    \/ missed'[b] = missed[b] /\ Lost(b)' = Lost(b) /\ (InSnapshot(b) => InSnapshot(b)')
       /\ pc[b] \notin {"backstop", "done"}
    \/ missed'[b] = {} /\ pc'[b] \in {"backstop", "done"}
    \/ missed'[b] = {} /\ missed[b] # {} /\ InSnapshot(b) /\ pc'[b] = "begin" /\ tries'[b] = tries[b]

\* Every such step does one of these, and gives up only at the last attempt.
LEMMA WinnersEffect ==
    ASSUME TypeOK, HandlerInv, WinnersInv, NEW b \in Bookers, BookerNext(b), UNCHANGED status
    PROVE  /\ CountsOn(b)
           /\ \A a \in Bookers \ {b} : missed'[a] = missed[a]
           /\ outcome'[b] = "could-not-serialize" =>
                 \/ outcome[b] = "could-not-serialize"
                 \/ InSnapshot(b) /\ missed[b] # {} /\ tries[b] >= MaxTries
<1> DEFINE Effect ==
        /\ CountsOn(b)
        /\ \A a \in Bookers \ {b} : missed'[a] = missed[a]
        /\ outcome'[b] = "could-not-serialize" =>
              \/ outcome[b] = "could-not-serialize"
              \/ InSnapshot(b) /\ missed[b] # {} /\ tries[b] >= MaxTries
<1> SUFFICES Effect
    OBVIOUS
<1>0. missed[b] = {} \/ InSnapshot(b)
    BY DEF WinnersInv
<1> USE DEF TypeOK, TablesTypeOK, BookersTypeOK, HandlerInv, CountsOn, Lost, InSnapshot, Goto, Reply,
        tableVars
<1>1. CASE Arrive(b)
    BY <1>0, <1>1 DEF Arrive, ReplyNoTx
<1>2. CASE Lookup(b)
    BY <1>0, <1>2 DEF Lookup, ReplyNoTx
<1>3. CASE Prepare(b)
    BY <1>0, <1>3 DEF Prepare, ReplyNoTx, Preparation
<1>4. CASE Begin(b)
    BY <1>0, <1>4 DEF Begin
<1>5. CASE TakeSnapshot(b)
    BY <1>0, <1>5 DEF TakeSnapshot
<1>6. CASE Create(b)
    BY <1>0, <1>6 DEF Create, Rollback, CloseTx
<1>7. CASE Insert(b)
    BY <1>0, <1>7 DEF Insert, Rollback, CloseTx
<1>8. CASE Backstop(b)
    BY <1>0, <1>8 DEF Backstop, ReplyNoTx
<1>9. ASSUME NEW slug \in {"ok", "error"}, Commit(b, slug)
      PROVE  Effect
    BY <1>9 DEF Commit
<1>10. CASE CommitReplay(b)
    BY <1>10 DEF CommitReplay, CloseTx
<1>11. CASE SerializationFailure(b)
    BY <1>11 DEF SerializationFailure, Rollback, CloseTx, LastTry
<1>12. CASE Abandon(b)
    BY <1>12 DEF Abandon, Rollback, CloseTx
<1> QED
    BY <1>1, <1>2, <1>3, <1>4, <1>5, <1>6, <1>7, <1>8, <1>9,
       <1>10, <1>11, <1>12 DEF BookerNext, BookerStep

\* Such a step keeps the counts.
LEMMA WinnersQuiet ==
    ASSUME TypeOK, HandlerInv, WinnersInv, NEW b \in Bookers, BookerNext(b), UNCHANGED status
    PROVE  WinnersInv'
<1>1. /\ CountsOn(b)
      /\ \A a \in Bookers \ {b} : missed'[a] = missed[a]
      /\ outcome'[b] = "could-not-serialize" =>
            \/ outcome[b] = "could-not-serialize"
            \/ InSnapshot(b) /\ missed[b] # {} /\ tries[b] >= MaxTries
    BY WinnersEffect
<1>2. \A a \in Bookers \ {b} : WinnersOf(a)'
    BY <1>1, WinnersFrame, BookerFrame, OtherAnswers
<1>3. Others(b)' = Others(b) /\ Others(b) \ {} = Others(b)
    BY DEF Others, Committed
<1>4. /\ Cardinality(Others(b)) \in Nat
      /\ Cardinality(Others(b) \ missed[b]) \in Nat
      /\ tries[b] \in Nat /\ MaxTries \in Nat
    <2>1. tries[b] \in Nat /\ MaxTries \in Nat
        BY FactoryAssumption DEF TypeOK, BookersTypeOK
    <2> QED
        BY <2>1, FinitelyMany
<1>5. InSnapshot(b) => Cardinality(Others(b) \ missed[b]) >= tries[b] - 1
    BY DEF WinnersInv, Lost, InSnapshot
<1>6. InSnapshot(b) /\ missed[b] # {} => Cardinality(Others(b)) >= tries[b]
    BY <1>4, <1>5, OneMore
<1>7. WinnersOf(b)'
    <2>1. missed'[b] \subseteq Others(b)'
        BY <1>1, <1>3 DEF WinnersInv, CountsOn
    <2>2. ~InSnapshot(b)' => missed'[b] = {}
        BY <1>1 DEF WinnersInv, CountsOn
    <2>3. pc'[b] \notin {"backstop", "done"} =>
              Cardinality(Others(b)' \ missed'[b]) >= Lost(b)'
        <3>1. CASE missed'[b] = missed[b] /\ Lost(b)' = Lost(b) /\ pc[b] \notin {"backstop", "done"}
            BY <1>3, <3>1 DEF WinnersInv
        <3>2. CASE /\ missed'[b] = {} /\ missed[b] # {} /\ InSnapshot(b)
                   /\ pc'[b] = "begin" /\ tries'[b] = tries[b]
            <4>1. Lost(b)' = tries[b]
                BY <3>2 DEF Lost, InSnapshot
            <4> QED
                BY <1>3, <1>6, <3>2, <4>1
        <3> QED
            BY <1>1, <3>1, <3>2 DEF CountsOn
    <2>4. outcome'[b] = "could-not-serialize" => Cardinality(Others(b)') >= MaxTries
        <3>1. outcome[b] = "could-not-serialize" => Cardinality(Others(b)) >= MaxTries
            BY DEF WinnersInv
        <3> QED
            BY <1>1, <1>3, <1>4, <1>6, <3>1
    <2> QED
        BY <2>1, <2>2, <2>3, <2>4 DEF WinnersOf
<1>8. IsFiniteSet({a \in Bookers : Committed(a)})'
    BY DEF WinnersInv, Committed
<1> QED
    BY <1>2, <1>7, <1>8 DEF WinnersInv, WinnersOf

\* A commit adds one winner for everybody else, who misses it or will see it.
LEMMA WinnersCommit ==
    ASSUME TypeOK, HandlerInv, WinnersInv, NEW b \in Bookers,
           NEW slug \in {"ok", "error"}, Commit(b, slug)
    PROVE  WinnersInv'
<1>1. /\ status[b] = "absent" /\ status'[b] = "pending"
      /\ \A a \in Bookers \ {b} : status'[a] = status[a]
      /\ pc'[b] = "done" /\ outcome'[b] = slug /\ missed'[b] = {}
      /\ \A a \in Bookers \ {b} :
            /\ pc'[a] = pc[a] /\ tries'[a] = tries[a] /\ outcome'[a] = outcome[a]
            /\ missed'[a] = IF InSnapshot(a) THEN missed[a] \cup {b} ELSE missed[a]
    BY DEF Commit, Goto, Reply, TypeOK, TablesTypeOK, BookersTypeOK, HandlerInv
<1>2. \A a \in Bookers \ {b} : Others(a)' = Others(a) \cup {b} /\ b \notin Others(a)
    BY <1>1 DEF Others, Committed
<1>3. ASSUME NEW a \in Bookers \ {b} PROVE WinnersOf(a)'
    <2>1. IsFiniteSet(Others(a)) /\ Cardinality(Others(a)) \in Nat
        BY FinitelyMany
    <2>2. Cardinality(Others(a)') = Cardinality(Others(a)) + 1
        BY <1>2, <2>1, FS_AddElement
    <2>3. (InSnapshot(a)' <=> InSnapshot(a)) /\ Lost(a)' = Lost(a)
        BY <1>1 DEF InSnapshot, Lost
    <2>4. MaxTries \in Nat /\ Lost(a) \in Int
        BY FactoryAssumption DEF Lost, TypeOK, BookersTypeOK
    <2>5. /\ missed[a] \subseteq Others(a)
          /\ ~InSnapshot(a) => missed[a] = {}
          /\ pc[a] \notin {"backstop", "done"} =>
                 Cardinality(Others(a) \ missed[a]) >= Lost(a)
          /\ outcome[a] = "could-not-serialize" => Cardinality(Others(a)) >= MaxTries
        BY DEF WinnersInv
    <2>6. pc'[a] = pc[a] /\ outcome'[a] = outcome[a]
        BY <1>1
    <2>7. /\ Cardinality(Others(a)) >= MaxTries => Cardinality(Others(a)') >= MaxTries
          /\ Cardinality(Others(a)) >= Lost(a) => Cardinality(Others(a)') >= Lost(a)
        BY <2>1, <2>2, <2>4
    <2>8. outcome'[a] = "could-not-serialize" => Cardinality(Others(a)') >= MaxTries
        BY <2>5, <2>6, <2>7
    <2>9. CASE InSnapshot(a)
        <3>1. missed'[a] = missed[a] \cup {b}
            BY <1>1, <2>9
        <3>2. missed'[a] \subseteq Others(a)'
            BY <1>2, <2>5, <3>1
        <3>3. Others(a)' \ missed'[a] = Others(a) \ missed[a]
            BY <1>2, <3>1
        <3> QED
            BY <1>1, <2>3, <2>5, <2>8, <2>9, <3>2, <3>3 DEF WinnersOf
    <2>10. CASE ~InSnapshot(a)
        <3>1. missed'[a] = {} /\ missed[a] = {}
            BY <1>1, <2>5, <2>10
        <3>2. Others(a)' \ missed'[a] = Others(a)' /\ Others(a) \ missed[a] = Others(a)
            BY <3>1
        <3>3. pc'[a] \notin {"backstop", "done"} => Cardinality(Others(a)') >= Lost(a)
            BY <2>5, <2>6, <2>7, <2>10, <3>2
        <3> QED
            BY <2>3, <2>8, <3>1, <3>2, <3>3 DEF WinnersOf
    <2> QED
        BY <2>9, <2>10
<1>4. WinnersOf(b)'
    BY <1>1 DEF WinnersOf
<1>5. IsFiniteSet({a \in Bookers : Committed(a)})'
    <2>1. {a \in Bookers : Committed(a)'} = {a \in Bookers : Committed(a)} \cup {b}
        BY <1>1 DEF Committed
    <2> QED
        BY <2>1, FS_AddElement DEF WinnersInv
<1> QED
    BY <1>3, <1>4, <1>5 DEF WinnersInv, WinnersOf

\* Everybody else leaves the counts alone.
LEMMA WinnersOthers ==
    ASSUME WinnersInv, UNCHANGED bookerVars, \A a \in Bookers : Committed(a)' <=> Committed(a)
    PROVE  WinnersInv'
<1>1. \A a \in Bookers : Others(a)' = Others(a)
    BY DEF Others
<1>2. {a \in Bookers : Committed(a)'} = {a \in Bookers : Committed(a)}
    OBVIOUS
<1>3. \A a \in Bookers : (InSnapshot(a)' <=> InSnapshot(a)) /\ Lost(a)' = Lost(a)
    BY DEF InSnapshot, Lost, bookerVars
<1> QED
    BY <1>1, <1>2, <1>3 DEF WinnersInv, bookerVars

\* Every step keeps the counts.
LEMMA WinnersStep == IInv /\ WinnersInv /\ [Next]_vars => WinnersInv'
<1> SUFFICES ASSUME IInv, WinnersInv, [Next]_vars
             PROVE  WinnersInv'
    OBVIOUS
<1> USE DEF IInv
<1>1. ASSUME NEW b \in Bookers, BookerNext(b)
      PROVE  WinnersInv'
    <2>1. UNCHANGED status \/ Commit(b, "ok") \/ Commit(b, "error")
        BY <1>1 DEF BookerNext, BookerStep, Arrive, Lookup, Prepare, Begin, TakeSnapshot,
                    Create, Insert, Backstop, CommitReplay, SerializationFailure, Abandon,
                    ReplyNoTx, Rollback, tableVars
    <2> QED
        BY <1>1, <2>1, WinnersQuiet, WinnersCommit
<1>2. ASSUME NEW u \in Updaters, UpdaterNext(u), UNCHANGED bookerVars
      PROVE  WinnersInv'
    BY <1>2, UpdaterKeepsRows, WinnersOthers
<1>3. CASE UNCHANGED <<status, bookerVars>>
    BY <1>3, WinnersOthers DEF Committed
<1> QED
    BY <1>1, <1>2, <1>3 DEF Next, AllAnswered, vars, tableVars

\* A booking that gives up on serialization failures lost each attempt to another
\* one: at least MaxTries others are stored.
THEOREM GivingUp == Spec => []GivingUpTakesManyWinners
<1>1. WinnersInv => GivingUpTakesManyWinners
    BY DEF WinnersInv, GivingUpTakesManyWinners, Others
<1>2. Init => WinnersInv
    BY WinnersInit
<1> QED
    BY <1>1, <1>2, WinnersStep, Invariance, PTL DEF Spec
=============================================================================
