---------------------- MODULE AppointmentServiceProofs ----------------------
(***************************************************************************)
(* Proofs about AppointmentService for every number of handlers, every     *)
(* roster, every set of requests and every clock skew.                     *)
(***************************************************************************)
EXTENDS ServiceInvariant, TLAPS

USE DEF Updaters

-----------------------------------------------------------------------------
(* The choice among the candidates. *)

\* Whoever createFn picks is on the roster and is not busy.
LEMMA ChosenTechnician ==
    ASSUME NEW b \in Bookers, NEW S, NEW t \in BestTechnicians(b, S)
    PROVE  t \in TechnicianIds /\ t \notin S
<1>1. Request[b].dealer \in Dealers
    BY RequestAssumption DEF RequestData
<1>2. Technicians[Request[b].dealer] \in Seq(TechnicianEntry)
    BY <1>1, RosterAssumption
<1> DEFINE roster == Technicians[Request[b].dealer]
<1>3. PICK i \in DOMAIN roster : t = roster[i].id /\ roster[i].id \notin S
    BY DEF BestTechnicians, ListTechnicians
<1>4. roster[i] \in TechnicianEntry
    BY <1>2
<1> QED
    BY <1>3, <1>4 DEF TechnicianEntry

\* The same of the bay.
LEMMA ChosenBay ==
    ASSUME NEW b \in Bookers, NEW S, NEW y \in FirstServiceBay(b, S)
    PROVE  y \in BayIds /\ y \notin S
<1>1. Request[b].dealer \in Dealers
    BY RequestAssumption DEF RequestData
<1>2. ServiceBays[Request[b].dealer] \in Seq(BayEntry)
    BY <1>1, RosterAssumption
<1> DEFINE roster == ServiceBays[Request[b].dealer]
<1>3. PICK i \in DOMAIN roster : y = roster[i].id /\ roster[i].id \notin S
    BY DEF FirstServiceBay, ListServiceBays
<1>4. roster[i] \in BayEntry
    BY <1>2
<1> QED
    BY <1>3, <1>4 DEF BayEntry

\* Windows overlap both ways or not at all.
LEMMA OverlapsSymmetric ==
    ASSUME NEW a \in Bookers, NEW b \in Bookers, Overlaps(a, b)
    PROVE  Overlaps(b, a)
BY DEF Overlaps

-----------------------------------------------------------------------------
(* Types. *)

\* The initial state is typed.
LEMMA TypeInit == Init => TypeOK /\ Underway
BY FactoryAssumption
   DEF Init, TablesInit, BookersInit, UpdatersInit, TypeOK, Underway, TablesTypeOK,
       BookersTypeOK, UpdatersTypeOK, Status, Row, NoRow, BookerPc,
       BookerOutcome, UpdaterPc, UpdaterOutcome

\* A row that was rolled back is a row.
LEMMA NoRowType == NoRow \in Row
BY DEF NoRow, Row

\* A step of a booker keeps the types; the only counter, tries, is advanced by
\* Begin, and Underway says that an attempt is left for it.
LEMMA TypeBooker ==
    ASSUME TypeOK, Underway,
           NEW b \in Bookers, BookerNext(b), UNCHANGED updaterVars
    PROVE  TypeOK' /\ Underway'
<1> USE FactoryAssumption, NoRowType
    DEF TypeOK, Underway, TablesTypeOK, BookersTypeOK, tableVars, Goto, Reply
<1>0. UpdatersTypeOK' /\ UNCHANGED <<upc, target>>
    BY DEF UpdatersTypeOK, updaterVars
<1>1. AppNow(b) + ReservationTTL \in Int
    BY SkewAssumption DEF AppNow
<1> USE DEF BookerPc, BookerOutcome
<1>2. CASE Arrive(b)
    BY <1>0, <1>2 DEF Arrive, ReplyNoTx
<1>3. CASE Lookup(b)
    BY <1>0, <1>3 DEF Lookup, ReplyNoTx, KeyHolders
<1>4. CASE Prepare(b)
    BY <1>0, <1>4 DEF Prepare, ReplyNoTx, Preparation
<1>5. CASE Begin(b)
    BY <1>0, <1>5 DEF Begin
<1>6. CASE TakeSnapshot(b)
    BY <1>0, <1>6 DEF TakeSnapshot, KeyHolders, BusyRows
<1>7. CASE Create(b)
    <2> DEFINE T == BestTechnicians(b, BusyTechnicians(busy[b]))
               Y == FirstServiceBay(b, BusyBays(busy[b]))
    <2>1. CASE pc'[b] = "insert"
        <3>1. PICK t \in T, y \in Y :
                  row' = [row EXCEPT ![b] =
                      [technician |-> t, bay |-> y,
                       expiredAt |-> AppNow(b) + ReservationTTL]]
            BY <1>7, <2>1 DEF Create
        <3>2. t \in TechnicianIds /\ y \in BayIds
            BY <3>1, ChosenTechnician, ChosenBay
        <3> HIDE DEF T, Y
        <3>3. row' \in [Bookers -> Row]
            BY <1>1, <3>1, <3>2 DEF Row
        <3> QED
            BY <1>0, <1>7, <2>1, <3>3 DEF Create
    <2>2. CASE pc'[b] # "insert"
        BY <1>0, <1>7, <2>2 DEF Create, Rollback, CloseTx
    <2> QED
        BY <2>1, <2>2
<1>8. CASE Insert(b)
    BY <1>0, <1>8 DEF Insert, Rollback, CloseTx
<1>9. CASE Backstop(b)
    BY <1>0, <1>9 DEF Backstop, ReplyNoTx, KeyHolders
<1>10. ASSUME NEW slug \in {"ok", "error"}, Commit(b, slug)
       PROVE  TypeOK' /\ Underway'
    BY <1>0, <1>10 DEF Commit, CloseTx, Status
<1>11. CASE CommitReplay(b)
    BY <1>0, <1>11 DEF CommitReplay, CloseTx
<1>12. CASE SerializationFailure(b)
    BY <1>0, <1>12 DEF SerializationFailure, Rollback, CloseTx, LastTry
<1>13. CASE Abandon(b)
    BY <1>0, <1>13 DEF Abandon, Rollback, CloseTx
<1> QED
    BY <1>2, <1>3, <1>4, <1>5, <1>6, <1>7, <1>8, <1>9, <1>10, <1>11, <1>12,
       <1>13 DEF BookerNext, BookerStep

\* A step of an updater keeps the types.
LEMMA TypeUpdater ==
    ASSUME TypeOK, Underway,
           NEW u \in Updaters, UpdaterNext(u), UNCHANGED bookerVars
    PROVE  TypeOK' /\ Underway'
<1> USE FactoryAssumption
    DEF TypeOK, Underway, TablesTypeOK, UpdatersTypeOK, tableVars, UGoto, UReply
<1>0. BookersTypeOK'
    BY DEF BookersTypeOK, bookerVars
<1> USE DEF bookerVars
<1> USE DEF UpdaterPc, UpdaterOutcome
<1>1. CASE UArrive(u)
    BY <1>0, <1>1 DEF UArrive
<1>2. CASE Read(u)
    BY <1>0, <1>2 DEF Read, Missing, Status
<1>3. CASE Check(u)
    BY <1>0, <1>3 DEF Check, DomainOutcome, ConfirmOutcome, CancelOutcome, Status
<1>4. CASE Update(u)
    BY <1>0, <1>4 DEF Update, URetry, ULastTry, Status
<1>5. ASSUME NEW slug \in {"ok", "error"}, UCommit(u, slug)
      PROVE  TypeOK' /\ Underway'
    BY <1>0, <1>5 DEF UCommit, NewStatus, Status
<1>6. CASE UAbandon(u)
    BY <1>0, <1>6 DEF UAbandon, Status
<1> QED
    BY <1>1, <1>2, <1>3, <1>4, <1>5, <1>6 DEF UpdaterNext, UpdaterStep

\* Steps that leave the handlers alone.
LEMMA TypeClock ==
    ASSUME TypeOK, Underway, Tick \/ UNCHANGED now,
           UNCHANGED <<status, row, confirmedAt, bookerVars, updaterVars>>
    PROVE  TypeOK' /\ Underway'
BY DEF TypeOK, Underway, TablesTypeOK, BookersTypeOK, UpdatersTypeOK, Tick,
       bookerVars, updaterVars

\* Every step keeps the types.
LEMMA TypeStep == TypeOK /\ Underway /\ [Next]_vars => TypeOK' /\ Underway'
BY TypeBooker, TypeUpdater, TypeClock DEF Next, AllAnswered, vars, tableVars

\* Every variable keeps to its type whatever the handlers, the clock and the
\* failures do.
THEOREM TypeCorrect == Spec => []TypeOK
<1>1. Init => TypeOK /\ Underway
    BY TypeInit
<1>2. (TypeOK /\ Underway) /\ [Next]_vars => (TypeOK /\ Underway)'
    BY TypeStep
<1> QED
    BY <1>1, <1>2, PTL DEF Spec
-----------------------------------------------------------------------------
(* What a handler knows of itself. *)

\* A handler that is idle knows nothing.
LEMMA HandlerInit == Init => HandlerInv
BY DEF Init, TablesInit, BookersInit, UpdatersInit, HandlerInv

\* A step of a booker keeps what handlers know of themselves.
LEMMA HandlerBooker ==
    ASSUME TypeOK, HandlerInv,
           NEW b \in Bookers, BookerNext(b), UNCHANGED updaterVars
    PROVE  HandlerInv'
<1> USE NoneAssumption
    DEF TypeOK, TablesTypeOK, BookersTypeOK, HandlerInv, Goto, Reply, tableVars,
        updaterVars
<1>1. CASE Arrive(b)
    BY <1>1 DEF Arrive, ReplyNoTx
<1>2. CASE Lookup(b)
    BY <1>2 DEF Lookup, ReplyNoTx, KeyHolders
<1>3. CASE Prepare(b)
    BY <1>3 DEF Prepare, ReplyNoTx, Preparation
<1>4. CASE Begin(b)
    BY <1>4 DEF Begin
<1>5. CASE TakeSnapshot(b)
    BY <1>5 DEF TakeSnapshot, KeyHolders
<1>6. CASE Create(b)
    BY <1>6 DEF Create, Rollback, CloseTx
<1>7. CASE Insert(b)
    BY <1>7 DEF Insert, Rollback, CloseTx
<1>8. CASE Backstop(b)
    BY <1>8 DEF Backstop, ReplyNoTx, KeyHolders
<1>9. ASSUME NEW slug \in {"ok", "error"}, Commit(b, slug)
      PROVE  HandlerInv'
    BY <1>9 DEF Commit, CloseTx
<1>10. CASE CommitReplay(b)
    BY <1>10 DEF CommitReplay, CloseTx
<1>11. CASE SerializationFailure(b)
    BY <1>11 DEF SerializationFailure, Rollback, CloseTx, InSnapshot
<1>12. CASE Abandon(b)
    BY <1>12 DEF Abandon, Rollback, CloseTx
<1> QED
    BY <1>1, <1>2, <1>3, <1>4, <1>5, <1>6, <1>7, <1>8, <1>9,
       <1>10, <1>11, <1>12 DEF BookerNext, BookerStep

\* A step of an updater keeps what handlers know of themselves.
LEMMA HandlerUpdater ==
    ASSUME TypeOK, Underway, HandlerInv, UpdateInv,
           NEW u \in Updaters, UpdaterNext(u), UNCHANGED bookerVars
    PROVE  HandlerInv'
<1> USE DEF TypeOK, TablesTypeOK, UpdatersTypeOK, HandlerInv, UGoto, UReply, bookerVars,
            tableVars
<1>1. CASE UArrive(u)
    BY <1>1 DEF UArrive
<1>2. CASE Read(u)
    BY <1>2 DEF Read, Missing
<1>3. CASE Check(u)
    BY <1>3 DEF Check
<1>4. CASE Update(u)
    BY <1>4 DEF Update, URetry
<1>5. ASSUME NEW slug \in {"ok", "error"}, UCommit(u, slug)
      PROVE  HandlerInv'
    <2>1. target[u] \in Bookers /\ pc[target[u]] = "done"
        BY <1>5 DEF UCommit, UpdateInv, Underway, Committed
    <2> QED
        BY <1>5, <2>1 DEF UCommit
<1>6. CASE UAbandon(u)
    BY <1>6 DEF UAbandon
<1> QED
    BY <1>1, <1>2, <1>3, <1>4, <1>5, <1>6 DEF UpdaterNext, UpdaterStep

\* So does a tick of the clock, which only moves forward.
LEMMA HandlerClock ==
    ASSUME TypeOK, HandlerInv, Tick \/ UNCHANGED now,
           UNCHANGED <<status, row, confirmedAt, bookerVars, updaterVars>>
    PROVE  HandlerInv'
BY DEF TypeOK, TablesTypeOK, BookersTypeOK, HandlerInv, Tick, bookerVars, updaterVars

-----------------------------------------------------------------------------
(* The row lock and the version check. *)

\* Nobody has read or locked a row at first.
LEMMA UpdateInit == Init => UpdateInv
BY DEF Init, UpdatersInit, UpdateInv

\* A booker changes no row that an updater could have read: it stores its own,
\* which was absent.
LEMMA UpdateBooker ==
    ASSUME TypeOK, Underway, HandlerInv, UpdateInv,
           NEW b \in Bookers, BookerNext(b), UNCHANGED updaterVars
    PROVE  UpdateInv'
<1>1. CASE UNCHANGED status
    BY <1>1 DEF UpdateInv, Committed, updaterVars
<1>2. ASSUME NEW slug \in {"ok", "error"}, Commit(b, slug)
      PROVE  UpdateInv'
    <2>1. status[b] = "absent"
        BY <1>2 DEF Commit, HandlerInv
    <2>2. \A a \in Bookers : a # b => status'[a] = status[a]
        BY <1>2 DEF Commit, TypeOK, TablesTypeOK
    <2>3. \A v \in Updaters : upc[v] \in {"check", "update", "commit"} =>
              target[v] \in Bookers /\ target[v] # b
        BY <2>1 DEF UpdateInv, Underway, Committed
    <2> QED
        BY <2>2, <2>3 DEF UpdateInv, Committed, updaterVars
<1>3. UNCHANGED status \/ Commit(b, "ok") \/ Commit(b, "error")
    BY DEF BookerNext, BookerStep, Arrive, Lookup, Prepare, Begin, TakeSnapshot,
           Create, Insert, Backstop, CommitReplay, SerializationFailure, Abandon,
           ReplyNoTx, Rollback, tableVars
<1> QED
    BY <1>1, <1>2, <1>3

\* The row lock and the version check keep updates apart.
LEMMA UpdateUpdater ==
    ASSUME TypeOK, Underway, UpdateInv,
           NEW u \in Updaters, UpdaterNext(u), UNCHANGED bookerVars
    PROVE  UpdateInv'
<1> USE DEF TypeOK, Underway, TablesTypeOK, UpdatersTypeOK, UpdateInv, UGoto, UReply, Committed, tableVars
<1>1. CASE UArrive(u)
    BY <1>1 DEF UArrive
<1>2. CASE Read(u)
    BY <1>2 DEF Read, Missing
<1>3. CASE Check(u)
    BY <1>3 DEF Check, DomainOutcome, ConfirmOutcome, CancelOutcome
<1>4. CASE Update(u)
    BY <1>4 DEF Update, URetry, RowUnchanged, LocksRow
<1>5. ASSUME NEW slug \in {"ok", "error"}, UCommit(u, slug)
      PROVE  UpdateInv'
    <2>1. target[u] \in Bookers /\ upc[u] = "commit"
        BY <1>5 DEF UCommit
    <2>2. status'[target[u]] \in {"confirmed", "cancelled"}
        BY <1>5, <2>1 DEF UCommit, NewStatus
    <2>3. \A a \in Bookers : a # target[u] => status'[a] = status[a]
        BY <1>5 DEF UCommit
    <2>4. /\ upc'[u] = "done"
          /\ \A v \in Updaters : v # u => upc'[v] = upc[v] /\ seen'[v] = seen[v]
          /\ target' = target
        BY <1>5 DEF UCommit
    <2>5. \A v \in Updaters : v # u /\ upc[v] = "commit" => target[v] # target[u]
        BY <2>1
    <2>6. \A v \in Updaters : upc'[v] \in {"check", "update", "commit"} =>
              target[v] \in Bookers /\ status'[target[v]] # "absent"
        BY <2>2, <2>3, <2>4
    <2> QED
        BY <2>3, <2>4, <2>5, <2>6
<1>6. CASE UAbandon(u)
    BY <1>6 DEF UAbandon
<1> QED
    BY <1>1, <1>2, <1>3, <1>4, <1>5, <1>6 DEF UpdaterNext, UpdaterStep

\* The clock touches neither rows nor updaters.
LEMMA UpdateClock ==
    ASSUME UpdateInv, UNCHANGED <<status, row, confirmedAt, bookerVars, updaterVars>>
    PROVE  UpdateInv'
BY DEF UpdateInv, Committed, updaterVars

-----------------------------------------------------------------------------
(* The unique index. *)

\* No key is taken at first.
LEMMA KeyInit == Init => KeyInv
BY DEF Init, TablesInit, BookersInit, KeyInv, Committed, HoldsKeyEntry

\* A booker enters the index only when no other entry, open or committed, has its
\* key; and what it answers or is about to answer is in the index.
LEMMA KeyBooker ==
    ASSUME TypeOK, HandlerInv, KeyInv,
           NEW b \in Bookers, BookerNext(b), UNCHANGED updaterVars
    PROVE  KeyInv'
<1> USE NoneAssumption
    DEF TypeOK, TablesTypeOK, BookersTypeOK, HandlerInv, KeyInv, Committed,
        HoldsKeyEntry, KeyHolders, Goto, Reply, tableVars
<1>1. CASE Arrive(b)
    BY <1>1 DEF Arrive, ReplyNoTx
<1>2. CASE Lookup(b)
    BY <1>2 DEF Lookup, ReplyNoTx
<1>3. CASE Prepare(b)
    BY <1>3 DEF Prepare, ReplyNoTx, Preparation
<1>4. CASE Begin(b)
    BY <1>4 DEF Begin
<1>5. CASE TakeSnapshot(b)
    BY <1>5 DEF TakeSnapshot
<1>6. CASE Create(b)
    BY <1>6 DEF Create, Rollback, CloseTx
<1>7. CASE Insert(b)
    <2>1. CASE KeyTaken(b)
        BY <1>7, <2>1 DEF Insert, Rollback, CloseTx, KeyTaken
    <2>2. CASE ~KeyTaken(b)
        BY <1>7, <2>2 DEF Insert, KeyTaken
    <2> QED
        BY <2>1, <2>2
<1>8. CASE Backstop(b)
    BY <1>8 DEF Backstop, ReplyNoTx
<1>9. ASSUME NEW slug \in {"ok", "error"}, Commit(b, slug)
      PROVE  KeyInv'
    BY <1>9 DEF Commit, CloseTx
<1>10. CASE CommitReplay(b)
    BY <1>10 DEF CommitReplay, CloseTx
<1>11. CASE SerializationFailure(b)
    <2>1. CASE LastTry(b)
        BY <1>11, <2>1 DEF SerializationFailure, Rollback, InSnapshot
    <2>2. CASE ~LastTry(b)
        BY <1>11, <2>2 DEF SerializationFailure, Rollback, InSnapshot
    <2> QED
        BY <2>1, <2>2
<1>12. CASE Abandon(b)
    BY <1>12 DEF Abandon, Rollback, CloseTx
<1> QED
    BY <1>1, <1>2, <1>3, <1>4, <1>5, <1>6, <1>7, <1>8, <1>9,
       <1>10, <1>11, <1>12 DEF BookerNext, BookerStep

\* Once an appointment is stored an updater changes its status, never to "absent".
LEMMA UpdaterKeepsRows ==
    ASSUME TypeOK, Underway, UpdateInv,
           NEW u \in Updaters, UpdaterNext(u), UNCHANGED bookerVars
    PROVE  /\ UNCHANGED <<now, row>>
           /\ \A a \in Bookers : Committed(a)' <=> Committed(a)
<1>1. ASSUME NEW slug \in {"ok", "error"}, UCommit(u, slug)
      PROVE  /\ UNCHANGED <<now, row>>
             /\ \A a \in Bookers : Committed(a)' <=> Committed(a)
    BY <1>1 DEF UCommit, NewStatus, UpdateInv, Committed, TypeOK, TablesTypeOK
<1> QED
    BY <1>1 DEF UpdaterNext, UpdaterStep, UArrive, Read, Check, Update, UAbandon,
                tableVars, Committed

\* An updater keeps every stored row, so what is in the index stays.
LEMMA KeyUpdater ==
    ASSUME TypeOK, Underway, UpdateInv, KeyInv,
           NEW u \in Updaters, UpdaterNext(u), UNCHANGED bookerVars
    PROVE  KeyInv'
<1>1. \A a \in Bookers : Committed(a)' <=> Committed(a)
    BY UpdaterKeepsRows
<1>2. \A k : KeyHolders(k)' = KeyHolders(k)
    BY <1>1 DEF KeyHolders
<1>3. \A a \in Bookers : HoldsKeyEntry(a)' <=> HoldsKeyEntry(a)
    BY DEF HoldsKeyEntry, bookerVars
<1> QED
    BY <1>1, <1>2, <1>3 DEF KeyInv, bookerVars

\* The clock touches no index.
LEMMA KeyClock ==
    ASSUME KeyInv, UNCHANGED <<status, row, confirmedAt, bookerVars, updaterVars>>
    PROVE  KeyInv'
BY DEF KeyInv, Committed, HoldsKeyEntry, KeyHolders, bookerVars

-----------------------------------------------------------------------------
(* Claims. *)

\* Nothing is stored, drafted or busy at first.
LEMMA ClaimInit == Init => ClaimInv
BY DEF Init, TablesInit, BookersInit, ClaimInv, Committed, InSnapshot, Drafting,
       HoldsKeyEntry

\* A step of b touches neither a stored booking nor another booker.
LEMMA BookerFrame ==
    ASSUME TypeOK, HandlerInv, NEW b \in Bookers, BookerNext(b)
    PROVE  /\ UNCHANGED <<now, confirmedAt>>
           /\ \A a \in Bookers : Committed(a) => status'[a] = status[a] /\ row'[a] = row[a]
           /\ \A a \in Bookers : a # b =>
                 /\ status'[a] = status[a] /\ row'[a] = row[a] /\ pc'[a] = pc[a]
                 /\ busy'[a] = busy[a] /\ result'[a] = result[a]
                 /\ missed[a] \subseteq missed'[a]
<1> DEFINE Frame ==
        /\ UNCHANGED <<now, confirmedAt>>
        /\ \A a \in Bookers : Committed(a) => status'[a] = status[a] /\ row'[a] = row[a]
        /\ \A a \in Bookers : a # b =>
              /\ status'[a] = status[a] /\ row'[a] = row[a] /\ pc'[a] = pc[a]
              /\ busy'[a] = busy[a] /\ result'[a] = result[a]
              /\ missed[a] \subseteq missed'[a]
<1> SUFFICES Frame
    OBVIOUS
<1> USE DEF TypeOK, TablesTypeOK, BookersTypeOK, HandlerInv, Committed, Goto, Reply,
        tableVars
<1>1. CASE Arrive(b)
    BY <1>1 DEF Arrive, ReplyNoTx
<1>2. CASE Lookup(b)
    BY <1>2 DEF Lookup, ReplyNoTx
<1>3. CASE Prepare(b)
    BY <1>3 DEF Prepare, ReplyNoTx, Preparation
<1>4. CASE Begin(b)
    BY <1>4 DEF Begin
<1>5. CASE TakeSnapshot(b)
    BY <1>5 DEF TakeSnapshot
<1>6. CASE Create(b)
    BY <1>6 DEF Create, Rollback, CloseTx
<1>7. CASE Insert(b)
    BY <1>7 DEF Insert, Rollback, CloseTx
<1>8. CASE Backstop(b)
    BY <1>8 DEF Backstop, ReplyNoTx
<1>9. ASSUME NEW slug \in {"ok", "error"}, Commit(b, slug)
      PROVE  Frame
    BY <1>9 DEF Commit, CloseTx
<1>10. CASE CommitReplay(b)
    BY <1>10 DEF CommitReplay, CloseTx
<1>11. CASE SerializationFailure(b)
    BY <1>11 DEF SerializationFailure, Rollback, CloseTx, InSnapshot
<1>12. CASE Abandon(b)
    BY <1>12 DEF Abandon, Rollback, CloseTx
<1> QED
    BY <1>1, <1>2, <1>3, <1>4, <1>5, <1>6, <1>7, <1>8, <1>9,
       <1>10, <1>11, <1>12 DEF BookerNext, BookerStep

\* A step that leaves the tables alone and gives b no snapshot.
LEMMA Quiet ==
    ASSUME TypeOK, ClaimInv, NEW b \in Bookers,
           UNCHANGED <<now, status, confirmedAt>>,
           \A a \in Bookers : Committed(a) => row'[a] = row[a],
           \A a \in Bookers : a # b =>
               /\ row'[a] = row[a] /\ pc'[a] = pc[a] /\ busy'[a] = busy[a]
               /\ result'[a] = result[a] /\ missed[a] \subseteq missed'[a],
           busy'[b] \subseteq busy[b],
           ~Drafting(b)', pc'[b] # "create"
    PROVE  ClaimInv'
<1>1. \A a \in Bookers : Committed(a)' <=> Committed(a)
    BY DEF Committed
<1>2. \A a \in Bookers : Committed(a) => (Harmless(a)' <=> Harmless(a))
    BY DEF Harmless, ConfirmedLate
<1>3. \A a \in Bookers : a # b => (Drafting(a)' <=> Drafting(a))
    BY DEF Drafting, HoldsKeyEntry
<1>4. \A a, c \in Bookers : row'[a] = row[a] /\ row'[c] = row[c] =>
          (SharesResource(a, c)' <=> SharesResource(a, c))
    BY DEF SharesResource
<1>5. \A a \in Bookers : busy[a] \subseteq Bookers /\ busy'[a] \subseteq busy[a]
    BY DEF TypeOK, BookersTypeOK
<1>6. \A c \in Bookers : \A a \in busy'[c] : Committed(a)'
    BY <1>1, <1>5 DEF ClaimInv
<1>7. \A c \in Bookers : (pc'[c] = "create" \/ Drafting(c)') =>
          \A a \in Bookers : Committed(a)' /\ Overlaps(a, c) =>
              a \in missed'[c] \/ a \in busy'[c] \/ Harmless(a)'
    BY <1>1, <1>2, <1>3 DEF ClaimInv
<1>8. \A c \in Bookers : Drafting(c)' => \A a \in busy'[c] : ~SharesResource(a, c)'
    BY <1>3, <1>4, <1>5 DEF ClaimInv
<1>9. \A a, c \in Bookers : Committed(a)' /\ Committed(c)' /\ Conflict(a, c)' =>
          Harmless(a)' \/ Harmless(c)'
    BY <1>1, <1>2, <1>4 DEF ClaimInv, Conflict
<1> QED
    BY <1>6, <1>7, <1>8, <1>9 DEF ClaimInv, Overlaps, StartOf, EndOf

\* The snapshot: what overlaps and is not among the busy rows is harmless.
LEMMA ClaimSnapshot ==
    ASSUME TypeOK, HandlerInv, ClaimInv, NEW b \in Bookers, TakeSnapshot(b)
    PROVE  ClaimInv'
<1>1. CASE pc'[b] = "create"
    <2>1. /\ UNCHANGED <<now, status, row, confirmedAt, missed, result>>
          /\ pc' = [pc EXCEPT ![b] = "create"]
          /\ busy' = [busy EXCEPT ![b] = BusyRows(b, txNow[b])]
        BY <1>1 DEF TakeSnapshot, Goto, tableVars, TypeOK, BookersTypeOK
    <2>2. \A a \in Bookers : Committed(a) /\ Overlaps(a, b) =>
              a \in BusyRows(b, txNow[b]) \/ Harmless(a)
        BY DEF BusyRows, Committed, Harmless, HandlerInv, TypeOK, TablesTypeOK, BookersTypeOK,
               Status, Row
    <2>3. \A a \in BusyRows(b, txNow[b]) : Committed(a)
        BY DEF BusyRows
    <2>4. \A a \in Bookers : Committed(a)' <=> Committed(a)
        BY <2>1 DEF Committed
    <2>5. \A a \in Bookers : Harmless(a)' <=> Harmless(a)
        BY <2>1 DEF Harmless, ConfirmedLate
    <2>6. \A a, c : SharesResource(a, c)' <=> SharesResource(a, c)
        BY <2>1 DEF SharesResource
    <2>7. \A a \in Bookers : a # b => pc'[a] = pc[a] /\ busy'[a] = busy[a]
        BY <2>1 DEF TypeOK, BookersTypeOK
    <2>8. /\ busy'[b] = BusyRows(b, txNow[b])
          /\ \A a \in Bookers : busy[a] \subseteq Bookers
        BY <2>1 DEF TypeOK, BookersTypeOK
    <2>9. \A a \in Bookers : Drafting(a)' => a # b /\ Drafting(a)
        BY <1>1, <2>1, <2>7 DEF Drafting, HoldsKeyEntry
    <2>10. \A c \in Bookers : \A a \in busy'[c] : Committed(a)'
        <3> SUFFICES ASSUME NEW c \in Bookers, NEW a \in busy'[c]
                     PROVE  Committed(a)'
            OBVIOUS
        <3>1. CASE c = b
            BY <2>3, <2>4, <2>8, <3>1 DEF BusyRows
        <3>2. CASE c # b
            BY <2>4, <2>7, <2>8, <3>2 DEF ClaimInv
        <3> QED
            BY <3>1, <3>2
    <2>11. \A c \in Bookers : (pc'[c] = "create" \/ Drafting(c)') =>
               \A a \in Bookers : Committed(a)' /\ Overlaps(a, c) =>
                   a \in missed'[c] \/ a \in busy'[c] \/ Harmless(a)'
        <3> SUFFICES ASSUME NEW c \in Bookers, pc'[c] = "create" \/ Drafting(c)',
                            NEW a \in Bookers, Committed(a)', Overlaps(a, c)
                     PROVE  a \in missed'[c] \/ a \in busy'[c] \/ Harmless(a)'
            OBVIOUS
        <3>1. CASE c = b
            BY <2>2, <2>4, <2>5, <2>8, <3>1
        <3>2. CASE c # b
            BY <2>1, <2>4, <2>5, <2>7, <2>9, <3>2 DEF ClaimInv
        <3> QED
            BY <3>1, <3>2
    <2>12. \A c \in Bookers : Drafting(c)' => \A a \in busy'[c] : ~SharesResource(a, c)'
        BY <2>6, <2>7, <2>9 DEF ClaimInv
    <2>13. \A a, c \in Bookers : Committed(a)' /\ Committed(c)' /\ Conflict(a, c)' =>
               Harmless(a)' \/ Harmless(c)'
        <3>1. \A a, c \in Bookers : Conflict(a, c)' <=> Conflict(a, c)
            BY <2>6 DEF Conflict
        <3> QED
            BY <2>4, <2>5, <3>1 DEF ClaimInv
    <2> QED
        BY <2>10, <2>11, <2>12, <2>13 DEF ClaimInv, Overlaps, StartOf, EndOf
<1>2. CASE pc'[b] # "create"
    <2>1. PICK a \in KeyHolders(Request[b].key) :
              /\ Goto(b, "commit")
              /\ result' = [result EXCEPT ![b] = a]
              /\ UNCHANGED <<tableVars, busy, missed>>
        BY <1>2 DEF TakeSnapshot, Goto, TypeOK, BookersTypeOK
    <2>2. a # b /\ a \in Bookers
        BY DEF KeyHolders, Committed, HandlerInv, TakeSnapshot
    <2>3. ~Drafting(b)'
        BY <2>1, <2>2 DEF Drafting, HoldsKeyEntry, Goto, TypeOK, BookersTypeOK
    <2> QED
        BY <1>2, <2>1, <2>3, Quiet DEF Goto, tableVars, TypeOK, BookersTypeOK
<1> QED
    BY <1>1, <1>2

\* createFn: the pick shares nothing with the busy rows.
LEMMA ClaimCreate ==
    ASSUME TypeOK, HandlerInv, ClaimInv, NEW b \in Bookers, Create(b), UNCHANGED updaterVars
    PROVE  ClaimInv'
<1> DEFINE T == BestTechnicians(b, BusyTechnicians(busy[b]))
           Y == FirstServiceBay(b, BusyBays(busy[b]))
<1>f. BookerNext(b)
    BY DEF BookerNext, BookerStep
<1>0. /\ pc[b] = "create" /\ status[b] = "absent"
      /\ \A a \in Bookers : Committed(a) => a # b
    BY DEF Create, HandlerInv, Committed
<1>1. CASE pc'[b] = "insert"
    <2>1. PICK t \in T, y \in Y :
              row' = [row EXCEPT ![b] =
                  [technician |-> t, bay |-> y,
                   expiredAt |-> AppNow(b) + ReservationTTL]]
        BY <1>1 DEF Create, Reply, Goto, TypeOK, BookersTypeOK
    <2>2. t \notin BusyTechnicians(busy[b]) /\ y \notin BusyBays(busy[b])
        BY <2>1, ChosenTechnician, ChosenBay
    <2>3. row'[b].technician = t /\ row'[b].bay = y
        BY <2>1 DEF TypeOK, TablesTypeOK
    <2> HIDE DEF T, Y
    <2>4. /\ UNCHANGED <<now, status, confirmedAt, missed, busy, result>>
          /\ pc' = [pc EXCEPT ![b] = "insert"]
          /\ \A a \in Bookers : a # b => row'[a] = row[a] /\ pc'[a] = pc[a]
        BY <1>1, <2>1 DEF Create, Goto, Reply, TypeOK, TablesTypeOK, BookersTypeOK
    <2>5. \A a \in busy[b] : a \in Bookers /\ a # b /\ row'[a] = row[a]
        BY <1>0, <2>4 DEF ClaimInv, TypeOK, BookersTypeOK
    <2>6. \A a \in busy[b] : ~SharesResource(a, b)'
        BY <2>2, <2>3, <2>5 DEF SharesResource, BusyTechnicians, BusyBays
    <2>7. \A a \in Bookers : Committed(a)' <=> Committed(a)
        BY <2>4 DEF Committed
    <2>8. \A a \in Bookers : Committed(a) => (Harmless(a)' <=> Harmless(a))
        BY <1>0, <2>4 DEF Harmless, ConfirmedLate
    <2>9. \A a \in Bookers : a # b => (Drafting(a)' <=> Drafting(a))
        BY <2>4 DEF Drafting, HoldsKeyEntry
    <2>10. \A a, c \in Bookers : a # b /\ c # b =>
               (SharesResource(a, c)' <=> SharesResource(a, c))
        BY <2>4 DEF SharesResource
    <2>11. \A c \in Bookers : (pc'[c] = "create" \/ Drafting(c)') =>
               \A a \in Bookers : Committed(a)' /\ Overlaps(a, c) =>
                   a \in missed'[c] \/ a \in busy'[c] \/ Harmless(a)'
        BY <1>0, <2>4, <2>7, <2>8, <2>9 DEF ClaimInv
    <2>12. \A c \in Bookers : Drafting(c)' => \A a \in busy'[c] : ~SharesResource(a, c)'
        <3> SUFFICES ASSUME NEW c \in Bookers, c # b, Drafting(c)', NEW a \in busy'[c]
                     PROVE  ~SharesResource(a, c)'
            BY <2>4, <2>6
        <3>1. a \in Bookers /\ a # b
            BY <1>0, <2>4 DEF ClaimInv, TypeOK, BookersTypeOK
        <3> QED
            BY <2>4, <2>9, <2>10, <3>1 DEF ClaimInv
    <2>13. \A a, c \in Bookers : Committed(a)' /\ Committed(c)' /\ Conflict(a, c)' =>
               Harmless(a)' \/ Harmless(c)'
        BY <1>0, <2>7, <2>8, <2>10 DEF ClaimInv, Conflict
    <2> QED
        BY <2>4, <2>7, <2>11, <2>12, <2>13 DEF ClaimInv, Overlaps, StartOf, EndOf, TypeOK, BookersTypeOK
<1>2. CASE pc'[b] # "insert"
    <2>1. pc'[b] = "done" /\ Rollback(b) /\ Reply(b, "no-availability", None)
        BY <1>2 DEF Create, Goto, Reply, TypeOK, BookersTypeOK
    <2> QED
        BY <1>f, <2>1, BookerFrame, Quiet
        DEF Rollback, CloseTx, Drafting, HoldsKeyEntry, TypeOK, BookersTypeOK
<1> QED
    BY <1>1, <1>2

\* The insert keeps the draft, or the violation of the unique index drops it.
LEMMA ClaimInsert ==
    ASSUME TypeOK, HandlerInv, ClaimInv, NEW b \in Bookers, Insert(b), UNCHANGED updaterVars
    PROVE  ClaimInv'
<1>f. BookerNext(b)
    BY DEF BookerNext, BookerStep
<1>1. CASE KeyTaken(b)
    <2>1. pc'[b] = "backstop" /\ Rollback(b) /\ UNCHANGED result
        BY <1>1 DEF Insert, Goto, KeyTaken, TypeOK, BookersTypeOK
    <2> QED
        BY <1>f, <2>1, BookerFrame, Quiet
        DEF Rollback, CloseTx, Drafting, HoldsKeyEntry, TypeOK, BookersTypeOK
<1>2. CASE ~KeyTaken(b)
    <2>1. /\ UNCHANGED <<tableVars, missed, busy>>
          /\ pc[b] = "insert"
          /\ \A c \in Bookers : c # b => pc'[c] = pc[c] /\ result'[c] = result[c]
        BY <1>2 DEF Insert, Goto, TypeOK, BookersTypeOK
    <2>2. \A c \in Bookers : (Drafting(c)' => Drafting(c)) /\ (pc'[c] = "create" => pc[c] = "create")
        BY <1>2, <2>1 DEF Insert, Drafting, HoldsKeyEntry, Goto, TypeOK, BookersTypeOK
    <2>3. /\ \A a \in Bookers : Committed(a)' <=> Committed(a)
          /\ \A a \in Bookers : Harmless(a)' <=> Harmless(a)
          /\ \A a, c : SharesResource(a, c)' <=> SharesResource(a, c)
          /\ \A a, c : Overlaps(a, c)' <=> Overlaps(a, c)
          /\ \A a, c : Conflict(a, c)' <=> Conflict(a, c)
        BY <2>1 DEF Committed, Harmless, ConfirmedLate, SharesResource, Overlaps, StartOf,
                    EndOf, Conflict, tableVars
    <2>4. \A c \in Bookers : busy[c] \subseteq Bookers
        BY DEF TypeOK, BookersTypeOK
    <2> QED
        BY <2>1, <2>2, <2>3, <2>4 DEF ClaimInv
<1> QED
    BY <1>1, <1>2

\* The commit: nothing that overlaps b was missed, so every stored booking that
\* overlaps it was busy in its snapshot, or is harmless; and every open snapshot
\* learns that it has missed b.
LEMMA ClaimCommit ==
    ASSUME TypeOK, HandlerInv, ClaimInv, NEW b \in Bookers, NEW slug, Commit(b, slug)
    PROVE  ClaimInv'
<1>1. /\ pc[b] = "commit" /\ result[b] = b /\ status[b] = "absent"
      /\ UNCHANGED <<now, row, confirmedAt>>
      /\ \A a \in Bookers : a # b => /\ status'[a] = status[a] /\ pc'[a] = pc[a]
                                    /\ busy'[a] = busy[a] /\ result'[a] = result[a]
      /\ status'[b] = "pending" /\ pc'[b] = "done" /\ busy'[b] = {}
    BY DEF Commit, CloseTx, Reply, Goto, HandlerInv, TypeOK, TablesTypeOK, BookersTypeOK
<1>2. \A c \in Bookers : c # b =>
          missed'[c] = IF InSnapshot(c) THEN missed[c] \cup {b} ELSE missed[c]
    BY DEF Commit
<1>3. \A a \in Bookers : Committed(a) => ~(a \in missed[b] /\ Overlaps(a, b))
    BY DEF Commit, ReadSkewed
<1>4. \A a \in Bookers : Committed(a)' <=> Committed(a) \/ a = b
    BY <1>1 DEF Committed
<1>5. \A a \in Bookers : a # b => (Harmless(a)' <=> Harmless(a))
    BY <1>1 DEF Harmless, ConfirmedLate
<1>6. \A a, c : SharesResource(a, c)' <=> SharesResource(a, c)
    BY <1>1 DEF SharesResource
<1>7. \A a \in Bookers : Drafting(a)' => a # b /\ Drafting(a)
    BY <1>1 DEF Drafting, HoldsKeyEntry
<1>8. \A a \in Bookers : busy[a] \subseteq Bookers
    BY DEF TypeOK, BookersTypeOK
<1>9. \A c \in Bookers : \A a \in busy'[c] : Committed(a)'
    BY <1>1, <1>4, <1>8 DEF ClaimInv
<1>10. \A c \in Bookers : (pc'[c] = "create" \/ Drafting(c)') =>
           \A a \in Bookers : Committed(a)' /\ Overlaps(a, c) =>
               a \in missed'[c] \/ a \in busy'[c] \/ Harmless(a)'
    <2> SUFFICES ASSUME NEW c \in Bookers, pc'[c] = "create" \/ Drafting(c)',
                        NEW a \in Bookers, Committed(a)', Overlaps(a, c)
                 PROVE  a \in missed'[c] \/ a \in busy'[c] \/ Harmless(a)'
        OBVIOUS
    <2>1. c # b /\ (pc[c] = "create" \/ Drafting(c))
        BY <1>1, <1>7
    <2>2. InSnapshot(c)
        BY <2>1 DEF InSnapshot, Drafting, HoldsKeyEntry
    <2>3. CASE a = b
        BY <1>2, <2>1, <2>2, <2>3
    <2>4. CASE a # b
        BY <1>1, <1>2, <1>4, <1>5, <2>1, <2>2, <2>4 DEF ClaimInv
    <2> QED
        BY <2>3, <2>4
<1>11. \A c \in Bookers : Drafting(c)' => \A a \in busy'[c] : ~SharesResource(a, c)'
    BY <1>1, <1>6, <1>7 DEF ClaimInv
<1>12. \A a \in Bookers : Committed(a) /\ Conflict(a, b) => Harmless(a)
    <2>1. Drafting(b)
        BY <1>1 DEF Drafting, HoldsKeyEntry
    <2> QED
        BY <1>3, <2>1 DEF ClaimInv, Conflict
<1>13. \A a, c \in Bookers : Committed(a)' /\ Committed(c)' /\ Conflict(a, c)' =>
           Harmless(a)' \/ Harmless(c)'
    <2> SUFFICES ASSUME NEW a \in Bookers, NEW c \in Bookers,
                        Committed(a)', Committed(c)', Conflict(a, c)'
                 PROVE  Harmless(a)' \/ Harmless(c)'
        OBVIOUS
    <2>1. Conflict(a, c) /\ Conflict(c, a)
        BY <1>6, OverlapsSymmetric DEF Conflict, SharesResource
    <2>2. CASE a = b
        BY <1>4, <1>5, <1>12, <2>1, <2>2 DEF Conflict
    <2>3. CASE c = b
        BY <1>4, <1>5, <1>12, <2>1, <2>3 DEF Conflict
    <2>4. CASE a # b /\ c # b
        BY <1>4, <1>5, <2>1, <2>4 DEF ClaimInv
    <2> QED
        BY <2>2, <2>3, <2>4
<1> QED
    BY <1>9, <1>10, <1>11, <1>13 DEF ClaimInv, Overlaps, StartOf, EndOf

\* A step of a booker keeps the claims apart, by the lemmas above.
LEMMA ClaimBooker ==
    ASSUME TypeOK, HandlerInv, ClaimInv,
           NEW b \in Bookers, BookerNext(b), UNCHANGED updaterVars
    PROVE  ClaimInv'
<1> USE BookerFrame, Quiet
    DEF Goto, Reply, tableVars, TypeOK, BookersTypeOK, Drafting, HoldsKeyEntry
<1>1. CASE Arrive(b)
    BY <1>1 DEF Arrive, ReplyNoTx
<1>2. CASE Lookup(b)
    BY <1>2 DEF Lookup, ReplyNoTx
<1>3. CASE Prepare(b)
    BY <1>3 DEF Prepare, ReplyNoTx, Preparation
<1>4. CASE Begin(b)
    BY <1>4 DEF Begin
<1>5. CASE TakeSnapshot(b)
    BY <1>5, ClaimSnapshot
<1>6. CASE Create(b)
    BY <1>6, ClaimCreate
<1>7. CASE Insert(b)
    BY <1>7, ClaimInsert
<1>8. CASE Backstop(b)
    BY <1>8 DEF Backstop, ReplyNoTx
<1>9. ASSUME NEW slug \in {"ok", "error"}, Commit(b, slug)
      PROVE  ClaimInv'
    BY <1>9, ClaimCommit
<1>10. CASE CommitReplay(b)
    BY <1>10 DEF CommitReplay, CloseTx
<1>11. CASE SerializationFailure(b)
    BY <1>11 DEF SerializationFailure, Rollback, CloseTx, InSnapshot
<1>12. CASE Abandon(b)
    BY <1>12 DEF Abandon, Rollback, CloseTx
<1> QED
    BY <1>1, <1>2, <1>3, <1>4, <1>5, <1>6, <1>7, <1>8, <1>9,
       <1>10, <1>11, <1>12 DEF BookerNext, BookerStep

\* A confirmation of a hold that is over is late, so it leaves what was harmless
\* harmless; a cancellation makes its appointment harmless.
LEMMA ClaimUpdater ==
    ASSUME TypeOK, Underway, UpdateInv, ClaimInv,
           NEW u \in Updaters, UpdaterNext(u), UNCHANGED bookerVars
    PROVE  ClaimInv'
<1>1. /\ UNCHANGED <<now, row>>
      /\ \A a \in Bookers : Committed(a)' <=> Committed(a)
    BY UpdaterKeepsRows
<1>2. \A a \in Bookers : Harmless(a) => Harmless(a)'
    <2>1. ASSUME NEW slug \in {"ok", "error"}, UCommit(u, slug), NEW a \in Bookers, Harmless(a)
          PROVE  Harmless(a)'
        <3>1. CASE a # target[u]
            BY <1>1, <2>1, <3>1 DEF UCommit, Harmless, ConfirmedLate, TypeOK, TablesTypeOK
        <3>2. CASE a = target[u] /\ u \in Confirmers
            <4>1. status[a] = "pending" /\ row[a].expiredAt =< now
                BY <2>1, <3>2 DEF UCommit, UpdateInv, Harmless, ConfirmedLate
            <4>2. status'[a] = "confirmed" /\ confirmedAt'[a] = now
                BY <2>1, <3>2 DEF UCommit, NewStatus, TypeOK, TablesTypeOK
            <4> QED
                BY <1>1, <4>1, <4>2 DEF Harmless, ConfirmedLate, TypeOK, TablesTypeOK, Row
        <3>3. CASE a = target[u] /\ u \notin Confirmers
            BY <2>1, <3>3 DEF UCommit, NewStatus, Harmless, TypeOK, TablesTypeOK
        <3> QED
            BY <3>1, <3>2, <3>3
    <2>2. CASE UNCHANGED tableVars
        BY <2>2 DEF tableVars, Harmless, ConfirmedLate
    <2> QED
        BY <2>1, <2>2 DEF UpdaterNext, UpdaterStep, UArrive, Read, Check, Update, UAbandon
<1>3. \A a, c : SharesResource(a, c)' <=> SharesResource(a, c)
    BY <1>1 DEF SharesResource
<1>4. \A a, c : Conflict(a, c)' <=> Conflict(a, c)
    BY <1>3 DEF Conflict, Overlaps, StartOf, EndOf
<1>5. \A a \in Bookers : Drafting(a)' <=> Drafting(a)
    BY DEF Drafting, HoldsKeyEntry, bookerVars
<1>6. \A a \in Bookers : busy[a] \subseteq Bookers
    BY DEF TypeOK, BookersTypeOK
<1> QED
    BY <1>1, <1>2, <1>3, <1>4, <1>5, <1>6
    DEF ClaimInv, bookerVars, Overlaps, StartOf, EndOf

\* Time makes holds run out: what was harmless stays harmless.
LEMMA ClaimClock ==
    ASSUME TypeOK, ClaimInv, Tick \/ UNCHANGED now,
           UNCHANGED <<status, row, confirmedAt, bookerVars, updaterVars>>
    PROVE  ClaimInv'
<1>1. \A a \in Bookers : Harmless(a) => Harmless(a)'
    BY DEF Harmless, ConfirmedLate, Tick, TypeOK, TablesTypeOK, Row
<1>2. /\ \A a : Committed(a)' <=> Committed(a)
      /\ \A a, c : SharesResource(a, c)' <=> SharesResource(a, c)
      /\ \A a : Drafting(a)' <=> Drafting(a)
    BY DEF Committed, SharesResource, Drafting, HoldsKeyEntry, bookerVars
<1> QED
    BY <1>1, <1>2 DEF ClaimInv, Conflict, Overlaps, StartOf, EndOf, bookerVars

-----------------------------------------------------------------------------
(* The inductive invariant and what follows from it. *)

\* The initial state satisfies the invariant.
LEMMA InvInit == Init => IInv
BY TypeInit, HandlerInit, UpdateInit, KeyInit, ClaimInit DEF IInv

\* Every step keeps the invariant.
LEMMA InvStep == IInv /\ [Next]_vars => IInv'
<1> SUFFICES ASSUME IInv, [Next]_vars
             PROVE  IInv'
    OBVIOUS
<1> USE DEF IInv
<1>1. ASSUME NEW b \in Bookers, BookerNext(b), UNCHANGED updaterVars
      PROVE  IInv'
    BY <1>1, TypeBooker, HandlerBooker, UpdateBooker, KeyBooker, ClaimBooker
<1>2. ASSUME NEW u \in Updaters, UpdaterNext(u), UNCHANGED bookerVars
      PROVE  IInv'
    BY <1>2, TypeUpdater, HandlerUpdater, UpdateUpdater, KeyUpdater, ClaimUpdater
<1>3. CASE /\ Tick \/ UNCHANGED now
           /\ UNCHANGED <<status, row, confirmedAt, bookerVars, updaterVars>>
    BY <1>3, TypeClock, HandlerClock, UpdateClock, KeyClock, ClaimClock
<1> QED
    BY <1>1, <1>2, <1>3 DEF Next, AllAnswered, vars, tableVars

\* The strengthening of every safety property below holds in every behaviour:
\* types, row lock, unique index and claims together, since each part uses others.
THEOREM Invariance == Spec => []IInv
BY InvInit, InvStep, PTL DEF Spec

\* No double booking but by a late confirmation: of two customers who hold or own
\* the same technician or bay for overlapping windows, one was confirmed after
\* its hold had run out.  It needs SERIALIZABLE for bookings and the version
\* check for updates; it needs nothing of the hosts' clocks.
THEOREM NoConflictInTime == Spec => []ConflictOnlyIfConfirmedLate
<1>1. IInv => ConflictOnlyIfConfirmedLate
    <2> SUFFICES ASSUME IInv, NEW a \in Bookers, NEW b \in Bookers,
                        Claims(a), Claims(b), Conflict(a, b)
                 PROVE  ConfirmedLate(a) \/ ConfirmedLate(b)
        BY DEF ConflictOnlyIfConfirmedLate
    <2>1. Harmless(a) \/ Harmless(b)
        BY DEF IInv, ClaimInv, Claims, Committed
    <2>2. \A c \in Bookers : Claims(c) /\ Harmless(c) => ConfirmedLate(c)
        BY DEF Claims, Harmless, IInv, TypeOK, TablesTypeOK, Row
    <2> QED
        BY <2>1, <2>2
<1> QED
    BY <1>1, Invariance, PTL

\* Every successful answer for one key names the same stored reservation.
THEOREM Idempotent == Spec => []RepliesNameOneReservation
<1>1. IInv => RepliesNameOneReservation
    BY DEF IInv, KeyInv, KeyHolders, RepliesNameOneReservation, TypeOK, BookersTypeOK
<1> QED
    BY <1>1, Invariance, PTL

\* The read of the backstop always finds the reservation that won.
THEOREM BackstopSound == Spec => []BackstopFindsTheWinner
<1>1. IInv => BackstopFindsTheWinner
    BY DEF IInv, KeyInv, BackstopFindsTheWinner
<1> QED
    BY <1>1, Invariance, PTL

\* An appointment goes from absent to pending to confirmed to cancelled, one
\* status at a time, whichever confirms and cancels race.
THEOREM StatusAdvances == Spec => StatusOnlyAdvances
<1>1. ASSUME IInv, [Next]_vars, NEW a \in Bookers
      PROVE  Rank(status'[a]) \in {Rank(status[a]), Rank(status[a]) + 1}
    <2> USE DEF Rank
    <2>0. status[a] \in Status
        BY <1>1 DEF IInv, TypeOK, TablesTypeOK
    <2>1. ASSUME NEW b \in Bookers, NEW slug, Commit(b, slug)
          PROVE  Rank(status'[a]) \in {Rank(status[a]), Rank(status[a]) + 1}
        BY <1>1, <2>0, <2>1 DEF Commit, IInv, HandlerInv, TypeOK, TablesTypeOK, Status
    <2>2. ASSUME NEW u \in Updaters, NEW slug, UCommit(u, slug)
          PROVE  Rank(status'[a]) \in {Rank(status[a]), Rank(status[a]) + 1}
        BY <1>1, <2>0, <2>2
        DEF UCommit, NewStatus, IInv, UpdateInv, TypeOK, TablesTypeOK, Status
    <2>3. CASE UNCHANGED status
        BY <2>0, <2>3 DEF Status
    <2> QED
        BY <1>1, <2>1, <2>2, <2>3
        DEF Next, AllAnswered, vars, tableVars, BookerNext, BookerStep, Arrive, Lookup,
            Prepare, Begin, TakeSnapshot, Create, Insert, Backstop, CommitReplay,
            SerializationFailure, Abandon, ReplyNoTx, Rollback, UpdaterNext,
            UpdaterStep, UArrive, Read, Check, Update, UAbandon
<1>2. IInv /\ [Next]_vars =>
          [\A b \in Bookers : Rank(status'[b]) \in {Rank(status[b]), Rank(status[b]) + 1}]_vars
    BY <1>1
<1> QED
    BY <1>2, Invariance, PTL DEF Spec, StatusOnlyAdvances

-----------------------------------------------------------------------------
(* Confirm and cancel: what their answers say and how often they try. *)

\* A step of a booker keeps the status of every appointment an updater knows.
LEMMA BookerKeepsStatus ==
    ASSUME IInv, NEW b \in Bookers, BookerNext(b)
    PROVE  \A a \in Bookers : status[a] # "absent" => status'[a] = status[a]
BY BookerFrame DEF IInv, Committed

\* A step keeps what the successful answers say.
LEMMA AnswerStep ==
    ASSUME IInv, AnswerInv, [Next]_vars
    PROVE  AnswerInv'
<1> USE DEF IInv
<1>0. \A u \in Updaters : uoutcome[u] = "ok" => upc[u] = "done" /\ target[u] \in Bookers
    BY DEF HandlerInv, Underway
<1>1. ASSUME NEW b \in Bookers, BookerNext(b), UNCHANGED updaterVars
      PROVE  AnswerInv'
    BY <1>0, <1>1, BookerKeepsStatus DEF AnswerInv, MovedOn, NewStatus, updaterVars
<1>2. ASSUME NEW u \in Updaters, NEW slug \in {"ok", "error"}, UCommit(u, slug)
      PROVE  AnswerInv'
    <2>1. /\ target' = target /\ target[u] \in Bookers
          /\ status'[target[u]] = NewStatus(u)
          /\ \A a \in Bookers : a # target[u] => status'[a] = status[a]
          /\ \A v \in Updaters : v # u => uoutcome'[v] = uoutcome[v]
        BY <1>2 DEF UCommit, UReply, TypeOK, TablesTypeOK, UpdatersTypeOK, Underway
    <2>2. status[target[u]] = IF u \in Confirmers THEN "pending" ELSE "confirmed"
        BY <1>2 DEF UCommit, UpdateInv
    <2>3. \A v \in Updaters : v # u /\ uoutcome[v] = "ok" /\ target[v] = target[u] =>
              v \in Confirmers /\ u \notin Confirmers
        BY <2>2 DEF AnswerInv, MovedOn
    <2>4. \A v \in Updaters : uoutcome'[v] = "ok" =>
              status'[target[v]] # "absent" /\ MovedOn(v, status'[target[v]])
        <3> SUFFICES ASSUME NEW v \in Updaters, uoutcome'[v] = "ok"
                     PROVE  status'[target[v]] # "absent" /\ MovedOn(v, status'[target[v]])
            OBVIOUS
        <3>1. CASE v = u
            BY <2>1, <3>1 DEF NewStatus, MovedOn
        <3>2. CASE v # u /\ target[v] = target[u]
            BY <2>1, <2>3, <3>2 DEF NewStatus, MovedOn
        <3>3. CASE v # u /\ target[v] # target[u]
            BY <1>0, <2>1, <3>3 DEF AnswerInv
        <3> QED
            BY <3>1, <3>2, <3>3
    <2> QED
        BY <2>1, <2>3, <2>4 DEF AnswerInv, NewStatus
<1>3. ASSUME NEW u \in Updaters, UNCHANGED <<status>>,
             UArrive(u) \/ Read(u) \/ Check(u) \/ Update(u) \/ UAbandon(u)
      PROVE  AnswerInv'
    <2>1. \A v \in Updaters : uoutcome'[v] = "ok" => uoutcome[v] = "ok" /\ target'[v] = target[v]
        BY <1>0, <1>3
        DEF UArrive, Read, Check, Update, UAbandon, URetry, UReply, Missing, DomainOutcome,
            ConfirmOutcome, CancelOutcome, TypeOK, UpdatersTypeOK
    <2> QED
        BY <1>3, <2>1 DEF AnswerInv, MovedOn, NewStatus
<1>4. CASE UNCHANGED <<status, updaterVars>>
    BY <1>4 DEF AnswerInv, MovedOn, NewStatus, updaterVars
<1> QED
    BY <1>1, <1>2, <1>3, <1>4
    DEF Next, AllAnswered, vars, tableVars, UpdaterNext, UpdaterStep, UArrive, Read, Check,
        Update, UAbandon

\* At most one confirm and one cancel of an appointment succeed, and what they
\* were told is so.
THEOREM AnswersAreTrue == Spec => []OneAnswerPerTransition
<1>1. Init => IInv /\ AnswerInv
    BY InvInit DEF Init, UpdatersInit, AnswerInv
<1>2. (IInv /\ AnswerInv) /\ [Next]_vars => (IInv /\ AnswerInv)'
    BY InvStep, AnswerStep
<1>3. IInv /\ AnswerInv => OneAnswerPerTransition
    BY ActorsAssumption DEF AnswerInv, MovedOn, OneAnswerPerTransition, NewStatus
<1> QED
    BY <1>1, <1>2, <1>3, PTL DEF Spec

\* A step keeps the count of attempts at two: the second attempt reads a status
\* that another update moved on, and Check ends it.
LEMMA TriesStep ==
    ASSUME MaxTries >= 2, IInv, TriesInv, [Next]_vars
    PROVE  TriesInv' /\ \A u \in Updaters :
               uoutcome'[u] = "could-not-serialize" => uoutcome[u] = "could-not-serialize"
<1> DEFINE Goal == TriesInv' /\ \A u \in Updaters :
               uoutcome'[u] = "could-not-serialize" => uoutcome[u] = "could-not-serialize"
<1> SUFFICES Goal
    OBVIOUS
<1> USE FactoryAssumption, ActorsAssumption
    DEF IInv, TypeOK, TablesTypeOK, UpdatersTypeOK, Underway
<1>0. \A u \in Updaters : upc[u] \in {"check", "update", "commit"} => status[target[u]] # "absent"
    BY DEF UpdateInv, Committed
<1>1. ASSUME NEW b \in Bookers, BookerNext(b), UNCHANGED updaterVars
      PROVE  Goal
    <2>1. \A a \in Bookers : status[a] # "absent" => status'[a] = status[a]
        BY <1>1, BookerKeepsStatus
    <2> QED
        BY <1>1, <2>1 DEF TriesInv, MovedOn, updaterVars
<1>2. ASSUME NEW u \in Updaters, NEW slug \in {"ok", "error"}, UCommit(u, slug)
      PROVE  Goal
    <2>1. /\ target' = target /\ utries' = utries /\ upc' = [upc EXCEPT ![u] = "done"]
          /\ target[u] \in Bookers
          /\ status'[target[u]] = NewStatus(u)
          /\ \A a \in Bookers : a # target[u] => status'[a] = status[a]
          /\ \A v \in Updaters : v # u => seen'[v] = seen[v] /\ uoutcome'[v] = uoutcome[v]
          /\ uoutcome'[u] # "could-not-serialize"
        BY <1>2 DEF UCommit, UReply, UGoto
    <2>2. status[target[u]] = IF u \in Confirmers THEN "pending" ELSE "confirmed"
        BY <1>2 DEF UCommit, UpdateInv
    <2>3. \A v \in Updaters : upc[v] # "idle" /\ MovedOn(v, status[target[v]]) =>
              MovedOn(v, status'[target[v]])
        BY <2>1, <2>2 DEF MovedOn, NewStatus
    <2>4. \A v \in Updaters : upc[v] \in {"check", "update", "commit"} /\ seen[v] = "confirmed" =>
              status'[target[v]] \in {"confirmed", "cancelled"}
        BY <2>1 DEF NewStatus, TriesInv
    <2> QED
        BY <2>1, <2>3, <2>4 DEF TriesInv
<1>3. ASSUME NEW u \in Updaters, UNCHANGED status, UArrive(u) \/ UAbandon(u)
      PROVE  Goal
    BY <1>3 DEF UArrive, UAbandon, UGoto, UReply, TriesInv
<1>4. ASSUME NEW u \in Updaters, Read(u)
      PROVE  Goal
    BY <1>4 DEF Read, Missing, UGoto, UReply, TriesInv, tableVars
<1>5. ASSUME NEW u \in Updaters, Check(u)
      PROVE  Goal
    <2>1. DomainOutcome(u) # "could-not-serialize"
        BY DEF DomainOutcome, ConfirmOutcome, CancelOutcome
    <2>2. DomainOutcome(u) = "ok" =>
              /\ ~MovedOn(u, seen[u])
              /\ u \in Cancellers => seen[u] = "confirmed"
        BY DEF DomainOutcome, ConfirmOutcome, CancelOutcome, MovedOn
    <2> QED
        BY <1>5, <2>1, <2>2 DEF Check, UGoto, UReply, TriesInv, tableVars
<1>6. ASSUME NEW u \in Updaters, Update(u)
      PROVE  Goal
    BY <1>0, <1>6
    DEF Update, URetry, RowUnchanged, ULastTry, UGoto, UReply, UpdateInv, TriesInv,
        MovedOn, Status, tableVars
<1>7. CASE UNCHANGED <<status, updaterVars>>
    BY <1>7 DEF TriesInv, updaterVars
<1> QED
    BY <1>1, <1>2, <1>3, <1>4, <1>5, <1>6, <1>7
    DEF Next, AllAnswered, vars, tableVars, UpdaterNext, UpdaterStep, UArrive, UAbandon

\* With two attempts or more no confirm and no cancel runs out of them: the one
\* that loses a race finds on its second attempt that there is nothing to do.
THEOREM TwoTriesAreEnough == Spec => []UpdatesNeedTwoTries
<1> DEFINE Tried == MaxTries >= 2 => TriesInv
<1>1. Init => IInv /\ Tried /\ UpdatesNeedTwoTries
    BY InvInit DEF Init, UpdatersInit, TriesInv, UpdatesNeedTwoTries
<1>2. ASSUME IInv, Tried, UpdatesNeedTwoTries, [Next]_vars
      PROVE  IInv' /\ Tried' /\ UpdatesNeedTwoTries'
    BY <1>2, InvStep, TriesStep DEF UpdatesNeedTwoTries
<1>3. (IInv /\ Tried /\ UpdatesNeedTwoTries) /\ [Next]_vars
          => (IInv /\ Tried /\ UpdatesNeedTwoTries)'
    BY <1>2
<1> QED
    BY <1>1, <1>3, PTL DEF Spec
=============================================================================
