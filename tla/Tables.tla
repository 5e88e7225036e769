------------------------------- MODULE Tables -------------------------------
(***************************************************************************)
(* The schema "appointments" as the transactions see it: one appointment   *)
(* and one reservation row per booker that has committed, and the database *)
(* clock.                                                                  *)
(*                                                                         *)
(* row[b] holds the columns the properties tell apart.  A booker fills its *)
(* own row inside its transaction; nobody else can see it until the commit *)
(* turns status[b] from "absent" to "pending", so status is also what      *)
(* visibility means here.  No statement of the program deletes a row.      *)
(***************************************************************************)
EXTENDS Candidates

CONSTANTS
    None,               \* no value
    MaxTime             \* bound of the clock (model checking only)

ASSUME NoneAssumption ==
    /\ None \notin Bookers
    /\ None \notin TechnicianIds
    /\ None \notin BayIds
    /\ MaxTime \in Nat

VARIABLES
    now,                \* the database clock
    status,             \* appointment.status, "absent" before the commit
    row,                \* technician_id, service_bay_id, expired_at
    confirmedAt         \* history: when the confirmation was committed

tableVars == <<now, status, row, confirmedAt>>

Status == {"absent", "pending", "confirmed", "cancelled"}

Row == [technician : TechnicianIds \cup {None}, bay : BayIds \cup {None},
        expiredAt : Int]

NoRow == [technician |-> None, bay |-> None, expiredAt |-> 0]

TablesTypeOK ==
    /\ now \in Nat
    /\ status \in [Bookers -> Status]
    /\ row \in [Bookers -> Row]
    /\ confirmedAt \in [Bookers -> Nat]

TablesInit ==
    /\ now = 0
    /\ status = [b \in Bookers |-> "absent"]
    /\ row = [b \in Bookers |-> NoRow]
    /\ confirmedAt = [b \in Bookers |-> 0]

\* time.Now() on the host that runs handler h.
AppNow(h) == now + ClockSkew[h]

Tick == now < MaxTime /\ now' = now + 1

-----------------------------------------------------------------------------
(* The queries.  Each is evaluated in one snapshot of the tables. *)

Committed(b) == status[b] # "absent"

\* GetReservationByIdempotencyKey
KeyHolders(k) == {a \in Bookers : Committed(a) /\ Request[a].key = k}

\* Mutants: holds do not count; holds are compared with the host's clock.
BusyRowsConfirmedOnly(b, t) ==
    {a \in Bookers : Committed(a) /\ Overlaps(a, b) /\ status[a] = "confirmed"}
BusyRowsHostClock(b, t) ==
    {a \in Bookers :
        /\ Committed(a)
        /\ Overlaps(a, b)
        /\ \/ status[a] = "confirmed"
           \/ status[a] = "pending" /\ row[a].expiredAt > AppNow(b)}

\* GetBusyServiceBaysAndTechnicians, t being the now() of the transaction: the
\* rows it joins; the maps busy by bay and by technician are built from them.
BusyRows(b, t) ==
    {a \in Bookers :
        /\ Committed(a)
        /\ Overlaps(a, b)
        /\ \/ status[a] = "confirmed"
           \/ status[a] = "pending" /\ row[a].expiredAt > t}

BusyTechnicians(rows) == {row[a].technician : a \in rows}
BusyBays(rows)        == {row[a].bay : a \in rows}
=============================================================================
