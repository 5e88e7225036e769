------------------------- MODULE ReservationUpdates -------------------------
(***************************************************************************)
(* Confirm and cancel: AppointmentRepository.ConfirmAppointment and        *)
(* CancelAppointment, each one REPEATABLE READ transaction, retried by     *)
(* updateInTxWithIsolation.                                                *)
(*                                                                         *)
(* At this level PostgreSQL checks nothing that was read.  Only the UPDATE *)
(* is guarded: it waits while another transaction has updated the row and  *)
(* is open, and fails with "could not serialize access due to concurrent   *)
(* update" when the row has changed since the snapshot.  A status never    *)
(* takes a value it had before, so a changed row is a changed status.      *)
(***************************************************************************)
EXTENDS Tables

VARIABLES
    upc,                \* where each confirmer or canceller is
    target,             \* the booking its uuid names
    caller,             \* the user in X-User-Id
    seen,               \* the status its snapshot held
    utries,             \* attempts of updateInTxWithIsolation so far
    uoutcome            \* what the client was told

updaterVars == <<upc, target, caller, seen, utries, uoutcome>>

UpdaterPc == {"idle", "read", "check", "update", "commit", "done"}

UpdaterOutcome ==
    {"none", "ok", "error", "reservation-not-found", "appointment-not-found",
     "appointment-not-pending", "reservation-expired",
     "appointment-already-cancelled", "appointment-not-confirmed",
     "appointment-in-the-past", "could-not-serialize"}

UpdatersTypeOK ==
    /\ upc \in [Updaters -> UpdaterPc]
    /\ target \in [Updaters -> Bookers \cup {None}]
    /\ caller \in [Updaters -> Users \cup {None}]
    /\ seen \in [Updaters -> Status]
    /\ utries \in [Updaters -> 0..MaxTries]
    /\ uoutcome \in [Updaters -> UpdaterOutcome]

UpdatersInit ==
    /\ upc = [u \in Updaters |-> "idle"]
    /\ target = [u \in Updaters |-> None]
    /\ caller = [u \in Updaters |-> None]
    /\ seen = [u \in Updaters |-> "absent"]
    /\ utries = [u \in Updaters |-> 0]
    /\ uoutcome = [u \in Updaters |-> "none"]

\* u has updated the row of b and not committed.
LocksRow(u, b) == upc[u] = "commit" /\ target[u] = b

\* REPEATABLE READ lets an UPDATE touch only the row version it has read.
ReadCommitted(u) == TRUE
RowUnchanged(u) == status[target[u]] = seen[u]

\* Attempt utries[u] is the last one WithMaxTries allows.
ULastTry(u) == utries[u] >= MaxTries

NewStatus(u) == IF u \in Confirmers THEN "confirmed" ELSE "cancelled"

-----------------------------------------------------------------------------
UGoto(u, label) == upc' = [upc EXCEPT ![u] = label]

\* The handler answers; what its transaction wrote, if anything, is rolled back.
UReply(u, slug) ==
    /\ UGoto(u, "done")
    /\ uoutcome' = [uoutcome EXCEPT ![u] = slug]
    /\ seen' = [seen EXCEPT ![u] = "absent"]

\* A request arrives with some uuid and some user.
UArrive(u) ==
    /\ upc[u] = "idle"
    /\ \E b \in Bookers : target' = [target EXCEPT ![u] = b]
    /\ \E x \in Users : caller' = [caller EXCEPT ![u] = x]
    /\ UGoto(u, "read")
    /\ utries' = [utries EXCEPT ![u] = 1]
    /\ UNCHANGED <<tableVars, seen, uoutcome>>

\* Mutant: the appointment is looked up without its user.
MissingAnyUser(u) ==
    IF Committed(target[u]) THEN "nothing"
    ELSE IF u \in Confirmers THEN "reservation-not-found" ELSE "appointment-not-found"

\* The rows the transaction loads, all from the snapshot of its first SELECT.
\* A confirm looks the reservation up first, by its uuid alone.
Missing(u) ==
    CASE Committed(target[u]) /\ Request[target[u]].user = caller[u] -> "nothing"
      [] ~Committed(target[u]) /\ u \in Confirmers -> "reservation-not-found"
      [] OTHER -> "appointment-not-found"

Read(u) ==
    /\ upc[u] = "read"
    /\ \/ /\ Missing(u) = "nothing"
          /\ seen' = [seen EXCEPT ![u] = status[target[u]]]
          /\ UGoto(u, "check")
          /\ UNCHANGED uoutcome
       \/ /\ Missing(u) # "nothing"
          /\ UReply(u, Missing(u))
    /\ UNCHANGED <<tableVars, target, caller, utries>>

\* Appointment.Confirm or Appointment.Cancel, by the clock of the host.
DomainOutcome(u) ==
    IF u \in Confirmers
    THEN ConfirmOutcome(seen[u], row[target[u]].expiredAt, AppNow(u))
    ELSE CancelOutcome(seen[u], StartOf(target[u]), AppNow(u))

Check(u) ==
    /\ upc[u] = "check"
    /\ \/ /\ DomainOutcome(u) = "ok"
          /\ UGoto(u, "update")
          /\ UNCHANGED <<seen, uoutcome>>
       \/ /\ DomainOutcome(u) # "ok"
          /\ UReply(u, DomainOutcome(u))
    /\ UNCHANGED <<tableVars, target, caller, utries>>

\* Mutant: only the UPDATE is tried again, what it was based on is not.
URetryUpdate(u) ==
    \/ /\ ~ULastTry(u)
       /\ UGoto(u, "update")
       /\ utries' = [utries EXCEPT ![u] = @ + 1]
       /\ UNCHANGED <<seen, uoutcome>>
    \/ /\ ULastTry(u)
       /\ UReply(u, "could-not-serialize")
       /\ UNCHANGED utries

\* Mutant: the attempts are not counted and read nothing anew.
URetryForever(u) == UGoto(u, "check") /\ UNCHANGED <<seen, utries, uoutcome>>

\* A serialization failure of attempt utries[u].
URetry(u) ==
    \/ /\ ~ULastTry(u)
       /\ UGoto(u, "read")
       /\ utries' = [utries EXCEPT ![u] = @ + 1]
       /\ seen' = [seen EXCEPT ![u] = "absent"]
       /\ UNCHANGED uoutcome
    \/ /\ ULastTry(u)
       /\ UReply(u, "could-not-serialize")
       /\ UNCHANGED utries

\* UpdateAppointmentStatus
Update(u) ==
    /\ upc[u] = "update"
    /\ \A v \in Updaters \ {u} : ~LocksRow(v, target[u])
    /\ \/ /\ RowUnchanged(u)
          /\ UGoto(u, "commit")
          /\ UNCHANGED <<seen, utries, uoutcome>>
       \/ /\ ~RowUnchanged(u)
          /\ URetry(u)
    /\ UNCHANGED <<tableVars, target, caller>>

\* COMMIT; slug is "error" when the answer is lost.
UCommit(u, slug) ==
    /\ upc[u] = "commit"
    /\ status' = [status EXCEPT ![target[u]] = NewStatus(u)]
    /\ confirmedAt' = IF u \in Confirmers
                      THEN [confirmedAt EXCEPT ![target[u]] = now]
                      ELSE confirmedAt
    /\ UReply(u, slug)
    /\ UNCHANGED <<now, row, target, caller, utries>>

\* Timeout, lost connection or end of the process before the commit.
UAbandon(u) ==
    /\ upc[u] \notin {"idle", "done"}
    /\ UReply(u, "error")
    /\ UNCHANGED <<tableVars, target, caller, utries>>

UpdaterStep(u) ==
    \/ Read(u)
    \/ Check(u)
    \/ Update(u)
    \/ UCommit(u, "ok")

UpdaterNext(u) ==
    \/ UArrive(u)
    \/ UpdaterStep(u)
    \/ UCommit(u, "error")
    \/ UAbandon(u)
=============================================================================
