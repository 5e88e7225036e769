-------------------------- MODULE LedgerRefinement --------------------------
(***************************************************************************)
(* AppointmentService implements BookingLedger.  The ledger is what is     *)
(* committed: a row in an open transaction is not in it yet, and a         *)
(* reservation that a handler has found or inserted is not yet an answer.  *)
(***************************************************************************)
EXTENDS ServiceInvariant

\* The rows as the ledger knows them, and the reservations already named.
Slots   == [b \in Bookers |-> IF Committed(b) THEN row[b] ELSE NoRow]
Answers == [b \in Bookers |-> IF pc[b] = "done" THEN result[b] ELSE None]

Ledger == INSTANCE BookingLedger WITH
    slot <- Slots, answer <- outcome, named <- Answers,
    asked <- target, askedBy <- caller, uanswer <- uoutcome

\* Every behaviour of the service is one of the ledger: bookings, confirmations
\* and cancellations take effect at once and at most once, for the right user, on
\* a slot that fits, and answers tell what the ledger holds.  The code makes each
\* of them of several statements in retried transactions.
LedgerSpec == Ledger!Spec

-----------------------------------------------------------------------------
(* What the refinement needs beyond IInv. *)

\* The requests that reach a transaction have passed the checks before it, and
\* what a transaction drafts is fit to be stored.
DraftInv ==
    /\ \A b \in Bookers :
          pc[b] \in {"begin", "snapshot", "create", "insert", "commit"} =>
              /\ VehicleValid(b)
              /\ Request[b].fieldsPresent
              /\ InCatalog(b)
    /\ \A b \in Bookers : Drafting(b) =>
          /\ \E i \in ListTechnicians(b) :
                Technicians[Request[b].dealer][i].id = row[b].technician
          /\ \E i \in ListServiceBays(b) :
                ServiceBays[Request[b].dealer][i].id = row[b].bay
          /\ row[b].expiredAt =< AppNow(b) + ReservationTTL

\* An updater that has read a row owns it, and one that is idle has no target.
OwnerInv ==
    \A u \in Updaters :
        /\ upc[u] \in {"check", "update", "commit"} =>
               Request[target[u]].user = caller[u]
        /\ upc[u] = "idle" => target[u] = None

LedgerInv == DraftInv /\ OwnerInv
=============================================================================
