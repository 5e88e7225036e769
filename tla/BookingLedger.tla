---------------------------- MODULE BookingLedger ----------------------------
(***************************************************************************)
(* What the appointments service promises, without transactions, retries   *)
(* or clocks of hosts: a ledger of slots in which a booking, a             *)
(* confirmation and a cancellation each take effect in one indivisible     *)
(* step between the request and its answer, at most once, or not at all.   *)
(* An answer may be lost, but never given for something that is not so.    *)
(***************************************************************************)
EXTENDS Candidates

CONSTANT None

VARIABLES
    now,                \* the clock of the ledger
    status,             \* of the appointment each booker may come to own
    slot,               \* its technician, its bay and the end of its hold
    confirmedAt,        \* when it was confirmed
    answer,             \* what each booker was told
    named,              \* the reservation its answer names
    asked,              \* updater -> the appointment it asks for
    askedBy,            \* and in whose name
    uanswer             \* what each updater was told

vars == <<now, status, slot, confirmedAt, answer, named, asked, askedBy, uanswer>>

NoSlot == [technician |-> None, bay |-> None, expiredAt |-> 0]

Init ==
    /\ now = 0
    /\ status = [b \in Bookers |-> "absent"]
    /\ slot = [b \in Bookers |-> NoSlot]
    /\ confirmedAt = [b \in Bookers |-> 0]
    /\ answer = [b \in Bookers |-> "none"]
    /\ named = [b \in Bookers |-> None]
    /\ asked = [u \in Updaters |-> None]
    /\ askedBy = [u \in Updaters |-> None]
    /\ uanswer = [u \in Updaters |-> "none"]

-----------------------------------------------------------------------------
Stored(b) == status[b] # "absent"

\* Nothing stands against taking a slot that overlaps a's: it is cancelled, its
\* hold is over, or it was confirmed after its hold was over.
GivesWay(a) ==
    \/ status[a] = "cancelled"
    \/ status[a] = "pending" /\ slot[a].expiredAt =< now
    \/ status[a] = "confirmed" /\ confirmedAt[a] >= slot[a].expiredAt

WellFormed(b) ==
    /\ Request[b].vehicleValid
    /\ Request[b].fieldsPresent
    /\ Request[b].service \in Offered

\* s is a slot that b may take: a technician who is certified and on duty, a bay
\* that is open, neither of them claimed, and for no longer than the TTL.
FitFor(b, s) ==
    /\ s.expiredAt \in Int
    /\ \E i \in ListTechnicians(b) :
          Technicians[Request[b].dealer][i].id = s.technician
    /\ \E i \in ListServiceBays(b) :
          ServiceBays[Request[b].dealer][i].id = s.bay
    /\ s.expiredAt =< now + ClockSkew[b] + ReservationTTL
    /\ \A a \in Bookers : Stored(a) /\ Overlaps(a, b) =>
          \/ slot[a].technician # s.technician /\ slot[a].bay # s.bay
          \/ GivesWay(a)

Answer(b, slug, reservation) ==
    /\ answer[b] = "none"
    /\ answer' = [answer EXCEPT ![b] = slug]
    /\ named' = [named EXCEPT ![b] = reservation]

\* A booking takes effect: its key is new and the slot fits.
Reserve(b) ==
    /\ status[b] = "absent"
    /\ WellFormed(b)
    /\ \A a \in Bookers : Stored(a) => Request[a].key # Request[b].key
    /\ FitFor(b, slot'[b])
    /\ slot' = [slot EXCEPT ![b] = slot'[b]]
    /\ status' = [status EXCEPT ![b] = "pending"]
    /\ \E slug \in {"ok", "error"} : Answer(b, slug, b)
    /\ UNCHANGED <<now, confirmedAt, asked, askedBy, uanswer>>

\* A booking whose key is stored is told the reservation of that key.
Replay(b) ==
    /\ \E a \in Bookers :
          /\ Stored(a)
          /\ Request[a].key = Request[b].key
          /\ Answer(b, "ok", a)
    /\ UNCHANGED <<now, status, slot, confirmedAt, asked, askedBy, uanswer>>

\* A booking is refused, or fails, and leaves no trace.
Refuse(b) ==
    /\ Answer(b, answer'[b], None)
    /\ answer'[b] \notin {"none", "ok"}
    /\ UNCHANGED <<now, status, slot, confirmedAt, asked, askedBy, uanswer>>

-----------------------------------------------------------------------------
Ask(u) ==
    /\ asked[u] = None
    /\ \E b \in Bookers : asked' = [asked EXCEPT ![u] = b]
    /\ \E x \in Users : askedBy' = [askedBy EXCEPT ![u] = x]
    /\ UNCHANGED <<now, status, slot, confirmedAt, answer, named, uanswer>>

\* Only the owner moves an appointment, from one status to the next.
Move(u, from, to) ==
    /\ asked[u] \in Bookers
    /\ uanswer[u] = "none"
    /\ Request[asked[u]].user = askedBy[u]
    /\ status[asked[u]] = from
    /\ status' = [status EXCEPT ![asked[u]] = to]
    /\ \E slug \in {"ok", "error"} : uanswer' = [uanswer EXCEPT ![u] = slug]
    /\ UNCHANGED <<now, slot, answer, named, asked, askedBy>>

Confirm(u) ==
    /\ Move(u, "pending", "confirmed")
    /\ confirmedAt' = [confirmedAt EXCEPT ![asked[u]] = now]

Cancel(u) ==
    /\ Move(u, "confirmed", "cancelled")
    /\ UNCHANGED confirmedAt

\* A confirmation or a cancellation is refused, or fails.
URefuse(u) ==
    /\ asked[u] \in Bookers
    /\ uanswer[u] = "none"
    /\ uanswer' = [uanswer EXCEPT ![u] = uanswer'[u]]
    /\ uanswer'[u] \notin {"none", "ok"}
    /\ UNCHANGED <<now, status, slot, confirmedAt, answer, named, asked, askedBy>>

Pass ==
    /\ now' = now + 1
    /\ UNCHANGED <<status, slot, confirmedAt, answer, named, asked, askedBy, uanswer>>

Next ==
    \/ \E b \in Bookers : Reserve(b) \/ Replay(b) \/ Refuse(b)
    \/ \E u \in Updaters : Ask(u) \/ URefuse(u)
    \/ \E u \in Confirmers : Confirm(u)
    \/ \E u \in Cancellers : Cancel(u)
    \/ Pass

Spec == Init /\ [][Next]_vars

-----------------------------------------------------------------------------
(* What the ledger comes to, whoever keeps it. *)

\* Of two stored bookings that overlap and share a technician or a bay one gives way.
SlotsAreSafe ==
    \A a, b \in Bookers :
        /\ a # b /\ Stored(a) /\ Stored(b) /\ Overlaps(a, b)
        /\ slot[a].technician = slot[b].technician \/ slot[a].bay = slot[b].bay
        => GivesWay(a) \/ GivesWay(b)

\* A key is stored once.
KeysAreStoredOnce ==
    \A a, b \in Bookers :
        Stored(a) /\ Stored(b) /\ Request[a].key = Request[b].key => a = b

\* A booking that was told of success was told of the one stored under its key.
BookingsStand ==
    \A b \in Bookers : answer[b] = "ok" =>
        /\ named[b] \in Bookers
        /\ Stored(named[b])
        /\ Request[named[b]].key = Request[b].key

\* A confirmation or cancellation that was told of success is one of the owner, and
\* the appointment has come so far.
UpdatesStand ==
    \A u \in Updaters : uanswer[u] = "ok" =>
        /\ asked[u] \in Bookers
        /\ askedBy[u] = Request[asked[u]].user
        /\ status[asked[u]] \in {"confirmed", "cancelled"}
        /\ u \in Cancellers => status[asked[u]] = "cancelled"

Sound == SlotsAreSafe /\ KeysAreStoredOnce /\ BookingsStand /\ UpdatesStand
=============================================================================
