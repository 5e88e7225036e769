-------------------------- MODULE ServiceInvariant --------------------------
(***************************************************************************)
(* The inductive invariant behind the safety properties of                 *)
(* AppointmentService, in the parts in which AppointmentServiceProofs and  *)
(* ChoiceProofs prove it.                                                  *)
(***************************************************************************)
EXTENDS AppointmentService

\* b has written its own row in an open transaction.
Drafting(b) == pc[b] = "insert" \/ HoldsKeyEntry(b)

\* What the types rest on: a handler that will begin a transaction has an
\* attempt left for it, and an updater that has started has a target.
Underway ==
    /\ \A b \in Bookers :
        pc[b] \in {"idle", "lookup", "prepare", "begin"} => tries[b] < MaxTries
    /\ \A u \in Updaters : upc[u] # "idle" => target[u] \in Bookers

\* What a handler knows of itself while it runs.
HandlerInv ==
    /\ \A b \in Bookers :
        /\ pc[b] # "done" => status[b] = "absent" /\ outcome[b] = "none"
        /\ pc[b] \notin {"commit", "done"} => result[b] = None
        /\ pc[b] = "commit" => result[b] # None
        /\ txNow[b] =< now
    /\ \A u \in Updaters :
        upc[u] # "done" => uoutcome[u] = "none"

\* The row lock and the version check: who is about to commit an update is
\* alone with its row and has read its status.
UpdateInv ==
    /\ \A u \in Updaters :
        /\ upc[u] \in {"check", "update", "commit"} =>
               Committed(target[u]) /\ seen[u] # "absent"
        /\ upc[u] \in {"update", "commit"} =>
               seen[u] = IF u \in Confirmers THEN "pending" ELSE "confirmed"
        /\ upc[u] = "commit" => status[target[u]] = seen[u]
    /\ \A u, v \in Updaters :
        u # v /\ upc[u] = "commit" /\ upc[v] = "commit" => target[u] # target[v]

\* The unique index: one stored reservation per key, and an open transaction
\* that has an entry in the index is the only one to have it.
KeyInv ==
    /\ \A a, b \in Bookers :
        /\ Committed(a) /\ Committed(b) /\ a # b => Request[a].key # Request[b].key
        /\ HoldsKeyEntry(a) /\ HoldsKeyEntry(b) /\ a # b
               => Request[a].key # Request[b].key
        /\ HoldsKeyEntry(a) /\ Committed(b) => Request[a].key # Request[b].key
    /\ \A b \in Bookers :
        /\ pc[b] = "commit" /\ result[b] # b =>
               result[b] \in KeyHolders(Request[b].key)
        /\ outcome[b] = "ok" => result[b] \in KeyHolders(Request[b].key)
        /\ pc[b] = "backstop" => KeyHolders(Request[b].key) # {}
        /\ outcome[b] # "no-rows"

\* A stored booking that holds nothing now and can only come to hold something
\* by a late confirmation.
Harmless(a) ==
    \/ status[a] = "cancelled"
    \/ status[a] = "pending" /\ row[a].expiredAt =< now
    \/ ConfirmedLate(a)

\* Why the snapshot is enough: what overlaps a booking in progress was committed
\* behind its back, or was busy in its snapshot, or is harmless; and a booking
\* shares nothing with what was busy.
ClaimInv ==
    /\ \A b \in Bookers : \A a \in busy[b] : Committed(a)
    /\ \A b \in Bookers : pc[b] = "create" \/ Drafting(b) =>
          \A a \in Bookers : Committed(a) /\ Overlaps(a, b) =>
              a \in missed[b] \/ a \in busy[b] \/ Harmless(a)
    /\ \A b \in Bookers : Drafting(b) => \A a \in busy[b] : ~SharesResource(a, b)
    /\ \A a, b \in Bookers : Committed(a) /\ Committed(b) /\ Conflict(a, b) =>
          Harmless(a) \/ Harmless(b)

\* A second attempt of a confirm or a cancel finds the appointment moved on.
MovedOn(u, s) ==
    IF u \in Confirmers THEN s \in {"confirmed", "cancelled"} ELSE s = "cancelled"

TriesInv ==
    \A u \in Updaters :
        /\ upc[u] = "idle" => utries[u] = 0
        /\ upc[u] \in {"read", "check", "update", "commit"} => utries[u] \in 1..2
        /\ upc[u] \in {"update", "commit"} => utries[u] = 1
        /\ upc[u] \in {"check", "update", "commit"} /\ seen[u] = "confirmed" =>
               status[target[u]] \in {"confirmed", "cancelled"}
        /\ upc[u] \in {"read", "check"} /\ utries[u] = 2 => MovedOn(u, status[target[u]])
        /\ upc[u] = "check" /\ utries[u] = 2 => MovedOn(u, seen[u])

\* What the successful answers say.
AnswerInv ==
    /\ \A u \in Updaters : uoutcome[u] = "ok" =>
          /\ status[target[u]] # "absent"
          /\ MovedOn(u, status[target[u]])
    /\ \A u, v \in Updaters :
          u # v /\ uoutcome[u] = "ok" /\ uoutcome[v] = "ok" /\ target[u] = target[v]
          => NewStatus(u) # NewStatus(v)

\* What passed b over: other stored bookings in windows that overlap its own.
Rivals(b) == {a \in Bookers \ {b} : Committed(a) /\ Overlaps(a, b)}

BestOfTheRest(b) ==
    LET roster == Technicians[Request[b].dealer]
    IN  \E i \in ListTechnicians(b) :
            /\ roster[i].id = row[b].technician
            /\ \A j \in ListTechnicians(b) : roster[j].score > roster[i].score
                   => \E a \in Rivals(b) : row[a].technician = roster[j].id

FirstOfTheRest(b) ==
    LET bays == ServiceBays[Request[b].dealer]
    IN  \E i \in ListServiceBays(b) :
            /\ bays[i].id = row[b].bay
            /\ \A j \in ListServiceBays(b) : j < i
                   => \E a \in Rivals(b) : row[a].bay = bays[j].id

\* The choice: what is busy for a booking is in its way and not its own, and who
\* has chosen took the best that the busy left.
ChoiceInv ==
    /\ \A b \in Bookers : \A a \in busy[b] :
          Overlaps(a, b) /\ Request[a].key # Request[b].key
    /\ \A b \in Bookers : Drafting(b) \/ Committed(b) =>
          BestOfTheRest(b) /\ FirstOfTheRest(b)
    /\ RefusedOnlyForAnother

\* The attempts: every one that a booking has lost, it lost to another booking,
\* stored before the attempt that runs now took its snapshot.
Others(b) == {a \in Bookers \ {b} : Committed(a)}

Lost(b) == IF pc[b] = "snapshot" \/ InSnapshot(b) THEN tries[b] - 1 ELSE tries[b]

WinnersInv ==
    /\ IsFiniteSet({a \in Bookers : Committed(a)})
    /\ \A b \in Bookers :
        /\ missed[b] \subseteq Others(b)
        /\ ~InSnapshot(b) => missed[b] = {}
        /\ pc[b] \notin {"backstop", "done"} =>
               Cardinality(Others(b) \ missed[b]) >= Lost(b)
        /\ outcome[b] = "could-not-serialize" => Cardinality(Others(b)) >= MaxTries

IInv == TypeOK /\ Underway /\ HandlerInv /\ UpdateInv /\ KeyInv /\ ClaimInv
=============================================================================
