------------------------ MODULE MCAppointmentService ------------------------
(* Instances of AppointmentService for TLC: rosters, catalogs and requests. *)
EXTENDS LedgerRefinement, TLC

CONSTANTS b1, b2, b3, b4, b5, c1, c2, x1, u1, u2, k1, k2, k3,
          d1, d2, t1, t2, y1, y2, oil, brake, unknown, brakeCert

\* One hour of work, two hours for brakes, which need a certificate.
MCCatalog ==
    oil   :> [duration |-> 1, certs |-> {}] @@
    brake :> [duration |-> 2, certs |-> {brakeCert}]

Technician(id, score, certs) ==
    [id |-> id, score |-> score, certs |-> certs, blackouts |-> {}]
Bay(id) == [id |-> id, blackouts |-> {}]

\* d1 is dealer-solo; d2 has a certified and a better uncertified technician,
\* and two bays of which the first is under maintenance until 12.
MCTechnicians ==
    d1 :> <<Technician(t1, 4, {brakeCert})>> @@
    d2 :> <<Technician(t1, 3, {brakeCert}), Technician(t2, 4, {})>>
MCServiceBays ==
    d1 :> <<Bay(y1)>> @@
    d2 :> <<[id |-> y1, blackouts |-> {[from |-> 0, to |-> 12]}], Bay(y2)>>

Req(k, u, d, s, t) ==
    [key |-> k, user |-> u, dealer |-> d, service |-> s, start |-> t,
     vehicleValid |-> TRUE, fieldsPresent |-> TRUE]

NoSkew == [h \in Bookers \cup Updaters |-> 0]

-----------------------------------------------------------------------------
\* Race: three customers, one technician and one bay, windows [10,12), [11,13)
\* and [12,14): neighbours overlap, the outer two are back to back; b4's form is incomplete.
RaceRequests ==
    b1 :> Req(k1, u1, d1, brake, 10) @@
    b2 :> Req(k2, u1, d1, brake, 11) @@
    b3 :> Req(k3, u1, d1, brake, 12) @@
    b4 :> [Req(k1, u1, d1, brake, 10) EXCEPT !.fieldsPresent = FALSE]

\* Key reuse: b3 and b4 send the key of b1, in another name and for a window that
\* overlaps its own, and for one that does not; b2 competes with b1 and b3.
KeyReuseRequests ==
    b1 :> Req(k1, u1, d1, brake, 10) @@
    b2 :> Req(k2, u1, d1, oil, 11) @@
    b3 :> Req(k1, u2, d1, brake, 11) @@
    b4 :> Req(k1, u1, d1, oil, 13)

\* Choice: three services at d2, where roster, certificates, scores and
\* maintenance decide; b2 and b3 are too far ahead until the clock reads 1,
\* b4 and b5 are refused.
ChoiceRequests ==
    b1 :> Req(k1, u1, d2, brake, 11) @@
    b2 :> Req(k2, u2, d2, oil, 12) @@
    b3 :> Req(k3, u1, d2, oil, 12) @@
    b4 :> [Req(k1, u1, d2, oil, 11) EXCEPT !.vehicleValid = FALSE] @@
    b5 :> Req(k1, u1, d2, unknown, 11)

\* One key sent twice; the second request comes when the lead time is too short.
LateReplayRequests ==
    b1 :> Req(k1, u1, d1, oil, 4) @@
    b2 :> Req(k1, u1, d1, oil, 4)

\* Two customers for one slot.
SlotRequests ==
    b1 :> Req(k1, u1, d1, oil, 10) @@
    b2 :> Req(k2, u1, d1, oil, 10)

\* Two users for one slot, so that updaters meet appointments of others.
OwnersRequests ==
    b1 :> Req(k1, u1, d1, oil, 10) @@
    b2 :> Req(k2, u2, d1, oil, 10)

\* One customer; the slot is already in the past when the clock stops.
LifeRequest == b1 :> Req(k1, u1, d1, oil, 1)

\* The hosts of b1 and c1 run ahead of the database, the others behind.
MixedSkew == [h \in Bookers \cup Updaters |-> IF h \in {b1, c1} THEN 1 ELSE -1]
=============================================================================
