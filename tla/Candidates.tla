----------------------------- MODULE Candidates -----------------------------
(***************************************************************************)
(* Which technicians and service bays a booking may be given: the roster   *)
(* that the workforce stub serves, and the choice RequestBooking makes     *)
(* among what the roster offers and the calendar leaves free.              *)
(***************************************************************************)
EXTENDS Sequences, Scheduling

CONSTANTS
    TechnicianIds, BayIds,
    Technicians,        \* dealer -> sequence of technician entries
    ServiceBays         \* dealer -> sequence of service bay entries

Blackout == [from : Int, to : Int]

TechnicianEntry ==
    [id : TechnicianIds, score : Nat, certs : SUBSET Certifications,
     blackouts : SUBSET Blackout]

BayEntry == [id : BayIds, blackouts : SUBSET Blackout]

ASSUME RosterAssumption ==
    /\ Technicians \in [Dealers -> Seq(TechnicianEntry)]
    /\ ServiceBays \in [Dealers -> Seq(BayEntry)]

-----------------------------------------------------------------------------
\* onDuty: no blackout overlaps the window, half-open as booked windows are.
OnDuty(blackouts, start, end) ==
    \A o \in blackouts : ~(o.from < end /\ o.to > start)

\* hasAllCertifications
HasAllCertifications(entry, required) == required \subseteq entry.certs

\* ListTechnicians and ListServiceBays, as the roster positions they keep: the
\* lists they return are the entries at these positions, in roster order.
ListTechnicians(b) ==
    LET roster == Technicians[Request[b].dealer]
    IN  {i \in DOMAIN roster :
            /\ HasAllCertifications(roster[i], Catalog[Request[b].service].certs)
            /\ OnDuty(roster[i].blackouts, StartOf(b), EndOf(b))}

ListServiceBays(b) ==
    LET roster == ServiceBays[Request[b].dealer]
    IN  {i \in DOMAIN roster :
            OnDuty(roster[i].blackouts, StartOf(b), EndOf(b))}

\* Mutant: the list is sorted by rising ReviewScore.
WorstTechnicians(b, busyIds) ==
    LET roster == Technicians[Request[b].dealer]
        free   == {i \in ListTechnicians(b) : roster[i].id \notin busyIds}
    IN  {roster[i].id : i \in {j \in free :
            \A k \in free : roster[k].score >= roster[j].score}}

\* createFn takes the first technician outside busyIds after sort.Slice has
\* ordered the list by falling ReviewScore.  sort.Slice is not stable, so among
\* free technicians of the best score any may come first.
BestTechnicians(b, busyIds) ==
    LET roster == Technicians[Request[b].dealer]
        free   == {i \in ListTechnicians(b) : roster[i].id \notin busyIds}
    IN  {roster[i].id : i \in {j \in free :
            \A k \in free : roster[k].score =< roster[j].score}}

\* createFn takes the first bay outside busyIds in roster order: a set of one
\* id, or empty when every bay is busy.
FirstServiceBay(b, busyIds) ==
    LET roster == ServiceBays[Request[b].dealer]
        free   == {i \in ListServiceBays(b) : roster[i].id \notin busyIds}
    IN  {roster[i].id : i \in {j \in free : \A k \in free : j =< k}}
=============================================================================
