---------------------------- MODULE ApiClientProofs ----------------------------
(***************************************************************************)
(* Lemmas about the operators of ApiClient and HttpSurface: what request   *)
(* editors leave of a request, and what a request that is not refused      *)
(* looks like.                                                             *)
(***************************************************************************)
EXTENDS ApiClient, SequenceTheorems, WellFoundedInduction, TLAPS

-----------------------------------------------------------------------------
(* Induction over the natural numbers, as a fact about sets of them. *)

\* A set of naturals that has 0 and with every n its successor has them all.
LEMMA InductiveSet ==
    ASSUME NEW T \in SUBSET Nat, 0 \in T, \A n \in T : n + 1 \in T
    PROVE  T = Nat
<1> DEFINE U == Nat \ T
<1> SUFFICES ASSUME U # {} PROVE FALSE
    OBVIOUS
<1>1. PICK m \in U : \A n \in U : <<n, m>> \notin OpToRel(<, Nat)
    BY NatLessThanWellFounded, WFMin
<1>2. \A n \in U : ~(n < m)
    BY <1>1 DEF OpToRel
<1>3. m # 0 /\ m - 1 \in Nat
    OBVIOUS
<1>4. m - 1 \in T
    BY <1>2, <1>3
<1>5. (m - 1) + 1 = m
    BY <1>3
<1> QED
    BY <1>4, <1>5

-----------------------------------------------------------------------------
(* The request editors. *)

\* What editors may make of a request r: None, or a request to the same route and
\* with the same key, whose user header may have got values and whose uuid and body
\* may have been replaced.
Values(r) == {r.user[i] : i \in DOMAIN r.user} \cup {SecondUser}
Edited(r) ==
    {None} \cup
    [method : {r.method}, path : {r.path}, uuid : {r.uuid, Malformed},
     user : Seq(Values(r)), key : {r.key}, body : {r.body, "none", "malformed", "text"}]

\* One editor keeps a request among those.
LEMMA EditKeeps ==
    ASSUME NEW r, NEW e \in Editors \ {"fail"}, NEW q \in Edited(r) \ {None}
    PROVE  Edit(q, e) \in Edited(r)
<1> DEFINE V == Values(r)
<1>1. q \in [method : {r.method}, path : {r.path}, uuid : {r.uuid, Malformed}, user : Seq(V),
             key : {r.key}, body : {r.body, "none", "malformed", "text"}]
    BY DEF Edited
<1>2. SecondUser \in V
    BY DEF Values
<1>3. Append(q.user, SecondUser) \in Seq(V)
    BY <1>1, <1>2
<1>4. /\ [q EXCEPT !.user = Append(@, SecondUser)] \in Edited(r)
      /\ [q EXCEPT !.body = "none"] \in Edited(r)
      /\ [q EXCEPT !.body = "malformed"] \in Edited(r)
      /\ [q EXCEPT !.body = "text"] \in Edited(r)
      /\ [q EXCEPT !.uuid = Malformed] \in Edited(r)
    BY <1>1, <1>3 DEF Edited
<1> QED
    BY <1>4 DEF Edit, Editors

\* What the loop of ApplyEditors computes exists: the request after i editors, for
\* every i, as a function of i.
Steps(r, editors, n) ==
    {f \in [0..n -> Edited(r)] :
        \A i \in 0..n :
            f[i] = IF i = 0 THEN r
                   ELSE IF f[i - 1] = None \/ editors[i] = "fail" THEN None
                   ELSE Edit(f[i - 1], editors[i])}

\* However many editors there are, the requests after each of them exist.
LEMMA StepsExist ==
    ASSUME NEW r, r \in Edited(r), NEW editors \in Seq(Editors)
    PROVE  Steps(r, editors, Len(editors)) # {}
<1> DEFINE T == {n \in Nat : n =< Len(editors) => Steps(r, editors, n) # {}}
<1>1. 0 \in T
    <2>1. [i \in 0..0 |-> r] \in Steps(r, editors, 0)
        BY DEF Steps
    <2> QED
        BY <2>1
<1>2. ASSUME NEW n \in T PROVE n + 1 \in T
    <2> SUFFICES ASSUME n + 1 =< Len(editors) PROVE Steps(r, editors, n + 1) # {}
        OBVIOUS
    <2>1. PICK f : f \in Steps(r, editors, n)
        BY <1>2
    <2> DEFINE last == IF f[n] = None \/ editors[n + 1] = "fail" THEN None
                       ELSE Edit(f[n], editors[n + 1])
               g == [i \in 0..(n + 1) |-> IF i = n + 1 THEN last ELSE f[i]]
    <2>2. f \in [0..n -> Edited(r)] /\ n \in Nat /\ f[n] \in Edited(r)
        BY <2>1 DEF Steps
    <2>3. editors[n + 1] \in Editors
        BY <2>2
    <2>4. last \in Edited(r)
        BY <2>2, <2>3, EditKeeps DEF Edited
    <2>5. g \in [0..(n + 1) -> Edited(r)]
        BY <2>2, <2>4
    <2>6. ASSUME NEW i \in 0..(n + 1)
          PROVE  g[i] = IF i = 0 THEN r
                        ELSE IF g[i - 1] = None \/ editors[i] = "fail" THEN None
                        ELSE Edit(g[i - 1], editors[i])
        <3>1. CASE i = n + 1
            <4>1. g[i] = last /\ i - 1 = n /\ i # 0 /\ g[i - 1] = f[n]
                BY <2>2, <3>1
            <4> QED
                BY <4>1, <3>1
        <3>2. CASE i \in 1..n
            <4>1. g[i] = f[i] /\ g[i - 1] = f[i - 1] /\ i \in 0..n /\ i # 0
                BY <2>2, <3>2
            <4> QED
                BY <2>1, <4>1 DEF Steps
        <3>3. CASE i = 0
            BY <2>1, <2>2, <3>3 DEF Steps
        <3> QED
            BY <2>2, <3>1, <3>2, <3>3
    <2>7. g \in Steps(r, editors, n + 1)
        BY <2>5, <2>6 DEF Steps
    <2> QED
        BY <2>7
<1>3. T = Nat
    <2> HIDE DEF T
    <2>1. T \in SUBSET Nat
        BY DEF T
    <2> QED
        BY <1>1, <1>2, <2>1, InductiveSet
<1> QED
    BY <1>3

\* Whatever the editors are: nothing is sent, or a request to the same route with the
\* same key.
LEMMA EditorsKeep ==
    ASSUME NEW r, r \in Edited(r), NEW own \in Seq(Editors), NEW additional \in Seq(Editors)
    PROVE  ApplyEditors(r, own, additional) \in Edited(r)
<1> DEFINE editors == own \o additional
           n == Len(editors)
           F == CHOOSE f : f = [i \in 0..n |-> IF i = 0 THEN r
                   ELSE IF f[i - 1] = None \/ editors[i] = "fail" THEN None
                   ELSE Edit(f[i - 1], editors[i])]
<1>1. editors \in Seq(Editors) /\ n \in Nat
    OBVIOUS
<1>2. PICK f \in Steps(r, editors, n) : TRUE
    BY <1>1, StepsExist
<1>3. f = [i \in 0..n |-> IF i = 0 THEN r
             ELSE IF f[i - 1] = None \/ editors[i] = "fail" THEN None
             ELSE Edit(f[i - 1], editors[i])]
    BY <1>2 DEF Steps
<1>4. F = [i \in 0..n |-> IF i = 0 THEN r
             ELSE IF F[i - 1] = None \/ editors[i] = "fail" THEN None
             ELSE Edit(F[i - 1], editors[i])]
    <2> HIDE DEF editors, n
    <2> QED
        BY <1>3
<1> HIDE DEF F
<1>5. ASSUME NEW i \in 0..n
      PROVE  F[i] = IF i = 0 THEN r
                    ELSE IF F[i - 1] = None \/ editors[i] = "fail" THEN None
                    ELSE Edit(F[i - 1], editors[i])
    <2> HIDE DEF editors, n
    <2> QED
        BY <1>4
<1> DEFINE T == {i \in Nat : i =< n => F[i] \in Edited(r)}
<1>6. 0 \in T
    BY <1>1, <1>5
<1>7. ASSUME NEW i \in T PROVE i + 1 \in T
    <2> SUFFICES ASSUME i + 1 =< n PROVE F[i + 1] \in Edited(r)
        OBVIOUS
    <2>1. F[i] \in Edited(r) /\ i + 1 \in 0..n /\ i + 1 # 0 /\ (i + 1) - 1 = i
        BY <1>1, <1>7
    <2>2. editors[i + 1] \in Editors
        BY <1>1, <2>1
    <2>3. F[i + 1] = IF F[i] = None \/ editors[i + 1] = "fail" THEN None
                     ELSE Edit(F[i], editors[i + 1])
        BY <1>5, <2>1
    <2>4. CASE F[i] = None \/ editors[i + 1] = "fail"
        BY <2>3, <2>4 DEF Edited
    <2>5. CASE F[i] # None /\ editors[i + 1] # "fail"
        <3> HIDE DEF editors
        <3>1. Edit(F[i], editors[i + 1]) \in Edited(r)
            BY <2>1, <2>2, <2>5, EditKeeps
        <3> QED
            BY <2>3, <2>5, <3>1
    <2> QED
        BY <2>4, <2>5
<1>8. T = Nat
    <2> HIDE DEF T
    <2>1. T \in SUBSET Nat
        BY DEF T
    <2> QED
        BY <1>6, <1>7, <2>1, InductiveSet
<1>9. F[n] \in Edited(r)
    BY <1>1, <1>8
<1>10. ApplyEditors(r, own, additional) = F[n]
    BY DEF ApplyEditors, F
<1> QED
    BY <1>9, <1>10

-----------------------------------------------------------------------------
(* What a request that is not refused looks like. *)

\* The first of two errors.
LEMMA FirstOfTwo ==
    ASSUME NEW a, NEW b
    PROVE  FirstError(<<a, b>>) = IF a # NoError THEN a ELSE b
<1> DEFINE errors == <<a, b>>
           bad == {i \in DOMAIN errors : errors[i] # NoError}
<1>1. bad \subseteq {1, 2} /\ (1 \in bad <=> a # NoError) /\ (2 \in bad <=> b # NoError)
    OBVIOUS
<1>2. CASE a # NoError
    <2>1. (CHOOSE i \in bad : \A j \in bad : i =< j) = 1
        BY <1>1, <1>2
    <2> QED
        BY <1>1, <1>2, <2>1 DEF FirstError
<1>3. CASE a = NoError /\ b # NoError
    <2>1. (CHOOSE i \in bad : \A j \in bad : i =< j) = 2
        BY <1>1, <1>3
    <2> QED
        BY <1>1, <1>3, <2>1 DEF FirstError
<1>4. CASE a = NoError /\ b = NoError
    <2>1. bad = {}
        BY <1>1, <1>4
    <2> QED
        BY <1>4, <2>1 DEF FirstError
<1> QED
    BY <1>2, <1>3, <1>4

\* The first of three errors.
LEMMA FirstOfThree ==
    ASSUME NEW a, NEW b, NEW d
    PROVE  FirstError(<<a, b, d>>) = IF a # NoError THEN a ELSE IF b # NoError THEN b ELSE d
<1> DEFINE errors == <<a, b, d>>
           bad == {i \in DOMAIN errors : errors[i] # NoError}
<1>1. /\ bad \subseteq {1, 2, 3} /\ (1 \in bad <=> a # NoError)
      /\ (2 \in bad <=> b # NoError) /\ (3 \in bad <=> d # NoError)
    OBVIOUS
<1>2. CASE a # NoError
    <2>1. (CHOOSE i \in bad : \A j \in bad : i =< j) = 1
        BY <1>1, <1>2
    <2> QED
        BY <1>1, <1>2, <2>1 DEF FirstError
<1>3. CASE a = NoError /\ b # NoError
    <2>1. (CHOOSE i \in bad : \A j \in bad : i =< j) = 2
        BY <1>1, <1>3
    <2> QED
        BY <1>1, <1>3, <2>1 DEF FirstError
<1>4. CASE a = NoError /\ b = NoError /\ d # NoError
    <2>1. (CHOOSE i \in bad : \A j \in bad : i =< j) = 3
        BY <1>1, <1>4
    <2> QED
        BY <1>1, <1>4, <2>1 DEF FirstError
<1>5. CASE a = NoError /\ b = NoError /\ d = NoError
    <2>1. bad = {}
        BY <1>1, <1>5
    <2> QED
        BY <1>5, <2>1 DEF FirstError
<1> QED
    BY <1>2, <1>3, <1>4, <1>5

\* Behind the wrappers and the handlers a request names one user; a header is a
\* sequence of values.
LEMMA AcceptedNamesOneUser ==
    ASSUME NEW r, Refusal(r) = NoError, NEW V, r.user \in Seq(V),
           Route(r) \in {"request", "get", "confirm", "cancel"}
    PROVE  Len(r.user) = 1 /\ ~IsBlank(HeaderValue(r.user))
<1>1. BindHeader(r.user) = NoError /\ RequireUserID(r) = NoError
    BY FirstOfTwo, FirstOfThree
       DEF Refusal, WrapRequestBooking, WrapGetReservation, WrapConfirmBooking,
           WrapCancelBooking, HandlerRequestBooking, HandlerGetReservation,
           HandlerConfirmBooking, HandlerCancelBooking
<1>2. HTTPError(400) # NoError /\ NewUnauthorizedError("not-authenticated") # NoError
    BY DEF HTTPError, NewUnauthorizedError, NoError, Error
<1>3. ~(Len(r.user) > 1)
    BY <1>1, <1>2 DEF BindHeader
<1>6. ~IsBlank(HeaderValue(r.user))
    BY <1>1, <1>2 DEF RequireUserID
<1>4. r.user # <<>>
    BY <1>6 DEF HeaderValue, IsBlank
<1>5. Len(r.user) \in Nat /\ Len(r.user) # 0
    BY <1>4, EmptySeq
<1>7. Len(r.user) = 1
    <2> DEFINE n == Len(r.user)
    <2>1. n \in Nat /\ n # 0 /\ ~(n > 1)
        BY <1>3, <1>5
    <2> HIDE DEF n
    <2>2. n = 1
        BY <2>1
    <2> QED
        BY <2>2 DEF n
<1> QED
    BY <1>6, <1>7

\* What a request can be refused with before the service is called: 400 and 415 of the
\* framework, which have no slug of their own, and the errors of the handlers.
LEMMA RefusalErrors ==
    ASSUME NEW r, Route(r) \in {"request", "get", "confirm", "cancel"}
    PROVE  \/ Refusal(r) \in {NoError, HTTPError(400), NewUnauthorizedError("not-authenticated")}
           \/ Route(r) = "request" /\
              Refusal(r) \in {HTTPError(415), NewInvalidInputError("missing-idempotency-key")}
BY FirstOfTwo, FirstOfThree
   DEF Refusal, WrapRequestBooking, WrapGetReservation, WrapConfirmBooking,
       WrapCancelBooking, HandlerRequestBooking, HandlerGetReservation,
       HandlerConfirmBooking, HandlerCancelBooking, BindHeader, BindUuid,
       StrictRequestBooking, RequireUserID, RequireKey
=============================================================================
