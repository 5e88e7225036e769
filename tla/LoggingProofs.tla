---------------------------- MODULE LoggingProofs ----------------------------
(***************************************************************************)
(* The properties of Logging, for bodies of any size and shape and for     *)
(* every order of the setters.  What a function of the height of a tree    *)
(* computes is shown by induction on that height.                          *)
(***************************************************************************)
EXTENDS Logging, SequenceTheorems, WellFoundedInduction, TLAPS

-----------------------------------------------------------------------------
(* Induction on the height. *)

\* A set of naturals that has 0 and with every n its successor has them all.
LEMMA InductiveSet ==
    ASSUME NEW T \in SUBSET Nat, 0 \in T, \A n \in T : n + 1 \in T
    PROVE  T = Nat
<1> DEFINE U == Nat \ T
<1> SUFFICES ASSUME U # {} PROVE FALSE
    OBVIOUS
<1>1. PICK m \in U : \A n \in U : <<n, m>> \notin OpToRel(<, Nat)
    BY NatLessThanWellFounded, WFMin
<1>2. \A n \in U : ~(n < m)
    BY <1>1 DEF OpToRel
<1>3. m # 0 /\ m - 1 \in Nat
    OBVIOUS
<1>4. m - 1 \in T
    BY <1>2, <1>3
<1>5. (m - 1) + 1 = m
    BY <1>3
<1> QED
    BY <1>4, <1>5

\* A set of heights that has 0 and the next of every height below the limit has the limit.
LEMMA Heights ==
    ASSUME NEW T, 0 \in T, \A n \in 0..MaxNesting : n \in T /\ n < MaxNesting => n + 1 \in T
    PROVE  \A n \in 0..MaxNesting : n \in T
<1> USE TruncationAssumption
<1> DEFINE U == {n \in Nat : n =< MaxNesting => n \in T}
<1>1. 0 \in U /\ \A n \in U : n + 1 \in U
    OBVIOUS
<1>2. U = Nat
    <2>1. U \in SUBSET Nat
        OBVIOUS
    <2> HIDE DEF U
    <2> QED
        BY <1>1, <2>1, InductiveSet
<1> QED
    BY <1>2

\* Trees is what its definition says.
LEMMA TreesAre ==
    \A n \in 0..MaxNesting :
        Trees[n] = IF n = 0 THEN Scalars
                   ELSE Scalars \cup [kind : {"array", "object"}, items : Seq(Trees[n - 1]),
                                      dropped : {0}]
<1> USE TruncationAssumption
<1> DEFINE Above(S) == Scalars \cup [kind : {"array", "object"}, items : Seq(S), dropped : {0}]
           IsUpTo(f, m) == f = [n \in 0..m |-> IF n = 0 THEN Scalars ELSE Above(f[n - 1])]
<1> HIDE DEF Above
<1>1. \E f : IsUpTo(f, 0)
    <2>1. IsUpTo([n \in 0..0 |-> Scalars], 0)
        OBVIOUS
    <2> HIDE DEF IsUpTo
    <2> QED
        BY <2>1
<1>2. ASSUME NEW m \in 0..MaxNesting, NEW f, IsUpTo(f, m)
      PROVE  \E g : IsUpTo(g, m + 1)
    <2> DEFINE g == [n \in 0..(m + 1) |-> IF n = m + 1 THEN Above(f[m]) ELSE f[n]]
    <2>1. ASSUME NEW n \in 0..(m + 1)
          PROVE  g[n] = IF n = 0 THEN Scalars ELSE Above(g[n - 1])
        <3>1. CASE n = m + 1
            BY <3>1
        <3>2. CASE n \in 0..m
            BY <1>2, <3>2
        <3> QED
            BY <3>1, <3>2
    <2>2. IsUpTo(g, m + 1)
        BY <2>1
    <2> HIDE DEF IsUpTo, g
    <2> QED
        BY <2>2
<1>3. \E f : IsUpTo(f, MaxNesting)
    <2> HIDE DEF IsUpTo
    <2> DEFINE T == {m \in 0..MaxNesting : \E f : IsUpTo(f, m)}
    <2>1. ASSUME NEW n \in 0..MaxNesting, n \in T, n < MaxNesting PROVE n + 1 \in T
        <3>1. n + 1 \in 0..MaxNesting
            BY <2>1
        <3> QED
            BY <1>2, <2>1, <3>1
    <2>2. 0 \in T
        BY <1>1
    <2> HIDE DEF T
    <2>3. MaxNesting \in T
        BY <2>1, <2>2, Heights
    <2> QED
        BY <2>3 DEF T
<1>4. PICK f : IsUpTo(f, MaxNesting)
    BY <1>3
<1>5. Trees = [n \in 0..MaxNesting |-> IF n = 0 THEN Scalars ELSE Above(Trees[n - 1])]
    BY <1>4 DEF Trees, Above
<1> QED
    BY <1>5 DEF Above

\* So is Walk.
LEMMA WalkIs ==
    \A n \in 0..MaxNesting :
        Walk[n] = IF n = 0 THEN [v \in Scalars |-> v]
        ELSE [v \in Trees[n] |-> [v EXCEPT !.items = [i \in DOMAIN v.items |->
                 Walk[n - 1][IF v.kind = "object" THEN Shorten(v.items[i]) ELSE v.items[i]]]]]
<1> USE TruncationAssumption
<1> DEFINE Base == [v \in Scalars |-> v]
           Above(n, h) ==
                [v \in Trees[n] |-> [v EXCEPT !.items = [i \in DOMAIN v.items |->
                    h[IF v.kind = "object" THEN Shorten(v.items[i]) ELSE v.items[i]]]]]
           IsUpTo(f, m) == f = [n \in 0..m |-> IF n = 0 THEN Base ELSE Above(n, f[n - 1])]
<1> HIDE DEF Above, Base
<1>1. \E f : IsUpTo(f, 0)
    <2>1. IsUpTo([n \in 0..0 |-> Base], 0)
        OBVIOUS
    <2> HIDE DEF IsUpTo
    <2> QED
        BY <2>1
<1>2. ASSUME NEW m \in 0..MaxNesting, NEW f, IsUpTo(f, m)
      PROVE  \E g : IsUpTo(g, m + 1)
    <2> DEFINE g == [n \in 0..(m + 1) |-> IF n = m + 1 THEN Above(n, f[m]) ELSE f[n]]
    <2>1. ASSUME NEW n \in 0..(m + 1)
          PROVE  g[n] = IF n = 0 THEN Base ELSE Above(n, g[n - 1])
        <3>1. CASE n = m + 1
            BY <3>1
        <3>2. CASE n \in 0..m
            BY <1>2, <3>2
        <3> QED
            BY <3>1, <3>2
    <2>2. IsUpTo(g, m + 1)
        BY <2>1
    <2> HIDE DEF IsUpTo, g
    <2> QED
        BY <2>2
<1>3. \E f : IsUpTo(f, MaxNesting)
    <2> HIDE DEF IsUpTo
    <2> DEFINE T == {m \in 0..MaxNesting : \E f : IsUpTo(f, m)}
    <2>1. ASSUME NEW n \in 0..MaxNesting, n \in T, n < MaxNesting PROVE n + 1 \in T
        <3>1. n + 1 \in 0..MaxNesting
            BY <2>1
        <3> QED
            BY <1>2, <2>1, <3>1
    <2>2. 0 \in T
        BY <1>1
    <2> HIDE DEF T
    <2>3. MaxNesting \in T
        BY <2>1, <2>2, Heights
    <2> QED
        BY <2>3 DEF T
<1>4. PICK f : IsUpTo(f, MaxNesting)
    BY <1>3
<1> DEFINE Is(g) == g =
               [n \in 0..MaxNesting |->
                   IF n = 0 THEN [v \in Scalars |-> v]
                   ELSE [v \in Trees[n] |-> [v EXCEPT !.items = [i \in DOMAIN @ |->
                            g[n - 1][IF v.kind = "object" THEN Shorten(@[i]) ELSE @[i]]]]]]
<1>5. Is(f)
    BY <1>4 DEF Above, Base
<1>6. Walk = CHOOSE g : Is(g)
    BY DEF Walk
<1>7. Is(Walk)
    <2> HIDE DEF Is
    <2> QED
        BY <1>5, <1>6
<1> QED
    BY <1>7

\* And ShortFields.
LEMMA ShortFieldsAre ==
    \A n \in 0..MaxNesting :
        ShortFields[n] = IF n = 0 THEN [v \in Scalars |-> TRUE]
        ELSE [v \in Trees[n] |-> \A i \in DOMAIN v.items :
                 (v.kind = "object" => Short(v.items[i])) /\ ShortFields[n - 1][v.items[i]]]
<1> USE TruncationAssumption
<1> DEFINE Base == [v \in Scalars |-> TRUE]
           Above(n, h) ==
                [v \in Trees[n] |-> \A i \in DOMAIN v.items :
                    (v.kind = "object" => Short(v.items[i])) /\ h[v.items[i]]]
           IsUpTo(f, m) == f = [n \in 0..m |-> IF n = 0 THEN Base ELSE Above(n, f[n - 1])]
<1> HIDE DEF Above, Base
<1>1. \E f : IsUpTo(f, 0)
    <2>1. IsUpTo([n \in 0..0 |-> Base], 0)
        OBVIOUS
    <2> HIDE DEF IsUpTo
    <2> QED
        BY <2>1
<1>2. ASSUME NEW m \in 0..MaxNesting, NEW f, IsUpTo(f, m)
      PROVE  \E g : IsUpTo(g, m + 1)
    <2> DEFINE g == [n \in 0..(m + 1) |-> IF n = m + 1 THEN Above(n, f[m]) ELSE f[n]]
    <2>1. ASSUME NEW n \in 0..(m + 1)
          PROVE  g[n] = IF n = 0 THEN Base ELSE Above(n, g[n - 1])
        <3>1. CASE n = m + 1
            BY <3>1
        <3>2. CASE n \in 0..m
            BY <1>2, <3>2
        <3> QED
            BY <3>1, <3>2
    <2>2. IsUpTo(g, m + 1)
        BY <2>1
    <2> HIDE DEF IsUpTo, g
    <2> QED
        BY <2>2
<1>3. \E f : IsUpTo(f, MaxNesting)
    <2> HIDE DEF IsUpTo
    <2> DEFINE T == {m \in 0..MaxNesting : \E f : IsUpTo(f, m)}
    <2>1. ASSUME NEW n \in 0..MaxNesting, n \in T, n < MaxNesting PROVE n + 1 \in T
        <3>1. n + 1 \in 0..MaxNesting
            BY <2>1
        <3> QED
            BY <1>2, <2>1, <3>1
    <2>2. 0 \in T
        BY <1>1
    <2> HIDE DEF T
    <2>3. MaxNesting \in T
        BY <2>1, <2>2, Heights
    <2> QED
        BY <2>3 DEF T
<1>4. PICK f : IsUpTo(f, MaxNesting)
    BY <1>3
<1> DEFINE Is(g) == g =
               [n \in 0..MaxNesting |->
                   IF n = 0 THEN [v \in Scalars |-> TRUE]
                   ELSE [v \in Trees[n] |->
                            \A i \in DOMAIN v.items :
                                /\ v.kind = "object" => Short(v.items[i])
                                /\ g[n - 1][v.items[i]]]]
<1>5. Is(f)
    BY <1>4 DEF Above, Base
<1>6. ShortFields = CHOOSE g : Is(g)
    BY DEF ShortFields
<1>7. Is(ShortFields)
    <2> HIDE DEF Is
    <2> QED
        BY <1>5, <1>6
<1> QED
    BY <1>7

\* And Accounts.
LEMMA AccountsAre ==
    \A n \in 0..MaxNesting :
        Accounts[n] = IF n = 0 THEN [p \in Scalars \X Scalars |-> p[2] = p[1]]
        ELSE [p \in Trees[n] \X Trees[n] |->
                 /\ p[2].kind = p[1].kind /\ p[2].dropped = p[1].dropped
                 /\ \/ /\ Len(p[2].items) = Len(p[1].items)
                       /\ \A i \in DOMAIN p[2].items : Accounts[n - 1][<<p[1].items[i], p[2].items[i]>>]
                    \/ \E m \in DOMAIN p[2].items :
                          LET left == Len(p[1].items) - (Len(p[2].items) - 1)
                          IN  /\ left > 0 /\ p[2].items[m] = Marker(left)
                              /\ \A i \in 1..(m - 1) : Accounts[n - 1][<<p[1].items[i], p[2].items[i]>>]
                              /\ \A i \in (m + 1)..Len(p[2].items) :
                                    Accounts[n - 1][<<p[1].items[i + left - 1], p[2].items[i]>>]]
<1> USE TruncationAssumption
<1> DEFINE Base == [p \in Scalars \X Scalars |-> p[2] = p[1]]
           Above(n, h) ==
                [p \in Trees[n] \X Trees[n] |->
                    /\ p[2].kind = p[1].kind /\ p[2].dropped = p[1].dropped
                    /\ \/ /\ Len(p[2].items) = Len(p[1].items)
                          /\ \A i \in DOMAIN p[2].items : h[<<p[1].items[i], p[2].items[i]>>]
                       \/ \E m \in DOMAIN p[2].items :
                             LET left == Len(p[1].items) - (Len(p[2].items) - 1)
                             IN  /\ left > 0 /\ p[2].items[m] = Marker(left)
                                 /\ \A i \in 1..(m - 1) : h[<<p[1].items[i], p[2].items[i]>>]
                                 /\ \A i \in (m + 1)..Len(p[2].items) :
                                       h[<<p[1].items[i + left - 1], p[2].items[i]>>]]
           IsUpTo(f, m) == f = [n \in 0..m |-> IF n = 0 THEN Base ELSE Above(n, f[n - 1])]
<1> HIDE DEF Above, Base
<1>1. \E f : IsUpTo(f, 0)
    <2>1. IsUpTo([n \in 0..0 |-> Base], 0)
        OBVIOUS
    <2> HIDE DEF IsUpTo
    <2> QED
        BY <2>1
<1>2. ASSUME NEW m \in 0..MaxNesting, NEW f, IsUpTo(f, m)
      PROVE  \E g : IsUpTo(g, m + 1)
    <2> DEFINE g == [n \in 0..(m + 1) |-> IF n = m + 1 THEN Above(n, f[m]) ELSE f[n]]
    <2>1. ASSUME NEW n \in 0..(m + 1)
          PROVE  g[n] = IF n = 0 THEN Base ELSE Above(n, g[n - 1])
        <3>1. CASE n = m + 1
            BY <3>1
        <3>2. CASE n \in 0..m
            BY <1>2, <3>2
        <3> QED
            BY <3>1, <3>2
    <2>2. IsUpTo(g, m + 1)
        BY <2>1
    <2> HIDE DEF IsUpTo, g
    <2> QED
        BY <2>2
<1>3. \E f : IsUpTo(f, MaxNesting)
    <2> HIDE DEF IsUpTo
    <2> DEFINE T == {m \in 0..MaxNesting : \E f : IsUpTo(f, m)}
    <2>1. ASSUME NEW n \in 0..MaxNesting, n \in T, n < MaxNesting PROVE n + 1 \in T
        <3>1. n + 1 \in 0..MaxNesting
            BY <2>1
        <3> QED
            BY <1>2, <2>1, <3>1
    <2>2. 0 \in T
        BY <1>1
    <2> HIDE DEF T
    <2>3. MaxNesting \in T
        BY <2>1, <2>2, Heights
    <2> QED
        BY <2>3 DEF T
<1>4. PICK f : IsUpTo(f, MaxNesting)
    BY <1>3
<1> DEFINE Is(g) == g =
               [n \in 0..MaxNesting |->
                   IF n = 0 THEN [p \in Scalars \X Scalars |-> p[2] = p[1]]
                   ELSE [p \in Trees[n] \X Trees[n] |->
                            LET was == p[1].items
                                is  == p[2].items
                            IN  /\ p[2].kind = p[1].kind /\ p[2].dropped = p[1].dropped
                                /\ \/ /\ Len(is) = Len(was)
                                      /\ \A i \in DOMAIN is : g[n - 1][<<was[i], is[i]>>]
                                   \/ \E m \in DOMAIN is :
                                         LET left == Len(was) - (Len(is) - 1)
                                         IN  /\ left > 0 /\ is[m] = Marker(left)
                                             /\ \A i \in 1..(m - 1) :
                                                   g[n - 1][<<was[i], is[i]>>]
                                             /\ \A i \in (m + 1)..Len(is) :
                                                   g[n - 1][<<was[i + left - 1], is[i]>>]]]
<1>5. Is(f)
    BY <1>4 DEF Above, Base
<1>6. Accounts = CHOOSE g : Is(g)
    BY DEF Accounts
<1>7. Is(Accounts)
    <2> HIDE DEF Is
    <2> QED
        BY <1>5, <1>6
<1> QED
    BY <1>7

-----------------------------------------------------------------------------
(* Trees. *)

\* A function over 1..k is a sequence of its values.
LEMMA FunctionIsSeq ==
    ASSUME NEW S, NEW k \in Nat, NEW f \in [1..k -> S]
    PROVE  f \in Seq(S)
OBVIOUS


\* A tree is a scalar without items, or a container whose items are less high.
LEMMA TreeShape ==
    ASSUME NEW n \in 0..MaxNesting, NEW v \in Trees[n]
    PROVE  /\ v \in [kind : {"leaf", "marker", "array", "object"}, items : {v.items}, dropped : Nat]
           /\ n = 0 => v \in Scalars
           /\ n > 0 => v.items \in Seq(Trees[n - 1])
           /\ v \in Scalars => v.items = <<>> /\ v.kind \in {"leaf", "marker"}
           /\ v \notin Scalars => n > 0 /\ v.kind \in {"array", "object"} /\ v.dropped = 0
<1>1. CASE n = 0
    <2>1. v \in Scalars
        BY <1>1, TreesAre
    <2> QED
        BY <1>1, <2>1 DEF Scalars
<1>2. CASE n > 0
    <2>1. n # 0
        BY <1>2
    <2> DEFINE containers == [kind : {"array", "object"}, items : Seq(Trees[n - 1]), dropped : {0}]
    <2>2. v \in Scalars \cup containers
        BY <2>1, TreesAre
    <2>3. CASE v \in Scalars
        <3>1. v.items = <<>> /\ v.kind \in {"leaf", "marker"} /\ v.dropped \in Nat
            BY <2>3 DEF Scalars
        <3>2. v.items \in Seq(Trees[n - 1])
            BY <3>1
        <3>3. v \in [kind : {"leaf", "marker", "array", "object"}, items : {v.items}, dropped : Nat]
            BY <2>3 DEF Scalars
        <3> QED
            BY <1>2, <2>3, <3>1, <3>2, <3>3
    <2>4. CASE v \notin Scalars
        BY <1>2, <2>2, <2>4
    <2> QED
        BY <2>3, <2>4
<1> QED
    BY <1>1, <1>2

\* Scalars are trees of every height.
LEMMA ScalarsAreTrees ==
    ASSUME NEW n \in 0..MaxNesting
    PROVE  Scalars \subseteq Trees[n]
BY TreesAre

\* With items that are one less high a container is a tree.
LEMMA ContainersAreTrees ==
    ASSUME NEW n \in 0..MaxNesting, n > 0, NEW kind \in {"array", "object"},
           NEW items \in Seq(Trees[n - 1])
    PROVE  Node(kind, items, 0) \in Trees[n]
<1>1. n # 0
    OBVIOUS
<1>2. Node(kind, items, 0) \in [kind : {"array", "object"}, items : Seq(Trees[n - 1]), dropped : {0}]
    BY DEF Node
<1>3. Trees[n] = Scalars \cup [kind : {"array", "object"}, items : Seq(Trees[n - 1]), dropped : {0}]
    BY <1>1, TreesAre
<1> QED
    BY <1>2, <1>3

\* A marker is a scalar.
LEMMA MarkersAreScalars ==
    ASSUME NEW k \in Nat
    PROVE  Marker(k) \in Scalars
BY DEF Marker, Node, Scalars

-----------------------------------------------------------------------------
(* Shortening one array. *)

\* The first keep items of a sequence and two more.
HeadAnd(q, keep, a, b) == SubSeq(q, 1, keep) \o <<a, b>>

\* What such a sequence r is to q.
IsHeadAnd(r, S, q, keep, a, b) ==
    /\ r \in Seq(S) /\ Len(r) = keep + 2
    /\ \A i \in 1..keep : r[i] = q[i]
    /\ r[keep + 1] = a /\ r[keep + 2] = b

\* They make a sequence in which every item has the place one expects.
LEMMA HeadAndTwo ==
    ASSUME NEW S, NEW q \in Seq(S), NEW keep \in Nat, keep < Len(q), NEW a \in S, NEW b \in S
    PROVE  IsHeadAnd(HeadAnd(q, keep, a, b), S, q, keep, a, b)
<1>1. \A i \in 1..keep : q[i] \in S
    OBVIOUS
<1>2. /\ SubSeq(q, 1, keep) \in Seq(S) /\ Len(SubSeq(q, 1, keep)) = keep
      /\ \A i \in 1..keep : SubSeq(q, 1, keep)[i] = q[i]
    <2>1. /\ SubSeq(q, 1, keep) \in Seq(S)
          /\ Len(SubSeq(q, 1, keep)) = IF 1 =< keep THEN keep - 1 + 1 ELSE 0
          /\ \A i \in 1..(keep - 1 + 1) : SubSeq(q, 1, keep)[i] = q[1 + i - 1]
        BY <1>1, SubSeqProperties
    <2> QED
        BY <2>1
<1>3. PICK h \in Seq(S) : h = SubSeq(q, 1, keep)
    BY <1>2
<1>4. Len(h) = keep /\ \A i \in 1..keep : h[i] = q[i]
    BY <1>2, <1>3
<1>5. /\ h \o <<a, b>> \in Seq(S) /\ Len(h \o <<a, b>>) = keep + 2
      /\ \A i \in 1..keep : (h \o <<a, b>>)[i] = h[i]
      /\ (h \o <<a, b>>)[keep + 1] = a /\ (h \o <<a, b>>)[keep + 2] = b
    BY <1>4, SMTT(60)
<1>6. HeadAnd(q, keep, a, b) = h \o <<a, b>>
    BY <1>3 DEF HeadAnd
<1> QED
    BY <1>4, <1>5, <1>6 DEF IsHeadAnd

\* What is left of a long array: the first items, a marker for those between, the last.
LEMMA ShortenLong ==
    ASSUME NEW n \in 0..MaxNesting, NEW v \in Trees[n], IsLong(v)
    PROVE  LET s == Shorten(v)
               keep == MaxArrayLogItems - 1
           IN  /\ n > 0 /\ s \in Trees[n] /\ s.kind = "array" /\ v.kind = "array"
               /\ s.dropped = 0 /\ v.dropped = 0
               /\ Len(s.items) = keep + 2
               /\ \A i \in 1..keep : s.items[i] = v.items[i]
               /\ s.items[keep + 1] = Marker(Len(v.items) - MaxArrayLogItems)
               /\ s.items[keep + 2] = v.items[Len(v.items)]
<1> DEFINE keep == MaxArrayLogItems - 1
           k == Len(v.items)
           left == k - MaxArrayLogItems
           s == Shorten(v)
<1>1. v.kind = "array" /\ k > MaxArrayLogItems
    BY DEF IsLong
<1>2. n > 0 /\ v.dropped = 0 /\ v.items \in Seq(Trees[n - 1]) /\ n - 1 \in 0..MaxNesting
    BY <1>1, TreeShape, TruncationAssumption
<1>3. /\ k \in Nat /\ keep \in Nat /\ keep < k /\ left \in Nat /\ left = k - keep - 1
      /\ k \in DOMAIN v.items
    BY <1>1, <1>2, TruncationAssumption
<1>4. v.items[k] \in Trees[n - 1] /\ Marker(left) \in Trees[n - 1]
    BY <1>2, <1>3, MarkersAreScalars, ScalarsAreTrees
<1>5. PICK r : r = HeadAnd(v.items, keep, Marker(left), v.items[k])
    OBVIOUS
<1>6. /\ r \in Seq(Trees[n - 1]) /\ Len(r) = keep + 2
      /\ \A i \in 1..keep : r[i] = v.items[i]
      /\ r[keep + 1] = Marker(left) /\ r[keep + 2] = v.items[k]
    <2> HIDE DEF keep, k, left
    <2>1. keep < Len(v.items)
        BY <1>3 DEF k
    <2>2. PICK a \in Trees[n - 1], b \in Trees[n - 1], q \in Seq(Trees[n - 1]) :
              a = Marker(left) /\ b = v.items[k] /\ q = v.items
        BY <1>2, <1>4
    <2>3. r = HeadAnd(q, keep, a, b) /\ keep < Len(q)
        BY <1>5, <2>1, <2>2
    <2>4. /\ r \in Seq(Trees[n - 1]) /\ Len(r) = keep + 2
          /\ \A i \in 1..keep : r[i] = q[i]
          /\ r[keep + 1] = a /\ r[keep + 2] = b
        <3>1. PICK w \in Nat : w = keep
            BY <1>3
        <3>2. PICK S : S = Trees[n - 1]
            OBVIOUS
        <3>3. q \in Seq(S) /\ a \in S /\ b \in S /\ w < Len(q) /\ r = HeadAnd(q, w, a, b)
            BY <2>3, <3>1, <3>2
        <3>4. IsHeadAnd(r, S, q, w, a, b)
            BY <3>3, HeadAndTwo
        <3> QED
            BY <3>1, <3>2, <3>4 DEF IsHeadAnd
    <2> QED
        BY <2>2, <2>4
<1>7. s = Node("array", r, 0)
    BY <1>1, <1>3, <1>5 DEF Shorten, IsLong, TruncateArray, Array, HeadAnd
<1> HIDE DEF s, keep, k, left
<1>8. s.kind = "array" /\ s.items = r /\ s.dropped = 0
    BY <1>7 DEF Node
<1>9. s \in Trees[n]
    BY <1>2, <1>6, <1>7, ContainersAreTrees
<1> QED
    BY <1>1, <1>2, <1>6, <1>8, <1>9 DEF s, keep, k, left

\* Shortening gives a tree of the same kind that is no long array.
LEMMA ShortenKeeps ==
    ASSUME NEW n \in 0..MaxNesting, NEW v \in Trees[n]
    PROVE  Shorten(v) \in Trees[n] /\ Shorten(v).kind = v.kind /\ Short(Shorten(v))
<1>1. CASE IsLong(v)
    BY <1>1, ShortenLong, TruncationAssumption DEF Short
<1>2. CASE ~IsLong(v)
    <2>1. Shorten(v) = v
        BY <1>2 DEF Shorten
    <2>2. v.kind = "array" => Len(v.items) =< MaxArrayLogItems + 1
        <3>1. v.kind = "array" => v.items \in Seq(Trees[n - 1])
            BY TreeShape
        <3> QED
            BY <1>2, <3>1, TruncationAssumption DEF IsLong
    <2> QED
        BY <2>1, <2>2 DEF Short
<1> QED
    BY <1>1, <1>2

-----------------------------------------------------------------------------
(* The walk. *)

\* The item the walk goes on with.
Child(v, i) == IF v.kind = "object" THEN Shorten(v.items[i]) ELSE v.items[i]

\* The items of a container are less high, and so are those the walk goes on with.
LEMMA ChildrenAreTrees ==
    ASSUME NEW n \in 0..MaxNesting, n > 0, NEW v \in Trees[n], NEW i \in DOMAIN v.items
    PROVE  /\ n - 1 \in 0..MaxNesting
           /\ v.items[i] \in Trees[n - 1] /\ Child(v, i) \in Trees[n - 1]
           /\ v.kind = "object" => Short(Child(v, i))
<1>1. n - 1 \in 0..MaxNesting
    BY TruncationAssumption
<1>2. v.items[i] \in Trees[n - 1]
    <2>1. v.items \in Seq(Trees[n - 1])
        BY TreeShape
    <2> QED
        BY <2>1
<1>3. Shorten(v.items[i]) \in Trees[n - 1] /\ Short(Shorten(v.items[i]))
    BY <1>1, <1>2, ShortenKeeps
<1> QED
    BY <1>1, <1>2, <1>3 DEF Child

\* The walk leaves a scalar alone, and of a container everything but the items.
LEMMA WalkAt ==
    ASSUME NEW n \in 0..MaxNesting, NEW v \in Trees[n]
    PROVE  LET w == Walk[n][v]
           IN  /\ w.kind = v.kind /\ w.dropped = v.dropped
               /\ v \in Scalars => w = v
               /\ n > 0 => w = [v EXCEPT !.items = [i \in DOMAIN v.items |-> Walk[n - 1][Child(v, i)]]]
<1>1. CASE n = 0
    <2>1. v \in Scalars
        BY <1>1, TreeShape
    <2>2. Walk[n] = [t \in Scalars |-> t]
        BY <1>1, WalkIs
    <2>3. Walk[n][v] = v
        BY <2>1, <2>2
    <2> QED
        BY <1>1, <2>3
<1>2. CASE n > 0
    <2>1. n # 0
        BY <1>2
    <2>2. Walk[n] = [t \in Trees[n] |-> [t EXCEPT !.items = [i \in DOMAIN t.items |-> Walk[n - 1][Child(t, i)]]]]
        BY <2>1, WalkIs DEF Child
    <2>3. Walk[n][v] = [v EXCEPT !.items = [i \in DOMAIN v.items |-> Walk[n - 1][Child(v, i)]]]
        BY <2>2, Zenon
    <2> DEFINE new == [i \in DOMAIN v.items |-> Walk[n - 1][Child(v, i)]]
    <2>4. v \in [kind : {"leaf", "marker", "array", "object"}, items : {v.items}, dropped : Nat]
        BY TreeShape
    <2>5. v \in Scalars => new = <<>>
        <3>1. v \in Scalars => DOMAIN v.items = {}
            BY TreeShape
        <3> QED
            BY <3>1
    <2>6. v \in Scalars => v.items = <<>>
        BY TreeShape
    <2>7. Walk[n][v] = [v EXCEPT !.items = new]
        BY <2>3
    <2> HIDE DEF new
    <2>8. Walk[n][v].kind = v.kind /\ Walk[n][v].dropped = v.dropped
        BY <2>4, <2>7
    <2>9. v \in Scalars => Walk[n][v] = v
        BY <2>4, <2>5, <2>6, <2>7
    <2> QED
        BY <2>3, <2>8, <2>9
<1> QED
    BY <1>1, <1>2

\* It keeps the number of the items.
LEMMA WalkItems ==
    ASSUME NEW n \in 0..MaxNesting, n > 0, NEW v \in Trees[n]
    PROVE  LET w == Walk[n][v]
           IN  /\ v.items \in Seq(Trees[n - 1])
               /\ DOMAIN w.items = DOMAIN v.items /\ Len(w.items) = Len(v.items)
               /\ \A i \in DOMAIN v.items : w.items[i] = Walk[n - 1][Child(v, i)]
<1> DEFINE new == [i \in DOMAIN v.items |-> Walk[n - 1][Child(v, i)]]
<1>1. v.items \in Seq(Trees[n - 1])
    BY TreeShape
<1>2. Walk[n][v] = [v EXCEPT !.items = new]
    BY WalkAt
<1>3. Len(v.items) \in Nat /\ DOMAIN v.items = 1..Len(v.items)
    BY <1>1
<1>4. DOMAIN new = DOMAIN v.items /\ \A i \in DOMAIN v.items : new[i] = Walk[n - 1][Child(v, i)]
    OBVIOUS
<1>5. v \in [kind : {"leaf", "marker", "array", "object"}, items : {v.items}, dropped : Nat]
    BY TreeShape
<1> HIDE DEF new
<1>6. Walk[n][v].items = new
    BY <1>2, <1>5
<1>7. Len(new) = Len(v.items)
    BY <1>3, <1>4
<1> QED
    BY <1>1, <1>4, <1>6, <1>7

\* The walk of a tree is a tree of the same height.
LEMMA WalkKeeps == \A n \in 0..MaxNesting : \A v \in Trees[n] : Walk[n][v] \in Trees[n]
<1> DEFINE T == {n \in 0..MaxNesting : \A v \in Trees[n] : Walk[n][v] \in Trees[n]}
<1>1. 0 \in T
    <2>1. 0 \in 0..MaxNesting
        BY TruncationAssumption
    <2>2. ASSUME NEW v \in Trees[0] PROVE Walk[0][v] \in Trees[0]
        <3>1. v \in Scalars
            BY <2>1, TreeShape
        <3> QED
            BY <2>1, <3>1, WalkAt
    <2> QED
        BY <2>1, <2>2
<1>2. ASSUME NEW m \in 0..MaxNesting, m \in T, m < MaxNesting PROVE m + 1 \in T
    <2>1. m + 1 \in 0..MaxNesting /\ m + 1 > 0 /\ (m + 1) - 1 = m
        BY <1>2, TruncationAssumption
    <2> DEFINE n == m + 1
    <2>2. ASSUME NEW v \in Trees[n] PROVE Walk[n][v] \in Trees[n]
        <3> DEFINE w == Walk[n][v]
        <3> HIDE DEF n
        <3>n. n \in 0..MaxNesting /\ n > 0 /\ n - 1 = m
            BY <2>1 DEF n
        <3>1. CASE v \in Scalars
            BY <3>1, <3>n, WalkAt
        <3>2. CASE v \notin Scalars
            <4>1. v.kind \in {"array", "object"} /\ v.dropped = 0
                BY <3>2, <3>n, TreeShape
            <4>2. \A i \in DOMAIN v.items : Walk[m][Child(v, i)] \in Trees[m]
                BY <1>2, <3>n, ChildrenAreTrees
            <4>3. /\ v.items \in Seq(Trees[m]) /\ DOMAIN w.items = DOMAIN v.items
                  /\ Len(w.items) = Len(v.items)
                  /\ \A i \in DOMAIN v.items : w.items[i] = Walk[m][Child(v, i)]
                BY <3>n, WalkItems
            <4> DEFINE new == [i \in DOMAIN v.items |-> Walk[m][Child(v, i)]]
            <4>4. new \in Seq(Trees[m])
                <5>1. PICK k \in Nat : DOMAIN v.items = 1..k
                    BY <4>3
                <5>2. new \in [1..k -> Trees[m]]
                    BY <4>2, <5>1
                <5> HIDE DEF new
                <5> QED
                    BY <5>2, FunctionIsSeq
            <4>5. w = [v EXCEPT !.items = new]
                BY <3>n, WalkAt
            <4>6. v \in [kind : {"leaf", "marker", "array", "object"}, items : {v.items}, dropped : Nat]
                BY <3>n, TreeShape
            <4> HIDE DEF new, w
            <4>7. w = Node(v.kind, new, 0)
                BY <4>1, <4>5, <4>6 DEF Node
            <4>8. w \in Trees[n]
                BY <3>n, <4>1, <4>4, <4>7, ContainersAreTrees
            <4> QED
                BY <4>8 DEF w
        <3> QED
            BY <3>1, <3>2
    <2> QED
        BY <2>1, <2>2
<1> HIDE DEF T
<1>3. \A n \in 0..MaxNesting : n \in T
    BY <1>1, <1>2, Heights
<1> QED
    BY <1>3 DEF T

\* What is not a long array is none after the walk.
LEMMA WalkShortTop ==
    ASSUME NEW n \in 0..MaxNesting, NEW v \in Trees[n], Short(v)
    PROVE  Short(Walk[n][v])
<1>1. Walk[n][v].kind = v.kind
    BY WalkAt
<1>2. CASE v.kind = "array"
    <2>1. n > 0
        BY <1>2, TreeShape
    <2>2. Len(Walk[n][v].items) = Len(v.items)
        BY <2>1, WalkItems
    <2> QED
        BY <1>2, <2>2 DEF Short
<1>3. CASE v.kind # "array"
    BY <1>1, <1>3 DEF Short
<1> QED
    BY <1>2, <1>3

\* What makes all fields of a tree short.
LEMMA ShortFieldsAt ==
    ASSUME NEW n \in 0..MaxNesting, NEW v \in Trees[n],
           n > 0 => \A i \in DOMAIN v.items :
                        (v.kind = "object" => Short(v.items[i])) /\ ShortFields[n - 1][v.items[i]]
    PROVE  ShortFields[n][v]
<1>1. CASE n = 0
    <2>1. v \in Scalars
        BY <1>1, TreeShape
    <2>2. ShortFields[n] = [t \in Scalars |-> TRUE]
        BY <1>1, ShortFieldsAre
    <2>3. ShortFields[n][v] = TRUE
        BY <2>1, <2>2, Zenon
    <2> QED
        BY <2>3
<1>2. CASE n > 0
    <2>1. n # 0
        BY <1>2
    <2>2. ShortFields[n] = [t \in Trees[n] |-> \A i \in DOMAIN t.items :
              (t.kind = "object" => Short(t.items[i])) /\ ShortFields[n - 1][t.items[i]]]
        BY <2>1, ShortFieldsAre, Zenon
    <2>3. ShortFields[n][v] = \A i \in DOMAIN v.items :
              (v.kind = "object" => Short(v.items[i])) /\ ShortFields[n - 1][v.items[i]]
        BY <2>2, Zenon
    <2> QED
        BY <1>2, <2>3, Zenon
<1> QED
    BY <1>1, <1>2

\* After the walk no object, however deep, has a long array for a field.
LEMMA WalkShortens == \A n \in 0..MaxNesting : \A v \in Trees[n] : ShortFields[n][Walk[n][v]]
<1> DEFINE T == {n \in 0..MaxNesting : \A v \in Trees[n] : ShortFields[n][Walk[n][v]]}
<1>1. 0 \in T
    <2>1. 0 \in 0..MaxNesting
        BY TruncationAssumption
    <2>2. ASSUME NEW v \in Trees[0] PROVE ShortFields[0][Walk[0][v]]
        <3>1. Walk[0][v] \in Trees[0]
            BY <2>1, WalkKeeps
        <3> QED
            BY <2>1, <3>1, ShortFieldsAt
    <2> QED
        BY <2>1, <2>2
<1>2. ASSUME NEW m \in 0..MaxNesting, m \in T, m < MaxNesting PROVE m + 1 \in T
    <2> DEFINE n == m + 1
    <2>1. n \in 0..MaxNesting /\ n > 0 /\ n - 1 = m
        BY <1>2, TruncationAssumption
    <2>2. \A v \in Trees[m] : ShortFields[m][Walk[m][v]]
        BY <1>2
    <2> HIDE DEF n
    <2>3. ASSUME NEW v \in Trees[n] PROVE ShortFields[n][Walk[n][v]]
        <3> DEFINE w == Walk[n][v]
        <3>1. /\ DOMAIN w.items = DOMAIN v.items /\ w.kind = v.kind
              /\ \A i \in DOMAIN v.items : w.items[i] = Walk[m][Child(v, i)]
            <4>1. w.kind = v.kind
                BY <2>1, WalkAt
            <4> QED
                BY <2>1, <4>1, WalkItems
        <3>2. ASSUME NEW i \in DOMAIN w.items
              PROVE  (w.kind = "object" => Short(w.items[i])) /\ ShortFields[m][w.items[i]]
            <4>1. Child(v, i) \in Trees[m] /\ (v.kind = "object" => Short(Child(v, i)))
                BY <2>1, <3>1, ChildrenAreTrees
            <4>2. w.items[i] = Walk[m][Child(v, i)]
                BY <3>1
            <4>3. v.kind = "object" => Short(Walk[m][Child(v, i)])
                BY <4>1, WalkShortTop
            <4>4. ShortFields[m][Walk[m][Child(v, i)]]
                BY <2>2, <4>1
            <4> HIDE DEF w
            <4> QED
                BY <3>1, <4>2, <4>3, <4>4, Zenon
        <3>3. w \in Trees[n]
            BY <2>1, WalkKeeps
        <3> HIDE DEF w
        <3>4. ShortFields[n][w]
            BY <2>1, <3>2, <3>3, ShortFieldsAt
        <3> QED
            BY <3>4 DEF w
    <2> QED
        BY <2>1, <2>3 DEF n
<1> HIDE DEF T
<1>3. \A n \in 0..MaxNesting : n \in T
    BY <1>1, <1>2, Heights
<1> QED
    BY <1>3 DEF T

-----------------------------------------------------------------------------
(* Accounts. *)

\* What the two items with the same place, or with places apart by so many, must be.
Same(n, v, w, i, by) == Accounts[n][<<v.items[i + by], w.items[i]>>]

\* w has the items of v.
Whole(n, v, w) ==
    /\ Len(w.items) = Len(v.items)
    /\ \A i \in DOMAIN w.items : Same(n, v, w, i, 0)

\* w has a marker at m for so many items of v.
Marked(n, v, w, m, left) ==
    /\ left > 0 /\ w.items[m] = Marker(left)
    /\ \A i \in 1..(m - 1) : Same(n, v, w, i, 0)
    /\ \A i \in (m + 1)..Len(w.items) : Same(n, v, w, i, left - 1)

\* A scalar is an account of itself.
LEMMA ScalarAccounts == \A v \in Scalars : Accounts[0][<<v, v>>]
<1>1. 0 \in 0..MaxNesting
    BY TruncationAssumption
<1>2. Accounts[0] = [p \in Scalars \X Scalars |-> p[2] = p[1]]
    BY <1>1, AccountsAre
<1> SUFFICES ASSUME NEW v \in Scalars PROVE Accounts[0][<<v, v>>]
    OBVIOUS
<1>3. PICK t \in Scalars \X Scalars : t = <<v, v>>
    OBVIOUS
<1>4. Accounts[0][t] = (t[2] = t[1])
    BY <1>2, Zenon
<1>5. t[2] = t[1]
    BY <1>3
<1> QED
    BY <1>3, <1>4, <1>5

\* What makes a tree an account of another one.
LEMMA AccountsAt ==
    ASSUME NEW n \in 0..MaxNesting, n > 0, NEW v \in Trees[n], NEW w \in Trees[n],
           w.kind = v.kind, w.dropped = v.dropped,
           \/ Whole(n - 1, v, w)
           \/ \E m \in DOMAIN w.items : Marked(n - 1, v, w, m, Len(v.items) - (Len(w.items) - 1))
    PROVE  Accounts[n][<<v, w>>]
<1> DEFINE Is(p) ==
              /\ p[2].kind = p[1].kind /\ p[2].dropped = p[1].dropped
              /\ \/ /\ Len(p[2].items) = Len(p[1].items)
                    /\ \A i \in DOMAIN p[2].items : Accounts[n - 1][<<p[1].items[i], p[2].items[i]>>]
                 \/ \E m \in DOMAIN p[2].items :
                       LET left == Len(p[1].items) - (Len(p[2].items) - 1)
                       IN  /\ left > 0 /\ p[2].items[m] = Marker(left)
                           /\ \A i \in 1..(m - 1) : Accounts[n - 1][<<p[1].items[i], p[2].items[i]>>]
                           /\ \A i \in (m + 1)..Len(p[2].items) :
                                 Accounts[n - 1][<<p[1].items[i + left - 1], p[2].items[i]>>]
<1>1. n # 0
    OBVIOUS
<1>2. Accounts[n] = [p \in Trees[n] \X Trees[n] |-> Is(p)]
    BY <1>1, AccountsAre
<1>3. PICK t \in Trees[n] \X Trees[n] : t = <<v, w>>
    OBVIOUS
<1>4. Is(t)
    <2>1. t[1] = v /\ t[2] = w
        BY <1>3
    <2>2. v.items \in Seq(Trees[n - 1]) /\ w.items \in Seq(Trees[n - 1])
        BY TreeShape
    <2>3. CASE Whole(n - 1, v, w)
        <3>1. \A i \in DOMAIN w.items : Accounts[n - 1][<<v.items[i], w.items[i]>>]
            <4> SUFFICES ASSUME NEW i \in DOMAIN w.items
                         PROVE  Accounts[n - 1][<<v.items[i], w.items[i]>>]
                OBVIOUS
            <4>1. i + 0 = i
                BY <2>2
            <4>2. Same(n - 1, v, w, i, 0)
                BY <2>3 DEF Whole
            <4> QED
                BY <4>1, <4>2, Zenon DEF Same
        <3> QED
            BY <2>1, <2>3, <3>1 DEF Whole
    <2>4. CASE \E m \in DOMAIN w.items : Marked(n - 1, v, w, m, Len(v.items) - (Len(w.items) - 1))
        <3> DEFINE left == Len(v.items) - (Len(w.items) - 1)
        <3>1. PICK m \in DOMAIN w.items : Marked(n - 1, v, w, m, left)
            BY <2>4
        <3>2. left \in Int /\ Len(w.items) \in Nat /\ m \in Nat
            BY <2>2
        <3>3. \A i \in 1..(m - 1) : Accounts[n - 1][<<v.items[i], w.items[i]>>]
            <4> SUFFICES ASSUME NEW i \in 1..(m - 1)
                         PROVE  Accounts[n - 1][<<v.items[i], w.items[i]>>]
                OBVIOUS
            <4>1. i + 0 = i
                OBVIOUS
            <4> HIDE DEF left
            <4>2. Same(n - 1, v, w, i, 0)
                BY <3>1, Zenon DEF Marked
            <4> QED
                BY <4>1, <4>2, Zenon DEF Same
        <3>4. \A i \in (m + 1)..Len(w.items) : Accounts[n - 1][<<v.items[i + left - 1], w.items[i]>>]
            <4> HIDE DEF left
            <4> SUFFICES ASSUME NEW i \in (m + 1)..Len(w.items)
                         PROVE  Accounts[n - 1][<<v.items[i + left - 1], w.items[i]>>]
                OBVIOUS
            <4>1. i + (left - 1) = i + left - 1
                BY <3>2
            <4>2. Same(n - 1, v, w, i, left - 1)
                BY <3>1, Zenon DEF Marked
            <4> QED
                BY <4>1, <4>2, Zenon DEF Same
        <3>5. left > 0 /\ w.items[m] = Marker(left)
            <4> HIDE DEF left
            <4> QED
                BY <3>1, Zenon DEF Marked
        <3> QED
            BY <2>1, <3>3, <3>4, <3>5
    <2> QED
        BY <2>3, <2>4
<1> HIDE DEF Is
<1>5. Accounts[n][t]
    BY <1>2, <1>4, Zenon
<1> QED
    BY <1>3, <1>5

\* Every tree is an account of itself.
LEMMA AccountsReflexive == \A n \in 0..MaxNesting : \A v \in Trees[n] : Accounts[n][<<v, v>>]
<1> DEFINE T == {n \in 0..MaxNesting : \A v \in Trees[n] : Accounts[n][<<v, v>>]}
<1>1. 0 \in T
    <2>1. 0 \in 0..MaxNesting /\ \A v \in Trees[0] : v \in Scalars
        BY TruncationAssumption, TreeShape
    <2> QED
        BY <2>1, ScalarAccounts
<1>2. ASSUME NEW m \in 0..MaxNesting, m \in T, m < MaxNesting PROVE m + 1 \in T
    <2> DEFINE n == m + 1
    <2>1. n \in 0..MaxNesting /\ n > 0 /\ n - 1 = m
        BY <1>2, TruncationAssumption
    <2>2. \A v \in Trees[m] : Accounts[m][<<v, v>>]
        BY <1>2
    <2> HIDE DEF n
    <2>3. ASSUME NEW v \in Trees[n] PROVE Accounts[n][<<v, v>>]
        <3>1. \A i \in DOMAIN v.items : i \in Nat /\ v.items[i] \in Trees[m]
            <4>1. v.items \in Seq(Trees[m])
                BY <2>1, TreeShape
            <4> QED
                BY <4>1
        <3>2. Whole(m, v, v)
            <4> SUFFICES ASSUME NEW i \in DOMAIN v.items PROVE Same(m, v, v, i, 0)
                BY DEF Whole
            <4>1. i + 0 = i
                BY <3>1
            <4>2. Accounts[m][<<v.items[i], v.items[i]>>]
                BY <2>2, <3>1
            <4> QED
                BY <4>1, <4>2, Zenon DEF Same
        <3> QED
            BY <2>1, <3>2, AccountsAt
    <2> QED
        BY <2>1, <2>3 DEF n
<1> HIDE DEF T
<1>3. \A n \in 0..MaxNesting : n \in T
    BY <1>1, <1>2, Heights
<1> QED
    BY <1>3 DEF T

\* The walk of a shortened array is an account of the array, if the walks of its items
\* are accounts of them.
LEMMA WalkLongAccounts ==
    ASSUME NEW n \in 0..MaxNesting, NEW v \in Trees[n], IsLong(v),
           \A t \in Trees[n - 1] : Accounts[n - 1][<<t, Walk[n - 1][t]>>]
    PROVE  Accounts[n][<<v, Walk[n][Shorten(v)]>>]
<1> DEFINE s == Shorten(v)
           w == Walk[n][s]
           keep == MaxArrayLogItems - 1
           k == Len(v.items)
           left == k - MaxArrayLogItems
<1>1. /\ n > 0 /\ s \in Trees[n] /\ s.kind = "array" /\ v.kind = "array"
      /\ s.dropped = 0 /\ v.dropped = 0 /\ Len(s.items) = keep + 2
      /\ \A i \in 1..keep : s.items[i] = v.items[i]
      /\ s.items[keep + 1] = Marker(left) /\ s.items[keep + 2] = v.items[k]
    BY ShortenLong
<1> HIDE DEF s
<1>2. n - 1 \in 0..MaxNesting /\ v.items \in Seq(Trees[n - 1]) /\ s.items \in Seq(Trees[n - 1])
    <2>1. n > 0 /\ s \in Trees[n]
        BY <1>1
    <2>2. n - 1 \in 0..MaxNesting
        BY <2>1, TruncationAssumption
    <2> QED
        BY <2>1, <2>2, TreeShape
<1>3. /\ k \in Nat /\ keep \in Nat /\ left \in Nat /\ left > 0 /\ left = k - keep - 1
      /\ DOMAIN s.items = 1..(keep + 2) /\ DOMAIN v.items = 1..k /\ keep < k /\ k > 0
    BY <1>1, <1>2, TruncationAssumption DEF IsLong
<1>4. /\ w \in Trees[n] /\ w.kind = "array" /\ w.dropped = 0
      /\ DOMAIN w.items = 1..(keep + 2) /\ Len(w.items) = keep + 2
      /\ \A i \in 1..(keep + 2) : w.items[i] = Walk[n - 1][s.items[i]]
    <2>1. w \in Trees[n] /\ w.kind = s.kind /\ w.dropped = s.dropped
        BY <1>1, WalkKeeps, WalkAt
    <2>2. /\ DOMAIN w.items = DOMAIN s.items /\ Len(w.items) = Len(s.items)
          /\ \A i \in DOMAIN s.items : w.items[i] = Walk[n - 1][Child(s, i)]
        BY <1>1, WalkItems
    <2>3. \A i \in DOMAIN s.items : Child(s, i) = s.items[i]
        BY <1>1 DEF Child
    <2> HIDE DEF w, keep, k, left
    <2> QED
        BY <1>1, <1>3, <2>1, <2>2, <2>3
<1> HIDE DEF w, keep, k, left
<1>5. w.items[keep + 1] = Marker(left)
    <2>1. Marker(left) \in Scalars /\ Marker(left) \in Trees[n - 1]
        BY <1>2, <1>3, MarkersAreScalars, ScalarsAreTrees
    <2>2. Walk[n - 1][Marker(left)] = Marker(left)
        BY <1>2, <2>1, WalkAt
    <2>3. keep + 1 \in 1..(keep + 2)
        BY <1>3
    <2> QED
        BY <1>1, <1>4, <2>2, <2>3
<1>6. \A i \in 1..keep : Same(n - 1, v, w, i, 0)
    <2> SUFFICES ASSUME NEW i \in 1..keep PROVE Same(n - 1, v, w, i, 0)
        OBVIOUS
    <2>1. i \in 1..(keep + 2) /\ i \in 1..k /\ i + 0 = i
        BY <1>3
    <2>2. w.items[i] = Walk[n - 1][v.items[i]]
        BY <1>1, <1>4, <2>1
    <2>3. v.items[i] \in Trees[n - 1]
        BY <1>2, <1>3, <2>1
    <2>4. Accounts[n - 1][<<v.items[i], Walk[n - 1][v.items[i]]>>]
        BY <2>3
    <2> QED
        BY <2>1, <2>2, <2>4, Zenon DEF Same
<1>7. \A i \in (keep + 1 + 1)..Len(w.items) : Same(n - 1, v, w, i, left - 1)
    <2> SUFFICES ASSUME NEW i \in (keep + 1 + 1)..Len(w.items) PROVE Same(n - 1, v, w, i, left - 1)
        OBVIOUS
    <2>1. i = keep + 2 /\ i + (left - 1) = k /\ keep + 2 \in 1..(keep + 2)
        BY <1>3, <1>4
    <2>2. w.items[i] = Walk[n - 1][v.items[k]]
        BY <1>1, <1>4, <2>1
    <2>3. v.items[k] \in Trees[n - 1]
        <3>1. k \in DOMAIN v.items
            BY <1>3
        <3> QED
            BY <1>2, <3>1, SMTT(30)
    <2>4. Accounts[n - 1][<<v.items[k], Walk[n - 1][v.items[k]]>>]
        BY <2>3
    <2> QED
        BY <2>1, <2>2, <2>4, Zenon DEF Same
<1>8. \E m \in DOMAIN w.items : Marked(n - 1, v, w, m, Len(v.items) - (Len(w.items) - 1))
    <2>1. Len(v.items) - (Len(w.items) - 1) = left
        BY <1>3, <1>4 DEF k
    <2>2. keep + 1 \in DOMAIN w.items /\ (keep + 1) - 1 = keep
        BY <1>3, <1>4
    <2>3. Marked(n - 1, v, w, keep + 1, left)
        BY <1>3, <1>5, <1>6, <1>7, <2>2, Zenon DEF Marked
    <2> QED
        BY <2>1, <2>2, <2>3, Zenon
<1>9. Accounts[n][<<v, w>>]
    BY <1>1, <1>4, <1>8, AccountsAt
<1> QED
    BY <1>9 DEF w, s

\* The walk of a tree, and of what it was shortened to, is an account of the tree.
LEMMA WalkAccounts ==
    \A n \in 0..MaxNesting : \A v \in Trees[n] :
        Accounts[n][<<v, Walk[n][v]>>] /\ Accounts[n][<<v, Walk[n][Shorten(v)]>>]
<1> DEFINE T == {n \in 0..MaxNesting : \A v \in Trees[n] :
                    Accounts[n][<<v, Walk[n][v]>>] /\ Accounts[n][<<v, Walk[n][Shorten(v)]>>]}
<1>1. 0 \in T
    <2>1. 0 \in 0..MaxNesting
        BY TruncationAssumption
    <2>2. ASSUME NEW v \in Trees[0]
          PROVE  Accounts[0][<<v, Walk[0][v]>>] /\ Accounts[0][<<v, Walk[0][Shorten(v)]>>]
        <3>1. v \in Scalars /\ v.kind # "array"
            BY <2>1, TreeShape
        <3>2. Shorten(v) = v
            BY <3>1 DEF Shorten, IsLong
        <3>3. Walk[0][v] = v
            BY <2>1, <3>1, WalkAt
        <3>4. Accounts[0][<<v, v>>]
            BY <3>1, ScalarAccounts
        <3> QED
            BY <3>2, <3>3, <3>4
    <2> QED
        BY <2>1, <2>2
<1>2. ASSUME NEW m \in 0..MaxNesting, m \in T, m < MaxNesting PROVE m + 1 \in T
    <2> DEFINE n == m + 1
    <2>1. n \in 0..MaxNesting /\ n > 0 /\ n - 1 = m
        BY <1>2, TruncationAssumption
    <2>2. \A t \in Trees[m] :
              Accounts[m][<<t, Walk[m][t]>>] /\ Accounts[m][<<t, Walk[m][Shorten(t)]>>]
        BY <1>2
    <2> HIDE DEF n
    <2>3. ASSUME NEW v \in Trees[n] PROVE Accounts[n][<<v, Walk[n][v]>>]
        <3> DEFINE w == Walk[n][v]
        <3>1. w \in Trees[n] /\ w.kind = v.kind /\ w.dropped = v.dropped
            BY <2>1, WalkKeeps, WalkAt
        <3>2. /\ v.items \in Seq(Trees[m])
              /\ DOMAIN w.items = DOMAIN v.items /\ Len(w.items) = Len(v.items)
              /\ \A i \in DOMAIN v.items : w.items[i] = Walk[m][Child(v, i)]
            BY <2>1, WalkItems
        <3> HIDE DEF w
        <3>3. Whole(m, v, w)
            <4> SUFFICES ASSUME NEW i \in DOMAIN w.items PROVE Same(m, v, w, i, 0)
                BY <3>2 DEF Whole
            <4>1. i + 0 = i /\ v.items[i] \in Trees[m]
                BY <3>2
            <4>2. w.items[i] = Walk[m][Child(v, i)]
                BY <3>2
            <4>3. Child(v, i) \in {v.items[i], Shorten(v.items[i])}
                BY DEF Child
            <4>4. Accounts[m][<<v.items[i], Walk[m][Child(v, i)]>>]
                BY <2>2, <4>1, <4>3
            <4> QED
                BY <4>1, <4>2, <4>4, Zenon DEF Same
        <3>4. Accounts[n][<<v, w>>]
            BY <2>1, <3>1, <3>3, AccountsAt
        <3> QED
            BY <3>4 DEF w
    <2>4. ASSUME NEW v \in Trees[n] PROVE Accounts[n][<<v, Walk[n][Shorten(v)]>>]
        <3>1. CASE IsLong(v)
            <4>1. \A t \in Trees[n - 1] : Accounts[n - 1][<<t, Walk[n - 1][t]>>]
                BY <2>1, <2>2
            <4> QED
                BY <2>1, <3>1, <4>1, WalkLongAccounts
        <3>2. CASE ~IsLong(v)
            <4>1. Shorten(v) = v
                BY <3>2 DEF Shorten
            <4> QED
                BY <2>3, <4>1
        <3> QED
            BY <3>1, <3>2
    <2> QED
        BY <2>1, <2>3, <2>4 DEF n
<1> HIDE DEF T
<1>3. \A n \in 0..MaxNesting : n \in T
    BY <1>1, <1>2, Heights
<1> QED
    BY <1>3 DEF T

-----------------------------------------------------------------------------
(* One body. *)

\* A body over the limit is logged as the two ends of a text, or as a walked tree that is
\* no long array and has none for a field; any body within it as it is.  A text does not
\* become a tree, nor a tree a text.
LEMMA BodyIsAccounted ==
    ASSUME NEW a \in JSON \cup Texts
    PROVE  LET r == TruncateBodyForLog(a)
           IN  /\ IsLarge(a) /\ r.kind # "cut" => Short(r) /\ ShortFields[MaxNesting][r]
               /\ r.kind = "text" => r = a
               /\ r.kind = "cut" => r.dropped >= 0 /\ r.dropped < Size(a)
               /\ r.kind \notin {"text", "cut"} => Accounts[MaxNesting][<<a, r>>]
<1> DEFINE r == TruncateBodyForLog(a)
<1>1. CASE a.kind = "text"
    <2>1. Size(a) \in Nat
        <3>1. a \in Texts
            <4>1. a \notin JSON
                <5>1. MaxNesting \in 0..MaxNesting
                    BY TruncationAssumption
                <5>2. \A v \in Trees[MaxNesting] : v.kind \in {"leaf", "marker", "array", "object"}
                    BY <5>1, TreeShape
                <5> QED
                    BY <1>1, <5>2 DEF JSON
            <4> QED
                BY <4>1
        <3> QED
            BY <1>1, <3>1 DEF Size, Texts
    <2>2. CASE IsLarge(a)
        <3> DEFINE half == MaxBodyLogBytes \div 2
        <3>1. half \in Nat /\ half > 0 /\ 2 * half =< MaxBodyLogBytes
            BY TruncationAssumption
        <3>2. r = Node("cut", <<>>, Size(a) - 2 * half)
            BY <1>1, <2>2 DEF TruncateBodyForLog, HeadTailTruncate
        <3> HIDE DEF half
        <3>3. r.kind = "cut" /\ r.dropped = Size(a) - 2 * half
            BY <3>2 DEF Node
        <3>4. r.dropped >= 0 /\ r.dropped < Size(a)
            BY <2>1, <2>2, <3>1, <3>3, TruncationAssumption DEF IsLarge
        <3> QED
            BY <3>3, <3>4
    <2>3. CASE ~IsLarge(a)
        <3>1. r = a
            BY <2>3 DEF TruncateBodyForLog
        <3> QED
            BY <1>1, <2>3, <3>1
    <2> QED
        BY <2>2, <2>3
<1>2. CASE a.kind # "text"
    <2> DEFINE n == MaxNesting
    <2>1. n \in 0..MaxNesting /\ a \in Trees[n]
        BY <1>2, TruncationAssumption DEF JSON, Texts
    <2> HIDE DEF n
    <2>2. CASE IsLarge(a)
        <3>1. r = Walk[n][Shorten(a)]
            BY <1>2, <2>2 DEF TruncateBodyForLog, TruncateJSONArrays, n
        <3>2. Shorten(a) \in Trees[n] /\ Short(Shorten(a))
            BY <2>1, ShortenKeeps
        <3>3. r.kind \in {"leaf", "marker", "array", "object"}
            <4>1. r \in Trees[n]
                BY <2>1, <3>1, <3>2, WalkKeeps
            <4> HIDE DEF r
            <4> QED
                BY <2>1, <4>1, TreeShape
        <3>4. Short(r) /\ ShortFields[n][r]
            BY <2>1, <3>1, <3>2, WalkShortTop, WalkShortens
        <3>5. Accounts[n][<<a, r>>]
            BY <2>1, <3>1, WalkAccounts
        <3> QED
            BY <3>3, <3>4, <3>5 DEF n
    <2>3. CASE ~IsLarge(a)
        <3>1. r = a
            BY <2>3 DEF TruncateBodyForLog
        <3>2. a.kind \in {"leaf", "marker", "array", "object"} /\ Accounts[n][<<a, a>>]
            BY <2>1, TreeShape, AccountsReflexive
        <3> QED
            BY <2>3, <3>1, <3>2 DEF n
    <2> QED
        BY <2>2, <2>3
<1> QED
    BY <1>1, <1>2

-----------------------------------------------------------------------------
(* The loggers. *)

\* The adapter's handler is that of its level and output from SetOutput to SetLevel.
Rebuilt == rebuilt => handler = Handler(EchoLevelToSlog(level), output)

\* What the last words of Fatal and Panic are.
LastWords == LastIs("fatal") \/ LastIs("panic") => last.written

\* What any other entry of the adapter is.
LastLog ==
    LastIs("log") =>
        /\ last.written => last.level >= level
        /\ rebuilt /\ last.level >= level => last.written /\ last.sink = output

\* What the entry of a request is.
LastRequest ==
    LastIs("request") => last.asked \in Bodies /\ last.request_body = TruncateBodyForLog(last.asked)

LoggingInv == TypeOK /\ Rebuilt /\ LastWords /\ LastLog /\ LastRequest

\* It holds at the start: nothing has been logged.
LEMMA LoggingInit == Init => LoggingInv
<1> SUFFICES ASSUME Init PROVE LoggingInv
    OBVIOUS
<1> USE SinksAssumption DEF Init, Levels, DEBUG, INFO, WARN, ERROR, OFF
<1>1. TypeOK
    <2>1. default \in [level : Levels, sink : Sinks] /\ handler = default
        OBVIOUS
    <2>2. level \in DEBUG..OFF /\ output \in Sinks
        OBVIOUS
    <2>3. rebuilt \in BOOLEAN /\ last = Nothing
        OBVIOUS
    <2> QED
        BY <2>1, <2>2, <2>3 DEF TypeOK
<1>2. Rebuilt
    BY DEF Rebuilt
<1>3. LastWords /\ LastLog /\ LastRequest
    BY DEF LastWords, LastLog, LastRequest, LastIs
<1> QED
    BY <1>1, <1>2, <1>3 DEF LoggingInv

\* A handler's level is one of slog's: OFF becomes INFO.
LEMMA SlogLevel ==
    ASSUME NEW l \in DEBUG..OFF
    PROVE  EchoLevelToSlog(l) \in Levels /\ (l \in Levels => EchoLevelToSlog(l) = l)
BY DEF EchoLevelToSlog, Levels, DEBUG, INFO, WARN, ERROR, OFF

\* Every step keeps it: only Log, FatalOrPanic and RequestDone make an entry, and the
\* setters and SetOutput's rebuilt handler wait until it has been looked at.
LEMMA LoggingStep == LoggingInv /\ [Next]_vars => LoggingInv'
<1> SUFFICES ASSUME LoggingInv, [Next]_vars PROVE LoggingInv'
    OBVIOUS
<1>0. TypeOK /\ Rebuilt /\ LastWords /\ LastLog /\ LastRequest
    BY DEF LoggingInv
<1>1. CASE Continue
    <2>1. /\ last' = Nothing
          /\ UNCHANGED <<default, handler, level, output, rebuilt>>
        BY <1>1 DEF Continue
    <2>2. TypeOK' /\ Rebuilt'
        BY <1>0, <2>1 DEF TypeOK, Rebuilt
    <2>3. LastWords' /\ LastLog' /\ LastRequest'
        BY <2>1 DEF LastWords, LastLog, LastRequest, LastIs
    <2> QED
        BY <2>2, <2>3 DEF LoggingInv
<1>2. CASE \E l \in DEBUG..OFF : SetLevel(l)
    <2>1. PICK l \in DEBUG..OFF : SetLevel(l)
        BY <1>2
    <2>2. /\ last = Nothing /\ level' = l /\ rebuilt' = FALSE
          /\ UNCHANGED <<last, default, handler, output>>
        BY <2>1 DEF SetLevel, Ready
    <2>3. TypeOK' /\ Rebuilt'
        BY <1>0, <2>2 DEF TypeOK, Rebuilt
    <2>4. LastWords' /\ LastLog' /\ LastRequest'
        BY <2>2 DEF LastWords, LastLog, LastRequest, LastIs
    <2> QED
        BY <2>3, <2>4 DEF LoggingInv
<1>3. CASE \E sink \in Sinks : SetOutput(sink)
    <2>1. PICK sink \in Sinks : SetOutput(sink)
        BY <1>3
    <2>2. /\ last = Nothing /\ output' = sink /\ rebuilt' = TRUE
          /\ handler' = Handler(EchoLevelToSlog(level), sink)
          /\ UNCHANGED <<last, default, level>>
        BY <2>1 DEF SetOutput, Ready
    <2>3. handler' \in [level : Levels, sink : Sinks]
        <3>1. EchoLevelToSlog(level) \in Levels
            BY <1>0, SlogLevel DEF TypeOK
        <3> QED
            BY <2>2, <3>1 DEF Handler
    <2>4. TypeOK'
        BY <1>0, <2>2, <2>3 DEF TypeOK
    <2>5. Rebuilt'
        BY <2>2 DEF Rebuilt, Handler, EchoLevelToSlog
    <2>6. LastWords' /\ LastLog' /\ LastRequest'
        BY <2>2 DEF LastWords, LastLog, LastRequest, LastIs
    <2> QED
        BY <2>4, <2>5, <2>6 DEF LoggingInv
<1>4. CASE \E l \in Levels : Log(l)
    <2>1. PICK l \in Levels : Log(l)
        BY <1>4
    <2>2. last' = Entry("log", l, ShouldLog(l)) /\ UNCHANGED <<default, handler, level, output, rebuilt>>
        BY <2>1 DEF Log
    <2>3. /\ last'.op = "log" /\ last'.level = l /\ last'.sink = handler.sink
          /\ last'.written <=> l >= level /\ l >= handler.level
        BY <2>2 DEF Entry, ShouldLog
    <2>4. TypeOK' /\ Rebuilt' /\ LastWords' /\ LastRequest'
        BY <1>0, <2>2, <2>3 DEF TypeOK, Rebuilt, LastWords, LastRequest, LastIs
    <2>5. LastLog'
        <3>1. last'.written => last'.level >= level'
            BY <2>2, <2>3
        <3>2. ASSUME rebuilt', last'.level >= level' PROVE last'.written /\ last'.sink = output'
            <4>1. handler = Handler(EchoLevelToSlog(level), output)
                BY <1>0, <2>2, <3>2 DEF Rebuilt
            <4>2. level \in DEBUG..OFF /\ l >= level /\ l \in Levels
                BY <1>0, <2>2, <2>3, <3>2 DEF TypeOK
            <4>3. EchoLevelToSlog(level) = level
                BY <4>2, SlogLevel DEF Levels, DEBUG, ERROR, OFF
            <4>4. handler.level = level /\ handler.sink = output
                BY <4>1, <4>3 DEF Handler
            <4> QED
                BY <2>2, <2>3, <4>2, <4>4
        <3> QED
            BY <3>1, <3>2 DEF LastLog
    <2> QED
        BY <2>4, <2>5 DEF LoggingInv
<1>5. CASE \E op \in {"fatal", "panic"} : FatalOrPanic(op)
    <2>1. PICK op \in {"fatal", "panic"} : FatalOrPanic(op)
        BY <1>5
    <2>2. last' = Entry(op, ERROR, TRUE) /\ UNCHANGED <<default, handler, level, output, rebuilt>>
        BY <2>1 DEF FatalOrPanic
    <2>3. last'.op = op /\ (last'.written <=> ERROR >= handler.level)
        BY <2>2 DEF Entry
    <2>4. ERROR >= handler.level
        BY <1>0 DEF TypeOK, Levels, DEBUG, ERROR
    <2>5. TypeOK' /\ Rebuilt' /\ LastWords' /\ LastLog' /\ LastRequest'
        BY <1>0, <2>2, <2>3, <2>4 DEF TypeOK, Rebuilt, LastWords, LastLog, LastRequest, LastIs
    <2> QED
        BY <2>5 DEF LoggingInv
<1>6. CASE \E body \in Bodies : RequestDone(body, body)
    <2>1. PICK body \in Bodies : RequestDone(body, body)
        BY <1>6
    <2>2. UNCHANGED <<default, handler, level, output, rebuilt>>
        BY <2>1 DEF RequestDone
    <2>3. last'.op = "request" /\ last'.asked = body /\ last'.request_body = TruncateBodyForLog(body)
        BY <2>1 DEF RequestDone
    <2>4. TypeOK' /\ Rebuilt'
        BY <1>0, <2>2, <2>3 DEF TypeOK, Rebuilt
    <2>5. LastWords' /\ LastLog' /\ LastRequest'
        BY <2>3 DEF LastWords, LastLog, LastRequest, LastIs
    <2> QED
        BY <2>4, <2>5 DEF LoggingInv
<1>7. CASE UNCHANGED vars
    BY <1>0, <1>7 DEF vars, LoggingInv, TypeOK, Rebuilt, LastWords, LastLog, LastRequest, LastIs
<1> QED
    BY <1>1, <1>2, <1>3, <1>4, <1>5, <1>6, <1>7 DEF Next

\* The invariant of the loggers.
LEMMA LoggingInvariant == Spec => []LoggingInv
<1>1. LoggingInv /\ [Next]_vars => LoggingInv'
    BY LoggingStep
<1> QED
    BY LoggingInit, <1>1, PTL DEF Spec

\* Handlers have a level of slog's and a writer, whatever level echo asks for.
THEOREM LoggingTypes == Spec => []TypeOK
<1>1. LoggingInv => TypeOK
    BY DEF LoggingInv
<1> QED
    BY LoggingInvariant, <1>1, PTL

\* In every order of SetLevel and SetOutput the adapter writes nothing below its level,
\* from SetOutput to the next SetLevel everything else to its output, and the last words
\* of Fatal and Panic always, also with the level OFF.
THEOREM LevelHonoured == Spec => []LevelIsHonoured
<1>1. LoggingInv => LevelIsHonoured
    BY DEF LoggingInv, LevelIsHonoured, LastWords, LastLog
<1> QED
    BY LoggingInvariant, <1>1, PTL

\* Of a body over the limit no array is logged long that is its top or the field of an
\* object, however deep the body is nested.
THEOREM ArraysShortened == Spec => []LongArraysAreShortened
<1>1. LoggingInv => LongArraysAreShortened
    <2> SUFFICES ASSUME LoggingInv, LastIs("request"), IsLarge(last.asked),
                        last.request_body.kind # "cut"
                 PROVE  Short(last.request_body) /\ ShortFields[MaxNesting][last.request_body]
        BY DEF LongArraysAreShortened
    <2>1. last.asked \in JSON \cup Texts /\ last.request_body = TruncateBodyForLog(last.asked)
        BY BodiesAssumption DEF LoggingInv, LastRequest
    <2> QED
        BY <2>1, BodyIsAccounted
<1> QED
    BY LoggingInvariant, <1>1, PTL

\* What truncateBodyForLog leaves out of a body is counted: every marker, at any depth,
\* counts exactly the items it stands for, and of a text no byte is shown twice.
THEOREM NothingUncounted == Spec => []NothingIsLostUncounted
<1>1. LoggingInv => NothingIsLostUncounted
    <2> SUFFICES ASSUME LoggingInv, LastIs("request") PROVE NothingIsLostUncounted
        BY DEF NothingIsLostUncounted
    <2>1. last.asked \in JSON \cup Texts /\ last.request_body = TruncateBodyForLog(last.asked)
        BY BodiesAssumption DEF LoggingInv, LastRequest
    <2>2. PICK a, r : a = last.asked /\ r = last.request_body
        OBVIOUS
    <2>3. /\ r.kind = "text" => r = a
          /\ r.kind = "cut" => r.dropped >= 0 /\ r.dropped < Size(a)
          /\ r.kind \notin {"text", "cut"} => Accounts[MaxNesting][<<a, r>>]
        BY <2>1, <2>2, BodyIsAccounted
    <2> QED
        BY <2>2, <2>3 DEF NothingIsLostUncounted
<1> QED
    BY LoggingInvariant, <1>1, PTL
=============================================================================
