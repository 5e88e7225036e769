---------------------------- MODULE LogTruncation ----------------------------
(***************************************************************************)
(* common/http/truncate.go on JSON trees: a value is a leaf, an array or   *)
(* an object, and Size stands for the bytes of its text.  What the code    *)
(* does by recursion is a function of the height of the tree.              *)
(***************************************************************************)
EXTENDS Integers, SequencesExt

CONSTANTS
    MaxBodyLogBytes, MaxArrayLogItems,  \* 512 and 4
    MaxNesting                          \* json.Unmarshal refuses what is deeper (10000)

ASSUME TruncationAssumption ==
    /\ MaxBodyLogBytes \in Nat /\ MaxBodyLogBytes > 1
    /\ MaxArrayLogItems \in Nat \ {0}
    /\ MaxNesting \in Nat

Node(kind, items, dropped) == [kind |-> kind, items |-> items, dropped |-> dropped]
Leaf          == Node("leaf", <<>>, 0)
Array(items)  == Node("array", items, 0)
Object(items) == Node("object", items, 0)
Marker(n)     == Node("marker", <<>>, n)
Text(bytes)   == Node("text", <<>>, bytes)      \* no JSON, half of it, or too deep

\* Trees[n] are the values with at most n containers around each other.
Scalars == [kind : {"leaf", "marker"}, items : {<<>>}, dropped : Nat]
Trees[n \in 0..MaxNesting] ==
    IF n = 0 THEN Scalars
    ELSE Scalars \cup [kind : {"array", "object"}, items : Seq(Trees[n - 1]), dropped : {0}]
JSON  == Trees[MaxNesting]
Texts == [kind : {"text"}, items : {<<>>}, dropped : Nat]

SizeUpTo[n \in 0..MaxNesting] ==
    IF n = 0 THEN [v \in Scalars |-> 1]
    ELSE [v \in Trees[n] |->
             1 + FoldLeft(LAMBDA sum, item : sum + SizeUpTo[n - 1][item], 0, v.items)]
Size(v) == IF v.kind = "text" THEN v.dropped ELSE SizeUpTo[MaxNesting][v]
IsLarge(v) == ~(Size(v) =< MaxBodyLogBytes)

-----------------------------------------------------------------------------
\* Mutant: the marker counts the last item too.
TruncateArrayMiscounted(v) ==
    LET keep == MaxArrayLogItems - 1
        n == Len(v.items)
    IN  Array(SubSeq(v.items, 1, keep) \o <<Marker(n - keep), v.items[n]>>)

\* The first items, a marker that counts those left out, and the last.
TruncateArray(v) ==
    LET keep == MaxArrayLogItems - 1
        n == Len(v.items)
    IN  Array(SubSeq(v.items, 1, keep) \o <<Marker(n - keep - 1), v.items[n]>>)

IsLong(v) == v.kind = "array" /\ Len(v.items) > MaxArrayLogItems
Shorten(v) == IF IsLong(v) THEN TruncateArray(v) ELSE v

\* Mutant: the walk stops at an array that has been shortened.
WalkOnce[n \in 0..MaxNesting] ==
    IF n = 0 THEN [v \in Scalars |-> v]
    ELSE [v \in Trees[n] |-> [v EXCEPT !.items = [i \in DOMAIN @ |->
             IF v.kind = "object" /\ IsLong(@[i]) THEN TruncateArray(@[i])
             ELSE WalkOnce[n - 1][@[i]]]]]
TruncateJSONArraysOnce(v) == WalkOnce[MaxNesting][v]

\* An array is shortened when it is the child of an object; the items of an array are
\* walked, and those that are arrays themselves stay as long as they are.
Walk[n \in 0..MaxNesting] ==
    IF n = 0 THEN [v \in Scalars |-> v]
    ELSE [v \in Trees[n] |-> [v EXCEPT !.items = [i \in DOMAIN @ |->
             Walk[n - 1][IF v.kind = "object" THEN Shorten(@[i]) ELSE @[i]]]]]
TruncateJSONArrays(v) == Walk[MaxNesting][v]

\* A text keeps its first and its last half.
HeadTailTruncate(v) ==
    LET half == MaxBodyLogBytes \div 2
    IN  [head |-> half, tail |-> half, dropped |-> Size(v) - 2 * half]

\* JSON that is still too large after the walk is logged as it is.
TruncateBodyForLog(v) ==
    CASE ~IsLarge(v) -> v
      [] IsLarge(v) /\ v.kind = "text" -> Node("cut", <<>>, HeadTailTruncate(v).dropped)
      [] IsLarge(v) /\ v.kind # "text" -> TruncateJSONArrays(Shorten(v))

-----------------------------------------------------------------------------
(* What a logged tree is of the tree it was made from. *)

\* No field of an object, however deep, is a long array; a marker counts as an item.
Short(v) == v.kind = "array" => Len(v.items) =< MaxArrayLogItems + 1
ShortFields[n \in 0..MaxNesting] ==
    IF n = 0 THEN [v \in Scalars |-> TRUE]
    ELSE [v \in Trees[n] |->
             \A i \in DOMAIN v.items :
                 /\ v.kind = "object" => Short(v.items[i])
                 /\ ShortFields[n - 1][v.items[i]]]

\* p[2] is an account of p[1]: of the same kind, with the same items or with a marker
\* for exactly those between its neighbours, and every item that is shown is one of
\* the item whose place it has, however deep.
Accounts[n \in 0..MaxNesting] ==
    IF n = 0 THEN [p \in Scalars \X Scalars |-> p[2] = p[1]]
    ELSE [p \in Trees[n] \X Trees[n] |->
             LET was == p[1].items
                 is  == p[2].items
             IN  /\ p[2].kind = p[1].kind /\ p[2].dropped = p[1].dropped
                 /\ \/ /\ Len(is) = Len(was)
                       /\ \A i \in DOMAIN is : Accounts[n - 1][<<was[i], is[i]>>]
                    \/ \E m \in DOMAIN is :
                          LET left == Len(was) - (Len(is) - 1)
                          IN  /\ left > 0 /\ is[m] = Marker(left)
                              /\ \A i \in 1..(m - 1) : Accounts[n - 1][<<was[i], is[i]>>]
                              /\ \A i \in (m + 1)..Len(is) :
                                    Accounts[n - 1][<<was[i + left - 1], is[i]>>]]
=============================================================================
