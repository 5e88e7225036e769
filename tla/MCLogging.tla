------------------------------- MODULE MCLogging -------------------------------
(* Instances of Logging for TLC: bodies up to three levels deep. *)
EXTENDS Logging

\* Leaves, long and short arrays and fields of them; sequences of those; and fields
\* and arrays of these.
Leaves(n) == Array([i \in 1..n |-> Leaf])
Flat == {Leaf, Leaves(0), Leaves(3), Leaves(5), Object(<<Leaf>>), Object(<<Leaves(5)>>)}
Nested ==
    Flat \cup {Object(s) : s \in SeqOf(Flat, 2)} \cup {Array(s) : s \in SeqOf(Flat, 2)}
         \cup {Array(<<v, w, v, w>>) : v, w \in Flat}
Deep ==
    Nested \cup {Object(<<v>>) : v \in Nested} \cup {Array(<<v, Leaf, v>>) : v \in Nested}
TheBodies == Deep \cup {Text(n) : n \in 0..9}
=============================================================================
