---------------------------- MODULE MCBookingRules ----------------------------
(* Instances of BookingRules for TLC: a word of 64 nanoseconds, two-hour days. *)
EXTENDS BookingRules

\* The defaults, zero, a negative number, small ones, and numbers whose products
\* wrap to a negative, to zero and to a positive duration.
TheEnvironments ==
    [ttl : {Unset, 1, 3, 40, 64, 65}, min : {NotANumber, -1, 2, 16, 33}, max : {Unset, 0, 1, 2, 17}]
=============================================================================
