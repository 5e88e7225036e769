-------------------------- MODULE MCServiceProcess --------------------------
(* Instances of ServiceProcess for TLC. *)
EXTENDS ServiceProcess

CONSTANTS r1, r2, h1, h2
=============================================================================
