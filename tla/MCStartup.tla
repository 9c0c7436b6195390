----------------------------- MODULE MCStartup -----------------------------
(***************************************************************************)
(* Values of the constants of Startup for TLC: two processes, one of them  *)
(* without workers.  A unit of time is 250 ms.                             *)
(***************************************************************************)
EXTENDS Startup

CONSTANTS p1, p2

Counts == [p \in {p1, p2} |-> IF p = p1 THEN 2 ELSE 0]
=============================================================================
