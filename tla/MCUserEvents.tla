---------------------------- MODULE MCUserEvents ----------------------------
(***************************************************************************)
(* Instances of UserEvents for TLC: the second reader and the second       *)
(* client are there to meet the first one.                                 *)
(***************************************************************************)
EXTENDS UserEvents

CONSTANTS r1, r2, c1, c2
=============================================================================
