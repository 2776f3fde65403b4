--------------------------- MODULE MCSgdmaEngine ---------------------------
(***************************************************************************)
(* Instances of SgdmaEngine for TLC: a transfer of three descriptors (so   *)
(* that there is a middle) and transfers of one or two.                    *)
(***************************************************************************)
EXTENDS SgdmaEngine

CONSTANTS s1, s2, a1, a2

\* s1 has the long transfer and the split request.
MCDescNum == [x \in Xfers |-> IF x = s1 THEN 3 ELSE IF x = a1 THEN 2 ELSE 1]
MCParts   == [x \in Syncs |-> IF x = s1 THEN 2 ELSE 1]
=============================================================================
