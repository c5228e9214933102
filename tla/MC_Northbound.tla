---------------------------- MODULE MC_Northbound ----------------------------
(***************************************************************************)
(* Two sessions, and a list entry with a leaf in it.  Two edits can meet in *)
(* one node, or one session removes the entry while the other puts the leaf *)
(* into it, also with a request that its session has given up.  A third     *)
(* session adds no new way for a copy to grow stale.                        *)
(***************************************************************************)
EXTENDS Northbound, TLC

CONSTANTS c1, c2, entry, leaf, set

MCClient == {c1, c2}
MCNode == {entry, leaf}
MCAbove == [n \in MCNode |-> IF n = leaf THEN {entry} ELSE {}]
MCValue == {set}
\* The sessions are alike.
MCSymmetry == Permutations(MCClient)
=============================================================================
