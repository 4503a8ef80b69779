--------------------------- MODULE MCTransitTable ---------------------------
(***************************************************************************)
(* A small instance of TransitTable: a big tow that goes in two cuts and a *)
(* small one, on both sides of two neighbouring locks.                     *)
(***************************************************************************)
EXTENDS TransitTable, TLC

CONSTANTS big, small, r1, r2

MCNameOf == [b \in Boats |-> b]
MCHome == [b \in Boats |-> IF b = small THEN 2 * LockCount ELSE 0]
Users == Permutations(Requests)
=============================================================================
