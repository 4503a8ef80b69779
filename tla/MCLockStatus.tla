---------------------------- MODULE MCLockStatus ----------------------------
(***************************************************************************)
(* A small instance of RiverPulse and of the LockStatus it calls: a        *)
(* double-cut tow, a medium one and a pleasure craft; on the water two     *)
(* tows, which score more than an idle lock, less than a full one, or      *)
(* nearly as much, or one boat that hardly scores; and at the other locks  *)
(* nothing, one flag, flags alone, or a queue.                             *)
(***************************************************************************)
EXTENDS RiverPulse

CONSTANTS big, medium, yacht

MCBarges == [t \in Tows |-> CASE t = big -> 15 [] t = medium -> 6 [] t = yacht -> 0]
MCFleets == {[commercial |-> 2, others |-> 0], [commercial |-> 0, others |-> 1]}
MCRests == {[tied |-> FALSE, queued |-> p = 20, points |-> p] : p \in {0, 10, 20, 40}}
=============================================================================
