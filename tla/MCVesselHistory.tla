-------------------------- MODULE MCVesselHistory --------------------------
(***************************************************************************)
(* A small instance of Replay and VesselProfile over one river: a tow that *)
(* goes in two cuts, at first in the middle of a chain of four locks, of   *)
(* which the lower three are looked at.                                    *)
(***************************************************************************)
EXTENDS VesselHistory

CONSTANTS tow

MCNameOf == [b \in Boats |-> b]
MCHome == [b \in Boats |-> 4]
MCSimLocks == 1 .. 3
MCCovered == 1 .. 3

\* Bounds on the lockages that are not stored: before she is heard, and from then on.
MaxMissing == 2
MaxLate == 1

\* Bound on what happens to her at the locks while she is heard twice; more of her points are
\* looked at without lockages.  What is longer than that begins later.
MaxData == 3
Later == 2

\* Requests come once there is a history to look back on, and she was heard.
FirstRequest == 8

Bound ==
    /\ Cardinality(made \ rows) <= IF heard = {} THEN MaxMissing ELSE MaxLate
    /\ Cardinality(made) > MaxData => \A c \in made : c.at >= Later
    /\ heard # {} /\ made # {} =>
         /\ Cardinality(heard) <= IF Cardinality(made) <= MaxData THEN 2 ELSE 1
         /\ \A f \in heard : f.at > FirstRequest - Cardinality(heard)
    /\ awaits # "idle" => clock >= FirstRequest /\ heard # {}
=============================================================================
