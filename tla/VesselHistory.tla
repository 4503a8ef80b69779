---------------------------- MODULE VesselHistory ----------------------------
(***************************************************************************)
(* The two pages on the past of one vessel, GET /replay and                *)
(* GET /vessel-profile, over one river.                                    *)
(***************************************************************************)
EXTENDS Replay, VesselProfile

\* ProfileIsRight where nothing was heard and nothing is asked: a profile depends on the stored
\* lockages alone, and each set of them occurs in such a state.
EveryProfileIsRight == heard = {} /\ awaits = "idle" => ProfileIsRight

=============================================================================
