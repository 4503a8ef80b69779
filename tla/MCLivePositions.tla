-------------------------- MODULE MCLivePositions --------------------------
(***************************************************************************)
(* A small instance of LivePositions.  Lock l1 is at mile 0 and l2 at mile *)
(* 8; only the way up from l1 has enough samples for a median.  The        *)
(* antenna at mile 12 reaches 2 miles.  Vessel v2 may be heard without a   *)
(* name.                                                                   *)
(***************************************************************************)
EXTENDS LivePositions

CONSTANTS l1, l2, v1, v2

MCLockMile == [k \in Locks |-> IF k = l1 THEN 0 ELSE 8]
MCLegTime == [leg \in Locks \X {1, -1} |-> IF leg = <<l1, 1>> THEN 2 ELSE 0]
=============================================================================
