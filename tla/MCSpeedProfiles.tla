-------------------------- MODULE MCSpeedProfiles --------------------------
(***************************************************************************)
(* A small instance of SpeedProfiles: two requests that may write the      *)
(* profiles of two keys in opposite orders.                                *)
(***************************************************************************)
EXTENDS SpeedProfiles

CONSTANTS r1, r2, k1, k2
=============================================================================
