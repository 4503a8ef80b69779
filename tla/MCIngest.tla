------------------------------ MODULE MCIngest ------------------------------
(***************************************************************************)
(* A small instance of IngestStore.  b1 and b2 write the rows of vessels   *)
(* v1 and v2 in opposite orders and both carry the lock observation o1;    *)
(* the position x2 claims a time far in the future.  b3 updates the live   *)
(* row of the lock l1 and then carries a position without mmsi, which is   *)
(* malformed in the runs that say so.                                      *)
(***************************************************************************)
EXTENDS IngestStore, TLC

CONSTANTS r1, r2, b1, b2, b3, x1, y1, x2, y2, o1, k1, m1, v1, v2, l1, cabin

MCBatchEvents == b1 :> <<x1, o1, y1>> @@ b2 :> <<y2, o1, x2>> @@ b3 :> <<k1, m1>>

\* The two crossing batches alone, the shared event last, for the liveness run.
MCCrossBatchEvents == b1 :> <<x1, y1, o1>> @@ b2 :> <<y2, x2, o1>>

MCBatchSource == [b \in Batches |-> cabin]
MCEventType ==
    [e \in Events |-> CASE e = o1 -> "lock_status"
                        [] e = k1 -> "lock_live_state"
                        [] OTHER  -> "ais_position"]
MCSubject ==
    [e \in Events |-> CASE e \in {x1, x2} -> v1
                        [] e \in {y1, y2} -> v2
                        [] e = k1 -> l1
                        [] OTHER  -> NoSubject]
MCObservedAt == [e \in Events |-> CASE e = x2 -> 9 [] e \in {x1, y1} -> 1 [] OTHER -> 0]

Slots == Permutations(Requests)
=============================================================================
