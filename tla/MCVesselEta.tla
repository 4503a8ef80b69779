----------------------------- MODULE MCVesselEta -----------------------------
(***************************************************************************)
(* VesselEta with the numbers of the code: a tick is five minutes, and the *)
(* vessel is above, between or below the Red Wing checkpoints.             *)
(***************************************************************************)
EXTENDS VesselEta

MCTypical == [w \in Ways |-> IF w = 1 THEN [lo |-> 8, hi |-> 11] ELSE [lo |-> 11, hi |-> 15]]
MCMeasured == [w \in Ways |-> IF w = 1 THEN 225 ELSE 226]

Times(first, middle, last) == [p10 |-> first, med |-> middle, p90 |-> last]
MCFullModel ==
    [k \in Ways \X BOOLEAN |->
        CASE k = <<1, FALSE>>  -> Times(1213, 2484, 4986)
          [] k = <<1, TRUE>>   -> Times(2203, 2518, 3161)
          [] k = <<-1, FALSE>> -> Times(1528, 1810, 6058)
          [] k = <<-1, TRUE>>  -> Times(1630, 2429, 6416)]
MCDirectModel ==
    [k \in Ways \X BOOLEAN |->
        CASE k = <<1, FALSE>>  -> Times(1305, 1674, 2996)
          [] k = <<1, TRUE>>   -> Times(2203, 2518, 3161)
          [] k = <<-1, FALSE>> -> Times(1528, 1810, 2118)
          [] k = <<-1, TRUE>>  -> Times(1566, 2280, 2632)]
=============================================================================
