--------------------------- MODULE ArrivalBlocks ---------------------------
(***************************************************************************)
(* The second half of GET /next-vessel: when the tows found by NextVessel  *)
(* come by.  For each of the first few, in their order, the handler asks   *)
(* for her newest position twice more, once for an estimate from her       *)
(* position and speed and once for the arrival band, while she moves on.   *)
(*                                                                         *)
(* Times of an answer are tenths of a minute after the request, speeds     *)
(* half miles per hour; a tick of the clock is PerHour to the hour.        *)
(***************************************************************************)
EXTENDS NextVessel, EtaBands, Sequences

CONSTANTS
    Typical,      \* [Ways -> speeds from lo to hi], SPEED_HINT_NV
    Early,        \* p10 to the Med and Late of NextVessel
    UnderWay,     \* age below which a band is LIVE_UNDERWAY
    ReckonFor,    \* age up to which it is DEAD_RECKONED_FROM_LIVE
    MaxBoats      \* MAX_BOATS_PER_DIRECTION

ASSUME SpeedsAssumption ==
    /\ Speeds \subseteq Nat /\ Typical \in [Ways -> SpeedRange]
    /\ \A w \in Ways : Typical[w].lo <= Typical[w].hi
ASSUME EarlyAssumption ==
    Early \in [Locks \X BOOLEAN -> Nat] /\ \A leg \in Locks \X BOOLEAN : Early[leg] <= Med[leg]
ASSUME BlocksAssumption ==
    {UnderWay, ReckonFor, MaxBoats} \subseteq Nat /\ LiveFor < UnderWay /\ UnderWay <= ReckonFor

Sources == {"lock", "live", "reckoned"}
Block == [tow : Candidate, live : Miles \cup {Unknown}, estimate : Nat \cup {Unknown},
          source : Sources, band : Band]

VARIABLES
    blocks,    \* the blocks of the answer so far
    estimated  \* the candidate in hand and her live estimate, none or one

answer == <<blocks, estimated>>
blockVars == <<vars, answer>>

----------------------------------------------------------------------------
(* What a position says about the arrival                                  *)

Age(p) == asked - p.at

\* Tenths of a mile left to the user, negative past him.
Ahead(p) == 10 * way * (User - p.mile)

\* Where she would be by now, and how far that leaves her.
ReckonedAhead(p) == Ahead(p) - (5 * p.speed * Age(p)) \div PerHour

\* build_live_estimate: heard just now, moving, her way, not far past the user or from him.
LiveEstimate(p) ==
    LET off == Distance(Ahead(p), 0)
    IN  IF /\ p # Unknown /\ Age(p) <= LiveFor /\ p.speed >= 2
           /\ Ahead(p) >= -10 * Passing /\ p.course = way /\ off <= 150
        THEN IF off < 3 THEN 0 ELSE TimeFor(off, p.speed)
        ELSE Unknown

UnderWayNow(p) == p # Unknown /\ Age(p) < UnderWay /\ p.speed >= 6 /\ Ahead(p) \in 2 .. 199

Reckonable(p) ==
    p # Unknown /\ Age(p) \in UnderWay .. ReckonFor /\ p.speed >= 6 /\ ReckonedAhead(p) \in 1 .. 250

\* The times of the lock feed, from her departure on.
LockBand(c) ==
    LET after(t) == ((t - Elapsed(c)) * 600) \div PerHour
    IN  [p10 |-> after(Early[Leg(c)]), med |-> after(Med[Leg(c)]), p90 |-> after(Late[Leg(c)])]

\* compute_antenna_verified_bands, or else the lock feed.
Arrival(c, p) ==
    CASE UnderWayNow(p) ->
            [source |-> "live", band |-> LiveBand(Ahead(p), p.speed, Typical[way])]
      [] Reckonable(p) ->
            [source |-> "reckoned",
             band |-> ReckonedBand(ReckonedAhead(p), p.speed, Typical[way], Age(p))]
      [] OTHER -> [source |-> "lock", band |-> LockBand(c)]

----------------------------------------------------------------------------
(* The handler, from its list of candidates on                             *)

Done == {blocks[i].tow : i \in 1 .. Len(blocks)}
Left == {e \in rated : e.tow \notin Done}
Complete == Len(blocks) = MaxBoats \/ Left = {}

\* The next candidate of the list; those that sort alike come in any order.
Estimate ==
    /\ pc = "reply" /\ ~Complete /\ estimated = {}
    /\ \E e \in Left :
         /\ \A f \in Left : ~Before(f, e)
         /\ estimated' = {[tow |-> e.tow, live |-> e.live,
                           estimate |-> LiveEstimate(position[e.tow.tow])]}
    /\ UNCHANGED <<vars, blocks>>

Arrive ==
    /\ \E e \in estimated :
         LET a == Arrival(e.tow, position[e.tow.tow])
         IN  blocks' = Append(blocks, [tow |-> e.tow, live |-> e.live, estimate |-> e.estimate,
                                       source |-> a.source, band |-> a.band])
    /\ estimated' = {}
    /\ UNCHANGED vars

BlockInit == Init /\ blocks = <<>> /\ estimated = {}

BlockNext ==
    \/ /\ \/ Tick
          \/ \E v \in Tows : LockThrough(v) \/ Hear(v)
          \/ \E w \in Ways : Ask(w)
          \/ Pull \/ CollapseCuts \/ Walk
          \/ \E r \in unchecked : Check(r)
          \/ \E c \in unrated : Rate(c)
          \/ \E c \in unheard : Confirm(c)
       /\ UNCHANGED answer
    \/ Estimate \/ Arrive
    \/ ((Reply /\ Complete) \/ Fail) /\ blocks' = <<>> /\ estimated' = {}

BlockSpec == BlockInit /\ [][BlockNext]_blockVars

----------------------------------------------------------------------------
(* Properties                                                              *)

\* The types of the state; no tow of the list has two blocks.
BlockTypeOK ==
    /\ TypeOK
    /\ blocks \in Seq(Block) /\ Len(blocks) <= MaxBoats
    /\ Cardinality(Done) = Len(blocks) /\ Cardinality(estimated) <= 1
    /\ (blocks # <<>> \/ estimated # {}) => pc = "reply"

\* Every band is in order and none but that of the lock feed begins before now, from whichever
\* of her positions it comes; but for the early time of a reckoned one, which is widened
\* around a middle it may lie behind.
BlocksInOrder ==
    \A i \in 1 .. Len(blocks) :
        LET b == blocks[i]
        IN  /\ b.band.med <= b.band.p90
            /\ b.source # "reckoned" => b.band.p10 <= b.band.med
            /\ b.source # "lock" => b.band.p10 >= 0

\* Among the tows of an answer one that was heard live stands before all that were not, the
\* nearest one first.  And five queries look up the position of a tow, one after the other,
\* while newer ones come in: if from the request on all of them are of her moving on her way
\* and live within fifteen miles, she is live by each query, and the mile, the estimate and
\* the middle of the band are each of one of them, none older than the one before, so of the
\* same if no newer one came.  If she is not live by all but can be reckoned with by all, the
\* band is not left to the lock feed.
HeardIsUsed ==
    \A i \in 1 .. Len(blocks) :
        LET b == blocks[i]
            hers == heard[b.tow.tow]
        IN  /\ \A e \in rated : e.live # Unknown /\ e.tow \notin {blocks[j].tow : j \in 1 .. i} =>
                    b.live # Unknown /\ Distance(User, b.live) <= Distance(User, e.live)
            /\ (\A p \in hers : p # Unknown /\ p.course = way /\ p.speed >= 6) =>
                 /\ (\A p \in hers : Age(p) <= LiveFor /\ Ahead(p) \in 3 .. 150) =>
                        \E p, q, s \in hers :
                            /\ NotAfter(p, q) /\ NotAfter(q, s)
                            /\ b.live = p.mile
                            /\ b.estimate = TimeFor(Ahead(q), q.speed)
                            /\ b.source = "live" /\ b.band.med = TimeFor(Ahead(s), s.speed)
                 /\ (\A p \in hers : Age(p) <= ReckonFor /\ Ahead(p) \in 2 .. 199 /\ ReckonedAhead(p) >= 1) =>
                        b.source # "lock"

=============================================================================
