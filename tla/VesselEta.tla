------------------------------ MODULE VesselEta ------------------------------
(***************************************************************************)
(* GET /vessel-eta: when one vessel reaches the next place on her way, and *)
(* the Red Wing bridge and lock if they lie ahead.  Each of these legs     *)
(* asks for her newest position up to three times, each time a query of    *)
(* its own, while new positions come in.                                   *)
(*                                                                         *)
(* Miles are tenths of a mile and grow upstream; a vessel goes up (1) or   *)
(* down (-1).                                                              *)
(***************************************************************************)
EXTENDS EtaBands, Sequences, FiniteSets

CONSTANTS
    Waypoints,          \* WAYPOINTS, by mile
    Bridge, LockMile,   \* RED_WING_BRIDGE_RM and RED_WING_LOCK_RM
    TerminalFrom, TerminalTo,  \* RED_WING_TERMINAL_RM
    Typical,            \* [Ways -> SpeedRange], SPEED_HINT
    Measured,           \* [Ways -> Nat], the legs to the cabin
    FullModel,          \* [Ways \X BOOLEAN -> Band], TRANSIT_MODELS by way and big
    DirectModel,        \* TRANSIT_MODELS_DIRECT
    LiveFor,            \* up to this age a position is live, from it on it is reckoned with
    ReckonFor,          \* DEAD_RECKON_MAX_AGE_S
    MinSpeed,
    Unknown,            \* never heard; no lockage
    Froms,              \* miles a caller may give as the vessel's
    Speeds,             \* speeds a vessel may be heard at
    Delays,             \* ages a position may have when it comes in
    Start, MaxTime,     \* bounds: the clock runs from Start to MaxTime
    MaxHeard            \* bound on the positions that come in

Ways == {1, -1}
Position == [at : Nat, speed : Speeds, commercial : BOOLEAN]
Lockage == [way : Ways, big : BOOLEAN]
Tiers == {"live", "reckoned", "direct", "full"}
Leg == [to : Waypoints, tier : Tiers, stop : BOOLEAN, band : Band]

ASSUME PlacesAssumption ==
    /\ Waypoints \cup Froms \subseteq Nat /\ {Bridge, LockMile} \subseteq Waypoints
    /\ {TerminalFrom, TerminalTo} \subseteq Nat
ASSUME SpeedsAssumption ==
    /\ Speeds \subseteq Nat /\ MinSpeed \in Nat \ {0}
    /\ Typical \in [Ways -> SpeedRange]
    /\ \A w \in Ways : Typical[w].lo <= Typical[w].hi
ASSUME ModelsAssumption ==
    /\ Measured \in [Ways -> Nat \ {0}]
    /\ {FullModel, DirectModel} \subseteq [Ways \X BOOLEAN -> [p10 : Nat, med : Nat, p90 : Nat]]
    /\ \A k \in Ways \X BOOLEAN : \A b \in {FullModel[k], DirectModel[k]} : b.p10 <= b.med /\ b.med <= b.p90
ASSUME TimesAssumption ==
    /\ {LiveFor, ReckonFor, Start, MaxTime, MaxHeard} \subseteq Nat
    /\ LiveFor <= ReckonFor /\ Start <= MaxTime /\ Delays \subseteq 0 .. Start

VARIABLES
    now,
    position,  \* her newest vessel_position row, or Unknown
    heard,     \* positions that came in so far
    pc,        \* what the handler awaits
    asked,     \* now of the request
    from,      \* the mile she is at, as the caller says
    course,    \* her way by the caller's course over ground, 0 without one
    way, big,  \* her way and barge class as the handler sees them
    stop,      \* may_stop_at_terminal of the leg in hand
    legs,      \* the legs of the answer so far
    since      \* history: her newest positions since the request came

river == <<position, heard>>
request == <<asked, from, course, way, big>>
vars == <<now, river, pc, request, stop, legs, since>>

----------------------------------------------------------------------------
(* Places                                                                  *)

Ahead(w, m) == w * (m - from) > 0

\* _next_waypoint, as the set of it.
NextPlace(w) == {m \in Waypoints : Ahead(w, m) /\ \A x \in Waypoints : Ahead(w, x) => w * (x - m) >= 0}

\* A checkpoint has a leg of its own if it lies ahead.
Checkpoint(w, m) == IF Ahead(w, m) THEN <<m>> ELSE <<>>

\* The legs build projects, in its order.
Places(w) == <<CHOOSE m \in NextPlace(w) : TRUE>> \o Checkpoint(w, Bridge) \o Checkpoint(w, LockMile)

\* Deviation: every leg is bound to the last place.
PlaceLast == Places(way)[Len(Places(way))]

\* The place of the leg in hand.
Place == Places(way)[Len(legs) + 1]

Distance(a, b) == IF a >= b THEN a - b ELSE b - a
Smaller(a, b) == IF a <= b THEN a ELSE b

\* Deviation: only the route counts, not the names of the places.
TerminalOnRoute(m) == Smaller(from, m) < TerminalTo /\ Larger(from, m) > TerminalFrom

\* Red Wing and Welch Lock count as the terminal; other legs when they meet its zone.
TerminalAt(m) ==
    \/ m \in {Bridge, LockMile}
    \/ Smaller(from, m) < TerminalTo /\ Larger(from, m) > TerminalFrom

----------------------------------------------------------------------------
(* What a position is good for; age is against the moment of the request    *)

Age(p) == asked - p.at
Moving(p) == p # Unknown /\ p.speed >= MinSpeed
IsCommercial(p) == p = Unknown \/ p.commercial

LiveAnchor(p) == Moving(p) /\ Age(p) <= LiveFor

\* Deviation: a position as old as ReckonFor is no longer reckoned with.
ReckonableBefore(p) == Moving(p) /\ Age(p) \in LiveFor .. ReckonFor - 1

Reckonable(p) == Moving(p) /\ Age(p) \in LiveFor .. ReckonFor

Estimate(tier) ==
    LET leg == Distance(Place, from) IN
    CASE tier = "live"     -> LiveBand(leg, position.speed, Typical[way])
      [] tier = "reckoned" -> ReckonedBand(leg, position.speed, Typical[way], Age(position))
      [] tier = "direct"   -> ScaledBand(DirectModel[<<way, big>>], Measured[way], leg)
      [] tier = "full"     -> ScaledBand(FullModel[<<way, big>>], Measured[way], leg)

\* The leg is done; with the last one the answer is.
Answer(tier) ==
    /\ legs' = Append(legs, [to |-> Place, tier |-> tier, stop |-> stop, band |-> Estimate(tier)])
    /\ pc' = IF Len(legs') = Len(Places(way)) THEN "reply" ELSE "kind"
    /\ stop' = FALSE

----------------------------------------------------------------------------
(* The handler                                                             *)

Ask(m, c) ==
    /\ pc = "idle"
    /\ pc' = "lockage"
    /\ asked' = now /\ from' = m /\ course' = c
    /\ since' = {position}
    /\ UNCHANGED <<now, river, way, big, stop, legs>>

Done ==
    /\ pc' = "idle"
    /\ asked' = 0 /\ from' = 0 /\ course' = 0 /\ way' = 1 /\ big' = FALSE
    /\ stop' = FALSE /\ legs' = <<>> /\ since' = {}
    /\ UNCHANGED <<now, river>>

\* Her way by the course, or else by her newest lockage.
Heading(l) == IF course # 0 THEN course ELSE IF l # Unknown THEN l.way ELSE 0

FindLockage(l) ==
    /\ pc = "lockage"
    /\ NextPlace(Heading(l)) # {}
    /\ way' = Heading(l)
    /\ big' = (l # Unknown /\ l.big)
    /\ pc' = "kind"
    /\ UNCHANGED <<now, river, asked, from, course, stop, legs, since>>

\* No way can be told, or no place lies ahead.
NoAnswer(l) ==
    /\ pc = "lockage"
    /\ NextPlace(Heading(l)) = {}
    /\ Done

ReadKind ==
    /\ pc = "kind"
    /\ stop' = (IsCommercial(position) /\ TerminalAt(Place))
    /\ pc' = "live"
    /\ UNCHANGED <<now, river, request, legs, since>>

\* A leg with a terminal stop is not estimated from a speed, however fresh.
TryLive ==
    /\ pc = "live"
    /\ \/ stop /\ Answer("full")
       \/ ~stop /\ LiveAnchor(position) /\ Answer("live")
       \/ ~stop /\ ~LiveAnchor(position) /\ pc' = "reckon" /\ UNCHANGED <<legs, stop>>
    /\ UNCHANGED <<now, river, request, since>>

TryReckoned ==
    /\ pc = "reckon"
    /\ Answer(IF Reckonable(position) THEN "reckoned" ELSE "direct")
    /\ UNCHANGED <<now, river, request, since>>

Reply == pc = "reply" /\ Done

\* A query raises or times out, or the process ends: the answer is an error.
Fail == pc # "idle" /\ Done

----------------------------------------------------------------------------
(* The river                                                               *)

\* A position comes in, perhaps late, and is her newest.
Hear(t, s, commercial) ==
    /\ heard < MaxHeard
    /\ position # Unknown => t > position.at
    /\ heard' = heard + 1
    /\ position' = [at |-> t, speed |-> s, commercial |-> commercial]
    /\ since' = IF pc = "idle" THEN since ELSE since \cup {position'}
    /\ UNCHANGED <<now, pc, request, stop, legs>>

Tick ==
    /\ now < MaxTime
    /\ now' = now + 1
    /\ UNCHANGED <<river, pc, request, stop, legs, since>>

Init ==
    /\ now = Start /\ heard = 0
    /\ position = Unknown
    /\ pc = "idle"
    /\ asked = 0 /\ from = 0 /\ course = 0 /\ way = 1 /\ big = FALSE
    /\ stop = FALSE /\ legs = <<>> /\ since = {}

Next ==
    \/ \E m \in Froms, c \in Ways \cup {0} : Ask(m, c)
    \/ \E l \in Lockage \cup {Unknown} : FindLockage(l) \/ NoAnswer(l)
    \/ ReadKind \/ TryLive \/ TryReckoned \/ Reply \/ Fail
    \/ \E d \in Delays, s \in Speeds, commercial \in BOOLEAN : Hear(now - d, s, commercial)
    \/ Tick

Spec == Init /\ [][Next]_vars

----------------------------------------------------------------------------
(* Properties                                                              *)

\* The types of the state; nothing of a request outlives it, and the legs done are the
\* first ones of its way.
TypeOK ==
    /\ now \in Start .. MaxTime /\ heard \in 0 .. MaxHeard
    /\ position \in Position \cup {Unknown} /\ since \subseteq Position \cup {Unknown}
    /\ pc \in {"idle", "lockage", "kind", "live", "reckon", "reply"}
    /\ asked \in 0 .. now /\ from \in Froms \cup {0} /\ course \in Ways \cup {0}
    /\ way \in Ways /\ big \in BOOLEAN /\ stop \in BOOLEAN
    /\ legs \in Seq(Leg)
    /\ pc = "idle" => legs = <<>> /\ since = {} /\ asked = 0
    /\ pc = "reckon" => ~stop
    /\ legs # <<>> => \A i \in DOMAIN legs : legs[i].to = Places(way)[i]

\* A band has its middle time before its late one, and its early one before the late one;
\* before the middle one too unless it was reckoned from an old position.  (There the
\* code does not cut the early side, so a vessel faster than her typical range gets an
\* early time later than her middle one.)
BandsInOrder ==
    \A i \in DOMAIN legs :
        LET b == legs[i].band IN
        /\ b.med <= b.p90 /\ b.p10 <= b.p90
        /\ legs[i].tier # "reckoned" => b.p10 <= b.med

\* No position was received while the answer was made.
Undisturbed == Cardinality(since) = 1

\* The two tiers leave no gap between them: a vessel last heard moving within ReckonFor is
\* never given the times of other vessels, but for legs with a terminal stop, unless
\* she was heard anew between the queries - then she may fall between the tiers.
RecentIsUsed ==
    Undisturbed /\ (\A p \in since : Moving(p) /\ Age(p) <= ReckonFor)
        => \A i \in DOMAIN legs : legs[i].stop \/ legs[i].tier \in {"live", "reckoned"}

\* Of the two Red Wing checkpoints the nearer is not reached later: both are estimated
\* alike, for a tow whatever is heard of her between the queries, because both count as
\* the terminal, for others as long as nothing is.
CheckpointsInOrder ==
    Undisturbed \/ (\A p \in since : IsCommercial(p))
        => \A i, j \in DOMAIN legs :
              /\ {legs[i].to, legs[j].to} \subseteq {Bridge, LockMile}
              /\ Distance(legs[i].to, from) <= Distance(legs[j].to, from)
              => \A f \in {"p10", "med", "p90"} : legs[i].band[f] <= legs[j].band[f]

=============================================================================
