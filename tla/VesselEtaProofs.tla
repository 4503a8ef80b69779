-------------------------- MODULE VesselEtaProofs --------------------------
(***************************************************************************)
(* Theorems about VesselEta: the arrival bands of every answer are in      *)
(* order, the nearer checkpoint is reached first and recent positions are  *)
(* used, for any river, any speeds, any measured times and any positions   *)
(* that come in between the queries.                                       *)
(***************************************************************************)
EXTENDS VesselEta, EtaBandsProofs, FiniteSetTheorems, TLAPS

----------------------------------------------------------------------------
(* The legs of an answer                                                   *)

Working == {"kind", "live", "reckon"}

\* What TypeOK needs to be inductive: while legs are being estimated there is a place
\* ahead, and a leg for it is still missing.
Progress ==
    /\ pc \in {"idle", "lockage"} => legs = <<>>
    /\ pc \in Working => NextPlace(way) # {} /\ Len(legs) < Len(Places(way))

EtaInv == TypeOK /\ Progress /\ BandsInOrder

LEMMA NumberTypes ==
  /\ LiveFor \in Nat /\ ReckonFor \in Nat /\ Start \in Nat /\ MaxTime \in Nat /\ MaxHeard \in Nat
  /\ Start <= MaxTime /\ Delays \subseteq 0 .. Start
  /\ Speeds \subseteq Nat /\ MinSpeed \in Nat \ {0}
  /\ Waypoints \subseteq Nat /\ Froms \subseteq Nat /\ Bridge \in Waypoints /\ LockMile \in Waypoints
  BY PlacesAssumption, SpeedsAssumption, TimesAssumption

LEMMA PlacesType ==
  ASSUME NEW w \in Ways, NextPlace(w) # {}
  PROVE  Places(w) \in Seq(Waypoints) /\ Places(w) # <<>>
  <1> DEFINE next == CHOOSE m \in NextPlace(w) : TRUE
  <1>1. next \in Waypoints
    BY DEF NextPlace
  <1>2. Checkpoint(w, Bridge) \in Seq(Waypoints) /\ Checkpoint(w, LockMile) \in Seq(Waypoints)
    BY NumberTypes DEF Checkpoint
  <1>3. Places(w) = <<next>> \o Checkpoint(w, Bridge) \o Checkpoint(w, LockMile)
    BY DEF Places
  <1> HIDE DEF next
  <1> QED
    BY <1>1, <1>2, <1>3

LEMMA PlaceType ==
  ASSUME TypeOK, Progress, pc \in Working
  PROVE  Place \in Waypoints /\ Distance(Place, from) \in Nat /\ Place = Places(way)[Len(legs) + 1]
  <1>1. way \in Ways /\ legs \in Seq(Leg) /\ NextPlace(way) # {} /\ Len(legs) < Len(Places(way))
    BY DEF TypeOK, Progress
  <1>2. Places(way) \in Seq(Waypoints)
    BY <1>1, PlacesType
  <1>3. Place \in Waypoints
    BY <1>1, <1>2 DEF Place
  <1>4. from \in Nat
    BY NumberTypes DEF TypeOK
  <1>5. Place \in Nat
    BY <1>3, NumberTypes
  <1>6. Distance(Place, from) \in Nat
    BY <1>4, <1>5 DEF Distance
  <1> QED
    BY <1>3, <1>6 DEF Place

\* The position a tier is used for has a speed to divide by.
LEMMA MovingType ==
  ASSUME TypeOK, Moving(position)
  PROVE  position \in Position /\ position.speed \in Nat \ {0}
  <1>1. position \in Position \cup {Unknown} /\ position # Unknown /\ position.speed >= MinSpeed
    BY DEF TypeOK, Moving
  <1>2. position \in Position
    BY <1>1
  <1>3. position.speed \in Speeds
    BY <1>2 DEF Position
  <1>4. position.speed \in Nat
    BY <1>3, NumberTypes
  <1> QED
    BY <1>1, <1>2, <1>4, NumberTypes

\* The band of the leg in hand, in every tier it may get.
LEMMA EstimateHolds ==
  ASSUME TypeOK, Progress, pc \in Working, NEW tier \in Tiers,
         tier = "live" => LiveAnchor(position),
         tier = "reckoned" => Reckonable(position)
  PROVE  /\ Estimate(tier) \in Band /\ InOrder(Estimate(tier))
         /\ tier # "reckoned" => Holding(Estimate(tier))
  <1> DEFINE leg == Distance(Place, from)
  <1>1. leg \in Nat
    BY PlaceType
  <1>2. way \in Ways /\ <<way, big>> \in Ways \X BOOLEAN
    BY DEF TypeOK
  <1>3. Typical[way] \in SpeedRange /\ Typical[way].lo <= Typical[way].hi /\ Measured[way] \in Nat \ {0}
    BY <1>2, SpeedsAssumption, ModelsAssumption
  <1>4. CASE tier = "live"
    <2>1. position.speed \in Nat \ {0}
      BY <1>4, MovingType DEF LiveAnchor
    <2>2. Estimate(tier) = LiveBand(leg, position.speed, Typical[way])
      BY <1>4 DEF Estimate
    <2> HIDE DEF leg
    <2> QED
      BY <1>1, <1>3, <2>1, <2>2, LiveBandHolds DEF Holding
  <1>5. CASE tier = "reckoned"
    <2>1. position.speed \in Nat \ {0} /\ Age(position) \in Nat
      BY <1>5, MovingType, NumberTypes DEF Reckonable
    <2>2. Estimate(tier) = ReckonedBand(leg, position.speed, Typical[way], Age(position))
      BY <1>5 DEF Estimate
    <2> HIDE DEF leg
    <2> QED
      BY <1>1, <1>3, <1>5, <2>1, <2>2, ReckonedBandInOrder
  <1>6. CASE tier \in {"direct", "full"}
    <2> DEFINE model == IF tier = "direct" THEN DirectModel[<<way, big>>] ELSE FullModel[<<way, big>>]
    <2>1. model \in [p10 : Nat, med : Nat, p90 : Nat] /\ model.p10 <= model.med /\ model.med <= model.p90
      BY <1>2, ModelsAssumption
    <2>2. Estimate(tier) = ScaledBand(model, Measured[way], leg)
      BY <1>6 DEF Estimate
    <2> HIDE DEF leg, model
    <2> QED
      BY <1>1, <1>3, <2>1, <2>2, ScaledBandHolds DEF Holding
  <1> QED
    BY <1>4, <1>5, <1>6 DEF Tiers

\* The places of a way depend on nothing but where the vessel is.
LEMMA SamePlaces ==
  ASSUME UNCHANGED <<from, way>>
  PROVE  NextPlace(way)' = NextPlace(way) /\ Places(way)' = Places(way)
  <1>1. from' = from /\ way' = way
    OBVIOUS
  <1>2. NextPlace(way)' = NextPlace(way)
    BY <1>1 DEF NextPlace, Ahead
  <1> QED
    BY <1>1, <1>2 DEF Places, Checkpoint, Ahead

\* A leg more, in whatever tier.
LEMMA AnswerKeepsEtaInv ==
  ASSUME EtaInv, pc \in Working, NEW tier \in Tiers, Answer(tier),
         tier = "live" => LiveAnchor(position),
         tier = "reckoned" => Reckonable(position),
         UNCHANGED <<now, river, request, since>>
  PROVE  EtaInv'
  <1> DEFINE leg == [to |-> Place, tier |-> tier, stop |-> stop, band |-> Estimate(tier)]
  <1>1. /\ TypeOK /\ Progress /\ BandsInOrder
        /\ now' = now /\ position' = position /\ heard' = heard /\ asked' = asked
        /\ from' = from /\ course' = course /\ way' = way /\ big' = big /\ since' = since
    BY DEF EtaInv, river, request
  <1>2. Place \in Waypoints /\ Place = Places(way)[Len(legs) + 1]
    BY <1>1, PlaceType
  <1>3. /\ Estimate(tier) \in Band /\ InOrder(Estimate(tier))
        /\ tier # "reckoned" => Holding(Estimate(tier))
    BY <1>1, EstimateHolds
  <1>4. legs \in Seq(Leg) /\ stop \in BOOLEAN /\ way \in Ways
    BY <1>1 DEF TypeOK
  <1>5. leg \in Leg
    BY <1>2, <1>3, <1>4 DEF Leg
  <1>6. legs' = Append(legs, leg) /\ stop' = FALSE
    BY DEF Answer
  <1> HIDE DEF leg
  <1>7. /\ legs' \in Seq(Leg) /\ Len(legs') = Len(legs) + 1
        /\ legs'[Len(legs) + 1] = leg
        /\ \A i \in 1 .. Len(legs) : legs'[i] = legs[i]
    BY <1>4, <1>5, <1>6
  <1>8. NextPlace(way)' = NextPlace(way) /\ Places(way)' = Places(way)
    BY <1>1, SamePlaces
  <1>9. NextPlace(way) # {} /\ Len(legs) < Len(Places(way))
    BY <1>1 DEF Progress
  <1>10. Len(Places(way)) \in Nat
    BY <1>4, <1>9, PlacesType
  <1>11. pc' = IF Len(legs') = Len(Places(way)) THEN "reply" ELSE "kind"
    BY DEF Answer
  <1>12. TypeOK'
    <2>1. \A i \in DOMAIN legs' : legs'[i].to = Places(way)[i]
      <3> SUFFICES ASSUME NEW i \in DOMAIN legs' PROVE legs'[i].to = Places(way)[i]
        OBVIOUS
      <3>1. CASE i = Len(legs) + 1
        BY <1>2, <1>7, <3>1 DEF leg
      <3>2. CASE i \in 1 .. Len(legs)
        BY <1>1, <1>4, <1>7, <3>2 DEF TypeOK
      <3> QED
        BY <1>4, <1>7, <3>1, <3>2
    <2>2. pc' \in {"reply", "kind"}
      BY <1>11
    <2> QED
      BY <1>1, <1>6, <1>7, <1>8, <2>1, <2>2 DEF TypeOK
  <1>13. Progress'
    BY <1>4, <1>7, <1>8, <1>9, <1>10, <1>11 DEF Progress, Working
  <1>14. BandsInOrder'
    <2> SUFFICES ASSUME NEW i \in DOMAIN legs'
                 PROVE  /\ InOrder(legs'[i].band)
                        /\ legs'[i].tier # "reckoned" => legs'[i].band.p10 <= legs'[i].band.med
      BY DEF BandsInOrder, InOrder
    <2>1. CASE i = Len(legs) + 1
      BY <1>3, <1>7, <2>1 DEF leg, Holding
    <2>2. CASE i \in 1 .. Len(legs)
      BY <1>1, <1>4, <1>7, <2>2 DEF BandsInOrder, InOrder
    <2> QED
      BY <1>4, <1>7, <2>1, <2>2
  <1> QED
    BY <1>12, <1>13, <1>14 DEF EtaInv

----------------------------------------------------------------------------
(* The inductive invariant                                                 *)

LEMMA InitEta == Init => EtaInv
  <1> SUFFICES ASSUME Init PROVE EtaInv
    OBVIOUS
  <1>1. legs = <<>> /\ since = {} /\ pc = "idle"
    BY DEF Init
  <1>2. TypeOK
    <2>1. <<>> \in Seq(Leg) /\ {} \subseteq Position \cup {Unknown}
      OBVIOUS
    <2>2. now \in Start .. MaxTime /\ heard \in 0 .. MaxHeard /\ asked \in 0 .. now
      BY NumberTypes DEF Init
    <2>3. position \in Position \cup {Unknown} /\ from \in Froms \cup {0} /\ course \in Ways \cup {0}
          /\ way \in Ways /\ big \in BOOLEAN /\ stop \in BOOLEAN /\ asked = 0
      BY DEF Init, Ways
    <2> QED
      BY <1>1, <2>1, <2>2, <2>3 DEF TypeOK
  <1>3. Progress /\ BandsInOrder
    BY <1>1 DEF Progress, BandsInOrder, Working
  <1> QED
    BY <1>2, <1>3 DEF EtaInv

\* The end of a request leaves the river alone and nothing of itself.
LEMMA DoneKeepsEtaInv ==
  ASSUME EtaInv, Done
  PROVE  EtaInv'
  <1>1. legs' = <<>> /\ since' = {} /\ pc' = "idle"
    BY DEF Done
  <1>2. TypeOK'
    <2>1. <<>> \in Seq(Leg) /\ {} \subseteq Position \cup {Unknown}
      OBVIOUS
    <2>2. now' = now /\ position' = position /\ heard' = heard
      BY DEF Done, river
    <2>3. now \in Start .. MaxTime /\ heard \in 0 .. MaxHeard /\ position \in Position \cup {Unknown}
      BY DEF EtaInv, TypeOK
    <2>4. asked' = 0 /\ asked' \in 0 .. now'
      BY <2>2, <2>3, NumberTypes DEF Done
    <2>5. from' \in Froms \cup {0} /\ course' \in Ways \cup {0} /\ way' \in Ways
          /\ big' \in BOOLEAN /\ stop' \in BOOLEAN
      BY DEF Done, Ways
    <2> QED
      BY <1>1, <2>1, <2>2, <2>3, <2>4, <2>5 DEF TypeOK
  <1>3. Progress' /\ BandsInOrder'
    BY <1>1 DEF Progress, BandsInOrder, Working
  <1> QED
    BY <1>2, <1>3 DEF EtaInv

LEMMA AskKeepsEtaInv ==
  ASSUME EtaInv, NEW m \in Froms, NEW c \in Ways \cup {0}, Ask(m, c)
  PROVE  EtaInv'
  <1>1. TypeOK /\ legs = <<>> /\ legs' = <<>> /\ pc' = "lockage"
    BY DEF EtaInv, Progress, Ask
  <1>2. /\ now' = now /\ position' = position /\ heard' = heard /\ way' = way /\ big' = big
        /\ stop' = stop /\ asked' = now /\ from' = m /\ course' = c /\ since' = {position}
    BY DEF Ask, river
  <1>3. TypeOK'
    <2>1. asked' \in 0 .. now'
      BY <1>1, <1>2, NumberTypes DEF TypeOK
    <2> QED
      BY <1>1, <1>2, <2>1 DEF TypeOK
  <1>4. Progress' /\ BandsInOrder'
    BY <1>1 DEF Progress, BandsInOrder, Working
  <1> QED
    BY <1>3, <1>4 DEF EtaInv

LEMMA FindLockageKeepsEtaInv ==
  ASSUME EtaInv, NEW l \in Lockage \cup {Unknown}, FindLockage(l)
  PROVE  EtaInv'
  <1>1. TypeOK /\ legs = <<>> /\ legs' = legs /\ pc' = "kind"
    BY DEF EtaInv, Progress, FindLockage
  <1>2. /\ now' = now /\ position' = position /\ heard' = heard /\ asked' = asked /\ from' = from
        /\ course' = course /\ stop' = stop /\ since' = since
        /\ way' = Heading(l) /\ big' = (l # Unknown /\ l.big) /\ NextPlace(Heading(l)) # {}
    BY DEF FindLockage, river
  <1>3. Heading(l) \in Ways \cup {0}
    BY <1>1 DEF Heading, TypeOK, Lockage
  <1>4. Heading(l) # 0
    <2> SUFFICES ASSUME Heading(l) = 0 PROVE NextPlace(0) = {}
      BY <1>2
    <2>1. \A m \in Waypoints : ~Ahead(0, m)
      BY <1>1, NumberTypes DEF Ahead, TypeOK
    <2> QED
      BY <2>1 DEF NextPlace
  <1>5. way' \in Ways
    BY <1>2, <1>3, <1>4
  <1>6. big' \in BOOLEAN
    BY <1>2 DEF Lockage
  <1>7. TypeOK'
    BY <1>1, <1>2, <1>5, <1>6 DEF TypeOK
  <1>8. NextPlace(way)' # {}
    BY <1>2 DEF NextPlace, Ahead
  <1>9. Len(legs') < Len(Places(way)')
    <2>1. Places(way)' = Places(Heading(l))
      BY <1>2 DEF Places, NextPlace, Checkpoint, Ahead
    <2>2. Places(Heading(l)) \in Seq(Waypoints) /\ Places(Heading(l)) # <<>>
      BY <1>2, <1>5, PlacesType
    <2> QED
      BY <1>1, <2>1, <2>2
  <1>10. Progress' /\ BandsInOrder'
    BY <1>1, <1>8, <1>9 DEF Progress, BandsInOrder, Working
  <1> QED
    BY <1>7, <1>10 DEF EtaInv

LEMMA HandlerKeepsEtaInv ==
  ASSUME EtaInv, ReadKind \/ TryLive \/ TryReckoned
  PROVE  EtaInv'
  <1>1. CASE ReadKind \/ (TryLive /\ ~stop /\ pc' = "reckon")
    <2>1. /\ now' = now /\ position' = position /\ heard' = heard /\ asked' = asked /\ from' = from
          /\ course' = course /\ way' = way /\ big' = big /\ since' = since
          /\ pc \in Working /\ pc' \in {"live", "reckon"} /\ legs' = legs
      BY <1>1 DEF ReadKind, TryLive, Answer, river, request, Working
    <2>2. stop' \in BOOLEAN /\ (pc' = "reckon" => ~stop')
      <3>1. CASE ReadKind
        <4>1. stop' = (IsCommercial(position) /\ TerminalAt(Place)) /\ pc' = "live"
          BY <3>1 DEF ReadKind
        <4>2. stop' \in BOOLEAN
          BY <4>1
        <4> QED
          BY <4>1, <4>2
      <3>2. CASE TryLive /\ ~stop /\ pc' = "reckon"
        <4>1. pc' # "reply" /\ pc' # "kind"
          BY <3>2
        <4>2. stop' = stop
          BY <3>2, <4>1 DEF TryLive, Answer
        <4>3. stop = FALSE
          BY <3>2 DEF EtaInv, TypeOK
        <4> QED
          BY <4>2, <4>3
      <3> QED
        BY <1>1, <3>1, <3>2
    <2>3. TypeOK'
      BY <2>1, <2>2, SamePlaces DEF EtaInv, TypeOK
    <2>4. Progress'
      BY <2>1, SamePlaces DEF EtaInv, Progress, Working
    <2>5. BandsInOrder'
      BY <2>1 DEF EtaInv, BandsInOrder
    <2> QED
      BY <2>3, <2>4, <2>5 DEF EtaInv
  <1>2. CASE TryLive /\ stop
    <2>1. Answer("full") /\ pc \in Working /\ UNCHANGED <<now, river, request, since>>
      BY <1>2 DEF TryLive, Working
    <2> QED
      BY <2>1, AnswerKeepsEtaInv DEF Tiers
  <1>3. CASE TryLive /\ ~stop /\ LiveAnchor(position) /\ Answer("live")
    <2>1. pc \in Working /\ UNCHANGED <<now, river, request, since>>
      BY <1>3 DEF TryLive, Working
    <2> QED
      BY <1>3, <2>1, AnswerKeepsEtaInv DEF Tiers
  <1>4. CASE TryReckoned
    <2> DEFINE tier == IF Reckonable(position) THEN "reckoned" ELSE "direct"
    <2>1. Answer(tier) /\ pc \in Working /\ UNCHANGED <<now, river, request, since>>
      BY <1>4 DEF TryReckoned, Working
    <2>2. tier \in Tiers /\ tier # "live" /\ (tier = "reckoned" => Reckonable(position))
      BY DEF Tiers
    <2> HIDE DEF tier
    <2> QED
      BY <2>1, <2>2, AnswerKeepsEtaInv
  <1>5. TryLive => \/ TryLive /\ stop
                   \/ TryLive /\ ~stop /\ LiveAnchor(position) /\ Answer("live")
                   \/ TryLive /\ ~stop /\ pc' = "reckon"
    BY Zenon DEF TryLive
  <1> QED
    BY <1>1, <1>2, <1>3, <1>4, <1>5

LEMMA RiverKeepsEtaInv ==
  ASSUME EtaInv,
         \/ Tick
         \/ \E d \in Delays, s \in Speeds, commercial \in BOOLEAN : Hear(now - d, s, commercial)
  PROVE  EtaInv'
  <1>1. /\ asked' = asked /\ from' = from /\ course' = course /\ way' = way /\ big' = big
        /\ stop' = stop /\ legs' = legs /\ pc' = pc
    BY DEF Tick, Hear, request
  <1>2. /\ now \in Start .. MaxTime /\ now' \in Start .. MaxTime /\ asked' \in 0 .. now'
        /\ heard' \in 0 .. MaxHeard
    BY <1>1, NumberTypes DEF EtaInv, TypeOK, Tick, Hear, river
  <1>3. /\ position' \in Position \cup {Unknown} /\ since' \subseteq Position \cup {Unknown}
        /\ pc = "idle" => since' = {}
    <2>1. CASE Tick
      BY <2>1 DEF EtaInv, TypeOK, Tick, river
    <2>2. ASSUME NEW d \in Delays, NEW s \in Speeds, NEW commercial \in BOOLEAN,
                 Hear(now - d, s, commercial)
          PROVE  /\ position' \in Position \cup {Unknown} /\ since' \subseteq Position \cup {Unknown}
                 /\ pc = "idle" => since' = {}
      <3>1. now - d \in Nat
        BY <1>2, NumberTypes
      <3>2. position' \in Position
        BY <2>2, <3>1 DEF Hear, Position
      <3> QED
        BY <2>2, <3>2 DEF Hear, EtaInv, TypeOK
    <2> QED
      BY <2>1, <2>2
  <1>4. TypeOK'
    BY <1>1, <1>2, <1>3, SamePlaces DEF EtaInv, TypeOK
  <1>5. Progress' /\ BandsInOrder'
    BY <1>1, SamePlaces DEF EtaInv, Progress, BandsInOrder
  <1> QED
    BY <1>4, <1>5 DEF EtaInv

LEMMA NextEta == EtaInv /\ [Next]_vars => EtaInv'
  <1> SUFFICES ASSUME EtaInv, [Next]_vars PROVE EtaInv'
    OBVIOUS
  <1>1. ASSUME NEW m \in Froms, NEW c \in Ways \cup {0}, Ask(m, c) PROVE EtaInv'
    BY <1>1, AskKeepsEtaInv
  <1>2. ASSUME NEW l \in Lockage \cup {Unknown}, FindLockage(l) PROVE EtaInv'
    BY <1>2, FindLockageKeepsEtaInv
  <1>3. CASE Reply \/ Fail \/ \E l \in Lockage \cup {Unknown} : NoAnswer(l)
    BY <1>3, DoneKeepsEtaInv DEF Reply, Fail, NoAnswer
  <1>4. CASE ReadKind \/ TryLive \/ TryReckoned
    BY <1>4, HandlerKeepsEtaInv
  <1>5. CASE Tick \/ \E d \in Delays, s \in Speeds, commercial \in BOOLEAN : Hear(now - d, s, commercial)
    BY <1>5, RiverKeepsEtaInv
  <1>6. CASE UNCHANGED vars
    <2>1. /\ asked' = asked /\ from' = from /\ course' = course /\ way' = way /\ big' = big
          /\ stop' = stop /\ legs' = legs /\ pc' = pc /\ now' = now /\ since' = since
          /\ position' = position /\ heard' = heard
      BY <1>6 DEF vars, river, request
    <2> QED
      BY <2>1, SamePlaces DEF EtaInv, TypeOK, Progress, BandsInOrder
  <1> QED
    BY <1>1, <1>2, <1>3, <1>4, <1>5, <1>6 DEF Next

----------------------------------------------------------------------------
(* What the legs tell of her positions                                     *)

\* Nothing was heard since the request came; all that was heard was of a tow.
Calm == since = {position}
AllCommercial == \A p \in since : IsCommercial(p)

\* The tier and the band a leg to m gets, with or without a terminal stop.
TierOf(stops) ==
    IF stops THEN "full" ELSE IF LiveAnchor(position) THEN "live"
    ELSE IF Reckonable(position) THEN "reckoned" ELSE "direct"
BandAt(tier, m) ==
    LET leg == Distance(m, from) IN
    CASE tier = "live"     -> LiveBand(leg, position.speed, Typical[way])
      [] tier = "reckoned" -> ReckonedBand(leg, position.speed, Typical[way], Age(position))
      [] tier = "direct"   -> ScaledBand(DirectModel[<<way, big>>], Measured[way], leg)
      [] tier = "full"     -> ScaledBand(FullModel[<<way, big>>], Measured[way], leg)

\* While nothing comes in a leg is what the one position makes it; and for a tow a leg
\* that meets the terminal is the full model's, whatever comes in.
LegTold(l) ==
    /\ Calm => /\ l.stop <=> IsCommercial(position) /\ TerminalAt(l.to)
               /\ l.tier = TierOf(l.stop) /\ l.band = BandAt(l.tier, l.to)
    /\ AllCommercial /\ TerminalAt(l.to) => l.stop /\ l.tier = "full" /\ l.band = BandAt("full", l.to)

StopTold ==
    /\ Calm => (stop <=> IsCommercial(position) /\ TerminalAt(Place))
    /\ AllCommercial /\ TerminalAt(Place) => stop

Told ==
    /\ IsFiniteSet(since)
    /\ pc # "idle" => position \in since
    /\ pc \in {"live", "reckon"} => StopTold
    /\ pc = "reckon" /\ Calm => ~LiveAnchor(position)
    /\ \A i \in DOMAIN legs : LegTold(legs[i])

LEMMA EstimateAtPlace == \A tier : Estimate(tier) = BandAt(tier, Place)
  BY DEF Estimate, BandAt

LEMMA InitTold == Init => Told
  BY FS_EmptySet DEF Init, Told

LEMMA DoneTold == Done => Told'
  BY FS_EmptySet DEF Done, Told

\* A leg tells what it told as long as the request is the same, her position or the calm is
\* gone, and so is the tow.
LEMMA LegStaysTold ==
  ASSUME UNCHANGED <<asked, from, way, big>>, Calm' => Calm /\ position' = position,
         AllCommercial' => AllCommercial, NEW l, LegTold(l)
  PROVE  LegTold(l)'
  <1>1. asked' = asked /\ from' = from /\ way' = way /\ big' = big
    OBVIOUS
  <1>2. TerminalAt(l.to)' <=> TerminalAt(l.to)
    BY <1>1 DEF TerminalAt
  <1>3. BandAt("full", l.to)' = BandAt("full", l.to)
    BY <1>1 DEF BandAt
  <1>4. ASSUME Calm'
        PROVE  /\ IsCommercial(position)' <=> IsCommercial(position)
               /\ TierOf(l.stop)' = TierOf(l.stop)
               /\ BandAt(l.tier, l.to)' = BandAt(l.tier, l.to)
    BY <1>1, <1>4 DEF IsCommercial, TierOf, BandAt, LiveAnchor, Reckonable, Moving, Age
  <1> QED
    BY <1>2, <1>3, <1>4 DEF LegTold

LEMMA StopStaysTold ==
  ASSUME UNCHANGED <<asked, from, way, big, legs, stop>>, Calm' => Calm /\ position' = position,
         AllCommercial' => AllCommercial, StopTold
  PROVE  StopTold'
  <1>1. from' = from /\ way' = way /\ legs' = legs /\ stop' = stop
    OBVIOUS
  <1>2. Place' = Place
    BY <1>1, SamePlaces DEF Place
  <1>3. TerminalAt(Place)' <=> TerminalAt(Place)
    BY <1>1, <1>2 DEF TerminalAt
  <1>4. Calm' => (IsCommercial(position)' <=> IsCommercial(position))
    BY DEF IsCommercial
  <1> QED
    BY <1>1, <1>3, <1>4 DEF StopTold

\* The steps that make no leg.
LEMMA QuietTold ==
  ASSUME TypeOK, Told, UNCHANGED <<asked, from, way, big, legs, stop, pc, position, since>>
  PROVE  Told'
  <1>1. Calm' => Calm /\ position' = position
    BY DEF Calm
  <1>2. AllCommercial' => AllCommercial
    BY DEF AllCommercial, IsCommercial
  <1>3. StopTold => StopTold'
    BY <1>1, <1>2, StopStaysTold
  <1>4. \A i \in DOMAIN legs : LegTold(legs[i])'
    BY <1>1, <1>2, LegStaysTold DEF Told
  <1>5. LiveAnchor(position)' <=> LiveAnchor(position)
    BY DEF LiveAnchor, Moving, Age
  <1> QED
    BY <1>1, <1>3, <1>4, <1>5 DEF Told

\* The whole invariant.
EtaTold == EtaInv /\ Told

LEMMA AskTold ==
  ASSUME EtaInv, NEW m \in Froms, NEW c \in Ways \cup {0}, Ask(m, c)
  PROVE  Told'
  <1>1. legs' = <<>> /\ pc' = "lockage" /\ since' = {position} /\ position' = position
    BY DEF EtaInv, Progress, Ask, river
  <1>2. IsFiniteSet({position})
    BY FS_Singleton
  <1>3. IsFiniteSet(since')
    BY <1>1, <1>2
  <1> QED
    BY <1>1, <1>3 DEF Told

LEMMA FindLockageTold ==
  ASSUME EtaTold, NEW l \in Lockage \cup {Unknown}, FindLockage(l)
  PROVE  Told'
  <1>1. legs' = <<>> /\ pc' = "kind" /\ since' = since /\ position' = position /\ pc # "idle"
    BY DEF EtaTold, EtaInv, Progress, FindLockage, river
  <1> QED
    BY <1>1 DEF EtaTold, Told

LEMMA ReadKindTold ==
  ASSUME EtaTold, ReadKind
  PROVE  Told'
  <1>1. /\ position' = position /\ asked' = asked /\ from' = from /\ way' = way /\ big' = big
        /\ legs' = legs /\ since' = since /\ pc = "kind" /\ pc' = "live"
        /\ stop' <=> IsCommercial(position) /\ TerminalAt(Place)
    BY DEF ReadKind, river, request
  <1>2. Place' = Place
    BY <1>1, SamePlaces DEF Place
  <1>3. TerminalAt(Place)' <=> TerminalAt(Place)
    BY <1>1, <1>2 DEF TerminalAt
  <1>4. IsCommercial(position)' <=> IsCommercial(position)
    BY <1>1 DEF IsCommercial
  <1>5. AllCommercial' => AllCommercial /\ IsCommercial(position)
    BY <1>1 DEF AllCommercial, IsCommercial, EtaTold, Told
  <1>6. StopTold'
    BY <1>1, <1>3, <1>4, <1>5 DEF StopTold
  <1>7. \A i \in DOMAIN legs : LegTold(legs[i])'
    <2>1. Calm' => Calm
      BY <1>1 DEF Calm
    <2> QED
      BY <1>1, <1>5, <2>1, LegStaysTold DEF EtaTold, Told
  <1> QED
    BY <1>1, <1>6, <1>7 DEF EtaTold, Told

\* A leg more: what is told of the stop and the tier is told of the leg.
LEMMA AnswerTold ==
  ASSUME EtaTold, pc \in Working, StopTold, NEW tier \in Tiers, Answer(tier),
         stop => tier = "full", Calm => tier = TierOf(stop),
         UNCHANGED <<now, river, request, since>>
  PROVE  Told'
  <1>1. /\ position' = position /\ asked' = asked /\ from' = from /\ way' = way /\ big' = big
        /\ since' = since /\ pc # "idle" /\ pc' \in {"reply", "kind"}
    BY DEF river, request, Answer, Working
  <1>2. PICK l : l = [to |-> Place, tier |-> tier, stop |-> stop, band |-> Estimate(tier)]
    OBVIOUS
  <1>3. legs' = Append(legs, l)
    BY <1>2 DEF Answer
  <1>4. LegTold(l)
    <2>1. l.to = Place /\ l.tier = tier /\ l.stop = stop /\ l.band = BandAt(tier, Place)
      BY <1>2, EstimateAtPlace
    <2> QED
      BY <2>1 DEF LegTold, StopTold
  <1>5. /\ Calm' => Calm /\ position' = position
        /\ AllCommercial' => AllCommercial
    BY <1>1 DEF Calm, AllCommercial, IsCommercial
  <1>6. LegTold(l)'
    BY <1>1, <1>4, <1>5, LegStaysTold
  <1>7. \A i \in DOMAIN legs : LegTold(legs[i]) /\ (\A x : x = legs[i] => LegTold(x)')
    <2> SUFFICES ASSUME NEW i \in DOMAIN legs, NEW x, x = legs[i] PROVE LegTold(legs[i]) /\ LegTold(x)'
      OBVIOUS
    <2>1. LegTold(legs[i])
      BY DEF EtaTold, Told
    <2>2. LegTold(x)
      BY <2>1
    <2> QED
      BY <1>1, <1>5, <2>1, <2>2, LegStaysTold
  <1>8. \A i \in DOMAIN legs' : LegTold(legs[i])'
    <2>1. legs \in Seq(Leg)
      BY DEF EtaTold, EtaInv, TypeOK
    <2> SUFFICES ASSUME NEW i \in DOMAIN legs' PROVE LegTold(legs[i])'
      OBVIOUS
    <2>2. CASE i \in DOMAIN legs
      <3>1. legs'[i] = legs[i]
        BY <1>3, <2>1, <2>2
      <3> QED
        BY <1>7, <2>2, <3>1
    <2>3. CASE i \notin DOMAIN legs
      <3>1. legs'[i] = l
        BY <1>3, <2>1, <2>3
      <3> QED
        BY <1>6, <3>1
    <2> QED
      BY <2>2, <2>3
  <1> QED
    BY <1>1, <1>8 DEF EtaTold, Told

LEMMA TryLiveTold ==
  ASSUME EtaTold, TryLive
  PROVE  Told'
  <1>1. pc = "live" /\ pc \in Working /\ UNCHANGED <<now, river, request, since>> /\ StopTold
    BY DEF TryLive, Working, EtaTold, Told
  <1>2. CASE stop /\ Answer("full")
    BY <1>1, <1>2, AnswerTold DEF Tiers, TierOf
  <1>3. CASE ~stop /\ LiveAnchor(position) /\ Answer("live")
    BY <1>1, <1>3, AnswerTold DEF Tiers, TierOf
  <1>4. CASE ~stop /\ ~LiveAnchor(position) /\ pc' = "reckon" /\ UNCHANGED <<legs, stop>>
    <2>1. /\ position' = position /\ asked' = asked /\ from' = from /\ way' = way /\ big' = big
          /\ since' = since /\ legs' = legs /\ stop' = stop
      BY <1>1, <1>4 DEF river, request
    <2>2. (Calm' => Calm) /\ (AllCommercial' => AllCommercial)
      BY <2>1 DEF Calm, AllCommercial, IsCommercial
    <2>3. StopTold'
      BY <1>1, <2>1, <2>2, StopStaysTold
    <2>4. \A i \in DOMAIN legs : LegTold(legs[i])'
      BY <2>1, <2>2, LegStaysTold DEF EtaTold, Told
    <2>5. ~LiveAnchor(position)'
      BY <1>4, <2>1 DEF LiveAnchor, Moving, Age
    <2> QED
      BY <1>1, <1>4, <2>1, <2>3, <2>4, <2>5 DEF EtaTold, Told
  <1> QED
    BY <1>2, <1>3, <1>4 DEF TryLive

LEMMA TryReckonedTold ==
  ASSUME EtaTold, TryReckoned
  PROVE  Told'
  <1> DEFINE tier == IF Reckonable(position) THEN "reckoned" ELSE "direct"
  <1>1. pc = "reckon" /\ pc \in Working /\ UNCHANGED <<now, river, request, since>> /\ StopTold /\ ~stop
    BY DEF TryReckoned, Working, EtaTold, Told, EtaInv, TypeOK
  <1>2. Calm => tier = TierOf(stop)
    BY <1>1 DEF TierOf, EtaTold, Told
  <1>3. PICK t \in Tiers : t = tier
    BY DEF Tiers
  <1>4. Answer(t) /\ (Calm => t = TierOf(stop))
    BY <1>2, <1>3 DEF TryReckoned, Answer
  <1> HIDE DEF tier
  <1> QED
    BY <1>1, <1>4, AnswerTold

\* She is heard: the calm is over, or has not begun to matter.
LEMMA HearTold ==
  ASSUME EtaTold, NEW t, NEW s, NEW commercial, Hear(t, s, commercial)
  PROVE  Told'
  <1>1. /\ asked' = asked /\ from' = from /\ way' = way /\ big' = big
        /\ legs' = legs /\ stop' = stop /\ pc' = pc
        /\ since' = IF pc = "idle" THEN since ELSE since \cup {position'}
    BY DEF Hear, request
  <1>2. IsFiniteSet(since')
    <2>1. \A x : IsFiniteSet(since \cup {x})
      BY FS_AddElement DEF EtaTold, Told
    <2> QED
      BY <1>1, <2>1 DEF EtaTold, Told
  <1>3. CASE pc = "idle"
    <2>1. legs' = <<>>
      BY <1>1, <1>3 DEF EtaTold, EtaInv, Progress
    <2> QED
      BY <1>1, <1>2, <1>3, <2>1 DEF Told
  <1>4. CASE pc # "idle"
    <2>1. position \in since /\ since \subseteq since' /\ position' \in since'
      BY <1>1, <1>4 DEF EtaTold, Told
    <2>2. Calm' => Calm /\ position' = position
      BY <2>1 DEF Calm
    <2>3. AllCommercial' => AllCommercial
      BY <2>1 DEF AllCommercial, IsCommercial
    <2>4. StopTold => StopTold'
      BY <1>1, <2>2, <2>3, StopStaysTold
    <2>5. \A i \in DOMAIN legs : LegTold(legs[i])'
      BY <1>1, <2>2, <2>3, LegStaysTold DEF EtaTold, Told
    <2>6. Calm' => (LiveAnchor(position)' <=> LiveAnchor(position))
      BY <1>1, <2>2 DEF LiveAnchor, Moving, Age
    <2> QED
      BY <1>1, <1>2, <2>1, <2>2, <2>4, <2>5, <2>6 DEF EtaTold, Told
  <1> QED
    BY <1>3, <1>4

LEMMA NextTold == EtaTold /\ [Next]_vars => EtaTold'
  <1> SUFFICES ASSUME EtaTold, [Next]_vars PROVE Told'
    BY NextEta DEF EtaTold
  <1>1. EtaInv /\ TypeOK /\ Told
    BY DEF EtaTold, EtaInv
  <1>2. ASSUME NEW m \in Froms, NEW c \in Ways \cup {0}, Ask(m, c) PROVE Told'
    BY <1>1, <1>2, AskTold
  <1>3. ASSUME NEW l \in Lockage \cup {Unknown}, FindLockage(l) PROVE Told'
    BY <1>3, FindLockageTold
  <1>4. CASE Reply \/ Fail \/ \E l \in Lockage \cup {Unknown} : NoAnswer(l)
    BY <1>4, DoneTold DEF Reply, Fail, NoAnswer
  <1>5. CASE ReadKind
    BY <1>5, ReadKindTold
  <1>6. CASE TryLive
    BY <1>6, TryLiveTold
  <1>7. CASE TryReckoned
    BY <1>7, TryReckonedTold
  <1>8. ASSUME NEW d \in Delays, NEW s \in Speeds, NEW commercial \in BOOLEAN, Hear(now - d, s, commercial)
        PROVE  Told'
    BY <1>8, HearTold
  <1>9. CASE Tick \/ UNCHANGED vars
    <2>1. UNCHANGED <<asked, from, way, big, legs, stop, pc, position, since>>
      BY <1>9 DEF Tick, vars, river, request
    <2> QED
      BY <1>1, <2>1, QuietTold
  <1> QED
    BY <1>2, <1>3, <1>4, <1>5, <1>6, <1>7, <1>8, <1>9 DEF Next

\* With one position heard since the request came, it is her newest.
LEMMA UndisturbedIsCalm ==
  ASSUME EtaTold, Undisturbed, pc # "idle"
  PROVE  Calm
  <1>1. IsFiniteSet(since) /\ position \in since /\ Cardinality(since) = 1
    BY DEF EtaTold, Told, Undisturbed
  <1>2. PICK x : since = {x}
    BY <1>1, FS_Singleton
  <1> QED
    BY <1>1, <1>2 DEF Calm

LEMMA NoLegsWhenIdle ==
  ASSUME EtaTold, NEW i \in DOMAIN legs
  PROVE  pc # "idle" /\ legs[i] \in Leg /\ LegTold(legs[i])
  BY DEF EtaTold, EtaInv, TypeOK, Progress, Told

LEMMA RecentHolds == EtaTold => RecentIsUsed
  <1> SUFFICES ASSUME EtaTold, Undisturbed, \A p \in since : Moving(p) /\ Age(p) <= ReckonFor,
                      NEW i \in DOMAIN legs, ~legs[i].stop
               PROVE  legs[i].tier \in {"live", "reckoned"}
    BY DEF RecentIsUsed
  <1>1. pc # "idle" /\ LegTold(legs[i]) /\ Calm
    BY NoLegsWhenIdle, UndisturbedIsCalm
  <1>2. legs[i].tier = IF LiveAnchor(position) THEN "live"
                       ELSE IF Reckonable(position) THEN "reckoned" ELSE "direct"
    BY <1>1 DEF LegTold, TierOf
  <1>3. Moving(position) /\ Age(position) <= ReckonFor
    BY <1>1 DEF Calm
  <1>4. Age(position) \in Int /\ LiveFor \in Nat /\ ReckonFor \in Nat
    <2>1. TypeOK
      BY DEF EtaTold, EtaInv
    <2>2. position \in Position /\ asked \in Int
      BY <1>3, <2>1, NumberTypes DEF Moving, TypeOK
    <2> QED
      BY <2>2, NumberTypes DEF Age, Position
  <1>5. LiveAnchor(position) \/ Reckonable(position)
    BY <1>3, <1>4 DEF LiveAnchor, Reckonable
  <1> QED
    BY <1>2, <1>5

\* In one tier a farther place is not reached earlier.
LEMMA BandAtFarther ==
  ASSUME TypeOK, NEW tier \in Tiers, NEW m \in Waypoints, NEW n \in Waypoints,
         Distance(m, from) <= Distance(n, from),
         tier \in {"live", "reckoned"} => Moving(position),
         tier = "reckoned" => Reckonable(position)
  PROVE  NoLater(BandAt(tier, m), BandAt(tier, n))
  <1>1. way \in Ways /\ <<way, big>> \in Ways \X BOOLEAN
    BY DEF TypeOK
  <1>2. Typical[way] \in SpeedRange /\ Measured[way] \in Nat \ {0}
    BY <1>1, SpeedsAssumption, ModelsAssumption
  <1>3. Distance(m, from) \in Nat /\ Distance(n, from) \in Nat
    <2>1. m \in Nat /\ n \in Nat /\ from \in Nat
      BY NumberTypes DEF TypeOK
    <2> QED
      BY <2>1 DEF Distance
  <1>4. tier \in {"live", "reckoned"} => position.speed \in Nat \ {0}
    BY MovingType
  <1>5. CASE tier = "live"
    BY <1>2, <1>3, <1>4, <1>5, LiveBandFarther DEF BandAt
  <1>6. CASE tier = "reckoned"
    <2>1. Age(position) \in Nat
      BY <1>6, NumberTypes DEF Reckonable
    <2> QED
      BY <1>2, <1>3, <1>4, <1>6, <2>1, ReckonedBandFarther DEF BandAt
  <1>7. CASE tier = "direct"
    <2>1. DirectModel[<<way, big>>] \in [p10 : Nat, med : Nat, p90 : Nat]
      BY <1>1, ModelsAssumption
    <2> QED
      BY <1>2, <1>3, <1>7, <2>1, ScaledBandFarther DEF BandAt
  <1>8. CASE tier = "full"
    <2>1. FullModel[<<way, big>>] \in [p10 : Nat, med : Nat, p90 : Nat]
      BY <1>1, ModelsAssumption
    <2> QED
      BY <1>2, <1>3, <1>8, <2>1, ScaledBandFarther DEF BandAt
  <1> QED
    BY <1>5, <1>6, <1>7, <1>8 DEF Tiers

LEMMA CheckpointsHold == EtaTold => CheckpointsInOrder
  <1> SUFFICES ASSUME EtaTold, Undisturbed \/ \A p \in since : IsCommercial(p),
                      NEW i \in DOMAIN legs, NEW j \in DOMAIN legs,
                      {legs[i].to, legs[j].to} \subseteq {Bridge, LockMile},
                      Distance(legs[i].to, from) <= Distance(legs[j].to, from)
               PROVE  \A f \in {"p10", "med", "p90"} : legs[i].band[f] <= legs[j].band[f]
    BY DEF CheckpointsInOrder
  <1>1. /\ pc # "idle" /\ legs[i] \in Leg /\ LegTold(legs[i]) /\ legs[j] \in Leg /\ LegTold(legs[j])
        /\ TypeOK
    BY NoLegsWhenIdle DEF EtaTold, EtaInv
  <1>2. TerminalAt(legs[i].to) /\ TerminalAt(legs[j].to)
    BY DEF TerminalAt
  <1>3. legs[i].to \in Waypoints /\ legs[j].to \in Waypoints
    BY NumberTypes
  <1>4. PICK tier \in Tiers : /\ legs[i].band = BandAt(tier, legs[i].to)
                              /\ legs[j].band = BandAt(tier, legs[j].to)
                              /\ tier = "full" \/ tier = TierOf(FALSE)
    <2>1. CASE \A p \in since : IsCommercial(p)
      <3>1. AllCommercial
        BY <2>1 DEF AllCommercial
      <3> QED
        BY <1>1, <1>2, <3>1 DEF LegTold, Tiers
    <2>2. CASE Undisturbed
      <3>1. Calm
        BY <1>1, <2>2, UndisturbedIsCalm
      <3>2. /\ legs[i].stop <=> IsCommercial(position)
            /\ legs[j].stop <=> IsCommercial(position)
        BY <1>1, <1>2, <3>1 DEF LegTold
      <3>3. /\ legs[i].tier = TierOf(legs[i].stop) /\ legs[i].band = BandAt(legs[i].tier, legs[i].to)
            /\ legs[j].tier = TierOf(legs[j].stop) /\ legs[j].band = BandAt(legs[j].tier, legs[j].to)
        BY <1>1, <3>1 DEF LegTold
      <3>4. legs[i].tier \in Tiers /\ legs[j].tier \in Tiers
        BY <1>1 DEF Leg
      <3>5. CASE IsCommercial(position)
        BY <3>2, <3>3, <3>4, <3>5 DEF TierOf
      <3>6. CASE ~IsCommercial(position)
        BY <3>2, <3>3, <3>4, <3>6 DEF TierOf
      <3> QED
        BY <3>5, <3>6
    <2> QED
      BY <2>1, <2>2
  <1>5. /\ tier \in {"live", "reckoned"} => Moving(position)
        /\ tier = "reckoned" => Reckonable(position)
    BY <1>4 DEF TierOf, LiveAnchor, Reckonable
  <1>6. NoLater(BandAt(tier, legs[i].to), BandAt(tier, legs[j].to))
    BY <1>1, <1>3, <1>5, BandAtFarther
  <1> QED
    BY <1>4, <1>6 DEF NoLater

----------------------------------------------------------------------------
(* GET /vessel-eta keeps its types, and estimates the places in the order of the way,
   one leg each, whatever comes in between its queries. *)
THEOREM TypeCorrect == Spec => []TypeOK
  <1>1. EtaInv => TypeOK
    BY DEF EtaInv
  <1> QED
    BY <1>1, InitEta, NextEta, PTL DEF Spec

(* Every band of every answer has its middle time before its late one and its early time
   before the late one, before the middle one too unless it was reckoned from an old
   position, for all rivers, speeds and measured times. *)
THEOREM BandsAreInOrder == Spec => []BandsInOrder
  <1>1. EtaInv => BandsInOrder
    BY DEF EtaInv
  <1> QED
    BY <1>1, InitEta, NextEta, PTL DEF Spec

(* A vessel last heard moving within the reckoning age is never given the times of other
   vessels, unless a leg meets the terminal or she was heard anew between the queries: the
   live tier and the reckoned one leave no gap, for all ages and speeds. *)
THEOREM RecentPositionsAreUsed == Spec => []RecentIsUsed
  <1>1. Init => EtaTold
    BY InitEta, InitTold DEF EtaTold
  <1> QED
    BY <1>1, NextTold, RecentHolds, PTL DEF Spec

(* Of the two Red Wing checkpoints the nearer one is not reached later, in any of the three
   times: for a tow whatever comes in between the queries, because both count as the terminal,
   for others as long as nothing does. *)
THEOREM CheckpointsAreInOrder == Spec => []CheckpointsInOrder
  <1>1. Init => EtaTold
    BY InitEta, InitTold DEF EtaTold
  <1> QED
    BY <1>1, NextTold, CheckpointsHold, PTL DEF Spec

=============================================================================
