------------------------ MODULE LivePositionsProofs ------------------------
(***************************************************************************)
(* Theorems about LivePositions: what the three tiers of one answer have   *)
(* to do with each other, for any number of vessels and locks, any river   *)
(* and any windows that are wide enough for the patience of a request.     *)
(***************************************************************************)
EXTENDS LivePositions, FiniteSetTheorems, TLAPS

PCs == {"idle", "names", "reckon", "departures", "project", "reply"}

\* The types the tiers depend on.
TierType ==
    /\ now \in Nat /\ polled \in Nat /\ polled <= now
    /\ pc \in PCs
    /\ pc # "idle" => now <= polled + Patience
    /\ rows \in [Vessels -> Row \cup {NoRow}]
    /\ live \subseteq Vessels /\ quiet \subseteq Vessels
    /\ due = [v \in Vessels |-> due[v]] /\ markers = [v \in Vessels |-> markers[v]]

\* Only vessels of Anonymous lose their names, and a row that made its vessel live stays
\* at least as new as it was.
RowInv ==
    /\ \A v \in Vessels \ Anonymous : rows[v] # NoRow => rows[v].named
    /\ pc = "names" => \A v \in live : rows[v] # NoRow /\ rows[v].seen > polled - Fresh

\* Who is live under her name is heard; who is heard is neither due nor marked.
HeardInv ==
    /\ pc \in {"idle", "names", "reckon", "departures"} => whole /\ due = NoVessel /\ markers = NoVessel
    /\ ~whole => due = NoVessel /\ markers = NoVessel
    /\ pc \in {"reckon", "departures", "project", "reply"} /\ whole => live \ Anonymous \subseteq heard
    /\ \A v \in Vessels : due[v] # NoRow \/ markers[v] # NoRow => v \notin heard

\* A vessel of which nothing was reported since the live tier was read is in it, or was
\* already too old for it; and then the dead-reckoned tier has her.
QuietInv ==
    /\ pc \in {"names", "reckon"} =>
         \A v \in quiet : rows[v] # NoRow => v \in live \/ rows[v].seen <= polled - Fresh
    /\ pc \in {"departures", "project", "reply"} /\ whole =>
         \A v \in quiet : rows[v] # NoRow /\ rows[v].speed >= MinSpeed /\ rows[v].seen > now - DeadReckon
                          => v \in live \cup reckoned

TierInv == TierType /\ RowInv /\ HeardInv /\ QuietInv

----------------------------------------------------------------------------
LEMMA WindowTypes == Fresh \in Nat /\ DeadReckon \in Nat /\ Patience \in Nat /\ Ahead \in Nat /\ Lag \in Nat
  BY WindowsAssumption

LEMMA InitTier == Init => TierInv
  <1> SUFFICES ASSUME Init PROVE TierInv
    OBVIOUS
  <1>1. TierType
    BY WindowTypes DEF Init, TierType, PCs, NoVessel
  <1>2. RowInv /\ HeardInv /\ QuietInv
    BY DEF Init, RowInv, HeardInv, QuietInv, NoVessel
  <1> QED
    BY <1>1, <1>2 DEF TierInv

\* What a report does to the rows.
LEMMA ReportRow ==
  ASSUME TierType, NEW v \in Vessels, Report(v)
  PROVE  \E r \in Row :
           /\ rows' = [rows EXCEPT ![v] = r]
           /\ rows[v] # NoRow => r.seen > rows[v].seen
           /\ v \notin Anonymous => r.named
  <1>1. PICK r \in [seen : Larger(0, now - Lag) .. now + Ahead, mile : Miles, speed : Speeds,
                    named : IF v \in Anonymous THEN BOOLEAN ELSE {TRUE}] :
               /\ rows[v] # NoRow => r.seen > rows[v].seen
               /\ rows' = [rows EXCEPT ![v] = r]
    BY DEF Report
  <1>2. r.seen \in Nat
    BY <1>1, WindowTypes DEF TierType, Larger
  <1>3. r = [seen |-> r.seen, mile |-> r.mile, speed |-> r.speed, named |-> r.named]
    BY <1>1
  <1>4. r.mile \in Miles /\ r.speed \in Speeds /\ r.named \in BOOLEAN
    BY <1>1
  <1>5. r \in Row
    BY <1>2, <1>3, <1>4 DEF Row
  <1>6. v \notin Anonymous => r.named
    BY <1>1
  <1> QED
    BY <1>1, <1>5, <1>6

LEMMA ReportKeepsTier ==
  ASSUME TierInv, NEW v \in Vessels, Report(v)
  PROVE  TierInv'
  <1>1. PICK r \in Row :
           /\ rows' = [rows EXCEPT ![v] = r]
           /\ rows[v] # NoRow => r.seen > rows[v].seen
           /\ v \notin Anonymous => r.named
    BY ReportRow DEF TierInv
  <1>2. r # NoRow /\ r.seen \in Nat
    BY <1>1, NoRowAssumption DEF Row
  <1>3. UNCHANGED <<now, departures, pc, answer, shown>> /\ quiet' = quiet \ {v}
    BY DEF Report
  <1>4. rows'[v] = r /\ \A u \in Vessels : u # v => rows'[u] = rows[u]
    BY <1>1 DEF TierInv, TierType
  <1>5. TierType'
    BY <1>1, <1>3 DEF TierInv, TierType, answer
  <1>6. RowInv'
    <2>1. \A u \in Vessels \ Anonymous : rows'[u] # NoRow => rows'[u].named
      BY <1>1, <1>4 DEF TierInv, RowInv
    <2>2. ASSUME pc' = "names", NEW u \in live'
          PROVE  rows'[u] # NoRow /\ rows'[u].seen > polled' - Fresh
      <3>1. u \in Vessels /\ pc = "names" /\ u \in live /\ polled' = polled
        BY <1>3, <2>2 DEF answer, TierInv, TierType
      <3>2. rows[u] # NoRow /\ rows[u].seen > polled - Fresh /\ rows[u].seen \in Nat
        BY <3>1 DEF TierInv, RowInv, TierType, Row
      <3>3. polled \in Nat /\ Fresh \in Nat
        BY WindowTypes DEF TierInv, TierType
      <3> QED
        BY <1>1, <1>2, <1>4, <3>1, <3>2, <3>3
    <2> QED
      BY <2>1, <2>2 DEF RowInv
  <1>7. HeardInv'
    BY <1>3 DEF TierInv, HeardInv, answer
  <1>8. QuietInv'
    <2>1. \A u \in quiet' : u \in quiet /\ u \in Vessels /\ rows'[u] = rows[u]
      BY <1>3, <1>4 DEF TierInv, TierType
    <2> QED
      BY <1>3, <2>1 DEF TierInv, QuietInv, answer
  <1> QED
    BY <1>5, <1>6, <1>7, <1>8 DEF TierInv

\* Time makes vessels too old to be dead reckoned, never young enough.
LEMMA TickKeepsTier ==
  ASSUME TierInv, Tick
  PROVE  TierInv'
  <1>1. now' = now + 1 /\ UNCHANGED <<db, pc, answer, quiet, shown>> /\ (pc # "idle" => now < polled + Patience)
    BY DEF Tick
  <1>2. now \in Nat /\ polled \in Nat
    BY DEF TierInv, TierType
  <1>3. TierType'
    BY <1>1, WindowTypes DEF TierInv, TierType, db, answer
  <1>4. RowInv' /\ HeardInv'
    BY <1>1 DEF TierInv, RowInv, HeardInv, db, answer
  <1>5. QuietInv'
    <2>1. pc' = pc /\ whole' = whole /\ live' = live /\ reckoned' = reckoned /\ polled' = polled
          /\ quiet' = quiet /\ rows' = rows
      BY <1>1 DEF db, answer
    <2>2. ASSUME NEW v \in quiet, rows[v] # NoRow, rows[v].seen > now' - DeadReckon
          PROVE  rows[v].seen > now - DeadReckon
      <3>1. rows[v].seen \in Nat
        BY <2>2 DEF TierInv, TierType, Row
      <3> QED
        BY <1>1, <1>2, <2>2, <3>1, WindowTypes
    <2>3. ASSUME pc \in {"names", "reckon"}, NEW v \in quiet, rows[v] # NoRow
          PROVE  v \in live \/ rows[v].seen <= polled - Fresh
      BY <2>3 DEF TierInv, QuietInv
    <2>4. ASSUME pc \in {"departures", "project", "reply"}, whole, NEW v \in quiet, rows[v] # NoRow,
                 rows[v].speed >= MinSpeed, rows[v].seen > now' - DeadReckon
          PROVE  v \in live \cup reckoned
      BY <2>2, <2>4 DEF TierInv, QuietInv
    <2> QED
      BY <2>1, <2>3, <2>4 DEF QuietInv
  <1> QED
    BY <1>3, <1>4, <1>5 DEF TierInv

LEMMA ReadLiveKeepsTier ==
  ASSUME TierInv, ReadLive
  PROVE  TierInv'
  <1>1. /\ pc = "idle" /\ pc' = "names" /\ live' = FreshRows /\ polled' = now
        /\ UNCHANGED <<now, db, started, heard, reckoned, due, markers, whole, quiet, shown>>
    BY DEF ReadLive
  <1>2. TierType'
    BY <1>1, WindowTypes DEF TierInv, TierType, PCs, FreshRows, db
  <1>3. RowInv'
    BY <1>1 DEF TierInv, RowInv, FreshRows, db
  <1>4. HeardInv'
    BY <1>1 DEF TierInv, HeardInv
  <1>5. QuietInv'
    <2>1. ASSUME NEW v \in quiet, rows[v] # NoRow, v \notin FreshRows
          PROVE  rows[v].seen <= now - Fresh
      <3>1. v \in Vessels /\ rows[v].seen \in Nat /\ now \in Nat /\ Fresh \in Nat
        BY <2>1, WindowTypes DEF TierInv, TierType, Row
      <3> QED
        BY <2>1, <3>1 DEF FreshRows
    <2> QED
      BY <1>1, <2>1 DEF TierInv, QuietInv, db
  <1> QED
    BY <1>2, <1>3, <1>4, <1>5 DEF TierInv

\* The windows overlap by more than the patience of a request: whoever is live under a
\* name is still heard when the names are read.
LEMMA ReadNamesKeepsTier ==
  ASSUME TierInv, ReadNames
  PROVE  TierInv'
  <1>1. /\ pc = "names" /\ pc' = "reckon" /\ heard' = HeardNames
        /\ UNCHANGED <<now, db, polled, live, reckoned, due, markers, whole, quiet, shown>>
    BY DEF ReadNames
  <1>2. TierType'
    BY <1>1 DEF TierInv, TierType, PCs, db
  <1>3. RowInv'
    BY <1>1 DEF TierInv, RowInv, db
  <1>4. HeardInv'
    <2>1. live \ Anonymous \subseteq HeardNames
      <3> SUFFICES ASSUME NEW v \in live, v \notin Anonymous
                   PROVE  v \in HeardNames
        OBVIOUS
      <3>1. v \in Vessels /\ rows[v] # NoRow /\ rows[v].named /\ rows[v].seen > polled - Fresh
        BY <1>1 DEF TierInv, TierType, RowInv
      <3>2. rows[v].seen \in Nat /\ now \in Nat /\ polled \in Nat /\ now <= polled + Patience
        BY <1>1, <3>1 DEF TierInv, TierType, Row
      <3>3. rows[v].seen > now - DeadReckon
        BY <3>1, <3>2, WindowTypes, WindowsAssumption
      <3> QED
        BY <3>1, <3>3 DEF HeardNames
    <2>2. due = NoVessel /\ markers = NoVessel
      BY <1>1 DEF TierInv, HeardInv
    <2> QED
      BY <1>1, <2>1, <2>2 DEF TierInv, HeardInv, NoVessel
  <1>5. QuietInv'
    BY <1>1 DEF TierInv, QuietInv, db
  <1> QED
    BY <1>2, <1>3, <1>4, <1>5 DEF TierInv

\* Who was too old for the live tier then is old enough for the dead-reckoned one now.
LEMMA ReadReckonableKeepsTier ==
  ASSUME TierInv, ReadReckonable
  PROVE  TierInv'
  <1>1. /\ pc = "reckon" /\ pc' = "departures" /\ reckoned' = Reckonable
        /\ UNCHANGED <<now, db, polled, started, live, heard, due, markers, whole, quiet, shown>>
    BY DEF ReadReckonable
  <1>2. TierType'
    BY <1>1 DEF TierInv, TierType, PCs, db
  <1>3. RowInv' /\ HeardInv'
    BY <1>1 DEF TierInv, RowInv, HeardInv, db
  <1>4. QuietInv'
    <2>1. ASSUME NEW v \in quiet, rows[v] # NoRow, rows[v].speed >= MinSpeed,
                 rows[v].seen > now - DeadReckon, v \notin live
          PROVE  v \in Reckonable
      <3>1. v \in Vessels /\ rows[v].seen <= polled - Fresh
        BY <1>1, <2>1 DEF TierInv, TierType, QuietInv
      <3>2. rows[v].seen \in Nat /\ now \in Nat /\ polled \in Nat /\ polled <= now
        BY <2>1, <3>1 DEF TierInv, TierType, Row
      <3>3. rows[v].seen <= now - Fresh
        BY <3>1, <3>2, WindowTypes
      <3> QED
        BY <2>1, <3>1, <3>3 DEF Reckonable
    <2> QED
      BY <1>1, <2>1 DEF TierInv, QuietInv, db
  <1> QED
    BY <1>2, <1>3, <1>4 DEF TierInv

LEMMA ReadDeparturesKeepsTier ==
  ASSUME TierInv, ReadDepartures
  PROVE  TierInv'
  <1>1. PICK f \in [Vessels -> departures \cup {NoRow}] :
           /\ \A v \in Vessels : IF Recent(v) = {} THEN f[v] = NoRow ELSE f[v] \in Newest(v)
           /\ due' = f
    BY DEF ReadDepartures
  <1>2. /\ pc = "departures" /\ pc' = "project"
        /\ UNCHANGED <<now, db, polled, started, live, heard, reckoned, markers, whole, quiet, shown>>
    BY DEF ReadDepartures
  <1>3. ASSUME NEW v \in Vessels, due'[v] # NoRow
        PROVE  v \notin heard
    BY <1>1, <1>3 DEF Recent
  <1>4. due' = [v \in Vessels |-> due'[v]]
    BY <1>1
  <1>5. TierType'
    BY <1>2, <1>4 DEF TierInv, TierType, PCs, db
  <1>6. RowInv' /\ QuietInv'
    BY <1>2 DEF TierInv, RowInv, QuietInv, db
  <1>7. HeardInv'
    <2>1. whole /\ live \ Anonymous \subseteq heard /\ markers = NoVessel
      BY <1>2 DEF TierInv, HeardInv
    <2> QED
      BY <1>2, <1>3, <2>1 DEF HeardInv, NoVessel
  <1> QED
    BY <1>5, <1>6, <1>7 DEF TierInv

LEMMA ProjectKeepsTier ==
  ASSUME TierInv, NEW v \in Vessels, Project(v)
  PROVE  TierInv'
  <1>1. PICK m : markers' = [markers EXCEPT ![v] = m]
    BY DEF Project
  <1>2. /\ pc = "project" /\ due[v] # NoRow /\ due' = [due EXCEPT ![v] = NoRow]
        /\ UNCHANGED <<now, db, pc, polled, started, live, heard, reckoned, whole, quiet, shown>>
    BY DEF Project
  <1>3. /\ due' = [u \in Vessels |-> due'[u]] /\ markers' = [u \in Vessels |-> markers'[u]]
        /\ \A u \in Vessels : due'[u] # NoRow => due[u] # NoRow
        /\ \A u \in Vessels : markers'[u] # NoRow => markers[u] # NoRow \/ u = v
    BY <1>1, <1>2 DEF TierInv, TierType
  <1>4. TierType'
    BY <1>2, <1>3 DEF TierInv, TierType, db
  <1>5. RowInv' /\ QuietInv'
    BY <1>2 DEF TierInv, RowInv, QuietInv, db
  <1>6. HeardInv'
    <2>1. whole
      BY <1>2 DEF TierInv, HeardInv, NoVessel
    <2>2. \A u \in Vessels : due'[u] # NoRow \/ markers'[u] # NoRow => u \notin heard
      BY <1>2, <1>3 DEF TierInv, HeardInv
    <2>3. pc' = "project" /\ live \ Anonymous \subseteq heard
      BY <1>2, <2>1 DEF TierInv, HeardInv
    <2> QED
      BY <1>2, <2>1, <2>2, <2>3 DEF HeardInv
  <1> QED
    BY <1>4, <1>5, <1>6 DEF TierInv

\* The steps that only end the projection or the request.
LEMMA EndKeepsTier ==
  ASSUME TierInv, Build \/ Fail \/ Reply
  PROVE  TierInv'
  <1>1. CASE Build
    <2>1. pc = "project" /\ due = NoVessel /\ pc' = "reply" /\ UNCHANGED <<now, db, answer, quiet, shown>>
      BY <1>1 DEF Build
    <2> QED
      BY <2>1 DEF TierInv, TierType, RowInv, HeardInv, QuietInv, PCs, db, answer
  <1>2. CASE Fail
    <2>1. /\ pc \in {"names", "reckon", "departures", "project"} /\ pc' = "reply"
          /\ markers' = NoVessel /\ due' = NoVessel /\ whole' = FALSE
          /\ UNCHANGED <<now, db, polled, started, live, heard, quiet, shown>>
      BY <1>2 DEF Fail
    <2> QED
      BY <2>1 DEF TierInv, TierType, RowInv, HeardInv, QuietInv, PCs, db, NoVessel
  <1>3. CASE Reply
    <2>1. /\ pc' = "idle" /\ polled' = 0 /\ live' = {} /\ heard' = {}
          /\ due' = NoVessel /\ markers' = NoVessel /\ whole' = TRUE /\ quiet' = Vessels
          /\ UNCHANGED <<now, db>>
      BY <1>3 DEF Reply
    <2> QED
      BY <2>1 DEF TierInv, TierType, RowInv, HeardInv, QuietInv, PCs, db, NoVessel
  <1> QED
    BY <1>1, <1>2, <1>3

LEMMA StepTier == TierInv /\ [Next]_vars => TierInv'
  <1> SUFFICES ASSUME TierInv, [Next]_vars PROVE TierInv'
    OBVIOUS
  <1>1. CASE Tick
    BY <1>1, TickKeepsTier
  <1>2. ASSUME NEW v \in Vessels, Report(v) PROVE TierInv'
    BY <1>2, ReportKeepsTier
  <1>3. ASSUME NEW v \in Vessels, Depart(v) PROVE TierInv'
    <2>1. UNCHANGED <<now, rows, reports, pc, answer, quiet, shown>>
      BY <1>3 DEF Depart
    <2> QED
      BY <2>1 DEF TierInv, TierType, RowInv, HeardInv, QuietInv, answer
  <1>4. ASSUME NEW v \in Vessels, Project(v) PROVE TierInv'
    BY <1>4, ProjectKeepsTier
  <1>5. CASE ReadLive
    BY <1>5, ReadLiveKeepsTier
  <1>6. CASE ReadNames
    BY <1>6, ReadNamesKeepsTier
  <1>7. CASE ReadReckonable
    BY <1>7, ReadReckonableKeepsTier
  <1>8. CASE ReadDepartures
    BY <1>8, ReadDeparturesKeepsTier
  <1>9. CASE Build \/ Fail \/ Reply
    BY <1>9, EndKeepsTier
  <1>10. CASE UNCHANGED vars
    BY <1>10 DEF TierInv, TierType, RowInv, HeardInv, QuietInv, vars, db, answer
  <1> QED
    BY <1>1, <1>2, <1>3, <1>4, <1>5, <1>6, <1>7, <1>8, <1>9, <1>10 DEF Next

(* In every state, what the handler has read of each tier so far still agrees
   with the rows it was read from, up to the reports and the time that may have
   passed between two queries of GET /live-positions. *)
THEOREM TierInvariant == Spec => []TierInv
  BY InitTier, StepTier, PTL DEF Spec

\* No vessel that is heard under her name is live and projected from a lock in one
\* answer, whatever is reported between the queries of the handler.
THEOREM LiveIsNotProjected == Spec => []NeverLiveAndProjected
  <1>1. TierInv => NeverLiveAndProjected
    <2> SUFFICES ASSUME TierInv, pc = "reply", NEW v \in live \ Anonymous
                 PROVE  markers[v] = NoRow
      BY DEF NeverLiveAndProjected
    <2>1. v \in Vessels
      BY DEF TierInv, TierType
    <2>2. CASE whole
      BY <2>1, <2>2 DEF TierInv, HeardInv
    <2>3. CASE ~whole
      BY <2>1, <2>3 DEF TierInv, HeardInv, NoVessel
    <2> QED
      BY <2>2, <2>3
  <1> QED
    BY <1>1, TierInvariant, PTL

\* No moving vessel that was heard within the dead-reckoning window, and of which nothing
\* was reported meanwhile, is missing from a whole answer.
THEOREM QuietVesselsAreAnswered == Spec => []NobodyLost
  <1>1. TierInv => NobodyLost
    BY DEF TierInv, QuietInv, NobodyLost
  <1> QED
    BY <1>1, TierInvariant, PTL
----------------------------------------------------------------------------
(* Where a marker is, as a function of time                                *)

LEMMA DivisionMonotone ==
  ASSUME NEW x \in Int, NEW y \in Int, x <= y, NEW n \in Nat \ {0}
  PROVE  x \div n \in Int /\ y \div n \in Int /\ x \div n <= y \div n
  <1> DEFINE p == x \div n
             q == y \div n
  <1>1. p \in Int /\ q \in Int /\ n * p <= x /\ x < n * (p + 1) /\ n * q <= y /\ y < n * (q + 1)
    OBVIOUS
  <1> HIDE DEF p, q
  <1>2. n * p < n * (q + 1)
    BY <1>1
  <1>3. p < q + 1
    <2> SUFFICES ASSUME q + 1 <= p PROVE FALSE
      BY <1>1
    <2>1. n * (q + 1) <= n * p
      BY <1>1
    <2> QED
      BY <1>1, <1>2, <2>1
  <1>4. p <= q
    BY <1>1, <1>3
  <1> QED
    BY <1>1, <1>4 DEF p, q

\* How far along a hop of span miles a tow is after e ticks.
Progress(span, leg, e) ==
    IF leg > 0
      THEN IF e < leg THEN (span * e) \div leg
           ELSE IF (e - leg) * Pace < Grace * Pace THEN span + (e - leg) * Pace
           ELSE span + Grace * Pace
      ELSE IF e * Pace < span + Grace * Pace THEN e * Pace
           ELSE span + Grace * Pace

LEMMA RiverTypes ==
  /\ Pace \in Nat /\ Pace > 0 /\ Grace \in Nat /\ Grace * Pace \in Nat /\ Receiver \in Int /\ Radius \in Nat
  /\ Miles \subseteq Int /\ Speeds \subseteq Nat
  /\ \A k \in Locks : LockMile[k] \in Int /\ \A dir \in {1, -1} : LegTime[<<k, dir>>] \in Nat
  BY SpeedAssumption, WindowsAssumption, RiverAssumption

LEMMA ProgressMonotone ==
  ASSUME NEW span \in Nat, NEW leg \in Nat, NEW s \in Int, NEW t \in Int, s <= t
  PROVE  /\ Progress(span, leg, s) \in Int /\ Progress(span, leg, t) \in Int
         /\ Progress(span, leg, s) <= Progress(span, leg, t)
  <1> DEFINE grace == Grace * Pace
             ps == s * Pace
             pt == t * Pace
             os == (s - leg) * Pace
             ot == (t - leg) * Pace
  <1>1. grace \in Nat /\ Pace \in Nat
    BY RiverTypes
  <1>2. ps \in Int /\ pt \in Int /\ ps <= pt /\ os \in Int /\ ot \in Int /\ os <= ot /\ (s >= leg => os >= 0) /\ (t >= leg => ot >= 0)
    <2>1. ps \in Int /\ pt \in Int /\ os \in Int /\ ot \in Int
      BY <1>1
    <2>2. \A a, b \in Int : a <= b => a * Pace <= b * Pace
      BY <1>1
    <2>3. s - leg \in Int /\ t - leg \in Int /\ s - leg <= t - leg /\ 0 * Pace = 0 /\ 0 \in Int
      BY <1>1
    <2>4. ps <= pt
      BY <2>2
    <2>5. os <= ot
      BY <2>2, <2>3
    <2>6. (s >= leg => 0 * Pace <= os) /\ (t >= leg => 0 * Pace <= ot)
      BY <2>2, <2>3
    <2> HIDE DEF ps, pt, os, ot
    <2> QED
      BY <2>1, <2>3, <2>4, <2>5, <2>6
  <1>3. CASE leg > 0
    <2> DEFINE ds == (span * s) \div leg
               dt == (span * t) \div leg
    <2>1. ds \in Int /\ dt \in Int /\ ds <= dt /\ (s < leg => ds <= span)
      <3>1. \A a, b \in Int : a <= b => span * a <= span * b
        OBVIOUS
      <3>2. span * s \in Int /\ span * t \in Int /\ span * leg \in Int /\ span * s <= span * t
        BY <3>1
      <3>3. ds \in Int /\ dt \in Int /\ ds <= dt
        <4> DEFINE x == span * s
                   y == span * t
        <4> HIDE DEF x, y
        <4> QED
          BY <1>3, <3>2, DivisionMonotone DEF x, y
      <3>4. (span * leg) \div leg = span
        <4>1. span * leg = leg * span
          OBVIOUS
        <4>2. (leg * span) \div leg = span
          BY <1>3
        <4> QED
          BY <4>1, <4>2
      <3>5. s < leg => ds <= span
        <4> SUFFICES ASSUME s < leg PROVE ds <= span
          OBVIOUS
        <4>1. span * s <= span * leg
          BY <3>1
        <4> DEFINE x == span * s
                   y == span * leg
        <4> HIDE DEF x, y
        <4>2. x \div leg <= y \div leg
          BY <1>3, <3>2, <4>1, DivisionMonotone DEF x, y
        <4> QED
          BY <3>4, <4>2 DEF x, y
      <3> QED
        BY <3>3, <3>5
    <2>2. /\ Progress(span, leg, s) = IF s < leg THEN ds ELSE IF os < grace THEN span + os ELSE span + grace
          /\ Progress(span, leg, t) = IF t < leg THEN dt ELSE IF ot < grace THEN span + ot ELSE span + grace
      BY <1>3 DEF Progress
    <2> HIDE DEF grace, ps, pt, os, ot, ds, dt
    <2> QED
      BY <1>1, <1>2, <2>1, <2>2
  <1>4. CASE ~(leg > 0)
    <2>1. /\ Progress(span, leg, s) = IF ps < span + grace THEN ps ELSE span + grace
          /\ Progress(span, leg, t) = IF pt < span + grace THEN pt ELSE span + grace
      BY <1>4 DEF Progress
    <2> HIDE DEF grace, ps, pt, os, ot
    <2> QED
      BY <1>1, <1>2, <2>1
  <1> QED
    BY <1>3, <1>4

\* One hop is progress along its span; beyond the last lock she goes on at typical pace.
LEMMA HopIsProgress ==
  ASSUME NEW k \in Locks, NEW dir \in {1, -1}
  PROVE  \/ \A e \in Int : ProjectHop(k, dir, e) = LockMile[k] + dir * (e * Pace)
         \/ \E span \in Nat : \A e \in Int : ProjectHop(k, dir, e) = LockMile[k] + dir * Progress(span, LegTime[<<k, dir>>], e)
  <1> DEFINE from == LockMile[k]
             leg == LegTime[<<k, dir>>]
  <1>1. from \in Int /\ leg \in Nat /\ Pace \in Nat /\ Grace * Pace \in Nat /\ (dir = 1 \/ dir = -1)
    BY RiverTypes
  <1>2. \A e \in Int : from + dir * e * Pace = from + dir * (e * Pace)
    BY <1>1
  <1>3. CASE NextLocks(k, dir) = {}
    <2>1. \A e \in Int : ProjectHop(k, dir, e) = from + dir * e * Pace
      BY <1>3 DEF ProjectHop
    <2> QED
      BY <1>2, <2>1
  <1>4. CASE NextLocks(k, dir) # {}
    <2> DEFINE next == LockMile[CHOOSE j \in NextLocks(k, dir) : TRUE]
               span == dir * (next - from)
    <2>1. span \in Nat /\ next \in Int /\ next = from + dir * span
      <3>1. PICK j : j = CHOOSE i \in NextLocks(k, dir) : TRUE
        OBVIOUS
      <3>2. j \in NextLocks(k, dir)
        BY <1>4, <3>1
      <3>3. j \in Locks /\ dir * (LockMile[j] - LockMile[k]) > 0
        BY <3>2 DEF NextLocks, LocksAhead
      <3>4. LockMile[j] \in Int
        BY <3>3, RiverTypes
      <3> QED
        BY <1>1, <3>1, <3>3, <3>4
    <2>2. ASSUME NEW e \in Int
          PROVE  ProjectHop(k, dir, e) = from + dir * Progress(span, leg, e)
      <3> DEFINE short == IF leg > 0 THEN e < leg ELSE e * Pace < span
                 past == IF leg > 0 THEN (e - leg) * Pace ELSE e * Pace - span
                 grace == Grace * Pace
                 run == e * Pace
                 over == (e - leg) * Pace
                 share == (span * e) \div leg
      <3>1. /\ (short /\ leg > 0 => ProjectHop(k, dir, e) = from + dir * share)
            /\ (short /\ leg = 0 => ProjectHop(k, dir, e) = from + dir * e * Pace)
            /\ (~short /\ past < grace => ProjectHop(k, dir, e) = next + dir * past)
            /\ (~short /\ ~(past < grace) => ProjectHop(k, dir, e) = next + dir * Grace * Pace)
        BY <1>1, <1>4 DEF ProjectHop, Overdue
      <3>2. run \in Int /\ over \in Int /\ grace \in Nat
        BY <1>1
      <3>3. leg > 0 => share \in Int
        BY <1>1, <2>1
      <3>4. from + dir * e * Pace = from + dir * run /\ next + dir * Grace * Pace = next + dir * grace
        BY <1>1, <2>1, RiverTypes
      <3>5. Progress(span, leg, e) =
              IF leg > 0 THEN IF e < leg THEN share ELSE IF over < grace THEN span + over ELSE span + grace
                         ELSE IF run < span + grace THEN run ELSE span + grace
        BY DEF Progress
      <3>6. CASE leg > 0
        <4>1. (short <=> e < leg) /\ past = over
          BY <3>6
        <4> HIDE DEF next, span, from, leg, run, over, grace, share, short, past
        <4>2. CASE e < leg
          BY <3>1, <3>5, <3>6, <4>1, <4>2
        <4>3. CASE ~(e < leg) /\ over < grace
          BY <1>1, <2>1, <3>1, <3>2, <3>5, <3>6, <4>1, <4>3
        <4>4. CASE ~(e < leg) /\ ~(over < grace)
          BY <1>1, <2>1, <3>1, <3>2, <3>4, <3>5, <3>6, <4>1, <4>4
        <4> QED
          BY <4>2, <4>3, <4>4
      <3>7. CASE ~(leg > 0)
        <4>1. (short <=> run < span) /\ past = run - span /\ leg = 0
          BY <1>1, <3>7
        <4> HIDE DEF next, span, from, leg, run, over, grace, share, short, past
        <4>2. CASE run < span
          BY <1>1, <2>1, <3>1, <3>2, <3>4, <3>5, <3>7, <4>1, <4>2
        <4>3. CASE ~(run < span) /\ past < grace
          BY <1>1, <2>1, <3>1, <3>2, <3>5, <3>7, <4>1, <4>3
        <4>4. CASE ~(run < span) /\ ~(past < grace)
          BY <1>1, <2>1, <3>1, <3>2, <3>4, <3>5, <3>7, <4>1, <4>4
        <4> QED
          BY <4>2, <4>3, <4>4
      <3> QED
        BY <3>6, <3>7
    <2> QED
      BY <2>1, <2>2
  <1> QED
    BY <1>3, <1>4

\* A tow that left a lock does not go back on the hop.
LEMMA HopMonotone ==
  ASSUME NEW k \in Locks, NEW dir \in {1, -1}, NEW s \in Int, NEW t \in Int, s <= t
  PROVE  /\ ProjectHop(k, dir, s) \in Int /\ ProjectHop(k, dir, t) \in Int
         /\ dir * (ProjectHop(k, dir, t) - ProjectHop(k, dir, s)) >= 0
  <1>1. LockMile[k] \in Int /\ LegTime[<<k, dir>>] \in Nat /\ Pace \in Nat /\ (dir = 1 \/ dir = -1)
    BY RiverTypes
  <1>2. ASSUME NEW a \in Int, NEW b \in Int, a <= b,
               ProjectHop(k, dir, s) = LockMile[k] + dir * a, ProjectHop(k, dir, t) = LockMile[k] + dir * b
        PROVE  /\ ProjectHop(k, dir, s) \in Int /\ ProjectHop(k, dir, t) \in Int
               /\ dir * (ProjectHop(k, dir, t) - ProjectHop(k, dir, s)) >= 0
    BY <1>1, <1>2
  <1>3. CASE \A e \in Int : ProjectHop(k, dir, e) = LockMile[k] + dir * (e * Pace)
    <2>1. s * Pace \in Int /\ t * Pace \in Int /\ s * Pace <= t * Pace
      BY <1>1
    <2> QED
      BY <1>2, <1>3, <2>1
  <1>4. CASE \E span \in Nat : \A e \in Int : ProjectHop(k, dir, e) = LockMile[k] + dir * Progress(span, LegTime[<<k, dir>>], e)
    <2>1. PICK span \in Nat : \A e \in Int : ProjectHop(k, dir, e) = LockMile[k] + dir * Progress(span, LegTime[<<k, dir>>], e)
      BY <1>4
    <2>2. /\ Progress(span, LegTime[<<k, dir>>], s) \in Int /\ Progress(span, LegTime[<<k, dir>>], t) \in Int
          /\ Progress(span, LegTime[<<k, dir>>], s) <= Progress(span, LegTime[<<k, dir>>], t)
      BY <1>1, ProgressMonotone
    <2> QED
      BY <1>2, <2>1, <2>2
  <1> QED
    BY <1>3, <1>4, HopIsProgress

\* The mile of a marker made of a departure and a report at the time t.
PlaceAt(dep, row, t) ==
    LET guess == ProjectHop(dep.lock, dep.dir, t - dep.at)
        speed == IF row.speed > 0 THEN row.speed ELSE Pace
        real == row.mile + dep.dir * speed * Larger(0, t - row.seen)
    IN  Hold(IF row # NoRow /\ dep.dir * (real - guess) > 0 THEN real ELSE guess, LockMile[dep.lock])

\* The hold at the edge of the antenna's reach keeps the order of the miles.
LEMMA HoldMonotone ==
  ASSUME NEW x \in Int, NEW y \in Int, NEW from \in Int, x <= y
  PROVE  Hold(x, from) \in Int /\ Hold(y, from) \in Int /\ Hold(x, from) <= Hold(y, from)
  <1>1. Receiver \in Int /\ Radius \in Nat
    BY RiverTypes
  <1>2. CASE from \in Receiver - Radius .. Receiver + Radius
    BY <1>2 DEF Hold
  <1>3. CASE from < Receiver - Radius
    <2>1. ASSUME NEW z \in Int
          PROVE  Hold(z, from) = IF z >= Receiver - Radius THEN Receiver - Radius ELSE z
      <3>1. CASE z >= from
        BY <1>1, <1>3, <3>1 DEF Hold
      <3>2. CASE ~(z >= from)
        BY <1>1, <1>3, <3>2 DEF Hold
      <3> QED
        BY <3>1, <3>2
    <2> QED
      BY <1>1, <2>1
  <1>4. CASE from > Receiver + Radius
    <2>1. ASSUME NEW z \in Int
          PROVE  Hold(z, from) = IF z <= Receiver + Radius THEN Receiver + Radius ELSE z
      <3>1. CASE z >= from
        BY <1>1, <1>4, <3>1 DEF Hold
      <3>2. CASE ~(z >= from)
        BY <1>1, <1>4, <3>2 DEF Hold
      <3> QED
        BY <3>1, <3>2
    <2> QED
      BY <1>1, <2>1
  <1> QED
    BY <1>1, <1>2, <1>3, <1>4

\* A reported position reckoned on does not go back either.
LEMMA RealMonotone ==
  ASSUME NEW row \in Row, NEW dir \in {1, -1}, NEW s \in Int, NEW t \in Int, s <= t,
         NEW speed, speed = IF row.speed > 0 THEN row.speed ELSE Pace
  PROVE  /\ row.mile + dir * speed * Larger(0, s - row.seen) \in Int
         /\ row.mile + dir * speed * Larger(0, t - row.seen) \in Int
         /\ dir * ((row.mile + dir * speed * Larger(0, t - row.seen)) - (row.mile + dir * speed * Larger(0, s - row.seen))) >= 0
  <1> DEFINE a == Larger(0, s - row.seen)
             b == Larger(0, t - row.seen)
             p == speed * a
             q == speed * b
  <1>1. row.mile \in Int /\ row.seen \in Nat /\ speed \in Nat /\ (dir = 1 \/ dir = -1)
    BY RiverTypes DEF Row
  <1>2. a \in Nat /\ b \in Nat /\ a <= b
    BY <1>1 DEF Larger
  <1> HIDE DEF a, b
  <1>3. p \in Nat /\ q \in Nat /\ p <= q
    BY <1>1, <1>2
  <1>4. dir * speed * a = dir * p /\ dir * speed * b = dir * q
    BY <1>1, <1>2
  <1> HIDE DEF p, q
  <1>5. /\ row.mile + dir * p \in Int /\ row.mile + dir * q \in Int
        /\ dir * ((row.mile + dir * q) - (row.mile + dir * p)) >= 0
    BY <1>1, <1>3
  <1> QED
    BY <1>4, <1>5 DEF a, b

\* With nothing new known of her, later is never further back.
LEMMA PlaceMonotone ==
  ASSUME NEW dep \in Departure, NEW row \in Row \cup {NoRow}, NEW s \in Int, NEW t \in Int, s <= t
  PROVE  /\ PlaceAt(dep, row, s) \in Int /\ PlaceAt(dep, row, t) \in Int
         /\ dep.dir * (PlaceAt(dep, row, t) - PlaceAt(dep, row, s)) >= 0
  <1> DEFINE speed == IF row.speed > 0 THEN row.speed ELSE Pace
             gs == ProjectHop(dep.lock, dep.dir, s - dep.at)
             gt == ProjectHop(dep.lock, dep.dir, t - dep.at)
             rs == row.mile + dep.dir * speed * Larger(0, s - row.seen)
             rt == row.mile + dep.dir * speed * Larger(0, t - row.seen)
             x == IF row # NoRow /\ dep.dir * (rs - gs) > 0 THEN rs ELSE gs
             y == IF row # NoRow /\ dep.dir * (rt - gt) > 0 THEN rt ELSE gt
  <1>1. /\ dep.lock \in Locks /\ dep.dir \in {1, -1} /\ (dep.dir = 1 \/ dep.dir = -1) /\ dep.at \in Nat
        /\ LockMile[dep.lock] \in Int
    BY RiverTypes DEF Departure
  <1>2. gs \in Int /\ gt \in Int /\ dep.dir * (gt - gs) >= 0
    <2>1. s - dep.at \in Int /\ t - dep.at \in Int /\ s - dep.at <= t - dep.at
      BY <1>1
    <2> QED
      BY <1>1, <2>1, HopMonotone
  <1>3. row # NoRow => rs \in Int /\ rt \in Int /\ dep.dir * (rt - rs) >= 0
    <2> SUFFICES ASSUME row \in Row PROVE rs \in Int /\ rt \in Int /\ dep.dir * (rt - rs) >= 0
      OBVIOUS
    <2>1. PICK v : v = IF row.speed > 0 THEN row.speed ELSE Pace
      OBVIOUS
    <2> QED
      BY <1>1, <2>1, RealMonotone
  <1>4. PlaceAt(dep, row, s) = Hold(x, LockMile[dep.lock]) /\ PlaceAt(dep, row, t) = Hold(y, LockMile[dep.lock])
    BY DEF PlaceAt
  <1> HIDE DEF gs, gt, rs, rt
  <1>5. x \in Int /\ y \in Int /\ dep.dir * (y - x) >= 0
    BY <1>1, <1>2, <1>3
  <1> HIDE DEF x, y
  <1>6. /\ Hold(x, LockMile[dep.lock]) \in Int /\ Hold(y, LockMile[dep.lock]) \in Int
        /\ x <= y => Hold(x, LockMile[dep.lock]) <= Hold(y, LockMile[dep.lock])
        /\ y <= x => Hold(y, LockMile[dep.lock]) <= Hold(x, LockMile[dep.lock])
    <2>1. x <= y \/ y <= x
      BY <1>5
    <2>2. CASE x <= y
      <3>1. /\ Hold(x, LockMile[dep.lock]) \in Int /\ Hold(y, LockMile[dep.lock]) \in Int
            /\ Hold(x, LockMile[dep.lock]) <= Hold(y, LockMile[dep.lock])
        BY <1>1, <1>5, <2>2, HoldMonotone
      <3>2. y <= x => x = y
        BY <1>5, <2>2
      <3> QED
        BY <3>1, <3>2
    <2>3. CASE y <= x
      <3>1. /\ Hold(x, LockMile[dep.lock]) \in Int /\ Hold(y, LockMile[dep.lock]) \in Int
            /\ Hold(y, LockMile[dep.lock]) <= Hold(x, LockMile[dep.lock])
        BY <1>1, <1>5, <2>3, HoldMonotone
      <3>2. x <= y => x = y
        BY <1>5, <2>3
      <3> QED
        BY <3>1, <3>2
    <2> QED
      BY <2>1, <2>2, <2>3
  <1>7. (dep.dir = 1 => x <= y) /\ (dep.dir = -1 => y <= x)
    BY <1>5
  <1> QED
    BY <1>1, <1>4, <1>6, <1>7

----------------------------------------------------------------------------
(* The markers                                                             *)

\* The counters and the departures.
CountInv ==
    /\ now \in 0 .. MaxTime /\ reports \in 0 .. MaxReports
    /\ departures \subseteq Departure /\ IsFiniteSet(departures) /\ Cardinality(departures) <= MaxDepartures
    /\ started \in 0 .. now
    /\ pc \in {"reckon", "departures", "project"} => polled <= started
    /\ heard \subseteq Vessels /\ reckoned \subseteq Vessels /\ whole \in BOOLEAN
    /\ \A v \in Vessels : due[v] \in departures \cup {NoRow}

\* A marker under way is made for the clock of its request.
MadeAt(m, t) ==
    /\ m \in Marker /\ m.mile = PlaceAt(m.dep, m.row, t)
    /\ m.row # NoRow => m.row.seen \in m.dep.at + 1 .. now

\* A marker shown was made for an earlier one.
MarkInv ==
    \A v \in Vessels :
        /\ markers[v] # NoRow => polled <= started /\ MadeAt(markers[v], started)
        /\ shown[v] # NoRow =>
             \E t \in 0 .. now : (pc # "idle" => t <= polled) /\ MadeAt(shown[v], t)

MarkersInv == TierInv /\ CountInv /\ MarkInv /\ shown = [v \in Vessels |-> shown[v]]

LEMMA BoundTypes == MaxTime \in Nat /\ MaxReports \in Nat /\ MaxDepartures \in Nat
  BY BoundsAssumption

LEMMA InitMarkers == Init => MarkersInv
  <1> SUFFICES ASSUME Init PROVE MarkersInv
    OBVIOUS
  <1>1. TierInv
    BY InitTier
  <1>2. IsFiniteSet({}) /\ Cardinality({}) = 0
    BY FS_EmptySet
  <1>3. CountInv
    BY <1>2, BoundTypes DEF Init, CountInv, NoVessel
  <1>4. MarkInv /\ shown = [v \in Vessels |-> shown[v]]
    BY DEF Init, MarkInv, NoVessel
  <1> QED
    BY <1>1, <1>3, <1>4 DEF MarkersInv

\* What only lets time pass, writes the tables or reads into other parts of the answer.
LEMMA MarkersLeftAlone ==
  ASSUME MarkInv, CountInv, UNCHANGED <<markers, shown>>,
         started' = started \/ markers = NoVessel,
         now' \in Nat /\ now <= now',
         \/ UNCHANGED <<pc, polled>>
         \/ pc' # "idle" /\ pc # "idle" /\ UNCHANGED polled
         \/ pc = "idle" /\ polled' = now /\ markers = NoVessel
  PROVE  MarkInv'
  <1> SUFFICES ASSUME NEW v \in Vessels
               PROVE  /\ markers'[v] # NoRow => polled' <= started' /\ MadeAt(markers[v], started)'
                      /\ shown'[v] # NoRow =>
                           \E t \in 0 .. now' : (pc' # "idle" => t <= polled') /\ MadeAt(shown[v], t)'
    BY DEF MarkInv
  <1>1. now \in Nat /\ (pc = "idle" => polled' = now \/ pc' = "idle")
    BY DEF CountInv
  <1>2. ASSUME markers'[v] # NoRow
        PROVE  polled' <= started' /\ MadeAt(markers[v], started)'
    <2>1. markers[v] # NoRow /\ markers # NoVessel
      BY <1>2 DEF NoVessel
    <2>2. polled <= started /\ MadeAt(markers[v], started) /\ started' = started /\ polled' = polled /\ markers' = markers
      BY <2>1 DEF MarkInv
    <2>3. markers[v].dep.at \in Int
      BY <2>2 DEF MadeAt, Marker, Departure
    <2> QED
      BY <1>1, <2>2, <2>3 DEF MadeAt
  <1>3. ASSUME shown'[v] # NoRow
        PROVE  \E t \in 0 .. now' : (pc' # "idle" => t <= polled') /\ MadeAt(shown[v], t)'
    <2>1. PICK t \in 0 .. now : (pc # "idle" => t <= polled) /\ MadeAt(shown[v], t)
      BY <1>3 DEF MarkInv
    <2>2. t \in 0 .. now' /\ (pc' # "idle" => t <= polled')
      BY <1>1, <2>1
    <2>3. shown[v].dep.at \in Int
      BY <2>1 DEF MadeAt, Marker, Departure
    <2>4. MadeAt(shown[v], t)'
      BY <1>1, <2>1, <2>3 DEF MadeAt
    <2> QED
      BY <2>2, <2>4
  <1> QED
    BY <1>2, <1>3

LEMMA RiverKeepsMarkers ==
  ASSUME MarkersInv, Tick \/ \E v \in Vessels : Report(v) \/ Depart(v)
  PROVE  MarkersInv'
  <1>1. TierInv'
    BY StepTier DEF MarkersInv, Next
  <1>2. UNCHANGED <<pc, polled, started, heard, reckoned, whole, due, markers, shown>>
    BY DEF Tick, Report, Depart, answer
  <1>3. now \in Nat /\ now' \in 0 .. MaxTime /\ now <= now' /\ reports' \in 0 .. MaxReports
    <2>1. now \in 0 .. MaxTime /\ reports \in 0 .. MaxReports
      BY DEF MarkersInv, CountInv
    <2>2. CASE Tick
      BY <2>1, <2>2, BoundTypes DEF Tick, db
    <2>3. ASSUME NEW v \in Vessels, Report(v) \/ Depart(v)
          PROVE  now' = now /\ reports' \in 0 .. MaxReports
      <3>1. now' = now /\ (reports' = reports \/ (reports < MaxReports /\ reports' = reports + 1))
        BY <2>3 DEF Report, Depart
      <3> QED
        BY <2>1, <3>1, BoundTypes
    <2> QED
      BY <2>1, <2>2, <2>3
  <1>4. /\ departures \subseteq departures' /\ departures' \subseteq Departure
        /\ IsFiniteSet(departures') /\ Cardinality(departures') <= MaxDepartures
    <2>1. CASE Tick \/ \E v \in Vessels : Report(v)
      <3>1. departures' = departures
        BY <2>1 DEF Tick, Report, db
      <3> QED
        BY <3>1 DEF MarkersInv, CountInv
    <2>2. ASSUME NEW v \in Vessels, Depart(v)
          PROVE  /\ departures \subseteq departures' /\ departures' \subseteq Departure
                 /\ IsFiniteSet(departures') /\ Cardinality(departures') <= MaxDepartures
      <3>1. Cardinality(departures) < MaxDepartures
        BY <2>2 DEF Depart
      <3>2. PICK k \in Locks, dir \in {1, -1}, at \in Larger(0, now - Lag) .. now :
                departures' = departures \cup {[vessel |-> v, lock |-> k, dir |-> dir, at |-> at]}
        BY <2>2 DEF Depart
      <3>3. PICK d : d = [vessel |-> v, lock |-> k, dir |-> dir, at |-> at]
        OBVIOUS
      <3>4. at \in Nat
        BY <1>3, <3>2, WindowTypes DEF Larger
      <3>5. d \in Departure
        BY <3>3, <3>4 DEF Departure
      <3>6. IsFiniteSet(departures) /\ Cardinality(departures) \in Nat
        BY FS_CardinalityType DEF MarkersInv, CountInv
      <3>7. IsFiniteSet(departures \cup {d}) /\ Cardinality(departures \cup {d}) <= Cardinality(departures) + 1
        <4>1. /\ IsFiniteSet(departures \cup {d})
              /\ Cardinality(departures \cup {d}) = IF d \in departures THEN Cardinality(departures) ELSE Cardinality(departures) + 1
          BY <3>6, FS_AddElement
        <4> QED
          BY <3>6, <4>1
      <3>8. Cardinality(departures \cup {d}) \in Nat
        BY <3>7, FS_CardinalityType
      <3>9. Cardinality(departures') <= MaxDepartures
        BY <3>1, <3>2, <3>3, <3>6, <3>7, <3>8, BoundTypes
      <3> QED
        BY <3>2, <3>3, <3>5, <3>7, <3>9 DEF MarkersInv, CountInv
    <2> QED
      BY <2>1, <2>2
  <1>5. CountInv'
    BY <1>2, <1>3, <1>4 DEF MarkersInv, CountInv
  <1>6. MarkInv'
    BY <1>2, <1>3, MarkersLeftAlone DEF MarkersInv
  <1> QED
    BY <1>1, <1>2, <1>5, <1>6 DEF MarkersInv

LEMMA ReadsKeepMarkers ==
  ASSUME MarkersInv, ReadLive \/ ReadNames \/ ReadReckonable \/ ReadDepartures \/ Build
  PROVE  MarkersInv'
  <1>1. TierInv'
    BY StepTier DEF MarkersInv, Next
  <1>2. UNCHANGED <<now, departures, reports, whole, markers, shown>>
    BY DEF ReadLive, ReadNames, ReadReckonable, ReadDepartures, Build, db, answer
  <1>3. now \in Nat /\ polled \in Nat /\ polled <= now
    BY DEF MarkersInv, TierInv, TierType
  <1>4. pc \in {"idle", "names", "reckon", "departures"} => markers = NoVessel
    BY DEF MarkersInv, TierInv, HeardInv
  <1>5. CASE ReadLive
    <2>1. pc = "idle" /\ pc' = "names" /\ polled' = now /\ UNCHANGED <<started, heard, reckoned, due>>
      BY <1>5 DEF ReadLive
    <2>2. CountInv'
      BY <1>2, <2>1 DEF MarkersInv, CountInv
    <2>3. MarkInv'
      BY <1>2, <1>3, <1>4, <2>1, MarkersLeftAlone DEF MarkersInv
    <2> QED
      BY <1>1, <1>2, <2>2, <2>3 DEF MarkersInv
  <1>6. CASE ReadNames
    <2>1. pc = "names" /\ pc' = "reckon" /\ started' \in polled .. now /\ heard' = HeardNames
          /\ UNCHANGED <<polled, reckoned, due>>
      BY <1>6 DEF ReadNames
    <2>2. CountInv'
      BY <1>2, <1>3, <2>1 DEF MarkersInv, CountInv, HeardNames
    <2>3. MarkInv'
      BY <1>2, <1>3, <1>4, <2>1, MarkersLeftAlone DEF MarkersInv
    <2> QED
      BY <1>1, <1>2, <2>2, <2>3 DEF MarkersInv
  <1>7. CASE ReadReckonable \/ ReadDepartures \/ Build
    <2>1. /\ pc # "idle" /\ pc' # "idle" /\ UNCHANGED <<polled, started, heard>>
          /\ pc' \in {"departures", "project", "reply"} /\ pc \in {"reckon", "departures", "project"}
      BY <1>7 DEF ReadReckonable, ReadDepartures, Build, answer
    <2>2. reckoned' \subseteq Vessels
      BY <1>7 DEF ReadReckonable, ReadDepartures, Build, answer, Reckonable, MarkersInv, CountInv
    <2>3. \A v \in Vessels : due'[v] \in departures \cup {NoRow}
      <3>1. CASE ReadDepartures
        <4>1. PICK f \in [Vessels -> departures \cup {NoRow}] : due' = f
          BY <3>1 DEF ReadDepartures
        <4> QED
          BY <4>1
      <3>2. CASE ReadReckonable \/ Build
        BY <3>2 DEF ReadReckonable, Build, answer, MarkersInv, CountInv
      <3> QED
        BY <1>7, <3>1, <3>2
    <2>4. CountInv'
      BY <1>2, <2>1, <2>2, <2>3 DEF MarkersInv, CountInv
    <2>5. MarkInv'
      BY <1>2, <1>3, <2>1, MarkersLeftAlone DEF MarkersInv
    <2> QED
      BY <1>1, <1>2, <2>4, <2>5 DEF MarkersInv
  <1> QED
    BY <1>5, <1>6, <1>7

LEMMA ProjectKeepsMarkers ==
  ASSUME MarkersInv, NEW v \in Vessels, Project(v)
  PROVE  MarkersInv'
  <1>1. TierInv'
    BY StepTier DEF MarkersInv, Next
  <1>2. /\ pc = "project" /\ due[v] # NoRow /\ due' = [due EXCEPT ![v] = NoRow]
        /\ UNCHANGED <<now, db, pc, polled, started, live, heard, reckoned, whole, quiet, shown>>
    BY DEF Project
  <1>3. PICK d : d = due[v]
    OBVIOUS
  <1>4. PICK r : r = RealFix(d)
    OBVIOUS
  <1>5. d \in Departure
    BY <1>2, <1>3 DEF MarkersInv, CountInv
  <1>6. r \in Row \cup {NoRow} /\ (r # NoRow => r.seen \in d.at + 1 .. now)
    <2>1. d.vessel \in Vessels /\ d.at \in Nat
      BY <1>5 DEF Departure
    <2>2. rows[d.vessel] \in Row \cup {NoRow} /\ now \in Nat
      BY <2>1 DEF MarkersInv, TierInv, TierType
    <2>3. rows[d.vessel] \in Row => rows[d.vessel].seen \in Nat
      BY DEF Row
    <2> QED
      BY <1>4, <2>1, <2>2, <2>3 DEF RealFix
  <1>7. PICK m : m = [mile |-> PlaceAt(d, r, started), dep |-> d, row |-> r]
    OBVIOUS
  <1>8. markers' = [markers EXCEPT ![v] = m]
    <2>1. Hold(WithRealFix(ProjectHop(d.lock, d.dir, started - d.at), d, r), LockMile[d.lock]) = PlaceAt(d, r, started)
      BY DEF WithRealFix, PlaceAt
    <2> QED
      BY <1>3, <1>4, <1>7, <2>1 DEF Project
  <1>9. started \in Int /\ started \in 0 .. now /\ polled <= started
    BY <1>2 DEF MarkersInv, CountInv
  <1>10. MadeAt(m, started)
    <2>1. PlaceAt(d, r, started) \in Int
      <3>1. PICK t : t = started
        OBVIOUS
      <3>2. t \in Int /\ t <= t
        BY <1>9, <3>1
      <3>3. PlaceAt(d, r, t) \in Int
        BY <1>5, <1>6, <3>2, PlaceMonotone
      <3> QED
        BY <3>1, <3>3
    <2> QED
      BY <1>5, <1>6, <1>7, <2>1 DEF MadeAt, Marker
  <1>11. due = [u \in Vessels |-> due[u]] /\ markers = [u \in Vessels |-> markers[u]]
    BY DEF MarkersInv, TierInv, TierType
  <1>12. CountInv'
    <2>1. \A u \in Vessels : due'[u] \in departures \cup {NoRow}
      BY <1>2, <1>11 DEF MarkersInv, CountInv
    <2> QED
      BY <1>2, <2>1 DEF MarkersInv, CountInv, db
  <1>13. MarkInv'
    <2> SUFFICES ASSUME NEW u \in Vessels
                 PROVE  /\ markers'[u] # NoRow => polled' <= started' /\ MadeAt(markers[u], started)'
                        /\ shown'[u] # NoRow =>
                             \E t \in 0 .. now' : (pc' # "idle" => t <= polled') /\ MadeAt(shown[u], t)'
      BY DEF MarkInv
    <2>1. markers'[u] = m \/ markers'[u] = markers[u]
      BY <1>8, <1>11
    <2>2. markers'[u] # NoRow => polled' <= started' /\ MadeAt(markers[u], started)'
      BY <1>2, <1>9, <1>10, <2>1 DEF MarkersInv, MarkInv, MadeAt
    <2>3. ASSUME shown'[u] # NoRow
          PROVE  \E t \in 0 .. now' : (pc' # "idle" => t <= polled') /\ MadeAt(shown[u], t)'
      <3>1. PICK t \in 0 .. now : (pc # "idle" => t <= polled) /\ MadeAt(shown[u], t)
        BY <1>2, <2>3 DEF MarkersInv, MarkInv
      <3>2. MadeAt(shown[u], t)'
        BY <1>2, <3>1 DEF MadeAt
      <3> QED
        BY <1>2, <3>1, <3>2
    <2> QED
      BY <2>2, <2>3
  <1> QED
    BY <1>1, <1>2, <1>12, <1>13 DEF MarkersInv

LEMMA FailKeepsMarkers ==
  ASSUME MarkersInv, Fail
  PROVE  MarkersInv'
  <1>1. TierInv'
    BY StepTier DEF MarkersInv, Next
  <1>2. /\ pc # "idle" /\ pc' = "reply" /\ reckoned' = {} /\ markers' = NoVessel /\ due' = NoVessel /\ whole' = FALSE
        /\ UNCHANGED <<now, db, polled, started, live, heard, quiet, shown>>
    BY DEF Fail
  <1>3. CountInv'
    BY <1>2 DEF MarkersInv, CountInv, db, NoVessel
  <1>4. MarkInv'
    <2> SUFFICES ASSUME NEW u \in Vessels, shown'[u] # NoRow
                 PROVE  \E t \in 0 .. now' : (pc' # "idle" => t <= polled') /\ MadeAt(shown[u], t)'
      BY <1>2 DEF MarkInv, NoVessel
    <2>1. PICK t \in 0 .. now : (pc # "idle" => t <= polled) /\ MadeAt(shown[u], t)
      BY <1>2 DEF MarkersInv, MarkInv
    <2>2. MadeAt(shown[u], t)'
      BY <1>2, <2>1 DEF MadeAt
    <2> QED
      BY <1>2, <2>1, <2>2
  <1> QED
    BY <1>1, <1>2, <1>3, <1>4 DEF MarkersInv

\* The markers of the answer were made for a clock that has been.
LEMMA ReplyKeepsMarkers ==
  ASSUME MarkersInv, Reply
  PROVE  MarkersInv'
  <1>1. TierInv'
    BY StepTier DEF MarkersInv, Next
  <1>2. /\ pc' = "idle" /\ polled' = 0 /\ started' = 0 /\ live' = {} /\ heard' = {} /\ reckoned' = {}
        /\ due' = NoVessel /\ markers' = NoVessel /\ whole' = TRUE
        /\ shown' = [v \in Vessels |-> IF markers[v] # NoRow THEN markers[v] ELSE shown[v]]
        /\ UNCHANGED <<now, db>>
    BY DEF Reply
  <1>3. CountInv'
    BY <1>2 DEF MarkersInv, CountInv, db, NoVessel
  <1>4. MarkInv'
    <2> SUFFICES ASSUME NEW u \in Vessels, shown'[u] # NoRow
                 PROVE  \E t \in 0 .. now' : MadeAt(shown[u], t)'
      BY <1>2 DEF MarkInv, NoVessel
    <2>1. CASE markers[u] # NoRow
      <3>1. PICK t : t = started
        OBVIOUS
      <3>2. t \in 0 .. now /\ MadeAt(markers[u], t)
        BY <2>1, <3>1 DEF MarkersInv, CountInv, MarkInv
      <3>3. shown'[u] = markers[u]
        BY <1>2, <2>1
      <3>4. MadeAt(shown[u], t)'
        BY <1>2, <3>2, <3>3 DEF MadeAt
      <3> QED
        BY <1>2, <3>2, <3>4
    <2>2. CASE ~(markers[u] # NoRow)
      <3>1. shown'[u] = shown[u]
        BY <1>2, <2>2
      <3>2. PICK t \in 0 .. now : MadeAt(shown[u], t)
        BY <3>1 DEF MarkersInv, MarkInv
      <3>3. MadeAt(shown[u], t)'
        BY <1>2, <3>1, <3>2 DEF MadeAt
      <3> QED
        BY <1>2, <3>2, <3>3
    <2> QED
      BY <2>1, <2>2
  <1>5. shown' = [v \in Vessels |-> shown'[v]]
    BY <1>2
  <1> QED
    BY <1>1, <1>3, <1>4, <1>5 DEF MarkersInv

LEMMA StepMarkers == MarkersInv /\ [Next]_vars => MarkersInv'
  <1> SUFFICES ASSUME MarkersInv, [Next]_vars PROVE MarkersInv'
    OBVIOUS
  <1>1. CASE UNCHANGED vars
    <2>1. TierInv'
      BY StepTier DEF MarkersInv
    <2>2. UNCHANGED <<now, departures, reports, pc, polled, started, heard, reckoned, due, markers, whole, shown>>
      BY <1>1 DEF vars, db, answer
    <2>3. CountInv'
      BY <2>2 DEF MarkersInv, CountInv
    <2>4. MarkInv'
      BY <2>2, MarkersLeftAlone DEF MarkersInv, CountInv
    <2> QED
      BY <2>1, <2>2, <2>3, <2>4 DEF MarkersInv
  <1> QED
    BY <1>1, RiverKeepsMarkers, ReadsKeepMarkers, ProjectKeepsMarkers, FailKeepsMarkers, ReplyKeepsMarkers DEF Next

LEMMA MarkersHold == Spec => []MarkersInv
  BY InitMarkers, StepMarkers, PTL DEF Spec

\* The state of the handler keeps its types: no request outlasts its query timeouts, and the
\* report that moves a marker is younger than the departure it was made for.
THEOREM PositionsAreTyped == Spec => []TypeOK
  <1>1. MarkersInv => TypeOK
    <2> SUFFICES ASSUME MarkersInv PROVE TypeOK
      OBVIOUS
    <2>1. ASSUME NEW v \in Vessels
          PROVE  /\ due[v] \in departures \cup {NoRow} /\ markers[v] \in Marker \cup {NoRow}
                 /\ markers[v] # NoRow /\ markers[v].row # NoRow => markers[v].row.seen \in markers[v].dep.at + 1 .. now
                 /\ shown[v] \in Marker \cup {NoRow}
      <3>1. due[v] \in departures \cup {NoRow}
        BY DEF MarkersInv, CountInv
      <3>2. markers[v] # NoRow => MadeAt(markers[v], started)
        BY DEF MarkersInv, MarkInv
      <3>3. shown[v] # NoRow => \E t \in 0 .. now : MadeAt(shown[v], t)
        BY DEF MarkersInv, MarkInv
      <3> QED
        BY <3>1, <3>2, <3>3 DEF MadeAt
    <2> QED
      BY <2>1 DEF MarkersInv, TierInv, TierType, CountInv, TypeOK, PCs
  <1> QED
    BY <1>1, MarkersHold, PTL

\* A lock-projected tow of whom nothing new is known does not move backwards from one answer
\* to the next: neither the median of her hop, nor the end of the grace period, nor the
\* reported position reckoned on, nor the edge of the antenna's reach takes her back.
THEOREM MarkersNeverGoBack == Spec => []MarkerNeverGoesBack
  <1>1. MarkersInv => MarkerNeverGoesBack
    <2> SUFFICES ASSUME MarkersInv, NEW v \in Vessels, markers[v] # NoRow, shown[v] # NoRow,
                        markers[v].dep = shown[v].dep, markers[v].row = shown[v].row
                 PROVE  markers[v].dep.dir * (markers[v].mile - shown[v].mile) >= 0
      BY DEF MarkerNeverGoesBack
    <2>1. polled <= started /\ MadeAt(markers[v], started) /\ pc # "idle"
      BY DEF MarkersInv, MarkInv, TierInv, HeardInv, NoVessel
    <2>2. PICK s \in 0 .. now : s <= polled /\ MadeAt(shown[v], s)
      BY <2>1 DEF MarkersInv, MarkInv
    <2>3. PICK t : t = started
      OBVIOUS
    <2>4. s \in Int /\ t \in Int /\ s <= t
      BY <2>1, <2>2, <2>3 DEF MarkersInv, CountInv, TierInv, TierType
    <2>5. PICK dep, row : dep = markers[v].dep /\ row = markers[v].row
      OBVIOUS
    <2>6. dep \in Departure /\ row \in Row \cup {NoRow}
      BY <2>1, <2>5 DEF MadeAt, Marker
    <2>7. markers[v].mile = PlaceAt(dep, row, t) /\ shown[v].mile = PlaceAt(dep, row, s)
      BY <2>1, <2>2, <2>3, <2>5 DEF MadeAt
    <2>8. dep.dir * (PlaceAt(dep, row, t) - PlaceAt(dep, row, s)) >= 0
      BY <2>4, <2>6, PlaceMonotone
    <2> QED
      BY <2>5, <2>7, <2>8
  <1> QED
    BY <1>1, MarkersHold, PTL

=============================================================================
