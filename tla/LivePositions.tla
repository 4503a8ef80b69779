--------------------------- MODULE LivePositions ---------------------------
(***************************************************************************)
(* GET /live-positions: three tiers of vessels, read from Postgres by a    *)
(* handler that awaits every query while /ingest keeps writing.  Each      *)
(* query sees its own snapshot and its own now(); nothing ties them to one *)
(* moment.                                                                 *)
(*                                                                         *)
(*   live            heard within Fresh                                    *)
(*   dead reckoned   heard within DeadReckon, not within Fresh, moving     *)
(*   lock projected  not heard, left a lock of the corridor within         *)
(*                   ProjectFor                                            *)
(*                                                                         *)
(* The river is a line of miles that grow upstream.  A tow going up has    *)
(* direction 1, down -1.                                                   *)
(***************************************************************************)
EXTENDS Integers, FiniteSets

CONSTANTS
    Vessels,
    Locks,
    Miles,         \* river miles a position report may carry
    Speeds,        \* speeds a report may carry; 0 is a vessel that does not move
    NoRow,         \* no row in vessel_current_state, no departure, no marker
    LockMile,      \* [Locks -> Int], LOCK_META of the corridor
    LegTime,       \* [Locks \X {1, -1} -> Nat], median time to the next lock, 0 = too few samples
    Pace,          \* typical speed of a lock-projected tow
    MinSpeed,      \* DEAD_RECKON_MIN_SPEED_MPH
    Receiver,      \* mile of the lake_mac antenna
    Radius,        \* LIVE_RECEPTION_RADIUS_MI
    Anonymous,     \* vessels whose reports may come without a name
    Fresh,         \* FRESH_CUTOFF_S
    DeadReckon,    \* DEAD_RECKON_MAX_AGE_S
    ProjectFor,    \* LOCK_PROJECT_MAX_HOURS
    Grace,         \* NEXT_LOCK_GRACE_H
    Patience,      \* what the query timeouts let one request take at most
    Ahead,         \* how far ahead of the clock a report may be dated
    Lag,           \* how long a report or a departure may be under way
    MaxTime,       \* bound on the clock
    MaxReports,    \* bound on position reports
    MaxDepartures  \* bound on lock departures

ASSUME WindowsAssumption ==
    /\ {Fresh, DeadReckon, ProjectFor, Grace, Patience, Ahead, Lag} \subseteq Nat
    /\ Fresh + Patience <= DeadReckon
ASSUME SpeedAssumption == Speeds \subseteq Nat /\ Pace \in Nat \ {0} /\ MinSpeed \in Nat \ {0}
ASSUME BoundsAssumption == {MaxTime, MaxReports, MaxDepartures} \subseteq Nat
ASSUME RiverAssumption ==
    /\ LockMile \in [Locks -> Int]
    /\ LegTime \in [Locks \X {1, -1} -> Nat]
    /\ Miles \subseteq Int /\ Receiver \in Int /\ Radius \in Nat
ASSUME NamesAssumption == Anonymous \subseteq Vessels

Row == [seen : Nat, mile : Miles, speed : Speeds, named : BOOLEAN]
Departure == [vessel : Vessels, lock : Locks, dir : {1, -1}, at : Nat]
Marker == [mile : Int, dep : Departure, row : Row \cup {NoRow}]

ASSUME NoRowAssumption == NoRow \notin Row \cup Departure \cup Marker

VARIABLES
    now,         \* the database's clock
    rows,        \* vessel_current_state, by vessel
    departures,  \* lock_status_observation rows with an eol_at
    reports,     \* number of reports so far
    pc,          \* the query the handler awaits
    polled,      \* when the live tier was read
    started,     \* now of compute_projected_tiers, taken before its first query
    live,        \* live tier
    heard,       \* ais_vessel_keys
    reckoned,    \* dead-reckoned tier
    due,         \* best_by_vessel: the departure still to project, or NoRow
    markers,     \* lock_projected, as far as it is built
    whole,       \* history: the projection did not raise
    quiet,       \* history: vessels not reported since the live tier was read
    shown        \* history: the marker each vessel was last given

db == <<rows, departures, reports>>
answer == <<polled, started, live, heard, reckoned, due, markers, whole>>
vars == <<now, db, pc, answer, quiet, shown>>

NoVessel == [v \in Vessels |-> NoRow]
Larger(a, b) == IF a >= b THEN a ELSE b

----------------------------------------------------------------------------
(* Where a tow that left a lock is put on the map                          *)

\* The locks ahead of her, and the first of them, if any.
LocksAhead(k, dir) == {j \in Locks : dir * (LockMile[j] - LockMile[k]) > 0}
NextLocks(k, dir) ==
    {j \in LocksAhead(k, dir) : \A i \in LocksAhead(k, dir) : dir * (LockMile[j] - LockMile[i]) <= 0}

\* Once the grace period is over without a confirmation she stays where it left her.
\* Deviation: an overdue tow is put back at the lock she has not reached.
OverdueAtLock(lockMile, dir) == lockMile
Overdue(lockMile, dir) == lockMile + dir * Grace * Pace

\* _project_rm_with_lockage, one hop and never more: part of the hop while its median
\* time (without one: the time at typical pace) has not passed, on at typical pace
\* during the grace period, then frozen.  Divisions round towards the lock behind.
ProjectHop(k, dir, elapsed) ==
    LET leg == LegTime[<<k, dir>>]
        from == LockMile[k]
        cruised == from + dir * elapsed * Pace
    IN  IF NextLocks(k, dir) = {} THEN cruised
        ELSE LET next == LockMile[CHOOSE j \in NextLocks(k, dir) : TRUE]
                 span == dir * (next - from)
                 short == IF leg > 0 THEN elapsed < leg ELSE elapsed * Pace < span
                 past == IF leg > 0 THEN (elapsed - leg) * Pace ELSE elapsed * Pace - span
             IN  CASE short /\ leg > 0 -> from + dir * ((span * elapsed) \div leg)
                   [] short /\ leg = 0 -> cruised
                   [] ~short /\ past < Grace * Pace -> next + dir * past
                   [] OTHER -> Overdue(next, dir)

\* A position heard after the departure, reckoned on to the same moment, wins if it
\* leads further along.
WithRealFix(mile, dep, row) ==
    IF row = NoRow THEN mile
    ELSE LET speed == IF row.speed > 0 THEN row.speed ELSE Pace
             real == row.mile + dep.dir * speed * Larger(0, started - row.seen)
         IN  IF dep.dir * (real - mile) > 0 THEN real ELSE mile

\* Within Radius of the antenna she would have been heard: the marker waits at the
\* first point of her path that is inside.
Hold(mile, from) ==
    LET way == IF mile >= from THEN 1 ELSE -1
        edge == Receiver - way * Radius
    IN  IF from \in Receiver - Radius .. Receiver + Radius THEN from
        ELSE IF way * (edge - from) > 0 /\ way * (mile - edge) >= 0 THEN edge
        ELSE mile

----------------------------------------------------------------------------
(* The queries                                                             *)

FreshRows == {v \in Vessels : rows[v] # NoRow /\ rows[v].seen > now - Fresh}

\* Deviation: only the candidates of the dead-reckoned tier count as heard.
HeardWhenStale == {v \in Vessels : rows[v] # NoRow /\ rows[v].named
                                  /\ rows[v].seen > now - DeadReckon /\ rows[v].seen <= now - Fresh}
HeardNames == {v \in Vessels : rows[v] # NoRow /\ rows[v].named /\ rows[v].seen > now - DeadReckon}

\* Deviation: the two windows leave a gap between them.
ReckonableBelow == {v \in Vessels : rows[v] # NoRow /\ rows[v].speed >= MinSpeed
                                   /\ rows[v].seen > now - DeadReckon /\ rows[v].seen < now - Fresh}
Reckonable == {v \in Vessels : rows[v] # NoRow /\ rows[v].speed >= MinSpeed
                              /\ rows[v].seen > now - DeadReckon /\ rows[v].seen <= now - Fresh}

\* The departures of the last ProjectFor of vessels not heard, and the newest of one.
Recent(v) == {d \in departures : d.vessel = v /\ d.at > now - ProjectFor /\ v \notin heard}
Newest(v) == {d \in Recent(v) : \A e \in Recent(v) : e.at <= d.at}

\* The last report of the vessel under her name, if it is younger than the departure.
\* Deviation: any report will do.
RealFixAny(d) == IF rows[d.vessel] # NoRow /\ rows[d.vessel].named THEN rows[d.vessel] ELSE NoRow
RealFix(d) ==
    LET r == rows[d.vessel]
    IN  IF r # NoRow /\ r.named /\ r.seen > d.at /\ r.seen <= now THEN r ELSE NoRow

----------------------------------------------------------------------------
(* The writers                                                             *)

\* /ingest: only a newer report replaces the row, and it replaces the name too.
Report(v) ==
    /\ reports < MaxReports
    /\ \E r \in [seen : Larger(0, now - Lag) .. now + Ahead, mile : Miles, speed : Speeds,
                 named : IF v \in Anonymous THEN BOOLEAN ELSE {TRUE}] :
          /\ rows[v] # NoRow => r.seen > rows[v].seen
          /\ rows' = [rows EXCEPT ![v] = r]
    /\ reports' = reports + 1
    /\ quiet' = quiet \ {v}
    /\ UNCHANGED <<now, departures, pc, answer, shown>>

\* The lock poller reports a departure some time after it.
Depart(v) ==
    /\ Cardinality(departures) < MaxDepartures
    /\ \E k \in Locks, dir \in {1, -1}, at \in Larger(0, now - Lag) .. now :
          departures' = departures \cup {[vessel |-> v, lock |-> k, dir |-> dir, at |-> at]}
    /\ UNCHANGED <<now, rows, reports, pc, answer, quiet, shown>>

\* No request outlives its query timeouts.
Tick ==
    /\ now < MaxTime
    /\ pc # "idle" => now < polled + Patience
    /\ now' = now + 1
    /\ UNCHANGED <<db, pc, answer, quiet, shown>>

----------------------------------------------------------------------------
(* The handler, one action per awaited query                               *)

\* The live tier.
ReadLive ==
    /\ pc = "idle"
    /\ live' = FreshRows
    /\ polled' = now
    /\ pc' = "names"
    /\ UNCHANGED <<now, db, started, heard, reckoned, due, markers, whole, quiet, shown>>

\* compute_projected_tiers looks at the clock once, between the live tier and this query.
ReadNames ==
    /\ pc = "names"
    /\ started' \in polled .. now
    /\ heard' = HeardNames
    /\ pc' = "reckon"
    /\ UNCHANGED <<now, db, polled, live, reckoned, due, markers, whole, quiet, shown>>

ReadReckonable ==
    /\ pc = "reckon"
    /\ reckoned' = Reckonable
    /\ pc' = "departures"
    /\ UNCHANGED <<now, db, polled, started, live, heard, due, markers, whole, quiet, shown>>

\* Of departures at the same time the query returns either first.
ReadDepartures ==
    /\ pc = "departures"
    /\ \E f \in [Vessels -> departures \cup {NoRow}] :
          /\ \A v \in Vessels : IF Recent(v) = {} THEN f[v] = NoRow ELSE f[v] \in Newest(v)
          /\ due' = f
    /\ pc' = "project"
    /\ UNCHANGED <<now, db, polled, started, live, heard, reckoned, markers, whole, quiet, shown>>

\* One vessel, with a query for her last position.
Project(v) ==
    /\ pc = "project"
    /\ due[v] # NoRow
    /\ LET d == due[v]
           from == LockMile[d.lock]
           guess == ProjectHop(d.lock, d.dir, started - d.at)
           mile == Hold(WithRealFix(guess, d, RealFix(d)), from)
       IN  markers' = [markers EXCEPT ![v] = [mile |-> mile, dep |-> d, row |-> RealFix(d)]]
    /\ due' = [due EXCEPT ![v] = NoRow]
    /\ UNCHANGED <<now, db, pc, polled, started, live, heard, reckoned, whole, quiet, shown>>

Build ==
    /\ pc = "project"
    /\ due = NoVessel
    /\ pc' = "reply"
    /\ UNCHANGED <<now, db, answer, quiet, shown>>

\* Any query of the projection raises or times out: both its tiers are dropped and
\* the live tier is answered alone.
Fail ==
    /\ pc \in {"names", "reckon", "departures", "project"}
    /\ reckoned' = {}
    /\ markers' = NoVessel
    /\ due' = NoVessel
    /\ whole' = FALSE
    /\ pc' = "reply"
    /\ UNCHANGED <<now, db, polled, started, live, heard, quiet, shown>>

\* The answer, and the end of the handler's local state.
Reply ==
    /\ pc = "reply"
    /\ shown' = [v \in Vessels |-> IF markers[v] # NoRow THEN markers[v] ELSE shown[v]]
    /\ pc' = "idle"
    /\ polled' = 0 /\ started' = 0
    /\ live' = {} /\ heard' = {} /\ reckoned' = {}
    /\ due' = NoVessel /\ markers' = NoVessel
    /\ whole' = TRUE
    /\ quiet' = Vessels
    /\ UNCHANGED <<now, db>>

Init ==
    /\ now = 0 /\ reports = 0
    /\ rows = NoVessel
    /\ departures = {}
    /\ shown = NoVessel
    /\ pc = "idle"
    /\ polled = 0 /\ started = 0
    /\ live = {} /\ heard = {} /\ reckoned = {}
    /\ due = NoVessel /\ markers = NoVessel
    /\ whole = TRUE
    /\ quiet = Vessels

Next ==
    \/ Tick \/ \E v \in Vessels : Report(v) \/ Depart(v) \/ Project(v)
    \/ ReadLive \/ ReadNames \/ ReadReckonable \/ ReadDepartures \/ Build \/ Fail \/ Reply

Spec == Init /\ [][Next]_vars

----------------------------------------------------------------------------
(* Properties                                                              *)

\* The types of the state; a request never outlasts its patience, and the report a marker
\* was moved by is younger than the departure.
TypeOK ==
    /\ now \in 0 .. MaxTime /\ reports \in 0 .. MaxReports
    /\ rows \in [Vessels -> Row \cup {NoRow}]
    /\ departures \subseteq Departure /\ Cardinality(departures) <= MaxDepartures
    /\ pc \in {"idle", "names", "reckon", "departures", "project", "reply"}
    /\ polled \in 0 .. now /\ started \in 0 .. now
    /\ pc # "idle" => now <= polled + Patience
    /\ {live, heard, reckoned, quiet} \subseteq SUBSET Vessels
    /\ \A v \in Vessels :
         /\ due[v] \in departures \cup {NoRow}
         /\ markers[v] \in Marker \cup {NoRow}
         /\ markers[v] # NoRow /\ markers[v].row # NoRow => markers[v].row.seen \in markers[v].dep.at + 1 .. now
         /\ shown[v] \in Marker \cup {NoRow}
    /\ whole \in BOOLEAN

\* A vessel whose reports carry her name is never both in the live tier and projected
\* from a lock, although the two are read by queries some time apart.
NeverLiveAndProjected ==
    pc = "reply" => \A v \in live \ Anonymous : markers[v] = NoRow

\* No moving vessel falls between the tiers: one that was not reported while the request
\* ran and was last heard within DeadReckon is in the answer, live or dead reckoned,
\* although she may have aged from one tier into the other between the queries.
NobodyLost ==
    pc = "reply" /\ whole =>
        \A v \in quiet : rows[v] # NoRow /\ rows[v].speed >= MinSpeed /\ rows[v].seen > now - DeadReckon
                         => v \in live \cup reckoned

\* As long as nothing new is known of her (no other departure or report, the same pace and
\* median), a lock-projected tow never moves backwards from one answer to the next: not
\* when her median time has passed, not at the end of the grace period, not where the path
\* comes into reach of the antenna.
MarkerNeverGoesBack ==
    \A v \in Vessels : markers[v] # NoRow /\ shown[v] # NoRow =>
        LET new == markers[v]  old == shown[v]
        IN  new.dep = old.dep /\ new.row = old.row => new.dep.dir * (new.mile - old.mile) >= 0

\* Claimed by the comment on the override in compute_projected_tiers, "a real position
\* beats a statistical guess": no marker is behind the place she was really heard at
\* after the departure.
NeverBehindRealFix ==
    \A v \in Vessels : markers[v] # NoRow /\ markers[v].row # NoRow =>
        markers[v].dep.dir * (markers[v].mile - markers[v].row.mile) >= 0
=============================================================================
