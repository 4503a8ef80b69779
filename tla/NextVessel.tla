----------------------------- MODULE NextVessel -----------------------------
(***************************************************************************)
(* GET /next-vessel for one user and one way along the river: which tows   *)
(* that left the nearest locks behind them come by next.  The handler      *)
(* walks the locks outwards and awaits one query per tow and question,     *)
(* while departures and positions keep being stored, each with the time it *)
(* claims, which may be long past: the collector spools what it cannot     *)
(* send, and the feed of the locks is polled.                              *)
(*                                                                         *)
(* Miles grow upstream.  A tow goes up (1) or down (-1).                   *)
(***************************************************************************)
EXTENDS Integers, FiniteSets

CONSTANTS
    Tows,
    Locks,
    LockMile,   \* [Locks -> Int], LOCKS
    User,       \* mile of the user's point
    Miles,      \* miles a tow may be heard at
    Speeds,     \* speeds she may be heard at
    Cuts,       \* barge counts a lockage may report
    Big,        \* barge_class: from this many barges on a tow is big
    Med, Late,  \* [Locks \X BOOLEAN -> Nat], med and p90 of TRANSIT_MODELS scaled to the leg, by class
    Multicut,   \* gap within which lockages of one tow are one passage
    Shuttle,    \* SHUTTLE_ROUNDTRIP_MAX_H
    Window,     \* a departure older than this is not considered
    Slack,      \* minutes past p90 a tow without any signal is waited for
    LiveFor,    \* age up to which a position is live
    Passing,    \* tolerance of "already passed"
    Abreast,    \* tolerance of the live check
    MaxHops,    \* 1 + MAX_WALK_HOPS
    Unknown,    \* never heard; not heard live
    MaxTime, MaxStored, MaxHeard \* bounds on the clock, on the rows stored and on the positions among them

ASSUME RiverAssumption ==
    /\ IsFiniteSet(Locks) /\ LockMile \in [Locks -> Int] /\ User \in Int /\ Miles \subseteq Int
    /\ \A j, k \in Locks : LockMile[j] = LockMile[k] => j = k
ASSUME ModelAssumption ==
    /\ Cuts \subseteq Nat /\ {Med, Late} \subseteq [Locks \X BOOLEAN -> Nat]
    /\ \A leg \in Locks \X BOOLEAN : Med[leg] <= Late[leg] /\ Med[leg] <= Window
    /\ \A k \in Locks : Med[<<k, FALSE>>] <= Late[<<k, TRUE>>]
    /\ {Big, Multicut, Shuttle, Window, Slack, LiveFor, Passing, Abreast} \subseteq Nat
ASSUME BoundsAssumption == {MaxHops, MaxTime, MaxStored, MaxHeard} \subseteq Nat

Ways == {1, -1}
Lockage == [tow : Tows, lock : Locks, way : Ways, barges : Cuts, end : Nat]
Position == [at : Nat, mile : Miles, course : Ways \cup {0}, speed : Speeds]
Candidate == [tow : Tows, lock : Locks, barges : Cuts, end : Nat]

ASSUME UnknownAssumption == Unknown \notin Position /\ Unknown \notin Miles

VARIABLES
    now,
    lockages,  \* commercial rows of lock_status_observation
    position,  \* vessel_position row of each tow with the latest time, or Unknown
    reports,   \* number of positions so far
    pc,        \* what the handler awaits
    way,       \* the way of travel asked for
    asked,     \* now of the request
    hop,       \* how many locks out it is
    unchecked, \* departures not yet held against the positions
    kept,      \* departures that passed all filters
    unrated,   \* candidates whose elapsed time is still to be judged
    unheard,   \* candidates still to be looked up live
    rated,     \* all_candidates: candidate and the mile it was heard live at, or Unknown
    known,     \* for the properties: the lockages stored when the request came,
    heard      \* and all that have been the position of a tow since then

river == <<lockages, position, reports>>
request == <<way, asked, hop, unchecked, kept, unrated, unheard, rated>>
history == <<known, heard>>
vars == <<now, river, pc, request, history>>

Distance(a, b) == IF a >= b THEN a - b ELSE b - a
Smaller(a, b) == IF a <= b THEN a ELSE b

----------------------------------------------------------------------------
(* The locks and their departures                                          *)

\* The locks a tow going w has behind her before she reaches the user, and the nth.
Behind(w) == {k \in Locks : w * (User - LockMile[k]) > 0}
NthLock(w, n) == {k \in Behind(w) : Cardinality({j \in Behind(w) : w * (LockMile[j] - LockMile[k]) > 0}) = n - 1}

\* Deviation: a second cut in the same direction counts as a round trip.
ShuttlesWithCuts(r) ==
    \E q \in lockages : q # r /\ q.tow = r.tow /\ q.lock = r.lock /\ Distance(q.end, r.end) <= Shuttle

\* _is_local_shuttle: the same tow went through the other way shortly before or after.
Shuttles(r) ==
    \E q \in lockages : q.tow = r.tow /\ q.lock = r.lock /\ q.way # r.way /\ Distance(q.end, r.end) <= Shuttle

\* Deviation: a departure newer than the request is as good as any.
DeparturesFromAhead(k) ==
    {r \in lockages : r.lock = k /\ r.way = way /\ asked - r.end <= Window /\ ~Shuttles(r)}

\* What find_best_at_lock looks at before it awaits anything about a tow.
Departures(k) ==
    {r \in lockages : r.lock = k /\ r.way = way /\ asked - r.end \in 0 .. Window /\ ~Shuttles(r)}

\* Deviation: the last cut stands for all of its passage, with its own barges.
CollapseToLast(rows) ==
    LET IsLast(r) == \A q \in rows : q.tow = r.tow => q.end <= r.end \/ q.end > r.end + Multicut
    IN  {[tow |-> r.tow, lock |-> r.lock, barges |-> r.barges, end |-> r.end] : r \in {q \in rows : IsLast(q)}}

\* collapse_multicut: a chain of departures of one tow, each within Multicut of the one
\* before, is one candidate with the end of the last and the barges of the largest.
Collapse(rows) ==
    LET Of(r) == {q \in rows : q.tow = r.tow}
        IsLast(r) == \A q \in Of(r) : q.end <= r.end \/ q.end > r.end + Multicut
        Chain(r) == {q \in Of(r) : q.end <= r.end /\ \A x \in Of(r) : x.end \in q.end .. r.end - 1 => ~IsLast(x)}
        Largest(r) == CHOOSE b \in {q.barges : q \in Chain(r)} : \A q \in Chain(r) : q.barges <= b
    IN  {[tow |-> r.tow, lock |-> r.lock, barges |-> Largest(r), end |-> r.end] : r \in {q \in rows : IsLast(q)}}

----------------------------------------------------------------------------
(* What a position says                                                    *)

\* Of two positions, or none, the first is no later.
NotAfter(p, q) == p # Unknown => q # Unknown /\ p.at <= q.at

\* _vessel_already_passed, of a position however old.
Passed(w, p) == p # Unknown /\ (w * (p.mile - User) > Passing \/ p.course = -w)

\* _live_priority_rm: heard live and not past the user.
LiveMile(p) ==
    IF p # Unknown /\ asked - p.at <= LiveFor /\ way * (p.mile - User) <= Abreast THEN p.mile ELSE Unknown

Elapsed(c) == asked - c.end
Leg(c) == <<c.lock, c.barges >= Big>>

\* How long past her departure a tow is still waited for.
OuterBound(c) ==
    Smaller(Window, IF position[c.tow] # Unknown THEN 2 * Late[Leg(c)] ELSE Late[Leg(c)] + Slack)

\* Deviation: a live tow keeps the place her departure gives her.
BeforeByTime(a, b) == Med[Leg(a.tow)] - Elapsed(a.tow) < Med[Leg(b.tow)] - Elapsed(b.tow)

\* The order of _sort_key: live tows by distance, then those with time left by the time
\* left, then the late ones by how late they are.
Before(a, b) ==
    LET left(x) == Med[Leg(x.tow)] - Elapsed(x.tow)
    IN  IF a.live # Unknown /\ b.live # Unknown THEN Distance(User, a.live) < Distance(User, b.live)
        ELSE IF a.live # Unknown \/ b.live # Unknown THEN a.live # Unknown
        ELSE IF left(a) > 0 /\ left(b) > 0 THEN left(a) < left(b)
        ELSE IF left(a) > 0 \/ left(b) > 0 THEN left(a) > 0
        ELSE left(a) > left(b)

----------------------------------------------------------------------------
(* The river                                                               *)

\* A lockage of a tow is stored, now or long after its end; LPMS reports each cut of a
\* big one.
LockThrough(v) ==
    /\ Cardinality(lockages) + reports < MaxStored
    /\ \E k \in Locks, w \in Ways, b \in Cuts, t \in 0 .. now :
          lockages' = lockages \cup {[tow |-> v, lock |-> k, way |-> w, barges |-> b, end |-> t]}
    /\ UNCHANGED <<now, position, reports, pc, request, history>>

\* A position of a tow is stored, now or long after she was heard, with a course up, down
\* or neither.  One older than her latest is never looked at, so it is no step.
Hear(v) ==
    /\ Cardinality(lockages) + reports < MaxStored /\ reports < MaxHeard
    /\ reports' = reports + 1
    /\ \E p \in [at : 0 .. now, mile : Miles, course : Ways \cup {0}, speed : Speeds] :
          /\ NotAfter(position[v], p)
          /\ position' = [position EXCEPT ![v] = p]
          /\ heard' = [heard EXCEPT ![v] = IF pc = "idle" THEN {} ELSE @ \cup {p}]
    /\ UNCHANGED <<now, lockages, pc, request, known>>

Tick ==
    /\ now < MaxTime
    /\ now' = now + 1
    /\ UNCHANGED <<river, pc, request, history>>

----------------------------------------------------------------------------
(* The handler                                                             *)

Ask(w) ==
    /\ pc = "idle"
    /\ way' = w
    /\ asked' = now
    /\ hop' = 1
    /\ pc' = "pull"
    /\ known' = lockages
    /\ heard' = [v \in Tows |-> {position[v]}]
    /\ UNCHANGED <<now, river, unchecked, kept, unrated, unheard, rated>>

\* _pull_lock, or the end of the chain.
Pull ==
    /\ pc = "pull"
    /\ IF hop > MaxHops \/ NthLock(way, hop) = {}
         THEN pc' = "reply" /\ UNCHANGED unchecked
         ELSE /\ unchecked' = UNION {Departures(k) : k \in NthLock(way, hop)}
              /\ pc' = "check"
    /\ UNCHANGED <<now, river, way, asked, hop, kept, unrated, unheard, rated, history>>

\* One departure, with a query for the tow's last position.
Check(r) ==
    /\ pc = "check"
    /\ r \in unchecked
    /\ unchecked' = unchecked \ {r}
    /\ kept' = IF Passed(way, position[r.tow]) THEN kept ELSE kept \cup {r}
    /\ UNCHANGED <<now, river, pc, way, asked, hop, unrated, unheard, rated, history>>

CollapseCuts ==
    /\ pc = "check"
    /\ unchecked = {}
    /\ unrated' = Collapse(kept)
    /\ kept' = {}
    /\ pc' = "rate"
    /\ UNCHANGED <<now, river, way, asked, hop, unchecked, unheard, rated, history>>

\* Has she ever been heard?  Depending on it she is waited for longer or not.
Rate(c) ==
    /\ pc = "rate"
    /\ c \in unrated
    /\ unheard = {}
    /\ unrated' = unrated \ {c}
    /\ unheard' = IF Elapsed(c) > OuterBound(c) THEN {} ELSE {c}
    /\ UNCHANGED <<now, river, pc, way, asked, hop, unchecked, kept, rated, history>>

\* Is she heard right now?  Another query, perhaps with another answer.
Confirm(c) ==
    /\ pc = "rate"
    /\ c \in unheard
    /\ unheard' = {}
    /\ rated' = rated \cup {[tow |-> c, live |-> LiveMile(position[c.tow])]}
    /\ UNCHANGED <<now, river, pc, way, asked, hop, unchecked, kept, unrated, history>>

\* Nobody left here: on to the next lock.
Walk ==
    /\ pc = "rate"
    /\ unrated = {} /\ unheard = {}
    /\ IF rated = {} THEN pc' = "pull" /\ hop' = hop + 1
                     ELSE pc' = "reply" /\ UNCHANGED hop
    /\ UNCHANGED <<now, river, way, asked, unchecked, kept, unrated, unheard, rated, history>>

Reply ==
    /\ pc = "reply"
    /\ pc' = "idle"
    /\ way' = 1 /\ asked' = 0 /\ hop' = 1
    /\ rated' = {}
    /\ known' = {} /\ heard' = [v \in Tows |-> {}]
    /\ UNCHANGED <<now, river, unchecked, kept, unrated, unheard>>

\* A query raises or times out, or the process ends: the answer is an error.
Fail ==
    /\ pc # "idle"
    /\ pc' = "idle"
    /\ way' = 1 /\ asked' = 0 /\ hop' = 1
    /\ unchecked' = {} /\ kept' = {} /\ unrated' = {} /\ unheard' = {} /\ rated' = {}
    /\ known' = {} /\ heard' = [v \in Tows |-> {}]
    /\ UNCHANGED <<now, river>>

Init ==
    /\ now = 0
    /\ lockages = {}
    /\ position = [v \in Tows |-> Unknown]
    /\ reports = 0
    /\ pc = "idle"
    /\ way = 1 /\ asked = 0 /\ hop = 1
    /\ unchecked = {} /\ kept = {} /\ unrated = {} /\ unheard = {} /\ rated = {}
    /\ known = {} /\ heard = [v \in Tows |-> {}]

Next ==
    \/ Tick \/ \E v \in Tows : LockThrough(v) \/ Hear(v)
    \/ \E w \in Ways : Ask(w)
    \/ Pull \/ CollapseCuts \/ Walk \/ Reply \/ Fail
    \/ \E r \in unchecked : Check(r)
    \/ \E c \in unrated : Rate(c)
    \/ \E c \in unheard : Confirm(c)

Spec == Init /\ [][Next]_vars

----------------------------------------------------------------------------
(* Properties                                                              *)

\* The types of the state; a candidate is never rated twice or ahead of its departure.
TypeOK ==
    /\ now \in 0 .. MaxTime /\ reports \in 0 .. MaxHeard
    /\ lockages \subseteq Lockage
    /\ position \in [Tows -> Position \cup {Unknown}]
    /\ pc \in {"idle", "pull", "check", "rate", "reply"}
    /\ way \in Ways /\ asked \in 0 .. now /\ hop \in 1 .. MaxHops + 1
    /\ unchecked \cup kept \subseteq lockages
    /\ unrated \cup unheard \subseteq Candidate /\ Cardinality(unheard) <= 1
    /\ rated \subseteq [tow : Candidate, live : Miles \cup {Unknown}]
    /\ \A e \in rated : e.tow \notin unrated \cup unheard /\ Elapsed(e.tow) \in 0 .. Window
    /\ known \subseteq lockages /\ heard \in [Tows -> SUBSET (Position \cup {Unknown})]

\* Departures her way, without one the other way shortly before or after, that were stored
\* when the request came.
OnRecord ==
    {r \in known : /\ r.way = way /\ asked - r.end \in 0 .. Window
                   /\ \A q \in lockages : q.tow = r.tow /\ q.lock = r.lock /\ q.way # r.way
                                           => Distance(q.end, r.end) > Shuttle}

\* No position of hers since the request came speaks against her being still to come.  One
\* from before her departure may, and then hides her: the code looks at no age.
NotPassed(c) ==
    \A p \in heard[c.tow] : p = Unknown \/ (way * (p.mile - User) <= Passing /\ p.course # -way)

CutsOf(c) == {r \in OnRecord : r.tow = c.tow /\ r.lock = c.lock}

\* From the end of a cut to that of the candidate there is no gap wider than Multicut.
SamePassage(r, c) ==
    r.end <= c.end /\ \A t \in r.end .. c.end - 1 : \E q \in CutsOf(c) : q.end \in t + 1 .. t + Multicut

\* The candidate has the last cut of its passage and the barges of the largest.
TakesIn(c) ==
    \A r \in CutsOf(c) :
        /\ r.end \notin c.end + 1 .. c.end + Multicut
        /\ SamePassage(r, c) => r.barges <= c.barges

\* No two candidates of a tow are cuts of one passage by their ends; and unless a position
\* came up, before the answer, that speaks against her, each takes in all cuts of its passage
\* that were stored when the request came, whatever is stored and heard between the queries
\* that judge them one by one.
OneEntryPerPassage ==
    \A e \in rated :
        /\ \A f \in rated : f # e /\ f.tow.tow = e.tow.tow => Distance(e.tow.end, f.tow.end) > Multicut
        /\ NotPassed(e.tow) => TakesIn(e.tow)

\* Departures from the nearest lock that were on record and have not used up their median time.
OnTheirWay == {r \in OnRecord : r.lock \in NthLock(way, 1) /\ asked - r.end <= Med[Leg(r)]}

\* A tow on her way, in one cut or in several, is among the candidates of the answer, with her
\* departure or a later one, unless a position speaks against her or a departure the other way
\* is stored too: no request goes past her to the next lock or is answered "quiet".
DueIsAnswered ==
    pc = "reply" /\ MaxHops >= 1 =>
        \A r \in OnTheirWay : NotPassed(r) =>
            \E e \in rated : /\ e.tow.tow = r.tow /\ e.tow.lock = r.lock
                             /\ e.tow.end >= r.end /\ e.tow.barges >= r.barges

\* Claimed by the docstring of _latest_position, "no age cutoff here -- callers apply
\* their own": a tow that went up past the user and through the lock, and came back
\* through it, is not hidden by the position she was heard at on her way up.
StaleNeverHides ==
    pc = "reply" /\ MaxHops >= 1
        /\ (\E r \in OnTheirWay, q \in lockages :
              LET p == position[r.tow] IN
              /\ q.tow = r.tow /\ q.lock = r.lock /\ q.way = -r.way /\ q.end < r.end
              /\ p # Unknown /\ p.at < q.end /\ p.course = q.way
              /\ r.way * (p.mile - User) < 0)
    => rated # {}

=============================================================================
