----------------------------- MODULE LockStatus -----------------------------
(***************************************************************************)
(* GET /lock-status for one lock: who is in the chamber, who left it last, *)
(* and how bad it looks.  The handler looks at the clock, awaits the       *)
(* lockage rows, then the live row of the lock; tows lock through and the  *)
(* poller's observations arrive, late and in any order, at any time.       *)
(***************************************************************************)
EXTENDS Integers, FiniteSets

CONSTANTS
    Tows,          \* each locks through at most once
    Recreational,  \* those of them that are no tows
    Barges,        \* [Tows -> Nat]
    NoTow,
    Never,         \* a time that has not come
    Grace,         \* the 15 minutes of _find_current_lockage
    Long,          \* the 90 minutes of _compute_flag
    Pending,       \* queue lengths the poller may report
    Delays,        \* average delays the poller may report
    MaxTime,       \* bound on the clock
    MaxSightings,  \* bound on observations of lockages
    MaxPolls       \* bound on observations of the queue

ASSUME TowsAssumption ==
    /\ Recreational \subseteq Tows /\ Barges \in [Tows -> Nat]
    /\ NoTow \notin Tows /\ Never \notin Nat
ASSUME NumbersAssumption ==
    /\ {Grace, Long, MaxTime, MaxSightings, MaxPolls} \subseteq Nat
    /\ Pending \cup Delays \subseteq Nat

Time == Nat \cup {Never}
Lockage == [tow : Tows, sol : Nat, eol : Time]
Queue == [pending : Pending \cup {0}, locking : {0, 1}, delay : Delays \cup {0}]

VARIABLES
    now,
    began, ended,  \* when each tow entered the chamber and left it
    lockages,      \* rows of lock_status_observation
    sightings,     \* number of observations so far
    queue,         \* the row of lock_live_state; no row counts as no queue
    polls,
    pc,            \* what the handler awaits
    asked,         \* its now
    rows,          \* what the first query returned
    line,          \* what the second query returned
    before         \* history: the answer before this one

chamber == <<began, ended>>
tables == <<lockages, sightings, queue, polls>>
request == <<asked, rows, line>>
vars == <<now, chamber, tables, pc, request, before>>

NoQueue == [pending |-> 0, locking |-> 0, delay |-> 0]
Nothing == [active |-> NoTow, line |-> NoQueue, flag |-> "normal"]

----------------------------------------------------------------------------
(* What the handler makes of its rows                                      *)

\* Deviation: everything that locks through counts.
InProgressAll(r) == r.sol <= asked /\ (r.eol # Never => asked <= r.eol + Grace)

\* In the chamber, or out of it for no longer than Grace.
InProgress(r) ==
    /\ r.tow \notin Recreational
    /\ r.sol <= asked
    /\ r.eol # Never => asked <= r.eol + Grace

\* Deviation: the row that began first is taken.
CurrentFirst == {r \in rows : InProgress(r) /\ \A q \in rows : InProgress(q) => q.sol >= r.sol}

\* _find_current_lockage: the row that began last; any of those that began together.
Current == {r \in rows : InProgress(r) /\ \A q \in rows : InProgress(q) => q.sol <= r.sol}

\* _find_last_cleared looks among these for the latest end.
Cleared == {r \in rows : r.tow \notin Recreational /\ r.eol # Never /\ r.eol <= asked}
LastCleared == {r \in Cleared : \A q \in Cleared : q.eol <= r.eol}

Severity == [normal |-> 0, watch |-> 1, delay |-> 2, jam |-> 3]

\* Deviation: a queue behind the lockage is looked at before its age.
FlagQueueFirst(barges, age, q) ==
    IF barges >= 9 \/ q.pending >= 3 THEN "jam"
    ELSE IF q.pending >= 1 /\ q.locking >= 1 THEN "delay"
    ELSE IF age >= Long THEN "jam"
    ELSE IF q.pending >= 2 \/ (barges >= 4 /\ q.delay >= 30) THEN "delay"
    ELSE IF q.pending >= 1 \/ barges >= 4 \/ q.delay >= 20 THEN "watch"
    ELSE "normal"

\* _compute_flag.
Flag(barges, age, q) ==
    IF barges >= 9 \/ age >= Long \/ q.pending >= 3 THEN "jam"
    ELSE IF \/ q.pending >= 1 /\ q.locking >= 1
            \/ q.pending >= 2
            \/ barges >= 4 /\ q.delay >= 30 THEN "delay"
    ELSE IF q.pending >= 1 \/ barges >= 4 \/ q.delay >= 20 THEN "watch"
    ELSE "normal"

\* The answers the rows and the live row allow.
Answers ==
    LET of(r) == [active |-> r.tow, line |-> line, flag |-> Flag(Barges[r.tow], asked - r.sol, line)]
        empty == [active |-> NoTow, line |-> line, flag |-> Flag(0, 0, line)]
    IN  IF Current = {} THEN {empty} ELSE {of(r) : r \in Current}

----------------------------------------------------------------------------
(* The lock and its poller                                                 *)

\* One tow at a time; her start is later than that of the one before.
Enter(t) ==
    /\ began[t] = Never
    /\ \A u \in Tows : began[u] # Never => ended[u] # Never /\ began[u] < now
    /\ began' = [began EXCEPT ![t] = now]
    /\ UNCHANGED <<now, ended, tables, pc, request, before>>

Leave(t) ==
    /\ began[t] # Never /\ ended[t] = Never
    /\ ended' = [ended EXCEPT ![t] = now]
    /\ UNCHANGED <<now, began, tables, pc, request, before>>

\* A row about a tow that entered is stored: with her end, if it was observed after it.
ObserveLockage(t) ==
    /\ sightings < MaxSightings
    /\ began[t] # Never
    /\ \E eol \in {Never, ended[t]} :
          lockages' = lockages \cup {[tow |-> t, sol |-> began[t], eol |-> eol]}
    /\ sightings' = sightings + 1
    /\ UNCHANGED <<now, chamber, queue, polls, pc, request, before>>

\* A new live row; an observation older than the row leaves it alone.
ObserveQueue ==
    /\ polls < MaxPolls
    /\ queue' \in Queue
    /\ polls' = polls + 1
    /\ UNCHANGED <<now, chamber, lockages, sightings, pc, request, before>>

Tick ==
    /\ now < MaxTime
    /\ now' = now + 1
    /\ UNCHANGED <<chamber, tables, pc, request, before>>

----------------------------------------------------------------------------
(* The handler                                                             *)

Ask ==
    /\ pc = "idle"
    /\ asked' = now
    /\ pc' = "rows"
    /\ UNCHANGED <<now, chamber, tables, rows, line, before>>

ReadLockages ==
    /\ pc = "rows"
    /\ rows' = lockages
    /\ pc' = "line"
    /\ UNCHANGED <<now, chamber, tables, asked, line, before>>

ReadQueue ==
    /\ pc = "line"
    /\ line' = queue
    /\ pc' = "reply"
    /\ UNCHANGED <<now, chamber, tables, asked, rows, before>>

Reply ==
    /\ pc = "reply"
    /\ before' \in Answers
    /\ pc' = "idle"
    /\ asked' = 0 /\ rows' = {} /\ line' = NoQueue
    /\ UNCHANGED <<now, chamber, tables>>

\* A query raises or times out: the answer is an error.
Fail ==
    /\ pc \in {"rows", "line"}
    /\ pc' = "idle"
    /\ asked' = 0 /\ rows' = {} /\ line' = NoQueue
    /\ UNCHANGED <<now, chamber, tables, before>>

Init ==
    /\ now = 0
    /\ began = [t \in Tows |-> Never] /\ ended = [t \in Tows |-> Never]
    /\ lockages = {} /\ sightings = 0
    /\ queue = NoQueue /\ polls = 0
    /\ pc = "idle"
    /\ asked = 0 /\ rows = {} /\ line = NoQueue
    /\ before = Nothing

Next ==
    \/ Tick \/ ObserveQueue
    \/ \E t \in Tows : Enter(t) \/ Leave(t) \/ ObserveLockage(t)
    \/ Ask \/ ReadLockages \/ ReadQueue \/ Reply \/ Fail

Spec == Init /\ [][Next]_vars

----------------------------------------------------------------------------
(* Properties                                                              *)

\* The types of the state; only commercial tows are ever shown.
TypeOK ==
    /\ now \in 0 .. MaxTime /\ sightings \in 0 .. MaxSightings /\ polls \in 0 .. MaxPolls
    /\ began \in [Tows -> Time] /\ ended \in [Tows -> Time]
    /\ lockages \cup rows \subseteq Lockage
    /\ {queue, line} \subseteq Queue
    /\ pc \in {"idle", "rows", "line", "reply"} /\ asked \in 0 .. now
    /\ before.active \in (Tows \ Recreational) \cup {NoTow}
    /\ before.line \in Queue /\ before.flag \in DOMAIN Severity

\* Tows that are in the chamber since before the request, as the first query knows.
KnownInside ==
    {t \in Tows \ Recreational : ended[t] = Never /\ \E r \in rows : r.tow = t /\ r.sol <= asked}

\* A tow that is in the chamber and was stored in time is the one shown, whatever is
\* stored of earlier ones and in whatever order it came, whoever is shown to have left last
\* was out when she came in, and the flag is what her size alone calls for or worse, whatever
\* the live row has become since.
WhoIsInsideIsShown ==
    pc = "reply" => \A t \in KnownInside :
        /\ \A r \in LastCleared : r.eol <= began[t]
        /\ \A a \in Answers : /\ a.active = t
                              /\ Severity[a.flag] >= Severity[Flag(Barges[t], 0, NoQueue)]

\* With the same tow in the chamber, or none, and a queue no shorter and no faster than in
\* the answer before, the flag is no calmer: no condition of _compute_flag hides a worse one.
WorseIsNeverCalmer ==
    pc = "reply" => \A a \in Answers :
        a.active = before.active /\ (\A f \in DOMAIN NoQueue : a.line[f] >= before.line[f])
        => Severity[a.flag] >= Severity[before.flag]

=============================================================================
