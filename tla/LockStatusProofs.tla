-------------------------- MODULE LockStatusProofs --------------------------
(***************************************************************************)
(* Theorems about LockStatus and RiverPulse, for any tows, any number of   *)
(* observations in any order, and any grace and thresholds of time.        *)
(***************************************************************************)
EXTENDS RiverPulse, TLAPS

\* Tows go through one after the other.
ChamberInv ==
    /\ \A t \in Tows : began[t] # Never => began[t] <= now
    /\ \A t \in Tows : ended[t] # Never => began[t] # Never /\ began[t] <= ended[t] /\ ended[t] <= now
    /\ \A t, u \in Tows : t # u /\ began[t] # Never /\ ended[t] = Never /\ began[u] # Never =>
         ended[u] # Never /\ ended[u] <= began[t] /\ began[u] < began[t]

\* Every row, stored or read, tells of a lockage that happened.
RowsInv ==
    \A r \in lockages \cup rows : began[r.tow] = r.sol /\ (r.eol # Never => r.eol = ended[r.tow])

\* The flag the answer before this one could have had at time t, of the tow it showed.
FlagAt(t) ==
    IF before.active = NoTow THEN Flag(0, 0, before.line)
    ELSE Flag(Barges[before.active], t - began[before.active], before.line)

\* The answer before this one had the flag of its tow at some time before this request.
BeforeInv ==
    \E t \in Nat :
        /\ t <= IF pc = "idle" THEN now ELSE asked
        /\ before.active # NoTow => began[before.active] # Never /\ began[before.active] <= t
        /\ Severity[before.flag] <= Severity[FlagAt(t)]

LockInv == TypeOK /\ ChamberInv /\ RowsInv /\ BeforeInv

----------------------------------------------------------------------------
(* The flag                                                                *)

LEMMA Numbers ==
  /\ Grace \in Nat /\ Long \in Nat /\ MaxTime \in Nat /\ MaxSightings \in Nat /\ MaxPolls \in Nat
  /\ Pending \cup {0} \subseteq Nat /\ Delays \cup {0} \subseteq Nat
  BY NumbersAssumption

LEMMA QueueNumbers ==
  ASSUME NEW q \in Queue
  PROVE  q.pending \in Nat /\ q.locking \in Nat /\ q.delay \in Nat
  BY Numbers DEF Queue

LEMMA Severities ==
  /\ DOMAIN Severity = {"normal", "watch", "delay", "jam"}
  /\ Severity["normal"] = 0 /\ Severity["watch"] = 1 /\ Severity["delay"] = 2 /\ Severity["jam"] = 3
  BY DEF Severity

LEMMA FlagType ==
  ASSUME NEW b, NEW a, NEW q
  PROVE  Flag(b, a, q) \in DOMAIN Severity
  BY Severities DEF Flag

\* More of anything never makes the flag calmer.
LEMMA FlagGrows ==
  ASSUME NEW b \in Nat, NEW a \in Nat, NEW c \in Nat, a <= c,
         NEW p \in Queue, NEW q \in Queue, \A f \in DOMAIN NoQueue : q[f] >= p[f]
  PROVE  Severity[Flag(b, a, p)] <= Severity[Flag(b, c, q)]
  <1>1. q.pending >= p.pending /\ q.locking >= p.locking /\ q.delay >= p.delay
    BY DEF NoQueue
  <1>2. /\ p.pending \in Nat /\ p.locking \in Nat /\ p.delay \in Nat
        /\ q.pending \in Nat /\ q.locking \in Nat /\ q.delay \in Nat
    BY QueueNumbers
  <1>3. CASE Flag(b, c, q) = "jam"
    BY <1>3, FlagType, Severities
  <1>4. CASE Flag(b, c, q) = "delay"
    <2>1. Flag(b, a, p) # "jam"
      BY <1>1, <1>2, <1>4, Numbers DEF Flag
    <2> QED
      BY <1>4, <2>1, FlagType, Severities
  <1>5. CASE Flag(b, c, q) = "watch"
    <2>1. Flag(b, a, p) # "jam" /\ Flag(b, a, p) # "delay"
      BY <1>1, <1>2, <1>5, Numbers DEF Flag
    <2> QED
      BY <1>5, <2>1, FlagType, Severities
  <1>6. CASE Flag(b, c, q) = "normal"
    <2>1. Flag(b, a, p) = "normal"
      BY <1>1, <1>2, <1>6, Numbers DEF Flag
    <2> QED
      BY <1>6, <2>1, Severities
  <1> QED
    BY <1>3, <1>4, <1>5, <1>6, FlagType, Severities

----------------------------------------------------------------------------
(* The answers                                                             *)

LEMMA NoQueueType == NoQueue \in Queue
  BY DEF NoQueue, Queue

LEMMA RowTypes ==
  ASSUME TypeOK, NEW r \in lockages \cup rows
  PROVE  r \in Lockage /\ r.tow \in Tows /\ r.sol \in Nat /\ r.eol \in Nat \cup {Never}
  BY DEF TypeOK, Lockage, Time

\* An answer shows the tow of a row of the current lockage, or none.
LEMMA AnswerCases ==
  ASSUME NEW a \in Answers
  PROVE  \/ /\ Current = {}
            /\ a.active = NoTow /\ a.line = line /\ a.flag = Flag(0, 0, line)
         \/ \E r \in Current : a.active = r.tow /\ a.line = line
                               /\ a.flag = Flag(Barges[r.tow], asked - r.sol, line)
  BY DEF Answers

LEMMA AnswerType ==
  ASSUME TypeOK, NEW a \in Answers
  PROVE  /\ a.active \in (Tows \ Recreational) \cup {NoTow}
         /\ a.line \in Queue /\ a.flag \in DOMAIN Severity
  <1>1. line \in Queue
    BY DEF TypeOK
  <1>2. \A r \in Current : r.tow \in Tows \ Recreational
    BY RowTypes DEF Current, InProgress
  <1> QED
    BY <1>1, <1>2, AnswerCases, FlagType

----------------------------------------------------------------------------
(* The invariant                                                           *)

LEMMA InitLock == Init => LockInv
  <1> SUFFICES ASSUME Init PROVE LockInv
    OBVIOUS
  <1>1. TypeOK
    BY Numbers, NoQueueType, Severities, TowsAssumption DEF Init, TypeOK, Time, Nothing
  <1>2. ChamberInv /\ RowsInv
    BY DEF Init, ChamberInv, RowsInv
  <1>3. Severity[before.flag] <= Severity[FlagAt(0)]
    BY FlagType, Severities DEF Init, Nothing, FlagAt
  <1>4. BeforeInv
    BY <1>3 DEF Init, Nothing, BeforeInv
  <1> QED
    BY <1>1, <1>2, <1>4 DEF LockInv

LEMMA TypeStep ==
  ASSUME TypeOK, [Next]_vars
  PROVE  TypeOK'
  <1> USE Numbers, TowsAssumption
  <1>1. CASE Tick
    BY <1>1 DEF Tick, TypeOK, chamber, tables, request
  <1>2. CASE ObserveQueue
    BY <1>2 DEF ObserveQueue, TypeOK, chamber, request
  <1>3. ASSUME NEW t \in Tows, Enter(t) PROVE TypeOK'
    BY <1>3 DEF Enter, TypeOK, tables, request, Time
  <1>4. ASSUME NEW t \in Tows, Leave(t) PROVE TypeOK'
    BY <1>4 DEF Leave, TypeOK, tables, request, Time
  <1>5. ASSUME NEW t \in Tows, ObserveLockage(t) PROVE TypeOK'
    <2>1. PICK e \in {Never, ended[t]} :
              lockages' = lockages \cup {[tow |-> t, sol |-> began[t], eol |-> e]}
      BY <1>5 DEF ObserveLockage
    <2>2. began[t] \in Nat /\ e \in Time
      BY <1>5 DEF ObserveLockage, TypeOK, Time
    <2>3. lockages' \subseteq Lockage
      BY <2>1, <2>2 DEF TypeOK, Lockage
    <2> QED
      BY <1>5, <2>3 DEF ObserveLockage, TypeOK, chamber, request
  <1>6. CASE Ask
    BY <1>6 DEF Ask, TypeOK, chamber, tables
  <1>7. CASE ReadLockages
    BY <1>7 DEF ReadLockages, TypeOK, chamber, tables
  <1>8. CASE ReadQueue
    BY <1>8 DEF ReadQueue, TypeOK, chamber, tables
  <1>9. CASE Reply
    BY <1>9, AnswerType, NoQueueType DEF Reply, TypeOK, chamber, tables
  <1>10. CASE Fail
    BY <1>10, NoQueueType DEF Fail, TypeOK, chamber, tables
  <1>11. CASE UNCHANGED vars
    BY <1>11 DEF vars, chamber, tables, request, TypeOK
  <1> QED
    BY <1>1, <1>2, <1>3, <1>4, <1>5, <1>6, <1>7, <1>8, <1>9, <1>10, <1>11 DEF Next

LEMMA ChamberStep ==
  ASSUME TypeOK, ChamberInv, [Next]_vars
  PROVE  ChamberInv'
  <1> USE TowsAssumption
  <1>1. CASE Tick
    BY <1>1 DEF Tick, ChamberInv, TypeOK, chamber, Time
  <1>2. ASSUME NEW t \in Tows, Enter(t) PROVE ChamberInv'
    <2>1. \A u \in Tows : began'[u] = (IF u = t THEN now ELSE began[u]) /\ ended'[u] = ended[u]
      BY <1>2 DEF Enter, TypeOK
    <2>2. now' = now /\ now \in Nat /\ ended[t] = Never
      BY <1>2 DEF Enter, ChamberInv, TypeOK
    <2>3. \A u \in Tows : began[u] # Never => ended[u] # Never /\ began[u] < now /\ ended[u] <= now
      BY <1>2 DEF Enter, ChamberInv
    <2> QED
      BY <2>1, <2>2, <2>3 DEF ChamberInv, TypeOK, Time
  <1>3. ASSUME NEW t \in Tows, Leave(t) PROVE ChamberInv'
    <2>1. \A u \in Tows : began'[u] = began[u] /\ ended'[u] = (IF u = t THEN now ELSE ended[u])
      BY <1>3 DEF Leave, TypeOK
    <2>2. now' = now /\ now \in Nat /\ began[t] # Never /\ ended[t] = Never
      BY <1>3 DEF Leave, TypeOK
    <2> QED
      BY <2>1, <2>2 DEF ChamberInv, TypeOK, Time
  <1>4. CASE UNCHANGED <<now, chamber>>
    BY <1>4 DEF ChamberInv, chamber
  <1>5. CASE ObserveQueue \/ (\E t \in Tows : ObserveLockage(t)) \/ Ask \/ ReadLockages
             \/ ReadQueue \/ Reply \/ Fail \/ UNCHANGED vars
    BY <1>4, <1>5 DEF ObserveQueue, ObserveLockage, Ask, ReadLockages, ReadQueue, Reply, Fail, vars
  <1> QED
    BY <1>1, <1>2, <1>3, <1>5 DEF Next

LEMMA RowsStep ==
  ASSUME TypeOK, ChamberInv, RowsInv, [Next]_vars
  PROVE  RowsInv'
  <1> USE TowsAssumption
  <1>1. ASSUME NEW t \in Tows, Enter(t) PROVE RowsInv'
    <2>1. \A r \in lockages \cup rows : r.tow # t
      BY <1>1, RowTypes DEF Enter, RowsInv
    <2> QED
      BY <1>1, <2>1, RowTypes DEF Enter, RowsInv, TypeOK, tables, request
  <1>2. ASSUME NEW t \in Tows, Leave(t) PROVE RowsInv'
    <2>1. \A r \in lockages \cup rows : r.eol # Never => r.tow # t
      BY <1>2, RowTypes DEF Leave, RowsInv
    <2> QED
      BY <1>2, <2>1, RowTypes DEF Leave, RowsInv, TypeOK, tables, request
  <1>3. ASSUME NEW t \in Tows, ObserveLockage(t) PROVE RowsInv'
    BY <1>3 DEF ObserveLockage, RowsInv, chamber, request
  <1>4. CASE UNCHANGED chamber /\ lockages' \cup rows' \subseteq lockages \cup rows
    BY <1>4 DEF RowsInv, chamber
  <1>5. CASE Tick \/ ObserveQueue \/ Ask \/ ReadLockages \/ ReadQueue \/ Reply \/ Fail \/ UNCHANGED vars
    BY <1>4, <1>5 DEF Tick, ObserveQueue, Ask, ReadLockages, ReadQueue, Reply, Fail, vars, tables, request
  <1> QED
    BY <1>1, <1>2, <1>3, <1>5 DEF Next

\* An answer has the flag of its own tow at the time of the request.
LEMMA AnswerFlag ==
  ASSUME TypeOK, ChamberInv, RowsInv, NEW a \in Answers
  PROVE  /\ a.active # NoTow => began[a.active] # Never /\ began[a.active] <= asked
         /\ a.flag = IF a.active = NoTow THEN Flag(0, 0, a.line)
                     ELSE Flag(Barges[a.active], asked - began[a.active], a.line)
  <1> USE TowsAssumption
  <1>1. ASSUME NEW r \in Current PROVE r.tow \in Tows /\ r.sol \in Nat /\ r.sol <= asked /\ began[r.tow] = r.sol
    BY RowTypes DEF Current, InProgress, RowsInv
  <1> QED
    BY <1>1, AnswerCases

LEMMA BeforeStep ==
  ASSUME LockInv, [Next]_vars
  PROVE  BeforeInv'
  <1> USE TowsAssumption DEF LockInv
  <1>1. PICK t \in Nat :
          /\ t <= IF pc = "idle" THEN now ELSE asked
          /\ before.active # NoTow => began[before.active] # Never /\ began[before.active] <= t
          /\ Severity[before.flag] <= Severity[FlagAt(t)]
    BY DEF BeforeInv
  <1>2. CASE /\ before' = before
             /\ before.active # NoTow => began'[before.active] = began[before.active]
             /\ t <= IF pc' = "idle" THEN now' ELSE asked'
    <2>1. FlagAt(t)' = FlagAt(t)
      BY <1>2 DEF FlagAt
    <2> QED
      BY <1>1, <1>2, <2>1 DEF BeforeInv
  <1>3. now \in Nat /\ asked \in Nat /\ asked <= now
    BY Numbers DEF TypeOK
  <1>4. CASE Tick
    BY <1>1, <1>2, <1>3, <1>4 DEF Tick, chamber, request
  <1>5. ASSUME NEW u \in Tows, Enter(u) PROVE BeforeInv'
    <2>1. before.active # NoTow => before.active \in Tows /\ before.active # u
      BY <1>1, <1>5 DEF Enter, TypeOK
    <2> QED
      BY <1>1, <1>2, <1>5, <2>1 DEF Enter, TypeOK, request
  <1>6. CASE ObserveQueue \/ (\E u \in Tows : Leave(u) \/ ObserveLockage(u)) \/ UNCHANGED vars
    BY <1>1, <1>2, <1>6 DEF ObserveQueue, Leave, ObserveLockage, vars, chamber, request
  <1>7. CASE Ask \/ ReadLockages \/ ReadQueue \/ Fail
    BY <1>1, <1>2, <1>3, <1>7 DEF Ask, ReadLockages, ReadQueue, Fail, chamber
  <1>8. CASE Reply
    <2>1. before' \in Answers /\ began' = began /\ now' = now /\ pc' = "idle"
      BY <1>8 DEF Reply, chamber
    <2>2. before'.active # NoTow => began[before'.active] # Never /\ began[before'.active] <= asked
      BY <2>1, AnswerFlag
    <2>3. before'.flag = IF before'.active = NoTow THEN Flag(0, 0, before'.line)
                         ELSE Flag(Barges[before'.active], asked - began[before'.active], before'.line)
      BY <2>1, AnswerFlag
    <2>4. Severity[before'.flag] \in Nat
      BY <2>3, FlagType, Severities
    <2>5. Severity[before'.flag] <= Severity[IF before'.active = NoTow THEN Flag(0, 0, before'.line)
                         ELSE Flag(Barges[before'.active], asked - began'[before'.active], before'.line)]
      BY <2>1, <2>3, <2>4
    <2>6. asked \in Nat /\ asked <= now'
      BY <1>3, <2>1
    <2> QED
      BY <2>1, <2>2, <2>5, <2>6 DEF BeforeInv, FlagAt
  <1> QED
    BY <1>4, <1>5, <1>6, <1>7, <1>8 DEF Next

\* The inductive invariant: tows go through one after the other, every row tells of a lockage
\* that happened, and the flag of the answer before was due to its tow at an earlier time.
THEOREM LockInvariant == Spec => []LockInv
  <1>1. LockInv /\ [Next]_vars => LockInv'
    BY TypeStep, ChamberStep, RowsStep, BeforeStep DEF LockInv
  <1> QED
    BY InitLock, <1>1, PTL DEF Spec

----------------------------------------------------------------------------
(* Who is shown and how                                                    *)

LEMMA InsideFollows ==
  ASSUME LockInv
  PROVE  WhoIsInsideIsShown
  <1> USE TowsAssumption DEF LockInv
  <1> SUFFICES ASSUME pc = "reply", NEW t \in KnownInside
               PROVE  /\ \A r \in LastCleared : r.eol <= began[t]
                      /\ \A a \in Answers :
                           a.active = t /\ Severity[a.flag] >= Severity[Flag(Barges[t], 0, NoQueue)]
    BY DEF WhoIsInsideIsShown
  <1>1. t \in Tows \ Recreational /\ ended[t] = Never
    BY DEF KnownInside
  <1>2. PICK r \in rows : r.tow = t /\ r.sol <= asked
    BY DEF KnownInside
  <1>3. /\ began[t] = r.sol /\ r.sol \in Nat
        /\ \A q \in rows : q.tow = t => q.eol = Never /\ q.sol = r.sol
    BY <1>1, <1>2, RowTypes DEF RowsInv
  <1>4. \A q \in rows : q.tow # t =>
          ended[q.tow] # Never /\ ended[q.tow] <= began[t] /\ began[q.tow] < began[t]
    BY <1>1, <1>3, RowTypes DEF ChamberInv, RowsInv
  <1>5. \A q \in LastCleared : q.eol <= began[t]
    <2> SUFFICES ASSUME NEW q \in LastCleared PROVE q.eol <= began[t]
      OBVIOUS
    <2>1. q \in rows /\ q.eol # Never
      BY DEF LastCleared, Cleared
    <2>2. q.tow # t /\ q.eol = ended[q.tow]
      BY <1>3, <2>1 DEF RowsInv
    <2> QED
      BY <1>4, <2>1, <2>2
  <1>6. r \in Current
    <2>1. InProgress(r)
      BY <1>1, <1>2, <1>3 DEF InProgress
    <2>2. \A q \in rows : q.sol <= r.sol
      BY <1>3, <1>4, RowTypes DEF RowsInv
    <2> QED
      BY <2>1, <2>2 DEF Current
  <1>7. \A q \in Current : q.tow = t /\ q.sol = r.sol
    <2>1. \A q \in Current : q \in rows /\ q.sol >= r.sol
      BY <1>6 DEF Current
    <2> QED
      BY <1>3, <1>4, <2>1, RowTypes DEF RowsInv
  <1>8. ASSUME NEW a \in Answers
        PROVE  a.active = t /\ Severity[a.flag] >= Severity[Flag(Barges[t], 0, NoQueue)]
    <2>1. a.active = t /\ a.flag = Flag(Barges[t], asked - r.sol, line)
      BY <1>6, <1>7, AnswerCases
    <2>2. asked - r.sol \in Nat /\ Barges[t] \in Nat /\ line \in Queue
      BY <1>1, <1>2, <1>3 DEF TypeOK
    <2>3. \A f \in DOMAIN NoQueue : line[f] >= NoQueue[f]
      BY <2>2, QueueNumbers DEF NoQueue
    <2>4. Severity[Flag(Barges[t], 0, NoQueue)] <= Severity[Flag(Barges[t], asked - r.sol, line)]
      BY <2>2, <2>3, NoQueueType, FlagGrows
    <2> QED
      BY <2>1, <2>4, FlagType, Severities
  <1> QED
    BY <1>5, <1>8

\* In every reachable state the tow that is in the chamber and was stored in time is the one
\* an answer shows, with the flag of her size or a worse one (_find_current_lockage,
\* _find_last_cleared and _compute_flag).
THEOREM InsideIsShown == Spec => []WhoIsInsideIsShown
  BY LockInvariant, InsideFollows, PTL

LEMMA NeverCalmerFollows ==
  ASSUME LockInv
  PROVE  WorseIsNeverCalmer
  <1> USE TowsAssumption DEF LockInv
  <1> SUFFICES ASSUME pc = "reply", NEW a \in Answers, a.active = before.active,
                      \A f \in DOMAIN NoQueue : a.line[f] >= before.line[f]
               PROVE  Severity[a.flag] >= Severity[before.flag]
    BY DEF WorseIsNeverCalmer
  <1>1. PICK t \in Nat :
          /\ t <= asked
          /\ before.active # NoTow => began[before.active] # Never /\ began[before.active] <= t
          /\ Severity[before.flag] <= Severity[FlagAt(t)]
    BY DEF BeforeInv
  <1>2. before.line \in Queue /\ a.line \in Queue /\ asked \in Nat
    BY AnswerType, Numbers DEF TypeOK
  <1>3. Severity[FlagAt(t)] <= Severity[a.flag]
    <2>1. CASE before.active = NoTow
      BY <1>2, <2>1, AnswerFlag, FlagGrows DEF FlagAt
    <2>2. CASE before.active # NoTow
      <3>1. before.active \in Tows /\ began[before.active] \in Nat /\ Barges[before.active] \in Nat
        BY <1>1, <2>2 DEF TypeOK, Time
      <3>2. /\ t - began[before.active] \in Nat /\ asked - began[before.active] \in Nat
            /\ t - began[before.active] <= asked - began[before.active]
        BY <1>1, <1>2, <2>2, <3>1
      <3>3. a.flag = Flag(Barges[before.active], asked - began[before.active], a.line)
        BY <2>2, AnswerFlag
      <3> QED
        BY <1>2, <2>2, <3>1, <3>2, <3>3, FlagGrows DEF FlagAt
    <2> QED
      BY <2>1, <2>2
  <1>4. a.flag \in DOMAIN Severity /\ before.flag \in DOMAIN Severity /\ FlagAt(t) \in DOMAIN Severity
    BY AnswerType, FlagType DEF TypeOK, FlagAt
  <1> QED
    BY <1>1, <1>3, <1>4, Severities

\* With the same tow or none in the chamber and a queue no shorter, no answer has a calmer flag
\* than the one before: no early return of _compute_flag hides a worse case.
THEOREM NeverCalmer == Spec => []WorseIsNeverCalmer
  BY LockInvariant, NeverCalmerFollows, PTL

----------------------------------------------------------------------------
(* The pulse                                                               *)

LEMMA PulseStep == [PulseNext]_pulseVars => [Next]_vars
  BY DEF PulseNext, pulseVars, CountBoats, Answer, Next

\* The handler of lock status runs inside the pulse as it does alone: every step of the pulse is
\* a step of it or leaves it alone, so what is proved of it holds in the pulse.
THEOREM PulseIsLockStatus == PulseSpec => Spec
  <1>1. PulseInit => Init
    BY DEF PulseInit
  <1> QED
    BY <1>1, PulseStep, PTL DEF PulseSpec, Spec

SurfaceType == surface \in Fleets \cup {NoFleet}

LEMMA SurfaceStep == SurfaceType /\ [PulseNext]_pulseVars => SurfaceType'
  BY DEF SurfaceType, PulseNext, pulseVars, CountBoats, Answer

\* The type invariant of both handlers.
THEOREM PulseTypeCorrect == PulseSpec => []PulseTypeOK
  <1>1. PulseInit => SurfaceType
    BY DEF PulseInit, SurfaceType
  <1>2. PulseSpec => []SurfaceType
    BY <1>1, SurfaceStep, PTL DEF PulseSpec
  <1>3. LockInv /\ SurfaceType => PulseTypeOK
    BY DEF LockInv, PulseTypeOK, SurfaceType
  <1> QED
    BY <1>2, <1>3, PulseIsLockStatus, LockInvariant, PTL

\* compose_reason brings in the reason of a side that is active, whatever the other one is, and
\* nothing of boats that are not there while one of them is.
LEMMA ActiveIsSaid ==
  ASSUME NEW f \in Fleets, SurfaceScore(f) \in Nat, NEW l \in Nat, NEW why
  PROVE  /\ SurfaceScore(f) > 5 => /\ SurfaceReason(f) \subseteq Says(f, l, why)
                                   /\ Says(f, l, why) \subseteq SurfaceReason(f) \cup why
         /\ SurfaceScore(f) > 5 /\ l = 0 => Says(f, l, why) = SurfaceReason(f)
         /\ l > 5 => why \subseteq Says(f, l, why)
  BY DEF Says

\* What is said of boats is said of no lock.
LEMMA SurfaceWords ==
  ASSUME NEW f \in Fleets
  PROVE  /\ SurfaceScore(f) \in Nat
         /\ SurfaceReason(f) \subseteq {"commercial", "others", "none"} /\ SurfaceReason(f) # {}
         /\ SurfaceScore(f) > 5 => "none" \notin SurfaceReason(f)
  <1>1. /\ f.commercial \in Nat /\ f.others \in Nat /\ DOMAIN f = {"commercial", "others"}
        /\ f["commercial"] = f.commercial /\ f["others"] = f.others
    BY FleetsAssumption DEF Fleet
  <1>2. SurfaceScore(f) \in Nat /\ (SurfaceScore(f) > 5 => f.commercial > 0 \/ f.others > 0)
    BY <1>1 DEF SurfaceScore, AtMost
  <1>3. f.commercial > 0 \/ f.others > 0 => {kind \in DOMAIN f : f[kind] > 0} # {}
    BY <1>1
  <1>4. {kind \in DOMAIN f : f[kind] > 0} \subseteq {"commercial", "others"}
    BY <1>1
  <1> QED
    BY <1>2, <1>3, <1>4 DEF SurfaceReason

LEMMA LockWords ==
  ASSUME NEW a, a.line \in Queue, NEW rest \in Rests
  PROVE  /\ LockScore(a, rest) \in Nat
         /\ a.flag = "jam" => LockScore(a, rest) > 5
         /\ a.line.locking + a.line.pending > 0 =>
              /\ LockScore(a, rest) > 5
              /\ LockReason(a, rest) \subseteq {"tied up", "queue"} /\ LockReason(a, rest) # {}
         /\ rest.points < 20 /\ LockScore(a, rest) >= 40 => a.line.locking + a.line.pending > 0
  <1>1. a.line.locking \in Nat /\ a.line.pending \in Nat /\ rest.points \in Nat
    BY QueueNumbers, FleetsAssumption DEF Rest
  <1>2. PICK x : x = CASE a.flag = "jam" -> 20 [] a.flag = "delay" -> 10 [] OTHER -> 0
    OBVIOUS
  <1>3. x \in {0, 10, 20} /\ (a.flag = "jam" => x = 20)
    BY <1>2
  <1>4. LockScore(a, rest) = AtMost(130, a.line.locking * 30 + a.line.pending * 20 + rest.points + x)
    BY <1>2 DEF LockScore
  <1>5. PICK n \in Nat : n = a.line.locking * 30 + a.line.pending * 20
    BY <1>1
  <1>6. n > 0 <=> a.line.locking + a.line.pending > 0
    BY <1>1, <1>5
  <1>7. n > 0 => n >= 20
    BY <1>1, <1>5
  <1>8. LockScore(a, rest) = IF n + rest.points + x > 130 THEN 130 ELSE n + rest.points + x
    BY <1>4, <1>5 DEF AtMost
  <1>9. ASSUME a.line.locking + a.line.pending > 0
        PROVE  LockReason(a, rest) \subseteq {"tied up", "queue"} /\ LockReason(a, rest) # {}
    <2>1. CASE a.line.locking > 0
      <3>1. "tied up" \in LockReason(a, rest) /\ LockReason(a, rest) \subseteq {"tied up", "queue"}
        BY <2>1 DEF LockReason
      <3> QED
        BY <3>1
    <2>2. CASE a.line.locking = 0 /\ a.line.pending > 0
      <3>1. "queue" \in LockReason(a, rest) /\ LockReason(a, rest) \subseteq {"tied up", "queue"}
        BY <2>2 DEF LockReason
      <3> QED
        BY <3>1
    <2>3. a.line.locking > 0 \/ (a.line.locking = 0 /\ a.line.pending > 0)
      BY <1>1, <1>9
    <2> QED
      BY <2>1, <2>2, <2>3
  <1>10. LockScore(a, rest) \in Nat /\ (a.flag = "jam" => LockScore(a, rest) > 5)
    BY <1>1, <1>3, <1>8
  <1>11. a.line.locking + a.line.pending > 0 => LockScore(a, rest) > 5
    BY <1>1, <1>3, <1>6, <1>7, <1>8
  <1>12. rest.points < 20 /\ LockScore(a, rest) >= 40 => a.line.locking + a.line.pending > 0
    BY <1>1, <1>3, <1>6, <1>8
  <1> QED
    BY <1>9, <1>10, <1>11, <1>12

\* A tow in two cuts that is known to be in the chamber makes it a jam.
LEMMA BigIsJam ==
  ASSUME LockInv, pc = "reply", NEW a \in Answers, NEW t \in KnownInside, Barges[t] >= 9
  PROVE  a.flag = "jam"
  <1>1. Severity[a.flag] >= Severity[Flag(Barges[t], 0, NoQueue)]
    BY InsideFollows DEF WhoIsInsideIsShown
  <1>2. Flag(Barges[t], 0, NoQueue) = "jam"
    BY DEF Flag
  <1> QED
    BY <1>1, <1>2, AnswerType, Severities DEF LockInv

LEMMA BusyFollows ==
  ASSUME LockInv, SurfaceType
  PROVE  BusyIsExplained
  <1> SUFFICES ASSUME surface # NoFleet,
                      NEW s, s = SurfaceScore(surface), NEW boats, boats = SurfaceReason(surface)
               PROVE  /\ s > 5 => Says(surface, 0, {"clear"}) = boats
                      /\ pc = "reply" => \A a \in Answers, rest \in Rests :
                           LET l == LockScore(a, rest)
                               why == LockReason(a, rest)
                               said == Says(surface, l, why)
                           IN  /\ s > 5 => boats \subseteq said
                               /\ a.line.locking + a.line.pending > 0 =>
                                    "clear" \notin said /\ said \cap {"tied up", "queue"} # {}
                               /\ (\E t \in KnownInside : Barges[t] >= 9) => why \subseteq said
                               /\ (s >= 40 \/ l >= 40) /\ rest.points < 20 => ~(said \subseteq {"clear", "none"})
    BY DEF BusyIsExplained
  <1>1. /\ surface \in Fleets /\ s \in Nat
        /\ boats \subseteq {"commercial", "others", "none"} /\ boats # {} /\ (s > 5 => "none" \notin boats)
    BY SurfaceWords DEF SurfaceType
  <1>2. s > 5 => Says(surface, 0, {"clear"}) = boats
    BY <1>1, ActiveIsSaid
  <1>3. ASSUME pc = "reply", NEW a \in Answers, NEW rest \in Rests,
               NEW l, l = LockScore(a, rest), NEW why, why = LockReason(a, rest), NEW said, said = Says(surface, l, why)
        PROVE  /\ s > 5 => boats \subseteq said
               /\ a.line.locking + a.line.pending > 0 =>
                    "clear" \notin said /\ said \cap {"tied up", "queue"} # {}
               /\ (\E t \in KnownInside : Barges[t] >= 9) => why \subseteq said
               /\ (s >= 40 \/ l >= 40) /\ rest.points < 20 => ~(said \subseteq {"clear", "none"})
    <2>1. /\ l \in Nat /\ (a.flag = "jam" => l > 5)
          /\ a.line.locking + a.line.pending > 0 => l > 5 /\ why \subseteq {"tied up", "queue"} /\ why # {}
          /\ rest.points < 20 /\ l >= 40 => a.line.locking + a.line.pending > 0
      <3>1. a.line \in Queue
        BY AnswerType DEF LockInv
      <3> QED
        BY <1>3, <3>1, LockWords
    <2>2. /\ s > 5 => boats \subseteq said
          /\ l > 5 => why \subseteq said
      BY <1>1, <1>3, <2>1, ActiveIsSaid
    <2>3. said \subseteq boats \cup why \cup {"none"}
      BY <1>1, <1>3 DEF Says
    <2>4. (\E t \in KnownInside : Barges[t] >= 9) => l > 5
      BY <1>3, <2>1, BigIsJam
    <2>5. a.line.locking + a.line.pending > 0 => "clear" \notin said /\ said \cap {"tied up", "queue"} # {}
      BY <1>1, <2>1, <2>2, <2>3
    <2>6. s >= 40 => ~(said \subseteq {"clear", "none"})
      BY <1>1, <2>2
    <2>7. l >= 40 /\ rest.points < 20 => ~(said \subseteq {"clear", "none"})
      BY <2>1, <2>5
    <2> QED
      BY <2>2, <2>4, <2>5, <2>6, <2>7
  <1> QED
    BY <1>2, <1>3

\* In every reachable state the reason of a pulse names the boats that score and the tows of the
\* live row, never calls the locks clear over such a tow, and leaves nothing busier than quiet
\* without a name but what the flags of other locks make so (lock_pressure, compose_reason).
THEOREM BusyExplained == PulseSpec => []BusyIsExplained
  <1>1. LockInv /\ PulseTypeOK => BusyIsExplained
    BY BusyFollows DEF PulseTypeOK, SurfaceType
  <1> QED
    BY <1>1, PulseIsLockStatus, LockInvariant, PulseTypeCorrect, PTL

=============================================================================
