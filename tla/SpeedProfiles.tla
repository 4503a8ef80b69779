--------------------------- MODULE SpeedProfiles ---------------------------
(***************************************************************************)
(* The table of typical speeds and the process-wide cache entry in front   *)
(* of it.  Every /live-positions request calls ensure_fresh; one that      *)
(* finds the entry missing or older than the TTL recomputes the whole      *)
(* table.  The entry is written after the recomputation, so requests that  *)
(* arrive meanwhile recompute it too, each in a transaction of its own     *)
(* whose rows it writes in the order the scan happened to return them.     *)
(***************************************************************************)
EXTENDS Integers, FiniteSets

CONSTANTS
    Requests,   \* requests that may be open at once (the pool has 10 connections)
    Keys,       \* (vessel, direction) pairs
    Known,      \* those that had enough readings long before
    Never,      \* no profile; an empty cache entry
    NoKey,      \* no row is being written
    TTL,        \* REFRESH_TTL_S
    Patience,   \* what the query timeouts let one request take at most
    MaxTime,    \* bound on the clock
    MaxChanges, \* bound on keys that enter or leave the sample
    MaxFaults   \* bound on failing queries and restarts

ASSUME TimesAssumption ==
    /\ {TTL, Patience, MaxTime, MaxChanges, MaxFaults} \subseteq Nat
    /\ 2 * Patience <= TTL /\ TTL >= 1
ASSUME NamesAssumption == Known \subseteq Keys /\ Never \notin Int /\ NoKey \notin Keys

VARIABLES
    now,
    since,     \* when a key last came to have MIN_AIS_SAMPLES readings in 45 days, or Never if it has not
    changes,   \* number of changes of since so far
    table,     \* vessel_speed_profile: updated_at by key, or Never
    cacheAt,   \* _cache["at"], or Never while _cache["data"] is None
    pc,        \* where each request is
    checked,   \* now_t of ensure_fresh
    stamp,     \* now of refresh, the updated_at of all its rows
    todo,      \* rows of its loop still to write
    writing,   \* the row its statement is about to write
    wrote,     \* rows its refresh wrote, locked while its transaction is open
    faults

task == <<checked, stamp, todo, writing, wrote>>
vars == <<now, since, changes, table, cacheAt, pc, task, faults>>

InTransaction == {"loop", "write"}

----------------------------------------------------------------------------
(* The cache and the row locks                                             *)

\* The keys a scan finds.
Sampled == {k \in Keys : since[k] # Never}

Usable == cacheAt # Never /\ now - cacheAt < TTL

\* A row written by an open transaction is locked until that transaction ends.
WaitsFor(r, q) == q # r /\ pc[r] = "write" /\ pc[q] \in InTransaction /\ writing[r] \in wrote[q]
Blocked(r) == \E q \in Requests : WaitsFor(r, q)

\* Deviation: Postgres without its deadlock detector.
DeadlockedNever(r) == FALSE
Deadlocked(r) ==
    \E C \in SUBSET Requests :
        /\ r \in C
        /\ \A p \in C : \E q \in C : WaitsFor(p, q)
        /\ \A q \in C : \E p \in C : WaitsFor(p, q)

\* The request is over.
Forget(r) ==
    /\ checked' = [checked EXCEPT ![r] = 0]
    /\ stamp' = [stamp EXCEPT ![r] = 0]

\* Deviation: the rows still to write are kept for the next attempt.
EndRefreshKeeping(r) ==
    /\ UNCHANGED <<todo, writing>>
    /\ wrote' = [wrote EXCEPT ![r] = {}]

\* The locals of refresh are gone.
EndRefresh(r) ==
    /\ todo' = [todo EXCEPT ![r] = {}]
    /\ writing' = [writing EXCEPT ![r] = NoKey]
    /\ wrote' = [wrote EXCEPT ![r] = {}]

----------------------------------------------------------------------------
(* A request                                                               *)

\* Deviation: the entry is written first, so that nobody else recomputes.
EnsureFreshMarking(r) ==
    /\ pc[r] = "idle"
    /\ checked' = [checked EXCEPT ![r] = now]
    /\ pc' = [pc EXCEPT ![r] = IF Usable THEN "lookup" ELSE "scan"]
    /\ cacheAt' = IF Usable THEN cacheAt ELSE now
    /\ UNCHANGED <<now, since, changes, table, stamp, todo, writing, wrote, faults>>

\* ensure_fresh looks at the clock and the entry; no query is awaited before the scan.
EnsureFresh(r) ==
    /\ pc[r] = "idle"
    /\ checked' = [checked EXCEPT ![r] = now]
    /\ pc' = [pc EXCEPT ![r] = IF Usable THEN "lookup" ELSE "scan"]
    /\ UNCHANGED <<now, since, changes, table, cacheAt, stamp, todo, writing, wrote, faults>>

\* The two full scans of refresh.  The first, of the lockages, decides what a profile says and
\* not which there are, so both are one step.
Scan(r) ==
    /\ pc[r] = "scan"
    /\ todo' = [todo EXCEPT ![r] = Sampled]
    /\ pc' = [pc EXCEPT ![r] = "scanned"]
    /\ UNCHANGED <<now, since, changes, table, cacheAt, checked, stamp, writing, wrote, faults>>

\* The answer of the scan is there: now of refresh, and BEGIN.
Begin(r) ==
    /\ pc[r] = "scanned"
    /\ stamp' = [stamp EXCEPT ![r] = now]
    /\ pc' = [pc EXCEPT ![r] = "loop"]
    /\ UNCHANGED <<now, since, changes, table, cacheAt, checked, todo, writing, wrote, faults>>

\* The next row of the loop, in whatever order the scan returned them.
NextRow(r) ==
    /\ pc[r] = "loop"
    /\ \E k \in todo[r] : writing' = [writing EXCEPT ![r] = k]
    /\ pc' = [pc EXCEPT ![r] = "write"]
    /\ UNCHANGED <<now, since, changes, table, cacheAt, checked, stamp, todo, wrote, faults>>

Upsert(r) ==
    /\ pc[r] = "write"
    /\ ~Blocked(r)
    /\ wrote' = [wrote EXCEPT ![r] = @ \cup {writing[r]}]
    /\ todo' = [todo EXCEPT ![r] = @ \ {writing[r]}]
    /\ writing' = [writing EXCEPT ![r] = NoKey]
    /\ pc' = [pc EXCEPT ![r] = "loop"]
    /\ UNCHANGED <<now, since, changes, table, cacheAt, checked, stamp, faults>>

\* COMMIT installs all rows at once, over those of a refresh that began later, too.
Commit(r) ==
    /\ pc[r] = "loop"
    /\ todo[r] = {}
    /\ table' = [k \in Keys |-> IF k \in wrote[r] THEN stamp[r] ELSE table[k]]
    /\ pc' = [pc EXCEPT ![r] = "mark"]
    /\ UNCHANGED <<now, since, changes, cacheAt, task, faults>>

\* ensure_fresh writes the entry with the time it looked at the clock at the beginning.
Mark(r) ==
    /\ pc[r] = "mark"
    /\ cacheAt' = checked[r]
    /\ EndRefresh(r)
    /\ pc' = [pc EXCEPT ![r] = "lookup"]
    /\ UNCHANGED <<now, since, changes, table, checked, stamp, faults>>

\* lookup reads a profile for each tow to project; then the request ends.
Lookup(r) ==
    /\ pc[r] = "lookup"
    /\ pc' = [pc EXCEPT ![r] = "idle"]
    /\ Forget(r)
    /\ UNCHANGED <<now, since, changes, table, cacheAt, todo, writing, wrote, faults>>

\* A query of ensure_fresh raises or times out: the transaction rolls back and the
\* request ends without projections.  A COMMIT whose answer is lost leaves the rows.
Abort(r) ==
    /\ EndRefresh(r)
    /\ Forget(r)
    /\ pc' = [pc EXCEPT ![r] = "idle"]
    /\ UNCHANGED <<now, since, changes, table, cacheAt>>

Fail(r) ==
    /\ pc[r] \in {"scan", "scanned", "mark", "lookup"} \cup InTransaction
    /\ faults < MaxFaults
    /\ faults' = faults + 1
    /\ Abort(r)

\* Postgres breaks a cycle of waiting transactions by raising in one of them.
BreakDeadlock(r) ==
    /\ Deadlocked(r)
    /\ Abort(r)
    /\ UNCHANGED faults

----------------------------------------------------------------------------
(* The process, the clock and the data                                     *)

\* The process ends: the entry and every open request are gone, the table stays.
Restart ==
    /\ faults < MaxFaults
    /\ faults' = faults + 1
    /\ cacheAt' = Never
    /\ pc' = [r \in Requests |-> "idle"]
    /\ checked' = [r \in Requests |-> 0]
    /\ stamp' = [r \in Requests |-> 0]
    /\ todo' = [r \in Requests |-> {}]
    /\ writing' = [r \in Requests |-> NoKey]
    /\ wrote' = [r \in Requests |-> {}]
    /\ UNCHANGED <<now, since, changes, table>>

\* Readings come in and leave the window of 45 days.
Resample ==
    /\ changes < MaxChanges
    /\ changes' = changes + 1
    /\ \E k \in Keys : since' = [since EXCEPT ![k] = IF @ = Never THEN now ELSE Never]
    /\ UNCHANGED <<now, table, cacheAt, pc, task, faults>>

Tick ==
    /\ now < MaxTime
    /\ \A r \in Requests : pc[r] # "idle" => now < checked[r] + Patience
    /\ now' = now + 1
    /\ UNCHANGED <<since, changes, table, cacheAt, pc, task, faults>>

----------------------------------------------------------------------------
Init ==
    /\ now = 0 /\ changes = 0 /\ faults = 0
    /\ since = [k \in Keys |-> IF k \in Known THEN -TTL - 1 ELSE Never]
    /\ table = [k \in Keys |-> Never]
    /\ cacheAt = Never
    /\ pc = [r \in Requests |-> "idle"]
    /\ checked = [r \in Requests |-> 0]
    /\ stamp = [r \in Requests |-> 0]
    /\ todo = [r \in Requests |-> {}]
    /\ writing = [r \in Requests |-> NoKey]
    /\ wrote = [r \in Requests |-> {}]

Work(r) == Scan(r) \/ Begin(r) \/ NextRow(r) \/ Upsert(r) \/ Commit(r) \/ Mark(r) \/ Lookup(r)

Next ==
    \/ \E r \in Requests : EnsureFresh(r) \/ Work(r) \/ Fail(r) \/ BreakDeadlock(r)
    \/ Restart \/ Resample \/ Tick

Spec == Init /\ [][Next]_vars

\* The event loop runs every coroutine whose query has been answered, and Postgres breaks
\* deadlocks after deadlock_timeout.  The fairness is strong because a row lock goes to
\* those that wait for it in turn: a request that is deadlocked, retried and deadlocked
\* again by its clients cannot keep a row from one that waits.
Fairness ==
    /\ \A r \in Requests : SF_vars(Work(r))
    /\ WF_vars(\E r \in Requests : BreakDeadlock(r))

FairSpec == Spec /\ Fairness

----------------------------------------------------------------------------
(* Properties                                                              *)

\* The types of the state; each row of a scan is written once, and
\* nothing of a refresh outlives it.
TypeOK ==
    /\ now \in 0 .. MaxTime /\ changes \in 0 .. MaxChanges /\ faults \in 0 .. MaxFaults
    /\ since \in [Keys -> -TTL - 1 .. now \cup {Never}]
    /\ table \in [Keys -> 0 .. now \cup {Never}]
    /\ cacheAt \in 0 .. now \cup {Never}
    /\ pc \in [Requests -> {"idle", "scan", "scanned", "mark", "lookup"} \cup InTransaction]
    /\ checked \in [Requests -> 0 .. now] /\ stamp \in [Requests -> 0 .. now]
    /\ writing \in [Requests -> Keys \cup {NoKey}]
    /\ \A r \in Requests :
         /\ todo[r] \cup wrote[r] \subseteq Keys /\ todo[r] \cap wrote[r] = {}
         /\ pc[r] = "write" => writing[r] \in todo[r]
         /\ pc[r] \in {"idle", "lookup"} => todo[r] = {} /\ wrote[r] = {}
         /\ pc[r] # "idle" => now <= checked[r] + Patience

\* What ensure_fresh is for: a request that got past it reads the profile of a key that had
\* enough readings all through the last TTL and more, and one that was computed at most a TTL
\* before its look at the clock, but for the time one request may take - whatever overlapped
\* with it, failed, restarted or overwrote the rows of a later scan with those of an earlier
\* one.  Of a key that was out of the sample meanwhile it says nothing: nothing deletes her
\* row, and lookup takes it however old it is.
ServedIsFresh ==
    \A r \in Requests : pc[r] = "lookup" =>
        \A k \in Keys : since[k] # Never /\ since[k] + TTL < checked[r] =>
            table[k] # Never /\ table[k] + TTL + Patience > checked[r]

\* Every request ends, also when two of them write the same rows in opposite orders.
RequestsEnd == \A r \in Requests : pc[r] # "idle" ~> pc[r] = "idle"

=============================================================================
