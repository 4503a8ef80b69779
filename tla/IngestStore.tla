---------------------------- MODULE IngestStore ----------------------------
(***************************************************************************)
(* The deployed write path of the river map: POST /ingest in api/main.py   *)
(* over Postgres, and the cabin collector that feeds it.                   *)
(*                                                                         *)
(* A request slot runs the handler once: signature and clock checks, the   *)
(* sources row, then one transaction in which write_event runs for every   *)
(* event of the batch.  Slots interleave at every await, i.e. between any  *)
(* two SQL statements.  Postgres runs at READ COMMITTED: a statement sees  *)
(* committed rows and its own transaction's, waits for an open transaction *)
(* that inserted the same unique key or locked the same row, and a cycle   *)
(* of waits is broken by aborting one of them.                             *)
(*                                                                         *)
(* The collector is external: a batch stays in its local spool, and is     *)
(* sent again and again, until a response of 200 for it arrives.           *)
(***************************************************************************)
EXTENDS Integers, Sequences, FiniteSets

CONSTANTS
    Events,        \* an event is named by its (source_id, dedupe_key)
    Subjects,      \* vessels (mmsi) and locks (lock_id) that have a live row
    Batches,
    Sources,
    Requests,      \* slots for concurrent handler runs (connections of the pool)
    NoRow,         \* absence of a database row
    NoSubject,     \* a position whose payload carries no mmsi
    NoBatch,       \* a slot no request occupies
    BatchEvents,   \* [Batches -> Seq(Events)]
    BatchSource,   \* [Batches -> Sources]
    EventType,     \* [Events -> event types]
    Subject,       \* [Events -> Subjects \cup {NoSubject}]
    ObservedAt,    \* [Events -> Nat], the collector's claimed time
    Malformed,     \* events whose time or payload makes write_event raise
    Signed,        \* batches whose signature verifies
    MaxEvents,     \* MAX_INGEST_EVENTS
    MaxFuture,     \* MAX_OBSERVED_AT_FUTURE_S
    MaxClockSkew,  \* MAX_CLOCK_SKEW_S
    PruneAges,     \* ages the prune endpoint is called with; {} = never called
    MaxTime,       \* bound: the clock stops here
    MaxFaults      \* bound: lost responses, failed statements, restarts

EventTypes == {"ais_position", "lock_status", "lock_live_state", "collector_heartbeat"}

ASSUME NamesAssumption ==
    /\ NoSubject \notin Subjects
    /\ NoBatch \notin Batches
    /\ Malformed \subseteq Events
    /\ Signed \subseteq Batches

ASSUME EventAssumption ==
    /\ EventType \in [Events -> EventTypes]
    /\ Subject \in [Events -> Subjects \cup {NoSubject}]
    /\ ObservedAt \in [Events -> Nat]
    /\ \A e \in Events : EventType[e] = "lock_live_state" => Subject[e] # NoSubject

ASSUME BatchAssumption ==
    /\ BatchSource \in [Batches -> Sources]
    /\ \A b \in Batches : BatchEvents[b] \in Seq(Events)
    /\ DOMAIN BatchEvents = Batches

ASSUME NumberAssumption ==
    /\ MaxEvents \in Nat
    /\ MaxFuture \in Nat
    /\ MaxClockSkew \in Nat
    /\ MaxTime \in Nat
    /\ MaxFaults \in Nat
    /\ PruneAges \subseteq Nat

RawRow == [observed : Nat, received : Nat]   \* telemetry_raw
LiveRow == [seen : Nat, event : Events]      \* vessel_current_state, lock_live_state

ASSUME NoRowAssumption == NoRow \notin RawRow /\ NoRow \notin LiveRow

VARIABLES
    now,        \* the server's and the database's clock
    spool,      \* batches the collector has not seen accepted
    sources,    \* sources table
    raw,        \* telemetry_raw, unique on (source_id, dedupe_key)
    copies,     \* rows of vessel_position / lock_status_observation an event has
    live,       \* vessel_current_state and lock_live_state, one row per subject
    forgotten,  \* history: events whose telemetry_raw row was pruned
    pc,         \* where the handler in a slot awaits
    batch,      \* the batch it handles
    idx,        \* index of the event it is writing
    stamp,      \* write_event's observed_at, clamped when the event was begun
    sentAt,     \* sent_at of the signed body
    began,      \* start of the transaction, the DEFAULT now() of its raw rows
    awaited,    \* TRUE while the collector still waits for this response
    txRaw,      \* raw rows inserted by the open transaction
    txCopies,   \* domain rows it appended
    txLive,     \* live rows it holds locked, as it last wrote or read them
    faults

dbVars  == <<sources, raw, copies, live, forgotten>>
reqVars == <<pc, batch, idx, stamp, sentAt, began, awaited>>
txVars  == <<txRaw, txCopies, txLive>>
vars == <<now, spool, dbVars, reqVars, txVars, faults>>

----------------------------------------------------------------------------
(* Reading a request                                                       *)

EventsOf(r) == BatchEvents[batch[r]]
Current(r)  == EventsOf(r)[idx[r]]

AppendsRow(e) == EventType[e] \in {"ais_position", "lock_status"}
UpsertsRow(e) == \/ EventType[e] = "ais_position" /\ Subject[e] # NoSubject
                 \/ EventType[e] = "lock_live_state"

\* The checks made before any statement: 413, 401 and 400.
Acceptable(b, sent) ==
    /\ Len(BatchEvents[b]) <= MaxEvents
    /\ b \in Signed
    /\ now - sent <= MaxClockSkew

\* Deviation: the collector's clock is trusted.
ClampNever(t) == t

\* A time claimed further ahead than MaxFuture becomes the server's own.
Clamp(t) == IF t - now > MaxFuture THEN now ELSE t

\* Deviation: the last writer wins, whatever its time.
NewerAlways(e, t, row) == TRUE

\* The WHERE of the upserts: > for a vessel, >= for a lock.
Newer(e, t, row) ==
    \/ row = NoRow
    \/ EventType[e] = "ais_position" /\ t > row.seen
    \/ EventType[e] = "lock_live_state" /\ t >= row.seen

\* Deviation: the row's absence is never noticed, as with the index that
\* contained received_at.
AlreadyStoredNever(r, e) == txRaw[r][e] # NoRow

\* Deviation: another transaction's uncommitted row counts as stored.
AlreadyStoredDirty(r, e) == raw[e] # NoRow \/ \E q \in Requests : txRaw[q][e] # NoRow

\* ON CONFLICT (source_id, dedupe_key) finds a row: the tag is INSERT 0 0.
AlreadyStored(r, e) == raw[e] # NoRow \/ txRaw[r][e] # NoRow

\* Deviation: a statement never waits for another transaction.
WaitsForNobody(r, q) == FALSE

\* The statement r is about to run must wait for q's transaction to end.
WaitsFor(r, q) ==
    /\ q # r
    /\ \/ /\ pc[r] = "raw"
          /\ ~AlreadyStored(r, Current(r))
          /\ txRaw[q][Current(r)] # NoRow
       \/ /\ pc[r] = "upsert"
          /\ txLive[q][Subject[Current(r)]] # NoRow

Blocked(r) == \E q \in Requests : WaitsFor(r, q)

\* Deviation: Postgres without its deadlock detector.
DeadlockedNever(r) == FALSE

\* r is on a cycle of waiting transactions.
Deadlocked(r) ==
    \E C \in SUBSET Requests :
        /\ r \in C
        /\ \A p \in C : \E q \in C : WaitsFor(p, q)
        /\ \A q \in C : \E p \in C : WaitsFor(p, q)

----------------------------------------------------------------------------
\* Deviation: the connection returns to the pool inside its transaction.
EmptyTxNot(r) == UNCHANGED txVars

EmptyTx(r) ==
    /\ txRaw' = [txRaw EXCEPT ![r] = [e \in Events |-> NoRow]]
    /\ txCopies' = [txCopies EXCEPT ![r] = [e \in Events |-> 0]]
    /\ txLive' = [txLive EXCEPT ![r] = [s \in Subjects |-> NoRow]]

\* Deviation: after a failure the collector waits for a response for ever.
LeaveAwaited(r) ==
    /\ pc' = [pc EXCEPT ![r] = "idle"]
    /\ idx' = [idx EXCEPT ![r] = 0]
    /\ stamp' = [stamp EXCEPT ![r] = 0]
    /\ sentAt' = [sentAt EXCEPT ![r] = 0]
    /\ began' = [began EXCEPT ![r] = 0]
    /\ UNCHANGED <<batch, awaited>>

\* The handler leaves the slot; its locals are gone.
Leave(r) ==
    /\ pc' = [pc EXCEPT ![r] = "idle"]
    /\ idx' = [idx EXCEPT ![r] = 0]
    /\ stamp' = [stamp EXCEPT ![r] = 0]
    /\ sentAt' = [sentAt EXCEPT ![r] = 0]
    /\ began' = [began EXCEPT ![r] = 0]
    /\ awaited' = [awaited EXCEPT ![r] = FALSE]
    /\ batch' = [batch EXCEPT ![r] = NoBatch]

\* COMMIT makes what the transaction wrote the database's.
Install(r) ==
    /\ raw' = [e \in Events |-> IF txRaw[r][e] # NoRow THEN txRaw[r][e] ELSE raw[e]]
    /\ copies' = [e \in Events |-> copies[e] + txCopies[r][e]]
    /\ live' = [s \in Subjects |-> IF txLive[r][s] # NoRow THEN txLive[r][s] ELSE live[s]]
    /\ EmptyTx(r)
    /\ UNCHANGED <<sources, forgotten>>

\* Deviation: no transaction, each statement committed when it ended.
RollbackKeeps(r) == Leave(r) /\ Install(r) /\ UNCHANGED spool

\* Deviation: the collector takes a failure for an answer.
RollbackAccepted(r) ==
    /\ Leave(r)
    /\ EmptyTx(r)
    /\ spool' = spool \ {batch[r]}
    /\ UNCHANGED dbVars

\* An exception in the handler: the transaction rolls back, 500 (or the
\* status of the check that refused it) is returned, the batch stays spooled.
Rollback(r) ==
    /\ Leave(r)
    /\ EmptyTx(r)
    /\ UNCHANGED <<spool, dbVars>>

\* The loop in ingest moves to event i: write_event begins and clamps, up to
\* its first await.
Advance(r, i) ==
    /\ idx' = [idx EXCEPT ![r] = i]
    /\ IF i \in DOMAIN EventsOf(r)
         THEN /\ pc' = [pc EXCEPT ![r] = "raw"]
              /\ stamp' = [stamp EXCEPT ![r] = Clamp(ObservedAt[EventsOf(r)[i]])]
         ELSE /\ pc' = [pc EXCEPT ![r] = "commit"]
              /\ stamp' = stamp
    /\ UNCHANGED <<batch, sentAt, awaited>>

\* The part of write_event after a statement, at the same event.
Goto(r, label) ==
    /\ pc' = [pc EXCEPT ![r] = label]
    /\ UNCHANGED <<batch, idx, stamp, sentAt, began, awaited>>

----------------------------------------------------------------------------
Init ==
    /\ now = 0
    /\ spool = Batches
    /\ sources = {}
    /\ raw = [e \in Events |-> NoRow]
    /\ copies = [e \in Events |-> 0]
    /\ live = [s \in Subjects |-> NoRow]
    /\ forgotten = {}
    /\ pc = [r \in Requests |-> "idle"]
    /\ batch = [r \in Requests |-> NoBatch]
    /\ idx = [r \in Requests |-> 0]
    /\ stamp = [r \in Requests |-> 0]
    /\ sentAt = [r \in Requests |-> 0]
    /\ began = [r \in Requests |-> 0]
    /\ awaited = [r \in Requests |-> FALSE]
    /\ txRaw = [r \in Requests |-> [e \in Events |-> NoRow]]
    /\ txCopies = [r \in Requests |-> [e \in Events |-> 0]]
    /\ txLive = [r \in Requests |-> [s \in Subjects |-> NoRow]]
    /\ faults = 0

\* The collector posts a spooled batch it is not already waiting for.
Send(r, b) ==
    /\ pc[r] = "idle"
    /\ b \in spool
    /\ \A q \in Requests : ~(awaited[q] /\ batch[q] = b)
    /\ pc' = [pc EXCEPT ![r] = "arrived"]
    /\ batch' = [batch EXCEPT ![r] = b]
    /\ sentAt' = [sentAt EXCEPT ![r] = now]
    /\ awaited' = [awaited EXCEPT ![r] = TRUE]
    /\ UNCHANGED <<idx, stamp, began>>
    /\ UNCHANGED <<now, spool, dbVars, txVars, faults>>

Reject(r) ==
    /\ pc[r] = "arrived"
    /\ ~Acceptable(batch[r], sentAt[r])
    /\ Rollback(r)
    /\ UNCHANGED <<now, faults>>

\* The checks pass and the source is registered, outside the transaction.
Admit(r) ==
    /\ pc[r] = "arrived"
    /\ Acceptable(batch[r], sentAt[r])
    /\ sources' = sources \cup {BatchSource[batch[r]]}
    /\ Goto(r, "begin")
    /\ UNCHANGED <<now, spool, raw, copies, live, forgotten, txVars, faults>>

Begin(r) ==
    /\ pc[r] = "begin"
    /\ began' = [began EXCEPT ![r] = now]
    /\ Advance(r, 1)
    /\ UNCHANGED <<now, spool, dbVars, txVars, faults>>

\* INSERT INTO telemetry_raw ... ON CONFLICT DO NOTHING, new to the table.
InsertRaw(r) ==
    LET e == Current(r) IN
    /\ pc[r] = "raw"
    /\ ~AlreadyStored(r, e)
    /\ ~Blocked(r)
    /\ txRaw' = [txRaw EXCEPT ![r][e] = [observed |-> stamp[r], received |-> began[r]]]
    /\ IF AppendsRow(e) THEN Goto(r, "append")
       ELSE IF UpsertsRow(e) THEN Goto(r, "upsert")
       ELSE Advance(r, idx[r] + 1) /\ UNCHANGED began
    /\ UNCHANGED <<now, spool, dbVars, txCopies, txLive, faults>>

\* The same statement, inserting nothing: write_event returns.
SkipStored(r) ==
    /\ pc[r] = "raw"
    /\ AlreadyStored(r, Current(r))
    /\ Advance(r, idx[r] + 1)
    /\ UNCHANGED <<began, now, spool, dbVars, txVars, faults>>

\* INSERT INTO vessel_position or lock_status_observation.
AppendRow(r) ==
    LET e == Current(r) IN
    /\ pc[r] = "append"
    /\ e \notin Malformed
    /\ txCopies' = [txCopies EXCEPT ![r][e] = @ + 1]
    /\ IF UpsertsRow(e) THEN Goto(r, "upsert")
       ELSE Advance(r, idx[r] + 1) /\ UNCHANGED began
    /\ UNCHANGED <<now, spool, dbVars, txRaw, txLive, faults>>

\* The row an upsert of r finds: its own version, else the committed one.
FoundRow(r, s) == IF txLive[r][s] # NoRow THEN txLive[r][s] ELSE live[s]

\* INSERT INTO vessel_current_state or lock_live_state ... ON CONFLICT DO
\* UPDATE ... WHERE newer.  The row is locked even when WHERE is false.
Upsert(r) ==
    LET e == Current(r)
        s == Subject[e]
        old == FoundRow(r, s) IN
    /\ pc[r] = "upsert"
    /\ e \notin Malformed
    /\ ~Blocked(r)
    /\ txLive' = [txLive EXCEPT ![r][s] =
                    IF Newer(e, stamp[r], old) THEN [seen |-> stamp[r], event |-> e] ELSE old]
    /\ Advance(r, idx[r] + 1)
    /\ UNCHANGED <<began, now, spool, dbVars, txRaw, txCopies, faults>>

\* A claimed time that does not parse (it raises before the first statement), a
\* payload without a field a statement needs, or a value Postgres refuses.
Raise(r) ==
    /\ pc[r] \in {"raw", "append", "upsert"}
    /\ Current(r) \in Malformed
    /\ Rollback(r)
    /\ UNCHANGED <<now, faults>>

Commit(r) ==
    /\ pc[r] = "commit"
    /\ Install(r)
    /\ Goto(r, "reply")
    /\ UNCHANGED <<now, spool, faults>>

\* 200 {"accepted": n}: the collector drops the batch if it still listens.
Reply(r) ==
    /\ pc[r] = "reply"
    /\ spool' = IF awaited[r] THEN spool \ {batch[r]} ELSE spool
    /\ Leave(r)
    /\ UNCHANGED <<now, dbVars, txVars, faults>>

BreakDeadlock(r) ==
    /\ Deadlocked(r)
    /\ Rollback(r)
    /\ UNCHANGED <<now, faults>>

----------------------------------------------------------------------------
(* Faults, the clock and maintenance                                       *)

Fault == faults < MaxFaults /\ faults' = faults + 1

\* A statement fails or exceeds command_timeout.
Fail(r) ==
    /\ pc[r] \in {"arrived", "begin", "raw", "append", "upsert", "commit"}
    /\ Fault
    /\ Rollback(r)
    /\ UNCHANGED now

\* COMMIT takes effect and its acknowledgement is lost: the handler answers 500.
CommitUnseen(r) ==
    /\ pc[r] = "commit"
    /\ Fault
    /\ Install(r)
    /\ Leave(r)
    /\ UNCHANGED <<now, spool>>

\* The collector stops waiting, or the response is lost on its way.
GiveUp(r) ==
    /\ awaited[r]
    /\ Fault
    /\ awaited' = [awaited EXCEPT ![r] = FALSE]
    /\ UNCHANGED <<now, spool, dbVars, txVars, pc, batch, idx, stamp, sentAt, began>>

\* os._exit or a container replaced: every open transaction is rolled back.
Restart ==
    /\ \E r \in Requests : pc[r] # "idle"
    /\ Fault
    /\ pc' = [r \in Requests |-> "idle"]
    /\ idx' = [r \in Requests |-> 0]
    /\ stamp' = [r \in Requests |-> 0]
    /\ sentAt' = [r \in Requests |-> 0]
    /\ began' = [r \in Requests |-> 0]
    /\ awaited' = [r \in Requests |-> FALSE]
    /\ txRaw' = [r \in Requests |-> [e \in Events |-> NoRow]]
    /\ txCopies' = [r \in Requests |-> [e \in Events |-> 0]]
    /\ txLive' = [r \in Requests |-> [s \in Subjects |-> NoRow]]
    /\ batch' = [r \in Requests |-> NoBatch]
    /\ UNCHANGED <<now, spool, dbVars>>

Tick ==
    /\ now < MaxTime
    /\ now' = now + 1
    /\ UNCHANGED <<spool, dbVars, reqVars, txVars, faults>>

\* DELETE FROM telemetry_raw WHERE received_at < now() - age.
Prune(age) ==
    LET old == {e \in Events : raw[e] # NoRow /\ raw[e].received < now - age} IN
    /\ old # {}
    /\ raw' = [e \in Events |-> IF e \in old THEN NoRow ELSE raw[e]]
    /\ forgotten' = forgotten \cup old
    /\ UNCHANGED <<now, spool, sources, copies, live, reqVars, txVars, faults>>

\* Everything is delivered: the system may rest.
Rest ==
    /\ spool = {}
    /\ \A r \in Requests : pc[r] = "idle"
    /\ UNCHANGED vars

Handler(r) ==
    \/ Reject(r)
    \/ Admit(r)
    \/ Begin(r)
    \/ InsertRaw(r)
    \/ SkipStored(r)
    \/ AppendRow(r)
    \/ Upsert(r)
    \/ Raise(r)
    \/ Commit(r)
    \/ Reply(r)

Next ==
    \/ \E r \in Requests, b \in Batches : Send(r, b)
    \/ \E r \in Requests : Handler(r)
    \/ \E r \in Requests : BreakDeadlock(r)
    \/ \E r \in Requests : Fail(r)
    \/ \E r \in Requests : CommitUnseen(r)
    \/ \E r \in Requests : GiveUp(r)
    \/ Restart
    \/ Tick
    \/ \E age \in PruneAges : Prune(age)
    \/ Rest

Spec == Init /\ [][Next]_vars

\* The event loop keeps running every coroutine, and Postgres breaks deadlocks.
\* A statement that waits for a lock is woken as soon as the lock is released,
\* long before the aborted transaction's batch is sent again: hence SF for the
\* two statements that take locks, at every position of a batch.  The
\* collector's retry loop comes back to every batch it still holds.
Fairness ==
    /\ \A r \in Requests : WF_vars(Handler(r))
    /\ \A r \in Requests, i \in 1..MaxEvents :
          SF_vars(InsertRaw(r) /\ idx[r] = i) /\ SF_vars(Upsert(r) /\ idx[r] = i)
    /\ WF_vars(\E r \in Requests : BreakDeadlock(r))
    /\ \A b \in Batches : WF_vars(\E r \in Requests : Send(r, b))

FairSpec == Spec /\ Fairness

----------------------------------------------------------------------------
(* Properties                                                              *)

PCs == {"idle", "arrived", "begin", "raw", "append", "upsert", "commit", "reply"}
Writing == {"raw", "append", "upsert"}   \* inside write_event

StoreTypeOK ==
    /\ now \in Nat
    /\ spool \subseteq Batches
    /\ sources \subseteq Sources
    /\ raw \in [Events -> RawRow \cup {NoRow}]
    /\ copies \in [Events -> Nat]
    /\ live \in [Subjects -> LiveRow \cup {NoRow}]
    /\ forgotten \subseteq Events
    /\ faults \in Nat

RequestTypeOK ==
    /\ pc \in [Requests -> PCs]
    /\ batch \in [Requests -> Batches \cup {NoBatch}]
    /\ idx \in [Requests -> Nat]
    /\ stamp \in [Requests -> Nat]
    /\ sentAt \in [Requests -> Nat]
    /\ began \in [Requests -> Nat]
    /\ awaited \in [Requests -> BOOLEAN]
    /\ \A r \in Requests :
          /\ pc[r] # "idle" => batch[r] \in Batches
          /\ pc[r] \in Writing => idx[r] \in DOMAIN EventsOf(r)

TxTypeOK ==
    /\ txRaw \in [Requests -> [Events -> RawRow \cup {NoRow}]]
    /\ txCopies \in [Requests -> [Events -> Nat]]
    /\ txLive \in [Requests -> [Subjects -> LiveRow \cup {NoRow}]]
    /\ \A r \in Requests : pc[r] \notin Writing \cup {"commit"} =>
          /\ txRaw[r] = [e \in Events |-> NoRow]
          /\ txCopies[r] = [e \in Events |-> 0]
          /\ txLive[r] = [s \in Subjects |-> NoRow]

\* Every variable has its type, the event being written exists, and a
\* connection goes back to the pool with no transaction open on it.
TypeOK == StoreTypeOK /\ RequestTypeOK /\ TxTypeOK

\* The raw row of e was committed, whether or not it was pruned since.
Stored(e) == raw[e] # NoRow \/ e \in forgotten

\* However often a batch is sent, and whatever fails, an event's rows in
\* vessel_position / lock_status_observation are exactly one when its raw row
\* exists and none otherwise (the P0 fix above write_event's raw insert).  Only
\* an event whose raw row was pruned escapes.
WrittenOnce ==
    \A e \in Events \ forgotten :
        copies[e] = IF raw[e] # NoRow /\ AppendsRow(e) THEN 1 ELSE 0

\* The same without the exception for pruned events: what the comment on the
\* prune endpoint takes for granted when it calls pruning safe.
NeverDuplicated == \A e \in Events : copies[e] <= 1

\* A response of 200 is a promise: a batch the collector dropped has every one
\* of its events stored, although its slot may have skipped some of them
\* because another, still uncommitted, request was writing them.
AckedIsStored ==
    \A b \in Batches \ spool : \A i \in DOMAIN BatchEvents[b] : Stored(BatchEvents[b][i])

OnlyIn(b, e) ==
    \A c \in Batches : (\E i \in DOMAIN BatchEvents[c] : BatchEvents[c][i] = e) => c = b

\* A crash, a failed statement or a deadlock never leaves half of a batch: if
\* an event that only b carries is stored, the rest of b is.
BatchAtomic ==
    \A b \in Batches :
        (\E i \in DOMAIN BatchEvents[b] :
            OnlyIn(b, BatchEvents[b][i]) /\ Stored(BatchEvents[b][i]))
        => \A i \in DOMAIN BatchEvents[b] : Stored(BatchEvents[b][i])

\* The live row of a vessel or lock is the newest of its archived events, and
\* is one of them, in whatever order the batches were written.
LiveIsNewest ==
    /\ \A e \in Events :
          raw[e] # NoRow /\ UpsertsRow(e) =>
              /\ live[Subject[e]] # NoRow
              /\ raw[e].observed <= live[Subject[e]].seen
    /\ \A s \in Subjects :
          live[s] # NoRow =>
              /\ UpsertsRow(live[s].event)
              /\ Subject[live[s].event] = s
              /\ Stored(live[s].event)
              /\ live[s].event \notin forgotten => raw[live[s].event].observed = live[s].seen

\* No claimed time blocks a live row for longer than MaxFuture: the hazard the
\* clamp in write_event is for.
FutureBounded ==
    \A s \in Subjects : live[s] # NoRow => live[s].seen <= now + MaxFuture

\* No step moves a live row back in time or deletes it.
SeenNeverGoesBack ==
    [][\A s \in Subjects :
        live[s] # NoRow => live'[s] # NoRow /\ live'[s].seen >= live[s].seen]_vars

Deliverable(b) ==
    /\ b \in Signed
    /\ Len(BatchEvents[b]) <= MaxEvents
    /\ \A i \in DOMAIN BatchEvents[b] : BatchEvents[b][i] \notin Malformed

\* Every batch the server can accept is accepted in the end, through lost
\* responses, failed statements, deadlocks and restarts.
Delivered == \A b \in Batches : Deliverable(b) => <>(b \notin spool)

\* Every request ends: no statement waits for ever for another transaction.
RequestsEnd == \A r \in Requests : pc[r] # "idle" ~> pc[r] = "idle"

----------------------------------------------------------------------------
(* Why the safety properties hold: what is true between two statements of  *)
(* any handler.  IngestStoreProofs shows that IInv is inductive.           *)

\* The handler has inserted the raw row of e and still owes its domain rows.
Owes(r, e) == pc[r] \in {"append", "upsert"} /\ Current(r) = e

\* The unique index is a lock: while a transaction has the raw row of an event,
\* no other has it and none is committed.
KeyExclusive ==
    \A r \in Requests, e \in Events : txRaw[r][e] # NoRow =>
        /\ raw[e] = NoRow
        /\ \A q \in Requests \ {r} : txRaw[q][e] = NoRow

\* Between the statements of one write_event.
CurrentInTx ==
    \A r \in Requests :
        /\ pc[r] \in {"append", "upsert"} =>
              txRaw[r][Current(r)] = [observed |-> stamp[r], received |-> began[r]]
        /\ pc[r] = "append" => AppendsRow(Current(r))
        /\ pc[r] = "upsert" => UpsertsRow(Current(r))

\* A transaction appends one domain row for each raw row it inserted.
CopiesFollowRaw ==
    \A r \in Requests, e \in Events :
        txCopies[r][e] = IF /\ txRaw[r][e] # NoRow
                            /\ AppendsRow(e)
                            /\ ~(pc[r] = "append" /\ Current(r) = e)
                           THEN 1 ELSE 0

\* A transaction holds only events of its batch, and has dealt with each event
\* before the current one.
ProgressOf(r) ==
    /\ \A e \in Events : txRaw[r][e] # NoRow =>
          \E i \in DOMAIN EventsOf(r) : EventsOf(r)[i] = e
    /\ pc[r] \in Writing \cup {"commit"} =>
          \A i \in DOMAIN EventsOf(r) : i < idx[r] =>
              Stored(EventsOf(r)[i]) \/ txRaw[r][EventsOf(r)[i]] # NoRow
    /\ pc[r] = "commit" => \A i \in DOMAIN EventsOf(r) : i < idx[r]
    /\ pc[r] = "reply" => \A i \in DOMAIN EventsOf(r) : Stored(EventsOf(r)[i])

Progress == \A r \in Requests : ProgressOf(r)

\* A live row held by a transaction is held by it alone, is no older than the
\* committed one, and is either the committed one or one of its own events.
HeldOK(r, s) ==
    /\ \A q \in Requests \ {r} : txLive[q][s] = NoRow
    /\ live[s] # NoRow => live[s].seen <= txLive[r][s].seen
    /\ txLive[r][s].seen <= now + MaxFuture
    /\ \/ txLive[r][s] = live[s]
       \/ LET e == txLive[r][s].event IN
            /\ UpsertsRow(e) /\ Subject[e] = s
            /\ txRaw[r][e] # NoRow
            /\ txRaw[r][e].observed = txLive[r][s].seen

LiveLocked ==
    \A r \in Requests, s \in Subjects : txLive[r][s] # NoRow => HeldOK(r, s)

\* An event a transaction has finished with is covered by the live row it holds.
CoveredOK(r, e) ==
    txRaw[r][e] # NoRow /\ UpsertsRow(e) /\ ~Owes(r, e) =>
        /\ txLive[r][Subject[e]] # NoRow
        /\ txRaw[r][e].observed <= txLive[r][Subject[e]].seen

LiveCovers == \A r \in Requests, e \in Events : CoveredOK(r, e)

StampBounded == \A r \in Requests : pc[r] \in Writing => stamp[r] <= now + MaxFuture

KeyInv == KeyExclusive /\ CurrentInTx /\ CopiesFollowRaw /\ WrittenOnce
BatchInv == Progress /\ AckedIsStored /\ BatchAtomic
LiveInv == LiveLocked /\ LiveCovers /\ StampBounded /\ LiveIsNewest /\ FutureBounded

IInv == TypeOK /\ KeyInv /\ BatchInv /\ LiveInv

----------------------------------------------------------------------------
(* The promise to the collector, and how this module's state keeps it, as  *)
(* long as nothing is pruned.                                              *)

NoTime == -1

Ledger == INSTANCE TelemetryLedger WITH
    Content  <- [b \in Batches |-> {BatchEvents[b][i] : i \in DOMAIN BatchEvents[b]}],
    Updates  <- [e \in Events |-> IF UpsertsRow(e) THEN {Subject[e]} ELSE {}],
    pending  <- spool,
    recorded <- [e \in Events |-> IF raw[e] = NoRow THEN NoTime ELSE raw[e].observed],
    view     <- [s \in Subjects |-> IF live[s] = NoRow THEN NoTime ELSE live[s].seen]

\* With the prune endpoint never called, every behaviour of the handler, its
\* faults included, is one of the ledger's: each commit records a whole batch.
KeepsLedger == Ledger!Spec
=============================================================================
