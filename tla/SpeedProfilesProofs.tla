------------------------ MODULE SpeedProfilesProofs ------------------------
(***************************************************************************)
(* Theorems about SpeedProfiles: its types, and how old the profile is     *)
(* that a request reads behind ensure_fresh of a key that stayed in the    *)
(* sample, for any number of overlapping requests, keys, failures and      *)
(* restarts.                                                               *)
(***************************************************************************)
EXTENDS SpeedProfiles, TLAPS

\* Types of the locals that TypeOK speaks of only by request.
Locals ==
    /\ todo \in [Requests -> SUBSET Keys] /\ wrote \in [Requests -> SUBSET Keys]
    /\ \A r \in Requests : pc[r] \in {"scan", "scanned"} => wrote[r] = {}

\* The key has been in the sample all the time since before t.
Steady(k, t) == since[k] # Never /\ since[k] < t

\* The profile of the key is no more than Patience older than t.
Fresh(k, t) == table[k] # Never /\ table[k] + Patience >= t

\* What a refresh writes is dated after its request came.
StampInv == \A r \in Requests : pc[r] \in {"mark"} \cup InTransaction => checked[r] <= stamp[r]

\* A scan finds every key that was in the sample when its request came and is so still.
ScanInv ==
    \A r \in Requests : pc[r] \in {"scanned"} \cup InTransaction =>
        \A k \in Keys : Steady(k, checked[r]) => k \in todo[r] \cup wrote[r]

\* The rows of a refresh that has committed are there, with its date or that of another refresh
\* that was under way at the same time.
MarkInv ==
    \A r \in Requests : pc[r] = "mark" =>
        \A k \in Keys : Steady(k, checked[r]) => Fresh(k, checked[r])

\* The same of the refresh behind the cache entry.
EntryInv == cacheAt # Never => \A k \in Keys : Steady(k, cacheAt) => Fresh(k, cacheAt)

FreshInv == StampInv /\ ScanInv /\ MarkInv /\ EntryInv /\ ServedIsFresh

TypeInv == TypeOK /\ Locals

----------------------------------------------------------------------------
LEMMA Numbers ==
  /\ TTL \in Nat /\ TTL >= 1 /\ Patience \in Nat /\ 2 * Patience <= TTL
  /\ MaxTime \in Nat /\ MaxChanges \in Nat /\ MaxFaults \in Nat
  BY TimesAssumption

\* The states of a request.
PCs == {"idle", "scan", "scanned", "mark", "lookup", "loop", "write"}

LEMMA Types ==
  ASSUME TypeInv
  PROVE  /\ now \in Nat /\ since \in [Keys -> Int \cup {Never}] /\ \A k \in Keys : since[k] # Never => since[k] <= now
         /\ table \in [Keys -> Nat \cup {Never}] /\ \A k \in Keys : table[k] # Never => table[k] <= now
         /\ cacheAt # Never => cacheAt \in Nat /\ cacheAt <= now
         /\ pc \in [Requests -> PCs]
         /\ checked \in [Requests -> Nat] /\ stamp \in [Requests -> Nat]
         /\ \A r \in Requests : checked[r] <= now /\ stamp[r] <= now
         /\ \A r \in Requests : pc[r] # "idle" => now <= checked[r] + Patience
         /\ todo \in [Requests -> SUBSET Keys] /\ wrote \in [Requests -> SUBSET Keys]
  BY Numbers DEF TypeInv, TypeOK, Locals, InTransaction, PCs

LEMMA InitTypes == Init => TypeInv
  BY Numbers, NamesAssumption DEF Init, TypeInv, TypeOK, Locals, InTransaction

LEMMA TypeStep ==
  ASSUME TypeInv, [Next]_vars
  PROVE  TypeInv'
  <1> USE Numbers, NamesAssumption DEF TypeInv, TypeOK, Locals, InTransaction, task
  <1>1. ASSUME NEW r \in Requests, EnsureFresh(r) PROVE TypeInv'
    BY <1>1 DEF EnsureFresh
  <1>2. ASSUME NEW r \in Requests, Scan(r) PROVE TypeInv'
    BY <1>2 DEF Scan, Sampled
  <1>2a. ASSUME NEW r \in Requests, Begin(r) PROVE TypeInv'
    BY <1>2a DEF Begin
  <1>3. ASSUME NEW r \in Requests, NextRow(r) PROVE TypeInv'
    BY <1>3 DEF NextRow
  <1>4. ASSUME NEW r \in Requests, Upsert(r) PROVE TypeInv'
    BY <1>4 DEF Upsert
  <1>5. ASSUME NEW r \in Requests, Commit(r) PROVE TypeInv'
    BY <1>5 DEF Commit
  <1>6. ASSUME NEW r \in Requests, Mark(r) PROVE TypeInv'
    BY <1>6 DEF Mark, EndRefresh
  <1>7. ASSUME NEW r \in Requests, Lookup(r) PROVE TypeInv'
    BY <1>7 DEF Lookup, Forget
  <1>8. ASSUME NEW r \in Requests, Abort(r), faults' \in 0 .. MaxFaults PROVE TypeInv'
    BY <1>8 DEF Abort, EndRefresh, Forget
  <1>9. CASE Restart
    BY <1>9 DEF Restart
  <1>10. CASE Resample
    BY <1>10 DEF Resample
  <1>11. CASE Tick
    BY <1>11 DEF Tick
  <1>12. CASE UNCHANGED vars
    BY <1>12 DEF vars
  <1>13. \A r \in Requests : Fail(r) \/ BreakDeadlock(r) => Abort(r) /\ faults' \in 0 .. MaxFaults
    BY DEF Fail, BreakDeadlock
  <1> QED
    BY <1>1, <1>2, <1>3, <1>4, <1>5, <1>6, <1>7, <1>8, <1>9, <1>10, <1>11, <1>12, <1>13, <1>2a DEF Next, Work

\* In every reachable state no row of a refresh is written twice and nothing of a refresh
\* outlives it (refresh, ensure_fresh).
THEOREM TypeCorrect == Spec => []TypeOK
  <1>1. TypeInv /\ [Next]_vars => TypeInv'
    BY TypeStep
  <1>2. TypeInv => TypeOK
    BY DEF TypeInv
  <1> QED
    BY InitTypes, <1>1, <1>2, PTL DEF Spec

----------------------------------------------------------------------------
LEMMA InitFresh == Init => FreshInv
  BY DEF Init, FreshInv, StampInv, ScanInv, MarkInv, EntryInv, ServedIsFresh, InTransaction

\* A commit installs rows that are at most Patience old, those of all keys that stayed in the sample.
LEMMA CommitStep ==
  ASSUME TypeInv, FreshInv, NEW r \in Requests, Commit(r)
  PROVE  FreshInv'
  <1> USE Types, Numbers, NamesAssumption
  <1>1. /\ pc[r] = "loop" /\ todo[r] = {} /\ pc' = [pc EXCEPT ![r] = "mark"]
        /\ table' = [k \in Keys |-> IF k \in wrote[r] THEN stamp[r] ELSE table[k]]
        /\ UNCHANGED <<now, since, cacheAt, checked, stamp, todo, wrote>>
    BY DEF Commit, task
  <1>2. stamp[r] \in Nat /\ stamp[r] # Never /\ stamp[r] >= checked[r] /\ stamp[r] + Patience >= now
    BY <1>1 DEF FreshInv, StampInv, InTransaction
  <1>3. \A k \in Keys, t \in Nat : t <= now /\ Fresh(k, t) => Fresh(k, t)'
    BY <1>1, <1>2 DEF Fresh
  <1>4. StampInv'
    BY <1>1, <1>2 DEF FreshInv, StampInv, InTransaction
  <1>5. ScanInv'
    BY <1>1 DEF FreshInv, ScanInv, Steady, InTransaction
  <1>6. MarkInv'
    <2>1. ASSUME NEW k \in Keys, Steady(k, checked[r]) PROVE Fresh(k, checked[r])'
      <3>1. k \in wrote[r]
        BY <1>1, <2>1 DEF FreshInv, ScanInv, InTransaction
      <3> QED
        BY <1>1, <1>2, <3>1 DEF Fresh
    <2>2. ASSUME NEW q \in Requests, q # r, pc[q] = "mark", NEW k \in Keys, Steady(k, checked[q])
          PROVE  Fresh(k, checked[q])'
      <3>1. Fresh(k, checked[q])
        BY <2>2 DEF FreshInv, MarkInv
      <3>2. checked[q] \in Nat /\ checked[q] <= now /\ checked'[q] = checked[q]
        BY <1>1
      <3> QED
        BY <1>3, <3>1, <3>2 DEF Fresh
    <2> QED
      BY <1>1, <2>1, <2>2 DEF MarkInv, Steady
  <1>7. EntryInv'
    <2> SUFFICES ASSUME cacheAt # Never, NEW k \in Keys, Steady(k, cacheAt) PROVE Fresh(k, cacheAt)'
      BY <1>1 DEF EntryInv, Steady, Fresh
    <2>1. Fresh(k, cacheAt) /\ cacheAt \in Nat /\ cacheAt <= now
      BY DEF FreshInv, EntryInv
    <2> QED
      BY <1>1, <1>3, <2>1 DEF Fresh
  <1>8. ServedIsFresh'
    <2> SUFFICES ASSUME NEW q \in Requests, pc[q] = "lookup", NEW k \in Keys, since[k] # Never, since[k] + TTL < checked[q]
                 PROVE  table'[k] # Never /\ table'[k] + TTL + Patience > checked[q]
      BY <1>1 DEF ServedIsFresh
    <2>1. table[k] # Never /\ table[k] + TTL + Patience > checked[q]
      BY DEF FreshInv, ServedIsFresh
    <2> QED
      BY <1>1, <1>2, <2>1
  <1> QED
    BY <1>4, <1>5, <1>6, <1>7, <1>8 DEF FreshInv

\* The entry gets an older time; who is behind it already came at most Patience later.
LEMMA MarkStep ==
  ASSUME TypeInv, FreshInv, NEW r \in Requests, Mark(r)
  PROVE  FreshInv'
  <1> USE Types, Numbers, NamesAssumption
  <1>1. /\ pc[r] = "mark" /\ pc' = [pc EXCEPT ![r] = "lookup"]
        /\ cacheAt' = checked[r]
        /\ todo' = [todo EXCEPT ![r] = {}] /\ wrote' = [wrote EXCEPT ![r] = {}]
        /\ UNCHANGED <<now, since, table, checked, stamp>>
    BY DEF Mark, EndRefresh
  <1>2. \A k \in Keys : Steady(k, checked[r]) => Fresh(k, checked[r])
    BY <1>1 DEF FreshInv, MarkInv
  <1>3. StampInv' /\ ScanInv'
    BY <1>1 DEF FreshInv, StampInv, ScanInv, Steady, InTransaction
  <1>4. MarkInv' /\ EntryInv'
    BY <1>1, <1>2 DEF FreshInv, MarkInv, EntryInv, Steady, Fresh
  <1>5. ServedIsFresh'
    <2>1. ASSUME NEW k \in Keys, since[k] # Never, since[k] + TTL < checked[r]
          PROVE  table[k] # Never /\ table[k] + TTL + Patience > checked[r]
      <3>1. Steady(k, checked[r])
        BY <2>1 DEF Steady
      <3>2. Fresh(k, checked[r])
        BY <1>2, <3>1
      <3> QED
        BY <3>2 DEF Fresh
    <2> QED
      BY <1>1, <2>1 DEF FreshInv, ServedIsFresh
  <1> QED
    BY <1>3, <1>4, <1>5 DEF FreshInv

LEMMA FreshStep ==
  ASSUME TypeInv, FreshInv, [Next]_vars
  PROVE  FreshInv'
  <1> USE Types, Numbers, NamesAssumption DEF FreshInv
  <1>1. ASSUME NEW r \in Requests, EnsureFresh(r) PROVE FreshInv'
    <2>1. /\ pc[r] = "idle" /\ pc' = [pc EXCEPT ![r] = IF Usable THEN "lookup" ELSE "scan"]
          /\ checked' = [checked EXCEPT ![r] = now]
          /\ UNCHANGED <<now, since, table, cacheAt, stamp, todo, wrote>>
      BY <1>1 DEF EnsureFresh
    <2>2. StampInv' /\ ScanInv'
      BY <2>1 DEF StampInv, ScanInv, Steady, InTransaction
    <2>3. MarkInv' /\ EntryInv'
      BY <2>1 DEF MarkInv, EntryInv, Steady, Fresh
    <2>4. ASSUME Usable, NEW k \in Keys, since[k] # Never, since[k] + TTL < now
          PROVE  table[k] # Never /\ table[k] + TTL + Patience > now
      <3>1. cacheAt \in Nat /\ cacheAt # Never /\ now < cacheAt + TTL
        BY <2>4 DEF Usable
      <3>2. Steady(k, cacheAt)
        BY <2>4, <3>1 DEF Steady
      <3>3. Fresh(k, cacheAt)
        BY <3>1, <3>2 DEF EntryInv
      <3> QED
        BY <3>1, <3>3 DEF Fresh
    <2>5. ServedIsFresh'
      BY <2>1, <2>4 DEF ServedIsFresh
    <2> QED
      BY <2>2, <2>3, <2>5
  <1>2. ASSUME NEW r \in Requests, Scan(r) PROVE FreshInv'
    <2>1. /\ pc[r] = "scan" /\ pc' = [pc EXCEPT ![r] = "scanned"]
          /\ todo' = [todo EXCEPT ![r] = {k \in Keys : since[k] # Never}]
          /\ UNCHANGED <<now, since, table, cacheAt, checked, stamp, wrote>>
      BY <1>2 DEF Scan, Sampled
    <2>2. ScanInv'
      BY <2>1 DEF ScanInv, Steady, InTransaction
    <2> QED
      BY <2>1, <2>2 DEF StampInv, MarkInv, EntryInv, ServedIsFresh, Steady, Fresh, InTransaction
  <1>3. ASSUME NEW r \in Requests, Begin(r) PROVE FreshInv'
    BY <1>3 DEF Begin, StampInv, ScanInv, MarkInv, EntryInv, ServedIsFresh, Steady, Fresh, InTransaction
  <1>4. ASSUME NEW r \in Requests, NextRow(r) \/ Upsert(r) PROVE FreshInv'
    <2>1. /\ pc[r] \in InTransaction /\ \A q \in Requests : q # r => pc'[q] = pc[q]
          /\ pc' \in [Requests -> PCs] /\ pc'[r] \in InTransaction
          /\ UNCHANGED <<now, since, table, cacheAt, checked, stamp>>
          /\ \A q \in Requests : todo[q] \cup wrote[q] \subseteq todo'[q] \cup wrote'[q]
      BY <1>4 DEF NextRow, Upsert, InTransaction, PCs
    <2>2. ScanInv'
      BY <2>1 DEF ScanInv, Steady, InTransaction
    <2> QED
      BY <2>1, <2>2 DEF StampInv, MarkInv, EntryInv, ServedIsFresh, Steady, Fresh, InTransaction
  <1>5. ASSUME NEW r \in Requests, Lookup(r) PROVE FreshInv'
    BY <1>5 DEF Lookup, Forget, StampInv, ScanInv, MarkInv, EntryInv, ServedIsFresh, Steady, Fresh, InTransaction
  <1>6. ASSUME NEW r \in Requests, Abort(r) PROVE FreshInv'
    BY <1>6 DEF Abort, EndRefresh, Forget, StampInv, ScanInv, MarkInv, EntryInv, ServedIsFresh, Steady, Fresh, InTransaction
  <1>7. CASE Restart
    BY <1>7 DEF Restart, StampInv, ScanInv, MarkInv, EntryInv, ServedIsFresh, InTransaction
  <1>8. CASE Resample
    <2>1. UNCHANGED <<now, table, cacheAt, pc, checked, stamp, todo, wrote>>
      BY <1>8 DEF Resample, task
    <2>2. \A k \in Keys : since'[k] # Never => since'[k] = since[k] \/ since'[k] = now
      BY <1>8 DEF Resample
    <2>3. ASSUME NEW k \in Keys, NEW t \in Nat, t <= now, since'[k] # Never, since'[k] < t
          PROVE  since[k] # Never /\ since'[k] = since[k]
      BY <2>2, <2>3
    <2>4. StampInv' /\ ScanInv'
      BY <2>1, <2>3 DEF StampInv, ScanInv, Steady, InTransaction
    <2>5. MarkInv' /\ EntryInv'
      BY <2>1, <2>3 DEF MarkInv, EntryInv, Steady, Fresh
    <2>6. ServedIsFresh'
      <3> SUFFICES ASSUME NEW r \in Requests, pc[r] = "lookup", NEW k \in Keys, since'[k] # Never, since'[k] + TTL < checked[r]
                   PROVE  table[k] # Never /\ table[k] + TTL + Patience > checked[r]
        BY <2>1 DEF ServedIsFresh
      <3>1. since'[k] = now \/ since'[k] = since[k]
        BY <2>2
      <3>2. since[k] # Never /\ since[k] + TTL < checked[r]
        BY <3>1
      <3> QED
        BY <3>2 DEF ServedIsFresh
    <2> QED
      BY <2>4, <2>5, <2>6
  <1>9. CASE Tick \/ UNCHANGED vars
    <2>1. UNCHANGED <<since, table, cacheAt, pc, checked, stamp, todo, wrote>>
      BY <1>9 DEF Tick, vars, task
    <2> QED
      BY <2>1 DEF StampInv, ScanInv, MarkInv, EntryInv, ServedIsFresh, Steady, Fresh, InTransaction
  <1>10. \A r \in Requests : Fail(r) \/ BreakDeadlock(r) => Abort(r)
    BY DEF Fail, BreakDeadlock
  <1> QED
    BY <1>1, <1>2, <1>3, <1>4, <1>5, <1>6, <1>7, <1>8, <1>9, <1>10, CommitStep, MarkStep DEF Next, Work

\* Whoever got past ensure_fresh reads, of a key that has had enough readings for more than a TTL,
\* a profile at most TTL and the time of one request older than his look at the clock, whichever
\* refresh ended last or failed.  What refresh leaves in the table of a key it does not find any
\* more has no such bound.
THEOREM ServedFresh == Spec => []ServedIsFresh
  <1>1. TypeInv /\ FreshInv /\ [Next]_vars => TypeInv' /\ FreshInv'
    BY TypeStep, FreshStep
  <1>2. FreshInv => ServedIsFresh
    BY DEF FreshInv
  <1> QED
    BY InitTypes, InitFresh, <1>1, <1>2, PTL DEF Spec

=============================================================================
