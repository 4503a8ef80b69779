------------------------- MODULE IngestStoreProofs -------------------------
(***************************************************************************)
(* Theorems about IngestStore, for any number of events, batches, request  *)
(* slots and faults.                                                       *)
(***************************************************************************)
EXTENDS IngestStore, TLAPS

USE DEF EventTypes

LEMMA InitType == Init => TypeOK
  BY NumberAssumption DEF Init, TypeOK, StoreTypeOK, RequestTypeOK, TxTypeOK, PCs, Writing

\* What the type invariant says of the event a handler is writing.
LEMMA CurrentType ==
  ASSUME TypeOK, NEW r \in Requests, pc[r] \in Writing
  PROVE  /\ batch[r] \in Batches
         /\ EventsOf(r) \in Seq(Events)
         /\ idx[r] \in DOMAIN EventsOf(r)
         /\ Current(r) \in Events
         /\ UpsertsRow(Current(r)) => Subject[Current(r)] \in Subjects
  <1>1. batch[r] \in Batches /\ idx[r] \in DOMAIN EventsOf(r)
    BY DEF TypeOK, RequestTypeOK, Writing
  <1>2. EventsOf(r) \in Seq(Events)
    BY <1>1, BatchAssumption DEF EventsOf
  <1>3. Current(r) \in Events
    BY <1>1, <1>2 DEF Current
  <1> QED
    BY <1>1, <1>2, <1>3, EventAssumption DEF UpsertsRow

\* The clamp yields a time, not further ahead than MaxFuture.
LEMMA ClampBound ==
  ASSUME NEW t \in Nat, now \in Nat
  PROVE  Clamp(t) \in Nat /\ Clamp(t) <= now + MaxFuture
  BY NumberAssumption DEF Clamp

----------------------------------------------------------------------------
(* The helpers the actions share keep the types of what they change.       *)

LEMMA LeaveType ==
  ASSUME RequestTypeOK, NEW r \in Requests, Leave(r)
  PROVE  RequestTypeOK'
  BY DEF RequestTypeOK, Leave, PCs, Writing, EventsOf

LEMMA GotoType ==
  ASSUME RequestTypeOK, NEW r \in Requests, NEW label \in PCs, Goto(r, label),
         pc[r] # "idle",
         label \in Writing => pc[r] \in Writing
  PROVE  RequestTypeOK'
  BY DEF RequestTypeOK, Goto, PCs, Writing, EventsOf

LEMMA AdvanceType ==
  ASSUME RequestTypeOK, now \in Nat, NEW r \in Requests, NEW i \in Nat, Advance(r, i),
         pc[r] # "idle",
         began' \in [Requests -> Nat]
  PROVE  RequestTypeOK'
  <1>1. batch[r] \in Batches
    BY DEF RequestTypeOK
  <1>2. EventsOf(r) \in Seq(Events)
    BY <1>1, BatchAssumption DEF EventsOf
  <1>3. i \in DOMAIN EventsOf(r) => Clamp(ObservedAt[EventsOf(r)[i]]) \in Nat
    <2> SUFFICES ASSUME i \in DOMAIN EventsOf(r)
                 PROVE  Clamp(ObservedAt[EventsOf(r)[i]]) \in Nat
      OBVIOUS
    <2>1. EventsOf(r)[i] \in Events
      BY <1>2
    <2>2. ObservedAt[EventsOf(r)[i]] \in Nat
      BY <2>1, EventAssumption
    <2> QED
      BY <2>2, ClampBound
  <1>4. CASE i \in DOMAIN EventsOf(r)
    BY <1>1, <1>3, <1>4 DEF RequestTypeOK, Advance, PCs, Writing, EventsOf
  <1>5. CASE i \notin DOMAIN EventsOf(r)
    BY <1>1, <1>5 DEF RequestTypeOK, Advance, PCs, Writing, EventsOf
  <1> QED
    BY <1>4, <1>5

LEMMA EmptyTxType ==
  ASSUME TxTypeOK, pc \in [Requests -> PCs], NEW r \in Requests, EmptyTx(r),
         \A q \in Requests \ {r} : pc'[q] = pc[q]
  PROVE  TxTypeOK'
  BY DEF TxTypeOK, EmptyTx

LEMMA RollbackType ==
  ASSUME TypeOK, NEW r \in Requests, Rollback(r)
  PROVE  RequestTypeOK' /\ TxTypeOK' /\ UNCHANGED <<spool, dbVars>>
  <1>1. RequestTypeOK'
    BY LeaveType DEF TypeOK, Rollback
  <1>2. TxTypeOK'
    BY EmptyTxType DEF TypeOK, RequestTypeOK, Rollback, Leave
  <1> QED
    BY <1>1, <1>2 DEF Rollback

LEMMA InstallType ==
  ASSUME TypeOK, NEW r \in Requests, Install(r)
  PROVE  /\ raw' \in [Events -> RawRow \cup {NoRow}]
         /\ copies' \in [Events -> Nat]
         /\ live' \in [Subjects -> LiveRow \cup {NoRow}]
  BY DEF TypeOK, StoreTypeOK, TxTypeOK, Install

\* A handler that was inside write_event may change its buffers to anything of
\* their type, and stays within the transaction.
LEMMA TxStepType ==
  ASSUME TxTypeOK, pc \in [Requests -> PCs], NEW r \in Requests,
         pc'[r] \in Writing \cup {"commit"},
         \A q \in Requests \ {r} : pc'[q] = pc[q],
         \A q \in Requests \ {r} :
            txRaw'[q] = txRaw[q] /\ txCopies'[q] = txCopies[q] /\ txLive'[q] = txLive[q],
         txRaw' \in [Requests -> [Events -> RawRow \cup {NoRow}]],
         txCopies' \in [Requests -> [Events -> Nat]],
         txLive' \in [Requests -> [Subjects -> LiveRow \cup {NoRow}]]
  PROVE  TxTypeOK'
  BY DEF TxTypeOK

\* Both continuations of a statement leave the handler inside the transaction.
LEMMA AdvancePC ==
  ASSUME pc \in [Requests -> PCs], NEW r \in Requests, NEW i, Advance(r, i)
  PROVE  /\ pc'[r] \in {"raw", "commit"}
         /\ \A q \in Requests \ {r} : pc'[q] = pc[q]
  BY DEF Advance, PCs

----------------------------------------------------------------------------
(* Type correctness                                                        *)

LEMMA TypeStep == TypeOK /\ [Next]_vars => TypeOK'
  <1> SUFFICES ASSUME TypeOK, [Next]_vars
               PROVE  TypeOK'
    OBVIOUS
  <1> USE DEF dbVars, reqVars, txVars
  <1>a. StoreTypeOK /\ RequestTypeOK /\ TxTypeOK /\ now \in Nat /\ pc \in [Requests -> PCs]
    BY DEF TypeOK, StoreTypeOK, RequestTypeOK
  <1>1. ASSUME NEW r \in Requests, NEW b \in Batches, Send(r, b)
        PROVE  TypeOK'
    <2>1. RequestTypeOK'
      BY <1>1, <1>a DEF Send, RequestTypeOK, StoreTypeOK, PCs, Writing, EventsOf
    <2>2. TxTypeOK'
      BY <1>1, <1>a DEF Send, TxTypeOK, PCs, Writing
    <2> QED
      BY <1>1, <1>a, <2>1, <2>2 DEF Send, TypeOK, StoreTypeOK
  <1>2. ASSUME NEW r \in Requests, Rollback(r), UNCHANGED now, faults' \in Nat
        PROVE  TypeOK'
    BY <1>2, <1>a, RollbackType DEF TypeOK, StoreTypeOK
  <1>3. ASSUME NEW r \in Requests, Admit(r)
        PROVE  TypeOK'
    <2>1. pc[r] = "arrived" /\ batch[r] \in Batches /\ Goto(r, "begin")
      BY <1>3, <1>a DEF Admit, RequestTypeOK
    <2>2. RequestTypeOK'
      BY <2>1, <1>a, GotoType DEF PCs, Writing
    <2>3. TxTypeOK'
      BY <1>3, <1>a, <2>1 DEF Admit, Goto, TxTypeOK, Writing
    <2> QED
      BY <1>3, <1>a, <2>1, <2>2, <2>3, BatchAssumption DEF Admit, TypeOK, StoreTypeOK
  <1>4. ASSUME NEW r \in Requests, Begin(r)
        PROVE  TypeOK'
    <2>1. began' \in [Requests -> Nat]
      BY <1>4, <1>a DEF Begin, RequestTypeOK
    <2>2. RequestTypeOK'
      BY <1>4, <1>a, <2>1, AdvanceType DEF Begin
    <2>3. TxTypeOK'
      BY <1>4, <1>a, AdvancePC, TxStepType DEF Begin, TxTypeOK, Writing
    <2> QED
      BY <1>4, <1>a, <2>2, <2>3 DEF Begin, TypeOK, StoreTypeOK
  <1>5. ASSUME NEW r \in Requests, pc[r] \in Writing,
               Advance(r, idx[r] + 1), UNCHANGED began,
               UNCHANGED <<now, spool, dbVars, faults>>
        PROVE  RequestTypeOK' /\ StoreTypeOK' /\ pc'[r] \in Writing \cup {"commit"}
               /\ \A q \in Requests \ {r} : pc'[q] = pc[q]
    <2>1. pc[r] # "idle" /\ idx[r] + 1 \in Nat /\ began' \in [Requests -> Nat]
      BY <1>5, <1>a DEF Writing, RequestTypeOK
    <2>2. RequestTypeOK'
      BY <1>5, <1>a, <2>1, AdvanceType
    <2>3. pc'[r] \in {"raw", "commit"} /\ \A q \in Requests \ {r} : pc'[q] = pc[q]
      BY <1>5, <1>a, AdvancePC, <2>1
    <2> QED
      BY <1>5, <1>a, <2>2, <2>3 DEF StoreTypeOK, Writing
  <1>6. ASSUME NEW r \in Requests, NEW label \in Writing, pc[r] \in Writing,
               Goto(r, label),
               UNCHANGED <<now, spool, dbVars, faults>>
        PROVE  RequestTypeOK' /\ StoreTypeOK' /\ pc'[r] \in Writing \cup {"commit"}
               /\ \A q \in Requests \ {r} : pc'[q] = pc[q]
    <2>1. label \in PCs /\ pc[r] # "idle"
      BY <1>6 DEF Writing, PCs
    <2>2. RequestTypeOK'
      BY <1>6, <1>a, <2>1, GotoType
    <2> QED
      BY <1>6, <1>a, <2>2 DEF StoreTypeOK, Goto
  <1>7. ASSUME NEW r \in Requests, InsertRaw(r)
        PROVE  TypeOK'
    <2>1. pc[r] \in Writing /\ Current(r) \in Events
      BY <1>7, CurrentType DEF InsertRaw, Writing
    <2>2. RequestTypeOK' /\ StoreTypeOK' /\ pc'[r] \in Writing \cup {"commit"}
          /\ \A q \in Requests \ {r} : pc'[q] = pc[q]
      <3>1. \/ Goto(r, "append")
            \/ Goto(r, "upsert")
            \/ Advance(r, idx[r] + 1) /\ UNCHANGED began
        BY <1>7 DEF InsertRaw
      <3>2. UNCHANGED <<now, spool, dbVars, faults>>
        BY <1>7 DEF InsertRaw
      <3> QED
        BY <2>1, <3>1, <3>2, <1>5, <1>6 DEF Writing
    <2>3. [observed |-> stamp[r], received |-> began[r]] \in RawRow
      BY <1>a DEF RequestTypeOK, RawRow
    <2>4. TxTypeOK'
      BY <1>7, <1>a, <2>1, <2>2, <2>3, TxStepType DEF InsertRaw, TxTypeOK
    <2> QED
      BY <2>2, <2>4 DEF TypeOK
  <1>8. ASSUME NEW r \in Requests, SkipStored(r)
        PROVE  TypeOK'
    <2>1. pc[r] \in Writing
      BY <1>8 DEF SkipStored, Writing
    <2>2. RequestTypeOK' /\ StoreTypeOK' /\ pc'[r] \in Writing \cup {"commit"}
          /\ \A q \in Requests \ {r} : pc'[q] = pc[q]
      BY <1>8, <2>1, <1>5 DEF SkipStored
    <2>3. TxTypeOK'
      BY <1>8, <1>a, <2>2, TxStepType DEF SkipStored, TxTypeOK
    <2> QED
      BY <2>2, <2>3 DEF TypeOK
  <1>9. ASSUME NEW r \in Requests, AppendRow(r)
        PROVE  TypeOK'
    <2>1. pc[r] \in Writing /\ Current(r) \in Events
      BY <1>9, CurrentType DEF AppendRow, Writing
    <2>2. RequestTypeOK' /\ StoreTypeOK' /\ pc'[r] \in Writing \cup {"commit"}
          /\ \A q \in Requests \ {r} : pc'[q] = pc[q]
      BY <1>9, <2>1, <1>5, <1>6 DEF AppendRow, Writing
    <2>3. TxTypeOK'
      BY <1>9, <1>a, <2>1, <2>2, TxStepType DEF AppendRow, TxTypeOK
    <2> QED
      BY <2>2, <2>3 DEF TypeOK
  <1>10. ASSUME NEW r \in Requests, Upsert(r)
         PROVE  TypeOK'
    <2>1. pc[r] \in Writing /\ Current(r) \in Events
      BY <1>10, CurrentType DEF Upsert, Writing
    <2>2. RequestTypeOK' /\ StoreTypeOK' /\ pc'[r] \in Writing \cup {"commit"}
          /\ \A q \in Requests \ {r} : pc'[q] = pc[q]
      BY <1>10, <2>1, <1>5 DEF Upsert
    <2> DEFINE e == Current(r)
               s == Subject[e]
               new == IF Newer(e, stamp[r], FoundRow(r, s))
                        THEN [seen |-> stamp[r], event |-> e] ELSE FoundRow(r, s)
    <2>3. s \in Subjects => new \in LiveRow \cup {NoRow}
      <3>1. [seen |-> stamp[r], event |-> e] \in LiveRow
        BY <1>a, <2>1 DEF RequestTypeOK, LiveRow
      <3>2. s \in Subjects => FoundRow(r, s) \in LiveRow \cup {NoRow}
        BY <1>a DEF FoundRow, StoreTypeOK, TxTypeOK
      <3> QED
        BY <3>1, <3>2
    <2>4. txLive' = [txLive EXCEPT ![r][s] = new] /\ UNCHANGED <<txRaw, txCopies>>
      BY <1>10 DEF Upsert
    <2> HIDE DEF new, s
    <2>5. txLive' \in [Requests -> [Subjects -> LiveRow \cup {NoRow}]]
      <3>1. txLive \in [Requests -> [Subjects -> LiveRow \cup {NoRow}]]
        BY <1>a DEF TxTypeOK
      <3>2. CASE s \in Subjects
        BY <2>3, <2>4, <3>1, <3>2
      <3>3. CASE s \notin Subjects
        BY <2>4, <3>1, <3>3
      <3> QED
        BY <3>2, <3>3
    <2>6. TxTypeOK'
      BY <1>a, <2>2, <2>4, <2>5, TxStepType DEF TxTypeOK
    <2> QED
      BY <2>2, <2>6 DEF TypeOK
  <1>11. ASSUME NEW r \in Requests, Commit(r)
         PROVE  TypeOK'
    <2>1. pc[r] = "commit" /\ Goto(r, "reply") /\ Install(r)
      BY <1>11 DEF Commit
    <2>2. RequestTypeOK'
      BY <2>1, <1>a, GotoType DEF PCs, Writing
    <2>3. TxTypeOK'
      BY <2>1, <1>a, EmptyTxType DEF Install, Goto
    <2>4. StoreTypeOK'
      BY <1>11, <2>1, <1>a, InstallType DEF Commit, Install, StoreTypeOK
    <2> QED
      BY <2>2, <2>3, <2>4 DEF TypeOK
  <1>12. ASSUME NEW r \in Requests, Reply(r)
         PROVE  TypeOK'
    <2>1. RequestTypeOK'
      BY <1>12, <1>a, LeaveType DEF Reply
    <2>2. TxTypeOK'
      BY <1>12, <1>a DEF Reply, Leave, TxTypeOK, Writing
    <2> QED
      BY <1>12, <1>a, <2>1, <2>2 DEF Reply, TypeOK, StoreTypeOK
  <1>13. ASSUME NEW r \in Requests, CommitUnseen(r)
         PROVE  TypeOK'
    <2>1. RequestTypeOK'
      BY <1>13, <1>a, LeaveType DEF CommitUnseen
    <2>2. TxTypeOK'
      BY <1>13, <1>a, EmptyTxType DEF CommitUnseen, Install, Leave
    <2>3. StoreTypeOK'
      BY <1>13, <1>a, InstallType DEF CommitUnseen, Install, StoreTypeOK, Fault
    <2> QED
      BY <2>1, <2>2, <2>3 DEF TypeOK
  <1>14. ASSUME NEW r \in Requests, GiveUp(r)
         PROVE  TypeOK'
    <2>1. RequestTypeOK'
      BY <1>14, <1>a DEF GiveUp, RequestTypeOK, EventsOf
    <2> QED
      BY <1>14, <1>a, <2>1 DEF GiveUp, TypeOK, StoreTypeOK, TxTypeOK, Fault
  <1>15. CASE Restart
    <2>1. RequestTypeOK'
      BY <1>15, <1>a DEF Restart, RequestTypeOK, PCs, Writing
    <2>2. TxTypeOK'
      BY <1>15, <1>a DEF Restart, TxTypeOK
    <2> QED
      BY <1>15, <1>a, <2>1, <2>2 DEF Restart, Fault, TypeOK, StoreTypeOK
  <1>16. CASE Tick
    BY <1>16 DEF Tick, TypeOK, StoreTypeOK, RequestTypeOK, TxTypeOK, EventsOf
  <1>17. ASSUME NEW age \in PruneAges, Prune(age)
         PROVE  TypeOK'
    BY <1>17 DEF Prune, TypeOK, StoreTypeOK, RequestTypeOK, TxTypeOK, EventsOf
  <1>18. CASE UNCHANGED vars
    BY <1>18 DEF vars, TypeOK, StoreTypeOK, RequestTypeOK, TxTypeOK, EventsOf
  <1>19. ASSUME NEW r \in Requests, Reject(r) \/ Raise(r) \/ BreakDeadlock(r) \/ Fail(r)
         PROVE  TypeOK'
    <2>1. Rollback(r) /\ UNCHANGED now /\ faults' \in Nat
      BY <1>19, <1>a DEF Reject, Raise, BreakDeadlock, Fail, Fault, StoreTypeOK
    <2> QED
      BY <2>1, <1>2
  <1> QED
    BY <1>1, <1>3, <1>4, <1>7, <1>8, <1>9, <1>10, <1>11, <1>12, <1>13, <1>14, <1>15, <1>16,
       <1>17, <1>18, <1>19 DEF Next, Handler, Rest

\* In every state each variable has its type, the event a handler is writing
\* exists, and a slot outside a transaction has none open (ingest's
\* "async with conn.transaction()" on every path out of it).
THEOREM TypeCorrect == Spec => []TypeOK
  BY InitType, TypeStep, PTL DEF Spec

----------------------------------------------------------------------------
(* Every event is written once                                             *)

\* What a step of r leaves alone in every other slot.
Others(r) ==
  \A q \in Requests \ {r} :
     /\ pc'[q] = pc[q] /\ batch'[q] = batch[q] /\ idx'[q] = idx[q]
     /\ stamp'[q] = stamp[q] /\ began'[q] = began[q]

LEMMA EmptyTxValues ==
  ASSUME TxTypeOK, NEW r \in Requests, EmptyTx(r)
  PROVE  /\ \A e \in Events : txRaw'[r][e] = NoRow /\ txCopies'[r][e] = 0
         /\ \A s \in Subjects : txLive'[r][s] = NoRow
         /\ \A q \in Requests \ {r} :
               txRaw'[q] = txRaw[q] /\ txCopies'[q] = txCopies[q] /\ txLive'[q] = txLive[q]
  BY DEF TxTypeOK, EmptyTx

LEMMA NoTxValues ==
  ASSUME TxTypeOK, NEW r \in Requests, pc[r] \notin Writing \cup {"commit"}
  PROVE  /\ \A e \in Events : txRaw[r][e] = NoRow /\ txCopies[r][e] = 0
         /\ \A s \in Subjects : txLive[r][s] = NoRow
  BY DEF TxTypeOK

LEMMA InitKey == Init => KeyInv
  BY DEF Init, KeyInv, KeyExclusive, CurrentInTx, CopiesFollowRaw, WrittenOnce

\* A step of r that touches no row and no buffer, and does not leave r owing.
LEMMA KeyQuiet ==
  ASSUME TypeOK, KeyInv, NEW r \in Requests,
         UNCHANGED <<raw, copies, forgotten, txRaw, txCopies>>,
         Others(r),
         pc[r] # "append",
         pc'[r] \notin {"append", "upsert"}
  PROVE  KeyInv'
  <1> USE DEF KeyInv
  <1>1. KeyExclusive'
    BY DEF KeyExclusive
  <1>2. CurrentInTx'
    BY DEF CurrentInTx, Others, Current, EventsOf
  <1>3. CopiesFollowRaw'
    BY DEF CopiesFollowRaw, Others, Current, EventsOf
  <1>4. WrittenOnce'
    BY DEF WrittenOnce
  <1> QED
    BY <1>1, <1>2, <1>3, <1>4

\* Dropping the buffers of r keeps the invariant, whatever becomes of r.
LEMMA KeyRollback ==
  ASSUME TypeOK, KeyInv, NEW r \in Requests, Rollback(r)
  PROVE  KeyInv'
  <1> USE DEF KeyInv
  <1>1. /\ UNCHANGED <<raw, copies, forgotten>>
        /\ EmptyTx(r)
        /\ pc'[r] = "idle"
        /\ Others(r)
    BY DEF Rollback, Leave, TypeOK, RequestTypeOK, dbVars, Others
  <1>2. KeyExclusive'
    BY <1>1 DEF KeyExclusive, EmptyTx, TypeOK, TxTypeOK
  <1>3. CurrentInTx'
    BY <1>1, EmptyTxValues DEF CurrentInTx, TypeOK, Others, Current, EventsOf
  <1>4. CopiesFollowRaw'
    BY <1>1, EmptyTxValues DEF CopiesFollowRaw, TypeOK, Others, Current, EventsOf, AppendsRow
  <1>5. WrittenOnce'
    BY <1>1 DEF WrittenOnce
  <1> QED
    BY <1>2, <1>3, <1>4, <1>5

\* Committing moves whole events, with the domain rows they need, to the tables.
LEMMA KeyInstall ==
  ASSUME TypeOK, KeyInv, NEW r \in Requests, pc[r] = "commit", Install(r),
         pc'[r] \in {"idle", "reply"},
         Others(r)
  PROVE  KeyInv'
  <1> USE DEF KeyInv
  <1>1. KeyExclusive'
    BY DEF KeyExclusive, Install, EmptyTx, TypeOK, TxTypeOK
  <1>2. CurrentInTx'
    BY EmptyTxValues DEF CurrentInTx, Install, TypeOK, Others, Current, EventsOf
  <1>3. CopiesFollowRaw'
    BY EmptyTxValues DEF CopiesFollowRaw, Install, TypeOK, Others, Current, EventsOf, AppendsRow
  <1>4. ASSUME NEW e \in Events, e \notin forgotten
        PROVE  copies'[e] = IF raw'[e] # NoRow /\ AppendsRow(e) THEN 1 ELSE 0
    <2>1. copies'[e] = copies[e] + txCopies[r][e]
      BY DEF Install
    <2>2. raw'[e] = IF txRaw[r][e] # NoRow THEN txRaw[r][e] ELSE raw[e]
      BY DEF Install
    <2>3. txCopies[r][e] = IF txRaw[r][e] # NoRow /\ AppendsRow(e) THEN 1 ELSE 0
      BY DEF CopiesFollowRaw
    <2>4. txRaw[r][e] # NoRow => raw[e] = NoRow
      BY DEF KeyExclusive
    <2>5. copies[e] = IF raw[e] # NoRow /\ AppendsRow(e) THEN 1 ELSE 0
      BY <1>4 DEF WrittenOnce
    <2> QED
      BY <2>1, <2>2, <2>3, <2>4, <2>5
  <1>5. WrittenOnce'
    BY <1>4 DEF WrittenOnce, Install, AppendsRow
  <1> QED
    BY <1>1, <1>2, <1>3, <1>5

LEMMA KeyStep == TypeOK /\ TypeOK' /\ KeyInv /\ [Next]_vars => KeyInv'
  <1> SUFFICES ASSUME TypeOK, TypeOK', KeyInv, [Next]_vars
               PROVE  KeyInv'
    OBVIOUS
  <1> USE DEF dbVars, reqVars, txVars
  <1>1. ASSUME NEW r \in Requests, NEW b \in Batches, Send(r, b)
        PROVE  KeyInv'
    BY <1>1, KeyQuiet DEF Send, TypeOK, RequestTypeOK, Others
  <1>2. ASSUME NEW r \in Requests, Admit(r) \/ Begin(r) \/ SkipStored(r) \/ Reply(r)
        PROVE  KeyInv'
    BY <1>2, KeyQuiet DEF Admit, Begin, SkipStored, Reply, Leave, Goto, Advance, TypeOK,
                          RequestTypeOK, Others
  <1>3. ASSUME NEW r \in Requests, InsertRaw(r)
        PROVE  KeyInv'
    <2> DEFINE e == Current(r)
    <2>1. pc[r] = "raw" /\ ~AlreadyStored(r, e) /\ ~Blocked(r)
      BY <1>3 DEF InsertRaw
    <2>2. e \in Events
      BY <2>1, CurrentType DEF Writing
    <2>3. raw[e] = NoRow /\ \A q \in Requests : txRaw[q][e] = NoRow
      BY <2>1 DEF AlreadyStored, Blocked, WaitsFor
    <2>4. txRaw' = [txRaw EXCEPT ![r][e] = [observed |-> stamp[r], received |-> began[r]]]
          /\ UNCHANGED <<raw, copies, forgotten, txCopies>>
      BY <1>3 DEF InsertRaw
    <2>5. Others(r)
      BY <1>3 DEF InsertRaw, Goto, Advance, TypeOK, RequestTypeOK, Others
    <2>6. \/ /\ pc'[r] = "append" /\ AppendsRow(e)
             /\ batch'[r] = batch[r] /\ idx'[r] = idx[r]
             /\ stamp'[r] = stamp[r] /\ began'[r] = began[r]
          \/ /\ pc'[r] = "upsert" /\ UpsertsRow(e) /\ ~AppendsRow(e)
             /\ batch'[r] = batch[r] /\ idx'[r] = idx[r]
             /\ stamp'[r] = stamp[r] /\ began'[r] = began[r]
          \/ pc'[r] \in {"raw", "commit"} /\ ~AppendsRow(e)
      BY <1>3 DEF InsertRaw, Goto, Advance, TypeOK, RequestTypeOK
    <2>7. KeyExclusive'
      BY <2>2, <2>3, <2>4 DEF KeyInv, KeyExclusive, TypeOK, TxTypeOK
    <2>a. /\ txRaw'[r][e] = [observed |-> stamp[r], received |-> began[r]]
          /\ \A d \in Events \ {e} : txRaw'[r][d] = txRaw[r][d]
          /\ \A q \in Requests \ {r} : txRaw'[q] = txRaw[q]
      BY <2>2, <2>4 DEF TypeOK, TxTypeOK
    <2>b. pc'[r] \in {"append", "upsert"} =>
             Current(r)' = e /\ stamp'[r] = stamp[r] /\ began'[r] = began[r]
      BY <2>6 DEF Current, EventsOf
    <2>8. CurrentInTx'
      <3> SUFFICES ASSUME NEW q \in Requests
                   PROVE  (/\ pc[q] \in {"append", "upsert"} =>
                                txRaw[q][Current(q)]
                                  = [observed |-> stamp[q], received |-> began[q]]
                           /\ pc[q] = "append" => AppendsRow(Current(q))
                           /\ pc[q] = "upsert" => UpsertsRow(Current(q)))'
        BY DEF CurrentInTx
      <3>1. CASE q = r
        BY <3>1, <2>a, <2>b, <2>6 DEF AppendsRow, UpsertsRow
      <3>2. CASE q # r
        BY <3>2, <2>a, <2>5 DEF KeyInv, CurrentInTx, Others, Current, EventsOf, AppendsRow,
                                UpsertsRow
      <3> QED
        BY <3>1, <3>2
    <2>9. CopiesFollowRaw'
      <3> SUFFICES ASSUME NEW q \in Requests, NEW d \in Events
                   PROVE  (txCopies[q][d] = IF /\ txRaw[q][d] # NoRow
                                               /\ AppendsRow(d)
                                               /\ ~(pc[q] = "append" /\ Current(q) = d)
                                              THEN 1 ELSE 0)'
        BY DEF CopiesFollowRaw
      <3>1. CASE q = r /\ d = e
        BY <3>1, <2>1, <2>3, <2>4, <2>6, <2>b DEF KeyInv, CopiesFollowRaw, AppendsRow
      <3>2. CASE q = r /\ d # e
        BY <3>2, <2>1, <2>4, <2>a, <2>6, <2>b DEF KeyInv, CopiesFollowRaw, AppendsRow
      <3>3. CASE q # r
        BY <3>3, <2>4, <2>a, <2>5 DEF KeyInv, CopiesFollowRaw, Others, Current, EventsOf,
                                      AppendsRow
      <3> QED
        BY <3>1, <3>2, <3>3
    <2>10. WrittenOnce'
      BY <2>4 DEF KeyInv, WrittenOnce
    <2> QED
      BY <2>7, <2>8, <2>9, <2>10 DEF KeyInv
  <1>4. ASSUME NEW r \in Requests, AppendRow(r)
        PROVE  KeyInv'
    <2> DEFINE e == Current(r)
    <2>1. pc[r] = "append" /\ e \in Events
      BY <1>4, CurrentType DEF AppendRow, Writing
    <2>2. txCopies' = [txCopies EXCEPT ![r][e] = @ + 1]
          /\ UNCHANGED <<raw, copies, forgotten, txRaw>>
      BY <1>4 DEF AppendRow
    <2>3. txRaw[r][e] # NoRow /\ AppendsRow(e) /\ txCopies[r][e] = 0
      <3>1. txRaw[r][e] = [observed |-> stamp[r], received |-> began[r]] /\ AppendsRow(e)
        BY <2>1 DEF KeyInv, CurrentInTx
      <3>2. txRaw[r][e] # NoRow
        BY <3>1, NoRowAssumption DEF TypeOK, RequestTypeOK, RawRow
      <3> QED
        BY <2>1, <3>1, <3>2 DEF KeyInv, CopiesFollowRaw
    <2>4. Others(r)
      BY <1>4 DEF AppendRow, Goto, Advance, TypeOK, RequestTypeOK, Others
    <2>5. \/ /\ pc'[r] = "upsert" /\ UpsertsRow(e)
             /\ batch'[r] = batch[r] /\ idx'[r] = idx[r]
             /\ stamp'[r] = stamp[r] /\ began'[r] = began[r]
          \/ pc'[r] \in {"raw", "commit"}
      BY <1>4 DEF AppendRow, Goto, Advance, TypeOK, RequestTypeOK
    <2>6. KeyExclusive'
      BY <2>2 DEF KeyInv, KeyExclusive
    <2>7. CurrentInTx'
      BY <2>1, <2>2, <2>4, <2>5
      DEF KeyInv, CurrentInTx, Current, EventsOf, UpsertsRow, AppendsRow, Others
    <2>8. CopiesFollowRaw'
      BY <2>1, <2>2, <2>3, <2>4, <2>5
      DEF KeyInv, CopiesFollowRaw, Current, EventsOf, TypeOK, TxTypeOK, AppendsRow, Others
    <2>9. WrittenOnce'
      BY <2>2 DEF KeyInv, WrittenOnce
    <2> QED
      BY <2>6, <2>7, <2>8, <2>9 DEF KeyInv
  <1>5. ASSUME NEW r \in Requests, Upsert(r)
        PROVE  KeyInv'
    BY <1>5, KeyQuiet DEF Upsert, Advance, TypeOK, RequestTypeOK, Others
  <1>6. ASSUME NEW r \in Requests, Commit(r) \/ CommitUnseen(r)
        PROVE  KeyInv'
    <2>1. pc[r] = "commit" /\ Install(r) /\ pc'[r] \in {"idle", "reply"}
          /\ Others(r)
      BY <1>6 DEF Commit, CommitUnseen, Goto, Leave, TypeOK, RequestTypeOK, Others
    <2> QED
      BY <2>1, KeyInstall
  <1>7. ASSUME NEW r \in Requests, Reject(r) \/ Raise(r) \/ BreakDeadlock(r) \/ Fail(r)
        PROVE  KeyInv'
    BY <1>7, KeyRollback DEF Reject, Raise, BreakDeadlock, Fail
  <1>8. ASSUME NEW r \in Requests, GiveUp(r)
        PROVE  KeyInv'
    BY <1>8 DEF GiveUp, KeyInv, KeyExclusive, CurrentInTx, CopiesFollowRaw, WrittenOnce, Current,
                EventsOf
  <1>9. CASE Restart
    BY <1>9 DEF Restart, KeyInv, KeyExclusive, CurrentInTx, CopiesFollowRaw, WrittenOnce
  <1>10. CASE Tick \/ UNCHANGED vars
    BY <1>10 DEF Tick, vars, KeyInv, KeyExclusive, CurrentInTx, CopiesFollowRaw, WrittenOnce,
                 Current, EventsOf
  <1>11. ASSUME NEW age \in PruneAges, Prune(age)
         PROVE  KeyInv'
    <2> DEFINE old == {e \in Events : raw[e] # NoRow /\ raw[e].received < now - age}
    <2>1. raw' = [e \in Events |-> IF e \in old THEN NoRow ELSE raw[e]]
          /\ forgotten' = forgotten \cup old
          /\ UNCHANGED <<copies, reqVars, txVars>>
      BY <1>11 DEF Prune
    <2> HIDE DEF old
    <2>2. KeyExclusive'
      BY <2>1 DEF KeyInv, KeyExclusive
    <2>3. CurrentInTx' /\ CopiesFollowRaw'
      BY <2>1 DEF KeyInv, CurrentInTx, CopiesFollowRaw, Current, EventsOf
    <2>4. WrittenOnce'
      BY <2>1 DEF KeyInv, WrittenOnce
    <2> QED
      BY <2>2, <2>3, <2>4 DEF KeyInv
  <1> QED
    BY <1>1, <1>2, <1>3, <1>4, <1>5, <1>6, <1>7, <1>8, <1>9, <1>10, <1>11
    DEF Next, Handler, Rest

\* Retries, duplicated requests, failures and restarts never give an event a
\* second row in vessel_position or lock_status_observation (the promise of the
\* unique index and of the command-tag check in write_event), unless its raw
\* row was pruned.
THEOREM EachEventWrittenOnce == Spec => []WrittenOnce
  <1>1. Init => TypeOK /\ KeyInv
    BY InitType, InitKey
  <1>2. TypeOK /\ KeyInv /\ [Next]_vars => (TypeOK /\ KeyInv)'
    BY TypeStep, KeyStep
  <1>3. TypeOK /\ KeyInv => WrittenOnce
    BY DEF KeyInv
  <1> QED
    BY <1>1, <1>2, <1>3, PTL DEF Spec

----------------------------------------------------------------------------
(* What an accepted batch is promised                                      *)

LEMMA InitBatch == Init => BatchInv
  BY BatchAssumption
  DEF Init, BatchInv, Progress, ProgressOf, AckedIsStored, BatchAtomic, Stored, Writing

\* An event once stored stays stored.
LEMMA StoredStep ==
  ASSUME TypeOK, [Next]_vars, NEW e \in Events, Stored(e)
  PROVE  Stored(e)'
  <1>1. ASSUME NEW r \in Requests, Install(r)
        PROVE  Stored(e)'
    BY <1>1 DEF Install, Stored
  <1>2. ASSUME NEW age \in PruneAges, Prune(age)
        PROVE  Stored(e)'
    BY <1>2 DEF Prune, Stored
  <1>3. ASSUME UNCHANGED <<raw, forgotten>>
        PROVE  Stored(e)'
    BY <1>3 DEF Stored
  <1>4. \/ \E r \in Requests : Install(r)
        \/ \E age \in PruneAges : Prune(age)
        \/ UNCHANGED <<raw, forgotten>>
    BY DEF Next, Handler, Send, Reject, Admit, Begin, InsertRaw, SkipStored, AppendRow, Upsert,
           Raise, Commit, Reply, BreakDeadlock, Fail, CommitUnseen, GiveUp, Restart, Tick, Rest,
           Rollback, vars, dbVars
  <1> QED
    BY <1>1, <1>2, <1>3, <1>4

\* The steps of r do not touch the progress of another slot.
LEMMA ProgressOther ==
  ASSUME TypeOK, [Next]_vars, Progress, NEW r \in Requests, Others(r),
         NEW q \in Requests, q # r, txRaw'[q] = txRaw[q]
  PROVE  ProgressOf(q)'
  <1>1. EventsOf(q)' = EventsOf(q) /\ pc'[q] = pc[q] /\ idx'[q] = idx[q]
    BY DEF Others, EventsOf
  <1>2. pc[q] # "idle" => \A i \in DOMAIN EventsOf(q) : EventsOf(q)[i] \in Events
    BY BatchAssumption DEF TypeOK, RequestTypeOK, EventsOf
  <1>3. pc[q] # "idle" =>
          \A i \in DOMAIN EventsOf(q) : Stored(EventsOf(q)[i]) => Stored(EventsOf(q)[i])'
    BY <1>1, <1>2, StoredStep DEF Stored
  <1>4. ProgressOf(q)
    BY DEF Progress
  <1> QED
    BY <1>1, <1>3, <1>4 DEF ProgressOf, Writing, EventsOf, Others, Stored

\* Moving on from the current event, which is stored or in the transaction.
LEMMA ProgressAdvance ==
  ASSUME TypeOK, TypeOK', [Next]_vars, Progress, NEW r \in Requests, pc[r] \in Writing,
         Advance(r, idx[r] + 1),
         Stored(Current(r)) \/ txRaw'[r][Current(r)] # NoRow,
         \A e \in Events : txRaw[r][e] # NoRow => txRaw'[r][e] # NoRow,
         \A e \in Events : txRaw'[r][e] # NoRow => txRaw[r][e] # NoRow \/ e = Current(r)
  PROVE  ProgressOf(r)'
  <1>1. /\ EventsOf(r)' = EventsOf(r)
        /\ idx'[r] = idx[r] + 1
        /\ pc'[r] = IF idx[r] + 1 \in DOMAIN EventsOf(r) THEN "raw" ELSE "commit"
    BY DEF Advance, EventsOf, TypeOK, RequestTypeOK
  <1>2. /\ EventsOf(r) \in Seq(Events)
        /\ idx[r] \in DOMAIN EventsOf(r)
        /\ Current(r) = EventsOf(r)[idx[r]]
        /\ Current(r) \in Events
    BY CurrentType DEF Current
  <1>3. ProgressOf(r)
    BY DEF Progress
  <1>4. \A e \in Events : txRaw'[r][e] # NoRow =>
           \E i \in DOMAIN EventsOf(r) : EventsOf(r)[i] = e
    BY <1>2, <1>3 DEF ProgressOf
  <1>5. ASSUME NEW i \in DOMAIN EventsOf(r), i < idx[r] + 1
        PROVE  Stored(EventsOf(r)[i])' \/ txRaw'[r][EventsOf(r)[i]] # NoRow
    <2>1. EventsOf(r)[i] \in Events /\ i \in Nat /\ idx[r] \in Nat
      BY <1>2
    <2>2. Stored(EventsOf(r)[i]) \/ txRaw'[r][EventsOf(r)[i]] # NoRow
      <3>1. CASE i = idx[r]
        BY <3>1, <1>2
      <3>2. CASE i < idx[r]
        BY <3>2, <1>3, <2>1 DEF ProgressOf
      <3> QED
        BY <3>1, <3>2, <1>5, <2>1
    <2>3. Stored(EventsOf(r)[i]) => Stored(EventsOf(r)[i])'
      BY <1>1, <2>1, StoredStep DEF Stored
    <2> QED
      BY <2>2, <2>3
  <1>6. idx[r] + 1 \notin DOMAIN EventsOf(r) => \A i \in DOMAIN EventsOf(r) : i < idx[r] + 1
    BY <1>2
  <1> QED
    BY <1>1, <1>4, <1>5, <1>6 DEF ProgressOf, EventsOf, Stored

\* The write of the current event continues.
LEMMA ProgressGoto ==
  ASSUME TypeOK, TypeOK', [Next]_vars, Progress, NEW r \in Requests, pc[r] \in Writing,
         NEW label \in Writing, Goto(r, label),
         \A e \in Events : txRaw[r][e] # NoRow => txRaw'[r][e] # NoRow,
         \A e \in Events : txRaw'[r][e] # NoRow => txRaw[r][e] # NoRow \/ e = Current(r)
  PROVE  ProgressOf(r)'
  <1>1. EventsOf(r)' = EventsOf(r) /\ idx'[r] = idx[r] /\ pc'[r] = label
    BY DEF Goto, EventsOf, TypeOK, RequestTypeOK
  <1>2. /\ EventsOf(r) \in Seq(Events)
        /\ idx[r] \in DOMAIN EventsOf(r)
        /\ Current(r) = EventsOf(r)[idx[r]]
    BY CurrentType DEF Current
  <1>3. ProgressOf(r)
    BY DEF Progress
  <1>4. ASSUME NEW i \in DOMAIN EventsOf(r), i < idx[r]
        PROVE  Stored(EventsOf(r)[i])' \/ txRaw'[r][EventsOf(r)[i]] # NoRow
    <2>1. EventsOf(r)[i] \in Events
      BY <1>2
    <2>2. Stored(EventsOf(r)[i]) => Stored(EventsOf(r)[i])'
      BY <1>1, <2>1, StoredStep DEF Stored
    <2> QED
      BY <1>3, <1>4, <2>1, <2>2 DEF ProgressOf
  <1> QED
    BY <1>1, <1>2, <1>3, <1>4 DEF ProgressOf, EventsOf, Stored, Writing

\* At a commit everything in the batch is stored.
LEMMA InstallStoresBatch ==
  ASSUME TypeOK, [Next]_vars, Progress, NEW r \in Requests, pc[r] = "commit", Install(r)
  PROVE  /\ batch[r] \in Batches
         /\ EventsOf(r) \in Seq(Events)
         /\ \A i \in DOMAIN EventsOf(r) :
               raw'[EventsOf(r)[i]] # NoRow \/ EventsOf(r)[i] \in forgotten'
  <1>1. batch[r] \in Batches
    BY DEF TypeOK, RequestTypeOK
  <1>2. EventsOf(r) \in Seq(Events)
    BY <1>1, BatchAssumption DEF EventsOf
  <1>3. ASSUME NEW i \in DOMAIN EventsOf(r)
        PROVE  raw'[EventsOf(r)[i]] # NoRow \/ EventsOf(r)[i] \in forgotten'
    <2>1. EventsOf(r)[i] \in Events
      BY <1>2
    <2>2. Stored(EventsOf(r)[i]) \/ txRaw[r][EventsOf(r)[i]] # NoRow
      BY DEF Progress, ProgressOf
    <2> QED
      BY <2>1, <2>2 DEF Install, Stored
  <1> QED
    BY <1>1, <1>2, <1>3

LEMMA ProgressStep ==
  ASSUME TypeOK, TypeOK', KeyInv, BatchInv, [Next]_vars
  PROVE  Progress'
  <1> USE DEF dbVars, reqVars, txVars
  <1>a. Progress
    BY DEF BatchInv
  <1>b. ASSUME NEW r \in Requests, Others(r), ProgressOf(r)',
               \A q \in Requests \ {r} : txRaw'[q] = txRaw[q]
        PROVE  Progress'
    BY <1>a, <1>b, ProgressOther DEF Progress
  <1>c. ASSUME NEW r \in Requests, EmptyTx(r), Others(r), pc'[r] = "idle"
        PROVE  Progress'
    <2>1. \A e \in Events : txRaw'[r][e] = NoRow
      BY <1>c, EmptyTxValues DEF TypeOK
    <2>2. ProgressOf(r)'
      BY <1>c, <2>1 DEF ProgressOf, Writing
    <2> QED
      BY <1>b, <1>c, <2>2, EmptyTxValues DEF TypeOK
  <1>1. ASSUME NEW r \in Requests, NEW b \in Batches, Send(r, b)
        PROVE  Progress'
    <2>1. Others(r) /\ pc'[r] = "arrived" /\ UNCHANGED txRaw
          /\ \A e \in Events : txRaw[r][e] = NoRow
      BY <1>1 DEF Send, Others, TypeOK, RequestTypeOK, TxTypeOK, Writing
    <2>2. ProgressOf(r)'
      BY <2>1 DEF ProgressOf, Writing
    <2> QED
      BY <1>b, <2>1, <2>2
  <1>2. ASSUME NEW r \in Requests, Reject(r) \/ Raise(r) \/ BreakDeadlock(r) \/ Fail(r)
        PROVE  Progress'
    <2>1. EmptyTx(r) /\ Others(r) /\ pc'[r] = "idle"
      BY <1>2 DEF Reject, Raise, BreakDeadlock, Fail, Rollback, Leave, Others, TypeOK, RequestTypeOK
    <2> QED
      BY <1>c, <2>1
  <1>3. ASSUME NEW r \in Requests, Admit(r)
        PROVE  Progress'
    <2>1. Others(r) /\ pc'[r] = "begin" /\ UNCHANGED txRaw
          /\ \A e \in Events : txRaw[r][e] = NoRow
      BY <1>3 DEF Admit, Goto, Others, TypeOK, RequestTypeOK, TxTypeOK, Writing
    <2>2. ProgressOf(r)'
      BY <2>1 DEF ProgressOf, Writing
    <2> QED
      BY <1>b, <2>1, <2>2
  <1>4. ASSUME NEW r \in Requests, Begin(r)
        PROVE  Progress'
    <2>0. pc[r] = "begin" /\ Advance(r, 1) /\ UNCHANGED txRaw
      BY <1>4 DEF Begin
    <2>a. Others(r)
      <3>1. began' = [began EXCEPT ![r] = now]
        BY <1>4 DEF Begin
      <3>2. CASE 1 \in DOMAIN EventsOf(r)
        BY <2>0, <3>1, <3>2 DEF Advance, Others, TypeOK, RequestTypeOK
      <3>3. CASE 1 \notin DOMAIN EventsOf(r)
        BY <2>0, <3>1, <3>3 DEF Advance, Others, TypeOK, RequestTypeOK
      <3> QED
        BY <3>2, <3>3
    <2>b. \A e \in Events : txRaw[r][e] = NoRow
      BY <2>0, NoTxValues DEF TypeOK, Writing
    <2>1. /\ EventsOf(r)' = EventsOf(r)
          /\ idx'[r] = 1
          /\ pc'[r] = IF 1 \in DOMAIN EventsOf(r) THEN "raw" ELSE "commit"
      BY <2>0 DEF Advance, EventsOf, TypeOK, RequestTypeOK
    <2>2. batch[r] \in Batches
      BY <1>4 DEF Begin, TypeOK, RequestTypeOK
    <2>3. EventsOf(r) \in Seq(Events)
      BY <2>2, BatchAssumption DEF EventsOf
    <2>4. \A i \in DOMAIN EventsOf(r) : ~(i < 1)
      BY <2>3
    <2>5. 1 \notin DOMAIN EventsOf(r) => DOMAIN EventsOf(r) = {}
      BY <2>3
    <2>6. ProgressOf(r)'
      BY <2>0, <2>b, <2>1, <2>4, <2>5 DEF ProgressOf, EventsOf
    <2> QED
      BY <1>b, <2>0, <2>a, <2>6
  <1>5. ASSUME NEW r \in Requests, InsertRaw(r)
        PROVE  Progress'
    <2> DEFINE e == Current(r)
    <2>1. pc[r] \in Writing /\ e \in Events
      BY <1>5, CurrentType DEF InsertRaw, Writing
    <2>2. txRaw' = [txRaw EXCEPT ![r][e] = [observed |-> stamp[r], received |-> began[r]]]
      BY <1>5 DEF InsertRaw
    <2>3. [observed |-> stamp[r], received |-> began[r]] # NoRow
      BY NoRowAssumption DEF TypeOK, RequestTypeOK, RawRow
    <2>4. /\ txRaw'[r][e] # NoRow
          /\ \A d \in Events : txRaw[r][d] # NoRow => txRaw'[r][d] # NoRow
          /\ \A d \in Events : txRaw'[r][d] # NoRow => txRaw[r][d] # NoRow \/ d = e
          /\ \A q \in Requests \ {r} : txRaw'[q] = txRaw[q]
      BY <2>1, <2>2, <2>3 DEF TypeOK, TxTypeOK
    <2>5. Goto(r, "append") \/ Goto(r, "upsert") \/ Advance(r, idx[r] + 1)
      BY <1>5 DEF InsertRaw
    <2>6. Others(r)
      BY <1>5 DEF InsertRaw, Goto, Advance, Others, TypeOK, RequestTypeOK
    <2>7. ProgressOf(r)'
      BY <2>1, <2>4, <2>5, <1>a, ProgressAdvance, ProgressGoto DEF Writing
    <2> QED
      BY <1>b, <2>4, <2>6, <2>7
  <1>6. ASSUME NEW r \in Requests, SkipStored(r)
        PROVE  Progress'
    <2>1. pc[r] \in Writing /\ Advance(r, idx[r] + 1) /\ UNCHANGED txRaw /\ Others(r)
      BY <1>6 DEF SkipStored, Writing, Advance, Others, TypeOK, RequestTypeOK
    <2>2. Stored(Current(r)) \/ txRaw'[r][Current(r)] # NoRow
      BY <1>6 DEF SkipStored, AlreadyStored, Stored
    <2>3. ProgressOf(r)'
      BY <2>1, <2>2, <1>a, ProgressAdvance
    <2> QED
      BY <1>b, <2>1, <2>3
  <1>7. ASSUME NEW r \in Requests, AppendRow(r) \/ Upsert(r)
        PROVE  Progress'
    <2>1. pc[r] \in {"append", "upsert"} /\ UNCHANGED txRaw
      BY <1>7 DEF AppendRow, Upsert
    <2>2. txRaw'[r][Current(r)] # NoRow
      <3>1. [observed |-> stamp[r], received |-> began[r]] \in RawRow
        BY DEF TypeOK, RequestTypeOK, RawRow
      <3>2. txRaw[r][Current(r)] = [observed |-> stamp[r], received |-> began[r]]
        BY <2>1 DEF KeyInv, CurrentInTx
      <3> QED
        BY <2>1, <3>1, <3>2, NoRowAssumption
    <2>3. Goto(r, "upsert") \/ Advance(r, idx[r] + 1)
      BY <1>7 DEF AppendRow, Upsert
    <2>4. ProgressOf(r)'
      BY <2>1, <2>2, <2>3, <1>a, ProgressAdvance, ProgressGoto DEF Writing
    <2>5. Others(r)
      BY <1>7 DEF AppendRow, Upsert, Goto, Advance, Others, TypeOK, RequestTypeOK
    <2> QED
      BY <1>b, <2>1, <2>4, <2>5
  <1>8. ASSUME NEW r \in Requests, Commit(r)
        PROVE  Progress'
    <2>1. /\ pc[r] = "commit" /\ Install(r) /\ EmptyTx(r) /\ Others(r)
          /\ pc'[r] = "reply" /\ EventsOf(r)' = EventsOf(r)
      BY <1>8 DEF Commit, Install, Goto, Others, EventsOf, TypeOK, RequestTypeOK
    <2>2. \A i \in DOMAIN EventsOf(r) :
             raw'[EventsOf(r)[i]] # NoRow \/ EventsOf(r)[i] \in forgotten'
      BY <2>1, <1>a, InstallStoresBatch
    <2>3. \A e \in Events : txRaw'[r][e] = NoRow
      BY <2>1, EmptyTxValues DEF TypeOK
    <2>4. ProgressOf(r)'
      BY <2>1, <2>2, <2>3 DEF ProgressOf, Stored, Writing, EventsOf
    <2> QED
      BY <1>b, <2>1, <2>4, EmptyTxValues DEF TypeOK
  <1>9. ASSUME NEW r \in Requests, Reply(r)
        PROVE  Progress'
    <2>1. Others(r) /\ pc'[r] = "idle" /\ UNCHANGED txRaw
          /\ \A e \in Events : txRaw[r][e] = NoRow
      BY <1>9 DEF Reply, Leave, Others, TypeOK, RequestTypeOK, TxTypeOK, Writing
    <2>2. ProgressOf(r)'
      BY <2>1 DEF ProgressOf, Writing
    <2> QED
      BY <1>b, <2>1, <2>2
  <1>10. ASSUME NEW r \in Requests, CommitUnseen(r)
         PROVE  Progress'
    <2>1. EmptyTx(r) /\ Others(r) /\ pc'[r] = "idle"
      BY <1>10 DEF CommitUnseen, Install, Leave, Others, TypeOK, RequestTypeOK
    <2> QED
      BY <1>c, <2>1
  <1>11. ASSUME NEW r \in Requests, GiveUp(r)
         PROVE  Progress'
    BY <1>11, <1>a DEF GiveUp, Progress, ProgressOf, EventsOf, Stored
  <1>12. CASE Restart
    <2>1. \A r \in Requests : pc'[r] = "idle" /\ \A e \in Events : txRaw'[r][e] = NoRow
      BY <1>12 DEF Restart
    <2> QED
      BY <2>1 DEF Progress, ProgressOf, Writing
  <1>13. CASE Tick \/ UNCHANGED vars
    BY <1>13, <1>a DEF Tick, vars, Progress, ProgressOf, EventsOf, Stored
  <1>14. ASSUME NEW age \in PruneAges, Prune(age)
         PROVE  Progress'
    <2>1. UNCHANGED <<pc, batch, idx, txRaw>>
      BY <1>14 DEF Prune
    <2>2. \A e \in Events : Stored(e) => Stored(e)'
      BY StoredStep
    <2>3. ASSUME NEW r \in Requests
          PROVE  ProgressOf(r)'
      <3>1. ProgressOf(r)
        BY <1>a DEF Progress
      <3>2. pc[r] # "idle" => \A i \in DOMAIN EventsOf(r) : EventsOf(r)[i] \in Events
        BY BatchAssumption DEF TypeOK, RequestTypeOK, EventsOf
      <3>3. pc[r] # "idle" =>
              \A i \in DOMAIN EventsOf(r) : Stored(EventsOf(r)[i]) => Stored(EventsOf(r)[i])'
        BY <2>1, <2>2, <3>2 DEF Stored, EventsOf
      <3> QED
        BY <2>1, <3>1, <3>3 DEF ProgressOf, EventsOf, Writing, Stored
    <2> QED
      BY <2>3 DEF Progress
  <1> QED
    BY <1>1, <1>2, <1>3, <1>4, <1>5, <1>6, <1>7, <1>8, <1>9, <1>10, <1>11, <1>12, <1>13, <1>14
    DEF Next, Handler, Rest

LEMMA AckedStep ==
  ASSUME TypeOK, BatchInv, [Next]_vars
  PROVE  AckedIsStored'
  <1>1. ASSUME NEW b \in Batches, b \notin spool', NEW i \in DOMAIN BatchEvents[b]
        PROVE  Stored(BatchEvents[b][i])'
    <2>1. BatchEvents[b][i] \in Events
      BY BatchAssumption
    <2>2. CASE b \notin spool
      BY <2>1, <2>2, StoredStep DEF BatchInv, AckedIsStored
    <2>3. CASE b \in spool
      <3>1. PICK r \in Requests : Reply(r) /\ batch[r] = b
        BY <1>1, <2>3
        DEF Next, Handler, Send, Reject, Admit, Begin, InsertRaw, SkipStored, AppendRow, Upsert,
            Raise, Commit, Reply, BreakDeadlock, Fail, CommitUnseen, GiveUp, Restart, Tick,
            Prune, Rest, Rollback, vars
      <3>2. Stored(BatchEvents[b][i])
        BY <3>1 DEF Reply, BatchInv, Progress, ProgressOf, EventsOf
      <3> QED
        BY <2>1, <3>2, StoredStep
    <2> QED
      BY <2>2, <2>3
  <1> QED
    BY <1>1 DEF AckedIsStored

LEMMA AtomicStep ==
  ASSUME TypeOK, BatchInv, [Next]_vars
  PROVE  BatchAtomic'
  <1>1. \A e \in Events : Stored(e) => Stored(e)'
    BY StoredStep
  <1>2. ASSUME NEW r \in Requests, pc[r] = "commit", Install(r),
               NEW b \in Batches, NEW i \in DOMAIN BatchEvents[b],
               OnlyIn(b, BatchEvents[b][i]), Stored(BatchEvents[b][i])',
               NEW j \in DOMAIN BatchEvents[b]
        PROVE  Stored(BatchEvents[b][j])'
    <2>1. BatchEvents[b][i] \in Events /\ BatchEvents[b][j] \in Events
      BY BatchAssumption
    <2>2. CASE txRaw[r][BatchEvents[b][i]] # NoRow
      <3>1. batch[r] = b
        BY <1>2, <2>1, <2>2, InstallStoresBatch
        DEF BatchInv, Progress, ProgressOf, OnlyIn, EventsOf
      <3> QED
        BY <1>2, <3>1, InstallStoresBatch DEF BatchInv, Stored, EventsOf
    <2>3. CASE txRaw[r][BatchEvents[b][i]] = NoRow
      <3>1. Stored(BatchEvents[b][i])
        BY <1>2, <2>1, <2>3 DEF Install, Stored
      <3> QED
        BY <1>1, <1>2, <2>1, <3>1 DEF BatchInv, BatchAtomic
    <2> QED
      BY <2>2, <2>3
  <1>3. \/ \E r \in Requests : pc[r] = "commit" /\ Install(r)
        \/ \A e \in Events : Stored(e)' => Stored(e)
    <2>1. \/ \E r \in Requests : pc[r] = "commit" /\ Install(r)
          \/ \E age \in PruneAges : Prune(age)
          \/ UNCHANGED <<raw, forgotten>>
      BY DEF Next, Handler, Send, Reject, Admit, Begin, InsertRaw, SkipStored, AppendRow, Upsert,
             Raise, Commit, Reply, BreakDeadlock, Fail, CommitUnseen, GiveUp, Restart, Tick,
             Rest, Rollback, vars, dbVars
    <2>2. ASSUME NEW age \in PruneAges, Prune(age), NEW e \in Events, Stored(e)'
          PROVE  Stored(e)
      BY <2>2 DEF Prune, Stored
    <2> QED
      BY <2>1, <2>2 DEF Stored
  <1>4. CASE \A e \in Events : Stored(e)' => Stored(e)
    BY <1>1, <1>4, BatchAssumption DEF BatchInv, BatchAtomic, OnlyIn
  <1>5. CASE \E r \in Requests : pc[r] = "commit" /\ Install(r)
    BY <1>2, <1>5 DEF BatchAtomic, OnlyIn
  <1> QED
    BY <1>3, <1>4, <1>5

LEMMA BatchStep == TypeOK /\ TypeOK' /\ KeyInv /\ BatchInv /\ [Next]_vars => BatchInv'
  BY ProgressStep, AckedStep, AtomicStep DEF BatchInv

\* A 200 response means that every event of the batch is in telemetry_raw, or
\* was until it was pruned, whoever inserted it and whatever failed meanwhile.
THEOREM AcceptedIsStored == Spec => []AckedIsStored
  <1>1. Init => TypeOK /\ KeyInv /\ BatchInv
    BY InitType, InitKey, InitBatch
  <1>2. TypeOK /\ KeyInv /\ BatchInv /\ [Next]_vars => (TypeOK /\ KeyInv /\ BatchInv)'
    BY TypeStep, KeyStep, BatchStep
  <1>3. TypeOK /\ KeyInv /\ BatchInv => AckedIsStored
    BY DEF BatchInv
  <1> QED
    BY <1>1, <1>2, <1>3, PTL DEF Spec

\* No failure leaves part of a batch in the tables: "async with
\* conn.transaction()" around the loop of ingest.
THEOREM BatchesAreAtomic == Spec => []BatchAtomic
  <1>1. Init => TypeOK /\ KeyInv /\ BatchInv
    BY InitType, InitKey, InitBatch
  <1>2. TypeOK /\ KeyInv /\ BatchInv /\ [Next]_vars => (TypeOK /\ KeyInv /\ BatchInv)'
    BY TypeStep, KeyStep, BatchStep
  <1>3. TypeOK /\ KeyInv /\ BatchInv => BatchAtomic
    BY DEF BatchInv
  <1> QED
    BY <1>1, <1>2, <1>3, PTL DEF Spec

----------------------------------------------------------------------------
(* The live rows                                                           *)

LEMMA InitLive == Init => LiveInv
  BY NumberAssumption, EventAssumption
  DEF Init, LiveInv, LiveLocked, LiveCovers, CoveredOK, StampBounded, LiveIsNewest, FutureBounded,
      Writing, UpsertsRow

\* What a step of r cannot do to another slot: it neither touches its buffers
\* nor a live row that slot holds.
Aside(r) ==
  /\ Others(r)
  /\ now' >= now
  /\ \A q \in Requests \ {r} : txRaw'[q] = txRaw[q] /\ txLive'[q] = txLive[q]

LEMMA LiveOther ==
  ASSUME TypeOK, TypeOK', LiveInv, NEW r \in Requests, Aside(r),
         NEW q \in Requests, q # r,
         NEW s \in Subjects, txLive[q][s] # NoRow, live'[s] = live[s], txLive'[r][s] = NoRow
  PROVE  HeldOK(q, s)'
  <1>1. HeldOK(q, s)
    BY DEF LiveInv, LiveLocked
  <1>2. txLive'[q][s] = txLive[q][s] /\ txRaw'[q] = txRaw[q]
    BY DEF Aside
  <1>3. \A p \in Requests \ {q} : txLive'[p][s] = NoRow
    BY <1>1 DEF Aside, HeldOK
  <1>4. txLive[q][s] \in LiveRow
    BY DEF TypeOK, TxTypeOK
  <1>5. txLive[q][s].seen \in Nat /\ now \in Nat /\ now' \in Nat /\ now' >= now
    BY <1>4 DEF LiveRow, TypeOK, StoreTypeOK, Aside
  <1> QED
    BY <1>1, <1>2, <1>3, <1>5, NumberAssumption DEF HeldOK, UpsertsRow

LEMMA CoversOther ==
  ASSUME LiveInv, NEW r \in Requests, Aside(r), NEW q \in Requests, q # r, NEW e \in Events
  PROVE  CoveredOK(q, e)'
  <1>1. CoveredOK(q, e)
    BY DEF LiveInv, LiveCovers
  <1> QED
    BY <1>1 DEF CoveredOK, Aside, Others, Owes, Current, EventsOf, UpsertsRow

LEMMA StampOther ==
  ASSUME TypeOK, TypeOK', LiveInv, NEW r \in Requests, Aside(r), NEW q \in Requests, q # r,
         pc'[q] \in Writing
  PROVE  stamp'[q] <= now' + MaxFuture
  <1>1. stamp[q] <= now + MaxFuture
    BY DEF LiveInv, StampBounded, Aside, Others
  <1> QED
    BY <1>1, NumberAssumption DEF Aside, Others, TypeOK, StoreTypeOK, RequestTypeOK

\* A live row that is neither written nor locked keeps what is known of it.
LEMMA NewestQuiet ==
  ASSUME TypeOK, TypeOK', LiveInv, UNCHANGED <<raw, live, forgotten>>, now' >= now
  PROVE  LiveIsNewest' /\ FutureBounded'
  <1>1. LiveIsNewest'
    BY DEF LiveInv, LiveIsNewest, Stored, UpsertsRow
  <1>2. ASSUME NEW s \in Subjects, live'[s] # NoRow
        PROVE  live'[s].seen <= now' + MaxFuture
    <2>1. live[s].seen <= now + MaxFuture
      BY <1>2 DEF LiveInv, FutureBounded
    <2>2. live[s].seen \in Nat /\ now \in Nat /\ now' \in Nat
      BY <1>2 DEF TypeOK, StoreTypeOK, LiveRow
    <2> QED
      BY <2>1, <2>2, NumberAssumption
  <1> QED
    BY <1>1, <1>2 DEF FutureBounded

\* A step of r that leaves the tables and its live buffer alone.
LEMMA LiveQuiet ==
  ASSUME TypeOK, TypeOK', LiveInv, NEW r \in Requests, Aside(r),
         UNCHANGED <<raw, live, forgotten>>, txLive'[r] = txLive[r],
         \A e \in Events : txRaw[r][e] # NoRow => txRaw'[r][e] = txRaw[r][e],
         \A e \in Events : CoveredOK(r, e)',
         pc'[r] \in Writing => stamp'[r] <= now' + MaxFuture
  PROVE  LiveInv'
  <1>1. ASSUME NEW q \in Requests, NEW s \in Subjects, txLive'[q][s] # NoRow
        PROVE  HeldOK(q, s)'
    <2>1. HeldOK(q, s) /\ txLive'[q][s] = txLive[q][s] /\ txLive[q][s] # NoRow
      BY <1>1 DEF Aside, LiveInv, LiveLocked
    <2>2. \A p \in Requests : txLive'[p] = txLive[p]
      BY DEF Aside
    <2>3. txLive[q][s].seen \in Nat /\ now \in Nat /\ now' \in Nat /\ txLive[q][s].event \in Events
      BY <2>1 DEF LiveRow, TypeOK, StoreTypeOK, TxTypeOK
    <2>4. \A e \in Events : txRaw[q][e] # NoRow => txRaw'[q][e] = txRaw[q][e]
      BY DEF Aside
    <2> QED
      BY <2>1, <2>2, <2>3, <2>4, NumberAssumption DEF HeldOK, UpsertsRow, Aside
  <1>2. LiveCovers'
    BY CoversOther DEF LiveCovers
  <1>3. StampBounded'
    BY StampOther DEF StampBounded
  <1>4. LiveIsNewest' /\ FutureBounded'
    BY NewestQuiet DEF Aside
  <1> QED
    BY <1>1, <1>2, <1>3, <1>4 DEF LiveInv, LiveLocked

\* A slot without a transaction covers everything there is to cover.
LEMMA CoversNothing ==
  ASSUME NEW r \in Requests, NEW e \in Events, txRaw[r][e] = NoRow
  PROVE  CoveredOK(r, e)
  BY DEF CoveredOK

LEMMA LiveRollback ==
  ASSUME TypeOK, TypeOK', LiveInv, NEW r \in Requests, Rollback(r), UNCHANGED now
  PROVE  LiveInv'
  <1>1. /\ UNCHANGED <<raw, live, forgotten>>
        /\ pc'[r] = "idle"
        /\ \A e \in Events : txRaw'[r][e] = NoRow
        /\ \A s \in Subjects : txLive'[r][s] = NoRow
        /\ \A q \in Requests \ {r} : txRaw'[q] = txRaw[q] /\ txLive'[q] = txLive[q]
    BY EmptyTxValues DEF Rollback, Leave, TypeOK, RequestTypeOK, dbVars
  <1>2. Others(r)
    BY DEF Rollback, Leave, Others, TypeOK, RequestTypeOK
  <1>3. Aside(r)
    BY <1>1, <1>2 DEF Aside, TypeOK, StoreTypeOK
  <1>4. LiveLocked'
    BY <1>1, <1>3, LiveOther DEF LiveLocked
  <1>5. LiveCovers'
    BY <1>1, <1>3, CoversOther, CoversNothing DEF LiveCovers, CoveredOK
  <1>6. StampBounded'
    BY <1>1, <1>3, StampOther DEF StampBounded, Writing
  <1> QED
    BY <1>1, <1>4, <1>5, <1>6, NewestQuiet DEF LiveInv, Aside, TypeOK, StoreTypeOK

\* What LiveIsNewest and FutureBounded say of one live row.
ShownOK(s) ==
  /\ UpsertsRow(live[s].event)
  /\ Subject[live[s].event] = s
  /\ Stored(live[s].event)
  /\ live[s].event \notin forgotten => raw[live[s].event].observed = live[s].seen
  /\ live[s].seen <= now + MaxFuture

LEMMA NewestFromParts ==
  ASSUME \A e \in Events : raw'[e] # NoRow /\ UpsertsRow(e) =>
            live'[Subject[e]] # NoRow /\ raw'[e].observed <= live'[Subject[e]].seen,
         \A s \in Subjects : live'[s] # NoRow => ShownOK(s)'
  PROVE  LiveIsNewest' /\ FutureBounded'
  BY DEF LiveIsNewest, FutureBounded, ShownOK, UpsertsRow

LEMMA LiveInstall ==
  ASSUME TypeOK, TypeOK', KeyInv, LiveInv, NEW r \in Requests, pc[r] = "commit", Install(r),
         Others(r), UNCHANGED now, pc'[r] \in {"idle", "reply"},
         \A e \in Events : Stored(e) => Stored(e)'
  PROVE  LiveInv'
  <1>1. /\ UNCHANGED forgotten
        /\ \A e \in Events : raw'[e] = IF txRaw[r][e] # NoRow THEN txRaw[r][e] ELSE raw[e]
        /\ \A s \in Subjects : live'[s] = IF txLive[r][s] # NoRow THEN txLive[r][s] ELSE live[s]
        /\ \A e \in Events : txRaw'[r][e] = NoRow
        /\ \A s \in Subjects : txLive'[r][s] = NoRow
        /\ \A q \in Requests \ {r} : txRaw'[q] = txRaw[q] /\ txLive'[q] = txLive[q]
    BY EmptyTxValues DEF Install, TypeOK
  <1>2. Aside(r)
    BY <1>1 DEF Aside, TypeOK, StoreTypeOK
  <1>3. ASSUME NEW q \in Requests, NEW s \in Subjects, txLive'[q][s] # NoRow
        PROVE  HeldOK(q, s)'
    <2>1. q # r /\ txLive[q][s] # NoRow
      BY <1>1, <1>3
    <2>2. txLive[r][s] = NoRow
      BY <2>1 DEF LiveInv, LiveLocked, HeldOK
    <2>3. live'[s] = live[s]
      BY <1>1, <2>2
    <2> QED
      BY <1>1, <1>2, <2>1, <2>3, LiveOther
  <1>4. LiveCovers'
    BY <1>1, <1>2, CoversOther DEF LiveCovers, CoveredOK
  <1>5. StampBounded'
    BY <1>2, StampOther DEF StampBounded, Writing
  <1>6. ASSUME NEW e \in Events, raw'[e] # NoRow, UpsertsRow(e)
        PROVE  live'[Subject[e]] # NoRow /\ raw'[e].observed <= live'[Subject[e]].seen
    <2> DEFINE s == Subject[e]
    <2>1. s \in Subjects
      BY <1>6, EventAssumption DEF UpsertsRow
    <2>2. CASE txRaw[r][e] # NoRow
      <3>1. txLive[r][s] # NoRow /\ txRaw[r][e].observed <= txLive[r][s].seen
        BY <1>6, <2>2 DEF LiveInv, LiveCovers, CoveredOK, Owes
      <3> QED
        BY <1>1, <2>1, <2>2, <3>1
    <2>3. CASE txRaw[r][e] = NoRow
      <3>1. raw'[e] = raw[e] /\ raw[e] # NoRow
        BY <1>1, <1>6, <2>3
      <3>2. live[s] # NoRow /\ raw[e].observed <= live[s].seen
        BY <1>6, <3>1 DEF LiveInv, LiveIsNewest
      <3>3. CASE txLive[r][s] = NoRow
        BY <1>1, <2>1, <3>1, <3>2, <3>3
      <3>4. CASE txLive[r][s] # NoRow
        <4>1. live[s].seen <= txLive[r][s].seen
          BY <2>1, <3>2, <3>4 DEF LiveInv, LiveLocked, HeldOK
        <4>2. raw[e] \in RawRow /\ live[s] \in LiveRow /\ txLive[r][s] \in LiveRow
          BY <2>1, <3>1, <3>2, <3>4 DEF TypeOK, StoreTypeOK, TxTypeOK
        <4> QED
          BY <1>1, <2>1, <3>1, <3>2, <3>4, <4>1, <4>2 DEF RawRow, LiveRow
      <3> QED
        BY <3>3, <3>4
    <2> QED
      BY <2>2, <2>3
  <1>7. ASSUME NEW s \in Subjects, live'[s] # NoRow
        PROVE  ShownOK(s)'
    <2>1. CASE txLive[r][s] = NoRow
      <3>1. live'[s] = live[s] /\ live[s] # NoRow
        BY <1>1, <1>7, <2>1
      <3>2. PICK e \in Events : e = live[s].event
        BY <3>1 DEF TypeOK, StoreTypeOK, LiveRow
      <3>3. /\ UpsertsRow(e) /\ Subject[e] = s /\ (raw[e] # NoRow \/ e \in forgotten)
            /\ e \notin forgotten => raw[e].observed = live[s].seen
            /\ live[s].seen <= now + MaxFuture
        BY <3>1, <3>2 DEF LiveInv, LiveIsNewest, FutureBounded, Stored
      <3>4. raw[e] # NoRow => txRaw[r][e] = NoRow
        BY DEF KeyInv, KeyExclusive
      <3>5. raw[e] # NoRow => raw'[e] = raw[e]
        BY <1>1, <3>4
      <3>6. /\ raw'[e] # NoRow \/ e \in forgotten'
            /\ e \notin forgotten' => raw'[e].observed = live'[s].seen
        BY <1>1, <3>1, <3>3, <3>5
      <3> QED
        BY <3>1, <3>2, <3>3, <3>6 DEF ShownOK, Stored, UpsertsRow
    <2>2. CASE txLive[r][s] # NoRow
      <3>1. live'[s] = txLive[r][s]
        BY <1>1, <2>2
      <3>2. HeldOK(r, s)
        BY <2>2 DEF LiveInv, LiveLocked
      <3>3. PICK e \in Events : e = txLive[r][s].event
        BY <2>2 DEF TypeOK, TxTypeOK, LiveRow
      <3>4. txLive[r][s].seen <= now + MaxFuture
        BY <3>2 DEF HeldOK
      <3>5. CASE txLive[r][s] = live[s]
        <4>1. /\ UpsertsRow(e) /\ Subject[e] = s /\ (raw[e] # NoRow \/ e \in forgotten)
              /\ e \notin forgotten => raw[e].observed = live[s].seen
          BY <2>2, <3>3, <3>5 DEF LiveInv, LiveIsNewest, Stored
        <4>2. raw[e] # NoRow => txRaw[r][e] = NoRow
          BY DEF KeyInv, KeyExclusive
        <4>3. raw[e] # NoRow => raw'[e] = raw[e]
          BY <1>1, <4>2
        <4>4. /\ raw'[e] # NoRow \/ e \in forgotten'
              /\ e \notin forgotten' => raw'[e].observed = live'[s].seen
          BY <1>1, <3>1, <3>5, <4>1, <4>3
        <4> QED
          BY <3>1, <3>3, <3>4, <4>1, <4>4 DEF ShownOK, Stored, UpsertsRow
      <3>6. CASE txLive[r][s] # live[s]
        <4>1. /\ UpsertsRow(e) /\ Subject[e] = s /\ txRaw[r][e] # NoRow
              /\ txRaw[r][e].observed = txLive[r][s].seen
          BY <3>2, <3>3, <3>6 DEF HeldOK
        <4>2. raw'[e] = txRaw[r][e]
          BY <1>1, <4>1
        <4>3. raw'[e] # NoRow /\ raw'[e].observed = live'[s].seen
          BY <3>1, <4>1, <4>2
        <4> QED
          BY <3>1, <3>3, <3>4, <4>1, <4>3 DEF ShownOK, Stored, UpsertsRow
      <3> QED
        BY <3>5, <3>6
    <2> QED
      BY <2>1, <2>2
  <1>8. LiveIsNewest' /\ FutureBounded'
    BY <1>1, <1>6, <1>7, NewestFromParts
  <1> QED
    BY <1>3, <1>4, <1>5, <1>8 DEF LiveInv, LiveLocked

\* A step that changes only spool, awaited, faults or the clock.
LEMMA LiveStill ==
  ASSUME TypeOK, TypeOK', LiveInv, now' >= now,
         UNCHANGED <<raw, live, forgotten, pc, batch, idx, stamp, txRaw, txLive>>
  PROVE  LiveInv'
  <1>1. ASSUME NEW q \in Requests, NEW s \in Subjects, txLive'[q][s] # NoRow
        PROVE  HeldOK(q, s)'
    <2>1. HeldOK(q, s) /\ txLive[q][s] # NoRow
      BY <1>1 DEF LiveInv, LiveLocked
    <2>2. txLive[q][s].seen \in Nat /\ now \in Nat /\ now' \in Nat
      BY <2>1 DEF LiveRow, TypeOK, StoreTypeOK, TxTypeOK
    <2> QED
      BY <2>1, <2>2, NumberAssumption DEF HeldOK, UpsertsRow
  <1>2. LiveCovers'
    BY DEF LiveInv, LiveCovers, CoveredOK, Owes, Current, EventsOf, UpsertsRow
  <1>3. ASSUME NEW q \in Requests, pc'[q] \in Writing
        PROVE  stamp'[q] <= now' + MaxFuture
    <2>1. stamp[q] <= now + MaxFuture
      BY <1>3 DEF LiveInv, StampBounded
    <2> QED
      BY <2>1, NumberAssumption DEF TypeOK, StoreTypeOK, RequestTypeOK
  <1> QED
    BY <1>1, <1>2, <1>3, NewestQuiet DEF LiveInv, LiveLocked, StampBounded

\* The stamp of a handler that moved on to another event.
LEMMA StampAdvance ==
  ASSUME TypeOK, NEW r \in Requests, pc[r] # "idle", NEW i \in Nat, Advance(r, i),
         pc'[r] \in Writing, UNCHANGED now
  PROVE  stamp'[r] <= now' + MaxFuture
  <1>1. batch[r] \in Batches
    BY DEF TypeOK, RequestTypeOK
  <1>2. EventsOf(r) \in Seq(Events)
    BY <1>1, BatchAssumption DEF EventsOf
  <1>3. i \in DOMAIN EventsOf(r)
    BY DEF Advance, TypeOK, RequestTypeOK, Writing
  <1>4. stamp'[r] = Clamp(ObservedAt[EventsOf(r)[i]])
    BY <1>3 DEF Advance, TypeOK, RequestTypeOK
  <1>5. ObservedAt[EventsOf(r)[i]] \in Nat
    BY <1>2, <1>3, EventAssumption
  <1> QED
    BY <1>4, <1>5, ClampBound DEF TypeOK, StoreTypeOK

\* A handler outside its transaction.
LEMMA LiveOutside ==
  ASSUME TypeOK, TypeOK', LiveInv, NEW r \in Requests, Aside(r),
         UNCHANGED <<raw, live, forgotten, txRaw, txLive>>,
         pc[r] \notin Writing \cup {"commit"},
         pc'[r] \in Writing => stamp'[r] <= now' + MaxFuture
  PROVE  LiveInv'
  <1>1. \A e \in Events : txRaw'[r][e] = NoRow
    BY NoTxValues DEF TypeOK
  <1>2. \A e \in Events : CoveredOK(r, e)'
    BY <1>1 DEF CoveredOK
  <1> QED
    BY <1>1, <1>2, LiveQuiet

LEMMA LiveInsertRaw ==
  ASSUME TypeOK, TypeOK', LiveInv, NEW r \in Requests, InsertRaw(r)
  PROVE  LiveInv'
  <1> DEFINE e == Current(r)
  <1>1. /\ pc[r] = "raw" /\ pc[r] \in Writing /\ e \in Events /\ txRaw[r][e] = NoRow
        /\ UNCHANGED <<now, raw, live, forgotten, txLive>>
    BY CurrentType DEF InsertRaw, Writing, AlreadyStored, dbVars
  <1>2. txRaw' = [txRaw EXCEPT ![r][e] = [observed |-> stamp[r], received |-> began[r]]]
    BY DEF InsertRaw
  <1>3. /\ \A d \in Events : d # e => txRaw'[r][d] = txRaw[r][d]
        /\ \A q \in Requests \ {r} : txRaw'[q] = txRaw[q]
    BY <1>1, <1>2 DEF TypeOK, TxTypeOK
  <1>4. Others(r)
    BY DEF InsertRaw, Goto, Advance, Others, TypeOK, RequestTypeOK
  <1>5. Aside(r)
    BY <1>1, <1>3, <1>4 DEF Aside, TypeOK, StoreTypeOK
  <1>6. UpsertsRow(e) => pc'[r] \in {"append", "upsert"} /\ EventsOf(r)' = EventsOf(r) /\ idx'[r] = idx[r]
    BY DEF InsertRaw, Goto, EventsOf, TypeOK, RequestTypeOK
  <1>7. UpsertsRow(e) => pc'[r] \in {"append", "upsert"} /\ Current(r)' = e
    BY <1>6 DEF Current, EventsOf
  <1>8. ASSUME NEW d \in Events
        PROVE  CoveredOK(r, d)'
    <2>1. CASE d = e
      BY <1>7, <2>1 DEF CoveredOK, Owes, UpsertsRow
    <2>2. CASE d # e
      <3>1. CoveredOK(r, d) /\ ~Owes(r, d)
        BY <1>1 DEF LiveInv, LiveCovers, Owes
      <3> QED
        BY <1>1, <1>3, <2>2, <3>1 DEF CoveredOK, UpsertsRow
    <2> QED
      BY <2>1, <2>2
  <1>9. ASSUME pc'[r] \in Writing
        PROVE  stamp'[r] <= now' + MaxFuture
    <2>1. CASE Advance(r, idx[r] + 1)
      BY <1>1, <1>9, <2>1, StampAdvance DEF TypeOK, RequestTypeOK
    <2>2. CASE Goto(r, "append") \/ Goto(r, "upsert")
      BY <1>1, <2>2 DEF Goto, LiveInv, StampBounded
    <2> QED
      BY <2>1, <2>2 DEF InsertRaw
  <1> QED
    BY <1>1, <1>3, <1>5, <1>8, <1>9, LiveQuiet

LEMMA LiveSkipStored ==
  ASSUME TypeOK, TypeOK', LiveInv, NEW r \in Requests, SkipStored(r)
  PROVE  LiveInv'
  <1>1. /\ pc[r] = "raw" /\ Advance(r, idx[r] + 1) /\ idx[r] \in Nat
        /\ UNCHANGED <<now, raw, live, forgotten, txRaw, txLive>>
    BY DEF SkipStored, dbVars, txVars, TypeOK, RequestTypeOK
  <1>2. Others(r)
    BY DEF SkipStored, Advance, Others, TypeOK, RequestTypeOK
  <1>3. Aside(r)
    BY <1>1, <1>2 DEF Aside, TypeOK, StoreTypeOK
  <1>4. ASSUME NEW d \in Events
        PROVE  CoveredOK(r, d)'
    <2>1. CoveredOK(r, d) /\ ~Owes(r, d)
      BY <1>1 DEF LiveInv, LiveCovers, Owes
    <2> QED
      BY <1>1, <2>1 DEF CoveredOK, UpsertsRow
  <1>5. pc'[r] \in Writing => stamp'[r] <= now' + MaxFuture
    BY <1>1, StampAdvance
  <1> QED
    BY <1>1, <1>3, <1>4, <1>5, LiveQuiet

LEMMA LiveAppendRow ==
  ASSUME TypeOK, TypeOK', LiveInv, NEW r \in Requests, AppendRow(r)
  PROVE  LiveInv'
  <1> DEFINE e == Current(r)
  <1>1. /\ pc[r] = "append" /\ pc[r] \in Writing /\ idx[r] \in Nat
        /\ UNCHANGED <<now, raw, live, forgotten, txRaw, txLive>>
    BY DEF AppendRow, Writing, dbVars, TypeOK, RequestTypeOK
  <1>2. Others(r)
    BY DEF AppendRow, Goto, Advance, Others, TypeOK, RequestTypeOK
  <1>3. Aside(r)
    BY <1>1, <1>2 DEF Aside, TypeOK, StoreTypeOK
  <1>4. UpsertsRow(e) => pc'[r] = "upsert" /\ EventsOf(r)' = EventsOf(r) /\ idx'[r] = idx[r]
    BY DEF AppendRow, Goto, EventsOf, TypeOK, RequestTypeOK
  <1>5. UpsertsRow(e) => pc'[r] = "upsert" /\ Current(r)' = e
    BY <1>4 DEF Current, EventsOf
  <1>6. ASSUME NEW d \in Events
        PROVE  CoveredOK(r, d)'
    <2>1. CASE d = e
      BY <1>5, <2>1 DEF CoveredOK, Owes, UpsertsRow
    <2>2. CASE d # e
      <3>1. CoveredOK(r, d) /\ ~Owes(r, d)
        BY <2>2 DEF LiveInv, LiveCovers, Owes
      <3> QED
        BY <1>1, <3>1 DEF CoveredOK, UpsertsRow
    <2> QED
      BY <2>1, <2>2
  <1>7. ASSUME pc'[r] \in Writing
        PROVE  stamp'[r] <= now' + MaxFuture
    <2>1. CASE Advance(r, idx[r] + 1)
      BY <1>1, <1>7, <2>1, StampAdvance
    <2>2. CASE Goto(r, "upsert")
      BY <1>1, <2>2 DEF Goto, LiveInv, StampBounded
    <2> QED
      BY <2>1, <2>2 DEF AppendRow
  <1> QED
    BY <1>1, <1>3, <1>6, <1>7, LiveQuiet

\* What an upsert does to the row of its subject: nobody else holds the row, and
\* the new version is no older than the one it found, nor than the event.
LEMMA UpsertRow ==
  ASSUME TypeOK, KeyInv, NEW r \in Requests, Upsert(r),
         NEW e \in Events, e = Current(r), NEW s \in Subjects, s = Subject[e]
  PROVE  /\ txLive'[r][s] \in LiveRow /\ txLive'[r][s] # NoRow
         /\ txLive'[r][s].seen >= stamp[r]
         /\ FoundRow(r, s) # NoRow => FoundRow(r, s).seen <= txLive'[r][s].seen
         /\ \/ txLive'[r][s] = FoundRow(r, s)
            \/ txLive'[r][s].seen = stamp[r] /\ txLive'[r][s].event = e
         /\ \A d \in Subjects : d # s => txLive'[r][d] = txLive[r][d]
         /\ \A q \in Requests \ {r} : txLive'[q] = txLive[q] /\ txLive[q][s] = NoRow
  <1> DEFINE old == FoundRow(r, s)
             new == IF Newer(e, stamp[r], old) THEN [seen |-> stamp[r], event |-> e] ELSE old
  <1>1. pc[r] = "upsert" /\ ~Blocked(r) /\ txLive' = [txLive EXCEPT ![r][s] = new]
    BY DEF Upsert
  <1>2. \A q \in Requests \ {r} : txLive[q][s] = NoRow
    BY <1>1 DEF Blocked, WaitsFor
  <1>3. /\ txLive'[r][s] = new
        /\ \A d \in Subjects : d # s => txLive'[r][d] = txLive[r][d]
        /\ \A q \in Requests \ {r} : txLive'[q] = txLive[q]
    BY <1>1 DEF TypeOK, TxTypeOK
  <1>4. UpsertsRow(e)
    BY <1>1 DEF KeyInv, CurrentInTx
  <1>5. old \in LiveRow \cup {NoRow} /\ stamp[r] \in Nat
    BY DEF FoundRow, TypeOK, TxTypeOK, StoreTypeOK, RequestTypeOK
  <1>6. CASE Newer(e, stamp[r], old)
    <2>1. new = [seen |-> stamp[r], event |-> e] /\ new \in LiveRow /\ new # NoRow
      BY <1>5, <1>6, NoRowAssumption DEF LiveRow
    <2>2. old # NoRow => old.seen <= stamp[r]
      BY <1>4, <1>5, <1>6 DEF Newer, UpsertsRow, LiveRow
    <2> QED
      BY <1>2, <1>3, <1>5, <2>1, <2>2
  <1>7. CASE ~Newer(e, stamp[r], old)
    <2>1. new = old /\ old # NoRow /\ old.seen >= stamp[r] /\ old.seen \in Nat
      BY <1>4, <1>5, <1>7 DEF Newer, UpsertsRow, LiveRow
    <2> QED
      BY <1>2, <1>3, <1>5, <2>1
  <1> QED
    BY <1>6, <1>7

LEMMA LiveUpsert ==
  ASSUME TypeOK, TypeOK', KeyInv, LiveInv, NEW r \in Requests, Upsert(r)
  PROVE  LiveInv'
  <1>1. /\ pc[r] = "upsert" /\ pc[r] \in Writing /\ idx[r] \in Nat /\ Advance(r, idx[r] + 1)
        /\ UNCHANGED <<now, raw, live, forgotten, txRaw>>
    BY DEF Upsert, Writing, dbVars, TypeOK, RequestTypeOK
  <1>2. UpsertsRow(Current(r))
    BY <1>1 DEF KeyInv, CurrentInTx
  <1>3. PICK e \in Events : e = Current(r)
    BY <1>1, CurrentType
  <1>4. PICK s \in Subjects : s = Subject[e]
    BY <1>1, <1>2, <1>3, CurrentType
  <1>5. /\ txLive'[r][s] \in LiveRow /\ txLive'[r][s] # NoRow
        /\ txLive'[r][s].seen >= stamp[r]
        /\ FoundRow(r, s) # NoRow => FoundRow(r, s).seen <= txLive'[r][s].seen
        /\ \/ txLive'[r][s] = FoundRow(r, s)
           \/ txLive'[r][s].seen = stamp[r] /\ txLive'[r][s].event = e
        /\ \A d \in Subjects : d # s => txLive'[r][d] = txLive[r][d]
        /\ \A q \in Requests \ {r} : txLive'[q] = txLive[q] /\ txLive[q][s] = NoRow
    BY <1>3, <1>4, UpsertRow
  <1>6. txRaw[r][e] = [observed |-> stamp[r], received |-> began[r]]
    BY <1>1, <1>3 DEF KeyInv, CurrentInTx
  <1>7. now \in Nat /\ stamp[r] \in Nat /\ stamp[r] <= now + MaxFuture
        /\ txRaw[r][e] # NoRow /\ txRaw[r][e].observed = stamp[r]
    BY <1>1, <1>6, NoRowAssumption
    DEF TypeOK, StoreTypeOK, RequestTypeOK, LiveInv, StampBounded, RawRow
  <1>8. HeldOK(r, s)'
    <2>1. \A q \in Requests \ {r} : txLive'[q][s] = NoRow
      BY <1>5
    <2>2. CASE txLive[r][s] # NoRow
      <3>1. HeldOK(r, s) /\ FoundRow(r, s) = txLive[r][s] /\ txLive[r][s] \in LiveRow
        BY <2>2 DEF LiveInv, LiveLocked, FoundRow, TypeOK, TxTypeOK
      <3>2. live[s] # NoRow => live[s] \in LiveRow
        BY DEF TypeOK, StoreTypeOK
      <3>3. live[s] # NoRow => live[s].seen <= txLive'[r][s].seen
        BY <1>5, <2>2, <3>1, <3>2 DEF HeldOK, LiveRow
      <3>4. CASE txLive'[r][s] = txLive[r][s]
        BY <1>1, <2>1, <3>1, <3>4 DEF HeldOK, UpsertsRow
      <3>5. CASE txLive'[r][s].seen = stamp[r] /\ txLive'[r][s].event = e
        BY <1>1, <1>2, <1>3, <1>4, <1>7, <2>1, <3>3, <3>5 DEF HeldOK, UpsertsRow
      <3> QED
        BY <1>5, <3>1, <3>4, <3>5
    <2>3. CASE txLive[r][s] = NoRow
      <3>1. FoundRow(r, s) = live[s]
        BY <2>3 DEF FoundRow
      <3>2. live[s] # NoRow => live[s].seen <= txLive'[r][s].seen
        BY <1>5, <3>1
      <3>3. CASE txLive'[r][s] = live[s]
        <4>1. live[s].seen <= now + MaxFuture
          BY <1>5, <3>3 DEF LiveInv, FutureBounded
        <4> QED
          BY <1>1, <2>1, <3>2, <3>3, <4>1 DEF HeldOK
      <3>4. CASE txLive'[r][s].seen = stamp[r] /\ txLive'[r][s].event = e
        BY <1>1, <1>2, <1>3, <1>4, <1>7, <2>1, <3>2, <3>4 DEF HeldOK, UpsertsRow
      <3> QED
        BY <1>5, <3>1, <3>3, <3>4
    <2> QED
      BY <2>2, <2>3
  <1>9. ASSUME NEW q \in Requests, NEW d \in Subjects, txLive'[q][d] # NoRow
        PROVE  HeldOK(q, d)'
    <2>1. CASE d = s
      <3>1. q = r
        BY <1>5, <1>9, <2>1
      <3> QED
        BY <1>8, <2>1, <3>1
    <2>2. CASE d # s
      <3>1. \A p \in Requests : txLive'[p][d] = txLive[p][d]
        BY <1>5, <2>2
      <3>2. HeldOK(q, d)
        BY <1>9, <3>1 DEF LiveInv, LiveLocked
      <3> QED
        BY <1>1, <3>1, <3>2 DEF HeldOK, UpsertsRow
    <2> QED
      BY <2>1, <2>2
  <1>10. Others(r) /\ pc'[r] \in {"raw", "commit"}
    BY <1>1, AdvancePC DEF Upsert, Advance, Others, TypeOK, RequestTypeOK
  <1>11. ASSUME NEW q \in Requests, NEW d \in Events
         PROVE  CoveredOK(q, d)'
    <2>1. CASE q # r
      <3>1. CoveredOK(q, d) /\ txLive'[q] = txLive[q]
        BY <1>5, <2>1 DEF LiveInv, LiveCovers
      <3> QED
        BY <1>1, <1>10, <2>1, <3>1 DEF CoveredOK, Others, Owes, Current, EventsOf, UpsertsRow
    <2>2. CASE q = r /\ d = e
      BY <1>1, <1>4, <1>5, <1>7, <2>2 DEF CoveredOK, UpsertsRow
    <2>3. CASE q = r /\ d # e
      <3>1. CoveredOK(r, d) /\ ~Owes(r, d)
        BY <1>3, <2>3 DEF LiveInv, LiveCovers, Owes
      <3>2. CASE Subject[d] = s /\ txRaw[r][d] # NoRow /\ UpsertsRow(d)
        <4>1. txLive[r][s] # NoRow /\ txRaw[r][d].observed <= txLive[r][s].seen
          BY <3>1, <3>2 DEF CoveredOK
        <4>2. FoundRow(r, s) = txLive[r][s] /\ txLive[r][s] \in LiveRow /\ txRaw[r][d] \in RawRow
          BY <3>2, <4>1 DEF FoundRow, TypeOK, TxTypeOK
        <4>3. txRaw[r][d].observed <= txLive'[r][s].seen
          BY <1>5, <4>1, <4>2 DEF LiveRow, RawRow
        <4> QED
          BY <1>1, <1>5, <2>3, <3>2, <4>3 DEF CoveredOK
      <3>3. CASE Subject[d] # s
        <4>1. UpsertsRow(d) => Subject[d] \in Subjects
          BY EventAssumption DEF UpsertsRow
        <4> QED
          BY <1>1, <1>5, <2>3, <3>1, <3>3, <4>1 DEF CoveredOK, UpsertsRow
      <3> QED
        BY <1>1, <2>3, <3>2, <3>3 DEF CoveredOK, UpsertsRow
    <2> QED
      BY <2>1, <2>2, <2>3
  <1>12. ASSUME NEW q \in Requests, pc'[q] \in Writing
         PROVE  stamp'[q] <= now' + MaxFuture
    <2>1. CASE q = r
      BY <1>1, <1>12, <2>1, StampAdvance DEF Writing
    <2>2. CASE q # r
      BY <1>1, <1>10, <1>12, <2>2 DEF Others, LiveInv, StampBounded
    <2> QED
      BY <2>1, <2>2
  <1> QED
    BY <1>1, <1>9, <1>11, <1>12, NewestQuiet
    DEF LiveInv, LiveLocked, LiveCovers, StampBounded, TypeOK, StoreTypeOK

LEMMA LivePrune ==
  ASSUME TypeOK, TypeOK', LiveInv, NEW age \in PruneAges, Prune(age)
  PROVE  LiveInv'
  <1>1. /\ UNCHANGED <<now, live, pc, batch, idx, stamp, txRaw, txLive>>
        /\ \A e \in Events : \/ raw'[e] = raw[e] /\ (e \in forgotten' => e \in forgotten)
                             \/ raw'[e] = NoRow /\ e \in forgotten'
        /\ forgotten \subseteq forgotten'
    BY DEF Prune, reqVars, txVars
  <1>2. LiveLocked'
    BY <1>1 DEF LiveInv, LiveLocked, HeldOK, UpsertsRow
  <1>3. LiveCovers'
    BY <1>1 DEF LiveInv, LiveCovers, CoveredOK, Owes, Current, EventsOf, UpsertsRow
  <1>4. StampBounded'
    BY <1>1 DEF LiveInv, StampBounded
  <1>5. ASSUME NEW e \in Events, raw'[e] # NoRow, UpsertsRow(e)
        PROVE  live'[Subject[e]] # NoRow /\ raw'[e].observed <= live'[Subject[e]].seen
    BY <1>1, <1>5 DEF LiveInv, LiveIsNewest
  <1>6. ASSUME NEW s \in Subjects, live'[s] # NoRow
        PROVE  ShownOK(s)'
    <2>1. PICK e \in Events : e = live[s].event
      BY <1>1, <1>6 DEF TypeOK, StoreTypeOK, LiveRow
    <2>2. /\ UpsertsRow(e) /\ Subject[e] = s /\ (raw[e] # NoRow \/ e \in forgotten)
          /\ e \notin forgotten => raw[e].observed = live[s].seen
          /\ live[s].seen <= now + MaxFuture
      BY <1>1, <1>6, <2>1 DEF LiveInv, LiveIsNewest, FutureBounded, Stored
    <2>3. /\ raw'[e] # NoRow \/ e \in forgotten'
          /\ e \notin forgotten' => raw'[e].observed = live[s].seen
      BY <1>1, <2>2
    <2> QED
      BY <1>1, <2>1, <2>2, <2>3 DEF ShownOK, Stored, UpsertsRow
  <1> QED
    BY <1>2, <1>3, <1>4, <1>5, <1>6, NewestFromParts DEF LiveInv

LEMMA LiveStep == TypeOK /\ TypeOK' /\ KeyInv /\ LiveInv /\ [Next]_vars => LiveInv'
  <1> SUFFICES ASSUME TypeOK, TypeOK', KeyInv, LiveInv, [Next]_vars
               PROVE  LiveInv'
    OBVIOUS
  <1> USE DEF dbVars, reqVars, txVars
  <1>1. ASSUME NEW r \in Requests, NEW b \in Batches, Send(r, b)
        PROVE  LiveInv'
    <2>1. Aside(r) /\ pc[r] = "idle" /\ pc'[r] = "arrived"
      BY <1>1 DEF Send, Aside, Others, TypeOK, StoreTypeOK, RequestTypeOK
    <2> QED
      BY <1>1, <2>1, LiveOutside DEF Send, Writing
  <1>2. ASSUME NEW r \in Requests, Admit(r)
        PROVE  LiveInv'
    <2>1. Aside(r) /\ pc[r] = "arrived" /\ pc'[r] = "begin"
      BY <1>2 DEF Admit, Goto, Aside, Others, TypeOK, StoreTypeOK, RequestTypeOK
    <2> QED
      BY <1>2, <2>1, LiveOutside DEF Admit, Writing
  <1>3. ASSUME NEW r \in Requests, Begin(r)
        PROVE  LiveInv'
    <2>1. pc[r] = "begin" /\ Advance(r, 1) /\ began' = [began EXCEPT ![r] = now]
          /\ UNCHANGED <<now, raw, live, forgotten, txRaw, txLive>>
      BY <1>3 DEF Begin
    <2>2. Others(r)
      BY <2>1 DEF Advance, Others, TypeOK, RequestTypeOK
    <2>3. Aside(r)
      BY <2>1, <2>2 DEF Aside, TypeOK, StoreTypeOK
    <2>4. pc'[r] \in Writing => stamp'[r] <= now' + MaxFuture
      BY <2>1, StampAdvance
    <2> QED
      BY <2>1, <2>3, <2>4, LiveOutside DEF Writing
  <1>4. ASSUME NEW r \in Requests, InsertRaw(r) \/ SkipStored(r) \/ AppendRow(r) \/ Upsert(r)
        PROVE  LiveInv'
    BY <1>4, LiveInsertRaw, LiveSkipStored, LiveAppendRow, LiveUpsert
  <1>5. ASSUME NEW r \in Requests, Reject(r) \/ Raise(r) \/ BreakDeadlock(r) \/ Fail(r)
        PROVE  LiveInv'
    BY <1>5, LiveRollback DEF Reject, Raise, BreakDeadlock, Fail
  <1>6. ASSUME NEW r \in Requests, Commit(r) \/ CommitUnseen(r)
        PROVE  LiveInv'
    <2>1. pc[r] = "commit" /\ Install(r) /\ UNCHANGED now /\ pc'[r] \in {"idle", "reply"}
      BY <1>6 DEF Commit, CommitUnseen, Goto, Leave, TypeOK, RequestTypeOK
    <2>2. Others(r)
      BY <1>6 DEF Commit, CommitUnseen, Goto, Leave, Others, TypeOK, RequestTypeOK
    <2> QED
      BY <2>1, <2>2, StoredStep, LiveInstall
  <1>7. ASSUME NEW r \in Requests, Reply(r)
        PROVE  LiveInv'
    <2>1. Aside(r) /\ pc[r] = "reply" /\ pc'[r] = "idle"
      BY <1>7 DEF Reply, Leave, Aside, Others, TypeOK, StoreTypeOK, RequestTypeOK
    <2> QED
      BY <1>7, <2>1, LiveOutside DEF Reply, Writing
  <1>8. ASSUME NEW r \in Requests, GiveUp(r)
        PROVE  LiveInv'
    BY <1>8, LiveStill DEF GiveUp, TypeOK, StoreTypeOK
  <1>9. CASE Restart
    <2>1. /\ \A r \in Requests : pc'[r] = "idle"
          /\ \A r \in Requests, e \in Events : txRaw'[r][e] = NoRow
          /\ \A r \in Requests, s \in Subjects : txLive'[r][s] = NoRow
      BY <1>9 DEF Restart
    <2>2. LiveLocked' /\ LiveCovers' /\ StampBounded'
      BY <2>1 DEF LiveLocked, LiveCovers, CoveredOK, StampBounded, Writing
    <2> QED
      BY <1>9, <2>2, NewestQuiet DEF Restart, LiveInv, TypeOK, StoreTypeOK
  <1>10. CASE Tick \/ UNCHANGED vars
    BY <1>10, LiveStill DEF Tick, vars, TypeOK, StoreTypeOK
  <1>11. ASSUME NEW age \in PruneAges, Prune(age)
         PROVE  LiveInv'
    BY <1>11, LivePrune
  <1> QED
    BY <1>1, <1>2, <1>3, <1>4, <1>5, <1>6, <1>7, <1>8, <1>9, <1>10, <1>11
    DEF Next, Handler, Rest

LEMMA LiveInductive ==
  /\ Init => TypeOK /\ KeyInv /\ LiveInv
  /\ TypeOK /\ KeyInv /\ LiveInv /\ [Next]_vars => (TypeOK /\ KeyInv /\ LiveInv)'
  BY InitType, InitKey, InitLive, TypeStep, KeyStep, LiveStep

\* The WHERE clauses of the upserts and the row locks they take keep the live
\* map at the newest archived report, whatever the order of the transactions.
THEOREM LiveRowsAreNewest == Spec => []LiveIsNewest
  <1>1. TypeOK /\ KeyInv /\ LiveInv => LiveIsNewest
    BY DEF LiveInv
  <1> QED
    BY <1>1, LiveInductive, PTL DEF Spec

\* The clamp at the top of write_event bounds every row it can lead to, also
\* one whose statement waited for a lock long after the clamp.
THEOREM LiveRowsAreNotFarAhead == Spec => []FutureBounded
  <1>1. TypeOK /\ KeyInv /\ LiveInv => FutureBounded
    BY DEF LiveInv
  <1> QED
    BY <1>1, LiveInductive, PTL DEF Spec

\* Whichever transaction commits last, no vessel or lock goes back in time.
THEOREM LiveRowsNeverGoBack == Spec => SeenNeverGoesBack
  <1> DEFINE Forward == \A s \in Subjects :
                           live[s] # NoRow => live'[s] # NoRow /\ live'[s].seen >= live[s].seen
  <1>1. ASSUME TypeOK, KeyInv, LiveInv, [Next]_vars
        PROVE  [Forward]_vars
    <2>1. \/ \E r \in Requests : Install(r)
          \/ UNCHANGED live
      BY <1>1
      DEF Next, Handler, Send, Reject, Admit, Begin, InsertRaw, SkipStored, AppendRow, Upsert,
          Raise, Commit, Reply, BreakDeadlock, Fail, CommitUnseen, GiveUp, Restart, Tick,
          Prune, Rest, Rollback, vars, dbVars
    <2>2. ASSUME NEW s \in Subjects, live[s] # NoRow
          PROVE  live'[s] # NoRow /\ live'[s].seen >= live[s].seen
      <3>1. live[s].seen \in Nat
        BY <1>1, <2>2 DEF TypeOK, StoreTypeOK, LiveRow
      <3>2. CASE UNCHANGED live
        BY <2>2, <3>1, <3>2
      <3>3. ASSUME NEW r \in Requests, Install(r)
            PROVE  live'[s] # NoRow /\ live'[s].seen >= live[s].seen
        <4>1. live'[s] = IF txLive[r][s] # NoRow THEN txLive[r][s] ELSE live[s]
          BY <3>3 DEF Install
        <4>2. CASE txLive[r][s] = NoRow
          BY <2>2, <3>1, <4>1, <4>2
        <4>3. CASE txLive[r][s] # NoRow
          <5>1. live[s].seen <= txLive[r][s].seen
            BY <1>1, <2>2, <4>3 DEF LiveInv, LiveLocked, HeldOK
          <5>2. txLive[r][s].seen \in Nat
            BY <1>1, <4>3 DEF TypeOK, TxTypeOK, LiveRow
          <5> QED
            BY <3>1, <4>1, <4>3, <5>1, <5>2
        <4> QED
          BY <4>2, <4>3
      <3> QED
        BY <2>1, <3>2, <3>3
    <2> QED
      BY <2>2
  <1> QED
    BY <1>1, LiveInductive, PTL DEF Spec, SeenNeverGoesBack

----------------------------------------------------------------------------
(* The promise to the collector                                            *)

\* What the events of a batch and the rows of a view are to the ledger.
LEMMA LedgerParameters ==
  /\ \A b \in Batches : {BatchEvents[b][i] : i \in DOMAIN BatchEvents[b]} \subseteq Events
  /\ \A r \in RawRow : r.observed \in Nat /\ r.observed # NoTime
  /\ \A r \in LiveRow : r.seen \in Nat /\ r.seen # NoTime /\ r.event \in Events
  /\ \A e \in Events : UpsertsRow(e) => Subject[e] \in Subjects
  <1>1. \A b \in Batches : {BatchEvents[b][i] : i \in DOMAIN BatchEvents[b]} \subseteq Events
    BY BatchAssumption
  <1>2. \A e \in Events : UpsertsRow(e) => Subject[e] \in Subjects
    BY EventAssumption DEF UpsertsRow
  <1> QED
    BY <1>1, <1>2 DEF RawRow, LiveRow, NoTime

\* The whole invariant of the handler, and that nothing is ever pruned.
Kept == TypeOK /\ KeyInv /\ BatchInv /\ LiveInv /\ forgotten = {}

LEMMA InitKept == Init => Kept
  <1>1. Init => TypeOK /\ KeyInv /\ BatchInv /\ LiveInv
    BY InitType, InitKey, InitBatch, InitLive
  <1> QED
    BY <1>1 DEF Kept, Init

LEMMA KeptStep ==
  ASSUME PruneAges = {}, Kept, [Next]_vars
  PROVE  Kept'
  <1>1. (TypeOK /\ KeyInv /\ BatchInv /\ LiveInv)'
    BY TypeStep, KeyStep, BatchStep, LiveStep DEF Kept
  <1>2. forgotten' = forgotten
    BY DEF Next, Handler, Send, Reject, Admit, Begin, InsertRaw, SkipStored, AppendRow, Upsert,
           Raise, Commit, Reply, BreakDeadlock, Fail, CommitUnseen, GiveUp, Restart, Tick,
           Rest, Rollback, Install, vars, dbVars
  <1> QED
    BY <1>1, <1>2 DEF Kept

LEMMA InitLedger == Init => Ledger!Init
  BY DEF Init, Ledger!Init

\* The ledger and the view the code's state stands for.
Book == [e \in Events |-> IF raw[e] = NoRow THEN NoTime ELSE raw[e].observed]
Shown == [s \in Subjects |-> IF live[s] = NoRow THEN NoTime ELSE live[s].seen]

\* The view the ledger calls for: the newest recorded time of every subject.
NewestShown ==
  \A s \in Subjects :
      IF Ledger!TimesOf(s, Book) = {} THEN Shown[s] = NoTime
      ELSE Shown[s] \in Ledger!TimesOf(s, Book) /\ \A t \in Ledger!TimesOf(s, Book) : t <= Shown[s]

\* The times the ledger knows of a subject are those of its archived events, and the newest of
\* them is the live one.
LEMMA ViewIsNewest == Kept => NewestShown
  <1> SUFFICES ASSUME Kept, NEW s \in Subjects
               PROVE  IF Ledger!TimesOf(s, Book) = {} THEN Shown[s] = NoTime
                      ELSE Shown[s] \in Ledger!TimesOf(s, Book) /\ \A t \in Ledger!TimesOf(s, Book) : t <= Shown[s]
    BY DEF NewestShown
  <1>1. Ledger!TimesOf(s, Book) = {raw[e].observed : e \in {d \in Events : raw[d] # NoRow /\ UpsertsRow(d) /\ Subject[d] = s}}
    <2>1. \A d \in Events : Book[d] # NoTime <=> raw[d] # NoRow
      BY LedgerParameters DEF Kept, TypeOK, StoreTypeOK, Book
    <2>2. \A d \in Events : raw[d] # NoRow => Book[d] = raw[d].observed
      BY DEF Book
    <2> QED
      BY <2>1, <2>2 DEF Ledger!TimesOf
  <1>2. CASE live[s] = NoRow
    <2>1. \A e \in Events : ~(raw[e] # NoRow /\ UpsertsRow(e) /\ Subject[e] = s)
      BY <1>2 DEF Kept, LiveInv, LiveIsNewest
    <2> QED
      BY <1>1, <1>2, <2>1 DEF Shown
  <1>3. CASE live[s] # NoRow
    <2> DEFINE e == live[s].event
    <2>1. live[s] \in LiveRow /\ e \in Events
      BY <1>3, LedgerParameters DEF Kept, TypeOK, StoreTypeOK
    <2>2. UpsertsRow(e) /\ Subject[e] = s /\ raw[e] # NoRow /\ raw[e].observed = live[s].seen
      BY <1>3, <2>1 DEF Kept, LiveInv, LiveIsNewest, Stored
    <2>3. Shown[s] = live[s].seen
      BY <1>3 DEF Shown
    <2>4. \A d \in Events : raw[d] # NoRow /\ UpsertsRow(d) /\ Subject[d] = s => raw[d].observed <= live[s].seen
      BY DEF Kept, LiveInv, LiveIsNewest
    <2> HIDE DEF e
    <2> QED
      BY <1>1, <2>1, <2>2, <2>3, <2>4
  <1> QED
    BY <1>2, <1>3

\* A commit records what its batch still lacks, all at once, and moves the view to the newest.
LEMMA CommitRecords ==
  ASSUME Kept, Kept', NEW r \in Requests, NEW b \in Batches, b = batch[r],
         pc[r] = "commit", Install(r), UNCHANGED spool
  PROVE  Ledger!Record(b)
  <1> DEFINE content == {EventsOf(r)[i] : i \in DOMAIN EventsOf(r)}
  <1>1. batch[r] \in Batches /\ content \subseteq Events
    BY LedgerParameters DEF Kept, TypeOK, RequestTypeOK, EventsOf
  <1>2. ASSUME NEW e \in Events
        PROVE  \/ Book'[e] = Book[e] /\ (e \in content => Book[e] # NoTime)
               \/ e \in content /\ Book[e] = NoTime /\ Book'[e] \in Nat
    <2>1. raw'[e] = IF txRaw[r][e] # NoRow THEN txRaw[r][e] ELSE raw[e]
      BY DEF Install
    <2>2. CASE txRaw[r][e] # NoRow
      <3>1. raw[e] = NoRow
        BY <2>2 DEF Kept, KeyInv, KeyExclusive
      <3>2. e \in content
        BY <2>2 DEF Kept, BatchInv, Progress, ProgressOf
      <3>3. txRaw[r][e] \in RawRow
        BY <2>2 DEF Kept, TypeOK, TxTypeOK
      <3> QED
        BY <2>1, <2>2, <3>1, <3>2, <3>3, LedgerParameters DEF Book
    <2>3. CASE txRaw[r][e] = NoRow
      <3>1. e \in content => raw[e] # NoRow
        BY <2>3 DEF Kept, BatchInv, Progress, ProgressOf, Stored
      <3>2. raw[e] # NoRow => raw[e] \in RawRow
        BY DEF Kept, TypeOK, StoreTypeOK
      <3> QED
        BY <2>1, <2>3, <3>1, <3>2, LedgerParameters DEF Book
    <2> QED
      BY <2>2, <2>3
  <1>3. NewestShown'
    BY ViewIsNewest, PTL
  <1>4. DOMAIN Book' = Events
    BY DEF Book
  <1>5. content = [c \in Batches |-> {BatchEvents[c][i] : i \in DOMAIN BatchEvents[c]}][b]
    BY <1>1 DEF EventsOf
  <1> HIDE DEF content
  <1> QED
    BY <1>2, <1>3, <1>4, <1>5 DEF Ledger!Record, Ledger!Recorded, Ledger!TimesOf, NewestShown, Book, Shown

\* A 200 that is still awaited acknowledges a batch whose events are all recorded.
LEMMA ReplyAcknowledges ==
  ASSUME Kept, NEW r \in Requests, NEW b \in Batches, b = batch[r], Reply(r)
  PROVE  Ledger!Acknowledge(b) \/ UNCHANGED Ledger!LedgerVars
  <1>1. UNCHANGED <<raw, live>>
    BY DEF Reply, dbVars
  <1>2. CASE ~(awaited[r] /\ batch[r] \in spool)
    <2>1. spool' = spool
      BY <1>2 DEF Reply
    <2> QED
      BY <1>1, <2>1 DEF Ledger!LedgerVars
  <1>3. CASE awaited[r] /\ batch[r] \in spool
    <2>1. batch[r] \in Batches
      OBVIOUS
    <2>2. \A i \in DOMAIN EventsOf(r) : raw[EventsOf(r)[i]] # NoRow
      BY DEF Reply, Kept, BatchInv, Progress, ProgressOf, Stored
    <2>3. \A e \in Events : raw[e] # NoRow => raw[e].observed # NoTime
      BY LedgerParameters DEF Kept, TypeOK, StoreTypeOK
    <2>4. \A i \in DOMAIN EventsOf(r) : EventsOf(r)[i] \in Events
      BY <2>1, LedgerParameters DEF EventsOf
    <2>5. \A i \in DOMAIN EventsOf(r) : Book[EventsOf(r)[i]] # NoTime
      BY <2>2, <2>3, <2>4 DEF Book
    <2>6. spool' = spool \ {batch[r]}
      BY <1>3 DEF Reply
    <2> QED
      BY <1>1, <1>3, <2>1, <2>5, <2>6 DEF Ledger!Acknowledge, Ledger!Recorded, Book, EventsOf
  <1> QED
    BY <1>2, <1>3

LEMMA LedgerStep ==
  ASSUME PruneAges = {}, Kept, Kept', [Next]_vars
  PROVE  [Ledger!Next]_(Ledger!LedgerVars)
  <1> DEFINE Quiet == UNCHANGED <<spool, raw, live>>
  <1>1. Quiet => UNCHANGED Ledger!LedgerVars
    BY DEF Ledger!LedgerVars
  <1>2. ASSUME NEW r \in Requests, pc[r] = "commit", Install(r), UNCHANGED spool
        PROVE  Ledger!Next
    <2>1. batch[r] \in Batches
      BY <1>2 DEF Kept, TypeOK, RequestTypeOK
    <2>2. PICK b \in Batches : b = batch[r]
      BY <2>1
    <2>3. Ledger!Record(b)
      BY <1>2, <2>2, CommitRecords
    <2> QED
      BY <2>3 DEF Ledger!Next
  <1>3. ASSUME NEW r \in Requests, Commit(r) \/ CommitUnseen(r)
        PROVE  Ledger!Next
    BY <1>2, <1>3 DEF Commit, CommitUnseen
  <1>4. ASSUME NEW r \in Requests, Reply(r)
        PROVE  [Ledger!Next]_(Ledger!LedgerVars)
    <2>1. batch[r] \in Batches
      BY <1>4 DEF Kept, TypeOK, RequestTypeOK, Reply
    <2>2. PICK b \in Batches : b = batch[r]
      BY <2>1
    <2>3. Ledger!Acknowledge(b) \/ UNCHANGED Ledger!LedgerVars
      BY <1>4, <2>2, ReplyAcknowledges
    <2> QED
      BY <2>3 DEF Ledger!Next
  <1>5. ASSUME NEW r \in Requests,
               \/ Reject(r) \/ Admit(r) \/ Begin(r) \/ InsertRaw(r) \/ SkipStored(r)
               \/ AppendRow(r) \/ Upsert(r) \/ Raise(r) \/ BreakDeadlock(r) \/ Fail(r) \/ GiveUp(r)
        PROVE  Quiet
    BY <1>5 DEF Reject, Admit, Begin, InsertRaw, SkipStored, AppendRow, Upsert, Raise,
                BreakDeadlock, Fail, GiveUp, Rollback, dbVars
  <1>6. ASSUME NEW r \in Requests, NEW b \in Batches, Send(r, b)
        PROVE  Quiet
    BY <1>6 DEF Send, dbVars
  <1>7. Restart \/ Tick \/ Rest \/ UNCHANGED vars => Quiet
    BY DEF Restart, Tick, Rest, vars, dbVars
  <1> HIDE DEF Quiet
  <1> QED
    BY <1>1, <1>3, <1>4, <1>5, <1>6, <1>7 DEF Next, Handler

\* As long as nothing is pruned, /ingest is the ledger it promises to be: whatever interleaving of
\* requests, lost responses, failed statements, deadlocks and restarts, a step of the handler either
\* shows nothing outside, or records all that a batch lacks at once and moves the view to the newest
\* time, or acknowledges a batch whose events are all recorded.
THEOREM IngestKeepsLedger ==
  ASSUME PruneAges = {}
  PROVE  Spec => KeepsLedger
  <1>1. Init => Kept /\ Ledger!Init
    BY InitKept, InitLedger
  <1>2. Kept /\ [Next]_vars => Kept'
    BY KeptStep
  <1>3. Kept /\ Kept' /\ [Next]_vars => [Ledger!Next]_(Ledger!LedgerVars)
    BY LedgerStep
  <1> QED
    BY <1>1, <1>2, <1>3, PTL DEF Spec, KeepsLedger, Ledger!Spec
=============================================================================
