-------------------------- MODULE TelemetryLedger --------------------------
(***************************************************************************)
(* What the collector is promised by /ingest, without transactions, locks, *)
(* retries or clocks: a ledger in which the events of a batch are recorded *)
(* all at once and each of them once, and a view that shows, for every     *)
(* vessel and lock, the newest recorded time.  A batch is acknowledged     *)
(* only when everything in it is recorded.                                 *)
(***************************************************************************)
EXTENDS Integers, FiniteSets

CONSTANTS
    Events, Subjects, Batches,
    Content,      \* [Batches -> SUBSET Events]
    Updates,      \* [Events -> SUBSET Subjects], the view rows an event may move
    NoTime

VARIABLES
    pending,      \* batches not acknowledged
    recorded,     \* [Events -> Nat \cup {NoTime}], the time an event was recorded with
    view          \* [Subjects -> Nat \cup {NoTime}]

Recorded(e) == recorded[e] # NoTime

Init ==
    /\ pending = Batches
    /\ recorded = [e \in Events |-> NoTime]
    /\ view = [s \in Subjects |-> NoTime]

\* Times of the recorded events about s.
TimesOf(s, ledger) == {ledger[e] : e \in {d \in Events : ledger[d] # NoTime /\ s \in Updates[d]}}

\* All of b that is not recorded yet is recorded; recorded events keep their time.
Record(b) ==
    /\ \A e \in Events :
          \/ recorded'[e] = recorded[e] /\ (e \in Content[b] => Recorded(e))
          \/ e \in Content[b] /\ ~Recorded(e) /\ recorded'[e] \in Nat
    /\ DOMAIN recorded' = Events
    /\ \A s \in Subjects :
          IF TimesOf(s, recorded') = {} THEN view'[s] = NoTime
          ELSE view'[s] \in TimesOf(s, recorded') /\ \A t \in TimesOf(s, recorded') : t <= view'[s]
    /\ UNCHANGED pending

Acknowledge(b) ==
    /\ b \in pending
    /\ \A e \in Content[b] : Recorded(e)
    /\ pending' = pending \ {b}
    /\ UNCHANGED <<recorded, view>>

Next == \E b \in Batches : Record(b) \/ Acknowledge(b)

LedgerVars == <<pending, recorded, view>>

Spec == Init /\ [][Next]_LedgerVars
=============================================================================
