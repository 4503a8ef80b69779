---------------------------- MODULE TransitTable ----------------------------
(***************************************************************************)
(* The table of transit times between neighbouring locks that live         *)
(* positions are projected with: medians of what vessels really took, from *)
(* the lockages as far as they are stored, kept for an hour in a cache     *)
(* that overlapping requests fill.                                         *)
(***************************************************************************)
EXTENDS Lockages

CONSTANTS
    Big,         \* boats with four barges or more
    Requests,    \* requests that can be under way at once
    None,        \* no table, no median
    MinSamples,  \* EMPIRICAL_TRANSIT_MIN_N
    MaxGap,      \* EMPIRICAL_TRANSIT_MAX_GAP_H
    TTL          \* _EMPIRICAL_TRANSIT_TTL_S

Scan == [at : Nat, taken : Nat, rows : SUBSET Lockage]

ASSUME TableAssumption ==
    Big \subseteq Boats /\ {MinSamples, MaxGap, TTL} \subseteq Nat /\ MinSamples >= 1 /\ TTL >= 1
ASSUME NoneAssumption == None \notin Nat /\ None \notin Scan

VARIABLES
    cache,    \* _empirical_transit_cache: a scan, the time it is kept under and, as history,
              \* the time it was taken; or None
    pc,       \* what each request awaits
    asked,    \* now_t of each request
    table     \* the scan a request works on or answers with, or None

request == <<pc, asked, table>>
vars == <<river, cache, request>>

----------------------------------------------------------------------------
(* The table                                                               *)

Minutes(h) == h[2].at - h[1].at
Between(S, a, b) == {x \in S : NameOf[x.boat] = NameOf[a.boat] /\ a.at < x.at /\ x.at < b.at}

\* LEAD over the rows of one name.
Leads(S, a, b) == NameOf[a.boat] = NameOf[b.boat] /\ a.at < b.at /\ Between(S, a, b) = {}

\* Deviation: two lockages in a row at neighbouring locks are a hop whichever way she went.
HopsBothWays(S, k, w) ==
    {h \in S \X S : /\ h[1].lock = k /\ h[1].way = w /\ h[2].lock = k + w
                    /\ Leads(S, h[1], h[2]) /\ Minutes(h) <= MaxGap}

\* The samples of one leg: from lock k to the next one w of it.
Hops(S, k, w) ==
    {h \in S \X S : /\ h[1].lock = k /\ h[1].way = w /\ h[2].lock = k + w /\ h[2].way = w
                    /\ Leads(S, h[1], h[2]) /\ Minutes(h) <= MaxGap}

\* _median: the upper one of the two in the middle.
Median(H) ==
    CHOOSE m \in {Minutes(h) : h \in H} :
        /\ Cardinality({h \in H : Minutes(h) < m}) <= Cardinality(H) \div 2
        /\ Cardinality({h \in H : Minutes(h) <= m}) > Cardinality(H) \div 2

\* Too few samples have no median.
Entry(H) == IF Cardinality(H) >= MinSamples THEN Median(H) ELSE None

\* _empirical_leg_info on the table built from S: the median of her class, or of all.
LegInfo(S, k, w, big) ==
    LET own == Entry({h \in Hops(S, k, w) : (h[1].boat \in Big) = big})
    IN  IF own # None THEN own ELSE Entry(Hops(S, k, w))

----------------------------------------------------------------------------
(* _build_empirical_transit_table                                          *)

Kept == cache # None /\ now - cache.at < TTL

\* The cached table is answered at once.
Ask(r) ==
    /\ pc[r] = "idle"
    /\ asked' = [asked EXCEPT ![r] = now]
    /\ pc' = [pc EXCEPT ![r] = IF Kept THEN "answer" ELSE "scan"]
    /\ table' = [table EXCEPT ![r] = IF Kept THEN cache ELSE None]
    /\ UNCHANGED <<river, cache>>

\* The one statement sees the rows of its moment; its result comes back later.
Read(r) ==
    /\ pc[r] = "scan"
    /\ table' = [table EXCEPT ![r] = [at |-> asked[r], taken |-> now, rows |-> rows]]
    /\ pc' = [pc EXCEPT ![r] = "keep"]
    /\ UNCHANGED <<river, cache, asked>>

\* Deviation: kept under the time it is ready.
KeepUnderNow(r) ==
    /\ pc[r] = "keep"
    /\ cache' = [table[r] EXCEPT !.at = now]
    /\ pc' = [pc EXCEPT ![r] = "answer"]
    /\ UNCHANGED <<river, asked, table>>

\* Kept under the time the request came, over whatever another request has kept since.
Keep(r) ==
    /\ pc[r] = "keep"
    /\ cache' = table[r]
    /\ pc' = [pc EXCEPT ![r] = "answer"]
    /\ UNCHANGED <<river, asked, table>>

\* Deviation: the table is left behind.
DoneKeepsTable(r) ==
    /\ pc' = [pc EXCEPT ![r] = "idle"]
    /\ asked' = [asked EXCEPT ![r] = 0]
    /\ UNCHANGED <<river, table>>

Done(r) ==
    /\ pc' = [pc EXCEPT ![r] = "idle"]
    /\ asked' = [asked EXCEPT ![r] = 0]
    /\ table' = [table EXCEPT ![r] = None]
    /\ UNCHANGED river

Reply(r) == pc[r] = "answer" /\ Done(r) /\ UNCHANGED cache

\* The statement times out or raises: the projection is left out of the answer.
Fail(r) == pc[r] \in {"scan", "keep"} /\ Done(r) /\ UNCHANGED cache

\* The process ends and with it the cache and the requests.
Restart ==
    /\ cache # None
    /\ cache' = None
    /\ pc' = [r \in Requests |-> "idle"]
    /\ asked' = [r \in Requests |-> 0]
    /\ table' = [r \in Requests |-> None]
    /\ UNCHANGED river

Init ==
    /\ RiverInit
    /\ cache = None
    /\ pc = [r \in Requests |-> "idle"]
    /\ asked = [r \in Requests |-> 0]
    /\ table = [r \in Requests |-> None]

Next ==
    \/ RiverStep /\ UNCHANGED <<cache, request>>
    \/ Restart
    \/ \E r \in Requests : Ask(r) \/ Read(r) \/ Keep(r) \/ Reply(r) \/ Fail(r)

Spec == Init /\ [][Next]_vars

----------------------------------------------------------------------------
(* Properties                                                              *)

\* The types of the state; only what is stored was scanned, and a request holds a table
\* from its scan on.
TypeOK ==
    /\ RiverTypeOK
    /\ cache \in Scan \cup {None}
    /\ pc \in [Requests -> {"idle", "scan", "keep", "answer"}]
    /\ asked \in [Requests -> 0 .. now]
    /\ table \in [Requests -> Scan \cup {None}]
    /\ \A r \in Requests : table[r] = None <=> pc[r] \in {"idle", "scan"}
    /\ \A s \in {cache} \cup {table[r] : r \in Requests} :
         s # None => s.taken <= now /\ s.rows \subseteq rows

\* The tables requests answer with.
Answers == {table[r].rows : r \in {q \in Requests : pc[q] = "answer"}}

\* No answer rests on a scan that was taken TTL or more before the request came, although
\* overlapping requests replace each other's tables, newer ones by older ones too.
ServedIsRecent ==
    \A r \in Requests : pc[r] = "answer" => table[r].taken > asked[r] - TTL

\* What boats took from lock k to the next one w of it, without another lock on the way.
Runs(k, w) ==
    {h \in made \X made : /\ Successive(h[1], h[2]) /\ h[1].way = w /\ h[2].way = w
                          /\ h[1].lock = k /\ h[2].lock = k + w}

\* Between two stored lockages of a boat at most one is missing, and none of a tow in cuts.
OneMissing(S) ==
    \A a, b \in S : a.boat = b.boat =>
        Cardinality({x \in made \ S : x.boat = a.boat /\ x.at \in a.at + 1 .. b.at - 1})
            <= IF a.boat \in Double THEN 0 ELSE 1

\* Every time the table gives for a leg is one that a boat really took over it, although
\* rows are stored late, out of order or never, as long as no two in succession are missing,
\* none of a tow in cuts, and every boat has a name of her own.
TimesAreReal ==
    \A S \in Answers :
        OneMissing(S) /\ (\A b, c \in Boats : NameOf[b] = NameOf[c] => b = c)
        => \A k \in Locks, w \in Ways, big \in BOOLEAN :
              LegInfo(S, k, w, big) # None => \E h \in Runs(k, w) : Minutes(h) = LegInfo(S, k, w, big)

=============================================================================
