-------------------------- MODULE NextVesselProofs --------------------------
(***************************************************************************)
(* Theorems about NextVessel and ArrivalBlocks: the answer of /next-vessel *)
(* for any river, any fleet and anything that happens between its queries. *)
(***************************************************************************)
EXTENDS ArrivalBlocks, EtaBandsProofs, FiniteSetTheorems, TLAPS

----------------------------------------------------------------------------
(* Finite sets of numbers                                                  *)

LEMMA FiniteHasMax ==
  ASSUME NEW S, S \subseteq Int, S # {}, IsFiniteSet(S)
  PROVE  \E x \in S : \A y \in S : y <= x
  <1> DEFINE Above(x) == {y \in S : y > x}
             T == {Above(x) : x \in S}
  <1>1. T \subseteq FiniteSubsetsOf(S) /\ T # {}
    <2>1. FiniteSubsetsOf(S) = SUBSET S
      BY FS_FiniteSubsetsOfFinite
    <2>2. \A x \in S : Above(x) \in SUBSET S
      OBVIOUS
    <2>3. PICK x : x \in S
      OBVIOUS
    <2>4. Above(x) \in T
      BY <2>3
    <2> HIDE DEF Above
    <2> QED
      BY <2>1, <2>2, <2>4
  <1>2. PICK A \in T : \A B \in T : ~(<<B, A>> \in StrictSubsetOrdering(S))
    BY <1>1, FS_StrictSubsetOrderingWellFounded, WFMin
  <1>3. PICK x \in S : A = Above(x)
    BY <1>2
  <1>4. ASSUME NEW z \in S, z > x PROVE FALSE
    <2> USE <1>4
    <2>3. z \in Int /\ x \in Int
      OBVIOUS
    <2>4. z \in Above(x)
      OBVIOUS
    <2>5. z \notin Above(z)
      BY <2>3
    <2>6. \A y \in S : y > z => y > x
      BY <2>3
    <2>1. Above(z) \in T /\ z \in Above(x) /\ z \notin Above(z) /\ Above(z) \subseteq Above(x)
      BY <2>4, <2>5, <2>6
    <2>2. <<Above(z), A>> \in StrictSubsetOrdering(S)
      BY <1>3, <2>1 DEF StrictSubsetOrdering
    <2> QED
      BY <1>2, <2>1, <2>2
  <1> QED
    BY <1>4

LEMMA FiniteHasMin ==
  ASSUME NEW S, S \subseteq Int, S # {}, IsFiniteSet(S)
  PROVE  \E x \in S : \A y \in S : x <= y
  <1> DEFINE Below(x) == {y \in S : y < x}
             T == {Below(x) : x \in S}
  <1>1. T \subseteq FiniteSubsetsOf(S) /\ T # {}
    <2>1. FiniteSubsetsOf(S) = SUBSET S
      BY FS_FiniteSubsetsOfFinite
    <2>2. \A x \in S : Below(x) \in SUBSET S
      OBVIOUS
    <2>3. PICK x : x \in S
      OBVIOUS
    <2>4. Below(x) \in T
      BY <2>3
    <2> HIDE DEF Below
    <2> QED
      BY <2>1, <2>2, <2>4
  <1>2. PICK A \in T : \A B \in T : ~(<<B, A>> \in StrictSubsetOrdering(S))
    BY <1>1, FS_StrictSubsetOrderingWellFounded, WFMin
  <1>3. PICK x \in S : A = Below(x)
    BY <1>2
  <1>4. ASSUME NEW z \in S, z < x PROVE FALSE
    <2> USE <1>4
    <2>3. z \in Int /\ x \in Int
      OBVIOUS
    <2>4. z \in Below(x)
      OBVIOUS
    <2>5. z \notin Below(z)
      BY <2>3
    <2>6. \A y \in S : y < z => y < x
      BY <2>3
    <2>1. Below(z) \in T /\ z \in Below(x) /\ z \notin Below(z) /\ Below(z) \subseteq Below(x)
      BY <2>4, <2>5, <2>6
    <2>2. <<Below(z), A>> \in StrictSubsetOrdering(S)
      BY <1>3, <2>1 DEF StrictSubsetOrdering
    <2> QED
      BY <1>2, <2>1, <2>2
  <1> QED
    BY <1>4

----------------------------------------------------------------------------
(* The parts of the multi-cut collapse                                     *)

OfTow(rows, r) == {q \in rows : q.tow = r.tow}
LastOf(rows, r) == \A q \in OfTow(rows, r) : q.end <= r.end \/ q.end > r.end + Multicut
ChainOf(rows, r) ==
    {q \in OfTow(rows, r) :
        q.end <= r.end /\ \A x \in OfTow(rows, r) : x.end \in q.end .. r.end - 1 => ~LastOf(rows, x)}
LargestOf(rows, r) ==
    CHOOSE b \in {q.barges : q \in ChainOf(rows, r)} : \A q \in ChainOf(rows, r) : q.barges <= b
Passage(rows, r) == [tow |-> r.tow, lock |-> r.lock, barges |-> LargestOf(rows, r), end |-> r.end]

LEMMA CollapseParts ==
  ASSUME NEW rows
  PROVE  Collapse(rows) = {Passage(rows, r) : r \in {q \in rows : LastOf(rows, q)}}
  BY DEF Collapse, Passage, LargestOf, ChainOf, LastOf, OfTow

LEMMA NumberFacts ==
  /\ Multicut \in Nat /\ Window \in Nat /\ Cuts \subseteq Nat /\ MaxHops \in Nat
  /\ \A leg \in Locks \X BOOLEAN : Med[leg] \in Nat /\ Late[leg] \in Nat
  BY ModelAssumption, BoundsAssumption

\* Images of finite sets of rows are finite.
LEMMA FiniteImages ==
  ASSUME NEW S, IsFiniteSet(S)
  PROVE  IsFiniteSet({q.barges : q \in S}) /\ IsFiniteSet({q.end : q \in S})
  <1> DEFINE barges == [q \in S |-> q.barges]
             end == [q \in S |-> q.end]
             B == {q.barges : q \in S}
             E == {q.end : q \in S}
  <1>1. barges \in Surjection(S, B)
    BY DEF Surjection
  <1>2. end \in Surjection(S, E)
    BY DEF Surjection
  <1> HIDE DEF barges, end
  <1> QED
    BY <1>1, <1>2, FS_Surjection

LEMMA LargestIsLargest ==
  ASSUME NEW rows, rows \subseteq Lockage, IsFiniteSet(rows), NEW r \in rows
  PROVE  /\ LargestOf(rows, r) \in Cuts
         /\ \A q \in ChainOf(rows, r) : q.barges <= LargestOf(rows, r)
  <1> DEFINE chain == ChainOf(rows, r)
             cuts == {q.barges : q \in chain}
  <1>1. r \in chain /\ chain \subseteq rows
    BY DEF ChainOf, OfTow, Lockage
  <1>2. IsFiniteSet(cuts)
    <2>1. IsFiniteSet(chain)
      BY <1>1, FS_Subset
    <2> QED
      BY <2>1, FiniteImages
  <1>3. cuts # {} /\ cuts \subseteq Cuts /\ cuts \subseteq Int
    <2>1. \A q \in chain : q.barges \in Cuts
      BY <1>1 DEF Lockage
    <2>2. r.barges \in cuts
      BY <1>1
    <2>3. Cuts \subseteq Int
      BY NumberFacts
    <2> HIDE DEF chain
    <2> QED
      BY <2>1, <2>2, <2>3
  <1>4. PICK b \in cuts : \A c \in cuts : c <= b
    BY <1>2, <1>3, FiniteHasMax
  <1>5. \E x \in cuts : \A q \in chain : q.barges <= x
    BY <1>4
  <1>6. LargestOf(rows, r) \in cuts /\ \A q \in chain : q.barges <= LargestOf(rows, r)
    BY <1>5 DEF LargestOf
  <1> QED
    BY <1>3, <1>6

\* A candidate is one of its departures, with the barges of its largest.
LEMMA CollapseType ==
  ASSUME NEW rows, rows \subseteq Lockage, IsFiniteSet(rows), NEW c \in Collapse(rows)
  PROVE  c \in Candidate /\ \E r \in rows : c.tow = r.tow /\ c.lock = r.lock /\ c.end = r.end
  <1>1. PICK r \in rows : c = Passage(rows, r)
    BY CollapseParts
  <1>2. LargestOf(rows, r) \in Cuts
    BY LargestIsLargest
  <1>3. r \in Lockage
    OBVIOUS
  <1> QED
    BY <1>1, <1>2, <1>3 DEF Passage, Candidate, Lockage

\* Two candidates of one tow are more than a cut's gap apart.
LEMMA CollapseApart ==
  ASSUME NEW rows, rows \subseteq Lockage, \A q, r \in rows : q.lock = r.lock,
         NEW c \in Collapse(rows), NEW d \in Collapse(rows), c # d, c.tow = d.tow
  PROVE  Distance(c.end, d.end) > Multicut
  <1>1. PICK r \in rows : c = Passage(rows, r) /\ LastOf(rows, r)
    BY CollapseParts
  <1>2. PICK s \in rows : d = Passage(rows, s) /\ LastOf(rows, s)
    BY CollapseParts
  <1>3. r.tow = s.tow /\ r.lock = s.lock /\ c.end = r.end /\ d.end = s.end
    BY <1>1, <1>2 DEF Passage
  <1>4. r.end \in Nat /\ s.end \in Nat
    BY DEF Lockage
  <1>5. OfTow(rows, r) = OfTow(rows, s) /\ r \in OfTow(rows, s) /\ s \in OfTow(rows, r)
    BY <1>3 DEF OfTow
  <1>6. r.end # s.end
    <2> SUFFICES ASSUME r.end = s.end PROVE c = d
      OBVIOUS
    <2>1. ChainOf(rows, r) = ChainOf(rows, s)
      BY <1>5 DEF ChainOf
    <2>2. LargestOf(rows, r) = LargestOf(rows, s)
      BY <2>1 DEF LargestOf
    <2> QED
      BY <1>1, <1>2, <1>3, <2>2 DEF Passage
  <1>7. s.end <= r.end \/ s.end > r.end + Multicut
    BY <1>1, <1>5 DEF LastOf
  <1>8. r.end <= s.end \/ r.end > s.end + Multicut
    BY <1>2, <1>5 DEF LastOf
  <1> QED
    BY <1>3, <1>4, <1>6, <1>7, <1>8, NumberFacts DEF Distance

\* No departure is lost: its passage ends with it or later and is no smaller.
LEMMA CollapseCarries ==
  ASSUME NEW rows, rows \subseteq Lockage, IsFiniteSet(rows), NEW r \in rows
  PROVE  \E c \in Collapse(rows) : c.tow = r.tow /\ c.end >= r.end /\ c.barges >= r.barges
  <1> DEFINE of == OfTow(rows, r)
             lasts == {q \in of : LastOf(rows, q) /\ q.end >= r.end}
  <1>1. of \subseteq rows /\ r \in of /\ \A q \in of : q.end \in Nat /\ OfTow(rows, q) = of
    BY DEF OfTow, Lockage
  <1>2. IsFiniteSet(of) /\ IsFiniteSet(lasts)
    BY <1>1, FS_Subset
  <1>3. lasts # {}
    <2> DEFINE ends == {q.end : q \in of}
    <2>1. IsFiniteSet(ends) /\ ends # {} /\ ends \subseteq Int
      <3>1. r.end \in ends /\ \A q \in of : q.end \in Int
        BY <1>1
      <3> HIDE DEF of
      <3> QED
        BY <1>2, <3>1, FiniteImages
    <2>2. PICK m \in ends : \A n \in ends : n <= m
      BY <2>1, FiniteHasMax
    <2>3. PICK q \in of : q.end = m
      BY <2>2
    <2>4. LastOf(rows, q)
      BY <1>1, <2>2, <2>3 DEF LastOf
    <2> QED
      BY <1>1, <2>2, <2>3, <2>4
  <1>4. PICK x \in lasts : \A q \in lasts : x.end <= q.end
    <2> DEFINE ends == {q.end : q \in lasts}
    <2>1. IsFiniteSet(ends) /\ ends # {} /\ ends \subseteq Int
      <3>1. \A q \in lasts : q.end \in Int
        BY <1>1
      <3>2. IsFiniteSet(ends)
        BY <1>2, FiniteImages
      <3>3. ends # {}
        BY <1>3
      <3> HIDE DEF lasts
      <3> QED
        BY <3>1, <3>2, <3>3
    <2>2. PICK m \in ends : \A n \in ends : m <= n
      BY <2>1, FiniteHasMin
    <2> QED
      BY <2>2
  <1>5. x \in rows /\ x.tow = r.tow /\ x.end >= r.end /\ LastOf(rows, x) /\ OfTow(rows, x) = of
    BY <1>1, <1>4 DEF OfTow
  <1>6. r \in ChainOf(rows, x)
    <2>1. \A q \in of : q.end \in r.end .. x.end - 1 => ~LastOf(rows, q)
      BY <1>1, <1>4
    <2> QED
      BY <1>1, <1>5, <2>1 DEF ChainOf
  <1>7. r.barges <= LargestOf(rows, x) /\ LargestOf(rows, x) \in Cuts
    BY <1>5, <1>6, LargestIsLargest
  <1>8. Passage(rows, x) \in Collapse(rows)
    BY <1>5, CollapseParts
  <1>9. r.barges \in Nat
    BY NumberFacts DEF Lockage
  <1> QED
    BY <1>5, <1>7, <1>8, <1>9, NumberFacts DEF Passage

\* Of cuts that are all among the rows, a candidate has the last and largest of its passage.
LEMMA CollapseTakesIn ==
  ASSUME NEW rows, rows \subseteq Lockage, IsFiniteSet(rows), NEW c \in Collapse(rows),
         NEW cuts, cuts \subseteq rows, \A q \in cuts : q.tow = c.tow, NEW r \in cuts
  PROVE  /\ r.end \notin c.end + 1 .. c.end + Multicut
         /\ r.end <= c.end /\ (\A t \in r.end .. c.end - 1 : \E q \in cuts : q.end \in t + 1 .. t + Multicut)
              => r.barges <= c.barges
  <1>1. PICK x \in rows : c = Passage(rows, x) /\ LastOf(rows, x)
    BY CollapseParts
  <1>2. c.end = x.end /\ c.tow = x.tow /\ c.barges = LargestOf(rows, x)
    BY <1>1 DEF Passage
  <1>3. x.end \in Nat /\ r.end \in Nat /\ r \in OfTow(rows, x) /\ Multicut \in Nat
    BY <1>2, NumberFacts DEF OfTow, Lockage
  <1>4. r.end \notin c.end + 1 .. c.end + Multicut
    BY <1>1, <1>2, <1>3 DEF LastOf
  <1>5. ASSUME r.end <= c.end, \A t \in r.end .. c.end - 1 : \E q \in cuts : q.end \in t + 1 .. t + Multicut
        PROVE  r.barges <= c.barges
    <2>1. ASSUME NEW y \in OfTow(rows, x), y.end \in r.end .. x.end - 1 PROVE ~LastOf(rows, y)
      <3>1. PICK q \in cuts : q.end \in y.end + 1 .. y.end + Multicut
        BY <1>2, <1>5, <2>1
      <3>2. q \in OfTow(rows, y) /\ y.end \in Nat /\ q.end \in Nat
        BY <1>2 DEF OfTow, Lockage
      <3>3. ~(q.end <= y.end) /\ ~(q.end > y.end + Multicut)
        BY <1>3, <3>1, <3>2
      <3> QED
        BY <3>2, <3>3 DEF LastOf
    <2>2. r \in ChainOf(rows, x)
      BY <1>2, <1>3, <1>5, <2>1 DEF ChainOf
    <2> QED
      BY <1>2, <2>2, LargestIsLargest
  <1> QED
    BY <1>4, <1>5

----------------------------------------------------------------------------
(* The invariant of the walk                                               *)

\* The candidates of an answer in the making, and of the finished one.
InFlight == unrated \cup unheard \cup {e.tow : e \in rated}

\* What is in hand at each of the handler's awaits.
Stages ==
    /\ pc \in {"idle", "pull"} => unchecked = {} /\ kept = {} /\ unrated = {} /\ unheard = {} /\ rated = {}
    /\ pc = "check" => unrated = {} /\ unheard = {} /\ rated = {}
    /\ pc = "rate" => unchecked = {} /\ kept = {}
    /\ pc = "reply" => unchecked = {} /\ kept = {} /\ unrated = {} /\ unheard = {}
    /\ pc \in {"check", "rate"} => hop <= MaxHops

\* Departures in hand are from the lock in hand and left in the window.
Rows ==
    /\ IsFiniteSet(lockages)
    /\ \A r \in unchecked \cup kept : r.lock \in NthLock(way, hop) /\ asked - r.end \in 0 .. Window
    /\ unrated \cap unheard = {} /\ (\A c, d \in unheard : c = d)
    /\ \A c \in unrated \cup unheard : Elapsed(c) \in 0 .. Window

\* The candidates of one tow are passages apart, and each is rated once.
Apart ==
    /\ \A c, d \in InFlight : c # d /\ c.tow = d.tow => Distance(c.end, d.end) > Multicut
    /\ \A e, f \in rated : e.tow = f.tow => e = f

\* The position of a tow is the latest of those it has been since the request came.
Hearing ==
    pc # "idle" =>
        \A v \in Tows : position[v] \in heard[v] /\ \A p \in heard[v] : NotAfter(p, position[v])

WalkInv == TypeOK /\ Stages /\ Rows /\ Apart /\ Hearing

\* Departures on record that nothing speaks against are in hand until they are collapsed, and
\* then each candidate takes in those of its passage.
CutsKept ==
    /\ pc = "check" =>
          \A r \in OnRecord : r.lock \in NthLock(way, hop) /\ NotPassed(r) => r \in unchecked \cup kept
    /\ \A c \in InFlight : NotPassed(c) => TakesIn(c)

\* Tows on their way that nothing heard speaks against.
Due == {r \in OnTheirWay : NotPassed(r)}

\* A candidate that stands for a departure.
Carries(c, r) == c.tow = r.tow /\ c.lock = r.lock /\ c.end >= r.end /\ c.barges >= r.barges

\* Who is due is in hand from the first lock on, so that there is no walk past her.
DueKept ==
    /\ pc \in {"pull", "check", "rate"} /\ hop > 1 => Due = {}
    /\ pc = "check" => Due \subseteq unchecked \cup kept
    /\ pc = "rate" => \A r \in Due : \E c \in InFlight : Carries(c, r)
    /\ pc = "reply" /\ MaxHops >= 1 => \A r \in Due : \E e \in rated : Carries(e.tow, r)

----------------------------------------------------------------------------
(* The invariant of the blocks                                             *)

\* The mile a candidate was heard live at is of one of her positions.
Confirmed == \A e \in rated : \E p \in heard[e.tow.tow] : e.live = LiveMile(p)

\* x stands before all tows heard live but those of done.
Foremost(x, done) ==
    \A f \in rated : f.live # Unknown /\ f.tow \notin done \cup {x.tow} =>
        x.live # Unknown /\ Distance(User, x.live) <= Distance(User, f.live)

\* The candidates of the blocks up to the ith.
DoneBy(i) == {blocks[j].tow : j \in 1 .. i}

InOrderBlock(b) ==
    /\ b.band.med <= b.band.p90
    /\ b.source # "reckoned" => b.band.p10 <= b.band.med
    /\ b.source # "lock" => b.band.p10 >= 0

\* The candidate in hand.
InHand(x) ==
    /\ [tow |-> x.tow, live |-> x.live] \in rated /\ x.tow \notin Done
    /\ x.estimate \in Nat \cup {Unknown}
    /\ \E p, q \in heard[x.tow.tow] : NotAfter(p, q) /\ x.live = LiveMile(p) /\ x.estimate = LiveEstimate(q)
    /\ Foremost(x, Done)

\* What the ith block says is what her positions said, none older than the one before.
Said(b, hers) ==
    \E p, q, t \in hers :
        /\ NotAfter(p, q) /\ NotAfter(q, t)
        /\ b.live = LiveMile(p) /\ b.estimate = LiveEstimate(q)
        /\ [source |-> b.source, band |-> b.band] = Arrival(b.tow, t)

Made(i) ==
    LET b == blocks[i] IN
    [tow |-> b.tow, live |-> b.live] \in rated /\ Said(b, heard[b.tow.tow])

BlockInv ==
    /\ blocks \in Seq(Block) /\ Len(blocks) <= MaxBoats
    /\ IsFiniteSet(Done) /\ Cardinality(Done) = Len(blocks)
    /\ Cardinality(estimated) <= 1
    /\ blocks # <<>> \/ estimated # {} => pc = "reply"
    /\ estimated # {} => Len(blocks) < MaxBoats
    /\ Confirmed
    /\ \A x \in estimated : InHand(x)
    /\ \A i \in 1 .. Len(blocks) : Made(i) /\ InOrderBlock(blocks[i]) /\ Foremost(blocks[i], DoneBy(i))

----------------------------------------------------------------------------
(* The walk                                                                *)

\* The nth lock behind a tow is one lock.
LEMMA OneLock ==
  ASSUME NEW w \in Ways, NEW n, NEW j \in NthLock(w, n), NEW k \in NthLock(w, n)
  PROVE  j = k
  <1> DEFINE near(x) == {i \in Behind(w) : w * (LockMile[i] - LockMile[x]) > 0}
  <1>1. j \in Behind(w) /\ k \in Behind(w) /\ Behind(w) \subseteq Locks
    BY DEF NthLock, Behind
  <1>2. Cardinality(near(j)) = Cardinality(near(k))
    BY DEF NthLock
  <1>3. ASSUME NEW x \in Behind(w), NEW y \in Behind(w), w * (LockMile[x] - LockMile[y]) > 0
        PROVE  Cardinality(near(x)) # Cardinality(near(y))
    <2>1. \A i \in Behind(w) : LockMile[i] \in Int
      BY <1>1, RiverAssumption
    <2>2. w = 1 \/ w = -1
      BY DEF Ways
    <2>3. near(x) \subseteq near(y)
      BY <1>3, <2>1, <2>2
    <2>4. x \in near(y) /\ x \notin near(x)
      BY <1>3, <2>1, <2>2
    <2>5. IsFiniteSet(near(x)) /\ IsFiniteSet(near(y))
      <3>1. near(x) \subseteq Locks /\ near(y) \subseteq Locks
        BY <1>1
      <3> HIDE DEF near
      <3> QED
        BY <3>1, RiverAssumption, FS_Subset
    <2> HIDE DEF near
    <2>6. Cardinality(near(x)) < Cardinality(near(y))
      <3>1. Cardinality(near(x)) <= Cardinality(near(y)) /\ (Cardinality(near(x)) = Cardinality(near(y)) => near(x) = near(y))
        BY <2>3, <2>5, FS_Subset
      <3>2. Cardinality(near(x)) \in Nat /\ Cardinality(near(y)) \in Nat
        BY <2>5, FS_CardinalityType
      <3> QED
        BY <2>4, <3>1, <3>2
    <2>7. Cardinality(near(x)) \in Nat /\ Cardinality(near(y)) \in Nat
      BY <2>5, FS_CardinalityType
    <2> QED
      BY <2>6, <2>7
  <1>4. ~(w * (LockMile[j] - LockMile[k]) > 0) /\ ~(w * (LockMile[k] - LockMile[j]) > 0)
    <2> HIDE DEF near
    <2> QED
      BY <1>1, <1>2, <1>3
  <1>5. LockMile[j] = LockMile[k]
    <2>1. LockMile[j] \in Int /\ LockMile[k] \in Int /\ (w = 1 \/ w = -1)
      BY <1>1, RiverAssumption DEF Ways
    <2> QED
      BY <1>4, <2>1
  <1> QED
    BY <1>1, <1>5, RiverAssumption

LEMMA LiveMileType ==
  ASSUME NEW p \in Position \cup {Unknown}
  PROVE  LiveMile(p) \in Miles \cup {Unknown}
  BY DEF LiveMile, Position

LEMMA InitWalk ==
  Init => WalkInv
  <1> SUFFICES ASSUME Init PROVE WalkInv
    OBVIOUS
  <1>1. Cardinality({}) = 0 /\ IsFiniteSet({})
    BY FS_EmptySet
  <1>2. MaxTime \in Nat /\ MaxHops \in Nat /\ MaxHeard \in Nat
    BY BoundsAssumption
  <1>3. TypeOK
    <2>1. Cardinality(unheard) <= 1
      BY <1>1 DEF Init
    <2> QED
      BY <1>2, <2>1 DEF Init, TypeOK, Ways
  <1>4. Stages
    BY DEF Init, Stages
  <1>5. Rows
    BY <1>1 DEF Init, Rows
  <1>6. Apart
    BY DEF Init, Apart, InFlight
  <1>7. Hearing
    BY DEF Init, Hearing
  <1> QED
    BY <1>3, <1>4, <1>5, <1>6, <1>7 DEF WalkInv

LEMMA NotAfterOrders ==
  ASSUME NEW p \in Position \cup {Unknown}, NEW q \in Position \cup {Unknown}, NEW t \in Position \cup {Unknown}
  PROVE  /\ NotAfter(p, p)
         /\ NotAfter(p, q) /\ NotAfter(q, t) => NotAfter(p, t)
  BY DEF NotAfter, Position

\* What the river does only adds to what is stored and heard.
LEMMA RiverMoves ==
  ASSUME WalkInv, Tick \/ \E v \in Tows : LockThrough(v) \/ Hear(v)
  PROVE  /\ UNCHANGED <<pc, request, known>> /\ lockages \subseteq lockages' /\ now <= now' /\ now' \in 0 .. MaxTime
         /\ reports' \in 0 .. MaxHeard
         /\ lockages' \subseteq Lockage /\ IsFiniteSet(lockages')
         /\ position' \in [Tows -> Position \cup {Unknown}]
         /\ heard' \in [Tows -> SUBSET (Position \cup {Unknown})]
         /\ pc # "idle" => \A v \in Tows : heard[v] \subseteq heard'[v]
         /\ Hearing'
  <1>1. /\ reports \in 0 .. MaxHeard /\ lockages \subseteq Lockage /\ IsFiniteSet(lockages) /\ now \in 0 .. MaxTime
        /\ position \in [Tows -> Position \cup {Unknown}] /\ Hearing
        /\ heard \in [Tows -> SUBSET (Position \cup {Unknown})] /\ MaxTime \in Nat /\ MaxHeard \in Nat
    BY BoundsAssumption DEF WalkInv, TypeOK, Rows
  <1>2. CASE Tick
    <2>1. now < MaxTime /\ now' = now + 1 /\ UNCHANGED <<lockages, position, reports, pc, request, known, heard>>
      BY <1>2 DEF Tick, river, history
    <2>2. now' \in 0 .. MaxTime /\ now <= now'
      BY <1>1, <2>1
    <2>3. Hearing'
      BY <1>1, <2>1 DEF Hearing
    <2> QED
      BY <1>1, <2>1, <2>2, <2>3
  <1>3. ASSUME NEW v \in Tows, LockThrough(v)
        PROVE  /\ lockages \subseteq lockages' /\ lockages' \subseteq Lockage /\ IsFiniteSet(lockages')
               /\ UNCHANGED <<now, pc, request, position, reports, known, heard>>
    <2>1. PICK k \in Locks, w \in Ways, b \in Cuts, t \in 0 .. now :
              lockages' = lockages \cup {[tow |-> v, lock |-> k, way |-> w, barges |-> b, end |-> t]}
      BY <1>3 DEF LockThrough
    <2>2. t \in Nat
      BY <1>1
    <2>3. IsFiniteSet(lockages')
      BY <1>1, <2>1, FS_AddElement
    <2>4. lockages' \subseteq Lockage
      BY <1>1, <2>1, <2>2 DEF Lockage
    <2> QED
      BY <1>3, <2>1, <2>3, <2>4 DEF LockThrough, history
  <1>4. ASSUME NEW v \in Tows, Hear(v)
        PROVE  /\ UNCHANGED <<now, lockages, pc, request, known>>
               /\ reports' \in 0 .. MaxHeard
               /\ position' \in [Tows -> Position \cup {Unknown}]
               /\ heard' \in [Tows -> SUBSET (Position \cup {Unknown})]
               /\ pc # "idle" => \A u \in Tows : heard[u] \subseteq heard'[u]
               /\ Hearing'
    <2>1. PICK p \in [at : 0 .. now, mile : Miles, course : Ways \cup {0}, speed : Speeds] :
              /\ NotAfter(position[v], p)
              /\ position' = [position EXCEPT ![v] = p]
              /\ heard' = [heard EXCEPT ![v] = IF pc = "idle" THEN {} ELSE @ \cup {p}]
      BY <1>4 DEF Hear
    <2>2. p \in Position
      BY <1>1 DEF Position
    <2>3. UNCHANGED <<now, lockages, pc, request, known>> /\ reports' = reports + 1 /\ reports < MaxHeard
      BY <1>4 DEF Hear
    <2>4. reports' \in 0 .. MaxHeard
      BY <1>1, <2>3
    <2>5. position' \in [Tows -> Position \cup {Unknown}] /\ heard' \in [Tows -> SUBSET (Position \cup {Unknown})]
      BY <1>1, <2>1, <2>2
    <2>6. pc # "idle" => \A u \in Tows : heard[u] \subseteq heard'[u]
      BY <1>1, <2>1
    <2>7. Hearing'
      <3> SUFFICES ASSUME pc # "idle", NEW u \in Tows
                   PROVE  position'[u] \in heard'[u] /\ \A o \in heard'[u] : NotAfter(o, position'[u])
        BY <2>3 DEF Hearing, NotAfter
      <3>1. position[u] \in heard[u] /\ \A o \in heard[u] : NotAfter(o, position[u])
        BY <1>1 DEF Hearing
      <3>2. CASE u # v
        BY <1>1, <2>1, <3>1, <3>2
      <3>3. CASE u = v
        <4>1. position'[u] = p /\ heard'[u] = heard[u] \cup {p} /\ position[u] \in Position \cup {Unknown}
          BY <1>1, <2>1, <3>3
        <4>2. \A o \in heard[u] : o \in Position \cup {Unknown} /\ NotAfter(o, position[u])
          BY <1>1, <3>1
        <4>3. NotAfter(position[u], p)
          BY <2>1, <3>3
        <4> QED
          BY <2>2, <4>1, <4>2, <4>3, NotAfterOrders
      <3> QED
        BY <3>2, <3>3
    <2> QED
      BY <2>3, <2>4, <2>5, <2>6, <2>7
  <1>5. CASE \E v \in Tows : LockThrough(v)
    <2>1. Hearing'
      BY <1>1, <1>3, <1>5 DEF Hearing
    <2> QED
      BY <1>1, <1>3, <1>5, <2>1
  <1>6. CASE \E v \in Tows : Hear(v)
    BY <1>1, <1>4, <1>6
  <1> QED
    BY <1>2, <1>5, <1>6

\* What the river does leaves the handler alone.
LEMMA RiverWalk ==
  WalkInv /\ (Tick \/ \E v \in Tows : LockThrough(v) \/ Hear(v)) => WalkInv'
  <1> SUFFICES ASSUME WalkInv, Tick \/ \E v \in Tows : LockThrough(v) \/ Hear(v) PROVE WalkInv'
    OBVIOUS
  <1>1. /\ UNCHANGED <<pc, request, known>> /\ now' \in 0 .. MaxTime /\ now <= now' /\ reports' \in 0 .. MaxHeard
        /\ lockages \subseteq lockages' /\ lockages' \subseteq Lockage /\ IsFiniteSet(lockages')
        /\ position' \in [Tows -> Position \cup {Unknown}]
        /\ heard' \in [Tows -> SUBSET (Position \cup {Unknown})]
    BY RiverMoves
  <1>2. TypeOK'
    BY <1>1 DEF WalkInv, TypeOK, request, Elapsed
  <1>3. Stages'
    BY <1>1 DEF WalkInv, Stages, request
  <1>4. Rows'
    BY <1>1 DEF WalkInv, Rows, request, Elapsed, NthLock, Behind
  <1>5. Apart'
    BY <1>1 DEF WalkInv, Apart, InFlight, request
  <1>6. Hearing'
    BY RiverMoves
  <1> QED
    BY <1>2, <1>3, <1>4, <1>5, <1>6 DEF WalkInv

LEMMA SameHearing ==
  ASSUME WalkInv, pc # "idle", UNCHANGED <<position, heard>>
  PROVE  Hearing'
  BY DEF WalkInv, Hearing

LEMMA AskWalk ==
  ASSUME NEW w \in Ways
  PROVE  WalkInv /\ Ask(w) => WalkInv'
  <1> SUFFICES ASSUME WalkInv, Ask(w) PROVE WalkInv'
    OBVIOUS
  <1>1. unchecked = {} /\ kept = {} /\ unrated = {} /\ unheard = {} /\ rated = {}
    BY DEF WalkInv, Stages, Ask
  <1>2. Cardinality({}) = 0
    BY FS_EmptySet
  <1>3. TypeOK'
    BY <1>1, <1>2, BoundsAssumption DEF WalkInv, TypeOK, Ask, river
  <1>4. Stages'
    BY <1>1 DEF WalkInv, Stages, Ask, river
  <1>5. Rows'
    BY <1>1 DEF WalkInv, Rows, Ask, river
  <1>6. Apart'
    BY <1>1 DEF WalkInv, Apart, InFlight, Ask, river
  <1>7. Hearing'
    <2>1. \A v \in Tows : heard'[v] = {position[v]} /\ position'[v] = position[v] /\ position[v] \in Position \cup {Unknown}
      BY DEF Ask, river, WalkInv, TypeOK
    <2>2. \A v \in Tows : NotAfter(position[v], position[v])
      BY <2>1, NotAfterOrders
    <2> QED
      BY <2>1, <2>2 DEF Hearing
  <1> QED
    BY <1>3, <1>4, <1>5, <1>6, <1>7 DEF WalkInv

LEMMA PullWalk ==
  WalkInv /\ Pull => WalkInv'
  <1> SUFFICES ASSUME WalkInv, Pull PROVE WalkInv'
    OBVIOUS
  <1>1. unchecked = {} /\ kept = {} /\ unrated = {} /\ unheard = {} /\ rated = {}
    BY DEF WalkInv, Stages, Pull
  <1>2. CASE hop > MaxHops \/ NthLock(way, hop) = {}
    <2>1. pc' = "reply" /\ UNCHANGED <<now, river, unchecked, way, asked, hop, kept, unrated, unheard, rated, history>>
      BY <1>2 DEF Pull
    <2>2. TypeOK'
      BY <2>1 DEF WalkInv, TypeOK, river, history, Elapsed
    <2>3. Stages'
      BY <1>1, <2>1 DEF WalkInv, Stages
    <2>4. Rows'
      BY <1>1, <2>1 DEF WalkInv, Rows, river
    <2>5. Apart'
      BY <1>1, <2>1 DEF WalkInv, Apart, InFlight
    <2>6. Hearing'
      BY <2>1, SameHearing DEF river, history, Pull
    <2> QED
      BY <2>2, <2>3, <2>4, <2>5, <2>6 DEF WalkInv
  <1>3. CASE ~(hop > MaxHops \/ NthLock(way, hop) = {})
    <2>1. /\ pc' = "check" /\ unchecked' = UNION {Departures(k) : k \in NthLock(way, hop)}
          /\ UNCHANGED <<now, river, way, asked, hop, kept, unrated, unheard, rated, history>>
      BY <1>3 DEF Pull
    <2>2. unchecked' \subseteq lockages
      BY <2>1 DEF Departures
    <2>3. \A r \in unchecked' : r.lock \in NthLock(way, hop) /\ asked - r.end \in 0 .. Window
      BY <2>1 DEF Departures
    <2>4. hop <= MaxHops
      BY <1>3, BoundsAssumption DEF WalkInv, TypeOK
    <2>5. TypeOK'
      BY <2>1, <2>2 DEF WalkInv, TypeOK, river, history, Elapsed
    <2>6. Stages'
      BY <1>1, <2>1, <2>4 DEF WalkInv, Stages
    <2>7. Rows'
      BY <1>1, <2>1, <2>3 DEF WalkInv, Rows, river, NthLock, Behind
    <2>8. Apart'
      BY <1>1, <2>1 DEF WalkInv, Apart, InFlight
    <2>9. Hearing'
      BY <2>1, SameHearing DEF river, history, Pull
    <2> QED
      BY <2>5, <2>6, <2>7, <2>8, <2>9 DEF WalkInv
  <1> QED
    BY <1>2, <1>3

LEMMA CheckWalk ==
  ASSUME NEW r
  PROVE  WalkInv /\ Check(r) => WalkInv'
  <1> SUFFICES ASSUME WalkInv, Check(r) PROVE WalkInv'
    OBVIOUS
  <1>1. /\ unchecked' \subseteq unchecked /\ kept' \subseteq unchecked \cup kept
        /\ UNCHANGED <<now, river, pc, way, asked, hop, unrated, unheard, rated, history>> /\ pc = "check"
    BY DEF Check
  <1>2. TypeOK'
    BY <1>1 DEF WalkInv, TypeOK, river, history, Elapsed
  <1>3. Stages'
    BY <1>1 DEF WalkInv, Stages
  <1>4. Rows'
    BY <1>1 DEF WalkInv, Rows, river, NthLock, Behind, Elapsed
  <1>5. Apart'
    BY <1>1 DEF WalkInv, Apart, InFlight
  <1>6. Hearing'
    BY <1>1, SameHearing DEF river, history, Pull
  <1> QED
    BY <1>2, <1>3, <1>4, <1>5, <1>6 DEF WalkInv

\* The departures in hand are rows of one lock.
LEMMA KeptRows ==
  ASSUME WalkInv
  PROVE  /\ kept \subseteq Lockage /\ IsFiniteSet(kept)
         /\ \A q, r \in kept : q.lock = r.lock
  <1>1. kept \subseteq lockages /\ lockages \subseteq Lockage /\ way \in Ways /\ IsFiniteSet(lockages)
    BY DEF WalkInv, TypeOK, Rows
  <1>2. \A q \in kept : q.lock \in NthLock(way, hop)
    BY DEF WalkInv, Rows
  <1> QED
    BY <1>1, <1>2, OneLock, FS_Subset

LEMMA CollapseWalk ==
  WalkInv /\ CollapseCuts => WalkInv'
  <1> SUFFICES ASSUME WalkInv, CollapseCuts PROVE WalkInv'
    OBVIOUS
  <1> DEFINE made == Collapse(kept)
  <1>1. /\ unchecked = {} /\ unrated = {} /\ unheard = {} /\ rated = {} /\ kept' = {} /\ pc' = "rate" /\ pc = "check"
        /\ unrated' = made
        /\ UNCHANGED <<now, river, way, asked, hop, unchecked, unheard, rated, history>>
    BY DEF WalkInv, Stages, CollapseCuts
  <1>2. kept \subseteq Lockage /\ IsFiniteSet(kept) /\ \A q, r \in kept : q.lock = r.lock
    BY KeptRows
  <1>3. \A c \in made : c \in Candidate /\ \E r \in kept : c.tow = r.tow /\ c.lock = r.lock /\ c.end = r.end
    BY <1>2, CollapseType
  <1>4. \A c, d \in made : c # d /\ c.tow = d.tow => Distance(c.end, d.end) > Multicut
    BY <1>2, CollapseApart
  <1>5. \A c \in made : asked - c.end \in 0 .. Window
    BY <1>3 DEF WalkInv, Rows
  <1> HIDE DEF made
  <1>6. TypeOK'
    BY <1>1, <1>3 DEF WalkInv, TypeOK, river, history
  <1>7. Stages'
    BY <1>1 DEF WalkInv, Stages
  <1>8. Rows'
    BY <1>1, <1>5 DEF WalkInv, Rows, river, Elapsed
  <1>9. Apart'
    BY <1>1, <1>4 DEF WalkInv, Apart, InFlight
  <1>10. Hearing'
    BY <1>1, SameHearing DEF river, history, Pull
  <1> QED
    BY <1>6, <1>7, <1>8, <1>9, <1>10 DEF WalkInv

LEMMA RateWalk ==
  ASSUME NEW c
  PROVE  WalkInv /\ Rate(c) => WalkInv'
  <1> SUFFICES ASSUME WalkInv, Rate(c) PROVE WalkInv'
    OBVIOUS
  <1>1. /\ c \in unrated /\ unheard = {} /\ unrated' = unrated \ {c} /\ (unheard' = {} \/ unheard' = {c})
        /\ UNCHANGED <<now, river, pc, way, asked, hop, unchecked, kept, rated, history>> /\ pc = "rate"
    BY DEF Rate
  <1>2. Cardinality({}) = 0 /\ Cardinality({c}) = 1
    BY FS_EmptySet, FS_Singleton
  <1>3. Cardinality(unheard') <= 1
    BY <1>1, <1>2
  <1>4. TypeOK'
    BY <1>1, <1>3 DEF WalkInv, TypeOK, river, history, Elapsed
  <1>5. Stages'
    BY <1>1 DEF WalkInv, Stages
  <1>6. Rows'
    BY <1>1 DEF WalkInv, Rows, river, NthLock, Behind, Elapsed
  <1>7. Apart'
    <2>1. InFlight' \subseteq InFlight
      BY <1>1 DEF InFlight
    <2> QED
      BY <1>1, <2>1 DEF WalkInv, Apart
  <1>8. Hearing'
    BY <1>1, SameHearing DEF river, history, Pull
  <1> QED
    BY <1>4, <1>5, <1>6, <1>7, <1>8 DEF WalkInv

LEMMA ConfirmWalk ==
  ASSUME NEW c
  PROVE  WalkInv /\ Confirm(c) => WalkInv'
  <1> SUFFICES ASSUME WalkInv, Confirm(c) PROVE WalkInv'
    OBVIOUS
  <1> DEFINE e == [tow |-> c, live |-> LiveMile(position[c.tow])]
  <1>1. /\ c \in unheard /\ unheard' = {} /\ rated' = rated \cup {e} /\ e.tow = c
        /\ UNCHANGED <<now, river, pc, way, asked, hop, unchecked, kept, unrated, history>> /\ pc = "rate"
    BY DEF Confirm
  <1>2. Cardinality({}) = 0
    BY FS_EmptySet
  <1>3. c \in Candidate /\ c \notin unrated /\ asked - c.end \in 0 .. Window
    BY <1>1 DEF WalkInv, TypeOK, Rows, Elapsed
  <1>4. e \in [tow : Candidate, live : Miles \cup {Unknown}]
    <2>1. position[c.tow] \in Position \cup {Unknown}
      BY <1>3 DEF WalkInv, TypeOK, Candidate
    <2> QED
      BY <1>3, <2>1, LiveMileType
  <1>5. \A f \in rated : f.tow # c
    BY <1>1 DEF WalkInv, TypeOK
  <1> HIDE DEF e
  <1>6. TypeOK'
    <2>1. \A f \in rated' : f.tow \notin unrated' \cup unheard' /\ (Elapsed(f.tow) \in 0 .. Window)'
      BY <1>1, <1>3 DEF WalkInv, TypeOK, Elapsed
    <2>2. rated' \subseteq [tow : Candidate, live : Miles \cup {Unknown}]
      BY <1>1, <1>4 DEF WalkInv, TypeOK
    <2> QED
      BY <1>1, <1>2, <2>1, <2>2 DEF WalkInv, TypeOK, river, history
  <1>7. Stages'
    BY <1>1 DEF WalkInv, Stages
  <1>8. Rows'
    BY <1>1 DEF WalkInv, Rows, river, NthLock, Behind, Elapsed
  <1>9. Apart'
    <2>1. InFlight' \subseteq InFlight
      BY <1>1 DEF InFlight
    <2>2. \A f, g \in rated' : f.tow = g.tow => f = g
      BY <1>1, <1>5 DEF WalkInv, Apart
    <2> QED
      BY <2>1, <2>2 DEF WalkInv, Apart
  <1>10. Hearing'
    BY <1>1, SameHearing DEF river, history, Pull
  <1> QED
    BY <1>6, <1>7, <1>8, <1>9, <1>10 DEF WalkInv

LEMMA WalkWalk ==
  WalkInv /\ Walk => WalkInv'
  <1> SUFFICES ASSUME WalkInv, Walk PROVE WalkInv'
    OBVIOUS
  <1>1. /\ unchecked = {} /\ kept = {} /\ unrated = {} /\ unheard = {} /\ hop <= MaxHops /\ pc = "rate"
        /\ UNCHANGED <<now, river, way, asked, unchecked, kept, unrated, unheard, rated, history>>
        /\ \/ pc' = "pull" /\ hop' = hop + 1 /\ rated = {}
           \/ pc' = "reply" /\ hop' = hop
    BY DEF WalkInv, Stages, Walk
  <1>2. TypeOK'
    BY <1>1, BoundsAssumption DEF WalkInv, TypeOK, river, history, Elapsed
  <1>3. Stages'
    BY <1>1 DEF WalkInv, Stages
  <1>4. Rows'
    BY <1>1 DEF WalkInv, Rows, river
  <1>5. Apart'
    BY <1>1 DEF WalkInv, Apart, InFlight
  <1>6. Hearing'
    BY <1>1, SameHearing DEF river, history, Pull
  <1> QED
    BY <1>2, <1>3, <1>4, <1>5, <1>6 DEF WalkInv

LEMMA EndWalk ==
  WalkInv /\ (Reply \/ Fail) => WalkInv'
  <1> SUFFICES ASSUME WalkInv, Reply \/ Fail PROVE WalkInv'
    OBVIOUS
  <1>1. /\ pc' = "idle" /\ way' = 1 /\ asked' = 0 /\ hop' = 1
        /\ unchecked' = {} /\ kept' = {} /\ unrated' = {} /\ unheard' = {} /\ rated' = {}
        /\ known' = {} /\ heard' = [v \in Tows |-> {}]
        /\ UNCHANGED <<now, river>>
    BY DEF WalkInv, Stages, Reply, Fail
  <1>2. Cardinality({}) = 0
    BY FS_EmptySet
  <1>3. TypeOK'
    BY <1>1, <1>2, BoundsAssumption DEF WalkInv, TypeOK, river, Ways
  <1>4. Stages'
    BY <1>1 DEF Stages
  <1>5. Rows'
    BY <1>1 DEF WalkInv, Rows, river
  <1>6. Apart'
    BY <1>1 DEF Apart, InFlight
  <1>7. Hearing'
    BY <1>1 DEF Hearing
  <1> QED
    BY <1>3, <1>4, <1>5, <1>6, <1>7 DEF WalkInv

LEMMA StutterWalk ==
  WalkInv /\ UNCHANGED vars => WalkInv'
  <1> SUFFICES ASSUME WalkInv, UNCHANGED vars PROVE WalkInv'
    OBVIOUS
  <1> USE DEF vars, river, request, history
  <1>1. TypeOK'
    BY DEF WalkInv, TypeOK, Elapsed
  <1>2. Stages'
    BY DEF WalkInv, Stages
  <1>3. Rows'
    BY DEF WalkInv, Rows, NthLock, Behind, Elapsed
  <1>4. Apart'
    BY DEF WalkInv, Apart, InFlight
  <1>5. Hearing'
    BY DEF WalkInv, Hearing, NotAfter
  <1> QED
    BY <1>1, <1>2, <1>3, <1>4, <1>5 DEF WalkInv

LEMMA WalkStep ==
  WalkInv /\ [Next]_vars => WalkInv'
  BY RiverWalk, AskWalk, PullWalk, CheckWalk, CollapseWalk, RateWalk, ConfirmWalk, WalkWalk, EndWalk,
     StutterWalk DEF Next

LEMMA StepsOfTheWalk ==
  [BlockNext]_blockVars => [Next]_vars
  BY DEF BlockNext, blockVars, Next, Estimate, Arrive

LEMMA WalkHolds ==
  BlockSpec => []WalkInv
  <1>1. BlockInit => WalkInv
    BY InitWalk DEF BlockInit
  <1>2. WalkInv /\ [BlockNext]_blockVars => WalkInv'
    BY WalkStep, StepsOfTheWalk
  <1> QED
    BY <1>1, <1>2, PTL DEF BlockSpec

----------------------------------------------------------------------------
(* Who is due is answered                                                  *)

\* A leg is of a lock and a class of tow.
LEMMA LegParts ==
  ASSUME NEW c, c.lock \in Locks, c.barges \in Nat
  PROVE  /\ Leg(c) \in Locks \X BOOLEAN
         /\ c.barges >= Big => Leg(c) = <<c.lock, TRUE>>
         /\ ~(c.barges >= Big) => Leg(c) = <<c.lock, FALSE>>
  <1> DEFINE big == c.barges >= Big
  <1>1. Leg(c) = <<c.lock, big>>
    BY DEF Leg
  <1>2. big \in BOOLEAN /\ (big => big = TRUE) /\ (~big => big = FALSE)
    OBVIOUS
  <1> HIDE DEF big
  <1>3. <<c.lock, big>> \in Locks \X BOOLEAN
    BY <1>2
  <1> QED
    BY <1>1, <1>2, <1>3 DEF big

\* While a request is under way nothing is put on record, and what speaks against a tow stays.
LEMMA RecordShrinks ==
  ASSUME UNCHANGED <<way, asked, known>>, lockages \subseteq lockages',
         \A v \in Tows : heard[v] \subseteq heard'[v]
  PROVE  /\ OnRecord' \subseteq OnRecord
         /\ \A c : c.tow \in Tows /\ NotPassed(c)' => NotPassed(c)
  <1>1. OnRecord' \subseteq OnRecord
    BY DEF OnRecord
  <1>2. ASSUME NEW c, c.tow \in Tows, NotPassed(c)' PROVE NotPassed(c)
    BY <1>2 DEF NotPassed
  <1> QED
    BY <1>1, <1>2

\* So who is due has been so all along, and who takes in the cuts of a passage goes on to.
LEMMA DueShrinks ==
  ASSUME WalkInv, UNCHANGED <<way, asked, known>>, lockages \subseteq lockages',
         \A v \in Tows : heard[v] \subseteq heard'[v]
  PROVE  Due' \subseteq Due
  <1> SUFFICES ASSUME NEW r \in Due' PROVE r \in Due
    OBVIOUS
  <1>1. r \in OnTheirWay' /\ NotPassed(r)' /\ r \in OnRecord'
    BY DEF Due, OnTheirWay
  <1>2. r \in OnRecord /\ r.tow \in Tows
    <2>1. r \in OnRecord
      BY <1>1, RecordShrinks
    <2> QED
      BY <2>1 DEF OnRecord, WalkInv, TypeOK, Lockage
  <1>3. r \in OnTheirWay
    BY <1>1, <1>2 DEF OnTheirWay, NthLock, Behind
  <1>4. NotPassed(r)
    BY <1>1, <1>2, RecordShrinks
  <1> QED
    BY <1>3, <1>4 DEF Due

LEMMA TakesInStays ==
  ASSUME OnRecord' \subseteq OnRecord, NEW c, TakesIn(c)
  PROVE  TakesIn(c)'
  <1>1. CutsOf(c)' \subseteq CutsOf(c)
    BY DEF CutsOf
  <1> SUFFICES ASSUME NEW r \in CutsOf(c)', SamePassage(r, c)'
               PROVE  SamePassage(r, c)
    BY <1>1 DEF TakesIn
  <1> QED
    BY <1>1 DEF SamePassage

LEMMA RiverKeepsDue ==
  WalkInv /\ DueKept /\ (Tick \/ \E v \in Tows : LockThrough(v) \/ Hear(v)) => DueKept'
  <1> SUFFICES ASSUME WalkInv, DueKept, Tick \/ \E v \in Tows : LockThrough(v) \/ Hear(v) PROVE DueKept'
    OBVIOUS
  <1>1. /\ UNCHANGED <<pc, way, asked, hop, unchecked, kept, unrated, unheard, rated, known>>
        /\ lockages \subseteq lockages' /\ (pc # "idle" => \A v \in Tows : heard[v] \subseteq heard'[v])
    BY RiverMoves DEF request
  <1>2. CASE pc = "idle"
    BY <1>1, <1>2 DEF DueKept
  <1>3. CASE pc # "idle"
    <2>1. Due' \subseteq Due
      BY <1>1, <1>3, DueShrinks
    <2>2. InFlight' = InFlight
      BY <1>1 DEF InFlight
    <2> QED
      BY <1>1, <2>1, <2>2 DEF DueKept, Carries
  <1> QED
    BY <1>2, <1>3

\* Whatever leaves the river, the request and its history alone leaves those due.
LEMMA SameDue ==
  ASSUME UNCHANGED <<river, way, asked, history>>
  PROVE  /\ Due' = Due /\ OnRecord' = OnRecord
         /\ \A c : NotPassed(c)' <=> NotPassed(c)
  <1>1. OnRecord' = OnRecord
    BY DEF river, history, OnRecord
  <1>2. ASSUME NEW c PROVE NotPassed(c)' <=> NotPassed(c)
    BY DEF history, NotPassed
  <1>3. OnTheirWay' = OnTheirWay
    BY <1>1 DEF OnTheirWay, NthLock, Behind
  <1>4. Due' = Due
    BY <1>2, <1>3 DEF Due
  <1> QED
    BY <1>1, <1>2, <1>4

\* Who is due left within the window.
LEMMA DueRow ==
  ASSUME WalkInv, NEW r \in Due
  PROVE  /\ r \in Lockage /\ r \in lockages /\ r.lock \in NthLock(way, 1) /\ r.way = way /\ ~Shuttles(r)
         /\ Leg(r) \in Locks \X BOOLEAN
         /\ asked - r.end \in 0 .. Window /\ asked - r.end <= Med[Leg(r)]
  <1>1. r \in lockages /\ r \in Lockage /\ asked \in Nat /\ asked - r.end \in 0 .. Window /\ asked - r.end <= Med[Leg(r)]
    BY DEF Due, OnTheirWay, OnRecord, WalkInv, TypeOK
  <1>2. r.end \in Nat /\ Leg(r) \in Locks \X BOOLEAN
    <2>1. r.end \in Nat /\ r.lock \in Locks /\ r.barges \in Nat
      BY <1>1, NumberFacts DEF Lockage
    <2> QED
      BY <2>1, LegParts
  <1>3. ~Shuttles(r)
    <2> SUFFICES ASSUME NEW q \in lockages, q.tow = r.tow, q.lock = r.lock, q.way # r.way,
                        Distance(q.end, r.end) <= Shuttle
                 PROVE  FALSE
      BY DEF Shuttles
    <2>1. Distance(q.end, r.end) > Shuttle
      BY DEF Due, OnTheirWay, OnRecord
    <2>2. q.end \in Nat /\ Shuttle \in Nat
      BY ModelAssumption DEF WalkInv, TypeOK, Lockage
    <2> QED
      BY <1>2, <2>1, <2>2 DEF Distance
  <1> QED
    BY <1>1, <1>2, <1>3 DEF Due, OnTheirWay, OnRecord

LEMMA PullKeepsDue ==
  WalkInv /\ DueKept /\ Pull => DueKept'
  <1> SUFFICES ASSUME WalkInv, DueKept, Pull PROVE DueKept'
    OBVIOUS
  <1>1. Due' = Due
    BY SameDue DEF Pull
  <1>2. pc = "pull" /\ hop \in Nat /\ hop >= 1 /\ MaxHops \in Nat /\ hop' = hop
    BY NumberFacts DEF Pull, WalkInv, TypeOK
  <1>3. hop # 1 => Due = {}
    BY <1>2 DEF DueKept
  <1>4. CASE hop > MaxHops \/ NthLock(way, hop) = {}
    <2>1. pc' = "reply"
      BY <1>4 DEF Pull
    <2>2. MaxHops >= 1 => Due' = {}
      <3> SUFFICES ASSUME MaxHops >= 1, NEW r \in Due, hop = 1 PROVE FALSE
        BY <1>1, <1>3
      <3> QED
        BY <1>2, <1>4, DueRow
    <2> QED
      BY <2>1, <2>2 DEF DueKept
  <1>5. CASE ~(hop > MaxHops \/ NthLock(way, hop) = {})
    <2>1. pc' = "check" /\ unchecked' = UNION {Departures(k) : k \in NthLock(way, hop)}
      BY <1>5 DEF Pull
    <2>2. Due \subseteq unchecked'
      <3> SUFFICES ASSUME NEW r \in Due, hop = 1 PROVE r \in unchecked'
        BY <1>3
      <3>1. r \in lockages
        BY DueRow
      <3>2. r \in Departures(r.lock) /\ r.lock \in NthLock(way, hop)
        BY <3>1, DueRow DEF Departures
      <3> QED
        BY <2>1, <3>2
    <2>3. hop' > 1 => Due' = {}
      BY <1>1, <1>2, <1>3
    <2> QED
      BY <1>1, <2>1, <2>2, <2>3 DEF DueKept
  <1> QED
    BY <1>4, <1>5

\* A tow that nothing heard speaks against passes the check by her position.
LEMMA NotPassedByPosition ==
  ASSUME WalkInv, pc # "idle", NEW r, r.tow \in Tows, NotPassed(r)
  PROVE  ~Passed(way, position[r.tow])
  <1> SUFFICES ASSUME position[r.tow] # Unknown PROVE ~Passed(way, position[r.tow])
    BY DEF Passed
  <1>1. position[r.tow] \in Position /\ way \in Ways /\ position[r.tow] \in heard[r.tow]
    BY DEF WalkInv, TypeOK, Hearing
  <1>2. position[r.tow].mile \in Int /\ User \in Int /\ Passing \in Nat /\ (way = 1 \/ way = -1)
    BY <1>1, RiverAssumption, ModelAssumption DEF Position, Ways
  <1>3. way * (position[r.tow].mile - User) <= Passing /\ position[r.tow].course # -way
    BY <1>1 DEF NotPassed
  <1> QED
    BY <1>2, <1>3 DEF Passed

LEMMA CheckKeepsDue ==
  ASSUME NEW r
  PROVE  WalkInv /\ DueKept /\ Check(r) => DueKept'
  <1> SUFFICES ASSUME WalkInv, DueKept, Check(r) PROVE DueKept'
    OBVIOUS
  <1>1. Due' = Due /\ pc = "check" /\ pc' = pc /\ hop' = hop /\ unchecked' = unchecked \ {r}
    BY SameDue DEF Check
  <1>2. kept \subseteq kept' /\ (~Passed(way, position[r.tow]) => r \in kept')
    BY DEF Check
  <1>3. r \in Due => ~Passed(way, position[r.tow])
    BY <1>1, DueRow, NotPassedByPosition DEF Due, Lockage
  <1>4. Due \subseteq unchecked' \cup kept'
    BY <1>1, <1>2, <1>3 DEF DueKept
  <1> QED
    BY <1>1, <1>4 DEF DueKept

LEMMA CollapseKeepsDue ==
  WalkInv /\ DueKept /\ CollapseCuts => DueKept'
  <1> SUFFICES ASSUME WalkInv, DueKept, CollapseCuts PROVE DueKept'
    OBVIOUS
  <1> DEFINE made == Collapse(kept)
  <1>1. Due' = Due /\ pc = "check" /\ unchecked = {} /\ pc' = "rate" /\ hop' = hop /\ unrated' = made
    BY SameDue DEF CollapseCuts
  <1>2. kept \subseteq Lockage /\ IsFiniteSet(kept) /\ \A q, r \in kept : q.lock = r.lock
    BY KeptRows
  <1>3. ASSUME NEW r \in Due PROVE \E c \in made : Carries(c, r)
    <2>1. r \in kept
      BY <1>1 DEF DueKept
    <2>2. PICK c \in made : c.tow = r.tow /\ c.end >= r.end /\ c.barges >= r.barges
      BY <1>2, <2>1, CollapseCarries
    <2>3. PICK q \in kept : c.lock = q.lock
      BY <1>2, CollapseType
    <2> QED
      BY <1>2, <2>1, <2>2, <2>3 DEF Carries
  <1> HIDE DEF made
  <1>4. \A r \in Due' : \E c \in InFlight' : Carries(c, r)
    BY <1>1, <1>3 DEF InFlight
  <1> QED
    BY <1>1, <1>4 DEF DueKept, Carries

\* Nobody who carries a departure that is due has been waited for too long.
LEMMA CarriersAreWaitedFor ==
  ASSUME WalkInv, NEW r \in Due, NEW c \in Candidate, Carries(c, r)
  PROVE  ~(Elapsed(c) > OuterBound(c))
  <1>1. /\ r \in Lockage /\ asked - r.end \in 0 .. Window /\ asked - r.end <= Med[Leg(r)]
        /\ Leg(r) \in Locks \X BOOLEAN
    BY DueRow
  <1>2. Leg(c) \in Locks \X BOOLEAN
    <2>1. c.lock \in Locks /\ c.barges \in Nat
      BY NumberFacts DEF Candidate
    <2> QED
      BY <2>1, LegParts
  <1>3. /\ asked \in Nat /\ r.end \in Nat /\ c.end \in Nat /\ c.end >= r.end
        /\ r.barges \in Nat /\ c.barges \in Nat /\ c.barges >= r.barges /\ c.lock = r.lock /\ r.lock \in Locks
        /\ Big \in Nat /\ Slack \in Nat /\ Window \in Nat
    <2>1. asked \in Nat /\ r.end \in Nat /\ c.end \in Nat /\ c.end >= r.end
      BY <1>1 DEF WalkInv, TypeOK, Lockage, Candidate, Carries
    <2>2. r.barges \in Nat /\ c.barges \in Nat /\ c.barges >= r.barges /\ c.lock = r.lock /\ r.lock \in Locks
      BY <1>1, NumberFacts DEF Lockage, Candidate, Carries
    <2>3. Big \in Nat /\ Slack \in Nat /\ Window \in Nat
      BY ModelAssumption
    <2> QED
      BY <2>1, <2>2, <2>3
  <1>4. Med[Leg(r)] \in Nat /\ Late[Leg(c)] \in Nat
    BY <1>1, <1>2, NumberFacts
  <1>5. Med[Leg(r)] <= Late[Leg(c)]
    <2>1. CASE Leg(r) = Leg(c)
      BY <1>1, <2>1, ModelAssumption
    <2>2. CASE Leg(r) # Leg(c)
      <3>1. Leg(r) = <<r.lock, FALSE>> /\ Leg(c) = <<r.lock, TRUE>>
        <4>1. r.barges >= Big => c.barges >= Big
          BY <1>3
        <4> QED
          BY <1>3, <2>2, <4>1, LegParts
      <3> QED
        BY <1>3, <3>1, ModelAssumption
    <2> QED
      BY <2>1, <2>2
  <1>6. Elapsed(c) <= Window /\ Elapsed(c) <= Late[Leg(c)] /\ Elapsed(c) \in Int
    BY <1>1, <1>3, <1>4, <1>5 DEF Elapsed
  <1> QED
    BY <1>3, <1>4, <1>6 DEF OuterBound, Smaller

LEMMA RateKeepsDue ==
  ASSUME NEW c
  PROVE  WalkInv /\ DueKept /\ Rate(c) => DueKept'
  <1> SUFFICES ASSUME WalkInv, DueKept, Rate(c) PROVE DueKept'
    OBVIOUS
  <1>1. /\ Due' = Due /\ pc = "rate" /\ pc' = pc /\ hop' = hop /\ c \in unrated /\ unheard = {}
        /\ unrated' = unrated \ {c} /\ rated' = rated
        /\ ~(Elapsed(c) > OuterBound(c)) => unheard' = {c}
    BY SameDue DEF Rate
  <1>2. c \in Candidate
    BY <1>1 DEF WalkInv, TypeOK
  <1>3. ASSUME NEW r \in Due PROVE \E d \in InFlight' : Carries(d, r)
    <2>1. PICK d \in InFlight : Carries(d, r)
      BY <1>1 DEF DueKept
    <2>2. CASE d = c
      BY <1>1, <1>2, <2>1, <2>2, CarriersAreWaitedFor DEF InFlight
    <2>3. CASE d # c
      BY <1>1, <2>1, <2>3 DEF InFlight
    <2> QED
      BY <2>2, <2>3
  <1> QED
    BY <1>1, <1>3 DEF DueKept, Carries

LEMMA ConfirmKeepsDue ==
  ASSUME NEW c
  PROVE  WalkInv /\ DueKept /\ Confirm(c) => DueKept'
  <1> SUFFICES ASSUME WalkInv, DueKept, Confirm(c) PROVE DueKept'
    OBVIOUS
  <1>1. Due' = Due /\ pc = "rate" /\ pc' = pc /\ hop' = hop
    BY SameDue DEF Confirm
  <1>2. InFlight \subseteq InFlight'
    <2>1. unheard = {c}
      <3>1. c \in unheard /\ \A d \in unheard : c = d
        BY DEF Confirm, WalkInv, Rows
      <3> QED
        BY <3>1
    <2>2. unrated' = unrated /\ rated \subseteq rated'
      BY DEF Confirm
    <2>3. c \in {e.tow : e \in rated'}
      <3> DEFINE x == [tow |-> c, live |-> LiveMile(position[c.tow])]
      <3>1. x \in rated' /\ x.tow = c
        BY DEF Confirm
      <3> HIDE DEF x
      <3> QED
        BY <3>1
    <2>4. {e.tow : e \in rated} \subseteq {e.tow : e \in rated'}
      BY <2>2
    <2> QED
      BY <2>1, <2>2, <2>3, <2>4 DEF InFlight
  <1> QED
    BY <1>1, <1>2 DEF DueKept, Carries

LEMMA WalkKeepsDue ==
  WalkInv /\ DueKept /\ Walk => DueKept'
  <1> SUFFICES ASSUME WalkInv, DueKept, Walk PROVE DueKept'
    OBVIOUS
  <1>1. Due' = Due /\ pc = "rate" /\ unrated = {} /\ unheard = {} /\ rated' = rated
    BY SameDue DEF Walk
  <1>2. \A q \in Due : \E e \in rated : Carries(e.tow, q)
    BY <1>1 DEF DueKept, InFlight
  <1> QED
    BY <1>1, <1>2 DEF DueKept, Walk, Carries

LEMMA DueStep ==
  WalkInv /\ DueKept /\ [Next]_vars => DueKept'
  <1> SUFFICES ASSUME WalkInv, DueKept, [Next]_vars PROVE DueKept'
    OBVIOUS
  <1>1. ASSUME NEW w \in Ways, Ask(w) PROVE DueKept'
    BY <1>1 DEF Ask, DueKept
  <1>2. CASE Reply \/ Fail
    BY <1>2 DEF Reply, Fail, DueKept
  <1>3. CASE UNCHANGED vars
    <2>1. Due' = Due
      BY <1>3, SameDue DEF vars, request
    <2> QED
      BY <1>3, <2>1 DEF vars, request, DueKept, Carries, InFlight
  <1> QED
    BY <1>1, <1>2, <1>3, RiverKeepsDue, PullKeepsDue, CheckKeepsDue, CollapseKeepsDue, RateKeepsDue,
       ConfirmKeepsDue, WalkKeepsDue DEF Next

\* A tow that left the nearest lock is in the answer, whatever is stored and heard, late or
\* not, while it is made, unless it speaks against her: neither the filters of
\* find_best_at_lock, nor the collapse of her cuts, nor the bounds on how long she is waited
\* for lose her, and build does not go on to the next lock without her.
THEOREM WhoIsDueIsAnswered == BlockSpec => []DueIsAnswered
  <1>1. BlockInit => DueKept
    BY DEF BlockInit, Init, DueKept
  <1>2. WalkInv /\ DueKept /\ [BlockNext]_blockVars => DueKept'
    BY DueStep, StepsOfTheWalk
  <1>3. DueKept => DueIsAnswered
    BY DEF DueKept, DueIsAnswered, Due, Carries
  <1> QED
    BY <1>1, <1>2, <1>3, WalkHolds, PTL DEF BlockSpec

----------------------------------------------------------------------------
(* A passage is one entry                                                  *)

LEMMA RiverKeepsCuts ==
  WalkInv /\ CutsKept /\ (Tick \/ \E v \in Tows : LockThrough(v) \/ Hear(v)) => CutsKept'
  <1> SUFFICES ASSUME WalkInv, CutsKept, Tick \/ \E v \in Tows : LockThrough(v) \/ Hear(v) PROVE CutsKept'
    OBVIOUS
  <1>1. /\ UNCHANGED <<pc, way, asked, hop, unchecked, kept, unrated, unheard, rated, known>>
        /\ lockages \subseteq lockages' /\ (pc # "idle" => \A v \in Tows : heard[v] \subseteq heard'[v])
    BY RiverMoves DEF request
  <1>2. InFlight' = InFlight
    BY <1>1 DEF InFlight
  <1>3. CASE pc = "idle"
    <2>1. InFlight = {}
      BY <1>3 DEF WalkInv, Stages, InFlight
    <2> QED
      BY <1>1, <1>2, <1>3, <2>1 DEF CutsKept
  <1>4. CASE pc # "idle"
    <2>1. OnRecord' \subseteq OnRecord /\ \A c : c.tow \in Tows /\ NotPassed(c)' => NotPassed(c)
      BY <1>1, <1>4, RecordShrinks
    <2>2. pc' = "check" =>
            \A r \in OnRecord' : r.lock \in NthLock(way', hop') /\ NotPassed(r)' => r \in unchecked' \cup kept'
      <3> SUFFICES ASSUME pc = "check", NEW r \in OnRecord', r.lock \in NthLock(way, hop), NotPassed(r)'
                   PROVE  r \in unchecked \cup kept
        BY <1>1 DEF NthLock, Behind
      <3>1. r \in OnRecord /\ r.tow \in Tows
        BY <2>1 DEF OnRecord, WalkInv, TypeOK, Lockage
      <3> QED
        BY <2>1, <3>1 DEF CutsKept
    <2>3. ASSUME NEW c \in InFlight', NotPassed(c)' PROVE TakesIn(c)'
      <3>1. c \in InFlight /\ c.tow \in Tows
        BY <1>2 DEF InFlight, WalkInv, TypeOK, Candidate
      <3>2. TakesIn(c)
        BY <2>1, <2>3, <3>1 DEF CutsKept
      <3> QED
        BY <2>1, <3>2, TakesInStays
    <2> QED
      BY <2>2, <2>3 DEF CutsKept, NthLock, Behind
  <1> QED
    BY <1>3, <1>4

\* A step of the handler that adds no candidate keeps what the candidates take in.
LEMMA CandidatesStay ==
  ASSUME CutsKept, UNCHANGED <<river, way, asked, history>>, InFlight' \subseteq InFlight
  PROVE  \A c \in InFlight' : NotPassed(c)' => TakesIn(c)'
  <1> SUFFICES ASSUME NEW c \in InFlight', NotPassed(c)' PROVE TakesIn(c)'
    OBVIOUS
  <1>1. NotPassed(c) /\ OnRecord' = OnRecord
    BY SameDue
  <1>2. TakesIn(c)
    BY <1>1 DEF CutsKept
  <1> QED
    BY <1>1, <1>2, TakesInStays

LEMMA PullKeepsCuts ==
  WalkInv /\ CutsKept /\ Pull => CutsKept'
  <1> SUFFICES ASSUME WalkInv, CutsKept, Pull PROVE CutsKept'
    OBVIOUS
  <1>1. UNCHANGED <<river, way, asked, history, hop, unrated, unheard, rated>> /\ OnRecord' = OnRecord
    BY SameDue DEF Pull
  <1>2. \A c \in InFlight' : NotPassed(c)' => TakesIn(c)'
    BY <1>1, CandidatesStay DEF InFlight
  <1>3. ASSUME pc' = "check", NEW r \in OnRecord, r.lock \in NthLock(way, hop)
        PROVE  r \in unchecked'
    <2>1. unchecked' = UNION {Departures(k) : k \in NthLock(way, hop)}
      BY <1>3 DEF Pull
    <2>2. r \in lockages /\ r \in Lockage /\ lockages \subseteq Lockage
      BY DEF OnRecord, WalkInv, TypeOK
    <2>3. ~Shuttles(r)
      <3> SUFFICES ASSUME NEW q \in lockages, q.tow = r.tow, q.lock = r.lock, q.way # r.way,
                          Distance(q.end, r.end) <= Shuttle
                   PROVE  FALSE
        BY DEF Shuttles
      <3>1. Distance(q.end, r.end) > Shuttle
        BY DEF OnRecord
      <3>2. q.end \in Nat /\ r.end \in Nat /\ Shuttle \in Nat
        BY <2>2, ModelAssumption DEF Lockage
      <3> QED
        BY <3>1, <3>2 DEF Distance
    <2>4. r \in Departures(r.lock)
      BY <2>2, <2>3 DEF Departures, OnRecord
    <2> QED
      BY <1>3, <2>1, <2>4
  <1>4. pc' = "check" =>
            \A r \in OnRecord' : r.lock \in NthLock(way', hop') /\ NotPassed(r)' => r \in unchecked' \cup kept'
    BY <1>1, <1>3 DEF NthLock, Behind
  <1> QED
    BY <1>2, <1>4 DEF CutsKept, NthLock, Behind

LEMMA CheckKeepsCuts ==
  ASSUME NEW r
  PROVE  WalkInv /\ CutsKept /\ Check(r) => CutsKept'
  <1> SUFFICES ASSUME WalkInv, CutsKept, Check(r) PROVE CutsKept'
    OBVIOUS
  <1>1. /\ UNCHANGED <<river, way, asked, history, hop, unrated, unheard, rated>>
        /\ pc = "check" /\ unchecked' = unchecked \ {r} /\ kept \subseteq kept'
        /\ ~Passed(way, position[r.tow]) => r \in kept'
    BY DEF Check
  <1>2. \A c \in InFlight' : NotPassed(c)' => TakesIn(c)'
    BY <1>1, CandidatesStay DEF InFlight
  <1>3. OnRecord' = OnRecord /\ \A q : NotPassed(q)' <=> NotPassed(q)
    BY <1>1, SameDue
  <1>4. ASSUME NEW q \in OnRecord, q.lock \in NthLock(way, hop), NotPassed(q)
        PROVE  q \in unchecked' \cup kept'
    <2>1. q \in unchecked \cup kept /\ q.tow \in Tows
      BY <1>1, <1>4 DEF CutsKept, OnRecord, WalkInv, TypeOK, Lockage
    <2>2. q = r => q \in kept'
      BY <1>1, <1>4, <2>1, NotPassedByPosition
    <2> QED
      BY <1>1, <2>1, <2>2
  <1> QED
    BY <1>1, <1>2, <1>3, <1>4 DEF CutsKept, NthLock, Behind

LEMMA CollapseKeepsCuts ==
  WalkInv /\ CutsKept /\ CollapseCuts => CutsKept'
  <1> SUFFICES ASSUME WalkInv, CutsKept, CollapseCuts PROVE CutsKept'
    OBVIOUS
  <1> DEFINE made == Collapse(kept)
  <1>1. /\ pc = "check" /\ pc' = "rate" /\ unchecked = {} /\ InFlight' = made
        /\ UNCHANGED <<river, way, asked, history>>
    BY DEF CollapseCuts, WalkInv, Stages, InFlight
  <1>2. kept \subseteq Lockage /\ IsFiniteSet(kept) /\ \A q, r \in kept : q.lock = r.lock
    BY KeptRows
  <1>3. ASSUME NEW c \in made, NotPassed(c) PROVE TakesIn(c)
    <2>1. PICK x \in kept : c.tow = x.tow /\ c.lock = x.lock
      BY <1>2, <1>3, CollapseType
    <2>2. x.lock \in NthLock(way, hop)
      BY DEF WalkInv, Rows
    <2>3. CutsOf(c) \subseteq kept /\ \A q \in CutsOf(c) : q.tow = c.tow
      <3> SUFFICES ASSUME NEW q \in CutsOf(c) PROVE q \in kept
        BY DEF CutsOf
      <3>1. q \in OnRecord /\ q.lock \in NthLock(way, hop) /\ q.tow = c.tow
        BY <2>1, <2>2 DEF CutsOf
      <3>2. NotPassed(q)
        BY <1>3, <3>1 DEF NotPassed
      <3> QED
        BY <1>1, <3>1, <3>2 DEF CutsKept
    <2>4. c \in Collapse(kept)
      BY <1>3
    <2> HIDE DEF made
    <2>5. PICK cuts : cuts = CutsOf(c)
      OBVIOUS
    <2>6. ASSUME NEW r \in cuts
          PROVE  /\ r.end \notin c.end + 1 .. c.end + Multicut
                 /\ r.end <= c.end /\ (\A t \in r.end .. c.end - 1 : \E q \in cuts : q.end \in t + 1 .. t + Multicut)
                      => r.barges <= c.barges
      <3>1. cuts \subseteq kept /\ \A q \in cuts : q.tow = c.tow
        BY <2>3, <2>5
      <3> QED
        BY <1>2, <2>4, <3>1, CollapseTakesIn
    <2> QED
      BY <2>5, <2>6 DEF TakesIn, SamePassage
  <1> HIDE DEF made
  <1>4. OnRecord' = OnRecord /\ \A q : NotPassed(q)' <=> NotPassed(q)
    BY <1>1, SameDue
  <1>5. ASSUME NEW c \in InFlight', NotPassed(c)' PROVE TakesIn(c)'
    <2>1. TakesIn(c)
      BY <1>1, <1>3, <1>4, <1>5
    <2> QED
      BY <1>4, <2>1, TakesInStays
  <1> QED
    BY <1>1, <1>5 DEF CutsKept

LEMMA RestKeepsCuts ==
  ASSUME NEW c, NEW d
  PROVE  WalkInv /\ CutsKept /\ (Rate(c) \/ Confirm(d) \/ Walk) => CutsKept'
  <1> SUFFICES ASSUME WalkInv, CutsKept, Rate(c) \/ Confirm(d) \/ Walk PROVE CutsKept'
    OBVIOUS
  <1>1. UNCHANGED <<river, way, asked, history>> /\ pc = "rate" /\ pc' # "check"
    BY DEF Rate, Confirm, Walk
  <1>2. InFlight' \subseteq InFlight
    BY DEF Rate, Confirm, Walk, InFlight
  <1> QED
    BY <1>1, <1>2, CandidatesStay DEF CutsKept

LEMMA CutsStep ==
  WalkInv /\ CutsKept /\ [Next]_vars => CutsKept'
  <1> SUFFICES ASSUME WalkInv, CutsKept, [Next]_vars PROVE CutsKept'
    OBVIOUS
  <1>1. ASSUME NEW w \in Ways, Ask(w) PROVE CutsKept'
    BY <1>1 DEF Ask, WalkInv, Stages, CutsKept, InFlight
  <1>2. CASE Reply \/ Fail
    BY <1>2 DEF Reply, Fail, WalkInv, Stages, CutsKept, InFlight
  <1>3. CASE UNCHANGED vars
    <2>1. UNCHANGED <<river, way, asked, history, pc, hop, unchecked, kept>> /\ InFlight' = InFlight
      BY <1>3 DEF vars, request, InFlight
    <2>2. OnRecord' = OnRecord /\ \A q : NotPassed(q)' <=> NotPassed(q)
      BY <2>1, SameDue
    <2>3. \A c \in InFlight' : NotPassed(c)' => TakesIn(c)'
      BY <2>1, CandidatesStay
    <2> QED
      BY <2>1, <2>2, <2>3 DEF CutsKept, NthLock, Behind
  <1> QED
    BY <1>1, <1>2, <1>3, RiverKeepsCuts, PullKeepsCuts, CheckKeepsCuts, CollapseKeepsCuts, RestKeepsCuts DEF Next

\* A tow that no position speaks against has one entry for a passage, with the end of the last
\* and the barges of the largest of the cuts that were stored when the request came, although
\* find_best_at_lock holds them against her position one by one before collapse_multicut
\* merges them; and the entries of any tow are further apart than cuts are.
THEOREM PassagesAreAnsweredOnce == BlockSpec => []OneEntryPerPassage
  <1>1. BlockInit => CutsKept
    BY DEF BlockInit, Init, CutsKept, InFlight
  <1>2. WalkInv /\ CutsKept /\ [BlockNext]_blockVars => CutsKept'
    BY CutsStep, StepsOfTheWalk
  <1>3. WalkInv /\ CutsKept => OneEntryPerPassage
    <2> SUFFICES ASSUME WalkInv, CutsKept, NEW e \in rated
                 PROVE  /\ \A f \in rated : f # e /\ f.tow.tow = e.tow.tow => Distance(e.tow.end, f.tow.end) > Multicut
                        /\ NotPassed(e.tow) => TakesIn(e.tow)
      BY DEF OneEntryPerPassage
    <2>1. e.tow \in InFlight /\ \A f \in rated : f.tow \in InFlight /\ (f # e => f.tow # e.tow)
      BY DEF InFlight, WalkInv, Apart
    <2> QED
      BY <2>1 DEF WalkInv, Apart, CutsKept
  <1> QED
    BY <1>1, <1>2, <1>3, WalkHolds, PTL DEF BlockSpec

----------------------------------------------------------------------------
(* Bands and estimates of one position                                     *)

LEMMA PositionParts ==
  ASSUME WalkInv, NEW p \in Position
  PROVE  /\ p.at \in Nat /\ p.mile \in Int /\ p.speed \in Nat /\ User \in Int /\ (way = 1 \/ way = -1) /\ asked \in Nat
         /\ Age(p) \in Int /\ Ahead(p) \in Int /\ way \in Ways
         /\ Typical[way] \in SpeedRange /\ Typical[way].lo <= Typical[way].hi
  <1>1. p.at \in Nat /\ p.mile \in Int /\ p.speed \in Nat
    BY RiverAssumption, SpeedsAssumption DEF Position
  <1>2. User \in Int /\ way \in Ways /\ (way = 1 \/ way = -1) /\ asked \in Nat
    BY RiverAssumption DEF WalkInv, TypeOK, Ways
  <1>3. Typical[way] \in SpeedRange /\ Typical[way].lo <= Typical[way].hi
    BY <1>2, SpeedsAssumption
  <1>4. Age(p) \in Int /\ Ahead(p) \in Int
    BY <1>1, <1>2 DEF Age, Ahead
  <1> QED
    BY <1>1, <1>2, <1>3, <1>4

LEMMA EstimateType ==
  ASSUME WalkInv, NEW p \in Position \cup {Unknown}
  PROVE  LiveEstimate(p) \in Nat \cup {Unknown}
  <1> DEFINE off == Distance(Ahead(p), 0)
  <1> SUFFICES ASSUME p # Unknown, p.speed >= 2 PROVE TimeFor(off, p.speed) \in Nat
    BY DEF LiveEstimate
  <1>1. p.speed \in Nat /\ Ahead(p) \in Int
    BY PositionParts
  <1>2. off \in Nat
    BY <1>1 DEF Distance
  <1> HIDE DEF off
  <1> QED
    BY <1>1, <1>2, TimeType

\* Where she can be reckoned with, an age of nought or more has passed.
LEMMA ReckonedParts ==
  ASSUME WalkInv, NEW p \in Position, Age(p) \in Nat
  PROVE  ReckonedAhead(p) \in Int /\ ReckonedAhead(p) <= Ahead(p)
  <1> DEFINE run == 5 * p.speed * Age(p)
  <1>1. p.speed \in Nat /\ Ahead(p) \in Int
    BY PositionParts
  <1>2. run \in Nat
    BY <1>1
  <1>3. ReckonedAhead(p) = Ahead(p) - run \div PerHour
    BY DEF ReckonedAhead
  <1> HIDE DEF run
  <1>4. run \div PerHour \in Nat
    BY <1>2, HourAssumption
  <1> QED
    BY <1>1, <1>3, <1>4

LEMMA LockBandInOrder ==
  ASSUME WalkInv, NEW c \in Candidate
  PROVE  LockBand(c) \in Band /\ InOrder(LockBand(c)) /\ LockBand(c).p10 <= LockBand(c).med
  <1> DEFINE after(t) == ((t - Elapsed(c)) * 600) \div PerHour
  <1>1. Leg(c) \in Locks \X BOOLEAN
    <2>1. c.lock \in Locks /\ c.barges \in Nat
      BY NumberFacts DEF Candidate
    <2> QED
      BY <2>1, LegParts
  <1>2. /\ Early[Leg(c)] \in Nat /\ Med[Leg(c)] \in Nat /\ Late[Leg(c)] \in Nat
        /\ Early[Leg(c)] <= Med[Leg(c)] /\ Med[Leg(c)] <= Late[Leg(c)]
    BY <1>1, EarlyAssumption, ModelAssumption, NumberFacts
  <1>3. Elapsed(c) \in Int
    BY DEF Elapsed, Candidate, WalkInv, TypeOK
  <1>4. ASSUME NEW s \in Nat, NEW t \in Nat, s <= t
        PROVE  after(s) \in Int /\ after(t) \in Int /\ after(s) <= after(t)
    <2> DEFINE x == (s - Elapsed(c)) * 600
               y == (t - Elapsed(c)) * 600
    <2>1. x \in Int /\ y \in Int /\ x <= y
      BY <1>3, <1>4
    <2> HIDE DEF x, y
    <2>2. x \div PerHour \in Int /\ y \div PerHour \in Int /\ x \div PerHour <= y \div PerHour
      BY <2>1, HourAssumption, DivisionIsMonotone
    <2> QED
      BY <2>2 DEF x, y
  <1>5. LockBand(c) = [p10 |-> after(Early[Leg(c)]), med |-> after(Med[Leg(c)]), p90 |-> after(Late[Leg(c)])]
    BY DEF LockBand
  <1> HIDE DEF after
  <1>6. /\ after(Early[Leg(c)]) \in Int /\ after(Med[Leg(c)]) \in Int /\ after(Late[Leg(c)]) \in Int
        /\ after(Early[Leg(c)]) <= after(Med[Leg(c)]) /\ after(Med[Leg(c)]) <= after(Late[Leg(c)])
    BY <1>2, <1>4
  <1> QED
    BY <1>5, <1>6 DEF Band, InOrder

\* The band is in order, whichever of the three it is.
LEMMA ArrivalHolds ==
  ASSUME WalkInv, NEW c \in Candidate, NEW p \in Position \cup {Unknown}
  PROVE  Arrival(c, p) \in [source : Sources, band : Band] /\ InOrderBlock(Arrival(c, p))
  <1>1. CASE UnderWayNow(p)
    <2>1. p \in Position /\ p.speed >= 6 /\ Ahead(p) \in 2 .. 199
      BY <1>1 DEF UnderWayNow
    <2>2. Ahead(p) \in Nat /\ p.speed \in Nat \ {0} /\ Typical[way] \in SpeedRange
      BY <2>1, PositionParts
    <2> DEFINE band == LiveBand(Ahead(p), p.speed, Typical[way])
    <2>3. Arrival(c, p) = [source |-> "live", band |-> band]
      <3>1. ~Reckonable(p)
        <4>1. Age(p) \in Int /\ Age(p) < UnderWay /\ UnderWay \in Nat
          BY <1>1, <2>1, PositionParts, BlocksAssumption DEF UnderWayNow
        <4> QED
          BY <4>1 DEF Reckonable
      <3> QED
        BY <1>1, <3>1 DEF Arrival
    <2>4. band \in Band /\ Holding(band) /\ band.p10 >= 0
      BY <2>2, LiveBandHolds
    <2> HIDE DEF band
    <2> QED
      BY <2>3, <2>4 DEF InOrderBlock, Sources, Holding, InOrder
  <1>2. CASE ~UnderWayNow(p) /\ Reckonable(p)
    <2>1. p \in Position /\ p.speed >= 6 /\ Age(p) \in UnderWay .. ReckonFor /\ ReckonedAhead(p) \in 1 .. 250
      BY <1>2 DEF Reckonable
    <2>2. /\ ReckonedAhead(p) \in Nat /\ p.speed \in Nat \ {0} /\ Age(p) \in Nat
          /\ Typical[way] \in SpeedRange /\ Typical[way].lo <= Typical[way].hi
      BY <2>1, PositionParts, BlocksAssumption
    <2> DEFINE band == ReckonedBand(ReckonedAhead(p), p.speed, Typical[way], Age(p))
    <2>3. Arrival(c, p) = [source |-> "reckoned", band |-> band]
      BY <1>2 DEF Arrival
    <2>4. band \in Band /\ InOrder(band) /\ band.p10 >= 0
      BY <2>2, ReckonedBandInOrder
    <2> HIDE DEF band
    <2> QED
      BY <2>3, <2>4 DEF InOrderBlock, Sources, InOrder
  <1>3. CASE ~UnderWayNow(p) /\ ~Reckonable(p)
    <2>1. Arrival(c, p) = [source |-> "lock", band |-> LockBand(c)]
      BY <1>3 DEF Arrival
    <2>2. LockBand(c) \in Band /\ InOrder(LockBand(c)) /\ LockBand(c).p10 <= LockBand(c).med
      BY LockBandInOrder
    <2> QED
      BY <2>1, <2>2 DEF InOrderBlock, Sources, InOrder
  <1> QED
    BY <1>1, <1>2, <1>3

----------------------------------------------------------------------------
(* The blocks                                                              *)

LEMMA NoBlocksYet ==
  ASSUME BlockInv, pc # "reply"
  PROVE  blocks = <<>> /\ estimated = {}
  BY DEF BlockInv

\* An answer without blocks is as good as any.
LEMMA EmptyAnswer ==
  ASSUME blocks' = <<>>, estimated' = {}, Confirmed'
  PROVE  BlockInv'
  <1>1. Len(blocks') = 0 /\ 1 .. Len(blocks') = {} /\ blocks' \in Seq(Block)
    BY DEF Block
  <1>2. Done' = {}
    BY <1>1 DEF Done
  <1>3. IsFiniteSet({}) /\ Cardinality({}) = 0 /\ MaxBoats \in Nat
    BY FS_EmptySet, BlocksAssumption
  <1> QED
    BY <1>1, <1>2, <1>3 DEF BlockInv

LEMMA RatedTows ==
  ASSUME WalkInv, NEW e \in rated
  PROVE  /\ e.tow \in Candidate /\ e.tow.tow \in Tows /\ e.live \in Miles \cup {Unknown}
         /\ e = [tow |-> e.tow, live |-> e.live] /\ position[e.tow.tow] \in Position \cup {Unknown}
         /\ heard[e.tow.tow] \subseteq Position \cup {Unknown}
  BY DEF WalkInv, TypeOK, Candidate

\* What a position says depends on it and on the request only.
LEMMA SameWords ==
  ASSUME UNCHANGED <<way, asked>>
  PROVE  /\ \A p : LiveMile(p)' = LiveMile(p)
         /\ \A p : LiveEstimate(p)' = LiveEstimate(p)
         /\ \A c, p : Arrival(c, p)' = Arrival(c, p)
  <1>1. ASSUME NEW p PROVE LiveMile(p)' = LiveMile(p)
    BY DEF LiveMile
  <1>2. ASSUME NEW p PROVE LiveEstimate(p)' = LiveEstimate(p)
    BY DEF LiveEstimate, Age, Ahead
  <1>3. ASSUME NEW c, NEW p PROVE Arrival(c, p)' = Arrival(c, p)
    BY DEF Arrival, UnderWayNow, Reckonable, ReckonedAhead, LockBand, Elapsed, Leg, Age, Ahead
  <1> QED
    BY <1>1, <1>2, <1>3

\* What has been said stays said while her positions only become more.
LEMMA SaidStays ==
  ASSUME UNCHANGED <<way, asked>>, NEW hers, NEW more, hers \subseteq more, NEW b
  PROVE  /\ Said(b, hers) => Said(b, more)'
         /\ (\E p \in hers : b.live = LiveMile(p)) => (\E p \in more : b.live = LiveMile(p))'
         /\ (\E p, q \in hers : NotAfter(p, q) /\ b.live = LiveMile(p) /\ b.estimate = LiveEstimate(q))
              => (\E p, q \in more : NotAfter(p, q) /\ b.live = LiveMile(p) /\ b.estimate = LiveEstimate(q))'
  <1>1. ASSUME Said(b, hers) PROVE Said(b, more)'
    <2>1. PICK p, q, t \in hers :
              /\ NotAfter(p, q) /\ NotAfter(q, t) /\ b.live = LiveMile(p) /\ b.estimate = LiveEstimate(q)
              /\ [source |-> b.source, band |-> b.band] = Arrival(b.tow, t)
      BY <1>1 DEF Said
    <2>2. p \in more /\ q \in more /\ t \in more
      OBVIOUS
    <2>3. /\ NotAfter(p, q)' /\ NotAfter(q, t)' /\ b.live = LiveMile(p)' /\ b.estimate = LiveEstimate(q)'
          /\ [source |-> b.source, band |-> b.band] = Arrival(b.tow, t)'
      BY <2>1, SameWords DEF NotAfter
    <2> QED
      BY <2>2, <2>3 DEF Said
  <1>2. ASSUME NEW p \in hers, b.live = LiveMile(p) PROVE (\E o \in more : b.live = LiveMile(o))'
    BY <1>2, SameWords
  <1>3. ASSUME NEW p \in hers, NEW q \in hers, NotAfter(p, q), b.live = LiveMile(p), b.estimate = LiveEstimate(q)
        PROVE  (\E o, u \in more : NotAfter(o, u) /\ b.live = LiveMile(o) /\ b.estimate = LiveEstimate(u))'
    <2>1. p \in more /\ q \in more /\ NotAfter(p, q)' /\ b.live = LiveMile(p)' /\ b.estimate = LiveEstimate(q)'
      BY <1>3, SameWords DEF NotAfter
    <2> QED
      BY <2>1
  <1> QED
    BY <1>1, <1>2, <1>3

\* A step that leaves the answer and the request alone, while her positions become more.
LEMMA AnswerStays ==
  ASSUME WalkInv, BlockInv, UNCHANGED <<pc, way, asked, rated, blocks>>,
         \A e \in rated : heard[e.tow.tow] \subseteq heard'[e.tow.tow]
  PROVE  /\ Confirmed' /\ Done' = Done
         /\ \A x : InHand(x) => InHand(x)'
         /\ \A i \in 1 .. Len(blocks) : Made(i)' /\ InOrderBlock(blocks[i])' /\ Foremost(blocks[i], DoneBy(i))'
  <1>1. Done' = Done
    BY DEF Done
  <1>2. Confirmed'
    <2> SUFFICES ASSUME NEW e \in rated PROVE (\E p \in heard[e.tow.tow] : e.live = LiveMile(p))'
      BY DEF Confirmed
    <2>1. \E p \in heard[e.tow.tow] : e.live = LiveMile(p)
      BY DEF BlockInv, Confirmed
    <2>2. heard[e.tow.tow] \subseteq heard'[e.tow.tow]
      OBVIOUS
    <2> QED
      BY <2>1, <2>2, SameWords
  <1>3. ASSUME NEW x, InHand(x) PROVE InHand(x)'
    <2>1. [tow |-> x.tow, live |-> x.live] \in rated /\ Foremost(x, Done)
      BY <1>3 DEF InHand
    <2>2. heard[x.tow.tow] \subseteq heard'[x.tow.tow]
      BY <2>1
    <2>3. (\E p, q \in heard[x.tow.tow] : NotAfter(p, q) /\ x.live = LiveMile(p) /\ x.estimate = LiveEstimate(q))'
      <3>1. PICK p, q \in heard[x.tow.tow] : NotAfter(p, q) /\ x.live = LiveMile(p) /\ x.estimate = LiveEstimate(q)
        BY <1>3 DEF InHand
      <3>2. p \in heard'[x.tow.tow] /\ q \in heard'[x.tow.tow] /\ NotAfter(p, q)'
            /\ x.live = LiveMile(p)' /\ x.estimate = LiveEstimate(q)'
        BY <2>2, <3>1, SameWords DEF NotAfter
      <3> QED
        BY <3>2
    <2>4. Foremost(x, Done)'
      BY <1>1, <2>1 DEF Foremost
    <2> QED
      BY <1>1, <1>3, <2>3, <2>4 DEF InHand
  <1>4. ASSUME NEW i \in 1 .. Len(blocks)
        PROVE  Made(i)' /\ InOrderBlock(blocks[i])' /\ Foremost(blocks[i], DoneBy(i))'
    <2>1. Made(i) /\ InOrderBlock(blocks[i]) /\ Foremost(blocks[i], DoneBy(i))
      BY DEF BlockInv
    <2>2. InOrderBlock(blocks[i])' /\ Foremost(blocks[i], DoneBy(i))'
      BY <2>1 DEF InOrderBlock, Foremost, DoneBy
    <2>3. PICK b : b = blocks[i]
      OBVIOUS
    <2>4. [tow |-> b.tow, live |-> b.live] \in rated /\ Said(b, heard[b.tow.tow])
      BY <2>1, <2>3 DEF Made
    <2>5. heard[b.tow.tow] \subseteq heard'[b.tow.tow]
      BY <2>4
    <2>6. PICK more : more = heard'[b.tow.tow]
      OBVIOUS
    <2>7. Said(b, more)'
      BY <2>4, <2>5, <2>6, SaidStays
    <2>8. Made(i)'
      BY <2>3, <2>4, <2>6, <2>7 DEF Made, Said
    <2> QED
      BY <2>2, <2>8
  <1> QED
    BY <1>1, <1>2, <1>3, <1>4

LEMMA RiverKeepsBlocks ==
  WalkInv /\ BlockInv /\ (Tick \/ \E v \in Tows : LockThrough(v) \/ Hear(v)) /\ UNCHANGED answer => BlockInv'
  <1> SUFFICES ASSUME WalkInv, BlockInv, Tick \/ \E v \in Tows : LockThrough(v) \/ Hear(v), UNCHANGED answer
               PROVE  BlockInv'
    OBVIOUS
  <1>1. /\ UNCHANGED <<pc, way, asked, rated, blocks, estimated>>
        /\ pc # "idle" => \A v \in Tows : heard[v] \subseteq heard'[v]
    BY RiverMoves DEF request, answer
  <1>2. \A e \in rated : heard[e.tow.tow] \subseteq heard'[e.tow.tow]
    <2>1. pc = "idle" => rated = {}
      BY DEF WalkInv, Stages
    <2> QED
      BY <1>1, <2>1, RatedTows
  <1>3. /\ Confirmed' /\ Done' = Done /\ (\A x : InHand(x) => InHand(x)')
        /\ \A i \in 1 .. Len(blocks) : Made(i)' /\ InOrderBlock(blocks[i])' /\ Foremost(blocks[i], DoneBy(i))'
    BY <1>1, <1>2, AnswerStays
  <1>4. /\ blocks' \in Seq(Block) /\ Len(blocks') <= MaxBoats /\ IsFiniteSet(Done') /\ Cardinality(Done') = Len(blocks')
        /\ Cardinality(estimated') <= 1 /\ (blocks' # <<>> \/ estimated' # {} => pc' = "reply")
        /\ (estimated' # {} => Len(blocks') < MaxBoats) /\ \A x \in estimated' : InHand(x)
    BY <1>1, <1>3 DEF BlockInv
  <1> QED
    BY <1>1, <1>3, <1>4 DEF BlockInv

\* Until the walk is over there are no blocks to disturb.
LEMMA WalkKeepsBlocks ==
  ASSUME NEW r, NEW c, NEW d, NEW w
  PROVE  WalkInv /\ BlockInv /\ (Ask(w) \/ Pull \/ CollapseCuts \/ Walk \/ Check(r) \/ Rate(c) \/ Confirm(d))
            /\ UNCHANGED answer => BlockInv'
  <1> SUFFICES ASSUME WalkInv, BlockInv, UNCHANGED answer,
                      Ask(w) \/ Pull \/ CollapseCuts \/ Walk \/ Check(r) \/ Rate(c) \/ Confirm(d)
               PROVE  BlockInv'
    OBVIOUS
  <1>1. pc # "reply"
    BY DEF Ask, Pull, CollapseCuts, Walk, Check, Rate, Confirm
  <1>2. blocks' = <<>> /\ estimated' = {}
    BY <1>1, NoBlocksYet DEF answer
  <1>3. Confirmed'
    <2>1. CASE Ask(w)
      BY <2>1 DEF Ask, WalkInv, Stages, Confirmed
    <2>2. CASE Pull \/ CollapseCuts \/ Walk \/ Check(r) \/ Rate(c)
      <3>1. UNCHANGED <<heard, way, asked, rated>>
        BY <2>2 DEF Pull, CollapseCuts, Walk, Check, Rate, history
      <3> QED
        BY <3>1, SameWords DEF BlockInv, Confirmed
    <2>3. CASE Confirm(d)
      <3>1. /\ UNCHANGED <<heard, way, asked>> /\ d \in unheard /\ pc = "rate"
            /\ rated' = rated \cup {[tow |-> d, live |-> LiveMile(position[d.tow])]}
        BY <2>3 DEF Confirm, history
      <3>2. position[d.tow] \in heard[d.tow]
        BY <3>1 DEF WalkInv, TypeOK, Hearing, Candidate
      <3> QED
        BY <3>1, <3>2, SameWords DEF BlockInv, Confirmed
    <2> QED
      BY <2>1, <2>2, <2>3
  <1> QED
    BY <1>2, <1>3, EmptyAnswer

LEMMA EndKeepsBlocks ==
  BlockInv /\ ((Reply /\ Complete) \/ Fail) /\ blocks' = <<>> /\ estimated' = {} => BlockInv'
  <1> SUFFICES ASSUME Reply \/ Fail, blocks' = <<>>, estimated' = {} PROVE BlockInv'
    OBVIOUS
  <1>1. Confirmed'
    BY DEF Reply, Fail, Confirmed
  <1> QED
    BY <1>1, EmptyAnswer

LEMMA StutterKeepsBlocks ==
  WalkInv /\ BlockInv /\ UNCHANGED blockVars => BlockInv'
  <1> SUFFICES ASSUME WalkInv, BlockInv, UNCHANGED blockVars PROVE BlockInv'
    OBVIOUS
  <1>1. UNCHANGED <<pc, way, asked, rated, blocks, estimated, heard>>
    BY DEF blockVars, vars, answer, request, history
  <1>2. /\ Confirmed' /\ Done' = Done /\ (\A x : InHand(x) => InHand(x)')
        /\ \A i \in 1 .. Len(blocks) : Made(i)' /\ InOrderBlock(blocks[i])' /\ Foremost(blocks[i], DoneBy(i))'
    BY <1>1, AnswerStays
  <1> QED
    BY <1>1, <1>2 DEF BlockInv

\* The next of the list stands before all that are left, so far as they were heard live.
LEMMA NextIsForemost ==
  ASSUME WalkInv, NEW e \in Left, \A f \in Left : ~Before(f, e)
  PROVE  Foremost(e, Done)
  <1> SUFFICES ASSUME NEW f \in rated, f.live # Unknown, f.tow \notin Done \cup {e.tow}
               PROVE  e.live # Unknown /\ Distance(User, e.live) <= Distance(User, f.live)
    BY DEF Foremost
  <1>1. f \in Left /\ e \in rated
    BY DEF Left
  <1>2. ~Before(f, e)
    BY <1>1
  <1>3. e.live # Unknown
    BY <1>2 DEF Before
  <1>4. ~(Distance(User, f.live) < Distance(User, e.live))
    BY <1>2, <1>3 DEF Before
  <1>5. e.live \in Int /\ f.live \in Int /\ User \in Int
    <2>1. e.live \in Miles \cup {Unknown} /\ f.live \in Miles \cup {Unknown}
      BY <1>1, RatedTows
    <2> QED
      BY <1>3, <2>1, RiverAssumption
  <1>6. Distance(User, f.live) \in Int /\ Distance(User, e.live) \in Int
    BY <1>5 DEF Distance
  <1> QED
    BY <1>3, <1>4, <1>6

LEMMA EstimateKeepsBlocks ==
  WalkInv /\ BlockInv /\ Estimate => BlockInv'
  <1> SUFFICES ASSUME WalkInv, BlockInv, Estimate PROVE BlockInv'
    OBVIOUS
  <1>1. PICK e \in Left :
            /\ \A f \in Left : ~Before(f, e)
            /\ estimated' = {[tow |-> e.tow, live |-> e.live, estimate |-> LiveEstimate(position[e.tow.tow])]}
    BY DEF Estimate
  <1>2. pc = "reply" /\ ~Complete /\ UNCHANGED <<vars, blocks>>
    BY DEF Estimate
  <1>3. UNCHANGED <<heard, way, asked, rated, pc, blocks>>
    BY <1>2 DEF vars, request, history
  <1>4. /\ Confirmed' /\ Done' = Done /\ (\A y : InHand(y) => InHand(y)')
        /\ \A i \in 1 .. Len(blocks) : Made(i)' /\ InOrderBlock(blocks[i])' /\ Foremost(blocks[i], DoneBy(i))'
    BY <1>3, AnswerStays
  <1>5. PICK x : x = [tow |-> e.tow, live |-> e.live, estimate |-> LiveEstimate(position[e.tow.tow])]
    OBVIOUS
  <1>6. e \in rated /\ e.tow \notin Done
    BY DEF Left
  <1>7. InHand(x)'
    <2>1. [tow |-> x.tow, live |-> x.live] \in rated
      BY <1>5, <1>6, RatedTows
    <2>2. x.estimate \in Nat \cup {Unknown}
      <3>1. position[e.tow.tow] \in Position \cup {Unknown}
        BY <1>6, RatedTows
      <3> QED
        BY <1>5, <3>1, EstimateType
    <2>3. Foremost(x, Done)
      <3>1. Foremost(e, Done)
        BY <1>1, NextIsForemost
      <3> QED
        BY <1>5, <3>1 DEF Foremost
    <2>4. \E p, q \in heard[x.tow.tow] : NotAfter(p, q) /\ x.live = LiveMile(p) /\ x.estimate = LiveEstimate(q)
      <3>1. PICK p \in heard[e.tow.tow] : e.live = LiveMile(p)
        BY <1>6 DEF BlockInv, Confirmed
      <3>2. position[e.tow.tow] \in heard[e.tow.tow] /\ NotAfter(p, position[e.tow.tow])
        BY <1>2, <1>6, RatedTows DEF WalkInv, Hearing
      <3> QED
        BY <1>5, <3>1, <3>2
    <2>5. x.tow \notin Done
      BY <1>5, <1>6
    <2>6. InHand(x)
      BY <2>1, <2>2, <2>3, <2>4, <2>5 DEF InHand
    <2> QED
      BY <1>4, <2>6
  <1>8. \A y \in estimated' : InHand(y)'
    <2> SUFFICES ASSUME NEW y \in estimated' PROVE InHand(y)'
      OBVIOUS
    <2>1. y = x
      BY <1>1, <1>5
    <2> QED
      BY <1>7, <2>1
  <1>9. Cardinality(estimated') <= 1
    <2>1. estimated' = {x}
      BY <1>1, <1>5
    <2>2. Cardinality({x}) = 1
      BY FS_Singleton
    <2> QED
      BY <2>1, <2>2
  <1>10. Len(blocks) < MaxBoats
    BY <1>2, BlocksAssumption DEF BlockInv, Complete
  <1> QED
    BY <1>2, <1>3, <1>4, <1>8, <1>9, <1>10 DEF BlockInv

LEMMA ArriveKeepsBlocks ==
  WalkInv /\ BlockInv /\ Arrive => BlockInv'
  <1> SUFFICES ASSUME WalkInv, BlockInv, Arrive PROVE BlockInv'
    OBVIOUS
  <1>1. PICK x \in estimated :
            blocks' = Append(blocks, [tow |-> x.tow, live |-> x.live, estimate |-> x.estimate,
                                      source |-> Arrival(x.tow, position[x.tow.tow]).source,
                                      band |-> Arrival(x.tow, position[x.tow.tow]).band])
    BY DEF Arrive
  <1>2. estimated' = {} /\ UNCHANGED <<heard, way, asked, rated, pc>>
    BY DEF Arrive, vars, request, history
  <1>3. InHand(x) /\ pc = "reply" /\ Len(blocks) < MaxBoats
    BY DEF BlockInv
  <1>4. /\ x.tow \in Candidate /\ x.tow.tow \in Tows /\ x.live \in Miles \cup {Unknown}
        /\ position[x.tow.tow] \in Position \cup {Unknown}
    <2>1. [tow |-> x.tow, live |-> x.live] \in rated
      BY <1>3 DEF InHand
    <2> QED
      BY <2>1, RatedTows
  <1>5. PICK a : a = Arrival(x.tow, position[x.tow.tow])
    OBVIOUS
  <1>6. a \in [source : Sources, band : Band] /\ InOrderBlock(a)
    BY <1>4, <1>5, ArrivalHolds
  <1>7. PICK b : b = [tow |-> x.tow, live |-> x.live, estimate |-> x.estimate, source |-> a.source, band |-> a.band]
    OBVIOUS
  <1>8. blocks' = Append(blocks, b) /\ b \in Block
    <2>1. x.estimate \in Nat \cup {Unknown}
      BY <1>3 DEF InHand
    <2> QED
      BY <1>1, <1>4, <1>5, <1>6, <1>7, <2>1 DEF Block
  <1>9. blocks \in Seq(Block) /\ Len(blocks) \in Nat
    BY DEF BlockInv
  <1>10. /\ blocks' \in Seq(Block) /\ Len(blocks') = Len(blocks) + 1
         /\ blocks'[Len(blocks) + 1] = b
         /\ \A i \in 1 .. Len(blocks) : blocks'[i] = blocks[i]
    BY <1>8, <1>9
  <1>11. Done' = Done \cup {x.tow} /\ x.tow \notin Done
    <2>1. \A i \in 1 .. Len(blocks) + 1 : i \in 1 .. Len(blocks) \/ i = Len(blocks) + 1
      BY <1>9
    <2>2. Len(blocks) + 1 \in 1 .. Len(blocks) + 1 /\ \A i \in 1 .. Len(blocks) : i \in 1 .. Len(blocks) + 1
      BY <1>9
    <2>3. b.tow = x.tow
      BY <1>7
    <2>4. x.tow \notin Done
      BY <1>3 DEF InHand
    <2> QED
      BY <1>10, <2>1, <2>2, <2>3, <2>4 DEF Done
  <1>12. IsFiniteSet(Done') /\ Cardinality(Done') = Len(blocks')
    BY <1>10, <1>11, FS_AddElement DEF BlockInv
  <1>13. Confirmed'
    BY <1>2, SameWords DEF BlockInv, Confirmed
  <1>14. ASSUME NEW i \in 1 .. Len(blocks)
         PROVE  Made(i)' /\ InOrderBlock(blocks[i])' /\ Foremost(blocks[i], DoneBy(i))'
    <2>1. Made(i) /\ InOrderBlock(blocks[i]) /\ Foremost(blocks[i], DoneBy(i))
      BY DEF BlockInv
    <2>2. blocks'[i] = blocks[i]
      BY <1>10
    <2>3. DoneBy(i)' = DoneBy(i)
      <3>1. \A j \in 1 .. i : j \in 1 .. Len(blocks)
        BY <1>9
      <3>2. \A j \in 1 .. i : blocks'[j] = blocks[j]
        BY <1>10, <3>1
      <3> QED
        BY <3>2 DEF DoneBy
    <2>4. InOrderBlock(blocks[i])' /\ Foremost(blocks[i], DoneBy(i))'
      BY <1>2, <2>1, <2>2, <2>3 DEF InOrderBlock, Foremost
    <2>5. PICK y : y = blocks[i]
      OBVIOUS
    <2>6. [tow |-> y.tow, live |-> y.live] \in rated /\ Said(y, heard[y.tow.tow])
      BY <2>1, <2>5 DEF Made
    <2>7. PICK hers : hers = heard[y.tow.tow]
      OBVIOUS
    <2>8. Said(y, hers)'
      BY <1>2, <2>6, <2>7, SaidStays
    <2>9. Made(i)'
      BY <1>2, <2>2, <2>5, <2>6, <2>7, <2>8 DEF Made, Said
    <2> QED
      BY <2>4, <2>9
  <1>15. ASSUME NEW i, i = Len(blocks) + 1
         PROVE  Made(i)' /\ InOrderBlock(blocks[i])' /\ Foremost(blocks[i], DoneBy(i))'
    <2>1. /\ blocks'[i] = b /\ b.tow = x.tow /\ b.live = x.live /\ b.estimate = x.estimate
          /\ b.source = a.source /\ b.band = a.band
      BY <1>7, <1>10, <1>15
    <2>2. InOrderBlock(blocks[i])'
      BY <1>6, <2>1 DEF InOrderBlock
    <2>3. DoneBy(i)' = Done'
      BY <1>10, <1>15 DEF DoneBy, Done
    <2>4. Foremost(blocks[i], DoneBy(i))'
      <3>1. Foremost(x, Done)
        BY <1>3 DEF InHand
      <3> QED
        BY <1>2, <1>11, <2>1, <2>3, <3>1 DEF Foremost
    <2>5. Made(i)'
      <3>1. [tow |-> x.tow, live |-> x.live] \in rated
        BY <1>3 DEF InHand
      <3>2. PICK hers : hers = heard[x.tow.tow]
        OBVIOUS
      <3>3. PICK p, q \in hers : NotAfter(p, q) /\ x.live = LiveMile(p) /\ x.estimate = LiveEstimate(q)
        BY <1>3, <3>2 DEF InHand
      <3>4. PICK t : t = position[x.tow.tow]
        OBVIOUS
      <3>5. t \in hers /\ NotAfter(q, t)
        BY <1>3, <1>4, <3>2, <3>4 DEF WalkInv, Hearing
      <3>6. [source |-> a.source, band |-> a.band] = Arrival(x.tow, t)
        BY <1>5, <1>6, <3>4
      <3>7. Said(b, hers)
        BY <2>1, <3>3, <3>5, <3>6 DEF Said
      <3>8. Said(b, hers)'
        BY <1>2, <3>7, SaidStays
      <3> QED
        BY <1>2, <2>1, <3>1, <3>2, <3>8 DEF Made, Said
    <2> QED
      BY <2>2, <2>4, <2>5
  <1>16. \A i \in 1 .. Len(blocks') : Made(i)' /\ InOrderBlock(blocks[i])' /\ Foremost(blocks[i], DoneBy(i))'
    <2>1. \A i \in 1 .. Len(blocks') : i \in 1 .. Len(blocks) \/ i = Len(blocks) + 1
      BY <1>9, <1>10
    <2> QED
      BY <1>14, <1>15, <2>1
  <1>17. Len(blocks') <= MaxBoats /\ Cardinality(estimated') <= 1
    BY <1>2, <1>3, <1>9, <1>10, BlocksAssumption, FS_EmptySet
  <1> QED
    BY <1>2, <1>3, <1>10, <1>12, <1>13, <1>16, <1>17 DEF BlockInv

LEMMA BlockStep ==
  WalkInv /\ BlockInv /\ [BlockNext]_blockVars => BlockInv'
  BY RiverKeepsBlocks, WalkKeepsBlocks, EndKeepsBlocks, StutterKeepsBlocks, EstimateKeepsBlocks, ArriveKeepsBlocks
     DEF BlockNext

LEMMA BlocksHold ==
  BlockSpec => []BlockInv
  <1>1. BlockInit => BlockInv
    <2> SUFFICES ASSUME BlockInit PROVE BlockInv
      OBVIOUS
    <2>1. Len(blocks) = 0 /\ 1 .. Len(blocks) = {} /\ blocks \in Seq(Block) /\ estimated = {}
      BY DEF BlockInit
    <2>2. Done = {}
      BY <2>1 DEF Done
    <2>3. IsFiniteSet({}) /\ Cardinality({}) = 0 /\ MaxBoats \in Nat
      BY FS_EmptySet, BlocksAssumption
    <2>4. Confirmed
      BY DEF BlockInit, Init, Confirmed
    <2> QED
      BY <2>1, <2>2, <2>3, <2>4 DEF BlockInv, BlockInit
  <1>2. WalkInv /\ BlockInv /\ [BlockNext]_blockVars => BlockInv'
    BY BlockStep
  <1> QED
    BY <1>1, <1>2, WalkHolds, PTL DEF BlockSpec

\* The state of the handler keeps its types, and no candidate of _walk_chain's list is given
\* two blocks by the loop over it.
THEOREM BlocksAreTyped == BlockSpec => []BlockTypeOK
  <1>1. WalkInv /\ BlockInv => BlockTypeOK
    BY DEF WalkInv, BlockInv, BlockTypeOK
  <1> QED
    BY <1>1, WalkHolds, BlocksHold, PTL

\* Every band of an answer is in order, whether compute_antenna_verified_bands made it from
\* where she is, from where she should be or left it to the lock feed, and whatever was heard
\* of her between the queries for it.
THEOREM BandsOfBlocksAreInOrder == BlockSpec => []BlocksInOrder
  <1>1. BlockInv => BlocksInOrder
    BY DEF BlockInv, InOrderBlock, BlocksInOrder
  <1> QED
    BY <1>1, BlocksHold, PTL

\* What a position says of a tow on her way, be it from before the request or newer.
LEMMA HeardBand ==
  ASSUME WalkInv, NEW p \in Position, NEW c, p.course = way, p.speed >= 6
  PROVE  /\ Age(p) <= LiveFor /\ Ahead(p) \in 3 .. 150 =>
              /\ LiveEstimate(p) = TimeFor(Ahead(p), p.speed) /\ LiveMile(p) = p.mile
              /\ Arrival(c, p).source = "live" /\ Arrival(c, p).band.med = TimeFor(Ahead(p), p.speed)
         /\ Age(p) <= ReckonFor /\ Ahead(p) \in 2 .. 199 /\ ReckonedAhead(p) >= 1 =>
              Arrival(c, p).source # "lock"
  <1>1. p # Unknown
    BY UnknownAssumption
  <1>2. /\ p.at \in Nat /\ p.mile \in Int /\ p.speed \in Nat /\ User \in Int /\ (way = 1 \/ way = -1) /\ asked \in Nat
        /\ Age(p) \in Int /\ Ahead(p) \in Int
    BY PositionParts
  <1>3. /\ LiveFor \in Nat /\ UnderWay \in Nat /\ ReckonFor \in Nat /\ Passing \in Nat /\ Abreast \in Nat
        /\ LiveFor < UnderWay /\ UnderWay <= ReckonFor
    BY ModelAssumption, BlocksAssumption
  <1>4. UnderWayNow(p) => ~Reckonable(p)
    BY <1>2, <1>3 DEF UnderWayNow, Reckonable
  <1>5. ASSUME Age(p) <= LiveFor, Ahead(p) \in 3 .. 150
        PROVE  /\ LiveEstimate(p) = TimeFor(Ahead(p), p.speed) /\ LiveMile(p) = p.mile
               /\ Arrival(c, p).source = "live" /\ Arrival(c, p).band.med = TimeFor(Ahead(p), p.speed)
    <2>1. Distance(Ahead(p), 0) = Ahead(p) /\ Ahead(p) >= -10 * Passing /\ Ahead(p) <= 150 /\ ~(Ahead(p) < 3)
      BY <1>2, <1>3, <1>5 DEF Distance
    <2>2. LiveEstimate(p) = TimeFor(Ahead(p), p.speed)
      BY <1>1, <1>2, <1>5, <2>1 DEF LiveEstimate
    <2>3. way * (p.mile - User) <= Abreast
      BY <1>2, <1>3, <1>5 DEF Ahead
    <2>4. LiveMile(p) = p.mile
      BY <1>1, <1>5, <2>3 DEF LiveMile, Age
    <2>5. UnderWayNow(p)
      BY <1>1, <1>2, <1>3, <1>5 DEF UnderWayNow
    <2>6. Arrival(c, p) = [source |-> "live", band |-> LiveBand(Ahead(p), p.speed, Typical[way])]
      BY <1>4, <2>5 DEF Arrival
    <2> QED
      BY <2>2, <2>4, <2>6 DEF LiveBand
  <1>6. ASSUME Age(p) <= ReckonFor, Ahead(p) \in 2 .. 199, ReckonedAhead(p) >= 1
        PROVE  Arrival(c, p).source # "lock"
    <2>1. CASE Age(p) < UnderWay
      <3>1. UnderWayNow(p)
        BY <1>1, <1>6, <2>1 DEF UnderWayNow
      <3> QED
        BY <1>4, <3>1 DEF Arrival
    <2>2. CASE ~(Age(p) < UnderWay)
      <3>1. Age(p) \in Nat
        BY <1>2, <1>3, <2>2
      <3>2. ReckonedAhead(p) \in Int /\ ReckonedAhead(p) <= Ahead(p)
        BY <3>1, ReckonedParts
      <3>3. Reckonable(p)
        BY <1>1, <1>3, <1>6, <2>2, <3>1, <3>2 DEF Reckonable
      <3> QED
        BY <1>4, <3>3 DEF Arrival
    <2> QED
      BY <2>1, <2>2
  <1> QED
    BY <1>5, <1>6

\* What HeardIsUsed says of the ith block, of a tow that has been at the positions in hers.
UsedBy(i, b, hers) ==
    /\ \A e \in rated : e.live # Unknown /\ e.tow \notin {blocks[j].tow : j \in 1 .. i} =>
          b.live # Unknown /\ Distance(User, b.live) <= Distance(User, e.live)
    /\ (\A p \in hers : p # Unknown /\ p.course = way /\ p.speed >= 6) =>
         /\ (\A p \in hers : Age(p) <= LiveFor /\ Ahead(p) \in 3 .. 150) =>
                \E p, q, s \in hers :
                    /\ NotAfter(p, q) /\ NotAfter(q, s)
                    /\ b.live = p.mile
                    /\ b.estimate = TimeFor(Ahead(q), q.speed)
                    /\ b.source = "live" /\ b.band.med = TimeFor(Ahead(s), s.speed)
         /\ (\A p \in hers : Age(p) <= ReckonFor /\ Ahead(p) \in 2 .. 199 /\ ReckonedAhead(p) >= 1) =>
                b.source # "lock"

LEMMA BlockIsUsed ==
  ASSUME WalkInv, BlockInv, NEW i \in 1 .. Len(blocks), NEW b, b = blocks[i],
         NEW hers, hers = heard[b.tow.tow]
  PROVE  UsedBy(i, b, hers)
  <1>1. Made(i) /\ Foremost(b, DoneBy(i)) /\ blocks \in Seq(Block) /\ b \in Block
    BY DEF BlockInv
  <1>2. b.tow \in DoneBy(i)
    BY <1>1 DEF DoneBy
  <1>3. \A e \in rated : e.live # Unknown /\ e.tow \notin {blocks[j].tow : j \in 1 .. i} =>
            b.live # Unknown /\ Distance(User, b.live) <= Distance(User, e.live)
    BY <1>1, <1>2 DEF Foremost, DoneBy
  <1>4. [tow |-> b.tow, live |-> b.live] \in rated /\ Said(b, hers)
    BY <1>1 DEF Made
  <1>5. hers \subseteq Position \cup {Unknown}
    BY <1>4, RatedTows
  <1>6. PICK p, q, t \in hers :
            /\ NotAfter(p, q) /\ NotAfter(q, t) /\ b.live = LiveMile(p) /\ b.estimate = LiveEstimate(q)
            /\ [source |-> b.source, band |-> b.band] = Arrival(b.tow, t)
    BY <1>4 DEF Said
  <1>7. b.source = Arrival(b.tow, t).source /\ b.band = Arrival(b.tow, t).band
    <2>1. [source |-> b.source, band |-> b.band].source = Arrival(b.tow, t).source
      BY <1>6
    <2>2. [source |-> b.source, band |-> b.band].band = Arrival(b.tow, t).band
      BY <1>6
    <2> QED
      BY <2>1, <2>2
  <1>8. ASSUME \A o \in hers : o # Unknown /\ o.course = way /\ o.speed >= 6
        PROVE  /\ (\A o \in hers : Age(o) <= LiveFor /\ Ahead(o) \in 3 .. 150) =>
                      /\ b.live = p.mile /\ b.estimate = TimeFor(Ahead(q), q.speed)
                      /\ b.source = "live" /\ b.band.med = TimeFor(Ahead(t), t.speed)
               /\ (\A o \in hers : Age(o) <= ReckonFor /\ Ahead(o) \in 2 .. 199 /\ ReckonedAhead(o) >= 1) =>
                      b.source # "lock"
    <2>1. \A o \in hers : o \in Position /\ o.course = way /\ o.speed >= 6
      BY <1>5, <1>8
    <2>2. ASSUME \A o \in hers : Age(o) <= LiveFor /\ Ahead(o) \in 3 .. 150
          PROVE  /\ b.live = p.mile /\ b.estimate = TimeFor(Ahead(q), q.speed)
                 /\ b.source = "live" /\ b.band.med = TimeFor(Ahead(t), t.speed)
      <3>1. LiveMile(p) = p.mile
        BY <2>1, <2>2, HeardBand
      <3>2. LiveEstimate(q) = TimeFor(Ahead(q), q.speed)
        BY <2>1, <2>2, HeardBand
      <3>3. Arrival(b.tow, t).source = "live" /\ Arrival(b.tow, t).band.med = TimeFor(Ahead(t), t.speed)
        BY <2>1, <2>2, HeardBand
      <3> QED
        BY <1>6, <1>7, <3>1, <3>2, <3>3
    <2>3. ASSUME \A o \in hers : Age(o) <= ReckonFor /\ Ahead(o) \in 2 .. 199 /\ ReckonedAhead(o) >= 1
          PROVE  b.source # "lock"
      <3>1. Arrival(b.tow, t).source # "lock"
        BY <2>1, <2>3, HeardBand
      <3> QED
        BY <1>7, <3>1
    <2> QED
      BY <2>2, <2>3
  <1> QED
    BY <1>3, <1>6, <1>8 DEF UsedBy

\* What is heard of a tow is used: the one that _sort_key puts first among those heard live
\* has her block first; and a tow that is on her way and live by every position that was her
\* newest since the request came is answered as live, with the mile, the estimate and the band
\* of such positions in the order they came in, though the five queries about her are awaited
\* one after the other and positions are stored in between, late ones too.
THEOREM WhatIsHeardIsUsed == BlockSpec => []HeardIsUsed
  <1>1. WalkInv /\ BlockInv => HeardIsUsed
    <2>1. (\A i \in 1 .. Len(blocks) : UsedBy(i, blocks[i], heard[blocks[i].tow.tow])) => HeardIsUsed
      BY DEF HeardIsUsed, UsedBy
    <2>2. ASSUME WalkInv, BlockInv, NEW i \in 1 .. Len(blocks)
          PROVE  UsedBy(i, blocks[i], heard[blocks[i].tow.tow])
      BY <2>2, BlockIsUsed
    <2> QED
      BY <2>1, <2>2
  <1> QED
    BY <1>1, WalkHolds, BlocksHold, PTL

=============================================================================
