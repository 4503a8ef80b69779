------------------------- MODULE LockageProofs -------------------------
(***************************************************************************)
(* Theorems about the users of Lockages: the types of TransitTable, how    *)
(* old the table a request is answered with may be, and what boats really  *)
(* took over the legs of it; the points and the legs of a replay; and the  *)
(* round trips of a profile.  All rest on RouteInv, how a boat gets from   *)
(* one lock to the next, for any fleet on any chain of locks.              *)
(***************************************************************************)
EXTENDS TransitTable, VesselHistory, FiniteSetTheorems, TLAPS

\* Boats that go in one piece are between the locks.
PoolInv == \A b \in Boats \ Double : place[b] % 2 = 0

\* The time a table is kept under is not after its scan; a request that scanned did so after it
\* came, and one that has its answer was not given one of TTL or older.
AgeInv ==
    /\ cache # None => cache.at <= cache.taken
    /\ \A r \in Requests :
         /\ table[r] # None => table[r].at <= table[r].taken
         /\ pc[r] = "keep" => table[r].taken >= asked[r]
    /\ ServedIsRecent

----------------------------------------------------------------------------
(* The river                                                               *)

LEMMA Numbers ==
  /\ LockCount \in Nat /\ MaxTime \in Nat /\ MaxLockages \in Nat
  /\ MinSamples \in Nat /\ MaxGap \in Nat /\ TTL \in Nat /\ TTL >= 1
  BY BoundsAssumption, TableAssumption

\* Where a boat gets to and through which lock.
LEMMA WayThrough ==
  ASSUME NEW p \in Places, NEW w \in Ways, p + w \in Places
  PROVE  /\ (p + IF w = 1 THEN 2 ELSE 1) \div 2 \in Locks
         /\ p % 2 = 0 => p + 2 * w \in Places /\ (p + 2 * w) % 2 = 0
  <1>1. p \in Int /\ 0 <= p /\ p <= 2 * LockCount
    BY Numbers DEF Places
  <1>2. CASE w = 1
    BY <1>1, <1>2, Numbers DEF Places, Locks
  <1>3. CASE w = -1
    BY <1>1, <1>3, Numbers DEF Places, Locks
  <1> QED
    BY <1>2, <1>3 DEF Ways

LEMMA RiverStart == RiverInit => RiverTypeOK /\ PoolInv
  BY FleetAssumption, Numbers DEF RiverInit, RiverTypeOK, PoolInv

LEMMA ThroughStep ==
  ASSUME RiverTypeOK, PoolInv, NEW b \in Boats, NEW w \in Ways, LockThrough(b, w)
  PROVE  RiverTypeOK' /\ PoolInv'
  <1> DEFINE lockage == [boat |-> b, lock |-> (place[b] + IF w = 1 THEN 2 ELSE 1) \div 2,
                         way |-> w, at |-> now]
  <1>1. place[b] \in Places /\ now \in Nat
    BY Numbers DEF RiverTypeOK
  <1>2. place[b] + w \in Places /\ made' = made \cup {lockage} /\ now' = now /\ rows' = rows
    BY DEF LockThrough
  <1>3. lockage \in Lockage
    BY <1>1, <1>2, WayThrough DEF Lockage
  <1>4. /\ b \in Double => place' = [place EXCEPT ![b] = @ + w]
        /\ b \notin Double => place' = [place EXCEPT ![b] = @ + 2 * w]
    BY DEF LockThrough
  <1>5. place' \in [Boats -> Places] /\ PoolInv'
    <2>1. CASE b \in Double
      BY <1>2, <1>4, <2>1 DEF RiverTypeOK, PoolInv
    <2>2. CASE b \notin Double
      <3>1. place[b] % 2 = 0
        BY <2>2 DEF PoolInv
      <3>2. place[b] + 2 * w \in Places /\ (place[b] + 2 * w) % 2 = 0
        BY <1>1, <1>2, <3>1, WayThrough
      <3> QED
        BY <1>4, <2>2, <3>2 DEF RiverTypeOK, PoolInv
    <2> QED
      BY <2>1, <2>2
  <1>6. \A c \in made' : c.at <= now'
    BY <1>1, <1>2 DEF RiverTypeOK
  <1> QED
    BY <1>2, <1>3, <1>5, <1>6 DEF RiverTypeOK

LEMMA RiverMoves ==
  ASSUME RiverTypeOK, PoolInv, RiverStep
  PROVE  RiverTypeOK' /\ PoolInv' /\ now <= now' /\ rows \subseteq rows'
  <1>1. CASE Tick
    <2>1. now \in Nat /\ now' = now + 1 /\ now' \in 0 .. MaxTime /\ UNCHANGED <<place, made, rows>>
      BY <1>1, Numbers DEF Tick, RiverTypeOK
    <2>2. \A c \in made : c.at \in Nat /\ c.at <= now
      BY DEF RiverTypeOK, Lockage
    <2>3. \A c \in made' : c.at <= now'
      BY <2>1, <2>2
    <2> QED
      BY <2>1, <2>3 DEF RiverTypeOK, PoolInv
  <1>2. ASSUME NEW b \in Boats, NEW w \in Ways, LockThrough(b, w)
        PROVE  RiverTypeOK' /\ PoolInv' /\ now <= now' /\ rows \subseteq rows'
    <2>1. RiverTypeOK' /\ PoolInv'
      BY <1>2, ThroughStep
    <2>2. now \in Nat /\ now' = now /\ rows' = rows
      BY <1>2, Numbers DEF LockThrough, RiverTypeOK
    <2> QED
      BY <2>1, <2>2
  <1>3. ASSUME NEW c \in made \ rows, Store(c)
        PROVE  RiverTypeOK' /\ PoolInv' /\ now <= now' /\ rows \subseteq rows'
    BY <1>3, Numbers DEF Store, RiverTypeOK, PoolInv
  <1> QED
    BY <1>1, <1>2, <1>3 DEF RiverStep

----------------------------------------------------------------------------
(* Where the boats go                                                      *)

\* One name has one lockage at a time; the last one of a boat says where she is, in the lock
\* after a cut and else in the pool it leads to; and the next one is at the next lock on the
\* same way, or at the same lock, for a boat in one piece the other way.
RouteInv ==
    /\ IsFiniteSet(made)
    /\ \A x, y \in made : NameOf[x.boat] = NameOf[y.boat] /\ x.at = y.at => x = y
    /\ \A x \in made : (\A y \in made : y.boat = x.boat => y.at <= x.at) =>
         place[x.boat] \in {2 * x.lock - 1, 2 * x.lock - (IF x.way = 1 THEN 0 ELSE 2)}
    /\ \A x, y \in made : Successive(x, y) =>
         \/ y.way = x.way /\ y.lock = x.lock + x.way
         \/ y.lock = x.lock /\ (x.boat \in Double \/ y.way # x.way)

LEMMA RouteStart == RiverInit => RouteInv
  BY FS_EmptySet DEF RiverInit, RouteInv

\* What is in the two states of a lockage.
LEMMA LockageParts ==
  ASSUME RiverTypeOK, NEW x \in made
  PROVE  /\ x.boat \in Boats /\ x.lock \in Locks /\ x.lock \in Int /\ x.way \in {1, -1}
         /\ x.at \in Nat /\ x.at <= now
  BY DEF RiverTypeOK, Lockage, Locks, Ways

\* A lockage begins and ends in the lock or next to it.
LEMMA LockIsBetween ==
  ASSUME NEW p \in Nat, NEW w \in {1, -1}, NEW k, k = (p + IF w = 1 THEN 2 ELSE 1) \div 2
  PROVE  /\ k \in Int
         /\ p \in {2 * k - 1, 2 * k - (IF w = 1 THEN 2 ELSE 0)}
         /\ p + w \in {2 * k - 1, 2 * k - (IF w = 1 THEN 0 ELSE 2)}
         /\ p % 2 = 0 => p = 2 * k - (IF w = 1 THEN 2 ELSE 0)
                         /\ p + 2 * w = 2 * k - (IF w = 1 THEN 0 ELSE 2)
  <1>1. CASE w = 1
    <2>1. k = (p + 2) \div 2
      BY <1>1
    <2>2. k \in Int /\ (p = 2 * k - 1 \/ p = 2 * k - 2) /\ (p % 2 = 0 => p = 2 * k - 2)
      BY <2>1
    <2> QED
      BY <1>1, <2>2
  <1>2. CASE w = -1
    <2>1. k = (p + 1) \div 2 /\ w # 1
      BY <1>2
    <2>2. k \in Int /\ (p = 2 * k - 1 \/ p = 2 * k) /\ (p % 2 = 0 => p = 2 * k)
      BY <2>1
    <2>3. p + w = p - 1 /\ p + 2 * w = p - 2
      BY <1>2
    <2>4. (IF w = 1 THEN 2 ELSE 0) = 0 /\ (IF w = 1 THEN 0 ELSE 2) = 2
      BY <2>1
    <2> QED
      BY <2>2, <2>3, <2>4
  <1> QED
    BY <1>1, <1>2

\* From where a lockage ended to where the next one begins.
LEMMA LockAfterLock ==
  ASSUME NEW p \in Nat, NEW k \in Int, NEW v \in {1, -1}, NEW l \in Int, NEW w \in {1, -1},
         p \in {2 * k - 1, 2 * k - (IF v = 1 THEN 0 ELSE 2)},
         p \in {2 * l - 1, 2 * l - (IF w = 1 THEN 2 ELSE 0)}
  PROVE  (w = v /\ l = k + v) \/ (l = k /\ (p % 2 # 0 \/ w # v))
  <1>1. v = 1 \/ v = -1
    OBVIOUS
  <1>2. w = 1 \/ w = -1
    OBVIOUS
  <1>3. CASE v = 1
    <2>1. p = 2 * k - 1 \/ p = 2 * k
      BY <1>3
    <2>2. CASE w = 1
      <3>1. p = 2 * l - 1 \/ p = 2 * l - 2
        BY <2>2
      <3> QED
        BY <1>3, <2>1, <2>2, <3>1
    <2>3. CASE w = -1
      <3>1. p = 2 * l - 1 \/ p = 2 * l
        BY <2>3
      <3>2. (l = k /\ p % 2 # 0) \/ l = k
        BY <2>1, <3>1
      <3>3. w # v
        BY <1>3, <2>3
      <3> QED
        BY <3>2, <3>3
    <2> QED
      BY <1>2, <2>2, <2>3
  <1>4. CASE v = -1
    <2>1. p = 2 * k - 1 \/ p = 2 * k - 2
      BY <1>4
    <2>2. CASE w = 1
      <3>1. p = 2 * l - 1 \/ p = 2 * l - 2
        BY <2>2
      <3>2. l = k
        BY <2>1, <3>1
      <3>3. w # v
        BY <1>4, <2>2
      <3> QED
        BY <3>2, <3>3
    <2>3. CASE w = -1
      <3>1. p = 2 * l - 1 \/ p = 2 * l
        BY <2>3
      <3>2. (l = k /\ p % 2 # 0) \/ l = k - 1
        BY <2>1, <3>1
      <3>3. w = v /\ k + v = k - 1
        BY <1>4, <2>3
      <3> QED
        BY <3>2, <3>3
    <2> QED
      BY <1>2, <2>2, <2>3
  <1> QED
    BY <1>1, <1>3, <1>4

LEMMA ThroughRoute ==
  ASSUME RiverTypeOK, PoolInv, RouteInv, NEW b \in Boats, NEW w \in Ways, LockThrough(b, w)
  PROVE  RouteInv'
  <1> DEFINE n == [boat |-> b, lock |-> (place[b] + IF w = 1 THEN 2 ELSE 1) \div 2,
                   way |-> w, at |-> now]
  <1>1. /\ place[b] \in Nat /\ now \in Nat /\ w \in {1, -1} /\ DOMAIN place = Boats
        /\ DOMAIN NameOf = Boats
    BY Numbers, FleetAssumption DEF RiverTypeOK, Places, Ways
  <1>2. made' = made \cup {n}
    BY DEF LockThrough
  <1>3. \A x \in made : NameOf[x.boat] = NameOf[b] => x.at < now
    BY DEF LockThrough
  <1>4. place' = [place EXCEPT ![b] = @ + IF b \in Double THEN w ELSE 2 * w]
    BY DEF LockThrough
  <1>5. n.boat = b /\ n.way = w /\ n.at = now
    OBVIOUS
  <1>6. /\ n.lock \in Int
        /\ place[b] \in {2 * n.lock - 1, 2 * n.lock - (IF w = 1 THEN 2 ELSE 0)}
        /\ place[b] + w \in {2 * n.lock - 1, 2 * n.lock - (IF w = 1 THEN 0 ELSE 2)}
        /\ place[b] % 2 = 0 => place[b] + 2 * w = 2 * n.lock - (IF w = 1 THEN 0 ELSE 2)
    <2>1. n.lock = (place[b] + IF w = 1 THEN 2 ELSE 1) \div 2
      OBVIOUS
    <2> HIDE DEF n
    <2> QED
      BY <1>1, <2>1, LockIsBetween
  <1> HIDE DEF n
  <1>7. IsFiniteSet(made')
    BY <1>2, FS_AddElement DEF RouteInv
  <1>8. \A x, y \in made' : NameOf[x.boat] = NameOf[y.boat] /\ x.at = y.at => x = y
    BY <1>1, <1>2, <1>3, <1>5, LockageParts DEF RouteInv
  <1>9. ASSUME NEW x \in made', \A y \in made' : y.boat = x.boat => y.at <= x.at
        PROVE  place'[x.boat] \in {2 * x.lock - 1, 2 * x.lock - (IF x.way = 1 THEN 0 ELSE 2)}
    <2>1. CASE x.boat = b
      <3>1. x = n
        <4>1. n \in made'
          BY <1>2
        <4>2. now <= x.at
          BY <1>5, <1>9, <2>1, <4>1
        <4>3. x \in made => x.at \in Nat
          BY LockageParts
        <4> QED
          BY <1>1, <1>2, <1>3, <2>1, <4>2, <4>3
      <3>2. CASE b \in Double
        <4>1. place'[b] = place[b] + w
          BY <1>1, <1>4, <3>2
        <4> QED
          BY <1>5, <1>6, <2>1, <3>1, <4>1
      <3>3. CASE b \notin Double
        <4>1. place'[b] = place[b] + 2 * w
          BY <1>1, <1>4, <3>3
        <4>2. place[b] % 2 = 0
          BY <3>3 DEF PoolInv
        <4> QED
          BY <1>5, <1>6, <2>1, <3>1, <4>1, <4>2
      <3> QED
        BY <3>2, <3>3
    <2>2. CASE x.boat # b
      <3>1. x \in made
        BY <1>2, <1>5, <2>2
      <3>2. place'[x.boat] = place[x.boat]
        BY <1>1, <1>4, <2>2, <3>1, LockageParts
      <3>3. \A y \in made : y.boat = x.boat => y.at <= x.at
        BY <1>2, <1>9
      <3> QED
        BY <3>1, <3>2, <3>3 DEF RouteInv
    <2> QED
      BY <2>1, <2>2
  <1>10. ASSUME NEW x \in made', NEW y \in made', Successive(x, y)'
         PROVE  \/ y.way = x.way /\ y.lock = x.lock + x.way
                \/ y.lock = x.lock /\ (x.boat \in Double \/ y.way # x.way)
    <2>1. /\ x.boat = y.boat /\ x.at < y.at
          /\ \A z \in made' : z.boat = x.boat => z.at \notin x.at + 1 .. y.at - 1
      BY <1>10 DEF Successive
    <2>2. x \in made
      <3>1. x # n
        <4>1. \A z \in made : z.at \in Nat /\ z.at <= now
          BY LockageParts
        <4>2. y.at <= now
          BY <1>1, <1>2, <1>5, <4>1
        <4>3. y = n \/ y.at \in Nat
          BY <1>2, <4>1
        <4>4. y.at \in Nat
          BY <1>1, <1>5, <4>3
        <4> QED
          BY <1>1, <1>5, <2>1, <4>2, <4>4
      <3> QED
        BY <1>2, <3>1
    <2>3. CASE y \in made
      <3>1. Successive(x, y)
        BY <1>2, <2>1 DEF Successive
      <3> QED
        BY <2>2, <2>3, <3>1 DEF RouteInv
    <2>4. CASE y = n
      <3>1. x.boat = b
        BY <1>5, <2>1, <2>4
      <3>2. \A z \in made : z.boat = x.boat => z.at <= x.at
        <4> SUFFICES ASSUME NEW z \in made, z.boat = x.boat PROVE z.at <= x.at
          OBVIOUS
        <4>1. z.at \in Nat /\ x.at \in Nat /\ z.at < now
          BY <1>3, <2>2, <3>1, LockageParts
        <4>2. z.at \notin x.at + 1 .. now - 1
          BY <1>2, <1>5, <2>1, <2>4
        <4> QED
          BY <1>1, <4>1, <4>2
      <3>3. place[b] \in {2 * x.lock - 1, 2 * x.lock - (IF x.way = 1 THEN 0 ELSE 2)}
        BY <2>2, <3>1, <3>2 DEF RouteInv
      <3>4. x.lock \in Int /\ x.way \in {1, -1}
        BY <2>2, LockageParts
      <3>5. \/ w = x.way /\ n.lock = x.lock + x.way
            \/ n.lock = x.lock /\ (place[b] % 2 # 0 \/ w # x.way)
        <4> DEFINE p == place[b]
                   k == x.lock
                   v == x.way
                   l == n.lock
        <4>1. /\ p \in Nat /\ k \in Int /\ v \in {1, -1} /\ l \in Int /\ w \in {1, -1}
              /\ p \in {2 * k - 1, 2 * k - (IF v = 1 THEN 0 ELSE 2)}
              /\ p \in {2 * l - 1, 2 * l - (IF w = 1 THEN 2 ELSE 0)}
          BY <1>1, <1>6, <3>3, <3>4
        <4> HIDE DEF p, k, v, l
        <4>2. (w = v /\ l = k + v) \/ (l = k /\ (p % 2 # 0 \/ w # v))
          BY <4>1, LockAfterLock
        <4> QED
          BY <4>2 DEF p, k, v, l
      <3>6. b \in Double \/ place[b] % 2 = 0
        BY DEF PoolInv
      <3> QED
        BY <1>5, <2>4, <3>1, <3>5, <3>6
    <2> QED
      BY <1>2, <2>3, <2>4
  <1> QED
    BY <1>7, <1>8, <1>9, <1>10 DEF RouteInv

LEMMA RouteMoves ==
  ASSUME RiverTypeOK, PoolInv, RouteInv, RiverStep \/ UNCHANGED river
  PROVE  RouteInv'
  <1>1. CASE UNCHANGED <<place, made>>
    BY <1>1 DEF RouteInv, Successive
  <1>2. ASSUME NEW b \in Boats, NEW w \in Ways, LockThrough(b, w) PROVE RouteInv'
    BY <1>2, ThroughRoute
  <1> QED
    BY <1>1, <1>2 DEF RiverStep, Tick, Store, river

----------------------------------------------------------------------------
(* The types                                                               *)

TypeInv == TypeOK /\ PoolInv

LEMMA InitTypes == Init => TypeInv
  BY RiverStart, Numbers DEF Init, TypeInv, TypeOK, RiverInit

LEMMA TypeStep ==
  ASSUME TypeInv, [Next]_vars
  PROVE  TypeInv'
  <1> USE DEF TypeInv
  <1>1. now \in Nat
    BY Numbers DEF TypeOK, RiverTypeOK
  <1>2. ASSUME RiverStep, UNCHANGED <<cache, request>> PROVE TypeInv'
    <2>1. RiverTypeOK' /\ PoolInv' /\ now <= now' /\ rows \subseteq rows' /\ now' \in Nat
      BY <1>2, RiverMoves, Numbers DEF TypeOK, RiverTypeOK
    <2>2. \A s \in Scan : s.taken <= now /\ s.rows \subseteq rows =>
            s.taken <= now' /\ s.rows \subseteq rows'
      BY <1>1, <2>1 DEF Scan
    <2>3. asked' \in [Requests -> 0 .. now']
      BY <1>1, <1>2, <2>1 DEF TypeOK, request
    <2> QED
      BY <1>2, <2>1, <2>2, <2>3 DEF TypeOK, request
  <1>3. ASSUME UNCHANGED river PROVE RiverTypeOK' /\ PoolInv' /\ now' = now /\ rows' = rows
    BY <1>3 DEF river, TypeOK, RiverTypeOK, PoolInv
  <1>4. CASE Restart
    BY <1>1, <1>3, <1>4 DEF Restart, TypeOK
  <1>5. ASSUME NEW r \in Requests, Ask(r) PROVE TypeInv'
    BY <1>1, <1>3, <1>5 DEF Ask, TypeOK, Kept
  <1>6. ASSUME NEW r \in Requests, Read(r) PROVE TypeInv'
    <2> DEFINE scan == [at |-> asked[r], taken |-> now, rows |-> rows]
    <2>1. scan \in Scan /\ scan # None /\ scan.taken <= now /\ scan.rows \subseteq rows
      BY <1>1, NoneAssumption DEF Scan, TypeOK, RiverTypeOK
    <2>2. /\ table' = [table EXCEPT ![r] = scan] /\ pc' = [pc EXCEPT ![r] = "keep"]
          /\ UNCHANGED <<river, cache, asked>>
      BY <1>6 DEF Read
    <2> HIDE DEF scan
    <2> QED
      BY <1>3, <2>1, <2>2 DEF TypeOK
  <1>7. ASSUME NEW r \in Requests, Keep(r) PROVE TypeInv'
    BY <1>3, <1>7 DEF Keep, TypeOK
  <1>8. ASSUME NEW r \in Requests, Done(r), UNCHANGED cache PROVE TypeInv'
    BY <1>1, <1>3, <1>8 DEF Done, TypeOK
  <1>9. CASE UNCHANGED vars
    BY <1>3, <1>9 DEF vars, request, TypeOK
  <1> QED
    BY <1>2, <1>4, <1>5, <1>6, <1>7, <1>8, <1>9 DEF Next, Reply, Fail

\* In every reachable state a request holds a table just from its scan to its answer, and every
\* table is of rows that are stored (_build_empirical_transit_table).
THEOREM TypeCorrect == Spec => []TypeOK
  <1>1. TypeInv /\ [Next]_vars => TypeInv'
    BY TypeStep
  <1>2. TypeInv => TypeOK
    BY DEF TypeInv
  <1> QED
    BY InitTypes, <1>1, <1>2, PTL DEF Spec

----------------------------------------------------------------------------
(* The age of the answers                                                  *)

LEMMA InitAge == Init => AgeInv
  BY DEF Init, AgeInv, ServedIsRecent

LEMMA ScanNumbers ==
  ASSUME TypeOK
  PROVE  /\ now \in Nat /\ asked \in [Requests -> Nat] /\ \A r \in Requests : asked[r] <= now
         /\ cache # None => cache.at \in Nat /\ cache.taken \in Nat
         /\ \A r \in Requests : table[r] # None => table[r].at \in Nat /\ table[r].taken \in Nat
         /\ DOMAIN pc = Requests /\ DOMAIN table = Requests
  BY Numbers DEF TypeOK, RiverTypeOK, Scan

LEMMA AgeStep ==
  ASSUME TypeOK, AgeInv, [Next]_vars
  PROVE  AgeInv'
  <1> USE ScanNumbers, Numbers
  <1>1. CASE UNCHANGED <<cache, request>>
    BY <1>1 DEF AgeInv, ServedIsRecent, request
  <1>2. CASE Restart
    BY <1>2 DEF Restart, AgeInv, ServedIsRecent
  <1>3. ASSUME NEW r \in Requests, Ask(r) PROVE AgeInv'
    <2>1. CASE Kept
      <3>1. cache.taken > now - TTL
        BY <2>1 DEF Kept, AgeInv
      <3>2. /\ table' = [table EXCEPT ![r] = cache] /\ pc' = [pc EXCEPT ![r] = "answer"]
            /\ asked' = [asked EXCEPT ![r] = now] /\ cache' = cache /\ cache # None
        BY <1>3, <2>1 DEF Ask, Kept
      <3> QED
        BY <3>1, <3>2 DEF AgeInv, ServedIsRecent
    <2>2. CASE ~Kept
      BY <1>3, <2>2 DEF Ask, AgeInv, ServedIsRecent
    <2> QED
      BY <2>1, <2>2
  <1>4. ASSUME NEW r \in Requests, Read(r) PROVE AgeInv'
    <2> DEFINE scan == [at |-> asked[r], taken |-> now, rows |-> rows]
    <2>1. scan.at <= scan.taken /\ scan.taken >= asked[r]
      OBVIOUS
    <2>2. /\ table' = [table EXCEPT ![r] = scan] /\ pc' = [pc EXCEPT ![r] = "keep"]
          /\ UNCHANGED <<cache, asked>>
      BY <1>4 DEF Read
    <2> HIDE DEF scan
    <2> QED
      BY <2>1, <2>2 DEF AgeInv, ServedIsRecent
  <1>5. ASSUME NEW r \in Requests, Keep(r) PROVE AgeInv'
    <2>1. table[r] # None /\ table[r].taken >= asked[r]
      BY <1>5 DEF Keep, AgeInv, TypeOK
    <2>2. table[r].taken > asked[r] - TTL
      BY <2>1
    <2> QED
      BY <1>5, <2>1, <2>2 DEF Keep, AgeInv, ServedIsRecent
  <1>6. ASSUME NEW r \in Requests, Done(r), UNCHANGED cache PROVE AgeInv'
    BY <1>6 DEF Done, AgeInv, ServedIsRecent
  <1> QED
    BY <1>1, <1>2, <1>3, <1>4, <1>5, <1>6 DEF Next, Reply, Fail, vars

\* No request is answered from a scan that was TTL old or older when it came, however many
\* requests rebuild the table at once and whichever of them stores it last.
THEOREM ServedRecently == Spec => []ServedIsRecent
  <1>1. TypeOK /\ AgeInv /\ [Next]_vars => AgeInv'
    BY AgeStep
  <1>2. AgeInv => ServedIsRecent
    BY DEF AgeInv
  <1> QED
    BY InitAge, TypeCorrect, <1>1, <1>2, PTL DEF Spec

----------------------------------------------------------------------------
(* The medians                                                             *)

\* A finite set of numbers has a last one, either way.
LEMMA Foremost ==
  ASSUME NEW S, S \subseteq Int, S # {}, IsFiniteSet(S), NEW w \in Ways
  PROVE  \E x \in S : \A y \in S : w * y <= w * x
  <1> DEFINE Beyond(x) == {y \in S : w * y > w * x}
             T == {Beyond(x) : x \in S}
  <1>1. T \subseteq FiniteSubsetsOf(S) /\ T # {}
    <2>1. FiniteSubsetsOf(S) = SUBSET S
      BY FS_FiniteSubsetsOfFinite
    <2>2. \A x \in S : Beyond(x) \in SUBSET S
      OBVIOUS
    <2>3. PICK x : x \in S
      OBVIOUS
    <2>4. Beyond(x) \in T
      BY <2>3
    <2> HIDE DEF Beyond
    <2> QED
      BY <2>1, <2>2, <2>4
  <1>2. PICK A \in T : \A B \in T : ~(<<B, A>> \in StrictSubsetOrdering(S))
    BY <1>1, FS_StrictSubsetOrderingWellFounded, WFMin
  <1>3. PICK x \in S : A = Beyond(x)
    BY <1>2
  <1>4. \A y, z \in S : w * y \in Int /\ (w * y > w * z => ~(w * z > w * y))
    <2>1. \A y \in S : w * y \in Int
      BY DEF Ways
    <2> QED
      BY <2>1
  <1>5. ASSUME NEW z \in S, w * z > w * x PROVE FALSE
    <2>1. z \in Beyond(x) /\ z \notin Beyond(z)
      BY <1>4, <1>5
    <2>2. Beyond(z) \subseteq Beyond(x)
      <3>1. \A y \in S : w * y > w * z => w * y > w * x
        <4>1. w * z \in Int /\ w * x \in Int /\ \A y \in S : w * y \in Int
          BY <1>4
        <4> QED
          BY <1>5, <4>1
      <3> QED
        BY <3>1
    <2>3. Beyond(z) \in T
      OBVIOUS
    <2>4. <<Beyond(z), A>> \in StrictSubsetOrdering(S)
      BY <1>3, <2>1, <2>2 DEF StrictSubsetOrdering
    <2> QED
      BY <1>2, <2>3, <2>4
  <1>6. ASSUME NEW y \in S PROVE w * y <= w * x
    BY <1>4, <1>5
  <1> QED
    BY <1>6

\* The median of some samples is the time of one of them.
LEMMA MedianIsASample ==
  ASSUME NEW H, IsFiniteSet(H), H # {}, \A h \in H : Minutes(h) \in Nat
  PROVE  \E h \in H : Minutes(h) = Median(H)
  <1> DEFINE Times == {Minutes(h) : h \in H}
             UpTo(m) == {h \in H : Minutes(h) <= m}
             Below(m) == {h \in H : Minutes(h) < m}
             Half == Cardinality(H) \div 2
             Many == {m \in Times : Cardinality(UpTo(m)) > Half}
  <1>1. Times \subseteq Int /\ Times # {} /\ IsFiniteSet(Times)
    <2> DEFINE time == [h \in H |-> Minutes(h)]
    <2>1. time \in Surjection(H, Times)
      BY DEF Surjection
    <2>2. IsFiniteSet(Times)
      <3> HIDE DEF time, Times
      <3> QED
        BY <2>1, FS_Surjection
    <2>3. \A m \in Times : m \in Int
      OBVIOUS
    <2>4. PICK h \in H : TRUE
      OBVIOUS
    <2>5. Minutes(h) \in Times
      OBVIOUS
    <2> HIDE DEF Times
    <2> QED
      BY <2>2, <2>3, <2>5
  <1>2. Cardinality(H) \in Nat /\ Cardinality(H) > 0 /\ Half \in Nat /\ Half < Cardinality(H)
    <2>1. Cardinality(H) \in Nat /\ Cardinality(H) # 0
      BY FS_CardinalityType, FS_EmptySet
    <2> QED
      BY <2>1
  <1>3. Many # {}
    <2>1. PICK m \in Times : \A n \in Times : 1 * n <= 1 * m
      BY <1>1, Foremost, 1 \in Ways DEF Ways
    <2>4. \A n \in Int : 1 * n = n
      OBVIOUS
    <2>5. \A n \in Times : n <= m
      BY <1>1, <2>1, <2>4
    <2>2. \A h \in H : Minutes(h) <= m
      BY <2>5
    <2>3. UpTo(m) = H
      BY <2>2
    <2> QED
      BY <1>2, <2>3
  <1>4. Many \subseteq Int /\ IsFiniteSet(Many)
    BY <1>1, FS_Subset
  <1>5. PICK m \in Many : \A n \in Many : m <= n
    <2>1. -1 \in Ways
      BY DEF Ways
    <2>2. PICK m \in Many : \A n \in Many : (-1) * n <= (-1) * m
      BY <1>3, <1>4, <2>1, Foremost
    <2>4. \A n \in Int : (-1) * n = -n
      OBVIOUS
    <2>5. \A n \in Many : -n <= -m
      BY <1>4, <2>2, <2>4
    <2>3. \A n \in Many : m <= n
      BY <1>4, <2>5
    <2> QED
      BY <2>3
  <1>6. Cardinality(Below(m)) <= Half
    <2> DEFINE Earlier == {n \in Times : n < m}
    <2>1. CASE Earlier = {}
      <3>1. Below(m) = {}
        BY <2>1
      <3> QED
        BY <1>2, <3>1, FS_EmptySet
    <2>2. CASE Earlier # {}
      <3>1. Earlier \subseteq Int /\ IsFiniteSet(Earlier)
        BY <1>1, FS_Subset
      <3>2. PICK n \in Earlier : \A o \in Earlier : 1 * o <= 1 * n
        BY <2>2, <3>1, Foremost, 1 \in Ways DEF Ways
      <3>3. \A o \in Earlier : o <= n
        <4>1. \A o \in Int : 1 * o = o
          OBVIOUS
        <4> QED
          BY <3>1, <3>2, <4>1
      <3>4. n \in Times /\ n < m /\ m \in Int
        BY <1>4
      <3>5. Below(m) = UpTo(n)
        <4>1. \A h \in H : Minutes(h) < m => Minutes(h) <= n
          BY <3>3
        <4>2. \A h \in H : Minutes(h) <= n => Minutes(h) < m
          BY <1>1, <3>4
        <4> QED
          BY <4>1, <4>2
      <3>6. n \notin Many
        BY <1>1, <1>5, <3>4
      <3>7. Cardinality(UpTo(n)) \in Nat
        BY FS_Subset, FS_CardinalityType
      <3>8. ~(Cardinality(UpTo(n)) > Half)
        BY <3>4, <3>6
      <3> HIDE DEF UpTo, Below, Half
      <3> QED
        BY <1>2, <3>5, <3>7, <3>8
    <2> QED
      BY <2>1, <2>2
  <1>7. m \in Times /\ Cardinality(Below(m)) <= Half /\ Cardinality(UpTo(m)) > Half
    BY <1>6
  <1>8. Median(H) \in Times
    BY <1>7 DEF Median
  <1> QED
    BY <1>8

----------------------------------------------------------------------------
(* What the boats do between two stored lockages                           *)

LEMMA RouteStep ==
  ASSUME TypeInv, RouteInv, [Next]_vars
  PROVE  RouteInv'
  <1>1. RiverStep \/ UNCHANGED river
    BY DEF Next, Restart, Ask, Read, Keep, Reply, Fail, Done, vars
  <1> QED
    BY <1>1, RouteMoves DEF TypeInv, TypeOK

\* With at most one lockage of a boat missing between two stored ones, and none of a tow in
\* cuts, a hop of the table is a run over its leg: had she been through another lock between,
\* she would have come out of the next one the other way.
LEMMA HopsAreRuns ==
  ASSUME RiverTypeOK, RouteInv, NEW S \in SUBSET made, OneMissing(S),
         \A b, c \in Boats : NameOf[b] = NameOf[c] => b = c,
         NEW k \in Locks, NEW w \in Ways, NEW h \in Hops(S, k, w)
  PROVE  h \in Runs(k, w)
  <1> DEFINE a == h[1]
             b == h[2]
             Missing == {x \in made \ S : x.boat = a.boat /\ x.at \in a.at + 1 .. b.at - 1}
  <1>1. /\ a \in S /\ b \in S /\ a.lock = k /\ a.way = w /\ b.lock = k + w /\ b.way = w
        /\ NameOf[a.boat] = NameOf[b.boat] /\ a.at < b.at /\ Between(S, a, b) = {}
        /\ h \in made \X made
    BY DEF Hops, Leads
  <1>2. /\ a.boat \in Boats /\ a.at \in Nat /\ b.boat \in Boats /\ b.at \in Nat
        /\ a.boat = b.boat /\ k \in Int /\ w \in {1, -1}
    BY <1>1, LockageParts DEF Locks, Ways
  <1>3. \A x \in made : x.boat = a.boat /\ x.at \in a.at + 1 .. b.at - 1 => x \in Missing
    <2> SUFFICES ASSUME NEW x \in made, x.boat = a.boat, x.at \in a.at + 1 .. b.at - 1
                 PROVE  x \notin S
      OBVIOUS
    <2>1. x.at \in Nat /\ a.at < x.at /\ x.at < b.at
      BY <1>2, LockageParts
    <2> QED
      BY <1>1, <2>1 DEF Between
  <1>4. /\ Cardinality(Missing) <= IF a.boat \in Double THEN 0 ELSE 1
        /\ IsFiniteSet(Missing) /\ Cardinality(Missing) \in Nat
    BY <1>1, <1>2, FS_Subset, FS_CardinalityType DEF OneMissing, RouteInv
  <1>5. CASE Missing = {}
    <2>1. Successive(a, b)
      BY <1>1, <1>2, <1>3, <1>5 DEF Successive
    <2> QED
      BY <1>1, <2>1 DEF Runs
  <1>6. ASSUME NEW x \in Missing PROVE FALSE
    <2>1. x \in made /\ x.boat = a.boat /\ x.at \in Nat /\ a.at < x.at /\ x.at < b.at
      <3>1. x \in made /\ x.boat = a.boat /\ x.at \in a.at + 1 .. b.at - 1
        BY <1>6
      <3> QED
        BY <1>2, <3>1
    <2>2. Cardinality(Missing) >= 1
      BY <1>4, <1>6, FS_EmptySet
    <2>3. a.boat \notin Double /\ Cardinality(Missing) = 1
      BY <1>4, <2>2
    <2>4. \A y \in Missing : y = x
      <3>1. PICK z : Missing = {z}
        BY <1>4, <2>3, FS_Singleton
      <3> QED
        BY <1>6, <3>1
    <2>5. \A y \in made : y.boat = a.boat /\ y.at \in a.at + 1 .. b.at - 1 => y.at = x.at
      BY <1>3, <2>4
    <2>6. Successive(a, x) /\ Successive(x, b)
      <3>1. \A y \in made : y.boat = a.boat => y.at \notin a.at + 1 .. x.at - 1
        <4> SUFFICES ASSUME NEW y \in made, y.boat = a.boat, y.at \in a.at + 1 .. x.at - 1
                     PROVE  FALSE
          OBVIOUS
        <4>1. y.at \in a.at + 1 .. b.at - 1 /\ y.at # x.at
          BY <1>2, <2>1
        <4> QED
          BY <2>5, <4>1
      <3>2. \A y \in made : y.boat = a.boat => y.at \notin x.at + 1 .. b.at - 1
        <4> SUFFICES ASSUME NEW y \in made, y.boat = a.boat, y.at \in x.at + 1 .. b.at - 1
                     PROVE  FALSE
          OBVIOUS
        <4>1. y.at \in a.at + 1 .. b.at - 1 /\ y.at # x.at
          BY <1>2, <2>1
        <4> QED
          BY <2>5, <4>1
      <3> QED
        BY <1>2, <2>1, <3>1, <3>2 DEF Successive
    <2>7. (x.way = w /\ x.lock = k + w) \/ (x.way # w /\ x.lock = k)
      BY <1>1, <2>1, <2>3, <2>6 DEF RouteInv
    <2>8. (b.way = x.way /\ b.lock = x.lock + x.way) \/ (b.way # x.way /\ b.lock = x.lock)
      BY <1>1, <2>1, <2>3, <2>6 DEF RouteInv
    <2> QED
      BY <1>1, <1>2, <2>7, <2>8
  <1> QED
    BY <1>5, <1>6

\* A median of some of the runs over a leg is the time of one of them.
LEMMA EntryIsARun ==
  ASSUME NEW R, \A h \in R : Minutes(h) \in Nat, NEW H \in SUBSET R, IsFiniteSet(H),
         Entry(H) # None
  PROVE  \E h \in R : Minutes(h) = Entry(H)
  <1>1. Cardinality(H) >= MinSamples /\ Entry(H) = Median(H)
    BY DEF Entry
  <1>2. H # {}
    BY <1>1, Numbers, TableAssumption, FS_EmptySet
  <1>3. \E h \in H : Minutes(h) = Median(H)
    BY <1>2, MedianIsASample
  <1> QED
    BY <1>1, <1>3

LEMMA TimesFollow == TypeOK /\ RouteInv => TimesAreReal
  <1> SUFFICES ASSUME TypeOK, RouteInv, NEW S \in Answers, OneMissing(S),
                      \A b, c \in Boats : NameOf[b] = NameOf[c] => b = c,
                      NEW k \in Locks, NEW w \in Ways, NEW big \in BOOLEAN,
                      LegInfo(S, k, w, big) # None
               PROVE  \E h \in Runs(k, w) : Minutes(h) = LegInfo(S, k, w, big)
    BY DEF TimesAreReal
  <1> DEFINE Own == {h \in Hops(S, k, w) : (h[1].boat \in Big) = big}
  <1>1. S \in SUBSET made /\ RiverTypeOK
    <2>1. PICK r \in Requests : S = table[r].rows /\ pc[r] = "answer"
      BY DEF Answers
    <2>2. table[r] # None
      BY <2>1 DEF TypeOK
    <2> QED
      BY <2>1, <2>2 DEF TypeOK, RiverTypeOK
  <1>2. Hops(S, k, w) \subseteq Runs(k, w)
    BY <1>1, HopsAreRuns
  <1>3. \A h \in Runs(k, w) : Minutes(h) \in Nat
    <2> SUFFICES ASSUME NEW h \in Runs(k, w) PROVE Minutes(h) \in Nat
      OBVIOUS
    <2>1. h[1] \in made /\ h[2] \in made /\ h[1].at < h[2].at
      BY DEF Runs, Successive
    <2>2. h[1].at \in Nat /\ h[2].at \in Nat
      BY <1>1, <2>1, LockageParts
    <2> QED
      BY <2>1, <2>2 DEF Minutes
  <1>4. IsFiniteSet(Hops(S, k, w)) /\ IsFiniteSet(Own)
    <2>1. IsFiniteSet(S)
      BY <1>1, FS_Subset DEF RouteInv
    <2>2. IsFiniteSet(S \X S)
      BY <2>1, FS_Product
    <2>3. Own \subseteq Hops(S, k, w) /\ Hops(S, k, w) \subseteq S \X S
      BY DEF Hops
    <2> QED
      BY <2>2, <2>3, FS_Subset
  <1>5. \/ LegInfo(S, k, w, big) = Entry(Own) /\ Entry(Own) # None
        \/ LegInfo(S, k, w, big) = Entry(Hops(S, k, w)) /\ Entry(Hops(S, k, w)) # None
    BY DEF LegInfo
  <1>6. Own \in SUBSET Runs(k, w)
    BY <1>2
  <1> HIDE DEF Own
  <1> QED
    BY <1>2, <1>3, <1>4, <1>5, <1>6, EntryIsARun

\* Every time the table gives a request for a leg is what some boat took over it, for any fleet
\* and any order in which its lockages are stored (_build_empirical_transit_table, LEAD).
THEOREM TableTimesAreReal == Spec => []TimesAreReal
  <1>0. Init => RouteInv
    BY RouteStart DEF Init
  <1>1. TypeInv /\ [Next]_vars => TypeInv'
    BY TypeStep
  <1>2. TypeInv /\ RouteInv /\ [Next]_vars => RouteInv'
    BY RouteStep
  <1>3. TypeInv /\ RouteInv => TimesAreReal
    BY TimesFollow DEF TypeInv
  <1> QED
    BY InitTypes, <1>0, <1>1, <1>2, <1>3, PTL DEF Spec

----------------------------------------------------------------------------
(* One boat from lock to lock                                              *)

\* A finite set of what has a time has a latest and an earliest of it.
LEMMA LatestAndEarliest ==
  ASSUME NEW S, IsFiniteSet(S), S # {}, \A x \in S : x.at \in Int
  PROVE  /\ \E x \in S : \A y \in S : y.at <= x.at
         /\ \E x \in S : \A y \in S : x.at <= y.at
  <1> DEFINE Times == {x.at : x \in S}
             time == [x \in S |-> x.at]
  <1>1. IsFiniteSet(Times)
    <2>1. time \in Surjection(S, Times)
      BY DEF Surjection
    <2> HIDE DEF time, Times
    <2> QED
      BY <2>1, FS_Surjection
  <1>2. Times \subseteq Int /\ Times # {}
    <2>1. PICK x : x \in S
      OBVIOUS
    <2>2. x.at \in Times
      BY <2>1
    <2> QED
      BY <2>2
  <1>3. \E t \in Times : \A u \in Times : u <= t
    <2>1. PICK t \in Times : \A u \in Times : 1 * u <= 1 * t
      BY <1>1, <1>2, Foremost, 1 \in Ways DEF Ways
    <2>2. \A n \in Int : 1 * n = n
      OBVIOUS
    <2> HIDE DEF Times
    <2> QED
      BY <1>2, <2>1, <2>2
  <1>4. \E t \in Times : \A u \in Times : t <= u
    <2>1. PICK t \in Times : \A u \in Times : (-1) * u <= (-1) * t
      BY <1>1, <1>2, Foremost, -1 \in Ways DEF Ways
    <2>2. \A m, n \in Int : (-1) * m <= (-1) * n => n <= m
      OBVIOUS
    <2> HIDE DEF Times
    <2> QED
      BY <1>2, <2>1, <2>2
  <1> QED
    BY <1>3, <1>4

Of(b) == {x \in made : x.boat = b}

\* What a boat does next, and what she did before.
LEMMA NextOfHers ==
  ASSUME RiverTypeOK, RouteInv, NEW b, NEW x \in Of(b), NEW y \in Of(b), x.at < y.at
  PROVE  /\ \E z \in Of(b) : Successive(x, z) /\ z.at <= y.at
         /\ \E z \in Of(b) : Successive(z, y) /\ x.at <= z.at
  <1>1. \A z \in Of(b) : z \in made /\ z.boat = b /\ z.at \in Nat
    BY LockageParts DEF Of
  <1>2. ASSUME NEW S \in SUBSET Of(b) PROVE IsFiniteSet(S) /\ \A z \in S : z.at \in Int
    <2>1. S \in SUBSET made
      BY <1>1
    <2> QED
      BY <1>1, <2>1, FS_Subset DEF RouteInv
  <1>3. \E z \in Of(b) : Successive(x, z) /\ z.at <= y.at
    <2> DEFINE S == {z \in Of(b) : z.at > x.at}
    <2>1. y \in S
      OBVIOUS
    <2>2. PICK z \in S : \A u \in S : z.at <= u.at
      BY <1>2, <2>1, LatestAndEarliest
    <2>3. ASSUME NEW u \in made, u.boat = x.boat PROVE u.at \notin x.at + 1 .. z.at - 1
      <3>1. u \in Of(b)
        BY <1>1, <2>3 DEF Of
      <3> QED
        BY <1>1, <2>2, <3>1
    <2> QED
      BY <1>1, <2>1, <2>2, <2>3 DEF Successive
  <1>4. \E z \in Of(b) : Successive(z, y) /\ x.at <= z.at
    <2> DEFINE S == {z \in Of(b) : z.at < y.at}
    <2>1. x \in S
      OBVIOUS
    <2>2. PICK z \in S : \A u \in S : u.at <= z.at
      BY <1>2, <2>1, LatestAndEarliest
    <2>3. ASSUME NEW u \in made, u.boat = z.boat PROVE u.at \notin z.at + 1 .. y.at - 1
      <3>1. u \in Of(b)
        BY <1>1, <2>3 DEF Of
      <3> QED
        BY <1>1, <2>2, <3>1
    <2> QED
      BY <1>1, <2>1, <2>2, <2>3 DEF Successive
  <1> QED
    BY <1>3, <1>4

\* From one lockage to the next a boat is at the same lock or a neighbouring one.
LEMMA OneLockOn ==
  ASSUME RiverTypeOK, RouteInv, NEW x \in made, NEW y \in made, Successive(x, y)
  PROVE  y.lock \in {x.lock - 1, x.lock, x.lock + 1}
  <1>1. x.lock \in Int /\ x.way \in {1, -1}
    BY LockageParts
  <1>2. y.lock = x.lock + x.way \/ y.lock = x.lock
    BY DEF RouteInv
  <1> QED
    BY <1>1, <1>2

\* From one side of a lock to the other there is no way but through it.
LEMMA NoWayAround ==
  ASSUME RiverTypeOK, RouteInv, NEW b, NEW x \in Of(b), NEW y \in Of(b), x.at < y.at, NEW k \in Int,
         (x.lock < k /\ k < y.lock) \/ (x.lock > k /\ k > y.lock)
  PROVE  \E u \in Of(b) : x.at < u.at /\ u.at < y.at /\ u.lock = k
  <1> DEFINE Across == {u \in Of(b) : /\ x.at < u.at /\ u.at <= y.at
                                      /\ x.lock < k => u.lock >= k
                                      /\ x.lock > k => u.lock <= k}
  <1>1. \A z \in Of(b) : z \in made /\ z.boat = b /\ z.at \in Nat /\ z.lock \in Int
    BY LockageParts DEF Of
  <1>2. y \in Across /\ IsFiniteSet(Across) /\ \A z \in Across : z.at \in Int
    <2>1. Across \in SUBSET made
      BY <1>1
    <2> QED
      BY <1>1, <2>1, FS_Subset DEF RouteInv
  <1>3. PICK u \in Across : \A z \in Across : u.at <= z.at
    BY <1>2, LatestAndEarliest
  <1>4. PICK p \in Of(b) : Successive(p, u) /\ x.at <= p.at
    BY <1>3, NextOfHers
  <1>5. p.at < u.at /\ p \notin Across
    BY <1>1, <1>3, <1>4 DEF Successive
  <1>6. (x.lock < k => p.lock < k) /\ (x.lock > k => p.lock > k)
    <2>1. CASE p.at = x.at
      <3>1. p = x
        BY <1>1, <2>1 DEF RouteInv
      <3> QED
        BY <3>1
    <2>2. CASE p.at # x.at
      BY <1>1, <1>3, <1>4, <1>5, <2>2
    <2> QED
      BY <2>1, <2>2
  <1>7. u.lock \in {p.lock - 1, p.lock, p.lock + 1}
    BY <1>1, <1>3, <1>4, OneLockOn
  <1>8. u.lock = k
    BY <1>1, <1>3, <1>6, <1>7
  <1>9. u.at # y.at
    <2>1. u.at = y.at => u = y
      BY <1>1, <1>3 DEF RouteInv
    <2> QED
      BY <1>8, <2>1, <1>1
  <1> QED
    BY <1>1, <1>3, <1>8, <1>9

----------------------------------------------------------------------------
(* The legs of a vessel                                                    *)

LEMMA ReplayNumbers ==
  /\ Window \in Nat /\ Cadence \in Nat /\ MaxPoints \in Nat /\ Dedup \in Nat /\ MaxLeg \in Nat
  /\ MaxFixes \in Nat /\ Cadence >= 1 /\ MaxPoints >= 1
  BY ReplayAssumption

LEMMA HersAreOfHer ==
  ASSUME RiverTypeOK, NameIsHers, NEW S \in SUBSET made
  PROVE  Hers(S) = {x \in S : x.boat = Tow}
  BY LockageParts, TowAssumption DEF Hers, NameIsHers

\* What is known of a boat between two lockages of a leg.
LEMMA CollapsedParts ==
  ASSUME RiverTypeOK, known \subseteq made, NEW c \in Collapse(Clearances)
  PROVE  /\ c \in Clearances /\ c \in Hers(made) /\ c.lock \in SimLocks
         /\ c.at <= clock /\ c.at >= clock - Window - MaxLeg
  BY DEF Collapse, Clearances, Hers

LEMMA LegParts ==
  ASSUME NEW s \in Segments
  PROVE  /\ s[1] \in Collapse(Clearances) /\ s[2] \in Collapse(Clearances)
         /\ s[1].lock # s[2].lock /\ s[1].at < s[2].at
         /\ \A x \in Collapse(Clearances) : x.at > s[1].at => s[2].at <= x.at
         /\ s = <<s[1], s[2]>>
  <1>1. s \in {t \in Collapse(Clearances) \X Collapse(Clearances) :
                 /\ t[2] \in After(Collapse(Clearances), t[1])
                 /\ t[1].lock # t[2].lock
                 /\ t[2].at >= clock - Window
                 /\ t[2].at - t[1].at <= MaxLeg}
    BY DEF Segments
  <1> QED
    BY <1>1 DEF After

\* Between the two lockages of a leg she is known at the second lock alone: the last one known
\* elsewhere would not have been collapsed.
LEMMA KnownOnALeg ==
  ASSUME RiverTypeOK, RouteInv, known \subseteq made, clock \in Nat, NEW s \in Segments,
         NEW x \in Clearances, s[1].at < x.at, x.at <= s[2].at
  PROVE  x.lock = s[2].lock
  <1> DEFINE E == Collapse(Clearances)
             a == s[1]
             b == s[2]
             Elsewhere == {y \in Clearances : a.at < y.at /\ y.at <= b.at /\ y.lock # b.lock}
  <1>1. /\ a \in E /\ b \in E /\ a.lock # b.lock /\ a.at < b.at
        /\ \A y \in E : y.at > a.at => b.at <= y.at
    BY LegParts
  <1>2. \A y \in Clearances : y \in made /\ y.at \in Nat /\ NameOf[y.boat] = NameOf[Tow]
    BY LockageParts DEF Clearances, Hers
  <1>3. E \subseteq Clearances
    BY DEF Collapse
  <1> SUFFICES ASSUME Elsewhere # {} PROVE FALSE
    OBVIOUS
  <1>4. PICK m \in Elsewhere : \A y \in Elsewhere : y.at <= m.at
    <2>1. Elsewhere \in SUBSET made
      BY <1>2
    <2>2. IsFiniteSet(Elsewhere) /\ \A y \in Elsewhere : y.at \in Int
      BY <1>2, <2>1, FS_Subset DEF RouteInv
    <2> HIDE DEF Elsewhere
    <2> QED
      BY <2>2, LatestAndEarliest
  <1>5. m \in Clearances /\ a.at < m.at /\ m.at < b.at /\ m.lock # b.lock
    <2>1. m.at # b.at
      <3>1. b \in Clearances
        BY <1>1, <1>3
      <3>2. m.at = b.at => m = b
        BY <1>2, <1>4, <3>1 DEF RouteInv
      <3> QED
        BY <1>4, <3>2
    <2> QED
      BY <1>1, <1>2, <1>3, <1>4, <2>1
  <1>6. m \in E
    <2> SUFFICES ASSUME NEW n \in After(Clearances, m) PROVE n.lock # m.lock
      BY <1>5 DEF Collapse
    <2>1. n \in Clearances /\ n.at > m.at /\ n.at <= b.at
      BY <1>1, <1>3, <1>5 DEF After
    <2>2. n \notin Elsewhere
      BY <1>2, <1>4, <2>1
    <2> QED
      BY <1>1, <1>2, <1>3, <1>5, <2>1, <2>2
  <1> QED
    BY <1>1, <1>2, <1>3, <1>5, <1>6

LEMMA LegsFollow ==
  ASSUME RiverTypeOK, RouteInv, known \subseteq made, clock \in Nat, NothingMissing, NameIsHers,
         NeverSoonBack, NEW s \in Segments
  PROVE  /\ s[2].lock \in {s[1].lock - 1, s[1].lock + 1}
         /\ \A x \in Passed(s[1], s[2]) : x.lock = s[2].lock
  <1> DEFINE a == s[1]
             b == s[2]
  <1> USE ReplayNumbers
  <1>1. Hers(made) = Of(Tow) /\ Hers(known) \subseteq Of(Tow)
    BY HersAreOfHer DEF Of
  <1>2. \A x \in Of(Tow) : x \in made /\ x.boat = Tow /\ x.at \in Nat /\ x.lock \in Int
    BY LockageParts DEF Of
  <1>3. /\ a \in Of(Tow) /\ b \in Of(Tow) /\ a.lock # b.lock /\ a.at < b.at
        /\ {a.lock, b.lock} \subseteq SimLocks
        /\ a.at >= clock - Window - MaxLeg /\ b.at <= clock
        /\ \A x \in Collapse(Clearances) : x.at > a.at => b.at <= x.at
    BY <1>1, LegParts, CollapsedParts
  <1>4. ASSUME NEW x \in Of(Tow), x.lock \in SimLocks, a.at < x.at, x.at <= b.at
        PROVE  x \in Clearances /\ x.lock = b.lock
    <2>1. x \in known
      BY <1>2, <1>3, <1>4 DEF NothingMissing
    <2>2. x \in Clearances
      BY <1>2, <1>3, <1>4, <2>1 DEF Clearances, Hers
    <2> QED
      BY <1>4, <2>2, KnownOnALeg
  <1>5. PICK z \in Of(Tow) : Successive(a, z) /\ z.at <= b.at
    BY <1>3, NextOfHers
  <1>6. z.lock \in {a.lock - 1, a.lock, a.lock + 1} /\ a.at < z.at
    BY <1>2, <1>3, <1>5, OneLockOn DEF Successive
  <1>7. z.lock \in SimLocks
    <2> SUFFICES ASSUME z.lock \notin SimLocks PROVE FALSE
      OBVIOUS
    <2>1. z.lock # a.lock /\ z.lock # b.lock
      BY <1>3
    <2>2. (z.lock < a.lock /\ a.lock < b.lock) \/ (z.lock > a.lock /\ a.lock > b.lock)
      <3>1. z.lock \notin a.lock .. b.lock /\ z.lock \notin b.lock .. a.lock
        BY <1>3, TowAssumption
      <3> QED
        BY <1>2, <1>3, <1>6, <2>1, <3>1
    <2>3. z.at < b.at
      <3>1. z.at = b.at => z = b
        BY <1>2, <1>3 DEF RouteInv
      <3> QED
        BY <1>2, <1>3, <1>5, <2>1, <3>1
    <2>4. PICK u \in Of(Tow) : z.at < u.at /\ u.at < b.at /\ u.lock = a.lock
      BY <1>2, <1>3, <2>2, <2>3, NoWayAround
    <2> QED
      BY <1>2, <1>3, <1>4, <1>6, <2>4
  <1>8. z \in Clearances /\ z.lock = b.lock
    BY <1>4, <1>5, <1>6, <1>7
  <1>9. ASSUME NEW x \in Of(Tow), a.at < x.at, x.at <= b.at, x.lock # b.lock PROVE FALSE
    <2> DEFINE Before == {c \in Clearances : a.at < c.at /\ c.at < x.at}
    <2>1. x.lock \notin SimLocks
      BY <1>4, <1>9
    <2>2. z.at < x.at
      <3>1. x.at \notin a.at + 1 .. z.at - 1
        BY <1>2, <1>3, <1>5, <1>9 DEF Successive
      <3>2. x.at = z.at => x = z
        BY <1>2, <1>9 DEF RouteInv
      <3> QED
        BY <1>2, <1>3, <1>5, <1>8, <1>9, <3>1, <3>2
    <2>3. \A c \in Clearances : c \in Of(Tow) /\ c.lock \in SimLocks
      BY <1>1 DEF Clearances
    <2>4. PICK c \in Before : \A d \in Before : d.at <= c.at
      <3>1. Before \in SUBSET made /\ z \in Before
        BY <1>2, <1>6, <1>8, <2>2, <2>3
      <3>2. IsFiniteSet(Before) /\ \A d \in Before : d.at \in Int
        BY <1>2, <2>3, <3>1, FS_Subset DEF RouteInv
      <3> HIDE DEF Before
      <3> QED
        BY <3>1, <3>2, LatestAndEarliest
    <2>5. c \in Clearances /\ c.lock = b.lock /\ c.at < b.at
      BY <1>2, <1>3, <1>4, <1>9, <2>3, <2>4
    <2>6. c \notin Collapse(Clearances)
      BY <1>2, <1>3, <2>3, <2>4, <2>5
    <2>7. PICK q \in After(Clearances, c) : q.lock = c.lock /\ ~(q.at - c.at > Dedup)
      BY <2>5, <2>6 DEF Collapse
    <2>8. q \in Clearances /\ q.at > c.at /\ q \notin Before
      <3>1. q \in Clearances /\ q.at > c.at
        BY <2>7 DEF After
      <3> QED
        BY <1>2, <2>3, <2>4, <3>1
    <2>9. x.at < q.at
      <3>1. q.at = x.at => q = x
        BY <1>2, <1>9, <2>3, <2>8 DEF RouteInv
      <3> QED
        BY <1>2, <1>3, <1>9, <2>1, <2>3, <2>4, <2>7, <2>8, <3>1
    <2> QED
      BY <1>1, <1>2, <1>9, <2>1, <2>3, <2>4, <2>5, <2>7, <2>8, <2>9 DEF NeverSoonBack
  <1>10. \A x \in Passed(a, b) : x.lock = b.lock
    BY <1>1, <1>9 DEF Passed
  <1> QED
    BY <1>2, <1>3, <1>6, <1>8, <1>10

----------------------------------------------------------------------------
(* Recursion over an interval                                              *)

\* What holds of 0 and goes on from each number to the next holds up to n.
LEMMA BoundedInduction ==
  ASSUME NEW n \in Nat, NEW G, 0 \in G, \A i \in 1 .. n : i - 1 \in G => i \in G
  PROVE  \A i \in 0 .. n : i \in G
  <1> DEFINE Bad == (0 .. n) \ G
  <1> SUFFICES ASSUME Bad # {} PROVE FALSE
    OBVIOUS
  <1>1. IsFiniteSet(Bad) /\ Bad \subseteq Int
    <2>1. IsFiniteSet(0 .. n)
      BY FS_Interval
    <2> QED
      BY <2>1, FS_Subset
  <1>2. PICK m \in Bad : \A k \in Bad : (-1) * k <= (-1) * m
    BY <1>1, Foremost, -1 \in Ways DEF Ways
  <1>3. \A k \in Bad : m <= k
    <2>1. \A i, j \in Int : (-1) * i <= (-1) * j => j <= i
      OBVIOUS
    <2> HIDE DEF Bad
    <2> QED
      BY <1>1, <1>2, <2>1
  <1>4. m \in 1 .. n /\ m - 1 \notin Bad /\ m - 1 \in 0 .. n
    BY <1>2, <1>3
  <1> QED
    BY <1>2, <1>4

\* f begins with first, and each next value follows from the one before.
Iterates(n, first, step, f) ==
    /\ f \in [0 .. n -> Int] /\ f[0] = first
    /\ \A i \in 1 .. n : f[i] = step[<<i, f[i - 1]>>]

\* There is such a function.
LEMMA BoundedRecursion ==
  ASSUME NEW n \in Nat, NEW first \in Int, NEW step \in [(1 .. n) \X Int -> Int]
  PROVE  \E f : Iterates(n, first, step, f)
  <1> DEFINE G == {m \in 0 .. n : \E f : Iterates(m, first, step, f)}
  <1>1. 0 \in G
    <2> DEFINE f == [i \in 0 .. 0 |-> first]
    <2>1. Iterates(0, first, step, f)
      BY DEF Iterates
    <2>2. 0 \in 0 .. n
      OBVIOUS
    <2> HIDE DEF f
    <2> QED
      BY <2>1, <2>2
  <1>2. ASSUME NEW m \in 1 .. n, m - 1 \in G PROVE m \in G
    <2>1. PICK f : Iterates(m - 1, first, step, f)
      BY <1>2
    <2> DEFINE g == [i \in 0 .. m |-> IF i = m THEN step[<<m, f[m - 1]>>] ELSE f[i]]
    <2>2. g \in [0 .. m -> Int]
      <3>1. f[m - 1] \in Int
        BY <2>1 DEF Iterates
      <3>2. step[<<m, f[m - 1]>>] \in Int
        BY <3>1
      <3>3. \A i \in 0 .. m : i # m => i \in 0 .. m - 1
        OBVIOUS
      <3> QED
        BY <2>1, <3>2, <3>3 DEF Iterates
    <2>3. g[0] = first
      BY <2>1 DEF Iterates
    <2>4. ASSUME NEW i \in 1 .. m PROVE g[i] = step[<<i, g[i - 1]>>]
      <3>1. g[i - 1] = f[i - 1]
        OBVIOUS
      <3>2. CASE i = m
        <4>1. g[i] = step[<<m, f[m - 1]>>]
          BY <3>2
        <4> HIDE DEF g
        <4> QED
          BY <3>1, <3>2, <4>1
      <3>3. CASE i # m
        <4>1. i \in 1 .. m - 1 /\ g[i] = f[i]
          BY <3>3
        <4>2. f[i] = step[<<i, f[i - 1]>>]
          BY <2>1, <4>1 DEF Iterates
        <4> HIDE DEF g
        <4> QED
          BY <3>1, <4>1, <4>2
      <3> QED
        BY <3>2, <3>3
    <2> HIDE DEF g
    <2>5. Iterates(m, first, step, g)
      BY <2>2, <2>3, <2>4 DEF Iterates
    <2>6. m \in 0 .. n
      OBVIOUS
    <2> QED
      BY <2>5, <2>6
  <1>3. n \in G
    <2> HIDE DEF G
    <2>1. \A i \in 0 .. n : i \in G
      BY <1>1, <1>2, BoundedInduction
    <2> QED
      BY <2>1
  <1> QED
    BY <1>3

----------------------------------------------------------------------------
(* The points of a vessel                                                  *)

\* The loop over her positions: the time of the position kept last, at each time.
LEMMA LastKept ==
  ASSUME NEW F
  PROVE  \E last \in [-1 .. MaxTime -> Int] :
            /\ last[-1] = -1 - Cadence
            /\ \A t \in 0 .. MaxTime :
                 last[t] = IF t - last[t - 1] >= Cadence /\ (\E f \in F : f.at = t)
                           THEN t ELSE last[t - 1]
            /\ KeptOf(F) = {f \in F : last[f.at] = f.at}
  <1> DEFINE Times == {f.at : f \in F}
             Rule(g) == [t \in -1 .. MaxTime |->
                           IF t = -1 THEN -1 - Cadence
                           ELSE LET before == g[t - 1]
                                IN  IF t - before >= Cadence /\ (\E f \in F : f.at = t) THEN t ELSE before]
             last == CHOOSE g : g = Rule(g)
             n == MaxTime + 1
             step == [p \in (1 .. n) \X Int |->
                        IF p[1] - 1 - p[2] >= Cadence /\ p[1] - 1 \in Times THEN p[1] - 1 ELSE p[2]]
  <1> USE ReplayNumbers, Numbers
  <1>1. \E g : g = Rule(g)
    <2>1. n \in Nat /\ -1 - Cadence \in Int /\ step \in [(1 .. n) \X Int -> Int]
      OBVIOUS
    <2>2. PICK f : Iterates(n, -1 - Cadence, step, f)
      <3> HIDE DEF step, n
      <3> QED
        BY <2>1, BoundedRecursion
    <2> DEFINE g == [t \in -1 .. MaxTime |-> f[t + 1]]
    <2>3. ASSUME NEW t \in -1 .. MaxTime, t # -1
          PROVE  g[t] = IF t - g[t - 1] >= Cadence /\ t \in Times THEN t ELSE g[t - 1]
      <3>1. t + 1 \in 1 .. n /\ g[t] = f[t + 1] /\ g[t - 1] = f[t] /\ f[t] \in Int
        BY <2>2, <2>3 DEF Iterates
      <3>3. t \in Int /\ t + 1 - 1 = t
        BY <2>3
      <3>2. f[t + 1] = step[<<t + 1, f[t]>>]
        <4>1. f[t + 1] = step[<<t + 1, f[t + 1 - 1]>>]
          <5> HIDE DEF step, n, g
          <5> QED
            BY <2>2, <3>1 DEF Iterates
        <4> QED
          BY <3>3, <4>1
      <3>4. step[<<t + 1, f[t]>>] = IF t - f[t] >= Cadence /\ t \in Times THEN t ELSE f[t]
        <4>1. <<t + 1, f[t]>> \in (1 .. n) \X Int
          BY <3>1
        <4>2. step[<<t + 1, f[t]>>] = IF t + 1 - 1 - f[t] >= Cadence /\ t + 1 - 1 \in Times THEN t + 1 - 1 ELSE f[t]
          <5> HIDE DEF Times, n
          <5> QED
            BY <4>1
        <4> HIDE DEF Times, step
        <4> QED
          BY <3>1, <3>3, <4>2
      <3> HIDE DEF step, Times, g, n
      <3> QED
        BY <3>1, <3>2, <3>3, <3>4
    <2>4. g[-1] = -1 - Cadence
      BY <2>2 DEF Iterates
    <2>5. g = Rule(g)
      <3>1. DOMAIN g = -1 .. MaxTime /\ g = [t \in -1 .. MaxTime |-> g[t]]
        OBVIOUS
      <3> HIDE DEF g
      <3> QED
        BY <2>3, <2>4, <3>1
    <2> HIDE DEF g, Rule
    <2> QED
      BY <2>5
  <1>2. last = Rule(last)
    <2> HIDE DEF Rule
    <2> QED
      BY <1>1
  <1>3. KeptOf(F) = {f \in F : last[f.at] = f.at}
    BY DEF KeptOf
  <1> HIDE DEF last
  <1>4. /\ last[-1] = -1 - Cadence
        /\ \A t \in 0 .. MaxTime :
             last[t] = IF t - last[t - 1] >= Cadence /\ (\E f \in F : f.at = t)
                       THEN t ELSE last[t - 1]
    BY <1>2
  <1>5. last \in [-1 .. MaxTime -> Int]
    <2> DEFINE G == {i \in 0 .. n : last[i - 1] \in Int}
    <2>1. 0 \in G
      BY <1>4
    <2>2. ASSUME NEW i \in 1 .. n, i - 1 \in G PROVE i \in G
      <3>1. i - 1 \in 0 .. MaxTime /\ last[i - 1 - 1] \in Int
        BY <2>2
      <3> QED
        BY <1>4, <3>1
    <2>3. \A i \in 0 .. n : i \in G
      <3> HIDE DEF G
      <3> QED
        BY <2>1, <2>2, BoundedInduction
    <2>4. \A t \in -1 .. MaxTime : last[t] \in Int
      <3> SUFFICES ASSUME NEW t \in -1 .. MaxTime PROVE last[t] \in Int
        OBVIOUS
      <3>1. t + 1 \in 0 .. n /\ t + 1 - 1 = t
        OBVIOUS
      <3> QED
        BY <2>3, <3>1
    <2> QED
      BY <1>2, <2>4
  <1> QED
    BY <1>3, <1>4, <1>5

\* What the loop keeps: no two positions closer than the cadence, one for every position at most
\* a cadence older, and those after a silence.
LEMMA KeptFacts ==
  ASSUME NEW F, \A f \in F : f.at \in 0 .. MaxTime
  PROVE  /\ KeptOf(F) \subseteq F
         /\ \A p, q \in KeptOf(F) : p.at < q.at => q.at - p.at >= Cadence
         /\ \A f \in F : \E k \in KeptOf(F) : k.at <= f.at /\ f.at - k.at < Cadence
         /\ \A f \in F : (\A g \in F : g.at < f.at => f.at - g.at >= Cadence) => f \in KeptOf(F)
  <1> USE ReplayNumbers, Numbers
  <1>1. PICK last \in [-1 .. MaxTime -> Int] :
            /\ last[-1] = -1 - Cadence
            /\ \A t \in 0 .. MaxTime :
                 last[t] = IF t - last[t - 1] >= Cadence /\ (\E f \in F : f.at = t)
                           THEN t ELSE last[t - 1]
            /\ KeptOf(F) = {f \in F : last[f.at] = f.at}
    BY LastKept
  <1> DEFINE Good(t) == /\ \/ last[t] = -1 - Cadence
                           \/ /\ last[t] \in 0 .. t /\ last[last[t]] = last[t]
                              /\ \E f \in F : f.at = last[t]
                        /\ \A u \in 0 .. t : last[u] = u => u <= last[t]
  <1>2. \A t \in -1 .. MaxTime : Good(t)
    <2> DEFINE n == MaxTime + 1
               G == {i \in 0 .. n : Good(i - 1)}
    <2>1. 0 \in G
      BY <1>1
    <2>2. ASSUME NEW i \in 1 .. n, i - 1 \in G PROVE i \in G
      <3> DEFINE t == i - 1
      <3>1. t \in 0 .. MaxTime /\ Good(t - 1) /\ i \in 0 .. n
        BY <2>2
      <3>2. last[t] = IF t - last[t - 1] >= Cadence /\ (\E f \in F : f.at = t)
                      THEN t ELSE last[t - 1]
        BY <1>1, <3>1
      <3> HIDE DEF t
      <3>3. ASSUME t - last[t - 1] >= Cadence, \E f \in F : f.at = t PROVE Good(t)
        <4>1. last[t] = t
          BY <3>2, <3>3
        <4> QED
          BY <3>1, <3>3, <4>1
      <3>4. ASSUME ~(t - last[t - 1] >= Cadence /\ (\E f \in F : f.at = t)) PROVE Good(t)
        <4>1. last[t] = last[t - 1] /\ t - 1 \in -1 .. MaxTime /\ last[t - 1] \in Int
          BY <3>1, <3>2, <3>4
        <4>2. last[t - 1] < t
          BY <3>1
        <4>3. ASSUME NEW u \in 0 .. t, last[u] = u PROVE u <= last[t]
          <5>1. u # t
            BY <4>1, <4>2, <4>3
          <5>2. u \in 0 .. t - 1
            BY <3>1, <5>1
          <5> QED
            BY <3>1, <4>1, <4>3, <5>2
        <4>4. \/ last[t] = -1 - Cadence
              \/ /\ last[t] \in 0 .. t /\ last[last[t]] = last[t]
                 /\ \E f \in F : f.at = last[t]
          BY <3>1, <4>1
        <4> QED
          BY <4>3, <4>4
      <3> HIDE DEF Good
      <3>5. Good(t)
        BY <3>3, <3>4
      <3> QED
        BY <3>1, <3>5 DEF t
    <2>3. \A i \in 0 .. n : i \in G
      <3>1. n \in Nat
        OBVIOUS
      <3> HIDE DEF G, n
      <3> QED
        BY <2>1, <2>2, <3>1, BoundedInduction
    <2> SUFFICES ASSUME NEW t \in -1 .. MaxTime PROVE Good(t)
      OBVIOUS
    <2>4. t + 1 \in 0 .. n /\ t + 1 - 1 = t
      OBVIOUS
    <2> HIDE DEF Good
    <2>5. Good(t + 1 - 1)
      BY <2>3, <2>4
    <2> QED
      BY <2>4, <2>5
  \* One position: kept, or too close to the one kept last.
  <1>3. ASSUME NEW f \in F
        PROVE  /\ f.at \in 0 .. MaxTime /\ f.at - 1 \in -1 .. MaxTime
               /\ last[f.at - 1] \in Int /\ last[f.at - 1] < f.at
               /\ f \in KeptOf(F) <=> f.at - last[f.at - 1] >= Cadence
               /\ last[f.at - 1] = -1 - Cadence
                    \/ \E k \in KeptOf(F) : k.at = last[f.at - 1]
    <2> DEFINE t == f.at
    <2>1. t \in 0 .. MaxTime /\ t - 1 \in -1 .. MaxTime
      OBVIOUS
    <2>6. Good(t - 1)
      <3> HIDE DEF Good, t
      <3> QED
        BY <1>2, <2>1
    <2>2. Good(t - 1) /\ last[t - 1] \in Int /\ last[t - 1] < t
      BY <2>1, <2>6
    <2>3. last[t] = IF t - last[t - 1] >= Cadence THEN t ELSE last[t - 1]
      BY <1>1, <2>1
    <2>4. f \in KeptOf(F) <=> t - last[t - 1] >= Cadence
      BY <1>1, <2>2, <2>3
    <2>5. last[t - 1] = -1 - Cadence \/ \E k \in KeptOf(F) : k.at = last[t - 1]
      BY <1>1, <2>2
    <2> QED
      BY <2>1, <2>2, <2>4, <2>5
  <1>4. KeptOf(F) \subseteq F
    BY <1>1
  <1>5. ASSUME NEW p \in KeptOf(F), NEW q \in KeptOf(F), p.at < q.at PROVE q.at - p.at >= Cadence
    <2>1. p \in F /\ q \in F /\ last[p.at] = p.at
      BY <1>1
    <2>2. p.at \in 0 .. q.at - 1 /\ q.at \in 0 .. MaxTime /\ q.at - 1 \in -1 .. MaxTime
      BY <1>5, <2>1
    <2>3. p.at <= last[q.at - 1]
      BY <1>2, <2>1, <2>2
    <2>4. last[q.at - 1] \in Int /\ q.at - last[q.at - 1] >= Cadence
      <3> HIDE DEF Good
      <3> QED
        BY <1>3, <2>1
    <2> QED
      BY <2>2, <2>3, <2>4
  <1>6. ASSUME NEW f \in F PROVE \E k \in KeptOf(F) : k.at <= f.at /\ f.at - k.at < Cadence
    <2>1. CASE f \in KeptOf(F)
      BY <2>1
    <2>2. CASE f \notin KeptOf(F)
      <3>1. /\ f.at \in 0 .. MaxTime /\ last[f.at - 1] \in Int /\ last[f.at - 1] < f.at
            /\ ~(f.at - last[f.at - 1] >= Cadence)
            /\ last[f.at - 1] = -1 - Cadence
                 \/ \E k \in KeptOf(F) : k.at = last[f.at - 1]
        BY <1>3, <2>2
      <3>2. last[f.at - 1] # -1 - Cadence
        BY <3>1
      <3>3. PICK k \in KeptOf(F) : k.at = last[f.at - 1]
        BY <3>1, <3>2
      <3> QED
        BY <3>1, <3>3
    <2> QED
      BY <2>1, <2>2
  <1>7. ASSUME NEW f \in F, \A g \in F : g.at < f.at => f.at - g.at >= Cadence PROVE f \in KeptOf(F)
    BY <1>3, <1>4, <1>7
  <1> QED
    BY <1>4, <1>5, <1>6, <1>7

\* Her stay at a lock counts as one event, its last lockage, and every earlier one is dropped.
LEMMA StaysCollapse ==
  ASSUME RiverTypeOK, RouteInv, Clearances \subseteq Over, Over \subseteq Of(Tow),
         NEW a \in Clearances, NEW b \in Clearances, NEW z \in Clearances, a.lock # b.lock, a.at < b.at,
         \A x \in Over : x.at > a.at => b.at <= x.at, StaysUntil(b, z),
         \A x \in Over : a.at <= x.at => x \in Clearances
  PROVE  {a, z} \subseteq Collapse(Clearances) /\ z \in After(Collapse(Clearances), a)
  <1> USE ReplayNumbers
  <1>1. /\ \A x \in Over : x.at \in Nat /\ x.lock \in Int
        /\ \A x, y \in Over : x.at = y.at => x = y
    BY LockageParts DEF RouteInv, Of
  <1>2. /\ z.lock = b.lock /\ b.at <= z.at
        /\ \A x \in Over : x.at \in b.at .. z.at => x.lock = b.lock
        /\ \A x \in Over : x.at \in b.at .. z.at - 1 => \E y \in Over : y.at \in x.at + 1 .. x.at + Dedup
        /\ \A x \in Over : x.lock = b.lock /\ x.at \in z.at + 1 .. z.at + Dedup =>
             \E y \in Over : y.lock # b.lock /\ y.at \in z.at + 1 .. x.at
    BY DEF StaysUntil
  <1>3. a \in Over /\ b \in Over /\ z \in Over
    OBVIOUS
  <1>4. a \in Collapse(Clearances)
    <2> SUFFICES ASSUME NEW x \in After(Clearances, a) PROVE x.lock # a.lock
      BY DEF Collapse
    <2>1. x \in Over /\ x.at > a.at /\ x.at <= b.at
      BY DEF After
    <2>2. x = b
      BY <1>1, <1>3, <2>1
    <2> QED
      BY <2>2
  <1>5. z \in Collapse(Clearances)
    <2> SUFFICES ASSUME NEW x \in After(Clearances, z), x.lock = z.lock, ~(x.at - z.at > Dedup) PROVE FALSE
      BY DEF Collapse
    <2>1. x \in Over /\ x.at > z.at /\ \A y \in Clearances : y.at > z.at => x.at <= y.at
      BY DEF After
    <2>2. x.at \in z.at + 1 .. z.at + Dedup
      BY <1>1, <1>3, <2>1
    <2>3. PICK y \in Over : y.lock # b.lock /\ y.at \in z.at + 1 .. x.at
      BY <1>2, <2>1, <2>2
    <2>4. y \in Clearances /\ y.at > z.at
      BY <1>1, <1>2, <1>3, <2>3
    <2>5. y.at = x.at
      BY <1>1, <2>1, <2>3, <2>4
    <2> QED
      BY <1>1, <1>2, <2>1, <2>3, <2>5
  <1>6. ASSUME NEW x \in Collapse(Clearances), x.at > a.at, x.at < z.at PROVE FALSE
    <2> DEFINE Later == {c \in Clearances : c.at > x.at}
    <2>1. x \in Clearances /\ x \in Over /\ x.at \in b.at .. z.at - 1
      <3>1. x \in Clearances
        BY DEF Collapse
      <3> QED
        BY <1>1, <1>3, <1>6, <3>1
    <2>2. PICK y \in Over : y.at \in x.at + 1 .. x.at + Dedup
      BY <1>2, <2>1
    <2>3. y \in Later
      BY <1>1, <1>3, <2>1, <2>2
    <2>4. PICK q \in Later : \A d \in Later : q.at <= d.at
      <3>1. Later \in SUBSET made
        BY DEF Of
      <3>2. IsFiniteSet(Later) /\ \A d \in Later : d.at \in Int
        BY <1>1, <3>1, FS_Subset DEF RouteInv
      <3> HIDE DEF Later
      <3> QED
        BY <2>3, <3>1, <3>2, LatestAndEarliest
    <2>5. q \in After(Clearances, x)
      BY <2>4 DEF After
    <2>6. q \in Over /\ q.at \in Nat /\ q.at <= y.at /\ q.at <= z.at /\ q.at > x.at
      <3>1. z \in Later
        BY <1>6
      <3>2. q \in Over
        BY <2>4
      <3> QED
        BY <1>1, <2>3, <2>4, <3>1, <3>2
    <2>7. x.lock = b.lock /\ q.lock = b.lock /\ q.at - x.at <= Dedup
      <3>1. q.at \in b.at .. z.at /\ x.at \in b.at .. z.at
        BY <1>1, <1>3, <2>1, <2>6
      <3>2. q.at - x.at <= Dedup
        BY <1>1, <2>1, <2>2, <2>6
      <3> QED
        BY <1>2, <2>1, <2>6, <3>1, <3>2
    <2>8. ~(q.at - x.at > Dedup)
      BY <1>1, <2>1, <2>6, <2>7
    <2> QED
      BY <2>5, <2>7, <2>8 DEF Collapse
  <1>7. z \in After(Collapse(Clearances), a)
    <2>1. z.at > a.at
      BY <1>1, <1>2, <1>3
    <2>2. \A y \in Collapse(Clearances) : y.at > a.at => z.at <= y.at
      <3>1. \A y \in Collapse(Clearances) : y.at \in Nat
        BY <1>1 DEF Collapse
      <3> QED
        BY <1>1, <1>3, <1>6, <3>1
    <2> QED
      BY <1>5, <2>1, <2>2 DEF After
  <1> QED
    BY <1>4, <1>5, <1>7

LEMMA LegsAppear ==
  ASSUME RiverTypeOK, RouteInv, known \subseteq made, clock \in Nat, \A f \in seen : f.at \in 0 .. MaxTime
  PROVE  LegsAreShown
  <1> SUFFICES ASSUME NothingMissing, NameIsHers, \E f \in seen : f.commercial,
                      \E f \in Telling : f.named,
                      NEW a \in Over, NEW b \in Over, NEW z \in Over,
                      a.lock # b.lock, Successive(a, b), StaysUntil(b, z),
                      z.at >= clock - Window, z.at - a.at <= MaxLeg
               PROVE  <<a, z>> \in Segments
    BY DEF LegsAreShown
  <1> USE ReplayNumbers
  <1>1. Named /\ Commercial
    <2>1. PICK f \in Telling : f.named
      OBVIOUS
    <2>2. f \in seen /\ f.at \in Int /\ \A g \in seen : g.at \in Int
      BY <2>1, Numbers DEF Telling
    <2>3. (\A g \in seen : g.at < f.at => f.at - g.at >= Cadence) \/ (\A h \in seen : f.at <= h.at)
      BY <2>1, <2>2 DEF Telling
    <2>4. f \in Thinned \/ \A h \in seen : f.at <= h.at
      BY <2>2, <2>3, KeptFacts DEF Thinned
    <2> QED
      BY <2>1, <2>2, <2>4 DEF Named, Commercial
  <1>2. Hers(made) = Of(Tow) /\ Hers(known) \subseteq Of(Tow)
    BY HersAreOfHer DEF Of
  <1>3. \A x \in Over : /\ x \in Of(Tow) /\ x \in made /\ x.boat = Tow /\ x.at \in Nat
                        /\ x.lock \in SimLocks /\ x.at <= clock
    BY <1>2, LockageParts DEF Over, Of
  <1>4. Clearances \subseteq Over
    BY <1>2 DEF Clearances, Over
  <1>5. a.at < b.at /\ b.at <= z.at /\ z.lock = b.lock
    BY DEF Successive, StaysUntil
  <1>6. ASSUME NEW x \in Over, a.at <= x.at PROVE x \in Clearances
    <2>1. x.at \in clock - Window - MaxLeg .. clock
      BY <1>3, <1>5, <1>6
    <2>2. x \in known
      BY <1>3, <2>1 DEF NothingMissing
    <2> QED
      BY <1>2, <1>3, <2>1, <2>2 DEF Clearances, Over, Hers
  <1>7. {a, b, z} \subseteq Clearances
    BY <1>3, <1>5, <1>6
  <1>8. \A x \in Over : x.at > a.at => b.at <= x.at
    <2> SUFFICES ASSUME NEW x \in Over, x.at > a.at PROVE b.at <= x.at
      OBVIOUS
    <2>1. x.at \notin a.at + 1 .. b.at - 1
      BY <1>3 DEF Successive
    <2> QED
      BY <1>3, <2>1
  <1>9. {a, z} \subseteq Collapse(Clearances) /\ z \in After(Collapse(Clearances), a)
    BY <1>3, <1>4, <1>5, <1>6, <1>7, <1>8, StaysCollapse
  <1> QED
    BY <1>1, <1>5, <1>9 DEF Segments

----------------------------------------------------------------------------
(* Ranks, and points spread over them                                      *)

\* How many of S were before x.
Rank(S, x) == Cardinality({y \in S : y.at < x.at})

\* Things of different times have all the ranks there are, one each, in the order of their times.
LEMMA Ranks ==
  ASSUME NEW S, IsFiniteSet(S), \A x \in S : x.at \in Int, \A x, y \in S : x.at = y.at => x = y
  PROVE  /\ \A x \in S : Rank(S, x) \in 0 .. Cardinality(S) - 1
         /\ \A x \in S : Cardinality({y \in S : y.at <= x.at}) = Rank(S, x) + 1
         /\ \A x, y \in S : x.at < y.at => Rank(S, x) < Rank(S, y)
         /\ \A i \in 0 .. Cardinality(S) - 1 : \E x \in S : Rank(S, x) = i
  <1> DEFINE Before(x) == {y \in S : y.at < x.at}
             UpTo(x) == {y \in S : y.at <= x.at}
             n == Cardinality(S)
             rank == [x \in S |-> Rank(S, x)]
  <1>1. n \in Nat
    BY FS_CardinalityType
  <1>2. ASSUME NEW T \in SUBSET S PROVE IsFiniteSet(T) /\ Cardinality(T) \in Nat /\ Cardinality(T) <= n
    BY FS_Subset, FS_CardinalityType
  <1>3. ASSUME NEW x \in S PROVE Cardinality(UpTo(x)) = Rank(S, x) + 1 /\ Rank(S, x) \in Nat
    <2>1. UpTo(x) = Before(x) \cup {x} /\ x \notin Before(x)
      OBVIOUS
    <2>2. IsFiniteSet(Before(x)) /\ Cardinality(Before(x)) \in Nat
      BY <1>2
    <2>3. Cardinality(UpTo(x)) = Cardinality(Before(x)) + 1
      <3> HIDE DEF Before, UpTo
      <3> QED
        BY <2>1, <2>2, FS_AddElement
    <2> QED
      BY <2>2, <2>3 DEF Rank
  <1>4. ASSUME NEW x \in S PROVE Rank(S, x) \in 0 .. n - 1
    <2>1. Cardinality(UpTo(x)) <= n
      BY <1>2
    <2> HIDE DEF UpTo, n
    <2> QED
      BY <1>1, <1>3, <2>1
  <1>5. ASSUME NEW x \in S, NEW y \in S, x.at < y.at PROVE Rank(S, x) < Rank(S, y)
    <2>1. UpTo(x) \in SUBSET Before(y)
      BY <1>5
    <2>2. Cardinality(UpTo(x)) <= Cardinality(Before(y))
      <3>1. IsFiniteSet(Before(y))
        BY <1>2
      <3> HIDE DEF Before, UpTo
      <3> QED
        BY <2>1, <3>1, FS_Subset
    <2>3. Cardinality(Before(y)) = Rank(S, y)
      BY DEF Rank
    <2> HIDE DEF UpTo, Before
    <2> QED
      BY <1>3, <2>2, <2>3
  <1>6. \A i \in 0 .. n - 1 : \E x \in S : Rank(S, x) = i
    <2>1. rank \in Injection(S, 0 .. n - 1)
      <3>1. rank \in [S -> 0 .. n - 1]
        BY <1>4
      <3>2. ASSUME NEW x \in S, NEW y \in S, rank[x] = rank[y] PROVE x = y
        <4>1. Rank(S, x) = Rank(S, y) /\ Rank(S, x) \in Nat /\ Rank(S, y) \in Nat
          BY <1>3, <3>2
        <4>2. ~(x.at < y.at) /\ ~(y.at < x.at)
          BY <1>5, <4>1
        <4> QED
          BY <4>2
      <3> HIDE DEF rank
      <3> QED
        BY <3>1, <3>2 DEF Injection, IsInjective
    <2>2. IsFiniteSet(0 .. n - 1) /\ Cardinality(0 .. n - 1) = n
      <3> HIDE DEF n
      <3> QED
        BY <1>1, FS_Interval
    <2>3. rank \in Surjection(S, 0 .. n - 1)
      <3> HIDE DEF rank
      <3> QED
        BY <2>1, <2>2, FS_Injection
    <2> SUFFICES ASSUME NEW i \in 0 .. n - 1 PROVE \E x \in S : Rank(S, x) = i
      OBVIOUS
    <2>4. \E x \in S : rank[x] = i
      <3> HIDE DEF rank, n
      <3> QED
        BY <2>3 DEF Surjection
    <2> QED
      BY <2>4
  <1> HIDE DEF n
  <1> QED
    BY <1>3, <1>4, <1>5, <1>6 DEF n

LEMMA QuotientBounds ==
  ASSUME NEW x \in Int, NEW m \in Nat \ {0}
  PROVE  x \div m \in Int /\ (x \div m) * m <= x /\ x < (x \div m + 1) * m
  OBVIOUS

\* Of m evenly spread ranks out of n there is one at or before each rank r, less than n / m
\* before it.
LEMMA EvenlySpread ==
  ASSUME NEW n \in Nat, NEW m \in Nat \ {0}, NEW r \in 0 .. n - 1
  PROVE  \E i \in 0 .. m - 1 : /\ (i * n) \div m \in 0 .. r
                               /\ r - (i * n) \div m <= (n - 1) \div m
  <1> DEFINE a(i) == (i * n) \div m
             skip == (n - 1) \div m
             Low == {i \in 0 .. m - 1 : a(i) <= r}
  <1>1. ASSUME NEW i \in Int PROVE a(i) \in Int /\ a(i) * m <= i * n /\ i * n < (a(i) + 1) * m
    <2>1. i * n \in Int
      OBVIOUS
    <2> QED
      BY <2>1, QuotientBounds
  <1>2. skip \in Int /\ n <= (skip + 1) * m
    <2>1. n - 1 \in Int
      OBVIOUS
    <2>2. skip \in Int /\ n - 1 < (skip + 1) * m
      BY <2>1, QuotientBounds
    <2>3. (skip + 1) * m \in Int
      BY <2>2
    <2> HIDE DEF skip
    <2> QED
      BY <2>2, <2>3
  <1>3. ASSUME NEW i \in Int PROVE a(i + 1) <= a(i) + skip + 1
    <2> DEFINE p == a(i)
               q == a(i + 1)
    <2>1. /\ p \in Int /\ q \in Int /\ i * n < (p + 1) * m /\ q * m <= (i + 1) * n
      BY <1>1
    <2>2. (i + 1) * n = i * n + n /\ i * n \in Int
      OBVIOUS
    <2>3. (p + 1) * m + (skip + 1) * m = (p + skip + 2) * m /\ (p + 1) * m \in Int /\ (skip + 1) * m \in Int
      <3> HIDE DEF p, skip
      <3> QED
        BY <1>2, <2>1
    <2>4. q * m < (p + skip + 2) * m
      <3> HIDE DEF p, q, skip
      <3> DEFINE x == i * n
                 y == (p + 1) * m
                 z == (skip + 1) * m
                 u == q * m
      <3>1. x \in Int /\ y \in Int /\ z \in Int /\ u \in Int /\ x < y /\ u <= x + n /\ n <= z
        BY <1>2, <2>1, <2>2, <2>3
      <3>2. u < y + z
        <4> HIDE DEF x, y, z, u
        <4> QED
          BY <3>1
      <3> QED
        BY <2>3, <3>2
    <2> HIDE DEF p, q, skip
    <2>5. q < p + skip + 2
      BY <1>2, <2>1, <2>4
    <2> QED
      BY <1>2, <2>1, <2>5 DEF p, q
  <1>4. a(0) = 0
    <2>1. 0 * n = 0 /\ 0 \div m = 0
      OBVIOUS
    <2> QED
      BY <2>1
  <1>5. a(m) = n
    <2> DEFINE p == a(m)
    <2>1. p \in Int /\ p * m <= m * n /\ m * n < (p + 1) * m
      BY <1>1
    <2> HIDE DEF p
    <2>2. p <= n /\ n < p + 1
      BY <2>1
    <2> QED
      BY <2>1, <2>2 DEF p
  <1> HIDE DEF a, skip
  <1>6. PICK i \in Low : \A j \in Low : 1 * j <= 1 * i
    <2>1. Low \subseteq Int /\ 0 \in Low
      BY <1>4
    <2>2. IsFiniteSet(Low)
      <3>1. IsFiniteSet(0 .. m - 1)
        BY FS_Interval
      <3> QED
        BY <3>1, FS_Subset
    <2> HIDE DEF Low
    <2> QED
      BY <2>1, <2>2, Foremost, 1 \in Ways DEF Ways
  <1>7. i \in 0 .. m - 1 /\ a(i) <= r /\ \A j \in Low : j <= i
    BY <1>6
  <1>8. a(i + 1) > r
    <2>1. CASE i + 1 = m
      BY <1>5, <2>1
    <2>2. CASE i + 1 # m
      <3>1. i + 1 \in 0 .. m - 1 /\ i + 1 \notin Low
        BY <1>7, <2>2
      <3> QED
        BY <1>1, <3>1
    <2> QED
      BY <2>1, <2>2
  <1>9. a(i) \in Nat
    <2>1. i * n \in Nat
      BY <1>7
    <2>2. (i * n) \div m \in Nat
      <3> DEFINE x == i * n
      <3> HIDE DEF x
      <3>1. x \in Nat => x \div m \in Nat
        OBVIOUS
      <3> QED
        BY <2>1, <3>1 DEF x
    <2> QED
      BY <2>2 DEF a
  <1>10. r - a(i) <= skip
    BY <1>1, <1>2, <1>3, <1>7, <1>8
  <1> QED
    BY <1>7, <1>9, <1>10 DEF a, skip

\* The cap leaves at most MaxPoints of the positions kept, and up to every one of them at most
\* as many in a row are left out as its spacing says.
LEMMA CappedFacts ==
  ASSUME NEW K, IsFiniteSet(K), \A k \in K : k.at \in Int, \A j, k \in K : j.at = k.at => j = k
  PROVE  /\ Capped(K) \subseteq K /\ Cardinality(Capped(K)) <= MaxPoints
         /\ \A f \in K : \E p \in Capped(K) :
              /\ p.at <= f.at
              /\ Cardinality({k \in K : p.at < k.at /\ k.at <= f.at}) <= (Cardinality(K) - 1) \div MaxPoints
  <1> DEFINE n == Cardinality(K)
             skip == (n - 1) \div MaxPoints
             Slot(i) == (i * n) \div MaxPoints
             Spread == {f \in K : \E i \in 0 .. MaxPoints - 1 : Rank(K, f) = Slot(i)}
             UpTo(x) == {k \in K : k.at <= x.at}
  <1> USE ReplayNumbers
  <1>1. n \in Nat
    BY FS_CardinalityType
  <1>2. Capped(K) = IF n <= MaxPoints THEN K ELSE Spread
    BY DEF Capped, Rank
  <1>3. /\ \A x \in K : Rank(K, x) \in 0 .. n - 1 /\ Cardinality(UpTo(x)) = Rank(K, x) + 1
        /\ \A x, y \in K : x.at < y.at => Rank(K, x) < Rank(K, y)
        /\ \A i \in 0 .. n - 1 : \E x \in K : Rank(K, x) = i
    BY Ranks
  <1>4. CASE n <= MaxPoints
    <2>1. Capped(K) = K
      BY <1>2, <1>4
    <2>3. ASSUME NEW f \in K PROVE skip >= 0
      <3>1. n - 1 \in Nat
        <4>1. Rank(K, f) \in 0 .. n - 1
          BY <1>3
        <4> HIDE DEF n
        <4> QED
          BY <1>1, <4>1
      <3> DEFINE x == n - 1
      <3> HIDE DEF x
      <3>2. x \in Nat => x \div MaxPoints >= 0
        OBVIOUS
      <3> QED
        BY <3>1, <3>2 DEF x
    <2>4. ASSUME NEW f \in K
          PROVE  f.at <= f.at /\ Cardinality({k \in K : f.at < k.at /\ k.at <= f.at}) <= skip
      <3> DEFINE D == {k \in K : f.at < k.at /\ k.at <= f.at}
      <3>2. D = {} /\ f.at <= f.at
        OBVIOUS
      <3>1. Cardinality(D) = 0 /\ f.at <= f.at
        BY <3>2, FS_EmptySet
      <3> HIDE DEF skip, D
      <3> QED
        BY <1>1, <2>3, <3>1 DEF D
    <2> QED
      BY <1>4, <2>1, <2>4
  <1>5. CASE n > MaxPoints
    <2>1. Capped(K) = Spread
      BY <1>1, <1>2, <1>5
    <2>2. Cardinality(Spread) <= MaxPoints
      <3> DEFINE pick == [f \in Spread |-> CHOOSE i \in 0 .. MaxPoints - 1 : Rank(K, f) = Slot(i)]
      <3>1. \A f \in Spread : pick[f] \in 0 .. MaxPoints - 1 /\ Rank(K, f) = Slot(pick[f])
        <4> HIDE DEF Slot
        <4> QED
          OBVIOUS
      <3>2. pick \in Injection(Spread, 0 .. MaxPoints - 1)
        <4>1. pick \in [Spread -> 0 .. MaxPoints - 1]
          BY <3>1
        <4>2. ASSUME NEW f \in Spread, NEW g \in Spread, pick[f] = pick[g] PROVE f = g
          <5>1. Rank(K, f) = Rank(K, g)
            <6> HIDE DEF pick, Slot
            <6> QED
              BY <3>1, <4>2
          <5>2. Rank(K, f) \in Int /\ Rank(K, g) \in Int
            BY <1>1, <1>3
          <5>3. ~(f.at < g.at) /\ ~(g.at < f.at)
            BY <1>3, <5>1, <5>2
          <5> QED
            BY <5>3
        <4> HIDE DEF pick, Spread
        <4> QED
          BY <4>1, <4>2 DEF Injection, IsInjective
      <3>3. IsFiniteSet(0 .. MaxPoints - 1) /\ Cardinality(0 .. MaxPoints - 1) = MaxPoints
        BY FS_Interval
      <3> HIDE DEF pick, Spread
      <3> QED
        BY <3>2, <3>3, FS_Injection
    <2>3. ASSUME NEW f \in K
          PROVE  \E p \in Spread : p.at <= f.at /\ Cardinality({k \in K : p.at < k.at /\ k.at <= f.at}) <= skip
      <3> DEFINE r == Rank(K, f)
      <3>1. r \in 0 .. n - 1
        BY <1>3
      <3>2. PICK i \in 0 .. MaxPoints - 1 : Slot(i) \in 0 .. r /\ r - Slot(i) <= skip
        <4>1. MaxPoints \in Nat \ {0}
          OBVIOUS
        <4> HIDE DEF n, r
        <4>2. \E i \in 0 .. MaxPoints - 1 : /\ (i * n) \div MaxPoints \in 0 .. r
                                             /\ r - (i * n) \div MaxPoints <= (n - 1) \div MaxPoints
          BY <1>1, <3>1, <4>1, EvenlySpread, Zenon
        <4> QED
          BY <4>2
      <3>3. PICK p \in K : Rank(K, p) = Slot(i)
        <4>1. Slot(i) \in 0 .. n - 1
          <5> HIDE DEF Slot, r, n
          <5> QED
            BY <1>1, <3>1, <3>2
        <4> HIDE DEF Slot
        <4> QED
          BY <1>3, <4>1
      <3>4. p \in Spread
        BY <3>3
      <3>5. p.at <= f.at
        <4>1. ~(r < Rank(K, p))
          <5> HIDE DEF Slot, r, n
          <5> QED
            BY <1>1, <3>1, <3>2, <3>3
        <4> HIDE DEF Slot
        <4> QED
          BY <1>3, <4>1
      <3>6. Cardinality({k \in K : p.at < k.at /\ k.at <= f.at}) = r - Rank(K, p)
        <4>1. {k \in K : p.at < k.at /\ k.at <= f.at} = UpTo(f) \ UpTo(p)
          OBVIOUS
        <4>2. UpTo(f) \cap UpTo(p) = UpTo(p)
          BY <3>5
        <4>3. IsFiniteSet(UpTo(f))
          BY FS_Subset
        <4>4. Cardinality(UpTo(f) \ UpTo(p)) = Cardinality(UpTo(f)) - Cardinality(UpTo(p))
          <5> HIDE DEF UpTo
          <5> QED
            BY <4>2, <4>3, FS_Difference
        <4>5. Cardinality(UpTo(f)) = r + 1 /\ Cardinality(UpTo(p)) = Rank(K, p) + 1 /\ Rank(K, p) \in Int
          <5> HIDE DEF UpTo, n
          <5> QED
            BY <1>1, <1>3
        <4>6. r \in Int
          <5> HIDE DEF n, r
          <5> QED
            BY <1>1, <3>1
        <4> DEFINE D == {k \in K : p.at < k.at /\ k.at <= f.at}
        <4>7. Cardinality(D) = Cardinality(UpTo(f)) - Cardinality(UpTo(p))
          BY <4>1, <4>4
        <4> HIDE DEF UpTo, r, D
        <4>8. Cardinality(D) = r - Rank(K, p)
          BY <4>5, <4>6, <4>7
        <4> QED
          BY <4>8 DEF D
      <3> HIDE DEF Slot, skip, r, n, Spread
      <3> QED
        BY <3>2, <3>3, <3>4, <3>5, <3>6
    <2> HIDE DEF skip, n
    <2> QED
      BY <2>1, <2>2, <2>3 DEF skip, n
  <1> QED
    BY <1>1, <1>4, <1>5

LEMMA PointsFollow ==
  ASSUME IsFiniteSet(seen), \A f \in seen : f.at \in 0 .. MaxTime,
         \A f, g \in seen : f.at = g.at => f = g
  PROVE  PointsKeepUp
  <1> DEFINE K == Thinned
             P == Capped(K)
             Skip == IF K = {} THEN 0 ELSE (Cardinality(K) - 1) \div MaxPoints
             Dropped(p, f) == {k \in K : p.at < k.at /\ k.at <= f.at}
  <1>1. /\ K \subseteq seen
        /\ \A p, q \in K : p.at < q.at => q.at - p.at >= Cadence
        /\ \A f \in seen : \E k \in K : k.at <= f.at /\ f.at - k.at < Cadence
    BY KeptFacts DEF Thinned
  <1>2. IsFiniteSet(K) /\ \A f \in seen : f.at \in Int
    BY <1>1, FS_Subset, Numbers
  <1>3. /\ P \subseteq K /\ Cardinality(P) <= MaxPoints
        /\ \A f \in K : \E p \in P : /\ p.at <= f.at
                                     /\ Cardinality(Dropped(p, f)) <= (Cardinality(K) - 1) \div MaxPoints
    <2> HIDE DEF K
    <2> QED
      BY <1>1, <1>2, CappedFacts
  <1> HIDE DEF K, P
  <1>4. ASSUME NEW f \in seen
        PROVE  \E p \in P : p.at <= f.at /\ Cardinality(Dropped(p, f)) <= Skip
    <2> DEFINE Heard == {k \in K : k.at <= f.at}
    <2>1. Heard # {} /\ IsFiniteSet(Heard) /\ \A k \in Heard : k.at \in Int
      BY <1>1, <1>2, FS_Subset
    <2>2. PICK k \in Heard : \A j \in Heard : j.at <= k.at
      <3> HIDE DEF Heard
      <3> QED
        BY <2>1, LatestAndEarliest
    <2>3. PICK p \in P : p.at <= k.at /\ Cardinality(Dropped(p, k)) <= (Cardinality(K) - 1) \div MaxPoints
      BY <1>3, <2>2
    <2>4. Dropped(p, k) = Dropped(p, f)
      BY <1>1, <1>2, <1>3, <2>2
    <2>5. K # {} /\ p.at <= f.at
      BY <1>1, <1>2, <1>3, <2>2, <2>3
    <2> HIDE DEF Dropped
    <2> QED
      BY <2>3, <2>4, <2>5
  <1>5. \A p, q \in P : p.at < q.at => q.at - p.at >= Cadence
    BY <1>1, <1>3
  <1> QED
    BY <1>1, <1>3, <1>4, <1>5 DEF PointsKeepUp, K, P

----------------------------------------------------------------------------
(* Replay                                                                  *)

\* The antenna hears one position at a time.
HeardInv ==
    /\ IsFiniteSet(heard)
    /\ \A f, g \in heard : f.at = g.at => f = g
    /\ \A f \in heard : f.at <= now

ReplayInv == ReplayTypeOK /\ PoolInv /\ RouteInv /\ HeardInv

LEMMA ReplayStart == ReplayInit => ReplayInv
  <1> SUFFICES ASSUME ReplayInit PROVE ReplayInv
    OBVIOUS
  <1>1. RiverTypeOK /\ PoolInv /\ RouteInv /\ now = 0
    BY RiverStart, RouteStart DEF ReplayInit, RiverInit
  <1>2. IsFiniteSet({}) /\ Cardinality({}) = 0
    BY FS_EmptySet
  <1> QED
    BY <1>1, <1>2, ReplayNumbers DEF ReplayInit, RiverInit, ReplayInv, ReplayTypeOK, HeardInv

LEMMA ReplayStep ==
  ASSUME ReplayInv, [ReplayNext]_replayVars
  PROVE  ReplayInv'
  <1> USE DEF ReplayInv
  <1>1. now \in Nat /\ rows \subseteq made
    BY Numbers DEF ReplayTypeOK, RiverTypeOK
  <1>2. \A f \in heard : f.at \in Nat
    BY DEF ReplayTypeOK, Fix
  <1>3. ASSUME RiverStep \/ UNCHANGED river
        PROVE  /\ RiverTypeOK' /\ PoolInv' /\ RouteInv' /\ now' \in Nat
               /\ now <= now' /\ rows \subseteq rows'
    <2>1. RouteInv'
      BY <1>3, RouteMoves DEF ReplayTypeOK
    <2>2. CASE RiverStep
      BY <2>1, <2>2, RiverMoves, Numbers DEF ReplayTypeOK, RiverTypeOK
    <2>3. CASE UNCHANGED river
      BY <1>1, <2>1, <2>3 DEF river, ReplayTypeOK, RiverTypeOK, PoolInv
    <2> QED
      BY <1>3, <2>2, <2>3
  <1>4. ASSUME RiverStep \/ UNCHANGED river, UNCHANGED <<heard, replay>> PROVE ReplayInv'
    <2>1. HeardInv'
      BY <1>1, <1>2, <1>3, <1>4 DEF HeardInv
    <2>2. clock' \in 0 .. now'
      BY <1>1, <1>3, <1>4 DEF ReplayTypeOK, replay
    <2> QED
      BY <1>3, <1>4, <2>1, <2>2 DEF ReplayTypeOK, replay
  <1>5. CASE Hear
    <2>1. PICK n \in BOOLEAN, c \in BOOLEAN :
             heard' = heard \cup {[at |-> now, named |-> n, commercial |-> c]}
      BY <1>5 DEF Hear
    <2> DEFINE f == [at |-> now, named |-> n, commercial |-> c]
    <2>2. UNCHANGED <<river, replay>> /\ Cardinality(heard) < MaxFixes /\ \A g \in heard : g.at < now
      BY <1>5 DEF Hear
    <2>3. f \in Fix /\ f.at = now
      BY <1>1 DEF Fix
    <2> HIDE DEF f
    <2>4. heard' = heard \cup {f}
      BY <2>1 DEF f
    <2>5. f \notin heard
      BY <1>1, <1>2, <2>2, <2>3
    <2>6. IsFiniteSet(heard') /\ Cardinality(heard') <= MaxFixes
      <3>1. IsFiniteSet(heard') /\ Cardinality(heard') = Cardinality(heard) + 1
        BY <2>4, <2>5, FS_AddElement DEF HeardInv
      <3>2. Cardinality(heard) \in Nat
        BY FS_CardinalityType DEF HeardInv
      <3> QED
        BY <2>2, <3>1, <3>2, ReplayNumbers
    <2>7. HeardInv'
      BY <1>1, <1>2, <2>2, <2>3, <2>4, <2>6 DEF HeardInv, river
    <2>8. RiverTypeOK' /\ PoolInv' /\ RouteInv' /\ now' = now /\ rows' = rows
      BY <1>3, <2>2 DEF river
    <2> QED
      BY <2>2, <2>3, <2>4, <2>6, <2>7, <2>8 DEF ReplayTypeOK, replay
  <1>6. ASSUME UNCHANGED <<river, heard>>, awaits' \in {"idle", "positions", "lockages", "answer"},
               clock' \in 0 .. now, seen' \subseteq heard, known' \subseteq rows,
               \A x \in seen' : x.at <= clock'
        PROVE  ReplayInv'
    <2>1. RiverTypeOK' /\ PoolInv' /\ RouteInv' /\ now' = now /\ rows' = rows /\ heard' = heard
      BY <1>3, <1>6 DEF river
    <2>2. HeardInv'
      BY <2>1 DEF HeardInv
    <2>3. ReplayTypeOK'
      BY <1>6, <2>1 DEF ReplayTypeOK
    <2> QED
      BY <2>1, <2>2, <2>3
  <1>7. CASE AskReplay
    <2>1. UNCHANGED <<river, heard, seen, known>> /\ clock' = now /\ awaits' = "positions"
      BY <1>7 DEF AskReplay
    <2>2. \A x \in seen : x.at <= now
      BY <1>1 DEF ReplayTypeOK, HeardInv
    <2> QED
      BY <1>1, <1>6, <2>1, <2>2 DEF ReplayTypeOK
  <1>8. CASE ReadPositions
    <2>1. UNCHANGED <<river, heard, clock, known>> /\ awaits' = "lockages"
      BY <1>8 DEF ReadPositions
    <2>2. seen' \subseteq heard /\ \A f \in seen' : f.at <= clock
      BY <1>8 DEF ReadPositions
    <2> QED
      BY <1>6, <2>1, <2>2 DEF ReplayTypeOK
  <1>9. CASE ReadLockages
    <2>1. UNCHANGED <<river, heard, clock, seen>> /\ awaits' = "answer" /\ known' = rows
      BY <1>9 DEF ReadLockages
    <2> QED
      BY <1>6, <2>1 DEF ReplayTypeOK
  <1>10. CASE Finish
    <2>1. UNCHANGED <<river, heard>> /\ awaits' = "idle" /\ clock' = 0 /\ seen' = {} /\ known' = {}
      BY <1>10 DEF Finish
    <2> QED
      BY <1>1, <1>6, <2>1
  <1> QED
    BY <1>4, <1>5, <1>7, <1>8, <1>9, <1>10 DEF ReplayNext, replayVars

LEMMA ReplayInvariant == ReplaySpec => []ReplayInv
  <1>1. ReplayInv /\ [ReplayNext]_replayVars => ReplayInv'
    BY ReplayStep
  <1> QED
    BY ReplayStart, <1>1, PTL DEF ReplaySpec

\* In every reachable state of a request its positions are among those heard up to its clock,
\* and the lockages it knows are stored (build, _load_lock_clearances).
THEOREM ReplayIsTyped == ReplaySpec => []ReplayTypeOK
  <1>1. ReplayInv => ReplayTypeOK
    BY DEF ReplayInv
  <1> QED
    BY ReplayInvariant, <1>1, PTL

\* What holds of the positions and lockages of an answer.
LEMMA AnswerParts ==
  ASSUME ReplayInv
  PROVE  /\ RiverTypeOK /\ RouteInv /\ known \subseteq made /\ clock \in Nat
         /\ IsFiniteSet(seen) /\ \A f \in seen : f.at \in 0 .. MaxTime
         /\ \A f, g \in seen : f.at = g.at => f = g
  <1>1. now \in 0 .. MaxTime /\ seen \subseteq heard /\ known \subseteq made /\ clock \in Nat
    BY Numbers DEF ReplayInv, ReplayTypeOK, RiverTypeOK
  <1>2. \A f \in heard : f.at \in Nat /\ f.at <= now
    BY DEF ReplayInv, ReplayTypeOK, HeardInv, Fix
  <1>3. IsFiniteSet(seen)
    BY <1>1, FS_Subset DEF ReplayInv, HeardInv
  <1> QED
    BY <1>1, <1>2, <1>3, Numbers DEF ReplayInv, ReplayTypeOK, HeardInv

\* However thick her positions come, the loop of the handler and its cap keep enough of them,
\* the first one, none too close, at most MaxPoints (build).
THEOREM PointsAreEnough == ReplaySpec => []PointsKeepUp
  <1>1. ReplayInv => PointsKeepUp
    BY AnswerParts, PointsFollow
  <1> QED
    BY ReplayInvariant, <1>1, PTL

\* No leg is drawn that she did not go, for any chain of locks and any fleet, in one piece or in
\* cuts, with every order and time at which lockages are stored (_build_simulated_segments).
THEOREM DrawnLegsAreReal == ReplaySpec => []LegsAreReal
  <1>1. ReplayInv => LegsAreReal
    BY AnswerParts, LegsFollow DEF LegsAreReal
  <1> QED
    BY ReplayInvariant, <1>1, PTL

\* Every leg that ended in the window and is not too long is drawn, although the lockage it
\* began with may be before the window and most of her positions may be thinned out.
THEOREM RealLegsAreDrawn == ReplaySpec => []LegsAreShown
  <1>1. ReplayInv => LegsAreShown
    BY AnswerParts, LegsAppear
  <1> QED
    BY ReplayInvariant, <1>1, PTL

----------------------------------------------------------------------------
(* The two pointers of a profile                                           *)

LEMMA ProfileNumbers == RoundTrip \in Nat /\ Onward \in Nat /\ Covered \subseteq Locks
  BY ProfileAssumption

LEMMA LeastIsMin ==
  ASSUME NEW S \in SUBSET Int, NEW m \in S, \A y \in S : m <= y
  PROVE  Min(S) = m
  <1>1. \A x \in S : (\A y \in S : x =< y) => x = m
    OBVIOUS
  <1>2. \E x \in S : \A y \in S : x =< y
    OBVIOUS
  <1> QED
    BY <1>1, <1>2 DEF Min

LEMMA MaxOfTwo ==
  ASSUME NEW a \in Int, NEW b \in Int
  PROVE  Max({a, b}) = IF a >= b THEN a ELSE b
  BY DEF Max

\* A set of the numbers to n + 1 that n + 1 is in has a least one.
LEMMA HasLeast ==
  ASSUME NEW n \in Nat, NEW S \in SUBSET (1 .. n + 1), n + 1 \in S
  PROVE  Min(S) \in S /\ \A y \in S : Min(S) <= y
  <1>1. IsFiniteSet(S) /\ S \subseteq Int
    <2>1. IsFiniteSet(1 .. n + 1)
      BY FS_Interval
    <2>2. IsFiniteSet(S)
      BY <2>1, FS_Subset
    <2> QED
      BY <2>2
  <1>2. PICK m \in S : \A y \in S : (-1) * y <= (-1) * m
    BY <1>1, Foremost, -1 \in Ways DEF Ways
  <1>3. \A y \in S : m <= y
    <2>1. \A i, j \in Int : (-1) * i <= (-1) * j => j <= i
      OBVIOUS
    <2> QED
      BY <1>1, <1>2, <2>1
  <1> QED
    BY <1>1, <1>3, LeastIsMin

\* Her stored lockages in the order of their times, each of them once.
LEMMA HerRowsInOrder ==
  ASSUME RiverTypeOK, RouteInv
  PROVE  /\ Cardinality(Stored) \in Nat /\ Len(HerRows) = Cardinality(Stored)
         /\ \A i \in 1 .. Cardinality(Stored) : HerRows[i] \in Stored /\ HerRows[i].at \in Int
         /\ \A i, j \in 1 .. Cardinality(Stored) : i < j => HerRows[i].at < HerRows[j].at
         /\ \A c \in Stored : \E i \in 1 .. Cardinality(Stored) : HerRows[i] = c
  <1> DEFINE n == Cardinality(Stored)
             UpTo(c) == Cardinality({x \in Stored : x.at <= c.at})
  <1>1. /\ IsFiniteSet(Stored) /\ \A x \in Stored : x.at \in Int
        /\ \A x, y \in Stored : x.at = y.at => x = y
    <2>1. Stored \in SUBSET made
      BY DEF Stored, RiverTypeOK
    <2>2. IsFiniteSet(Stored)
      BY <2>1, FS_Subset DEF RouteInv
    <2>3. \A x \in Stored : x.at \in Int /\ NameOf[x.boat] = Vessel
      BY <2>1, LockageParts DEF Stored
    <2> QED
      BY <2>1, <2>2, <2>3 DEF RouteInv
  <1>2. n \in Nat
    BY <1>1, FS_CardinalityType
  <1>3. /\ \A x \in Stored : Rank(Stored, x) \in 0 .. n - 1 /\ UpTo(x) = Rank(Stored, x) + 1
        /\ \A x, y \in Stored : x.at < y.at => Rank(Stored, x) < Rank(Stored, y)
        /\ \A i \in 0 .. n - 1 : \E x \in Stored : Rank(Stored, x) = i
    BY <1>1, Ranks
  <1> HIDE DEF n, UpTo
  <1>4. HerRows = [i \in 1 .. n |-> CHOOSE c \in Stored : UpTo(c) = i]
    BY DEF HerRows, n, UpTo
  <1>5. ASSUME NEW i \in 1 .. n PROVE HerRows[i] \in Stored /\ UpTo(HerRows[i]) = i
    <2>1. \E c \in Stored : UpTo(c) = i
      <3>1. i - 1 \in 0 .. n - 1 /\ i - 1 + 1 = i
        BY <1>2
      <3> QED
        BY <1>3, <3>1
    <2>2. HerRows[i] = CHOOSE c \in Stored : UpTo(c) = i
      BY <1>4
    <2> QED
      BY <2>1, <2>2
  <1>6. ASSUME NEW x \in Stored, NEW y \in Stored, UpTo(x) < UpTo(y) PROVE x.at < y.at
    <2>1. Rank(Stored, x) \in Int /\ Rank(Stored, y) \in Int
      BY <1>2, <1>3
    <2>2. Rank(Stored, x) < Rank(Stored, y)
      BY <1>3, <1>6, <2>1
    <2>3. x # y /\ ~(y.at < x.at)
      BY <1>3, <2>1, <2>2
    <2> QED
      BY <1>1, <2>3
  <1>7. ASSUME NEW x \in Stored, NEW y \in Stored, UpTo(x) = UpTo(y) PROVE x = y
    <2>1. Rank(Stored, x) \in Int /\ Rank(Stored, x) = Rank(Stored, y)
      BY <1>2, <1>3, <1>7
    <2>2. ~(x.at < y.at) /\ ~(y.at < x.at)
      BY <1>3, <2>1
    <2> QED
      BY <1>1, <2>2
  <1>8. \A c \in Stored : \E i \in 1 .. n : HerRows[i] = c
    <2> SUFFICES ASSUME NEW c \in Stored PROVE HerRows[UpTo(c)] = c /\ UpTo(c) \in 1 .. n
      OBVIOUS
    <2>1. UpTo(c) \in 1 .. n
      BY <1>2, <1>3
    <2> QED
      BY <1>5, <1>7, <2>1
  <1>9. Len(HerRows) = n
    <2>1. HerRows \in Seq(Stored)
      BY <1>2, <1>4, <1>5
    <2> QED
      BY <1>2, <1>4, <2>1
  <1>10. \A i, j \in 1 .. n : i < j => HerRows[i].at < HerRows[j].at
    BY <1>5, <1>6
  <1> QED
    BY <1>1, <1>2, <1>5, <1>8, <1>9, <1>10 DEF n

\* n rows in the order of their times, no two at the same time.
InOrder(her, n) ==
    /\ n \in Nat /\ Len(her) = n
    /\ \A i \in 1 .. n : her[i].at \in Int
    /\ \A i, j \in 1 .. n : i < j => her[i].at < her[j].at

\* The left pointer finds the first row within a round trip before each row.
LEMMA LeftFinds ==
  ASSUME NEW n, NEW her, InOrder(her, n)
  PROVE  \A i \in 1 .. n :
           /\ Left(her)[i] \in 1 .. i
           /\ \A x \in 1 .. n : x >= Left(her)[i] <=> her[i].at - her[x].at <= RoundTrip
  <1> USE ProfileNumbers
  <1> DEFINE Within(i) == {x \in 1 .. n + 1 : x = n + 1 \/ her[i].at - her[x].at <= RoundTrip}
             Rule(g) == [i \in 0 .. Len(her) |->
                           IF i = 0 THEN 1
                           ELSE Min({x \in g[i - 1] .. Len(her) + 1 :
                                       x = Len(her) + 1 \/ her[i].at - her[x].at <= RoundTrip})]
             left == CHOOSE g : g = Rule(g)
             first == [i \in 0 .. n |-> IF i = 0 THEN 1 ELSE Min(Within(i))]
  <1>1. n \in Nat /\ Len(her) = n
    BY DEF InOrder
  <1>2. ASSUME NEW i \in 1 .. n
        PROVE  /\ first[i] = Min(Within(i)) /\ first[i] \in Within(i) /\ first[i] \in 1 .. i
               /\ \A x \in Within(i) : first[i] <= x
    <2>1. Within(i) \in SUBSET (1 .. n + 1) /\ n + 1 \in Within(i)
      BY <1>1
    <2>2. i \in Within(i)
      BY <1>1 DEF InOrder
    <2>3. first[i] = Min(Within(i))
      OBVIOUS
    <2> HIDE DEF Within, first
    <2>4. first[i] \in Within(i) /\ \A x \in Within(i) : first[i] <= x
      BY <1>1, <2>1, <2>3, HasLeast
    <2> QED
      BY <2>1, <2>2, <2>3, <2>4
  <1>3. ASSUME NEW i \in 1 .. n
        PROVE  {x \in first[i - 1] .. n + 1 : x = n + 1 \/ her[i].at - her[x].at <= RoundTrip} = Within(i)
    <2>1. \A x \in Within(i) : first[i - 1] <= x
      <3>1. CASE i = 1
        <4>1. first[i - 1] = 1
          BY <1>1, <3>1
        <4> HIDE DEF first
        <4> QED
          BY <1>1, <4>1
      <3>2. CASE i # 1
        <4>1. i - 1 \in 1 .. n /\ i - 1 < i
          BY <1>1, <3>2
        <4>2. her[i - 1].at < her[i].at
          BY <4>1 DEF InOrder
        <4>3. ASSUME NEW x \in Within(i) PROVE x \in Within(i - 1)
          <5>1. CASE x = n + 1
            BY <1>1, <5>1
          <5>2. CASE x # n + 1
            <6>1. x \in 1 .. n /\ her[i].at - her[x].at <= RoundTrip
              BY <1>1, <5>2
            <6>2. her[x].at \in Int /\ her[i].at \in Int /\ her[i - 1].at \in Int
              BY <4>1, <6>1 DEF InOrder
            <6>3. her[i - 1].at - her[x].at <= RoundTrip
              BY <4>2, <6>1, <6>2
            <6> QED
              BY <1>1, <6>1, <6>3
          <5> QED
            BY <5>1, <5>2
        <4> HIDE DEF Within, first
        <4> QED
          BY <1>2, <4>1, <4>3
      <3> QED
        BY <3>1, <3>2
    <2>2. first[i - 1] \in 1 .. n + 1
      <3>1. CASE i = 1
        BY <1>1, <3>1
      <3>2. CASE i # 1
        <4>1. i - 1 \in 1 .. n
          BY <1>1, <3>2
        <4> HIDE DEF first
        <4> QED
          BY <1>1, <1>2, <4>1
      <3> QED
        BY <3>1, <3>2
    <2> HIDE DEF first
    <2> QED
      BY <1>1, <2>1, <2>2
  <1>4. first = Rule(first)
    <2>1. Rule(first) = [i \in 0 .. n |-> IF i = 0 THEN 1
            ELSE Min({x \in first[i - 1] .. n + 1 : x = n + 1 \/ her[i].at - her[x].at <= RoundTrip})]
      BY <1>1
    <2>2. \A i \in 0 .. n : i # 0 => i \in 1 .. n
      OBVIOUS
    <2>3. DOMAIN first = 0 .. n /\ first = [i \in 0 .. n |-> first[i]] /\ first[0] = 1
      BY <1>1
    <2>4. \A i \in 1 .. n : first[i] = Min({x \in first[i - 1] .. n + 1 : x = n + 1 \/ her[i].at - her[x].at <= RoundTrip})
      <3> HIDE DEF Within, first
      <3> QED
        BY <1>2, <1>3
    <2> HIDE DEF first, Rule
    <2> QED
      BY <2>1, <2>2, <2>3, <2>4
  <1>5. left = Rule(left)
    <2> HIDE DEF Rule, first
    <2> QED
      BY <1>4
  <1>6. Left(her) = left
    BY DEF Left
  <1> HIDE DEF left
  <1>7. \A i \in 0 .. n : left[i] = first[i]
    <2> DEFINE G == {i \in 0 .. n : left[i] = first[i]}
    <2>1. left[0] = first[0] /\ 0 \in 0 .. n
      BY <1>1, <1>5
    <2>2. ASSUME NEW i \in 1 .. n, i - 1 \in G PROVE i \in G
      <3>1. i \in 0 .. n /\ i # 0 /\ left[i - 1] = first[i - 1]
        BY <2>2
      <3>2. left[i] = Rule(left)[i] /\ first[i] = Rule(first)[i]
        <4> HIDE DEF Rule, first
        <4> QED
          BY <1>4, <1>5
      <3>3. Rule(left)[i] = Rule(first)[i]
        <4> HIDE DEF first
        <4> QED
          BY <1>1, <3>1
      <3> HIDE DEF first, Rule
      <3> QED
        BY <3>1, <3>2, <3>3
    <2>3. 0 \in G
      BY <2>1
    <2>4. \A i \in 0 .. n : i \in G
      <3> HIDE DEF G
      <3> QED
        BY <1>1, <2>2, <2>3, BoundedInduction
    <2> HIDE DEF first
    <2> QED
      BY <2>4
  <1> SUFFICES ASSUME NEW i \in 1 .. n
               PROVE  /\ left[i] \in 1 .. i
                      /\ \A x \in 1 .. n : x >= left[i] <=> her[i].at - her[x].at <= RoundTrip
    BY <1>6
  <1>8. left[i] \in Within(i) /\ left[i] \in 1 .. i /\ \A x \in Within(i) : left[i] <= x
    <2>1. i \in 0 .. n
      OBVIOUS
    <2> HIDE DEF Within, first
    <2> QED
      BY <1>2, <1>7, <2>1
  <1>9. ASSUME NEW x \in 1 .. n, her[i].at - her[x].at <= RoundTrip PROVE x >= left[i]
    <2>1. x \in Within(i)
      BY <1>9, <1>1
    <2> HIDE DEF Within
    <2> QED
      BY <1>8, <2>1
  <1>10. ASSUME NEW x \in 1 .. n, x >= left[i] PROVE her[i].at - her[x].at <= RoundTrip
    <2>1. left[i] \in 1 .. n /\ left[i] # n + 1
      BY <1>1, <1>8
    <2>2. her[i].at - her[left[i]].at <= RoundTrip
      BY <1>8, <2>1
    <2>3. her[left[i]].at <= her[x].at
      BY <1>10, <2>1 DEF InOrder
    <2> QED
      BY <2>1, <2>2, <2>3 DEF InOrder
  <1> QED
    BY <1>8, <1>9, <1>10

\* The right one finds the first row beyond a round trip after each row.
LEMMA RightFinds ==
  ASSUME NEW n, NEW her, InOrder(her, n), NEW start, \A i \in 1 .. n : start[i] \in 1 .. i
  PROVE  \A i \in 1 .. n :
           /\ Right(her, start)[i] \in 1 .. n + 1
           /\ \A x \in 1 .. n : x < Right(her, start)[i] <=> her[x].at - her[i].at <= RoundTrip
  <1> USE ProfileNumbers
  <1> DEFINE Beyond(i) == {x \in 1 .. n + 1 : x = n + 1 \/ her[x].at - her[i].at > RoundTrip}
             Rule(g) == [i \in 0 .. Len(her) |->
                           IF i = 0 THEN 1
                           ELSE Min({x \in Max({g[i - 1], start[i]}) .. Len(her) + 1 :
                                       x = Len(her) + 1 \/ her[x].at - her[i].at > RoundTrip})]
             right == CHOOSE g : g = Rule(g)
             first == [i \in 0 .. n |-> IF i = 0 THEN 1 ELSE Min(Beyond(i))]
  <1>1. n \in Nat /\ Len(her) = n
    BY DEF InOrder
  <1>2. ASSUME NEW i \in 1 .. n
        PROVE  /\ first[i] = Min(Beyond(i)) /\ first[i] \in Beyond(i) /\ first[i] \in 1 .. n + 1
               /\ \A x \in Beyond(i) : first[i] <= x
    <2>1. Beyond(i) \in SUBSET (1 .. n + 1) /\ n + 1 \in Beyond(i)
      BY <1>1
    <2>2. first[i] = Min(Beyond(i))
      OBVIOUS
    <2> HIDE DEF Beyond, first
    <2> QED
      BY <1>1, <2>1, <2>2, HasLeast
  <1>3. ASSUME NEW i \in 1 .. n
        PROVE  {x \in Max({first[i - 1], start[i]}) .. n + 1 :
                  x = n + 1 \/ her[x].at - her[i].at > RoundTrip} = Beyond(i)
    <2>1. first[i - 1] \in 1 .. n + 1 /\ \A x \in Beyond(i) : first[i - 1] <= x
      <3>1. CASE i = 1
        <4>1. first[i - 1] = 1
          BY <1>1, <3>1
        <4> HIDE DEF first
        <4> QED
          BY <1>1, <4>1
      <3>2. CASE i # 1
        <4>1. i - 1 \in 1 .. n /\ i - 1 < i
          BY <1>1, <3>2
        <4>2. her[i - 1].at < her[i].at
          BY <4>1 DEF InOrder
        <4>3. ASSUME NEW x \in Beyond(i) PROVE x \in Beyond(i - 1)
          <5>1. CASE x = n + 1
            BY <1>1, <5>1
          <5>2. CASE x # n + 1
            <6>1. x \in 1 .. n /\ her[x].at - her[i].at > RoundTrip
              BY <1>1, <5>2
            <6>2. her[x].at \in Int /\ her[i].at \in Int /\ her[i - 1].at \in Int
              BY <4>1, <6>1 DEF InOrder
            <6>3. her[x].at - her[i - 1].at > RoundTrip
              BY <4>2, <6>1, <6>2
            <6> QED
              BY <1>1, <6>1, <6>3
          <5> QED
            BY <5>1, <5>2
        <4> HIDE DEF Beyond, first
        <4> QED
          BY <1>2, <4>1, <4>3
      <3> QED
        BY <3>1, <3>2
    <2>2. ASSUME NEW x \in Beyond(i) PROVE start[i] <= x
      <3>1. start[i] \in 1 .. i /\ x \in 1 .. n + 1
        OBVIOUS
      <3>2. CASE x = n + 1
        BY <1>1, <3>1, <3>2
      <3>3. CASE x # n + 1
        <4>1. x \in 1 .. n /\ her[x].at - her[i].at > RoundTrip
          BY <1>1, <3>3
        <4>2. her[x].at \in Int /\ her[i].at \in Int
          BY <4>1 DEF InOrder
        <4>3. ~(x < i)
          BY <4>1, <4>2 DEF InOrder
        <4> QED
          BY <1>1, <3>1, <4>3
      <3> QED
        BY <3>2, <3>3
    <2> DEFINE m == Max({first[i - 1], start[i]})
    <2>3. m \in 1 .. n + 1 /\ (m = first[i - 1] \/ m = start[i])
      <3>1. start[i] \in 1 .. n + 1
        BY <1>1
      <3> HIDE DEF first
      <3> QED
        BY <1>1, <2>1, <3>1, MaxOfTwo
    <2>4. \A x \in Beyond(i) : m <= x
      <3> HIDE DEF Beyond, first, m
      <3> QED
        BY <2>1, <2>2, <2>3
    <2> HIDE DEF first, m
    <2>5. {x \in m .. n + 1 : x = n + 1 \/ her[x].at - her[i].at > RoundTrip} = Beyond(i)
      BY <1>1, <2>3, <2>4
    <2> QED
      BY <2>5 DEF m
  <1>4. first = Rule(first)
    <2>1. Rule(first) = [i \in 0 .. n |-> IF i = 0 THEN 1
            ELSE Min({x \in Max({first[i - 1], start[i]}) .. n + 1 :
                        x = n + 1 \/ her[x].at - her[i].at > RoundTrip})]
      BY <1>1
    <2>2. \A i \in 0 .. n : i # 0 => i \in 1 .. n
      OBVIOUS
    <2>3. DOMAIN first = 0 .. n /\ first = [i \in 0 .. n |-> first[i]] /\ first[0] = 1
      BY <1>1
    <2>4. \A i \in 1 .. n : first[i] = Min({x \in Max({first[i - 1], start[i]}) .. n + 1 :
                                x = n + 1 \/ her[x].at - her[i].at > RoundTrip})
      <3> HIDE DEF Beyond, first
      <3> QED
        BY <1>2, <1>3
    <2> HIDE DEF first, Rule
    <2> QED
      BY <2>1, <2>2, <2>3, <2>4
  <1>5. right = Rule(right)
    <2> HIDE DEF Rule, first
    <2> QED
      BY <1>4
  <1>6. Right(her, start) = right
    BY DEF Right
  <1> HIDE DEF right
  <1>7. \A i \in 0 .. n : right[i] = first[i]
    <2> DEFINE G == {i \in 0 .. n : right[i] = first[i]}
    <2>1. right[0] = first[0] /\ 0 \in 0 .. n
      BY <1>1, <1>5
    <2>2. ASSUME NEW i \in 1 .. n, i - 1 \in G PROVE i \in G
      <3>1. i \in 0 .. n /\ i # 0 /\ right[i - 1] = first[i - 1]
        BY <2>2
      <3>2. right[i] = Rule(right)[i] /\ first[i] = Rule(first)[i]
        <4> HIDE DEF Rule, first
        <4> QED
          BY <1>4, <1>5
      <3>3. Rule(right)[i] = Rule(first)[i]
        <4> HIDE DEF first
        <4> QED
          BY <1>1, <3>1
      <3> HIDE DEF first, Rule
      <3> QED
        BY <3>1, <3>2, <3>3
    <2>3. 0 \in G
      BY <2>1
    <2>4. \A i \in 0 .. n : i \in G
      <3> HIDE DEF G
      <3> QED
        BY <1>1, <2>2, <2>3, BoundedInduction
    <2> HIDE DEF first
    <2> QED
      BY <2>4
  <1> SUFFICES ASSUME NEW i \in 1 .. n
               PROVE  /\ right[i] \in 1 .. n + 1
                      /\ \A x \in 1 .. n : x < right[i] <=> her[x].at - her[i].at <= RoundTrip
    BY <1>6
  <1>8. right[i] \in Beyond(i) /\ right[i] \in 1 .. n + 1 /\ \A x \in Beyond(i) : right[i] <= x
    <2>1. i \in 0 .. n
      OBVIOUS
    <2> HIDE DEF Beyond, first
    <2> QED
      BY <1>2, <1>7, <2>1
  <1>9. ASSUME NEW x \in 1 .. n, x < right[i] PROVE her[x].at - her[i].at <= RoundTrip
    <2>1. x \notin Beyond(i)
      <3> HIDE DEF Beyond
      <3> QED
        BY <1>1, <1>8, <1>9
    <2>2. ~(her[x].at - her[i].at > RoundTrip)
      BY <1>1, <2>1
    <2> QED
      BY <2>2 DEF InOrder
  <1>10. ASSUME NEW x \in 1 .. n, her[x].at - her[i].at <= RoundTrip PROVE x < right[i]
    <2>1. CASE right[i] = n + 1
      BY <1>1, <2>1
    <2>2. CASE right[i] # n + 1
      <3>1. right[i] \in 1 .. n /\ her[right[i]].at - her[i].at > RoundTrip
        BY <1>1, <1>8, <2>2
      <3>2. her[x].at < her[right[i]].at
        BY <1>10, <3>1 DEF InOrder
      <3>3. x # right[i] /\ ~(right[i] < x)
        BY <3>1, <3>2 DEF InOrder
      <3> QED
        BY <1>1, <3>1, <3>3
    <2> QED
      BY <2>1, <2>2
  <1> QED
    BY <1>8, <1>9, <1>10

LEMMA MarkedRows ==
  ASSUME NEW n, NEW her, InOrder(her, n)
  PROVE  Shuttles(her) = {i \in 1 .. n : \E j \in 1 .. n :
                            /\ her[j].lock = her[i].lock /\ her[j].way # her[i].way
                            /\ her[j].at - her[i].at \in -RoundTrip .. RoundTrip}
  <1> DEFINE left == Left(her)
             right == Right(her, left)
             Mark(i, j) == j # i /\ her[j].lock = her[i].lock /\ her[j].way # her[i].way
  <1>1. n \in Nat /\ Len(her) = n
    BY DEF InOrder
  <1>2. \A i \in 1 .. n : /\ left[i] \in 1 .. i
                          /\ \A x \in 1 .. n : x >= left[i] <=> her[i].at - her[x].at <= RoundTrip
    BY LeftFinds
  <1>3. \A i \in 1 .. n : /\ right[i] \in 1 .. n + 1
                          /\ \A x \in 1 .. n : x < right[i] <=> her[x].at - her[i].at <= RoundTrip
    <2> HIDE DEF left
    <2> QED
      BY <1>2, RightFinds
  <1>4. Shuttles(her) = {i \in 1 .. Len(her) : \E j \in left[i] .. right[i] - 1 : Mark(i, j)}
    BY DEF Shuttles
  <1> HIDE DEF left, right
  <1>5. ASSUME NEW i \in 1 .. n, NEW j
        PROVE  j \in left[i] .. right[i] - 1
                 <=> j \in 1 .. n /\ her[j].at - her[i].at \in -RoundTrip .. RoundTrip
    <2>1. left[i] \in 1 .. i /\ right[i] \in 1 .. n + 1
      BY <1>2, <1>3
    <2>2. j \in left[i] .. right[i] - 1 <=> j \in 1 .. n /\ j >= left[i] /\ j < right[i]
      BY <1>1, <2>1
    <2>3. ASSUME j \in 1 .. n
          PROVE  j >= left[i] /\ j < right[i] <=> her[j].at - her[i].at \in -RoundTrip .. RoundTrip
      <3>1. /\ j >= left[i] <=> her[i].at - her[j].at <= RoundTrip
            /\ j < right[i] <=> her[j].at - her[i].at <= RoundTrip
        BY <1>2, <1>3, <2>3
      <3>2. her[i].at \in Int /\ her[j].at \in Int
        BY <2>3 DEF InOrder
      <3> QED
        BY <3>1, <3>2, ProfileNumbers
    <2> QED
      BY <2>2, <2>3
  <1> QED
    BY <1>1, <1>4, <1>5

\* Her lockages but those with one at the same lock the other way within a round trip.
LEMMA TransitsStay ==
  ASSUME RiverTypeOK, RouteInv
  PROVE  Transits(HerRows) =
           {a \in Stored : ~\E b \in Stored : /\ b.lock = a.lock /\ b.way # a.way
                                              /\ b.at - a.at \in -RoundTrip .. RoundTrip}
  <1> DEFINE n == Cardinality(Stored)
             her == HerRows
             Trip(a, b) == /\ b.lock = a.lock /\ b.way # a.way
                           /\ b.at - a.at \in -RoundTrip .. RoundTrip
             marked == {i \in 1 .. n : \E j \in 1 .. n : Trip(her[i], her[j])}
  <1>1. InOrder(her, n) /\ Len(her) = n
    BY HerRowsInOrder DEF InOrder
  <1>2. Transits(her) = {her[i] : i \in 1 .. n \ marked}
    <2>1. Shuttles(her) = marked
      <3> HIDE DEF her, n
      <3> QED
        BY <1>1, MarkedRows
    <2>2. Transits(her) = {her[i] : i \in 1 .. Len(her) \ Shuttles(her)}
      BY DEF Transits
    <2> HIDE DEF her, n, marked
    <2> QED
      BY <1>1, <2>1, <2>2
  <1>3. /\ \A i \in 1 .. n : her[i] \in Stored
        /\ \A c \in Stored : \E i \in 1 .. n : her[i] = c
    BY HerRowsInOrder
  <1> HIDE DEF n, her, Trip
  <1>4. Transits(her) = {a \in Stored : ~\E b \in Stored : Trip(a, b)}
    <2>1. ASSUME NEW a \in Transits(her) PROVE a \in Stored /\ ~\E b \in Stored : Trip(a, b)
      BY <1>2, <1>3
    <2>2. ASSUME NEW a \in Stored, ~\E b \in Stored : Trip(a, b) PROVE a \in Transits(her)
      BY <1>2, <1>3, <2>2
    <2> QED
      BY <2>1, <2>2
  <1> QED
    BY <1>4 DEF Trip, her

\* The first that is not before e is within Onward of it just when one is.
LEMMA HitsGoOn ==
  ASSUME NEW T, IsFiniteSet(T), \A c \in T : c.at \in Int, NEW k, NEW w
  PROVE  Hits(T, k, w) =
           {a \in T : a.lock = k /\ a.way = w
                      /\ \E b \in T : /\ b.lock = k + w /\ b.way = w
                                      /\ b.at - a.at \in 0 .. Onward}
  <1> DEFINE next == {c \in T : c.lock = k + w /\ c.way = w}
             Later(e) == {x \in next : x.at >= e.at}
             first(e) == {x \in next : x.at >= e.at /\ \A y \in next : y.at >= e.at => x.at <= y.at}
  <1>1. Hits(T, k, w) = {e \in T : e.lock = k /\ e.way = w /\ \E x \in first(e) : x.at - e.at <= Onward}
    BY DEF Hits
  <1>2. ASSUME NEW e \in T
        PROVE  (\E x \in first(e) : x.at - e.at <= Onward)
                 <=> \E b \in next : b.at - e.at \in 0 .. Onward
    <2>1. ASSUME NEW x \in first(e), x.at - e.at <= Onward
          PROVE  x \in next /\ x.at - e.at \in 0 .. Onward
      <3>1. x \in next /\ x.at >= e.at
        OBVIOUS
      <3>2. x.at \in Int /\ e.at \in Int
        BY <3>1
      <3> QED
        BY <2>1, <3>1, <3>2, ProfileNumbers
    <2>2. ASSUME NEW b \in next, b.at - e.at \in 0 .. Onward
          PROVE  \E x \in first(e) : x.at - e.at <= Onward
      <3>1. b.at \in Int /\ e.at \in Int /\ b.at - e.at <= Onward /\ b.at >= e.at
        <4>1. b \in T
          OBVIOUS
        <4> QED
          BY <2>2, <4>1, ProfileNumbers
      <3>2. Later(e) \in SUBSET T /\ b \in Later(e)
        BY <3>1
      <3>3. IsFiniteSet(Later(e)) /\ \A x \in Later(e) : x.at \in Int
        <4> HIDE DEF Later
        <4> QED
          BY <3>2, FS_Subset
      <3>4. PICK x \in Later(e) : \A y \in Later(e) : x.at <= y.at
        <4> HIDE DEF Later
        <4> QED
          BY <3>2, <3>3, LatestAndEarliest
      <3>5. x \in first(e)
        BY <3>4
      <3>6. x.at <= b.at /\ x.at \in Int
        <4> HIDE DEF Later
        <4> QED
          BY <3>2, <3>3, <3>4
      <3> HIDE DEF first
      <3> QED
        BY <3>1, <3>5, <3>6, ProfileNumbers
    <2> HIDE DEF first, next
    <2> QED
      BY <2>1, <2>2
  <1> HIDE DEF first
  <1> QED
    BY <1>1, <1>2

LEMMA ProfileFollows == RiverTypeOK /\ RouteInv => ProfileIsRight
  <1> SUFFICES ASSUME RiverTypeOK, RouteInv PROVE ProfileIsRight
    OBVIOUS
  <1> DEFINE T == Transits(HerRows)
             Local(a) == \E b \in Stored : /\ b.lock = a.lock /\ b.way # a.way
                                           /\ b.at - a.at \in -RoundTrip .. RoundTrip
  <1>1. T = {a \in Stored : ~Local(a)}
    BY TransitsStay
  <1>2. T \in SUBSET made
    BY <1>1 DEF Stored, RiverTypeOK
  <1>3. IsFiniteSet(T) /\ \A c \in T : c.at \in Int
    <2> HIDE DEF T
    <2>1. IsFiniteSet(T)
      BY <1>2, FS_Subset DEF RouteInv
    <2> QED
      BY <1>2, <2>1, LockageParts
  <1> HIDE DEF T
  <1>4. ASSUME NEW k \in Covered, NEW w \in Ways
        PROVE  Hits(T, k, w) = {a \in T : a.lock = k /\ a.way = w
                                   /\ \E b \in T : /\ b.lock = k + w /\ b.way = w
                                                   /\ b.at - a.at \in 0 .. Onward}
    BY <1>3, HitsGoOn
  <1> QED
    BY <1>1, <1>4 DEF ProfileIsRight, T

\* In whatever order her lockages were stored, and whichever of them never were: the two
\* pointers of a profile mark just the round trips among those that are, and the bisection
\* counts just the lockages after which she went on; in every state, not only in those that
\* EveryProfileIsRight looks at (_mark_shuttles, build of vessel_profile).
THEOREM ProfilesAreRight == ReplaySpec => [](ProfileIsRight /\ EveryProfileIsRight)
  <1>1. ReplayInv => ProfileIsRight
    BY ProfileFollows DEF ReplayInv, ReplayTypeOK
  <1>2. ProfileIsRight => EveryProfileIsRight
    BY DEF EveryProfileIsRight
  <1> QED
    BY ReplayInvariant, <1>1, <1>2, PTL

=============================================================================
