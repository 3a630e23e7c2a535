---------------------------- MODULE BucketProofs -----------------------------
(***************************************************************************)
(* Proofs about the indexes that search buckets, for every data set, query *)
(* and number of results: LshIndex, for every hash function and any number *)
(* of threads that search at once, and IvfIndex with the training of its   *)
(* centers, for every slice, order of the threads and number of builds.    *)
(***************************************************************************)
EXTENDS LshIndex, IvfIndex, PoolProofs, Induction, TLAPS, FiniteSetTheorems, SequenceTheorems

----------------------------------------------------------------------------
(* The results made of a list of candidates.                               *)

Distances == [Points -> 0..(Far - 1)]

PoolState(size) ==
    [addr : [0..size -> Slot(Points)], size : 0..size, best : Nat, inserted : SUBSET Points]

Filling(size, dist) ==
    {st \in PoolState(size) : Keeps(Points, size, dist, st.inserted, st.addr, st.size)}

LEMMA ConsiderFacts ==
    ASSUME NEW size \in Nat \ {0}, NEW dist \in Distances,
           NEW accepts \in SUBSET Points, NEW st \in Filling(size, dist), NEW id \in Points
    PROVE  /\ Consider(st, id, size, dist, accepts) \in Filling(size, dist)
           /\ Consider(st, id, size, dist, accepts).inserted
                  = st.inserted \cup ({id} \cap accepts)
<1> DEFINE con == Consider(st, id, size, dist, accepts)
           new == Offer(st, size, id, dist[id])
<1>1. /\ st.addr \in [0..size -> Slot(Points)] /\ st.size \in 0..size /\ st.best \in Nat
      /\ st.inserted \in SUBSET Points
      /\ Keeps(Points, size, dist, st.inserted, st.addr, st.size)
  BY DEF Filling, PoolState
<1>2. CASE id \notin accepts \/ id \in st.inserted
  BY <1>2 DEF Consider
<1>3. CASE id \in accepts /\ id \notin st.inserted
  <2> DEFINE s == [addr |-> st.addr, size |-> st.size, best |-> st.best]
           old == Offer(s, size, id, dist[id])
  <2>1. new.addr = old.addr /\ new.size = old.size /\ new.best = old.best
    <3>1. s.addr = st.addr /\ s.size = st.size /\ s.best = st.best
      OBVIOUS
    <3> HIDE DEF s
    <3>2. CASE TooFar(st.addr, st.size, size, dist[id])
      BY <3>1, <3>2 DEF Offer
    <3>3. CASE ~ TooFar(st.addr, st.size, size, dist[id])
      BY <3>1, <3>3 DEF Offer
    <3> QED
      BY <3>2, <3>3
  <2>2. Offered(Points, size, dist, st.inserted, st.addr, st.size, st.best, id,
                old)
    BY <1>1, <1>3, OfferFacts DEF Distances
  <2>3. con = [addr |-> new.addr, size |-> new.size, best |-> new.best,
               inserted |-> st.inserted \cup {id}]
    BY <1>3 DEF Consider
  <2> HIDE DEF con, new, s, old
  <2>4. /\ Keeps(Points, size, dist, st.inserted \cup {id}, new.addr, new.size)
        /\ new.best \in Nat
    BY <2>1, <2>2 DEF Offered
  <2>5. new.addr \in [0..size -> Slot(Points)] /\ new.size \in 0..size
    BY <2>4 DEF Keeps
  <2>6. con \in PoolState(size)
    BY <1>1, <2>3, <2>4, <2>5 DEF PoolState
  <2>7. con.addr = new.addr /\ con.size = new.size /\ con.inserted = st.inserted \cup {id}
    BY <2>3
  <2>8. con \in Filling(size, dist) /\ con.inserted = st.inserted \cup ({id} \cap accepts)
    BY <1>3, <2>4, <2>6, <2>7 DEF Filling
  <2> QED
    BY <2>8 DEF con
<1> QED
  BY <1>2, <1>3

\* The array before the first candidate.
LEMMA EmptyPool ==
    ASSUME NEW size \in Nat \ {0}, NEW dist \in Distances
    PROVE  [addr |-> Slots(size), size |-> 0, best |-> size, inserted |-> {}]
               \in Filling(size, dist)
<1> DEFINE x == [addr |-> Slots(size), size |-> 0, best |-> size, inserted |-> {}]
<1>1. Default \in Slot(Points) /\ Default.distance = Far
  BY FarAssumption, DataAssumption DEF Default, Slot, Points
<1>2. Slots(size) \in [0..size -> Slot(Points)] /\ Slots(size)[0].distance = Far
  BY <1>1 DEF Slots
<1>3. x \in PoolState(size)
  <2>1. 0 \in 0..size /\ size \in Nat /\ {} \in SUBSET Points
    OBVIOUS
  <2> QED
    BY <1>2, <2>1 DEF PoolState
<1>4. \A i \in 0..(0 - 1) : FALSE
  OBVIOUS
<1>5. Keeps(Points, size, dist, {}, Slots(size), 0)
  <2>1. InOrder(Slots(size), 0)
    BY <1>4 DEF InOrder
  <2>2. 0 \in 0..size
    OBVIOUS
  <2> QED
    BY <1>2, <1>4, <2>1, <2>2 DEF Keeps
<1>6. x.addr = Slots(size) /\ x.size = 0 /\ x.inserted = {}
  OBVIOUS
<1> HIDE DEF x
<1> QED
  BY <1>3, <1>5, <1>6 DEF Filling, x

\* The array keeps the closest of the accepted candidates.
LEMMA PoolFacts ==
    ASSUME NEW size \in Nat \ {0}, NEW dist \in Distances,
           NEW accepts \in SUBSET Points, NEW cands \in Seq(Points)
    PROVE  LET pool == PoolOf(cands, size, dist, accepts)
           IN  Keeps(Points, size, dist, Range(cands) \cap accepts, pool.addr, pool.size)
<1> DEFINE K == Len(cands)
           x == [addr |-> Slots(size), size |-> 0, best |-> size, inserted |-> {}]
           Turn(n, st) == Consider(st, cands[n], size, dist, accepts)
           B(g) == [n \in 0..K |-> IF n = 0 THEN x ELSE Turn(n, g[n - 1])]
           V == Filling(size, dist)
           step == [n \in 1..K |-> [st \in V |-> Turn(n, st)]]
           c == CHOOSE g : g = B(g)
<1>1. PoolOf(cands, size, dist, accepts) = c[K]
  BY DEF PoolOf
<1>2. K \in Nat /\ DOMAIN cands = 1..K /\ \A n \in 1..K : cands[n] \in Points
  OBVIOUS
<1>3. x \in V /\ x.inserted = {}
  BY EmptyPool
<1>4. \A n \in 1..K : \A st \in V : /\ Turn(n, st) \in V
                                    /\ Turn(n, st).inserted = st.inserted \cup ({cands[n]} \cap accepts)
  <2> TAKE n \in 1..K
  <2> DEFINE id == cands[n]
  <2>1. id \in Points
    BY <1>2
  <2> HIDE DEF id
  <2>2. \A st \in V : /\ Consider(st, id, size, dist, accepts) \in V
                      /\ Consider(st, id, size, dist, accepts).inserted
                             = st.inserted \cup ({id} \cap accepts)
    <3> TAKE st \in V
    <3>1. Consider(st, id, size, dist, accepts) \in V
      BY <2>1, ConsiderFacts
    <3>2. Consider(st, id, size, dist, accepts).inserted = st.inserted \cup ({id} \cap accepts)
      BY <2>1, ConsiderFacts
    <3> QED
      BY <3>1, <3>2
  <2> QED
    BY <2>2 DEF id
<1> HIDE DEF x, V, K, Turn
<1>5. \E g : g = B(g)
  <2>1. step \in [1..K -> [V -> V]]
    BY <1>4
  <2>2. \A n \in 1..K : \A st \in V : step[n][st] = Turn(n, st)
    OBVIOUS
  <2> HIDE DEF step
  <2>3. HasValue(K, V, x, step)
    BY <1>2, <1>3, <2>1, Recursion
  <2>4. PICK f : f \in [0..K -> V] /\ f[0] = x /\ \A n \in 1..K : f[n] = step[n][f[n - 1]]
    BY <2>3 DEF HasValue
  <2>5. \A n \in 0..K : n # 0 => n \in 1..K /\ n - 1 \in 0..K
    BY <1>2
  <2>6. \A n \in 0..K : f[n] = IF n = 0 THEN x ELSE Turn(n, f[n - 1])
    BY <2>2, <2>4, <2>5
  <2>7. f = B(f)
    BY <2>4, <2>6
  <2> QED
    BY <2>7
<1> HIDE DEF B
<1>6. c = B(c)
  BY <1>5
<1> HIDE DEF c
<1>7. c[0] = x /\ \A n \in 1..K : c[n] = Turn(n, c[n - 1])
  <2>1. B(c)[0] = x /\ \A n \in 1..K : B(c)[n] = Turn(n, c[n - 1])
    BY <1>2 DEF B
  <2> QED
    BY <1>6, <2>1
<1> DEFINE S == {n \in 0..K : c[n] \in V /\ c[n].inserted = {cands[m] : m \in 1..n} \cap accepts}
<1>8. 0 \in S
  <2>1. {cands[m] : m \in 1..0} = {}
    OBVIOUS
  <2> QED
    BY <1>2, <1>3, <1>7, <2>1
<1>9. ASSUME NEW n \in 0..(K - 1), n \in S
      PROVE  n + 1 \in S
  <2>1. n + 1 \in 1..K /\ n + 1 \in 0..K /\ (n + 1) - 1 = n
    BY <1>2
  <2>2. c[n] \in V /\ c[n].inserted = {cands[m] : m \in 1..n} \cap accepts
    BY <1>9
  <2>3. c[n + 1] = Turn(n + 1, c[n])
    BY <1>7, <2>1
  <2>4. c[n + 1] \in V /\ c[n + 1].inserted = c[n].inserted \cup ({cands[n + 1]} \cap accepts)
    BY <1>4, <2>1, <2>2, <2>3
  <2>5. {cands[m] : m \in 1..(n + 1)} = {cands[m] : m \in 1..n} \cup {cands[n + 1]}
    <3>1. \A m : m \in 1..(n + 1) <=> m \in 1..n \/ m = n + 1
      BY <1>2
    <3> QED
      BY <3>1
  <2> QED
    BY <2>1, <2>2, <2>4, <2>5
<1> HIDE DEF S
<1>10. \A n \in 0..K : n \in S
  BY <1>2, <1>8, <1>9, InductionTo
<1>11. c[K] \in V /\ c[K].inserted = {cands[m] : m \in 1..K} \cap accepts
  <2>1. K \in 0..K
    BY <1>2
  <2> QED
    BY <1>10, <2>1 DEF S
<1>12. Range(cands) = {cands[m] : m \in 1..K}
  BY <1>2 DEF Range
<1> QED
  BY <1>1, <1>11, <1>12 DEF V, Filling

\* What is copied of an array that keeps the closest of S is the closest of S.
LEMMA ResultsFacts ==
    ASSUME NEW size \in Nat \ {0}, NEW dist \in Distances,
           NEW S \in SUBSET Points, NEW pool,
           Keeps(Points, size, dist, S, pool.addr, pool.size)
    PROVE  AreClosest(ResultsOf(pool), S, size, dist)
<1> DEFINE a == pool.addr
           K == pool.size
           r == ResultsOf(pool)
           got == {r[i].index : i \in DOMAIN r}
<1>1. /\ a \in [0..size -> Slot(Points)] /\ K \in 0..size /\ InOrder(a, K)
      /\ \A i \in 0..(K - 1) : a[i].id \in S /\ a[i].distance = dist[a[i].id]
      /\ \A x \in S : \/ \E i \in 0..(K - 1) : a[i].id = x
                      \/ K = size /\ \A i \in 0..(K - 1) : a[i].distance <= dist[x]
  BY DEF Keeps
<1>2. r = [i \in 1..K |-> [index |-> a[i - 1].id, distance |-> a[i - 1].distance]]
  BY DEF ResultsOf
<1> HIDE DEF a, K, r
<1>3. K \in Nat /\ DOMAIN r = 1..K /\ Len(r) = K
  BY <1>1, <1>2
<1>4. \A i \in 1..K : /\ r[i].index = a[i - 1].id /\ r[i].distance = a[i - 1].distance
                      /\ i - 1 \in 0..(K - 1)
  BY <1>2, <1>3
<1>5. \A i \in 0..(K - 1) : i + 1 \in 1..K /\ (i + 1) - 1 = i
  BY <1>3
<1>6. got = IdsOf(a, K)
  <2>1. got = {a[i - 1].id : i \in 1..K}
    BY <1>3, <1>4
  <2>2. \A i \in 1..K : a[i - 1].id \in IdsOf(a, K)
    BY <1>4 DEF IdsOf
  <2>3. \A i \in 0..(K - 1) : a[i].id \in {a[j - 1].id : j \in 1..K}
    BY <1>5
  <2> QED
    BY <2>1, <2>2, <2>3 DEF IdsOf
<1>7. IsFiniteSet(IdsOf(a, K)) /\ Cardinality(IdsOf(a, K)) = K
  BY <1>1, IdsCount
<1> HIDE DEF got
<1>8. got \subseteq S /\ Cardinality(got) = K
  BY <1>1, <1>6, <1>7 DEF IdsOf
<1>9. IsFiniteSet(S) /\ Cardinality(S) \in Nat /\ K <= Cardinality(S)
  <2>1. 0 \in Int /\ NumPoints - 1 \in Int
    BY DataAssumption
  <2>2. IsFiniteSet(Points)
    BY <2>1, FS_Interval DEF Points
  <2>3. IsFiniteSet(S)
    BY <2>2, FS_Subset
  <2> QED
    BY <1>8, <2>3, FS_Subset, FS_CardinalityType
<1>10. Len(r) = IF Cardinality(S) < size THEN Cardinality(S) ELSE size
  <2>1. CASE K = size
    BY <1>3, <1>9, <2>1
  <2>2. CASE K # size
    <3>1. S = got
      BY <1>1, <1>6, <1>8, <2>2 DEF IdsOf
    <3> QED
      BY <1>1, <1>3, <1>8, <2>2, <3>1
  <2> QED
    BY <2>1, <2>2
<1>11. \A i \in DOMAIN r : r[i].distance = dist[r[i].index]
  BY <1>1, <1>3, <1>4
<1>12. \A i, j \in DOMAIN r : i < j => r[i].distance <= r[j].distance
  <2> SUFFICES ASSUME NEW i \in 1..K, NEW j \in 1..K, i < j
               PROVE  r[i].distance <= r[j].distance
    BY <1>3
  <2>1. i - 1 \in 0..(K - 1) /\ j - 1 \in 0..(K - 1) /\ i - 1 < j - 1
    BY <1>4
  <2> QED
    BY <1>1, <1>4, <2>1 DEF InOrder
<1>13. ASSUME NEW x \in S \ got, NEW y \in got
       PROVE  dist[x] >= dist[y]
  <2>1. PICK i \in 0..(K - 1) : y = a[i].id
    BY <1>6 DEF IdsOf
  <2>2. ~ \E j \in 0..(K - 1) : a[j].id = x
    BY <1>6 DEF IdsOf
  <2>3. a[i].distance <= dist[x] /\ a[i].distance = dist[y]
    BY <1>1, <2>1, <2>2
  <2> QED
    BY <2>3
<1> QED
  BY <1>3, <1>8, <1>10, <1>11, <1>12, <1>13 DEF AreClosest, got, r

----------------------------------------------------------------------------
(* The invariant of the LSH index.                                         *)

HashFunctions == UNION {Hashes(p[2]) : p \in Params}
BucketMaps(h) == UNION {[D -> Seq(Points)] : D \in SUBSET Range(h)}
AnyTable == [size : Nat, hash : HashFunctions,
             hashed_vectors : UNION {BucketMaps(h) : h \in HashFunctions}]

\* The ids of the points that a hash function sends to a bucket.
Hit(h, b) == {Tag(i) : i \in {j \in Points : h[j] = b}}

\* A table, in whose buckets is nothing that does not belong there ...
TableOK(table) ==
    /\ table \in AnyTable
    /\ table.hashed_vectors \in BucketMaps(table.hash)
    /\ \A b \in Range(table.hash) : Range(Bucket(table, b)) \subseteq Hit(table.hash, b)

\* ... and from whose buckets nothing is missing.
Complete(table) ==
    \A b \in Range(table.hash) : Range(Bucket(table, b)) = Hit(table.hash, b)

IndexOK(x) ==
    /\ x \in [num_tables : Nat, table_size : Nat, tables : Seq(AnyTable)]
    /\ \A n \in 1..Len(x.tables) : TableOK(x.tables[n]) /\ Complete(x.tables[n])

\* The header that is written is right.
Agrees(x) ==
    /\ x.num_tables = Len(x.tables)
    /\ \A n \in 1..Len(x.tables) : x.tables[n].size = x.table_size

\* What the first k tables have for a vector.
Hits(tables, k, v) ==
    UNION {Hit(tables[n].hash, tables[n].hash[v]) : n \in 1..k}

ObjectInv ==
    /\ index = None \/ IndexOK(index)
    /\ file = None \/ IndexOK(file)
    /\ builds = 0 => index = None \/ index.tables = << >>
    /\ builds = 1 => IndexOK(index) /\ Agrees(index)
    /\ savedFrom # None => file = savedFrom /\ IndexOK(file) /\ Agrees(file)

ThreadsOK ==
    /\ pc \in [Threads -> {"idle", "lookup", "insert"}]
    /\ query \in [Threads -> Queries \cup {NoQuery}]
    /\ at \in [Threads -> Nat \ {0}]
    /\ candidates \in [Threads -> Seq(Points)]
    /\ results = [t \in Threads |-> results[t]]

\* A thread that searches has asked the tables before the one it is at, and inserts
\* a bucket only where there is nothing to find.
SearchingInv ==
    \A t \in Threads : pc[t] # "idle" =>
        /\ IndexOK(index) /\ query[t] \in Queries
        /\ at[t] <= Len(index.tables) + (IF pc[t] = "lookup" THEN 1 ELSE 0)
        /\ Range(candidates[t]) = Hits(index.tables, at[t] - 1, query[t].vector)
        /\ pc[t] = "insert" =>
              Range(candidates[t]) = Hits(index.tables, at[t], query[t].vector)

\* One that has searched has found the closest of all.
FoundInv ==
    \A t \in Threads : pc[t] = "idle" /\ query[t] # NoQuery =>
        /\ IndexOK(index) /\ query[t] \in Queries
        /\ AreClosest(results[t],
                      Hits(index.tables, Len(index.tables), query[t].vector)
                          \cap query[t].accepts,
                      query[t].res_count, query[t].dist)

LshInv == ObjectInv /\ ThreadsOK /\ SearchingInv /\ FoundInv

----------------------------------------------------------------------------
(* Tables.                                                                 *)

LEMMA MapFacts ==
    ASSUME NEW h, NEW m \in BucketMaps(h)
    PROVE  /\ DOMAIN m \subseteq Range(h) /\ m \in [DOMAIN m -> Seq(Points)]
           /\ \A b \in DOMAIN m : m[b] \in Seq(Points)
<1>1. PICK D \in SUBSET Range(h) : m \in [D -> Seq(Points)]
  BY DEF BucketMaps
<1>2. DOMAIN m = D
  BY <1>1
<1> QED
  BY <1>1, <1>2

LEMMA MapIntro ==
    ASSUME NEW h, NEW D \in SUBSET Range(h), NEW m \in [D -> Seq(Points)]
    PROVE  m \in BucketMaps(h)
BY DEF BucketMaps

\* The hash functions know all points and vectors.
LEMMA HashFacts ==
    ASSUME NEW h \in HashFunctions
    PROVE  /\ \A i \in Points : h[i] \in Range(h)
           /\ \A q \in Queries : h[q.vector] \in Range(h)
<1>1. PICK p \in Params : h \in Hashes(p[2])
  BY DEF HashFunctions
<1>2. Points \cup {q.vector : q \in Queries} \subseteq DOMAIN h
  BY <1>1, LshAssumption
<1>3. \A q \in Queries : q.vector \in DOMAIN h
  BY <1>2
<1>4. \A i \in Points : i \in DOMAIN h
  BY <1>2
<1> QED
  BY <1>3, <1>4 DEF Range

LEMMA TableFacts ==
    ASSUME NEW table, table \in AnyTable, table.hashed_vectors \in BucketMaps(table.hash)
    PROVE  /\ table.hash \in HashFunctions /\ table.size \in Nat
           /\ DOMAIN table.hashed_vectors \subseteq Range(table.hash)
           /\ \A b : Bucket(table, b) \in Seq(Points) /\ Range(Bucket(table, b)) \subseteq Points
<1>1. /\ DOMAIN table.hashed_vectors \subseteq Range(table.hash)
      /\ \A b \in DOMAIN table.hashed_vectors : table.hashed_vectors[b] \in Seq(Points)
  BY MapFacts
<1>2. ASSUME NEW b
      PROVE  Bucket(table, b) \in Seq(Points)
  <2>1. << >> \in Seq(Points)
    OBVIOUS
  <2> QED
    BY <1>1, <2>1 DEF Bucket
<1>3. ASSUME NEW s \in Seq(Points)
      PROVE  Range(s) \subseteq Points
  BY DEF Range
<1> QED
  BY <1>1, <1>2, <1>3 DEF AnyTable

\* A table whose vectors are replaced.
LEMMA SameTable ==
    ASSUME NEW table \in AnyTable, NEW m \in BucketMaps(table.hash)
    PROVE  LET new == [table EXCEPT !.hashed_vectors = m]
           IN  /\ new \in AnyTable /\ new.hashed_vectors = m
               /\ new.hash = table.hash /\ new.size = table.size
<1> DEFINE M == UNION {BucketMaps(h) : h \in HashFunctions}
<1>1. table.hash \in HashFunctions
  BY DEF AnyTable
<1>2. m \in M
  BY <1>1
<1> HIDE DEF M
<1>3. AnyTable = [size : Nat, hash : HashFunctions, hashed_vectors : M]
  BY DEF AnyTable, M
<1> QED
  BY <1>2, <1>3

LEMMA AppendRange ==
    ASSUME NEW S, NEW s \in Seq(S), NEW x \in S
    PROVE  Append(s, x) \in Seq(S) /\ Range(Append(s, x)) = Range(s) \cup {x}
<1> DEFINE n == Len(s)
           a == Append(s, x)
<1>1. n \in Nat /\ DOMAIN s = 1..n
  OBVIOUS
<1>2. /\ a \in Seq(S) /\ DOMAIN a = 1..(n + 1) /\ a[n + 1] = x
      /\ \A i \in 1..n : a[i] = s[i]
  BY AppendProperties
<1> HIDE DEF n, a
<1>3. \A i : i \in 1..(n + 1) <=> i \in 1..n \/ i = n + 1
  BY <1>1
<1>4. Range(a) = {a[i] : i \in 1..(n + 1)} /\ Range(s) = {s[i] : i \in 1..n}
  BY <1>1, <1>2 DEF Range
<1>5. Range(a) = Range(s) \cup {x}
  BY <1>2, <1>3, <1>4
<1> QED
  BY <1>2, <1>5 DEF a

LEMMA AddFacts ==
    ASSUME NEW table, table \in AnyTable, table.hashed_vectors \in BucketMaps(table.hash),
           NEW b \in Range(table.hash), NEW id \in Points
    PROVE  LET new == AddVector(table, b, id)
           IN  /\ new \in AnyTable /\ new.hashed_vectors \in BucketMaps(table.hash)
               /\ new.hash = table.hash /\ new.size = table.size
               /\ \A c : Range(Bucket(new, c)) =
                            Range(Bucket(table, c)) \cup (IF c = b THEN {id} ELSE {})
<1> DEFINE hv == table.hashed_vectors
           D == DOMAIN hv \cup {b}
           m == [c \in D |-> IF c = b THEN Append(Bucket(table, b), id) ELSE hv[c]]
           new == AddVector(table, b, id)
<1>1. new = [table EXCEPT !.hashed_vectors = m]
  BY DEF AddVector, AnyTable
<1>2. /\ DOMAIN hv \subseteq Range(table.hash)
      /\ \A c \in DOMAIN hv : hv[c] \in Seq(Points)
      /\ \A c : Bucket(table, c) \in Seq(Points)
  BY MapFacts, TableFacts
<1>3. /\ Append(Bucket(table, b), id) \in Seq(Points)
      /\ Range(Append(Bucket(table, b), id)) = Range(Bucket(table, b)) \cup {id}
  BY <1>2, AppendRange
<1>4. m \in [D -> Seq(Points)] /\ D \in SUBSET Range(table.hash) /\ DOMAIN m = D
  BY <1>2, <1>3
<1>5. /\ m[b] = Append(Bucket(table, b), id)
      /\ \A c \in D : c # b => m[c] = hv[c]
  OBVIOUS
<1> HIDE DEF m, new
<1>6. m \in BucketMaps(table.hash)
  BY <1>4, MapIntro
<1>7. /\ new \in AnyTable /\ new.hashed_vectors = m
      /\ new.hash = table.hash /\ new.size = table.size
  BY <1>1, <1>6, SameTable
<1>8. ASSUME NEW c
      PROVE  Range(Bucket(new, c)) = Range(Bucket(table, c)) \cup (IF c = b THEN {id} ELSE {})
  <2>1. CASE c = b
    BY <1>3, <1>4, <1>5, <1>7, <2>1 DEF Bucket
  <2>2. CASE c # b
    <3>1. Bucket(new, c) = Bucket(table, c)
      BY <1>4, <1>5, <1>7, <2>2 DEF Bucket
    <3> QED
      BY <2>2, <3>1
  <2> QED
    BY <2>1, <2>2
<1> QED
  BY <1>6, <1>7, <1>8 DEF new

\* A table to which all points were added.
LEMMA FilledFacts ==
    ASSUME NEW table, TableOK(table)
    PROVE  LET new == Filled(table)
           IN  /\ TableOK(new) /\ Complete(new)
               /\ new.hash = table.hash /\ new.size = table.size
<1> DEFINE K == NumPoints
           h == table.hash
           Turn(n, tb) == AddVector(tb, h[n - 1], Tag(n - 1))
           B(g) == [n \in 0..K |-> IF n = 0 THEN table ELSE Turn(n, g[n - 1])]
           V == {tb \in AnyTable : /\ tb.hashed_vectors \in BucketMaps(h)
                                   /\ tb.hash = h /\ tb.size = table.size}
           step == [n \in 1..K |-> [tb \in V |-> Turn(n, tb)]]
           c == CHOOSE g : g = B(g)
           Upto(n, b) == {Tag(i) : i \in {j \in 0..(n - 1) : h[j] = b}}
<1>1. Filled(table) = c[K]
  BY DEF Filled
<1>2. /\ K \in Nat /\ h \in HashFunctions
      /\ \A n \in 1..K : n - 1 \in Points /\ h[n - 1] \in Range(h) /\ Tag(n - 1) \in Points
  <2>1. h \in HashFunctions
    BY DEF TableOK, AnyTable
  <2>2. \A n \in 1..K : n - 1 \in Points
    BY DataAssumption DEF Points
  <2>3. \A n \in 1..K : h[n - 1] \in Range(h) /\ Tag(n - 1) \in Points
    BY <2>1, <2>2, HashFacts, LshAssumption
  <2> QED
    BY <2>1, <2>2, <2>3, DataAssumption
<1>3. table \in V
  BY DEF TableOK
<1>4. ASSUME NEW n \in 1..K, NEW tb \in V
      PROVE  /\ Turn(n, tb) \in V
             /\ \A b : Range(Bucket(Turn(n, tb), b)) =
                          Range(Bucket(tb, b)) \cup (IF b = h[n - 1] THEN {Tag(n - 1)} ELSE {})
  <2> DEFINE b1 == h[n - 1]
             id == Tag(n - 1)
             new == AddVector(tb, b1, id)
  <2>1. /\ tb \in AnyTable /\ tb.hashed_vectors \in BucketMaps(tb.hash)
        /\ tb.hash = h /\ tb.size = table.size /\ b1 \in Range(tb.hash) /\ id \in Points
    BY <1>2
  <2> HIDE DEF b1, id, h
  <2>2. /\ new \in AnyTable /\ new.hashed_vectors \in BucketMaps(tb.hash)
        /\ new.hash = tb.hash /\ new.size = tb.size
        /\ \A b : Range(Bucket(new, b)) = Range(Bucket(tb, b)) \cup (IF b = b1 THEN {id} ELSE {})
    BY <2>1, AddFacts
  <2>3. new \in V
    BY <2>1, <2>2
  <2> QED
    BY <2>2, <2>3 DEF b1, id
<1> HIDE DEF V, Turn, K
<1>5. \E g : g = B(g)
  <2>1. step \in [1..K -> [V -> V]]
    BY <1>4
  <2>2. \A n \in 1..K : \A tb \in V : step[n][tb] = Turn(n, tb)
    OBVIOUS
  <2> HIDE DEF step
  <2>3. HasValue(K, V, table, step)
    BY <1>2, <1>3, <2>1, Recursion
  <2>4. PICK f : f \in [0..K -> V] /\ f[0] = table /\ \A n \in 1..K : f[n] = step[n][f[n - 1]]
    BY <2>3 DEF HasValue
  <2>5. \A n \in 0..K : n # 0 => n \in 1..K /\ n - 1 \in 0..K
    BY <1>2
  <2>6. \A n \in 0..K : f[n] = IF n = 0 THEN table ELSE Turn(n, f[n - 1])
    BY <2>2, <2>4, <2>5
  <2>7. f = B(f)
    BY <2>4, <2>6
  <2> QED
    BY <2>7
<1> HIDE DEF B
<1>6. c = B(c)
  BY <1>5
<1> HIDE DEF c
<1>7. c[0] = table /\ \A n \in 1..K : c[n] = Turn(n, c[n - 1])
  <2>1. B(c)[0] = table /\ \A n \in 1..K : B(c)[n] = Turn(n, c[n - 1])
    BY <1>2 DEF B
  <2> QED
    BY <1>6, <2>1
<1> DEFINE Good(n) == /\ c[n] \in V
                      /\ \A b : Range(Bucket(c[n], b)) = Range(Bucket(table, b)) \cup Upto(n, b)
           S == {n \in 0..K : Good(n)}
<1>8. 0 \in S
  <2>1. \A b : Upto(0, b) = {}
    OBVIOUS
  <2> HIDE DEF Upto
  <2>2. Good(0) /\ 0 \in 0..K
    BY <1>2, <1>3, <1>7, <2>1
  <2> QED
    BY <2>2
<1>9. ASSUME NEW n \in 0..(K - 1), n \in S
      PROVE  n + 1 \in S
  <2>1. n + 1 \in 1..K /\ n + 1 \in 0..K /\ (n + 1) - 1 = n
    BY <1>2
  <2>2. c[n] \in V /\ \A b : Range(Bucket(c[n], b)) = Range(Bucket(table, b)) \cup Upto(n, b)
    BY <1>9
  <2>3. c[n + 1] = Turn(n + 1, c[n])
    BY <1>7, <2>1
  <2>4. /\ c[n + 1] \in V
        /\ \A b : Range(Bucket(c[n + 1], b)) =
                     Range(Bucket(c[n], b)) \cup (IF b = h[n] THEN {Tag(n)} ELSE {})
    BY <1>4, <2>1, <2>2, <2>3
  <2>5. ASSUME NEW b
        PROVE  Upto(n + 1, b) = Upto(n, b) \cup (IF b = h[n] THEN {Tag(n)} ELSE {})
    <3>1. \A i : i \in 0..((n + 1) - 1) <=> i \in 0..(n - 1) \/ i = n
      BY <1>2
    <3> QED
      BY <3>1
  <2> HIDE DEF Upto
  <2>6. Good(n + 1)
    BY <2>2, <2>4, <2>5
  <2> QED
    BY <2>1, <2>6
<1> HIDE DEF S
<1>10. \A n \in 0..K : n \in S
  BY <1>2, <1>8, <1>9, InductionTo
<1>11. Good(K)
  <2>1. K \in 0..K
    BY <1>2
  <2> QED
    BY <1>10, <2>1 DEF S
<1>12. \A b : Upto(K, b) = Hit(h, b)
  BY DEF Hit, K, Points
<1> HIDE DEF Upto
<1>13. /\ c[K] \in AnyTable /\ c[K].hashed_vectors \in BucketMaps(h)
       /\ c[K].hash = h /\ c[K].size = table.size
  BY <1>11 DEF V
<1>14. \A b \in Range(h) : Range(Bucket(table, b)) \subseteq Hit(h, b)
  BY DEF TableOK
<1>15. \A b \in Range(h) : Range(Bucket(c[K], b)) = Hit(h, b)
  BY <1>11, <1>12, <1>14
<1>16. TableOK(c[K]) /\ Complete(c[K])
  BY <1>13, <1>15 DEF TableOK, Complete
<1> QED
  BY <1>1, <1>13, <1>16

LEMMA NewTableFacts ==
    ASSUME NEW h \in HashFunctions, NEW size \in Nat
    PROVE  TableOK(NewTable(h, size)) /\ NewTable(h, size).size = size
<1> DEFINE new == NewTable(h, size)
           m == [b \in {} |-> << >>]
<1>1. m \in [{} -> Seq(Points)]
  OBVIOUS
<1>2. m \in BucketMaps(h)
  BY <1>1, MapIntro
<1>3. new = [size |-> size, hash |-> h, hashed_vectors |-> m]
  BY DEF NewTable
<1> HIDE DEF new
<1>4. new.size = size /\ new.hash = h /\ new.hashed_vectors = m
  BY <1>3
<1>5. DOMAIN m = {}
  OBVIOUS
<1> HIDE DEF m
<1>6. new \in AnyTable
  <2> DEFINE M == UNION {BucketMaps(g) : g \in HashFunctions}
  <2>1. m \in M
    BY <1>2
  <2> HIDE DEF M
  <2>2. AnyTable = [size : Nat, hash : HashFunctions, hashed_vectors : M]
    BY DEF AnyTable, M
  <2> QED
    BY <1>3, <2>1, <2>2
<1>7. \A b : Range(Bucket(new, b)) = {}
  <2>1. Range(<< >>) = {}
    BY DEF Range
  <2> QED
    BY <1>4, <1>5, <2>1 DEF Bucket
<1> QED
  BY <1>2, <1>4, <1>6, <1>7 DEF TableOK, new

\* A table read back has the same ids in every bucket.
LEMMA ReadFacts ==
    ASSUME NEW table, TableOK(table)
    PROVE  LET new == ReadTable(table)
           IN  /\ TableOK(new) /\ new.hash = table.hash /\ new.size = table.size
               /\ \A b : Bucket(new, b) = Bucket(table, b)
<1> DEFINE hv == table.hashed_vectors
           D == {c \in DOMAIN hv : hv[c] # << >>}
           m == [b \in D |-> hv[b]]
           new == ReadTable(table)
<1>1. table \in AnyTable /\ hv \in BucketMaps(table.hash)
  BY DEF TableOK
<1>2. new = [table EXCEPT !.hashed_vectors = m]
  BY <1>1 DEF ReadTable, AnyTable
<1>3. DOMAIN hv \subseteq Range(table.hash) /\ \A b \in DOMAIN hv : hv[b] \in Seq(Points)
  BY <1>1, MapFacts
<1>4. /\ m \in [D -> Seq(Points)] /\ D \in SUBSET Range(table.hash) /\ DOMAIN m = D
      /\ \A b \in D : m[b] = hv[b]
      /\ \A b \in DOMAIN hv : b \notin D => hv[b] = << >>
      /\ D \subseteq DOMAIN hv
  BY <1>3
<1> HIDE DEF m, new, D
<1>5. /\ new \in AnyTable /\ new.hashed_vectors = m
      /\ new.hash = table.hash /\ new.size = table.size /\ m \in BucketMaps(table.hash)
  BY <1>1, <1>2, <1>4, MapIntro, SameTable
<1>6. ASSUME NEW b
      PROVE  Bucket(new, b) = Bucket(table, b)
  BY <1>4, <1>5 DEF Bucket
<1> QED
  BY <1>5, <1>6 DEF TableOK, new

----------------------------------------------------------------------------
(* The steps of the LSH index.                                             *)

LEMMA IndexFacts ==
    ASSUME NEW x, IndexOK(x)
    PROVE  /\ x # None /\ x.tables \in Seq(AnyTable)
           /\ x.num_tables \in Nat /\ x.table_size \in Nat
           /\ Len(x.tables) \in Nat /\ DOMAIN x.tables = 1..Len(x.tables)
           /\ \A n \in 1..Len(x.tables) :
                 /\ x.tables[n] \in AnyTable /\ x.tables[n].hash \in HashFunctions
                 /\ TableOK(x.tables[n]) /\ Complete(x.tables[n])
<1>1. x \in [num_tables : Nat, table_size : Nat, tables : Seq(AnyTable)]
  BY DEF IndexOK
<1>2. x # None
  <2>1. "tables" \in DOMAIN x
    BY <1>1
  <2>2. "tables" \notin DOMAIN None
    BY DEF None
  <2> QED
    BY <2>1, <2>2
<1>3. /\ x.tables \in Seq(AnyTable) /\ x.num_tables \in Nat /\ x.table_size \in Nat
  BY <1>1
<1>4. Len(x.tables) \in Nat /\ DOMAIN x.tables = 1..Len(x.tables)
  BY <1>3
<1>5. \A n \in 1..Len(x.tables) : TableOK(x.tables[n]) /\ Complete(x.tables[n])
  BY DEF IndexOK
<1>6. \A n \in 1..Len(x.tables) : x.tables[n] \in AnyTable /\ x.tables[n].hash \in HashFunctions
  BY <1>5 DEF TableOK, AnyTable
<1> QED
  BY <1>2, <1>3, <1>4, <1>5, <1>6

\* An object of so many tables.
Object(n, size, tables) == [num_tables |-> n, table_size |-> size, tables |-> tables]

LEMMA IndexIntro ==
    ASSUME NEW n \in Nat, NEW size \in Nat, NEW tables \in Seq(AnyTable),
           \A m \in 1..Len(tables) : TableOK(tables[m]) /\ Complete(tables[m])
    PROVE  LET x == Object(n, size, tables)
           IN  IndexOK(x) /\ x.num_tables = n /\ x.table_size = size /\ x.tables = tables
<1> DEFINE x == Object(n, size, tables)
<1>1. x \in [num_tables : Nat, table_size : Nat, tables : Seq(AnyTable)]
  BY DEF Object
<1>2. x.num_tables = n /\ x.table_size = size /\ x.tables = tables
  BY DEF Object
<1> HIDE DEF x
<1>3. IndexOK(x)
  BY <1>1, <1>2 DEF IndexOK
<1> QED
  BY <1>2, <1>3 DEF x

\* A list made entry by entry.
LEMMA ListFacts ==
    ASSUME NEW S, NEW n \in Nat, NEW f, DOMAIN f = 1..n, f \in [1..n -> S]
    PROVE  f \in Seq(S) /\ Len(f) = n
OBVIOUS

\* What is asked of a table depends on its hash function only.
LEMMA SameHits ==
    ASSUME NEW s, NEW r, NEW k, NEW v, \A n \in 1..k : s[n].hash = r[n].hash
    PROVE  Hits(s, k, v) = Hits(r, k, v)
<1>1. \A n \in 1..k : Hit(s[n].hash, s[n].hash[v]) = Hit(r[n].hash, r[n].hash[v])
  OBVIOUS
<1> QED
  BY <1>1 DEF Hits

LEMMA NextHits ==
    ASSUME NEW s, NEW k \in Nat \ {0}, NEW v
    PROVE  Hits(s, k, v) = Hits(s, k - 1, v) \cup Hit(s[k].hash, s[k].hash[v])
<1>1. \A n : n \in 1..k <=> n \in 1..(k - 1) \/ n = k
  OBVIOUS
<1> DEFINE F(n) == Hit(s[n].hash, s[n].hash[v])
<1> HIDE DEF F
<1>2. UNION {F(n) : n \in 1..k} = (UNION {F(n) : n \in 1..(k - 1)}) \cup F(k)
  BY <1>1
<1> QED
  BY <1>2 DEF Hits, F

LEMMA HitsArePoints ==
    ASSUME NEW s, NEW k, NEW v
    PROVE  Hits(s, k, v) \subseteq Points
<1>1. \A h, b : Hit(h, b) \subseteq Points
  BY LshAssumption DEF Hit
<1> QED
  BY <1>1 DEF Hits

\* A bucket that a search inserts changes no bucket.
LEMMA InsertedFacts ==
    ASSUME NEW x, IndexOK(x), NEW n \in 1..Len(x.tables),
           NEW b \in Range(x.tables[n].hash)
    PROVE  LET y == [x EXCEPT !.tables[n].hashed_vectors =
                        [c \in DOMAIN @ \cup {b} |-> Bucket(x.tables[n], c)]]
           IN  /\ IndexOK(y) /\ Len(y.tables) = Len(x.tables)
               /\ y.num_tables = x.num_tables /\ y.table_size = x.table_size
               /\ \A m \in 1..Len(x.tables) : /\ y.tables[m].hash = x.tables[m].hash
                                              /\ y.tables[m].size = x.tables[m].size
<1> DEFINE s == x.tables
           old == s[n]
           D == DOMAIN old.hashed_vectors \cup {b}
           m == [c \in D |-> Bucket(old, c)]
           new == [old EXCEPT !.hashed_vectors = m]
           r == [s EXCEPT ![n] = new]
           y == [x EXCEPT !.tables[n].hashed_vectors =
                    [c \in DOMAIN @ \cup {b} |-> Bucket(x.tables[n], c)]]
<1>1. x \in [num_tables : Nat, table_size : Nat, tables : Seq(AnyTable)]
  BY DEF IndexOK
<1>2. /\ s \in Seq(AnyTable) /\ x.num_tables \in Nat /\ x.table_size \in Nat
      /\ Len(s) \in Nat /\ DOMAIN s = 1..Len(s)
      /\ \A i \in 1..Len(s) : TableOK(s[i]) /\ Complete(s[i])
  BY IndexFacts
<1>3. old \in AnyTable /\ TableOK(old) /\ Complete(old)
      /\ old.hashed_vectors \in BucketMaps(old.hash)
  BY <1>2 DEF TableOK
<1>4. /\ DOMAIN old.hashed_vectors \subseteq Range(old.hash)
      /\ \A c : Bucket(old, c) \in Seq(Points)
  BY <1>3, TableFacts
<1>5. y = [num_tables |-> x.num_tables, table_size |-> x.table_size, tables |-> r]
  <2>1. y = [x EXCEPT !.tables = r]
    OBVIOUS
  <2> HIDE DEF y, r
  <2> QED
    BY <1>1, <2>1
<1> HIDE DEF y
<1>6. m \in [D -> Seq(Points)] /\ D \in SUBSET Range(old.hash) /\ DOMAIN m = D
      /\ (\A c \in D : m[c] = Bucket(old, c))
  BY <1>4
<1>7. \A c : c \notin D => Bucket(old, c) = << >>
  BY DEF Bucket
<1> HIDE DEF m, D
<1>8. m \in BucketMaps(old.hash)
  BY <1>6, MapIntro
<1>9. /\ new \in AnyTable /\ new.hashed_vectors = m
      /\ new.hash = old.hash /\ new.size = old.size
  BY <1>3, <1>8, SameTable
<1>10. \A c : Bucket(new, c) = Bucket(old, c)
  BY <1>6, <1>7, <1>9 DEF Bucket
<1> HIDE DEF new
<1>11. TableOK(new) /\ Complete(new)
  BY <1>3, <1>8, <1>9, <1>10 DEF TableOK, Complete
<1>12. /\ r \in Seq(AnyTable) /\ Len(r) = Len(s)
       /\ \A i \in 1..Len(s) : r[i] = IF i = n THEN new ELSE s[i]
  BY <1>2, <1>9
<1> HIDE DEF r, s
<1>13. \A i \in 1..Len(r) : TableOK(r[i]) /\ Complete(r[i])
  BY <1>2, <1>11, <1>12
<1>14. IndexOK(y) /\ y.num_tables = x.num_tables /\ y.table_size = x.table_size /\ y.tables = r
  <2>1. y = Object(x.num_tables, x.table_size, r)
    BY <1>5 DEF Object
  <2> QED
    BY <1>2, <1>12, <1>13, <2>1, IndexIntro
<1>15. \A i \in 1..Len(s) : r[i].hash = s[i].hash /\ r[i].size = s[i].size
  BY <1>9, <1>12
<1> QED
  BY <1>12, <1>14, <1>15 DEF y, s

LEMMA LshStart ==
    ASSUME Init
    PROVE  LshInv
<1>1. ObjectInv
  BY DEF Init, ObjectInv
<1>2. ThreadsOK
  <2>1. << >> \in Seq(Points) /\ 1 \in Nat \ {0}
    OBVIOUS
  <2> QED
    BY <2>1 DEF Init, ThreadsOK
<1>3. SearchingInv /\ FoundInv
  BY DEF Init, SearchingInv, FoundInv
<1> QED
  BY <1>1, <1>2, <1>3 DEF LshInv

\* Between searches the object is changed, and what was found is forgotten.
LEMMA ForgetFacts ==
    ASSUME ThreadsOK, Quiet, Forget
    PROVE  ThreadsOK' /\ SearchingInv' /\ FoundInv'
<1>1. ThreadsOK'
  <2>1. << >> \in Seq(Points) /\ 1 \in Nat \ {0}
    OBVIOUS
  <2> QED
    BY <2>1 DEF ThreadsOK, Forget
<1>2. \A t \in Threads : pc'[t] = "idle" /\ query'[t] = NoQuery
  BY DEF Quiet, Forget
<1> QED
  BY <1>1, <1>2 DEF SearchingInv, FoundInv

LEMMA CreateFacts ==
    ASSUME LshInv, Create
    PROVE  LshInv'
<1> DEFINE s == << >>
<1>1. index' = Object(0, 0, s)
  BY DEF Create, Object
<1>2. s \in Seq(AnyTable) /\ 0 \in Nat
  OBVIOUS
<1>3. \A m \in 1..Len(s) : FALSE
  OBVIOUS
<1> HIDE DEF s
<1>4. IndexOK(index') /\ index'.tables = s
  BY <1>1, <1>2, <1>3, IndexIntro
<1>5. file' = file /\ savedFrom' = savedFrom /\ builds' = 0
  BY DEF Create
<1>6. ObjectInv'
  <2>1. ObjectInv
    BY DEF LshInv
  <2>2. IndexOK(index)' = IndexOK(index') /\ IndexOK(file)' = IndexOK(file)
        /\ Agrees(file)' = Agrees(file)
    BY <1>5 DEF IndexOK, Agrees, Complete, TableOK
  <2> QED
    BY <1>4, <1>5, <2>1, <2>2 DEF ObjectInv, s
<1>7. ThreadsOK' /\ SearchingInv' /\ FoundInv'
  BY ForgetFacts DEF Create, LshInv
<1> QED
  BY <1>6, <1>7 DEF LshInv

\* The tables of a build.
LEMMA BuildFacts ==
    ASSUME NEW x, IndexOK(x), NEW p \in Params, NEW hs \in [1..p[1] -> Hashes(p[2])]
    PROVE  LET tables == x.tables \o [n \in 1..p[1] |-> NewTable(hs[n], p[2])]
               y == [num_tables |-> p[1], table_size |-> p[2],
                     tables |-> [n \in DOMAIN tables |-> Filled(tables[n])]]
           IN  IndexOK(y) /\ (x.tables = << >> => Agrees(y))
<1> DEFINE K == p[1]
           size == p[2]
           more == [n \in 1..K |-> NewTable(hs[n], size)]
           s == x.tables
           tables == s \o more
           r == [n \in DOMAIN tables |-> Filled(tables[n])]
           y == [num_tables |-> K, table_size |-> size, tables |-> r]
<1>1. K \in Nat /\ size \in Nat
  BY LshAssumption
<1>2. /\ s \in Seq(AnyTable) /\ Len(s) \in Nat
      /\ \A n \in 1..Len(s) : TableOK(s[n])
  BY IndexFacts
<1>3. \A n \in 1..K : hs[n] \in HashFunctions
  BY DEF HashFunctions
<1>4. \A n \in 1..K : TableOK(more[n]) /\ more[n].size = size
  BY <1>1, <1>3, NewTableFacts
<1>5. more \in Seq(AnyTable) /\ Len(more) = K
  <2>1. \A n \in 1..K : more[n] \in AnyTable
    BY <1>4 DEF TableOK
  <2>2. DOMAIN more = 1..K /\ more = [n \in 1..K |-> more[n]]
    OBVIOUS
  <2> HIDE DEF more, K
  <2>3. more \in [1..K -> AnyTable]
    BY <2>1, <2>2
  <2> QED
    BY <1>1, <2>2, <2>3, ListFacts
<1> HIDE DEF more
<1>6. /\ tables \in Seq(AnyTable) /\ Len(tables) = Len(s) + K
      /\ DOMAIN tables = 1..(Len(s) + K)
  BY <1>1, <1>2, <1>5
<1>7. \A n \in 1..(Len(s) + K) : tables[n] = IF n <= Len(s) THEN s[n] ELSE more[n - Len(s)]
  BY <1>1, <1>2, <1>5
<1>8. \A n \in 1..(Len(s) + K) : n \in 1..Len(s) \/ (n - Len(s) \in 1..K /\ ~ n <= Len(s))
  BY <1>1, <1>2
<1> HIDE DEF tables, s
<1>9. \A n \in 1..(Len(s) + K) : TableOK(tables[n])
  BY <1>2, <1>4, <1>7, <1>8
<1>10. \A n \in 1..(Len(s) + K) :
          TableOK(Filled(tables[n])) /\ Complete(Filled(tables[n]))
          /\ Filled(tables[n]).size = tables[n].size
  BY <1>9, FilledFacts
<1>11. \A n \in 1..(Len(s) + K) : r[n] = Filled(tables[n])
  BY <1>6
<1>12. r \in Seq(AnyTable) /\ Len(r) = Len(s) + K
  <2>1. \A n \in 1..(Len(s) + K) : Filled(tables[n]) \in AnyTable
    BY <1>10 DEF TableOK
  <2>2. Len(s) + K \in Nat
    BY <1>1, <1>2
  <2> QED
    BY <1>6, <2>1, <2>2
<1> HIDE DEF r, y
<1>13. \A m \in 1..Len(r) : TableOK(r[m]) /\ Complete(r[m])
  BY <1>10, <1>11, <1>12
<1> HIDE DEF K, size
<1>14. IndexOK(y) /\ y.num_tables = K /\ y.table_size = size /\ y.tables = r
  <2>1. y = Object(K, size, r)
    BY DEF y, Object
  <2> QED
    BY <1>1, <1>12, <1>13, <2>1, IndexIntro
<1>15. ASSUME s = << >>
       PROVE  Agrees(y)
  <2>1. Len(s) = 0
    BY <1>15
  <2>2. Len(r) = K
    BY <1>1, <1>12, <2>1
  <2>3. ASSUME NEW n \in 1..K
        PROVE  r[n].size = size
    <3>1. n \in 1..(Len(s) + K) /\ ~ (n <= Len(s)) /\ n - Len(s) = n
      BY <1>1, <2>1
    <3>2. r[n].size = more[n].size
      BY <1>7, <1>10, <1>11, <3>1
    <3> QED
      BY <1>4, <3>2 DEF K, size
  <2> QED
    BY <1>14, <2>2, <2>3 DEF Agrees
<1> QED
  BY <1>14, <1>15 DEF y, r, tables, more, s, K, size

LEMMA BuildStep ==
    ASSUME LshInv, Build
    PROVE  LshInv'
<1>1. IndexOK(index)
  BY DEF Build, LshInv, ObjectInv
<1>2. IndexOK(index') /\ (index.tables = << >> => Agrees(index'))
  <2> DEFINE Made(p, hs) ==
               LET tables == index.tables \o [n \in 1..p[1] |-> NewTable(hs[n], p[2])]
               IN  [num_tables |-> p[1], table_size |-> p[2],
                    tables |-> [n \in DOMAIN tables |-> Filled(tables[n])]]
  <2>1. PICK p \in Params : \E hs \in [1..p[1] -> Hashes(p[2])] : index' = Made(p, hs)
    BY DEF Build
  <2>2. PICK hs \in [1..p[1] -> Hashes(p[2])] : index' = Made(p, hs)
    BY <2>1
  <2>3. IndexOK(Made(p, hs)) /\ (index.tables = << >> => Agrees(Made(p, hs)))
    BY <1>1, BuildFacts
  <2> HIDE DEF Made
  <2> QED
    BY <2>2, <2>3
<1>3. file' = file /\ savedFrom' = savedFrom /\ builds' = IF builds = 0 THEN 1 ELSE 2
  BY DEF Build
<1>4. ObjectInv'
  <2>1. ObjectInv
    BY DEF LshInv
  <2>2. index # None
    BY DEF Build
  <2>3. /\ builds' # 0
        /\ builds' = 1 => Agrees(index')
    BY <1>2, <1>3, <2>1, <2>2 DEF ObjectInv
  <2> QED
    BY <1>2, <1>3, <2>1, <2>3 DEF ObjectInv
<1>5. ThreadsOK' /\ SearchingInv' /\ FoundInv'
  BY ForgetFacts DEF Build, LshInv
<1> QED
  BY <1>4, <1>5 DEF LshInv

LEMMA SaveStep ==
    ASSUME LshInv, Save
    PROVE  LshInv'
<1>1. /\ index # None /\ file' = index /\ savedFrom' = (IF builds = 1 THEN index ELSE None)
      /\ index' = index /\ builds' = builds
  BY DEF Save
<1>2. ObjectInv'
  <2>1. ObjectInv
    BY DEF LshInv
  <2> QED
    BY <1>1, <2>1 DEF ObjectInv
<1>3. ThreadsOK' /\ SearchingInv' /\ FoundInv'
  BY ForgetFacts DEF Save, LshInv
<1> QED
  BY <1>2, <1>3 DEF LshInv

\* The tables that are loaded.
LEMMA LoadedFacts ==
    ASSUME NEW f, IndexOK(f), LoadOutcome(f) = "ok"
    PROVE  LET r == LoadedTables(f)
           IN  /\ r \in Seq(AnyTable) /\ Len(r) = f.num_tables /\ DOMAIN r = 1..f.num_tables
               /\ f.num_tables <= Len(f.tables)
               /\ \A n \in 1..f.num_tables :
                     /\ TableOK(r[n]) /\ Complete(r[n]) /\ r[n].hash = f.tables[n].hash
                     /\ \A b : Bucket(r[n], b) = Bucket(f.tables[n], b)
<1> DEFINE K == f.num_tables
           r == LoadedTables(f)
<1>1. /\ K \in Nat /\ Len(f.tables) \in Nat
      /\ \A n \in 1..Len(f.tables) : TableOK(f.tables[n]) /\ Complete(f.tables[n])
  BY IndexFacts
<1>2. K <= Len(f.tables)
  BY <1>1 DEF LoadOutcome
<1>3. \A n \in 1..K : n \in 1..Len(f.tables)
  BY <1>1, <1>2
<1>4. r = [n \in 1..K |-> ReadTable(f.tables[n])]
  BY DEF LoadedTables
<1> HIDE DEF r
<1>5. ASSUME NEW n \in 1..K
      PROVE  /\ TableOK(r[n]) /\ Complete(r[n]) /\ r[n].hash = f.tables[n].hash
             /\ \A b : Bucket(r[n], b) = Bucket(f.tables[n], b)
  <2> DEFINE old == f.tables[n]
  <2>1. TableOK(old) /\ Complete(old) /\ r[n] = ReadTable(old)
    BY <1>1, <1>3, <1>4
  <2> HIDE DEF old
  <2>2. TableOK(r[n]) /\ r[n].hash = old.hash /\ \A b : Bucket(r[n], b) = Bucket(old, b)
    BY <2>1, ReadFacts
  <2> QED
    BY <2>1, <2>2 DEF Complete, old
<1>6. r \in Seq(AnyTable) /\ Len(r) = K /\ DOMAIN r = 1..K
  <2>1. \A n \in 1..K : r[n] \in AnyTable
    BY <1>5 DEF TableOK
  <2>2. DOMAIN r = 1..K /\ r = [n \in 1..K |-> r[n]]
    BY <1>4
  <2> HIDE DEF K
  <2>3. r \in [1..K -> AnyTable]
    BY <2>1, <2>2
  <2> QED
    BY <1>1, <2>2, <2>3, ListFacts
<1> QED
  BY <1>2, <1>5, <1>6 DEF r

LEMMA LoadStep ==
    ASSUME LshInv, Load
    PROVE  LshInv'
<1>1. /\ IndexOK(index) /\ builds' = 2 /\ file' = file /\ savedFrom' = savedFrom
      /\ index' = IF LoadOutcome(file) = "ok"
                  THEN [index EXCEPT !.tables = LoadedTables(file)] ELSE None
  BY DEF Load, LshInv, ObjectInv
<1>2. ObjectInv
  BY DEF LshInv
<1>3. index' = None \/ IndexOK(index')
  <2>1. CASE LoadOutcome(file) # "ok"
    BY <1>1, <2>1
  <2>2. CASE LoadOutcome(file) = "ok"
    <3> DEFINE r == LoadedTables(file)
    <3>1. IndexOK(file)
      BY <1>2, <2>2 DEF ObjectInv, LoadOutcome
    <3>2. /\ r \in Seq(AnyTable) /\ Len(r) = file.num_tables
          /\ \A n \in 1..file.num_tables : TableOK(r[n]) /\ Complete(r[n])
      BY <2>2, <3>1, LoadedFacts
    <3> HIDE DEF r
    <3>3. index \in [num_tables : Nat, table_size : Nat, tables : Seq(AnyTable)]
      BY <1>1 DEF IndexOK
    <3>4. index' = [index EXCEPT !.tables = r]
      BY <1>1, <2>2 DEF r
    <3>5. index' = Object(index.num_tables, index.table_size, r)
      BY <3>3, <3>4 DEF Object
    <3>6. \A n \in 1..Len(r) : TableOK(r[n]) /\ Complete(r[n])
      BY <3>2
    <3>7. index.num_tables \in Nat /\ index.table_size \in Nat
      BY <3>3
    <3> QED
      BY <3>2, <3>5, <3>6, <3>7, IndexIntro
  <2> QED
    BY <2>1, <2>2
<1>4. ObjectInv'
  BY <1>1, <1>2, <1>3 DEF ObjectInv
<1>5. ThreadsOK' /\ SearchingInv' /\ FoundInv'
  BY ForgetFacts DEF Load, LshInv
<1> QED
  BY <1>4, <1>5 DEF LshInv

\* A search begins.
LEMMA StartStep ==
    ASSUME LshInv, NEW t \in Threads, StartSearch(t)
    PROVE  LshInv'
<1>1. /\ ObjectInv /\ ThreadsOK /\ SearchingInv /\ FoundInv
      /\ index # None /\ pc[t] = "idle"
      /\ UNCHANGED <<index, file, builds, savedFrom>>
  BY DEF LshInv, StartSearch
<1>2. PICK q \in Queries : query' = [query EXCEPT ![t] = q]
  BY DEF StartSearch
<1>3. /\ pc' = [pc EXCEPT ![t] = "lookup"]
      /\ at' = [at EXCEPT ![t] = 1]
      /\ candidates' = [candidates EXCEPT ![t] = << >>]
      /\ results' = [results EXCEPT ![t] = << >>]
  BY DEF StartSearch
<1>4. /\ pc \in [Threads -> {"idle", "lookup", "insert"}]
      /\ query \in [Threads -> Queries \cup {NoQuery}]
      /\ at \in [Threads -> Nat \ {0}]
      /\ candidates \in [Threads -> Seq(Points)]
      /\ results = [u \in Threads |-> results[u]]
  BY <1>1 DEF ThreadsOK
<1>5. ObjectInv'
  BY <1>1 DEF ObjectInv, IndexOK, Agrees
<1>6. ThreadsOK'
  <2>1. << >> \in Seq(Points) /\ 1 \in Nat \ {0}
    OBVIOUS
  <2>2. results' = [u \in Threads |-> results'[u]]
    BY <1>3, <1>4
  <2> QED
    BY <1>2, <1>3, <1>4, <2>1, <2>2 DEF ThreadsOK
<1>7. /\ pc'[t] = "lookup" /\ query'[t] = q /\ at'[t] = 1 /\ candidates'[t] = << >>
      /\ \A u \in Threads : u # t => /\ pc'[u] = pc[u] /\ query'[u] = query[u] /\ at'[u] = at[u]
                                     /\ candidates'[u] = candidates[u] /\ results'[u] = results[u]
  BY <1>2, <1>3, <1>4
<1>8. SearchingInv'
  <2>1. IndexOK(index) /\ Len(index.tables) \in Nat
    BY <1>1, IndexFacts DEF ObjectInv
  <2>2. Range(<< >>) = {}
    BY DEF Range
  <2>3. Hits(index.tables, 0, q.vector) = {}
    BY DEF Hits
  <2> SUFFICES ASSUME NEW u \in Threads, pc'[u] # "idle"
               PROVE  /\ IndexOK(index) /\ query'[u] \in Queries
                      /\ at'[u] <= Len(index.tables) + (IF pc'[u] = "lookup" THEN 1 ELSE 0)
                      /\ Range(candidates'[u]) = Hits(index.tables, at'[u] - 1, query'[u].vector)
                      /\ pc'[u] = "insert" =>
                            Range(candidates'[u]) = Hits(index.tables, at'[u], query'[u].vector)
    BY <1>1 DEF SearchingInv, IndexOK
  <2>4. CASE u = t
    <3>1. at'[u] - 1 = 0 /\ query'[u] = q /\ candidates'[u] = << >> /\ pc'[u] = "lookup"
      BY <1>7, <2>4
    <3>2. at'[u] <= Len(index.tables) + 1
      BY <1>7, <2>1, <2>4
    <3> QED
      BY <2>1, <2>2, <2>3, <3>1, <3>2
  <2>5. CASE u # t
    BY <1>1, <1>7, <2>5 DEF SearchingInv
  <2> QED
    BY <2>4, <2>5
<1>9. FoundInv'
  <2> SUFFICES ASSUME NEW u \in Threads, pc'[u] = "idle", query'[u] # NoQuery
               PROVE  /\ IndexOK(index) /\ query'[u] \in Queries
                      /\ AreClosest(results'[u],
                             Hits(index.tables, Len(index.tables), query'[u].vector)
                                 \cap query'[u].accepts,
                             query'[u].res_count, query'[u].dist)
    BY <1>1 DEF FoundInv, IndexOK
  <2> QED
    BY <1>1, <1>7 DEF FoundInv
<1> QED
  BY <1>5, <1>6, <1>8, <1>9 DEF LshInv

\* What the table a thread is at has for its query.
LEMMA AtFacts ==
    ASSUME LshInv, NEW t \in Threads, pc[t] # "idle", at[t] <= Len(index.tables)
    PROVE  /\ IndexOK(index) /\ at[t] \in 1..Len(index.tables)
           /\ TableOK(Table(t)) /\ Complete(Table(t))
           /\ Hash(t) \in Range(Table(t).hash)
           /\ Range(candidates[t]) = Hits(index.tables, at[t] - 1, query[t].vector)
           /\ Hits(index.tables, at[t], query[t].vector)
                  = Hits(index.tables, at[t] - 1, query[t].vector)
                        \cup Range(Bucket(Table(t), Hash(t)))
<1>1. /\ IndexOK(index) /\ query[t] \in Queries /\ at[t] \in Nat \ {0}
      /\ Range(candidates[t]) = Hits(index.tables, at[t] - 1, query[t].vector)
  BY DEF LshInv, SearchingInv, ThreadsOK
<1>2. at[t] \in 1..Len(index.tables)
  BY <1>1, IndexFacts
<1>3. TableOK(Table(t)) /\ Complete(Table(t)) /\ Table(t).hash \in HashFunctions
  BY <1>1, <1>2, IndexFacts DEF Table
<1>4. Hash(t) \in Range(Table(t).hash)
  BY <1>1, <1>3, HashFacts DEF Hash
<1>5. Range(Bucket(Table(t), Hash(t))) = Hit(Table(t).hash, Hash(t))
  BY <1>3, <1>4 DEF Complete
<1>6. Hits(index.tables, at[t], query[t].vector)
          = Hits(index.tables, at[t] - 1, query[t].vector) \cup Hit(Table(t).hash, Hash(t))
  BY <1>1, NextHits DEF Table, Hash
<1> QED
  BY <1>1, <1>2, <1>3, <1>4, <1>5, <1>6

LEMMA JoinRange ==
    ASSUME NEW S, NEW s \in Seq(S), NEW r \in Seq(S)
    PROVE  s \o r \in Seq(S) /\ Range(s \o r) = Range(s) \cup Range(r)
<1> DEFINE m == Len(s)
           n == Len(r)
           a == s \o r
<1>1. m \in Nat /\ n \in Nat /\ DOMAIN s = 1..m /\ DOMAIN r = 1..n
  OBVIOUS
<1>2. /\ a \in Seq(S) /\ DOMAIN a = 1..(m + n)
      /\ \A i \in 1..m : a[i] = s[i]
      /\ \A i \in 1..n : a[m + i] = r[i]
  OBVIOUS
<1> HIDE DEF m, n, a
<1>3. \A i : i \in 1..(m + n) <=> i \in 1..m \/ \E j \in 1..n : i = m + j
  <2>1. ASSUME NEW i \in 1..(m + n), i \notin 1..m
        PROVE  \E j \in 1..n : i = m + j
    <3>1. i - m \in 1..n /\ i = m + (i - m)
      BY <1>1, <2>1
    <3> QED
      BY <3>1
  <2>2. ASSUME NEW j \in 1..n
        PROVE  m + j \in 1..(m + n)
    BY <1>1
  <2>3. ASSUME NEW i \in 1..m
        PROVE  i \in 1..(m + n)
    BY <1>1
  <2> QED
    BY <2>1, <2>2, <2>3
<1>4. /\ Range(a) = {a[i] : i \in 1..(m + n)} /\ Range(s) = {s[i] : i \in 1..m}
      /\ Range(r) = {r[i] : i \in 1..n}
  BY <1>1, <1>2 DEF Range
<1>5. ASSUME NEW x \in Range(a)
      PROVE  x \in Range(s) \cup Range(r)
  BY <1>2, <1>3, <1>4
<1>6. ASSUME NEW x \in Range(s) \cup Range(r)
      PROVE  x \in Range(a)
  <2>1. CASE x \in Range(s)
    BY <1>2, <1>3, <1>4, <2>1
  <2>2. CASE x \in Range(r)
    <3>1. PICK j \in 1..n : x = r[j]
      BY <1>4, <2>2
    <3>2. m + j \in 1..(m + n) /\ a[m + j] = x
      BY <1>2, <1>3, <3>1
    <3> QED
      BY <1>4, <3>2
  <2> QED
    BY <2>1, <2>2
<1> QED
  BY <1>2, <1>5, <1>6 DEF a

\* A table is asked whose bucket is there, ...
LEMMA LookupStep ==
    ASSUME LshInv, NEW t \in Threads, Lookup(t)
    PROVE  LshInv'
<1>1. /\ ObjectInv /\ ThreadsOK /\ SearchingInv /\ FoundInv
      /\ pc[t] = "lookup" /\ at[t] <= Len(index.tables)
      /\ candidates' = [candidates EXCEPT ![t] = @ \o Bucket(Table(t), Hash(t))]
      /\ at' = [at EXCEPT ![t] = @ + 1]
      /\ UNCHANGED <<index, file, builds, savedFrom, pc, query, results>>
  BY DEF LshInv, Lookup
<1>2. /\ IndexOK(index) /\ at[t] \in 1..Len(index.tables) /\ TableOK(Table(t))
      /\ Range(candidates[t]) = Hits(index.tables, at[t] - 1, query[t].vector)
      /\ Hits(index.tables, at[t], query[t].vector)
             = Hits(index.tables, at[t] - 1, query[t].vector)
                   \cup Range(Bucket(Table(t), Hash(t)))
  BY <1>1, AtFacts
<1>3. /\ at \in [Threads -> Nat \ {0}] /\ candidates \in [Threads -> Seq(Points)]
      /\ Len(index.tables) \in Nat
  BY <1>1, <1>2, IndexFacts DEF ThreadsOK
<1>4. Bucket(Table(t), Hash(t)) \in Seq(Points)
  BY <1>2, TableFacts DEF TableOK
<1>5. /\ candidates[t] \o Bucket(Table(t), Hash(t)) \in Seq(Points)
      /\ Range(candidates[t] \o Bucket(Table(t), Hash(t)))
             = Hits(index.tables, at[t], query[t].vector)
  <2>1. candidates[t] \in Seq(Points)
    BY <1>3
  <2> QED
    BY <1>2, <1>4, <2>1, JoinRange
<1>6. /\ at'[t] = at[t] + 1 /\ at[t] + 1 \in Nat \ {0}
      /\ candidates'[t] = candidates[t] \o Bucket(Table(t), Hash(t))
      /\ \A u \in Threads : u # t => at'[u] = at[u] /\ candidates'[u] = candidates[u]
  BY <1>1, <1>3
<1>7. ObjectInv'
  BY <1>1 DEF ObjectInv, IndexOK, Agrees
<1>8. ThreadsOK'
  <2>1. at' \in [Threads -> Nat \ {0}] /\ candidates' \in [Threads -> Seq(Points)]
    BY <1>1, <1>3, <1>5, <1>6
  <2> QED
    BY <1>1, <2>1 DEF ThreadsOK
<1>9. SearchingInv'
  <2> SUFFICES ASSUME NEW u \in Threads, pc[u] # "idle"
               PROVE  /\ IndexOK(index) /\ query[u] \in Queries
                      /\ at'[u] <= Len(index.tables) + (IF pc[u] = "lookup" THEN 1 ELSE 0)
                      /\ Range(candidates'[u]) = Hits(index.tables, at'[u] - 1, query[u].vector)
                      /\ pc[u] = "insert" =>
                            Range(candidates'[u]) = Hits(index.tables, at'[u], query[u].vector)
    BY <1>1 DEF SearchingInv, IndexOK
  <2>1. CASE u = t
    <3>1. at'[t] - 1 = at[t] /\ at'[t] <= Len(index.tables) + 1
      <4>1. at[t] \in Nat /\ at[t] <= Len(index.tables) /\ at'[t] = at[t] + 1
        BY <1>2, <1>6
      <4>2. \A k, l \in Nat : k <= l => (k + 1) - 1 = k /\ k + 1 <= l + 1
        OBVIOUS
      <4> QED
        BY ONLY <1>3, <4>1, <4>2
    <3> QED
      BY <1>1, <1>2, <1>5, <1>6, <2>1, <3>1 DEF SearchingInv
  <2>2. CASE u # t
    BY <1>1, <1>6, <2>2 DEF SearchingInv
  <2> QED
    BY <2>1, <2>2
<1>10. FoundInv'
  BY <1>1 DEF FoundInv, IndexOK
<1> QED
  BY <1>7, <1>8, <1>9, <1>10 DEF LshInv

\* ... or is not, ...
LEMMA MissingStep ==
    ASSUME LshInv, NEW t \in Threads, LookupMissing(t)
    PROVE  LshInv'
<1>1. /\ ObjectInv /\ ThreadsOK /\ SearchingInv /\ FoundInv
      /\ pc[t] = "lookup" /\ at[t] <= Len(index.tables)
      /\ pc' = [pc EXCEPT ![t] = "insert"]
      /\ UNCHANGED <<index, file, builds, savedFrom, query, at, candidates, results>>
  BY DEF LshInv, LookupMissing
<1>2. pc \in [Threads -> {"idle", "lookup", "insert"}]
  BY <1>1 DEF ThreadsOK
<1>3. pc'[t] = "insert" /\ \A u \in Threads : u # t => pc'[u] = pc[u]
  BY <1>1, <1>2
<1>4. ObjectInv'
  BY <1>1 DEF ObjectInv, IndexOK, Agrees
<1>5. ThreadsOK'
  <2>1. pc' \in [Threads -> {"idle", "lookup", "insert"}]
    BY <1>1, <1>2
  <2> QED
    BY <1>1, <2>1 DEF ThreadsOK
<1>6. SearchingInv'
  <2> SUFFICES ASSUME NEW u \in Threads, pc'[u] # "idle"
               PROVE  /\ IndexOK(index) /\ query[u] \in Queries
                      /\ at[u] <= Len(index.tables) + (IF pc'[u] = "lookup" THEN 1 ELSE 0)
                      /\ Range(candidates[u]) = Hits(index.tables, at[u] - 1, query[u].vector)
                      /\ pc'[u] = "insert" =>
                            Range(candidates[u]) = Hits(index.tables, at[u], query[u].vector)
    BY <1>1 DEF SearchingInv, IndexOK
  <2>1. CASE u = t
    <3>1. IndexOK(index) /\ Len(index.tables) \in Nat /\ at[t] \in Nat
      BY <1>1, IndexFacts DEF SearchingInv, ThreadsOK
    <3>2. at[t] <= Len(index.tables) + 0
      BY <1>1, <3>1
    <3>3. Range(Bucket(Table(t), Hash(t))) = {}
      BY DEF LookupMissing, Bucket, Range
    <3>4. Range(candidates[t]) = Hits(index.tables, at[t], query[t].vector)
      BY <1>1, <3>3, AtFacts
    <3> QED
      BY <1>1, <1>3, <2>1, <3>1, <3>2, <3>4 DEF SearchingInv
  <2>2. CASE u # t
    BY <1>1, <1>3, <2>2 DEF SearchingInv
  <2> QED
    BY <2>1, <2>2
<1>7. FoundInv'
  <2> SUFFICES ASSUME NEW u \in Threads, pc'[u] = "idle", query[u] # NoQuery
               PROVE  /\ IndexOK(index) /\ query[u] \in Queries
                      /\ AreClosest(results[u],
                             Hits(index.tables, Len(index.tables), query[u].vector)
                                 \cap query[u].accepts,
                             query[u].res_count, query[u].dist)
    BY <1>1 DEF FoundInv, IndexOK
  <2>1. u # t
    BY <1>3
  <2> QED
    BY <1>1, <1>3, <2>1 DEF FoundInv
<1> QED
  BY <1>4, <1>5, <1>6, <1>7 DEF LshInv

\* ... and is inserted, empty.
LEMMA InsertStep ==
    ASSUME LshInv, NEW t \in Threads, InsertBucket(t)
    PROVE  LshInv'
<1>1. /\ ObjectInv /\ ThreadsOK /\ SearchingInv /\ FoundInv
      /\ pc[t] = "insert"
      /\ index' = [index EXCEPT !.tables[at[t]].hashed_vectors =
                      [b \in DOMAIN @ \cup {Hash(t)} |-> Bucket(Table(t), b)]]
      /\ at' = [at EXCEPT ![t] = @ + 1]
      /\ pc' = [pc EXCEPT ![t] = "lookup"]
      /\ UNCHANGED <<file, builds, savedFrom, query, candidates, results>>
  BY DEF LshInv, InsertBucket
<1>2. /\ pc \in [Threads -> {"idle", "lookup", "insert"}] /\ at \in [Threads -> Nat \ {0}]
      /\ IndexOK(index) /\ Len(index.tables) \in Nat
  BY <1>1, IndexFacts DEF ThreadsOK, SearchingInv
<1>3. at[t] <= Len(index.tables)
  <2>1. at[t] <= Len(index.tables) + 0
    BY <1>1 DEF SearchingInv
  <2> QED
    BY <1>2, <2>1
<1>4. /\ at[t] \in 1..Len(index.tables) /\ TableOK(Table(t))
      /\ Hash(t) \in Range(Table(t).hash)
      /\ Range(candidates[t]) = Hits(index.tables, at[t] - 1, query[t].vector)
      /\ Hits(index.tables, at[t], query[t].vector)
             = Hits(index.tables, at[t] - 1, query[t].vector)
                   \cup Range(Bucket(Table(t), Hash(t)))
  BY <1>1, <1>3, AtFacts
<1>5. /\ IndexOK(index') /\ Len(index'.tables) = Len(index.tables)
      /\ index'.num_tables = index.num_tables /\ index'.table_size = index.table_size
      /\ \A m \in 1..Len(index.tables) : /\ index'.tables[m].hash = index.tables[m].hash
                                         /\ index'.tables[m].size = index.tables[m].size
  <2> DEFINE n == at[t]
             b == Hash(t)
             y == [index EXCEPT !.tables[n].hashed_vectors =
                      [c \in DOMAIN @ \cup {b} |-> Bucket(index.tables[n], c)]]
  <2>1. n \in 1..Len(index.tables) /\ b \in Range(index.tables[n].hash)
    BY <1>4 DEF Table
  <2>2. index' = y
    BY <1>1 DEF Table
  <2> HIDE DEF n, b
  <2>3. /\ IndexOK(y) /\ Len(y.tables) = Len(index.tables)
        /\ y.num_tables = index.num_tables /\ y.table_size = index.table_size
        /\ \A m \in 1..Len(index.tables) : /\ y.tables[m].hash = index.tables[m].hash
                                           /\ y.tables[m].size = index.tables[m].size
    BY <1>2, <2>1, InsertedFacts
  <2> HIDE DEF y
  <2> QED
    BY <2>2, <2>3
<1>6. \A k \in 0..Len(index.tables) : \A v : Hits(index'.tables, k, v) = Hits(index.tables, k, v)
  <2> TAKE k \in 0..Len(index.tables)
  <2> TAKE v
  <2>1. \A m \in 1..k : index'.tables[m].hash = index.tables[m].hash
    BY <1>2, <1>5
  <2> QED
    BY <2>1, SameHits
<1>7. /\ pc'[t] = "lookup" /\ at'[t] = at[t] + 1 /\ at[t] + 1 \in Nat \ {0}
      /\ \A u \in Threads : u # t => pc'[u] = pc[u] /\ at'[u] = at[u]
  BY <1>1, <1>2
<1>8. ObjectInv'
  <2>1. Len(index.tables) \in Nat \ {0} /\ Len(<< >>) = 0
    BY <1>2, <1>4
  <2>2. builds # 0
    BY <1>1, <1>2, <2>1, IndexFacts DEF ObjectInv
  <2>3. builds = 1 => Agrees(index')
    BY <1>1, <1>5 DEF ObjectInv, Agrees
  <2> QED
    BY <1>1, <1>5, <2>2, <2>3 DEF ObjectInv
<1>9. ThreadsOK'
  <2>1. at' \in [Threads -> Nat \ {0}] /\ pc' \in [Threads -> {"idle", "lookup", "insert"}]
    BY <1>1, <1>2, <1>7
  <2> QED
    BY <1>1, <2>1 DEF ThreadsOK
<1>10. SearchingInv'
  <2> SUFFICES ASSUME NEW u \in Threads, pc'[u] # "idle"
               PROVE  /\ query[u] \in Queries
                      /\ at'[u] <= Len(index.tables) + (IF pc'[u] = "lookup" THEN 1 ELSE 0)
                      /\ Range(candidates[u]) = Hits(index'.tables, at'[u] - 1, query[u].vector)
                      /\ pc'[u] = "insert" =>
                            Range(candidates[u]) = Hits(index'.tables, at'[u], query[u].vector)
    BY <1>1, <1>5 DEF SearchingInv
  <2>1. CASE u = t
    <3>1. at'[t] - 1 = at[t] /\ at'[t] <= Len(index.tables) + 1 /\ at[t] \in 0..Len(index.tables)
      <4>1. at[t] \in Nat /\ at[t] <= Len(index.tables) /\ at'[t] = at[t] + 1
        BY <1>2, <1>4, <1>7
      <4> QED
        BY <1>2, <4>1
    <3>2. query[t] \in Queries
      BY <1>1 DEF SearchingInv
    <3>3. Hits(index'.tables, at[t], query[t].vector) = Hits(index.tables, at[t], query[t].vector)
      BY <1>6, <3>1
    <3>4. Range(candidates[t]) = Hits(index.tables, at[t], query[t].vector)
      BY <1>1 DEF SearchingInv
    <3> QED
      BY <1>4, <1>7, <2>1, <3>1, <3>2, <3>3, <3>4
  <2>2. CASE u # t
    <3>1. /\ query[u] \in Queries /\ pc[u] # "idle"
          /\ at[u] <= Len(index.tables) + (IF pc[u] = "lookup" THEN 1 ELSE 0)
          /\ Range(candidates[u]) = Hits(index.tables, at[u] - 1, query[u].vector)
          /\ pc[u] = "insert" =>
                Range(candidates[u]) = Hits(index.tables, at[u], query[u].vector)
      BY <1>1, <1>7, <2>2 DEF SearchingInv
    <3>2. /\ at[u] \in Nat \ {0} /\ at[u] - 1 \in 0..Len(index.tables)
          /\ pc[u] = "insert" => at[u] \in 0..Len(index.tables)
      <4>1. at[u] \in Nat \ {0}
        BY <1>2
      <4>2. \A k \in Nat \ {0}, l \in Nat :
               /\ k <= l + 1 => k - 1 \in 0..l
               /\ k <= l + 0 => k - 1 \in 0..l /\ k \in 0..l
        OBVIOUS
      <4>3. CASE pc[u] = "lookup"
        <5>1. at[u] <= Len(index.tables) + 1
          BY <3>1, <4>3
        <5> QED
          BY ONLY <1>2, <4>1, <4>2, <4>3, <5>1
      <4>4. CASE pc[u] # "lookup"
        <5>1. at[u] <= Len(index.tables) + 0
          BY <3>1, <4>4
        <5> QED
          BY ONLY <1>2, <4>1, <4>2, <5>1
      <4> QED
        BY <4>3, <4>4
    <3>3. /\ Hits(index'.tables, at[u] - 1, query[u].vector)
                 = Hits(index.tables, at[u] - 1, query[u].vector)
          /\ pc[u] = "insert" =>
                Hits(index'.tables, at[u], query[u].vector)
                    = Hits(index.tables, at[u], query[u].vector)
      BY <1>6, <3>2
    <3> QED
      BY <1>7, <2>2, <3>1, <3>3
  <2> QED
    BY <2>1, <2>2
<1>11. FoundInv'
  <2> SUFFICES ASSUME NEW u \in Threads, pc'[u] = "idle", query[u] # NoQuery
               PROVE  /\ query[u] \in Queries
                      /\ AreClosest(results[u],
                             Hits(index'.tables, Len(index'.tables), query[u].vector)
                                 \cap query[u].accepts,
                             query[u].res_count, query[u].dist)
    BY <1>1, <1>5 DEF FoundInv
  <2>1. u # t
    BY <1>7
  <2>2. Hits(index'.tables, Len(index'.tables), query[u].vector)
            = Hits(index.tables, Len(index.tables), query[u].vector)
    BY <1>2, <1>5, <1>6
  <2> QED
    BY <1>1, <1>7, <2>1, <2>2 DEF FoundInv
<1> QED
  BY <1>8, <1>9, <1>10, <1>11 DEF LshInv

\* The candidates become results.
LEMMA FinishStep ==
    ASSUME LshInv, NEW t \in Threads, Finish(t)
    PROVE  LshInv'
<1> DEFINE q == query[t]
           pool == PoolOf(candidates[t], q.res_count, q.dist, q.accepts)
<1>1. /\ ObjectInv /\ ThreadsOK /\ SearchingInv /\ FoundInv
      /\ pc[t] = "lookup" /\ at[t] > Len(index.tables)
      /\ results' = [results EXCEPT ![t] = ResultsOf(pool)]
      /\ pc' = [pc EXCEPT ![t] = "idle"]
      /\ UNCHANGED <<index, file, builds, savedFrom, query, at, candidates>>
  BY DEF LshInv, Finish
<1>2. /\ pc \in [Threads -> {"idle", "lookup", "insert"}] /\ at \in [Threads -> Nat \ {0}]
      /\ candidates \in [Threads -> Seq(Points)]
      /\ results = [u \in Threads |-> results[u]]
  BY <1>1 DEF ThreadsOK
<1>3. /\ IndexOK(index) /\ q \in Queries /\ Len(index.tables) \in Nat
      /\ at[t] <= Len(index.tables) + 1
      /\ Range(candidates[t]) = Hits(index.tables, at[t] - 1, q.vector)
  BY <1>1, IndexFacts DEF SearchingInv
<1>4. at[t] - 1 = Len(index.tables)
  <2>1. \A k, l \in Nat : k > l /\ k <= l + 1 => k - 1 = l
    OBVIOUS
  <2>2. at[t] \in Nat
    BY <1>2
  <2> QED
    BY ONLY <1>1, <1>3, <2>1, <2>2
<1>5. AreClosest(ResultsOf(pool),
                 Hits(index.tables, Len(index.tables), q.vector) \cap q.accepts,
                 q.res_count, q.dist)
  <2> DEFINE size == q.res_count
             dist == q.dist
             accepts == q.accepts
             cands == candidates[t]
             S == Range(cands) \cap accepts
  <2>1. /\ size \in Nat \ {0} /\ dist \in Distances /\ accepts \in SUBSET Points
        /\ cands \in Seq(Points)
    BY <1>2, <1>3, LshAssumption DEF Distances
  <2>2. Range(cands) = Hits(index.tables, Len(index.tables), q.vector)
    BY <1>3, <1>4
  <2>3. pool = PoolOf(cands, size, dist, accepts)
    OBVIOUS
  <2> HIDE DEF size, dist, accepts, cands, pool
  <2>4. Keeps(Points, size, dist, S, pool.addr, pool.size)
    BY <2>1, <2>3, PoolFacts
  <2>5. S \in SUBSET Points
    BY <2>1
  <2> HIDE DEF S
  <2>6. AreClosest(ResultsOf(pool), S, size, dist)
    BY <2>1, <2>4, <2>5, ResultsFacts
  <2> QED
    BY <2>2, <2>6 DEF size, dist, accepts, S
<1> HIDE DEF pool
<1>6. /\ pc'[t] = "idle" /\ results'[t] = ResultsOf(pool)
      /\ \A u \in Threads : u # t => pc'[u] = pc[u] /\ results'[u] = results[u]
  BY <1>1, <1>2
<1>7. ObjectInv'
  BY <1>1 DEF ObjectInv, IndexOK, Agrees
<1>8. ThreadsOK'
  <2>1. /\ pc' \in [Threads -> {"idle", "lookup", "insert"}]
        /\ results' = [u \in Threads |-> results'[u]]
    BY <1>1, <1>2
  <2> QED
    BY <1>1, <2>1 DEF ThreadsOK
<1>9. SearchingInv'
  <2> SUFFICES ASSUME NEW u \in Threads, pc'[u] # "idle"
               PROVE  /\ IndexOK(index) /\ query[u] \in Queries
                      /\ at[u] <= Len(index.tables) + (IF pc'[u] = "lookup" THEN 1 ELSE 0)
                      /\ Range(candidates[u]) = Hits(index.tables, at[u] - 1, query[u].vector)
                      /\ pc'[u] = "insert" =>
                            Range(candidates[u]) = Hits(index.tables, at[u], query[u].vector)
    BY <1>1 DEF SearchingInv, IndexOK
  <2>1. u # t
    BY <1>6
  <2> QED
    BY <1>1, <1>6, <2>1 DEF SearchingInv
<1>10. FoundInv'
  <2> SUFFICES ASSUME NEW u \in Threads, pc'[u] = "idle", query[u] # NoQuery
               PROVE  /\ IndexOK(index) /\ query[u] \in Queries
                      /\ AreClosest(results'[u],
                             Hits(index.tables, Len(index.tables), query[u].vector)
                                 \cap query[u].accepts,
                             query[u].res_count, query[u].dist)
    BY <1>1 DEF FoundInv, IndexOK
  <2>1. CASE u = t
    BY <1>3, <1>5, <1>6, <2>1
  <2>2. CASE u # t
    BY <1>1, <1>6, <2>2 DEF FoundInv
  <2> QED
    BY <2>1, <2>2
<1> QED
  BY <1>7, <1>8, <1>9, <1>10 DEF LshInv

LEMMA LshStep ==
    ASSUME LshInv, [Next]_vars
    PROVE  LshInv'
<1>1. CASE UNCHANGED vars
  BY <1>1 DEF vars, searching, LshInv, ObjectInv, ThreadsOK, SearchingInv, FoundInv,
              IndexOK, Agrees
<1>2. CASE Create
  BY <1>2, CreateFacts
<1>3. CASE Build
  BY <1>3, BuildStep
<1>4. CASE Save
  BY <1>4, SaveStep
<1>5. CASE Load
  BY <1>5, LoadStep
<1>6. ASSUME NEW t \in Threads, Search(t)
      PROVE  LshInv'
  BY <1>6, StartStep, LookupStep, MissingStep, InsertStep, FinishStep DEF Search
<1> QED
  BY <1>1, <1>2, <1>3, <1>4, <1>5, <1>6 DEF Next

\* The tables of an LSH object hold, in every bucket, the points it is for and no
\* others, whether they were built, built again, or loaded; and while threads search
\* and insert buckets each has all that the tables before its own have for its vector.
THEOREM LshIsComplete == Spec => []LshInv
<1>1. Init => LshInv
  BY LshStart
<1>2. LshInv /\ [Next]_vars => LshInv'
  BY LshStep
<1> QED
  BY <1>1, <1>2, PTL DEF Spec

\* The results of process_candidates_into_best_candidates_pool for an LSH index are the
\* closest accepted points at the positions that the tags of the points that collide with
\* the query name, for every hash function, every tag map and any number of threads that
\* search one object at a time.
THEOREM LshResultsAreClosest == Spec => []ResultsAreClosest
<1>1. LshInv => ResultsAreClosest
  <2> SUFFICES ASSUME LshInv,
                      NEW t \in Threads, pc[t] = "idle", query[t] # NoQuery
               PROVE  AreClosest(results[t],
                          Found(index.tables, query[t].vector) \cap query[t].accepts,
                          query[t].res_count, query[t].dist)
    BY DEF ResultsAreClosest
  <2> DEFINE s == index.tables
             v == query[t].vector
  <2>1. /\ IndexOK(index)
        /\ AreClosest(results[t], Hits(s, Len(s), v) \cap query[t].accepts,
                      query[t].res_count, query[t].dist)
    BY DEF LshInv, FoundInv
  <2>2. DOMAIN s = 1..Len(s)
    BY <2>1, IndexFacts
  <2> HIDE DEF s, v
  <2>3. \A n \in 1..Len(s) : Hit(s[n].hash, s[n].hash[v]) =
            {Tag(i) : i \in {j \in Points : s[n].hash[j] = s[n].hash[v]}}
    BY DEF Hit
  <2>4. Hits(s, Len(s), v) = Found(s, v)
    <3>1. \A x : x \in Hits(s, Len(s), v) <=>
              \E n \in 1..Len(s) : \E i \in Points : s[n].hash[i] = s[n].hash[v] /\ x = Tag(i)
      <4> SUFFICES ASSUME NEW x
                   PROVE  x \in Hits(s, Len(s), v) <=>
                            \E n \in 1..Len(s) : \E i \in Points :
                                s[n].hash[i] = s[n].hash[v] /\ x = Tag(i)
        OBVIOUS
      <4>1. x \in Hits(s, Len(s), v) <=>
                \E n \in 1..Len(s) : x \in Hit(s[n].hash, s[n].hash[v])
        BY DEF Hits
      <4>2. \A n \in 1..Len(s) :
                x \in Hit(s[n].hash, s[n].hash[v]) <=>
                    \E i \in Points : s[n].hash[i] = s[n].hash[v] /\ x = Tag(i)
        BY <2>3
      <4> QED
        BY <4>1, <4>2
    <3>2. \A x : x \in Found(s, v) <=>
              \E i \in Points : \E n \in 1..Len(s) : s[n].hash[i] = s[n].hash[v] /\ x = Tag(i)
      BY <2>2 DEF Found, Colliding
    <3> QED
      BY <3>1, <3>2
  <2> QED
    BY <2>1, <2>4 DEF s, v
<1> QED
  BY <1>1, LshIsComplete, PTL

\* What save writes of an object that was built once load accepts, and every vector
\* finds in the loaded tables what it found in those that were saved; of any other object
\* it finds what the tables found that the header announces.
THEOREM LshRoundTrip == Spec => []RoundTrip
<1>1. LshInv => RoundTrip
  <2> SUFFICES ASSUME LshInv
               PROVE  RoundTrip
    OBVIOUS
  <2>1. ASSUME file # None, LoadOutcome(file) = "ok"
        PROVE  /\ file.num_tables <= Len(file.tables)
               /\ \A q \in Queries :
                     Bucketed(LoadedTables(file), q.vector) =
                         Bucketed([n \in 1..file.num_tables |-> file.tables[n]], q.vector)
    <3> DEFINE K == file.num_tables
               r == LoadedTables(file)
               s == [n \in 1..K |-> file.tables[n]]
    <3>1. IndexOK(file)
      BY <2>1 DEF LshInv, ObjectInv
    <3>2. /\ DOMAIN r = 1..K /\ K <= Len(file.tables)
          /\ \A n \in 1..K : /\ r[n].hash = file.tables[n].hash
                             /\ \A b : Bucket(r[n], b) = Bucket(file.tables[n], b)
      BY <2>1, <3>1, LoadedFacts
    <3>3. DOMAIN s = 1..K /\ \A n \in 1..K : s[n] = file.tables[n]
      OBVIOUS
    <3> HIDE DEF r, s
    <3>4. ASSUME NEW v
          PROVE  Bucketed(r, v) = Bucketed(s, v)
      <4>1. \A n \in 1..K : Bucket(r[n], r[n].hash[v]) = Bucket(s[n], s[n].hash[v])
        BY <3>2, <3>3
      <4> QED
        BY <3>2, <3>3, <4>1 DEF Bucketed
    <3> QED
      BY <3>2, <3>4 DEF r, s
  <2>2. ASSUME savedFrom # None
        PROVE  /\ LoadOutcome(file) = "ok"
               /\ \A q \in Queries : Bucketed(LoadedTables(file), q.vector)
                                         = Bucketed(savedFrom.tables, q.vector)
    <3>1. file = savedFrom /\ IndexOK(file) /\ Agrees(file)
      BY <2>2 DEF LshInv, ObjectInv
    <3>2. /\ file # None /\ Len(file.tables) \in Nat
          /\ DOMAIN file.tables = 1..Len(file.tables)
          /\ file.num_tables = Len(file.tables)
          /\ \A n \in 1..Len(file.tables) : file.tables[n].size = file.table_size
      BY <3>1, IndexFacts DEF Agrees
    <3>3. LoadOutcome(file) = "ok"
      BY <3>2 DEF LoadOutcome
    <3> DEFINE s == [n \in 1..file.num_tables |-> file.tables[n]]
    <3>4. DOMAIN s = DOMAIN file.tables /\ \A n \in DOMAIN s : s[n] = file.tables[n]
      BY <3>2
    <3> HIDE DEF s
    <3>5. \A v : Bucketed(s, v) = Bucketed(file.tables, v)
      BY <3>4 DEF Bucketed
    <3> QED
      BY <2>1, <3>1, <3>2, <3>3, <3>5 DEF s
  <2> QED
    BY <2>1, <2>2 DEF RoundTrip
<1> QED
  BY <1>1, LshIsComplete, PTL

----------------------------------------------------------------------------
(* The invariant of the IVF index.                                         *)

\* So many centers, and a list for each.
Shaped(n, centers, lists) ==
    centers \in [0..(n - 1) -> Int] /\ lists \in [0..(n - 1) -> Seq(Points)]

IsClosest(c, i, centers) ==
    /\ c \in DOMAIN centers
    /\ \A e \in DOMAIN centers : Square(Data(i), centers[c]) <= Square(Data(i), centers[e])

\* A point is in one list only, that of a closest center.
InOneList(i, lists, centers) ==
    \E c \in DOMAIN lists : /\ i \in Range(lists[c]) /\ IsClosest(c, i, centers)
                            /\ \A e \in DOMAIN lists : i \in Range(lists[e]) => e = c

\* The lists hold the points of D, each once.
Placed(lists, centers, D) ==
    /\ \A c \in DOMAIN lists : IsInjective(lists[c]) /\ Range(lists[c]) \subseteq D
    /\ \A i \in D : InOneList(i, lists, centers)

\* The points of the blocks before b.
Before(b) == {i \in Points : i < b * block_size}

SavedInv ==
    saved # None =>
        /\ \E n \in Nat : Shaped(n, saved.centers, saved.lists)
        /\ saved.builds \in Nat \ {0}
        /\ saved.builds = 1 => Placed(saved.lists, saved.centers, Points)

\* What is trained on, and that training is a part of building.
TrainInv ==
    /\ training \in {"no", "pick", "lloyd"}
    /\ stage # "train" => training = "no"
    /\ training # "no" => /\ train_data \in (SUBSET Points) \ {{}}
                          /\ picked \in Seq(Points)

\* The points that wait for their turn are those of the block that are in no list.
AssignInv ==
    stage \in {"block", "assign"} =>
        /\ cur_blk \in 0..N_BLOCKS
        /\ closest_centers \in [0..(block_size - 1) -> DOMAIN cluster_centers]
        /\ todo \subseteq Before(cur_blk + 1) \ Before(cur_blk)
        /\ stage = "block" => todo = {}
        /\ stage = "assign" =>
              /\ cur_blk < N_BLOCKS
              /\ \A j \in todo :
                    IsClosest(closest_centers[j - cur_blk * block_size], j, cluster_centers)

\* The points in the lists, at every stage.
Held == CASE stage = "train"  -> {}
          [] stage = "block"  -> Before(cur_blk)
          [] stage = "assign" -> Before(cur_blk + 1) \ todo
          [] stage = "idle"   -> Points

IvfTypes ==
    /\ stage \in {"idle", "train", "block", "assign"}
    /\ times_built \in Nat
    /\ \E n \in Nat : Shaped(n, cluster_centers, inverted_index)
    /\ stage = "idle" /\ times_built = 0 => DOMAIN cluster_centers = {}
    /\ stage # "idle" =>
          times_built # 0 /\ DOMAIN cluster_centers # {} /\ asked = None

IvfInv ==
    /\ IvfTypes /\ SavedInv /\ TrainInv /\ AssignInv
    /\ times_built = 1 => Placed(inverted_index, cluster_centers, Held)
    /\ AnswerIsClosest

\* The distances the centers came from are no smaller than those to the centers.
ResidualInv ==
    /\ training = "pick" => residual = Unknown
    /\ training = "lloyd" /\ residual # Unknown =>
          /\ residual \in Int
          /\ Residual(Assignment, cluster_centers, train_data) <= residual

----------------------------------------------------------------------------
(* Centers and lists.                                                      *)

LEMMA SquareFacts ==
    ASSUME NEW x \in Int, NEW y \in Int
    PROVE  Square(x, y) \in Nat
<1>1. \A d \in Int : d * d \in Nat
  OBVIOUS
<1>2. x - y \in Int
  OBVIOUS
<1> QED
  BY <1>1, <1>2 DEF Square

\* There is a closest center, and Closest finds one.
LEMMA ClosestFacts ==
    ASSUME NEW n \in Nat \ {0}, cluster_centers \in [0..(n - 1) -> Int], NEW x \in Int
    PROVE  /\ Closest(x) \in 0..(n - 1)
           /\ \A e \in 0..(n - 1) :
                 Square(x, cluster_centers[Closest(x)]) <= Square(x, cluster_centers[e])
<1> DEFINE sq(c) == Square(x, cluster_centers[c])
           T == {sq(c) : c \in 0..(n - 1)}
           First(c) == \A e \in 0..(n - 1) : sq(c) < sq(e) \/ (sq(c) = sq(e) /\ c <= e)
<1>1. \A c \in 0..(n - 1) : sq(c) \in Nat
  BY SquareFacts
<1>2. Closest(x) = CHOOSE c \in 0..(n - 1) : First(c)
  <2>1. DOMAIN cluster_centers = 0..(n - 1)
    OBVIOUS
  <2> QED
    BY <2>1 DEF Closest
<1> HIDE DEF sq
<1>3. \E c \in 0..(n - 1) : First(c)
  <2>1. T \in SUBSET Nat /\ T # {}
    <3>1. 0 \in 0..(n - 1)
      OBVIOUS
    <3>2. sq(0) \in T
      BY <3>1
    <3> QED
      BY <1>1, <3>2
  <2> HIDE DEF T
  <2>2. PICK t \in T : \A j \in T : t <= j
    BY <2>1, Least
  <2> DEFINE U == {c \in 0..(n - 1) : sq(c) = t}
  <2>3. U \in SUBSET Nat /\ U # {}
    BY DEF T
  <2> HIDE DEF U
  <2>4. PICK c \in U : \A j \in U : c <= j
    BY <2>3, Least
  <2>5. c \in 0..(n - 1) /\ sq(c) = t
    BY DEF U
  <2>6. ASSUME NEW e \in 0..(n - 1)
        PROVE  sq(c) < sq(e) \/ (sq(c) = sq(e) /\ c <= e)
    <3>1. t <= sq(e) /\ t \in Nat /\ sq(e) \in Nat
      BY <1>1, <2>1, <2>2 DEF T
    <3>2. CASE sq(e) = t
      BY <2>4, <2>5, <3>2 DEF U
    <3>3. CASE sq(e) # t
      BY <2>5, <3>1, <3>3
    <3> QED
      BY <3>2, <3>3
  <2> QED
    BY <2>5, <2>6
<1>4. Closest(x) \in 0..(n - 1) /\ First(Closest(x))
  BY <1>2, <1>3
<1>5. \A e \in 0..(n - 1) : sq(Closest(x)) <= sq(e)
  <2> TAKE e \in 0..(n - 1)
  <2>1. sq(Closest(x)) \in Nat /\ sq(e) \in Nat
    BY <1>1, <1>4
  <2> QED
    BY <1>4, <2>1
<1> QED
  BY <1>4, <1>5 DEF sq

LEMMA AppendOnce ==
    ASSUME NEW S, NEW s \in Seq(S), NEW x \in S, x \notin Range(s), IsInjective(s)
    PROVE  IsInjective(Append(s, x))
<1> DEFINE n == Len(s)
           a == Append(s, x)
<1>1. n \in Nat /\ DOMAIN s = 1..n
  OBVIOUS
<1>2. DOMAIN a = 1..(n + 1) /\ a[n + 1] = x /\ \A i \in 1..n : a[i] = s[i]
  BY AppendProperties
<1> HIDE DEF n, a
<1>3. \A i \in 1..(n + 1) : i \in 1..n \/ i = n + 1
  BY <1>1
<1>4. \A i, j \in 1..n : s[i] = s[j] => i = j
  BY <1>1 DEF IsInjective
<1>5. \A i \in 1..n : s[i] # x
  BY <1>1 DEF Range
<1>6. ASSUME NEW i \in 1..(n + 1), NEW j \in 1..(n + 1), a[i] = a[j]
      PROVE  i = j
  BY <1>2, <1>3, <1>4, <1>5, <1>6
<1> QED
  BY <1>2, <1>6 DEF IsInjective, a

\* A point that was in no list is in one when it is appended to one of a closest center.
LEMMA PlaceOne ==
    ASSUME NEW n \in Nat, NEW centers, NEW lists, Shaped(n, centers, lists),
           NEW D \in SUBSET Points, Placed(lists, centers, D),
           NEW j \in Points \ D, NEW c, IsClosest(c, j, centers)
    PROVE  LET new == [lists EXCEPT ![c] = Append(@, j)]
           IN  Shaped(n, centers, new) /\ Placed(new, centers, D \cup {j})
<1> DEFINE new == [lists EXCEPT ![c] = Append(@, j)]
<1>1. /\ centers \in [0..(n - 1) -> Int] /\ lists \in [0..(n - 1) -> Seq(Points)]
      /\ c \in 0..(n - 1) /\ lists[c] \in Seq(Points)
  BY DEF Shaped, IsClosest
<1>2. /\ Append(lists[c], j) \in Seq(Points)
      /\ Range(Append(lists[c], j)) = Range(lists[c]) \cup {j}
  BY <1>1, AppendRange
<1>3. /\ new \in [0..(n - 1) -> Seq(Points)] /\ DOMAIN new = 0..(n - 1)
      /\ new[c] = Append(lists[c], j)
      /\ \A e \in 0..(n - 1) : e # c => new[e] = lists[e]
  BY <1>1, <1>2
<1> HIDE DEF new
<1>4. \A e \in 0..(n - 1) : IsInjective(lists[e]) /\ Range(lists[e]) \subseteq D
  BY <1>1 DEF Placed
<1>5. /\ Range(new[c]) = Range(lists[c]) \cup {j}
      /\ \A e \in 0..(n - 1) : e # c => Range(new[e]) = Range(lists[e])
  BY <1>2, <1>3
<1>6. IsInjective(new[c])
  <2>1. j \notin Range(lists[c]) /\ IsInjective(lists[c])
    BY <1>1, <1>4
  <2> QED
    BY <1>1, <1>3, <2>1, AppendOnce
<1>7. \A e \in 0..(n - 1) : IsInjective(new[e]) /\ Range(new[e]) \subseteq D \cup {j}
  <2> TAKE e \in 0..(n - 1)
  <2>1. CASE e = c
    BY <1>4, <1>5, <1>6, <2>1
  <2>2. CASE e # c
    BY <1>3, <1>4, <2>2
  <2> QED
    BY <2>1, <2>2
<1>8. ASSUME NEW i \in D
      PROVE  InOneList(i, new, centers)
  <2>1. PICK b \in DOMAIN lists : /\ i \in Range(lists[b]) /\ IsClosest(b, i, centers)
                                  /\ \A e \in DOMAIN lists : i \in Range(lists[e]) => e = b
    BY DEF Placed, InOneList
  <2>2. DOMAIN lists = 0..(n - 1) /\ i # j
    BY <1>1
  <2>3. \A e \in 0..(n - 1) : i \in Range(new[e]) <=> i \in Range(lists[e])
    BY <1>5, <2>2
  <2> QED
    BY <1>3, <2>1, <2>2, <2>3 DEF InOneList
<1>9. InOneList(j, new, centers)
  <2>1. \A e \in 0..(n - 1) : j \in Range(new[e]) <=> e = c
    BY <1>4, <1>5
  <2>2. c \in DOMAIN new /\ j \in Range(new[c]) /\ DOMAIN new = 0..(n - 1)
    BY <1>1, <1>3, <2>1
  <2>3. \A e \in DOMAIN new : j \in Range(new[e]) => e = c
    BY <2>1, <2>2
  <2> QED
    BY <2>2, <2>3 DEF InOneList
<1> QED
  BY <1>1, <1>3, <1>7, <1>8, <1>9 DEF Shaped, Placed, new

\* The points the probed lists hold.
InProbes(lists, probes) == UNION {Range(lists[c]) : c \in Range(probes)}

\* The lists of the probes, one after the other, hold what each of them holds.
LEMMA GatheredFacts ==
    ASSUME NEW D, NEW lists \in [D -> Seq(Points)], NEW k \in Nat, NEW probes \in [1..k -> D]
    PROVE  /\ Gathered(lists, probes, k) \in Seq(Points)
           /\ Range(Gathered(lists, probes, k)) = InProbes(lists, probes)
<1> DEFINE B(g) == [n \in 0..k |-> IF n = 0 THEN << >> ELSE g[n - 1] \o lists[probes[n]]]
           V == Seq(Points)
           step == [n \in 1..k |-> [s \in V |-> s \o lists[probes[n]]]]
           c == CHOOSE g : g = B(g)
<1>1. Gathered(lists, probes, k) = c[k]
  BY DEF Gathered
<1>2. << >> \in V /\ \A n \in 1..k : lists[probes[n]] \in V
  OBVIOUS
<1>3. \A n \in 1..k : \A s \in V : /\ s \o lists[probes[n]] \in V
                                  /\ Range(s \o lists[probes[n]])
                                         = Range(s) \cup Range(lists[probes[n]])
  <2> TAKE n \in 1..k
  <2> TAKE s \in V
  <2>1. lists[probes[n]] \in V
    BY <1>2
  <2> QED
    BY <2>1, JoinRange
<1> HIDE DEF V
<1>4. \E g : g = B(g)
  <2>1. step \in [1..k -> [V -> V]]
    BY <1>3
  <2>2. \A n \in 1..k : \A s \in V : step[n][s] = s \o lists[probes[n]]
    OBVIOUS
  <2> HIDE DEF step
  <2>3. HasValue(k, V, << >>, step)
    BY <1>2, <2>1, Recursion
  <2>4. PICK f : f \in [0..k -> V] /\ f[0] = << >> /\ \A n \in 1..k : f[n] = step[n][f[n - 1]]
    BY <2>3 DEF HasValue
  <2>5. \A n \in 0..k : n # 0 => n \in 1..k /\ n - 1 \in 0..k
    OBVIOUS
  <2>6. \A n \in 0..k : f[n] = IF n = 0 THEN << >> ELSE f[n - 1] \o lists[probes[n]]
    BY <2>2, <2>4, <2>5
  <2>7. f = B(f)
    BY <2>4, <2>6
  <2> QED
    BY <2>7
<1> HIDE DEF B
<1>5. c = B(c)
  BY <1>4
<1> HIDE DEF c
<1>6. c[0] = << >> /\ \A n \in 1..k : c[n] = c[n - 1] \o lists[probes[n]]
  <2> DEFINE Turn(n) == c[n - 1] \o lists[probes[n]]
  <2> HIDE DEF Turn
  <2>1. B(c) = [n \in 0..k |-> IF n = 0 THEN << >> ELSE Turn(n)]
    BY DEF B, Turn
  <2>2. 0 \in 0..k /\ \A n \in 1..k : n \in 0..k /\ n # 0
    OBVIOUS
  <2>3. B(c)[0] = << >> /\ \A n \in 1..k : B(c)[n] = Turn(n)
    BY <2>1, <2>2
  <2> QED
    BY <1>5, <2>3 DEF Turn
<1> DEFINE Upto(n) == UNION {Range(lists[probes[m]]) : m \in 1..n}
           S == {n \in 0..k : c[n] \in V /\ Range(c[n]) = Upto(n)}
<1>7. 0 \in S
  <2>1. Upto(0) = {} /\ Range(<< >>) = {} /\ 0 \in 0..k
    BY DEF Range
  <2> HIDE DEF Upto
  <2> QED
    BY <1>2, <1>6, <2>1
<1>8. ASSUME NEW n \in 0..(k - 1), n \in S
      PROVE  n + 1 \in S
  <2>1. n + 1 \in 1..k /\ n + 1 \in 0..k /\ (n + 1) - 1 = n
    OBVIOUS
  <2>2. c[n] \in V /\ Range(c[n]) = Upto(n)
    BY <1>8
  <2>3. c[n + 1] \in V /\ Range(c[n + 1]) = Range(c[n]) \cup Range(lists[probes[n + 1]])
    BY <1>3, <1>6, <2>1, <2>2
  <2>4. Upto(n + 1) = Upto(n) \cup Range(lists[probes[n + 1]])
    <3> DEFINE F(m) == Range(lists[probes[m]])
    <3> HIDE DEF F
    <3>1. \A m : m \in 1..(n + 1) <=> m \in 1..n \/ m = n + 1
      OBVIOUS
    <3>2. UNION {F(m) : m \in 1..(n + 1)} = (UNION {F(m) : m \in 1..n}) \cup F(n + 1)
      BY <3>1
    <3> QED
      BY <3>2 DEF F
  <2> HIDE DEF Upto
  <2> QED
    BY <2>1, <2>2, <2>3, <2>4
<1> HIDE DEF S
<1>9. \A n \in 0..k : n \in S
  BY <1>7, <1>8, InductionTo
<1>10. c[k] \in V /\ Range(c[k]) = Upto(k)
  <2>1. k \in 0..k
    OBVIOUS
  <2> QED
    BY <1>9, <2>1 DEF S
<1>11. Upto(k) = UNION {Range(lists[e]) : e \in Range(probes)}
  <2>1. Range(probes) = {probes[m] : m \in 1..k}
    BY DEF Range
  <2> QED
    BY <2>1
<1> QED
  BY <1>1, <1>10, <1>11 DEF V, InProbes

----------------------------------------------------------------------------
(* Sums over points.                                                       *)

\* The sums of the first n points, of which the last is that of all.
PartialSums(P, f, S) ==
    /\ P \in [0..NumPoints -> Int] /\ P[0] = 0 /\ P[NumPoints] = SumOver(f, S)
    /\ \A n \in 1..NumPoints : P[n] = P[n - 1] + (IF n - 1 \in S THEN f[n - 1] ELSE 0)

LEMMA SumFacts ==
    ASSUME NEW f, NEW S, \A i \in Points : f[i] \in Int
    PROVE  \E P : PartialSums(P, f, S)
<1> DEFINE K == NumPoints
           x(n) == IF n - 1 \in S THEN f[n - 1] ELSE 0
           B(g) == [n \in 0..K |-> IF n = 0 THEN 0 ELSE g[n - 1] + x(n)]
           V == Int
           step == [n \in 1..K |-> [s \in V |-> s + x(n)]]
           c == CHOOSE g : g = B(g)
<1>1. SumOver(f, S) = c[K]
  BY DEF SumOver
<1>2. K \in Nat /\ \A n \in 1..K : x(n) \in Int
  <2>1. \A n \in 1..K : n - 1 \in Points
    BY DataAssumption DEF Points
  <2> QED
    BY <2>1, DataAssumption
<1> HIDE DEF K, x
<1>3. PICK P : P \in [0..K -> Int] /\ P[0] = 0 /\ \A n \in 1..K : P[n] = P[n - 1] + x(n)
  <2>1. step \in [1..K -> [V -> V]] /\ 0 \in V
    BY <1>2
  <2>2. \A n \in 1..K : \A s \in V : step[n][s] = s + x(n)
    OBVIOUS
  <2> HIDE DEF step, V
  <2>3. HasValue(K, V, 0, step)
    BY <1>2, <2>1, Recursion
  <2>4. PICK g : g \in [0..K -> V] /\ g[0] = 0 /\ \A n \in 1..K : g[n] = step[n][g[n - 1]]
    BY <2>3 DEF HasValue
  <2>5. \A n \in 1..K : n - 1 \in 0..K
    BY <1>2
  <2>6. \A n \in 1..K : g[n] = g[n - 1] + x(n)
    BY <2>2, <2>4, <2>5
  <2> QED
    BY <2>4, <2>6 DEF V
<1>4. \A n \in 0..K : n # 0 => n \in 1..K /\ n - 1 \in 0..K
  BY <1>2
<1>5. P = B(P)
  <2>1. \A n \in 0..K : P[n] = IF n = 0 THEN 0 ELSE P[n - 1] + x(n)
    BY <1>3, <1>4
  <2> QED
    BY <1>3, <2>1
<1>6. c = B(c)
  BY <1>5
<1> HIDE DEF c
<1>7. c[0] = 0 /\ \A n \in 1..K : c[n] = c[n - 1] + x(n)
  <2>1. 0 \in 0..K /\ \A n \in 1..K : n \in 0..K /\ n # 0
    BY <1>2
  <2> DEFINE d == c
             A(n) == d[n - 1] + x(n)
  <2> HIDE DEF d, A
  <2>2. c = [n \in 0..K |-> IF n = 0 THEN 0 ELSE A(n)]
    BY <1>6 DEF A, d
  <2>3. c[0] = 0 /\ \A n \in 1..K : c[n] = A(n)
    BY <2>1, <2>2
  <2> QED
    BY <2>3 DEF A, d
<1> HIDE DEF B
<1> DEFINE T == {n \in 0..K : c[n] = P[n]}
<1>8. 0 \in T
  BY <1>2, <1>3, <1>7
<1>9. ASSUME NEW n \in 0..(K - 1), n \in T
      PROVE  n + 1 \in T
  <2>1. n + 1 \in 1..K /\ n + 1 \in 0..K /\ (n + 1) - 1 = n
    BY <1>2
  <2>2. c[n + 1] = c[n] + x(n + 1) /\ P[n + 1] = P[n] + x(n + 1)
    BY <1>3, <1>7, <2>1
  <2> QED
    BY <1>9, <2>1, <2>2
<1> HIDE DEF T
<1>10. \A n \in 0..K : n \in T
  BY <1>2, <1>8, <1>9, InductionTo
<1>11. c[K] = P[K]
  <2>1. K \in 0..K
    BY <1>2
  <2> QED
    BY <1>10, <2>1 DEF T
<1>12. PartialSums(P, f, S)
  BY <1>1, <1>3, <1>11 DEF PartialSums, K, x
<1> QED
  BY <1>12

LEMMA SumType ==
    ASSUME NEW f, NEW S, \A i \in Points : f[i] \in Int
    PROVE  SumOver(f, S) \in Int
<1>1. PICK P : PartialSums(P, f, S)
  BY SumFacts
<1>2. NumPoints \in 0..NumPoints
  BY DataAssumption
<1> QED
  BY <1>1, <1>2 DEF PartialSums

\* Sums whose terms are in order are.
LEMMA InStep ==
    ASSUME NEW K \in Nat, NEW P \in [0..K -> Int], NEW Q \in [0..K -> Int],
           P[0] <= Q[0], \A n \in 1..K : P[n] - P[n - 1] <= Q[n] - Q[n - 1]
    PROVE  P[K] <= Q[K]
<1> DEFINE T == {n \in 0..K : P[n] <= Q[n]}
<1>1. 0 \in T
  OBVIOUS
<1>2. ASSUME NEW n \in 0..(K - 1), n \in T
      PROVE  n + 1 \in T
  <2>1. n + 1 \in 1..K /\ n + 1 \in 0..K /\ (n + 1) - 1 = n
    OBVIOUS
  <2>2. P[n + 1] - P[n] <= Q[n + 1] - Q[n]
    BY <2>1
  <2>3. P[n] \in Int /\ Q[n] \in Int /\ P[n + 1] \in Int /\ Q[n + 1] \in Int /\ P[n] <= Q[n]
    BY <1>2, <2>1
  <2>4. P[n + 1] <= Q[n + 1]
    BY ONLY <2>2, <2>3
  <2> QED
    BY <2>1, <2>4
<1> HIDE DEF T
<1>3. \A n \in 0..K : n \in T
  BY <1>1, <1>2, InductionTo
<1> QED
  BY <1>3 DEF T

LEMMA SameSteps ==
    ASSUME NEW K \in Nat, NEW P \in [0..K -> Int], NEW Q \in [0..K -> Int],
           P[0] = Q[0], \A n \in 1..K : P[n] - P[n - 1] = Q[n] - Q[n - 1]
    PROVE  P[K] = Q[K]
<1>1. P[0] <= Q[0] /\ Q[0] <= P[0]
  OBVIOUS
<1>2. ASSUME NEW n \in 1..K
      PROVE  P[n] - P[n - 1] <= Q[n] - Q[n - 1] /\ Q[n] - Q[n - 1] <= P[n] - P[n - 1]
  <2>1. P[n] \in Int /\ P[n - 1] \in Int
    OBVIOUS
  <2> QED
    BY <2>1
<1>3. P[K] <= Q[K]
  BY <1>1, <1>2, InStep
<1>4. Q[K] <= P[K]
  BY <1>1, <1>2, InStep
<1>5. P[K] \in Int /\ Q[K] \in Int
  OBVIOUS
<1> QED
  BY ONLY <1>3, <1>4, <1>5

\* A step of a sum.
LEMMA SumTurn ==
    ASSUME NEW P, NEW f, NEW S, PartialSums(P, f, S), \A i \in Points : f[i] \in Int,
           NEW n \in 1..NumPoints
    PROVE  /\ n - 1 \in Points /\ P[n] \in Int /\ P[n - 1] \in Int
           /\ P[n] - P[n - 1] = IF n - 1 \in S THEN f[n - 1] ELSE 0
<1>1. n - 1 \in Points /\ n \in 0..NumPoints /\ n - 1 \in 0..NumPoints
  BY DataAssumption DEF Points
<1> DEFINE x == IF n - 1 \in S THEN f[n - 1] ELSE 0
<1>2. x \in Int /\ P[n] \in Int /\ P[n - 1] \in Int /\ P[n] = P[n - 1] + x
  BY <1>1 DEF PartialSums
<1> HIDE DEF x
<1>3. P[n] - P[n - 1] = x
  BY ONLY <1>2
<1> QED
  BY <1>1, <1>2, <1>3 DEF x

LEMMA SumMonotone ==
    ASSUME NEW f, NEW g, NEW S,
           \A i \in Points : f[i] \in Int /\ g[i] \in Int,
           \A i \in Points : i \in S => f[i] <= g[i]
    PROVE  SumOver(f, S) <= SumOver(g, S)
<1>1. PICK P : PartialSums(P, f, S)
  BY SumFacts
<1>2. PICK Q : PartialSums(Q, g, S)
  BY SumFacts
<1>3. ASSUME NEW n \in 1..NumPoints
      PROVE  P[n] - P[n - 1] <= Q[n] - Q[n - 1]
  <2>1. P[n] - P[n - 1] = (IF n - 1 \in S THEN f[n - 1] ELSE 0) /\ n - 1 \in Points
    BY <1>1, SumTurn
  <2>2. Q[n] - Q[n - 1] = IF n - 1 \in S THEN g[n - 1] ELSE 0
    BY <1>2, SumTurn
  <2> QED
    BY <2>1, <2>2
<1>4. /\ P \in [0..NumPoints -> Int] /\ P[0] = 0 /\ P[NumPoints] = SumOver(f, S)
      /\ Q \in [0..NumPoints -> Int] /\ Q[0] = 0 /\ Q[NumPoints] = SumOver(g, S)
  BY <1>1, <1>2 DEF PartialSums
<1>5. NumPoints \in Nat /\ P[0] <= Q[0]
  BY <1>4, DataAssumption
<1>6. P[NumPoints] <= Q[NumPoints]
  BY <1>3, <1>4, <1>5, InStep
<1> QED
  BY <1>4, <1>6

\* The sum of a set is that of its parts.
LEMMA SumSplit ==
    ASSUME NEW f, NEW S, NEW T, \A i \in Points : f[i] \in Int, T \subseteq S
    PROVE  SumOver(f, S) = SumOver(f, T) + SumOver(f, S \ T)
<1>1. PICK P : PartialSums(P, f, S)
  BY SumFacts
<1>2. PICK Q : PartialSums(Q, f, T)
  BY SumFacts
<1>3. PICK R : PartialSums(R, f, S \ T)
  BY SumFacts
<1> DEFINE K == NumPoints
           W == [n \in 0..K |-> Q[n] + R[n]]
<1>4. /\ P \in [0..K -> Int] /\ P[0] = 0 /\ P[K] = SumOver(f, S)
      /\ Q \in [0..K -> Int] /\ Q[0] = 0 /\ Q[K] = SumOver(f, T)
      /\ R \in [0..K -> Int] /\ R[0] = 0 /\ R[K] = SumOver(f, S \ T)
  BY <1>1, <1>2, <1>3 DEF PartialSums
<1>5. K \in Nat /\ 0 \in 0..K /\ K \in 0..K
  BY DataAssumption
<1> HIDE DEF K
<1>6. /\ W \in [0..K -> Int] /\ W[0] = 0 /\ W[K] = Q[K] + R[K]
      /\ \A n \in 0..K : W[n] = Q[n] + R[n]
  BY <1>4, <1>5
<1> HIDE DEF W
<1>7. ASSUME NEW n \in 1..K
      PROVE  P[n] - P[n - 1] = W[n] - W[n - 1]
  <2>1. /\ P[n] - P[n - 1] = (IF n - 1 \in S THEN f[n - 1] ELSE 0)
        /\ n - 1 \in Points
    BY <1>1, SumTurn DEF K
  <2>2. /\ Q[n] - Q[n - 1] = (IF n - 1 \in T THEN f[n - 1] ELSE 0)
        /\ Q[n] \in Int /\ Q[n - 1] \in Int
    BY <1>2, SumTurn DEF K
  <2>3. /\ R[n] - R[n - 1] = (IF n - 1 \in S \ T THEN f[n - 1] ELSE 0)
        /\ R[n] \in Int /\ R[n - 1] \in Int
    BY <1>3, SumTurn DEF K
  <2>4. W[n] = Q[n] + R[n] /\ W[n - 1] = Q[n - 1] + R[n - 1]
    BY <1>5, <1>6
  <2>5. W[n] - W[n - 1] = (Q[n] - Q[n - 1]) + (R[n] - R[n - 1])
    BY ONLY <2>2, <2>3, <2>4
  <2>6. f[n - 1] \in Int
    BY <2>1
  <2> QED
    BY ONLY <2>1, <2>2, <2>3, <2>5, <2>6, T \subseteq S
<1>8. P[K] = W[K]
  BY <1>4, <1>5, <1>6, <1>7, SameSteps
<1> QED
  BY <1>4, <1>6, <1>8

Ones == [i \in Points |-> 1]

LEMMA SumOnes ==
    ASSUME NEW S \in SUBSET Points
    PROVE  SumOver(Ones, S) = Cardinality(S) /\ IsFiniteSet(S)
<1> DEFINE K == NumPoints
           U(n) == {i \in S : i < n}
           Q == [n \in 0..K |-> Cardinality(U(n))]
<1>1. \A i \in Points : Ones[i] = 1 /\ Ones[i] \in Int
  BY DEF Ones
<1>2. PICK P : PartialSums(P, Ones, S)
  BY <1>1, SumFacts
<1>3. P \in [0..K -> Int] /\ P[0] = 0 /\ P[K] = SumOver(Ones, S)
  BY <1>2 DEF PartialSums
<1>4. K \in Nat /\ 0 \in 0..K /\ K \in 0..K /\ Points = 0..(K - 1)
  BY DataAssumption DEF Points
<1>5. IsFiniteSet(S)
  <2>1. IsFiniteSet(Points)
    BY <1>4, FS_Interval
  <2> QED
    BY <2>1, FS_Subset
<1> HIDE DEF K
<1>6. \A n \in 0..K : IsFiniteSet(U(n)) /\ Cardinality(U(n)) \in Nat
  BY <1>5, FS_Subset, FS_CardinalityType
<1>7. U(0) = {} /\ U(K) = S
  <2>1. \A i \in S : ~ (i < 0) /\ i < K
    BY <1>4
  <2> QED
    BY <2>1
<1>8. ASSUME NEW n \in 1..K
      PROVE  /\ n - 1 \in S => U(n) = U(n - 1) \cup {n - 1}
             /\ n - 1 \notin S => U(n) = U(n - 1)
             /\ n - 1 \notin U(n - 1)
  <2>1. \A i \in S : /\ i < n <=> i < n - 1 \/ i = n - 1
                     /\ i = n - 1 => ~ (i < n - 1)
    BY <1>4
  <2> QED
    BY <2>1
<1> HIDE DEF U
<1>9. /\ Q \in [0..K -> Int] /\ Q[0] = 0 /\ Q[K] = Cardinality(S)
      /\ \A n \in 0..K : Q[n] = Cardinality(U(n))
  <2>1. Cardinality({}) = 0
    BY FS_EmptySet
  <2> DEFINE card(n) == Cardinality(U(n))
  <2>2. \A n \in 0..K : card(n) \in Nat
    BY <1>6
  <2>3. card(0) = 0 /\ card(K) = Cardinality(S) /\ Q = [n \in 0..K |-> card(n)]
    BY <1>7, <2>1
  <2> HIDE DEF card, Q
  <2>4. /\ Q \in [0..K -> Int] /\ Q[0] = 0 /\ Q[K] = Cardinality(S)
        /\ \A n \in 0..K : Q[n] = card(n)
    BY <1>4, <2>2, <2>3
  <2> QED
    BY <2>4 DEF card
<1> HIDE DEF Q
<1>10. ASSUME NEW n \in 1..K
       PROVE  P[n] - P[n - 1] = Q[n] - Q[n - 1]
  <2>1. P[n] - P[n - 1] = IF n - 1 \in S THEN 1 ELSE 0
    BY <1>1, <1>2, SumTurn DEF K
  <2>2. n \in 0..K /\ n - 1 \in 0..K
    BY <1>4
  <2>3. Q[n] = Cardinality(U(n)) /\ Q[n - 1] = Cardinality(U(n - 1)) /\ Q[n - 1] \in Nat
    BY <1>6, <1>9, <2>2
  <2>4. CASE n - 1 \in S
    <3>1. U(n) = U(n - 1) \cup {n - 1} /\ n - 1 \notin U(n - 1)
      BY <1>8, <2>4
    <3> DEFINE A == U(n - 1)
               a == n - 1
    <3>2. IsFiniteSet(A) /\ a \notin A /\ U(n) = A \cup {a}
      BY <1>6, <2>2, <3>1
    <3> HIDE DEF A, a
    <3>3. Cardinality(A \cup {a}) = Cardinality(A) + 1
      BY <3>2, FS_AddElement
    <3>4. Cardinality(U(n)) = Cardinality(U(n - 1)) + 1
      BY <3>2, <3>3 DEF A
    <3> QED
      BY <2>1, <2>3, <2>4, <3>4
  <2>5. CASE n - 1 \notin S
    <3>1. U(n) = U(n - 1)
      BY <1>8, <2>5
    <3> QED
      BY <2>1, <2>3, <2>5, <3>1
  <2> QED
    BY <2>4, <2>5
<1>11. P[K] = Q[K]
  BY <1>3, <1>4, <1>9, <1>10, SameSteps
<1> QED
  BY <1>3, <1>5, <1>9, <1>11

\* The distances of a set to a place x, against those to a place m.
LEMMA SumSquares ==
    ASSUME NEW S \in SUBSET Points, NEW x \in Int, NEW m \in Int
    PROVE  SumOver([i \in Points |-> Square(Data(i), x)], S)
               = SumOver([i \in Points |-> Square(Data(i), m)], S)
                     + (m - x) * (2 * SumOver(Places, S) - (m + x) * SumOver(Ones, S))
<1> DEFINE f == [i \in Points |-> Square(Data(i), x)]
           g == [i \in Points |-> Square(Data(i), m)]
           K == NumPoints
<1>1. \A i \in Points : Data(i) \in Int
  BY KMeansAssumption
<1>2. \A i \in Points : /\ f[i] = (Data(i) - x) * (Data(i) - x) /\ f[i] \in Int
                        /\ g[i] = (Data(i) - m) * (Data(i) - m) /\ g[i] \in Int
                        /\ Places[i] = Data(i) /\ Places[i] \in Int
                        /\ Ones[i] = 1 /\ Ones[i] \in Int
  <2> TAKE i \in Points
  <2>1. f[i] = Square(Data(i), x) /\ g[i] = Square(Data(i), m)
    OBVIOUS
  <2>2. Data(i) \in Int
    BY <1>1
  <2> HIDE DEF f, g
  <2>3. Places[i] = Data(i) /\ Ones[i] = 1
    BY DEF Places, Ones
  <2> QED
    BY <2>1, <2>2, <2>3 DEF Square
<1> HIDE DEF f, g
<1>3. PICK P : PartialSums(P, f, S)
  BY <1>2, SumFacts
<1>4. PICK Q : PartialSums(Q, g, S)
  BY <1>2, SumFacts
<1>5. PICK D : PartialSums(D, Places, S)
  BY <1>2, SumFacts
<1>6. PICK C : PartialSums(C, Ones, S)
  BY <1>2, SumFacts
<1>7. /\ P \in [0..K -> Int] /\ P[0] = 0 /\ P[K] = SumOver(f, S)
      /\ Q \in [0..K -> Int] /\ Q[0] = 0 /\ Q[K] = SumOver(g, S)
      /\ D \in [0..K -> Int] /\ D[0] = 0 /\ D[K] = SumOver(Places, S)
      /\ C \in [0..K -> Int] /\ C[0] = 0 /\ C[K] = SumOver(Ones, S)
  BY <1>3, <1>4, <1>5, <1>6 DEF PartialSums
<1> DEFINE Value(q, d, c) == q + (m - x) * (2 * d - (m + x) * c)
           W == [n \in 0..K |-> Value(Q[n], D[n], C[n])]
<1>8. \A q, d, c \in Int : Value(q, d, c) \in Int
  OBVIOUS
<1>9. Value(0, 0, 0) = 0
  OBVIOUS
<1>10. K \in Nat /\ 0 \in 0..K /\ K \in 0..K
  BY DataAssumption
<1> HIDE DEF K, Value
<1>11. /\ W \in [0..K -> Int] /\ W[0] = 0 /\ W[K] = Value(Q[K], D[K], C[K])
       /\ \A n \in 0..K : W[n] = Value(Q[n], D[n], C[n])
  BY <1>7, <1>8, <1>9, <1>10
<1> HIDE DEF W
<1>12. ASSUME NEW n \in 1..K
       PROVE  P[n] - P[n - 1] = W[n] - W[n - 1]
  <2> DEFINE i == n - 1
             y == Data(i)
  <2>1. i \in Points /\ P[n] - P[i] = (IF i \in S THEN f[i] ELSE 0)
    BY <1>2, <1>3, SumTurn DEF K
  <2>2. Q[n] - Q[i] = (IF i \in S THEN g[i] ELSE 0) /\ Q[n] \in Int /\ Q[i] \in Int
    BY <1>2, <1>4, SumTurn DEF K
  <2>3. D[n] - D[i] = (IF i \in S THEN Places[i] ELSE 0) /\ D[n] \in Int /\ D[i] \in Int
    BY <1>2, <1>5, SumTurn DEF K
  <2>4. C[n] - C[i] = (IF i \in S THEN Ones[i] ELSE 0) /\ C[n] \in Int /\ C[i] \in Int
    BY <1>2, <1>6, SumTurn DEF K
  <2>5. W[n] = Value(Q[n], D[n], C[n]) /\ W[i] = Value(Q[i], D[i], C[i])
    BY <1>10, <1>11
  <2>6. W[i] \in Int
    BY <1>10, <1>11
  <2>7. /\ y \in Int /\ f[i] = (y - x) * (y - x) /\ g[i] = (y - m) * (y - m)
        /\ f[i] \in Int /\ g[i] \in Int
        /\ Places[i] = y /\ Ones[i] = 1
    BY <1>1, <1>2, <2>1
  <2> HIDE DEF i, y
  <2>8. CASE i \in S
    <3>1. Q[n] = Q[i] + (y - m) * (y - m)
      BY <2>2, <2>7, <2>8
    <3>2. D[n] = D[i] + y /\ C[n] = C[i] + 1
      BY <2>3, <2>4, <2>7, <2>8
    <3>3. W[n] = W[i] + (y - x) * (y - x)
      <4>1. ASSUME NEW q \in Int, NEW d \in Int, NEW c \in Int, NEW z \in Int,
                   q = Q[i], d = D[i], c = C[i], z = y
            PROVE  W[n] = W[i] + (z - x) * (z - x)
        <5>1. W[n] = Value(q + (z - m) * (z - m), d + z, c + 1) /\ W[i] = Value(q, d, c)
          BY <2>5, <3>1, <3>2, <4>1
        <5>2. Value(q + (z - m) * (z - m), d + z, c + 1) = Value(q, d, c) + (z - x) * (z - x)
          <6> DEFINE k == m - x
                     s == m + x
                     e == 2 * d - s * c
          <6>1. k \in Int /\ s \in Int /\ s * c \in Int /\ e \in Int
            OBVIOUS
          <6>2. s * (c + 1) = s * c + s
            OBVIOUS
          <6>3. 2 * (d + z) - s * (c + 1) = e + (2 * z - s)
            BY ONLY <6>1, <6>2, d \in Int, z \in Int
          <6>4. k * (e + (2 * z - s)) = k * e + k * (2 * z - s)
            BY ONLY <6>1, z \in Int
          <6>5. (z - x) * (z - x) = (z - m) * (z - m) + k * (2 * z - s)
            OBVIOUS
          <6>6. Value(q, d, c) = q + k * e /\ k * e \in Int /\ k * (2 * z - s) \in Int
            BY DEF Value
          <6>7. Value(q + (z - m) * (z - m), d + z, c + 1)
                    = (q + (z - m) * (z - m)) + k * (2 * (d + z) - s * (c + 1))
            BY DEF Value
          <6>8. (z - m) * (z - m) \in Int
            OBVIOUS
          <6> HIDE DEF k, s, e
          <6> DEFINE a == (z - m) * (z - m)
                     b == (z - x) * (z - x)
                     u == k * e
                     v == k * (2 * z - s)
          <6>9. /\ Value(q + a, d + z, c + 1) = (q + a) + (u + v) /\ b = a + v
                /\ Value(q, d, c) = q + u
                /\ a \in Int /\ u \in Int /\ v \in Int
            BY <6>3, <6>4, <6>5, <6>6, <6>7, <6>8
          <6> HIDE DEF a, b, u, v
          <6>10. Value(q + a, d + z, c + 1) = Value(q, d, c) + b
            BY ONLY <6>9, q \in Int
          <6> QED
            BY <6>10 DEF a, b
        <5> QED
          BY <5>1, <5>2
      <4> QED
        BY <2>2, <2>3, <2>4, <2>7, <4>1
    <3>4. W[n] = W[i] + f[i]
      BY <2>7, <3>3
    <3>5. W[n] - W[i] = f[i]
      BY ONLY <2>6, <2>7, <3>4
    <3> QED
      BY <2>1, <2>8, <3>5 DEF i
  <2>9. CASE i \notin S
    <3>1. Q[n] = Q[i] /\ D[n] = D[i] /\ C[n] = C[i]
      BY <2>2, <2>3, <2>4, <2>9
    <3>2. W[n] = W[i]
      BY <2>5, <3>1
    <3>3. W[n] - W[i] = 0
      BY ONLY <2>6, <3>2
    <3> QED
      BY <2>1, <2>9, <3>3 DEF i
  <2> QED
    BY <2>8, <2>9
<1>13. P[0] = W[0]
  BY <1>7, <1>11
<1>14. P[K] = W[K]
  BY <1>7, <1>10, <1>11, <1>12, <1>13, SameSteps
<1>15. SumOver(f, S) = Value(SumOver(g, S), SumOver(Places, S), SumOver(Ones, S))
  BY <1>7, <1>11, <1>14
<1> QED
  BY <1>15 DEF f, g, Value

\* No place is closer to the points of a set, taken together, than their mean.
LEMMA MeanIsBest ==
    ASSUME NEW S \in SUBSET Points, S # {}, NEW x \in Int
    PROVE  /\ Mean(S) \in Int
           /\ SumOver([i \in Points |-> Square(Data(i), Mean(S))], S)
                  <= SumOver([i \in Points |-> Square(Data(i), x)], S)
<1> DEFINE n == Cardinality(S)
           s == SumOver(Places, S)
           m == s \div n
           f == [i \in Points |-> Square(Data(i), x)]
           g == [i \in Points |-> Square(Data(i), m)]
<1>1. Mean(S) = m
  BY DEF Mean
<1>2. SumOver(Ones, S) = n /\ IsFiniteSet(S)
  BY SumOnes
<1>3. n \in Nat \ {0}
  BY <1>2, FS_CardinalityType, FS_EmptySet
<1>4. s \in Int
  <2>1. \A i \in Points : Places[i] \in Int
    BY KMeansAssumption DEF Places
  <2> QED
    BY <2>1, SumType
<1>5. s % n = 0
  BY KMeansAssumption
<1> HIDE DEF n, s
<1>6. m \in Int /\ s = n * m
  <2>1. s = n * (s \div n) + (s % n) /\ s \div n \in Int
    BY ONLY <1>3, <1>4
  <2>2. n * (s \div n) \in Int
    BY ONLY <1>3, <2>1
  <2> QED
    BY ONLY <1>5, <2>1, <2>2
<1> HIDE DEF m
<1>7. SumOver(f, S) = SumOver(g, S) + (m - x) * (2 * s - (m + x) * n)
  BY <1>2, <1>6, SumSquares DEF s
<1>8. (m - x) * (2 * s - (m + x) * n) = n * ((m - x) * (m - x))
  <2>1. 2 * s - (m + x) * n = n * (m - x)
    BY ONLY <1>3, <1>6, x \in Int
  <2>2. (m - x) * (n * (m - x)) = n * ((m - x) * (m - x))
    BY ONLY <1>3, <1>6, x \in Int
  <2> QED
    BY <2>1, <2>2
<1>9. n * ((m - x) * (m - x)) \in Nat
  <2>1. \A d \in Int : d * d \in Nat
    OBVIOUS
  <2>2. m - x \in Int
    BY <1>6
  <2> DEFINE d == (m - x) * (m - x)
  <2>3. d \in Nat
    BY <2>1, <2>2
  <2> HIDE DEF d
  <2>4. n * d \in Nat
    BY ONLY <1>3, <2>3
  <2> QED
    BY <2>4 DEF d
<1>10. SumOver(g, S) \in Int
  <2>1. \A i \in Points : Square(Data(i), m) \in Int
    BY <1>6, SquareFacts, KMeansAssumption
  <2>2. \A i \in Points : g[i] \in Int
    BY <2>1
  <2> HIDE DEF g
  <2> QED
    BY <2>2, SumType
<1> DEFINE d == n * ((m - x) * (m - x))
<1>11. SumOver(f, S) = SumOver(g, S) + d /\ d \in Nat
  BY <1>7, <1>8, <1>9
<1> HIDE DEF d, f, g
<1>12. SumOver(g, S) <= SumOver(f, S)
  BY ONLY <1>10, <1>11
<1> QED
  BY <1>1, <1>6, <1>12 DEF f, g

LEMMA ResidualType ==
    ASSUME NEW n, NEW a \in [Points -> 0..(n - 1)], NEW centers \in [0..(n - 1) -> Int], NEW S
    PROVE  /\ \A i \in Points : Square(Data(i), centers[a[i]]) \in Int
           /\ Residual(a, centers, S) \in Int
<1> DEFINE f == [i \in Points |-> Square(Data(i), centers[a[i]])]
<1>1. \A i \in Points : Square(Data(i), centers[a[i]]) \in Int
  <2> TAKE i \in Points
  <2> DEFINE y == centers[a[i]]
             x == Data(i)
  <2>1. x \in Int /\ y \in Int
    BY KMeansAssumption
  <2> HIDE DEF x, y
  <2>2. Square(x, y) \in Int
    BY <2>1, SquareFacts
  <2> QED
    BY <2>2 DEF x, y
<1>2. \A i \in Points : f[i] \in Int
  BY <1>1
<1> HIDE DEF f
<1>3. SumOver(f, S) \in Int
  BY <1>2, SumType
<1> QED
  BY <1>1, <1>3 DEF Residual, f

\* Points that are assigned to centers no farther away.
LEMMA CloserCenters ==
    ASSUME NEW n, NEW a \in [Points -> 0..(n - 1)], NEW b \in [Points -> 0..(n - 1)],
           NEW old \in [0..(n - 1) -> Int], NEW new \in [0..(n - 1) -> Int],
           NEW S,
           \A i \in Points : i \in S => Square(Data(i), new[b[i]]) <= Square(Data(i), old[a[i]])
    PROVE  Residual(b, new, S) <= Residual(a, old, S)
<1> DEFINE f == [i \in Points |-> Square(Data(i), new[b[i]])]
           g == [i \in Points |-> Square(Data(i), old[a[i]])]
<1>1. \A i \in Points : Square(Data(i), new[b[i]]) \in Int
  BY ResidualType
<1>2. \A i \in Points : Square(Data(i), old[a[i]]) \in Int
  BY ResidualType
<1>3. /\ \A i \in Points : f[i] \in Int /\ g[i] \in Int
      /\ \A i \in Points : i \in S => f[i] <= g[i]
  BY <1>1, <1>2
<1> HIDE DEF f, g
<1>4. SumOver(f, S) <= SumOver(g, S)
  BY <1>3, SumMonotone
<1> QED
  BY <1>4 DEF Residual, f, g

\* A center that is moved to the mean of its points.
LEMMA MovedCenter ==
    ASSUME NEW n \in Nat, NEW a \in [Points -> 0..(n - 1)], NEW S \in SUBSET Points,
           NEW old \in [0..(n - 1) -> Int], NEW new \in [0..(n - 1) -> Int],
           NEW k \in 0..(n - 1), new[k] = Mean({i \in S : a[i] = k}),
           \A c \in 0..(n - 1) : c # k => new[c] = old[c]
    PROVE  Residual(a, new, S) <= Residual(a, old, S)
<1> DEFINE T == {i \in S : a[i] = k}
           f == [i \in Points |-> Square(Data(i), new[a[i]])]
           g == [i \in Points |-> Square(Data(i), old[a[i]])]
           fk == [i \in Points |-> Square(Data(i), new[k])]
           gk == [i \in Points |-> Square(Data(i), old[k])]
<1>1. /\ \A i \in Points : Square(Data(i), new[a[i]]) \in Int
      /\ \A i \in Points : Square(Data(i), old[a[i]]) \in Int
  <2>1. \A i \in Points : Square(Data(i), new[a[i]]) \in Int
    BY ResidualType
  <2>2. \A i \in Points : Square(Data(i), old[a[i]]) \in Int
    BY ResidualType
  <2> QED
    BY <2>1, <2>2
<1>2. new[k] \in Int /\ old[k] \in Int
  OBVIOUS
<1>3. \A i \in Points : Square(Data(i), new[k]) \in Int /\ Square(Data(i), old[k]) \in Int
  <2> TAKE i \in Points
  <2> DEFINE x == Data(i)
             y == new[k]
             z == old[k]
  <2>1. x \in Int /\ y \in Int /\ z \in Int
    BY <1>2, KMeansAssumption
  <2> HIDE DEF x, y, z
  <2>2. Square(x, y) \in Nat
    BY ONLY <2>1, SquareFacts
  <2>3. Square(x, z) \in Nat
    BY ONLY <2>1, SquareFacts
  <2> QED
    BY <2>2, <2>3 DEF x, y, z
<1>4. /\ \A i \in Points : f[i] = Square(Data(i), new[a[i]]) /\ f[i] \in Int
      /\ \A i \in Points : g[i] = Square(Data(i), old[a[i]]) /\ g[i] \in Int
      /\ \A i \in Points : fk[i] = Square(Data(i), new[k]) /\ fk[i] \in Int
      /\ \A i \in Points : gk[i] = Square(Data(i), old[k]) /\ gk[i] \in Int
  BY <1>1, <1>3
<1>5. T \in SUBSET Points /\ T \subseteq S /\ \A i \in T : a[i] = k
  OBVIOUS
<1>6. \A i \in Points : i \in S \ T => a[i] \in 0..(n - 1) /\ a[i] # k
  OBVIOUS
<1> HIDE DEF f, g
<1>7. SumOver(f, T) <= SumOver(g, T)
  <2>1. CASE T = {}
    <3>1. \A i \in Points : i \in T => f[i] <= g[i]
      BY <2>1
    <3> HIDE DEF T
    <3> QED
      BY <1>4, <3>1, SumMonotone
  <2>2. CASE T # {}
    <3> HIDE DEF T, fk, gk
    <3>1. SumOver(f, T) <= SumOver(fk, T)
      <4>1. \A i \in Points : i \in T => f[i] <= fk[i]
        <5> TAKE i \in Points
        <5> HAVE i \in T
        <5>1. f[i] = fk[i] /\ fk[i] \in Int
          BY <1>4, <1>5
        <5> QED
          BY ONLY <5>1
      <4> QED
        BY <1>4, <4>1, SumMonotone
    <3>2. SumOver(gk, T) <= SumOver(g, T)
      <4>1. \A i \in Points : i \in T => gk[i] <= g[i]
        <5> TAKE i \in Points
        <5> HAVE i \in T
        <5>1. gk[i] = g[i] /\ g[i] \in Int
          BY <1>4, <1>5
        <5> QED
          BY ONLY <5>1
      <4> QED
        BY <1>4, <4>1, SumMonotone
    <3>3. SumOver(fk, T) <= SumOver(gk, T)
      <4> DEFINE m == new[k]
                 x == old[k]
      <4>1. m = Mean(T) /\ x \in Int
        BY <1>2 DEF T
      <4> HIDE DEF m, x
      <4>2. SumOver([i \in Points |-> Square(Data(i), Mean(T))], T)
                <= SumOver([i \in Points |-> Square(Data(i), x)], T)
        BY <1>5, <2>2, <4>1, MeanIsBest
      <4> QED
        BY <4>1, <4>2 DEF fk, gk, m, x
    <3>4. /\ SumOver(f, T) \in Int /\ SumOver(fk, T) \in Int /\ SumOver(gk, T) \in Int
          /\ SumOver(g, T) \in Int
      BY <1>4, SumType
    <3> QED
      BY ONLY <3>1, <3>2, <3>3, <3>4
  <2> QED
    BY <2>1, <2>2
<1> DEFINE R == S \ T
<1>8. SumOver(f, R) <= SumOver(g, R)
  <2>1. \A i \in Points : i \in R => f[i] <= g[i]
    <3> TAKE i \in Points
    <3> HAVE i \in R
    <3>1. new[a[i]] = old[a[i]]
      BY <1>6
    <3> QED
      BY <1>4, <3>1
  <2> HIDE DEF R
  <2> QED
    BY <1>4, <2>1, SumMonotone
<1> HIDE DEF T
<1>9. SumOver(f, S) = SumOver(f, T) + SumOver(f, R)
  <2>1. \A i \in Points : f[i] \in Int
    BY <1>4
  <2> QED
    BY ONLY <1>5, <2>1, SumSplit
<1>10. SumOver(g, S) = SumOver(g, T) + SumOver(g, R)
  <2>1. \A i \in Points : g[i] \in Int
    BY <1>4
  <2> QED
    BY ONLY <1>5, <2>1, SumSplit
<1> HIDE DEF R
<1>11. /\ SumOver(f, T) \in Int /\ SumOver(f, R) \in Int
       /\ SumOver(g, T) \in Int /\ SumOver(g, R) \in Int
  BY <1>4, SumType
<1>12. SumOver(f, S) <= SumOver(g, S)
  BY ONLY <1>7, <1>8, <1>9, <1>10, <1>11
<1> QED
  BY <1>12 DEF Residual, f, g

\* All centers moved to the means of their points, one after the other.
LEMMA MovedCenters ==
    ASSUME NEW n \in Nat, NEW a \in [Points -> 0..(n - 1)], NEW S \in SUBSET Points,
           NEW old \in [0..(n - 1) -> Int], NEW new \in [0..(n - 1) -> Int],
           \A c \in 0..(n - 1) : new[c] = Mean({i \in S : a[i] = c})
    PROVE  Residual(a, new, S) <= Residual(a, old, S)
<1> DEFINE mix(k) == [c \in 0..(n - 1) |-> IF c < k THEN new[c] ELSE old[c]]
           T == {k \in 0..n : Residual(a, mix(k), S) <= Residual(a, old, S)}
<1>1. \A k : mix(k) \in [0..(n - 1) -> Int]
  OBVIOUS
<1>2. mix(0) = old /\ mix(n) = new
  <2>1. \A c \in 0..(n - 1) : ~ (c < 0) /\ c < n
    OBVIOUS
  <2> QED
    BY <2>1
<1>3. ASSUME NEW k \in 0..(n - 1)
      PROVE  /\ mix(k + 1)[k] = Mean({i \in S : a[i] = k})
             /\ \A c \in 0..(n - 1) : c # k => mix(k + 1)[c] = mix(k)[c]
  <2>1. k < k + 1 /\ \A c \in 0..(n - 1) : c # k => (c < k + 1 <=> c < k)
    OBVIOUS
  <2> QED
    BY <2>1
<1> HIDE DEF mix
<1>4. Residual(a, old, S) \in Int /\ \A k : Residual(a, mix(k), S) \in Int
  <2>1. Residual(a, old, S) \in Int
    BY ResidualType
  <2>2. \A k : Residual(a, mix(k), S) \in Int
    BY <1>1, ResidualType
  <2> QED
    BY <2>1, <2>2
<1>5. 0 \in T
  BY <1>2, <1>4
<1>6. ASSUME NEW k \in 0..(n - 1), k \in T
      PROVE  k + 1 \in T
  <2> DEFINE f == mix(k)
             g == mix(k + 1)
  <2>1. /\ f \in [0..(n - 1) -> Int] /\ g \in [0..(n - 1) -> Int]
        /\ g[k] = Mean({i \in S : a[i] = k})
        /\ \A c \in 0..(n - 1) : c # k => g[c] = f[c]
    BY <1>1, <1>3
  <2> HIDE DEF f, g
  <2>2. Residual(a, g, S) <= Residual(a, f, S)
    BY <2>1, MovedCenter
  <2>3. /\ Residual(a, f, S) <= Residual(a, old, S) /\ Residual(a, f, S) \in Int
        /\ Residual(a, g, S) \in Int
    BY <1>4, <1>6 DEF f, g
  <2>4. Residual(a, g, S) <= Residual(a, old, S)
    BY ONLY <1>4, <2>2, <2>3
  <2> QED
    BY <2>4 DEF g
<1> HIDE DEF T
<1>7. \A k \in 0..n : k \in T
  BY <1>5, <1>6, InductionTo
<1>8. Residual(a, mix(n), S) <= Residual(a, old, S)
  BY <1>7 DEF T
<1> QED
  BY <1>2, <1>8

----------------------------------------------------------------------------
(* The training of the centers.                                            *)

\* The darts of k-means++ fall on points of the slice.
LEMMA DartFacts ==
    ASSUME train_data \in (SUBSET Points) \ {{}}
    PROVE  Dart \subseteq Points
<1>1. Max(train_data) \in train_data
  <2>1. NumPoints - 1 \in Nat /\ train_data \in SUBSET (0..(NumPoints - 1)) /\ train_data # {}
    BY DataAssumption DEF Points
  <2>2. \E x \in train_data : \A j \in train_data : j <= x
    BY <2>1, Greatest
  <2>3. \E x \in train_data : \A j \in train_data : x >= j
    BY <2>1, <2>2
  <2> QED
    BY <2>3 DEF Max
<1> QED
  BY <1>1 DEF Dart

\* The assignment of the points to their closest centers.
LEMMA AssignmentFacts ==
    ASSUME NEW n \in Nat \ {0}, cluster_centers \in [0..(n - 1) -> Int]
    PROVE  /\ Assignment \in [Points -> 0..(n - 1)]
           /\ \A i \in Points : \A e \in 0..(n - 1) :
                 Square(Data(i), cluster_centers[Assignment[i]])
                     <= Square(Data(i), cluster_centers[e])
<1>1. ASSUME NEW i \in Points
      PROVE  /\ Closest(Data(i)) \in 0..(n - 1)
             /\ \A e \in 0..(n - 1) : Square(Data(i), cluster_centers[Closest(Data(i))])
                                          <= Square(Data(i), cluster_centers[e])
  <2> DEFINE x == Data(i)
  <2>1. x \in Int
    BY KMeansAssumption
  <2> HIDE DEF x
  <2>2. /\ Closest(x) \in 0..(n - 1)
        /\ \A e \in 0..(n - 1) : Square(x, cluster_centers[Closest(x)])
                                     <= Square(x, cluster_centers[e])
    BY <2>1, ClosestFacts
  <2> QED
    BY <2>2 DEF x
<1>2. \A i \in Points : Assignment[i] = Closest(Data(i))
  BY DEF Assignment
<1>3. Assignment \in [Points -> 0..(n - 1)]
  BY <1>1 DEF Assignment
<1> QED
  BY <1>1, <1>2, <1>3

\* The same of the next state.
Assigned ==
    \A n \in Nat \ {0} : cluster_centers \in [0..(n - 1) -> Int] =>
        /\ Assignment \in [Points -> 0..(n - 1)]
        /\ \A i \in Points : \A e \in 0..(n - 1) :
              Square(Data(i), cluster_centers[Assignment[i]])
                  <= Square(Data(i), cluster_centers[e])

LEMMA NextAssignment == Assigned'
<1>1. Assigned
  BY AssignmentFacts DEF Assigned
<1> QED
  BY <1>1, PTL

\* What lloyds_iter makes of the centers.
LEMMA LloydFacts ==
    ASSUME NEW n \in Nat \ {0}, cluster_centers \in [0..(n - 1) -> Int],
           train_data \in SUBSET Points, Lloyd
    PROVE  /\ cluster_centers' \in [0..(n - 1) -> Int]
           /\ residual' \in Int
           /\ residual' <= Residual(Assignment, cluster_centers, train_data)
           /\ Residual(Assignment', cluster_centers', train_data) <= residual'
<1> DEFINE a == Assignment
           b == Assignment'
           old == cluster_centers
           new == cluster_centers'
           S == train_data
<1>1. /\ a \in [Points -> 0..(n - 1)]
      /\ \A c \in 0..(n - 1) : closest_docs(c) = {i \in S : a[i] = c}
  <2>1. a \in [Points -> 0..(n - 1)]
    BY AssignmentFacts
  <2>2. \A i \in S : a[i] = Closest(Data(i))
    BY DEF Assignment
  <2> QED
    BY <2>1, <2>2 DEF closest_docs
<1>2. new = [c \in 0..(n - 1) |-> Mean(closest_docs(c))] /\ residual' = Residual(a, new, S)
  <2>1. DOMAIN cluster_centers = 0..(n - 1)
    OBVIOUS
  <2> QED
    BY <2>1 DEF Lloyd
<1>3. \A T \in SUBSET Points : Mean(T) \in Int
  <2> TAKE T \in SUBSET Points
  <2>1. CASE T = {}
    BY <2>1 DEF Mean
  <2>2. CASE T # {}
    <3>1. 0 \in Int
      OBVIOUS
    <3> QED
      BY <2>2, <3>1, MeanIsBest
  <2> QED
    BY <2>1, <2>2
<1>4. \A c \in 0..(n - 1) : closest_docs(c) \in SUBSET Points
  BY DEF closest_docs
<1>5. new \in [0..(n - 1) -> Int]
  BY <1>2, <1>3, <1>4
<1>6. \A c \in 0..(n - 1) : new[c] = Mean({i \in S : a[i] = c})
  BY <1>1, <1>2
<1>7. /\ b \in [Points -> 0..(n - 1)]
      /\ \A i \in Points : \A e \in 0..(n - 1) :
            Square(Data(i), new[b[i]]) <= Square(Data(i), new[e])
  <2> QED
    BY <1>5, NextAssignment DEF Assigned
<1> HIDE DEF a, b, new, old
<1>8. old \in [0..(n - 1) -> Int]
  BY DEF old
<1>9. Residual(a, new, S) <= Residual(a, old, S)
  BY <1>1, <1>5, <1>6, <1>8, MovedCenters
<1>10. Residual(b, new, S) <= Residual(a, new, S)
  <2>1. \A i \in Points : i \in S => Square(Data(i), new[b[i]]) <= Square(Data(i), new[a[i]])
    BY <1>1, <1>7
  <2> QED
    BY <1>1, <1>5, <1>7, <2>1, CloserCenters
<1>11. Residual(a, new, S) \in Int
  BY <1>1, <1>5, ResidualType
<1> QED
  BY <1>2, <1>5, <1>9, <1>10, <1>11 DEF a, b, old, new

\* A step of the training.
LEMMA TrainingFacts ==
    ASSUME TrainInv, ResidualInv, KStep,
           NEW n \in Nat \ {0}, cluster_centers \in [0..(n - 1) -> Int]
    PROVE  /\ cluster_centers' \in [0..(n - 1) -> Int]
           /\ training' \in {"no", "pick", "lloyd"}
           /\ training' # "no" => /\ train_data' \in (SUBSET Points) \ {{}}
                                  /\ picked' \in Seq(Points)
           /\ ResidualInv' /\ NeverWorse
<1>1. training \in {"pick", "lloyd"}
  BY DEF KStep, PickNext, Picked, Lloyd
<1>2. train_data \in (SUBSET Points) \ {{}} /\ picked \in Seq(Points)
  BY <1>1 DEF TrainInv
<1>3. CASE PickNext
  <2>1. /\ training = "pick" /\ training' = "pick" /\ train_data' = train_data
        /\ residual' = residual
    BY <1>3 DEF PickNext
  <2>2. PICK tmp_center \in Dart :
          IF tmp_center \in Range(picked) /\ ~ sum_flag'
          THEN UNCHANGED <<picked, cluster_centers>>
          ELSE /\ picked' = Append(picked, tmp_center)
               /\ cluster_centers' = [cluster_centers EXCEPT ![Len(picked)] = Data(tmp_center)]
    BY <1>3 DEF PickNext
  <2>3. tmp_center \in Points /\ Data(tmp_center) \in Int
    BY <1>2, DartFacts, KMeansAssumption
  <2>4. Append(picked, tmp_center) \in Seq(Points)
    BY <1>2, <2>3
  <2>5. cluster_centers' \in [0..(n - 1) -> Int] /\ picked' \in Seq(Points)
    BY <1>2, <2>2, <2>3, <2>4
  <2>6. ResidualInv' /\ NeverWorse
    BY <2>1 DEF ResidualInv, NeverWorse
  <2> QED
    BY <1>2, <2>1, <2>5, <2>6
<1>4. CASE Picked
  <2>1. /\ training = "pick" /\ training' = "lloyd" /\ train_data' = train_data
        /\ residual' = residual /\ picked' = picked /\ cluster_centers' = cluster_centers
    BY <1>4 DEF Picked
  <2>2. residual' = Unknown
    BY <2>1 DEF ResidualInv
  <2>3. ResidualInv' /\ NeverWorse
    BY <2>1, <2>2 DEF ResidualInv, NeverWorse
  <2> QED
    BY <1>2, <2>1, <2>3
<1>5. CASE Lloyd
  <2>1. /\ training = "lloyd" /\ training' \in {"no", "lloyd"} /\ train_data' = train_data
        /\ picked' = picked
    BY <1>5 DEF Lloyd
  <2>2. /\ cluster_centers' \in [0..(n - 1) -> Int]
        /\ residual' \in Int
        /\ residual' <= Residual(Assignment, cluster_centers, train_data)
        /\ Residual(Assignment', cluster_centers', train_data) <= residual'
    BY <1>2, <1>5, LloydFacts
  <2>3. ResidualInv'
    <3>1. training' # "pick"
      BY <2>1
    <3>2. Residual(Assignment, cluster_centers, train_data)'
              = Residual(Assignment', cluster_centers', train_data)
      BY <2>1 DEF Residual
    <3> QED
      BY <2>2, <3>1, <3>2 DEF ResidualInv
  <2>4. NeverWorse
    <3>1. Residual(Assignment, cluster_centers, train_data) \in Int
      BY AssignmentFacts, ResidualType
    <3>2. ASSUME residual # Unknown
          PROVE  residual' <= residual
      <4>1. residual \in Int /\ Residual(Assignment, cluster_centers, train_data) <= residual
        BY <2>1, <3>2 DEF ResidualInv
      <4> QED
        BY ONLY <2>2, <3>1, <4>1
    <3> QED
      BY <3>2 DEF NeverWorse
  <2> QED
    BY <1>2, <2>1, <2>2, <2>3, <2>4
<1> QED
  BY <1>3, <1>4, <1>5 DEF KStep

----------------------------------------------------------------------------
(* The steps of the IVF index.                                             *)

LEMMA IvfBlocks ==
    /\ block_size \in 1..NumPoints /\ N_BLOCKS \in Nat
    /\ NumPoints <= N_BLOCKS * block_size
<1> DEFINE s == block_size
           n == NumPoints
           blocks == N_BLOCKS
<1>1. n \in Nat \ {0} /\ s \in 1..n
  BY DataAssumption, IvfAssumption DEF block_size
<1> HIDE DEF s, n
<1>2. n \div s \in Nat /\ n % s \in 0..(s - 1) /\ n = s * (n \div s) + (n % s)
  BY <1>1
<1>3. blocks = IF n % s = 0 THEN n \div s ELSE n \div s + 1
  BY DEF N_BLOCKS, s, n
<1> DEFINE q == n \div s
           r == n % s
<1>4. /\ q \in Nat /\ r \in 0..(s - 1) /\ n = s * q + r
      /\ blocks = IF r = 0 THEN q ELSE q + 1
  BY <1>2, <1>3
<1> HIDE DEF q, r, blocks
<1>5. s * q = q * s /\ q * s \in Nat /\ (q + 1) * s = q * s + s
  BY <1>1, <1>4
<1>6. blocks \in Nat /\ n <= blocks * s
  BY ONLY <1>1, <1>4, <1>5
<1> QED
  BY ONLY <1>1, <1>6 DEF s, n, blocks

LEMMA BeforeFacts ==
    /\ Before(0) = {} /\ Before(N_BLOCKS) = Points
    /\ \A b \in Nat : /\ Before(b) \subseteq Points /\ Before(b) \subseteq Before(b + 1)
                      /\ b * block_size \in Nat
                      /\ \A j : j \in Before(b + 1) \ Before(b) <=>
                            j \in Points /\ j - b * block_size \in 0..(block_size - 1)
<1>1. /\ block_size \in Nat \ {0} /\ N_BLOCKS \in Nat /\ NumPoints \in Nat
      /\ NumPoints <= N_BLOCKS * block_size /\ N_BLOCKS * block_size \in Nat
  <2> DEFINE s == block_size
             k == N_BLOCKS
             n == NumPoints
  <2>1. n \in Nat /\ s \in 1..n /\ k \in Nat /\ n <= k * s
    BY IvfBlocks, DataAssumption
  <2> HIDE DEF s, k, n
  <2>2. \A a, b \in Nat : a * b \in Nat
    OBVIOUS
  <2>3. s \in Nat \ {0}
    BY <2>1
  <2>4. k * s \in Nat
    BY ONLY <2>1, <2>2, <2>3
  <2> QED
    BY <2>1, <2>3, <2>4 DEF s, k, n
<1>2. Before(0) = {}
  <2>1. 0 * block_size = 0
    BY <1>1
  <2>2. \A i \in Points : ~ (i < 0)
    BY DEF Points
  <2> QED
    BY <2>1, <2>2 DEF Before
<1>3. Before(N_BLOCKS) = Points
  <2>1. \A i \in 0..(NumPoints - 1) : i < N_BLOCKS * block_size
    BY <1>1
  <2> QED
    BY <2>1 DEF Before, Points
<1>4. ASSUME NEW b \in Nat
      PROVE  /\ Before(b) \subseteq Points /\ Before(b) \subseteq Before(b + 1)
             /\ b * block_size \in Nat
             /\ \A j : j \in Before(b + 1) \ Before(b) <=>
                   j \in Points /\ j - b * block_size \in 0..(block_size - 1)
  <2> DEFINE s == block_size
             x == b * s
  <2>1. x \in Nat /\ s \in Nat \ {0} /\ (b + 1) * s = x + s
    BY <1>1
  <2>2. Points \subseteq Nat
    BY DEF Points
  <2> HIDE DEF s, x
  <2>3. \A i \in Nat : /\ i < x => i < x + s
                       /\ i < x + s /\ ~ (i < x) <=> i - x \in 0..(s - 1)
    BY <2>1
  <2>4. /\ Before(b) = {i \in Points : i < x} /\ Before(b + 1) = {i \in Points : i < x + s}
    BY <2>1 DEF Before, x, s
  <2>5. /\ Before(b) \subseteq Points /\ Before(b) \subseteq Before(b + 1)
        /\ \A j : j \in Before(b + 1) \ Before(b) <=> j \in Points /\ j - x \in 0..(s - 1)
    BY <2>2, <2>3, <2>4
  <2> QED
    BY <2>1, <2>5 DEF x, s
<1> QED
  BY <1>2, <1>3, <1>4

LEMMA HeldFacts ==
    /\ stage = "train" => Held = {}
    /\ stage = "block" => Held = Before(cur_blk)
    /\ stage = "assign" => Held = Before(cur_blk + 1) \ todo
    /\ stage = "idle" => Held = Points
BY DEF Held

\* Lists with nothing in them.
LEMMA NothingPlaced ==
    ASSUME NEW lists, \A c \in DOMAIN lists : lists[c] = << >>, NEW centers
    PROVE  Placed(lists, centers, {})
<1>1. Range(<< >>) = {} /\ IsInjective(<< >>)
  BY DEF Range, IsInjective
<1> QED
  BY <1>1 DEF Placed

LEMMA PlacedNothing ==
    ASSUME NEW lists, NEW centers, NEW other, Placed(lists, centers, {})
    PROVE  Placed(lists, other, {})
BY DEF Placed

LEMMA IvfStart ==
    ASSUME IvfInit
    PROVE  IvfInv /\ ResidualInv
<1>1. /\ cluster_centers = [c \in {} |-> 0] /\ inverted_index = [c \in {} |-> << >>]
      /\ stage = "idle" /\ times_built = 0 /\ saved = None /\ asked = None
      /\ training = "no"
  BY DEF IvfInit, KInit
<1>2. Shaped(0, cluster_centers, inverted_index) /\ DOMAIN cluster_centers = {}
  <2>1. 0..(0 - 1) = {}
    OBVIOUS
  <2> QED
    BY <1>1, <2>1 DEF Shaped
<1> QED
  BY <1>1, <1>2 DEF IvfInv, IvfTypes, SavedInv, TrainInv, AssignInv, AnswerIsClosest, ResidualInv

\* A step after which nothing was asked.
LEMMA NothingAsked ==
    ASSUME asked' = None
    PROVE  AnswerIsClosest'
BY DEF AnswerIsClosest

LEMMA CreateIvfStep ==
    ASSUME IvfInv, ResidualInv, CreateIvf
    PROVE  IvfInv' /\ ResidualInv' /\ NeverWorse
<1>1. /\ cluster_centers' = [c \in {} |-> 0] /\ inverted_index' = [c \in {} |-> << >>]
      /\ stage = "idle" /\ stage' = "idle" /\ times_built' = 0 /\ asked' = None
      /\ saved' = saved /\ UNCHANGED kvars
  BY DEF CreateIvf, ForgetAnswer, building
<1>2. training = "no" /\ training' = "no"
  BY <1>1 DEF IvfInv, TrainInv, kvars
<1>3. Shaped(0, cluster_centers', inverted_index') /\ DOMAIN cluster_centers' = {}
  <2>1. 0..(0 - 1) = {}
    OBVIOUS
  <2> QED
    BY <1>1, <2>1 DEF Shaped
<1>4. IvfTypes'
  BY <1>1, <1>3 DEF IvfTypes
<1>5. SavedInv'
  BY <1>1 DEF IvfInv, SavedInv
<1>6. TrainInv' /\ AssignInv' /\ ResidualInv' /\ NeverWorse
  BY <1>1, <1>2 DEF TrainInv, AssignInv, ResidualInv, NeverWorse
<1> QED
  BY <1>1, <1>4, <1>5, <1>6, NothingAsked DEF IvfInv

\* A build begins: the lists are as many as the centers, and empty if it is the first.
LEMMA TrainStep ==
    ASSUME IvfInv, ResidualInv, Train
    PROVE  IvfInv' /\ ResidualInv' /\ NeverWorse
<1>1. /\ stage = "idle" /\ stage' = "train" /\ times_built' = times_built + 1 /\ asked' = None
      /\ saved' = saved
  BY DEF Train, ForgetAnswer
<1>2. PICK n \in ClusterCounts : PickFirst(n) /\ inverted_index' = Resized(inverted_index, n)
  BY DEF Train
<1>3. n \in Nat \ {0}
  BY IvfAssumption
<1>4. /\ training = "no" /\ training' = "pick" /\ residual' = Unknown
      /\ train_data' \in (SUBSET Points) \ {{}}
  BY <1>2 DEF PickFirst
<1>5. PICK init_id \in train_data' :
          /\ picked' = <<init_id>>
          /\ cluster_centers' = [c \in 0..(n - 1) |-> IF c = 0 THEN Data(init_id) ELSE 0]
  BY <1>2 DEF PickFirst
<1>6. init_id \in Points /\ Data(init_id) \in Int /\ 0 \in Int
  BY <1>4, KMeansAssumption
<1>7. cluster_centers' \in [0..(n - 1) -> Int] /\ picked' \in Seq(Points)
  BY <1>5, <1>6
<1>8. PICK k \in Nat : Shaped(k, cluster_centers, inverted_index)
  BY DEF IvfInv, IvfTypes
<1>9. Shaped(n, cluster_centers', inverted_index') /\ DOMAIN cluster_centers' # {}
  <2>1. << >> \in Seq(Points)
    OBVIOUS
  <2>2. inverted_index' \in [0..(n - 1) -> Seq(Points)]
    BY <1>2, <1>8, <2>1 DEF Resized, Shaped
  <2>3. 0 \in 0..(n - 1)
    BY <1>3
  <2> QED
    BY <1>7, <2>2, <2>3 DEF Shaped
<1>10. times_built \in Nat /\ times_built' \in Nat /\ times_built' # 0
  BY <1>1 DEF IvfInv, IvfTypes
<1>11. IvfTypes'
  BY <1>1, <1>3, <1>9, <1>10 DEF IvfTypes
<1>12. SavedInv'
  BY <1>1 DEF IvfInv, SavedInv
<1>13. TrainInv' /\ AssignInv' /\ ResidualInv' /\ NeverWorse
  BY <1>1, <1>4, <1>7 DEF TrainInv, AssignInv, ResidualInv, NeverWorse
<1>14. times_built' = 1 => Placed(inverted_index, cluster_centers, Held)'
  <2> SUFFICES ASSUME times_built' = 1
               PROVE  Placed(inverted_index', cluster_centers', {})
    BY <1>1 DEF Placed, Held, InOneList, IsClosest
  <2>1. times_built = 0
    BY <1>1, <1>10
  <2>2. DOMAIN cluster_centers = {}
    BY <1>1, <2>1 DEF IvfInv, IvfTypes
  <2>3. DOMAIN inverted_index = {}
    BY <1>8, <2>2 DEF Shaped
  <2>4. \A c \in DOMAIN inverted_index' : inverted_index'[c] = << >>
    BY <1>2, <2>3 DEF Resized
  <2> QED
    BY <2>4, NothingPlaced
<1> QED
  BY <1>1, <1>11, <1>12, <1>13, <1>14, NothingAsked DEF IvfInv

\* While it is built, the index has centers.
LEMMA SomeCenters ==
    ASSUME IvfInv, stage # "idle"
    PROVE  /\ \E n \in Nat \ {0} : Shaped(n, cluster_centers, inverted_index)
           /\ times_built \in Nat \ {0} /\ asked = None
           /\ DOMAIN cluster_centers # {}
<1>1. /\ times_built \in Nat \ {0} /\ asked = None /\ DOMAIN cluster_centers # {}
  BY DEF IvfInv, IvfTypes
<1>2. PICK n \in Nat : Shaped(n, cluster_centers, inverted_index)
  BY DEF IvfInv, IvfTypes
<1>3. n # 0
  <2>1. 0..(0 - 1) = {}
    OBVIOUS
  <2> QED
    BY <1>1, <1>2, <2>1 DEF Shaped
<1> QED
  BY <1>1, <1>2, <1>3

\* What a step of a build leaves of the invariant to be shown.
LEMMA StillBuilding ==
    ASSUME IvfInv, stage # "idle", stage' \in {"train", "block", "assign"},
           UNCHANGED <<times_built, saved, searched>>,
           \E n \in Nat \ {0} : Shaped(n, cluster_centers', inverted_index'),
           TrainInv', AssignInv',
           times_built = 1 => Placed(inverted_index, cluster_centers, Held)'
    PROVE  IvfInv'
<1>1. PICK n \in Nat \ {0} : Shaped(n, cluster_centers', inverted_index')
  OBVIOUS
<1>2. times_built' = times_built /\ saved' = saved /\ asked' = asked
  BY DEF searched
<1>3. times_built \in Nat \ {0} /\ asked = None
  BY SomeCenters
<1>4. DOMAIN cluster_centers' # {}
  <2>1. 0 \in 0..(n - 1)
    OBVIOUS
  <2> QED
    BY <1>1, <2>1 DEF Shaped
<1>5. IvfTypes'
  BY <1>1, <1>2, <1>3, <1>4 DEF IvfTypes
<1>6. SavedInv'
  BY <1>2 DEF IvfInv, SavedInv
<1>7. AnswerIsClosest'
  BY <1>2, <1>3, NothingAsked
<1> QED
  BY <1>2, <1>5, <1>6, <1>7 DEF IvfInv

LEMMA TrainingStep ==
    ASSUME IvfInv, ResidualInv, Training
    PROVE  IvfInv' /\ ResidualInv' /\ NeverWorse
<1>1. /\ stage = "train" /\ stage' = "train" /\ KStep /\ inverted_index' = inverted_index
      /\ UNCHANGED <<times_built, saved, searched>>
  BY DEF Training, building
<1>2. PICK n \in Nat \ {0} : Shaped(n, cluster_centers, inverted_index)
  BY <1>1, SomeCenters
<1>3. cluster_centers \in [0..(n - 1) -> Int] /\ TrainInv
  BY <1>2 DEF Shaped, IvfInv
<1>4. cluster_centers' \in [0..(n - 1) -> Int]
  BY <1>1, <1>3, TrainingFacts
<1>5. /\ training' \in {"no", "pick", "lloyd"}
      /\ training' # "no" => /\ train_data' \in (SUBSET Points) \ {{}}
                             /\ picked' \in Seq(Points)
  BY <1>1, <1>3, TrainingFacts
<1>6. ResidualInv' /\ NeverWorse
  BY <1>1, <1>3, TrainingFacts
<1>7. Shaped(n, cluster_centers', inverted_index')
  BY <1>1, <1>2, <1>4 DEF Shaped
<1>8. TrainInv' /\ AssignInv'
  BY <1>1, <1>5 DEF TrainInv, AssignInv
<1>9. ASSUME times_built = 1
      PROVE  Placed(inverted_index, cluster_centers, Held)'
  <2>1. Held = {} /\ Held' = {}
    BY <1>1 DEF Held
  <2>2. Placed(inverted_index, cluster_centers, {})
    BY <1>9, <2>1 DEF IvfInv
  <2>3. Placed(inverted_index', cluster_centers', {})
    BY <1>1, <2>2, PlacedNothing
  <2> QED
    BY <2>1, <2>3 DEF Placed, InOneList, IsClosest
<1> QED
  BY <1>1, <1>6, <1>7, <1>8, <1>9, StillBuilding

\* Without a step of the training nothing changes for it.
LEMMA NotTraining ==
    ASSUME training = "no", training' = "no"
    PROVE  ResidualInv' /\ NeverWorse
BY DEF ResidualInv, NeverWorse

LEMMA TrainedStep ==
    ASSUME IvfInv, ResidualInv, Trained
    PROVE  IvfInv' /\ ResidualInv' /\ NeverWorse
<1>1. /\ stage = "train" /\ stage' = "block" /\ training = "no" /\ training' = "no"
      /\ cluster_centers' = cluster_centers /\ inverted_index' = inverted_index
      /\ UNCHANGED <<times_built, saved, searched>>
      /\ cur_blk' = 0 /\ todo' = {}
      /\ closest_centers' = [n \in 0..(block_size - 1) |-> 0]
  BY DEF Trained
<1>2. PICK n \in Nat \ {0} : Shaped(n, cluster_centers, inverted_index)
  BY <1>1, SomeCenters
<1>3. TrainInv'
  BY <1>1 DEF TrainInv
<1>4. AssignInv'
  <2>1. 0 \in 0..N_BLOCKS
    BY IvfBlocks
  <2>2. 0 \in DOMAIN cluster_centers
    <3>1. 0 \in 0..(n - 1)
      OBVIOUS
    <3> QED
      BY <1>2, <3>1 DEF Shaped
  <2>3. closest_centers' \in [0..(block_size - 1) -> DOMAIN cluster_centers']
    BY <1>1, <2>2
  <2> QED
    BY <1>1, <2>1, <2>3 DEF AssignInv
<1>5. ASSUME times_built = 1
      PROVE  Placed(inverted_index, cluster_centers, Held)'
  <2>1. Held = {} /\ Before(0) = {}
    BY <1>1, BeforeFacts DEF Held
  <2>2. Held' = {}
    BY <1>1, <2>1 DEF Held, Before
  <2>3. Placed(inverted_index, cluster_centers, {})
    BY <1>5, <2>1 DEF IvfInv
  <2> QED
    BY <1>1, <2>2, <2>3 DEF Placed, InOneList, IsClosest
<1> QED
  BY <1>1, <1>2, <1>3, <1>4, <1>5, StillBuilding, NotTraining

LEMMA BlockStep ==
    ASSUME IvfInv, ResidualInv, Block
    PROVE  IvfInv' /\ ResidualInv' /\ NeverWorse
<1> DEFINE s == block_size
           first == cur_blk * s
           num_pts_blk == IF NumPoints - first < s THEN NumPoints - first ELSE s
<1>1. /\ stage = "block" /\ stage' = "assign" /\ cur_blk < N_BLOCKS /\ cur_blk' = cur_blk
      /\ cluster_centers' = cluster_centers /\ inverted_index' = inverted_index
      /\ training' = training
      /\ UNCHANGED <<times_built, saved, searched>>
      /\ todo' = first..(first + s - 1) \cap Points
      /\ closest_centers' = [m \in DOMAIN closest_centers |->
             IF m < num_pts_blk THEN Closest(Data(first + m)) ELSE closest_centers[m]]
  BY DEF Block, kvars
<1>2. PICK n \in Nat \ {0} : Shaped(n, cluster_centers, inverted_index)
  BY <1>1, SomeCenters
<1>3. cluster_centers \in [0..(n - 1) -> Int] /\ DOMAIN cluster_centers = 0..(n - 1)
  BY <1>2 DEF Shaped
<1>4. training = "no" /\ TrainInv'
  BY <1>1 DEF IvfInv, TrainInv
<1>5. /\ cur_blk \in 0..N_BLOCKS
      /\ closest_centers \in [0..(s - 1) -> DOMAIN cluster_centers] /\ todo = {}
  BY <1>1 DEF IvfInv, AssignInv
<1>6. /\ s \in Nat \ {0} /\ cur_blk \in Nat /\ first \in Nat /\ NumPoints \in Nat
      /\ N_BLOCKS \in Nat
  <2>1. s \in 1..NumPoints /\ N_BLOCKS \in Nat /\ NumPoints \in Nat
    BY IvfBlocks, DataAssumption
  <2>2. cur_blk \in Nat
    BY <1>5, <2>1
  <2>3. cur_blk * s \in Nat
    BY <2>2, BeforeFacts
  <2> HIDE DEF s
  <2> QED
    BY <2>1, <2>2, <2>3
<1> HIDE DEF s, first
<1>7. todo' = Before(cur_blk + 1) \ Before(cur_blk)
  <2>1. \A j : j \in Before(cur_blk + 1) \ Before(cur_blk) <=>
            j \in Points /\ j - first \in 0..(s - 1)
    BY <1>6, BeforeFacts DEF first, s
  <2>2. \A j \in Points : j \in first..(first + s - 1) <=> j - first \in 0..(s - 1)
    BY <1>6 DEF Points
  <2>3. \A j : j \in todo' <=> j \in Before(cur_blk + 1) \ Before(cur_blk)
    BY <1>1, <2>1, <2>2
  <2> QED
    BY <2>3
<1>8. ASSUME NEW j \in todo'
      PROVE  /\ j \in Points /\ j - first \in 0..(s - 1)
             /\ closest_centers'[j - first] = Closest(Data(j))
  <2>1. j \in Points /\ j \in first..(first + s - 1) /\ j \in 0..(NumPoints - 1)
    BY <1>1 DEF Points
  <2>2. j - first \in 0..(s - 1) /\ j - first < num_pts_blk /\ first + (j - first) = j
    BY <1>6, <2>1
  <2>3. DOMAIN closest_centers = 0..(s - 1)
    BY <1>5
  <2> HIDE DEF num_pts_blk
  <2> QED
    BY <1>1, <2>1, <2>2, <2>3
<1>9. closest_centers' \in [0..(s - 1) -> DOMAIN cluster_centers']
  <2>1. DOMAIN closest_centers = 0..(s - 1)
    BY <1>5
  <2>2. ASSUME NEW m \in 0..(s - 1)
        PROVE  (IF m < num_pts_blk THEN Closest(Data(first + m)) ELSE closest_centers[m])
                  \in DOMAIN cluster_centers
    <3>1. CASE m < num_pts_blk
      <4>1. first + m \in Points
        BY <1>6, <3>1 DEF Points
      <4>2. Data(first + m) \in Int
        BY <4>1, KMeansAssumption
      <4> QED
        BY <1>3, <3>1, <4>2, ClosestFacts
    <3>2. CASE ~ (m < num_pts_blk)
      BY <1>5, <3>2
    <3> QED
      BY <3>1, <3>2
  <2> HIDE DEF num_pts_blk
  <2> QED
    BY <1>1, <2>1, <2>2
<1>10. ASSUME NEW j \in todo'
       PROVE  IsClosest(closest_centers'[j - first], j, cluster_centers)
  <2>1. Data(j) \in Int
    BY <1>8, KMeansAssumption
  <2>2. /\ Closest(Data(j)) \in 0..(n - 1)
        /\ \A e \in 0..(n - 1) : Square(Data(j), cluster_centers[Closest(Data(j))])
                                    <= Square(Data(j), cluster_centers[e])
    BY <1>3, <2>1, ClosestFacts
  <2> QED
    BY <1>3, <1>8, <2>2 DEF IsClosest
<1>11. AssignInv'
  <2>1. \A j \in todo' :
            IsClosest(closest_centers'[j - cur_blk' * block_size], j, cluster_centers')
    BY <1>1, <1>10 DEF first, s
  <2>2. closest_centers' \in [0..(block_size - 1) -> DOMAIN cluster_centers']
    BY <1>9 DEF s
  <2>3. todo' \subseteq Before(cur_blk' + 1) \ Before(cur_blk')
    BY <1>1, <1>7
  <2> QED
    BY <1>1, <1>5, <2>1, <2>2, <2>3 DEF AssignInv, IsClosest, Before
<1>12. ASSUME times_built = 1
       PROVE  Placed(inverted_index, cluster_centers, Held)'
  <2>1. Held = Before(cur_blk)
    BY <1>1 DEF Held
  <2>2. Before(cur_blk) \subseteq Before(cur_blk + 1)
    BY <1>6, BeforeFacts
  <2>3. Held' = Before(cur_blk)
    BY <1>1, <1>7, <2>2 DEF Held, Before
  <2>4. Placed(inverted_index, cluster_centers, Before(cur_blk))
    BY <1>12, <2>1 DEF IvfInv
  <2> QED
    BY <1>1, <2>3, <2>4 DEF Placed, InOneList, IsClosest
<1>13. ResidualInv' /\ NeverWorse
  BY <1>1, <1>4, NotTraining
<1> QED
  BY <1>1, <1>2, <1>4, <1>11, <1>12, <1>13, StillBuilding

LEMMA AssignStep ==
    ASSUME IvfInv, ResidualInv, NEW j \in Points, Assign(j)
    PROVE  IvfInv' /\ ResidualInv' /\ NeverWorse
<1> DEFINE c == closest_centers[j - cur_blk * block_size]
<1>1. /\ stage = "assign" /\ stage' = "assign" /\ j \in todo /\ cur_blk' = cur_blk
      /\ cluster_centers' = cluster_centers /\ training' = training
      /\ closest_centers' = closest_centers
      /\ UNCHANGED <<times_built, saved, searched>>
      /\ inverted_index' = [inverted_index EXCEPT ![c] = Append(@, j)]
      /\ todo' = todo \ {j}
  BY DEF Assign, kvars
<1>2. PICK n \in Nat \ {0} : Shaped(n, cluster_centers, inverted_index)
  BY <1>1, SomeCenters
<1>3. training = "no" /\ TrainInv'
  BY <1>1 DEF IvfInv, TrainInv
<1>4. /\ cur_blk \in 0..N_BLOCKS /\ cur_blk < N_BLOCKS
      /\ closest_centers \in [0..(block_size - 1) -> DOMAIN cluster_centers]
      /\ todo \subseteq Before(cur_blk + 1) \ Before(cur_blk)
      /\ \A i \in todo :
            IsClosest(closest_centers[i - cur_blk * block_size], i, cluster_centers)
  BY <1>1 DEF IvfInv, AssignInv
<1>5. IsClosest(c, j, cluster_centers)
  BY <1>1, <1>4
<1>6. /\ c \in 0..(n - 1) /\ cluster_centers \in [0..(n - 1) -> Int]
      /\ inverted_index \in [0..(n - 1) -> Seq(Points)]
  BY <1>2, <1>5 DEF Shaped, IsClosest
<1> HIDE DEF c
<1>7. Shaped(n, cluster_centers', inverted_index')
  <2>1. Append(inverted_index[c], j) \in Seq(Points)
    BY <1>6
  <2>2. inverted_index' \in [0..(n - 1) -> Seq(Points)]
    BY <1>1, <1>6, <2>1
  <2> QED
    BY <1>1, <1>6, <2>2 DEF Shaped
<1>8. AssignInv'
  <2>1. todo' \subseteq Before(cur_blk + 1) \ Before(cur_blk)
    BY <1>1, <1>4
  <2>2. \A i \in todo' :
            IsClosest(closest_centers[i - cur_blk * block_size], i, cluster_centers)
    BY <1>1, <1>4
  <2> QED
    BY <1>1, <1>4, <2>1, <2>2 DEF AssignInv, IsClosest, Before
<1>9. ASSUME times_built = 1
      PROVE  Placed(inverted_index, cluster_centers, Held)'
  <2> DEFINE D == Before(cur_blk + 1) \ todo
  <2>1. Held = D
    BY <1>1 DEF Held
  <2>2. j \in Before(cur_blk + 1) /\ Before(cur_blk + 1) \subseteq Points
    BY <1>1, <1>4 DEF Before
  <2>3. D \in SUBSET Points /\ j \notin D
    BY <1>1, <2>2
  <2>4. Held' = D \cup {j}
    <3>1. Held' = Before(cur_blk + 1) \ todo'
      BY <1>1 DEF Held, Before
    <3> QED
      BY <1>1, <2>2, <3>1
  <2>5. Placed(inverted_index, cluster_centers, D)
    BY <1>9, <2>1 DEF IvfInv
  <2> HIDE DEF D
  <2>6. Placed(inverted_index', cluster_centers, D \cup {j})
    BY <1>1, <1>2, <1>5, <2>3, <2>5, PlaceOne
  <2> QED
    BY <1>1, <2>4, <2>6 DEF Placed, InOneList, IsClosest
<1>10. ResidualInv' /\ NeverWorse
  BY <1>1, <1>3, NotTraining
<1> QED
  BY <1>1, <1>7, <1>3, <1>8, <1>9, <1>10, StillBuilding

LEMMA EndBlockStep ==
    ASSUME IvfInv, ResidualInv, EndBlock
    PROVE  IvfInv' /\ ResidualInv' /\ NeverWorse
<1>1. /\ stage = "assign" /\ stage' = "block" /\ todo = {} /\ todo' = {}
      /\ cur_blk' = cur_blk + 1
      /\ cluster_centers' = cluster_centers /\ inverted_index' = inverted_index
      /\ training' = training /\ closest_centers' = closest_centers
      /\ UNCHANGED <<times_built, saved, searched>>
  BY DEF EndBlock, kvars
<1>2. PICK n \in Nat \ {0} : Shaped(n, cluster_centers, inverted_index)
  BY <1>1, SomeCenters
<1>3. training = "no" /\ TrainInv'
  BY <1>1 DEF IvfInv, TrainInv
<1>4. AssignInv'
  <2>1. /\ cur_blk \in 0..N_BLOCKS /\ cur_blk < N_BLOCKS
        /\ closest_centers \in [0..(block_size - 1) -> DOMAIN cluster_centers]
    BY <1>1 DEF IvfInv, AssignInv
  <2>2. cur_blk + 1 \in 0..N_BLOCKS
    BY <2>1, IvfBlocks
  <2> QED
    BY <1>1, <2>1, <2>2 DEF AssignInv
<1>5. ASSUME times_built = 1
      PROVE  Placed(inverted_index, cluster_centers, Held)'
  <2>1. Held = Before(cur_blk + 1)
    BY <1>1 DEF Held
  <2>2. Held' = Before(cur_blk + 1)
    BY <1>1 DEF Held, Before
  <2>3. Placed(inverted_index, cluster_centers, Before(cur_blk + 1))
    BY <1>5, <2>1 DEF IvfInv
  <2> QED
    BY <1>1, <2>2, <2>3 DEF Placed, InOneList, IsClosest
<1>6. ResidualInv' /\ NeverWorse
  BY <1>1, <1>3, NotTraining
<1>7. Shaped(n, cluster_centers', inverted_index')
  BY <1>1, <1>2
<1> QED
  BY <1>1, <1>3, <1>4, <1>5, <1>6, <1>7, StillBuilding

\* All blocks done: all points are in the lists.
LEMMA BuiltStep ==
    ASSUME IvfInv, ResidualInv, Built
    PROVE  IvfInv' /\ ResidualInv' /\ NeverWorse
<1>1. /\ stage = "block" /\ stage' = "idle" /\ cur_blk = N_BLOCKS
      /\ cluster_centers' = cluster_centers /\ inverted_index' = inverted_index
      /\ training' = training /\ times_built' = times_built /\ saved' = saved
      /\ asked' = asked
  BY DEF Built, kvars, searched
<1>2. PICK n \in Nat \ {0} : Shaped(n, cluster_centers, inverted_index)
  BY <1>1, SomeCenters
<1>3. times_built \in Nat \ {0} /\ asked = None
  BY <1>1, SomeCenters
<1>4. IvfTypes'
  BY <1>1, <1>2, <1>3 DEF IvfTypes
<1>5. training = "no" /\ TrainInv'
  BY <1>1 DEF IvfInv, TrainInv
<1>6. SavedInv'
  BY <1>1 DEF IvfInv, SavedInv
<1>7. AssignInv'
  BY <1>1 DEF AssignInv
<1>8. ASSUME times_built = 1
      PROVE  Placed(inverted_index, cluster_centers, Held)'
  <2>1. Held = Points
    BY <1>1, BeforeFacts DEF Held
  <2>2. Held' = Points
    BY <1>1 DEF Held
  <2>3. Placed(inverted_index, cluster_centers, Points)
    BY <1>8, <2>1 DEF IvfInv
  <2> QED
    BY <1>1, <2>2, <2>3 DEF Placed, InOneList, IsClosest
<1>9. ResidualInv' /\ NeverWorse
  BY <1>1, <1>5, NotTraining
<1>10. AnswerIsClosest'
  BY <1>1, <1>3, NothingAsked
<1> QED
  BY <1>1, <1>4, <1>5, <1>6, <1>7, <1>8, <1>9, <1>10 DEF IvfInv

----------------------------------------------------------------------------
(* Searching, saving and loading.                                          *)

\* A choice of lists is one: the zeros of a vector that was not written are the first.
LEMMA ProbesFacts ==
    ASSUME NEW n \in Nat \ {0}, cluster_centers \in [0..(n - 1) -> Int],
           NEW x \in Int, NEW k \in Nat, NEW probes \in Probes(x, k)
    PROVE  probes \in [1..k -> 0..(n - 1)]
<1>1. 0 \in 0..(n - 1) /\ DOMAIN cluster_centers = 0..(n - 1)
  OBVIOUS
<1>2. CASE k > num_clusters
  <2>1. probes = [m \in 1..k |-> 0]
    BY <1>2 DEF Probes
  <2> QED
    BY <1>1, <2>1
<1>3. CASE ~ (k > num_clusters) /\ k = 1
  <2>1. probes = <<Closest(x)>>
    BY <1>3 DEF Probes
  <2>2. Closest(x) \in 0..(n - 1)
    BY ClosestFacts
  <2> QED
    BY <1>3, <2>1, <2>2
<1>4. CASE ~ (k > num_clusters) /\ k # 1
  BY <1>1, <1>4 DEF Probes
<1> QED
  BY <1>2, <1>3, <1>4

\* Where there are clusters there are centers.
LEMMA ClustersFacts ==
    ASSUME IvfInv, num_clusters > 0
    PROVE  /\ DOMAIN cluster_centers # {}
           /\ \E n \in Nat \ {0} : Shaped(n, cluster_centers, inverted_index)
<1>1. DOMAIN cluster_centers # {}
  <2>1. Cardinality({}) = 0
    BY FS_EmptySet
  <2>2. ~ (0 > 0)
    OBVIOUS
  <2> QED
    BY <2>1, <2>2 DEF num_clusters
<1>2. PICK n \in Nat : Shaped(n, cluster_centers, inverted_index)
  BY DEF IvfInv, IvfTypes
<1>3. n # 0
  <2>1. 0..(0 - 1) = {}
    OBVIOUS
  <2> QED
    BY <1>1, <1>2, <2>1 DEF Shaped
<1> QED
  BY <1>1, <1>2, <1>3

LEMMA SearchIvfStep ==
    ASSUME IvfInv, ResidualInv, SearchIvf
    PROVE  IvfInv' /\ ResidualInv' /\ NeverWorse
<1>1. /\ stage = "idle" /\ stage' = "idle" /\ num_clusters > 0
      /\ cluster_centers' = cluster_centers /\ inverted_index' = inverted_index
      /\ times_built' = times_built /\ saved' = saved /\ UNCHANGED kvars
  BY DEF SearchIvf, building
<1>2. PICK q \in IvfQueries : \E probes \in Probes(q.place, q.probe_width) :
          /\ asked' = q
          /\ answer' = ResultsOf(PoolOf(
                 Gathered(inverted_index, probes, q.probe_width),
                 q.res_count, DistTo(q.place), q.accepts))
  BY DEF SearchIvf
<1>3. PICK probes \in Probes(q.place, q.probe_width) :
          /\ asked' = q
          /\ answer' = ResultsOf(PoolOf(
                 Gathered(inverted_index, probes, q.probe_width),
                 q.res_count, DistTo(q.place), q.accepts))
  BY <1>2
<1>4. PICK n \in Nat \ {0} : Shaped(n, cluster_centers, inverted_index)
  BY <1>1, ClustersFacts
<1>5. /\ cluster_centers \in [0..(n - 1) -> Int]
      /\ inverted_index \in [0..(n - 1) -> Seq(Points)]
  BY <1>4 DEF Shaped
<1>6. training = "no" /\ training' = "no" /\ TrainInv'
  BY <1>1 DEF IvfInv, TrainInv, kvars
<1>7. AnswerIsClosest'
  <2> DEFINE dist == DistTo(q.place)
             cands == Gathered(inverted_index, probes, q.probe_width)
             S == Range(cands) \cap q.accepts
             pool == PoolOf(cands, q.res_count, dist, q.accepts)
  <2>1. /\ q.place \in Int /\ q.res_count \in Nat \ {0} /\ q.accepts \in SUBSET Points
        /\ q.probe_width \in Nat /\ \A i \in Points : Square(q.place, Data(i)) < Far
    BY IvfAssumption
  <2>2. dist \in Distances
    <3>1. Far \in Nat
      BY FarAssumption
    <3>2. \A i \in Points : Square(q.place, Data(i)) \in Nat
      BY <2>1, KMeansAssumption, SquareFacts
    <3>3. \A i \in Points : Square(q.place, Data(i)) \in 0..(Far - 1)
      BY <2>1, <3>1, <3>2
    <3> QED
      BY <3>3 DEF Distances, DistTo
  <2>3. probes \in [1..q.probe_width -> 0..(n - 1)]
    BY <1>5, <2>1, ProbesFacts
  <2>4. cands \in Seq(Points)
    BY <1>5, <2>1, <2>3, GatheredFacts
  <2>5. Range(cands) = InProbes(inverted_index, probes)
    <3> DEFINE lists == inverted_index
               k == q.probe_width
               D == 0..(n - 1)
    <3>1. lists \in [D -> Seq(Points)] /\ k \in Nat /\ probes \in [1..k -> D]
      BY <1>5, <2>1, <2>3
    <3> HIDE DEF lists, k, D
    <3>2. Range(Gathered(lists, probes, k)) = InProbes(lists, probes)
      BY ONLY <3>1, GatheredFacts
    <3> QED
      BY <3>2 DEF lists, k
  <2> HIDE DEF dist, cands
  <2>6. Keeps(Points, q.res_count, dist, S, pool.addr, pool.size)
    BY <2>1, <2>2, <2>4, PoolFacts
  <2>7. S \in SUBSET Points
    BY <2>1
  <2> HIDE DEF S, pool
  <2>8. AreClosest(ResultsOf(pool), S, q.res_count, dist)
    BY <2>1, <2>2, <2>6, <2>7, ResultsFacts
  <2>9. answer' = ResultsOf(pool)
    BY <1>3 DEF pool, cands, dist
  <2>10. SearchedPoints(q, probes)' = Range(cands)
    BY <1>1, <2>5 DEF SearchedPoints, InProbes
  <2> QED
    BY <1>1, <1>3, <2>8, <2>9, <2>10
       DEF AnswerIsClosest, Probes, Closest, num_clusters, S, dist, SearchedPoints
<1>8. IvfTypes'
  BY <1>1 DEF IvfInv, IvfTypes
<1>9. SavedInv'
  BY <1>1 DEF IvfInv, SavedInv
<1>10. AssignInv'
  BY <1>1 DEF AssignInv
<1>11. ASSUME times_built = 1
       PROVE  Placed(inverted_index, cluster_centers, Held)'
  <2>1. Held = Points /\ Held' = Points
    BY <1>1 DEF Held
  <2>2. Placed(inverted_index, cluster_centers, Points)
    BY <1>11, <2>1 DEF IvfInv
  <2> QED
    BY <1>1, <2>1, <2>2 DEF Placed, InOneList, IsClosest
<1> QED
  BY <1>1, <1>6, <1>7, <1>8, <1>9, <1>10, <1>11, NotTraining DEF IvfInv

\* An answer that was right stays right while the index does not change.
LEMMA AnswerKept ==
    ASSUME AnswerIsClosest, asked' = asked, answer' = answer,
           cluster_centers' = cluster_centers, inverted_index' = inverted_index
    PROVE  AnswerIsClosest'
<1>1. PICK q : q = asked
  OBVIOUS
<1>2. PICK r : r = answer
  OBVIOUS
<1>3. CASE q = None
  BY <1>1, <1>3, NothingAsked
<1>4. CASE q # None
  <2>1. PICK probes \in Probes(q.place, q.probe_width) :
            AreClosest(r, SearchedPoints(q, probes) \cap q.accepts, q.res_count,
                       DistTo(q.place))
    BY <1>1, <1>2, <1>4 DEF AnswerIsClosest
  <2>2. asked' = q /\ answer' = r
    BY <1>1, <1>2
  <2>3. SearchedPoints(q, probes)' = SearchedPoints(q, probes)
    BY DEF SearchedPoints
  <2> QED
    BY <2>1, <2>2, <2>3
       DEF AnswerIsClosest, Probes, Closest, num_clusters, SearchedPoints
<1> QED
  BY <1>3, <1>4

LEMMA SaveIvfStep ==
    ASSUME IvfInv, ResidualInv, SaveIvf
    PROVE  IvfInv' /\ ResidualInv' /\ NeverWorse
<1>1. /\ stage = "idle" /\ stage' = "idle" /\ num_clusters > 0
      /\ cluster_centers' = cluster_centers /\ inverted_index' = inverted_index
      /\ times_built' = times_built /\ asked' = asked /\ answer' = answer
      /\ training' = training
      /\ saved' = [centers |-> cluster_centers,
                   lists |-> [c \in DOMAIN cluster_centers |-> inverted_index[c]],
                   builds |-> times_built]
  BY DEF SaveIvf, building, kvars, searched
<1>2. DOMAIN cluster_centers # {}
  BY <1>1, ClustersFacts
<1>3. PICK n \in Nat \ {0} : Shaped(n, cluster_centers, inverted_index)
  BY <1>1, ClustersFacts
<1>4. times_built \in Nat \ {0}
  BY <1>1, <1>2 DEF IvfInv, IvfTypes
<1>5. training = "no" /\ TrainInv'
  BY <1>1 DEF IvfInv, TrainInv
<1>6. IvfTypes' /\ AssignInv'
  BY <1>1 DEF IvfInv, IvfTypes, AssignInv
<1>7. /\ saved'.centers = cluster_centers /\ saved'.lists = inverted_index
      /\ saved'.builds = times_built
  <2>1. [c \in DOMAIN cluster_centers |-> inverted_index[c]] = inverted_index
    BY <1>3 DEF Shaped
  <2> QED
    BY <1>1, <2>1
<1>8. times_built = 1 => Placed(inverted_index, cluster_centers, Points)
  BY <1>1 DEF IvfInv, Held
<1>9. SavedInv'
  <2>1. \E m \in Nat : Shaped(m, saved'.centers, saved'.lists)
    BY <1>3, <1>7
  <2>2. saved'.builds \in Nat \ {0}
    BY <1>4, <1>7
  <2>3. saved'.builds = 1 => Placed(saved'.lists, saved'.centers, Points)
    BY <1>7, <1>8
  <2> QED
    BY <2>1, <2>2, <2>3 DEF SavedInv
<1>10. (times_built = 1 => Placed(inverted_index, cluster_centers, Held))'
  <2>1. Held' = Points
    BY <1>1 DEF Held
  <2> QED
    BY <1>1, <1>8, <2>1 DEF Placed, InOneList, IsClosest
<1>11. AnswerIsClosest'
  BY <1>1, AnswerKept DEF IvfInv
<1> QED
  BY <1>1, <1>5, <1>6, <1>9, <1>10, <1>11, NotTraining DEF IvfInv

LEMMA LoadIvfStep ==
    ASSUME IvfInv, ResidualInv, LoadIvf
    PROVE  IvfInv' /\ ResidualInv' /\ NeverWorse
<1>1. /\ stage = "idle" /\ stage' = "idle" /\ saved # None
      /\ cluster_centers' = saved.centers /\ inverted_index' = saved.lists
      /\ times_built' = saved.builds /\ asked' = None
      /\ training' = training /\ saved' = saved
  BY DEF LoadIvf, building, kvars, ForgetAnswer
<1>2. /\ \E n \in Nat : Shaped(n, saved.centers, saved.lists)
      /\ saved.builds \in Nat \ {0}
      /\ saved.builds = 1 => Placed(saved.lists, saved.centers, Points)
  BY <1>1 DEF IvfInv, SavedInv
<1>3. training = "no" /\ TrainInv'
  BY <1>1 DEF IvfInv, TrainInv
<1>4. AssignInv'
  BY <1>1 DEF AssignInv
<1>5. IvfTypes'
  BY <1>1, <1>2 DEF IvfTypes
<1>6. SavedInv'
  BY <1>1 DEF IvfInv, SavedInv
<1>7. (times_built = 1 => Placed(inverted_index, cluster_centers, Held))'
  <2>1. Held' = Points
    BY <1>1 DEF Held
  <2> QED
    BY <1>1, <1>2, <2>1 DEF Placed, InOneList, IsClosest
<1> QED
  BY <1>1, <1>3, <1>4, <1>5, <1>6, <1>7, NotTraining, NothingAsked DEF IvfInv

LEMMA IvfSame ==
    ASSUME IvfInv, ResidualInv, UNCHANGED ivars
    PROVE  IvfInv' /\ ResidualInv' /\ NeverWorse
<1>1. /\ stage' = stage /\ cur_blk' = cur_blk /\ closest_centers' = closest_centers
      /\ todo' = todo /\ times_built' = times_built /\ saved' = saved
      /\ cluster_centers' = cluster_centers /\ inverted_index' = inverted_index
      /\ asked' = asked /\ answer' = answer /\ training' = training
      /\ train_data' = train_data /\ picked' = picked /\ residual' = residual
  BY DEF ivars, kvars, building, searched
<1>2. IvfTypes' /\ SavedInv' /\ TrainInv'
  BY <1>1 DEF IvfInv, IvfTypes, SavedInv, TrainInv
<1>3. AssignInv'
  BY <1>1 DEF IvfInv, AssignInv, IsClosest, Before
<1>4. Held' = Held
  BY <1>1 DEF Held, Before
<1>5. (times_built = 1 => Placed(inverted_index, cluster_centers, Held))'
  BY <1>1, <1>4 DEF IvfInv, Placed, InOneList, IsClosest
<1>6. AnswerIsClosest'
  BY <1>1, AnswerKept DEF IvfInv
<1>7. Assignment' = Assignment
  BY <1>1 DEF Assignment, Closest
<1>8. ResidualInv'
  BY <1>1, <1>7 DEF ResidualInv, Residual
<1>9. NeverWorse
  BY <1>1 DEF NeverWorse, ResidualInv
<1> QED
  BY <1>2, <1>3, <1>5, <1>6, <1>8, <1>9 DEF IvfInv

LEMMA IvfStep ==
    ASSUME IvfInv, ResidualInv, [IvfNext]_ivars
    PROVE  IvfInv' /\ ResidualInv' /\ NeverWorse
<1>1. CASE CreateIvf
  BY <1>1, CreateIvfStep
<1>2. CASE Train
  BY <1>2, TrainStep
<1>3. CASE Training
  BY <1>3, TrainingStep
<1>4. CASE Trained
  BY <1>4, TrainedStep
<1>5. CASE Block
  BY <1>5, BlockStep
<1>6. CASE \E j \in Points : Assign(j)
  <2>1. PICK j \in Points : Assign(j)
    BY <1>6
  <2> QED
    BY <2>1, AssignStep
<1>7. CASE EndBlock
  BY <1>7, EndBlockStep
<1>8. CASE Built
  BY <1>8, BuiltStep
<1>9. CASE SearchIvf
  BY <1>9, SearchIvfStep
<1>10. CASE SaveIvf
  BY <1>10, SaveIvfStep
<1>11. CASE LoadIvf
  BY <1>11, LoadIvfStep
<1>12. CASE UNCHANGED ivars
  BY <1>12, IvfSame
<1> QED
  BY <1>1, <1>2, <1>3, <1>4, <1>5, <1>6, <1>7, <1>8, <1>9, <1>10, <1>11, <1>12 DEF IvfNext

\* In every state of the IVF index what is in the lists, what is on disk and what the
\* training knows fit together (compute_closest_centers, IVFIndex::save and load,
\* run_lloyds).
THEOREM IvfIsConsistent == IvfSpec => [](IvfInv /\ ResidualInv)
<1>1. IvfInit => IvfInv /\ ResidualInv
  BY IvfStart
<1>2. IvfInv /\ ResidualInv /\ [IvfNext]_ivars => (IvfInv /\ ResidualInv)'
  BY IvfStep
<1> QED
  BY <1>1, <1>2, PTL DEF IvfSpec

\* An index that was built once, and saved and loaded since as often as one likes,
\* holds every point exactly once, in the list of a closest center
\* (compute_closest_centers, IVFIndex::save and load).
THEOREM IvfHoldsEveryPointOnce == IvfSpec => []EveryPointOnce
<1>1. IvfInv => EveryPointOnce
  <2> SUFFICES ASSUME IvfInv, stage = "idle", times_built = 1
               PROVE  EveryPointOnce
    BY DEF EveryPointOnce
  <2>1. Placed(inverted_index, cluster_centers, Points)
    BY HeldFacts DEF IvfInv
  <2>2. ASSUME NEW i \in Points
        PROVE  \E c \in DOMAIN inverted_index :
                  /\ {e \in DOMAIN inverted_index : i \in Range(inverted_index[e])} = {c}
                  /\ \A e \in DOMAIN cluster_centers :
                        Square(Data(i), cluster_centers[c])
                            <= Square(Data(i), cluster_centers[e])
    <3>1. PICK c \in DOMAIN inverted_index :
              /\ i \in Range(inverted_index[c]) /\ IsClosest(c, i, cluster_centers)
              /\ \A e \in DOMAIN inverted_index : i \in Range(inverted_index[e]) => e = c
      BY <2>1 DEF Placed, InOneList
    <3>2. {e \in DOMAIN inverted_index : i \in Range(inverted_index[e])} = {c}
      BY <3>1
    <3> QED
      BY <3>1, <3>2 DEF IsClosest
  <2> QED
    BY <2>1, <2>2 DEF EveryPointOnce, Placed
<1> QED
  BY <1>1, IvfIsConsistent, PTL

\* What IVFIndex::search answers are the closest accepted points of the lists it
\* probed, each once, and no fewer than there are.
THEOREM IvfAnswersAreClosest == IvfSpec => []AnswerIsClosest
<1>1. IvfInv => AnswerIsClosest
  BY DEF IvfInv
<1> QED
  BY <1>1, IvfIsConsistent, PTL

\* An iteration of run_lloyds never leaves the slice farther from its centers than the
\* one before, although lloyds_iter throws a center without points to the origin.
THEOREM LloydNeverWorse == IvfSpec => ResidualNeverGrows
<1>1. IvfInv /\ ResidualInv /\ [IvfNext]_ivars => [NeverWorse]_ivars
  BY IvfStep
<1> QED
  BY <1>1, IvfIsConsistent, PTL DEF IvfSpec, ResidualNeverGrows
=============================================================================
