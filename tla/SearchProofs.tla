---------------------------- MODULE SearchProofs ----------------------------
(***************************************************************************)
(* Proofs about a search and its answers, for every graph, data set, query *)
(* and pool size, while other threads replace lists.                       *)
(***************************************************************************)
EXTENDS SearchEvaluation, PoolProofs, Induction, TLAPS, FiniteSetTheorems, SequenceTheorems

----------------------------------------------------------------------------
(* The invariant of a search.                                              *)

QueryOK ==
    /\ query.dist \in [Points -> 0..(Far - 1)]
    /\ query.accepts \subseteq Points
    /\ query.L \in Nat \ {0}
    /\ query.init_ids \in Seq(Points)
    /\ query.res_count \in 1..(query.L + 1)
    /\ query.writes \subseteq Points \X Seq(Points)

SearchOK ==
    /\ QueryOK
    /\ out_nbrs \in [Points -> Seq(Points)]
    /\ pc \in {"seed", "scan", "merge", "done"}
    /\ k \in Nat /\ best \in Nat /\ m \in Nat \ {0}
    /\ inserted \subseteq Points
    /\ des \in Seq(Points) /\ expanded \in Seq(Points)

\* Slots not filled hold id 0, unless the pool was full.
UnfilledOK == \A i \in 0..query.L : l < query.L /\ l <= i => addr[i].id = 0

PoolOK == Keeps(Points, query.L, query.dist, inserted, addr, l) /\ UnfilledOK

\* What the flags, the scan and the list in hand say to each other.
ScanOK ==
    /\ pc = "seed" => l = 0 /\ k = 0 /\ inserted = {} /\ expanded = << >>
    /\ pc # "merge" => des = << >>
    /\ Range(expanded) \subseteq inserted
    /\ \A i \in 0..(l - 1) : addr[i].flag <=> addr[i].id \notin Range(expanded)
    /\ pc = "scan" => \A i \in 0..(l - 1) : i < k => ~ addr[i].flag
    /\ pc = "merge" => /\ k < l
                       /\ \A i \in 0..(l - 1) : i <= k /\ i < best => ~ addr[i].flag

DoneOK ==
    pc = "done" =>
        /\ results = [i \in 1..query.res_count |->
                         [tag |-> Tag(addr[i - 1].id), distance |-> addr[i - 1].distance]]
        /\ returned = IF query.res_count < l THEN query.res_count ELSE l
        /\ k >= l
        /\ \A i \in 0..(l - 1) : ~ addr[i].flag

SInv == SearchOK /\ PoolOK /\ ScanOK /\ DoneOK

\* The seeds fit in the array.
LEMMA SeedsFacts ==
    ASSUME QueryOK
    PROVE  /\ Seeds \subseteq Points /\ IsFiniteSet(Seeds)
           /\ Cardinality(Seeds) \in 0..query.L
<1> DEFINE s == query.init_ids
           first == {i \in DOMAIN s : \A j \in 1..(i - 1) : s[j] # s[i]}
           N == {n \in first : Cardinality({j \in first : j < n}) < query.L}
<1>1. s \in Seq(Points) /\ Len(s) \in Nat /\ DOMAIN s = 1..Len(s) /\ query.L \in Nat \ {0}
  BY DEF QueryOK
<1>2. Seeds = {s[i] : i \in N}
  BY DEF Seeds
<1>3. N \subseteq 1..Len(s) /\ first \subseteq 1..Len(s)
  BY <1>1
<1>4. \A n \in N : Cardinality({j \in first : j < n}) < query.L
  OBVIOUS
<1> HIDE DEF N, first
<1>5. IsFiniteSet(1..Len(s))
  BY <1>1, FS_Interval
<1>6. IsFiniteSet(N)
  BY <1>3, <1>5, FS_Subset
<1>7. Cardinality(N) \in Nat /\ Cardinality(N) <= query.L
  <2>1. CASE N = {}
    BY <1>1, <2>1, FS_EmptySet
  <2>2. CASE N # {}
    <3>1. N \in SUBSET (0..Len(s))
      BY <1>1, <1>3
    <3>2. PICK x \in N : \A j \in N : j <= x
      BY <1>1, <2>2, <3>1, Greatest
    <3> DEFINE F == {j \in first : j < x}
    <3>3. IsFiniteSet(F)
      <4>1. F \in SUBSET (1..Len(s))
        BY <1>3
      <4> QED
        BY <1>5, <4>1, FS_Subset
    <3>4. N \ {x} \in SUBSET F
      <4>1. N \subseteq first
        BY DEF N
      <4>2. \A j \in N \ {x} : j < x
        BY <1>1, <1>3, <3>2
      <4> QED
        BY <4>1, <4>2
    <3>5. Cardinality(F) < query.L
      BY <1>4, <3>2
    <3>6. Cardinality(N \ {x}) <= Cardinality(F)
      BY <3>3, <3>4, FS_Subset
    <3>7. Cardinality(N \ {x}) = Cardinality(N) - 1 /\ Cardinality(N) \in Nat /\ Cardinality(F) \in Nat
      BY <1>6, <3>2, <3>3, FS_RemoveElement, FS_CardinalityType
    <3> HIDE DEF F
    <3> QED
      BY <1>1, <3>5, <3>6, <3>7
  <2> QED
    BY <2>1, <2>2
<1>8. Seeds \subseteq Points
  BY <1>1, <1>2, <1>3
<1>9. IsFiniteSet(Seeds) /\ Cardinality(Seeds) <= Cardinality(N)
  <2>1. [i \in N |-> s[i]] \in Surjection(N, Seeds)
    BY <1>2 DEF Surjection
  <2> QED
    BY <1>6, <2>1, FS_Surjection
<1> QED
  BY <1>1, <1>7, <1>8, <1>9, FS_CardinalityType

LEMMA SInvInit ==
    ASSUME Init, QueryOK, out_nbrs \in [Points -> Seq(Points)]
    PROVE  SInv
<1>1. /\ pc = "seed" /\ addr = Slots(query.L) /\ l = 0 /\ k = 0 /\ inserted = {}
      /\ expanded = << >> /\ des = << >> /\ m = 1 /\ best = 0
  BY DEF Init
<1>2. query.L \in Nat \ {0}
  BY DEF QueryOK
<1>3. addr \in [0..query.L -> Slot(Points)] /\ addr[0].distance = Far
  <2>1. Default \in Slot(Points) /\ Default.distance = Far
    BY InputAssumption, FarAssumption DEF Default, Slot
  <2>2. 0 \in 0..query.L /\ addr = [j \in 0..query.L |-> Default]
    BY <1>1, <1>2 DEF Slots
  <2> HIDE DEF Default
  <2> QED
    BY <2>1, <2>2
<1>4. 0..(l - 1) = {}
  BY <1>1
<1>5. SearchOK
  BY <1>1 DEF SearchOK
<1>6. PoolOK
  <2>1. UnfilledOK
    BY <1>1 DEF UnfilledOK, Slots, Default
  <2> QED
    BY <1>1, <1>2, <1>3, <1>4, <2>1 DEF PoolOK, Keeps, InOrder
<1>7. Range(expanded) = {}
  BY <1>1 DEF Range
<1>8. ScanOK
  BY <1>1, <1>4, <1>7 DEF ScanOK
<1> QED
  BY <1>1, <1>5, <1>6, <1>8 DEF SInv, DoneOK

\* The seeds in the array.
LEMMA SeedStep ==
    ASSUME SInv, Seed
    PROVE  SInv'
<1>0. /\ SearchOK /\ PoolOK /\ ScanOK /\ QueryOK /\ pc = "seed"
      /\ k = 0 /\ expanded = << >> /\ des = << >> /\ l = 0
  BY DEF SInv, SearchOK, ScanOK, Seed
<1> DEFINE n == Cardinality(Seeds)
<1>1. PICK ids \in Bijection(0..(n - 1), Seeds) :
        /\ \A i, j \in 0..(n - 1) :
              i < j => query.dist[ids[i]] <= query.dist[ids[j]]
        /\ addr' = [j \in DOMAIN addr |->
              IF j < n THEN [id |-> ids[j], distance |-> query.dist[ids[j]],
                             flag |-> TRUE]
                       ELSE addr[j]]
  BY DEF Seed
<1>2. /\ l' = n /\ inserted' = Seeds /\ pc' = "scan"
      /\ query' = query /\ out_nbrs' = out_nbrs /\ k' = k /\ expanded' = expanded
      /\ des' = des /\ m' = m /\ best' = best
  BY DEF Seed, merging
<1>3. Seeds \subseteq Points /\ n \in 0..query.L /\ query.L \in Nat \ {0}
      /\ query.dist \in [Points -> 0..(Far - 1)]
  BY <1>0, SeedsFacts DEF QueryOK
<1>4. addr \in [0..query.L -> Slot(Points)] /\ addr[0].distance = Far
  BY <1>0 DEF PoolOK, Keeps
<1> HIDE DEF n
<1>5. /\ \A i \in 0..(n - 1) : ids[i] \in Seeds
      /\ \A i, j \in 0..(n - 1) : ids[i] = ids[j] => i = j
      /\ \A x \in Seeds : \E i \in 0..(n - 1) : ids[i] = x
  BY DEF Bijection, Injection, Surjection, IsInjective
<1>6. \A i \in 0..(n - 1) : /\ i \in 0..query.L /\ addr'[i].id = ids[i] /\ addr'[i].flag
                            /\ addr'[i].distance = query.dist[ids[i]]
                            /\ addr'[i] \in Slot(Points)
  <2> SUFFICES ASSUME NEW i \in 0..(n - 1)
               PROVE  /\ i \in 0..query.L /\ addr'[i].id = ids[i] /\ addr'[i].flag
                      /\ addr'[i].distance = query.dist[ids[i]]
                      /\ addr'[i] \in Slot(Points)
    OBVIOUS
  <2>1. i \in 0..query.L /\ i < n /\ i \in DOMAIN addr
    BY <1>3, <1>4
  <2>2. addr'[i] = [id |-> ids[i], distance |-> query.dist[ids[i]], flag |-> TRUE]
    BY <1>1, <2>1
  <2>3. ids[i] \in Points /\ query.dist[ids[i]] \in 0..Far
    BY <1>3, <1>5, FarAssumption
  <2> QED
    BY <2>1, <2>2, <2>3 DEF Slot
<1>7. \A i \in 0..query.L : ~ (i < n) => addr'[i] = addr[i]
  BY <1>1, <1>4
<1>8. addr' \in [0..query.L -> Slot(Points)]
  <2>1. \A i \in 0..query.L : addr'[i] \in Slot(Points)
    BY <1>3, <1>4, <1>6, <1>7
  <2>2. addr' = [i \in 0..query.L |-> addr'[i]]
    BY <1>1, <1>4
  <2> QED
    BY <2>1, <2>2
<1>9. InOrder(addr', n)
  <2> SUFFICES ASSUME NEW i \in 0..(n - 1), NEW j \in 0..(n - 1), i < j
               PROVE  addr'[i].distance <= addr'[j].distance /\ addr'[i].id # addr'[j].id
    BY DEF InOrder
  <2>1. query.dist[ids[i]] <= query.dist[ids[j]]
    BY <1>1
  <2>2. ids[i] # ids[j]
    BY <1>3, <1>5
  <2> QED
    BY <1>6, <2>1, <2>2
<1>10. PoolOK'
  <2>1. n = 0 => addr'[0].distance = Far
    BY <1>3, <1>4, <1>7
  <2>2. \A i \in 0..(n - 1) : addr'[i].id \in Seeds /\ addr'[i].distance = query.dist[addr'[i].id]
    BY <1>5, <1>6
  <2>3. \A x \in Seeds : \E i \in 0..(n - 1) : addr'[i].id = x
    BY <1>5, <1>6
  <2>4. Keeps(Points, query.L, query.dist, Seeds, addr', n)
    BY <1>3, <1>8, <1>9, <2>1, <2>2, <2>3 DEF Keeps
  <2>5. UnfilledOK'
    <3>1. UnfilledOK
      BY <1>0 DEF PoolOK, UnfilledOK
    <3> SUFFICES ASSUME NEW i \in 0..query.L, n <= i
                 PROVE  addr'[i].id = 0
      BY <1>2 DEF UnfilledOK
    <3>2. addr'[i] = addr[i] /\ l < query.L /\ l <= i
      BY <1>0, <1>3, <1>7
    <3> QED
      BY <3>1, <3>2 DEF UnfilledOK
  <2> QED
    BY <1>2, <2>4, <2>5 DEF PoolOK
<1>11. ScanOK'
  <2>1. Range(expanded) = {}
    BY <1>0 DEF Range
  <2>2. \A i \in 0..(n - 1) : addr'[i].flag /\ ~ (i < 0)
    BY <1>6
  <2> QED
    BY <1>0, <1>2, <2>1, <2>2 DEF ScanOK
<1>12. SearchOK'
  BY <1>0, <1>2, <1>3 DEF SearchOK, QueryOK
<1> QED
  BY <1>2, <1>10, <1>11, <1>12 DEF SInv, DoneOK

\* A candidate is expanded.
LEMMA ExpandStep ==
    ASSUME SInv, Expand
    PROVE  SInv'
<1>0. /\ SearchOK /\ PoolOK /\ ScanOK /\ QueryOK
  BY DEF SInv, SearchOK
<1>1. /\ pc = "scan" /\ k < l /\ addr[k].flag
      /\ addr' = [addr EXCEPT ![k].flag = FALSE]
      /\ expanded' = Append(expanded, addr[k].id)
      /\ des' = out_nbrs[addr[k].id]
      /\ m' = 1 /\ best' = query.L /\ pc' = "merge"
      /\ query' = query /\ out_nbrs' = out_nbrs /\ l' = l /\ k' = k /\ inserted' = inserted
  BY DEF Expand
<1>2. /\ addr \in [0..query.L -> Slot(Points)] /\ l \in 0..query.L /\ InOrder(addr, l)
      /\ l = 0 => addr[0].distance = Far
      /\ \A i \in 0..(l - 1) : addr[i].id \in inserted /\ addr[i].distance = query.dist[addr[i].id]
      /\ \A x \in inserted : \/ \E i \in 0..(l - 1) : addr[i].id = x
                             \/ l = query.L /\ \A i \in 0..(l - 1) : addr[i].distance <= query.dist[x]
  BY <1>0 DEF PoolOK, Keeps
<1>3. k \in 0..(l - 1) /\ k \in 0..query.L /\ query.L \in Nat \ {0} /\ l # 0
  BY <1>0, <1>1, <1>2 DEF SearchOK, QueryOK
<1>4. addr[k].id \in Points /\ addr[k].id \in inserted
  BY <1>2, <1>3 DEF Slot
<1>5. \A i \in 0..query.L : /\ addr'[i].id = addr[i].id /\ addr'[i].distance = addr[i].distance
                            /\ addr'[i].flag = (i # k /\ addr[i].flag)
                            /\ addr'[i] \in Slot(Points)
  <2> SUFFICES ASSUME NEW i \in 0..query.L
               PROVE  /\ addr'[i].id = addr[i].id /\ addr'[i].distance = addr[i].distance
                      /\ addr'[i].flag = (i # k /\ addr[i].flag)
                      /\ addr'[i] \in Slot(Points)
    OBVIOUS
  <2>0. addr[i] \in Slot(Points)
    BY <1>2
  <2>1. CASE i # k
    <3>1. addr'[i] = addr[i]
      BY <1>1, <1>2, <2>1
    <3>2. addr[i].flag \in BOOLEAN
      BY <2>0 DEF Slot
    <3> QED
      BY <2>0, <2>1, <3>1, <3>2
  <2>2. CASE i = k
    <3>1. addr'[k] = [addr[k] EXCEPT !.flag = FALSE]
      BY <1>1, <1>2, <1>3
    <3> QED
      BY <2>0, <2>2, <3>1 DEF Slot
  <2> QED
    BY <2>1, <2>2
<1>6. addr' \in [0..query.L -> Slot(Points)]
  <2>1. addr' = [i \in 0..query.L |-> addr'[i]]
    BY <1>1, <1>2
  <2> QED
    BY <1>5, <2>1
<1>7. \A i \in 0..(l - 1) : i \in 0..query.L
  BY <1>2, <1>3
<1>8. PoolOK'
  <2>1. InOrder(addr', l)
    BY <1>2, <1>5, <1>7 DEF InOrder
  <2>2. Keeps(Points, query.L, query.dist, inserted, addr', l)
    BY <1>2, <1>3, <1>5, <1>6, <1>7, <2>1 DEF Keeps
  <2>3. UnfilledOK'
    BY <1>0, <1>1, <1>5 DEF PoolOK, UnfilledOK
  <2> QED
    BY <1>1, <2>2, <2>3 DEF PoolOK
<1>9. Range(expanded') = Range(expanded) \cup {addr[k].id}
  <2>1. expanded \in Seq(Points)
    BY <1>0 DEF SearchOK
  <2> QED
    BY <1>1, <2>1 DEF Range
<1>10. SearchOK'
  <2>1. expanded \in Seq(Points) /\ out_nbrs \in [Points -> Seq(Points)] /\ inserted \subseteq Points
    BY <1>0 DEF SearchOK
  <2>2. expanded' \in Seq(Points) /\ des' \in Seq(Points)
    BY <1>1, <1>4, <2>1
  <2>3. k \in Nat /\ query.L \in Nat
    BY <1>0, <1>3 DEF SearchOK
  <2>4. QueryOK'
    BY <1>0, <1>1 DEF QueryOK
  <2> QED
    BY <1>1, <2>1, <2>2, <2>3, <2>4 DEF SearchOK
<1>11. ScanOK'
  <2>1. /\ Range(expanded) \subseteq inserted
        /\ \A i \in 0..(l - 1) : addr[i].flag <=> addr[i].id \notin Range(expanded)
        /\ \A i \in 0..(l - 1) : i < k => ~ addr[i].flag
    BY <1>0, <1>1 DEF ScanOK
  <2>2. \A i \in 0..(l - 1) : addr[i].id = addr[k].id => i = k
    BY <1>2, <1>3 DEF InOrder
  <2>3. \A i \in 0..(l - 1) : addr'[i].flag <=> addr'[i].id \notin Range(expanded')
    BY <1>5, <1>7, <1>9, <2>1, <2>2
  <2>4. ASSUME NEW i \in 0..(l - 1), i <= k
        PROVE  ~ addr'[i].flag
    <3>1. i = k \/ i < k
      BY <1>2, <1>3, <2>4
    <3> QED
      BY <1>5, <1>7, <2>1, <3>1
  <2>5. Range(expanded') \subseteq inserted
    BY <1>4, <1>9, <2>1
  <2> QED
    BY <1>1, <2>3, <2>4, <2>5 DEF ScanOK
<1> QED
  BY <1>1, <1>8, <1>10, <1>11 DEF SInv, DoneOK

\* The scan goes on.
LEMMA AdvanceStep ==
    ASSUME SInv, Advance
    PROVE  SInv'
<1>0. SearchOK /\ PoolOK /\ ScanOK /\ QueryOK
  BY DEF SInv, SearchOK
<1>1. /\ pc = "scan" /\ k < l /\ ~ addr[k].flag /\ k' = k + 1
      /\ query' = query /\ out_nbrs' = out_nbrs /\ pc' = pc /\ addr' = addr /\ l' = l
      /\ inserted' = inserted /\ expanded' = expanded /\ des' = des /\ m' = m /\ best' = best
  BY DEF Advance, merging
<1>2. l \in Nat /\ k \in Nat
  BY <1>0 DEF PoolOK, Keeps, SearchOK, QueryOK
<1>3. \A i \in 0..(l - 1) : i < k + 1 => i < k \/ i = k
  BY <1>2
<1>4. ScanOK'
  BY <1>0, <1>1, <1>3 DEF ScanOK
<1>5. PoolOK'
  BY <1>0, <1>1 DEF PoolOK, UnfilledOK
<1>6. SearchOK'
  BY <1>0, <1>1, <1>2 DEF SearchOK, QueryOK
<1> QED
  BY <1>1, <1>4, <1>5, <1>6 DEF SInv, DoneOK

\* What a turn of the loop over the candidates does to the array.
MergedIn(id) ==
    Offered(Points, query.L, query.dist, inserted, addr, l, best, id,
            [addr |-> addr', size |-> l', best |-> best'])

LEMMA MergeFacts ==
    ASSUME SInv, Merge
    PROVE  /\ des[m] \in Points /\ m \in 1..Len(des)
           /\ \/ des[m] \notin query.accepts \/ des[m] \in inserted
              \/ MergedIn(des[m]) /\ inserted' = inserted \cup {des[m]}
           /\ des[m] \notin query.accepts \/ des[m] \in inserted =>
                 addr' = addr /\ l' = l /\ best' = best /\ inserted' = inserted
<1>0. SearchOK /\ PoolOK /\ QueryOK
  BY DEF SInv, SearchOK
<1> DEFINE id == des[m]
           st == [addr |-> addr, size |-> l, best |-> best]
           new == Offer(st, query.L, id, query.dist[id])
<1>1. m \in 1..Len(des) /\ id \in Points
  BY <1>0 DEF Merge, SearchOK
<1>2. IF id \notin query.accepts \/ id \in inserted
      THEN UNCHANGED <<addr, l, best, inserted>>
      ELSE /\ inserted' = inserted \cup {id}
           /\ addr' = new.addr
           /\ l' = new.size
           /\ best' = new.best
  BY DEF Merge
<1>3. CASE id \notin query.accepts \/ id \in inserted
  BY <1>1, <1>2, <1>3
<1>4. CASE ~ (id \notin query.accepts \/ id \in inserted)
  <2>1. /\ query.L \in Nat \ {0} /\ query.dist \in [Points -> 0..(Far - 1)]
        /\ inserted \in SUBSET Points /\ best \in Nat /\ id \in Points \ inserted
        /\ Keeps(Points, query.L, query.dist, inserted, addr, l)
    BY <1>0, <1>1, <1>4 DEF SearchOK, QueryOK, PoolOK
  <2> DEFINE nx == [addr |-> addr', size |-> l', best |-> best']
  <2>2. Offered(Points, query.L, query.dist, inserted, addr, l, best, id, new)
    <3> HIDE DEF id
    <3> QED
      BY <2>1, OfferFacts
  <2> HIDE DEF new
  <2>3. nx.addr = new.addr /\ nx.size = new.size /\ nx.best = new.best
    BY <1>2, <1>4
  <2> HIDE DEF nx
  <2>4. Offered(Points, query.L, query.dist, inserted, addr, l, best, id, nx)
    BY <2>2, <2>3 DEF Offered
  <2>5. MergedIn(id)
    BY <2>4 DEF MergedIn, nx
  <2> QED
    BY <1>1, <1>2, <1>4, <2>5
<1> QED
  BY <1>3, <1>4

\* A candidate is merged.
LEMMA MergeStep ==
    ASSUME SInv, Merge
    PROVE  SInv'
<1>0. SearchOK /\ PoolOK /\ ScanOK /\ QueryOK
  BY DEF SInv, SearchOK
<1>1. /\ pc = "merge" /\ m' = m + 1 /\ pc' = pc /\ query' = query /\ out_nbrs' = out_nbrs
      /\ k' = k /\ expanded' = expanded /\ des' = des
  BY DEF Merge
<1> DEFINE id == des[m]
<1>2. id \in Points
  BY MergeFacts
<1>3. CASE id \notin query.accepts \/ id \in inserted
  <2>1. addr' = addr /\ l' = l /\ best' = best /\ inserted' = inserted
    BY <1>3, MergeFacts
  <2>2. PoolOK' /\ ScanOK'
    BY <1>0, <1>1, <2>1 DEF PoolOK, UnfilledOK, ScanOK
  <2>3. SearchOK'
    BY <1>0, <1>1, <2>1 DEF SearchOK, QueryOK
  <2> QED
    BY <1>1, <2>2, <2>3 DEF SInv, DoneOK
<1>4. CASE ~ (id \notin query.accepts \/ id \in inserted)
  <2>1. MergedIn(id) /\ inserted' = inserted \cup {id}
    BY <1>4, MergeFacts
  <2> HIDE DEF id
  <2>2. /\ Keeps(Points, query.L, query.dist, inserted \cup {id}, addr', l')
        /\ l' = IF l < query.L THEN l + 1 ELSE l
        /\ best' \in Nat /\ best' <= best
        /\ \A i \in 0..query.L : i < best' => addr'[i] = addr[i]
        /\ \A i \in 0..query.L : l < query.L /\ l < i => addr'[i] = addr[i]
        /\ \A i \in 0..(l' - 1) : \/ addr'[i].id = id /\ addr'[i].flag
                                  \/ \E j \in 0..(l - 1) : addr'[i] = addr[j]
    BY <2>1 DEF MergedIn, Offered
  <2>3. PoolOK'
    <3>1. UnfilledOK'
      <4> SUFFICES ASSUME NEW i \in 0..query.L, l' < query.L, l' <= i
                   PROVE  addr'[i].id = 0
        BY <1>1 DEF UnfilledOK
      <4>1. l < query.L /\ l < i /\ l <= i
        BY <1>0, <2>2 DEF PoolOK, Keeps, SearchOK, QueryOK
      <4> QED
        BY <1>0, <2>2, <4>1 DEF PoolOK, UnfilledOK
    <3> QED
      BY <1>1, <2>1, <2>2, <3>1 DEF PoolOK
  <2>4. SearchOK'
    BY <1>0, <1>1, <1>2, <2>1, <2>2 DEF SearchOK, QueryOK
  <2>5. /\ k < l /\ Range(expanded) \subseteq inserted
        /\ \A i \in 0..(l - 1) : addr[i].flag <=> addr[i].id \notin Range(expanded)
        /\ \A i \in 0..(l - 1) : i <= k /\ i < best => ~ addr[i].flag
    BY <1>0, <1>1 DEF ScanOK
  <2>6. l \in Nat /\ k \in Nat /\ best \in Nat /\ l \in 0..query.L /\ query.L \in Nat
    BY <1>0 DEF PoolOK, Keeps, SearchOK, QueryOK
  <2>7. k < l'
    BY <2>2, <2>5, <2>6
  <2>8. ASSUME NEW i \in 0..(l' - 1)
        PROVE  addr'[i].flag <=> addr'[i].id \notin Range(expanded)
    <3>1. CASE addr'[i].id = id /\ addr'[i].flag
      BY <1>4, <2>5, <3>1
    <3>2. CASE \E j \in 0..(l - 1) : addr'[i] = addr[j]
      BY <2>5, <3>2
    <3> QED
      BY <2>2, <3>1, <3>2
  <2>9. ASSUME NEW i \in 0..(l' - 1), i <= k, i < best'
        PROVE  ~ addr'[i].flag
    <3>1. i \in 0..query.L /\ i \in 0..(l - 1) /\ i < best
      BY <2>2, <2>5, <2>6, <2>9
    <3> QED
      BY <2>2, <2>5, <2>9, <3>1
  <2>10. ScanOK'
    BY <1>1, <2>1, <2>5, <2>7, <2>8, <2>9 DEF ScanOK
  <2> QED
    BY <1>1, <2>3, <2>4, <2>10 DEF SInv, DoneOK
<1> QED
  BY <1>3, <1>4

\* All candidates are merged.
LEMMA MergedStep ==
    ASSUME SInv, Merged
    PROVE  SInv'
<1>0. SearchOK /\ PoolOK /\ ScanOK /\ QueryOK
  BY DEF SInv, SearchOK
<1>1. /\ pc = "merge" /\ pc' = "scan" /\ query' = query /\ out_nbrs' = out_nbrs
      /\ k' = (IF best <= k THEN best ELSE k + 1) /\ expanded' = expanded /\ des' = << >>
      /\ addr' = addr /\ l' = l /\ inserted' = inserted /\ m' = m /\ best' = best
  BY DEF Merged
<1>2. l \in Nat /\ k \in Nat /\ best \in Nat
  BY <1>0 DEF PoolOK, Keeps, SearchOK, QueryOK
<1>3. \A i \in 0..(l - 1) : i < k' => i <= k /\ i < best
  BY <1>1, <1>2
<1>4. k' \in Nat
  BY <1>1, <1>2
<1>5. ScanOK'
  BY <1>0, <1>1, <1>3 DEF ScanOK
<1>6. PoolOK'
  BY <1>0, <1>1 DEF PoolOK, UnfilledOK
<1>7. SearchOK'
  BY <1>0, <1>1, <1>4 DEF SearchOK, QueryOK
<1> QED
  BY <1>1, <1>5, <1>6, <1>7 DEF SInv, DoneOK

\* The answer is copied out.
LEMMA ReturnStep ==
    ASSUME SInv, Return
    PROVE  SInv'
<1>0. SearchOK /\ PoolOK /\ ScanOK /\ QueryOK
  BY DEF SInv, SearchOK
<1>1. /\ pc = "scan" /\ pc' = "done" /\ k >= l
      /\ results' = [i \in 1..query.res_count |->
                        [tag |-> Tag(addr[i - 1].id), distance |-> addr[i - 1].distance]]
      /\ returned' = IF query.res_count < l THEN query.res_count ELSE l
  BY DEF Return
<1>2. /\ query' = query /\ out_nbrs' = out_nbrs /\ k' = k /\ expanded' = expanded /\ des' = des
      /\ addr' = addr /\ l' = l /\ inserted' = inserted /\ m' = m /\ best' = best
  BY DEF Return, array, merging
<1>3. l \in Nat /\ k \in Nat
  BY <1>0 DEF PoolOK, Keeps, SearchOK, QueryOK
<1>4. \A i \in 0..(l - 1) : i < k
  BY <1>1, <1>3
<1>5. ScanOK'
  BY <1>0, <1>1, <1>2 DEF ScanOK
<1>6. PoolOK'
  BY <1>0, <1>2 DEF PoolOK, UnfilledOK
<1>7. SearchOK'
  BY <1>0, <1>1, <1>2 DEF SearchOK, QueryOK
<1>8. DoneOK'
  BY <1>0, <1>1, <1>2, <1>4 DEF DoneOK, ScanOK
<1> QED
  BY <1>5, <1>6, <1>7, <1>8 DEF SInv

\* Whatever changes only the graph, and the seeds of a search that has not begun.
LEMMA OutsideStep ==
    ASSUME SInv, QueryOK', out_nbrs' \in [Points -> Seq(Points)],
           UNCHANGED <<pc, array, inserted, expanded, merging, output>>,
           query'.dist = query.dist, query'.L = query.L, query'.res_count = query.res_count
    PROVE  SInv'
<1>0. SearchOK /\ PoolOK /\ ScanOK /\ DoneOK
  BY DEF SInv
<1>1. /\ pc' = pc /\ addr' = addr /\ l' = l /\ k' = k /\ inserted' = inserted
      /\ expanded' = expanded /\ des' = des /\ m' = m /\ best' = best
      /\ results' = results /\ returned' = returned
  BY DEF array, merging, output
<1>2. SearchOK'
  BY <1>0, <1>1 DEF SearchOK
<1>3. PoolOK'
  BY <1>0, <1>1 DEF PoolOK, UnfilledOK
<1>4. ScanOK' /\ DoneOK'
  BY <1>0, <1>1 DEF ScanOK, DoneOK
<1> QED
  BY <1>2, <1>3, <1>4 DEF SInv

\* Every step of a search keeps its invariant.
LEMMA SInvStep ==
    ASSUME SInv, [Next]_vars
    PROVE  SInv'
<1>0. QueryOK /\ out_nbrs \in [Points -> Seq(Points)]
  BY DEF SInv, SearchOK
<1>1. CASE UNCHANGED vars
  <2>1. /\ query' = query /\ out_nbrs' = out_nbrs
        /\ UNCHANGED <<pc, array, inserted, expanded, merging, output>>
    BY <1>1 DEF vars
  <2>2. QueryOK'
    BY <1>0, <2>1 DEF QueryOK
  <2> QED
    BY <1>0, <2>1, <2>2, OutsideStep
<1>2. CASE Rewrite
  <2>1. PICK w \in query.writes : out_nbrs' = [out_nbrs EXCEPT ![w[1]] = w[2]]
    BY <1>2 DEF Rewrite
  <2>2. w[1] \in Points /\ w[2] \in Seq(Points)
    BY <1>0 DEF QueryOK
  <2>3. out_nbrs' \in [Points -> Seq(Points)]
    BY <1>0, <2>1, <2>2
  <2>4. query' = query /\ UNCHANGED <<pc, array, inserted, expanded, merging, output>>
    BY <1>2 DEF Rewrite
  <2>5. QueryOK'
    BY <1>0, <2>4 DEF QueryOK
  <2> QED
    BY <2>3, <2>4, <2>5, OutsideStep
<1> QED
  BY <1>1, <1>2, SeedStep, ExpandStep, AdvanceStep, MergeStep, MergedStep, ReturnStep
  DEF Next, Search

\* The results do not show which point they are about unless its tag is its own.
TagsDiffer == \A i, j \in Points : Tag(i) = Tag(j) => i = j

\* What SInv says of the results.
LEMMA ClosestResults ==
    ASSUME TagsDiffer, SInv
    PROVE  ResultsAreClosest
<1> SUFFICES ASSUME pc = "done"
             PROVE  LET got == {i \in Points : \E n \in 1..returned : results[n].tag = Tag(i)}
                    IN  /\ Cardinality(got) = returned
                        /\ got \subseteq inserted
                        /\ \A x \in inserted \ got : \A y \in got : query.dist[x] >= query.dist[y]
                        /\ inserted \subseteq got \/ returned = query.res_count \/ returned = query.L
  BY DEF ResultsAreClosest
<1> DEFINE got == {i \in Points : \E n \in 1..returned : results[n].tag = Tag(i)}
<1>1. /\ results = [i \in 1..query.res_count |->
                       [tag |-> Tag(addr[i - 1].id), distance |-> addr[i - 1].distance]]
      /\ returned = IF query.res_count < l THEN query.res_count ELSE l
  BY DEF SInv, DoneOK
<1>2. /\ addr \in [0..query.L -> Slot(Points)] /\ l \in 0..query.L /\ InOrder(addr, l)
      /\ \A i \in 0..(l - 1) : addr[i].id \in inserted /\ addr[i].distance = query.dist[addr[i].id]
      /\ \A x \in inserted : \/ \E i \in 0..(l - 1) : addr[i].id = x
                             \/ l = query.L /\ \A i \in 0..(l - 1) : addr[i].distance <= query.dist[x]
  BY DEF SInv, PoolOK, Keeps
<1>3. /\ query.L \in Nat /\ query.res_count \in Nat /\ l \in Nat /\ inserted \subseteq Points
      /\ query.dist \in [Points -> 0..(Far - 1)]
  BY <1>2 DEF SInv, SearchOK, QueryOK
<1>4. /\ returned \in Nat /\ returned <= l /\ returned <= query.res_count
      /\ \A n \in 1..returned : n - 1 \in 0..(l - 1) /\ n - 1 \in 0..query.L /\ n \in 1..query.res_count
  BY <1>1, <1>2, <1>3
<1>5. \A n \in 1..returned : /\ results[n].tag = Tag(addr[n - 1].id)
                             /\ addr[n - 1].id \in Points
  BY <1>1, <1>2, <1>4 DEF Slot
<1>6. got = {addr[n - 1].id : n \in 1..returned}
  BY <1>5 DEF TagsDiffer
<1> HIDE DEF got
<1>7. Cardinality(got) = returned
  <2> DEFINE f == [n \in 1..returned |-> addr[n - 1].id]
  <2>1. \A n, o \in 1..returned : f[n] = f[o] => n = o
    <3> SUFFICES ASSUME NEW n \in 1..returned, NEW o \in 1..returned, n < o
                 PROVE  f[n] # f[o]
      BY <1>4
    <3>1. n - 1 \in 0..(l - 1) /\ o - 1 \in 0..(l - 1) /\ n - 1 < o - 1
      BY <1>4
    <3>2. addr[n - 1].id # addr[o - 1].id
      BY <1>2, <3>1 DEF InOrder
    <3> QED
      BY <3>2
  <2>2. f \in Surjection(1..returned, got)
    BY <1>6 DEF Surjection
  <2>3. f \in Injection(1..returned, got)
    BY <1>6, <2>1 DEF Injection, IsInjective
  <2>4. IsFiniteSet(1..returned) /\ Cardinality(1..returned) = returned
    BY <1>4, FS_Interval
  <2> QED
    BY <2>2, <2>3, <2>4, FS_Surjection
<1>8. got \subseteq inserted
  BY <1>2, <1>4, <1>6
<1>9. ASSUME NEW x \in inserted \ got, NEW y \in got
      PROVE  query.dist[x] >= query.dist[y]
  <2>1. PICK n \in 1..returned : y = addr[n - 1].id
    BY <1>6
  <2>2. n - 1 \in 0..(l - 1) /\ query.dist[y] = addr[n - 1].distance
    BY <1>2, <1>4, <2>1
  <2>3. query.dist[x] \in Nat /\ query.dist[y] \in Nat
    BY <1>3, <1>8, <1>9, FarAssumption
  <2>4. CASE \E i \in 0..(l - 1) : addr[i].id = x
    <3>1. PICK i \in 0..(l - 1) : addr[i].id = x
      BY <2>4
    <3>2. ~ (i < returned)
      <4> SUFFICES ASSUME i < returned
                   PROVE  FALSE
        OBVIOUS
      <4>1. i + 1 \in 1..returned /\ (i + 1) - 1 = i
        BY <1>3, <1>4
      <4> QED
        BY <1>6, <1>9, <3>1, <4>1
    <3>3. n - 1 < i
      BY <1>3, <1>4, <3>2
    <3>4. addr[n - 1].distance <= addr[i].distance /\ addr[i].distance = query.dist[x]
      BY <1>2, <2>2, <3>1, <3>3 DEF InOrder
    <3> QED
      BY <2>2, <2>3, <3>4
  <2>5. CASE \A i \in 0..(l - 1) : addr[i].distance <= query.dist[x]
    BY <2>2, <2>3, <2>5
  <2> QED
    BY <1>2, <2>4, <2>5
<1>10. inserted \subseteq got \/ returned = query.res_count \/ returned = query.L
  <2> SUFFICES ASSUME returned # query.res_count, returned # query.L
               PROVE  inserted \subseteq got
    OBVIOUS
  <2>1. returned = l /\ l # query.L
    BY <1>1
  <2>2. \A x \in inserted : \E i \in 0..(l - 1) : addr[i].id = x
    BY <1>2, <2>1
  <2>3. \A i \in 0..(l - 1) : i + 1 \in 1..returned /\ (i + 1) - 1 = i
    BY <1>3, <2>1
  <2> QED
    BY <1>6, <2>2, <2>3
<1> QED
  BY <1>7, <1>8, <1>9, <1>10 DEF got

----------------------------------------------------------------------------
(* The search is a best-first search.                                      *)

\* The definitions a best-first search uses are those of this module.
LEMMA SameCardinality == \A S : Abstract!Cardinality(S) = Cardinality(S)
BY DEF Abstract!Cardinality, Cardinality

\* The array holds one of the choices of the closest candidates.
LEMMA OfferedClosest ==
    ASSUME SInv, NEW id \in Points \ inserted, MergedIn(id)
    PROVE  Ids' \in Abstract!Closest(Ids \cup {id})
<1>1. /\ addr \in [0..query.L -> Slot(Points)] /\ l \in 0..query.L /\ InOrder(addr, l)
      /\ query.L \in Nat
      /\ \A i \in 0..(l - 1) : addr[i].id \in inserted
  BY DEF SInv, PoolOK, Keeps, SearchOK, QueryOK
<1>2. /\ Keeps(Points, query.L, query.dist, inserted \cup {id}, addr', l')
      /\ l' = IF l < query.L THEN l + 1 ELSE l
      /\ \A i \in 0..(l' - 1) : \/ addr'[i].id = id /\ addr'[i].flag
                                \/ \E j \in 0..(l - 1) : addr'[i] = addr[j]
  BY DEF MergedIn, Offered
<1>3. /\ addr' \in [0..query.L -> Slot(Points)] /\ l' \in 0..query.L /\ InOrder(addr', l')
      /\ \A i \in 0..(l' - 1) : addr'[i].distance = query.dist[addr'[i].id]
      /\ \A x \in inserted \cup {id} :
            \/ \E i \in 0..(l' - 1) : addr'[i].id = x
            \/ l' = query.L /\ \A i \in 0..(l' - 1) : addr'[i].distance <= query.dist[x]
  BY <1>2 DEF Keeps
<1>4. IsFiniteSet(Ids) /\ Cardinality(Ids) = l
  <2>1. IsFiniteSet(IdsOf(addr, l)) /\ Cardinality(IdsOf(addr, l)) = l
    BY <1>1, IdsCount
  <2> QED
    BY <2>1 DEF Ids, IdsOf
<1>5. Ids' = {addr'[i].id : i \in 0..(l' - 1)}
  BY DEF Ids
<1>6. Cardinality(Ids') = l'
  <2>1. Cardinality(IdsOf(addr', l')) = l'
    BY <1>1, <1>3, IdsCount
  <2> QED
    BY <1>5, <2>1 DEF IdsOf
<1>7. id \notin Ids
  BY <1>1 DEF Ids
<1>8. Cardinality(Ids \cup {id}) = l + 1
  BY <1>4, <1>7, FS_AddElement
<1>9. Ids' \subseteq Ids \cup {id}
  BY <1>2, <1>5 DEF Ids
<1>10. Cardinality(Ids') = IF Cardinality(Ids \cup {id}) < query.L
                           THEN Cardinality(Ids \cup {id}) ELSE query.L
  BY <1>1, <1>2, <1>3, <1>6, <1>8
<1>11. ASSUME NEW x \in Ids', NEW y \in (Ids \cup {id}) \ Ids'
       PROVE  query.dist[x] <= query.dist[y]
  <2>1. y \in inserted \cup {id}
    BY <1>1 DEF Ids
  <2>2. ~ \E i \in 0..(l' - 1) : addr'[i].id = y
    BY <1>5, <1>11
  <2>3. PICK i \in 0..(l' - 1) : addr'[i].id = x
    BY <1>5, <1>11
  <2> QED
    BY <1>3, <2>1, <2>2, <2>3
<1> QED
  BY <1>9, <1>10, <1>11, SameCardinality DEF Abstract!Closest

\* The first state of a search is one of a best-first search.
LEMMA AbstractInit ==
    ASSUME Init, QueryOK
    PROVE  Abstract!Init
<1>1. /\ pc = "seed" /\ l = 0 /\ inserted = {} /\ expanded = << >> /\ des = << >> /\ m = 1
  BY DEF Init
<1>2. Ids = {} /\ Range(expanded) = {}
  BY <1>1 DEF Ids, Range
<1>3. {des[i] : i \in m..Len(des)} = {}
  BY <1>1
<1>4. query.dist \in [Points -> Nat] /\ query.L \in Nat \ {0}
  BY FarAssumption DEF QueryOK
<1> QED
  BY <1>1, <1>2, <1>3, <1>4 DEF Abstract!Init

\* Every step of a search is a step of a best-first search, or none.
LEMMA AbstractStep ==
    ASSUME SInv, [Next]_vars
    PROVE  [Abstract!Next]_(Abstract!vars)
<1> DEFINE pending == {des[i] : i \in m..Len(des)} \cap (query.accepts \ inserted)
<1>0. /\ SearchOK /\ ScanOK /\ QueryOK
      /\ addr \in [0..query.L -> Slot(Points)] /\ l \in 0..query.L /\ InOrder(addr, l)
      /\ \A i \in 0..(l - 1) : addr[i].id \in inserted /\ addr[i].distance = query.dist[addr[i].id]
  BY DEF SInv, SearchOK, PoolOK, Keeps
<1>1. /\ l \in Nat /\ k \in Nat /\ m \in Nat \ {0} /\ query.L \in Nat /\ des \in Seq(Points)
      /\ inserted \subseteq Points
  BY <1>0 DEF SearchOK, QueryOK
<1>2. pc # "merge" => pending = {}
  <2>1. pc # "merge" => Len(des) = 0
    BY <1>0 DEF ScanOK
  <2> QED
    BY <1>1, <2>1
<1>3. CASE UNCHANGED vars
  <2>1. UNCHANGED <<query, pc, addr, l, inserted, expanded, des, m>>
    BY <1>3 DEF vars, array, merging
  <2> QED
    BY <2>1 DEF Abstract!vars, Ids
<1>4. CASE Rewrite
  <2>1. UNCHANGED <<query, pc, addr, l, inserted, expanded, des, m>>
    BY <1>4 DEF Rewrite, array, merging
  <2> QED
    BY <2>1 DEF Abstract!vars, Ids
<1>5. CASE Advance
  <2>1. UNCHANGED <<query, pc, addr, l, inserted, expanded, des, m>>
    BY <1>5 DEF Advance, merging
  <2> QED
    BY <2>1 DEF Abstract!vars, Ids
<1>6. CASE Seed
  <2>1. /\ UNCHANGED <<query, expanded, des, m>> /\ inserted' = Seeds /\ pc = "seed" /\ pc' = "scan"
        /\ inserted = {} /\ l = 0 /\ des = << >>
    BY <1>0, <1>6 DEF Seed, merging, ScanOK
  <2>2. pending = {} /\ pending' = {}
    BY <1>1, <2>1
  <2>3. Ids' = Seeds
    <3> DEFINE n == Cardinality(Seeds)
    <3>1. PICK ids \in Bijection(0..(n - 1), Seeds) :
             /\ l' = n
             /\ addr' = [j \in DOMAIN addr |->
                   IF j < n THEN [id |-> ids[j], distance |-> query.dist[ids[j]],
                                  flag |-> TRUE]
                            ELSE addr[j]]
      BY <1>6 DEF Seed
    <3>2. n \in 0..query.L
      BY <1>0, SeedsFacts
    <3> HIDE DEF n
    <3>3. \A i \in 0..(n - 1) : ids[i] \in Seeds /\ addr'[i].id = ids[i]
      <4>1. \A i \in 0..(n - 1) : ids[i] \in Seeds
        BY DEF Bijection, Injection
      <4>2. \A i \in 0..(n - 1) : i \in DOMAIN addr /\ i < n
        BY <1>0, <1>1, <3>2
      <4> QED
        BY <3>1, <4>1, <4>2
    <3>4. \A x \in Seeds : \E i \in 0..(n - 1) : ids[i] = x
      BY DEF Bijection, Surjection
    <3>5. Ids' = {addr'[i].id : i \in 0..(n - 1)}
      BY <3>1 DEF Ids
    <3> QED
      BY <3>3, <3>4, <3>5
  <2>4. Ids = {}
    BY <2>1 DEF Ids
  <2>5. Seeds \subseteq Points /\ Cardinality(Seeds) \in 0..query.L
    BY <1>0, SeedsFacts
  <2>6. CASE Seeds = {}
    BY <2>1, <2>2, <2>3, <2>4, <2>6 DEF Abstract!vars
  <2>7. CASE Seeds # {}
    <3>1. Cardinality(Seeds) <= query.L /\ (pc = "done")' = (pc = "done")
      BY <1>1, <2>1, <2>5
    <3>2. Abstract!Cardinality(Seeds) <= query.L
      BY <3>1, SameCardinality
    <3>3. Range(expanded)' = Range(expanded)
      BY <2>1
    <3>4. \E B \in SUBSET Points :
             /\ B # {} /\ Abstract!Cardinality(B) <= query.L
             /\ inserted' = B
             /\ Ids' = B
      BY <2>1, <2>3, <2>5, <2>7, <3>2
    <3>5. Abstract!Start
      BY <2>1, <2>2, <3>1, <3>3, <3>4 DEF Abstract!Start
    <3> QED
      BY <3>5 DEF Abstract!Next
  <2> QED
    BY <2>6, <2>7
<1>7. CASE Expand
  <2>1. /\ pc = "scan" /\ pc' = "merge" /\ k < l /\ addr[k].flag
        /\ addr' = [addr EXCEPT ![k].flag = FALSE]
        /\ expanded' = Append(expanded, addr[k].id)
        /\ des' = out_nbrs[addr[k].id] /\ m' = 1
        /\ UNCHANGED <<query, l, inserted>>
    BY <1>7 DEF Expand
  <2>2. k \in 0..(l - 1) /\ k \in 0..query.L
    BY <1>0, <1>1, <2>1
  <2>3. Range(expanded') = Range(expanded) \cup {addr[k].id}
    <3>1. expanded \in Seq(Points) /\ expanded' = Append(expanded, addr[k].id)
      BY <1>0, <2>1 DEF SearchOK
    <3> QED
      BY ONLY <3>1 DEF Range
  <2>4. \A i \in 0..(l - 1) : addr[i].flag <=> addr[i].id \notin Range(expanded)
    BY <1>0 DEF ScanOK
  <2>5. addr[k].id \in Ids \ Range(expanded)
    BY <2>1, <2>2, <2>4 DEF Ids
  <2>6. ASSUME NEW x \in Ids \ Range(expanded)
        PROVE  query.dist[addr[k].id] <= query.dist[x]
    <3>1. PICK i \in 0..(l - 1) : x = addr[i].id
      BY DEF Ids
    <3>2. addr[i].flag
      BY <2>4, <2>6, <3>1
    <3>3. ~ (i < k)
      BY <1>0, <2>1, <3>2 DEF ScanOK
    <3>4. addr[k].distance \in Nat
      BY <1>0, <2>2, FarAssumption DEF Slot
    <3>5. addr[k].distance <= addr[i].distance
      <4>1. k = i \/ k < i
        BY <1>1, <3>3
      <4> QED
        BY <1>0, <2>2, <3>4, <4>1 DEF InOrder
    <3> QED
      BY <1>0, <2>2, <3>1, <3>5
  <2>7. Ids' = Ids
    <3>1. \A i \in 0..(l - 1) : addr'[i].id = addr[i].id
      <4>1. \A i \in 0..(l - 1) : i \in 0..query.L /\ addr[i] \in Slot(Points)
        BY <1>0, <1>1
      <4> QED
        BY <1>0, <2>1, <4>1 DEF Slot
    <3> QED
      BY <2>1, <3>1 DEF Ids
  <2>8. pending' \in SUBSET (Points \ inserted)
    BY <1>0, <2>1 DEF QueryOK
  <2>9. Abstract!Expand
    BY <1>2, <2>1, <2>3, <2>5, <2>6, <2>7, <2>8 DEF Abstract!Expand
  <2> QED
    BY <2>9 DEF Abstract!Next
<1>8. CASE Merge
  <2>1. /\ UNCHANGED <<query, expanded, des>> /\ pc = "merge" /\ pc' = pc /\ m' = m + 1
    BY <1>8 DEF Merge
  <2>2. des[m] \in Points /\ m \in 1..Len(des)
    BY <1>8, MergeFacts
  <2>3. m..Len(des) = {m} \cup ((m + 1)..Len(des))
    BY <1>1, <2>2
  <2>4. {des[i] : i \in m..Len(des)} = {des[m]} \cup {des[i] : i \in (m + 1)..Len(des)}
    BY <2>3
  <2>5. CASE des[m] \notin query.accepts \/ des[m] \in inserted
    <3>1. addr' = addr /\ l' = l /\ inserted' = inserted
      BY <1>8, <2>5, MergeFacts
    <3>2. pending' = pending
      BY <2>1, <2>4, <2>5, <3>1
    <3> QED
      BY <2>1, <3>1, <3>2 DEF Abstract!vars, Ids
  <2>6. CASE ~ (des[m] \notin query.accepts \/ des[m] \in inserted)
    <3>1. MergedIn(des[m]) /\ inserted' = inserted \cup {des[m]}
      BY <1>8, <2>6, MergeFacts
    <3>2. Ids' \in Abstract!Closest(Ids \cup {des[m]})
      BY <2>2, <2>6, <3>1, OfferedClosest
    <3>3. pending' = pending \ {des[m]} /\ des[m] \in pending
      BY <2>1, <2>4, <2>6, <3>1
    <3>4. Abstract!Consider
      BY <2>1, <3>1, <3>2, <3>3 DEF Abstract!Consider
    <3> QED
      BY <3>4 DEF Abstract!Next
  <2> QED
    BY <2>5, <2>6
<1>9. CASE Merged
  <2>1. /\ UNCHANGED <<query, expanded, addr, l, inserted, m>> /\ pc = "merge" /\ pc' = "scan"
        /\ m > Len(des) /\ des' = << >>
    BY <1>9 DEF Merged
  <2>2. Len(des) \in Nat /\ Len(des') = 0 /\ m' = m
    BY <1>1, <2>1
  <2>3. m..Len(des) = {} /\ m'..Len(des') = {}
    BY <1>1, <2>1, <2>2
  <2>4. pending = {} /\ pending' = {}
    BY <2>3
  <2> QED
    BY <2>1, <2>4 DEF Abstract!vars, Ids
<1>10. CASE Return
  <2>1. /\ UNCHANGED <<query, expanded, addr, l, inserted, m, des>> /\ pc = "scan" /\ pc' = "done"
        /\ k >= l
    BY <1>10 DEF Return, array, merging
  <2>2. \A i \in 0..(l - 1) : addr[i].id \in Range(expanded)
    BY <1>0, <1>1, <2>1 DEF ScanOK
  <2>3. Ids \subseteq Range(expanded) /\ Ids' = Ids
    BY <2>1, <2>2 DEF Ids
  <2>4. pending = {} /\ pending' = {}
    BY <1>2, <2>1
  <2>5. Abstract!Answer
    BY <2>1, <2>3, <2>4 DEF Abstract!Answer
  <2> QED
    BY <2>5 DEF Abstract!Next
<1> QED
  BY <1>3, <1>4, <1>5, <1>6, <1>7, <1>8, <1>9, <1>10 DEF Next, Search

\* An input is as the search needs it.
LEMMA InitFacts ==
    ASSUME Init
    PROVE  QueryOK /\ out_nbrs \in [Points -> Seq(Points)]
<1>1. query \in Queries /\ out_nbrs \in Graphs(query)
  BY DEF Init
<1> QED
  BY <1>1, InputAssumption DEF QueryOK

\* The array holds the closest of all that were met, the scan has passed what it need
\* not come back to, and the results are what was in the array.
THEOREM SearchInvariant == Spec => []SInv
<1>1. Init => SInv
  BY InitFacts, SInvInit
<1>2. SInv /\ [Next]_vars => SInv'
  BY SInvStep
<1> QED
  BY <1>1, <1>2, PTL DEF Spec

\* A search, in a graph that others may change under it, is a best-first search.
THEOREM SearchImplementsBestFirst == Spec => Abstract!Spec
<1>1. Init => Abstract!Init
  BY InitFacts, AbstractInit
<1>2. SInv /\ [Next]_vars => [Abstract!Next]_(Abstract!vars)
  BY AbstractStep
<1> QED
  BY <1>1, <1>2, SearchInvariant, PTL DEF Spec, Abstract!Spec

----------------------------------------------------------------------------
(* A search program.  Its input, whole.                                    *)

Fields == {"dist", "accepts", "L", "init_ids", "res_count", "writes",
           "vectors", "gt_k", "labels", "filters"}

\* The query is the input q, but for the points to start from if it has labels.
QueryFrom(q) ==
    /\ query = [f \in Fields |-> query[f]]
    /\ \A f \in Fields \ {"init_ids"} : query[f] = q[f]
    /\ q.filters = << >> => query.init_ids = q.init_ids

InputOK ==
    /\ \E q \in Queries : QueryFrom(q)
    /\ QueryOK

VectorsOK ==
    query.vectors # << >> =>
        /\ DOMAIN query.vectors = Points
        /\ query.accepts = Points /\ query.writes = {}
        /\ \E i \in Points : query.init_ids = <<i>>
        /\ \A x, y \in Points :
              /\ Between(x, y) \in Nat
              /\ Between(x, y) = Between(y, x)
              /\ query.dist[y] = 0 => query.dist[x] = Between(x, y)

LabelsOK ==
    query.filters # << >> =>
        /\ query.filters \in Seq(Nat)
        /\ query.labels \in [Points -> Seq(Nat) \ {<< >>}]
        /\ query.accepts = Accepted(query.filters, query.labels)

LEMMA InputFacts ==
    ASSUME InputOK
    PROVE  VectorsOK /\ LabelsOK
<1>1. PICK q \in Queries : QueryFrom(q)
  BY DEF InputOK
<1>2. /\ query.dist = q.dist /\ query.accepts = q.accepts /\ query.vectors = q.vectors
      /\ query.writes = q.writes /\ query.labels = q.labels /\ query.filters = q.filters
      /\ q.filters = << >> => query.init_ids = q.init_ids
  BY <1>1 DEF QueryFrom, Fields
<1>3. ASSUME query.vectors # << >>
      PROVE  /\ DOMAIN query.vectors = Points
             /\ query.accepts = Points /\ query.writes = {}
             /\ \E i \in Points : query.init_ids = <<i>>
             /\ \A x, y \in Points :
                   /\ Between(x, y) \in Nat
                   /\ Between(x, y) = Between(y, x)
                   /\ query.dist[y] = 0 => query.dist[x] = Between(x, y)
  <2>1. q.init_ids = <<calculate_entry_point(q.vectors)>> /\ q.init_ids \in Seq(Points)
    BY <1>2, <1>3, EntryAssumption, InputAssumption
  <2> DEFINE e == calculate_entry_point(q.vectors)
  <2>2. e \in Points /\ q.init_ids = <<e>> /\ q.init_ids # << >>
    <3> HIDE DEF e
    <3>1. q.init_ids = <<e>>
      BY <2>1 DEF e
    <3> QED
      BY <2>1, <3>1
  <2> HIDE DEF e
  <2>3. q.filters = << >>
    BY <2>2, LabelAssumption
  <2> QED
    BY <1>2, <1>3, <2>2, <2>3, VectorAssumption DEF Between
<1>4. LabelsOK
  BY <1>2, LabelAssumption DEF LabelsOK
<1> QED
  BY <1>3, <1>4 DEF VectorsOK

----------------------------------------------------------------------------
(* Building a relative neighbourhood graph.                                *)

\* All other points are candidates, each with its distance.
LEMMA PoolsFacts ==
    ASSUME VectorsOK, query.vectors # << >>, NEW p \in Points, NEW c \in Pools(p)
    PROVE  /\ c \in Seq(Rule!Candidate)
           /\ Len(c) < Cardinality(Points) /\ Cardinality(Points) \in Nat
           /\ \A i \in 1..Len(c) : c[i].distance = Between(p, c[i].id)
           /\ \A x \in Points \ {p} : \E i \in 1..Len(c) : c[i].id = x
<1> DEFINE T == Points \ {p}
           n == Cardinality(T)
<1>1. n \in Nat /\ n < Cardinality(Points) /\ Cardinality(Points) \in Nat
  <2>1. IsFiniteSet(T) /\ n = Cardinality(Points) - 1 /\ Cardinality(Points) \in Nat
    BY InputAssumption, FS_RemoveElement, FS_CardinalityType
  <2>2. n \in Nat
    BY <2>1, FS_CardinalityType
  <2> QED
    BY <2>1, <2>2
<1>2. PICK ids \in Bijection(1..n, T) : c = Rule!Candidates(p, ids)
  BY DEF Pools
<1>3. /\ ids \in [1..n -> T] /\ \A x \in T : \E i \in 1..n : ids[i] = x
  BY <1>2 DEF Bijection, Surjection
<1> HIDE DEF n
<1>4. ids \in Seq(Points) /\ Len(ids) = n
  <2>1. ids \in [1..n -> Points]
    BY <1>3
  <2> QED
    BY <1>1, <1>3, <2>1
<1>5. c = [i \in 1..n |-> [id |-> ids[i], distance |-> Between(p, ids[i])]]
  BY <1>2, <1>4 DEF Rule!Candidates
<1>6. \A i \in 1..n : /\ c[i] \in Rule!Candidate /\ c[i].id = ids[i]
                      /\ c[i].distance = Between(p, c[i].id)
  <2> SUFFICES ASSUME NEW i \in 1..n
               PROVE  /\ c[i] \in Rule!Candidate /\ c[i].id = ids[i]
                      /\ c[i].distance = Between(p, c[i].id)
    OBVIOUS
  <2>1. ids[i] \in Points /\ Between(p, ids[i]) \in Nat
    BY <1>3 DEF VectorsOK
  <2> QED
    BY <1>5, <2>1 DEF Rule!Candidate
<1>7. c \in Seq(Rule!Candidate) /\ Len(c) = n
  <2>1. c \in [1..n -> Rule!Candidate]
    BY <1>5, <1>6
  <2> QED
    BY <1>1, <1>5, <2>1
<1> QED
  BY <1>1, <1>3, <1>6, <1>7

\* f is the list the alpha rule has built, turn by turn.
Turns(p, c, n, f) ==
    /\ f \in [0..n -> Seq(Points)]
    /\ f[0] = << >>
    /\ \A i \in 1..n : f[i] = Rule!Extend(p, f[i - 1], c[i], TRUE)
    /\ Rule!PrunedTo(p, c, n, TRUE) = f[n]

HasTurns(p, c, n) == \E f : Turns(p, c, n, f)

\* The recursion of the rule has a value.
LEMMA RuleFacts ==
    ASSUME NEW p \in Points, NEW c \in Seq(Rule!Candidate), NEW n \in 0..Len(c)
    PROVE  HasTurns(p, c, n)
<1> DEFINE B(g) == [i \in 0..n |-> IF i = 0 THEN << >> ELSE Rule!Extend(p, g[i - 1], c[i], TRUE)]
           V == Seq(Points)
           step == [i \in 1..n |-> [s \in V |-> Rule!Extend(p, s, c[i], TRUE)]]
           f == CHOOSE g : g = B(g)
<1>0. n \in Nat /\ Len(c) \in Nat
  OBVIOUS
<1>1. Rule!PrunedTo(p, c, n, TRUE) = f[n]
  BY DEF Rule!PrunedTo
<1>2. \A i \in 1..n : \A s \in V : Rule!Extend(p, s, c[i], TRUE) \in V
  <2> SUFFICES ASSUME NEW i \in 1..n, NEW s \in V
               PROVE  Rule!Extend(p, s, c[i], TRUE) \in V
    OBVIOUS
  <2>1. c[i].id \in Points
    <3>1. i \in 1..Len(c)
      BY <1>0
    <3>2. c[i] \in Rule!Candidate
      BY <3>1
    <3> QED
      BY <3>2 DEF Rule!Candidate
  <2> QED
    BY <2>1 DEF Rule!Extend
<1>3. step \in [1..n -> [V -> V]] /\ \A i \in 1..n : \A s \in V : step[i][s] = Rule!Extend(p, s, c[i], TRUE)
  <2> HIDE DEF V
  <2> QED
    BY <1>2
<1>4. << >> \in V
  OBVIOUS
<1> HIDE DEF step, V
<1>5. HasValue(n, V, << >>, step)
  BY <1>0, <1>3, <1>4, Recursion
<1>6. PICK h : h \in [0..n -> V] /\ h[0] = << >> /\ \A i \in 1..n : h[i] = step[i][h[i - 1]]
  BY <1>5 DEF HasValue
<1>7. \A i \in 0..n : i # 0 => i \in 1..n /\ i - 1 \in 0..n
  BY <1>0
<1>8. h = B(h)
  <2>1. \A i \in 0..n : h[i] = IF i = 0 THEN << >> ELSE Rule!Extend(p, h[i - 1], c[i], TRUE)
    BY <1>3, <1>6, <1>7
  <2> QED
    BY <1>6, <2>1
<1> HIDE DEF B
<1>9. f = B(f)
  BY <1>8
<1> HIDE DEF f
<1>10. /\ DOMAIN f = 0..n /\ f = [i \in 0..n |-> f[i]] /\ f[0] = << >>
       /\ \A i \in 1..n : f[i] = Rule!Extend(p, f[i - 1], c[i], TRUE)
  <2>1. DOMAIN B(f) = 0..n /\ B(f) = [i \in 0..n |-> B(f)[i]]
    BY DEF B
  <2>2. \A i \in 0..n : B(f)[i] = IF i = 0 THEN << >> ELSE Rule!Extend(p, f[i - 1], c[i], TRUE)
    BY DEF B
  <2>3. 0 \in 0..n /\ \A i \in 1..n : i \in 0..n /\ i # 0
    BY <1>0
  <2>4. B(f)[0] = << >> /\ \A i \in 1..n : B(f)[i] = Rule!Extend(p, f[i - 1], c[i], TRUE)
    BY <2>2, <2>3
  <2> QED
    BY <1>9, <2>1, <2>4
<1> DEFINE S == {i \in 0..n : f[i] \in V}
<1>11. 0 \in S
  BY <1>0, <1>4, <1>10
<1>12. ASSUME NEW i \in 0..(n - 1), i \in S
       PROVE  i + 1 \in S
  <2>1. i + 1 \in 1..n /\ i + 1 \in 0..n /\ (i + 1) - 1 = i
    BY <1>0
  <2>2. f[i + 1] = Rule!Extend(p, f[i], c[i + 1], TRUE)
    BY <1>10, <2>1
  <2> QED
    BY <1>2, <1>12, <2>1, <2>2
<1>13. \A i \in 0..n : i \in S
  <2> HIDE DEF S
  <2> QED
    BY <1>0, <1>11, <1>12, InductionTo
<1>14. f \in [0..n -> V]
  BY <1>10, <1>13
<1>15. Turns(p, c, n, f)
  BY <1>1, <1>10, <1>14 DEF Turns, V
<1> QED
  BY <1>15 DEF HasTurns

\* The links lead to every other point that is no copy, or closer to it.
LEMMA LinksFacts ==
    ASSUME VectorsOK, query.vectors # << >>, NEW p \in Points, NEW c \in Pools(p)
    PROVE  LET s == Rule!AlphaRng(p, c)
           IN  /\ s \in Seq(Points)
               /\ \A x \in Points \ {p} : Between(p, x) # 0 => \E z \in Range(s) :
                     z = x \/ Between(z, x) < Between(p, x)
<1> DEFINE n == Len(c)
<1>1. /\ c \in Seq(Rule!Candidate)
      /\ n < Cardinality(Points) /\ Cardinality(Points) \in Nat
      /\ \A i \in 1..n : c[i].distance = Between(p, c[i].id)
      /\ \A x \in Points \ {p} : \E i \in 1..n : c[i].id = x
  BY PoolsFacts
<1>2. n \in Nat /\ n \in 0..Len(c)
  BY <1>1
<1>3. Rule!AlphaRng(p, c) = Rule!PrunedTo(p, c, n, TRUE)
  BY <1>1 DEF Rule!AlphaRng, Rule!Looked
<1>4. PICK f : Turns(p, c, n, f)
  BY <1>1, <1>2, RuleFacts DEF HasTurns
<1>5. /\ f \in [0..n -> Seq(Points)] /\ f[0] = << >>
      /\ \A i \in 1..n : f[i] = Rule!Extend(p, f[i - 1], c[i], TRUE)
      /\ Rule!AlphaRng(p, c) = f[n]
  BY <1>3, <1>4 DEF Turns
<1> HIDE DEF n
<1>6. \A i \in 1..n : c[i] \in Rule!Candidate /\ c[i].id \in Points
  <2> SUFFICES ASSUME NEW i \in 1..n
               PROVE  c[i] \in Rule!Candidate /\ c[i].id \in Points
    OBVIOUS
  <2>1. c[i] \in Rule!Candidate
    BY <1>1 DEF n
  <2> QED
    BY <2>1 DEF Rule!Candidate
<1> DEFINE Apart(x) == x # p /\ Between(p, x) # 0
           Led(s, x) == \E j \in 1..Len(s) : s[j] = x \/ Between(s[j], x) < Between(p, x)
           S == {i \in 0..n : /\ Len(f[i]) <= i
                              /\ \A t \in 1..i : Apart(c[t].id) => Led(f[i], c[t].id)}
<1>7. 0 \in S
  BY <1>2, <1>5
<1>8. ASSUME NEW i \in 0..(n - 1), i \in S
      PROVE  i + 1 \in S
  <2>1. i + 1 \in 1..n /\ i + 1 \in 0..n /\ (i + 1) - 1 = i /\ i \in Nat /\ i \in 0..n
    BY <1>2
  <2> DEFINE s == f[i]
             r == f[i + 1]
             x == c[i + 1]
  <2>2. r = Rule!Extend(p, s, x, TRUE) /\ s \in Seq(Points) /\ r \in Seq(Points)
    BY <1>5, <2>1
  <2>3. Len(s) <= i /\ \A t \in 1..i : Apart(c[t].id) => Led(s, c[t].id)
    BY <1>8
  <2>4. x.id \in Points /\ x.distance = Between(p, x.id)
    BY <1>1, <1>6, <2>1 DEF n
  <2>5. Len(s) < Cardinality(Points) /\ Len(s) \in Nat
    BY <1>1, <1>2, <2>1, <2>2, <2>3
  <2> HIDE DEF s, r, x
  <2>6. CASE x.id # p /\ \A j \in 1..Len(s) : ~ Rule!Occludes(s[j], x)
    <3>1. r = Append(s, x.id)
      BY <2>2, <2>5, <2>6 DEF Rule!Extend
    <3>2. Len(r) = Len(s) + 1 /\ r[Len(s) + 1] = x.id /\ \A j \in 1..Len(s) : r[j] = s[j]
      <4>1. s \in Seq(Points) /\ x.id \in Points
        BY <2>2, <2>4
      <4> QED
        BY ONLY <4>1, <3>1, AppendProperties
    <3>3. \A y : Led(s, y) => Led(r, y)
      BY <2>5, <3>2
    <3>4. Led(r, x.id)
      BY <2>5, <3>2
    <3>5. \A t \in 1..(i + 1) : Apart(c[t].id) => Led(r, c[t].id)
      <4> HIDE DEF Led
      <4> QED
        BY <2>1, <2>3, <3>3, <3>4 DEF x
    <3> HIDE DEF Led
    <3> QED
      BY <2>1, <2>3, <2>5, <3>2, <3>5 DEF r
  <2>7. CASE ~ (x.id # p /\ \A j \in 1..Len(s) : ~ Rule!Occludes(s[j], x))
    <3>1. r = s
      BY <2>2, <2>7 DEF Rule!Extend
    <3>2. ASSUME Apart(x.id)
          PROVE  Led(s, x.id)
      <4>1. PICK j \in 1..Len(s) : Rule!Occludes(s[j], x)
        BY <2>7, <3>2
      <4>2. s[j] \in Points
        BY <2>2
      <4>3. x.distance > Between(x.id, s[j])
        <5>1. /\ Between(x.id, s[j]) \in Nat /\ x.distance \in Nat
          BY <2>4, <4>2 DEF VectorsOK
        <5>2. 1 * x.distance > 1 * Between(x.id, s[j])
          BY <2>4, <3>2, <4>1 DEF Rule!Occludes
        <5> QED
          BY <5>1, <5>2
      <4>4. Between(x.id, s[j]) = Between(s[j], x.id)
        BY <2>4, <4>2 DEF VectorsOK
      <4>5. Between(s[j], x.id) \in Nat /\ Between(p, x.id) \in Nat
        BY <2>4, <4>2 DEF VectorsOK
      <4> QED
        BY <2>4, <4>3, <4>4, <4>5
    <3>3. \A t \in 1..(i + 1) : Apart(c[t].id) => Led(r, c[t].id)
      <4> HIDE DEF Led
      <4> QED
        BY <2>1, <2>3, <3>1, <3>2 DEF x
    <3> HIDE DEF Led
    <3> QED
      BY <2>1, <2>3, <2>5, <3>1, <3>3 DEF r
  <2> QED
    BY <2>6, <2>7
<1>9. n \in S
  <2>1. \A i \in 0..n : i \in S
    <3> HIDE DEF S
    <3> QED
      BY <1>2, <1>7, <1>8, InductionTo
  <2> QED
    BY <1>2, <2>1
<1>10. f[n] \in Seq(Points)
  BY <1>2, <1>5
<1>11. ASSUME NEW x \in Points \ {p}, Between(p, x) # 0
       PROVE  \E z \in Range(f[n]) : z = x \/ Between(z, x) < Between(p, x)
  <2>1. PICK t \in 1..n : c[t].id = x
    BY <1>1 DEF n
  <2>2. Led(f[n], x)
    BY <1>9, <1>11, <2>1
  <2>3. PICK j \in 1..Len(f[n]) : f[n][j] = x \/ Between(f[n][j], x) < Between(p, x)
    BY <2>2
  <2>4. f[n][j] \in Range(f[n])
    BY <1>10, <2>3 DEF Range
  <2> QED
    BY <2>3, <2>4
<1> QED
  BY <1>5, <1>10, <1>11

----------------------------------------------------------------------------
(* The points a search with labels starts from.                            *)

MedoidsOK ==
    filtered =>
        /\ DOMAIN filter_to_medoid_id \subseteq labels
        /\ \A x \in DOMAIN filter_to_medoid_id : filter_to_medoid_id[x] \in filtered_points(x)

\* The label x, if it has a medoid, adds it.
TakeMedoid(s, x) ==
    IF x \in DOMAIN filter_to_medoid_id THEN Append(s, filter_to_medoid_id[x]) ELSE s

\* They are the medoids of labels that were asked for, one at least if a label that was
\* asked for has one.
LEMMA StartsFacts ==
    ASSUME query.filters \in Seq(Nat),
           \A x \in DOMAIN filter_to_medoid_id : filter_to_medoid_id[x] \in Points
    PROVE  /\ init_ids \in Seq(Points)
           /\ \A j \in 1..Len(init_ids) : \E t \in 1..Len(query.filters) :
                 /\ query.filters[t] \in DOMAIN filter_to_medoid_id
                 /\ init_ids[j] = filter_to_medoid_id[query.filters[t]]
           /\ \A t \in 1..Len(query.filters) :
                 query.filters[t] \in DOMAIN filter_to_medoid_id => init_ids # << >>
<1> DEFINE F == query.filters
           n == Len(F)
           B(g) == [i \in 0..n |-> IF i = 0 THEN << >> ELSE TakeMedoid(g[i - 1], F[i])]
           V == Seq(Points)
           step == [i \in 1..n |-> [s \in V |-> TakeMedoid(s, F[i])]]
           f == CHOOSE g : g = B(g)
<1>0. n \in Nat
  OBVIOUS
<1>1. init_ids = f[n]
  BY DEF init_ids, TakeMedoid
<1> HIDE DEF n, F
<1>2. \A i \in 1..n : \A s \in V : TakeMedoid(s, F[i]) \in V
  BY DEF TakeMedoid
<1>3. step \in [1..n -> [V -> V]] /\ \A i \in 1..n : \A s \in V : step[i][s] = TakeMedoid(s, F[i])
  <2> HIDE DEF V
  <2> QED
    BY <1>2
<1>4. << >> \in V
  OBVIOUS
<1> HIDE DEF step, V
<1>5. HasValue(n, V, << >>, step)
  BY <1>0, <1>3, <1>4, Recursion
<1>6. PICK h : h \in [0..n -> V] /\ h[0] = << >> /\ \A i \in 1..n : h[i] = step[i][h[i - 1]]
  BY <1>5 DEF HasValue
<1>7. \A i \in 0..n : i # 0 => i \in 1..n /\ i - 1 \in 0..n
  BY <1>0
<1>8. h = B(h)
  <2>1. \A i \in 0..n : h[i] = IF i = 0 THEN << >> ELSE TakeMedoid(h[i - 1], F[i])
    BY <1>3, <1>6, <1>7
  <2> QED
    BY <1>6, <2>1
<1> HIDE DEF B
<1>9. f = B(f)
  BY <1>8
<1> HIDE DEF f
<1>10. f[0] = << >> /\ \A i \in 1..n : f[i] = TakeMedoid(f[i - 1], F[i])
  <2>1. \A i \in 0..n : B(f)[i] = IF i = 0 THEN << >> ELSE TakeMedoid(f[i - 1], F[i])
    BY DEF B
  <2>2. 0 \in 0..n /\ \A i \in 1..n : i \in 0..n /\ i # 0
    BY <1>0
  <2>3. B(f)[0] = << >> /\ \A i \in 1..n : B(f)[i] = TakeMedoid(f[i - 1], F[i])
    BY <2>1, <2>2
  <2> QED
    BY <1>9, <2>3
<1> DEFINE From(s) == \A j \in 1..Len(s) : \E t \in 1..n :
                         /\ F[t] \in DOMAIN filter_to_medoid_id
                         /\ s[j] = filter_to_medoid_id[F[t]]
           S == {i \in 0..n : /\ f[i] \in Seq(Points) /\ From(f[i])
                              /\ \A t \in 1..i : F[t] \in DOMAIN filter_to_medoid_id => f[i] # << >>}
<1>11. 0 \in S
  <2>1. From(<< >>) /\ << >> \in Seq(Points)
    OBVIOUS
  <2>2. 0 \in 0..n /\ \A t \in 1..0 : FALSE
    BY <1>0
  <2> HIDE DEF From
  <2> QED
    BY <1>10, <2>1, <2>2
<1>12. ASSUME NEW i \in 0..(n - 1), i \in S
       PROVE  i + 1 \in S
  <2>1. i + 1 \in 1..n /\ i + 1 \in 0..n /\ (i + 1) - 1 = i /\ i \in Nat
    BY <1>0
  <2> DEFINE s == f[i]
             r == f[i + 1]
             x == F[i + 1]
  <2>2. r = TakeMedoid(s, x)
    BY <1>10, <2>1
  <2>3. /\ s \in Seq(Points) /\ From(s)
        /\ \A t \in 1..i : F[t] \in DOMAIN filter_to_medoid_id => s # << >>
    BY <1>12
  <2> HIDE DEF s, r
  <2>4. CASE x \in DOMAIN filter_to_medoid_id
    <3>1. r = Append(s, filter_to_medoid_id[x]) /\ filter_to_medoid_id[x] \in Points
      BY <2>2, <2>4 DEF TakeMedoid
    <3>2. s \in Seq(Points)
      BY <2>3
    <3>3. /\ r \in Seq(Points) /\ r # << >>
          /\ Len(r) = Len(s) + 1 /\ r[Len(s) + 1] = filter_to_medoid_id[x]
          /\ \A j \in 1..Len(s) : r[j] = s[j]
      BY ONLY <3>1, <3>2, AppendProperties
    <3>4. From(r)
      BY <2>1, <2>3, <2>4, <3>3
    <3> HIDE DEF From
    <3> QED
      BY <2>1, <3>3, <3>4 DEF r
  <2>5. CASE x \notin DOMAIN filter_to_medoid_id
    <3>1. r = s
      BY <2>2, <2>5 DEF TakeMedoid
    <3>2. \A t \in 1..(i + 1) : F[t] \in DOMAIN filter_to_medoid_id => r # << >>
      BY <2>1, <2>3, <2>5, <3>1
    <3> HIDE DEF From
    <3> QED
      BY <2>1, <2>3, <3>1, <3>2 DEF r
  <2> QED
    BY <2>4, <2>5
<1>13. n \in S
  <2>1. \A i \in 0..n : i \in S
    <3> HIDE DEF S
    <3> QED
      BY <1>0, <1>11, <1>12, InductionTo
  <2> QED
    BY <1>0, <2>1
<1> QED
  BY <1>1, <1>13 DEF n, F

----------------------------------------------------------------------------
(* The invariant of a search program.                                      *)

EInv ==
    /\ SInv
    /\ InputOK
    /\ MedoidsOK
    /\ built \subseteq Points
    /\ query.vectors = << >> => built = Points
    /\ pc # "seed" => built = Points /\ Ready

\* What does not change with the points to start from.
LEMMA LabelsUnchanged ==
    ASSUME query'.labels = query.labels, query'.filters = query.filters
    PROVE  /\ labels' = labels /\ (filtered' <=> filtered)
           /\ \A x : filtered_points(x)' = filtered_points(x)
BY DEF labels, filtered, filtered_points

LEMMA QueryUnchanged ==
    ASSUME query' = query
    PROVE  /\ InputOK' <=> InputOK
           /\ QueryOK' <=> QueryOK
<1>1. QueryOK' <=> QueryOK
  BY DEF QueryOK
<1>2. \A q \in Queries : QueryFrom(q)' <=> QueryFrom(q)
  BY DEF QueryFrom
<1> QED
  BY <1>1, <1>2 DEF InputOK

LEMMA EInvInit == EInit => EInv
<1> SUFFICES ASSUME EInit
             PROVE  EInv
  OBVIOUS
<1>1. Init /\ LInit /\ built = (IF query.vectors = << >> THEN Points ELSE {})
  BY DEF EInit, RInit
<1>2. QueryOK /\ SInv
  BY <1>1, InitFacts, SInvInit
<1>3. InputOK
  <2>1. query \in Queries /\ query = [f \in Fields |-> query[f]]
    BY <1>1, JudgedAssumption DEF Init, Fields
  <2>2. QueryFrom(query)
    BY <2>1 DEF QueryFrom
  <2> QED
    BY <1>2, <2>1, <2>2 DEF InputOK
<1>4. DOMAIN filter_to_medoid_id = {}
  BY <1>1 DEF LInit
<1> QED
  BY <1>1, <1>2, <1>3, <1>4 DEF EInv, MedoidsOK, Init

\* A location gets its links.
LEMMA BuildStep ==
    ASSUME EInv, Build, UNCHANGED lvars
    PROVE  EInv'
<1>1. PICK p \in Points : BuildLocation(p)
  BY DEF Build
<1>2. /\ p \notin built /\ built' = built \cup {p}
      /\ query' = query /\ UNCHANGED <<pc, array, inserted, expanded, merging, output>>
      /\ \E c \in Pools(p) : out_nbrs' = [out_nbrs EXCEPT ![p] = @ \o Rule!AlphaRng(p, c)]
  BY <1>1 DEF BuildLocation
<1>3. /\ SInv /\ InputOK /\ QueryOK /\ out_nbrs \in [Points -> Seq(Points)]
      /\ MedoidsOK /\ built \subseteq Points /\ pc = "seed"
  BY <1>2 DEF EInv, SInv, SearchOK
<1>4. query.vectors # << >> /\ p \in Points
  BY <1>1, <1>2 DEF EInv, Build
<1>5. VectorsOK
  BY <1>3, InputFacts
<1>6. out_nbrs' \in [Points -> Seq(Points)]
  <2>1. PICK c \in Pools(p) : out_nbrs' = [out_nbrs EXCEPT ![p] = @ \o Rule!AlphaRng(p, c)]
    BY <1>2
  <2>2. Rule!AlphaRng(p, c) \in Seq(Points)
    BY <1>4, <1>5, LinksFacts
  <2>3. out_nbrs[p] \o Rule!AlphaRng(p, c) \in Seq(Points)
    BY <1>3, <1>4, <2>2, ConcatProperties
  <2> QED
    BY <1>3, <1>4, <2>1, <2>3
<1>7. pc' = pc /\ lvars' = lvars
  BY <1>2
<1>8. SInv'
  <2>1. QueryOK'
    BY <1>2, <1>3, QueryUnchanged
  <2> QED
    BY <1>2, <1>3, <1>6, <2>1, OutsideStep
<1>9. InputOK' /\ MedoidsOK'
  BY <1>2, <1>3, <1>7, QueryUnchanged, LabelsUnchanged DEF MedoidsOK, lvars
<1> QED
  BY <1>2, <1>3, <1>4, <1>7, <1>8, <1>9 DEF EInv

\* The medoid of a label is picked, or all are and the search gets its seeds.
LEMMA LabelStep ==
    ASSUME EInv, LStep, UNCHANGED built
    PROVE  EInv'
<1>1. /\ SInv /\ InputOK /\ QueryOK /\ out_nbrs \in [Points -> Seq(Points)]
      /\ MedoidsOK /\ built \subseteq Points /\ filtered
      /\ query = [f \in Fields |-> query[f]]
      /\ pc # "seed" => Ready
  BY DEF EInv, SInv, SearchOK, LStep, InputOK, QueryFrom
<1>2. CASE StartSearch
  <2>1. /\ query' = [query EXCEPT !.init_ids = init_ids] /\ query' # query
        /\ UNCHANGED <<out_nbrs, pc, array, inserted, expanded, merging, output>>
        /\ filter_to_medoid_id' = filter_to_medoid_id
        /\ DOMAIN filter_to_medoid_id = labels
    BY <1>2 DEF StartSearch, lvars
  <2>2. query' = [f \in Fields |-> IF f = "init_ids" THEN init_ids ELSE query[f]]
    <3>1. DOMAIN query = Fields
      BY <1>1
    <3> QED
      BY <1>1, <2>1, <3>1
  <2>3. /\ query' = [f \in Fields |-> query'[f]] /\ query'.init_ids = init_ids
        /\ \A f \in Fields \ {"init_ids"} : query'[f] = query[f]
    BY <2>2 DEF Fields
  <2>4. /\ query'.dist = query.dist /\ query'.accepts = query.accepts /\ query'.L = query.L
        /\ query'.res_count = query.res_count /\ query'.writes = query.writes
        /\ query'.vectors = query.vectors /\ query'.labels = query.labels
        /\ query'.filters = query.filters
    BY <2>3 DEF Fields
  <2>5. init_ids \in Seq(Points)
    <3>1. \A x \in DOMAIN filter_to_medoid_id : filter_to_medoid_id[x] \in Points
      BY <1>1 DEF MedoidsOK, filtered_points
    <3>2. query.filters \in Seq(Nat)
      BY <1>1, InputFacts DEF LabelsOK, filtered
    <3> QED
      BY <3>1, <3>2, StartsFacts
  <2>6. QueryOK'
    BY <1>1, <2>3, <2>4, <2>5 DEF QueryOK
  <2>7. SInv'
    BY <1>1, <2>1, <2>4, <2>6, OutsideStep
  <2>8. InputOK'
    <3>1. PICK q \in Queries : QueryFrom(q)
      BY <1>1 DEF InputOK
    <3>2. /\ \A f \in Fields \ {"init_ids"} : query[f] = q[f]
          /\ q.filters # << >>
      BY <1>1, <3>1 DEF QueryFrom, filtered, Fields
    <3>3. QueryFrom(q)'
      BY <2>3, <3>2 DEF QueryFrom
    <3> QED
      BY <2>6, <3>3 DEF InputOK
  <2>9. MedoidsOK'
    BY <1>1, <2>1, <2>4, LabelsUnchanged DEF MedoidsOK
  <2>10. pc = "seed"
    <3> SUFFICES ASSUME pc # "seed"
                 PROVE  FALSE
      BY <2>1
    <3>1. query.init_ids = init_ids
      BY <1>1 DEF Ready
    <3>2. query' = [f \in Fields |-> query[f]]
      BY <2>2, <3>1
    <3> QED
      BY <1>1, <2>1, <3>2
  <2> QED
    BY <2>1, <2>4, <2>7, <2>8, <2>9, <2>10 DEF EInv
<1>3. ASSUME NEW x \in labels, PickMedoid(x)
      PROVE  EInv'
  <2>1. /\ x \notin DOMAIN filter_to_medoid_id
        /\ \E best_medoid \in filtered_points(x) :
              filter_to_medoid_id' = [y \in DOMAIN filter_to_medoid_id \cup {x} |->
                  IF y = x THEN best_medoid ELSE filter_to_medoid_id[y]]
        /\ query' = query /\ out_nbrs' = out_nbrs
        /\ UNCHANGED <<pc, array, inserted, expanded, merging, output>>
    BY <1>3 DEF PickMedoid, vars
  <2>2. pc = "seed"
    BY <1>1, <2>1 DEF Ready
  <2>3. SInv' /\ InputOK'
    <3>1. QueryOK'
      BY <1>1, <2>1, QueryUnchanged
    <3>2. SInv'
      BY <1>1, <2>1, <3>1, OutsideStep
    <3> QED
      BY <1>1, <2>1, <3>2, QueryUnchanged
  <2>4. PICK i \in filtered_points(x) :
          filter_to_medoid_id' = [y \in DOMAIN filter_to_medoid_id \cup {x} |->
              IF y = x THEN i ELSE filter_to_medoid_id[y]]
    BY <2>1
  <2>5. /\ DOMAIN filter_to_medoid_id' = DOMAIN filter_to_medoid_id \cup {x}
        /\ \A y \in DOMAIN filter_to_medoid_id' :
              filter_to_medoid_id'[y] = IF y = x THEN i ELSE filter_to_medoid_id[y]
    BY <2>4
  <2>6. MedoidsOK'
    BY <1>1, <2>1, <2>5, LabelsUnchanged DEF MedoidsOK
  <2> QED
    BY <2>1, <2>2, <2>3, <2>6 DEF EInv
<1> QED
  BY <1>2, <1>3 DEF LStep

\* Every step keeps the invariant.
LEMMA EInvStep == EInv /\ [ENext]_evars => EInv'
<1> SUFFICES ASSUME EInv, [ENext]_evars
             PROVE  EInv'
  OBVIOUS
<1>1. CASE Prepare
  BY <1>1, BuildStep, LabelStep DEF Prepare
<1>2. CASE Answer \/ Disturb \/ Judge \/ UNCHANGED evars
  <2>1. [Next]_vars /\ query' = query /\ lvars' = lvars /\ built' = built
    BY <1>2 DEF Answer, Disturb, Judge, evars, rvars, Next, Search, Seed, Expand, Advance,
                Merge, Merged, Return, Rewrite, vars
  <2>2. pc' = "seed" \/ (built = Points /\ Ready)
    BY <1>2 DEF Answer, Disturb, Judge, evars, rvars, vars, EInv
  <2>3. SInv'
    BY <2>1, SInvStep DEF EInv
  <2>4. InputOK' /\ MedoidsOK'
    BY <2>1, QueryUnchanged, LabelsUnchanged DEF EInv, MedoidsOK, lvars
  <2>5. Ready' <=> Ready
    BY <2>1 DEF Ready, filtered, labels, init_ids, lvars
  <2> QED
    BY <2>1, <2>2, <2>3, <2>4, <2>5 DEF EInv
<1> QED
  BY <1>1, <1>2 DEF ENext

\* What every state of a search program satisfies.
LEMMA EInvariance == ESpec => []EInv
BY EInvInit, EInvStep, PTL DEF ESpec

\* Whatever a search is part of, its answer is the closest of all that it met, when
\* tags tell points apart.
THEOREM AnswersAreClosest ==
    ASSUME TagsDiffer
    PROVE  ESpec => []ResultsAreClosest
<1>1. EInv => ResultsAreClosest
  BY ClosestResults DEF EInv
<1> QED
  BY <1>1, EInvariance, PTL

\* Preparing an index leaves the search where it is.
LEMMA PrepareFacts ==
    ASSUME EInv, Prepare
    PROVE  /\ pc = "seed"
           /\ UNCHANGED <<pc, array, inserted, expanded, merging, output, tvars>>
           /\ query'.dist = query.dist /\ query'.accepts = query.accepts
           /\ query'.L = query.L /\ query'.gt_k = query.gt_k
           /\ query'.res_count = query.res_count /\ query'.vectors = query.vectors
<1>1. query = [f \in Fields |-> query[f]]
  BY DEF EInv, InputOK, QueryFrom
<1>2. CASE Build
  <2>1. query' = query /\ UNCHANGED <<pc, array, inserted, expanded, merging, output, tvars>>
    BY <1>2 DEF Build, BuildLocation, Prepare
  <2>2. pc = "seed"
    BY <1>2 DEF Build, BuildLocation, EInv
  <2> QED
    BY <2>1, <2>2
<1>3. CASE StartSearch /\ filtered
  <2>1. /\ query' = [query EXCEPT !.init_ids = init_ids] /\ query' # query
        /\ UNCHANGED <<pc, array, inserted, expanded, merging, output, tvars>>
    BY <1>3 DEF StartSearch, Prepare
  <2>2. DOMAIN query = Fields
    BY <1>1
  <2>3. query' = [f \in Fields |-> IF f = "init_ids" THEN init_ids ELSE query[f]]
    BY <1>1, <2>1, <2>2
  <2>4. \A f \in Fields \ {"init_ids"} : query'[f] = query[f]
    BY <2>3
  <2>5. /\ query'.dist = query.dist /\ query'.accepts = query.accepts
        /\ query'.L = query.L /\ query'.gt_k = query.gt_k
        /\ query'.res_count = query.res_count /\ query'.vectors = query.vectors
    BY <2>4 DEF Fields
  <2>6. ASSUME pc # "seed"
        PROVE  FALSE
    <3>1. query.init_ids = init_ids
      BY <1>3, <2>6 DEF EInv, Ready
    <3>2. query' = [f \in Fields |-> query[f]]
      BY <2>3, <3>1
    <3> QED
      BY <1>1, <2>1, <3>2
  <2> QED
    BY <2>1, <2>5, <2>6
<1>4. ASSUME NEW x \in labels, PickMedoid(x), filtered
      PROVE  pc = "seed" /\ query' = query
             /\ UNCHANGED <<pc, array, inserted, expanded, merging, output, tvars>>
  <2>1. pc = "seed"
    BY <1>4 DEF PickMedoid, EInv, Ready
  <2> QED
    BY <1>4, <2>1 DEF PickMedoid, vars, Prepare
<1>5. Build \/ (StartSearch /\ filtered) \/ \E x \in labels : PickMedoid(x) /\ filtered
  BY DEF Prepare, LStep
<1> QED
  BY <1>2, <1>3, <1>4, <1>5

\* The other steps of a search program are those of a search.
LEMMA ENextFacts ==
    ASSUME EInv, [ENext]_evars
    PROVE  Prepare \/ [Next]_vars
BY DEF ENext, Answer, Disturb, Judge, evars, rvars, Next

\* A search program searches best first.
THEOREM ImplementsAbstract == ESpec => ImplementsBestFirst
<1>1. EInit => Abstract!Init
  BY InitFacts, AbstractInit DEF EInit, RInit
<1>2. EInv /\ [ENext]_evars => [Abstract!Next]_(Abstract!vars)
  <2> SUFFICES ASSUME EInv, [ENext]_evars
               PROVE  [Abstract!Next]_(Abstract!vars)
    OBVIOUS
  <2>1. CASE Prepare
    <3>1. /\ UNCHANGED <<pc, addr, l, inserted, expanded, des, m>>
          /\ query'.dist = query.dist /\ query'.accepts = query.accepts /\ query'.L = query.L
      BY <2>1, PrepareFacts DEF array, merging
    <3> QED
      BY <3>1 DEF Abstract!vars, Ids
  <2>2. CASE [Next]_vars
    BY <2>2, AbstractStep DEF EInv
  <2> QED
    BY <2>1, <2>2, ENextFacts
<1> QED
  BY <1>1, <1>2, EInvariance, PTL DEF ESpec, ImplementsBestFirst, Abstract!Spec

----------------------------------------------------------------------------
(* What a search meets.                                                    *)

Pending == {des[i] : i \in m..Len(des)}

\* The seeds are met, and nothing but them and accepted points is.
MetInv ==
    pc # "seed" => Seeds \subseteq inserted /\ inserted \subseteq Seeds \cup query.accepts

\* In a graph that nobody changes, what is met can be reached, and all that a node that
\* was expanded leads to is met or will be.
ReachInv ==
    pc # "seed" /\ Finished =>
        /\ inserted \subseteq Reachable
        /\ Pending \cap query.accepts \subseteq Reachable
        /\ \A n \in Range(expanded) : Range(out_nbrs[n]) \cap query.accepts \subseteq inserted \cup Pending

WInv == SInv /\ MetInv /\ ReachInv

\* What can be reached does not change with the search.
LEMMA SameReach ==
    /\ query' = query => Seeds' = Seeds
    /\ query' = query /\ out_nbrs' = out_nbrs => Reachable' = Reachable
<1>1. query' = query => Seeds' = Seeds
  BY DEF Seeds
<1>2. query' = query /\ out_nbrs' = out_nbrs => Reachable' = Reachable
  BY <1>1 DEF Reachable
<1> QED
  BY <1>1, <1>2

\* The seeds can be reached, and what leads on from what can.
LEMMA ReachClosed ==
    ASSUME QueryOK, out_nbrs \in [Points -> Seq(Points)]
    PROVE  /\ Seeds \subseteq Reachable /\ Reachable \subseteq Points
           /\ \A n \in Reachable : Range(out_nbrs[n]) \cap query.accepts \subseteq Reachable
           /\ \A S \in SUBSET Points :
                 Seeds \subseteq S /\ (\A n \in S : Range(out_nbrs[n]) \cap query.accepts \subseteq S)
                    => Reachable \subseteq S
<1>1. Seeds \subseteq Points /\ query.accepts \subseteq Points
  BY SeedsFacts DEF QueryOK
<1> QED
  BY <1>1 DEF Reachable

LEMMA WInvInit == Init => WInv
BY InitFacts, SInvInit DEF Init, WInv, MetInv, ReachInv

\* The steps of a search keep both.
LEMMA WInvStep == WInv /\ [Next]_vars => WInv'
<1> SUFFICES ASSUME WInv, [Next]_vars
             PROVE  WInv'
  OBVIOUS
<1>1. /\ SInv /\ SearchOK /\ QueryOK /\ ScanOK /\ out_nbrs \in [Points -> Seq(Points)]
      /\ SInv' /\ SearchOK' /\ m \in Nat \ {0} /\ des \in Seq(Points) /\ Len(des) \in Nat
  <2>1. SInv /\ SInv'
    BY SInvStep DEF WInv
  <2> QED
    BY <2>1 DEF SInv, SearchOK
<1>2. pc # "merge" => Pending = {}
  <2>1. pc # "merge" => Len(des) = 0
    BY <1>1 DEF ScanOK
  <2> QED
    BY <1>1, <2>1 DEF Pending
<1>3. CASE UNCHANGED <<query, pc, inserted, expanded, des, m>> /\ (Finished => UNCHANGED out_nbrs)
  <2>1. Pending' = Pending /\ (Finished' <=> Finished)
    BY <1>3 DEF Pending, Finished
  <2> QED
    BY <1>1, <1>3, <2>1, SameReach DEF WInv, MetInv, ReachInv
<1>4. CASE UNCHANGED vars \/ Advance
  BY <1>3, <1>4 DEF vars, merging, Advance
<1>5. CASE Rewrite
  BY <1>3, <1>5 DEF Rewrite, merging, Finished
<1>6. CASE Seed
  <2>1. /\ pc = "seed" /\ inserted' = Seeds /\ pc' = "scan" /\ query' = query /\ out_nbrs' = out_nbrs
        /\ expanded' = expanded /\ des' = des /\ m' = m
    BY <1>6 DEF Seed, merging
  <2>2. Seeds' = Seeds /\ Reachable' = Reachable /\ Pending' = {} /\ Range(expanded') = {}
    <3>1. expanded = << >>
      BY <1>1, <2>1 DEF ScanOK
    <3>2. Pending' = Pending
      BY <2>1 DEF Pending
    <3>3. Range(expanded') = {}
      BY <2>1, <3>1 DEF Range
    <3> QED
      BY <1>2, <2>1, <3>2, <3>3, SameReach
  <2>3. Seeds \subseteq Reachable
    BY <1>1, ReachClosed
  <2> QED
    BY <1>1, <2>1, <2>2, <2>3 DEF WInv, MetInv, ReachInv
<1>7. CASE Expand
  <2> DEFINE a == addr[k].id
  <2>1. /\ pc = "scan" /\ k < l /\ inserted' = inserted /\ pc' = "merge" /\ query' = query
        /\ out_nbrs' = out_nbrs /\ expanded' = Append(expanded, a) /\ des' = out_nbrs[a] /\ m' = 1
    BY <1>7 DEF Expand
  <2>2. a \in inserted /\ a \in Points
    BY <1>1, <2>1 DEF SInv, SearchOK, PoolOK, Keeps
  <2> HIDE DEF a
  <2>3. Seeds' = Seeds /\ Reachable' = Reachable /\ (Finished' <=> Finished)
    BY <2>1, SameReach DEF Finished
  <2>4. Pending' = Range(out_nbrs[a])
    <3>1. out_nbrs[a] \in Seq(Points)
      BY <1>1, <2>2
    <3> QED
      BY <2>1, <3>1 DEF Pending, Range
  <2>5. Range(expanded') = Range(expanded) \cup {a}
    <3>1. expanded \in Seq(Points)
      BY <1>1 DEF SearchOK
    <3>2. /\ Len(expanded') = Len(expanded) + 1 /\ expanded' \in Seq(Points)
          /\ \A i \in 1..Len(expanded) : expanded'[i] = expanded[i]
          /\ expanded'[Len(expanded) + 1] = a
      BY ONLY <2>1, <2>2, <3>1, AppendProperties
    <3>3. DOMAIN expanded' = 1..(Len(expanded) + 1) /\ DOMAIN expanded = 1..Len(expanded)
          /\ Len(expanded) \in Nat
      BY <3>1, <3>2
    <3> QED
      BY <3>2, <3>3 DEF Range
  <2>6. Pending = {}
    BY <1>2, <2>1
  <2>7. ASSUME Finished
        PROVE  Pending' \cap query.accepts \subseteq Reachable
    BY <1>1, <2>1, <2>2, <2>4, <2>7, ReachClosed DEF WInv, ReachInv
  <2> QED
    BY <1>1, <2>1, <2>3, <2>4, <2>5, <2>6, <2>7 DEF WInv, MetInv, ReachInv
<1>8. CASE Merge
  <2> DEFINE x == des[m]
  <2>1. /\ pc = "merge" /\ pc' = "merge" /\ m' = m + 1 /\ m <= Len(des)
        /\ query' = query /\ out_nbrs' = out_nbrs /\ des' = des /\ expanded' = expanded
    BY <1>8 DEF Merge
  <2>2. Seeds' = Seeds /\ Reachable' = Reachable /\ (Finished' <=> Finished)
    BY <2>1, SameReach DEF Finished
  <2>3. /\ inserted \subseteq inserted' /\ inserted' \subseteq inserted \cup ({x} \cap query.accepts)
        /\ x \in query.accepts => x \in inserted'
    BY <1>1, <1>8, MergeFacts
  <2>4. Pending \subseteq Pending' \cup {x} /\ Pending' \subseteq Pending /\ x \in Pending
    <3>1. Pending' = {des[i] : i \in (m + 1)..Len(des)}
      BY <2>1 DEF Pending
    <3>2. m \in m..Len(des) /\ \A i \in m..Len(des) : i = m \/ i \in (m + 1)..Len(des)
      BY <1>1, <2>1
    <3>3. \A i \in (m + 1)..Len(des) : i \in m..Len(des)
      BY <1>1
    <3> QED
      BY <3>1, <3>2, <3>3 DEF Pending
  <2> HIDE DEF x
  <2> QED
    BY <1>1, <2>1, <2>2, <2>3, <2>4 DEF WInv, MetInv, ReachInv
<1>9. CASE Merged \/ Return
  <2>1. /\ pc # "seed" /\ pc' # "seed" /\ query' = query /\ out_nbrs' = out_nbrs
        /\ expanded' = expanded /\ inserted' = inserted
    BY <1>9 DEF Merged, Return
  <2>2. Seeds' = Seeds /\ Reachable' = Reachable /\ (Finished' <=> Finished)
    BY <2>1, SameReach DEF Finished
  <2>3. Pending = {} /\ Pending' = {}
    <3>1. CASE Merged
      BY <1>1, <3>1 DEF Merged, Pending
    <3>2. CASE Return
      BY <1>2, <3>2 DEF Return, Pending, merging
    <3> QED
      BY <1>9, <3>1, <3>2
  <2> QED
    BY <1>1, <2>1, <2>2, <2>3 DEF WInv, MetInv, ReachInv
<1> QED
  BY <1>4, <1>5, <1>6, <1>7, <1>8, <1>9 DEF Next, Search

LEMMA EWInvariance == ESpec => [](EInv /\ WInv)
<1>1. EInit => WInv
  BY WInvInit DEF EInit, RInit
<1>2. EInv /\ WInv /\ [ENext]_evars => WInv'
  <2> SUFFICES ASSUME EInv, WInv, [ENext]_evars
               PROVE  WInv'
    OBVIOUS
  <2>1. CASE Prepare
    <3>1. pc' = "seed" /\ SInv'
      BY <2>1, PrepareFacts, EInvStep DEF EInv
    <3> QED
      BY <3>1 DEF WInv, MetInv, ReachInv
  <2>2. CASE [Next]_vars
    BY <2>2, WInvStep
  <2> QED
    BY <2>1, <2>2, ENextFacts
<1> QED
  BY <1>1, <1>2, EInvInit, EInvStep, PTL DEF ESpec

\* At the end all of the pool has been expanded.
LEMMA DoneFacts ==
    ASSUME SInv, pc = "done"
    PROVE  /\ Ids \subseteq Range(expanded) /\ Ids \subseteq inserted
           /\ des = << >>
           /\ returned = IF query.res_count < l THEN query.res_count ELSE l
           /\ inserted # {} => l > 0
<1>1. /\ \A i \in 0..(l - 1) : ~ addr[i].flag
      /\ returned = IF query.res_count < l THEN query.res_count ELSE l
  BY DEF SInv, DoneOK
<1>2. /\ \A i \in 0..(l - 1) : addr[i].flag <=> addr[i].id \notin Range(expanded)
      /\ des = << >>
  BY DEF SInv, ScanOK
<1>3. /\ l \in 0..query.L /\ query.L \in Nat \ {0}
      /\ \A i \in 0..(l - 1) : addr[i].id \in inserted
      /\ \A x \in inserted : \/ \E i \in 0..(l - 1) : addr[i].id = x
                             \/ l = query.L
  BY DEF SInv, SearchOK, QueryOK, PoolOK, Keeps
<1>4. Ids \subseteq Range(expanded) /\ Ids \subseteq inserted
  BY <1>1, <1>2, <1>3 DEF Ids
<1>5. inserted # {} => l > 0
  BY <1>3
<1> QED
  BY <1>1, <1>2, <1>4, <1>5

\* A pool with room for all points keeps all that was met, so that what was met leads
\* nowhere else: it is what can be reached.
LEMMA WideExact == WInv => WideSearchIsExact
<1> SUFFICES ASSUME WInv, pc = "done", Finished, query.L >= Cardinality(Points)
             PROVE  Ids = Reachable
  BY DEF WideSearchIsExact
<1>1. /\ SInv /\ QueryOK /\ out_nbrs \in [Points -> Seq(Points)] /\ query.L \in Nat
      /\ inserted \subseteq Points
  BY DEF WInv, SInv, SearchOK, QueryOK
<1>2. /\ addr \in [0..query.L -> Slot(Points)] /\ l \in 0..query.L /\ InOrder(addr, l)
      /\ \A x \in inserted : (\E i \in 0..(l - 1) : addr[i].id = x) \/ l = query.L
  BY <1>1 DEF SInv, PoolOK, Keeps
<1>3. Ids \subseteq Range(expanded) /\ Ids \subseteq inserted /\ des = << >>
  BY <1>1, DoneFacts
<1>4. Ids = inserted
  <2>1. CASE l = query.L
    <3>1. Cardinality(Ids) = l
      <4>1. Ids = IdsOf(addr, l)
        BY DEF Ids, IdsOf
      <4> QED
        BY <1>1, <1>2, <4>1, IdsCount
    <3>2. Ids = Points
      <4>1. IsFiniteSet(Points) /\ Cardinality(Points) \in Nat /\ Ids \in SUBSET Points
        BY <1>1, <1>3, InputAssumption, FS_CardinalityType
      <4>2. Cardinality(Ids) <= Cardinality(Points)
            /\ (Cardinality(Points) = Cardinality(Ids) => Points = Ids)
        BY <4>1, FS_Subset
      <4> QED
        BY <1>1, <1>2, <2>1, <3>1, <4>1, <4>2
    <3> QED
      BY <1>1, <1>3, <3>2
  <2>2. CASE l # query.L
    BY <1>2, <1>3, <2>2 DEF Ids
  <2> QED
    BY <2>1, <2>2
<1>5. Pending = {}
  <2>1. m \in Nat \ {0} /\ Len(des) = 0
    BY <1>1, <1>3 DEF SInv, SearchOK
  <2> QED
    BY <2>1 DEF Pending
<1>6. /\ Seeds \subseteq inserted /\ inserted \subseteq Reachable
      /\ \A n \in inserted : Range(out_nbrs[n]) \cap query.accepts \subseteq inserted
  BY <1>3, <1>4, <1>5 DEF WInv, MetInv, ReachInv
<1>7. Reachable \subseteq inserted
  BY <1>1, <1>6, ReachClosed
<1> QED
  BY <1>4, <1>6, <1>7

\* In a finished graph a pool as large as the graph finds everything that can be reached
\* from the seeds through accepted points.
THEOREM WideSearchExact == ESpec => []WideSearchIsExact
BY WideExact, EWInvariance, PTL

----------------------------------------------------------------------------
(* Searching a relative neighbourhood graph.                               *)

\* What follows in a sequence is in it.
LEMMA ConcatRange ==
    ASSUME NEW S, NEW r \in Seq(S), NEW s \in Seq(S)
    PROVE  Range(s) \subseteq Range(r \o s)
<1> SUFFICES ASSUME NEW i \in 1..Len(s)
             PROVE  s[i] \in Range(r \o s)
  BY DEF Range
<1>1. Len(r) \in Nat /\ Len(s) \in Nat
  OBVIOUS
<1>2. /\ Len(r \o s) = Len(r) + Len(s) /\ r \o s \in Seq(S)
      /\ \A j \in 1..(Len(r) + Len(s)) : (r \o s)[j] = IF j <= Len(r) THEN r[j] ELSE s[j - Len(r)]
  BY ConcatProperties
<1>3. Len(r) + i \in 1..(Len(r) + Len(s)) /\ ~ (Len(r) + i <= Len(r)) /\ (Len(r) + i) - Len(r) = i
  BY <1>1
<1>4. (r \o s)[Len(r) + i] = s[i]
  BY <1>2, <1>3
<1>5. DOMAIN (r \o s) = 1..(Len(r) + Len(s))
  BY <1>2
<1> QED
  BY <1>3, <1>4, <1>5 DEF Range

\* The links of a location lead to every other point that is no copy, or closer to it.
LinkInv ==
    query.vectors # << >> =>
        \A p \in built : \A x \in Points \ {p} : Between(p, x) # 0 => \E z \in Range(out_nbrs[p]) :
            z = x \/ Between(z, x) < Between(p, x)

LEMMA LinkInit == EInit => LinkInv
BY DEF EInit, RInit, LinkInv

LEMMA LinkStep == EInv /\ LinkInv /\ [ENext]_evars => LinkInv'
<1> SUFFICES ASSUME EInv, LinkInv, [ENext]_evars, query'.vectors # << >>
             PROVE  \A p \in built' : \A x \in Points \ {p} :
                        Between(p, x)' # 0 => \E z \in Range(out_nbrs'[p]) :
                            z = x \/ Between(z, x)' < Between(p, x)'
  BY DEF LinkInv
<1>1. /\ VectorsOK /\ built \subseteq Points /\ out_nbrs \in [Points -> Seq(Points)]
  BY InputFacts DEF EInv, SInv, SearchOK
<1>2. CASE Build
  <2>1. PICK p \in Points : BuildLocation(p)
    BY <1>2 DEF Build
  <2>2. /\ p \notin built /\ built' = built \cup {p} /\ query' = query
    BY <2>1 DEF BuildLocation
  <2>8. PICK c \in Pools(p) : out_nbrs' = [out_nbrs EXCEPT ![p] = @ \o Rule!AlphaRng(p, c)]
    BY <2>1 DEF BuildLocation
  <2> DEFINE s == Rule!AlphaRng(p, c)
  <2>3. /\ s \in Seq(Points)
        /\ \A x \in Points \ {p} : Between(p, x) # 0 => \E z \in Range(s) : z = x \/ Between(z, x) < Between(p, x)
    BY <1>1, <2>2, LinksFacts
  <2> HIDE DEF s
  <2>4. \A x, y : Between(x, y)' = Between(x, y)
    BY <2>2 DEF Between
  <2>5. \A q \in built : out_nbrs'[q] = out_nbrs[q]
    BY <1>1, <2>2, <2>8
  <2>6. out_nbrs'[p] = out_nbrs[p] \o s /\ out_nbrs[p] \in Seq(Points)
    BY <1>1, <2>2, <2>8 DEF s
  <2>7. Range(s) \subseteq Range(out_nbrs'[p])
    BY <2>3, <2>6, ConcatRange
  <2> QED
    BY <2>2, <2>3, <2>4, <2>5, <2>7 DEF LinkInv
<1>3. CASE ~ Build
  <2>1. built' = built /\ query'.vectors = query.vectors /\ out_nbrs' = out_nbrs
    <3>1. CASE Prepare
      <4>1. query'.vectors = query.vectors
        BY <3>1, PrepareFacts
      <4>2. built' = built /\ out_nbrs' = out_nbrs
        BY <1>3, <3>1 DEF Prepare, LStep, StartSearch, PickMedoid, vars
      <4> QED
        BY <4>1, <4>2
    <3>2. CASE Answer \/ Judge \/ UNCHANGED evars
      BY <3>2 DEF Answer, Judge, evars, rvars, vars, Search, Seed, Expand, Advance, Merge, Merged,
                  Return
    <3>3. CASE Disturb
      <4>1. query' = query /\ built' = built /\ Rewrite
        BY <3>3 DEF Disturb, Rewrite
      <4>2. query.writes = {}
        BY <1>1, <4>1 DEF VectorsOK
      <4> QED
        BY <4>1, <4>2 DEF Rewrite
    <3> QED
      BY <3>1, <3>2, <3>3 DEF ENext
  <2>2. \A x, y : Between(x, y)' = Between(x, y)
    BY <2>1 DEF Between
  <2> QED
    BY <2>1, <2>2 DEF LinkInv
<1> QED
  BY <1>2, <1>3

\* The seeds are ids to start from.
LEMMA SeedsFrom ==
    ASSUME QueryOK
    PROVE  \A x \in Seeds : \E i \in 1..Len(query.init_ids) : x = query.init_ids[i]
<1> DEFINE s == query.init_ids
           first == {i \in DOMAIN s : \A j \in 1..(i - 1) : s[j] # s[i]}
           N == {n \in first : Cardinality({j \in first : j < n}) < query.L}
<1>1. Seeds = {s[i] : i \in N}
  BY DEF Seeds
<1>2. N \subseteq DOMAIN s
  OBVIOUS
<1>3. DOMAIN s = 1..Len(s)
  BY DEF QueryOK
<1> HIDE DEF N, s
<1>4. \A x \in Seeds : \E i \in 1..Len(s) : x = s[i]
  BY <1>1, <1>2, <1>3
<1> QED
  BY <1>4 DEF s

\* A search that has an id to start from has a seed.
LEMMA SeedsNotEmpty ==
    ASSUME QueryOK, query.init_ids # << >>
    PROVE  Seeds # {}
<1> DEFINE s == query.init_ids
           first == {i \in DOMAIN s : \A j \in 1..(i - 1) : s[j] # s[i]}
<1>1. s \in Seq(Points) /\ s # << >> /\ query.L \in Nat \ {0}
  BY DEF QueryOK
<1>2. 1 \in DOMAIN s /\ DOMAIN s \subseteq Nat \ {0}
  BY <1>1
<1>3. 1 \in first /\ {j \in first : j < 1} = {}
  BY <1>2
<1>4. Seeds = {s[i] : i \in {n \in first : Cardinality({j \in first : j < n}) < query.L}}
  BY DEF Seeds
<1> HIDE DEF first, s
<1>5. Cardinality({j \in first : j < 1}) < query.L
  <2>1. Cardinality({j \in first : j < 1}) = 0
    BY <1>3, FS_EmptySet
  <2>2. \A n \in Nat \ {0} : 0 < n
    OBVIOUS
  <2> QED
    BY <1>1, <2>1, <2>2
<1>6. s[1] \in Seeds
  BY <1>3, <1>4, <1>5
<1> QED
  BY <1>6

\* The point at the front of the pool leads to no closer one, so that it is the one
\* looked for, or a copy.
LEMMA FoundFacts ==
    ASSUME EInv, WInv, LinkInv
    PROVE  FindsEveryPoint
<1> SUFFICES ASSUME pc = "done", query.vectors # << >>, NEW x \in Points, query.dist[x] = 0
             PROVE  results[1].distance = 0
  BY DEF FindsEveryPoint
<1>1. /\ SInv /\ QueryOK /\ VectorsOK /\ built = Points
      /\ out_nbrs \in [Points -> Seq(Points)] /\ inserted \subseteq Points
      /\ query.dist \in [Points -> Nat] /\ query.L \in Nat \ {0} /\ query.res_count \in 1..(query.L + 1)
  <2>1. SInv /\ VectorsOK /\ built = Points
    BY InputFacts DEF EInv
  <2>2. QueryOK /\ out_nbrs \in [Points -> Seq(Points)] /\ inserted \subseteq Points
    BY <2>1 DEF SInv, SearchOK
  <2>3. /\ query.dist \in [Points -> Nat] /\ query.L \in Nat \ {0}
        /\ query.res_count \in 1..(query.L + 1)
    BY <2>2, FarAssumption DEF QueryOK
  <2> QED
    BY <2>1, <2>2, <2>3
<1>2. Finished /\ query.accepts = Points /\ query.init_ids # << >>
  <2>1. query.accepts = Points /\ query.writes = {} /\ \E i \in Points : query.init_ids = <<i>>
    BY <1>1 DEF VectorsOK
  <2>2. query.init_ids # << >>
    BY <2>1
  <2> QED
    BY <2>1, <2>2 DEF Finished
<1>3. l > 0 /\ l \in Nat
  <2>1. Seeds # {}
    BY <1>1, <1>2, SeedsNotEmpty
  <2>2. inserted # {}
    BY <2>1 DEF WInv, MetInv
  <2>3. l \in Nat
    BY <1>1 DEF SInv, PoolOK, Keeps
  <2> QED
    BY <1>1, <2>2, <2>3, DoneFacts
<1> DEFINE p == addr[0].id
<1>4. /\ p \in inserted /\ addr[0].distance = query.dist[p] /\ p \in Ids
      /\ InOrder(addr, l)
      /\ \A i \in 0..(l - 1) : addr[i].distance = query.dist[addr[i].id]
      /\ \A y \in inserted : \/ \E i \in 0..(l - 1) : addr[i].id = y
                             \/ \A i \in 0..(l - 1) : addr[i].distance <= query.dist[y]
  <2>1. 0 \in 0..(l - 1)
    BY <1>3
  <2> QED
    BY <1>1, <2>1 DEF SInv, PoolOK, Keeps, Ids
<1>5. results[1].distance = query.dist[p]
  <2>1. results = [i \in 1..query.res_count |->
                      [tag |-> Tag(addr[i - 1].id), distance |-> addr[i - 1].distance]]
    BY <1>1 DEF SInv, DoneOK
  <2>2. 1 \in 1..query.res_count /\ 1 - 1 = 0
    BY <1>1
  <2> QED
    BY <1>4, <2>1, <2>2
<1>6. \A y \in inserted : query.dist[p] <= query.dist[y]
  <2> SUFFICES ASSUME NEW y \in inserted
               PROVE  query.dist[p] <= query.dist[y]
    OBVIOUS
  <2>1. 0 \in 0..(l - 1) /\ query.dist[p] \in Nat /\ query.dist[y] \in Nat
    BY <1>1, <1>3, <1>4
  <2>2. CASE \A i \in 0..(l - 1) : addr[i].distance <= query.dist[y]
    BY <1>4, <2>1, <2>2
  <2>3. ASSUME NEW i \in 0..(l - 1), addr[i].id = y
        PROVE  query.dist[p] <= query.dist[y]
    <3>1. addr[i].distance = query.dist[y]
      BY <1>4, <2>3
    <3>2. i = 0 \/ 0 < i
      BY <1>3
    <3>3. i # 0 => addr[0].distance <= addr[i].distance
      BY <1>4, <2>1, <3>2 DEF InOrder
    <3> QED
      BY <1>4, <2>1, <3>1, <3>3
  <2> QED
    BY <1>4, <2>2, <2>3
<1> HIDE DEF p
<1>7. ASSUME query.dist[p] # 0
      PROVE  FALSE
  <2>1. p \in Points \ {x} /\ p \in Range(expanded)
    BY <1>1, <1>4, <1>7, DoneFacts
  <2>2. x \in Points \ {p}
    BY <2>1
  <2>3. PICK z \in Range(out_nbrs[p]) : z = x \/ Between(z, x) < Between(p, x)
    <3>1. Between(p, x) # 0
      BY <1>1, <1>7, <2>1 DEF VectorsOK
    <3> QED
      BY <1>1, <2>1, <2>2, <3>1 DEF LinkInv
  <2>4. z \in Points
    BY <1>1, <2>1 DEF Range
  <2>5. query.dist[z] < query.dist[p]
    <3>1. \A i \in Points : query.dist[i] = Between(i, x)
      BY <1>1 DEF VectorsOK
    <3>2. query.dist[z] \in Nat /\ query.dist[p] \in Nat
      BY <1>1, <2>1, <2>4
    <3>3. CASE z = x
      BY <1>7, <3>2, <3>3
    <3>4. CASE z # x
      BY <2>1, <2>3, <2>4, <3>1, <3>4
    <3> QED
      BY <3>3, <3>4
  <2>6. Pending = {}
    <3>1. m \in Nat \ {0} /\ Len(des) = 0
      BY <1>1, DoneFacts DEF SInv, SearchOK
    <3> QED
      BY <3>1 DEF Pending
  <2>7. z \in inserted
    BY <1>2, <2>1, <2>3, <2>4, <2>6 DEF WInv, ReachInv
  <2> QED
    BY <1>1, <1>6, <2>1, <2>4, <2>5, <2>7
<1> QED
  BY <1>5, <1>7

\* In a relative neighbourhood graph a search from the entry point that is asked for a point
\* of the data, even with a pool of one, answers with that point or a copy of it; whatever
\* order the build met candidates at one distance in, and whatever 0 / 0 compares as.
THEOREM EveryPointFound == ESpec => []FindsEveryPoint
BY FoundFacts, EWInvariance, LinkInit, LinkStep, PTL DEF ESpec

----------------------------------------------------------------------------
(* Searching with labels.                                                  *)

\* What set_intersection finds is in both lists, whether they are sorted or not.
LEMMA IntersectionFacts ==
    ASSUME NEW a \in Seq(Nat), NEW b \in Seq(Nat)
    PROVE  set_intersection(a, b) \subseteq Range(a) \cap Range(b)
<1> DEFINE n == Len(a) + Len(b)
           x == [i |-> 1, j |-> 1, both |-> {}]
           B(g) == [t \in 0..n |-> IF t = 0 THEN x ELSE Intersect(a, b, g[t - 1])]
           W == SUBSET (Range(a) \cap Range(b))
           V == [i : Nat \ {0}, j : Nat \ {0}, both : W]
           step == [t \in 1..n |-> [s \in V |-> Intersect(a, b, s)]]
           f == CHOOSE g : g = B(g)
<1>0. n \in Nat
  OBVIOUS
<1>1. set_intersection(a, b) = f[n].both
  BY DEF set_intersection
<1>2. ASSUME NEW s \in V
      PROVE  Intersect(a, b, s) \in V
  <2>1. s.i \in Nat \ {0} /\ s.j \in Nat \ {0} /\ s.both \subseteq Range(a) \cap Range(b)
        /\ s = [i |-> s.i, j |-> s.j, both |-> s.both]
    OBVIOUS
  <2>2. CASE s.i > Len(a) \/ s.j > Len(b)
    BY <2>2 DEF Intersect
  <2>3. CASE ~ (s.i > Len(a) \/ s.j > Len(b))
    <3>1. s.i \in 1..Len(a) /\ s.j \in 1..Len(b)
      BY <2>1, <2>3
    <3>2. a[s.i] \in Nat /\ b[s.j] \in Nat /\ a[s.i] \in Range(a) /\ b[s.j] \in Range(b)
      BY <3>1 DEF Range
    <3>3. CASE a[s.i] < b[s.j]
      <4>1. Intersect(a, b, s) = [s EXCEPT !.i = s.i + 1]
        BY <2>3, <3>3 DEF Intersect
      <4>2. [s EXCEPT !.i = s.i + 1] \in V
        <5>1. s \in [i : Nat \ {0}, j : Nat \ {0}, both : W] /\ s.i + 1 \in Nat \ {0}
          BY <2>1
        <5> HIDE DEF W
        <5> QED
          BY ONLY <5>1
      <4> QED
        BY <4>1, <4>2
    <3>4. CASE b[s.j] < a[s.i]
      <4>1. Intersect(a, b, s) = [s EXCEPT !.j = s.j + 1]
        BY <2>3, <3>2, <3>4 DEF Intersect
      <4>2. [s EXCEPT !.j = s.j + 1] = [i |-> s.i, j |-> s.j + 1, both |-> s.both]
        BY <2>1
      <4>3. s.j + 1 \in Nat \ {0}
        BY <2>1
      <4> QED
        BY <2>1, <4>1, <4>2, <4>3
    <3>5. CASE a[s.i] = b[s.j]
      <4>1. Intersect(a, b, s) = [i |-> s.i + 1, j |-> s.j + 1, both |-> s.both \cup {a[s.i]}]
        BY <2>3, <3>2, <3>5 DEF Intersect
      <4>2. s.both \cup {a[s.i]} \subseteq Range(a) \cap Range(b)
        BY <2>1, <3>2, <3>5
      <4> QED
        BY <2>1, <4>1, <4>2
    <3> QED
      BY <3>2, <3>3, <3>4, <3>5
  <2> QED
    BY <2>2, <2>3
<1>3. step \in [1..n -> [V -> V]] /\ \A t \in 1..n : \A s \in V : step[t][s] = Intersect(a, b, s)
  <2> HIDE DEF V
  <2> QED
    BY <1>2
<1>4. x \in V
  OBVIOUS
<1> HIDE DEF step, V, x, n
<1>5. HasValue(n, V, x, step)
  BY <1>0, <1>3, <1>4, Recursion
<1>6. PICK h : h \in [0..n -> V] /\ h[0] = x /\ \A t \in 1..n : h[t] = step[t][h[t - 1]]
  BY <1>5 DEF HasValue
<1>7. \A t \in 0..n : t # 0 => t \in 1..n /\ t - 1 \in 0..n
  BY <1>0
<1>8. h = B(h)
  <2>1. \A t \in 0..n : h[t] = IF t = 0 THEN x ELSE Intersect(a, b, h[t - 1])
    BY <1>3, <1>6, <1>7
  <2> QED
    BY <1>6, <2>1
<1> HIDE DEF B
<1>9. f = B(f)
  BY <1>8
<1> HIDE DEF f
<1>10. f[0] = x /\ \A t \in 1..n : f[t] = Intersect(a, b, f[t - 1])
  <2>1. \A t \in 0..n : B(f)[t] = IF t = 0 THEN x ELSE Intersect(a, b, f[t - 1])
    BY DEF B
  <2>2. 0 \in 0..n /\ \A t \in 1..n : t \in 0..n /\ t # 0
    BY <1>0
  <2>3. B(f)[0] = x /\ \A t \in 1..n : B(f)[t] = Intersect(a, b, f[t - 1])
    BY <2>1, <2>2
  <2> QED
    BY <1>9, <2>3
<1> DEFINE S == {t \in 0..n : f[t] \in V}
<1>11. 0 \in S
  BY <1>0, <1>4, <1>10
<1>12. ASSUME NEW t \in 0..(n - 1), t \in S
       PROVE  t + 1 \in S
  <2>1. t + 1 \in 1..n /\ t + 1 \in 0..n /\ (t + 1) - 1 = t
    BY <1>0
  <2> QED
    BY <1>2, <1>10, <1>12, <2>1
<1>13. f[n] \in V
  <2>1. \A t \in 0..n : t \in S
    <3> HIDE DEF S
    <3> QED
      BY <1>0, <1>11, <1>12, InductionTo
  <2> QED
    BY <1>0, <2>1
<1> QED
  BY <1>1, <1>13 DEF V

LEMMA LabelFacts ==
    ASSUME EInv, WInv
    PROVE  AnswersCarryLabels
<1> DEFINE wanted == Range(query.filters)
           Carries(i) == Range(query.labels[i]) \cap (wanted \cup {UniversalLabel}) # {}
<1> SUFFICES ASSUME pc = "done", filtered, UniversalLabel \notin wanted
             PROVE  /\ \A n \in 1..returned : \E i \in Points :
                          results[n].tag = Tag(i) /\ Carries(i)
                    /\ wanted \cap labels # {} => returned > 0
  BY DEF AnswersCarryLabels
<1>1. /\ SInv /\ LabelsOK /\ MedoidsOK /\ Ready /\ filtered
  BY InputFacts DEF EInv
<1>2. /\ QueryOK /\ inserted \subseteq Points /\ query.L \in Nat \ {0}
      /\ query.res_count \in 1..(query.L + 1)
  BY <1>1 DEF SInv, SearchOK, QueryOK
<1>3. /\ query.filters \in Seq(Nat) /\ query.labels \in [Points -> Seq(Nat) \ {<< >>}]
      /\ query.accepts = Accepted(query.filters, query.labels)
  BY <1>1 DEF LabelsOK, filtered
<1>4. /\ DOMAIN filter_to_medoid_id = labels /\ query.init_ids = init_ids
      /\ \A x \in labels : filter_to_medoid_id[x] \in filtered_points(x)
  BY <1>1 DEF Ready, MedoidsOK
<1>5. /\ init_ids \in Seq(Points)
      /\ \A j \in 1..Len(init_ids) : \E t \in 1..Len(query.filters) :
            /\ query.filters[t] \in labels
            /\ init_ids[j] = filter_to_medoid_id[query.filters[t]]
      /\ \A t \in 1..Len(query.filters) : query.filters[t] \in labels => init_ids # << >>
  <2>1. \A x \in DOMAIN filter_to_medoid_id : filter_to_medoid_id[x] \in Points
    BY <1>4 DEF filtered_points
  <2> QED
    BY <1>3, <1>4, <2>1, StartsFacts
<1>6. \A t \in 1..Len(query.filters) : query.filters[t] \in wanted
  BY <1>3 DEF Range
<1>7. \A x \in wanted : \E t \in 1..Len(query.filters) : query.filters[t] = x
  BY <1>3 DEF Range
<1> HIDE DEF wanted
<1>8. \A i \in Seeds : Carries(i)
  <2> SUFFICES ASSUME NEW i \in Seeds
               PROVE  Carries(i)
    OBVIOUS
  <2>1. PICK j \in 1..Len(init_ids) : i = init_ids[j]
    BY <1>2, <1>4, SeedsFrom
  <2>2. PICK t \in 1..Len(query.filters) :
           query.filters[t] \in labels /\ i = filter_to_medoid_id[query.filters[t]]
    BY <1>5, <2>1
  <2>3. i \in filtered_points(query.filters[t])
    BY <1>4, <2>2
  <2>4. {query.filters[t], UniversalLabel} \cap Range(query.labels[i]) # {}
    BY <2>3 DEF filtered_points
  <2> QED
    BY <1>6, <2>4
<1>9. \A i \in query.accepts : Carries(i)
  <2> SUFFICES ASSUME NEW i \in query.accepts
               PROVE  Carries(i)
    OBVIOUS
  <2>1. /\ i \in Points
        /\ \/ set_intersection(query.filters, query.labels[i]) # {}
           \/ UniversalLabel \in wanted \cup Range(query.labels[i])
    BY <1>3 DEF Accepted, wanted
  <2>2. set_intersection(query.filters, query.labels[i]) \subseteq wanted \cap Range(query.labels[i])
    BY <1>3, <2>1, IntersectionFacts DEF wanted
  <2> QED
    BY <2>1, <2>2
<1>10. \A i \in inserted : Carries(i)
  <2>1. inserted \subseteq Seeds \cup query.accepts
    BY DEF WInv, MetInv
  <2> HIDE DEF Carries
  <2> QED
    BY <1>8, <1>9, <2>1
<1>11. returned = (IF query.res_count < l THEN query.res_count ELSE l) /\ l \in Nat
       /\ (inserted # {} => l > 0)
  BY <1>1, DoneFacts DEF SInv, PoolOK, Keeps
<1>12. ASSUME NEW n \in 1..returned
       PROVE  \E i \in Points : results[n].tag = Tag(i) /\ Carries(i)
  <2>1. n \in 1..query.res_count /\ n - 1 \in 0..(l - 1)
    BY <1>2, <1>11
  <2>2. results = [i \in 1..query.res_count |->
                      [tag |-> Tag(addr[i - 1].id), distance |-> addr[i - 1].distance]]
    BY <1>1 DEF SInv, DoneOK
  <2>3. addr[n - 1].id \in inserted
    BY <1>1, <2>1 DEF SInv, PoolOK, Keeps
  <2>4. results[n].tag = Tag(addr[n - 1].id)
    BY <2>1, <2>2
  <2> HIDE DEF Carries
  <2> QED
    BY <1>2, <1>10, <2>3, <2>4
<1>13. ASSUME wanted \cap labels # {}
       PROVE  returned > 0
  <2>1. PICK t \in 1..Len(query.filters) : query.filters[t] \in labels
    BY <1>7, <1>13
  <2>2. Seeds # {}
    BY <1>2, <1>4, <1>5, <2>1, SeedsNotEmpty
  <2>3. inserted # {}
    BY <2>2 DEF WInv, MetInv
  <2> QED
    BY <1>2, <1>11, <2>3
<1> QED
  BY <1>12, <1>13

\* The answers to a search with labels have one of them, or the universal label, and
\* there are answers if any point has one of them, whichever medoids were drawn.
THEOREM LabelsCarried == ESpec => []AnswersCarryLabels
BY LabelFacts, EWInvariance, PTL

----------------------------------------------------------------------------
(* The truth.                                                              *)

\* The parts cut the points up, none is empty and none is larger than PARTSIZE.
LEMMA PartFacts ==
    ASSUME NEW p \in 0..(num_parts - 1)
    PROVE  /\ num_parts \in Nat /\ p * PARTSIZE \in Nat
           /\ p * PARTSIZE < NumPoints
           /\ npoints(p) \in Nat \ {0} /\ p * PARTSIZE + npoints(p) <= NumPoints
           /\ npoints(p) <= PARTSIZE
           /\ (p + 1) * PARTSIZE = p * PARTSIZE + PARTSIZE
           /\ npoints(p) = PARTSIZE \/ p * PARTSIZE + npoints(p) = NumPoints
<1>1. NumPoints \in Nat \ {0} /\ PARTSIZE \in Nat \ {0}
  BY TruthAssumption
<1> DEFINE q == NumPoints \div PARTSIZE
           r == NumPoints % PARTSIZE
<1>2. q \in Nat /\ r \in Nat /\ NumPoints = PARTSIZE * q + r /\ r < PARTSIZE
  BY <1>1
<1>3. num_parts = IF r = 0 THEN q ELSE q + 1
  BY DEF num_parts
<1> HIDE DEF q, r
<1>4. p \in Nat /\ num_parts \in Nat /\ (r = 0 => p + 1 <= q) /\ p <= q
  BY <1>2, <1>3
<1>5. p * PARTSIZE \in Nat /\ (p + 1) * PARTSIZE = p * PARTSIZE + PARTSIZE
  BY <1>1, <1>4
<1>6. p * PARTSIZE < NumPoints
  <2>1. CASE r = 0
    <3>1. (p + 1) * PARTSIZE <= q * PARTSIZE /\ q * PARTSIZE = PARTSIZE * q /\ q * PARTSIZE \in Nat
      BY <1>1, <1>2, <1>4, <2>1
    <3> QED
      BY <1>1, <1>2, <1>5, <2>1, <3>1
  <2>2. CASE r # 0
    <3>1. p * PARTSIZE <= q * PARTSIZE /\ q * PARTSIZE = PARTSIZE * q /\ q * PARTSIZE \in Nat
      BY <1>1, <1>2, <1>4
    <3> QED
      BY <1>1, <1>2, <1>5, <2>2, <3>1
  <2> QED
    BY <2>1, <2>2
<1> DEFINE o == p * PARTSIZE
<1>7. npoints(p) = IF NumPoints - o < PARTSIZE THEN NumPoints - o ELSE PARTSIZE
  BY DEF npoints
<1>8. o \in Nat /\ o < NumPoints
  BY <1>5, <1>6
<1> HIDE DEF o
<1>9. /\ npoints(p) \in Nat \ {0} /\ o + npoints(p) <= NumPoints /\ npoints(p) <= PARTSIZE
      /\ npoints(p) = PARTSIZE \/ o + npoints(p) = NumPoints
  BY <1>1, <1>7, <1>8
<1> QED
  BY <1>4, <1>5, <1>6, <1>9 DEF o

\* All of them are in some part.
LEMMA PartsCover ==
    /\ num_parts \in Nat /\ num_parts * PARTSIZE \in Nat
    /\ NumPoints <= num_parts * PARTSIZE
<1>1. NumPoints \in Nat \ {0} /\ PARTSIZE \in Nat \ {0}
  BY TruthAssumption
<1> DEFINE q == NumPoints \div PARTSIZE
           r == NumPoints % PARTSIZE
<1>2. q \in Nat /\ r \in Nat /\ NumPoints = PARTSIZE * q + r /\ r < PARTSIZE
  BY <1>1
<1>3. num_parts = IF r = 0 THEN q ELSE q + 1
  BY DEF num_parts
<1> HIDE DEF q, r
<1>4. q * PARTSIZE = PARTSIZE * q /\ (q + 1) * PARTSIZE = q * PARTSIZE + PARTSIZE /\ q * PARTSIZE \in Nat
  BY <1>1, <1>2
<1> QED
  BY <1>1, <1>2, <1>3, <1>4

\* A heap with the closest of a sequence of ids, size of them.
Nearest(h, S, dist, size) ==
    /\ h \subseteq S
    /\ IsFiniteSet(h) /\ Cardinality(h) = size
    /\ \A x \in S \ h : \A y \in h : dist[y] <= dist[x]

Top(h, dist) == {y \in h : \A z \in h : dist[z] <= dist[y]}

\* The top of a heap that is not empty.
LEMMA TopFacts ==
    ASSUME NEW D, NEW dist \in [D -> 0..(Far - 1)], NEW h \in SUBSET D, h # {}
    PROVE  Top(h, dist) # {}
<1> DEFINE V == {dist[y] : y \in h}
           n == IF Far = 0 THEN 0 ELSE Far - 1
<1>1. V \subseteq 0..(Far - 1) /\ V # {}
  OBVIOUS
<1>2. n \in Nat /\ V \subseteq 0..n
  BY <1>1, FarAssumption
<1> HIDE DEF V, n
<1>3. PICK v \in V : \A w \in V : w <= v
  BY <1>1, <1>2, Greatest
<1>4. PICK y \in h : v = dist[y]
  BY DEF V
<1>5. \A z \in h : dist[z] \in V
  BY DEF V
<1>6. y \in Top(h, dist)
  BY <1>3, <1>4, <1>5 DEF Top
<1> QED
  BY <1>6

\* A turn of exact_knn keeps the closest in the heap.
LEMMA TurnFacts ==
    ASSUME NEW D, NEW dist \in [D -> 0..(Far - 1)], NEW S \in SUBSET D, NEW x \in D \ S,
           NEW size \in Nat \ {0}, NEW h, Nearest(h, S, dist, size),
           NEW g \in Turn(h, x, dist, size)
    PROVE  Nearest(g, S \cup {x}, dist, size)
<1> DEFINE grown == IF \A y \in Top(h, dist) : dist[y] > dist[x] THEN h \cup {x} ELSE h
<1>1. /\ h \subseteq S /\ IsFiniteSet(h) /\ Cardinality(h) = size /\ x \notin h
      /\ \A z \in S \ h : \A y \in h : dist[y] <= dist[z]
      /\ \A y \in D : dist[y] \in Nat
  BY FarAssumption DEF Nearest
<1>2. g \in IF Cardinality(grown) > size THEN {grown \ {y} : y \in Top(grown, dist)} ELSE {grown}
  BY DEF Turn, Top
<1>3. h # {} /\ h \subseteq D
  BY <1>1, FS_EmptySet
<1>4. CASE \A y \in Top(h, dist) : dist[y] > dist[x]
  <2>1. grown = h \cup {x}
    BY <1>4
  <2> HIDE DEF grown
  <2>2. IsFiniteSet(grown) /\ Cardinality(grown) = size + 1
    BY <1>1, <2>1, FS_AddElement
  <2>3. PICK y \in Top(grown, dist) : g = grown \ {y}
    BY <1>2, <2>2
  <2>4. y \in grown /\ \A z \in grown : dist[z] <= dist[y]
    BY DEF Top
  <2>5. IsFiniteSet(g) /\ Cardinality(g) = size
    <3>1. IsFiniteSet(grown \ {y}) /\ Cardinality(grown \ {y}) = Cardinality(grown) - 1
      BY <2>2, <2>4, FS_RemoveElement
    <3>2. (size + 1) - 1 = size
      OBVIOUS
    <3> QED
      BY <2>2, <2>3, <3>1, <3>2
  <2>6. PICK t \in Top(h, dist) : TRUE
    BY <1>3, TopFacts
  <2>7. t \in h /\ dist[x] < dist[t]
    BY <1>1, <1>3, <1>4 DEF Top
  <2>8. ASSUME NEW z \in (S \cup {x}) \ g, NEW u \in g
        PROVE  dist[u] <= dist[z]
    <3>1. u \in grown
      BY <2>3
    <3>2. CASE z = y
      BY <2>4, <3>1, <3>2
    <3>3. CASE z # y
      <4>1. z \in S \ h /\ z \notin grown
        BY <2>1, <2>3, <3>3
      <4>2. dist[t] <= dist[z]
        BY <1>1, <2>7, <4>1
      <4>3. u = x \/ u \in h
        BY <2>1, <3>1
      <4>4. dist[x] \in Nat /\ dist[t] \in Nat /\ dist[z] \in Nat
        BY <1>1, <1>3, <2>7, <4>1
      <4> QED
        BY <1>1, <2>7, <4>1, <4>2, <4>3, <4>4
    <3> QED
      BY <3>2, <3>3
  <2>9. g \subseteq S \cup {x}
    BY <1>1, <2>1, <2>3
  <2> QED
    BY <2>5, <2>8, <2>9 DEF Nearest
<1>5. CASE ~ \A y \in Top(h, dist) : dist[y] > dist[x]
  <2>1. grown = h
    BY <1>5
  <2> HIDE DEF grown
  <2>2. g = h
    BY <1>1, <1>2, <2>1
  <2>3. PICK t \in Top(h, dist) : ~ (dist[t] > dist[x])
    BY <1>5
  <2>4. t \in h /\ (\A z \in h : dist[z] <= dist[t]) /\ dist[t] <= dist[x]
    BY <1>1, <1>3, <2>3 DEF Top
  <2>5. \A u \in h : dist[u] <= dist[x]
    <3> SUFFICES ASSUME NEW u \in h
                 PROVE  dist[u] <= dist[x]
      OBVIOUS
    <3>1. dist[u] \in Nat /\ dist[t] \in Nat /\ dist[x] \in Nat /\ dist[u] <= dist[t]
      BY <1>1, <1>3, <2>4
    <3> QED
      BY <2>4, <3>1
  <2> QED
    BY <1>1, <2>2, <2>5 DEF Nearest
<1> QED
  BY <1>4, <1>5

\* The ids of the first n.
FirstIds(ids, n) == {ids[i] : i \in 1..n}

LEMMA FirstFacts ==
    ASSUME NEW D, NEW ids \in Seq(D), IsInjective(ids), NEW n \in 0..Len(ids)
    PROVE  /\ FirstIds(ids, n) \in SUBSET D /\ IsFiniteSet(FirstIds(ids, n))
           /\ Cardinality(FirstIds(ids, n)) = n
           /\ n < Len(ids) => /\ FirstIds(ids, n + 1) = FirstIds(ids, n) \cup {ids[n + 1]}
                              /\ ids[n + 1] \in D \ FirstIds(ids, n)
<1>1. /\ n \in Nat /\ Len(ids) \in Nat /\ DOMAIN ids = 1..Len(ids)
      /\ \A i, j \in 1..Len(ids) : ids[i] = ids[j] => i = j
      /\ \A i \in 1..Len(ids) : ids[i] \in D
  BY DEF IsInjective
<1> DEFINE f == [i \in 1..n |-> ids[i]]
<1>2. FirstIds(ids, n) \in SUBSET D
  BY <1>1 DEF FirstIds
<1>3. f \in Bijection(1..n, FirstIds(ids, n))
  <2>1. f \in [1..n -> FirstIds(ids, n)]
    BY DEF FirstIds
  <2>2. \A i, j \in 1..n : f[i] = f[j] => i = j
    BY <1>1
  <2>3. \A x \in FirstIds(ids, n) : \E i \in 1..n : f[i] = x
    BY DEF FirstIds
  <2> QED
    BY <2>1, <2>2, <2>3 DEF Bijection, Injection, Surjection, IsInjective
<1>4. IsFiniteSet(1..n) /\ Cardinality(1..n) = n
  <2>1. 1 \in Int /\ n \in Int
    BY <1>1
  <2>2. IsFiniteSet(1..n) /\ Cardinality(1..n) = IF 1 > n THEN 0 ELSE n - 1 + 1
    BY <2>1, FS_Interval
  <2> QED
    BY <1>1, <2>2
<1>5. IsFiniteSet(FirstIds(ids, n)) /\ Cardinality(FirstIds(ids, n)) = n
  <2> HIDE DEF f
  <2>1. ExistsBijection(1..n, FirstIds(ids, n))
    BY <1>3 DEF ExistsBijection
  <2> QED
    BY <1>4, <2>1, FS_Bijection
<1>6. ASSUME n < Len(ids)
      PROVE  /\ FirstIds(ids, n + 1) = FirstIds(ids, n) \cup {ids[n + 1]}
             /\ ids[n + 1] \in D \ FirstIds(ids, n)
  <2>1. n + 1 \in 1..Len(ids) /\ \A i : i \in 1..(n + 1) <=> i \in 1..n \/ i = n + 1
    BY <1>1, <1>6
  <2>2. \A i \in 1..n : i \in 1..Len(ids) /\ i # n + 1
    BY <1>1
  <2> QED
    BY <1>1, <2>1, <2>2 DEF FirstIds
<1> QED
  BY <1>2, <1>5, <1>6

\* exact_knn returns the closest, and as many as it was asked for.
LEMMA KnnFacts ==
    ASSUME NEW D, NEW dist \in [D -> 0..(Far - 1)], NEW ids \in Seq(D), IsInjective(ids),
           NEW size \in Nat \ {0}, size <= Len(ids), NEW g \in exact_knn(ids, dist, size)
    PROVE  Nearest(g, FirstIds(ids, Len(ids)), dist, size)
<1> DEFINE n == Len(ids)
           All(t) == {{ids[i] : i \in 1..t}}
           Grow(t, H) == UNION {Turn(h, ids[t], dist, size) : h \in H}
           B(e) == [t \in 0..n |-> IF t <= size THEN All(t) ELSE Grow(t, e[t - 1])]
           V == SUBSET SUBSET D
           step == [t \in 1..n |-> [H \in V |-> IF t <= size THEN All(t) ELSE Grow(t, H)]]
           f == CHOOSE e : e = B(e)
<1>0. n \in Nat /\ size \in 1..n
  OBVIOUS
<1>1. exact_knn(ids, dist, size) = f[n]
  BY DEF exact_knn
<1>2. \A t \in 0..n : All(t) \in V
  <2>1. \A t \in 0..n : \A i \in 1..t : ids[i] \in D
    BY <1>0
  <2> QED
    BY <2>1
<1>3. \A t \in 1..n : \A H \in V : Grow(t, H) \in V
  <2>1. \A t \in 1..n : ids[t] \in D
    BY <1>0
  <2>2. \A t \in 1..n : \A h \in SUBSET D : \A u \in Turn(h, ids[t], dist, size) : u \subseteq D
    BY <2>1 DEF Turn
  <2> SUFFICES ASSUME NEW t \in 1..n, NEW H \in V, NEW u \in Grow(t, H)
               PROVE  u \in SUBSET D
    OBVIOUS
  <2>3. PICK h \in H : u \in Turn(h, ids[t], dist, size)
    OBVIOUS
  <2>4. h \in SUBSET D
    OBVIOUS
  <2> HIDE DEF n, Grow, V
  <2> QED
    BY <2>2, <2>3, <2>4
<1> HIDE DEF V, All, Grow, n
<1>4. step \in [1..n -> [V -> V]]
      /\ \A t \in 1..n : \A H \in V : step[t][H] = IF t <= size THEN All(t) ELSE Grow(t, H)
  <2>1. \A t \in 1..n : t \in 0..n
    BY <1>0
  <2> QED
    BY <1>2, <1>3, <2>1
<1>5. All(0) \in V
  BY <1>0, <1>2
<1> HIDE DEF step
<1>6. HasValue(n, V, All(0), step)
  BY <1>0, <1>4, <1>5, Recursion
<1>7. PICK h : h \in [0..n -> V] /\ h[0] = All(0) /\ \A t \in 1..n : h[t] = step[t][h[t - 1]]
  BY <1>6 DEF HasValue
<1>8. /\ \A t \in 0..n : t # 0 => t \in 1..n /\ t - 1 \in 0..n
      /\ \A t \in 0..n : t = 0 => t <= size
      /\ \A t \in 1..n : t \in 0..n
  BY <1>0
<1>9. h = B(h)
  <2>1. \A t \in 0..n : h[t] = IF t <= size THEN All(t) ELSE Grow(t, h[t - 1])
    BY <1>4, <1>7, <1>8
  <2> QED
    BY <1>7, <2>1
<1> HIDE DEF B
<1>10. f = B(f)
  BY <1>9
<1> HIDE DEF f
<1>11. \A t \in 0..n : f[t] = IF t <= size THEN All(t) ELSE Grow(t, f[t - 1])
  <2>1. \A t \in 0..n : B(f)[t] = IF t <= size THEN All(t) ELSE Grow(t, f[t - 1])
    BY DEF B
  <2> QED
    BY <1>10, <2>1
<1> DEFINE S == {t \in 0..n : size <= t => \A u \in f[t] : Nearest(u, FirstIds(ids, t), dist, size)}
<1>12. 0 \in S
  BY <1>0
<1>13. ASSUME NEW t \in 0..(n - 1), t \in S
       PROVE  t + 1 \in S
  <2>1. t + 1 \in 1..n /\ t + 1 \in 0..n /\ (t + 1) - 1 = t /\ t \in 0..n /\ t < n
    BY <1>0
  <2>2. CASE t + 1 = size
    <3>1. f[t + 1] = {FirstIds(ids, size)}
      <4>1. f[t + 1] = All(size)
        BY <1>11, <2>1, <2>2
      <4> QED
        BY <4>1 DEF All, FirstIds
    <3>2. IsFiniteSet(FirstIds(ids, size)) /\ Cardinality(FirstIds(ids, size)) = size
      <4>1. size \in 0..Len(ids)
        BY <1>0
      <4> QED
        BY <4>1, FirstFacts
    <3>3. Nearest(FirstIds(ids, size), FirstIds(ids, size), dist, size)
      BY <3>2 DEF Nearest
    <3> QED
      BY <2>1, <2>2, <3>1, <3>3
  <2>3. CASE t + 1 < size
    BY <1>0, <2>1, <2>3
  <2>4. CASE size < t + 1
    <3>1. f[t + 1] = Grow(t + 1, f[t]) /\ size <= t
      BY <1>0, <1>11, <2>1, <2>4
    <3>2. \A u \in f[t] : Nearest(u, FirstIds(ids, t), dist, size)
      BY <1>13, <3>1
    <3>3. /\ FirstIds(ids, t) \in SUBSET D /\ ids[t + 1] \in D \ FirstIds(ids, t)
          /\ FirstIds(ids, t + 1) = FirstIds(ids, t) \cup {ids[t + 1]}
      BY <2>1, FirstFacts DEF n
    <3>4. ASSUME NEW u \in f[t + 1]
          PROVE  Nearest(u, FirstIds(ids, t + 1), dist, size)
      <4>1. PICK o \in f[t] : u \in Turn(o, ids[t + 1], dist, size)
        BY <3>1 DEF Grow
      <4> QED
        BY <3>2, <3>3, <4>1, TurnFacts
    <3> QED
      BY <2>1, <3>4
  <2> QED
    BY <1>0, <2>1, <2>2, <2>3, <2>4
<1>14. n \in S
  <2>1. \A t \in 0..n : t \in S
    <3> HIDE DEF S
    <3> QED
      BY <1>0, <1>12, <1>13, InductionTo
  <2> QED
    BY <1>0, <2>1
<1>15. Nearest(g, FirstIds(ids, n), dist, size)
  <2>1. g \in f[n]
    BY <1>1
  <2> QED
    BY <1>0, <1>14, <2>1
<1> QED
  BY <1>15 DEF n

\* k is what was asked for or, if that is less, the size of the smallest part so far.
SizeOK(asked) ==
    /\ dim_gs \in Nat \ {0}
    /\ dim_gs \in {asked} \cup {npoints(p) : p \in 0..(part - 1)}
    /\ dim_gs <= asked
    /\ \A p \in 0..(part - 1) : dim_gs <= npoints(p)

\* B are k points at most as far as x.
Beats(B, x, dist) ==
    IsFiniteSet(B) /\ dim_gs <= Cardinality(B) /\ \A y \in B : dist[y] <= dist[x]

\* Whatever was left out of the parts that were searched is beaten.
MergedOK(dist) ==
    /\ merged \subseteq Points
    /\ \A x \in Points \ merged : x < part * PARTSIZE => \E B \in SUBSET merged : Beats(B, x, dist)

SortedOK(dist) ==
    closest_points # << >> =>
        /\ part = num_parts
        /\ closest_points \in [1..dim_gs -> merged]
        /\ IsInjective(closest_points)
        /\ \A i, j \in 1..dim_gs : i < j => dist[closest_points[i]] <= dist[closest_points[j]]
        /\ \A x \in merged \ Range(closest_points) :
              \A y \in Range(closest_points) : dist[y] <= dist[x]

TruthOK(dist, asked) ==
    part \in 0..num_parts /\ SizeOK(asked) /\ MergedOK(dist) /\ SortedOK(dist)

TInv ==
    IF query.gt_k = 0 THEN closest_points = << >>
                      ELSE TruthOK(query.dist, query.gt_k)

LEMMA TInvInit == EInit => TInv
<1> SUFFICES ASSUME EInit
             PROVE  TInv
  OBVIOUS
<1>1. /\ dim_gs = query.gt_k /\ part = 0 /\ merged = {} /\ closest_points = << >>
      /\ query \in Queries
  <2>1. TruthInit(query.gt_k) /\ RInit
    BY DEF EInit
  <2>2. Init
    BY <2>1 DEF RInit
  <2>3. query \in Queries
    BY <2>2 DEF Init
  <2>4. dim_gs = query.gt_k /\ part = 0 /\ merged = {} /\ closest_points = << >>
    BY <2>1 DEF TruthInit
  <2> QED
    BY <2>3, <2>4
<1>2. CASE query.gt_k # 0
  <2>1. query.gt_k \in Nat \ {0}
    BY <1>1, <1>2, JudgedAssumption, TruthAssumption
  <2>2. PARTSIZE \in Nat /\ Points \subseteq Nat
    BY JudgedAssumption, TruthAssumption
  <2>3. part \in 0..num_parts /\ 0..(part - 1) = {}
    BY <1>1, PartsCover
  <2>4. MergedOK(query.dist)
    <3>1. \A x \in Points : ~ (x < part * PARTSIZE)
      BY <1>1, <2>2
    <3> QED
      BY <1>1, <3>1 DEF MergedOK
  <2>5. SizeOK(query.gt_k)
    BY <1>1, <2>1, <2>3 DEF SizeOK
  <2> QED
    BY <1>1, <1>2, <2>3, <2>4, <2>5 DEF TInv, TruthOK, SortedOK
<1> QED
  BY <1>1, <1>2 DEF TInv

\* The ids of a part.
LEMMA PartIdsFacts ==
    ASSUME NEW p \in 0..(num_parts - 1)
    PROVE  LET ids == PartIds(p)
           IN  /\ ids \in Seq(Points) /\ Len(ids) = npoints(p) /\ IsInjective(ids)
               /\ \A x \in Points : x < (p + 1) * PARTSIZE /\ ~ (x < p * PARTSIZE)
                                       => x \in FirstIds(ids, Len(ids))
<1> DEFINE o == p * PARTSIZE
           n == npoints(p)
           ids == [i \in 1..n |-> o + i - 1]
<1>1. /\ o \in Nat /\ n \in Nat \ {0} /\ o + n <= NumPoints
      /\ (p + 1) * PARTSIZE = o + PARTSIZE /\ PARTSIZE \in Nat /\ NumPoints \in Nat
      /\ n = PARTSIZE \/ o + n = NumPoints
  BY PartFacts, TruthAssumption
<1>2. PartIds(p) = ids
  BY DEF PartIds
<1> HIDE DEF o, n
<1>3. \A i \in 1..n : ids[i] \in Points
  <2>1. Points = 0..(NumPoints - 1)
    BY JudgedAssumption
  <2> SUFFICES ASSUME NEW i \in 1..n
               PROVE  o + i - 1 \in 0..(NumPoints - 1)
    BY <2>1
  <2>2. o + i - 1 \in 0..(NumPoints - 1)
    BY ONLY <1>1, i \in 1..n
  <2> QED
    BY <2>2
<1>4. ids \in Seq(Points) /\ Len(ids) = n
  <2>1. ids \in [1..n -> Points]
    BY <1>3
  <2> HIDE DEF ids
  <2> QED
    BY <1>1, <2>1
<1>5. IsInjective(ids)
  BY <1>1 DEF IsInjective
<1>6. ASSUME NEW x \in Points, x < o + PARTSIZE, ~ (x < o)
      PROVE  x \in FirstIds(ids, n)
  <2>1. x \in Nat /\ x < NumPoints
    BY <1>1, JudgedAssumption
  <2>2. (x - o + 1) \in 1..n /\ o + (x - o + 1) - 1 = x
    BY <1>1, <1>6, <2>1
  <2> QED
    BY <2>2 DEF FirstIds
<1>7. /\ ids \in Seq(Points) /\ Len(ids) = n /\ IsInjective(ids)
      /\ \A x \in Points : x < (p + 1) * PARTSIZE /\ ~ (x < o) => x \in FirstIds(ids, Len(ids))
  BY <1>1, <1>4, <1>5, <1>6
<1> QED
  BY <1>2, <1>7 DEF n, o

\* A part more.
LEMMA PartStep ==
    ASSUME NEW dist \in [Points -> 0..(Far - 1)], NEW asked, TruthOK(dist, asked), ComputePart(dist),
           asked \in Nat
    PROVE  TruthOK(dist, asked)'
<1>1. /\ part \in 0..num_parts /\ part < num_parts /\ part' = part + 1 /\ num_parts \in Nat
      /\ dim_gs' = (IF npoints(part) <= dim_gs THEN npoints(part) ELSE dim_gs)
      /\ closest_points' = closest_points
  BY PartsCover DEF TruthOK, ComputePart
<1>2. part \in 0..(num_parts - 1) /\ part' \in 0..num_parts /\ part' # 0 /\ part \in Nat
  BY <1>1
<1>3. npoints(part) \in Nat \ {0} /\ (part + 1) * PARTSIZE = part * PARTSIZE + PARTSIZE
  BY <1>2, PartFacts
<1>4. SizeOK(asked)'
  <2>1. SizeOK(asked)
    BY DEF TruthOK
  <2>2. 0..(part' - 1) = (0..(part - 1)) \cup {part}
    BY <1>1, <1>2
  <2>3. \A p \in 0..(part - 1) : npoints(p) \in Nat /\ p \in 0..(num_parts - 1)
    BY <1>2, PartFacts
  <2>4. dim_gs' \in Nat \ {0} /\ dim_gs' <= asked /\ dim_gs' <= npoints(part) /\ dim_gs' <= dim_gs
    BY <1>1, <1>3, <2>1 DEF SizeOK
  <2>5. \A p \in 0..(part - 1) : dim_gs' <= npoints(p)
    BY <2>1, <2>3, <2>4 DEF SizeOK
  <2>6. dim_gs' \in {asked} \cup {npoints(p) : p \in 0..(part' - 1)}
    BY <1>1, <2>1, <2>2 DEF SizeOK
  <2> QED
    BY <2>2, <2>4, <2>5, <2>6 DEF SizeOK
<1>5. dim_gs' \in Nat \ {0} /\ dim_gs' <= npoints(part) /\ dim_gs' <= dim_gs /\ dim_gs \in Nat
  BY <1>1, <1>3 DEF TruthOK, SizeOK
<1> DEFINE ids == PartIds(part)
<1>6. PICK heap \in exact_knn(ids, dist, dim_gs') : merged' = merged \cup heap
  BY DEF ComputePart
<1>7. /\ ids \in Seq(Points) /\ Len(ids) = npoints(part) /\ IsInjective(ids)
      /\ \A x \in Points : x < (part + 1) * PARTSIZE /\ ~ (x < part * PARTSIZE)
                              => x \in FirstIds(ids, Len(ids))
  BY <1>2, PartIdsFacts
<1> HIDE DEF ids
<1>8. Nearest(heap, FirstIds(ids, Len(ids)), dist, dim_gs')
  BY <1>5, <1>6, <1>7, KnnFacts
<1>9. FirstIds(ids, Len(ids)) \subseteq Points
  BY <1>7 DEF FirstIds
<1>10. MergedOK(dist)'
  <2>1. MergedOK(dist)
    BY DEF TruthOK
  <2>2. merged' \subseteq Points
    BY <1>6, <1>8, <1>9, <2>1 DEF MergedOK, Nearest
  <2>3. ASSUME NEW x \in Points \ merged', x < (part + 1) * PARTSIZE
        PROVE  \E B \in SUBSET merged' : Beats(B, x, dist)'
    <3>1. CASE x < part * PARTSIZE
      <4>1. PICK B \in SUBSET merged : Beats(B, x, dist)
        BY <1>6, <2>1, <3>1 DEF MergedOK
      <4>2. Cardinality(B) \in Nat
        BY <4>1, FS_CardinalityType DEF Beats
      <4>3. Beats(B, x, dist)' /\ B \in SUBSET merged'
        BY <1>5, <1>6, <4>1, <4>2 DEF Beats
      <4> QED
        BY <4>3
    <3>2. CASE ~ (x < part * PARTSIZE)
      <4>1. x \in FirstIds(ids, Len(ids)) \ heap
        BY <1>6, <1>7, <2>3, <3>2
      <4>2. Beats(heap, x, dist)'
        BY <1>5, <1>8, <4>1 DEF Beats, Nearest
      <4> QED
        BY <1>6, <4>2
    <3> QED
      BY <3>1, <3>2
  <2> QED
    BY <1>1, <2>2, <2>3 DEF MergedOK
<1>11. SortedOK(dist)'
  BY <1>1, <1>2 DEF TruthOK, SortedOK
<1> QED
  BY <1>2, <1>4, <1>10, <1>11 DEF TruthOK

\* What the invariant is about stays.
LEMMA TruthUnchanged ==
    ASSUME NEW dist, NEW asked, UNCHANGED <<dim_gs, part, merged, closest_points>>
    PROVE  TruthOK(dist, asked)' <=> TruthOK(dist, asked)
<1>1. SizeOK(asked)' <=> SizeOK(asked)
  BY DEF SizeOK
<1>2. \A B, x : Beats(B, x, dist)' <=> Beats(B, x, dist)
  BY DEF Beats
<1>3. MergedOK(dist)' <=> MergedOK(dist)
  BY <1>2 DEF MergedOK
<1>4. SortedOK(dist)' <=> SortedOK(dist)
  BY DEF SortedOK
<1> QED
  BY <1>1, <1>3, <1>4 DEF TruthOK

\* All the parts are merged.
LEMMA SortStep ==
    ASSUME NEW dist, NEW asked, TruthOK(dist, asked), SortTruth(dist)
    PROVE  TruthOK(dist, asked)'
<1>1. UNCHANGED <<dim_gs, part, merged>> /\ part = num_parts
  BY DEF SortTruth
<1>2. SizeOK(asked)'
  BY <1>1 DEF TruthOK, SizeOK
<1>3. \A B, x : Beats(B, x, dist)' <=> Beats(B, x, dist)
  BY <1>1 DEF Beats
<1>4. MergedOK(dist)'
  BY <1>1, <1>3 DEF TruthOK, MergedOK
<1>5. SortedOK(dist)'
  BY <1>1 DEF SortTruth, SortedOK
<1> QED
  BY <1>1, <1>2, <1>4, <1>5 DEF TruthOK

\* Every step of a search program keeps the invariant.
LEMMA TInvStep == EInv /\ TInv /\ [ENext]_evars => TInv'
<1> SUFFICES ASSUME EInv, TInv, [ENext]_evars
             PROVE  TInv'
  OBVIOUS
<1>1. ASSUME UNCHANGED <<dim_gs, part, merged, closest_points>>,
             query'.dist = query.dist, query'.gt_k = query.gt_k, query'.vectors = query.vectors
      PROVE  TInv'
  BY <1>1, TruthUnchanged DEF TInv
<1>2. CASE Prepare
  BY <1>1, <1>2, PrepareFacts DEF tvars
<1>3. CASE Answer \/ Disturb
  <2>1. query' = query
    BY <1>3 DEF Answer, Disturb, Search, Seed, Expand, Advance, Merge, Merged, Return, Rewrite
  <2> QED
    BY <1>1, <1>3, <2>1 DEF Answer, Disturb, tvars
<1>4. CASE Judge
  <2>1. query' = query /\ query.gt_k > 0
    BY <1>4 DEF Judge, rvars, vars
  <2>2. CASE ComputePart(query.dist)
    <3>1. query.dist \in [Points -> 0..(Far - 1)]
      BY DEF EInv, InputOK, QueryOK
    <3>2. TruthOK(query.dist, query.gt_k)
      BY <2>1 DEF TInv
    <3>3. query.gt_k \in Nat
      <4>1. PICK q \in Queries : QueryFrom(q)
        BY DEF EInv, InputOK
      <4>2. query.gt_k = q.gt_k
        BY <4>1 DEF QueryFrom, Fields
      <4>3. q.gt_k \in 0..NumPoints /\ NumPoints \in Nat
        BY JudgedAssumption, TruthAssumption
      <4> QED
        BY <4>2, <4>3
    <3>4. PICK dist \in [Points -> 0..(Far - 1)], asked \in Nat :
              dist = query.dist /\ asked = query.gt_k
      BY <3>1, <3>3
    <3>5. TruthOK(dist, asked)'
      BY <2>2, <3>2, <3>4, PartStep
    <3> QED
      BY <2>1, <3>4, <3>5 DEF TInv
  <2>3. CASE SortTruth(query.dist)
    <3>1. TruthOK(query.dist, query.gt_k)
      BY <2>1 DEF TInv
    <3>2. PICK dist, asked : dist = query.dist /\ asked = query.gt_k
      OBVIOUS
    <3>3. TruthOK(dist, asked)'
      BY <2>3, <3>1, <3>2, SortStep
    <3> QED
      BY <2>1, <3>2, <3>3 DEF TInv
  <2>4. CASE SaveTruth
    BY <1>1, <2>1, <2>4 DEF SaveTruth
  <2>5. CASE LoadTruth
    BY <1>1, <2>1, <2>5 DEF LoadTruth
  <2>6. CASE CalculateRecall(query.dist, query_result_ids, query.res_count)
    BY <1>1, <2>1, <2>6 DEF CalculateRecall
  <2> QED
    BY <1>4, <2>2, <2>3, <2>4, <2>5, <2>6 DEF Judge
<1>5. CASE UNCHANGED evars
  BY <1>1, <1>5 DEF evars, rvars, vars, tvars
<1> QED
  BY <1>2, <1>3, <1>4, <1>5 DEF ENext

\* An injective sequence has as many values as it is long.
LEMMA RangeFacts ==
    ASSUME NEW n \in Nat, NEW D, NEW s \in [1..n -> D], IsInjective(s)
    PROVE  /\ Len(s) = n /\ DOMAIN s = 1..n
           /\ Range(s) \in SUBSET D /\ IsFiniteSet(Range(s)) /\ Cardinality(Range(s)) = n
<1>1. DOMAIN s = 1..n /\ Len(s) = n /\ s \in Seq(D)
  OBVIOUS
<1>2. FirstIds(s, n) \in SUBSET D /\ IsFiniteSet(FirstIds(s, n)) /\ Cardinality(FirstIds(s, n)) = n
  <2>1. n \in 0..Len(s)
    BY <1>1
  <2> QED
    BY <1>1, <2>1, FirstFacts
<1>3. Range(s) = FirstIds(s, n)
  BY <1>1 DEF Range, FirstIds
<1> QED
  BY <1>1, <1>2, <1>3

\* k is the least of the numbers it was limited by.
LEMMA SizeFacts ==
    ASSUME NEW asked, asked \in Nat, SizeOK(asked), part = num_parts
    PROVE  dim_gs = Min({asked} \cup {npoints(p) : p \in 0..(num_parts - 1)})
<1> DEFINE S == {asked} \cup {npoints(p) : p \in 0..(num_parts - 1)}
<1>1. dim_gs \in S /\ \A y \in S : dim_gs <= y
  BY DEF SizeOK
<1>2. S \subseteq Nat
  BY PartFacts
<1> HIDE DEF S
<1>3. \A x \in S : (\A y \in S : x <= y) => x = dim_gs
  BY <1>1, <1>2
<1>4. Min(S) = dim_gs
  <2>1. Min(S) = CHOOSE x \in S : \A y \in S : x <= y
    BY DEF Min
  <2> QED
    BY <1>1, <1>3, <2>1
<1> QED
  BY <1>4 DEF S

\* A point that is not in the truth is no closer than its last point.
LEMMA LastFacts ==
    ASSUME NEW dist \in [Points -> 0..(Far - 1)], NEW asked, TruthOK(dist, asked),
           closest_points # << >>, NEW x \in Points \ Range(closest_points)
    PROVE  dist[closest_points[dim_gs]] <= dist[x]
<1> DEFINE s == closest_points
<1>1. /\ dim_gs \in Nat \ {0} /\ part = num_parts /\ merged \subseteq Points
      /\ s \in [1..dim_gs -> merged] /\ IsInjective(s)
      /\ \A i, j \in 1..dim_gs : i < j => dist[s[i]] <= dist[s[j]]
      /\ \A y \in merged \ Range(s) : \A z \in Range(s) : dist[z] <= dist[y]
  BY DEF TruthOK, SizeOK, MergedOK, SortedOK
<1>2. /\ Range(s) \in SUBSET merged /\ IsFiniteSet(Range(s)) /\ Cardinality(Range(s)) = dim_gs
      /\ DOMAIN s = 1..dim_gs
  BY <1>1, RangeFacts
<1>3. x \notin Range(s)
  OBVIOUS
<1> SUFFICES dist[s[dim_gs]] <= dist[x]
  OBVIOUS
<1> HIDE DEF s
<1>4. dim_gs \in 1..dim_gs /\ s[dim_gs] \in Range(s) /\ s[dim_gs] \in Points
  <2>1. dim_gs \in 1..dim_gs
    BY <1>1
  <2> QED
    BY <1>1, <1>2, <2>1 DEF Range
<1>5. \A y \in Points : dist[y] \in Nat
  BY FarAssumption
<1>6. CASE x \in merged
  BY <1>1, <1>3, <1>4, <1>6
<1>7. CASE x \notin merged
  <2>1. x < part * PARTSIZE
    <3>1. x \in Nat /\ x < NumPoints /\ NumPoints \in Nat
      BY JudgedAssumption, TruthAssumption
    <3> HIDE DEF s
    <3> QED
      BY <1>1, <3>1, PartsCover
  <2>2. PICK B \in SUBSET merged : Beats(B, x, dist)
    BY <1>7, <2>1 DEF TruthOK, MergedOK
  <2>3. CASE \E b \in B : b \notin Range(s)
    <3>1. PICK b \in B : b \notin Range(s)
      BY <2>3
    <3>2. dist[s[dim_gs]] <= dist[b] /\ dist[b] <= dist[x] /\ b \in Points
      BY <1>1, <1>4, <2>2, <3>1 DEF Beats
    <3> QED
      BY <1>4, <1>5, <3>2
  <2>4. CASE B \subseteq Range(s)
    <3>1. Cardinality(B) <= Cardinality(Range(s)) /\ Cardinality(B) \in Nat
          /\ (Cardinality(B) = Cardinality(Range(s)) => B = Range(s))
      BY <1>2, <2>2, <2>4, FS_Subset, FS_CardinalityType DEF Beats
    <3>2. B = Range(s)
      BY <1>1, <1>2, <2>2, <3>1 DEF Beats
    <3> QED
      BY <1>4, <2>2, <3>2 DEF Beats
  <2> QED
    BY <2>3, <2>4
<1> QED
  BY <1>6, <1>7

\* The invariant says that the truth is exact.
LEMMA TruthFacts == EInv /\ TInv => TruthIsExact
<1> SUFFICES ASSUME EInv, TInv, closest_points # << >>
             PROVE  TruthIsExact
  BY DEF TruthIsExact, TruthIsExactFor
<1> DEFINE dist == query.dist
           asked == query.gt_k
<1>1. TruthOK(dist, asked)
  BY DEF TInv
<1>2. dist \in [Points -> 0..(Far - 1)] /\ asked \in Nat
  <2>1. PICK q \in Queries : QueryFrom(q)
    BY DEF EInv, InputOK
  <2>2. query.gt_k = q.gt_k
    BY <2>1 DEF QueryFrom, Fields
  <2>3. q.gt_k \in 0..NumPoints /\ NumPoints \in Nat
    BY JudgedAssumption, TruthAssumption
  <2> QED
    BY <2>2, <2>3 DEF EInv, InputOK, QueryOK
<1>3. dim_gs = Min({asked} \cup {npoints(p) : p \in 0..(num_parts - 1)})
  BY <1>1, <1>2, SizeFacts DEF TruthOK, SortedOK
<1>4. \A x \in Points \ Range(closest_points) : dist[closest_points[dim_gs]] <= dist[x]
  BY <1>1, <1>2, LastFacts
<1>5. /\ dim_gs \in Nat /\ closest_points \in [1..dim_gs -> merged] /\ IsInjective(closest_points)
      /\ \A i, j \in 1..dim_gs : i < j => dist[closest_points[i]] <= dist[closest_points[j]]
  BY <1>1 DEF TruthOK, SizeOK, SortedOK
<1>6. Len(closest_points) = dim_gs /\ DOMAIN closest_points = 1..dim_gs
  BY <1>5
<1>7. Points = 0..(NumPoints - 1)
  BY JudgedAssumption
<1> HIDE DEF dist, asked
<1>8. TruthIsExactFor(dist, asked)
  BY <1>3, <1>4, <1>5, <1>6, <1>7 DEF TruthIsExactFor
<1> QED
  BY <1>8 DEF TruthIsExact, dist, asked

\* However the points are cut into parts and ties fall, the truth is as many different
\* points as was asked for, or as the smallest part has, closest first, and no other
\* point is closer than its last.
THEOREM TruthExact == ESpec => []TruthIsExact
<1>1. EInit => EInv /\ TInv
  BY EInvInit, TInvInit
<1>2. EInv /\ TInv /\ [ENext]_evars => EInv' /\ TInv'
  BY EInvStep, TInvStep
<1> QED
  BY <1>1, <1>2, TruthFacts, PTL DEF ESpec

----------------------------------------------------------------------------
(* The score.                                                              *)

\* Points carry their positions as tags, which is what the truth is made of.
TagsArePositions == \A x \in Points : Tag(x) = x

\* The ids of the truth that count, and those in the output of the search.
Counted == {closest_points[i] : i \in 1..tie_breaker(query.dist, query.res_count)}
Given == {query_result_ids[i] : i \in 1..query.res_count}

\* A score is given to the output of a search that has ended, and by a truth that is there.
JInv ==
    /\ gs_dist # "unread" => truthset # << >>
    /\ truthset # << >> => closest_points # << >>
    /\ recall # NotYet =>
          /\ pc = "done"
          /\ gs_dist \in {"none", "some"}
          /\ query.res_count <= dim_gs => recall = Cardinality(Counted \cap Given)

\* Where the ties of the last wanted id end.
LEMMA TieFacts ==
    ASSUME NEW dist, NEW R \in Nat \ {0}, dim_gs \in Nat, R <= dim_gs
    PROVE  LET n == tie_breaker(dist, R)
           IN  /\ n \in R..dim_gs
               /\ \A i \in R..n : dist[closest_points[i]] = dist[closest_points[R]]
               /\ gs_dist # "none" /\ n < dim_gs =>
                     dist[closest_points[n + 1]] # dist[closest_points[R]]
<1> DEFINE d(i) == dist[closest_points[i]]
           Good(n) == /\ \A i \in R..n : d(i) = d(R)
                      /\ n < dim_gs => d(n + 1) # d(R)
<1>1. CASE gs_dist = "none"
  <2>1. tie_breaker(dist, R) = R
    BY <1>1 DEF tie_breaker
  <2>2. R \in R..dim_gs /\ \A i \in R..R : i = R
    OBVIOUS
  <2> QED
    BY <1>1, <2>1, <2>2
<1>2. CASE gs_dist # "none"
  <2>1. tie_breaker(dist, R) = CHOOSE n \in R..dim_gs : Good(n)
    BY <1>2 DEF tie_breaker
  <2> HIDE DEF d
  <2> DEFINE S == {n \in R..dim_gs : \A i \in R..n : d(i) = d(R)}
  <2>2. S \in SUBSET (0..dim_gs) /\ S # {}
    <3>1. R \in R..dim_gs /\ \A i \in R..R : d(i) = d(R)
      <4>1. \A i \in R..R : i = R
        OBVIOUS
      <4> QED
        BY <4>1
    <3> QED
      BY <3>1
  <2>3. PICK n \in S : \A j \in S : j <= n
    BY <2>2, Greatest
  <2>4. n \in R..dim_gs /\ \A i \in R..n : d(i) = d(R)
    OBVIOUS
  <2>5. ASSUME n < dim_gs, d(n + 1) = d(R)
        PROVE  FALSE
    <3>1. n + 1 \in R..dim_gs /\ ~ (n + 1 <= n)
      BY <2>4, <2>5
    <3>2. \A i \in R..(n + 1) : i \in R..n \/ i = n + 1
      BY <2>4
    <3>3. \A i \in R..(n + 1) : d(i) = d(R)
      BY <2>4, <2>5, <3>2
    <3> QED
      BY <2>3, <3>1, <3>3
  <2>6. Good(n)
    BY <2>4, <2>5
  <2> HIDE DEF Good
  <2>7. tie_breaker(dist, R) \in R..dim_gs /\ Good(tie_breaker(dist, R))
    BY <2>1, <2>4, <2>6
  <2> QED
    BY <2>7 DEF Good, d
<1> QED
  BY <1>1, <1>2

LEMMA JInvInit == EInit => JInv
BY DEF EInit, TruthInit, JInv

\* What scores an output.
LEMMA RecallStep ==
    ASSUME EInv, TInv, JInv, query' = query, UNCHANGED <<rvars, lvars>>, query.gt_k > 0,
           pc = "done", CalculateRecall(query.dist, query_result_ids, query.res_count)
    PROVE  JInv'
<1> DEFINE dist == query.dist
           R == query.res_count
           n == tie_breaker(dist, R)
<1>1. UNCHANGED <<dim_gs, closest_points, truthset, gs_dist, results, pc>> /\ gs_dist \in {"none", "some"}
  BY DEF CalculateRecall, rvars, vars, output
<1>2. (Counted \cap Given)' = Counted \cap Given
  BY <1>1 DEF Counted, Given, query_result_ids, tie_breaker
<1>3. ASSUME R <= dim_gs
      PROVE  recall' = Cardinality(Counted \cap Given)
  <2>1. dim_gs \in Nat /\ R \in Nat \ {0}
    BY DEF TInv, TruthOK, SizeOK, EInv, InputOK, QueryOK
  <2>2. n \in R..dim_gs
    BY <1>3, <2>1, TieFacts
  <2>3. ~ (n > dim_gs) /\ (IF n < dim_gs THEN n ELSE dim_gs) = n
    BY <2>1, <2>2
  <2> HIDE DEF n
  <2>4. PICK beyond \in {{}} :
            recall' = Cardinality(({closest_points[i] : i \in 1..n} \cup beyond)
                                  \cap {query_result_ids[i] : i \in 1..R})
    BY <2>3 DEF CalculateRecall, n
  <2>5. {closest_points[i] : i \in 1..n} \cup beyond = {closest_points[i] : i \in 1..n}
    BY <2>4
  <2> QED
    BY <2>4, <2>5 DEF Counted, Given, n
<1> QED
  BY <1>1, <1>2, <1>3 DEF JInv

\* Every step of a search program keeps the invariant.
LEMMA JInvStep == EInv /\ TInv /\ JInv /\ [ENext]_evars => JInv'
<1> SUFFICES ASSUME EInv, TInv, JInv, [ENext]_evars
             PROVE  JInv'
  OBVIOUS
<1>1. NotYet' = NotYet
  BY DEF NotYet
<1>2. ASSUME UNCHANGED tvars, recall = NotYet
      PROVE  JInv'
  BY <1>1, <1>2 DEF JInv, tvars
<1>3. CASE Prepare
  <2>1. UNCHANGED tvars /\ pc = "seed"
    BY <1>3, PrepareFacts
  <2> QED
    BY <1>2, <2>1 DEF JInv
<1>4. CASE Answer \/ Disturb
  <2>1. UNCHANGED tvars /\ pc # "done"
    BY <1>4 DEF Answer, Disturb, Search, Seed, Expand, Advance, Merge, Merged, Return, Rewrite
  <2> QED
    BY <1>2, <2>1 DEF JInv
<1>5. CASE Judge
  <2>1. query' = query /\ UNCHANGED <<rvars, lvars>> /\ query.gt_k > 0 /\ pc = "done"
    BY <1>5 DEF Judge, rvars, vars
  <2>2. CASE ComputePart(query.dist)
    <3>1. closest_points = << >>
      <4>1. part < num_parts /\ num_parts \in Nat
        BY <2>2, PartsCover DEF ComputePart
      <4> QED
        BY <2>1, <4>1 DEF TInv, TruthOK, SortedOK
    <3>2. UNCHANGED <<closest_points, truthset, gs_dist, recall>>
      BY <2>2 DEF ComputePart
    <3> QED
      BY <1>1, <3>1, <3>2 DEF JInv
  <2>3. CASE SortTruth(query.dist)
    <3>1. closest_points = << >> /\ UNCHANGED <<truthset, gs_dist, recall>>
      BY <2>3 DEF SortTruth
    <3> QED
      BY <1>1, <3>1 DEF JInv
  <2>4. CASE SaveTruth
    <3>1. closest_points # << >> /\ truthset = << >> /\ UNCHANGED <<closest_points, gs_dist, recall>>
      BY <2>4 DEF SaveTruth
    <3> QED
      BY <1>1, <3>1 DEF JInv
  <2>5. CASE LoadTruth
    <3>1. truthset # << >> /\ gs_dist = "unread" /\ UNCHANGED <<closest_points, truthset, recall>>
      BY <2>5 DEF LoadTruth
    <3> QED
      BY <1>1, <3>1 DEF JInv
  <2>6. CASE CalculateRecall(query.dist, query_result_ids, query.res_count)
    BY <2>1, <2>6, RecallStep
  <2> QED
    BY <1>5, <2>2, <2>3, <2>4, <2>5, <2>6 DEF Judge
<1>6. CASE UNCHANGED evars
  <2>1. UNCHANGED <<dim_gs, closest_points, truthset, gs_dist, recall, results, pc, query>>
    BY <1>6 DEF evars, rvars, vars, tvars, output
  <2>2. (Counted \cap Given)' = Counted \cap Given
    BY <2>1 DEF Counted, Given, query_result_ids, tie_breaker
  <2> QED
    BY <1>1, <2>1, <2>2 DEF JInv
<1> QED
  BY <1>3, <1>4, <1>5, <1>6 DEF ENext

\* What the output holds: the ids of slots, those it counts at their distance.
LEMMA OutputFacts ==
    ASSUME SInv, pc = "done", TagsArePositions
    PROVE  LET R == query.res_count
           IN  /\ Given \in SUBSET Points /\ IsFiniteSet(Given) /\ Cardinality(Given) <= R
               /\ Cardinality(Given) = R => returned + 1 >= R
               /\ Given = {query_result_ids[i] : i \in 1..R}
               /\ returned \in 0..R
               /\ \A i \in 1..returned : /\ query_result_ids[i] \in Points
                                         /\ results[i].distance = query.dist[query_result_ids[i]]
               /\ returned = R => Cardinality(Given) = R
<1> DEFINE R == query.res_count
           f == [i \in 1..R |-> addr[i - 1].id]
<1>1. /\ results = [i \in 1..R |-> [tag |-> Tag(addr[i - 1].id), distance |-> addr[i - 1].distance]]
      /\ returned = IF R < l THEN R ELSE l
  BY DEF SInv, DoneOK
<1>2. /\ addr \in [0..query.L -> Slot(Points)] /\ l \in 0..query.L /\ InOrder(addr, l)
      /\ \A i \in 0..(l - 1) : addr[i].distance = query.dist[addr[i].id]
      /\ \A i \in 0..query.L : l < query.L /\ l <= i => addr[i].id = 0
  BY DEF SInv, PoolOK, Keeps, UnfilledOK
<1>3. query.L \in Nat /\ R \in Nat \ {0} /\ R <= query.L + 1 /\ l \in Nat
  BY <1>2 DEF SInv, SearchOK, QueryOK
<1>4. query_result_ids = [i \in 1..R |-> results[i].tag]
  BY DEF query_result_ids
<1> HIDE DEF R
<1>5. returned \in 0..R /\ returned <= l /\ \A i \in 1..returned : i \in 1..R /\ i - 1 \in 0..(l - 1)
  BY <1>1, <1>3
<1>6. \A i \in 1..R : i - 1 \in 0..query.L
  BY <1>3
<1>7. \A i \in 1..R : f[i] \in Points /\ query_result_ids[i] = f[i]
  BY <1>1, <1>2, <1>4, <1>6 DEF Slot, TagsArePositions
<1>8. \A i \in 1..returned : results[i].distance = query.dist[f[i]]
  BY <1>1, <1>2, <1>5
<1>9. f \in [1..R -> Points]
  BY <1>7
<1>10. Given = Range(f) /\ Given = {query_result_ids[i] : i \in 1..R}
  <2>1. Given = {query_result_ids[i] : i \in 1..R}
    BY DEF Given, R
  <2>2. Range(f) = {f[i] : i \in 1..R}
    BY <1>9 DEF Range
  <2> QED
    BY <1>7, <2>1, <2>2
<1>11. /\ IsFiniteSet(Given) /\ Cardinality(Given) <= R
       /\ Cardinality(Given) = R <=> \A i, j \in 1..R : f[i] = f[j] => i = j
  <2>1. f \in Surjection(1..R, Given)
    <3> HIDE DEF f
    <3> QED
      BY <1>9, <1>10 DEF Surjection, Range
  <2>2. IsFiniteSet(1..R) /\ Cardinality(1..R) = R
    BY <1>3, FS_Interval
  <2> HIDE DEF f
  <2>3. /\ IsFiniteSet(Given) /\ Cardinality(Given) <= R
        /\ Cardinality(Given) = R <=> f \in Injection(1..R, Given)
    BY <2>1, <2>2, FS_Surjection
  <2>4. f \in Injection(1..R, Given) <=> \A i, j \in 1..R : f[i] = f[j] => i = j
    BY <2>1 DEF Injection, Surjection, IsInjective
  <2> QED
    BY <2>3, <2>4
<1>12. ASSUME returned = R
       PROVE  Cardinality(Given) = R
  <2> SUFFICES ASSUME NEW i \in 1..R, NEW j \in 1..R, i < j
               PROVE  f[i] # f[j]
    BY <1>3, <1>11
  <2>1. i - 1 \in 0..(l - 1) /\ j - 1 \in 0..(l - 1) /\ i - 1 < j - 1
    BY <1>3, <1>5, <1>12
  <2>2. addr[i - 1].id # addr[j - 1].id
    BY <1>2, <2>1 DEF InOrder
  <2> QED
    BY <2>2
<1>13. ASSUME Cardinality(Given) = R, ~ (returned + 1 >= R)
       PROVE  FALSE
  <2>1. returned = l /\ l + 1 \in 1..R /\ l + 2 \in 1..R
    BY <1>1, <1>3, <1>5, <1>13
  <2>2. l < query.L /\ l \in 0..query.L /\ l + 1 \in 0..query.L /\ l <= l /\ l <= l + 1
    BY <1>3, <2>1
  <2>3. f[l + 1] = addr[l].id /\ f[l + 2] = addr[l + 1].id
    BY <1>3, <2>1
  <2>4. f[l + 1] = f[l + 2]
    BY <1>2, <2>2, <2>3
  <2>5. l + 1 # l + 2
    BY <1>3
  <2> HIDE DEF f
  <2> QED
    BY <1>11, <1>13, <2>1, <2>4, <2>5
<1>14. \A i \in 1..returned : /\ query_result_ids[i] \in Points
                              /\ results[i].distance = query.dist[query_result_ids[i]]
  BY <1>5, <1>7, <1>8
<1>15. Given \in SUBSET Points
  BY <1>9, <1>10 DEF Range
<1> QED
  BY <1>5, <1>10, <1>11, <1>12, <1>13, <1>14, <1>15 DEF R

\* A full score means that what counts holds all that was given, and the other way round.
LEMMA ScoreFacts ==
    ASSUME EInv, TInv, JInv, TagsArePositions
    PROVE  FullScoreMeansExact
<1> SUFFICES ASSUME recall # NotYet, query.res_count <= dim_gs
             PROVE  LET exact == \A i \in 1..returned : results[i].distance <= Horizon
                        tied == {x \in Points : query.dist[x] <= Horizon}
                    IN  /\ recall = query.res_count =>
                              /\ exact
                              /\ returned + 1 >= query.res_count
                              /\ \A i \in 1..query.res_count :
                                    query.dist[query_result_ids[i]] <= Horizon
                        /\ gs_dist = "some" /\ exact /\ returned = query.res_count
                           /\ Cardinality(tied) <= dim_gs => recall = query.res_count
  BY DEF FullScoreMeansExact
<1> DEFINE dist == query.dist
           R == query.res_count
           s == closest_points
           n == tie_breaker(dist, R)
           ids == query_result_ids
           exact == \A i \in 1..returned : results[i].distance <= Horizon
           tied == {x \in Points : dist[x] <= Horizon}
<1>1. /\ pc = "done" /\ gs_dist \in {"none", "some"} /\ recall = Cardinality(Counted \cap Given)
      /\ s # << >>
  BY DEF JInv
<1>2. TruthOK(dist, query.gt_k) /\ SInv /\ dist \in [Points -> 0..(Far - 1)] /\ R \in Nat \ {0}
  BY <1>1 DEF TInv, EInv, InputOK, QueryOK
<1>3. /\ dim_gs \in Nat \ {0} /\ merged \subseteq Points
      /\ s \in [1..dim_gs -> merged] /\ IsInjective(s)
      /\ \A i, j \in 1..dim_gs : i < j => dist[s[i]] <= dist[s[j]]
  BY <1>1, <1>2 DEF TruthOK, SizeOK, MergedOK, SortedOK
<1>4. /\ n \in R..dim_gs
      /\ \A i \in R..n : dist[s[i]] = dist[s[R]]
      /\ gs_dist # "none" /\ n < dim_gs => dist[s[n + 1]] # dist[s[R]]
  BY <1>2, <1>3, TieFacts
<1>5. /\ Given \in SUBSET Points /\ IsFiniteSet(Given) /\ Cardinality(Given) <= R
      /\ Cardinality(Given) = R => returned + 1 >= R
      /\ Given = {ids[i] : i \in 1..R}
      /\ returned \in 0..R
      /\ \A i \in 1..returned : ids[i] \in Points /\ results[i].distance = dist[ids[i]]
      /\ returned = R => Cardinality(Given) = R
  BY <1>1, <1>2, OutputFacts
<1>6. Counted = {s[i] : i \in 1..n} /\ Horizon = dist[s[R]]
  BY DEF Counted, Horizon
<1>7. \A x \in Points \ Range(s) : dist[s[dim_gs]] <= dist[x]
  BY <1>1, <1>2, LastFacts
<1>8. /\ Range(s) \in SUBSET merged /\ IsFiniteSet(Range(s)) /\ Cardinality(Range(s)) = dim_gs
      /\ Range(s) = {s[i] : i \in 1..dim_gs}
  <2>1. dim_gs \in Nat /\ s \in [1..dim_gs -> merged] /\ IsInjective(s)
    BY <1>3
  <2> HIDE DEF s
  <2>2. /\ DOMAIN s = 1..dim_gs
        /\ Range(s) \in SUBSET merged /\ IsFiniteSet(Range(s)) /\ Cardinality(Range(s)) = dim_gs
    BY ONLY <2>1, RangeFacts
  <2>3. Range(s) = {s[i] : i \in 1..dim_gs}
    BY ONLY <2>2 DEF Range
  <2> QED
    BY <2>2, <2>3
<1>10. \A x \in Points : dist[x] \in Nat
  BY <1>2, FarAssumption
<1> HIDE DEF s, n, dist, R, ids
<1>9. R \in 1..dim_gs /\ \A i \in 1..n : i \in 1..dim_gs
  BY <1>2, <1>3, <1>4
<1>11. \A i \in 1..dim_gs : s[i] \in Points /\ dist[s[i]] \in Nat
  BY <1>3, <1>10
<1>12. /\ (\A i \in 1..R : dist[ids[i]] <= Horizon) <=> \A x \in Given : dist[x] <= Horizon
       /\ exact <=> \A i \in 1..returned : dist[ids[i]] <= Horizon
       /\ \A i \in 1..returned : i \in 1..R
  BY <1>2, <1>5
<1>13. /\ IsFiniteSet(Counted \cap Given)
       /\ Cardinality(Counted \cap Given) <= Cardinality(Given)
       /\ Cardinality(Counted \cap Given) = R =>
             Counted \cap Given = Given /\ Cardinality(Given) = R
  <2>1. /\ IsFiniteSet(Counted \cap Given)
        /\ Cardinality(Counted \cap Given) <= Cardinality(Given)
        /\ (Cardinality(Counted \cap Given) = Cardinality(Given) => Counted \cap Given = Given)
    BY <1>5, FS_Subset
  <2>2. Cardinality(Given) \in Nat
    BY <1>5, FS_CardinalityType
  <2> QED
    BY <1>2, <1>5, <2>1, <2>2
<1>14. \A x \in Counted : dist[x] <= Horizon
  <2> SUFFICES ASSUME NEW i \in 1..n
               PROVE  dist[s[i]] <= dist[s[R]]
    BY <1>6
  <2>1. CASE i < R
    BY <1>3, <1>9, <2>1
  <2>2. CASE ~ (i < R)
    <3>1. i \in R..n
      BY <1>2, <2>2
    <3> QED
      BY <1>4, <1>9, <1>11, <3>1
  <2> QED
    BY <2>1, <2>2
<1>15. recall = R => /\ exact
                     /\ returned + 1 >= R
                     /\ \A i \in 1..R : dist[ids[i]] <= Horizon
  <2> HIDE DEF exact
  <2> QED
    BY <1>1, <1>5, <1>12, <1>13, <1>14
<1>16. ASSUME gs_dist = "some", exact, returned = R, Cardinality(tied) <= dim_gs
       PROVE  recall = R
  <2> HIDE DEF exact
  <2>1. Given \subseteq tied /\ tied \subseteq Points
    BY <1>5, <1>12, <1>16
  <2>2. tied \subseteq Range(s)
    <3> SUFFICES ASSUME NEW x \in tied, x \notin Range(s)
                 PROVE  FALSE
      OBVIOUS
    <3>1. dist[s[dim_gs]] <= dist[x] /\ dist[x] <= Horizon /\ x \in Points
      BY <1>7 DEF dist
    <3>2. \A i \in 1..dim_gs : dist[s[i]] <= dist[s[dim_gs]]
      <4> SUFFICES ASSUME NEW i \in 1..dim_gs
                   PROVE  dist[s[i]] <= dist[s[dim_gs]]
        OBVIOUS
      <4>1. dim_gs \in 1..dim_gs
        BY <1>3
      <4>2. CASE i < dim_gs
        BY <1>3, <4>1, <4>2
      <4>3. CASE i = dim_gs
        BY <1>11, <4>1, <4>3
      <4> QED
        BY <1>3, <4>2, <4>3
    <3>3. Horizon \in Nat /\ dist[s[dim_gs]] \in Nat /\ dist[x] \in Nat
      <4>1. dim_gs \in 1..dim_gs
        BY <1>3
      <4> QED
        BY <1>6, <1>9, <1>10, <1>11, <3>1, <4>1
    <3>4. \A y \in Range(s) : y \in Points /\ dist[y] <= Horizon
      BY <1>8, <1>11, <3>1, <3>2, <3>3
    <3>5. Range(s) \cup {x} \subseteq tied
      BY <3>1, <3>4 DEF dist
    <3>6. IsFiniteSet(Range(s) \cup {x}) /\ Cardinality(Range(s) \cup {x}) = dim_gs + 1
      BY <1>8, FS_AddElement
    <3>7. IsFiniteSet(tied)
      <4>1. IsFiniteSet(Points)
        BY InputAssumption
      <4> QED
        BY <2>1, <4>1, FS_Subset
    <3>8. dim_gs + 1 <= Cardinality(tied) /\ Cardinality(tied) \in Nat
      BY <3>5, <3>6, <3>7, FS_Subset, FS_CardinalityType
    <3> HIDE DEF tied
    <3> QED
      BY <1>3, <1>16, <3>8
  <2> HIDE DEF tied
  <2>3. ASSUME NEW x \in Given
        PROVE  x \in Counted
    <3>1. PICK j \in 1..dim_gs : x = s[j]
      BY <1>8, <2>1, <2>2
    <3>2. CASE j <= n
      <4>1. j \in 1..n
        BY <1>4, <3>2
      <4> QED
        BY <1>6, <3>1, <4>1
    <3>3. CASE n < j
      <4>1. n + 1 \in 1..dim_gs /\ n < dim_gs /\ n + 1 <= j /\ R < n + 1
        BY <1>2, <1>3, <1>4, <3>3
      <4>2. dist[s[n + 1]] # dist[s[R]]
        BY <1>4, <1>16, <4>1
      <4>3. dist[s[R]] <= dist[s[n + 1]]
        BY <1>3, <1>9, <4>1
      <4>4. dist[s[n + 1]] <= dist[s[j]]
        <5>1. CASE n + 1 < j
          BY <1>3, <4>1, <5>1
        <5>2. CASE n + 1 = j
          BY <1>11, <5>2
        <5> QED
          BY <1>4, <4>1, <5>1, <5>2
      <4>5. dist[s[j]] <= dist[s[R]]
        BY <1>6, <1>12, <1>16, <3>1
      <4> QED
        BY <1>9, <1>11, <4>1, <4>2, <4>3, <4>4, <4>5
    <3> QED
      BY <1>4, <3>2, <3>3
  <2>4. Counted \cap Given = Given
    BY <2>3
  <2> QED
    BY <1>1, <1>5, <1>16, <2>4
<1> QED
  BY <1>15, <1>16 DEF dist, R, ids

\* A full score is given to exact answers, and to every exact answer if the truth holds
\* all the points that are tied for its last place, when tags are positions.
THEOREM FullScoreDeserved ==
    ASSUME TagsArePositions
    PROVE  ESpec => []FullScoreMeansExact
<1>1. EInit => EInv /\ TInv /\ JInv
  BY EInvInit, TInvInit, JInvInit
<1>2. EInv /\ TInv /\ JInv /\ [ENext]_evars => EInv' /\ TInv' /\ JInv'
  BY EInvStep, TInvStep, JInvStep
<1>3. EInv /\ TInv /\ JInv => FullScoreMeansExact
  BY ScoreFacts
<1> QED
  BY <1>1, <1>2, <1>3, PTL DEF ESpec

=============================================================================
