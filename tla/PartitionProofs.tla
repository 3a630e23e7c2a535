-------------------------- MODULE PartitionProofs ---------------------------
(***************************************************************************)
(* Proofs about Partition, for any number of points, shards, copies and    *)
(* operations, each cut short anywhere: what the shards hold, what an      *)
(* extraction writes, what the estimate is worth.  And about CachedReader, *)
(* through which both read the data file: for every file, every size of    *)
(* the buffer and every sequence of reads it returns the bytes in order.   *)
(***************************************************************************)
EXTENDS Partition, CachedReader, Induction, FiniteSetTheorems, SequenceTheorems, TLAPS

----------------------------------------------------------------------------
(* Sums of counts.                                                         *)

\* The sums c[m] of the first m counts.
Sums(counts, n, c) ==
    /\ c \in [0..n -> Nat]
    /\ c[0] = 0
    /\ \A m \in 1..n : c[m] = c[m - 1] + counts[m - 1]

\* total_count is the last of these sums.
LEMMA TotalIsSum ==
    ASSUME NEW n \in Nat, NEW counts \in [0..(n - 1) -> Nat]
    PROVE  \E c : Sums(counts, n, c) /\ total_count(counts, n) = c[n]
<1> DEFINE V == Nat
           B(g) == [m \in 0..n |-> IF m = 0 THEN 0 ELSE g[m - 1] + counts[m - 1]]
           step == [m \in 1..n |-> [v \in V |-> v + counts[m - 1]]]
           c == CHOOSE g : g = B(g)
<1>1. total_count(counts, n) = c[n]
  BY DEF total_count
<1>2. step \in [1..n -> [V -> V]]
  OBVIOUS
<1>3. \A m \in 1..n : \A v \in V : step[m][v] = v + counts[m - 1]
  OBVIOUS
<1> HIDE DEF step, V
<1>4. PICK f \in [0..n -> V] : f[0] = 0 /\ \A m \in 1..n : f[m] = step[m][f[m - 1]]
  <2>1. 0 \in V
    BY DEF V
  <2>2. HasValue(n, V, 0, step)
    BY <1>2, <2>1, Recursion
  <2> QED
    BY ONLY <2>2 DEF HasValue
<1>5. f = B(f)
  <2>1. \A m \in 0..n : f[m] = B(f)[m]
    <3> TAKE m \in 0..n
    <3>1. CASE m = 0
      BY <1>4, <3>1
    <3>2. CASE m # 0
      <4>1. m \in 1..n /\ m - 1 \in 0..n
        BY <3>2
      <4>2. f[m] = step[m][f[m - 1]] /\ f[m - 1] \in V
        BY <1>4, <4>1
      <4>3. step[m][f[m - 1]] = f[m - 1] + counts[m - 1]
        BY <1>3, <4>1, <4>2
      <4> QED
        BY <3>2, <4>2, <4>3
    <3> QED
      BY <3>1, <3>2
  <2>2. DOMAIN f = 0..n
    BY <1>4
  <2> QED
    BY <2>1, <2>2
<1>6. c = B(c)
  BY <1>5
<1>7. \A m \in 0..n : c[m] = IF m = 0 THEN 0 ELSE c[m - 1] + counts[m - 1]
  BY <1>6
<1> HIDE DEF B, c
<1>8. c[0] = 0 /\ \A m \in 1..n : c[m] = c[m - 1] + counts[m - 1]
  BY <1>7
<1> DEFINE S == {m \in 0..n : c[m] \in Nat}
<1>9. 0 \in S
  BY <1>8
<1>10. ASSUME NEW m \in 0..(n - 1), m \in S
       PROVE  m + 1 \in S
  <2>1. c[m + 1] = c[m] + counts[m] /\ counts[m] \in Nat /\ c[m] \in Nat
    BY <1>8, <1>10
  <2> QED
    BY <2>1
<1> HIDE DEF S
<1>11. \A m \in 0..n : m \in S
  BY <1>9, <1>10, InductionTo
<1>12. c \in [0..n -> Nat]
  <2>1. c = [m \in 0..n |-> c[m]]
    BY <1>6 DEF B
  <2> QED
    BY <1>11, <2>1 DEF S
<1> QED
  BY <1>1, <1>8, <1>12 DEF Sums

\* The sum of counts that are the sums of two is the sum of theirs.
LEMMA TotalAdds ==
    ASSUME NEW n \in Nat, NEW s \in [0..(n - 1) -> Nat], NEW u \in [0..(n - 1) -> Nat],
           NEW v \in [0..(n - 1) -> Nat], \A j \in 0..(n - 1) : v[j] = s[j] + u[j]
    PROVE  total_count(v, n) = total_count(s, n) + total_count(u, n)
<1>1. PICK cs : Sums(s, n, cs) /\ total_count(s, n) = cs[n]
  BY TotalIsSum
<1>2. PICK cu : Sums(u, n, cu) /\ total_count(u, n) = cu[n]
  BY TotalIsSum
<1>3. PICK cv : Sums(v, n, cv) /\ total_count(v, n) = cv[n]
  BY TotalIsSum
<1> DEFINE S == {m \in 0..n : cv[m] = cs[m] + cu[m]}
<1>4. 0 \in S
  BY <1>1, <1>2, <1>3 DEF Sums
<1>5. ASSUME NEW m \in 0..(n - 1), m \in S
      PROVE  m + 1 \in S
  <2>1. m + 1 \in 1..n /\ (m + 1) - 1 = m /\ m \in 0..n /\ m + 1 \in 0..n
    OBVIOUS
  <2>2. /\ cs[m + 1] = cs[m] + s[m] /\ cu[m + 1] = cu[m] + u[m] /\ cv[m + 1] = cv[m] + v[m]
        /\ cs[m] \in Nat /\ cu[m] \in Nat /\ cv[m] = cs[m] + cu[m]
    BY <1>1, <1>2, <1>3, <1>5, <2>1 DEF Sums
  <2>3. v[m] = s[m] + u[m] /\ s[m] \in Nat /\ u[m] \in Nat
    OBVIOUS
  <2>4. cv[m + 1] = cs[m + 1] + cu[m + 1]
    BY ONLY <2>2, <2>3
  <2> QED
    BY <2>1, <2>4
<1> HIDE DEF S
<1>6. \A m \in 0..n : m \in S
  BY <1>4, <1>5, InductionTo
<1> QED
  BY <1>1, <1>2, <1>3, <1>6 DEF S

\* The sum of ones for the members of a set is their number.
LEMMA TotalOfSet ==
    ASSUME NEW n \in Nat, NEW A \in SUBSET (0..(n - 1)), NEW u \in [0..(n - 1) -> Nat],
           \A j \in 0..(n - 1) : u[j] = IF j \in A THEN 1 ELSE 0
    PROVE  total_count(u, n) = Cardinality(A)
<1>1. PICK c : Sums(u, n, c) /\ total_count(u, n) = c[n]
  BY TotalIsSum
<1> DEFINE Below(m) == {j \in A : j < m}
           Good(m) == IsFiniteSet(Below(m)) /\ c[m] = Cardinality(Below(m))
           S == {m \in 0..n : Good(m)}
<1>2. \A j \in A : j \in 0..(n - 1)
  OBVIOUS
<1>3. Below(0) = {} /\ Below(n) = A
  <2>1. \A j \in A : j < n /\ ~ (j < 0)
    BY <1>2
  <2> QED
    BY ONLY <2>1
<1>4. ASSUME NEW m \in 0..(n - 1)
      PROVE  IF m \in A THEN Below(m + 1) = Below(m) \cup {m} /\ m \notin Below(m)
                        ELSE Below(m + 1) = Below(m)
  <2>1. \A j \in A : (j < m + 1) <=> (j < m \/ j = m)
    BY <1>2
  <2>2. ~ (m < m)
    OBVIOUS
  <2>3. \A j : j \in Below(m + 1) <=> j \in A /\ (j \in Below(m) \/ j = m)
    BY ONLY <2>1
  <2>4. m \notin Below(m) /\ Below(m) \subseteq A
    BY ONLY <2>2
  <2> HIDE DEF Below
  <2> QED
    BY ONLY <2>3, <2>4
<1> HIDE DEF Below
<1>5. Good(0)
  <2>1. c[0] = 0
    BY <1>1 DEF Sums
  <2> QED
    BY <1>3, <2>1, FS_EmptySet
<1>6. ASSUME NEW m \in 0..(n - 1), Good(m)
      PROVE  Good(m + 1)
  <2>1. m + 1 \in 1..n /\ (m + 1) - 1 = m /\ m \in 0..n
    OBVIOUS
  <2>2. c[m + 1] = c[m] + u[m] /\ c[m] \in Nat
    BY <1>1, <2>1 DEF Sums
  <2>3. IsFiniteSet(Below(m)) /\ c[m] = Cardinality(Below(m))
    BY <1>6
  <2>4. CASE m \in A
    <3>1. IsFiniteSet(Below(m + 1)) /\ Cardinality(Below(m + 1)) = Cardinality(Below(m)) + 1
      BY <1>4, <2>3, <2>4, FS_AddElement
    <3>2. u[m] = 1
      BY <2>4
    <3> QED
      BY ONLY <2>2, <2>3, <3>1, <3>2
  <2>5. CASE m \notin A
    <3>1. Below(m + 1) = Below(m)
      BY <1>4, <2>5
    <3>2. u[m] = 0
      BY <2>5
    <3> QED
      BY ONLY <2>2, <2>3, <3>1, <3>2
  <2> QED
    BY <2>4, <2>5
<1> HIDE DEF Good
<1>7. 0 \in S
  BY <1>5
<1>8. ASSUME NEW m \in 0..(n - 1), m \in S
      PROVE  m + 1 \in S
  BY <1>6, <1>8
<1> HIDE DEF S
<1>9. \A m \in 0..n : m \in S
  BY <1>7, <1>8, InductionTo
<1>10. Good(n)
  BY <1>9 DEF S
<1> QED
  BY ONLY <1>1, <1>3, <1>10 DEF Good

\* The sum of a count of k for the first and of none for the others is k.
LEMMA TotalOfFirst ==
    ASSUME NEW n \in Nat \ {0}, NEW k \in Nat, NEW u \in [0..(n - 1) -> Nat],
           \A j \in 0..(n - 1) : u[j] = IF j = 0 THEN k ELSE 0
    PROVE  total_count(u, n) = k
<1>1. PICK c : Sums(u, n, c) /\ total_count(u, n) = c[n]
  BY TotalIsSum
<1> DEFINE S == {m \in 0..n : c[m] = IF m = 0 THEN 0 ELSE k}
<1>2. 0 \in S
  BY <1>1 DEF Sums
<1>3. ASSUME NEW m \in 0..(n - 1), m \in S
      PROVE  m + 1 \in S
  <2>1. m + 1 \in 1..n /\ (m + 1) - 1 = m /\ m + 1 \in 0..n
    OBVIOUS
  <2>2. c[m + 1] = c[m] + u[m]
    BY <1>1, <2>1 DEF Sums
  <2>3. c[m + 1] = k
    BY <1>3, <2>2
  <2> QED
    BY <2>1, <2>3
<1> HIDE DEF S
<1>4. \A m \in 0..n : m \in S
  BY <1>2, <1>3, InductionTo
<1> QED
  BY <1>1, <1>4 DEF S

----------------------------------------------------------------------------
(* What the shards hold.                                                   *)

\* The first d points that have center i among their closest.
Own(i, d) == {p \in Points : p < d /\ i \in closest[p]}

\* They, and no others, are in the file, in order.
Sorted(file, i, d) ==
    /\ Increasing(file)
    /\ Range(file) = Own(i, d)
    /\ Len(file) = Cardinality(Own(i, d))

\* The files of the shards after d points.
Held(files, d) ==
    /\ files \in [Shards -> Seq(Points)]
    /\ total_count([i \in Parts(call.num_parts) |-> Len(files[i])], call.num_parts)
          = call.k_base * d
    /\ call.k_base <= call.num_parts =>
          \A i \in Parts(call.num_parts) : Sorted(files[i], i, d)

\* There are shards and copies, and the centers of each point are as many, unless there
\* are fewer.
Computed ==
    /\ call.num_parts \in 1..MaxParts
    /\ call.k_base \in Nat \ {0}
    /\ call.k_base <= call.num_parts => \A p \in Points :
          closest[p] \in SUBSET Parts(call.num_parts) /\ Cardinality(closest[p]) = call.k_base

LEMMA PointsFinite ==
    ASSUME NEW A \in SUBSET Points
    PROVE  IsFiniteSet(A) /\ Cardinality(A) \in Nat
<1>1. NumPoints - 1 \in Int
  BY PartitionAssumption
<1>2. IsFiniteSet(Points)
  BY <1>1, FS_Interval DEF Points
<1> QED
  BY <1>2, FS_Subset, FS_CardinalityType

\* A file with n copies of a point behind it.
LEMMA CopiesBehind ==
    ASSUME NEW file \in Seq(Points), NEW p \in Points, NEW n \in Nat
    PROVE  LET new == file \o [m \in 1..n |-> p]
           IN  /\ new \in Seq(Points)
               /\ Len(new) = Len(file) + n
               /\ \A j \in 1..(Len(file) + n) : new[j] = IF j <= Len(file) THEN file[j] ELSE p
<1> DEFINE t == [m \in 1..n |-> p]
<1>1. t \in Seq(Points) /\ Len(t) = n /\ \A m \in 1..n : t[m] = p
  BY IsASeq
<1> HIDE DEF t
<1>2. /\ file \o t \in Seq(Points) /\ Len(file \o t) = Len(file) + n
      /\ \A j \in 1..(Len(file) + n) :
            (file \o t)[j] = IF j <= Len(file) THEN file[j] ELSE t[j - Len(file)]
  BY <1>1, ConcatProperties
<1>3. ASSUME NEW j \in 1..(Len(file) + n), ~ (j <= Len(file))
      PROVE  t[j - Len(file)] = p
  <2>1. Len(file) \in Nat
    BY LenProperties
  <2>2. j - Len(file) \in 1..n
    BY <1>3, <2>1
  <2> QED
    BY <1>1, <2>2
<1> QED
  BY <1>2, <1>3 DEF t

\* The files of a shard stay in order when the next point is written to them, or not.
LEMMA NextSorted ==
    ASSUME NEW file \in Seq(Points), NEW i, NEW d \in Points, Sorted(file, i, d)
    PROVE  Sorted(file \o [m \in 1..(IF i \in closest[d] THEN 1 ELSE 0) |-> d], i, d + 1)
<1> DEFINE n == IF i \in closest[d] THEN 1 ELSE 0
           new == file \o [m \in 1..n |-> d]
<1>1. /\ new \in Seq(Points) /\ Len(new) = Len(file) + n
      /\ \A j \in 1..(Len(file) + n) : new[j] = IF j <= Len(file) THEN file[j] ELSE d
  BY CopiesBehind
<1>2. /\ Len(file) \in Nat /\ file \in [1..Len(file) -> Points] /\ DOMAIN file = 1..Len(file)
      /\ DOMAIN new = 1..Len(new)
  BY <1>1, LenProperties
<1>3. /\ \A a, b \in 1..Len(file) : a < b => file[a] < file[b]
      /\ Range(file) = Own(i, d) /\ Len(file) = Cardinality(Own(i, d))
  BY <1>2 DEF Sorted, Increasing
<1>4. \A a \in 1..Len(file) : file[a] < d /\ file[a] \in Int
  <2> TAKE a \in 1..Len(file)
  <2>1. file[a] \in Own(i, d)
    BY <1>2, <1>3 DEF Range
  <2> QED
    BY <2>1 DEF Own, Points
<1>5. Points \subseteq Int /\ d \in Int /\ ~ (d < d)
  BY DEF Points
<1>6. CASE i \in closest[d]
  <2>1. n = 1
    BY <1>6
  <2> HIDE DEF n, new
  <2>2. Own(i, d + 1) = Own(i, d) \cup {d} /\ d \notin Own(i, d)
    <3>1. \A p \in Points : p < d + 1 <=> p < d \/ p = d
      BY <1>5
    <3>2. \A p : p \in Own(i, d + 1) <=> p \in Own(i, d) \/ p = d
      BY <1>5, <1>6, <3>1 DEF Own
    <3>3. d \notin Own(i, d)
      BY <1>5 DEF Own
    <3> QED
      BY ONLY <3>2, <3>3
  <2>3. Cardinality(Own(i, d + 1)) = Cardinality(Own(i, d)) + 1
    <3>1. IsFiniteSet(Own(i, d))
      BY PointsFinite DEF Own
    <3> QED
      BY <2>2, <3>1, FS_AddElement
  <2>4. Range(new) = Range(file) \cup {d}
    <3>1. /\ \A j \in 1..Len(file) : j \in 1..Len(new) /\ new[j] = file[j]
          /\ Len(file) + 1 \in 1..Len(new) /\ new[Len(file) + 1] = d
      BY <1>1, <1>2, <2>1
    <3>2. \A j \in 1..Len(new) : j \in 1..Len(file) \/ j = Len(file) + 1
      BY <1>1, <1>2, <2>1
    <3> QED
      BY ONLY <1>2, <3>1, <3>2 DEF Range
  <2>5. Increasing(new)
    <3> SUFFICES ASSUME NEW a \in 1..Len(new), NEW b \in 1..Len(new), a < b
                 PROVE  new[a] < new[b]
      BY <1>2 DEF Increasing
    <3>1. a \in 1..Len(file) /\ new[a] = file[a]
      BY <1>1, <1>2, <2>1
    <3>2. CASE b <= Len(file)
      <4>1. b \in 1..Len(file) /\ new[b] = file[b]
        BY <1>1, <1>2, <2>1, <3>2
      <4> QED
        BY <1>3, <3>1, <4>1
    <3>3. CASE ~ (b <= Len(file))
      BY <1>1, <1>2, <1>4, <2>1, <3>1, <3>3
    <3> QED
      BY <3>2, <3>3
  <2>6. Len(new) = Cardinality(Own(i, d + 1))
    BY <1>1, <1>3, <2>1, <2>3
  <2> QED
    BY <1>3, <2>2, <2>4, <2>5, <2>6 DEF Sorted, new, n
<1>7. CASE i \notin closest[d]
  <2>1. n = 0
    BY <1>7
  <2> HIDE DEF n, new
  <2>2. Own(i, d + 1) = Own(i, d)
    <3>1. \A p \in Points : p < d + 1 <=> p < d \/ p = d
      BY <1>5
    <3> QED
      BY <1>7, <3>1 DEF Own
  <2>3. new = file
    <3>1. Len(new) = Len(file) /\ \A j \in 1..Len(new) : new[j] = file[j]
      BY <1>1, <1>2, <2>1
    <3> QED
      BY <1>1, <3>1, SeqEqual
  <2> QED
    BY <2>2, <2>3 DEF Sorted, new, n
<1> QED
  BY <1>6, <1>7

\* A point is written k_base times.
LEMMA CopiesCount ==
    ASSUME Computed, NEW d \in Points
    PROVE  LET n == call.num_parts
               u == [i \in Parts(n) |-> copies(d, i)]
           IN  u \in [0..(n - 1) -> Nat] /\ total_count(u, n) = call.k_base
<1> DEFINE n == call.num_parts
           u == [i \in Parts(n) |-> copies(d, i)]
<1>1. n \in Nat \ {0} /\ call.k_base \in Nat \ {0}
  BY PartitionAssumption DEF Computed
<1>2. u \in [0..(n - 1) -> Nat]
  BY <1>1 DEF copies, Parts
<1>3. CASE call.k_base <= n
  <2> DEFINE A == closest[d]
  <2>1. A \in SUBSET (0..(n - 1)) /\ Cardinality(A) = call.k_base
    BY <1>3 DEF Computed, Parts
  <2>2. \A j \in 0..(n - 1) : u[j] = IF j \in A THEN 1 ELSE 0
    BY <1>3 DEF copies, Parts
  <2> HIDE DEF u, A, n
  <2>3. total_count(u, n) = Cardinality(A)
    BY <1>1, <1>2, <2>1, <2>2, TotalOfSet
  <2> QED
    BY <1>2, <2>1, <2>3 DEF u, n
<1>4. CASE ~ (call.k_base <= n)
  <2>1. \A j \in 0..(n - 1) : u[j] = IF j = 0 THEN call.k_base ELSE 0
    BY <1>4 DEF copies, Parts
  <2> HIDE DEF u, n
  <2>2. total_count(u, n) = call.k_base
    BY <1>1, <1>2, <2>1, TotalOfFirst
  <2> QED
    BY <1>2, <2>2 DEF u, n
<1> QED
  BY <1>3, <1>4

\* The turn of a point.
LEMMA PointAdds ==
    ASSUME Computed, NEW files, NEW d \in Points, Held(files, d)
    PROVE  Held(WithPoint(files, d), d + 1)
<1> DEFINE n == call.num_parts
           new == WithPoint(files, d)
           s == [i \in Parts(n) |-> Len(files[i])]
           u == [i \in Parts(n) |-> copies(d, i)]
           v == [i \in Parts(n) |-> Len(new[i])]
<1>1. /\ n \in Nat \ {0} /\ call.k_base \in Nat \ {0} /\ d \in Nat
      /\ Parts(n) = 0..(n - 1) /\ Parts(n) \subseteq Shards
  BY PartitionAssumption DEF Computed, Parts, Shards, Points
<1>2. \A i \in Shards : copies(d, i) \in Nat
  BY <1>1 DEF copies
<1>3. \A i \in Shards : /\ files[i] \in Seq(Points)
                        /\ new[i] \in Seq(Points)
                        /\ Len(new[i]) = Len(files[i]) + copies(d, i)
  <2> TAKE i \in Shards
  <2>1. files[i] \in Seq(Points)
    BY DEF Held
  <2>2. new[i] = files[i] \o [m \in 1..copies(d, i) |-> d]
    BY DEF WithPoint
  <2> DEFINE e == copies(d, i)
             t == files[i] \o [m \in 1..e |-> d]
  <2>3. e \in Nat
    BY <1>2
  <2> HIDE DEF e
  <2>4. t \in Seq(Points) /\ Len(t) = Len(files[i]) + e
    BY <2>1, <2>3, CopiesBehind
  <2>5. new[i] = t
    BY <2>2 DEF e
  <2> HIDE DEF new, t
  <2> QED
    BY <2>1, <2>4, <2>5 DEF e
<1>4. new \in [Shards -> Seq(Points)]
  <2>1. new = [i \in Shards |-> new[i]]
    BY DEF WithPoint
  <2> HIDE DEF new
  <2> QED
    BY <1>3, <2>1
<1>5. total_count(v, n) = call.k_base * (d + 1)
  <2>1. u \in [0..(n - 1) -> Nat] /\ total_count(u, n) = call.k_base
    BY CopiesCount
  <2>2. /\ s \in [0..(n - 1) -> Nat] /\ v \in [0..(n - 1) -> Nat]
        /\ \A j \in 0..(n - 1) : v[j] = s[j] + u[j]
    <3>1. \A i \in Shards : Len(files[i]) \in Nat /\ Len(new[i]) \in Nat
      BY <1>3, LenProperties
    <3> HIDE DEF new, n
    <3> QED
      BY <1>1, <1>3, <3>1
  <2>3. total_count(s, n) = call.k_base * d
    BY DEF Held
  <2> HIDE DEF s, u, v, n, new
  <2>4. total_count(v, n) = total_count(s, n) + total_count(u, n)
    BY <1>1, <2>1, <2>2, TotalAdds
  <2>5. call.k_base * (d + 1) = call.k_base * d + call.k_base
    BY <1>1
  <2> QED
    BY ONLY <2>1, <2>3, <2>4, <2>5
<1>6. ASSUME call.k_base <= n, NEW i \in Parts(n)
      PROVE  Sorted(new[i], i, d + 1)
  <2>1. Sorted(files[i], i, d) /\ files[i] \in Seq(Points)
    BY <1>1, <1>3, <1>6 DEF Held
  <2>2. new[i] = files[i] \o [m \in 1..(IF i \in closest[d] THEN 1 ELSE 0) |-> d]
    BY <1>1, <1>6 DEF WithPoint, copies
  <2> HIDE DEF new
  <2> QED
    BY <2>1, <2>2, NextSorted
<1> QED
  BY <1>4, <1>5, <1>6 DEF Held

\* The points of the blocks before b.
Done(b) == IF b * block_size < NumPoints THEN b * block_size ELSE NumPoints

\* The blocks cover the points, and each begins before the last point.
LEMMA Blocks ==
    /\ block_size \in 1..NumPoints /\ num_blocks \in Nat
    /\ NumPoints <= num_blocks * block_size
    /\ \A b \in 0..(num_blocks - 1) : b * block_size < NumPoints
<1> DEFINE q == NumPoints \div block_size
           r == NumPoints % block_size
           s == block_size
           n == NumPoints
           blocks == num_blocks
<1>1. n \in Nat \ {0} /\ s \in 1..n
  BY PartitionAssumption DEF block_size
<1> HIDE DEF s, n
<1>2. n \div s \in Nat /\ n % s \in 0..(s - 1) /\ n = s * (n \div s) + (n % s)
  BY <1>1
<1>3. blocks = IF n % s = 0 THEN n \div s ELSE n \div s + 1
  BY DEF num_blocks, s, n
<1>4. q = n \div s /\ r = n % s
  BY DEF s, n
<1> HIDE DEF q, r, blocks
<1>5. /\ q \in Nat /\ r \in 0..(s - 1) /\ n = s * q + r
      /\ blocks = IF r = 0 THEN q ELSE q + 1
  BY <1>2, <1>3, <1>4
<1>6. s * q = q * s /\ q * s \in Nat /\ (q + 1) * s = q * s + s
  BY <1>1, <1>5
<1>7. blocks \in Nat /\ n <= blocks * s
  BY ONLY <1>1, <1>5, <1>6
<1>8. ASSUME NEW b \in 0..(blocks - 1)
      PROVE  b * s < n
  <2>1. /\ blocks * s = b * s + (blocks - b - 1) * s + s
        /\ b * s \in Nat /\ (blocks - b - 1) * s \in Nat
    BY <1>1, <1>7
  <2>2. blocks * s < n + s
    BY ONLY <1>1, <1>5, <1>6
  <2>3. blocks * s \in Nat
    BY ONLY <1>1, <1>7
  <2> QED
    BY ONLY <1>1, <2>1, <2>2, <2>3
<1> QED
  BY ONLY <1>1, <1>7, <1>8 DEF s, n, blocks

\* A block writes its points.
LEMMA BlockAdds ==
    ASSUME Computed, cur_blk \in 0..(num_blocks - 1), Held(writers, Done(cur_blk))
    PROVE  Held(Written(cur_blk_size), Done(cur_blk + 1))
<1> DEFINE first == cur_blk * block_size
           K == cur_blk_size
           V == [Shards -> Seq(Points)]
           B(g) == [m \in 0..K |-> IF m = 0 THEN writers
                                            ELSE WithPoint(g[m - 1], first + (m - 1))]
           step == [m \in 1..K |-> [v \in V |-> WithPoint(v, first + (m - 1))]]
           c == CHOOSE g : g = B(g)
<1>1. Written(K) = c[K]
  BY DEF Written
<1>2. /\ K \in Nat /\ first \in Nat /\ Done(cur_blk) = first /\ Done(cur_blk + 1) = first + K
      /\ \A m \in 1..K : first + (m - 1) \in Points
  <2>1. cur_blk * block_size \in Nat /\ (cur_blk + 1) * block_size = first + block_size
    BY Blocks
  <2>2. first < NumPoints /\ NumPoints \in Nat /\ block_size \in 1..NumPoints
    BY Blocks, PartitionAssumption
  <2>3. K = IF NumPoints - first < block_size THEN NumPoints - first ELSE block_size
    BY DEF cur_blk_size
  <2>4. /\ Done(cur_blk) = IF first < NumPoints THEN first ELSE NumPoints
        /\ Done(cur_blk + 1) = IF first + block_size < NumPoints THEN first + block_size
                                                               ELSE NumPoints
    BY <2>1 DEF Done
  <2> HIDE DEF first, K
  <2>5. first \in Nat
    BY <2>1 DEF first
  <2> QED
    BY <2>2, <2>3, <2>4, <2>5 DEF Points
<1>3. \A v \in V : \A m \in 1..K : WithPoint(v, first + (m - 1)) \in V
  <2> SUFFICES ASSUME NEW v \in V, NEW p \in Points
               PROVE  WithPoint(v, p) \in V
    BY <1>2
  <2>1. \A i \in Shards : copies(p, i) \in Nat
    BY DEF copies, Computed
  <2>2. \A i \in Shards : v[i] \o [m \in 1..copies(p, i) |-> p] \in Seq(Points)
    BY <2>1, CopiesBehind
  <2> QED
    BY <2>2 DEF WithPoint
<1> HIDE DEF V, K, first
<1>4. /\ step \in [1..K -> [V -> V]]
      /\ \A m \in 1..K : \A v \in V : step[m][v] = WithPoint(v, first + (m - 1))
  BY <1>3
<1>5. writers \in V
  BY DEF Held, V
<1> HIDE DEF step
<1>6. PICK f \in [0..K -> V] : f[0] = writers /\ \A m \in 1..K : f[m] = step[m][f[m - 1]]
  <2>1. HasValue(K, V, writers, step)
    BY <1>2, <1>4, <1>5, Recursion
  <2> QED
    BY ONLY <2>1 DEF HasValue
<1>7. f = B(f)
  <2>1. \A m \in 0..K : f[m] = B(f)[m]
    <3> TAKE m \in 0..K
    <3>1. CASE m = 0
      BY <1>6, <3>1
    <3>2. CASE m # 0
      <4>1. m \in 1..K /\ m - 1 \in 0..K
        BY <1>2, <3>2
      <4>2. f[m] = step[m][f[m - 1]] /\ f[m - 1] \in V
        BY <1>6, <4>1
      <4>3. step[m][f[m - 1]] = WithPoint(f[m - 1], first + (m - 1))
        BY <1>4, <4>1, <4>2
      <4> QED
        BY <3>2, <4>2, <4>3
    <3> QED
      BY <3>1, <3>2
  <2>2. DOMAIN f = 0..K
    BY <1>6
  <2> QED
    BY <2>1, <2>2
<1>8. c = B(c)
  BY <1>7
<1>9. \A m \in 0..K : c[m] = IF m = 0 THEN writers ELSE WithPoint(c[m - 1], first + (m - 1))
  BY <1>8
<1> HIDE DEF B, c
<1> DEFINE S == {m \in 0..K : Held(c[m], first + m)}
<1>10. 0 \in S
  <2>1. c[0] = writers /\ first + 0 = first /\ 0 \in 0..K
    BY <1>2, <1>9
  <2> QED
    BY <1>2, <2>1
<1>11. ASSUME NEW m \in 0..(K - 1), m \in S
       PROVE  m + 1 \in S
  <2>1. /\ m + 1 \in 1..K /\ (m + 1) - 1 = m /\ m + 1 \in 0..K /\ m + 1 # 0
        /\ (first + m) + 1 = first + (m + 1)
    BY <1>2
  <2>2. c[m + 1] = WithPoint(c[m], first + m)
    BY <1>9, <2>1
  <2>3. first + m \in Points /\ Held(c[m], first + m)
    BY <1>2, <1>11, <2>1
  <2>4. Held(c[m + 1], first + (m + 1))
    BY <2>1, <2>2, <2>3, PointAdds
  <2> QED
    BY <2>1, <2>4
<1> HIDE DEF S
<1>12. \A m \in 0..K : m \in S
  BY <1>2, <1>10, <1>11, InductionTo
<1>13. Held(c[K], first + K)
  BY <1>2, <1>12 DEF S
<1> QED
  BY ONLY <1>1, <1>2, <1>13 DEF K

----------------------------------------------------------------------------
(* Types.                                                                  *)

FileType == [count : Nat \cup {-1}, items : Seq(Points)]
CallType == [num_parts : Nat, k_base : Nat, with_data : BOOLEAN, budget : Nat, rate : Nat,
             sample : SUBSET Points]

\* A partitioning has returned, or an extraction ended, only when it is not under way.
TypeInv ==
    /\ disk \in [Files -> FileType]
    /\ pc \in {"idle", "estimate", "block", "close", "scan"}
    /\ call \in CallType
    /\ cur_blk \in Nat
    /\ writers \in [Shards -> Seq(Points)]
    /\ open \in Seq(Files)
    /\ shard \in Shards /\ next \in 0..NumPoints /\ cur_pos \in Nat
    /\ partitioned \in BOOLEAN /\ retrieved \in BOOLEAN
    /\ partitioned => pc \in {"idle", "scan"}
    /\ retrieved => pc = "idle"

NoFiles == [i \in Shards |-> << >>]

LEMMA NoFilesType ==
    NoFiles \in [Shards -> Seq(Points)] /\ None \in FileType /\ NoCall \in CallType
<1>1. << >> \in Seq(Points)
  BY EmptySeq
<1> QED
  BY <1>1 DEF NoFiles, None, NoCall, FileType, CallType

\* A file written in full.
LEMMA FileIsFile ==
    ASSUME NEW s \in Seq(Points)
    PROVE  File(Len(s), s) \in FileType /\ File(0, s) \in FileType
BY LenProperties DEF File, FileType

\* The files a partitioning opens: for every shard those of the ids, and those of the
\* data if it writes them.
KindsOf(c) == IF c.with_data THEN {"ids", "data"} ELSE {"ids"}

LEMMA OpenedFiles ==
    ASSUME NEW c, c.num_parts \in 1..MaxParts, OpenShards(c)
    PROVE  /\ open' \in Seq(Files)
           /\ \A k \in KindsOf(c), i \in Parts(c.num_parts) : <<k, i>> \in Range(open')
           /\ disk' = [f \in Files |-> IF f \in Range(open') THEN None ELSE disk[f]]
           /\ writers' = NoFiles /\ cur_blk' = 0 /\ pc' = "block"
<1> DEFINE n == c.num_parts
           kinds == IF c.with_data THEN <<"data", "ids">> ELSE <<"ids">>
           file(m) == <<kinds[((m - 1) % Len(kinds)) + 1], (m - 1) \div Len(kinds)>>
<1>1. n \in Nat \ {0} /\ n <= MaxParts /\ MaxParts \in Nat
  BY PartitionAssumption
<1>2. open' = [m \in 1..(Len(kinds) * n) |-> file(m)]
  BY DEF OpenShards
<1>3. /\ disk' = [f \in Files |-> IF f \in Range(open') THEN None ELSE disk[f]]
      /\ writers' = NoFiles /\ cur_blk' = 0 /\ pc' = "block"
  BY DEF OpenShards, NoFiles
<1> HIDE DEF n
<1>4. CASE c.with_data
  <2>1. Len(kinds) = 2 /\ kinds[1] = "data" /\ kinds[2] = "ids"
    BY <1>4
  <2> HIDE DEF kinds
  <2>2. Len(kinds) * n = 2 * n /\ 2 * n \in Nat
    BY <1>1, <2>1
  <2>3. ASSUME NEW m \in 1..(2 * n)
        PROVE  file(m) \in Files
    <3>1. (m - 1) % 2 \in {0, 1} /\ (m - 1) \div 2 \in 0..(n - 1)
      BY <1>1
    <3>2. (m - 1) \div 2 \in Shards
      BY <1>1, <3>1 DEF Shards
    <3>3. kinds[((m - 1) % 2) + 1] \in {"ids", "data"}
      BY <2>1, <3>1
    <3> QED
      BY <2>1, <3>2, <3>3 DEF Files
  <2>4. ASSUME NEW i \in 0..(n - 1)
        PROVE  /\ 2 * i + 1 \in 1..(2 * n) /\ file(2 * i + 1) = <<"data", i>>
               /\ 2 * i + 2 \in 1..(2 * n) /\ file(2 * i + 2) = <<"ids", i>>
    <3>1. /\ 2 * i + 1 \in 1..(2 * n) /\ 2 * i + 2 \in 1..(2 * n)
          /\ ((2 * i + 1) - 1) % 2 = 0 /\ ((2 * i + 1) - 1) \div 2 = i
          /\ ((2 * i + 2) - 1) % 2 = 1 /\ ((2 * i + 2) - 1) \div 2 = i
      BY <1>1
    <3> QED
      BY <2>1, <3>1
  <2> HIDE DEF file
  <2>5. open' = [m \in 1..(2 * n) |-> file(m)]
    BY <1>2, <2>2
  <2>6. open' \in Seq(Files)
    BY <2>2, <2>3, <2>5, IsASeq
  <2>7. \A i \in 0..(n - 1) : <<"data", i>> \in Range(open') /\ <<"ids", i>> \in Range(open')
    BY <2>4, <2>5 DEF Range
  <2> QED
    BY <1>3, <1>4, <2>6, <2>7 DEF KindsOf, Parts, n
<1>5. CASE ~ c.with_data
  <2>1. Len(kinds) = 1 /\ kinds[1] = "ids"
    BY <1>5
  <2> HIDE DEF kinds
  <2>2. Len(kinds) * n = n
    BY <1>1, <2>1
  <2>3. ASSUME NEW m \in 1..n
        PROVE  file(m) = <<"ids", m - 1>> /\ file(m) \in Files
    <3>1. (m - 1) % 1 = 0 /\ (m - 1) \div 1 = m - 1
      OBVIOUS
    <3>2. m - 1 \in Shards
      BY <1>1 DEF Shards
    <3> QED
      BY <2>1, <3>1, <3>2 DEF Files
  <2> HIDE DEF file
  <2>4. open' = [m \in 1..n |-> file(m)]
    BY <1>2, <2>2
  <2>5. open' \in Seq(Files)
    BY <1>1, <2>3, <2>4, IsASeq
  <2>6. \A i \in 0..(n - 1) : i + 1 \in 1..n /\ file(i + 1) = <<"ids", i>>
    BY <1>1, <2>3
  <2>7. \A i \in 0..(n - 1) : <<"ids", i>> \in Range(open')
    BY <2>4, <2>6 DEF Range
  <2> QED
    BY <1>3, <1>5, <2>5, <2>7 DEF KindsOf, Parts, n
<1> QED
  BY <1>4, <1>5

LEMMA TypeInit == Init => TypeInv
<1> SUFFICES ASSUME Init PROVE TypeInv
  OBVIOUS
<1>1. disk = [f \in Files |-> None] /\ writers = NoFiles /\ call = NoCall /\ open = << >>
  BY DEF Init, NoFiles
<1>2. 0 \in Shards /\ 0 \in 0..NumPoints
  BY PartitionAssumption DEF Shards
<1>3. open \in Seq(Files)
  BY <1>1, EmptySeq
<1> QED
  BY <1>1, <1>2, <1>3, NoFilesType DEF Init, TypeInv

----------------------------------------------------------------------------
(* The shards, from the call to the last file closed.                      *)

\* What was estimated of a full sample holds of the shards.
Estimated ==
    ~ call.with_data /\ call.rate = 1 => \A i \in Parts(call.num_parts) :
        Cardinality({p \in Points : i \in closest[p]}) <= call.budget

\* A file of the call is open still, or complete.
Closing == \A k \in KindsOf(call), i \in Parts(call.num_parts) :
    <<k, i>> \in Range(open) \/ disk[<<k, i>>] = File(Len(writers[i]), writers[i])

\* The ids on disk.
Ids == [i \in Shards |-> disk[<<"ids", i>>].items]

\* The files of a partitioning that returned.
Listed ==
    /\ Held(Ids, NumPoints)
    /\ \A i \in Parts(call.num_parts) : SizeAgrees(disk[<<"ids", i>>])
    /\ call.with_data /\ call.k_base <= call.num_parts => \A i \in Parts(call.num_parts) :
          (pc = "scan" /\ i = shard) \/ disk[<<"data", i>>] = disk[<<"ids", i>>]

ShardInv ==
    /\ pc = "estimate" => /\ call.num_parts \in 1..MaxParts /\ call.k_base # 0
                          /\ call.k_base <= call.num_parts
                          /\ call.rate = 1 => call.sample = Points
    /\ pc \in {"block", "close"} \/ partitioned =>
          /\ Computed /\ Estimated
          /\ call.with_data \/ call.k_base <= call.num_parts
    /\ pc = "block" => /\ cur_blk \in 0..num_blocks
                       /\ Held(writers, Done(cur_blk))
                       /\ \A k \in KindsOf(call), i \in Parts(call.num_parts) :
                             <<k, i>> \in Range(open)
    /\ pc = "close" => Held(writers, NumPoints) /\ Closing
    /\ partitioned => Listed

\* Before the first block the files are empty.
LEMMA NothingHeld ==
    ASSUME Computed
    PROVE  Held(NoFiles, 0)
<1> DEFINE n == call.num_parts
           u == [i \in Parts(n) |-> Len(NoFiles[i])]
<1>1. n \in Nat \ {0} /\ Parts(n) = 0..(n - 1) /\ Parts(n) \subseteq Shards
      /\ call.k_base \in Nat
  BY PartitionAssumption DEF Computed, Parts, Shards
<1>2. \A i \in Parts(n) : NoFiles[i] = << >>
  BY <1>1 DEF NoFiles
<1>3. u = [i \in 0..(n - 1) |-> 0]
  BY <1>1, <1>2
<1>4. total_count(u, n) = 0
  <2> HIDE DEF u, n
  <2>1. u \in [0..(n - 1) -> Nat] /\ \A j \in 0..(n - 1) : u[j] = IF j = 0 THEN 0 ELSE 0
    BY <1>3
  <2> QED
    BY <1>1, <2>1, TotalOfFirst
<1>5. ASSUME NEW i \in Parts(n)
      PROVE  Sorted(NoFiles[i], i, 0)
  <2>1. Own(i, 0) = {}
    BY DEF Own, Points
  <2>2. Increasing(<< >>) /\ Range(<< >>) = {} /\ Len(<< >>) = 0
    BY DEF Increasing, Range
  <2> QED
    BY <1>2, <1>5, <2>1, <2>2, FS_EmptySet DEF Sorted
<1>6. call.k_base * 0 = 0
  BY <1>1
<1> QED
  BY <1>4, <1>5, <1>6, NoFilesType DEF Held

\* Only the files of the shards there are count.
LEMMA SameHeld ==
    ASSUME Computed, NEW f, NEW g \in [Shards -> Seq(Points)], NEW d,
           Held(f, d), \A i \in Parts(call.num_parts) : g[i] = f[i]
    PROVE  Held(g, d)
<1>1. [i \in Parts(call.num_parts) |-> Len(g[i])] = [i \in Parts(call.num_parts) |-> Len(f[i])]
  OBVIOUS
<1> QED
  BY <1>1 DEF Held

\* What the trained centers give.
LEMMA TrainedCenters ==
    ASSUME NEW c, NEW of \in Trained(c), c.k_base <= c.num_parts, c.num_parts \in Nat,
           c.k_base \in Nat
    PROVE  \A p \in Points :
              of[p] \in SUBSET Parts(c.num_parts) /\ Cardinality(of[p]) = c.k_base
<1>1. of \in [Points -> kSubset(c.k_base, Parts(c.num_parts))]
  BY DEF Trained
<1> QED
  BY <1>1 DEF kSubset

LEMMA DoneAtFirst == Done(0) = 0
  BY Blocks, PartitionAssumption DEF Done

\* Where all files of a call are opened the first block can be written.
LEMMA OpenedKeeps ==
    ASSUME Computed', Estimated', (call.with_data \/ call.k_base <= call.num_parts)',
           OpenShards(call'), partitioned' = FALSE
    PROVE  ShardInv'
<1>1. /\ \A k \in KindsOf(call'), i \in Parts(call'.num_parts) : <<k, i>> \in Range(open')
      /\ writers' = NoFiles /\ cur_blk' = 0 /\ pc' = "block"
  <2>1. call'.num_parts \in 1..MaxParts
    BY DEF Computed
  <2> QED
    BY <2>1, OpenedFiles
<1>2. Held(NoFiles, 0)'
  BY NothingHeld, PTL
<1>3. Held(writers, Done(cur_blk))'
  <2>1. Done(cur_blk)' = 0 /\ 0' = 0 /\ NoFiles' = writers'
    BY <1>1, DoneAtFirst DEF Done, NoFiles, block_size
  <2> QED
    BY <1>2, <2>1 DEF Held, Sorted, Own
<1>4. cur_blk' \in 0..num_blocks'
  BY <1>1, Blocks DEF num_blocks, block_size
<1> QED
  BY <1>1, <1>3, <1>4 DEF ShardInv

----------------------------------------------------------------------------
(* An extraction.                                                          *)

\* Of the ids the first n are rising and below limit, and the next one is not below the
\* limit, or no larger than the one before: no point from there to the limit is it.
Scanned(items, n, limit) ==
    /\ n \in 0..Len(items)
    /\ \A a, b \in 1..n : a < b => items[a] < items[b]
    /\ \A a \in 1..n : items[a] < limit
    /\ n < Len(items) => items[n + 1] >= limit \/ (n > 0 /\ items[n + 1] <= items[n])

listed == disk[<<"ids", shard>>].items

\* The points up to next were compared, and those that were met are in the file.
Scanning ==
    /\ SizeAgrees(disk[<<"ids", shard>>])
    /\ Scanned(listed, cur_pos, next)
    /\ open = <<<<"data", shard>>>>
    /\ writers = [i \in Shards |-> IF i = shard THEN SubSeq(listed, 1, cur_pos) ELSE << >>]

\* All points were compared.
Extracted == \E n \in Nat :
    /\ Scanned(listed, n, NumPoints)
    /\ disk[<<"data", shard>>] = File(n, SubSeq(listed, 1, n))

ScanInv ==
    /\ pc = "idle" => writers = NoFiles
    /\ pc = "scan" => Scanning
    /\ retrieved => Extracted

Inv == TypeInv /\ ShardInv /\ ScanInv

LEMMA InvInit == Init => Inv
<1> SUFFICES ASSUME Init PROVE Inv
  OBVIOUS
<1>1. ShardInv
  BY DEF Init, ShardInv
<1>2. ScanInv
  BY DEF Init, ScanInv, NoFiles
<1> QED
  BY <1>1, <1>2, TypeInit DEF Inv

\* partition opens the files of all shards.
LEMMA PartitionDataKeeps == Inv /\ PartitionData => Inv'
<1> SUFFICES ASSUME Inv, PartitionData PROVE Inv'
  OBVIOUS
<1>1. PICK n \in PartCounts, k \in KBases :
         LET c == [num_parts |-> n, k_base |-> k, with_data |-> TRUE, budget |-> 0,
                   rate |-> 1, sample |-> {}]
         IN  StartCall(c) /\ closest' \in Trained(c) /\ OpenShards(c)
  BY DEF PartitionData
<1> DEFINE c == [num_parts |-> n, k_base |-> k, with_data |-> TRUE, budget |-> 0, rate |-> 1,
                 sample |-> {}]
<1>2. /\ call' = c /\ partitioned' = FALSE /\ retrieved' = FALSE
      /\ shard' = shard /\ next' = next /\ cur_pos' = cur_pos
  BY <1>1 DEF StartCall, extraction
<1>3. /\ c.num_parts = n /\ c.k_base = k /\ c.with_data = TRUE /\ c \in CallType
      /\ n \in 1..MaxParts /\ k \in Nat \ {0} /\ n \in Nat
  BY PartitionAssumption DEF CallType
<1>4. OpenShards(c) /\ closest' \in Trained(c)
  BY <1>1
<1> HIDE DEF c
<1>5. Computed' /\ Estimated'
  BY <1>2, <1>3, <1>4, TrainedCenters DEF Computed, Estimated
<1>6. ShardInv'
  BY <1>2, <1>3, <1>4, <1>5, OpenedKeeps
<1>7. /\ open' \in Seq(Files) /\ writers' = NoFiles /\ cur_blk' = 0 /\ pc' = "block"
      /\ disk' = [f \in Files |-> IF f \in Range(open') THEN None ELSE disk[f]]
  BY <1>3, <1>4, OpenedFiles
<1>8. TypeInv'
  BY <1>2, <1>3, <1>7, NoFilesType DEF Inv, TypeInv
<1>9. ScanInv'
  BY <1>2, <1>7 DEF ScanInv
<1> QED
  BY <1>6, <1>8, <1>9 DEF Inv

\* partition_with_ram_budget begins with a sample.
LEMMA PartitionWithRamBudgetKeeps == Inv /\ PartitionWithRamBudget => Inv'
<1> SUFFICES ASSUME Inv, PartitionWithRamBudget PROVE Inv'
  OBVIOUS
<1>1. PICK k \in KBases, b \in Budgets, r \in Rates : \E sample \in Samples(r) :
         /\ k <= FirstParts
         /\ StartCall([num_parts |-> FirstParts, k_base |-> k, with_data |-> FALSE,
                       budget |-> b, rate |-> r, sample |-> sample])
  BY DEF PartitionWithRamBudget
<1>2. PICK sample \in Samples(r) :
         /\ k <= FirstParts
         /\ StartCall([num_parts |-> FirstParts, k_base |-> k, with_data |-> FALSE,
                       budget |-> b, rate |-> r, sample |-> sample])
  BY <1>1
<1> DEFINE c == [num_parts |-> FirstParts, k_base |-> k, with_data |-> FALSE,
                 budget |-> b, rate |-> r, sample |-> sample]
<1>3. /\ call' = c /\ partitioned' = FALSE /\ retrieved' = FALSE
      /\ pc' = "estimate" /\ UNCHANGED <<disk, closest, cur_blk, writers, open, extraction>>
  BY <1>2 DEF StartCall, PartitionWithRamBudget
<1>4. sample \in SUBSET Points /\ (r = 1 => sample = Points)
  BY DEF Samples
<1>5. /\ c.num_parts = FirstParts /\ c.k_base = k /\ c.rate = r /\ c.sample = sample
      /\ c \in CallType
      /\ FirstParts \in 1..MaxParts /\ k # 0 /\ k <= FirstParts
  BY <1>2, <1>4, PartitionAssumption DEF CallType
<1> HIDE DEF c
<1>6. TypeInv'
  BY <1>3, <1>5 DEF Inv, TypeInv, extraction
<1>7. ShardInv'
  BY <1>3, <1>4, <1>5 DEF ShardInv
<1>8. ScanInv'
  BY <1>3 DEF ScanInv
<1> QED
  BY <1>6, <1>7, <1>8 DEF Inv

\* A turn of the loop with which it ends.
LEMMA FitsKeeps == Inv /\ Fits => Inv'
<1> SUFFICES ASSUME Inv, Fits PROVE Inv'
  OBVIOUS
<1>1. /\ pc = "estimate" /\ closest' \in Trained(call) /\ fit_in_ram(closest')
      /\ OpenShards(call) /\ call' = [call EXCEPT !.sample = {}]
      /\ UNCHANGED <<extraction, ghosts>>
  BY DEF Fits
<1>2. call \in CallType /\ ~ partitioned /\ ~ retrieved
  BY <1>1 DEF Inv, TypeInv
<1>3. /\ call.num_parts \in 1..MaxParts /\ call.k_base \in Nat \ {0} /\ call.num_parts \in Nat
      /\ call.k_base <= call.num_parts /\ (call.rate = 1 => call.sample = Points)
  BY <1>1, <1>2 DEF Inv, ShardInv, CallType
<1>4. /\ call'.num_parts = call.num_parts /\ call'.k_base = call.k_base
      /\ call'.with_data = call.with_data /\ call'.budget = call.budget
      /\ call'.rate = call.rate /\ call' \in CallType
  BY <1>1, <1>2 DEF CallType
<1>5. Computed'
  BY <1>1, <1>3, <1>4, TrainedCenters DEF Computed
<1>6. Estimated'
  <2> SUFFICES ASSUME call.rate = 1, NEW i \in Parts(call.num_parts)
               PROVE  Cardinality({p \in Points : i \in closest'[p]}) <= call.budget
    BY <1>4 DEF Estimated
  <2>1. cluster_sizes(closest')[i] <= call.budget
    BY <1>1 DEF fit_in_ram
  <2> DEFINE A == {p \in Points : i \in closest'[p]}
  <2>2. cluster_sizes(closest')[i] = 1 * Cardinality(A)
    BY <1>3 DEF cluster_sizes
  <2>3. Cardinality(A) \in Nat
    BY PointsFinite
  <2> HIDE DEF A
  <2>4. Cardinality(A) <= call.budget
    BY <2>1, <2>2, <2>3
  <2> QED
    BY <2>4 DEF A
<1>7. /\ open' \in Seq(Files) /\ writers' = NoFiles /\ cur_blk' = 0 /\ pc' = "block"
      /\ disk' = [f \in Files |-> IF f \in Range(open') THEN None ELSE disk[f]]
  BY <1>1, <1>3, OpenedFiles
<1>8. partitioned' = FALSE /\ retrieved' = FALSE
  BY <1>1, <1>2 DEF ghosts, Inv, TypeInv
<1>9. OpenShards(call')
  BY <1>1, <1>4 DEF OpenShards
<1>10. ShardInv'
  BY <1>3, <1>4, <1>5, <1>6, <1>8, <1>9, OpenedKeeps
<1>11. TypeInv'
  BY <1>1, <1>4, <1>7, <1>8, NoFilesType DEF Inv, TypeInv, extraction
<1>12. ScanInv'
  BY <1>7, <1>8 DEF ScanInv
<1> QED
  BY <1>10, <1>11, <1>12 DEF Inv

\* A turn after which two more parts are tried.
LEMMA TooLargeKeeps == Inv /\ TooLarge => Inv'
<1> SUFFICES ASSUME Inv, TooLarge PROVE Inv'
  OBVIOUS
<1>1. /\ pc = "estimate" /\ call.num_parts + 2 <= MaxParts
      /\ call' = [call EXCEPT !.num_parts = @ + 2]
      /\ UNCHANGED <<disk, pc, closest, cur_blk, writers, open, extraction, ghosts>>
  BY DEF TooLarge
<1>2. call \in CallType /\ MaxParts \in Nat
  BY PartitionAssumption DEF Inv, TypeInv
<1>3. /\ call' \in CallType /\ call'.num_parts = call.num_parts + 2
      /\ call'.k_base = call.k_base /\ call'.rate = call.rate /\ call'.sample = call.sample
  BY <1>1, <1>2 DEF CallType
<1>4. TypeInv'
  BY <1>1, <1>3 DEF Inv, TypeInv, extraction, ghosts
<1>5. ShardInv'
  <2>1. ~ partitioned' /\ pc' = "estimate"
    BY <1>1 DEF Inv, TypeInv, ghosts
  <2>2. /\ call.num_parts \in 1..MaxParts /\ call.k_base # 0 /\ call.k_base <= call.num_parts
        /\ (call.rate = 1 => call.sample = Points) /\ call.k_base \in Nat
    BY <1>1, <1>2 DEF Inv, ShardInv, CallType
  <2>3. call'.num_parts \in 1..MaxParts /\ call'.k_base <= call'.num_parts
    BY <1>1, <1>2, <1>3, <2>2
  <2> QED
    BY <1>3, <2>1, <2>2, <2>3 DEF ShardInv
<1>6. ScanInv'
  BY <1>1 DEF Inv, ScanInv, TypeInv, ghosts
<1> QED
  BY <1>4, <1>5, <1>6 DEF Inv

\* A block is written.
LEMMA BlockKeeps == Inv /\ Block => Inv'
<1> SUFFICES ASSUME Inv, Block PROVE Inv'
  OBVIOUS
<1>1. /\ pc = "block" /\ cur_blk < num_blocks /\ writers' = Written(cur_blk_size)
      /\ cur_blk' = cur_blk + 1
      /\ UNCHANGED <<disk, pc, call, closest, open, extraction, ghosts>>
  BY DEF Block, chosen
<1>2. /\ Computed /\ Estimated /\ (call.with_data \/ call.k_base <= call.num_parts)
      /\ cur_blk \in 0..num_blocks /\ Held(writers, Done(cur_blk))
      /\ \A k \in KindsOf(call), i \in Parts(call.num_parts) : <<k, i>> \in Range(open)
  BY <1>1 DEF Inv, ShardInv
<1>3. cur_blk \in 0..(num_blocks - 1) /\ cur_blk + 1 \in 0..num_blocks
  BY <1>1, <1>2, Blocks
<1>4. Held(writers', Done(cur_blk + 1))
  BY <1>1, <1>2, <1>3, BlockAdds
<1>5. writers' \in [Shards -> Seq(Points)]
  BY <1>4 DEF Held
<1>6. TypeInv'
  BY <1>1, <1>3, <1>5 DEF Inv, TypeInv, extraction, ghosts
<1>7. Held(writers, Done(cur_blk))'
  <2>1. Done(cur_blk)' = Done(cur_blk + 1)
    BY <1>1 DEF Done, block_size
  <2> QED
    BY <1>1, <1>4, <2>1 DEF Held, Sorted, Own
<1>8. Computed' /\ Estimated' /\ (call.with_data \/ call.k_base <= call.num_parts)'
  BY <1>1, <1>2 DEF Computed, Estimated
<1>9. ~ partitioned'
  BY <1>1 DEF Inv, TypeInv, ghosts
<1>10. ShardInv'
  <2>1. cur_blk' \in 0..num_blocks'
    BY <1>1, <1>3 DEF num_blocks, block_size
  <2> QED
    BY <1>1, <1>2, <1>7, <1>8, <1>9, <2>1 DEF ShardInv
<1>11. ScanInv'
  BY <1>1 DEF Inv, TypeInv, ScanInv, ghosts
<1> QED
  BY <1>6, <1>10, <1>11 DEF Inv

LEMMA BlocksDoneKeeps == Inv /\ BlocksDone => Inv'
<1> SUFFICES ASSUME Inv, BlocksDone PROVE Inv'
  OBVIOUS
<1>1. /\ pc = "block" /\ cur_blk = num_blocks /\ pc' = "close"
      /\ UNCHANGED <<disk, call, closest, cur_blk, writers, open, extraction, ghosts>>
  BY DEF BlocksDone, chosen
<1>2. /\ Computed /\ Estimated /\ (call.with_data \/ call.k_base <= call.num_parts)
      /\ Held(writers, Done(num_blocks))
      /\ \A k \in KindsOf(call), i \in Parts(call.num_parts) : <<k, i>> \in Range(open)
  BY <1>1 DEF Inv, ShardInv
<1>3. Done(num_blocks) = NumPoints
  <2>1. num_blocks * block_size \in Nat
    BY Blocks
  <2> QED
    BY <2>1, Blocks, PartitionAssumption DEF Done
<1>4. TypeInv'
  BY <1>1 DEF Inv, TypeInv, extraction, ghosts
<1>5. Computed' /\ Estimated' /\ Held(writers, NumPoints)'
  <2>1. Held(writers, NumPoints)
    BY <1>2, <1>3
  <2> QED
    BY <1>1, <1>2, <2>1 DEF Computed, Estimated, Held, Sorted, Own
<1>6. ~ partitioned' /\ Closing'
  BY <1>1, <1>2 DEF Inv, TypeInv, ghosts, Closing
<1>7. ShardInv'
  BY <1>1, <1>2, <1>5, <1>6 DEF ShardInv
<1>8. ScanInv'
  BY <1>1 DEF Inv, TypeInv, ScanInv, ghosts
<1> QED
  BY <1>4, <1>7, <1>8 DEF Inv

\* A member of a sequence is its head or behind it.
LEMMA HeadOrTail ==
    ASSUME NEW S, NEW s \in Seq(S), s # << >>, NEW e \in Range(s)
    PROVE  e = Head(s) \/ e \in Range(Tail(s))
<1>1. PICK j \in 1..Len(s) : e = s[j]
  BY LenProperties DEF Range
<1>2. Len(s) \in Nat \ {0}
  BY EmptySeq
<1>3. /\ Tail(s) \in Seq(S) /\ Len(Tail(s)) = Len(s) - 1
      /\ \A i \in 1..Len(Tail(s)) : Tail(s)[i] = s[i + 1]
  BY HeadTailProperties
<1>4. CASE j = 1
  BY <1>1, <1>4
<1>5. CASE j # 1
  <2>1. j - 1 \in 1..Len(Tail(s)) /\ (j - 1) + 1 = j
    BY <1>2, <1>3, <1>5
  <2>2. Tail(s)[j - 1] = e
    BY <1>1, <1>3, <2>1
  <2>3. DOMAIN Tail(s) = 1..Len(Tail(s))
    BY <1>3, LenProperties
  <2> QED
    BY <2>1, <2>2, <2>3 DEF Range
<1> QED
  BY <1>4, <1>5

\* A file gets its count and is closed.
LEMMA CloseKeeps == Inv /\ Close => Inv'
<1> SUFFICES ASSUME Inv, Close PROVE Inv'
  OBVIOUS
<1> DEFINE f == Head(open)
           file == File(Len(writers[f[2]]), writers[f[2]])
<1>1. /\ pc = "close" /\ open # << >> /\ disk' = [disk EXCEPT ![f] = file]
      /\ open' = Tail(open)
      /\ UNCHANGED <<pc, call, closest, cur_blk, writers, extraction, ghosts>>
  BY DEF Close, chosen
<1>2. /\ Computed /\ Estimated /\ (call.with_data \/ call.k_base <= call.num_parts)
      /\ Held(writers, NumPoints) /\ Closing
  BY <1>1 DEF Inv, ShardInv
<1>3. /\ open \in Seq(Files) /\ disk \in [Files -> FileType]
      /\ writers \in [Shards -> Seq(Points)]
  BY DEF Inv, TypeInv
<1>4. f \in Files /\ open' \in Seq(Files)
  BY <1>1, <1>3, HeadTailProperties
<1>5. file \in FileType
  <2>1. f[2] \in Shards
    BY <1>4 DEF Files
  <2>2. writers[f[2]] \in Seq(Points)
    BY <1>3, <2>1
  <2> QED
    BY <2>2, FileIsFile
<1> HIDE DEF f
<1>6. TypeInv'
  <2>1. disk' \in [Files -> FileType]
    <3> HIDE DEF file
    <3> QED
      BY <1>1, <1>3, <1>5
  <2> QED
    BY <1>1, <1>4, <2>1 DEF Inv, TypeInv, extraction, ghosts
<1>7. Closing'
  <2> SUFFICES ASSUME NEW k \in KindsOf(call), NEW i \in Parts(call.num_parts)
               PROVE  \/ <<k, i>> \in Range(open')
                      \/ disk'[<<k, i>>] = File(Len(writers[i]), writers[i])
    BY <1>1 DEF Closing
  <2>1. <<k, i>> \in Files
    BY <1>2, PartitionAssumption DEF Computed, KindsOf, Files, Parts, Shards
  <2>2. CASE <<k, i>> = f
    <3>1. f[2] = i
      BY <2>2
    <3> QED
      BY <1>1, <1>3, <2>1, <2>2, <3>1
  <2>3. CASE <<k, i>> # f
    <3>1. disk'[<<k, i>>] = disk[<<k, i>>]
      BY <1>1, <1>3, <2>1, <2>3
    <3>2. <<k, i>> \in Range(open) => <<k, i>> \in Range(open')
      BY <1>1, <1>3, <2>3, HeadOrTail DEF f
    <3> QED
      BY <1>2, <3>1, <3>2 DEF Closing
  <2> QED
    BY <2>2, <2>3
<1>8. Computed' /\ Estimated' /\ Held(writers, NumPoints)'
  BY <1>1, <1>2 DEF Computed, Estimated, Held, Sorted, Own
<1>9. ~ partitioned' /\ ~ retrieved'
  BY <1>1 DEF Inv, TypeInv, ghosts
<1>10. ShardInv'
  BY <1>1, <1>2, <1>7, <1>8, <1>9 DEF ShardInv
<1>11. ScanInv'
  BY <1>1, <1>9 DEF ScanInv
<1> QED
  BY <1>6, <1>10, <1>11 DEF Inv

\* When all files are closed the shards are on disk.
LEMMA ReturnKeeps == Inv /\ Return => Inv'
<1> SUFFICES ASSUME Inv, Return PROVE Inv'
  OBVIOUS
<1>1. /\ pc = "close" /\ open = << >> /\ pc' = "idle" /\ writers' = NoFiles /\ cur_blk' = 0
      /\ partitioned' = TRUE /\ retrieved' = retrieved
      /\ UNCHANGED <<disk, call, closest, open, extraction>>
  BY DEF Return, chosen, NoFiles
<1>2. /\ Computed /\ Estimated /\ (call.with_data \/ call.k_base <= call.num_parts)
      /\ Held(writers, NumPoints) /\ Closing
  BY <1>1 DEF Inv, ShardInv
<1>3. disk \in [Files -> FileType] /\ writers \in [Shards -> Seq(Points)] /\ ~ retrieved
  BY <1>1 DEF Inv, TypeInv
<1>4. Parts(call.num_parts) \subseteq Shards
  BY <1>2, PartitionAssumption DEF Computed, Parts, Shards
<1>5. ASSUME NEW k \in KindsOf(call), NEW i \in Parts(call.num_parts)
      PROVE  disk[<<k, i>>] = File(Len(writers[i]), writers[i])
  <2>1. Range(open) = {}
    BY <1>1 DEF Range
  <2> QED
    BY <1>2, <2>1 DEF Closing
<1>6. \A i \in Parts(call.num_parts) :
          /\ disk[<<"ids", i>>] = File(Len(writers[i]), writers[i])
          /\ call.with_data => disk[<<"data", i>>] = disk[<<"ids", i>>]
  BY <1>5 DEF KindsOf
<1>7. Ids \in [Shards -> Seq(Points)]
  <2> SUFFICES ASSUME NEW i \in Shards
               PROVE  disk[<<"ids", i>>].items \in Seq(Points)
    BY DEF Ids
  <2>1. disk[<<"ids", i>>] \in FileType
    BY <1>3 DEF Files
  <2> QED
    BY <2>1 DEF FileType
<1>8. \A i \in Parts(call.num_parts) : Ids[i] = writers[i] /\ SizeAgrees(disk[<<"ids", i>>])
  <2> TAKE i \in Parts(call.num_parts)
  <2>1. disk[<<"ids", i>>] = File(Len(writers[i]), writers[i])
    BY <1>6
  <2>2. Ids[i] = disk[<<"ids", i>>].items
    BY <1>4 DEF Ids
  <2> QED
    BY <2>1, <2>2 DEF File, SizeAgrees
<1>9. Held(Ids, NumPoints)
  BY <1>2, <1>7, <1>8, SameHeld
<1>10. Listed'
  <2>1. Held(Ids, NumPoints)'
    <3>1. Ids' = Ids
      BY <1>1 DEF Ids
    <3> QED
      BY <1>1, <1>9, <3>1 DEF Held, Sorted, Own
  <2> QED
    BY <1>1, <1>6, <1>8, <2>1 DEF Listed, SizeAgrees
<1>11. Computed' /\ Estimated'
  BY <1>1, <1>2 DEF Computed, Estimated
<1>12. TypeInv'
  BY <1>1, <1>3, NoFilesType DEF Inv, TypeInv, extraction
<1>13. ShardInv'
  BY <1>1, <1>2, <1>10, <1>11 DEF ShardInv
<1>14. ScanInv'
  BY <1>1, <1>3 DEF ScanInv
<1> QED
  BY <1>12, <1>13, <1>14 DEF Inv

----------------------------------------------------------------------------
(* The steps of an extraction.                                             *)

\* A file is its count and its items.
LEMMA FileParts ==
    ASSUME NEW f \in FileType
    PROVE  f = File(f.count, f.items) /\ f.items \in Seq(Points) /\ f.count \in Int
BY DEF FileType, File

\* The files of a partitioning do not care for another data file.
LEMMA ListedKept ==
    ASSUME TypeInv, ShardInv, partitioned, UNCHANGED <<call, closest>>,
           \A i \in Shards : disk'[<<"ids", i>>] = disk[<<"ids", i>>],
           call.with_data /\ call.k_base <= call.num_parts => \A i \in Parts(call.num_parts) :
              \/ pc' = "scan" /\ i = shard'
              \/ disk'[<<"data", i>>] = disk[<<"ids", i>>]
    PROVE  Listed' /\ Computed' /\ Estimated'
<1>1. Listed /\ Computed /\ Estimated
  BY DEF ShardInv
<1>2. Computed' /\ Estimated'
  BY <1>1 DEF Computed, Estimated
<1>3. Ids' = Ids
  BY DEF Ids
<1>4. Held(Ids, NumPoints)'
  BY <1>1, <1>3 DEF Listed, Held, Sorted, Own
<1>5. Parts(call.num_parts) \subseteq Shards
  BY <1>1, PartitionAssumption DEF Computed, Parts, Shards
<1>6. \A i \in Parts(call.num_parts) : disk'[<<"ids", i>>] = disk[<<"ids", i>>]
  BY <1>5
<1> QED
  BY <1>1, <1>2, <1>4, <1>6 DEF Listed, SizeAgrees

\* The ids are refused.
LEMMA RetrieveThrowsKeeps == Inv /\ RetrieveThrows => Inv'
<1> SUFFICES ASSUME Inv, RetrieveThrows PROVE Inv'
  OBVIOUS
<1>1. /\ pc = "idle" /\ retrieved' = FALSE
      /\ UNCHANGED <<pc, call, closest, cur_blk, writers, open, extraction, partitioned>>
  BY DEF RetrieveThrows, chosen
<1>2. PICK i \in Shards, left \in {None, File(0, << >>)} :
         /\ ~ SizeAgrees(disk[<<"ids", i>>])
         /\ disk' = [disk EXCEPT ![<<"data", i>>] = left]
  BY DEF RetrieveThrows
<1>3. disk \in [Files -> FileType]
  BY DEF Inv, TypeInv
<1>4. left \in FileType
  <2>1. << >> \in Seq(Points)
    BY EmptySeq
  <2> QED
    BY <2>1, NoFilesType, FileIsFile
<1>5. /\ disk' \in [Files -> FileType]
      /\ \A j \in Shards : disk'[<<"ids", j>>] = disk[<<"ids", j>>]
      /\ \A j \in Shards : j # i => disk'[<<"data", j>>] = disk[<<"data", j>>]
  BY <1>2, <1>3, <1>4 DEF Files
<1>6. TypeInv'
  BY <1>1, <1>5 DEF Inv, TypeInv, extraction
<1>7. ShardInv'
  <2>1. ASSUME partitioned
        PROVE  Listed' /\ Computed' /\ Estimated'
    <3>1. Listed /\ Computed
      BY <2>1 DEF Inv, ShardInv
    <3>2. \A j \in Parts(call.num_parts) : j # i /\ j \in Shards
      BY <1>2, <3>1, PartitionAssumption DEF Listed, Computed, Parts, Shards
    <3>3. call.with_data /\ call.k_base <= call.num_parts => \A j \in Parts(call.num_parts) :
             disk'[<<"data", j>>] = disk[<<"ids", j>>]
      BY <1>1, <1>5, <3>1, <3>2 DEF Listed
    <3> QED
      BY <1>1, <1>5, <2>1, <3>3, ListedKept DEF Inv
  <2> QED
    BY <1>1, <2>1 DEF Inv, ShardInv
<1>8. ScanInv'
  BY <1>1 DEF Inv, ScanInv
<1> QED
  BY <1>6, <1>7, <1>8 DEF Inv

\* The ids are read, and the data file is empty.
LEMMA RetrieveKeeps == Inv /\ Retrieve => Inv'
<1> SUFFICES ASSUME Inv, Retrieve PROVE Inv'
  OBVIOUS
<1>1. /\ pc = "idle" /\ pc' = "scan" /\ retrieved' = FALSE /\ next' = 0 /\ cur_pos' = 0
      /\ UNCHANGED <<call, closest, cur_blk, writers, partitioned>>
  BY DEF Retrieve, chosen
<1>2. PICK i \in Shards :
         /\ SizeAgrees(disk[<<"ids", i>>])
         /\ disk' = [disk EXCEPT ![<<"data", i>>] = None]
         /\ open' = <<<<"data", i>>>>
         /\ shard' = i
  BY DEF Retrieve
<1>3. disk \in [Files -> FileType]
  BY DEF Inv, TypeInv
<1>4. /\ disk' \in [Files -> FileType]
      /\ \A j \in Shards : disk'[<<"ids", j>>] = disk[<<"ids", j>>]
      /\ \A j \in Shards : j # i => disk'[<<"data", j>>] = disk[<<"data", j>>]
  BY <1>2, <1>3, NoFilesType DEF Files
<1>5. TypeInv'
  <2>1. open' \in Seq(Files)
    BY <1>2 DEF Files
  <2>2. 0 \in 0..NumPoints
    BY PartitionAssumption
  <2> QED
    BY <1>1, <1>2, <1>4, <2>1, <2>2 DEF Inv, TypeInv
<1>6. ShardInv'
  <2>1. ASSUME partitioned
        PROVE  Listed' /\ Computed' /\ Estimated'
    <3>1. Listed /\ Computed
      BY <2>1 DEF Inv, ShardInv
    <3>2. Parts(call.num_parts) \subseteq Shards
      BY <3>1, PartitionAssumption DEF Computed, Parts, Shards
    <3>3. call.with_data /\ call.k_base <= call.num_parts => \A j \in Parts(call.num_parts) :
             (pc' = "scan" /\ j = shard') \/ disk'[<<"data", j>>] = disk[<<"ids", j>>]
      BY <1>1, <1>2, <1>4, <3>1, <3>2 DEF Listed
    <3> QED
      BY <1>1, <1>4, <2>1, <3>3, ListedKept DEF Inv
  <2> QED
    BY <1>1, <2>1 DEF Inv, ShardInv
<1>7. Scanning'
  <2> DEFINE ids == disk[<<"ids", i>>]
  <2>1. ids \in FileType /\ disk'[<<"ids", shard'>>] = ids /\ SizeAgrees(ids)
    BY <1>2, <1>3, <1>4 DEF Files
  <2>2. ids.items \in Seq(Points)
    BY <2>1 DEF FileType
  <2> HIDE DEF ids
  <2>3. Scanned(ids.items, 0, 0)
    <3>1. Len(ids.items) \in Nat /\ \A a \in 1..Len(ids.items) : ids.items[a] \in Points
      BY <2>2, LenProperties, ElementOfSeq
    <3> QED
      BY <3>1 DEF Scanned, Points
  <2>4. writers' = [j \in Shards |-> IF j = i THEN SubSeq(ids.items, 1, 0) ELSE << >>]
    <3>1. SubSeq(ids.items, 1, 0) = << >>
      BY SubSeqEmpty
    <3>2. writers' = NoFiles
      BY <1>1 DEF Inv, ScanInv
    <3> QED
      BY <3>1, <3>2 DEF NoFiles
  <2> QED
    BY <1>1, <1>2, <2>1, <2>3, <2>4 DEF Scanning, listed, SizeAgrees
<1>8. ScanInv'
  BY <1>1, <1>7 DEF ScanInv
<1> QED
  BY <1>5, <1>6, <1>8 DEF Inv

\* What was compared with the next point.
LEMMA ScannedNext ==
    ASSUME NEW items \in Seq(Points), NEW n \in Nat, NEW d \in Nat, n < Len(items),
           Scanned(items, n, d)
    PROVE  Scanned(items, IF d = items[n + 1] THEN n + 1 ELSE n, d + 1)
<1>1. Len(items) \in Nat /\ \A a \in 1..Len(items) : items[a] \in Int
  BY LenProperties, ElementOfSeq, PartitionAssumption DEF Points
<1>2. /\ \A a, b \in 1..n : a < b => items[a] < items[b]
      /\ \A a \in 1..n : items[a] < d
      /\ items[n + 1] >= d \/ (n > 0 /\ items[n + 1] <= items[n])
  BY DEF Scanned
<1>3. \A a \in 1..n : items[a] < d + 1
  <2> TAKE a \in 1..n
  <2>1. items[a] \in Int /\ items[a] < d
    BY <1>1, <1>2
  <2> QED
    BY <2>1
<1>4. n + 1 \in 1..Len(items)
  BY <1>1
<1>5. CASE d = items[n + 1]
  <2>1. \A a, b \in 1..(n + 1) : a < b => items[a] < items[b]
    <3> SUFFICES ASSUME NEW a \in 1..(n + 1), NEW b \in 1..(n + 1), a < b
                 PROVE  items[a] < items[b]
      OBVIOUS
    <3>1. a \in 1..n
      OBVIOUS
    <3>2. CASE b = n + 1
      BY <1>2, <1>5, <3>1, <3>2
    <3>3. CASE b # n + 1
      BY <1>2, <3>1, <3>3
    <3> QED
      BY <3>2, <3>3
  <2>2. \A a \in 1..(n + 1) : items[a] < d + 1
    <3> TAKE a \in 1..(n + 1)
    <3>1. CASE a = n + 1
      BY <1>5, <3>1
    <3>2. CASE a # n + 1
      BY <1>3, <3>2
    <3> QED
      BY <3>1, <3>2
  <2>3. n + 1 < Len(items) => items[n + 2] >= d + 1 \/ items[n + 2] <= items[n + 1]
    <3> SUFFICES ASSUME n + 1 < Len(items)
                 PROVE  items[n + 2] >= d + 1 \/ items[n + 2] <= d
      BY <1>5
    <3>1. n + 2 \in 1..Len(items)
      BY <1>1
    <3> QED
      BY <1>1, <3>1
  <2>4. (n + 1) + 1 = n + 2 /\ n + 1 > 0 /\ n + 1 \in 0..Len(items)
    BY <1>4
  <2> QED
    BY <1>5, <2>1, <2>2, <2>3, <2>4 DEF Scanned
<1>6. CASE d # items[n + 1]
  <2>1. items[n + 1] >= d + 1 \/ (n > 0 /\ items[n + 1] <= items[n])
    BY <1>1, <1>2, <1>4, <1>6
  <2>2. n \in 0..Len(items)
    BY <1>1
  <2> QED
    BY <1>2, <1>3, <1>6, <2>1, <2>2 DEF Scanned
<1> QED
  BY <1>5, <1>6

\* One more of the ids.
LEMMA OneMore ==
    ASSUME NEW items \in Seq(Points), NEW n \in Nat, n < Len(items)
    PROVE  SubSeq(items, 1, n + 1) = Append(SubSeq(items, 1, n), items[n + 1])
<1>1. Len(items) \in Nat /\ n + 1 \in 1..Len(items) /\ (n + 1) - 1 = n
  BY LenProperties
<1>2. \A a \in 1..n : items[a] \in Points
  BY <1>1, ElementOfSeq
<1>3. SubSeq(items, 1, n) \in Seq(Points)
  BY <1>2, SubSeqProperties
<1>4. items[n + 1] \in Points
  BY <1>1, ElementOfSeq
<1>5. 1 \in 1..Len(items) /\ n + 1 \in 1..Len(items)
  BY <1>1
<1>6. SubSeq(items, 1, n + 1) = SubSeq(items, 1, n) \o <<items[n + 1]>>
  BY <1>1, <1>5, SubSeqRecursiveSecond
<1> QED
  BY <1>3, <1>4, <1>6, AppendIsConcat

\* A point is compared.
LEMMA ScanKeeps == Inv /\ Scan => Inv'
<1> SUFFICES ASSUME Inv, Scan PROVE Inv'
  OBVIOUS
<1> DEFINE ids == disk[<<"ids", shard>>]
           d == next
           n == cur_pos
<1>1. /\ pc = "scan" /\ d \in Points /\ n < ids.count /\ next' = d + 1
      /\ UNCHANGED <<disk, pc, call, closest, cur_blk, open, shard, partitioned, retrieved>>
      /\ IF d = ids.items[n + 1]
         THEN cur_pos' = n + 1 /\ writers' = [writers EXCEPT ![shard] = Append(@, d)]
         ELSE cur_pos' = n /\ writers' = writers
  BY DEF Scan, chosen, ghosts, shard_ids
<1>2. /\ SizeAgrees(ids) /\ Scanned(ids.items, n, d) /\ open = <<<<"data", shard>>>>
      /\ writers = [i \in Shards |-> IF i = shard THEN SubSeq(ids.items, 1, n) ELSE << >>]
  BY <1>1 DEF Inv, ScanInv, Scanning, listed
<1>3. /\ ids \in FileType /\ shard \in Shards /\ n \in Nat
      /\ writers \in [Shards -> Seq(Points)] /\ ~ retrieved
  BY <1>1 DEF Inv, TypeInv, Files
<1>4. ids.items \in Seq(Points) /\ n < Len(ids.items) /\ d \in Nat
  BY <1>1, <1>2, <1>3, PartitionAssumption DEF SizeAgrees, FileType, Points
<1>5. n + 1 \in 1..Len(ids.items)
  BY <1>3, <1>4, LenProperties
<1>6. writers' \in [Shards -> Seq(Points)]
  <2>1. Append(writers[shard], d) \in Seq(Points)
    BY <1>1, <1>3, AppendProperties
  <2> QED
    BY <1>1, <1>3, <2>1
<1>7. TypeInv'
  <2>1. d + 1 \in 0..NumPoints
    BY <1>1, PartitionAssumption DEF Points
  <2> QED
    BY <1>1, <1>3, <1>6, <2>1 DEF Inv, TypeInv
<1>8. Scanned(ids.items, cur_pos', next')
  <2>1. cur_pos' = IF d = ids.items[n + 1] THEN n + 1 ELSE n
    BY <1>1
  <2> HIDE DEF ids, d, n
  <2> QED
    BY <1>1, <1>2, <1>3, <1>4, <2>1, ScannedNext
<1>9. writers' = [i \in Shards |-> IF i = shard THEN SubSeq(ids.items, 1, cur_pos') ELSE << >>]
  <2> HIDE DEF ids, d, n
  <2>1. CASE d = ids.items[n + 1]
    <3>1. SubSeq(ids.items, 1, n + 1) = Append(SubSeq(ids.items, 1, n), d)
      BY <1>3, <1>4, <2>1, OneMore
    <3>2. writers[shard] = SubSeq(ids.items, 1, n)
      BY <1>2, <1>3
    <3>3. cur_pos' = n + 1 /\ writers' = [writers EXCEPT ![shard] = SubSeq(ids.items, 1, n + 1)]
      BY <1>1, <1>3, <2>1, <3>1, <3>2
    <3> QED
      BY <1>2, <3>3
  <2>2. CASE d # ids.items[n + 1]
    BY <1>1, <1>2, <2>2
  <2> QED
    BY <2>1, <2>2
<1>10. Scanning'
  BY <1>1, <1>2, <1>8, <1>9 DEF Scanning, listed
<1>11. ShardInv'
  <2>1. ASSUME partitioned
        PROVE  Listed' /\ Computed' /\ Estimated'
    <3>1. Listed
      BY <2>1 DEF Inv, ShardInv
    <3>2. call.with_data /\ call.k_base <= call.num_parts => \A j \in Parts(call.num_parts) :
             (pc' = "scan" /\ j = shard') \/ disk'[<<"data", j>>] = disk[<<"ids", j>>]
      <4>1. pc' = "scan" /\ shard' = shard /\ disk' = disk
        BY <1>1
      <4> QED
        BY <3>1, <4>1 DEF Listed
    <3> QED
      BY <1>1, <2>1, <3>2, ListedKept DEF Inv
  <2> QED
    BY <1>1, <2>1 DEF Inv, ShardInv
<1>12. ScanInv'
  BY <1>1, <1>3, <1>10 DEF ScanInv
<1> QED
  BY <1>7, <1>11, <1>12 DEF Inv

\* Where the ids are rising all were met.
LEMMA AllMet ==
    ASSUME NEW items \in Seq(Points), NEW n \in Nat, Scanned(items, n, NumPoints),
           Increasing(items)
    PROVE  n = Len(items)
<1>1. Len(items) \in Nat /\ DOMAIN items = 1..Len(items) /\ n \in 0..Len(items)
  BY LenProperties DEF Scanned
<1>2. ASSUME n < Len(items)
      PROVE  FALSE
  <2> DEFINE x == items[n + 1]
             y == items[n]
  <2>1. n + 1 \in 1..Len(items)
    BY <1>1, <1>2
  <2>2. x \in Points
    BY <2>1, ElementOfSeq
  <2>3. x >= NumPoints \/ (n > 0 /\ x <= y)
    BY <1>2 DEF Scanned
  <2> HIDE DEF x, y
  <2>4. n > 0 /\ x <= y
    BY <2>2, <2>3, PartitionAssumption DEF Points
  <2>5. n \in 1..Len(items) /\ n < n + 1
    BY <1>1, <2>4
  <2>6. y \in Points
    BY <2>5, ElementOfSeq DEF y
  <2>7. y < x
    BY <1>1, <2>1, <2>5 DEF Increasing, x, y
  <2> QED
    BY <2>2, <2>4, <2>6, <2>7, PartitionAssumption DEF Points
<1> DEFINE len == Len(items)
<1> HIDE DEF len
<1>3. len \in Nat /\ n \in 0..len /\ ~ (n < len)
  BY <1>1, <1>2 DEF len
<1>4. n = len
  BY ONLY <1>3
<1> QED
  BY <1>4 DEF len

\* The last of the points was compared, or the last of the ids met.
LEMMA RetrievedKeeps == Inv /\ Retrieved => Inv'
<1> SUFFICES ASSUME Inv, Retrieved PROVE Inv'
  OBVIOUS
<1> DEFINE ids == disk[<<"ids", shard>>]
           n == cur_pos
           s == SubSeq(ids.items, 1, n)
           data == File(Len(writers[shard]), writers[shard])
<1>1. /\ pc = "scan" /\ pc' = "idle" /\ retrieved' = TRUE
      /\ open' = << >> /\ next' = 0 /\ cur_pos' = 0
      /\ UNCHANGED <<call, closest, cur_blk, shard, partitioned>>
      /\ disk' = [disk EXCEPT ![<<"data", shard>>] = data]
      /\ writers' = [writers EXCEPT ![shard] = << >>]
  BY DEF Retrieved, chosen
<1>2. /\ SizeAgrees(ids) /\ Scanned(ids.items, n, next)
      /\ writers = [i \in Shards |-> IF i = shard THEN SubSeq(ids.items, 1, n) ELSE << >>]
  BY <1>1 DEF Inv, ScanInv, Scanning, listed
<1>3. /\ ids \in FileType /\ shard \in Shards /\ n \in Nat /\ next \in 0..NumPoints
      /\ disk \in [Files -> FileType] /\ NumPoints \in Nat
  BY PartitionAssumption DEF Inv, TypeInv, Files
<1>4. ids.items \in Seq(Points) /\ ids.count = Len(ids.items) /\ Len(ids.items) \in Nat
  BY <1>2, <1>3, LenProperties DEF SizeAgrees, FileType
<1>5. writers[shard] = s /\ writers' = NoFiles
  BY <1>1, <1>2, <1>3 DEF NoFiles
<1>6. n \in 0..Len(ids.items) /\ \A a \in 1..n : ids.items[a] \in Points
  BY <1>2, <1>4, ElementOfSeq DEF Scanned
<1>7. s \in Seq(Points) /\ Len(s) = n
  BY <1>6, SubSeqProperties
<1>8. data = File(n, s) /\ data \in FileType
  BY <1>5, <1>7, FileIsFile
<1>9. n = Len(ids.items) \/ next = NumPoints
  <2>1. n = ids.count \/ ~ (next < num_blocks * block_size /\ next \in Points)
    BY DEF Retrieved, shard_ids
  <2>2. num_blocks * block_size \in Nat
    BY <1>3, Blocks
  <2> QED
    BY <1>3, <1>4, <2>1, <2>2, Blocks DEF Points
<1>10. Scanned(ids.items, n, NumPoints)
  <2> HIDE DEF ids, n
  <2>1. ASSUME NEW a \in 1..n
        PROVE  ids.items[a] < NumPoints
    BY <1>3, <1>6 DEF Points
  <2>2. CASE n = Len(ids.items)
    BY <1>2, <2>1, <2>2 DEF Scanned
  <2>3. CASE next = NumPoints
    BY <1>2, <2>3
  <2> QED
    BY <1>9, <2>2, <2>3
<1> HIDE DEF data, s
<1>11. /\ disk' \in [Files -> FileType]
       /\ \A j \in Shards : disk'[<<"ids", j>>] = disk[<<"ids", j>>]
       /\ disk'[<<"data", shard>>] = data
       /\ \A j \in Shards : j # shard => disk'[<<"data", j>>] = disk[<<"data", j>>]
  BY <1>1, <1>3, <1>8 DEF Files
<1>12. TypeInv'
  <2>1. open' \in Seq(Files)
    BY <1>1, EmptySeq
  <2>2. 0 \in 0..NumPoints
    BY <1>3
  <2> QED
    BY <1>1, <1>5, <1>11, <2>1, <2>2, NoFilesType DEF Inv, TypeInv
<1>13. ShardInv'
  <2>1. ASSUME partitioned
        PROVE  Listed' /\ Computed' /\ Estimated'
    <3>1. Listed /\ Computed
      BY <2>1 DEF Inv, ShardInv
    <3>2. ASSUME call.with_data, call.k_base <= call.num_parts,
                 NEW j \in Parts(call.num_parts)
          PROVE  disk'[<<"data", j>>] = disk[<<"ids", j>>]
      <4>1. j \in Shards
        BY <3>1, PartitionAssumption DEF Computed, Parts, Shards
      <4>2. CASE j # shard
        BY <1>1, <1>11, <3>1, <3>2, <4>1, <4>2 DEF Listed
      <4>3. CASE j = shard
        <5>1. Sorted(Ids[j], j, NumPoints)
          BY <3>1, <3>2 DEF Listed, Held
        <5>2. Increasing(ids.items)
          BY <4>1, <4>3, <5>1 DEF Ids, Sorted
        <5> n \in Nat
          BY <1>3
        <5> HIDE DEF ids, n
        <5>3. n = Len(ids.items)
          BY <1>4, <1>10, <5>2, AllMet
        <5>4. s = ids.items
          BY <1>4, <5>3, SubSeqFull DEF s
        <5>5. data = ids
          BY <1>3, <1>4, <1>8, <5>3, <5>4, FileParts
        <5> QED
          BY <1>11, <4>3, <5>5 DEF ids
      <4> QED
        BY <4>2, <4>3
    <3> QED
      BY <1>1, <1>11, <2>1, <3>2, ListedKept DEF Inv
  <2> QED
    BY <1>1, <2>1 DEF Inv, ShardInv
<1>14. Extracted'
  <2>1. disk'[<<"ids", shard'>>] = ids /\ disk'[<<"data", shard'>>] = File(n, s) /\ n \in Nat
    BY <1>1, <1>3, <1>8, <1>11
  <2> HIDE DEF ids, n
  <2> QED
    BY <1>10, <2>1 DEF Extracted, listed, Scanned, s
<1>15. ScanInv'
  BY <1>1, <1>5, <1>14 DEF ScanInv, NoFiles
<1> QED
  BY <1>12, <1>13, <1>15 DEF Inv

\* The process ends.
LEMMA CrashKeeps == Inv /\ Crash => Inv'
<1> SUFFICES ASSUME Inv, Crash PROVE Inv'
  OBVIOUS
<1>1. /\ call' = NoCall /\ pc' = "idle" /\ cur_blk' = 0 /\ next' = 0 /\ cur_pos' = 0
      /\ writers' = NoFiles /\ open' = << >> /\ partitioned' = FALSE /\ retrieved' = FALSE
      /\ shard' = 0
  BY DEF Crash, NoFiles
<1>2. disk \in [Files -> FileType] /\ writers \in [Shards -> Seq(Points)]
  BY DEF Inv, TypeInv
<1>3. PICK left \in {[i \in Shards |-> None], [i \in Shards |-> File(0, << >>)],
                      [i \in Shards |-> File(0, writers[i])]} :
         disk' = [f \in Files |-> IF f \in Range(open) THEN left[f[2]] ELSE disk[f]]
  BY DEF Crash
<1>4. \A i \in Shards : left[i] \in FileType
  <2>1. << >> \in Seq(Points)
    BY EmptySeq
  <2>2. \A i \in Shards : None \in FileType /\ File(0, << >>) \in FileType
                          /\ File(0, writers[i]) \in FileType
    BY <1>2, <2>1, FileIsFile, NoFilesType
  <2> QED
    BY <2>2
<1>5. disk' \in [Files -> FileType]
  BY <1>2, <1>3, <1>4 DEF Files
<1>6. TypeInv'
  <2>1. open' \in Seq(Files)
    BY <1>1, EmptySeq
  <2>2. 0 \in Shards /\ 0 \in 0..NumPoints
    BY PartitionAssumption DEF Shards
  <2> QED
    BY <1>1, <1>5, <2>1, <2>2, NoFilesType DEF TypeInv
<1>7. ShardInv'
  BY <1>1 DEF ShardInv
<1>8. ScanInv'
  BY <1>1 DEF ScanInv, NoFiles
<1> QED
  BY <1>6, <1>7, <1>8 DEF Inv

LEMMA InvStep == Inv /\ [Next]_vars => Inv'
<1> SUFFICES ASSUME Inv, [Next]_vars PROVE Inv'
  OBVIOUS
<1>1. CASE UNCHANGED vars
  <2>1. /\ UNCHANGED <<disk, pc, call, closest, cur_blk, writers, open>>
        /\ UNCHANGED <<shard, next, cur_pos, partitioned, retrieved>>
    BY <1>1 DEF vars, chosen, extraction, ghosts
  <2>2. TypeInv'
    BY <2>1 DEF Inv, TypeInv
  <2>3. Ids' = Ids
    BY <2>1 DEF Ids
  <2>4. /\ Computed' = Computed /\ Estimated' = Estimated /\ Closing' = Closing
        /\ \A d : Held(Ids, d)' = Held(Ids, d) /\ Held(writers, d)' = Held(writers, d)
        /\ Done(cur_blk)' = Done(cur_blk)
    BY <2>1, <2>3 DEF Computed, Estimated, Closing, Held, Sorted, Own, Done, block_size
  <2>5. Listed' = Listed
    BY <2>1, <2>4 DEF Listed, SizeAgrees
  <2>6. ShardInv'
    BY <2>1, <2>4, <2>5 DEF Inv, ShardInv, num_blocks, block_size
  <2>7. ScanInv'
    BY <2>1 DEF Inv, ScanInv, Scanning, Extracted, listed, Scanned, SizeAgrees, NoFiles
  <2> QED
    BY <2>2, <2>6, <2>7 DEF Inv
<1>2. CASE PartitionData
  BY <1>2, PartitionDataKeeps
<1>3. CASE PartitionWithRamBudget
  BY <1>3, PartitionWithRamBudgetKeeps
<1>4. CASE Fits
  BY <1>4, FitsKeeps
<1>5. CASE TooLarge
  BY <1>5, TooLargeKeeps
<1>6. CASE Block
  BY <1>6, BlockKeeps
<1>7. CASE BlocksDone
  BY <1>7, BlocksDoneKeeps
<1>8. CASE Close
  BY <1>8, CloseKeeps
<1>9. CASE Return
  BY <1>9, ReturnKeeps
<1>10. CASE RetrieveThrows
  BY <1>10, RetrieveThrowsKeeps
<1>11. CASE Retrieve
  BY <1>11, RetrieveKeeps
<1>12. CASE Scan
  BY <1>12, ScanKeeps
<1>13. CASE Retrieved
  BY <1>13, RetrievedKeeps
<1>14. CASE Crash
  BY <1>14, CrashKeeps
<1> QED
  BY <1>1, <1>2, <1>3, <1>4, <1>5, <1>6, <1>7, <1>8, <1>9, <1>10, <1>11, <1>12, <1>13, <1>14
     DEF Next

LEMMA InvAlways == Spec => []Inv
BY InvInit, InvStep, PTL DEF Spec

----------------------------------------------------------------------------
(* The theorems.                                                           *)

\* What the files of a partitioning that returned say.
LEMMA ListedCover == Inv => ShardsCoverData
<1> SUFFICES ASSUME Inv, pc = "idle", partitioned
             PROVE  LET ids == [i \in Parts(call.num_parts) |-> disk[<<"ids", i>>]]
                        counts == [i \in Parts(call.num_parts) |-> ids[i].count]
                    IN  /\ \A i \in DOMAIN ids : SizeAgrees(ids[i])
                        /\ total_count(counts, call.num_parts) = call.k_base * NumPoints
                        /\ call.k_base <= call.num_parts => \A i \in DOMAIN ids :
                            /\ Increasing(ids[i].items)
                            /\ Range(ids[i].items) = {p \in Points : i \in closest[p]}
                            /\ call.with_data => disk[<<"data", i>>] = ids[i]
  BY DEF ShardsCoverData
<1> DEFINE S == Parts(call.num_parts)
           ids == [i \in S |-> disk[<<"ids", i>>]]
           counts == [i \in S |-> ids[i].count]
<1>1. Listed /\ Computed
  BY DEF Inv, ShardInv
<1>2. S \subseteq Shards
  BY <1>1, PartitionAssumption DEF Computed, Parts, Shards
<1>3. \A i \in S : SizeAgrees(ids[i]) /\ Ids[i] = ids[i].items
  <2> TAKE i \in S
  <2>1. ids[i] = disk[<<"ids", i>>] /\ Ids[i] = disk[<<"ids", i>>].items
    BY <1>2 DEF Ids
  <2> QED
    BY <1>1, <2>1 DEF Listed
<1>4. counts = [i \in S |-> Len(Ids[i])]
  BY <1>3 DEF SizeAgrees
<1>5. total_count(counts, call.num_parts) = call.k_base * NumPoints
  BY <1>1, <1>4 DEF Listed, Held
<1>6. ASSUME call.k_base <= call.num_parts, NEW i \in S
      PROVE  /\ Increasing(ids[i].items)
             /\ Range(ids[i].items) = {p \in Points : i \in closest[p]}
             /\ call.with_data => disk[<<"data", i>>] = ids[i]
  <2>1. Sorted(ids[i].items, i, NumPoints)
    BY <1>1, <1>3, <1>6 DEF Listed, Held
  <2>2. Own(i, NumPoints) = {p \in Points : i \in closest[p]}
    BY PartitionAssumption DEF Own, Points
  <2>3. call.with_data => disk[<<"data", i>>] = ids[i]
    BY <1>1, <1>6 DEF Listed
  <2> QED
    BY <2>1, <2>2, <2>3 DEF Sorted
<1> QED
  BY <1>3, <1>5, <1>6

\* After a partitioning that returned, whatever operations were cut short before it,
\* every point is in the shards of its centers and in no other, in the order of the file,
\* and the shards hold k_base times as many points as there are (partition,
\* partition_with_ram_budget and retrieve_shard_data_from_ids at one path).
THEOREM ShardsHold == Spec => []ShardsCoverData
BY InvAlways, ListedCover, PTL

\* No longer beginning of the ids is rising.
LEMMA RisingThatFar ==
    ASSUME NEW items \in Seq(Points), NEW n, Scanned(items, n, NumPoints)
    PROVE  Max({m \in 0..Len(items) : Increasing(SubSeq(items, 1, m))}) = n
<1> DEFINE Rising == {m \in 0..Len(items) : Increasing(SubSeq(items, 1, m))}
<1>1. Len(items) \in Nat /\ n \in 0..Len(items)
  BY LenProperties DEF Scanned
<1>2. ASSUME NEW m \in 0..Len(items)
      PROVE  /\ DOMAIN SubSeq(items, 1, m) = 1..m
             /\ \A a \in 1..m : SubSeq(items, 1, m)[a] = items[a]
  <2>1. \A a \in 1..m : items[a] \in Points
    BY <1>1, ElementOfSeq
  <2>2. /\ SubSeq(items, 1, m) \in Seq(Points) /\ Len(SubSeq(items, 1, m)) = m
        /\ \A a \in 1..m : SubSeq(items, 1, m)[a] = items[a]
    BY <1>1, <2>1, SubSeqProperties
  <2> QED
    BY <2>2, LenProperties
<1>3. n \in Rising
  BY <1>1, <1>2 DEF Scanned, Increasing
<1>4. ASSUME NEW m \in Rising, m > n
      PROVE  FALSE
  <2>1. n + 1 \in 1..m /\ m \in 0..Len(items) /\ n + 1 \in 1..Len(items)
    BY <1>1, <1>4
  <2>2. items[n + 1] \in Points
    BY <2>1, ElementOfSeq
  <2> DEFINE x == items[n + 1]
             y == items[n]
  <2>3. n > 0 /\ x <= y
    <3>1. x \in Int /\ x < NumPoints /\ NumPoints \in Int /\ n < Len(items)
      <4> HIDE DEF x
      <4>1. x \in Points
        BY <2>2 DEF x
      <4> QED
        BY <1>1, <2>1, <4>1, PartitionAssumption DEF Points
    <3>2. x >= NumPoints \/ (n > 0 /\ x <= y)
      BY <3>1 DEF Scanned
    <3> QED
      BY ONLY <3>1, <3>2
  <2>4. n \in 1..m /\ n < n + 1 /\ n \in 1..Len(items)
    BY <1>1, <1>4, <2>3
  <2>5. y < x
    BY <1>2, <2>1, <2>4 DEF Increasing
  <2>6. y \in Points
    BY <2>4, ElementOfSeq
  <2> HIDE DEF x, y
  <2>7. x \in Int /\ y \in Int
    BY <2>2, <2>6, PartitionAssumption DEF Points, x
  <2> QED
    BY <2>3, <2>5, <2>7
<1>5. Rising \subseteq 0..Len(items)
  OBVIOUS
<1> HIDE DEF Rising
<1>6. \A m \in Rising : n >= m
  BY <1>1, <1>4, <1>5
<1>7. \A x \in Rising : (\A y \in Rising : x >= y) => x = n
  BY <1>1, <1>3, <1>5, <1>6
<1> QED
  BY <1>3, <1>6, <1>7 DEF Max, Rising

LEMMA ExtractedAll == Inv => RetrievesWhatIsListed
<1> SUFFICES ASSUME Inv, retrieved
             PROVE  LET items == disk[<<"ids", shard>>].items
                        lengths == {n \in 0..Len(items) : Increasing(SubSeq(items, 1, n))}
                        want == SubSeq(items, 1, Max(lengths))
                    IN  disk[<<"data", shard>>] = File(Len(want), want)
  BY DEF RetrievesWhatIsListed
<1>1. PICK n \in Nat : /\ Scanned(listed, n, NumPoints)
                       /\ disk[<<"data", shard>>] = File(n, SubSeq(listed, 1, n))
  BY DEF Inv, ScanInv, Extracted
<1>2. listed \in Seq(Points)
  <2>1. disk[<<"ids", shard>>] \in FileType
    BY DEF Inv, TypeInv, Files
  <2> QED
    BY <2>1 DEF FileType, listed
<1>3. Max({m \in 0..Len(listed) : Increasing(SubSeq(listed, 1, m))}) = n
  BY <1>1, <1>2, RisingThatFar
<1>4. Len(SubSeq(listed, 1, n)) = n
  <2>1. n \in 0..Len(listed) /\ Len(listed) \in Nat
    BY <1>1, <1>2, LenProperties DEF Scanned
  <2>2. \A a \in 1..n : listed[a] \in Points
    BY <1>2, <2>1, ElementOfSeq
  <2> QED
    BY <2>1, <2>2, SubSeqProperties
<1> QED
  BY <1>1, <1>3, <1>4 DEF listed

\* An extraction that ends well wrote the points of its ids, up to the first that is not
\* larger than the one before and no further, from whatever files there were
\* (retrieve_shard_data_from_ids).
THEOREM RetrievesListed == Spec => []RetrievesWhatIsListed
BY InvAlways, ExtractedAll, PTL

LEMMA EstimateHolds == Inv => FullSampleFits
<1> SUFFICES ASSUME Inv, pc = "idle", partitioned, ~ call.with_data, call.rate = 1,
                    NEW i \in Parts(call.num_parts)
             PROVE  disk[<<"ids", i>>].count <= call.budget
  BY DEF FullSampleFits
<1>1. Listed /\ Computed /\ Estimated /\ call.k_base <= call.num_parts
  BY DEF Inv, ShardInv
<1>2. i \in Shards /\ Ids[i] = disk[<<"ids", i>>].items
  BY <1>1, PartitionAssumption DEF Computed, Parts, Shards, Ids
<1>3. Sorted(Ids[i], i, NumPoints) /\ SizeAgrees(disk[<<"ids", i>>])
  BY <1>1 DEF Listed, Held
<1>4. Own(i, NumPoints) = {p \in Points : i \in closest[p]}
  BY PartitionAssumption DEF Own, Points
<1>5. disk[<<"ids", i>>].count = Cardinality({p \in Points : i \in closest[p]})
  BY <1>2, <1>3, <1>4 DEF Sorted, SizeAgrees
<1> QED
  BY <1>1, <1>5 DEF Estimated

\* With a sample of all points no shard exceeds what fits the budget
\* (partition_with_ram_budget, estimate_cluster_sizes).
THEOREM SampleFits == Spec => []FullSampleFits
BY InvAlways, EstimateHolds, PTL

----------------------------------------------------------------------------
(* The reader.                                                             *)

ReaderInv == TypeOK /\ CacheIsAhead

\* Where the reader is, as its caller sees it.
Position == tellg - (cache_size - cur_off)

----------------------------------------------------------------------------
(* The invariant.                                                          *)

\* The constructor fills the buffer with the first bytes of the file.
LEMMA OpenInv == Open => ReaderInv
<1> SUFFICES ASSUME Open PROVE ReaderInv
  OBVIOUS
<1>1. fsize \in Nat /\ cache_size \in 0..fsize
  BY SizeAssumption DEF Open
<1>2. Bytes(0, cache_size) \in [0..(cache_size - 1) -> 0..(fsize - 1)]
  BY <1>1 DEF Bytes
<1>3. TypeOK
  <2>1. cache_buf \in [0..(cache_size - 1) -> 0..(fsize - 1)]
    BY <1>2 DEF Open
  <2>2. cur_off \in 0..cache_size /\ tellg \in cache_size..fsize
    BY <1>1 DEF Open
  <2>3. thrown \in BOOLEAN
    BY DEF Open
  <2> QED
    BY <1>1, <2>1, <2>2, <2>3 DEF TypeOK
<1>4. CacheIsAhead
  BY <1>1 DEF Open, CacheIsAhead, Bytes
<1> QED
  BY <1>3, <1>4 DEF ReaderInv

\* A read served by the buffer alone moves on within it.
LEMMA ReadCachedInv ==
    ASSUME ReaderInv, NEW n \in Requests, ReadCached(n)
    PROVE  ReaderInv'
<1>1. n \in Nat
  BY SizeAssumption
<1>2. TypeOK'
  <2>1. cur_off' \in 0..cache_size
    BY <1>1 DEF ReaderInv, ReadCached, TypeOK
  <2> QED
    BY <2>1 DEF ReaderInv, ReadCached, TypeOK
<1>3. CacheIsAhead'
  BY <1>1 DEF ReaderInv, ReadCached, TypeOK, CacheIsAhead
<1> QED
  BY <1>2, <1>3 DEF ReaderInv

\* A read that goes to the file leaves a full buffer or one that is used up.
LEMMA ReadDirectlyInv ==
    ASSUME ReaderInv, NEW n \in Requests, ReadDirectly(n)
    PROVE  ReaderInv'
<1> DEFINE at == tellg + (n - (cache_size - cur_off))
<1>1. n \in Nat
  BY SizeAssumption
<1>2. at \in tellg..fsize
  BY <1>1 DEF ReaderInv, TypeOK, ReadDirectly
<1>3. CASE fsize - at >= cache_size
  <2>1. /\ cache_buf' = Bytes(at, cache_size) /\ cur_off' = 0
        /\ tellg' = at + cache_size /\ thrown' \in BOOLEAN
        /\ fsize' = fsize /\ cache_size' = cache_size
    BY <1>3 DEF ReadDirectly
  <2> HIDE DEF at
  <2>2. TypeOK'
    <3>1. Bytes(at, cache_size) \in [0..(cache_size - 1) -> 0..(fsize - 1)]
      BY <1>2, <1>3 DEF ReaderInv, TypeOK, Bytes
    <3>2. at + cache_size \in cache_size..fsize
      BY <1>2, <1>3 DEF ReaderInv, TypeOK
    <3> QED
      BY <2>1, <3>1, <3>2 DEF ReaderInv, TypeOK
  <2>3. CacheIsAhead'
    BY <1>2, <2>1 DEF ReaderInv, TypeOK, CacheIsAhead, Bytes
  <2> QED
    BY <2>2, <2>3 DEF ReaderInv
<1>4. CASE ~ (fsize - at >= cache_size)
  <2>1. /\ cache_buf' = cache_buf /\ cur_off' = cache_size /\ tellg' = at /\ thrown' \in BOOLEAN
        /\ fsize' = fsize /\ cache_size' = cache_size
    BY <1>4 DEF ReadDirectly
  <2> HIDE DEF at
  <2>2. TypeOK'
    <3>1. at \in cache_size..fsize
      BY <1>2 DEF ReaderInv, TypeOK
    <3> QED
      BY <2>1, <3>1 DEF ReaderInv, TypeOK
  <2>3. CacheIsAhead'
    BY <1>2, <2>1 DEF ReaderInv, TypeOK, CacheIsAhead
  <2> QED
    BY <2>2, <2>3 DEF ReaderInv
<1> QED
  BY <1>3, <1>4

\* Every step keeps the invariant.
LEMMA ReaderInvStep == ReaderInv /\ [ReaderNext]_reader => ReaderInv'
<1> SUFFICES ASSUME ReaderInv, [ReaderNext]_reader PROVE ReaderInv'
  OBVIOUS
<1>1. ASSUME NEW n \in Requests, ReadCached(n) PROVE ReaderInv'
  BY <1>1, ReadCachedInv
<1>2. ASSUME NEW n \in Requests, ReadDirectly(n) PROVE ReaderInv'
  BY <1>2, ReadDirectlyInv
<1>3. ASSUME NEW n \in Requests, Throw(n) PROVE ReaderInv'
  BY <1>3 DEF ReaderInv, Throw, TypeOK, CacheIsAhead
<1>4. CASE UNCHANGED reader
  BY <1>4 DEF ReaderInv, reader, TypeOK, CacheIsAhead
<1> QED
  BY <1>1, <1>2, <1>3, <1>4 DEF ReaderNext

\* Offsets stay within the buffer and the file, and the buffer never holds a place
\* beyond the end of the file, whatever is asked for.
THEOREM ReaderTypeCorrect == ReaderSpec => []TypeOK
<1>1. ReaderSpec => []ReaderInv
  BY OpenInv, ReaderInvStep, PTL DEF ReaderSpec
<1>2. ReaderInv => TypeOK
  BY DEF ReaderInv
<1> QED
  BY <1>1, <1>2, PTL

\* What has not been read of the buffer always ends where the underlying stream is.
THEOREM AlwaysAhead == ReaderSpec => []CacheIsAhead
<1>1. ReaderSpec => []ReaderInv
  BY OpenInv, ReaderInvStep, PTL DEF ReaderSpec
<1>2. ReaderInv => CacheIsAhead
  BY DEF ReaderInv
<1> QED
  BY <1>1, <1>2, PTL

----------------------------------------------------------------------------
(* The refinement.                                                         *)

LEMMA OpenRefines == Open => Source!Init
  BY SizeAssumption DEF Open, Source!Init

LEMMA ReadCachedRefines ==
    ASSUME ReaderInv, NEW n \in Requests, ReadCached(n)
    PROVE  Source!Read
<1>1. n \in Nat
  BY SizeAssumption
<1>2. \A j \in 0..(n - 1) : cache_buf[cur_off + j] = Position + j
  <2> TAKE j \in 0..(n - 1)
  <2>1. cur_off + j \in cur_off..(cache_size - 1)
    BY <1>1 DEF ReaderInv, TypeOK, ReadCached
  <2>2. cache_buf[cur_off + j] \in Nat
    BY <2>1 DEF ReaderInv, TypeOK
  <2>3. cache_buf[cur_off + j] + (cache_size - (cur_off + j)) = tellg
    BY <2>1 DEF ReaderInv, CacheIsAhead
  <2> QED
    BY <2>2, <2>3 DEF ReaderInv, TypeOK, Position
<1>3. read_buf' = [j \in 0..(n - 1) |-> Position + j]
  BY <1>2 DEF ReadCached
<1>4. Position + n <= fsize
  BY <1>1 DEF ReaderInv, TypeOK, ReadCached, Position
<1>5. tellg' - (cache_size' - cur_off') = Position + n
  BY <1>1 DEF ReaderInv, TypeOK, ReadCached, Position
<1>6. asked' = n /\ thrown' = FALSE /\ fsize' = fsize
  BY DEF ReadCached
<1> QED
  BY <1>3, <1>4, <1>5, <1>6 DEF Source!Read, Position

LEMMA ReadDirectlyRefines ==
    ASSUME ReaderInv, NEW n \in Requests, ReadDirectly(n)
    PROVE  Source!Read
<1> DEFINE cached_bytes == cache_size - cur_off
           at == tellg + (n - cached_bytes)
           byte(j) == IF j < cached_bytes THEN cache_buf[cur_off + j]
                                          ELSE tellg + (j - cached_bytes)
<1>1. n \in Nat
  BY SizeAssumption
<1>2. \A j \in 0..(n - 1) : byte(j) = Position + j
  <2> TAKE j \in 0..(n - 1)
  <2>1. CASE j < cached_bytes
    <3>1. cur_off + j \in cur_off..(cache_size - 1)
      BY <2>1 DEF ReaderInv, TypeOK
    <3>2. cache_buf[cur_off + j] \in Nat
      BY <3>1 DEF ReaderInv, TypeOK
    <3>3. cache_buf[cur_off + j] + (cache_size - (cur_off + j)) = tellg
      BY <3>1 DEF ReaderInv, CacheIsAhead
    <3> QED
      BY <2>1, <3>2, <3>3 DEF ReaderInv, TypeOK, Position
  <2>2. CASE ~ (j < cached_bytes)
    BY <1>1, <2>2 DEF ReaderInv, TypeOK, Position
  <2> QED
    BY <2>1, <2>2
<1>3. read_buf' = [j \in 0..(n - 1) |-> byte(j)]
  BY DEF ReadDirectly
<1>4. read_buf' = [j \in 0..(n - 1) |-> Position + j]
  <2> HIDE DEF byte
  <2> QED BY <1>2, <1>3
<1>5. at = Position + n /\ at <= fsize
  BY <1>1 DEF ReaderInv, TypeOK, ReadDirectly, Position
<1>6. tellg' - (cache_size' - cur_off') = at
  BY <1>1 DEF ReaderInv, TypeOK, ReadDirectly
<1>7. asked' = n /\ thrown' = FALSE /\ fsize' = fsize
  BY DEF ReadDirectly
<1> HIDE DEF at, byte
<1> QED
  BY <1>4, <1>5, <1>6, <1>7 DEF Source!Read, Position

LEMMA ThrowRefines ==
    ASSUME ReaderInv, NEW n \in Requests, Throw(n)
    PROVE  Source!Fail
<1>1. n \in Nat
  BY SizeAssumption
<1>2. Position + n > fsize
  BY <1>1 DEF ReaderInv, TypeOK, Throw, Position
<1>3. /\ asked' = n /\ thrown' = TRUE
      /\ UNCHANGED <<fsize, cache_size, cache_buf, cur_off, tellg, read_buf>>
  BY DEF Throw
<1> QED
  BY <1>2, <1>3 DEF Source!Fail, Position

\* Whatever is read in whatever portions, through a buffer of whatever size, the
\* caller gets the bytes of the file in order, each once, and an exception when and
\* only when they do not suffice.
THEOREM ReaderImplementsSource == ReaderSpec => ImplementsSource
<1>1. ReaderInv /\ [ReaderNext]_reader => [Source!Next]_(Source!vars)
  <2> SUFFICES ASSUME ReaderInv, [ReaderNext]_reader
               PROVE  Source!Next \/ UNCHANGED Source!vars
    OBVIOUS
  <2>1. ASSUME NEW n \in Requests, ReadCached(n) PROVE Source!Next
    BY <2>1, ReadCachedRefines DEF Source!Next
  <2>2. ASSUME NEW n \in Requests, ReadDirectly(n) PROVE Source!Next
    BY <2>2, ReadDirectlyRefines DEF Source!Next
  <2>3. ASSUME NEW n \in Requests, Throw(n) PROVE Source!Next
    BY <2>3, ThrowRefines DEF Source!Next
  <2>4. CASE UNCHANGED reader
    BY <2>4 DEF reader, Source!vars
  <2> QED
    BY <2>1, <2>2, <2>3, <2>4 DEF ReaderNext
<1> QED
  BY OpenInv, ReaderInvStep, OpenRefines, <1>1, PTL DEF ReaderSpec, ImplementsSource, Source!Spec
=============================================================================
