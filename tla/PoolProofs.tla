----------------------------- MODULE PoolProofs -----------------------------
(***************************************************************************)
(* Proofs about the array of candidates, for every pool size and distance: *)
(* where a candidate is inserted and what the array holds then.  The       *)
(* proofs about each kind of search rest on them.                          *)
(***************************************************************************)
EXTENDS CandidatePool, Induction, TLAPS, FiniteSetTheorems

Slot(P) == [id : P, distance : 0..Far, flag : BOOLEAN]

InOrder(a, K) ==
    \A i, j \in 0..(K - 1) : i < j => a[i].distance <= a[j].distance /\ a[i].id # a[j].id

\* d belongs between the slots b.
Around(a, K, d, b) ==
    /\ b[1] \in 0..(K - 1) /\ b[2] \in 0..(K - 1) /\ b = <<b[1], b[2]>>
    /\ b[1] <= b[2]
    /\ a[b[1]].distance <= d /\ d <= a[b[2]].distance

LEMMA HalveFacts ==
    ASSUME NEW a, NEW K \in Nat \ {0}, NEW d \in Nat, NEW b,
           \A i \in 0..(K - 1) : a[i].distance \in Nat,
           Around(a, K, d, b)
    PROVE  LET c == Halve(a, d, b)
           IN  /\ Around(a, K, d, c)
               /\ c[2] <= c[1] + 1 \/ c[2] - c[1] < b[2] - b[1]
               /\ b[2] <= b[1] + 1 => c = b
<1> DEFINE mid == (b[1] + b[2]) \div 2
           c == Halve(a, d, b)
<1>1. CASE ~ (b[2] > 1 /\ b[1] < b[2] - 1)
  <2>1. c = b
    BY <1>1 DEF Halve
  <2>2. b[2] <= b[1] + 1
    BY <1>1 DEF Around
  <2> QED
    BY <2>1, <2>2
<1>2. CASE b[2] > 1 /\ b[1] < b[2] - 1
  <2>1. mid \in 0..(K - 1) /\ b[1] < mid /\ mid < b[2]
    BY <1>2 DEF Around
  <2>2. c = IF a[mid].distance > d THEN <<b[1], mid>> ELSE <<mid, b[2]>>
    BY <1>2 DEF Halve
  <2>3. ~ (b[2] <= b[1] + 1)
    BY <1>2 DEF Around
  <2> HIDE DEF mid, c
  <2>4. CASE a[mid].distance > d
    <3>1. c[1] = b[1] /\ c[2] = mid /\ c = <<c[1], c[2]>>
      BY <2>2, <2>4
    <3> QED
      BY <2>1, <2>3, <2>4, <3>1 DEF Around, c
  <2>5. CASE ~ (a[mid].distance > d)
    <3>1. c[1] = mid /\ c[2] = b[2] /\ c = <<c[1], c[2]>>
      BY <2>2, <2>5
    <3> QED
      BY <2>1, <2>3, <2>5, <3>1 DEF Around, c
  <2> QED
    BY <2>4, <2>5
<1> QED
  BY <1>1, <1>2

\* The bisection ends at two neighbouring slots, or one, around d.
LEMMA BisectFacts ==
    ASSUME NEW a, NEW K \in Nat \ {0}, NEW d \in Nat,
           \A i \in 0..(K - 1) : a[i].distance \in Nat,
           a[0].distance <= d, d <= a[K - 1].distance
    PROVE  LET b == Bisect(a, K, d)
           IN  Around(a, K, d, b) /\ b[2] <= b[1] + 1
<1> DEFINE x == <<0, K - 1>>
           B(g) == [n \in 0..K |-> IF n = 0 THEN x ELSE Halve(a, d, g[n - 1])]
           V == (0..K) \X (0..K)
           step == [n \in 1..K |-> [b \in V |-> Halve(a, d, b)]]
           c == CHOOSE g : g = B(g)
<1>1. Bisect(a, K, d) = c[K]
  BY DEF Bisect
<1>2. \E g : g = B(g)
  <2>1. \A b \in V : Halve(a, d, b) \in V
    BY DEF Halve
  <2>2. step \in [1..K -> [V -> V]]
    <3> HIDE DEF V
    <3> QED
      BY <2>1
  <2>3. x \in V
    <3>1. 0 \in 0..K /\ K - 1 \in 0..K
      OBVIOUS
    <3> QED
      BY <3>1
  <2>4. \A n \in 1..K : \A b \in V : step[n][b] = Halve(a, d, b)
    OBVIOUS
  <2> HIDE DEF step, V, x
  <2>5. HasValue(K, V, x, step)
    BY <2>2, <2>3, Recursion
  <2>6. PICK f : f \in [0..K -> V] /\ f[0] = x /\ \A n \in 1..K : f[n] = step[n][f[n - 1]]
    BY <2>5 DEF HasValue
  <2>7. \A n \in 0..K : n # 0 => n \in 1..K /\ n - 1 \in 0..K
    OBVIOUS
  <2>8. \A n \in 0..K : f[n] = IF n = 0 THEN x ELSE Halve(a, d, f[n - 1])
    BY <2>4, <2>6, <2>7
  <2>9. f = B(f)
    BY <2>6, <2>8
  <2> QED
    BY <2>9
<1> HIDE DEF B
<1>3. c = B(c)
  BY <1>2
<1> HIDE DEF c
<1>4. c[0] = x /\ \A n \in 1..K : c[n] = Halve(a, d, c[n - 1])
  <2>1. B(c)[0] = x /\ \A n \in 1..K : B(c)[n] = Halve(a, d, c[n - 1])
    BY DEF B
  <2> QED
    BY <1>3, <2>1
<1> DEFINE S == {n \in 0..K : /\ Around(a, K, d, c[n])
                              /\ c[n][2] <= c[n][1] + 1 \/ c[n][2] - c[n][1] <= K - 1 - n}
<1>5. 0 \in S
  <2>1. /\ x[1] = 0 /\ x[2] = K - 1 /\ x = <<x[1], x[2]>> /\ 0 \in 0..K
        /\ 0 \in 0..(K - 1) /\ K - 1 \in 0..(K - 1) /\ 0 <= K - 1 /\ K - 1 - 0 <= K - 1 - 0
    OBVIOUS
  <2> HIDE DEF x
  <2>2. Around(a, K, d, x)
    BY <2>1 DEF Around
  <2> QED
    BY <1>4, <2>1, <2>2
<1>6. ASSUME NEW n \in 0..(K - 1), n \in S
      PROVE  n + 1 \in S
  <2>1. /\ Around(a, K, d, c[n])
        /\ c[n][2] <= c[n][1] + 1 \/ c[n][2] - c[n][1] <= K - 1 - n
    BY <1>6
  <2>2. n + 1 \in 1..K /\ (n + 1) - 1 = n /\ n + 1 \in 0..K
    OBVIOUS
  <2>3. c[n + 1] = Halve(a, d, c[n])
    BY <1>4, <2>2
  <2>4. /\ Around(a, K, d, c[n + 1])
        /\ c[n + 1][2] <= c[n + 1][1] + 1 \/ c[n + 1][2] - c[n + 1][1] < c[n][2] - c[n][1]
        /\ c[n][2] <= c[n][1] + 1 => c[n + 1] = c[n]
    BY <2>1, <2>3, HalveFacts
  <2>5. c[n + 1][2] <= c[n + 1][1] + 1 \/ c[n + 1][2] - c[n + 1][1] <= K - 1 - (n + 1)
    BY <2>1, <2>4 DEF Around
  <2> QED
    BY <2>2, <2>4, <2>5
<1>7. K \in S
  <2> HIDE DEF S
  <2>1. \A n \in 0..K : n \in S
    BY <1>5, <1>6, InductionTo
  <2> QED
    BY <2>1
<1>8. Around(a, K, d, c[K]) /\ (c[K][2] <= c[K][1] + 1 \/ c[K][2] - c[K][1] <= K - 1 - K)
  BY <1>7
<1>9. c[K][2] <= c[K][1] + 1
  BY <1>8 DEF Around
<1> QED
  BY <1>1, <1>8, <1>9

\* Where a candidate is inserted that is not in the array: behind all closer ones, in
\* front of all farther ones.
LEMMA InsertFacts ==
    ASSUME NEW P, NEW L \in Nat \ {0}, NEW a \in [0..L -> Slot(P)], NEW K \in 0..L,
           InOrder(a, K), K = 0 => a[0].distance = Far,
           NEW nn \in Slot(P), nn.distance < Far,
           \A i \in 0..(K - 1) : a[i].id # nn.id
    PROVE  LET ins == InsertIntoPool(a, K, nn)
           IN  /\ ins.pos \in 0..K
               /\ ins.addr = ShiftIn(a, ins.pos, K, nn)
               /\ \A i \in 0..(K - 1) : i < ins.pos => a[i].distance <= nn.distance
               /\ \A i \in 0..(K - 1) : ins.pos <= i => nn.distance <= a[i].distance
<1> DEFINE ins == InsertIntoPool(a, K, nn)
           Good(c) == /\ c.pos \in 0..K
                      /\ c.addr = ShiftIn(a, c.pos, K, nn)
                      /\ \A i \in 0..(K - 1) : i < c.pos => a[i].distance <= nn.distance
                      /\ \A i \in 0..(K - 1) : c.pos <= i => nn.distance <= a[i].distance
<1> SUFFICES Good(ins)
  OBVIOUS
<1>0. /\ \A i \in 0..L : a[i].distance \in 0..Far
      /\ nn.distance \in Nat /\ Far \in Nat /\ K \in Nat
      /\ DOMAIN a = 0..L
  BY FarAssumption DEF Slot
<1>1. CASE a[0].distance > nn.distance
  <2>1. ins = [addr |-> ShiftIn(a, 0, K, nn), pos |-> 0]
    BY <1>1 DEF InsertIntoPool
  <2>2. \A i \in 0..(K - 1) : a[0].distance <= a[i].distance
    BY <1>0 DEF InOrder
  <2>3. \A i \in 0..(K - 1) : nn.distance <= a[i].distance /\ ~ (i < 0)
    BY <1>0, <1>1, <2>2
  <2> HIDE DEF ins
  <2> QED
    BY <1>0, <2>1, <2>3
<1>2. CASE ~ (a[0].distance > nn.distance) /\ a[K - 1].distance < nn.distance
  <2>1. ins = [addr |-> [a EXCEPT ![K] = nn], pos |-> K]
    BY <1>2 DEF InsertIntoPool
  <2>2. [a EXCEPT ![K] = nn] = ShiftIn(a, K, K, nn)
    <3>1. \A i \in 0..L : ~ (K < i /\ i <= K)
      BY <1>0
    <3> QED
      BY <1>0, <3>1 DEF ShiftIn
  <2>3. K # 0
    BY <1>0, <1>2
  <2>4. \A i \in 0..(K - 1) : a[i].distance <= a[K - 1].distance
    BY <1>0, <2>3 DEF InOrder
  <2>5. \A i \in 0..(K - 1) : a[i].distance <= nn.distance /\ ~ (K <= i)
    BY <1>0, <1>2, <2>3, <2>4
  <2> HIDE DEF ins
  <2> QED
    BY <1>0, <2>1, <2>2, <2>5
<1>3. CASE ~ (a[0].distance > nn.distance) /\ ~ (a[K - 1].distance < nn.distance)
  <2> DEFINE b == Bisect(a, K, nn.distance)
  <2>1. K # 0
    BY <1>0, <1>3
  <2>2. \A i \in 0..(K - 1) : a[i].distance \in Nat
    BY <1>0
  <2>3. K \in Nat \ {0} /\ a[0].distance <= nn.distance /\ nn.distance <= a[K - 1].distance
    BY <1>0, <1>3, <2>1, <2>2
  <2>4. Around(a, K, nn.distance, b) /\ b[2] <= b[1] + 1
    BY <1>0, <2>2, <2>3, BisectFacts
  <2> HIDE DEF b
  <2>5. b[1] \in 0..(K - 1) /\ b[2] \in 0..(K - 1)
    BY <2>4 DEF Around
  <2>6. ~ AlreadyThere(a, b[1], b[2], nn)
    <3>1. \A i \in 0..b[1] : i \in 0..(K - 1)
      BY <1>0, <2>5
    <3> QED
      BY <2>5, <3>1 DEF AlreadyThere
  <2>7. ins = [addr |-> ShiftIn(a, b[2], K, nn), pos |-> b[2]]
    BY <1>3, <2>6 DEF InsertIntoPool, b
  <2> HIDE DEF ins
  <2>8. ASSUME NEW i \in 0..(K - 1), i < b[2]
        PROVE  a[i].distance <= nn.distance
    <3>1. i <= b[1]
      BY <2>4, <2>5, <2>8
    <3>2. a[i].distance <= a[b[1]].distance
      BY <1>0, <2>2, <2>5, <3>1 DEF InOrder
    <3> QED
      BY <1>0, <2>2, <2>4, <2>5, <3>2 DEF Around
  <2>9. ASSUME NEW i \in 0..(K - 1), b[2] <= i
        PROVE  nn.distance <= a[i].distance
    <3>1. a[b[2]].distance <= a[i].distance
      BY <1>0, <2>2, <2>5, <2>9 DEF InOrder
    <3> QED
      BY <1>0, <2>2, <2>4, <2>5, <3>1 DEF Around
  <2> QED
    BY <1>0, <2>5, <2>7, <2>8, <2>9
<1> QED
  BY <1>1, <1>2, <1>3

\* What inserting a candidate there does to the array.
LEMMA ShiftFacts ==
    ASSUME NEW P, NEW L \in Nat \ {0}, NEW a \in [0..L -> Slot(P)], NEW K \in 0..L,
           InOrder(a, K), NEW nn \in Slot(P), NEW pos \in 0..K,
           \A i \in 0..(K - 1) : a[i].id # nn.id,
           \A i \in 0..(K - 1) : i < pos => a[i].distance <= nn.distance,
           \A i \in 0..(K - 1) : pos <= i => nn.distance <= a[i].distance
    PROVE  LET b == ShiftIn(a, pos, K, nn)
           IN  /\ b \in [0..L -> Slot(P)]
               /\ b[pos] = nn
               /\ \A i \in 0..L : i < pos \/ K < i => b[i] = a[i]
               /\ \A i \in 0..(K - 1) : pos <= i => b[i + 1] = a[i]
               /\ \A i \in 1..K : pos < i => b[i] = a[i - 1]
               /\ K < L => InOrder(b, K + 1)
               /\ InOrder(b, K)
<1> DEFINE b == ShiftIn(a, pos, K, nn)
<1>0. /\ \A i \in 0..L : a[i].distance \in 0..Far
      /\ nn.distance \in 0..Far /\ Far \in Nat /\ K \in Nat /\ pos \in Nat
      /\ DOMAIN a = 0..L
  BY FarAssumption DEF Slot
<1>1. \A i \in 0..L : b[i] = IF i = pos THEN nn ELSE IF pos < i /\ i <= K THEN a[i - 1] ELSE a[i]
  BY <1>0 DEF ShiftIn
<1>2. b \in [0..L -> Slot(P)]
  <2>1. ASSUME NEW i \in 0..L
        PROVE  b[i] \in Slot(P)
    <3>1. pos < i /\ i <= K => i - 1 \in 0..L
      BY <1>0
    <3>2. b[i] = nn \/ b[i] = a[i] \/ (i - 1 \in 0..L /\ b[i] = a[i - 1])
      BY <1>1, <3>1
    <3> QED
      BY <3>2
  <2> QED
    BY <1>0, <2>1 DEF ShiftIn
<1> HIDE DEF b
<1>3. /\ b[pos] = nn
      /\ \A i \in 0..L : i < pos \/ K < i => b[i] = a[i]
      /\ \A i \in 1..K : pos < i => b[i] = a[i - 1]
  BY <1>0, <1>1
<1>4. ASSUME NEW i \in 0..(K - 1), pos <= i
      PROVE  b[i + 1] = a[i]
  <2>1. i + 1 \in 1..K /\ pos < i + 1 /\ (i + 1) - 1 = i
    BY <1>0, <1>4
  <2> QED
    BY <1>3, <2>1
<1>5. ASSUME NEW i \in 0..K, NEW j \in 0..K, i < j, j <= L
      PROVE  b[i].distance <= b[j].distance /\ b[i].id # b[j].id
  <2>1. CASE j < pos
    BY <1>0, <1>3, <1>5, <2>1 DEF InOrder
  <2>2. CASE j = pos
    <3>1. i \in 0..(K - 1) /\ i < pos /\ i \in 0..L
      BY <1>0, <1>5, <2>2
    <3>2. b[i] = a[i] /\ b[j] = nn
      BY <1>3, <2>2, <3>1
    <3> QED
      BY <3>1, <3>2
  <2>3. CASE pos < j
    <3>1. j \in 1..K /\ j - 1 \in 0..(K - 1) /\ pos <= j - 1
      BY <1>0, <1>5, <2>3
    <3>2. b[j] = a[j - 1]
      BY <1>3, <2>3, <3>1
    <3>3. CASE i < pos
      <4>1. i \in 0..(K - 1) /\ i < j - 1 /\ i \in 0..L
        BY <1>0, <1>5, <2>3, <3>3
      <4>2. b[i] = a[i]
        BY <1>3, <3>3, <4>1
      <4> QED
        BY <3>1, <3>2, <4>1, <4>2 DEF InOrder
    <3>4. CASE i = pos
      BY <1>3, <3>1, <3>2, <3>4
    <3>5. CASE pos < i
      <4>1. i \in 1..K /\ i - 1 \in 0..(K - 1) /\ i - 1 < j - 1
        BY <1>0, <1>5, <3>5
      <4>2. b[i] = a[i - 1]
        BY <1>3, <3>5, <4>1
      <4> QED
        BY <3>1, <3>2, <4>1, <4>2 DEF InOrder
    <3> QED
      BY <1>0, <3>3, <3>4, <3>5
  <2> QED
    BY <1>0, <2>1, <2>2, <2>3
<1>6. K < L => InOrder(b, K + 1)
  <2> SUFFICES ASSUME K < L, NEW i \in 0..((K + 1) - 1), NEW j \in 0..((K + 1) - 1), i < j
               PROVE  b[i].distance <= b[j].distance /\ b[i].id # b[j].id
    BY DEF InOrder
  <2>1. i \in 0..K /\ j \in 0..K /\ j <= L
    BY <1>0
  <2> QED
    BY <1>5, <2>1
<1>7. InOrder(b, K)
  <2> SUFFICES ASSUME NEW i \in 0..(K - 1), NEW j \in 0..(K - 1), i < j
               PROVE  b[i].distance <= b[j].distance /\ b[i].id # b[j].id
    BY DEF InOrder
  <2>1. i \in 0..K /\ j \in 0..K /\ j <= L
    BY <1>0
  <2> QED
    BY <1>5, <2>1
<1> QED
  BY <1>2, <1>3, <1>4, <1>6, <1>7 DEF b

\* The first K slots of a hold, closest first, the L closest of the points that were
\* met, or all of them.
Keeps(P, L, dist, met, a, K) ==
    /\ a \in [0..L -> Slot(P)]
    /\ K \in 0..L
    /\ InOrder(a, K)
    /\ K = 0 => a[0].distance = Far
    /\ \A i \in 0..(K - 1) : a[i].id \in met /\ a[i].distance = dist[a[i].id]
    /\ \A x \in met : \/ \E i \in 0..(K - 1) : a[i].id = x
                      \/ K = L /\ \A i \in 0..(K - 1) : a[i].distance <= dist[x]

\* What one more candidate does to the array.
Offered(P, L, dist, met, a, K, b, id, new) ==
    /\ Keeps(P, L, dist, met \cup {id}, new.addr, new.size)
    /\ new.size = IF K < L THEN K + 1 ELSE K
    /\ new.best \in Nat /\ new.best <= b
    /\ \A i \in 0..L : i < new.best => new.addr[i] = a[i]
    /\ \A i \in 0..L : K < L /\ K < i => new.addr[i] = a[i]
    /\ \A i \in 0..(new.size - 1) : \/ new.addr[i].id = id /\ new.addr[i].flag
                                    \/ \E j \in 0..(K - 1) : new.addr[i] = a[j]

\* A candidate not met before leaves the array with the closest of all that were met.
LEMMA OfferFacts ==
    ASSUME NEW P, NEW L \in Nat \ {0}, NEW dist \in [P -> 0..(Far - 1)],
           NEW met \in SUBSET P, NEW a, NEW K, Keeps(P, L, dist, met, a, K),
           NEW b \in Nat, NEW id \in P \ met
    PROVE  Offered(P, L, dist, met, a, K, b, id,
                   Offer([addr |-> a, size |-> K, best |-> b], L, id, dist[id]))
<1> DEFINE st == [addr |-> a, size |-> K, best |-> b]
           nn == [id |-> id, distance |-> dist[id], flag |-> TRUE]
           new == Offer(st, L, id, dist[id])
<1> SUFFICES Offered(P, L, dist, met, a, K, b, id, new)
  OBVIOUS
<1>0. /\ a \in [0..L -> Slot(P)] /\ K \in 0..L /\ InOrder(a, K)
      /\ K = 0 => a[0].distance = Far
      /\ \A i \in 0..(K - 1) : a[i].id \in met /\ a[i].distance = dist[a[i].id]
      /\ \A x \in met : \/ \E i \in 0..(K - 1) : a[i].id = x
                        \/ K = L /\ \A i \in 0..(K - 1) : a[i].distance <= dist[x]
  BY DEF Keeps
<1>1. /\ dist[id] \in Nat /\ dist[id] < Far /\ Far \in Nat /\ K \in Nat
      /\ \A i \in 0..L : a[i].distance \in 0..Far
  BY <1>0, FarAssumption DEF Slot
<1>2. st.addr = a /\ st.size = K /\ st.best = b
  OBVIOUS
<1>3. CASE TooFar(a, K, L, dist[id])
  <2>1. new = st
    BY <1>2, <1>3 DEF Offer
  <2>2. K = L /\ K > 0 /\ a[K - 1].distance <= dist[id]
    BY <1>1, <1>0, <1>3 DEF TooFar
  <2>3. \A i \in 0..(K - 1) : a[i].distance <= a[K - 1].distance
    <3>1. InOrder(a, K) /\ K - 1 \in 0..(K - 1) /\ \A i \in 0..(K - 1) : a[i].distance \in Nat
      BY <1>0, <1>1, <2>2
    <3> QED
      BY <3>1 DEF InOrder
  <2>4. \A i \in 0..(K - 1) : a[i].distance <= dist[id]
    BY <1>0, <1>1, <2>2, <2>3
  <2>5. Keeps(P, L, dist, met \cup {id}, a, K)
    BY <1>0, <2>2, <2>4 DEF Keeps
  <2>6. new.addr = a /\ new.size = K /\ new.best = b
    BY <1>2, <2>1
  <2> HIDE DEF new
  <2> QED
    BY <1>1, <2>2, <2>5, <2>6 DEF Offered
<1>4. CASE ~ TooFar(a, K, L, dist[id])
  <2> DEFINE ins == InsertIntoPool(a, K, nn)
             c == ShiftIn(a, ins.pos, K, nn)
  <2>1. new = [addr |-> ins.addr, size |-> IF K < L THEN K + 1 ELSE K,
               best |-> IF ins.pos < b THEN ins.pos ELSE b]
    BY <1>2, <1>4 DEF Offer
  <2>2. nn \in Slot(P) /\ nn.distance = dist[id] /\ nn.id = id /\ nn.flag = TRUE
    BY <1>1 DEF Slot
  <2>3. \A i \in 0..(K - 1) : a[i].id # nn.id
    BY <1>0, <2>2
  <2> HIDE DEF nn
  <2>4. /\ ins.pos \in 0..K
        /\ ins.addr = ShiftIn(a, ins.pos, K, nn)
        /\ \A i \in 0..(K - 1) : i < ins.pos => a[i].distance <= nn.distance
        /\ \A i \in 0..(K - 1) : ins.pos <= i => nn.distance <= a[i].distance
    BY <1>0, <1>1, <2>2, <2>3, InsertFacts
  <2> HIDE DEF ins
  <2> DEFINE pos == ins.pos
  <2>5. /\ c \in [0..L -> Slot(P)]
        /\ c[pos] = nn
        /\ \A i \in 0..L : i < pos \/ K < i => c[i] = a[i]
        /\ \A i \in 0..(K - 1) : pos <= i => c[i + 1] = a[i]
        /\ \A i \in 1..K : pos < i => c[i] = a[i - 1]
        /\ K < L => InOrder(c, K + 1)
        /\ InOrder(c, K)
    BY <1>0, <2>2, <2>3, <2>4, ShiftFacts
  <2>6. /\ new.addr = c /\ new.size = (IF K < L THEN K + 1 ELSE K)
        /\ new.best = IF pos < b THEN pos ELSE b
    BY <2>1, <2>4
  <2> HIDE DEF c, new, st
  <2>7. pos \in 0..K /\ pos \in Nat /\ pos \in 0..L
    BY <1>0, <2>4
  <2>8. K = L => pos < K
    <3> SUFFICES ASSUME K = L
                 PROVE  pos < K
      OBVIOUS
    <3>1. K > 0 /\ dist[id] < a[K - 1].distance
      BY <1>0, <1>1, <1>4 DEF TooFar
    <3>2. ~ (K - 1 < pos)
      BY <1>0, <1>1, <2>2, <2>4, <3>1
    <3> QED
      BY <1>1, <2>7, <3>2
  <2>9. \A i \in 0..(new.size - 1) : i \in 0..K /\ i \in 0..L /\ (i = K => K < L)
    BY <1>0, <1>1, <2>6
  <2>10. ASSUME NEW i \in 0..K, i \in 0..L
         PROVE  c[i] = nn \/ \E j \in 0..(K - 1) : c[i] = a[j]
    <3>1. CASE i < pos
      <4>1. c[i] = a[i] /\ i \in 0..(K - 1)
        BY <1>1, <2>5, <2>7, <2>10, <3>1
      <4> QED
        BY <4>1
    <3>2. CASE i = pos
      BY <2>5, <3>2
    <3>3. CASE pos < i
      <4>1. i \in 1..K /\ i - 1 \in 0..(K - 1)
        BY <1>1, <2>7, <3>3
      <4> QED
        BY <2>5, <3>3, <4>1
    <3> QED
      BY <2>7, <3>1, <3>2, <3>3
  <2>11. InOrder(c, new.size)
    BY <1>0, <2>5, <2>6
  <2>12. new.size \in 0..L /\ new.size # 0
    BY <1>0, <1>1, <2>6
  <2>13. \A i \in 0..(new.size - 1) :
            c[i].id \in met \cup {id} /\ c[i].distance = dist[c[i].id]
    <3> SUFFICES ASSUME NEW i \in 0..(new.size - 1)
                 PROVE  c[i].id \in met \cup {id} /\ c[i].distance = dist[c[i].id]
      OBVIOUS
    <3>1. c[i] = nn \/ \E j \in 0..(K - 1) : c[i] = a[j]
      BY <2>9, <2>10
    <3> QED
      BY <1>0, <2>2, <3>1
  <2>14. \A i \in 0..(K - 1) : K = L => c[i].distance <= a[K - 1].distance
    <3> SUFFICES ASSUME NEW i \in 0..(K - 1), K = L
                 PROVE  c[i].distance <= a[K - 1].distance
      OBVIOUS
    <3>1. K - 1 \in 0..(K - 1) /\ pos <= K - 1 /\ i \in 0..K /\ i \in 0..L
      BY <1>1, <2>7, <2>8
    <3>2. nn.distance <= a[K - 1].distance
      BY <2>4, <3>1
    <3>3. \A j \in 0..(K - 1) : a[j].distance <= a[K - 1].distance
      BY <1>0, <1>1, <3>1 DEF InOrder
    <3>4. c[i] = nn \/ \E j \in 0..(K - 1) : c[i] = a[j]
      BY <2>10, <3>1
    <3> QED
      BY <3>2, <3>3, <3>4
  <2>15. ASSUME NEW x \in met \cup {id}
         PROVE  \/ \E i \in 0..(new.size - 1) : c[i].id = x
                \/ new.size = L /\ \A i \in 0..(new.size - 1) : c[i].distance <= dist[x]
    <3>1. CASE x = id
      <4>1. pos \in 0..(new.size - 1)
        BY <1>0, <1>1, <2>6, <2>7, <2>8
      <4> QED
        BY <2>2, <2>5, <3>1, <4>1
    <3>2. CASE x \in met /\ \E i \in 0..(K - 1) : a[i].id = x
      <4>1. PICK i \in 0..(K - 1) : a[i].id = x
        BY <3>2
      <4>2. CASE i < pos
        <5>1. c[i] = a[i] /\ i \in 0..(new.size - 1)
          BY <1>0, <1>1, <2>5, <2>6, <4>2
        <5> QED
          BY <4>1, <5>1
      <4>3. CASE pos <= i /\ i + 1 \in 0..(new.size - 1)
        BY <2>5, <4>1, <4>3
      <4>4. CASE pos <= i /\ i + 1 \notin 0..(new.size - 1)
        <5>1. K = L /\ i = K - 1 /\ new.size = K
          BY <1>0, <1>1, <2>6, <4>4
        <5>2. dist[x] = a[K - 1].distance
          BY <1>0, <4>1, <5>1
        <5> QED
          BY <2>14, <5>1, <5>2
      <4> QED
        BY <2>7, <4>2, <4>3, <4>4
    <3>3. CASE x \in met /\ K = L /\ \A i \in 0..(K - 1) : a[i].distance <= dist[x]
      <4>1. K - 1 \in 0..(K - 1) /\ K - 1 \in 0..L /\ new.size = K
        BY <1>0, <1>1, <2>6, <2>7, <2>8, <3>3
      <4>2. a[K - 1].distance <= dist[x]
        BY <3>3, <4>1
      <4>3. dist[x] \in Nat /\ a[K - 1].distance \in Nat
        BY <1>1, <3>3, <4>1, FarAssumption
      <4>4. \A i \in 0..(K - 1) : c[i].distance \in Nat
        BY <1>0, <1>1, <2>5, FarAssumption DEF Slot
      <4>5. \A i \in 0..(K - 1) : c[i].distance <= dist[x]
        BY <2>14, <3>3, <4>2, <4>3, <4>4
      <4> QED
        BY <3>3, <4>1, <4>5
    <3> QED
      BY <1>0, <3>1, <3>2, <3>3
  <2>16. Keeps(P, L, dist, met \cup {id}, c, new.size)
    BY <2>5, <2>11, <2>12, <2>13, <2>15 DEF Keeps
  <2>17. new.best \in Nat /\ new.best <= b /\ new.best <= pos
    BY <2>6, <2>7
  <2>18. \A i \in 0..L : i < new.best => c[i] = a[i]
    BY <2>5, <2>7, <2>17
  <2>19. \A i \in 0..(new.size - 1) : \/ c[i].id = id /\ c[i].flag
                                     \/ \E j \in 0..(K - 1) : c[i] = a[j]
    BY <2>2, <2>9, <2>10
  <2>20. \A i \in 0..L : K < L /\ K < i => c[i] = a[i]
    BY <2>5
  <2> QED
    BY <2>6, <2>16, <2>17, <2>18, <2>19, <2>20 DEF Offered
<1> QED
  BY <1>3, <1>4

\* The ids of the first K slots.
IdsOf(a, K) == {a[i].id : i \in 0..(K - 1)}

\* There are as many candidates as slots that hold one.
LEMMA IdsCount ==
    ASSUME NEW P, NEW L \in Nat, NEW a \in [0..L -> Slot(P)], NEW K \in 0..L, InOrder(a, K)
    PROVE  IsFiniteSet(IdsOf(a, K)) /\ Cardinality(IdsOf(a, K)) = K
<1> DEFINE ids == {a[i].id : i \in 0..(K - 1)}
           f == [i \in 0..(K - 1) |-> a[i].id]
<1>1. \A i, j \in 0..(K - 1) : f[i] = f[j] => i = j
  <2> SUFFICES ASSUME NEW i \in 0..(K - 1), NEW j \in 0..(K - 1), i < j
               PROVE  f[i] # f[j]
    OBVIOUS
  <2> QED
    BY DEF InOrder
<1>2. f \in Surjection(0..(K - 1), ids) /\ f \in Injection(0..(K - 1), ids)
  <2>1. f \in [0..(K - 1) -> ids]
    OBVIOUS
  <2>2. \A t \in ids : \E i \in 0..(K - 1) : f[i] = t
    OBVIOUS
  <2> QED
    BY <1>1, <2>1, <2>2 DEF Surjection, Injection, IsInjective
<1>3. IsFiniteSet(0..(K - 1)) /\ Cardinality(0..(K - 1)) = K
  <2>1. 0 \in Int /\ K - 1 \in Int /\ K \in Nat
    OBVIOUS
  <2>2. /\ IsFiniteSet(0..(K - 1))
        /\ Cardinality(0..(K - 1)) = IF 0 > K - 1 THEN 0 ELSE K - 1 - 0 + 1
    BY <2>1, FS_Interval
  <2> QED
    BY <2>1, <2>2
<1> HIDE DEF f, ids
<1>4. IsFiniteSet(ids) /\ Cardinality(ids) = K
  BY <1>2, <1>3, FS_Surjection
<1> QED
  BY <1>4 DEF ids, IdsOf
=============================================================================
