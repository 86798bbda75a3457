------------------------ MODULE PartitionSchemaProofs ------------------------
(* Proofs about PartitionSchema for any disk, any partitions that the user    *)
(* may list and any list of subvolumes.                                      *)
EXTENDS PartitionSchema, ListLemmas, FiniteSetTheorems, TLAPS

\* A set of numbers up to N that is not empty has a greatest one.
LEMMA Greatest ==
    ASSUME NEW N \in Nat, NEW S \in SUBSET (1..N), S # {}
    PROVE  Max(S) \in S /\ \A k \in S : k <= Max(S)
<1> DEFINE T == {N - k : k \in S}
<1>1. T \in SUBSET Nat /\ T # {}
  <2>1. ASSUME NEW k \in S PROVE N - k \in Nat
    <3>1. k \in 1..N
      OBVIOUS
    <3> QED BY <3>1
  <2> QED BY <2>1
<1>2. PICK m \in T : \A k \in T : m <= k
  <2> HIDE DEF T
  <2> QED BY <1>1, Least
<1>3. N - m \in S /\ \A k \in S : N - m >= k
  <2>1. PICK g \in S : m = N - g
    BY <1>2
  <2>2. ASSUME NEW k \in S PROVE g >= k
    <3>1. N - k \in T /\ k \in 1..N /\ g \in 1..N
      OBVIOUS
    <3>2. m <= N - k
      BY <1>2, <3>1
    <3> QED BY <2>1, <3>1, <3>2
  <2>3. N - m = g
    BY <2>1
  <2> QED BY <2>1, <2>2, <2>3
<1> HIDE DEF T
<1>4. Max(S) \in S /\ \A k \in S : Max(S) >= k
  BY <1>3 DEF Max
<1> QED BY <1>4

\* Every number up to N is that of one place, and only of one.
OneToOne(f, N) ==
    /\ f \in [1..N -> 1..N]
    /\ \A i, j \in 1..N : f[i] = f[j] => i = j
    /\ \A j \in 1..N : \E i \in 1..N : f[i] = j

\* r has the first n elements of s, in the order of their keys, and equal ones in the
\* order they had.
Behind(r, key, f, i, j) ==
    \/ key[r[i]] < key[r[j]]
    \/ key[r[i]] = key[r[j]] /\ f[i] < f[j]
Arranged(r, s, n, key, f) ==
    /\ Len(r) = n /\ OneToOne(f, n)
    /\ \A i \in 1..n : r[i] = s[f[i]]
    /\ \A i, j \in 1..n : i < j => Behind(r, key, f, i, j)

\* Insert puts x behind the last one that is not greater.
LEMMA InsertedKey ==
    ASSUME NEW X, NEW key \in [X -> Int], NEW s \in Seq(X), NEW x \in X
    PROVE  /\ Insert(s, x, key) \in Seq(X) /\ Len(Insert(s, x, key)) = Len(s) + 1
           /\ \E k \in 0..Len(s) :
                 /\ \A i \in 1..k : Insert(s, x, key)[i] = s[i]
                 /\ Insert(s, x, key)[k + 1] = x
                 /\ \A i \in (k + 2)..(Len(s) + 1) :
                       i - 1 \in 1..Len(s) /\ Insert(s, x, key)[i] = s[i - 1]
                 /\ k # 0 => key[s[k]] <= key[x]
                 /\ \A i \in (k + 1)..Len(s) : key[x] < key[s[i]]
<1> DEFINE N == Len(s)
           S == {i \in 1..N : key[s[i]] <= key[x]}
           k == SelectLastInSeq(s, LAMBDA p : key[p] <= key[x])
           one == <<x>>
           r == Insert(s, x, key)
<1>0. N \in Nat /\ \A i \in 1..N : s[i] \in X
  OBVIOUS
<1>1. k = IF S # {} THEN Max(S) ELSE 0
  BY DEF SelectLastInSeq
<1>2. one \in Seq(X) /\ Len(one) = 1 /\ one[1] = x
  OBVIOUS
<1>3. r = Spliced(s, k + 1, one)
  BY DEF Insert, InsertAt, Spliced
<1> HIDE DEF k, one, r
<1>4. /\ k \in 0..N
      /\ k # 0 => key[s[k]] <= key[x]
      /\ \A i \in (k + 1)..N : key[x] < key[s[i]]
  <2>1. CASE S = {}
    <3>1. k = 0
      BY <1>1, <2>1
    <3>2. \A i \in 1..N : key[x] < key[s[i]]
      BY <1>0, <2>1
    <3> QED BY <1>0, <3>1, <3>2
  <2>2. CASE S # {}
    <3>1. k \in S /\ \A i \in S : i <= k
      <4>1. S \in SUBSET (1..N)
        OBVIOUS
      <4> HIDE DEF S, N
      <4> QED BY <1>0, <1>1, <2>2, <4>1, Greatest
    <3>2. ASSUME NEW i \in (k + 1)..N PROVE key[x] < key[s[i]]
      <4>1. i \in 1..N /\ i \notin S
        BY <1>0, <3>1
      <4>2. key[s[i]] \in Int /\ key[x] \in Int
        BY <1>0, <4>1
      <4> QED BY <4>1, <4>2
    <3> QED BY <1>0, <3>1, <3>2
  <2> QED BY <2>1, <2>2
<1>5. r \in Seq(X) /\ Insertion(r, s, k + 1, one)
  <2>1. k + 1 \in 1..(Len(s) + 1)
    BY <1>0, <1>4
  <2> QED BY <1>2, <1>3, <2>1, Inserted
<1>6. /\ Len(r) = N + 1 /\ \A i \in 1..k : r[i] = s[i]
      /\ r[k + 1] = x
      /\ \A i \in (k + 2)..(N + 1) : i - 1 \in 1..N /\ r[i] = s[i - 1]
  <2>1. /\ Len(r) = N + 1
        /\ \A i \in 1..((k + 1) - 1) : r[i] = s[i]
        /\ \A i \in (k + 1)..((k + 1) - 1 + 1) : r[i] = one[i - ((k + 1) - 1)]
        /\ \A i \in ((k + 1) + 1)..(N + 1) : i - 1 \in (k + 1)..N /\ r[i] = s[i - 1]
    BY <1>2, <1>5 DEF Insertion
  <2>2. (k + 1) - 1 = k /\ (k + 1) + 1 = k + 2 /\ k + 1 \in (k + 1)..((k + 1) - 1 + 1)
        /\ (k + 1) - ((k + 1) - 1) = 1 /\ \A i \in (k + 1)..N : i \in 1..N
    BY <1>0, <1>4
  <2> QED BY <1>2, <2>1, <2>2
<1> QED BY <1>4, <1>5, <1>6 DEF r

\* One more element is arranged.
LEMMA ArrangedMore ==
    ASSUME NEW X, NEW key \in [X -> Int], NEW s \in Seq(X), NEW n \in Nat, n < Len(s),
           NEW r \in Seq(X), NEW f, Arranged(r, s, n, key, f)
    PROVE  \E g : Arranged(Insert(r, s[n + 1], key), s, n + 1, key, g)
<1> DEFINE x == s[n + 1]
           q == Insert(r, x, key)
<1>0. x \in X /\ Len(r) = n /\ n + 1 \in 1..Len(s)
  BY DEF Arranged
<1>1. /\ q \in Seq(X) /\ Len(q) = n + 1
      /\ \E k \in 0..n :
                 /\ \A i \in 1..k : q[i] = r[i]
                 /\ q[k + 1] = x
                 /\ \A i \in (k + 2)..(n + 1) : i - 1 \in 1..n /\ q[i] = r[i - 1]
                 /\ k # 0 => key[r[k]] <= key[x]
                 /\ \A i \in (k + 1)..n : key[x] < key[r[i]]
  <2>1. x \in X
    BY <1>0
  <2> HIDE DEF x
  <2>2. /\ q \in Seq(X) /\ Len(q) = Len(r) + 1
        /\ \E k \in 0..Len(r) :
                 /\ \A i \in 1..k : q[i] = r[i]
                 /\ q[k + 1] = x
                 /\ \A i \in (k + 2)..(Len(r) + 1) : i - 1 \in 1..Len(r) /\ q[i] = r[i - 1]
                 /\ k # 0 => key[r[k]] <= key[x]
                 /\ \A i \in (k + 1)..Len(r) : key[x] < key[r[i]]
    BY <2>1, InsertedKey
  <2> QED BY <1>0, <2>2
<1> HIDE DEF q
<1>2. PICK k \in 0..n :
        /\ \A i \in 1..k : q[i] = r[i]
        /\ q[k + 1] = x
        /\ \A i \in (k + 2)..(n + 1) : i - 1 \in 1..n /\ q[i] = r[i - 1]
        /\ k # 0 => key[r[k]] <= key[x]
        /\ \A i \in (k + 1)..n : key[x] < key[r[i]]
  BY <1>1
<1> DEFINE g == [i \in 1..(n + 1) |-> IF i <= k THEN f[i] ELSE IF i = k + 1 THEN n + 1 ELSE f[i - 1]]
<1>3. /\ OneToOne(f, n)
      /\ \A i \in 1..n : r[i] = s[f[i]] /\ f[i] \in 1..n
      /\ \A i, j \in 1..n : i < j => Behind(r, key, f, i, j)
  BY DEF Arranged, OneToOne
<1>4. \A i \in 1..n : key[r[i]] \in Int
  BY <1>0
<1>5. key[x] \in Int
  BY <1>0
<1>6. /\ \A i \in 1..(n + 1) : (i \in 1..k /\ i \in 1..n) \/ i = k + 1 \/ i \in (k + 2)..(n + 1)
      /\ \A i \in 1..k : g[i] = f[i] /\ i \in 1..n
      /\ g[k + 1] = n + 1
      /\ \A i \in (k + 2)..(n + 1) : g[i] = f[i - 1] /\ i - 1 \in 1..n
  OBVIOUS
<1>7. OneToOne(g, n + 1)
  <2>1. g \in [1..(n + 1) -> 1..(n + 1)]
    <3>1. g = [i \in 1..(n + 1) |-> g[i]]
      OBVIOUS
    <3> HIDE DEF g
    <3>2. \A i \in 1..(n + 1) : g[i] \in 1..n \/ g[i] = n + 1
      BY <1>3, <1>6
    <3>3. \A i \in 1..(n + 1) : g[i] \in 1..(n + 1)
      BY <3>2
    <3> QED BY <3>1, <3>3
  <2>2. \A i, j \in 1..(n + 1) : g[i] = g[j] => i = j
    <3>1. \A i, j \in 1..n : f[i] = f[j] => i = j
      BY <1>3 DEF OneToOne
    <3>2. \A i \in 1..(n + 1) :
             \/ i \in 1..k /\ g[i] = f[i] /\ i \in 1..n
             \/ i = k + 1 /\ g[i] = n + 1
             \/ i \in (k + 2)..(n + 1) /\ g[i] = f[i - 1] /\ i - 1 \in 1..n
      <4> HIDE DEF g
      <4> QED BY <1>6
    <3>3. \A i \in 1..n : f[i] # n + 1
      <4>1. \A i \in 1..n : f[i] \in 1..n
        BY <1>3
      <4>2. n + 1 \notin 1..n
        OBVIOUS
      <4> QED BY <4>1, <4>2
    <3> HIDE DEF g
    <3> SUFFICES ASSUME NEW i \in 1..(n + 1), NEW j \in 1..(n + 1), g[i] = g[j] PROVE i = j
      OBVIOUS
    <3>4. CASE i \in 1..k
      <4>1. CASE j \in 1..k
        BY <3>1, <3>2, <3>4, <4>1
      <4>2. CASE j = k + 1
        BY <3>2, <3>3, <3>4, <4>2
      <4>3. CASE j \in (k + 2)..(n + 1)
        <5>1. i = j - 1
          BY <3>1, <3>2, <3>4, <4>3
        <5> QED BY <3>4, <4>3, <5>1
      <4> QED BY <3>2, <4>1, <4>2, <4>3
    <3>5. CASE i = k + 1
      BY <3>2, <3>3, <3>5
    <3>6. CASE i \in (k + 2)..(n + 1)
      <4>1. CASE j \in 1..k
        <5>1. i - 1 = j
          BY <3>1, <3>2, <3>6, <4>1
        <5> QED BY <3>6, <4>1, <5>1
      <4>2. CASE j = k + 1
        BY <3>2, <3>3, <3>6, <4>2
      <4>3. CASE j \in (k + 2)..(n + 1)
        <5>1. i - 1 = j - 1
          BY <3>1, <3>2, <3>6, <4>3
        <5> QED BY <5>1
      <4> QED BY <3>2, <4>1, <4>2, <4>3
    <3> QED BY <3>2, <3>4, <3>5, <3>6
  <2>3. \A j \in 1..(n + 1) : \E i \in 1..(n + 1) : g[i] = j
    <3> SUFFICES ASSUME NEW j \in 1..(n + 1) PROVE \E i \in 1..(n + 1) : g[i] = j
      OBVIOUS
    <3> HIDE DEF g
    <3>1. CASE j = n + 1
      BY <1>6, <3>1
    <3>2. CASE j # n + 1
      <4>1. PICK i \in 1..n : f[i] = j
        BY <1>3, <3>2 DEF OneToOne
      <4>2. CASE i <= k
        <5>1. i \in 1..k /\ i \in 1..(n + 1)
          BY <4>2
        <5> QED BY <1>6, <4>1, <5>1
      <4>3. CASE i > k
        <5>1. i + 1 \in (k + 2)..(n + 1) /\ (i + 1) - 1 = i /\ i + 1 \in 1..(n + 1)
          BY <4>3
        <5> QED BY <1>6, <4>1, <5>1
      <4> QED BY <4>2, <4>3
    <3> QED BY <3>1, <3>2
  <2> HIDE DEF g
  <2> QED BY <2>1, <2>2, <2>3 DEF OneToOne
<1> HIDE DEF g
<1>8. ASSUME NEW i \in 1..(n + 1) PROVE q[i] = s[g[i]]
  <2>1. CASE i \in 1..k
    BY <1>2, <1>3, <1>6, <2>1
  <2>2. CASE i = k + 1
    BY <1>2, <1>6, <2>2 DEF x
  <2>3. CASE i \in (k + 2)..(n + 1)
    <3>1. i - 1 \in 1..n /\ q[i] = r[i - 1] /\ g[i] = f[i - 1]
      BY <1>2, <1>6, <2>3
    <3>2. r[i - 1] = s[f[i - 1]]
      BY <1>3, <3>1
    <3> QED BY <3>1, <3>2
  <2> QED BY <1>6, <2>1, <2>2, <2>3
<1>9. ASSUME NEW i \in 1..(n + 1), NEW j \in 1..(n + 1), i < j
      PROVE  Behind(q, key, g, i, j)
  <2> HIDE DEF x
  <2>1. \A m \in 1..k : m \in 1..n /\ key[r[m]] <= key[x]
    <3> SUFFICES ASSUME NEW m \in 1..k PROVE m \in 1..n /\ key[r[m]] <= key[x]
      OBVIOUS
    <3>1. k \in 1..n /\ m \in 1..n /\ (m = k \/ m < k)
      OBVIOUS
    <3>2. m < k => Behind(r, key, f, m, k)
      BY <1>3, <3>1
    <3>3. key[r[m]] \in Int /\ key[r[k]] \in Int
      BY <1>4, <3>1
    <3>4. key[r[m]] <= key[r[k]]
      BY <3>1, <3>2, <3>3 DEF Behind
    <3>5. key[r[k]] <= key[x]
      BY <1>2, <3>1
    <3> QED BY <1>5, <3>1, <3>3, <3>4, <3>5
  <2>2. CASE i \in 1..k
    <3>1. q[i] = r[i] /\ g[i] = f[i] /\ i \in 1..n /\ f[i] \in 1..n
      BY <1>2, <1>3, <1>6, <2>2
    <3>2. CASE j \in 1..k
      <4>1. q[j] = r[j] /\ g[j] = f[j] /\ j \in 1..n
        BY <1>2, <1>6, <3>2
      <4>2. Behind(r, key, f, i, j)
        BY <1>9, <1>3, <3>1, <4>1
      <4> QED BY <3>1, <4>1, <4>2 DEF Behind
    <3>3. CASE j = k + 1
      <4>1. q[j] = x /\ g[j] = n + 1 /\ key[r[i]] <= key[x]
        BY <1>2, <1>6, <2>1, <2>2, <3>3
      <4>2. key[r[i]] \in Int /\ f[i] < n + 1
        BY <1>4, <3>1
      <4> QED BY <1>5, <3>1, <4>1, <4>2 DEF Behind
    <3>4. CASE j \in (k + 2)..(n + 1)
      <4>1. q[j] = r[j - 1] /\ g[j] = f[j - 1] /\ j - 1 \in 1..n
        BY <1>2, <1>6, <3>4
      <4>2. i < j - 1
        BY <2>2, <3>4
      <4>3. Behind(r, key, f, i, j - 1)
        BY <1>3, <3>1, <4>1, <4>2
      <4> QED BY <3>1, <4>1, <4>3 DEF Behind
    <3> QED BY <1>6, <3>2, <3>3, <3>4
  <2>3. CASE i = k + 1
    <3>1. j \in (k + 2)..(n + 1)
      BY <1>9, <2>3
    <3>2. j - 1 \in (k + 1)..n
      BY <3>1
    <3>3. q[j] = r[j - 1] /\ q[i] = x
      BY <1>2, <2>3, <3>1
    <3>4. key[x] < key[r[j - 1]]
      BY <1>2, <3>2
    <3> QED BY <3>3, <3>4 DEF Behind
  <2>4. CASE i \in (k + 2)..(n + 1)
    <3>1. j \in (k + 2)..(n + 1)
      BY <1>9, <2>4
    <3>2. /\ q[i] = r[i - 1] /\ g[i] = f[i - 1] /\ i - 1 \in 1..n
          /\ q[j] = r[j - 1] /\ g[j] = f[j - 1] /\ j - 1 \in 1..n
      BY <1>2, <1>6, <2>4, <3>1
    <3>3. i - 1 < j - 1
      BY <1>9
    <3>4. Behind(r, key, f, i - 1, j - 1)
      BY <1>3, <3>2, <3>3
    <3> QED BY <3>2, <3>4 DEF Behind
  <2> QED BY <1>6, <2>2, <2>3, <2>4
<1>10. Arranged(q, s, n + 1, key, g)
  BY <1>1, <1>7, <1>8, <1>9 DEF Arranged
<1> QED BY <1>10 DEF q, x

\* What sort has after each pass.
LEMMA SortLoop ==
    ASSUME NEW X, NEW key \in [X -> Int], NEW s \in Seq(X)
    PROVE  \E u : /\ sort(s, key) = u[Len(s)] /\ u[0] = <<>>
                  /\ \A n \in 1..Len(s) : u[n] = Insert(u[n - 1], s[n], key)
<1> DEFINE N == Len(s)
           A == Seq(X)
           none == <<>>
           Pass(f) == [n \in 0..N |-> IF n = 0 THEN none ELSE Insert(f[n - 1], s[n], key)]
           u == CHOOSE f : f = Pass(f)
<1>0. N \in Nat /\ \A n \in 1..N : s[n] \in X
  BY Elements
<1>1. sort(s, key) = u[N]
  BY DEF sort
<1>2. none \in A
  OBVIOUS
<1> HIDE DEF none, N
<1>3. \A i \in 1..N : \A q \in A : Insert(q, s[i], key) \in A
  BY <1>0, InsertedKey
<1> HIDE DEF A
<1>4. u = Pass(u)
  <2> DEFINE step == [n \in 1..N |-> [q \in A |-> Insert(q, s[n], key)]]
  <2>1. step \in [1..N -> [A -> A]]
    BY <1>3
  <2>2. PICK g \in [0..N -> A] : g[0] = none /\ \A i \in 1..N : g[i] = step[i][g[i - 1]]
    <3>1. Passes(step, N, A)
      BY <2>1 DEF Passes
    <3> HIDE DEF step
    <3>2. PICK g : Folds(g, none, step, N, A)
      BY <1>0, <1>2, <3>1, Folding
    <3> QED BY <3>2 DEF Folds
  <2>3. \A i \in 1..N : g[i] = Insert(g[i - 1], s[i], key)
    <3> SUFFICES ASSUME NEW i \in 1..N PROVE g[i] = Insert(g[i - 1], s[i], key)
      OBVIOUS
    <3>1. g[i - 1] \in A
      BY <1>0, <2>2
    <3> QED BY <2>2, <3>1
  <2> HIDE DEF step
  <2>4. \A i \in 0..N : i = 0 \/ (i \in 1..N /\ i # 0)
    BY <1>0
  <2>5. g = Pass(g)
    BY <2>2, <2>3, <2>4
  <2>6. \E f : f = Pass(f)
    BY <2>5
  <2> HIDE DEF Pass
  <2> QED BY <2>6
<1> HIDE DEF u
<1>5. u[0] = none /\ \A n \in 1..N : u[n] = Insert(u[n - 1], s[n], key)
  <2>1. 0 \in 0..N /\ \A n \in 1..N : n \in 0..N /\ n # 0
    BY <1>0
  <2> QED BY <1>4, <2>1
<1> QED BY <1>1, <1>5 DEF none, N

\* sort gives all elements in the order of their keys, equal ones as they were.
LEMMA Sorted ==
    ASSUME NEW X, NEW key \in [X -> Int], NEW s \in Seq(X)
    PROVE  sort(s, key) \in Seq(X) /\ \E f : Arranged(sort(s, key), s, Len(s), key, f)
<1> DEFINE N == Len(s)
<1>0. N \in Nat
  OBVIOUS
<1>1. PICK u : /\ sort(s, key) = u[N] /\ u[0] = <<>>
               /\ \A n \in 1..N : u[n] = Insert(u[n - 1], s[n], key)
  BY SortLoop
<1> DEFINE Good(n) == u[n] \in Seq(X) /\ \E f : Arranged(u[n], s, n, key, f)
           V == {n \in 0..N : Good(n)}
<1>2. Good(0)
  <2>1. u[0] \in Seq(X) /\ Len(u[0]) = 0
    BY <1>1
  <2>2. OneToOne([i \in 1..0 |-> i], 0)
    BY DEF OneToOne
  <2>3. Arranged(u[0], s, 0, key, [i \in 1..0 |-> i])
    BY <2>1, <2>2 DEF Arranged
  <2> QED BY <2>1, <2>3
<1>3. ASSUME NEW n \in 0..(N - 1), Good(n) PROVE Good(n + 1)
  <2>1. n \in Nat /\ n < Len(s) /\ n + 1 \in 1..N /\ (n + 1) - 1 = n /\ s[n + 1] \in X
    BY <1>0
  <2>2. PICK f : Arranged(u[n], s, n, key, f)
    BY <1>3
  <2>3. u[n + 1] = Insert(u[n], s[n + 1], key) /\ u[n] \in Seq(X)
    BY <1>1, <1>3, <2>1
  <2>4. \E g : Arranged(Insert(u[n], s[n + 1], key), s, n + 1, key, g)
    BY <2>1, <2>2, <2>3, ArrangedMore
  <2>5. Insert(u[n], s[n + 1], key) \in Seq(X)
    BY <2>1, <2>3, InsertedKey
  <2> QED BY <2>3, <2>4, <2>5
<1>4. \A n \in 0..N : n \in V
  <2>1. 0 \in V
    BY <1>0, <1>2
  <2>2. ASSUME NEW n \in 0..(N - 1), n \in V PROVE n + 1 \in V
    <3>1. n + 1 \in 0..N
      BY <1>0
    <3> HIDE DEF Good
    <3> QED BY <1>3, <2>2, <3>1
  <2> HIDE DEF V
  <2> QED BY <1>0, <2>1, <2>2, Induction
<1>5. Good(N)
  <2>1. N \in 0..N
    BY <1>0
  <2> HIDE DEF Good
  <2> QED BY <1>4, <2>1
<1> QED BY <1>1, <1>5

\* Entries of one device are neighbours.
Together(r) ==
    \A i, j, k \in 1..Len(r) :
        i < j /\ j < k /\ r[i].device = r[k].device => r[j].device = r[i].device

\* u has the first entry of each device among the first n of r, in their order.
FirstOfEach(u, r, n, h) ==
    /\ h \in [1..Len(u) -> 1..n]
    /\ \A i \in 1..Len(u) : u[i] = r[h[i]]
    /\ \A i, j \in 1..Len(u) : i < j => h[i] < h[j]
    /\ \A i \in 1..Len(u) : \A k \in 1..n : k < h[i] => r[k].device # u[i].device
    /\ \A k \in 1..n : \E i \in 1..Len(u) : u[i].device = r[k].device

\* What unique_copy has after each pass.
LEMMA UniqueLoop ==
    ASSUME NEW X, NEW s \in Seq(X)
    PROVE  \E u : /\ unique_copy(s) = u[Len(s)] /\ u[0] = <<>>
                  /\ \A n \in 1..Len(s) :
                        u[n] = IF u[n - 1] # <<>> /\ Last(u[n - 1]).device = s[n].device
                               THEN u[n - 1] ELSE Append(u[n - 1], s[n])
<1> DEFINE N == Len(s)
           A == Seq(X)
           none == <<>>
           Pass(f) == [n \in 0..N |->
                          IF n = 0 THEN none
                          ELSE IF f[n - 1] # <<>> /\ Last(f[n - 1]).device = s[n].device
                          THEN f[n - 1] ELSE Append(f[n - 1], s[n])]
           u == CHOOSE f : f = Pass(f)
           next(q, n) == IF q # <<>> /\ Last(q).device = s[n].device THEN q ELSE Append(q, s[n])
<1>0. N \in Nat /\ \A n \in 1..N : s[n] \in X
  BY Elements
<1>1. unique_copy(s) = u[N]
  BY DEF unique_copy
<1>2. none \in A
  OBVIOUS
<1>3. \A i \in 1..N : \A q \in A : next(q, i) \in A
  BY <1>0, Appended
<1>4. \A f : Pass(f) = [n \in 0..N |-> IF n = 0 THEN none ELSE next(f[n - 1], n)]
  OBVIOUS
<1> HIDE DEF none, N, A, next, Pass
<1>5. u = Pass(u)
  <2> DEFINE step == [n \in 1..N |-> [q \in A |-> next(q, n)]]
  <2>1. step \in [1..N -> [A -> A]]
    BY <1>3
  <2>2. PICK g \in [0..N -> A] : g[0] = none /\ \A i \in 1..N : g[i] = step[i][g[i - 1]]
    <3>1. Passes(step, N, A)
      BY <2>1 DEF Passes
    <3> HIDE DEF step
    <3>2. PICK g : Folds(g, none, step, N, A)
      BY <1>0, <1>2, <3>1, Folding
    <3> QED BY <3>2 DEF Folds
  <2>3. \A i \in 1..N : g[i] = next(g[i - 1], i)
    <3> SUFFICES ASSUME NEW i \in 1..N PROVE g[i] = next(g[i - 1], i)
      OBVIOUS
    <3>1. g[i - 1] \in A
      BY <1>0, <2>2
    <3> QED BY <2>2, <3>1
  <2> HIDE DEF step
  <2>4. \A i \in 0..N : i = 0 \/ (i \in 1..N /\ i # 0)
    BY <1>0
  <2>5. g = Pass(g)
    BY <1>4, <2>2, <2>3, <2>4
  <2> QED BY <2>5
<1> HIDE DEF u
<1>6. u[0] = none /\ \A n \in 1..N : u[n] = next(u[n - 1], n)
  <2>1. 0 \in 0..N /\ \A n \in 1..N : n \in 0..N /\ n # 0
    BY <1>0
  <2>2. u = [n \in 0..N |-> IF n = 0 THEN none ELSE next(u[n - 1], n)]
    BY <1>4, <1>5
  <2> QED BY <2>1, <2>2
<1> QED BY <1>1, <1>6 DEF none, N, next

\* One more entry.
LEMMA FirstOfMore ==
    ASSUME NEW r \in Seq(Entries), Together(r), NEW n \in Nat, n < Len(r),
           NEW u \in Seq(Entries), NEW h, FirstOfEach(u, r, n, h),
           n > 0 => u # <<>> /\ Last(u).device = r[n].device
    PROVE  LET x == r[n + 1]
               v == IF u # <<>> /\ Last(u).device = x.device THEN u ELSE Append(u, x)
           IN  /\ v \in Seq(Entries) /\ v # <<>> /\ Last(v).device = x.device
               /\ \E g : FirstOfEach(v, r, n + 1, g)
<1> DEFINE x == r[n + 1]
           N == Len(u)
<1>0. N \in Nat /\ n + 1 \in 1..Len(r) /\ x \in Entries
  OBVIOUS
<1>1. /\ h \in [1..N -> 1..n]
      /\ \A i \in 1..N : u[i] = r[h[i]]
      /\ \A i, j \in 1..N : i < j => h[i] < h[j]
      /\ \A i \in 1..N : \A k \in 1..n : k < h[i] => r[k].device # u[i].device
      /\ \A k \in 1..n : \E i \in 1..N : u[i].device = r[k].device
  BY DEF FirstOfEach
<1>2. CASE u # <<>> /\ Last(u).device = x.device
  <2>1. h \in [1..N -> 1..(n + 1)]
    <3>1. \A i \in 1..n : i \in 1..(n + 1)
      OBVIOUS
    <3> QED BY <1>1, <3>1
  <2>2. \A i \in 1..N : \A k \in 1..(n + 1) : k < h[i] => r[k].device # u[i].device
    <3> SUFFICES ASSUME NEW i \in 1..N, NEW k \in 1..(n + 1), k < h[i]
                 PROVE r[k].device # u[i].device
      OBVIOUS
    <3>1. h[i] \in 1..n
      BY <1>1
    <3>2. k \in 1..n
      BY <3>1
    <3> QED BY <1>1, <3>2
  <2>3. N \in 1..N /\ u[N].device = x.device
    <3>1. N # 0
      BY <1>2
    <3> QED BY <1>0, <1>2, <3>1 DEF Last
  <2>4. \A k \in 1..(n + 1) : \E i \in 1..N : u[i].device = r[k].device
    <3> SUFFICES ASSUME NEW k \in 1..(n + 1) PROVE \E i \in 1..N : u[i].device = r[k].device
      OBVIOUS
    <3>1. k \in 1..n \/ k = n + 1
      OBVIOUS
    <3> HIDE DEF N
    <3> QED BY <1>1, <2>3, <3>1
  <2>5. FirstOfEach(u, r, n + 1, h)
    <3> HIDE DEF x
    <3> QED BY <1>1, <2>1, <2>2, <2>4 DEF FirstOfEach
  <2> QED BY <1>2, <2>5
<1>3. CASE ~(u # <<>> /\ Last(u).device = x.device)
  <2> DEFINE v == Append(u, x)
             g == [i \in 1..(N + 1) |-> IF i = N + 1 THEN n + 1 ELSE h[i]]
  <2>1. /\ v \in Seq(Entries) /\ Len(v) = N + 1 /\ v[N + 1] = x
        /\ \A i \in 1..N : v[i] = u[i]
    <3> HIDE DEF x
    <3> QED BY <1>0, Appended
  <2>2. \A k \in 1..n : r[k].device # x.device
    <3> SUFFICES ASSUME NEW k \in 1..n, r[k].device = x.device PROVE FALSE
      OBVIOUS
    <3>1. n > 0 /\ n \in 1..Len(r) /\ k \in 1..Len(r) /\ n + 1 \in 1..Len(r)
      OBVIOUS
    <3>2. r[n].device = x.device
      <4>1. CASE k = n
        BY <4>1
      <4>2. CASE k < n
        BY <3>1, <4>2 DEF Together
      <4> QED BY <4>1, <4>2
    <3> QED BY <1>3, <3>1, <3>2
  <2>3. /\ g[N + 1] = n + 1
        /\ \A i \in 1..N : g[i] = h[i] /\ i \in 1..(N + 1)
        /\ \A i \in 1..(N + 1) : i \in 1..N \/ i = N + 1
        /\ N + 1 \in 1..(N + 1)
    BY <1>0
  <2>4. g \in [1..(N + 1) -> 1..(n + 1)]
    <3>1. g = [i \in 1..(N + 1) |-> g[i]]
      OBVIOUS
    <3>2. \A i \in 1..N : h[i] \in 1..n
      BY <1>1
    <3> HIDE DEF g
    <3>3. \A i \in 1..(N + 1) : g[i] \in 1..n \/ g[i] = n + 1
      BY <2>3, <3>2
    <3>4. \A i \in 1..(N + 1) : g[i] \in 1..(n + 1)
      BY <3>3
    <3> QED BY <3>1, <3>4
  <2> HIDE DEF g, v, x
  <2>5. \A i \in 1..(N + 1) : v[i] = r[g[i]]
    <3>1. v[N + 1] = r[g[N + 1]]
      BY <2>1, <2>3 DEF x
    <3> HIDE DEF N
    <3> QED BY <1>1, <2>1, <2>3, <3>1
  <2>6. \A i, j \in 1..(N + 1) : i < j => g[i] < g[j]
    <3> SUFFICES ASSUME NEW i \in 1..(N + 1), NEW j \in 1..(N + 1), i < j PROVE g[i] < g[j]
      OBVIOUS
    <3>1. i \in 1..N
      BY <1>0
    <3>2. g[i] = h[i] /\ h[i] \in 1..n
      BY <1>1, <2>3, <3>1
    <3>3. CASE j = N + 1
      BY <2>3, <3>2, <3>3
    <3>4. CASE j # N + 1
      <4>1. j \in 1..N
        BY <3>4
      <4>2. g[j] = h[j]
        BY <2>3, <4>1
      <4> QED BY <1>1, <3>1, <3>2, <4>1, <4>2
    <3> QED BY <3>3, <3>4
  <2>7. \A i \in 1..(N + 1) : \A k \in 1..(n + 1) : k < g[i] => r[k].device # v[i].device
    <3> SUFFICES ASSUME NEW i \in 1..(N + 1), NEW k \in 1..(n + 1), k < g[i]
                 PROVE r[k].device # v[i].device
      OBVIOUS
    <3>1. CASE i = N + 1
      <4>1. k \in 1..n
        BY <2>3, <3>1
      <4> QED BY <2>1, <2>2, <3>1, <4>1
    <3>2. CASE i \in 1..N
      <4>1. g[i] = h[i] /\ v[i] = u[i] /\ h[i] \in 1..n
        BY <1>1, <2>1, <2>3, <3>2
      <4>2. k \in 1..n
        BY <4>1
      <4> QED BY <1>1, <3>2, <4>1, <4>2
    <3> QED BY <2>3, <3>1, <3>2
  <2>8. \A k \in 1..(n + 1) : \E i \in 1..(N + 1) : v[i].device = r[k].device
    <3> SUFFICES ASSUME NEW k \in 1..(n + 1)
                 PROVE  \E i \in 1..(N + 1) : v[i].device = r[k].device
      OBVIOUS
    <3>1. CASE k = n + 1
      BY <2>1, <2>3, <3>1 DEF x
    <3>2. CASE k # n + 1
      <4>1. k \in 1..n
        BY <3>2
      <4>2. PICK i \in 1..N : u[i].device = r[k].device
        BY <1>1, <4>1
      <4> QED BY <2>1, <2>3, <4>2
    <3> QED BY <3>1, <3>2
  <2>9. FirstOfEach(v, r, n + 1, g)
    BY <2>1, <2>4, <2>5, <2>6, <2>7, <2>8 DEF FirstOfEach
  <2>10. v # <<>> /\ Last(v) = x
    <3>1. Len(v) # 0
      BY <1>0, <2>1
    <3> QED BY <2>1, <3>1 DEF Last
  <2> QED BY <1>3, <2>1, <2>9, <2>10 DEF v, x
<1> QED BY <1>2, <1>3

\* unique_copy keeps the first entry of each device, when those of one device are
\* neighbours.
LEMMA UniqueCopied ==
    ASSUME NEW r \in Seq(Entries), Together(r)
    PROVE  /\ unique_copy(r) \in Seq(Entries)
           /\ \E h : FirstOfEach(unique_copy(r), r, Len(r), h)
<1> DEFINE N == Len(r)
           next(q, x) == IF q # <<>> /\ Last(q).device = x.device THEN q ELSE Append(q, x)
<1>0. N \in Nat
  OBVIOUS
<1>1. PICK u : /\ unique_copy(r) = u[N] /\ u[0] = <<>>
               /\ \A n \in 1..N : u[n] = next(u[n - 1], r[n])
  BY UniqueLoop
<1> DEFINE Good(n) == /\ u[n] \in Seq(Entries)
                      /\ n > 0 => u[n] # <<>> /\ Last(u[n]).device = r[n].device
                      /\ \E h : FirstOfEach(u[n], r, n, h)
           V == {n \in 0..N : Good(n)}
<1>2. Good(0)
  <2>1. u[0] \in Seq(Entries) /\ Len(u[0]) = 0
    BY <1>1
  <2>2. FirstOfEach(u[0], r, 0, [i \in 1..0 |-> i])
    BY <2>1 DEF FirstOfEach
  <2> QED BY <2>1, <2>2
<1>3. ASSUME NEW n \in 0..(N - 1), Good(n) PROVE Good(n + 1)
  <2>1. n \in Nat /\ n < Len(r) /\ n + 1 \in 1..N /\ (n + 1) - 1 = n
    BY <1>0
  <2>2. PICK h : FirstOfEach(u[n], r, n, h)
    BY <1>3
  <2>3. u[n + 1] = next(u[n], r[n + 1])
    BY <1>1, <2>1
  <2>4. u[n] \in Seq(Entries) /\ (n > 0 => u[n] # <<>> /\ Last(u[n]).device = r[n].device)
    BY <1>3
  <2>5. LET v == next(u[n], r[n + 1])
        IN  /\ v \in Seq(Entries) /\ v # <<>> /\ Last(v).device = r[n + 1].device
            /\ \E g : FirstOfEach(v, r, n + 1, g)
    BY <2>1, <2>2, <2>4, FirstOfMore
  <2> HIDE DEF next
  <2> QED BY <2>3, <2>5
<1>4. \A n \in 0..N : n \in V
  <2>1. 0 \in V
    BY <1>0, <1>2
  <2>2. ASSUME NEW n \in 0..(N - 1), n \in V PROVE n + 1 \in V
    <3>1. n + 1 \in 0..N
      BY <1>0
    <3> HIDE DEF Good
    <3> QED BY <1>3, <2>2, <3>1
  <2> HIDE DEF V
  <2> QED BY <1>0, <2>1, <2>2, Induction
<1>5. Good(N)
  <2>1. N \in 0..N
    BY <1>0
  <2> HIDE DEF Good
  <2> QED BY <1>4, <2>1
<1> QED BY <1>1, <1>5

\* u has those of the first n of s that are in kept, in their order.
Picked(u, s, n, kept, h) ==
    /\ h \in [1..Len(u) -> 1..n]
    /\ \A i \in 1..Len(u) : u[i] = s[h[i]] /\ u[i] \in kept
    /\ \A i, j \in 1..Len(u) : i < j => h[i] < h[j]
    /\ \A k \in 1..n : s[k] \in kept => \E i \in 1..Len(u) : h[i] = k

\* What filter has after each pass.
LEMMA FilterLoop ==
    ASSUME NEW X, NEW s \in Seq(X), NEW kept
    PROVE  \E u : /\ filter(s, kept) = u[Len(s)] /\ u[0] = <<>>
                  /\ \A n \in 1..Len(s) :
                        u[n] = IF s[n] \in kept THEN Append(u[n - 1], s[n]) ELSE u[n - 1]
<1> DEFINE N == Len(s)
           A == Seq(X)
           none == <<>>
           Pass(f) == [n \in 0..N |->
                          IF n = 0 THEN none
                          ELSE IF s[n] \in kept THEN Append(f[n - 1], s[n]) ELSE f[n - 1]]
           u == CHOOSE f : f = Pass(f)
           next(q, n) == IF s[n] \in kept THEN Append(q, s[n]) ELSE q
<1>0. N \in Nat /\ \A n \in 1..N : s[n] \in X
  BY Elements
<1>1. filter(s, kept) = u[N]
  BY DEF filter
<1>2. none \in A
  OBVIOUS
<1>3. \A i \in 1..N : \A q \in A : next(q, i) \in A
  BY <1>0, Appended
<1>4. \A f : Pass(f) = [n \in 0..N |-> IF n = 0 THEN none ELSE next(f[n - 1], n)]
  OBVIOUS
<1> HIDE DEF none, N, A, next, Pass
<1>5. u = Pass(u)
  <2> DEFINE step == [n \in 1..N |-> [q \in A |-> next(q, n)]]
  <2>1. step \in [1..N -> [A -> A]]
    BY <1>3
  <2>2. PICK g \in [0..N -> A] : g[0] = none /\ \A i \in 1..N : g[i] = step[i][g[i - 1]]
    <3>1. Passes(step, N, A)
      BY <2>1 DEF Passes
    <3> HIDE DEF step
    <3>2. PICK g : Folds(g, none, step, N, A)
      BY <1>0, <1>2, <3>1, Folding
    <3> QED BY <3>2 DEF Folds
  <2>3. \A i \in 1..N : g[i] = next(g[i - 1], i)
    <3> SUFFICES ASSUME NEW i \in 1..N PROVE g[i] = next(g[i - 1], i)
      OBVIOUS
    <3>1. g[i - 1] \in A
      BY <1>0, <2>2
    <3> QED BY <2>2, <3>1
  <2> HIDE DEF step
  <2>4. \A i \in 0..N : i = 0 \/ (i \in 1..N /\ i # 0)
    BY <1>0
  <2>5. g = Pass(g)
    BY <1>4, <2>2, <2>3, <2>4
  <2> QED BY <2>5
<1> HIDE DEF u
<1>6. u[0] = none /\ \A n \in 1..N : u[n] = next(u[n - 1], n)
  <2>1. 0 \in 0..N /\ \A n \in 1..N : n \in 0..N /\ n # 0
    BY <1>0
  <2>2. u = [n \in 0..N |-> IF n = 0 THEN none ELSE next(u[n - 1], n)]
    BY <1>4, <1>5
  <2> QED BY <2>1, <2>2
<1> QED BY <1>1, <1>6 DEF none, N, next

\* filter keeps what is in kept.
LEMMA Filtered ==
    ASSUME NEW s \in Seq(Entries), NEW kept
    PROVE  /\ filter(s, kept) \in Seq(Entries)
           /\ \E h : Picked(filter(s, kept), s, Len(s), kept, h)
<1> DEFINE N == Len(s)
           next(q, n) == IF s[n] \in kept THEN Append(q, s[n]) ELSE q
<1>0. N \in Nat
  OBVIOUS
<1>1. PICK u : /\ filter(s, kept) = u[N] /\ u[0] = <<>>
               /\ \A n \in 1..N : u[n] = next(u[n - 1], n)
  BY FilterLoop
<1> DEFINE Good(n) == u[n] \in Seq(Entries) /\ \E h : Picked(u[n], s, n, kept, h)
           V == {n \in 0..N : Good(n)}
<1>2. Good(0)
  <2>1. u[0] \in Seq(Entries) /\ Len(u[0]) = 0
    BY <1>1
  <2>2. Picked(u[0], s, 0, kept, [i \in 1..0 |-> i])
    BY <2>1 DEF Picked
  <2> QED BY <2>1, <2>2
<1>3. ASSUME NEW n \in 0..(N - 1), Good(n) PROVE Good(n + 1)
  <2>1. n \in Nat /\ n + 1 \in 1..N /\ (n + 1) - 1 = n /\ s[n + 1] \in Entries
    BY <1>0
  <2>2. PICK h : Picked(u[n], s, n, kept, h)
    BY <1>3
  <2>3. u[n + 1] = next(u[n], n + 1) /\ u[n] \in Seq(Entries)
    BY <1>1, <1>3, <2>1
  <2> DEFINE q == u[n]
             x == s[n + 1]
             K == Len(q)
  <2>4. K \in Nat /\ q \in Seq(Entries)
    BY <2>3
  <2>5. /\ h \in [1..K -> 1..n]
        /\ \A i \in 1..K : q[i] = s[h[i]] /\ q[i] \in kept
        /\ \A i, j \in 1..K : i < j => h[i] < h[j]
        /\ \A k \in 1..n : s[k] \in kept => \E i \in 1..K : h[i] = k
    BY <2>2 DEF Picked
  <2>6. \A k \in 1..(n + 1) : k \in 1..n \/ k = n + 1
    BY <2>1
  <2>7. CASE x \notin kept
    <3>1. u[n + 1] = q
      BY <2>3, <2>7
    <3> HIDE DEF q
    <3>2. h \in [1..K -> 1..(n + 1)]
      <4>1. \A i \in 1..n : i \in 1..(n + 1)
        BY <2>1
      <4> QED BY <2>5, <4>1
    <3>3. \A k \in 1..(n + 1) : s[k] \in kept => \E i \in 1..K : h[i] = k
      <4> HIDE DEF K
      <4> QED BY <2>5, <2>6, <2>7
    <3>4. Picked(q, s, n + 1, kept, h)
      BY <2>5, <3>2, <3>3 DEF Picked
    <3> QED BY <2>4, <3>1, <3>4
  <2>8. CASE x \in kept
    <3> DEFINE v == Append(q, x)
               g == [i \in 1..(K + 1) |-> IF i = K + 1 THEN n + 1 ELSE h[i]]
    <3>1. u[n + 1] = v
      BY <2>3, <2>8
    <3>2. /\ v \in Seq(Entries) /\ Len(v) = K + 1 /\ v[K + 1] = x
          /\ \A i \in 1..K : v[i] = q[i]
      <4>1. x \in Entries
        BY <2>1
      <4> HIDE DEF x, q
      <4> QED BY <2>4, <4>1, Appended
    <3>3. /\ g[K + 1] = n + 1
          /\ \A i \in 1..K : g[i] = h[i] /\ i \in 1..(K + 1)
          /\ \A i \in 1..(K + 1) : i \in 1..K \/ i = K + 1
          /\ K + 1 \in 1..(K + 1)
      <4> HIDE DEF K
      <4> QED BY <2>4
    <3>4. g \in [1..(K + 1) -> 1..(n + 1)]
      <4>1. g = [i \in 1..(K + 1) |-> g[i]]
        OBVIOUS
      <4>2. \A i \in 1..K : h[i] \in 1..n
        BY <2>5
      <4> HIDE DEF g, K, q
      <4>3. \A i \in 1..(K + 1) : g[i] \in 1..n \/ g[i] = n + 1
        BY <3>3, <4>2
      <4>4. \A i \in 1..(K + 1) : g[i] \in 1..(n + 1)
        BY <2>1, <4>3
      <4> QED BY <4>1, <4>4
    <3> HIDE DEF g, v, x, K, q
    <3>5. \A i \in 1..(K + 1) : v[i] = s[g[i]] /\ v[i] \in kept
      <4>1. v[K + 1] = s[g[K + 1]] /\ v[K + 1] \in kept
        BY <2>8, <3>2, <3>3 DEF x
      <4> QED BY <2>5, <3>2, <3>3, <4>1
    <3>6. \A i, j \in 1..(K + 1) : i < j => g[i] < g[j]
      <4> SUFFICES ASSUME NEW i \in 1..(K + 1), NEW j \in 1..(K + 1), i < j PROVE g[i] < g[j]
        OBVIOUS
      <4>1. i \in 1..K
        BY <2>4
      <4>2. g[i] = h[i] /\ h[i] \in 1..n
        BY <2>5, <3>3, <4>1
      <4>3. CASE j = K + 1
        BY <2>1, <3>3, <4>2, <4>3
      <4>4. CASE j # K + 1
        <5>1. j \in 1..K
          BY <2>4, <4>4
        <5>2. g[j] = h[j]
          BY <3>3, <5>1
        <5> QED BY <2>5, <4>1, <4>2, <5>1, <5>2
      <4> QED BY <4>3, <4>4
    <3>7. \A k \in 1..(n + 1) : s[k] \in kept => \E i \in 1..(K + 1) : g[i] = k
      <4> SUFFICES ASSUME NEW k \in 1..(n + 1), s[k] \in kept
                   PROVE  \E i \in 1..(K + 1) : g[i] = k
        OBVIOUS
      <4>1. CASE k = n + 1
        BY <3>3, <4>1
      <4>2. CASE k \in 1..n
        <5>1. PICK i \in 1..K : h[i] = k
          BY <2>5, <4>2
        <5> QED BY <3>3, <5>1
      <4> QED BY <2>6, <4>1, <4>2
    <3>8. Picked(v, s, n + 1, kept, g)
      BY <3>2, <3>4, <3>5, <3>6, <3>7 DEF Picked
    <3> QED BY <3>1, <3>2, <3>8
  <2> QED BY <2>7, <2>8
<1>4. \A n \in 0..N : n \in V
  <2>1. 0 \in V
    BY <1>0, <1>2
  <2>2. ASSUME NEW n \in 0..(N - 1), n \in V PROVE n + 1 \in V
    <3>1. n + 1 \in 0..N
      BY <1>0
    <3> HIDE DEF Good
    <3> QED BY <1>3, <2>2, <3>1
  <2> HIDE DEF V
  <2> QED BY <1>0, <2>1, <2>2, Induction
<1>5. Good(N)
  <2>1. N \in 0..N
    BY <1>0
  <2> HIDE DEF Good
  <2> QED BY <1>4, <2>1
<1> QED BY <1>1, <1>5

\* What the keys of an entry are.
LEMMA Keys ==
    /\ by_device \in [Entries -> Int] /\ by_size_down \in [Entries -> Int]
    /\ by_mountpoint \in [Entries -> Int]
    /\ \A p \in Entries : by_device[p] = p.device /\ p.device \in Nat
    /\ \A p \in Entries : by_size_down[p] = 2 - p.size /\ p.size \in 0..2
    /\ \A p, q \in Entries :
          p.mountpoint = "/" /\ q.mountpoint \notin {"", "/"} => by_mountpoint[p] < by_mountpoint[q]
<1>1. \A p \in Entries : p.device \in Nat /\ p.size \in 0..2 /\ p.mountpoint \in Mountpoints
  BY DEF Entries, Sizes
<1>2. \A p \in Entries : by_device[p] = p.device /\ by_size_down[p] = 2 - p.size
  BY DEF by_device, by_size_down
<1>3. by_device \in [Entries -> Int]
  BY <1>1 DEF by_device
<1>4. by_size_down \in [Entries -> Int]
  <2>1. \A p \in Entries : 2 - p.size \in Int
    BY <1>1
  <2> QED BY <2>1 DEF by_size_down
<1> DEFINE Places(m) == {i \in 1..Len(PathOrder) : PathOrder[i] = m}
           place(m) == SelectInSeq(PathOrder, LAMBDA w : w = m)
<1>5. \A m : place(m) = IF Places(m) # {} THEN Min(Places(m)) ELSE 0
  BY DEF SelectInSeq
<1>6. Len(PathOrder) = 5 /\ PathOrder[1] = "" /\ PathOrder[2] = "/"
  BY DEF PathOrder
<1>7. Mountpoints = {PathOrder[i] : i \in 1..5}
  <2>1. DOMAIN PathOrder = 1..5
    BY DEF PathOrder
  <2> QED BY <2>1 DEF Mountpoints, ToSet
<1>8. \A p \in Entries : by_mountpoint[p] = place(p.mountpoint)
  BY DEF by_mountpoint
<1> HIDE DEF place
<1>9. \A m \in Mountpoints : place(m) \in Places(m) /\ \A i \in Places(m) : place(m) <= i
  <2> SUFFICES ASSUME NEW m \in Mountpoints
               PROVE  place(m) \in Places(m) /\ \A i \in Places(m) : place(m) <= i
    OBVIOUS
  <2>1. Places(m) \in SUBSET Nat /\ Places(m) # {}
    <3>1. PICK i \in 1..5 : PathOrder[i] = m
      BY <1>7
    <3>2. i \in 1..Len(PathOrder)
      BY <1>6
    <3>3. i \in Places(m)
      BY <3>1, <3>2
    <3> QED BY <3>3
  <2> HIDE DEF Places
  <2>2. \E g \in Places(m) : \A i \in Places(m) : g <= i
    BY <2>1, Least
  <2>3. place(m) = Min(Places(m))
    BY <1>5, <2>1
  <2> QED BY <2>2, <2>3 DEF Min
<1>10. \A m \in Mountpoints : place(m) \in 1..5 /\ PathOrder[place(m)] = m
  BY <1>6, <1>9
<1>11. by_mountpoint \in [Entries -> Int]
  <2>1. \A p \in Entries : place(p.mountpoint) \in Int
    BY <1>1, <1>10
  <2> QED BY <2>1 DEF by_mountpoint, place
<1>12. ASSUME NEW p \in Entries, NEW q \in Entries, p.mountpoint = "/", q.mountpoint \notin {"", "/"}
       PROVE  by_mountpoint[p] < by_mountpoint[q]
  <2>1. p.mountpoint \in Mountpoints /\ q.mountpoint \in Mountpoints
    BY <1>1
  <2>2. 2 \in Places(p.mountpoint)
    <3>1. 2 \in 1..Len(PathOrder)
      <4>1. Len(PathOrder) = 5
        BY <1>6, Zenon
      <4> QED BY <4>1
    <3>2. PathOrder[2] = p.mountpoint
      BY <1>6, <1>12, Zenon
    <3> QED BY <3>1, <3>2
  <2>3. place(p.mountpoint) <= 2 /\ place(p.mountpoint) \in 1..5
    <3> HIDE DEF Places
    <3> QED BY <1>9, <1>10, <2>1, <2>2
  <2>4. place(q.mountpoint) # 1 /\ place(q.mountpoint) # 2 /\ place(q.mountpoint) \in 1..5
    BY <1>6, <1>10, <1>12, <2>1
  <2> QED BY <1>8, <2>3, <2>4
<1> QED BY <1>1, <1>2, <1>3, <1>4, <1>11, <1>12

\* The two sequences have the same elements.
SameOnes(r, s) ==
    /\ Len(r) = Len(s)
    /\ \A i \in 1..Len(r) : \E k \in 1..Len(s) : r[i] = s[k]
    /\ \A k \in 1..Len(s) : \E i \in 1..Len(r) : r[i] = s[k]

\* Sorting keeps the elements and orders them.
LEMMA SortOrders ==
    ASSUME NEW s \in Seq(Entries), NEW key \in [Entries -> Int]
    PROVE  /\ sort(s, key) \in Seq(Entries) /\ SameOnes(sort(s, key), s)
           /\ \A i, j \in 1..Len(s) : i < j => key[sort(s, key)[i]] <= key[sort(s, key)[j]]
<1> DEFINE r == sort(s, key)
           N == Len(s)
<1>1. r \in Seq(Entries)
  BY Sorted
<1>2. PICK f : Arranged(r, s, N, key, f)
  BY Sorted
<1> HIDE DEF r
<1>3. /\ Len(r) = N /\ f \in [1..N -> 1..N]
      /\ \A j \in 1..N : \E i \in 1..N : f[i] = j
      /\ \A i \in 1..N : r[i] = s[f[i]]
  BY <1>2 DEF Arranged, OneToOne
<1>4. SameOnes(r, s)
  <2> HIDE DEF N
  <2>1. \A i \in 1..N : \E k \in 1..N : r[i] = s[k]
    BY <1>3
  <2>2. ASSUME NEW k \in 1..N PROVE \E i \in 1..N : r[i] = s[k]
    <3>1. PICK i \in 1..N : f[i] = k
      BY <1>3
    <3>2. r[i] = s[k]
      BY <1>3, <3>1
    <3> QED BY <3>2
  <2> QED BY <1>3, <2>1, <2>2 DEF SameOnes, N
<1>5. ASSUME NEW i \in 1..N, NEW j \in 1..N, i < j PROVE key[r[i]] <= key[r[j]]
  <2>1. Behind(r, key, f, i, j)
    BY <1>2, <1>5 DEF Arranged
  <2>2. r[i] \in Entries /\ r[j] \in Entries
    <3>1. \A k \in 1..Len(r) : r[k] \in Entries
      BY <1>1, Elements
    <3> QED BY <1>3, <3>1
  <2>3. key[r[i]] \in Int /\ key[r[j]] \in Int
    BY <2>2
  <2> QED BY <2>1, <2>3 DEF Behind
<1> QED BY <1>1, <1>4, <1>5 DEF r

LEMMA SameAgain ==
    ASSUME NEW r, NEW s, NEW t, SameOnes(r, s), SameOnes(s, t)
    PROVE  SameOnes(r, t)
BY DEF SameOnes

\* Of equal keys the one that was first stays first: an order of the sequence that is
\* sorted holds among those with one key.
LEMMA SortStable ==
    ASSUME NEW s \in Seq(Entries), NEW key \in [Entries -> Int], NEW first \in [Entries -> Int],
           \A i, j \in 1..Len(s) : i < j => first[s[i]] <= first[s[j]],
           NEW i \in 1..Len(s), NEW j \in 1..Len(s), i < j,
           key[sort(s, key)[i]] = key[sort(s, key)[j]]
    PROVE  first[sort(s, key)[i]] <= first[sort(s, key)[j]]
<1> DEFINE r == sort(s, key)
           N == Len(s)
<1>1. r \in Seq(Entries)
  BY Sorted
<1>2. PICK f : Arranged(r, s, N, key, f)
  BY Sorted
<1>3. key[r[i]] = key[r[j]]
  OBVIOUS
<1> HIDE DEF r
<1>4. Len(r) = N /\ f[i] \in 1..N /\ f[j] \in 1..N /\ r[i] = s[f[i]] /\ r[j] = s[f[j]]
  BY <1>2 DEF Arranged, OneToOne
<1>5. Behind(r, key, f, i, j)
  BY <1>2 DEF Arranged
<1>6. r[i] \in Entries /\ r[j] \in Entries
  <2>1. \A k \in 1..Len(r) : r[k] \in Entries
    BY <1>1, Elements
  <2> QED BY <1>4, <2>1
<1>7. key[r[i]] \in Int /\ key[r[j]] \in Int
  BY <1>6
<1>8. f[i] < f[j]
  BY <1>3, <1>5, <1>7 DEF Behind
<1>9. first[r[i]] <= first[r[j]]
  BY <1>4, <1>8
<1> QED BY <1>9 DEF r

\* Entries of one device have one size.
SizesAgree(s) == \A i, j \in 1..Len(s) : s[i].device = s[j].device => s[i].size = s[j].size

\* What crypttab is made of: each device once, by the entry that comes first of those
\* sorted by mountpoint.
LEMMA CryptLines ==
    ASSUME NEW s \in Seq(Entries)
    PROVE  LET u == unique_copy(sort(sort(s, by_mountpoint), by_device))
           IN  /\ u \in Seq(Entries)
               /\ \A i, j \in 1..Len(u) : u[i].device = u[j].device => i = j
               /\ \A k \in 1..Len(s) : \E i \in 1..Len(u) : u[i].device = s[k].device
               /\ \A i \in 1..Len(u) : \E k \in 1..Len(s) : u[i] = s[k]
               /\ \A i \in 1..Len(u), k \in 1..Len(s) :
                     u[i].device = s[k].device => by_mountpoint[u[i]] <= by_mountpoint[s[k]]
<1> DEFINE q == sort(s, by_mountpoint)
           r == sort(q, by_device)
           u == unique_copy(r)
           N == Len(s)
<1>0. N \in Nat
  OBVIOUS
<1>1. /\ q \in Seq(Entries) /\ SameOnes(q, s)
      /\ \A i, j \in 1..N : i < j => by_mountpoint[q[i]] <= by_mountpoint[q[j]]
  BY Keys, SortOrders
<1> HIDE DEF q
<1>2. Len(q) = N
  BY <1>1 DEF SameOnes
<1>3. /\ r \in Seq(Entries) /\ SameOnes(r, q)
      /\ \A i, j \in 1..N : i < j => by_device[r[i]] <= by_device[r[j]]
  BY <1>1, <1>2, Keys, SortOrders
<1>4. ASSUME NEW i \in 1..N, NEW j \in 1..N, i < j, by_device[r[i]] = by_device[r[j]]
      PROVE  by_mountpoint[r[i]] <= by_mountpoint[r[j]]
  BY <1>1, <1>2, <1>4, Keys, SortStable
<1> HIDE DEF r
<1>5. SameOnes(r, s) /\ Len(r) = N
  <2>1. SameOnes(r, s)
    BY <1>1, <1>3, SameAgain
  <2> QED BY <2>1 DEF SameOnes
<1>6. \A i \in 1..N : r[i] \in Entries /\ by_device[r[i]] = r[i].device /\ r[i].device \in Nat
  <2>1. \A i \in 1..Len(r) : r[i] \in Entries
    BY <1>3, Elements
  <2> QED BY <1>5, <2>1, Keys
<1>7. Together(r)
  <2> SUFFICES ASSUME NEW i \in 1..N, NEW j \in 1..N, NEW k \in 1..N, i < j, j < k,
                      r[i].device = r[k].device
               PROVE  r[j].device = r[i].device
    BY <1>5 DEF Together
  <2>1. r[i].device <= r[j].device /\ r[j].device <= r[k].device
    BY <1>3, <1>6
  <2> QED BY <1>6, <2>1
<1>8. u \in Seq(Entries)
  BY <1>3, <1>7, UniqueCopied
<1>9. PICK h : FirstOfEach(u, r, N, h)
  BY <1>3, <1>5, <1>7, UniqueCopied
<1> HIDE DEF u
<1> DEFINE K == Len(u)
<1>10. /\ h \in [1..K -> 1..N]
       /\ \A i \in 1..K : u[i] = r[h[i]]
       /\ \A i, j \in 1..K : i < j => h[i] < h[j]
       /\ \A i \in 1..K : \A k \in 1..N : k < h[i] => r[k].device # u[i].device
       /\ \A k \in 1..N : \E i \in 1..K : u[i].device = r[k].device
  BY <1>9 DEF FirstOfEach
<1>11. K \in Nat
  BY <1>8
<1> HIDE DEF K, N
<1>12. ASSUME NEW i \in 1..K, NEW j \in 1..K, i < j PROVE u[i].device # u[j].device
  <2>1. h[i] \in 1..N /\ h[i] < h[j] /\ u[i] = r[h[i]]
    BY <1>10, <1>12
  <2>2. r[h[i]].device # u[j].device
    BY <1>10, <2>1
  <2> QED BY <2>1, <2>2
<1>13. ASSUME NEW i \in 1..K, NEW j \in 1..K, u[i].device = u[j].device PROVE i = j
  <2>1. i < j \/ j < i \/ i = j
    BY <1>11
  <2> QED BY <1>12, <1>13, <2>1
<1>14. ASSUME NEW k \in 1..N PROVE \E i \in 1..K : u[i].device = s[k].device
  <2>1. PICK i \in 1..N : r[i] = s[k]
    BY <1>5 DEF SameOnes, N
  <2> QED BY <1>10, <2>1
<1>15. ASSUME NEW i \in 1..K PROVE \E k \in 1..N : u[i] = s[k]
  <2>1. h[i] \in 1..N /\ u[i] = r[h[i]]
    BY <1>10
  <2>2. \E k \in 1..N : r[h[i]] = s[k]
    BY <1>5, <2>1 DEF SameOnes, N
  <2> QED BY <2>1, <2>2
<1>16. ASSUME NEW i \in 1..K, NEW k \in 1..N, u[i].device = s[k].device
       PROVE  by_mountpoint[u[i]] <= by_mountpoint[s[k]]
  <2>1. PICK m \in 1..N : r[m] = s[k]
    BY <1>5 DEF SameOnes, N
  <2>2. h[i] \in 1..N /\ u[i] = r[h[i]]
    BY <1>10
  <2>3. ~(m < h[i])
    BY <1>10, <1>16, <2>1
  <2>4. CASE h[i] = m
    <3>1. u[i] = s[k] /\ by_mountpoint[s[k]] \in Int
      <4>1. r[m] \in Entries
        BY <1>6
      <4> QED BY <2>1, <2>2, <2>4, <4>1, Keys
    <3> QED BY <3>1
  <2>5. CASE h[i] < m
    <3>1. by_device[r[h[i]]] = by_device[r[m]]
      BY <1>6, <1>16, <2>1, <2>2
    <3>2. by_mountpoint[r[h[i]]] <= by_mountpoint[r[m]]
      BY <1>4, <2>2, <2>5, <3>1
    <3> QED BY <2>1, <2>2, <3>2
  <2>6. h[i] = m \/ h[i] < m
    BY <1>0, <2>2, <2>3
  <2> QED BY <2>4, <2>5, <2>6
<1> QED BY <1>8, <1>13, <1>14, <1>15, <1>16 DEF K, N, u, r, q

\* What the script for sfdisk is made of: each device once, the sizes from the largest.
LEMMA SizeLines ==
    ASSUME NEW s \in Seq(Entries), SizesAgree(s)
    PROVE  LET u == unique_copy(sort(sort(sort(s, by_mountpoint), by_device), by_size_down))
           IN  /\ u \in Seq(Entries)
               /\ \A i, j \in 1..Len(u) :
                     i < j => u[i].device # u[j].device /\ u[i].size >= u[j].size
               /\ \A k \in 1..Len(s) : \E i \in 1..Len(u) : u[i].device = s[k].device
               /\ \A i \in 1..Len(u) : \E k \in 1..Len(s) : u[i] = s[k]
<1> DEFINE p == sort(s, by_mountpoint)
           q == sort(p, by_device)
           r == sort(q, by_size_down)
           u == unique_copy(r)
           N == Len(s)
<1>0. N \in Nat
  OBVIOUS
<1>1. p \in Seq(Entries) /\ SameOnes(p, s)
  BY Keys, SortOrders
<1> HIDE DEF p
<1>2. Len(p) = N
  BY <1>1 DEF SameOnes
<1>3. /\ q \in Seq(Entries) /\ SameOnes(q, p)
      /\ \A i, j \in 1..N : i < j => by_device[q[i]] <= by_device[q[j]]
  BY <1>1, <1>2, Keys, SortOrders
<1> HIDE DEF q
<1>4. Len(q) = N /\ SameOnes(q, s)
  BY <1>1, <1>2, <1>3, SameAgain DEF SameOnes
<1>5. /\ r \in Seq(Entries) /\ SameOnes(r, q)
      /\ \A i, j \in 1..N : i < j => by_size_down[r[i]] <= by_size_down[r[j]]
  BY <1>3, <1>4, Keys, SortOrders
<1>6. ASSUME NEW i \in 1..N, NEW j \in 1..N, i < j, by_size_down[r[i]] = by_size_down[r[j]]
      PROVE  by_device[r[i]] <= by_device[r[j]]
  BY <1>3, <1>4, <1>6, Keys, SortStable
<1> HIDE DEF r
<1>7. SameOnes(r, s) /\ Len(r) = N
  BY <1>4, <1>5, SameAgain DEF SameOnes
<1>8. \A i \in 1..N : /\ r[i] \in Entries /\ by_device[r[i]] = r[i].device
                      /\ r[i].device \in Nat /\ r[i].size \in 0..2
                      /\ by_size_down[r[i]] = 2 - r[i].size
  <2>1. \A i \in 1..Len(r) : r[i] \in Entries
    BY <1>5, Elements
  <2> QED BY <1>7, <2>1, Keys
<1>9. ASSUME NEW i \in 1..N, NEW j \in 1..N, i < j PROVE r[i].size >= r[j].size
  <2>1. by_size_down[r[i]] <= by_size_down[r[j]]
    BY <1>5, <1>9
  <2> QED BY <1>8, <2>1
<1>10. Together(r)
  <2> SUFFICES ASSUME NEW i \in 1..N, NEW j \in 1..N, NEW k \in 1..N, i < j, j < k,
                      r[i].device = r[k].device
               PROVE  r[j].device = r[i].device
    BY <1>7 DEF Together
  <2>1. r[i].size = r[k].size
    <3>1. PICK a \in 1..N : r[i] = s[a]
      BY <1>7 DEF SameOnes
    <3>2. PICK b \in 1..N : r[k] = s[b]
      BY <1>7 DEF SameOnes
    <3> QED BY <3>1, <3>2 DEF SizesAgree
  <2>2. r[i].size >= r[j].size /\ r[j].size >= r[k].size
    BY <1>9
  <2>3. r[i].size = r[j].size /\ r[j].size = r[k].size
    BY <1>8, <2>1, <2>2
  <2>4. by_device[r[i]] <= by_device[r[j]] /\ by_device[r[j]] <= by_device[r[k]]
    <3>1. /\ by_size_down[r[i]] = by_size_down[r[j]]
          /\ by_size_down[r[j]] = by_size_down[r[k]]
      BY <1>8, <2>3
    <3> QED BY <1>6, <3>1
  <2> QED BY <1>8, <2>4
<1>11. u \in Seq(Entries)
  BY <1>5, <1>10, UniqueCopied
<1>12. PICK h : FirstOfEach(u, r, N, h)
  BY <1>5, <1>7, <1>10, UniqueCopied
<1> HIDE DEF u
<1> DEFINE K == Len(u)
<1>13. /\ h \in [1..K -> 1..N]
       /\ \A i \in 1..K : u[i] = r[h[i]]
       /\ \A i, j \in 1..K : i < j => h[i] < h[j]
       /\ \A i \in 1..K : \A k \in 1..N : k < h[i] => r[k].device # u[i].device
       /\ \A k \in 1..N : \E i \in 1..K : u[i].device = r[k].device
  BY <1>12 DEF FirstOfEach
<1> HIDE DEF K, N
<1>14. ASSUME NEW i \in 1..K, NEW j \in 1..K, i < j
       PROVE  u[i].device # u[j].device /\ u[i].size >= u[j].size
  <2>1. h[i] \in 1..N /\ h[j] \in 1..N /\ h[i] < h[j] /\ u[i] = r[h[i]] /\ u[j] = r[h[j]]
    BY <1>13, <1>14
  <2>2. r[h[i]].device # u[j].device
    BY <1>13, <2>1
  <2> QED BY <1>9, <2>1, <2>2
<1>15. ASSUME NEW k \in 1..N PROVE \E i \in 1..K : u[i].device = s[k].device
  <2>1. PICK i \in 1..N : r[i] = s[k]
    BY <1>7 DEF SameOnes, N
  <2> QED BY <1>13, <2>1
<1>16. ASSUME NEW i \in 1..K PROVE \E k \in 1..N : u[i] = s[k]
  <2>1. h[i] \in 1..N /\ u[i] = r[h[i]]
    BY <1>13
  <2>2. \E k \in 1..N : r[h[i]] = s[k]
    BY <1>7, <2>1 DEF SameOnes, N
  <2> QED BY <2>1, <2>2
<1> QED BY <1>11, <1>14, <1>15, <1>16 DEF K, N, u, r, q, p

\* A set of places that is not empty has a first one.
LEMMA FirstPlace ==
    ASSUME NEW N \in Nat, NEW S \in SUBSET (1..N), S # {}
    PROVE  Min(S) \in S /\ \A k \in S : Min(S) <= k
<1>1. S \in SUBSET Nat
  OBVIOUS
<1>2. \E m \in S : \A k \in S : m <= k
  BY <1>1, Least
<1> QED BY <1>2 DEF Min

\* No subvolume is a name of its own.
LEMMA NamesOfSubvolumes == NoSubvolume \notin SubvolumeNames /\ "top" \notin SubvolumeNames
BY DEF NoSubvolume, SubvolumeNames

\* A vector that subvolumes may be entered into: entry r is the root, on Btrfs, no
\* mountpoint is there twice, and no subvolume yet.
Enterable(s, r) ==
    /\ s \in Seq(Entries) /\ r \in 1..Len(s)
    /\ s[r].mountpoint = "/" /\ s[r].fstype = "btrfs"
    /\ \A i, j \in 1..Len(s) : s[i].mountpoint = s[j].mountpoint => i = j
    /\ \A i \in 1..Len(s) : s[i].subvolume = NoSubvolume

\* Subvolumes to enter, none listed twice.
Enterables(l) ==
    /\ l \in Seq(Subvolumes)
    /\ \A i, j \in 1..Len(l) : l[i].subvolume = l[j].subvolume => i = j

\* The names of the first n of them.
NamesUpTo(n, l) == {l[k].subvolume : k \in 1..n}

\* p is the entry a but for its subvolume; it is a copy of the root for another mountpoint.
SameEntry(p, a) ==
    /\ p.fstype = a.fstype /\ p.mountpoint = a.mountpoint /\ p.device = a.device
    /\ p.size = a.size /\ p.uuid = a.uuid /\ p.luks = a.luks
CopyOfRoot(p, root) ==
    /\ p.fstype = root.fstype /\ p.device = root.device /\ p.uuid = root.uuid
    /\ p.luks = root.luks /\ p.size = 0 /\ p.mountpoint \notin {"", "/"}

\* q is s with the first n of l entered.
Entered(q, s, r, n, l) ==
    /\ q \in Seq(Entries) /\ Len(s) <= Len(q)
    /\ \A i \in 1..Len(s) : SameEntry(q[i], s[i])
    /\ \A i \in (Len(s) + 1)..Len(q) : CopyOfRoot(q[i], s[r])
    /\ \A i, j \in 1..Len(q) : q[i].mountpoint = q[j].mountpoint => i = j
    /\ \A i \in 1..Len(q) : q[i].subvolume \in NamesUpTo(n, l) \cup {NoSubvolume}

\* x is q with v entered: one entry has both, and others than that are as they were.
EntersOne(x, q, v) ==
    /\ Len(q) <= Len(x)
    /\ \E i \in 1..Len(x) : x[i].mountpoint = v.mountpoint /\ x[i].subvolume = v.subvolume
    /\ \A i \in 1..Len(q) : q[i].mountpoint # v.mountpoint => x[i] = q[i]

Found(q, v) == SelectInSeq(q, LAMBDA p : find_partition(p, v))

\* The entry that append_subvolume finds, if any, is that of the mountpoint, and the root
\* it copies is the one entry for it.
LEMMA PlaceFound ==
    ASSUME NEW s, NEW r, Enterable(s, r), NEW l, Enterables(l), NEW n \in 0..(Len(l) - 1),
           NEW q, Entered(q, s, r, n, l)
    PROVE  LET v == l[n + 1]
               found == Found(q, v)
           IN  /\ v \in Subvolumes
               /\ \/ /\ found = 0
                     /\ \A i \in 1..Len(q) : q[i].mountpoint # v.mountpoint
                  \/ found \in 1..Len(q) /\ q[found].mountpoint = v.mountpoint
               /\ find_root_btrfs_part(q) = r /\ r \in 1..Len(q) /\ q[r].mountpoint = "/"
<1> DEFINE v == l[n + 1]
           found == Found(q, v)
           N == Len(q)
           I == {i \in 1..N : find_partition(q[i], v)}
           R == {i \in 1..N : is_root_btrfs_part(q[i])}
<1>0. q \in Seq(Entries) /\ N \in Nat /\ Len(l) \in Nat
  BY DEF Entered, Enterables
<1>1. n + 1 \in 1..Len(l) /\ \A k \in 1..n : k \in 1..Len(l) /\ k # n + 1
  BY <1>0
<1>2. v \in Subvolumes /\ v.subvolume \in SubvolumeNames
  <2>1. v \in Subvolumes
    BY <1>1 DEF Enterables
  <2> QED BY <2>1 DEF Subvolumes
<1>3. \A i \in 1..N : q[i].subvolume # v.subvolume
  <2> SUFFICES ASSUME NEW i \in 1..N, q[i].subvolume = v.subvolume PROVE FALSE
    OBVIOUS
  <2>1. q[i].subvolume # NoSubvolume
    BY <1>2, NamesOfSubvolumes
  <2>2. PICK k \in 1..n : q[i].subvolume = l[k].subvolume
    BY <2>1 DEF Entered, NamesUpTo
  <2>3. k = n + 1
    BY <1>1, <2>2 DEF Enterables
  <2> QED BY <1>1, <2>3
<1>4. found = IF I # {} THEN Min(I) ELSE 0
  BY DEF SelectInSeq, Found
<1>5. find_root_btrfs_part(q) = IF R # {} THEN Min(R) ELSE 0
  BY DEF SelectInSeq, find_root_btrfs_part
<1>6. r \in 1..N /\ q[r].mountpoint = "/" /\ q[r].fstype = "btrfs"
  <2>1. r \in 1..Len(s) /\ Len(s) <= N /\ Len(s) \in Nat
    BY DEF Entered, Enterable
  <2>2. SameEntry(q[r], s[r])
    BY <2>1 DEF Entered
  <2> QED BY <1>0, <2>1, <2>2 DEF Enterable, SameEntry
<1>7. find_root_btrfs_part(q) = r
  <2>1. r \in R /\ R \in SUBSET (1..N)
    BY <1>6 DEF is_root_btrfs_part
  <2>2. Min(R) \in R
    <3> HIDE DEF R
    <3> QED BY <1>0, <2>1, FirstPlace
  <2>3. Min(R) \in 1..N /\ q[Min(R)].mountpoint = "/"
    BY <2>2 DEF is_root_btrfs_part
  <2>4. Min(R) = r
    <3> HIDE DEF R
    <3> QED BY <1>6, <2>3 DEF Entered
  <2> QED BY <1>5, <2>1, <2>4
<1> HIDE DEF found, v
<1>8. \/ found = 0 /\ \A i \in 1..N : q[i].mountpoint # v.mountpoint
      \/ found \in 1..N /\ q[found].mountpoint = v.mountpoint
  <2>1. CASE I = {}
    <3>1. \A i \in 1..N : q[i].mountpoint # v.mountpoint
      BY <2>1 DEF find_partition
    <3> QED BY <1>4, <2>1, <3>1
  <2>2. CASE I # {}
    <3>1. I \in SUBSET (1..N)
      OBVIOUS
    <3>2. found \in I
      <4> HIDE DEF I
      <4> QED BY <1>0, <1>4, <2>2, <3>1, FirstPlace
    <3>3. found \in 1..N /\ find_partition(q[found], v)
      BY <3>2
    <3> HIDE DEF I
    <3> QED BY <1>3, <3>3 DEF find_partition
  <2> QED BY <2>1, <2>2
<1> QED BY <1>2, <1>6, <1>7, <1>8 DEF found, v

\* x is the entry p with other values for its mountpoint and subvolume; or with no size, too.
Changed(x, p, m, v) == x = [p EXCEPT !.mountpoint = m, !.subvolume = v]
Copied(x, p, m, v) == x = [p EXCEPT !.mountpoint = m, !.size = 0, !.subvolume = v]

LEMMA EntryChanged ==
    ASSUME NEW p \in Entries, NEW m \in Mountpoints,
           NEW v \in SubvolumeNames, NEW x, Changed(x, p, m, v)
    PROVE  /\ x \in Entries /\ x.mountpoint = m /\ x.subvolume = v
           /\ x.fstype = p.fstype /\ x.device = p.device /\ x.size = p.size
           /\ x.uuid = p.uuid /\ x.luks = p.luks
BY DEF Entries, Changed

LEMMA EmptySize == 0 \in Sizes
BY DEF Sizes

LEMMA RootCopied ==
    ASSUME NEW p \in Entries, NEW m \in Mountpoints, m \notin {"", "/"},
           NEW v \in SubvolumeNames, NEW x, Copied(x, p, m, v)
    PROVE  x \in Entries /\ x.mountpoint = m /\ x.subvolume = v /\ CopyOfRoot(x, p)
<1>1. /\ x.mountpoint = m /\ x.subvolume = v /\ x.size = 0 /\ x.fstype = p.fstype
      /\ x.device = p.device /\ x.uuid = p.uuid /\ x.luks = p.luks
  BY DEF Entries, Copied
<1>2. x \in Entries
  BY EmptySize DEF Entries, Copied
<1> QED BY <1>1, <1>2 DEF CopyOfRoot

\* One subvolume more.
LEMMA EnterOne ==
    ASSUME NEW s, NEW r, Enterable(s, r), NEW l, Enterables(l), NEW n \in 0..(Len(l) - 1),
           NEW q, Entered(q, s, r, n, l)
    PROVE  LET x == append_subvolume(q, l[n + 1])
           IN  Entered(x, s, r, n + 1, l) /\ EntersOne(x, q, l[n + 1])
<1> DEFINE v == l[n + 1]
           found == Found(q, v)
           x == append_subvolume(q, v)
           N == Len(q)
           M == Len(s)
<1>0. q \in Seq(Entries) /\ N \in Nat /\ M \in Nat /\ M <= N /\ r \in 1..M
  BY DEF Entered, Enterable
<1>1. /\ v \in Subvolumes
      /\ \/ found = 0 /\ \A i \in 1..N : q[i].mountpoint # v.mountpoint
         \/ found \in 1..N /\ q[found].mountpoint = v.mountpoint
      /\ find_root_btrfs_part(q) = r /\ r \in 1..N /\ q[r].mountpoint = "/"
  BY PlaceFound
<1>2. v.subvolume \in SubvolumeNames /\ v.mountpoint \in Mountpoints /\ v.mountpoint # ""
  BY <1>1 DEF Subvolumes
<1>3. x = IF found # 0
          THEN [q EXCEPT ![found].mountpoint = v.mountpoint, ![found].subvolume = v.subvolume]
          ELSE Append(q, [q[r] EXCEPT !.mountpoint = v.mountpoint, !.size = 0,
                                      !.subvolume = v.subvolume])
  BY <1>1 DEF append_subvolume, Found
<1>4. /\ \A i \in 1..N : q[i] \in Entries
      /\ \A i \in 1..M : SameEntry(q[i], s[i]) /\ i \in 1..N
      /\ \A i \in (M + 1)..N : CopyOfRoot(q[i], s[r])
      /\ \A i, j \in 1..N : q[i].mountpoint = q[j].mountpoint => i = j
      /\ \A i \in 1..N : q[i].subvolume \in NamesUpTo(n, l) \cup {NoSubvolume}
  <2>1. \A i \in 1..M : i \in 1..N
    BY <1>0
  <2>2. \A i \in 1..N : q[i] \in Entries
    BY <1>0
  <2> QED BY <2>1, <2>2 DEF Entered
<1>5. /\ NamesUpTo(n, l) \subseteq NamesUpTo(n + 1, l)
      /\ v.subvolume \in NamesUpTo(n + 1, l)
  <2>1. n \in Nat /\ n + 1 \in 1..(n + 1) /\ \A k \in 1..n : k \in 1..(n + 1)
    BY DEF Enterables
  <2> QED BY <2>1 DEF NamesUpTo
<1> HIDE DEF v, found, x
<1>6. CASE found \in 1..N /\ q[found].mountpoint = v.mountpoint
  <2> DEFINE y == [q[found] EXCEPT !.mountpoint = v.mountpoint, !.subvolume = v.subvolume]
  <2>1. x = [q EXCEPT ![found] = y]
    <3>1. found # 0
      BY <1>6
    <3> QED BY <1>0, <1>3, <1>6, <3>1
  <2>2. /\ y \in Entries /\ y.mountpoint = v.mountpoint /\ y.subvolume = v.subvolume
        /\ y.fstype = q[found].fstype /\ y.device = q[found].device
        /\ y.size = q[found].size /\ y.uuid = q[found].uuid /\ y.luks = q[found].luks
    <3>1. q[found] \in Entries
      BY <1>2, <1>4, <1>6
    <3>2. Changed(y, q[found], v.mountpoint, v.subvolume)
      BY DEF Changed
    <3> DEFINE p == q[found]
               m == v.mountpoint
               w == v.subvolume
    <3>3. p \in Entries /\ m \in Mountpoints /\ w \in SubvolumeNames /\ Changed(y, p, m, w)
      BY <1>2, <3>1, <3>2
    <3> HIDE DEF y, p, m, w
    <3>4. /\ y \in Entries /\ y.mountpoint = m /\ y.subvolume = w
          /\ y.fstype = p.fstype /\ y.device = p.device /\ y.size = p.size
          /\ y.uuid = p.uuid /\ y.luks = p.luks
      BY <3>3, EntryChanged
    <3> QED BY <3>4 DEF p, m, w
  <2> HIDE DEF y
  <2>3. /\ x \in Seq(Entries) /\ Len(x) = N /\ x[found] = y
        /\ \A i \in 1..N : i # found => x[i] = q[i]
    BY <1>0, <1>6, <2>1, <2>2
  <2>4. \A i \in 1..N : SameEntry(x[i], q[i])
    <3> SUFFICES ASSUME NEW i \in 1..N PROVE SameEntry(x[i], q[i])
      OBVIOUS
    <3>1. CASE i = found
      BY <1>6, <2>2, <2>3, <3>1 DEF SameEntry
    <3>2. CASE i # found
      BY <2>3, <3>2 DEF SameEntry
    <3> QED BY <3>1, <3>2
  <2>5. \A i \in 1..N : x[i].mountpoint = q[i].mountpoint
    BY <2>4 DEF SameEntry
  <2>6. \A i \in 1..M : SameEntry(x[i], s[i])
    BY <1>4, <2>4 DEF SameEntry
  <2>7. ASSUME NEW i \in (M + 1)..N PROVE CopyOfRoot(x[i], s[r])
    <3>1. i \in 1..N
      BY <1>0
    <3>2. SameEntry(x[i], q[i])
      BY <2>4, <3>1
    <3>3. CopyOfRoot(q[i], s[r])
      BY <1>4
    <3> QED BY <3>2, <3>3 DEF SameEntry, CopyOfRoot
  <2>8. \A i, j \in 1..N : x[i].mountpoint = x[j].mountpoint => i = j
    BY <1>4, <2>5
  <2>9. \A i \in 1..N : x[i].subvolume \in NamesUpTo(n + 1, l) \cup {NoSubvolume}
    <3> SUFFICES ASSUME NEW i \in 1..N
                 PROVE  x[i].subvolume \in NamesUpTo(n + 1, l) \cup {NoSubvolume}
      OBVIOUS
    <3>1. CASE i = found
      BY <1>5, <2>2, <2>3, <3>1
    <3>2. CASE i # found
      BY <1>4, <1>5, <2>3, <3>2
    <3> QED BY <3>1, <3>2
  <2>10. Entered(x, s, r, n + 1, l)
    BY <1>0, <2>3, <2>6, <2>7, <2>8, <2>9 DEF Entered
  <2>11. EntersOne(x, q, v)
    <3>1. x[found].mountpoint = v.mountpoint /\ x[found].subvolume = v.subvolume
      BY <2>2, <2>3
    <3>2. \A i \in 1..N : q[i].mountpoint # v.mountpoint => x[i] = q[i]
      BY <1>6, <2>3
    <3> QED BY <1>0, <1>6, <2>3, <3>1, <3>2 DEF EntersOne
  <2> QED BY <2>10, <2>11 DEF x, v
<1>7. CASE found = 0 /\ \A i \in 1..N : q[i].mountpoint # v.mountpoint
  <2> DEFINE y == [q[r] EXCEPT !.mountpoint = v.mountpoint, !.size = 0,
                               !.subvolume = v.subvolume]
  <2>1. x = Append(q, y)
    BY <1>3, <1>7
  <2>2. /\ y \in Entries /\ y.mountpoint = v.mountpoint /\ y.subvolume = v.subvolume
        /\ CopyOfRoot(y, q[r])
    <3>1. v.mountpoint \in Mountpoints /\ v.mountpoint \notin {"", "/"}
      BY <1>1, <1>2, <1>7
    <3>2. q[r] \in Entries
      BY <1>1, <1>4
    <3>3. Copied(y, q[r], v.mountpoint, v.subvolume)
      BY DEF Copied
    <3> HIDE DEF y
    <3> QED BY <1>2, <3>1, <3>2, <3>3, RootCopied
  <2> HIDE DEF y
  <2>3. /\ x \in Seq(Entries) /\ Len(x) = N + 1 /\ x[N + 1] = y
        /\ \A i \in 1..N : x[i] = q[i]
    BY <1>0, <2>1, <2>2, Appended
  <2>4. CopyOfRoot(y, s[r])
    <3>1. SameEntry(q[r], s[r])
      BY <1>0, <1>4
    <3> QED BY <2>2, <3>1 DEF CopyOfRoot, SameEntry
  <2>5. \A i \in 1..(N + 1) : i \in 1..N \/ i = N + 1
    BY <1>0
  <2>6. \A i \in 1..M : SameEntry(x[i], s[i])
    BY <1>4, <2>3
  <2>7. ASSUME NEW i \in (M + 1)..(N + 1) PROVE CopyOfRoot(x[i], s[r])
    <3>1. (i \in (M + 1)..N /\ i \in 1..N) \/ i = N + 1
      BY <1>0
    <3> QED BY <1>4, <2>3, <2>4, <3>1
  <2>8. \A i, j \in 1..(N + 1) : x[i].mountpoint = x[j].mountpoint => i = j
    <3> SUFFICES ASSUME NEW i \in 1..(N + 1), NEW j \in 1..(N + 1),
                        x[i].mountpoint = x[j].mountpoint
                 PROVE  i = j
      OBVIOUS
    <3> QED BY <1>4, <1>7, <2>2, <2>3, <2>5
  <2>9. \A i \in 1..(N + 1) : x[i].subvolume \in NamesUpTo(n + 1, l) \cup {NoSubvolume}
    BY <1>4, <1>5, <2>2, <2>3, <2>5
  <2>10. Entered(x, s, r, n + 1, l)
    <3>1. M <= N + 1
      BY <1>0
    <3> QED BY <2>3, <2>6, <2>7, <2>8, <2>9, <3>1 DEF Entered
  <2>11. EntersOne(x, q, v)
    <3>1. N <= N + 1 /\ N + 1 \in 1..(N + 1)
      BY <1>0
    <3> QED BY <2>2, <2>3, <3>1 DEF EntersOne
  <2> QED BY <2>10, <2>11 DEF x, v
<1> QED BY <1>1, <1>6, <1>7

\* What entering subvolumes has after each of them.
LEMMA AppendLoop ==
    ASSUME NEW s, NEW r, Enterable(s, r), NEW l, Enterables(l), l # <<>>
    PROVE  \E u : /\ btrfs_append_subvolumes(s, l) = sort(u[Len(l)], by_device)
                  /\ \A n \in 0..Len(l) : Entered(u[n], s, r, n, l)
                  /\ u[0] = s
                  /\ \A n \in 1..Len(l) : u[n] = append_subvolume(u[n - 1], l[n])
<1> DEFINE N == Len(l)
           A == Seq(Entries)
           Pass(f) == [n \in 0..N |->
                          IF n = 0 THEN s ELSE append_subvolume(f[n - 1], l[n])]
           u == CHOOSE f : f = Pass(f)
<1>0. N \in Nat /\ N # 0 /\ s \in A /\ Len(s) \in Nat
  BY DEF Enterables, Enterable
<1>1. Entered(s, s, r, 0, l)
  <2>1. \A i \in (Len(s) + 1)..Len(s) : FALSE
    BY <1>0
  <2> QED BY <1>0, <2>1 DEF Entered, Enterable, SameEntry
<1>2. find_root_btrfs_part(s) # 0
  <2>1. 0 \in 0..(N - 1)
    BY <1>0
  <2>2. find_root_btrfs_part(s) = r
    BY <1>1, <2>1, PlaceFound
  <2> QED BY <2>2 DEF Enterable
<1>3. btrfs_append_subvolumes(s, l) = sort(u[N], by_device)
  BY <1>2 DEF btrfs_append_subvolumes
<1>4. ASSUME NEW n \in 1..N, NEW q, Entered(q, s, r, n - 1, l)
      PROVE  Entered(append_subvolume(q, l[n]), s, r, n, l)
  <2>1. n - 1 \in 0..(N - 1) /\ (n - 1) + 1 = n
    BY <1>0
  <2> QED BY <1>4, <2>1, EnterOne
<1>5. \A q, n : Entered(q, s, r, n, l) => q \in A
  BY DEF Entered
<1> HIDE DEF N, A
<1>6. u = Pass(u)
  <2> DEFINE next(q, n) == append_subvolume(q, l[n])
             step == [n \in 1..N |-> [q \in A |-> IF next(q, n) \in A THEN next(q, n) ELSE s]]
  <2>1. step \in [1..N -> [A -> A]]
    BY <1>0
  <2>2. PICK g \in [0..N -> A] : g[0] = s /\ \A i \in 1..N : g[i] = step[i][g[i - 1]]
    <3>1. Passes(step, N, A)
      BY <2>1 DEF Passes
    <3> HIDE DEF step
    <3>2. PICK g : Folds(g, s, step, N, A)
      BY <1>0, <3>1, Folding
    <3> QED BY <3>2 DEF Folds
  <2>3. ASSUME NEW i \in 1..N, Entered(g[i - 1], s, r, i - 1, l)
        PROVE  g[i] = next(g[i - 1], i) /\ Entered(g[i], s, r, i, l)
    <3>1. Entered(next(g[i - 1], i), s, r, i, l)
      BY <1>4, <2>3
    <3> HIDE DEF next
    <3>2. g[i - 1] \in A /\ next(g[i - 1], i) \in A
      BY <1>5, <2>3, <3>1
    <3>3. g[i] = next(g[i - 1], i)
      BY <2>2, <3>2
    <3> QED BY <3>1, <3>3
  <2> HIDE DEF step
  <2> DEFINE V == {n \in 0..N : Entered(g[n], s, r, n, l)}
  <2>4. \A n \in 0..N : n \in V
    <3>1. 0 \in V
      BY <1>0, <1>1, <2>2
    <3>2. ASSUME NEW n \in 0..(N - 1), n \in V PROVE n + 1 \in V
      <4>1. n + 1 \in 1..N /\ n + 1 \in 0..N /\ (n + 1) - 1 = n
        BY <1>0
      <4> QED BY <2>3, <3>2, <4>1
    <3> HIDE DEF V
    <3> QED BY <1>0, <3>1, <3>2, Induction
  <2>5. \A i \in 1..N : g[i] = append_subvolume(g[i - 1], l[i])
    <3> SUFFICES ASSUME NEW i \in 1..N PROVE g[i] = append_subvolume(g[i - 1], l[i])
      OBVIOUS
    <3>1. i - 1 \in 0..N
      BY <1>0
    <3> QED BY <2>3, <2>4, <3>1
  <2>6. \A i \in 0..N : i = 0 \/ (i \in 1..N /\ i # 0)
    BY <1>0
  <2>7. g = Pass(g)
    BY <2>2, <2>5, <2>6
  <2>8. \E f : f = Pass(f)
    BY <2>7
  <2> HIDE DEF Pass
  <2> QED BY <2>8
<1> HIDE DEF u
<1>7. u[0] = s /\ \A n \in 1..N : u[n] = append_subvolume(u[n - 1], l[n])
  <2>1. 0 \in 0..N /\ \A n \in 1..N : n \in 0..N /\ n # 0
    BY <1>0
  <2> QED BY <1>6, <2>1
<1> HIDE DEF Pass
<1> DEFINE V == {n \in 0..N : Entered(u[n], s, r, n, l)}
<1>8. \A n \in 0..N : n \in V
  <2>1. 0 \in V
    BY <1>0, <1>1, <1>7
  <2>2. ASSUME NEW n \in 0..(N - 1), n \in V PROVE n + 1 \in V
    <3>1. n + 1 \in 1..N /\ n + 1 \in 0..N /\ (n + 1) - 1 = n
      BY <1>0
    <3>2. u[n + 1] = append_subvolume(u[n], l[n + 1])
      BY <1>7, <3>1
    <3> QED BY <1>4, <2>2, <3>1, <3>2
  <2> HIDE DEF V
  <2> QED BY <1>0, <2>1, <2>2, Induction
<1> QED BY <1>3, <1>7, <1>8 DEF N

\* What may be visible at a mountpoint.
Visibles == SubvolumeNames \cup {"top", NoSubvolume}

\* What is mounted after each mount.
LEMMA MountLoop ==
    ASSUME NEW l, Enterables(l), NEW N \in 0..Len(l), NEW t \in [Mountpoints -> Visibles]
    PROVE  \E w : /\ mount_first(N, l, t) = w[N] /\ w[0] = t
                  /\ \A n \in 1..N : w[n] = mount_subvol(w[n - 1], l[n])
                  /\ \A n \in 0..N : w[n] \in [Mountpoints -> Visibles]
<1> DEFINE A == [Mountpoints -> Visibles]
           Pass(f) == [n \in 0..N |-> IF n = 0 THEN t ELSE mount_subvol(f[n - 1], l[n])]
           w == CHOOSE f : f = Pass(f)
<1>0. N \in Nat /\ t \in A
  BY DEF Enterables
<1>1. mount_first(N, l, t) = w[N]
  BY DEF mount_first
<1>2. ASSUME NEW n \in 1..N, NEW q \in A PROVE mount_subvol(q, l[n]) \in A
  <2>1. n \in 1..Len(l) /\ l \in Seq(Subvolumes)
    BY DEF Enterables
  <2>2. l[n] \in Subvolumes
    BY <2>1
  <2>3. l[n].subvolume \in Visibles /\ NoSubvolume \in Visibles
    BY <2>2 DEF Subvolumes, Visibles
  <2> QED BY <2>3 DEF mount_subvol
<1> HIDE DEF A
<1>3. w = Pass(w)
  <2> DEFINE next(q, n) == mount_subvol(q, l[n])
  <2> DEFINE step == [n \in 1..N |-> [q \in A |-> next(q, n)]]
  <2>1. step \in [1..N -> [A -> A]]
    BY <1>2
  <2> HIDE DEF next
  <2>2. PICK g \in [0..N -> A] : g[0] = t /\ \A i \in 1..N : g[i] = step[i][g[i - 1]]
    <3>1. Passes(step, N, A)
      BY <2>1 DEF Passes
    <3> HIDE DEF step
    <3>2. PICK g : Folds(g, t, step, N, A)
      BY <1>0, <3>1, Folding
    <3> QED BY <3>2 DEF Folds
  <2>3. \A i \in 1..N : g[i] = next(g[i - 1], i)
    <3> SUFFICES ASSUME NEW i \in 1..N PROVE g[i] = next(g[i - 1], i)
      OBVIOUS
    <3>1. g[i - 1] \in A
      BY <1>0, <2>2
    <3> QED BY <2>2, <3>1
  <2> HIDE DEF step
  <2>4. \A i \in 0..N : i = 0 \/ (i \in 1..N /\ i # 0)
    BY <1>0
  <2>5. g = Pass(g)
    BY <2>2, <2>3, <2>4 DEF next
  <2>6. \E f : f = Pass(f)
    BY <2>5
  <2> HIDE DEF Pass
  <2> QED BY <2>6
<1> HIDE DEF w
<1>4. w[0] = t /\ \A n \in 1..N : w[n] = mount_subvol(w[n - 1], l[n])
  <2>1. 0 \in 0..N /\ \A n \in 1..N : n \in 0..N /\ n # 0
    BY <1>0
  <2> QED BY <1>3, <2>1
<1> HIDE DEF Pass
<1> DEFINE V == {n \in 0..N : w[n] \in A}
<1>5. \A n \in 0..N : n \in V
  <2>1. 0 \in V
    BY <1>0, <1>4
  <2>2. ASSUME NEW n \in 0..(N - 1), n \in V PROVE n + 1 \in V
    <3>1. n + 1 \in 1..N /\ n + 1 \in 0..N /\ (n + 1) - 1 = n
      BY <1>0
    <3>2. w[n + 1] = mount_subvol(w[n], l[n + 1])
      BY <1>4, <3>1
    <3> QED BY <1>2, <2>2, <3>1, <3>2
  <2> HIDE DEF V
  <2> QED BY <1>0, <2>1, <2>2, Induction
<1> QED BY <1>1, <1>4, <1>5 DEF A

\* Every subvolume that is visible has an entry for the place where it is.
HasEntry(q, t, m) ==
    \E i \in 1..Len(q) : q[i].mountpoint = m /\ q[i].subvolume = t[m]
AllHaveEntries(q, t) ==
    \A m \in Mountpoints : t[m] \in {NoSubvolume, "top"} \/ HasEntry(q, t, m)

\* A subvolume that is entered and mounted has an entry, and the others keep theirs.
LEMMA MountedHasEntry ==
    ASSUME NEW q, NEW t, AllHaveEntries(q, t), NEW v, NEW x, EntersOne(x, q, v), Len(q) \in Nat
    PROVE  AllHaveEntries(x, mount_subvol(t, v))
<1> DEFINE w == mount_subvol(t, v)
<1> SUFFICES ASSUME NEW m \in Mountpoints, w[m] \notin {NoSubvolume, "top"}
             PROVE  HasEntry(x, w, m)
  BY DEF AllHaveEntries
<1>1. w[m] = IF m = v.mountpoint THEN v.subvolume
             ELSE IF v.mountpoint = "/" THEN NoSubvolume ELSE t[m]
  BY DEF mount_subvol
<1> HIDE DEF w
<1>2. CASE m = v.mountpoint
  BY <1>1, <1>2 DEF EntersOne, HasEntry
<1>3. CASE m # v.mountpoint
  <2>1. w[m] = t[m] /\ t[m] \notin {NoSubvolume, "top"}
    BY <1>1, <1>3
  <2>2. PICK i \in 1..Len(q) : q[i].mountpoint = m /\ q[i].subvolume = t[m]
    BY <2>1 DEF AllHaveEntries, HasEntry
  <2>3. x[i] = q[i]
    BY <1>3, <2>2 DEF EntersOne
  <2>4. i \in 1..Len(x)
    BY DEF EntersOne
  <2> QED BY <2>1, <2>2, <2>3, <2>4 DEF HasEntry
<1> QED BY <1>2, <1>3

\* When all subvolumes are entered and mounted, each that is visible has an entry.
LEMMA AllMounted ==
    ASSUME NEW s, NEW r, Enterable(s, r), NEW l, Enterables(l), l # <<>>,
           NEW t \in [Mountpoints -> Visibles],
           \A m \in Mountpoints : t[m] \in {NoSubvolume, "top"}
    PROVE  \E q : /\ btrfs_append_subvolumes(s, l) = sort(q, by_device)
                  /\ Entered(q, s, r, Len(l), l)
                  /\ AllHaveEntries(q, mount_first(Len(l), l, t))
<1> DEFINE N == Len(l)
<1>0. N \in Nat /\ N \in 0..N
  BY DEF Enterables
<1>1. PICK u : /\ btrfs_append_subvolumes(s, l) = sort(u[N], by_device)
               /\ \A n \in 0..N : Entered(u[n], s, r, n, l)
               /\ u[0] = s
               /\ \A n \in 1..N : u[n] = append_subvolume(u[n - 1], l[n])
  BY AppendLoop
<1>2. PICK w : /\ mount_first(N, l, t) = w[N] /\ w[0] = t
               /\ \A n \in 1..N : w[n] = mount_subvol(w[n - 1], l[n])
  BY <1>0, MountLoop
<1> DEFINE V == {n \in 0..N : AllHaveEntries(u[n], w[n])}
<1>3. \A n \in 0..N : n \in V
  <2>1. 0 \in V
    BY <1>0, <1>2 DEF AllHaveEntries
  <2>2. ASSUME NEW n \in 0..(N - 1), n \in V PROVE n + 1 \in V
    <3>1. n + 1 \in 1..N /\ n + 1 \in 0..N /\ (n + 1) - 1 = n /\ n \in 0..N
      BY <1>0
    <3>2. u[n + 1] = append_subvolume(u[n], l[n + 1]) /\ w[n + 1] = mount_subvol(w[n], l[n + 1])
      BY <1>1, <1>2, <3>1
    <3>3. Entered(u[n], s, r, n, l)
      BY <1>1, <3>1
    <3>4. EntersOne(append_subvolume(u[n], l[n + 1]), u[n], l[n + 1])
      BY <3>3, EnterOne
    <3>5. Len(u[n]) \in Nat
      BY <3>3 DEF Entered
    <3>6. AllHaveEntries(append_subvolume(u[n], l[n + 1]), mount_subvol(w[n], l[n + 1]))
      BY <2>2, <3>4, <3>5, MountedHasEntry
    <3> QED BY <3>1, <3>2, <3>6
  <2> HIDE DEF V
  <2> QED BY <1>0, <2>1, <2>2, Induction
<1>4. Entered(u[N], s, r, N, l) /\ AllHaveEntries(u[N], w[N])
  BY <1>0, <1>1, <1>3
<1> QED BY <1>1, <1>2, <1>4

\* x is the vector s, whose root is entry r, with the subvolumes called names: every entry
\* is one of s but for its subvolume, or a copy of the root.
WithSubvolumes(x, s, r, names) ==
    /\ x \in Seq(Entries)
    /\ \A i \in 1..Len(x) : CopyOfRoot(x[i], s[r]) \/ \E k \in 1..Len(s) : SameEntry(x[i], s[k])
    /\ \A i, j \in 1..Len(x) : x[i].mountpoint = x[j].mountpoint => i = j
    /\ \A i \in 1..Len(x) : x[i].subvolume \in names \cup {NoSubvolume}
    /\ \E i \in 1..Len(x) : SameEntry(x[i], s[r])

\* Sorting what was entered by device keeps that.
LEMMA EnteredSorted ==
    ASSUME NEW s, NEW r, Enterable(s, r), NEW l, Enterables(l), NEW q, Entered(q, s, r, Len(l), l)
    PROVE  /\ WithSubvolumes(sort(q, by_device), s, r, NamesUpTo(Len(l), l))
           /\ \A t : AllHaveEntries(q, t) => AllHaveEntries(sort(q, by_device), t)
<1> DEFINE x == sort(q, by_device)
           N == Len(q)
           names == NamesUpTo(Len(l), l)
<1>0. /\ q \in Seq(Entries) /\ N \in Nat /\ Len(s) \in Nat /\ Len(s) <= N /\ r \in 1..Len(s)
      /\ by_device \in [Entries -> Int]
  <2>1. by_device \in [Entries -> Int]
    BY Keys
  <2>2. /\ q \in Seq(Entries) /\ Len(s) <= N /\ s \in Seq(Entries) /\ r \in 1..Len(s)
    BY DEF Entered, Enterable
  <2> QED BY <2>1, <2>2
<1>1. x \in Seq(Entries)
  BY <1>0, Sorted
<1>2. PICK f : Arranged(x, q, N, by_device, f)
  BY <1>0, Sorted
<1> HIDE DEF x
<1>3. /\ Len(x) = N /\ \A i \in 1..N : f[i] \in 1..N /\ x[i] = q[f[i]]
      /\ \A i, j \in 1..N : f[i] = f[j] => i = j
      /\ \A j \in 1..N : \E i \in 1..N : f[i] = j
  BY <1>2 DEF Arranged, OneToOne
<1>4. /\ \A i \in 1..Len(s) : SameEntry(q[i], s[i])
      /\ \A i \in (Len(s) + 1)..N : CopyOfRoot(q[i], s[r])
      /\ \A i, j \in 1..N : q[i].mountpoint = q[j].mountpoint => i = j
      /\ \A i \in 1..N : q[i].subvolume \in names \cup {NoSubvolume}
  BY DEF Entered
<1> HIDE DEF names
<1>5. \A i \in 1..N : i \in 1..Len(s) \/ i \in (Len(s) + 1)..N
  BY <1>0
<1>6. ASSUME NEW i \in 1..N
      PROVE  CopyOfRoot(x[i], s[r]) \/ \E k \in 1..Len(s) : SameEntry(x[i], s[k])
  <2>1. f[i] \in 1..N /\ x[i] = q[f[i]]
    BY <1>3
  <2> QED BY <1>4, <1>5, <2>1
<1>7. ASSUME NEW i \in 1..N, NEW j \in 1..N, x[i].mountpoint = x[j].mountpoint PROVE i = j
  <2>1. /\ f[i] \in 1..N /\ f[j] \in 1..N
        /\ q[f[i]].mountpoint = q[f[j]].mountpoint
    BY <1>3, <1>7
  <2>2. f[i] = f[j]
    BY <1>4, <2>1
  <2> QED BY <1>3, <2>2
<1>8. ASSUME NEW i \in 1..N PROVE x[i].subvolume \in names \cup {NoSubvolume}
  <2>1. f[i] \in 1..N /\ x[i] = q[f[i]]
    BY <1>3
  <2> QED BY <1>4, <2>1
<1>9. \E i \in 1..N : SameEntry(x[i], s[r])
  <2>1. r \in 1..N
    BY <1>0
  <2>2. PICK i \in 1..N : f[i] = r
    BY <1>3, <2>1
  <2>3. x[i] = q[r]
    BY <1>3, <2>2
  <2> QED BY <1>0, <1>4, <2>3
<1>10. WithSubvolumes(x, s, r, names)
  BY <1>1, <1>3, <1>6, <1>7, <1>8, <1>9 DEF WithSubvolumes
<1>11. ASSUME NEW t, AllHaveEntries(q, t) PROVE AllHaveEntries(x, t)
  <2> SUFFICES ASSUME NEW m \in Mountpoints, t[m] \notin {NoSubvolume, "top"}
               PROVE  HasEntry(x, t, m)
    BY DEF AllHaveEntries
  <2>1. PICK k \in 1..N : q[k].mountpoint = m /\ q[k].subvolume = t[m]
    BY <1>11 DEF AllHaveEntries, HasEntry
  <2>2. PICK i \in 1..N : f[i] = k
    BY <1>3
  <2>3. x[i] = q[k]
    BY <1>3, <2>2
  <2>4. i \in 1..Len(x) /\ x[i].mountpoint = m /\ x[i].subvolume = t[m]
    BY <1>3, <2>1, <2>3
  <2> QED BY <2>4 DEF HasEntry
<1> QED BY <1>10, <1>11 DEF x, names

------------------------------------------------------------------------------
(* The invariant.                                                           *)

\* What the entries of one device share, and what a container is called.
DeviceInv ==
    \A i, j \in 1..Len(partitions) :
        /\ partitions[i].luks \in {No, partitions[i].device}
        /\ partitions[i].device = partitions[j].device =>
              partitions[i].size = partitions[j].size /\ partitions[i].luks = partitions[j].luks

\* Entry r is the one for /, has no size, and no entry of its device is without a mountpoint.
IsRoot(r) ==
    /\ r \in 1..Len(partitions)
    /\ \A i \in 1..Len(partitions) : partitions[i].mountpoint = "/" <=> i = r
    /\ partitions[r].fstype \in {"btrfs", "ext4", "zfs"} /\ partitions[r].size = 0
    /\ \A i \in 1..Len(partitions) :
          partitions[i].device = partitions[r].device => partitions[i].mountpoint # ""

RootInv == stage # "insert" => \E r : IsRoot(r)

InsertInv ==
    stage = "insert" =>
        /\ \A i \in 1..Len(partitions) :
              partitions[i].mountpoint # "/" /\ partitions[i].subvolume = NoSubvolume
        /\ \A i, j \in 1..Len(partitions) :
              partitions[i].mountpoint = partitions[j].mountpoint => i = j
        /\ \A m \in Mountpoints : tops[m] = NoSubvolume

\* Right after the root nothing of it is a subvolume.
EnterInv ==
    stage = "root" =>
        /\ \E r : Enterable(partitions, r)
        /\ \A m \in Mountpoints : tops[m] \in {NoSubvolume, "top"}

SchemaInv ==
    SchemaTypeOK /\ DeviceInv /\ RootInv /\ InsertInv /\ EnterInv /\ MountedAsEntered

\* The entries of the vector.
LEMMA EntriesOfVector ==
    ASSUME SchemaTypeOK
    PROVE  /\ partitions \in Seq(Entries) /\ Len(partitions) \in Nat
           /\ DOMAIN partitions = 1..Len(partitions)
           /\ \A i \in 1..Len(partitions) :
                 /\ partitions[i] \in Entries /\ partitions[i] \in Partition
                 /\ partitions[i].device \in Devices /\ partitions[i].device # No
                 /\ partitions[i].mountpoint \in Mountpoints
<1>1. Devices \subseteq Nat /\ No \notin Devices
  BY DevicesAssumption
<1>2. No \in Nat
  BY DEF No
<1>3. Partition \subseteq Entries
  BY <1>1, <1>2 DEF Partition, Entries
<1>4. partitions \in Seq(Partition)
  BY DEF SchemaTypeOK
<1>5. /\ Len(partitions) \in Nat /\ DOMAIN partitions = 1..Len(partitions)
      /\ \A i \in 1..Len(partitions) : partitions[i] \in Partition
  BY <1>4, Elements
<1>6. \A p \in Partition : p.device \in Devices /\ p.mountpoint \in Mountpoints
  BY DEF Partition
<1>7. partitions \in Seq(Entries)
  <2>1. partitions \in [1..Len(partitions) -> Entries]
    BY <1>3, <1>4, <1>5
  <2> QED BY <1>5, <2>1, MadeSequence
<1> QED BY <1>1, <1>3, <1>5, <1>6, <1>7

\* Nobody has the mountpoint that is_boot_encrypted looks for.
LEMMA BootNotFound ==
    ASSUME SchemaTypeOK
    PROVE  is_boot_encrypted(partitions) = FALSE
<1>1. "/bool" \notin Mountpoints
  <2>1. DOMAIN PathOrder = 1..5
    BY DEF PathOrder
  <2>2. \A i \in 1..5 : i = 1 \/ i = 2 \/ i = 3 \/ i = 4 \/ i = 5
    OBVIOUS
  <2>3. /\ PathOrder[1] # "/bool" /\ PathOrder[2] # "/bool" /\ PathOrder[3] # "/bool"
        /\ PathOrder[4] # "/bool" /\ PathOrder[5] # "/bool"
    BY DEF PathOrder
  <2>4. \A i \in 1..5 : PathOrder[i] # "/bool"
    BY <2>2, <2>3
  <2> QED BY <2>1, <2>4 DEF Mountpoints, ToSet
<1> QED BY <1>1, EntriesOfVector DEF is_boot_encrypted

\* tab is a crypttab with one line for each container of the vector, made of the entry
\* that comes first by mountpoint.
OneLineEach(tab, listed) ==
    /\ listed \in Seq(Entries) /\ DOMAIN tab = 1..Len(listed)
    /\ \A i \in 1..Len(listed) :
          /\ tab[i] = gen_crypttab_entry(listed[i], is_root_encrypted(partitions), FALSE)
          /\ listed[i].luks # No
          /\ \E k \in 1..Len(partitions) : listed[i] = partitions[k]
    /\ \A i, j \in 1..Len(listed) : listed[i].device = listed[j].device => i = j
    /\ \A k \in 1..Len(partitions) :
          partitions[k].luks # No =>
              \E i \in 1..Len(listed) : listed[i].device = partitions[k].device
    /\ \A i \in 1..Len(listed), k \in 1..Len(partitions) :
          listed[i].device = partitions[k].device =>
              by_mountpoint[listed[i]] <= by_mountpoint[partitions[k]]

LEMMA CrypttabLines ==
    ASSUME SchemaInv
    PROVE  \E listed : OneLineEach(generate_crypttab_content(partitions), listed)
<1> DEFINE P == partitions
           M == Len(P)
           u == unique_copy(sort(sort(P, by_mountpoint), by_device))
           kept == {p \in ToSet(P) : p.luks # No}
           listed == filter(u, kept)
           tab == generate_crypttab_content(P)
<1>0. /\ SchemaTypeOK /\ P \in Seq(Entries) /\ M \in Nat /\ DOMAIN P = 1..M
      /\ ToSet(P) = {P[k] : k \in 1..M}
  <2>1. SchemaTypeOK
    BY DEF SchemaInv
  <2>2. P \in Seq(Entries) /\ M \in Nat /\ DOMAIN P = 1..M
    BY <2>1, EntriesOfVector
  <2> QED BY <2>1, <2>2 DEF ToSet
<1>1. /\ DOMAIN tab = DOMAIN listed
      /\ \A i \in DOMAIN listed :
            tab[i] = gen_crypttab_entry(listed[i], is_root_encrypted(P), is_boot_encrypted(P))
  BY DEF generate_crypttab_content
<1>2. is_boot_encrypted(P) = FALSE
  BY <1>0, BootNotFound
<1>3. /\ u \in Seq(Entries)
      /\ \A i, j \in 1..Len(u) : u[i].device = u[j].device => i = j
      /\ \A k \in 1..M : \E i \in 1..Len(u) : u[i].device = P[k].device
      /\ \A i \in 1..Len(u) : \E k \in 1..M : u[i] = P[k]
      /\ \A i \in 1..Len(u), k \in 1..M :
            u[i].device = P[k].device => by_mountpoint[u[i]] <= by_mountpoint[P[k]]
  BY <1>0, CryptLines
<1> HIDE DEF u, tab
<1>4. listed \in Seq(Entries)
  BY <1>3, Filtered
<1>5. PICK h : Picked(listed, u, Len(u), kept, h)
  BY <1>3, Filtered
<1> HIDE DEF listed
<1>6. /\ DOMAIN listed = 1..Len(listed)
      /\ \A i \in 1..Len(listed) : h[i] \in 1..Len(u) /\ listed[i] = u[h[i]] /\ listed[i] \in kept
      /\ \A i, j \in 1..Len(listed) : i < j => h[i] < h[j]
      /\ \A k \in 1..Len(u) : u[k] \in kept => \E i \in 1..Len(listed) : h[i] = k
  BY <1>4, <1>5, Elements DEF Picked
<1> DEFINE K == Len(listed)
<1>7. \A i \in 1..K : listed[i].luks # No /\ \E k \in 1..M : listed[i] = P[k]
  BY <1>0, <1>6
<1>8. \A i, j \in 1..K : listed[i].device = listed[j].device => i = j
  <2> SUFFICES ASSUME NEW i \in 1..K, NEW j \in 1..K, listed[i].device = listed[j].device
               PROVE  i = j
    OBVIOUS
  <2>1. h[i] = h[j]
    <3>1. /\ h[i] \in 1..Len(u) /\ h[j] \in 1..Len(u)
          /\ u[h[i]].device = u[h[j]].device
      BY <1>6
    <3> QED BY <1>3, <3>1
  <2>2. K \in Nat /\ Len(u) \in Nat
    BY <1>3, <1>4
  <2>3. ~(i < j) /\ ~(j < i)
    <3>1. h[i] \in Nat /\ h[j] \in Nat
      BY <1>6, <2>2
    <3> QED BY <1>6, <2>1, <3>1
  <2> QED BY <2>2, <2>3
<1>9. ASSUME NEW k \in 1..M, P[k].luks # No
      PROVE  \E i \in 1..K : listed[i].device = P[k].device
  <2>1. PICK j \in 1..Len(u) : u[j].device = P[k].device
    BY <1>3
  <2>2. PICK m \in 1..M : u[j] = P[m]
    BY <1>3
  <2>3. P[m].luks = P[k].luks
    BY <2>1, <2>2 DEF SchemaInv, DeviceInv
  <2>4. u[j] \in kept
    BY <1>0, <1>9, <2>2, <2>3
  <2>5. PICK i \in 1..K : h[i] = j
    BY <1>6, <2>4
  <2> QED BY <1>6, <2>1, <2>5
<1>10. ASSUME NEW i \in 1..K, NEW k \in 1..M, listed[i].device = P[k].device
       PROVE  by_mountpoint[listed[i]] <= by_mountpoint[P[k]]
  <2>1. h[i] \in 1..Len(u) /\ listed[i] = u[h[i]]
    BY <1>6
  <2> QED BY <1>3, <1>10, <2>1
<1> HIDE DEF kept
<1>11. OneLineEach(tab, listed)
  <2>1. DOMAIN tab = 1..K
    BY <1>1, <1>6
  <2>2. \A i \in 1..K : tab[i] = gen_crypttab_entry(listed[i], is_root_encrypted(P), FALSE)
    BY <1>1, <1>2, <1>6
  <2> QED BY <1>4, <1>7, <1>8, <1>9, <1>10, <2>1, <2>2 DEF OneLineEach
<1> QED BY <1>11 DEF tab

\* What gen_crypttab_entry makes of an entry when /boot is not found encrypted.
LEMMA CrypttabEntry ==
    ASSUME NEW p, NEW root_encrypted \in BOOLEAN
    PROVE  LET line == gen_crypttab_entry(p, root_encrypted, FALSE)
           IN  /\ line.name = p.luks
               /\ line.password # "none" => root_encrypted /\ p.mountpoint # "/"
BY DEF gen_crypttab_entry

LEMMA SameContainer ==
    ASSUME SchemaInv, NEW i \in 1..Len(partitions), NEW j \in 1..Len(partitions)
    PROVE  /\ partitions[i].luks # No /\ partitions[i].luks = partitions[j].luks =>
                 partitions[i].device = partitions[j].device
           /\ partitions[i].device = partitions[j].device => partitions[i].luks = partitions[j].luks
BY DEF SchemaInv, DeviceInv

LEMMA KeyFiles ==
    ASSUME SchemaInv
    PROVE  KeyFileReachable
<1> DEFINE P == partitions
           M == Len(P)
           tab == generate_crypttab_content(P)
           roots == {P[i].luks : i \in RootPart(P)} \ {No}
           boots == {i \in DOMAIN P : P[i].mountpoint = "/boot" /\ P[i].luks # No}
<1>0. /\ DOMAIN P = 1..M /\ \A i \in 1..M : P[i] \in Entries
  BY EntriesOfVector DEF SchemaInv
<1>1. PICK listed : OneLineEach(tab, listed)
  BY CrypttabLines
<1> HIDE DEF tab
<1>2. RootPart(P) = {k \in 1..M : P[k].mountpoint = "/"}
  BY <1>0 DEF RootPart
<1>3. ASSUME NEW i \in DOMAIN tab, tab[i].password # "none"
      PROVE  roots # {} /\ tab[i].name \notin roots
  <2>1. /\ i \in 1..Len(listed)
        /\ tab[i] = gen_crypttab_entry(listed[i], is_root_encrypted(P), FALSE)
        /\ listed[i].luks # No
    BY <1>1, <1>3 DEF OneLineEach
  <2>2. PICK m \in 1..M : listed[i] = P[m]
    BY <1>1, <2>1 DEF OneLineEach
  <2>3. is_root_encrypted(P) \in BOOLEAN
    BY DEF is_root_encrypted
  <2>4. /\ tab[i].name = listed[i].luks
        /\ is_root_encrypted(P) /\ listed[i].mountpoint # "/"
    BY <1>3, <2>1, <2>3, CrypttabEntry
  <2>5. roots # {}
    <3>1. PICK k \in RootPart(P) : P[k].luks # No
      BY <2>4 DEF is_root_encrypted
    <3> QED BY <3>1
  <2>6. ASSUME tab[i].name \in roots PROVE FALSE
    <3>1. PICK k \in 1..M : P[k].mountpoint = "/" /\ P[k].luks = listed[i].luks
      BY <1>2, <2>4, <2>6
    <3>2. stage # "insert"
      BY <3>1 DEF SchemaInv, InsertInv
    <3>3. PICK r : IsRoot(r)
      BY <3>2 DEF SchemaInv, RootInv
    <3>4. k = r
      BY <3>1, <3>3 DEF IsRoot
    <3>5. P[m].device = P[k].device
      BY <2>1, <2>2, <3>1, SameContainer
    <3>6. P[m].mountpoint # "" /\ P[m].mountpoint # "/"
      BY <2>2, <2>4, <3>3, <3>4, <3>5 DEF IsRoot
    <3>7. P[m] \in Entries /\ P[k] \in Entries
      BY <1>0
    <3>8. by_mountpoint[P[k]] < by_mountpoint[P[m]]
      BY <3>1, <3>6, <3>7, Keys
    <3>9. by_mountpoint[P[m]] <= by_mountpoint[P[k]]
      BY <1>1, <2>1, <2>2, <3>5 DEF OneLineEach
    <3>10. by_mountpoint[P[m]] \in Int /\ by_mountpoint[P[k]] \in Int
      <4>1. by_mountpoint \in [Entries -> Int]
        BY Keys
      <4> QED BY <3>7, <4>1
    <3> QED BY <3>8, <3>9, <3>10
  <2> QED BY <2>5, <2>6
<1>4. \A i \in DOMAIN tab :
        tab[i].password # "none" => roots # {} /\ (boots = {} => tab[i].name \notin roots)
  BY <1>3
<1> QED BY <1>4 DEF KeyFileReachable, tab

\* Where fstab and resume= find an entry.
LEMMA SourceOf ==
    ASSUME NEW p
    PROVE  /\ p.luks # No => gen_fstab_entry(p).source = <<"mapper", p.luks>>
           /\ p.luks = No /\ p.uuid # No => gen_fstab_entry(p).source = <<"UUID", p.uuid>>
           /\ gen_fstab_entry(p).source[1] = "mapper" =>
                  p.luks # No /\ gen_fstab_entry(p).source[2] = p.luks
           /\ gen_fstab_entry(p).mountpoint = p.mountpoint
           /\ gen_fstab_entry(p).subvol = IF p.fstype = "btrfs" THEN p.subvolume ELSE NoSubvolume
BY DEF gen_fstab_entry

\* fstab has a line for every entry that is mounted by it.
FstabOf(tab, listed, h) ==
    /\ DOMAIN tab = 1..Len(listed) /\ Len(listed) \in Nat
    /\ \A i \in 1..Len(listed) :
          /\ tab[i] = gen_fstab_entry(listed[i])
          /\ h[i] \in 1..Len(partitions) /\ listed[i] = partitions[h[i]]
    /\ \A i, j \in 1..Len(listed) : h[i] = h[j] => i = j
    /\ \A k \in 1..Len(partitions) :
          partitions[k].fstype # "zfs" /\ ~Swap(partitions[k]) =>
              \E i \in 1..Len(listed) : h[i] = k

LEMMA FstabLines ==
    ASSUME SchemaTypeOK
    PROVE  \E listed, h : FstabOf(generate_fstab_content(partitions), listed, h)
<1> DEFINE P == partitions
           M == Len(P)
           kept == {p \in ToSet(P) : p.fstype # "zfs" /\ ~Swap(p)}
           listed == filter(P, kept)
           tab == generate_fstab_content(P)
<1>0. P \in Seq(Entries) /\ M \in Nat /\ DOMAIN P = 1..M
  BY EntriesOfVector
<1>1. ToSet(P) = {P[k] : k \in 1..M}
  BY <1>0 DEF ToSet
<1>2. DOMAIN tab = DOMAIN listed /\ \A i \in DOMAIN listed : tab[i] = gen_fstab_entry(listed[i])
  BY DEF generate_fstab_content
<1> HIDE DEF tab
<1>3. listed \in Seq(Entries)
  BY <1>0, Filtered
<1>4. PICK h : Picked(listed, P, M, kept, h)
  BY <1>0, Filtered
<1> HIDE DEF listed
<1> DEFINE K == Len(listed)
<1>5. /\ K \in Nat /\ DOMAIN listed = 1..K
      /\ \A i \in 1..K : h[i] \in 1..M /\ listed[i] = P[h[i]]
      /\ \A i, j \in 1..K : i < j => h[i] < h[j]
      /\ \A k \in 1..M : P[k] \in kept => \E i \in 1..K : h[i] = k
  BY <1>3, <1>4, Elements DEF Picked
<1>6. \A i, j \in 1..K : h[i] = h[j] => i = j
  <2> SUFFICES ASSUME NEW i \in 1..K, NEW j \in 1..K, h[i] = h[j] PROVE i = j
    OBVIOUS
  <2>1. h[i] \in Nat /\ h[j] \in Nat
    BY <1>0, <1>5
  <2>2. ~(i < j) /\ ~(j < i)
    BY <1>5, <2>1
  <2> QED BY <1>5, <2>2
<1>7. \A k \in 1..M : P[k].fstype # "zfs" /\ ~Swap(P[k]) => \E i \in 1..K : h[i] = k
  <2>1. \A k \in 1..M : P[k].fstype # "zfs" /\ ~Swap(P[k]) => P[k] \in kept
    BY <1>1
  <2> HIDE DEF kept
  <2> QED BY <1>5, <2>1
<1>8. FstabOf(tab, listed, h)
  BY <1>2, <1>5, <1>6, <1>7 DEF FstabOf
<1> QED BY <1>8 DEF tab

\* The entries of the default schema.
LEMMA DefaultEntries ==
    /\ Entry("vfat", "/boot", 1, 2, No, No) \in Entries
    /\ \A d \in Nat : Entry("btrfs", "/", d, 0, No, No) \in Entries
<1>1. No \in Nat /\ 0 \in Sizes /\ 2 \in Sizes
  BY DEF No, Sizes
<1>2. "vfat" \in FsTypes /\ "btrfs" \in FsTypes
  BY DEF FsTypes
<1>3. "/" \in Mountpoints /\ "/boot" \in Mountpoints
  <2>1. DOMAIN PathOrder = 1..5 /\ 2 \in 1..5 /\ 3 \in 1..5
    BY DEF PathOrder
  <2>2. PathOrder[2] = "/" /\ PathOrder[3] = "/boot"
    BY DEF PathOrder
  <2> QED BY <2>1, <2>2 DEF Mountpoints, ToSet
<1> QED BY <1>1, <1>2, <1>3 DEF Entry, Entries

LEMMA Containers ==
    ASSUME SchemaInv
    PROVE  ContainersOpened
<1> DEFINE P == partitions
           M == Len(P)
           lines == generate_fstab_content(P)
           crypttab == generate_crypttab_content(P)
<1>0. SchemaTypeOK /\ DOMAIN P = 1..M /\ M \in Nat
  BY EntriesOfVector DEF SchemaInv
<1>1. PICK listed : OneLineEach(crypttab, listed)
  BY CrypttabLines
<1>2. PICK mounted, h : FstabOf(lines, mounted, h)
  BY <1>0, FstabLines
<1> HIDE DEF lines, crypttab
<1> DEFINE K == Len(listed)
<1>3. \A i \in 1..K : crypttab[i].name = listed[i].luks
  <2>1. is_root_encrypted(P) \in BOOLEAN
    BY DEF is_root_encrypted
  <2>2. \A i \in 1..K :
           crypttab[i] = gen_crypttab_entry(listed[i], is_root_encrypted(P), FALSE)
    BY <1>1 DEF OneLineEach
  <2> QED BY <2>1, <2>2, CrypttabEntry
<1>4. ASSUME NEW k \in 1..M, P[k].luks # No
      PROVE  \E i \in DOMAIN crypttab : crypttab[i].name = P[k].luks
  <2>1. PICK i \in 1..K : listed[i].device = P[k].device
    BY <1>1, <1>4 DEF OneLineEach
  <2>2. PICK m \in 1..M : listed[i] = P[m]
    BY <1>1, <2>1 DEF OneLineEach
  <2>3. P[m].luks = P[k].luks
    BY <2>1, <2>2, SameContainer
  <2>4. i \in DOMAIN crypttab
    BY <1>1, <2>1 DEF OneLineEach
  <2> QED BY <1>3, <2>1, <2>2, <2>3, <2>4
<1>5. ASSUME NEW i \in DOMAIN crypttab, NEW j \in DOMAIN crypttab,
             crypttab[i].name = crypttab[j].name
      PROVE  i = j
  <2>1. i \in 1..K /\ j \in 1..K /\ listed[i].luks # No
    BY <1>1 DEF OneLineEach
  <2>2. listed[i].luks = listed[j].luks
    BY <1>3, <1>5, <2>1
  <2>3. PICK a \in 1..M : listed[i] = P[a]
    BY <1>1, <2>1 DEF OneLineEach
  <2>4. PICK b \in 1..M : listed[j] = P[b]
    BY <1>1, <2>1 DEF OneLineEach
  <2>5. listed[i].device = listed[j].device
    BY <2>1, <2>2, <2>3, <2>4, SameContainer
  <2> QED BY <1>1, <2>1, <2>5 DEF OneLineEach
<1>6. ASSUME NEW e, e[1] = "mapper", NEW k \in 1..M, e = gen_fstab_entry(P[k]).source
      PROVE  \E i \in DOMAIN crypttab : crypttab[i].name = e[2]
  <2>1. P[k].luks # No /\ e[2] = P[k].luks
    BY <1>6, SourceOf
  <2> QED BY <1>4, <2>1
<1>7. ASSUME NEW tab \in generate_fstab(<<>>, P), NEW crypt \in generate_crypttab(<<>>, P),
             crypt.ok
      PROVE  LET resume == {i \in DOMAIN P : Swap(P[i])}
                 needed == {tab.file[i].source : i \in DOMAIN tab.file}
                               \cup {gen_fstab_entry(P[i]).source : i \in resume}
             IN  /\ crypt.file = crypttab
                 /\ \A e \in needed : e[1] = "mapper" =>
                        \E i \in DOMAIN crypttab : crypttab[i].name = e[2]
  <2>1. crypt.file = crypttab
    BY <1>7 DEF generate_crypttab, create_file_for_overwrite, crypttab
  <2>2. tab.file = lines \/ tab.file = <<>>
    BY DEF generate_fstab, create_file_for_overwrite, lines
  <2>3. \A i \in DOMAIN tab.file : \E k \in 1..M : tab.file[i].source = gen_fstab_entry(P[k]).source
    <3>1. CASE tab.file = <<>>
      BY <3>1
    <3>2. CASE tab.file = lines
      <4> SUFFICES ASSUME NEW i \in DOMAIN lines
                   PROVE  \E k \in 1..M : lines[i].source = gen_fstab_entry(P[k]).source
        BY <3>2
      <4>1. i \in 1..Len(mounted)
        BY <1>2 DEF FstabOf
      <4>2. lines[i] = gen_fstab_entry(mounted[i]) /\ h[i] \in 1..M /\ mounted[i] = P[h[i]]
        BY <1>2, <4>1 DEF FstabOf
      <4> QED BY <4>2
    <3> QED BY <2>2, <3>1, <3>2
  <2>4. ASSUME NEW e \in {tab.file[i].source : i \in DOMAIN tab.file}
                           \cup {gen_fstab_entry(P[i]).source : i \in {i \in DOMAIN P : Swap(P[i])}},
               e[1] = "mapper"
        PROVE  \E i \in DOMAIN crypttab : crypttab[i].name = e[2]
    <3>1. \E k \in 1..M : e = gen_fstab_entry(P[k]).source
      BY <1>0, <2>3, <2>4
    <3> QED BY <1>6, <2>4, <3>1
  <2> QED BY <2>1, <2>4
<1>8. \A tab \in generate_fstab(<<>>, P), crypt \in generate_crypttab(<<>>, P) :
        LET needed == {tab.file[i].source : i \in DOMAIN tab.file}
                         \cup {gen_fstab_entry(P[i]).source : i \in {i \in DOMAIN P : Swap(P[i])}}
        IN  crypt.ok =>
              /\ \A e \in needed : e[1] = "mapper" =>
                    \E i \in DOMAIN crypt.file : crypt.file[i].name = e[2]
              /\ \A i, j \in DOMAIN crypt.file : crypt.file[i].name = crypt.file[j].name => i = j
  BY <1>5, <1>7
<1> QED BY <1>8 DEF ContainersOpened

LEMMA Scripts ==
    ASSUME SchemaInv
    PROVE  SfdiskLines
<1>1. ASSUME NEW s \in Seq(Entries), SizesAgree(s)
      PROVE  LET lines == gen_sfdisk_command(s)
             IN  /\ Len(s) \in Nat /\ DOMAIN s = 1..Len(s)
                 /\ \A i \in DOMAIN lines : \E k \in DOMAIN s :
                       lines[i].device = s[k].device /\ lines[i].size = s[k].size
                 /\ \A k \in DOMAIN s : \E i \in DOMAIN lines : lines[i].device = s[k].device
                 /\ \E n \in Nat : DOMAIN lines = 1..n
                 /\ \A i, j \in DOMAIN lines :
                       i < j => lines[i].device # lines[j].device /\ lines[i].size >= lines[j].size
  <2> DEFINE u == unique_copy(sort(sort(sort(s, by_mountpoint), by_device), by_size_down))
             lines == gen_sfdisk_command(s)
  <2>1. /\ u \in Seq(Entries)
        /\ \A i, j \in 1..Len(u) : i < j => u[i].device # u[j].device /\ u[i].size >= u[j].size
        /\ \A k \in 1..Len(s) : \E i \in 1..Len(u) : u[i].device = s[k].device
        /\ \A i \in 1..Len(u) : \E k \in 1..Len(s) : u[i] = s[k]
    BY <1>1, SizeLines
  <2>2. /\ DOMAIN lines = DOMAIN u
        /\ \A i \in DOMAIN u : lines[i].device = u[i].device /\ lines[i].size = u[i].size
    BY DEF gen_sfdisk_command
  <2>3. Len(s) \in Nat /\ DOMAIN s = 1..Len(s)
    BY Elements
  <2> HIDE DEF u, lines
  <2>4. Len(u) \in Nat /\ DOMAIN u = 1..Len(u)
    BY <2>1, Elements
  <2>5. \A i \in DOMAIN lines : \E k \in DOMAIN s :
           lines[i].device = s[k].device /\ lines[i].size = s[k].size
    <3> SUFFICES ASSUME NEW i \in DOMAIN lines
                 PROVE  \E k \in DOMAIN s : lines[i].device = s[k].device /\ lines[i].size = s[k].size
      OBVIOUS
    <3>1. i \in 1..Len(u) /\ lines[i].device = u[i].device /\ lines[i].size = u[i].size
      BY <2>2, <2>4
    <3>2. PICK k \in 1..Len(s) : u[i] = s[k]
      BY <2>1, <3>1
    <3> QED BY <2>3, <3>1, <3>2
  <2>6. \A k \in DOMAIN s : \E i \in DOMAIN lines : lines[i].device = s[k].device
    <3> SUFFICES ASSUME NEW k \in DOMAIN s
                 PROVE  \E i \in DOMAIN lines : lines[i].device = s[k].device
      OBVIOUS
    <3>1. PICK i \in 1..Len(u) : u[i].device = s[k].device
      BY <2>1, <2>3
    <3> QED BY <2>2, <2>4, <3>1
  <2>7. \A i, j \in DOMAIN lines :
           i < j => lines[i].device # lines[j].device /\ lines[i].size >= lines[j].size
    <3> SUFFICES ASSUME NEW i \in DOMAIN lines, NEW j \in DOMAIN lines, i < j
                 PROVE  lines[i].device # lines[j].device /\ lines[i].size >= lines[j].size
      OBVIOUS
    <3>1. i \in 1..Len(u) /\ j \in 1..Len(u)
      BY <2>2, <2>4
    <3>2. lines[i].device = u[i].device /\ lines[i].size = u[i].size
      BY <2>2
    <3>3. lines[j].device = u[j].device /\ lines[j].size = u[j].size
      BY <2>2
    <3>4. u[i].device # u[j].device /\ u[i].size >= u[j].size
      BY <2>1, <3>1
    <3> QED BY <3>2, <3>3, <3>4
  <2>8. DOMAIN lines = 1..Len(u)
    BY <2>2, <2>4
  <2> QED BY <2>3, <2>4, <2>5, <2>6, <2>7, <2>8 DEF lines
<1> DEFINE efi == generate_default_partition_schema(TRUE)
           bios == generate_default_partition_schema(FALSE)
           Good(s) == LET lines == gen_sfdisk_command(s)
                      IN  /\ {s[i].device : i \in DOMAIN s} = {lines[i].device : i \in DOMAIN lines}
                          /\ \A i, j \in DOMAIN lines :
                                i < j => lines[i].device # lines[j].device
                                         /\ lines[i].size >= lines[j].size
<1>2. ASSUME NEW s \in Seq(Entries), SizesAgree(s) PROVE Good(s)
  <2> DEFINE lines == gen_sfdisk_command(s)
  <2>1. /\ \A i \in DOMAIN lines : \E k \in DOMAIN s : lines[i].device = s[k].device
        /\ \A k \in DOMAIN s : \E i \in DOMAIN lines : lines[i].device = s[k].device
        /\ \A i, j \in DOMAIN lines :
              i < j => lines[i].device # lines[j].device /\ lines[i].size >= lines[j].size
    BY <1>1, <1>2
  <2> HIDE DEF lines
  <2>2. {s[i].device : i \in DOMAIN s} = {lines[i].device : i \in DOMAIN lines}
    BY <2>1
  <2> QED BY <2>1, <2>2 DEF lines
<1>3. partitions \in Seq(Entries) /\ SizesAgree(partitions)
  BY EntriesOfVector DEF SchemaInv, DeviceInv, SizesAgree
<1>4. /\ efi \in Seq(Entries) /\ Len(efi) = 2 /\ efi[1].device = 1 /\ efi[1].size = 2
      /\ efi[2].device = 2 /\ efi[2].size = 0
  <2> DEFINE a == Entry("vfat", "/boot", 1, 2, No, No)
             b == Entry("btrfs", "/", 2, 0, No, No)
  <2>1. efi = <<a, b>>
    BY DEF generate_default_partition_schema
  <2>2. a.device = 1 /\ a.size = 2 /\ b.device = 2 /\ b.size = 0
    BY DEF Entry
  <2>3. a \in Entries /\ b \in Entries
    BY DefaultEntries
  <2> HIDE DEF a, b, efi
  <2> QED BY <2>1, <2>2, <2>3
<1>5. /\ bios \in Seq(Entries) /\ Len(bios) = 1 /\ bios[1].device = 1
  <2> DEFINE a == Entry("btrfs", "/", 1, 0, No, No)
  <2>1. bios = <<a>>
    BY DEF generate_default_partition_schema
  <2>2. a.device = 1
    BY DEF Entry
  <2>3. a \in Entries
    BY DefaultEntries
  <2> HIDE DEF a, bios
  <2> QED BY <2>1, <2>2, <2>3
<1> HIDE DEF efi, bios
<1>6. SizesAgree(efi) /\ SizesAgree(bios)
  BY <1>4, <1>5 DEF SizesAgree
<1>7. Good(partitions) /\ Good(efi)
  <2> HIDE DEF Good
  <2> QED BY <1>2, <1>3, <1>4, <1>6
<1>8. LET lines == gen_sfdisk_command(efi) IN \A i \in DOMAIN lines : lines[i].device = i
  <2> DEFINE lines == gen_sfdisk_command(efi)
  <2>1. /\ DOMAIN efi = 1..Len(efi)
        /\ \A i \in DOMAIN lines : \E k \in DOMAIN efi :
              lines[i].device = efi[k].device /\ lines[i].size = efi[k].size
        /\ \A k \in DOMAIN efi : \E i \in DOMAIN lines : lines[i].device = efi[k].device
        /\ \E n \in Nat : DOMAIN lines = 1..n
        /\ \A i, j \in DOMAIN lines :
              i < j => lines[i].device # lines[j].device /\ lines[i].size >= lines[j].size
    BY <1>1, <1>4, <1>6
  <2> HIDE DEF lines
  <2>2. DOMAIN efi = {1, 2}
    BY <1>4, <2>1
  <2>3. ASSUME NEW i \in DOMAIN lines
        PROVE  \/ lines[i].device = 1 /\ lines[i].size = 2
               \/ lines[i].device = 2 /\ lines[i].size = 0
    <3>1. PICK k \in DOMAIN efi : lines[i].device = efi[k].device /\ lines[i].size = efi[k].size
      BY <2>1
    <3> QED BY <1>4, <2>2, <3>1
  <2>4. PICK a \in DOMAIN lines : lines[a].device = 1
    BY <1>4, <2>1, <2>2
  <2>5. PICK b \in DOMAIN lines : lines[b].device = 2
    BY <1>4, <2>1, <2>2
  <2>6. PICK n \in Nat : DOMAIN lines = 1..n
    BY <2>1
  <2>7. \A i, j \in 1..n : lines[i].device = lines[j].device => i = j
    <3> SUFFICES ASSUME NEW i \in 1..n, NEW j \in 1..n, lines[i].device = lines[j].device
                 PROVE  i = j
      OBVIOUS
    <3>1. ~(i < j) /\ ~(j < i)
      BY <2>1, <2>6
    <3> QED BY <3>1
  <2>8. \A i \in 1..n : i = a \/ i = b
    BY <2>3, <2>4, <2>5, <2>6, <2>7
  <2>9. a < b
    <3>1. a # b /\ lines[a].size = 2 /\ lines[b].size = 0
      BY <2>3, <2>4, <2>5
    <3>2. b < a => lines[b].size >= lines[a].size
      BY <2>1, <2>4, <2>5
    <3>3. ~(b < a)
      BY <3>1, <3>2
    <3> QED BY <2>4, <2>5, <2>6, <3>1, <3>3
  <2>10. a = 1 /\ b = 2
    <3>1. a \in 1..n /\ b \in 1..n
      BY <2>4, <2>5, <2>6
    <3>2. 1 \in 1..n /\ 2 \in 1..n
      BY <2>9, <3>1
    <3> QED BY <2>8, <2>9, <3>1, <3>2
  <2> QED BY <2>4, <2>5, <2>6, <2>8, <2>10 DEF lines
<1>9. LET lines == gen_sfdisk_command(bios) IN \A i \in DOMAIN lines : lines[i].device = i
  <2> DEFINE lines == gen_sfdisk_command(bios)
  <2>1. /\ DOMAIN bios = 1..Len(bios)
        /\ \A i \in DOMAIN lines : \E k \in DOMAIN bios :
              lines[i].device = bios[k].device
        /\ \E n \in Nat : DOMAIN lines = 1..n
        /\ \A i, j \in DOMAIN lines : i < j => lines[i].device # lines[j].device
    BY <1>1, <1>5, <1>6
  <2> HIDE DEF lines
  <2>2. \A i \in DOMAIN lines : lines[i].device = 1
    BY <1>5, <2>1
  <2>3. PICK n \in Nat : DOMAIN lines = 1..n
    BY <2>1
  <2>4. \A i \in 1..n : i = 1
    <3> SUFFICES ASSUME NEW i \in 1..n, i # 1 PROVE FALSE
      OBVIOUS
    <3>1. 1 \in 1..n /\ 1 < i
      OBVIOUS
    <3> QED BY <2>1, <2>2, <2>3, <3>1
  <2> QED BY <2>2, <2>3, <2>4 DEF lines
<1>10. \A s \in {partitions, generate_default_partition_schema(TRUE)} : Good(s)
  <2> HIDE DEF Good
  <2> QED BY <1>7 DEF efi
<1> DEFINE InOrder(s) == LET lines == gen_sfdisk_command(s)
                         IN  \A i \in DOMAIN lines : lines[i].device = i
<1>11. \A is_efi \in BOOLEAN : InOrder(generate_default_partition_schema(is_efi))
  <2>1. InOrder(efi) /\ InOrder(bios)
    BY <1>8, <1>9
  <2> HIDE DEF InOrder
  <2> QED BY <2>1 DEF efi, bios
<1> QED BY <1>10, <1>11 DEF SfdiskLines

\* The root has one line in fstab, and the parameters are made of the same entry.
LEMMA RootsAgree ==
    ASSUME SchemaInv
    PROVE  RootAgrees
<1> DEFINE P == partitions
           M == Len(P)
           fstab == generate_fstab_content(P)
           params == get_kernel_params(P, NoSubvolume)
<1>0. /\ SchemaTypeOK /\ DOMAIN P = 1..M /\ M \in Nat
  BY EntriesOfVector DEF SchemaInv
<1>1. ASSUME NEW r, IsRoot(r) PROVE RootPart(P) = {r}
  BY <1>0, <1>1 DEF RootPart, IsRoot
<1>2. stage # "insert" => Cardinality(RootPart(P)) = 1
  <2>1. ASSUME stage # "insert" PROVE \E r : RootPart(P) = {r}
    BY <1>1, <2>1 DEF SchemaInv, RootInv
  <2> QED BY <2>1, FS_Singleton
<1>3. ASSUME params # {}
      PROVE  \E i \in DOMAIN fstab :
                /\ \A j \in DOMAIN fstab : fstab[j].mountpoint = "/" <=> j = i
                /\ {q \in params : q[1] = "root"} = {<<"root", fstab[i].source>>}
                /\ {q \in params : q[1] = "rootflags"} =
                       {<<"rootflags", v>> : v \in {fstab[i].subvol} \ {NoSubvolume}}
  <2>1. RootPart(P) # {}
    BY <1>3 DEF get_kernel_params
  <2>2. stage # "insert"
    BY <1>0, <2>1 DEF SchemaInv, InsertInv, RootPart
  <2>3. PICK r : IsRoot(r)
    BY <2>2 DEF SchemaInv, RootInv
  <2>4. RootPart(P) = {r} /\ Max(RootPart(P)) = r /\ r \in 1..M
    <3>1. RootPart(P) = {r} /\ r \in 1..M
      BY <1>1, <2>3 DEF IsRoot
    <3>2. Max({r}) = r
      BY <1>0, <3>1 DEF Max
    <3> QED BY <3>1, <3>2
  <2> DEFINE p == P[r]
             roots == {r}
             containers == {i \in roots : P[i].luks # No}
             crypt == P[Max(containers)].luks
             flags == {<<"rootflags", P[i].subvolume>> :
                         i \in {j \in roots : P[j].fstype = "btrfs" /\ P[j].subvolume # NoSubvolume}}
             zfs == {i \in roots : P[i].fstype = "zfs"}
             cont == IF containers # {}
                     THEN {<<"cryptdevice", crypt>>, <<"root", <<"mapper", crypt>> >>}
                     ELSE {<<"root", <<"UUID", p.uuid>> >>}
             resume == {<<"resume", gen_fstab_entry(P[i]).source>> : i \in {i \in DOMAIN P : Swap(P[i])}}
             source == gen_fstab_entry(p).source
             subvol == gen_fstab_entry(p).subvol
  <2>5. /\ p.uuid # No /\ zfs = {}
        /\ params = flags \cup {<<"root", <<"ZFS", NoSubvolume>> >> : i \in zfs} \cup cont \cup resume
    BY <1>3, <2>4 DEF get_kernel_params
  <2>6. params = flags \cup cont \cup resume
    <3> HIDE DEF params, flags, zfs, cont, resume
    <3> QED BY <2>5
  <2>7. p.fstype # "zfs"
    BY <2>5
  <2>8. /\ subvol = IF p.fstype = "btrfs" THEN p.subvolume ELSE NoSubvolume
        /\ p.luks # No => source = <<"mapper", p.luks>>
        /\ p.luks = No => source = <<"UUID", p.uuid>>
    BY <2>5, SourceOf
  <2>9. \E c : cont = {<<"root", source>>} \/ cont = {<<"cryptdevice", c>>, <<"root", source>>}
    <3>1. CASE p.luks = No
      <4>1. containers = {}
        BY <3>1
      <4> QED BY <2>8, <3>1, <4>1
    <3>2. CASE p.luks # No
      <4>1. containers = {r}
        BY <3>2
      <4>2. crypt = p.luks
        BY <2>4, <4>1
      <4>3. source = <<"mapper", crypt>>
        BY <2>8, <3>2, <4>2
      <4> HIDE DEF source, crypt, containers
      <4>4. cont = {<<"cryptdevice", crypt>>, <<"root", source>>}
        BY <4>1, <4>3
      <4> HIDE DEF cont
      <4> QED BY <4>4
    <3> QED BY <3>1, <3>2
  <2>10. flags = {<<"rootflags", v>> : v \in {subvol} \ {NoSubvolume}}
    <3>1. CASE p.fstype = "btrfs"
      <4>1. flags = {<<"rootflags", v>> : v \in {p.subvolume} \ {NoSubvolume}}
        BY <3>1
      <4> QED BY <2>8, <3>1, <4>1
    <3>2. CASE p.fstype # "btrfs"
      BY <2>8, <3>2
    <3> QED BY <3>1, <3>2
  <2>11. PICK c : cont = {<<"root", source>>} \/ cont = {<<"cryptdevice", c>>, <<"root", source>>}
    BY <2>9
  <2>12. \A q \in resume : q[1] = "resume"
    OBVIOUS
  <2>13. \A q \in flags : q[1] = "rootflags"
    OBVIOUS
  <2> HIDE DEF params, flags, cont, resume, source, subvol
  <2>14. \A q \in cont : q[1] \in {"root", "cryptdevice"}
    BY <2>11
  <2>15. {q \in cont : q[1] = "root"} = {<<"root", source>>}
    <3>1. <<"root", source>>[1] = "root" /\ <<"cryptdevice", c>>[1] # "root"
      OBVIOUS
    <3> QED BY <2>11, <3>1
  <2>16. {q \in params : q[1] = "root"} = {<<"root", source>>}
    BY <2>6, <2>12, <2>13, <2>15
  <2>17. {q \in params : q[1] = "rootflags"} = flags
    BY <2>6, <2>12, <2>13, <2>14
  <2>18. PICK listed, h : FstabOf(fstab, listed, h)
    BY <1>0, FstabLines
  <2> HIDE DEF fstab
  <2>19. ~Swap(p)
    BY <2>3 DEF IsRoot, Swap
  <2>20. PICK i \in 1..Len(listed) : h[i] = r
    BY <2>4, <2>7, <2>18, <2>19 DEF FstabOf
  <2>21. /\ DOMAIN fstab = 1..Len(listed)
         /\ \A j \in DOMAIN fstab :
               /\ fstab[j] = gen_fstab_entry(P[h[j]]) /\ h[j] \in 1..M
               /\ h[j] = r => j = i
    BY <2>18, <2>20 DEF FstabOf
  <2>22. ASSUME NEW j \in DOMAIN fstab PROVE fstab[j].mountpoint = "/" <=> j = i
    <3>1. fstab[j].mountpoint = P[h[j]].mountpoint
      BY <2>21, SourceOf
    <3>2. P[h[j]].mountpoint = "/" <=> h[j] = r
      BY <2>3, <2>21 DEF IsRoot
    <3> QED BY <2>20, <2>21, <3>1, <3>2
  <2>23. fstab[i] = gen_fstab_entry(p) /\ i \in DOMAIN fstab
    BY <2>20, <2>21
  <2>24. fstab[i].source = source /\ fstab[i].subvol = subvol
    BY <2>23 DEF source, subvol
  <2> HIDE DEF p
  <2> QED BY <2>10, <2>16, <2>17, <2>22, <2>23, <2>24
<1> QED BY <1>2, <1>3 DEF RootAgrees

------------------------------------------------------------------------------
(* Every step keeps the invariant.                                          *)

LEMMA PartitionsAreEntries ==
    ASSUME NEW p \in Seq(Partition)
    PROVE  p \in Seq(Entries)
<1>1. Devices \subseteq Nat /\ No \in Nat
  BY DevicesAssumption DEF No
<1>2. Partition \subseteq Entries
  BY <1>1 DEF Partition, Entries
<1>3. Len(p) \in Nat /\ p \in [1..Len(p) -> Partition]
  OBVIOUS
<1>4. p \in [1..Len(p) -> Entries]
  BY <1>2, <1>3
<1> QED BY <1>3, <1>4, MadeSequence

\* An entry that the installers make.
LEMMA MadeEntry ==
    ASSUME NEW fs \in FsTypes, NEW m \in Mountpoints, NEW d \in Devices, NEW n \in Sizes,
           NEW u \in {No, d}, NEW l \in {No, d}
    PROVE  LET e == Entry(fs, m, d, n, u, l)
           IN  /\ e \in Partition
               /\ e.fstype = fs /\ e.mountpoint = m /\ e.device = d /\ e.size = n
               /\ e.luks = l /\ e.subvolume = NoSubvolume
<1>1. \A v \in {No, d} : v \in Devices \cup {No}
  OBVIOUS
<1> QED BY <1>1 DEF Entry, Partition

\* What is entered behind the others, on a device of its own.
LEMMA Behindmost ==
    ASSUME SchemaTypeOK, DeviceInv, NEW e \in Partition, e.device \in NewDevices,
           e.luks \in {No, e.device}, partitions' = Append(partitions, e)
    PROVE  /\ Len(partitions') = Len(partitions) + 1 /\ Len(partitions) \in Nat
           /\ partitions' \in Seq(Partition)
           /\ DOMAIN partitions' = 1..(Len(partitions) + 1)
           /\ DOMAIN partitions = 1..Len(partitions)
           /\ \A i \in 1..Len(partitions) :
                 /\ i \in 1..(Len(partitions) + 1) /\ i # Len(partitions) + 1
                 /\ partitions'[i] = partitions[i]
                 /\ partitions[i].device # e.device
           /\ \A i \in 1..(Len(partitions) + 1) :
                 i \in 1..Len(partitions) \/ i = Len(partitions) + 1
           /\ Len(partitions) + 1 \in 1..(Len(partitions) + 1)
           /\ partitions'[Len(partitions) + 1] = e
           /\ DeviceInv'
<1> DEFINE P == partitions
           N == Len(P)
           Q == partitions'
<1>0. P \in Seq(Partition) /\ N \in Nat /\ DOMAIN P = 1..N
  BY EntriesOfVector DEF SchemaTypeOK
<1>1. /\ Q \in Seq(Partition) /\ Len(Q) = N + 1 /\ Q[N + 1] = e
      /\ \A i \in 1..N : Q[i] = P[i]
  BY <1>0
<1>2. \A i \in 1..N : P[i].device # e.device
  BY <1>0 DEF NewDevices
<1>3. /\ \A i \in 1..N : i \in 1..(N + 1) /\ i # N + 1
      /\ \A i \in 1..(N + 1) : i \in 1..N \/ i = N + 1
      /\ N + 1 \in 1..(N + 1)
  BY <1>0
<1>4. DOMAIN Q = 1..(N + 1)
  BY <1>0, <1>1
<1>5. /\ \A i \in 1..N : P[i].luks \in {No, P[i].device}
      /\ \A i, j \in 1..N : P[i].device = P[j].device => P[i].size = P[j].size /\ P[i].luks = P[j].luks
  BY DEF DeviceInv
<1> HIDE DEF P, N, Q
<1>6. \A i, j \in 1..(N + 1) :
        /\ Q[i].luks \in {No, Q[i].device}
        /\ Q[i].device = Q[j].device => Q[i].size = Q[j].size /\ Q[i].luks = Q[j].luks
  <2> SUFFICES ASSUME NEW i \in 1..(N + 1), NEW j \in 1..(N + 1)
               PROVE  /\ Q[i].luks \in {No, Q[i].device}
                      /\ Q[i].device = Q[j].device => Q[i].size = Q[j].size /\ Q[i].luks = Q[j].luks
    OBVIOUS
  <2>1. CASE i \in 1..N /\ j \in 1..N
    BY <1>1, <1>5, <2>1
  <2>2. CASE i = N + 1 /\ j = N + 1
    BY <1>1, <2>2
  <2>3. CASE i \in 1..N /\ j = N + 1
    BY <1>1, <1>2, <1>5, <2>3
  <2>4. CASE i = N + 1 /\ j \in 1..N
    BY <1>1, <1>2, <2>4
  <2> QED BY <1>3, <2>1, <2>2, <2>3, <2>4
<1>7. DeviceInv'
  BY <1>1, <1>6 DEF DeviceInv, Q
<1> QED BY <1>0, <1>1, <1>2, <1>3, <1>4, <1>7 DEF P, N, Q

\* What of MountedAsEntered concerns mountpoint m: no two entries for it are on the root's
\* device when a subvolume is there, and one of them names it or another device is mounted.
AtMountpoint(p, r, m, top, names) ==
    /\ top \notin {NoSubvolume, "top"} =>
          \/ \E i \in 1..Len(p) :
                /\ p[i].mountpoint = m /\ p[i].device = p[r].device /\ p[i].subvolume = top
                /\ \A j \in 1..Len(p) : p[j].mountpoint = m /\ p[j].device = p[r].device => j = i
          \/ /\ \A j \in 1..Len(p) : p[j].mountpoint = m => p[j].device # p[r].device
             /\ \E j \in 1..Len(p) : p[j].mountpoint = m
    /\ \A i \in 1..Len(p) :
          p[i].mountpoint = m /\ p[i].device = p[r].device => p[i].subvolume \in names \cup {NoSubvolume}

\* MountedAsEntered, of any vector, what is visible and what there is.
AsEntered(P, t, names) ==
    \A r \in RootPart(P) : \A m \in Mountpoints :
        LET entries == {i \in DOMAIN P : P[i].mountpoint = m}
            own == {i \in entries : P[i].device = P[r].device}
        IN  /\ t[m] \notin {NoSubvolume, "top"} =>
                   \/ \E i \in own : own = {i} /\ P[i].subvolume = t[m]
                   \/ own = {} /\ entries # {}
            /\ \A i \in own : P[i].subvolume \in names \cup {NoSubvolume}

LEMMA AtEveryMountpoint ==
    ASSUME NEW P, NEW tp, NEW names, NEW r, RootPart(P) = {r}, DOMAIN P = 1..Len(P)
    PROVE  AsEntered(P, tp, names) <=>
               \A m \in Mountpoints : AtMountpoint(P, r, m, tp[m], names)
<1> DEFINE M == Len(P)
           Entries1(m) == {i \in DOMAIN P : P[i].mountpoint = m}
           Own(m) == {i \in Entries1(m) : P[i].device = P[r].device}
           Shown(m) == /\ tp[m] \notin {NoSubvolume, "top"} =>
                             \/ \E i \in Own(m) : Own(m) = {i} /\ P[i].subvolume = tp[m]
                             \/ Own(m) = {} /\ Entries1(m) # {}
                       /\ \A i \in Own(m) : P[i].subvolume \in names \cup {NoSubvolume}
<1>1. DOMAIN P = 1..M
  OBVIOUS
<1>3. AsEntered(P, tp, names) <=> \A m \in Mountpoints : Shown(m)
  BY DEF AsEntered
<1>4. ASSUME NEW m \in Mountpoints
      PROVE  Shown(m) <=> AtMountpoint(P, r, m, tp[m], names)
  <2> DEFINE E == Entries1(m)
             O == Own(m)
             t == tp[m]
  <2>1. \A i : i \in E <=> i \in 1..M /\ P[i].mountpoint = m
    BY <1>1
  <2>2. \A i : i \in O <=> i \in 1..M /\ P[i].mountpoint = m /\ P[i].device = P[r].device
    BY <1>1
  <2>3. Shown(m) <=> /\ t \notin {NoSubvolume, "top"} =>
                            \/ \E i \in O : O = {i} /\ P[i].subvolume = t
                            \/ O = {} /\ E # {}
                     /\ \A i \in O : P[i].subvolume \in names \cup {NoSubvolume}
    OBVIOUS
  <2> HIDE DEF E, O, Shown
  <2>4. (\E i \in O : O = {i} /\ P[i].subvolume = t)
          <=> \E i \in 1..M :
                /\ P[i].mountpoint = m /\ P[i].device = P[r].device /\ P[i].subvolume = t
                /\ \A j \in 1..M : P[j].mountpoint = m /\ P[j].device = P[r].device => j = i
    <3>1. \A i : O = {i} <=> i \in O /\ \A j \in O : j = i
      OBVIOUS
    <3> QED BY <2>2, <3>1
  <2>5. (O = {} /\ E # {})
          <=> /\ \A j \in 1..M : P[j].mountpoint = m => P[j].device # P[r].device
              /\ \E j \in 1..M : P[j].mountpoint = m
    BY <2>1, <2>2
  <2>6. (\A i \in O : P[i].subvolume \in names \cup {NoSubvolume})
          <=> \A i \in 1..M : P[i].mountpoint = m /\ P[i].device = P[r].device
                                => P[i].subvolume \in names \cup {NoSubvolume}
    BY <2>2
  <2> QED BY <2>3, <2>4, <2>5, <2>6 DEF AtMountpoint
<1>5. \A m \in Mountpoints : Shown(m) <=> AtMountpoint(P, r, m, tp[m], names)
  <2> HIDE DEF Shown
  <2> QED BY <1>4
<1> HIDE DEF Shown
<1>6. (\A m \in Mountpoints : Shown(m)) <=> \A m \in Mountpoints : AtMountpoint(P, r, m, tp[m], names)
  BY <1>5
<1> QED BY <1>3, <1>6

LEMMA SchemaStarts == SchemaInit => SchemaInv
<1> SUFFICES ASSUME SchemaInit PROVE SchemaInv
  OBVIOUS
<1>1. partitions = <<>> /\ stage = "insert" /\ Len(partitions) = 0 /\ existing = {}
  BY DEF SchemaInit
<1>2. \A m \in Mountpoints : tops[m] = NoSubvolume
  BY DEF SchemaInit
<1>3. tops \in [Mountpoints -> SubvolumeNames \cup {"top", NoSubvolume}]
  BY DEF SchemaInit
<1>4. SchemaTypeOK
  BY <1>1, <1>3 DEF SchemaTypeOK
<1>5. DeviceInv /\ RootInv /\ EnterInv /\ MountedAsEntered
  BY <1>1 DEF DeviceInv, RootInv, EnterInv, MountedAsEntered
<1>6. InsertInv
  BY <1>1, <1>2 DEF InsertInv
<1> QED BY <1>4, <1>5, <1>6 DEF SchemaInv

LEMMA BackKeeps ==
    ASSUME SchemaInv, emplace_back
    PROVE  SchemaInv'
<1> DEFINE P == partitions
           N == Len(P)
           Q == partitions'
<1>0. SchemaTypeOK /\ DeviceInv /\ RootInv /\ InsertInv /\ MountedAsEntered
  BY DEF SchemaInv
<1>1. stage # "root" /\ stage' = stage /\ existing' = existing
  BY DEF emplace_back
<1>2. PICK d \in NewDevices, k \in Kinds, l \in {No} \cup Devices :
        /\ l \in {No, d}
        /\ k.mountpoint \in NewMountpoints
        /\ Q = Append(P, Entry(k.fstype, k.mountpoint, d, k.size, d, l))
        /\ tops' \in {tops, [tops EXCEPT ![k.mountpoint] = NoSubvolume]}
  <2>1. NewDevices \subseteq Devices
    BY DEF NewDevices
  <2> QED BY <2>1 DEF emplace_back
<1> DEFINE e == Entry(k.fstype, k.mountpoint, d, k.size, d, l)
<1>3. /\ k.fstype \in FsTypes /\ k.mountpoint \in Mountpoints /\ k.mountpoint # "/"
      /\ k.size \in Sizes /\ d \in Devices
  BY KindsAssumption DEF NewDevices
<1>4. /\ e \in Partition /\ e.mountpoint = k.mountpoint /\ e.device = d
      /\ e.luks = l /\ e.subvolume = NoSubvolume
  BY <1>2, <1>3, MadeEntry
<1>5. Q = Append(P, e)
  BY <1>2
<1> HIDE DEF e
<1>6. /\ Len(Q) = N + 1 /\ N \in Nat
      /\ Q \in Seq(Partition)
      /\ DOMAIN Q = 1..(N + 1)
      /\ DOMAIN P = 1..N
      /\ \A i \in 1..N :
            /\ i \in 1..(N + 1) /\ i # N + 1
            /\ Q[i] = P[i]
            /\ P[i].device # e.device
      /\ \A i \in 1..(N + 1) : i \in 1..N \/ i = N + 1
      /\ N + 1 \in 1..(N + 1)
      /\ Q[N + 1] = e
      /\ DeviceInv'
  BY <1>0, <1>2, <1>4, <1>5, Behindmost
<1>7. /\ tops' \in [Mountpoints -> SubvolumeNames \cup {"top", NoSubvolume}]
      /\ \A m \in Mountpoints : tops'[m] \in {tops[m], NoSubvolume}
      /\ \A m \in Mountpoints : m # k.mountpoint => tops'[m] = tops[m]
  <2>1. tops \in [Mountpoints -> SubvolumeNames \cup {"top", NoSubvolume}]
    BY <1>0 DEF SchemaTypeOK
  <2> QED BY <1>2, <2>1
<1> HIDE DEF P, N, Q
<1>8. SchemaTypeOK'
  BY <1>0, <1>1, <1>6, <1>7 DEF SchemaTypeOK, Q
<1>9. ASSUME NEW r, IsRoot(r) PROVE IsRoot(r)'
  <2>1. /\ r \in 1..N
        /\ \A i \in 1..N : P[i].mountpoint = "/" <=> i = r
        /\ P[r].fstype \in {"btrfs", "ext4", "zfs"} /\ P[r].size = 0
        /\ \A i \in 1..N : P[i].device = P[r].device => P[i].mountpoint # ""
    BY <1>9 DEF IsRoot, P, N
  <2>2. r \in 1..(N + 1) /\ r # N + 1 /\ Q[r] = P[r] /\ P[r].device # e.device
    BY <1>6, <2>1
  <2>3. \A i \in 1..(N + 1) : Q[i].mountpoint = "/" <=> i = r
    BY <1>3, <1>4, <1>6, <2>1, <2>2
  <2>4. \A i \in 1..(N + 1) : Q[i].device = Q[r].device => Q[i].mountpoint # ""
    BY <1>6, <2>1, <2>2
  <2> QED BY <1>6, <2>1, <2>2, <2>3, <2>4 DEF IsRoot, Q
<1>10. RootInv'
  BY <1>0, <1>1, <1>9 DEF RootInv
<1>11. InsertInv'
  <2> SUFFICES ASSUME stage = "insert"
               PROVE  /\ \A i \in 1..(N + 1) : Q[i].mountpoint # "/" /\ Q[i].subvolume = NoSubvolume
                      /\ \A i, j \in 1..(N + 1) : Q[i].mountpoint = Q[j].mountpoint => i = j
                      /\ \A m \in Mountpoints : tops'[m] = NoSubvolume
    BY <1>1, <1>6 DEF InsertInv, Q
  <2>1. /\ \A i \in 1..N : P[i].mountpoint # "/" /\ P[i].subvolume = NoSubvolume
        /\ \A i, j \in 1..N : P[i].mountpoint = P[j].mountpoint => i = j
        /\ \A m \in Mountpoints : tops[m] = NoSubvolume
    BY <1>0 DEF InsertInv, P, N
  <2>2. RootDevice = {}
    BY <1>6, <2>1 DEF RootDevice, RootPart, P
  <2>3. \A i \in 1..N : P[i].mountpoint # e.mountpoint
    BY <1>2, <1>4, <1>6, <2>2 DEF NewMountpoints, P
  <2>4. \A i \in 1..(N + 1) : Q[i].mountpoint # "/" /\ Q[i].subvolume = NoSubvolume
    BY <1>3, <1>4, <1>6, <2>1
  <2>5. ASSUME NEW i \in 1..(N + 1), NEW j \in 1..(N + 1), Q[i].mountpoint = Q[j].mountpoint
        PROVE  i = j
    BY <1>6, <2>1, <2>3, <2>5
  <2>6. \A m \in Mountpoints : tops'[m] = NoSubvolume
    BY <1>7, <2>1
  <2> QED BY <2>4, <2>5, <2>6
<1>12. EnterInv'
  BY <1>1 DEF EnterInv
<1>13. MountedAsEntered'
  <2>1. CASE stage # "done"
    BY <1>1, <2>1 DEF MountedAsEntered, P
  <2>2. CASE stage = "done"
    <3>1. PICK r : IsRoot(r)
      BY <1>0, <2>2 DEF RootInv
    <3>2. \A m \in Mountpoints : AtMountpoint(P, r, m, tops[m], existing)
      <4>1. AsEntered(P, tops, existing)
        BY <1>0, <2>2 DEF MountedAsEntered, AsEntered, P
      <4>2. RootPart(P) = {r} /\ DOMAIN P = 1..Len(P)
        BY <1>6, <3>1 DEF RootPart, IsRoot, P, N
      <4> QED BY <4>1, <4>2, AtEveryMountpoint
    <3>3. r \in 1..N /\ r \in 1..(N + 1) /\ Q[r] = P[r] /\ P[r].device # e.device
      BY <1>6, <3>1 DEF IsRoot, P, N
    <3>4. ASSUME NEW m \in Mountpoints
          PROVE  AtMountpoint(Q, r, m, tops'[m], existing)
      <4> DEFINE t == tops'[m]
                 On(p, i) == p[i].mountpoint = m /\ p[i].device = P[r].device
      <4>1. \A i \in 1..(N + 1) : On(Q, i) => i \in 1..N /\ Q[i] = P[i] /\ On(P, i)
        BY <1>4, <1>6, <3>3
      <4>2. \A i \in 1..N : On(P, i) <=> On(Q, i)
        BY <1>6
      <4>3. AtMountpoint(P, r, m, tops[m], existing)
        BY <3>2
      <4>4. \A i \in 1..(N + 1) : On(Q, i) => Q[i].subvolume \in existing \cup {NoSubvolume}
        BY <4>1, <4>3 DEF AtMountpoint, N
      <4>5. ASSUME t \notin {NoSubvolume, "top"}
            PROVE  \/ \E i \in 1..(N + 1) : /\ On(Q, i) /\ Q[i].subvolume = t
                                            /\ \A j \in 1..(N + 1) : On(Q, j) => j = i
                   \/ /\ \A j \in 1..(N + 1) : Q[j].mountpoint = m => Q[j].device # P[r].device
                      /\ \E j \in 1..(N + 1) : Q[j].mountpoint = m
        <5>1. t = tops[m]
          BY <1>7, <4>5
        <5>2. \/ \E i \in 1..N : /\ On(P, i) /\ P[i].subvolume = t
                                 /\ \A j \in 1..N : On(P, j) => j = i
              \/ /\ \A j \in 1..N : P[j].mountpoint = m => P[j].device # P[r].device
                 /\ \E j \in 1..N : P[j].mountpoint = m
          BY <4>3, <4>5, <5>1 DEF AtMountpoint, N
        <5> HIDE DEF t
        <5>3. CASE \E i \in 1..N : /\ On(P, i) /\ P[i].subvolume = t
                                   /\ \A j \in 1..N : On(P, j) => j = i
          BY <1>6, <4>1, <5>3
        <5>4. CASE /\ \A j \in 1..N : P[j].mountpoint = m => P[j].device # P[r].device
                   /\ \E j \in 1..N : P[j].mountpoint = m
          BY <1>6, <4>1, <5>4
        <5> QED BY <5>2, <5>3, <5>4
      <4> QED BY <1>6, <3>3, <4>4, <4>5 DEF AtMountpoint
    <3>5. RootPart(Q) = {r} /\ DOMAIN Q = 1..Len(Q)
      <4>1. \A i \in 1..(N + 1) : Q[i].mountpoint = "/" <=> i = r
        <5>1. IsRoot(r)'
          BY <1>9, <3>1
        <5>2. \A i \in 1..Len(Q) : Q[i].mountpoint = "/" <=> i = r
          BY <5>1 DEF IsRoot, Q
        <5> QED BY <1>6, <5>2
      <4> QED BY <1>6, <3>3, <4>1 DEF RootPart
    <3>6. \A m \in Mountpoints : AtMountpoint(Q, r, m, tops'[m], existing')
      BY <1>1, <3>4
    <3>7. AsEntered(Q, tops', existing')
      BY <3>5, <3>6, AtEveryMountpoint
    <3> QED BY <3>7 DEF MountedAsEntered, AsEntered, Q
  <2> QED BY <2>1, <2>2
<1> QED BY <1>6, <1>8, <1>10, <1>11, <1>12, <1>13 DEF SchemaInv

\* The names of a list that the user may be asked about are those of subvolumes.
LEMMA ListOf ==
    ASSUME NEW l \in ExistingLists
    PROVE  /\ Enterables(l) /\ l # <<>> /\ NamesUpTo(Len(l), l) = Listed(l)
           /\ Listed(l) \subseteq SubvolumeNames
<1>1. l \in Seq(Subvolumes) /\ l # <<>> /\ Len(l) \in Nat /\ DOMAIN l = 1..Len(l)
  BY ListsAssumption
<1>2. \A i, j \in 1..Len(l) : l[i].subvolume = l[j].subvolume => i = j
  BY <1>1, ListsAssumption
<1>3. \A v \in Subvolumes : v.subvolume \in SubvolumeNames
  BY DEF Subvolumes
<1>4. \A i \in 1..Len(l) : l[i] \in Subvolumes
  BY <1>1
<1> QED BY <1>1, <1>2, <1>3, <1>4 DEF Enterables, NamesUpTo, Listed

LEMMA RootKeeps ==
    ASSUME SchemaInv, emplace_root
    PROVE  SchemaInv'
<1> DEFINE P == partitions
           N == Len(P)
           Q == partitions'
<1>0. SchemaTypeOK /\ DeviceInv /\ InsertInv /\ stage = "insert"
  BY DEF SchemaInv, emplace_root
<1>1. PICK d \in NewDevices, fs \in {"btrfs", "ext4", "zfs"}, u \in {No} \cup Devices, l \in {No} \cup Devices :
        /\ u \in {No, d} /\ l \in {No, d}
        /\ Q = Append(P, Entry(fs, "/", d, 0, u, l))
        /\ stage' \in IF fs = "btrfs" THEN {"root", "done"} ELSE {"done"}
  <2>1. NewDevices \subseteq Devices
    BY DEF NewDevices
  <2> QED BY <2>1 DEF emplace_root
<1>2. stage' \in {"root", "done"} /\ (stage' = "root" => fs = "btrfs")
  BY <1>1
<1>3. /\ existing' \in IF stage' = "root" THEN {{}} \cup {Listed(l2) : l2 \in ExistingLists} ELSE {{}}
      /\ tops' = [tops EXCEPT !["/"] = "top"]
  BY DEF emplace_root
<1> DEFINE e == Entry(fs, "/", d, 0, u, l)
<1>4. fs \in FsTypes /\ "/" \in Mountpoints /\ 0 \in Sizes /\ d \in Devices
  <2>1. "/" \in Mountpoints
    <3>1. 2 \in DOMAIN PathOrder /\ PathOrder[2] = "/"
      BY DEF PathOrder
    <3> QED BY <3>1 DEF Mountpoints, ToSet
  <2> QED BY <2>1, EmptySize DEF FsTypes, NewDevices
<1>5. /\ e \in Partition /\ e.fstype = fs /\ e.mountpoint = "/" /\ e.device = d
      /\ e.size = 0 /\ e.luks = l /\ e.subvolume = NoSubvolume
  BY <1>1, <1>4, MadeEntry
<1>6. Q = Append(P, e)
  BY <1>1
<1> HIDE DEF e
<1>7. /\ Len(Q) = N + 1 /\ N \in Nat
      /\ Q \in Seq(Partition)
      /\ DOMAIN Q = 1..(N + 1)
      /\ DOMAIN P = 1..N
      /\ \A i \in 1..N :
            /\ i \in 1..(N + 1) /\ i # N + 1
            /\ Q[i] = P[i]
            /\ P[i].device # e.device
      /\ \A i \in 1..(N + 1) : i \in 1..N \/ i = N + 1
      /\ N + 1 \in 1..(N + 1)
      /\ Q[N + 1] = e
      /\ DeviceInv'
  BY <1>0, <1>1, <1>5, <1>6, Behindmost
<1>8. /\ tops' \in [Mountpoints -> SubvolumeNames \cup {"top", NoSubvolume}]
      /\ \A m \in Mountpoints : tops'[m] \in {NoSubvolume, "top"}
  <2>1. tops \in [Mountpoints -> SubvolumeNames \cup {"top", NoSubvolume}]
    BY <1>0 DEF SchemaTypeOK
  <2>2. \A m \in Mountpoints : tops[m] = NoSubvolume
    BY <1>0 DEF InsertInv
  <2> QED BY <1>3, <2>1, <2>2
<1>9. existing' \subseteq SubvolumeNames
  <2>1. \A l2 \in ExistingLists : Listed(l2) \subseteq SubvolumeNames
    BY ListOf
  <2> QED BY <1>3, <2>1
<1>10. /\ \A i \in 1..N : P[i].mountpoint # "/" /\ P[i].subvolume = NoSubvolume
       /\ \A i, j \in 1..N : P[i].mountpoint = P[j].mountpoint => i = j
  BY <1>0 DEF InsertInv
<1> HIDE DEF P, N, Q
<1>11. PICK r : r = N + 1
  OBVIOUS
<1>12. SchemaTypeOK'
  BY <1>2, <1>7, <1>8, <1>9 DEF SchemaTypeOK, Q
<1>13. \A i \in 1..(N + 1) : Q[i].mountpoint = "/" <=> i = r
  BY <1>5, <1>7, <1>10, <1>11
<1>14. IsRoot(r)'
  <2>1. Q[r].fstype \in {"btrfs", "ext4", "zfs"} /\ Q[r].size = 0
    BY <1>5, <1>7, <1>11
  <2>2. ASSUME NEW i \in 1..(N + 1), Q[i].device = Q[r].device PROVE Q[i].mountpoint # ""
    <3>1. i = r
      BY <1>7, <1>11, <2>2
    <3> QED BY <1>5, <1>7, <1>11, <3>1
  <2>3. r \in 1..(N + 1)
    BY <1>7, <1>11
  <2>4. /\ r \in 1..Len(Q)
        /\ \A i \in 1..Len(Q) : Q[i].mountpoint = "/" <=> i = r
        /\ \A i \in 1..Len(Q) : Q[i].device = Q[r].device => Q[i].mountpoint # ""
    BY <1>7, <1>13, <1>11, <2>2, <2>3
  <2> QED BY <2>1, <2>4 DEF IsRoot, Q
<1>15. RootInv' /\ InsertInv'
  BY <1>2, <1>14 DEF RootInv, InsertInv
<1>16. \A i \in 1..(N + 1) : Q[i].subvolume = NoSubvolume
  BY <1>5, <1>7, <1>10
<1>17. EnterInv'
  <2> SUFFICES ASSUME stage' = "root" PROVE Enterable(Q, r)
    BY <1>8 DEF EnterInv, Q
  <2>1. Q \in Seq(Entries)
    BY <1>7, PartitionsAreEntries
  <2>2. Q[r].fstype = "btrfs" /\ Q[r].mountpoint = "/"
    BY <1>2, <1>5, <1>7, <1>11
  <2>3. ASSUME NEW i \in 1..(N + 1), NEW j \in 1..(N + 1), Q[i].mountpoint = Q[j].mountpoint
        PROVE  i = j
    BY <1>5, <1>7, <1>10, <2>3
  <2> QED BY <1>7, <1>16, <1>11, <2>1, <2>2, <2>3 DEF Enterable
<1>18. MountedAsEntered'
  <2>1. RootPart(Q) = {r} /\ DOMAIN Q = 1..Len(Q)
    BY <1>7, <1>13, <1>11 DEF RootPart
  <2>2. \A m \in Mountpoints : AtMountpoint(Q, r, m, tops'[m], existing')
    BY <1>7, <1>8, <1>16, <1>11 DEF AtMountpoint
  <2>3. AsEntered(Q, tops', existing')
    <3> QED BY <2>1, <2>2, AtEveryMountpoint
  <2> QED BY <2>3 DEF MountedAsEntered, AsEntered, Q
<1> QED BY <1>7, <1>12, <1>15, <1>17, <1>18 DEF SchemaInv

LEMMA MountpointsOfLists ==
    ASSUME NEW l, Enterables(l)
    PROVE  Len(l) \in Nat /\ \A i \in 1..Len(l) : l[i].subvolume \in SubvolumeNames
<1>1. \A v \in Subvolumes : v.subvolume \in SubvolumeNames
  BY DEF Subvolumes
<1>2. Len(l) \in Nat /\ \A i \in 1..Len(l) : l[i] \in Subvolumes
  BY DEF Enterables
<1> QED BY <1>1, <1>2

LEMMA DefaultSubvolumes == Enterables(default_subvolumes) /\ default_subvolumes # <<>>
<1> DEFINE a == [subvolume |-> "/@", mountpoint |-> "/"]
           b == [subvolume |-> "/@home", mountpoint |-> "/home"]
           c == [subvolume |-> "/@cache", mountpoint |-> "/var/cache"]
           l == default_subvolumes
<1>1. l = <<a, b, c>>
  BY DEF default_subvolumes
<1>2. DOMAIN PathOrder = 1..5 /\ PathOrder[2] = "/" /\ PathOrder[4] = "/home" /\ PathOrder[5] = "/var/cache"
  BY DEF PathOrder
<1>3. 2 \in 1..5 /\ 4 \in 1..5 /\ 5 \in 1..5
  OBVIOUS
<1>4. "/" \in Mountpoints /\ "/home" \in Mountpoints /\ "/var/cache" \in Mountpoints
  BY <1>2, <1>3 DEF Mountpoints, ToSet
<1>5. "/@" \in SubvolumeNames /\ "/@home" \in SubvolumeNames /\ "/@cache" \in SubvolumeNames
  BY DEF SubvolumeNames
<1>6. "/" # "" /\ "/home" # "" /\ "/var/cache" # ""
  OBVIOUS
<1>7. a \in Subvolumes /\ b \in Subvolumes /\ c \in Subvolumes
  BY <1>4, <1>5, <1>6 DEF Subvolumes
<1>8. a.subvolume # b.subvolume /\ a.subvolume # c.subvolume /\ b.subvolume # c.subvolume
  OBVIOUS
<1> HIDE DEF a, b, c, l
<1>9. l \in Seq(Subvolumes) /\ Len(l) = 3 /\ l[1] = a /\ l[2] = b /\ l[3] = c /\ l # <<>>
  BY <1>1, <1>7
<1>10. \A i \in 1..3 : i = 1 \/ i = 2 \/ i = 3
  OBVIOUS
<1>11. \A i, j \in 1..Len(l) : l[i].subvolume = l[j].subvolume => i = j
  BY <1>8, <1>9, <1>10
<1>12. Enterables(l) /\ l # <<>>
  BY <1>9, <1>11 DEF Enterables
<1> QED BY <1>12 DEF l

\* Entering and mounting a list keeps the invariant, also when not all of it was mounted.
LEMMA EnteringKeeps ==
    ASSUME SchemaInv, stage = "root", NEW l, Enterables(l), l # <<>>,
           partitions' = btrfs_append_subvolumes(partitions, l),
           tops' \in [Mountpoints -> Visibles], existing' \subseteq SubvolumeNames,
           stage' \in {"done", "failed"},
           stage' = "done" =>
               /\ NamesUpTo(Len(l), l) \subseteq existing'
               /\ tops' \in {mount_first(Len(l), l, t) : t \in {tops, Unmounted}}
    PROVE  SchemaInv'
<1> DEFINE P == partitions
           M == Len(P)
           Q == partitions'
           N == Len(Q)
           names == NamesUpTo(Len(l), l)
           NothingOf(t) == t \in [Mountpoints -> Visibles]
                           /\ \A m \in Mountpoints : t[m] \in {NoSubvolume, "top"}
<1>0. SchemaTypeOK /\ DeviceInv /\ RootInv /\ EnterInv
  BY DEF SchemaInv
<1>1. PICK r0 : Enterable(P, r0)
  BY <1>0 DEF EnterInv
<1>2. PICK r : IsRoot(r)
  BY <1>0 DEF RootInv
<1>3. r0 = r
  BY <1>1, <1>2 DEF Enterable, IsRoot
<1>4. Enterable(P, r)
  BY <1>1, <1>3
<1>5. /\ M \in Nat /\ r \in 1..M
      /\ \A i \in 1..M : P[i] \in Partition
      /\ \A i \in 1..M : P[i].mountpoint = "/" <=> i = r
      /\ P[r].fstype \in {"btrfs", "ext4", "zfs"} /\ P[r].size = 0
      /\ \A i \in 1..M : P[i].device = P[r].device => P[i].mountpoint # ""
  <2>1. M \in Nat /\ \A i \in 1..M : P[i] \in Partition
    BY <1>0, EntriesOfVector
  <2> QED BY <1>2, <2>1 DEF IsRoot
<1>6. \A i, j \in 1..M :
        /\ P[i].luks \in {No, P[i].device}
        /\ P[i].device = P[j].device => P[i].size = P[j].size /\ P[i].luks = P[j].luks
  BY <1>0 DEF DeviceInv
<1>7. NothingOf(tops) /\ NothingOf(Unmounted)
  <2>1. tops \in [Mountpoints -> Visibles]
    BY <1>0 DEF SchemaTypeOK, Visibles
  <2>2. Unmounted \in [Mountpoints -> Visibles] /\ \A m \in Mountpoints : Unmounted[m] = NoSubvolume
    BY DEF Unmounted, Visibles
  <2> QED BY <1>0, <2>1, <2>2 DEF EnterInv
<1>8. ASSUME NEW t, NothingOf(t)
      PROVE  WithSubvolumes(Q, P, r, names) /\ AllHaveEntries(Q, mount_first(Len(l), l, t))
  <2>1. PICK q : /\ btrfs_append_subvolumes(P, l) = sort(q, by_device)
                 /\ Entered(q, P, r, Len(l), l)
                 /\ AllHaveEntries(q, mount_first(Len(l), l, t))
    BY <1>4, <1>8, AllMounted
  <2>2. Q = sort(q, by_device)
    BY <2>1
  <2>3. /\ WithSubvolumes(sort(q, by_device), P, r, names)
        /\ \A tp : AllHaveEntries(q, tp) => AllHaveEntries(sort(q, by_device), tp)
    BY <1>4, <2>1, EnteredSorted
  <2> QED BY <2>1, <2>2, <2>3
<1> HIDE DEF NothingOf
<1>9. WithSubvolumes(Q, P, r, names)
  BY <1>7, <1>8
<1>10. stage' = "done" => AllHaveEntries(Q, tops') /\ names \subseteq existing'
  BY <1>7, <1>8
<1> HIDE DEF P, M, Q, names
<1>11. /\ Q \in Seq(Entries) /\ N \in Nat /\ DOMAIN Q = 1..N
       /\ \A i \in 1..N : CopyOfRoot(Q[i], P[r]) \/ \E k \in 1..M : SameEntry(Q[i], P[k])
       /\ \A i, j \in 1..N : Q[i].mountpoint = Q[j].mountpoint => i = j
       /\ \A i \in 1..N : Q[i].subvolume \in names \cup {NoSubvolume}
       /\ \E i \in 1..N : SameEntry(Q[i], P[r])
  <2>1. Q \in Seq(Entries)
    BY <1>9 DEF WithSubvolumes
  <2>2. N \in Nat /\ DOMAIN Q = 1..N
    BY <2>1
  <2> QED BY <1>9, <2>1, <2>2 DEF WithSubvolumes, M
<1> HIDE DEF N
<1>12. ASSUME NEW i \in 1..N
       PROVE  \E k \in 1..M :
                 /\ Q[i].fstype = P[k].fstype /\ Q[i].device = P[k].device
                 /\ Q[i].uuid = P[k].uuid /\ Q[i].luks = P[k].luks /\ Q[i].size = P[k].size
                 /\ \/ Q[i].mountpoint = P[k].mountpoint
                    \/ k = r /\ Q[i].mountpoint # "" /\ Q[i].mountpoint # "/"
  <2>1. CASE CopyOfRoot(Q[i], P[r])
    BY <1>5, <2>1 DEF CopyOfRoot
  <2>2. CASE \E k \in 1..M : SameEntry(Q[i], P[k])
    BY <2>2 DEF SameEntry
  <2> QED BY <1>11, <2>1, <2>2
<1>13. SchemaTypeOK'
  <2>1. ASSUME NEW i \in 1..N PROVE Q[i] \in Partition
    <3>1. PICK k \in 1..M : Q[i].device = P[k].device /\ Q[i].uuid = P[k].uuid /\ Q[i].luks = P[k].luks
      BY <1>12
    <3>2. Q[i] \in Entries
      BY <1>11
    <3>3. P[k] \in Partition
      BY <1>5
    <3> QED BY <3>1, <3>2, <3>3 DEF Entries, Partition
  <2>2. Q \in [1..N -> Partition]
    <3>1. Q \in [1..N -> Entries]
      BY <1>11 DEF N
    <3> QED BY <2>1, <3>1
  <2>3. Q \in Seq(Partition)
    BY <1>11, <2>2, MadeSequence
  <2>4. stage' \in {"insert", "root", "done", "failed"}
    OBVIOUS
  <2> QED BY <2>3, <2>4 DEF SchemaTypeOK, Visibles, Q
<1>14. DeviceInv'
  <2>1. ASSUME NEW i \in 1..N, NEW j \in 1..N
        PROVE  /\ Q[i].luks \in {No, Q[i].device}
               /\ Q[i].device = Q[j].device => Q[i].size = Q[j].size /\ Q[i].luks = Q[j].luks
    <3>1. PICK k \in 1..M : Q[i].device = P[k].device /\ Q[i].luks = P[k].luks /\ Q[i].size = P[k].size
      BY <1>12
    <3>2. PICK h \in 1..M : Q[j].device = P[h].device /\ Q[j].luks = P[h].luks /\ Q[j].size = P[h].size
      BY <1>12
    <3> QED BY <1>6, <3>1, <3>2
  <2> QED BY <2>1 DEF DeviceInv, Q, N
<1>15. PICK x \in 1..N : SameEntry(Q[x], P[r])
  BY <1>11
<1>16. \A i \in 1..N : Q[i].mountpoint = "/" <=> i = x
  <2>1. Q[x].mountpoint = "/"
    BY <1>5, <1>15 DEF SameEntry
  <2> QED BY <1>11, <2>1
<1>17. Q[x].device = P[r].device /\ Q[x].fstype = P[r].fstype /\ Q[x].size = P[r].size
  BY <1>15 DEF SameEntry
<1>18. IsRoot(x)'
  <2>1. ASSUME NEW i \in 1..N, Q[i].device = Q[x].device PROVE Q[i].mountpoint # ""
    <3>1. PICK k \in 1..M : /\ Q[i].device = P[k].device
                            /\ Q[i].mountpoint = P[k].mountpoint \/ Q[i].mountpoint # ""
      BY <1>12
    <3> QED BY <1>5, <1>17, <2>1, <3>1
  <2> QED BY <1>5, <1>16, <1>17, <2>1 DEF IsRoot, Q, N
<1>19. RootInv' /\ InsertInv' /\ EnterInv'
  BY <1>18 DEF RootInv, InsertInv, EnterInv
<1>20. MountedAsEntered'
  <2> SUFFICES ASSUME stage' = "done" PROVE AsEntered(Q, tops', existing')
    BY DEF MountedAsEntered, AsEntered, Q
  <2>1. RootPart(Q) = {x} /\ DOMAIN Q = 1..Len(Q)
    BY <1>11, <1>16 DEF RootPart, N
  <2>2. ASSUME NEW m \in Mountpoints PROVE AtMountpoint(Q, x, m, tops'[m], existing')
    <3> DEFINE t == tops'[m]
    <3>1. \A i \in 1..N : Q[i].subvolume \in existing' \cup {NoSubvolume}
      BY <1>10, <1>11
    <3>2. ASSUME t \notin {NoSubvolume, "top"}
          PROVE  \E i \in 1..N : Q[i].mountpoint = m /\ Q[i].subvolume = t
      BY <1>10, <3>2 DEF AllHaveEntries, HasEntry, N
    <3>3. \A i, j \in 1..N : Q[i].mountpoint = m /\ Q[j].mountpoint = m => i = j
      BY <1>11
    <3> HIDE DEF t
    <3>4. ASSUME t \notin {NoSubvolume, "top"}
          PROVE  \/ \E i \in 1..N :
                       /\ Q[i].mountpoint = m /\ Q[i].device = Q[x].device /\ Q[i].subvolume = t
                       /\ \A j \in 1..N : Q[j].mountpoint = m /\ Q[j].device = Q[x].device => j = i
                 \/ /\ \A j \in 1..N : Q[j].mountpoint = m => Q[j].device # Q[x].device
                    /\ \E j \in 1..N : Q[j].mountpoint = m
      <4>1. PICK i \in 1..N : Q[i].mountpoint = m /\ Q[i].subvolume = t
        BY <3>2, <3>4
      <4>2. CASE Q[i].device = Q[x].device
        BY <3>3, <4>1, <4>2
      <4>3. CASE Q[i].device # Q[x].device
        BY <3>3, <4>1, <4>3
      <4> QED BY <4>2, <4>3
    <3>5. AtMountpoint(Q, x, m, t, existing')
      BY <3>1, <3>4 DEF AtMountpoint, N
    <3> QED BY <3>5 DEF t
  <2> QED BY <2>1, <2>2, AtEveryMountpoint
<1> QED BY <1>13, <1>14, <1>19, <1>20 DEF SchemaInv

\* The mounts of a list, after the umount.
LEMMA MountsOfList ==
    ASSUME NEW l, Enterables(l), tops \in [Mountpoints -> Visibles], btrfs_mount_subvols(l)
    PROVE  /\ tops' \in [Mountpoints -> Visibles] /\ stage' \in {"done", "failed"}
           /\ stage' = "done" => tops' \in {mount_first(Len(l), l, t) : t \in {tops, Unmounted}}
<1>1. PICK below \in {tops, Unmounted}, done \in 0..Len(l) :
        /\ tops' = mount_first(done, l, below)
        /\ stage' = IF done = Len(l) THEN "done" ELSE "failed"
  BY DEF btrfs_mount_subvols
<1>2. below \in [Mountpoints -> Visibles]
  <2>1. Unmounted \in [Mountpoints -> Visibles]
    BY DEF Unmounted, Visibles
  <2> QED BY <2>1
<1>3. \A N \in 0..Len(l) : \A t \in [Mountpoints -> Visibles] :
         mount_first(N, l, t) \in [Mountpoints -> Visibles]
  <2> SUFFICES ASSUME NEW N \in 0..Len(l), NEW t \in [Mountpoints -> Visibles]
               PROVE  mount_first(N, l, t) \in [Mountpoints -> Visibles]
    OBVIOUS
  <2>1. PICK w : /\ mount_first(N, l, t) = w[N] /\ w[0] = t
                 /\ \A n \in 1..N : w[n] = mount_subvol(w[n - 1], l[n])
                 /\ \A n \in 0..N : w[n] \in [Mountpoints -> Visibles]
    BY MountLoop
  <2>2. N \in 0..N
    BY MountpointsOfLists
  <2> QED BY <2>1, <2>2
<1>4. tops' \in [Mountpoints -> Visibles]
  BY <1>1, <1>2, <1>3
<1>5. stage' = "done" => done = Len(l)
  BY <1>1
<1> QED BY <1>1, <1>4, <1>5

LEMMA CreatedKeeps ==
    ASSUME SchemaInv, btrfs_create_subvols
    PROVE  SchemaInv'
<1> DEFINE l == default_subvolumes
           L == Len(l)
<1>1. /\ stage = "root" /\ partitions' = btrfs_append_subvolumes(partitions, l)
      /\ create_and_mount(l)
  BY DEF btrfs_create_subvols
<1>2. Enterables(l) /\ l # <<>>
  BY DefaultSubvolumes
<1> HIDE DEF l
<1>3. L \in Nat /\ \A i \in 1..L : l[i].subvolume \in SubvolumeNames
  BY <1>2, MountpointsOfLists
<1>4. PICK n \in 0..L :
        /\ existing' = existing \cup NamesUpTo(n, l)
        /\ IF n = L THEN btrfs_mount_subvols(l) ELSE stage' = "failed" /\ UNCHANGED tops
  BY <1>1 DEF create_and_mount, btrfs_create_subvol, NamesUpTo
<1>5. existing \subseteq SubvolumeNames /\ tops \in [Mountpoints -> Visibles]
  BY DEF SchemaInv, SchemaTypeOK, Visibles
<1>6. existing' \subseteq SubvolumeNames
  <2>1. \A i \in 1..n : i \in 1..L
    BY <1>3
  <2> QED BY <1>3, <1>4, <1>5, <2>1 DEF NamesUpTo
<1>7. CASE n = L
  <2>1. btrfs_mount_subvols(l)
    BY <1>4, <1>7
  <2>2. /\ tops' \in [Mountpoints -> Visibles] /\ stage' \in {"done", "failed"}
        /\ stage' = "done" => tops' \in {mount_first(L, l, t) : t \in {tops, Unmounted}}
    BY <1>2, <1>5, <2>1, MountsOfList
  <2>3. NamesUpTo(L, l) \subseteq existing'
    BY <1>4, <1>7
  <2> QED BY <1>1, <1>2, <1>6, <2>2, <2>3, EnteringKeeps
<1>8. CASE n # L
  <2>1. stage' = "failed" /\ tops' = tops
    BY <1>4, <1>8
  <2> QED BY <1>1, <1>2, <1>5, <1>6, <2>1, EnteringKeeps
<1> QED BY <1>7, <1>8

LEMMA ExistingKeep ==
    ASSUME SchemaInv, mount_existing_subvols
    PROVE  SchemaInv'
<1>1. stage = "root" /\ existing' = existing
  BY DEF mount_existing_subvols
<1>2. existing \subseteq SubvolumeNames /\ tops \in [Mountpoints -> Visibles]
  BY DEF SchemaInv, SchemaTypeOK, Visibles
<1>3. ASSUME NEW l \in ExistingLists, Listed(l) = existing, btrfs_mount_subvols(l),
             partitions' = btrfs_append_subvolumes(partitions, l)
      PROVE  SchemaInv'
  <2>1. Enterables(l) /\ l # <<>> /\ NamesUpTo(Len(l), l) = Listed(l)
    BY ListOf
  <2>2. /\ tops' \in [Mountpoints -> Visibles] /\ stage' \in {"done", "failed"}
        /\ stage' = "done" => tops' \in {mount_first(Len(l), l, t) : t \in {tops, Unmounted}}
    BY <1>2, <1>3, <2>1, MountsOfList
  <2>3. NamesUpTo(Len(l), l) \subseteq existing' /\ existing' \subseteq SubvolumeNames
    BY <1>1, <1>2, <1>3, <2>1
  <2> QED BY <1>1, <1>3, <2>1, <2>2, <2>3, EnteringKeeps
<1>4. ASSUME stage' = "failed", tops' \in {tops, Unmounted}, partitions' = partitions
      PROVE  SchemaInv'
  <2>1. SchemaTypeOK /\ DeviceInv /\ RootInv
    BY DEF SchemaInv
  <2>2. Unmounted \in [Mountpoints -> SubvolumeNames \cup {"top", NoSubvolume}]
    BY DEF Unmounted
  <2>3. SchemaTypeOK'
    BY <1>1, <1>4, <2>1, <2>2 DEF SchemaTypeOK
  <2>4. DeviceInv'
    BY <1>4, <2>1 DEF DeviceInv
  <2>5. RootInv'
    <3>1. PICK r : IsRoot(r)
      BY <1>1, <2>1 DEF RootInv
    <3>2. IsRoot(r)'
      BY <1>4, <3>1 DEF IsRoot
    <3> QED BY <3>2 DEF RootInv
  <2>6. InsertInv' /\ EnterInv' /\ MountedAsEntered'
    BY <1>4 DEF InsertInv, EnterInv, MountedAsEntered
  <2> QED BY <2>3, <2>4, <2>5, <2>6 DEF SchemaInv
<1> QED BY <1>3, <1>4 DEF mount_existing_subvols

LEMMA NothingKeeps ==
    ASSUME SchemaInv, UNCHANGED schema_vars
    PROVE  SchemaInv'
<1>1. partitions' = partitions /\ tops' = tops /\ existing' = existing /\ stage' = stage
  BY DEF schema_vars
<1>2. SchemaTypeOK' /\ DeviceInv' /\ InsertInv' /\ EnterInv' /\ MountedAsEntered'
  BY <1>1 DEF SchemaInv, SchemaTypeOK, DeviceInv, InsertInv, EnterInv, MountedAsEntered
<1>3. RootInv'
  BY <1>1 DEF SchemaInv, RootInv, IsRoot
<1> QED BY <1>2, <1>3 DEF SchemaInv

LEMMA SchemaInductive == SchemaSpec => []SchemaInv
<1>1. SchemaInit => SchemaInv
  BY SchemaStarts
<1>2. SchemaInv /\ [SchemaNext]_schema_vars => SchemaInv'
  <2> SUFFICES ASSUME SchemaInv, [SchemaNext]_schema_vars PROVE SchemaInv'
    OBVIOUS
  <2>1. CASE emplace_back
    BY <2>1, BackKeeps
  <2>2. CASE emplace_root
    BY <2>2, RootKeeps
  <2>3. CASE btrfs_create_subvols
    BY <2>3, CreatedKeeps
  <2>4. CASE mount_existing_subvols
    BY <2>4, ExistingKeep
  <2>5. CASE UNCHANGED schema_vars
    BY <2>5, NothingKeeps
  <2> QED BY <2>1, <2>2, <2>3, <2>4, <2>5 DEF SchemaNext
<1> QED BY <1>1, <1>2, PTL DEF SchemaSpec

\* emplace_back, the copies of the root and the mounts keep every entry one of the disk.
THEOREM SchemaTypes == SchemaSpec => []SchemaTypeOK
<1>1. SchemaInv => SchemaTypeOK
  BY DEF SchemaInv
<1> QED BY <1>1, SchemaInductive, PTL

\* get_kernel_params and generate_fstab_content name one root, by the same source and with
\* the same subvolume, for all disks and all lists of subvolumes.
THEOREM RootNamedOnce == SchemaSpec => []RootAgrees
<1>1. SchemaInv => RootAgrees
  BY RootsAgree
<1> QED BY <1>1, SchemaInductive, PTL

\* generate_crypttab_content opens every container that fstab and resume= need, each once.
THEOREM CrypttabOpens == SchemaSpec => []ContainersOpened
<1>1. SchemaInv => ContainersOpened
  BY Containers
<1> QED BY <1>1, SchemaInductive, PTL

\* gen_crypttab_entry asks for the key file only when that is on a root opened before.
THEOREM KeyFileThere == SchemaSpec => []KeyFileReachable
<1>1. SchemaInv => KeyFileReachable
  BY KeyFiles
<1> QED BY <1>1, SchemaInductive, PTL

\* gen_sfdisk_command has one line per device, those with a size first, also after
\* btrfs_append_subvolumes has copied the root.
THEOREM ScriptOrdered == SchemaSpec => []SfdiskLines
<1>1. SchemaInv => SfdiskLines
  BY Scripts
<1> QED BY <1>1, SchemaInductive, PTL

\* btrfs_append_subvolumes enters what btrfs_mount_subvols has mounted, whatever mountpoints
\* the user gave to the subvolumes.
THEOREM SubvolumesEntered == SchemaSpec => []MountedAsEntered
<1>1. SchemaInv => MountedAsEntered
  BY DEF SchemaInv
<1> QED BY <1>1, SchemaInductive, PTL
==============================================================================
