-------------------------- MODULE InstallBaseProofs --------------------------
(* Proofs about InstallBase for any number of installations, and about the    *)
(* Dialogues for any lists, and any number of keys.                          *)
EXTENDS InstallBase, Dialogues, ListLemmas, FiniteSetTheorems, TLAPS

------------------------------------------------------------------------------
(* Lists of words.                                                          *)

\* No word is listed twice; a is before b wherever both are listed.
NoDup(list) == \A i, j \in 1..Len(list) : list[i] = list[j] => i = j
Before(a, b, list) == \A i, j \in 1..Len(list) : (list[i] = a /\ list[j] = b) => i < j

\* InsertAll puts new in front of place.
LEMMA WordsInserted ==
    ASSUME NEW X, NEW s \in Seq(X), NEW new \in Seq(X), NEW place \in 1..(Len(s) + 1)
    PROVE  /\ InsertAll(s, place, new) \in Seq(X)
           /\ Insertion(InsertAll(s, place, new), s, place, new)
<1>1. InsertAll(s, place, new) = Spliced(s, place, new)
  BY DEF InsertAll, Spliced
<1> QED BY <1>1, Inserted

\* What Missing gives: the elements of new that list has not, none of them twice if new
\* has none twice.
LEMMA MissingWords ==
    ASSUME NEW X, NEW list \in Seq(X), NEW new \in Seq(X)
    PROVE  LET r == Missing(list, new)
           IN  /\ r \in Seq(X)
               /\ NoDup(new) => NoDup(r)
               /\ \A w : Contains(r, w) <=> Contains(new, w) /\ ~Contains(list, w)
<1> DEFINE N == Len(new)
           A == Seq(X)
           none == <<>>
           there(n) == Contains(list, new[n])
           Pass(f) == [n \in 0..N |->
                          IF n = 0 THEN none
                          ELSE IF there(n) THEN f[n - 1] ELSE Append(f[n - 1], new[n])]
           upto == CHOOSE f : f = Pass(f)
           Good(n, r) == /\ r \in A
                         /\ NoDup(new) => NoDup(r)
                         /\ \A w : Contains(r, w) <=>
                                     (\E k \in 1..n : new[k] = w) /\ ~Contains(list, w)
           S == {n \in 0..N : Good(n, upto[n])}
<1>0. N \in Nat /\ \A i \in 1..N : new[i] \in X
  BY Elements
<1>1. Missing(list, new) = upto[N]
  BY DEF Missing
<1> HIDE DEF N, there
<1>2. \E f : f = Pass(f)
  <2> DEFINE step == [n \in 1..N |-> [acc \in A |-> IF there(n) THEN acc ELSE Append(acc, new[n])]]
  <2>1. none \in A /\ step \in [1..N -> [A -> A]]
    <3>1. \A acc \in A, n \in 1..N : Append(acc, new[n]) \in A
      BY <1>0, Appended
    <3>2. none \in A
      OBVIOUS
    <3> HIDE DEF A, none
    <3>3. \A n \in 1..N : step[n] \in [A -> A]
      BY <3>1
    <3> QED BY <3>2, <3>3
  <2> HIDE DEF A, none
  <2>2. PICK g \in [0..N -> A] : g[0] = none /\ \A i \in 1..N : g[i] = step[i][g[i - 1]]
    <3>1. Passes(step, N, A)
      BY <2>1 DEF Passes
    <3> HIDE DEF step
    <3>2. PICK g : Folds(g, none, step, N, A)
      BY <1>0, <2>1, <3>1, Folding
    <3> QED BY <3>2 DEF Folds
  <2>3. \A i \in 1..N : g[i] = IF there(i) THEN g[i - 1] ELSE Append(g[i - 1], new[i])
    <3> SUFFICES ASSUME NEW i \in 1..N
                 PROVE  g[i] = IF there(i) THEN g[i - 1] ELSE Append(g[i - 1], new[i])
      OBVIOUS
    <3>1. g[i - 1] \in A
      BY <1>0, <2>2
    <3>2. step[i][g[i - 1]] = IF there(i) THEN g[i - 1] ELSE Append(g[i - 1], new[i])
      BY <3>1
    <3> QED BY <2>2, <3>2
  <2>4. g = Pass(g)
    <3>1. \A i \in 0..N : i = 0 \/ i \in 1..N
      BY <1>0
    <3> QED BY <2>2, <2>3, <3>1
  <2> HIDE DEF Pass
  <2> QED BY <2>4
<1>3. upto = Pass(upto)
  <2> HIDE DEF Pass
  <2> QED BY <1>2
<1> HIDE DEF upto
<1>4. /\ upto[0] = none
      /\ \A n \in 1..N : upto[n] = IF there(n) THEN upto[n - 1] ELSE Append(upto[n - 1], new[n])
  <2>1. 0 \in 0..N /\ \A n \in 1..N : n \in 0..N /\ n # 0
    BY <1>0
  <2> QED BY <1>3, <2>1
<1> HIDE DEF Pass
<1>5. Good(0, none)
  <2>1. Len(none) = 0 /\ none \in A
    OBVIOUS
  <2> HIDE DEF none, A
  <2> QED BY <2>1 DEF NoDup, Contains
<1>6. ASSUME NEW n \in 0..(N - 1), Good(n, upto[n]) PROVE Good(n + 1, upto[n + 1])
  <2> DEFINE r == upto[n]
             e == new[n + 1]
             q == Append(r, e)
  <2>0. n + 1 \in 1..N /\ (n + 1) - 1 = n /\ n \in Nat
    BY <1>0
  <2>1. upto[n + 1] = IF Contains(list, e) THEN r ELSE q
    BY <1>4, <2>0 DEF there
  <2>2. CASE Contains(list, e)
    <3>1. \A w : ~Contains(list, w) =>
                 ((\E k \in 1..(n + 1) : new[k] = w) <=> (\E k \in 1..n : new[k] = w))
      BY <2>0, <2>2
    <3> HIDE DEF A
    <3> QED BY <1>6, <2>1, <2>2, <3>1
  <2>3. CASE ~Contains(list, e)
    <3>1. /\ q \in A /\ Len(q) = Len(r) + 1 /\ q[Len(r) + 1] = e
          /\ Len(r) \in Nat /\ \A i \in 1..Len(r) : q[i] = r[i]
      BY <1>0, <1>6, <2>0, Appended, Elements
    <3> HIDE DEF A, q, r
    <3>2. \A w : Contains(q, w) <=> Contains(r, w) \/ w = e
      BY <3>1 DEF Contains
    <3>3. \A w : (\E k \in 1..(n + 1) : new[k] = w) <=> (\E k \in 1..n : new[k] = w) \/ w = e
      BY <2>0 DEF e
    <3>4. NoDup(new) => NoDup(q)
      <4> SUFFICES ASSUME NoDup(new), NEW i \in 1..Len(q), NEW j \in 1..Len(q), q[i] = q[j]
                   PROVE  i = j
        BY DEF NoDup
      <4>1. ~\E k \in 1..n : new[k] = e
        BY <1>0, <2>0 DEF NoDup, N, e
      <4>2. ~Contains(r, e)
        BY <1>6, <4>1 DEF r
      <4>3. NoDup(r)
        BY <1>6 DEF r
      <4>4. (i \in 1..Len(r) \/ i = Len(r) + 1) /\ (j \in 1..Len(r) \/ j = Len(r) + 1)
        BY <3>1
      <4> QED BY <3>1, <4>2, <4>3, <4>4 DEF NoDup, Contains
    <3>5. \A w : Contains(r, w) <=> (\E k \in 1..n : new[k] = w) /\ ~Contains(list, w)
      BY <1>6 DEF r
    <3>6. \A w : Contains(q, w) <=> (\E k \in 1..(n + 1) : new[k] = w) /\ ~Contains(list, w)
      BY <2>3, <3>2, <3>3, <3>5
    <3>7. upto[n + 1] = q
      BY <2>1, <2>3
    <3> QED BY <3>1, <3>4, <3>6, <3>7
  <2> QED BY <2>2, <2>3
<1> HIDE DEF Good
<1>7. \A n \in 0..N : n \in S
  <2>1. 0 \in S
    BY <1>0, <1>4, <1>5
  <2>2. \A n \in 0..(N - 1) : n \in S => n + 1 \in S
    BY <1>0, <1>6
  <2> HIDE DEF S
  <2> QED BY <1>0, <2>1, <2>2, Induction
<1>8. Good(N, upto[N])
  <2>1. N \in 0..N
    BY <1>0
  <2> QED BY <1>7, <2>1
<1> QED BY <1>1, <1>8 DEF Good, Contains, N
\* Where words are put into a list, none is listed twice afterwards if none was, and if
\* what is put before b is all of what is new, what was before b stays so.
LEMMA InsertedWords ==
    ASSUME NEW X, NEW s \in Seq(X), NEW new \in Seq(X), NEW place \in 1..(Len(s) + 1),
           NoDup(s), NoDup(new), \A w : Contains(new, w) => ~Contains(s, w)
    PROVE  LET r == InsertAll(s, place, new)
           IN  /\ r \in Seq(X) /\ NoDup(r)
               /\ \A w : Contains(r, w) <=> Contains(s, w) \/ Contains(new, w)
               /\ \A a, b : (/\ Before(a, b, s) /\ ~Contains(new, b)
                             /\ Contains(new, a) => place <= Len(s) /\ s[place] = b)
                            => Before(a, b, r)
<1> DEFINE K == Len(new)
           L == Len(s)
           r == InsertAll(s, place, new)
<1>0. K \in Nat /\ L \in Nat /\ place \in Nat /\ 1 <= place /\ place <= L + 1
  OBVIOUS
<1>1. /\ r \in Seq(X) /\ Len(r) = L + K
      /\ \A i \in 1..(place - 1) : r[i] = s[i]
      /\ \A i \in place..(place - 1 + K) : i - (place - 1) \in 1..K /\ r[i] = new[i - (place - 1)]
      /\ \A i \in (place + K)..(L + K) : i - K \in place..L /\ r[i] = s[i - K]
  <2>1. r \in Seq(X) /\ Insertion(r, s, place, new)
    BY WordsInserted
  <2> HIDE DEF r
  <2> QED BY <2>1 DEF Insertion
<1> HIDE DEF K, L, r
<1> DEFINE Left(i) == i \in 1..(place - 1) /\ i \in 1..L /\ r[i] = s[i]
           Middle(i) == /\ i \in place..(place - 1 + K) /\ i - (place - 1) \in 1..K
                        /\ r[i] = new[i - (place - 1)]
           Right(i) == i \in (place + K)..(L + K) /\ i - K \in place..L /\ i - K \in 1..L /\ r[i] = s[i - K]
<1>2. ASSUME NEW i \in 1..Len(r) PROVE Left(i) \/ Middle(i) \/ Right(i)
  <2>1. \/ i \in 1..(place - 1) /\ i \in 1..L
        \/ i \in place..(place - 1 + K)
        \/ i \in (place + K)..(L + K)
    BY <1>0, <1>1
  <2>2. \A k \in place..L : k \in 1..L
    BY <1>0
  <2> QED BY <1>1, <2>1, <2>2
<1>3. /\ \A i, j \in 1..L : s[i] = s[j] => i = j
      /\ \A i, j \in 1..K : new[i] = new[j] => i = j
      /\ \A i \in 1..L, j \in 1..K : s[i] # new[j]
  BY DEF NoDup, Contains, K, L
<1>4. NoDup(r)
  <2> SUFFICES ASSUME NEW i \in 1..Len(r), NEW j \in 1..Len(r), r[i] = r[j] PROVE i = j
    BY DEF NoDup
  <2>0. i \in Nat /\ j \in Nat
    OBVIOUS
  <2>1. Left(i) \/ Middle(i) \/ Right(i)
    BY <1>2
  <2>2. Left(j) \/ Middle(j) \/ Right(j)
    BY <1>2
  <2>3. CASE Left(i) /\ Left(j)
    BY <1>3, <2>3
  <2>4. CASE Middle(i) /\ Middle(j)
    <3>1. i - (place - 1) = j - (place - 1)
      BY <1>3, <2>4
    <3> QED BY <1>0, <2>0, <3>1
  <2>5. CASE Right(i) /\ Right(j)
    <3>1. i - K = j - K
      BY <1>3, <2>5
    <3> QED BY <1>0, <2>0, <3>1
  <2>6. CASE (Left(i) \/ Right(i)) /\ Middle(j)
    BY <1>3, <2>6
  <2>7. CASE Middle(i) /\ (Left(j) \/ Right(j))
    BY <1>3, <2>7
  <2>8. CASE Left(i) /\ Right(j)
    <3>1. i = j - K
      BY <1>3, <2>8
    <3> QED BY <1>0, <2>0, <2>8, <3>1
  <2>9. CASE Right(i) /\ Left(j)
    <3>1. i - K = j
      BY <1>3, <2>9
    <3> QED BY <1>0, <2>0, <2>9, <3>1
  <2> HIDE DEF Left, Middle, Right
  <2> QED BY <2>1, <2>2, <2>3, <2>4, <2>5, <2>6, <2>7, <2>8, <2>9
<1>5. ASSUME NEW w PROVE Contains(r, w) <=> Contains(s, w) \/ Contains(new, w)
  <2>1. Contains(r, w) => Contains(s, w) \/ Contains(new, w)
    BY <1>2 DEF Contains, K, L
  <2>2. ASSUME NEW i \in 1..L, s[i] = w PROVE Contains(r, w)
    <3>1. CASE i < place
      <4>1. i \in 1..(place - 1) /\ i \in 1..Len(r)
        BY <1>0, <1>1, <3>1
      <4> QED BY <1>1, <2>2, <4>1 DEF Contains
    <3>2. CASE ~(i < place)
      <4>1. i + K \in (place + K)..(L + K) /\ i + K \in 1..Len(r) /\ (i + K) - K = i
        BY <1>0, <1>1, <3>2
      <4>2. r[i + K] = s[i]
        BY <1>1, <4>1
      <4> QED BY <2>2, <4>1, <4>2 DEF Contains
    <3> QED BY <3>1, <3>2
  <2>3. ASSUME NEW i \in 1..K, new[i] = w PROVE Contains(r, w)
    <3> DEFINE j == i + (place - 1)
    <3>1. j \in place..(place - 1 + K) /\ j \in 1..Len(r) /\ j - (place - 1) = i
      BY <1>0, <1>1
    <3> HIDE DEF j
    <3>2. r[j] = new[i]
      BY <1>1, <3>1
    <3> QED BY <2>3, <3>1, <3>2 DEF Contains
  <2> QED BY <2>1, <2>2, <2>3 DEF Contains, K, L
<1>6. ASSUME NEW a, NEW b, Before(a, b, s), ~Contains(new, b),
             Contains(new, a) => place <= Len(s) /\ s[place] = b
      PROVE  Before(a, b, r)
  <2> SUFFICES ASSUME NEW i \in 1..Len(r), NEW j \in 1..Len(r), r[i] = a, r[j] = b PROVE i < j
    BY DEF Before
  <2>0. i \in Nat /\ j \in Nat
    OBVIOUS
  <2>1. Left(i) \/ Middle(i) \/ Right(i)
    BY <1>2
  <2>2. Left(j) \/ Right(j)
    <3>1. ~Middle(j)
      BY <1>6 DEF Contains, K
    <3> QED BY <1>2, <3>1
  <2>3. \A k, l \in 1..L : s[k] = a /\ s[l] = b => k < l
    BY <1>6 DEF Before, L
  <2>4. Middle(i) => Right(j)
    <3> SUFFICES ASSUME Middle(i), Left(j) PROVE FALSE
      BY <2>2
    <3>1. place \in 1..L /\ s[place] = b
      BY <1>0, <1>6 DEF Contains, K, L
    <3>2. j = place
      BY <1>3, <3>1
    <3> QED BY <1>0, <3>2
  <2>5. CASE Left(i) /\ Left(j)
    BY <2>3, <2>5
  <2>6. CASE Left(i) /\ Right(j)
    BY <1>0, <2>0, <2>6
  <2>7. CASE Right(i) /\ Left(j)
    <3>1. i - K < j
      BY <2>3, <2>7
    <3> QED BY <1>0, <2>0, <2>7, <3>1
  <2>8. CASE Right(i) /\ Right(j)
    <3>1. i - K < j - K
      BY <2>3, <2>8
    <3> QED BY <1>0, <2>0, <3>1
  <2>9. CASE Middle(i) /\ Right(j)
    BY <1>0, <2>0, <2>9
  <2> HIDE DEF Left, Middle, Right
  <2> QED BY <2>1, <2>2, <2>4, <2>5, <2>6, <2>7, <2>8, <2>9
<1> QED BY <1>1, <1>4, <1>5, <1>6 DEF r

\* The place of a word is the first where it is, or behind the end.
LEMMA Found ==
    ASSUME NEW X, NEW list \in Seq(X), NEW needle
    PROVE  /\ FindIn(list, needle) \in 1..(Len(list) + 1)
           /\ Contains(list, needle) =>
                  FindIn(list, needle) \in 1..Len(list) /\ list[FindIn(list, needle)] = needle
<1> DEFINE I == {i \in 1..Len(list) : list[i] = needle}
<1>0. Len(list) \in Nat
  OBVIOUS
<1>1. CASE I = {}
  <2>1. ~Contains(list, needle)
    BY <1>1 DEF Contains
  <2>2. FindIn(list, needle) = Len(list) + 1
    BY <2>1 DEF FindIn
  <2> QED BY <1>0, <2>1, <2>2
<1>2. CASE I # {}
  <2>1. Contains(list, needle)
    BY <1>2 DEF Contains
  <2>2. FindIn(list, needle) = Min(I)
    BY <1>2, <2>1 DEF FindIn, SelectInSeq
  <2>3. \E m \in I : \A k \in I : m <= k
    <3>1. I \in SUBSET Nat
      OBVIOUS
    <3> HIDE DEF I
    <3> QED BY <1>2, <3>1, Least
  <2>4. Min(I) \in I
    <3> HIDE DEF I
    <3> QED BY <2>3 DEF Min
  <2> QED BY <1>0, <2>1, <2>2, <2>4
<1> QED BY <1>1, <1>2

\* A sequence without its j-th element.
LEMMA Removed ==
    ASSUME NEW T, NEW s \in Seq(T), NEW j \in 1..Len(s)
    PROVE  /\ RemoveAt(s, j) \in Seq(T) /\ Len(RemoveAt(s, j)) = Len(s) - 1
           /\ \A i \in 1..(j - 1) : RemoveAt(s, j)[i] = s[i]
           /\ \A i \in j..(Len(s) - 1) : RemoveAt(s, j)[i] = s[i + 1]
<1> DEFINE a == SubSeq(s, 1, j - 1)
           b == SubSeq(s, j + 1, Len(s))
<1>1. a \in Seq(T) /\ Len(a) = j - 1 /\ \A i \in 1..(j - 1) : a[i] = s[i]
  OBVIOUS
<1>2. b \in Seq(T) /\ Len(b) = Len(s) - j /\ \A i \in 1..(Len(s) - j) : b[i] = s[j + i]
  OBVIOUS
<1>3. RemoveAt(s, j) = a \o b
  BY DEF RemoveAt
<1>4. Len(s) \in Nat
  OBVIOUS
<1> HIDE DEF a, b
<1>5. /\ a \o b \in Seq(T) /\ Len(a \o b) = Len(s) - 1
      /\ \A i \in 1..(j - 1) : (a \o b)[i] = a[i]
      /\ \A i \in j..(Len(s) - 1) : (a \o b)[i] = b[i - (j - 1)]
  <2>0. a \in Seq(T) /\ b \in Seq(T)
    BY <1>1, <1>2
  <2>1. a \o b \in Seq(T) /\ Len(a \o b) = Len(a) + Len(b)
    BY <2>0
  <2>2. \A i \in 1..Len(a) : (a \o b)[i] = a[i]
    BY <2>0
  <2>3. \A i \in (Len(a) + 1)..(Len(a) + Len(b)) : (a \o b)[i] = b[i - Len(a)]
    BY <2>0
  <2>4. Len(a) = j - 1 /\ Len(b) = Len(s) - j
    BY <1>1, <1>2
  <2>5. (j - 1) + (Len(s) - j) = Len(s) - 1 /\ \A i \in j..(Len(s) - 1) : i \in ((j - 1) + 1)..(Len(s) - 1)
    BY <1>4
  <2> QED BY <2>1, <2>2, <2>3, <2>4, <2>5
<1>6. ASSUME NEW i \in j..(Len(s) - 1) PROVE b[i - (j - 1)] = s[i + 1]
  <2>1. i - (j - 1) \in 1..(Len(s) - j) /\ j + (i - (j - 1)) = i + 1
    BY <1>4
  <2> QED BY <1>2, <2>1
<1> QED BY <1>1, <1>3, <1>5, <1>6

\* Taking a word off a list that has none twice leaves the others, in their order.
LEMMA RemovedWord ==
    ASSUME NEW X, NEW s \in Seq(X), NEW e, NoDup(s)
    PROVE  LET r == RemoveFirst(s, e)
           IN  /\ r \in Seq(X) /\ NoDup(r)
               /\ \A w : Contains(r, w) <=> Contains(s, w) /\ w # e
               /\ \A a, b : Before(a, b, s) => Before(a, b, r)
<1> DEFINE r == RemoveFirst(s, e)
           L == Len(s)
           I == {i \in 1..L : s[i] = e}
<1>0. L \in Nat
  OBVIOUS
<1>1. CASE I = {}
  <2>1. r = s
    BY <1>1 DEF RemoveFirst
  <2>2. ~Contains(s, e)
    BY <1>1 DEF Contains
  <2> HIDE DEF r
  <2>3. \A w : Contains(s, w) => w # e
    BY <2>2
  <2> QED BY <2>1, <2>3 DEF r
<1>2. CASE I # {}
  <2>1. Min(I) \in I
    <3>1. \E m \in I : \A k \in I : m <= k
      <4>1. I \in SUBSET Nat
        OBVIOUS
      <4> HIDE DEF I
      <4> QED BY <1>2, <4>1, Least
    <3> HIDE DEF I
    <3> QED BY <3>1 DEF Min
  <2> DEFINE p == Min(I)
  <2>2. p \in 1..L /\ s[p] = e
    BY <2>1
  <2>3. r = RemoveAt(s, p)
    BY <1>2 DEF RemoveFirst, SelectInSeq
  <2> HIDE DEF I, p, r
  <2>4. /\ r \in Seq(X) /\ Len(r) = L - 1
        /\ \A i \in 1..(p - 1) : r[i] = s[i]
        /\ \A i \in p..(L - 1) : r[i] = s[i + 1]
    BY <2>2, <2>3, Removed
  <2> HIDE DEF L
  <2> DEFINE Old(i) == IF i < p THEN i ELSE i + 1
  <2>5. ASSUME NEW i \in 1..Len(r) PROVE Old(i) \in 1..L /\ Old(i) # p /\ r[i] = s[Old(i)]
    <3>1. (i \in 1..(p - 1) /\ i < p) \/ (i \in p..(L - 1) /\ ~(i < p))
      BY <1>0, <2>2, <2>4
    <3>2. i \in 1..L /\ i + 1 \in 1..L /\ (~(i < p) => i + 1 # p)
      BY <1>0, <2>2, <2>4
    <3> QED BY <2>4, <3>1, <3>2
  <2>6. \A i, j \in 1..Len(r) : i \in Nat /\ j \in Nat
    OBVIOUS
  <2>7. \A i, j \in 1..Len(r) : (Old(i) = Old(j) => i = j) /\ (Old(i) < Old(j) => i < j)
    BY <1>0, <2>2, <2>6
  <2>8. ASSUME NEW k \in 1..L, k # p PROVE \E i \in 1..Len(r) : Old(i) = k
    <3>1. CASE k < p
      <4>1. k \in 1..Len(r) /\ Old(k) = k
        BY <1>0, <2>2, <2>4, <3>1
      <4> QED BY <4>1
    <3>2. CASE ~(k < p)
      <4>1. k - 1 \in 1..Len(r) /\ Old(k - 1) = k
        BY <1>0, <2>2, <2>4, <2>8, <3>2
      <4> QED BY <4>1
    <3> QED BY <3>1, <3>2
  <2> HIDE DEF Old
  <2>9. \A i, j \in 1..L : s[i] = s[j] => i = j
    BY DEF NoDup, L
  <2>10. NoDup(r)
    <3> SUFFICES ASSUME NEW i \in 1..Len(r), NEW j \in 1..Len(r), r[i] = r[j] PROVE i = j
      BY DEF NoDup
    <3>1. Old(i) = Old(j)
      BY <2>5, <2>9
    <3> QED BY <2>7, <3>1
  <2>11. ASSUME NEW w PROVE Contains(r, w) <=> Contains(s, w) /\ w # e
    <3>1. ASSUME NEW i \in 1..Len(r), r[i] = w PROVE Contains(s, w) /\ w # e
      <4>1. Old(i) \in 1..L /\ s[Old(i)] = w /\ w # s[p]
        BY <2>2, <2>5, <2>9, <3>1
      <4> QED BY <2>2, <4>1 DEF Contains, L
    <3>2. ASSUME NEW k \in 1..L, s[k] = w, w # e PROVE Contains(r, w)
      <4>1. k # p
        BY <2>2, <3>2
      <4>2. PICK i \in 1..Len(r) : Old(i) = k
        BY <2>8, <4>1
      <4> QED BY <2>5, <3>2, <4>2 DEF Contains
    <3> QED BY <3>1, <3>2 DEF Contains, L
  <2>12. ASSUME NEW a, NEW b, Before(a, b, s) PROVE Before(a, b, r)
    BY <2>5, <2>7, <2>12 DEF Before, L
  <2> QED BY <2>4, <2>10, <2>11, <2>12 DEF r
<1> QED BY <1>1, <1>2

------------------------------------------------------------------------------
(* Texts joined of words.                                                    *)

\* A text joined of words is cut into pieces of one word each.
LEMMA SplitJoined ==
    ASSUME NEW W, NEW d, d \notin W, NEW words \in Seq(W), words # <<>>
    PROVE  views_split(join(words, d), d) = [i \in 1..Len(words) |-> <<words[i]>>]
<1> DEFINE M == Len(words)
           str == join(words, d)
           N == 2 * M - 1
           none == <<>>
           one(i) == <<words[i]>>
           Pass(f) == [n \in 0..N |->
                          IF n = 0 THEN <<none>>
                          ELSE LET pieces == f[n - 1]
                               IN  IF str[n] = d THEN Append(pieces, none)
                                   ELSE [pieces EXCEPT ![Len(pieces)] = Append(@, str[n])]]
           upto == CHOOSE f : f = Pass(f)
           Full(k) == [i \in 1..k |-> one(i)]
           Opened(k) == [i \in 1..k |-> IF i = k THEN none ELSE one(i)]
           Pieces(n) == IF n % 2 = 1 THEN Full((n + 1) \div 2) ELSE Opened((n \div 2) + 1)
<1>0. M \in Nat /\ M >= 1 /\ N \in Nat /\ \A i \in 1..M : words[i] \in W
  BY Elements
<1>1. d \notin W
  OBVIOUS
<1>2. str = [i \in 1..N |-> IF i % 2 = 1 THEN words[(i + 1) \div 2] ELSE d]
  BY DEF join
<1> HIDE DEF M, N, str
<1>99. N = 2 * M - 1
  BY DEF N
<1>3. \A i \in 1..N : i % 2 = 1 => (i + 1) \div 2 \in 1..M
  BY <1>0, <1>99
<1>4. str # <<>> /\ Len(str) = N
  <2>1. str \in [1..N -> W \cup {d}]
    BY <1>0, <1>2, <1>3
  <2>2. Len(str) = N
    BY <1>0, <2>1, MadeSequence
  <2> QED BY <1>0, <1>99, <2>2
<1>5. views_split(str, d) = upto[N]
  BY <1>4 DEF views_split
<1> HIDE DEF one
<1> DEFINE Y == {one(i) : i \in 1..M}
<1>6. ASSUME NEW k \in 1..M
      PROVE  /\ Len(Full(k)) = k /\ Append(Full(k), none) = Opened(k + 1)
             /\ Len(Opened(k)) = k
             /\ [Opened(k) EXCEPT ![k] = Append(@, words[k])] = Full(k)
  <2>1. Append(none, words[k]) = one(k)
    BY DEF one
  <2>2. [Opened(k) EXCEPT ![k] = Append(@, words[k])] = Full(k)
    <3>1. Opened(k)[k] = none
      BY <1>0
    <3> HIDE DEF none
    <3> QED BY <2>1, <3>1
  <2> HIDE DEF none
  <2> DEFINE Z == Y \cup {none}
  <2>3. k \in Nat /\ \A i \in 1..k : one(i) \in Z
    BY <1>0
  <2>4. Full(k) \in [1..k -> Z] /\ Opened(k) \in [1..k -> Z] /\ Opened(k + 1) \in [1..(k + 1) -> Z] /\ none \in Z
    BY <2>3
  <2>5. /\ Full(k) \in Seq(Z) /\ Len(Full(k)) = k /\ Opened(k) \in Seq(Z) /\ Len(Opened(k)) = k
        /\ Opened(k + 1) \in Seq(Z) /\ Len(Opened(k + 1)) = k + 1
    <3>1. k + 1 \in Nat
      BY <2>3
    <3> HIDE DEF Z, Full, Opened
    <3> QED BY <2>3, <2>4, <3>1, MadeSequence
  <2>6. Append(Full(k), none) = Opened(k + 1)
    <3>1. /\ \A i \in 1..k : Full(k)[i] = Opened(k + 1)[i]
          /\ Opened(k + 1)[k + 1] = none
      BY <2>3
    <3> HIDE DEF Z, Full, Opened
    <3>2. /\ Append(Full(k), none) \in Seq(Z) /\ Len(Append(Full(k), none)) = k + 1
          /\ \A i \in 1..k : Append(Full(k), none)[i] = Full(k)[i]
          /\ Append(Full(k), none)[k + 1] = none
      BY <2>4, <2>5, Appended
    <3>3. \A i \in 1..(k + 1) : Append(Full(k), none)[i] = Opened(k + 1)[i]
      BY <2>3, <3>1, <3>2
    <3> QED BY <2>5, <3>2, <3>3, SameSequence
  <2> QED BY <2>2, <2>5, <2>6
<1> DEFINE Next1(n, pieces) == IF str[n] = d THEN Append(pieces, none)
                               ELSE [pieces EXCEPT ![Len(pieces)] = Append(@, str[n])]
<1> HIDE DEF none, Full, Opened
<1>7. ASSUME NEW n \in 1..N PROVE Next1(n, Pieces(n - 1)) = Pieces(n)
  <2>1. CASE n % 2 = 1
    <3> DEFINE k == (n + 1) \div 2
    <3>1. k \in 1..M /\ (n - 1) % 2 # 1 /\ ((n - 1) \div 2) + 1 = k
      BY <1>0, <1>3, <2>1
    <3>2. Pieces(n - 1) = Opened(k) /\ Pieces(n) = Full(k)
      BY <2>1, <3>1
    <3>3. str[n] = words[k] /\ str[n] # d
      BY <1>0, <1>1, <1>2, <2>1, <3>1
    <3> HIDE DEF k, Pieces
    <3> QED BY <1>6, <3>1, <3>2, <3>3
  <2>2. CASE n % 2 # 1
    <3> DEFINE k == n \div 2
    <3>1. k \in 1..M /\ (n - 1) % 2 = 1 /\ ((n - 1) + 1) \div 2 = k
      BY <1>0, <1>99, <2>2
    <3>2. Pieces(n - 1) = Full(k) /\ Pieces(n) = Opened(k + 1)
      BY <2>2, <3>1
    <3>3. str[n] = d
      BY <1>2, <2>2
    <3> HIDE DEF k, Pieces
    <3> QED BY <1>6, <3>1, <3>2, <3>3
  <2> QED BY <2>1, <2>2
<1>8. Pieces(0) = <<none>>
  <2>1. 0 % 2 # 1 /\ (0 \div 2) + 1 = 1
    OBVIOUS
  <2>2. Pieces(0) = Opened(1)
    BY <2>1
  <2>3. Opened(1) = <<none>>
    BY DEF Opened
  <2> QED BY <2>2, <2>3
<1> HIDE DEF Pieces
<1>9. \E f : f = Pass(f)
  <2> DEFINE g == [n \in 0..N |-> Pieces(n)]
  <2>1. \A n \in 0..N : n = 0 \/ (n \in 1..N /\ n - 1 \in 0..N /\ n # 0)
    BY <1>0
  <2>2. \A n \in 1..N : g[n - 1] = Pieces(n - 1)
    BY <2>1
  <2>3. \A n \in 0..N : g[n] = IF n = 0 THEN <<none>> ELSE Next1(n, g[n - 1])
    <3> SUFFICES ASSUME NEW n \in 0..N PROVE g[n] = IF n = 0 THEN <<none>> ELSE Next1(n, g[n - 1])
      OBVIOUS
    <3>1. g[n] = Pieces(n)
      OBVIOUS
    <3> HIDE DEF Next1, g
    <3> QED BY <1>7, <1>8, <2>1, <2>2, <3>1
  <2>4. g = [n \in 0..N |-> IF n = 0 THEN <<none>> ELSE Next1(n, g[n - 1])]
    <3> HIDE DEF Next1
    <3> QED BY <2>3
  <2> QED BY <2>4
<1>10. upto = Pass(upto)
  <2> HIDE DEF Pass
  <2> QED BY <1>9
<1> HIDE DEF upto
<1>11. upto[0] = <<none>> /\ \A n \in 1..N : upto[n] = Next1(n, upto[n - 1])
  <2>1. 0 \in 0..N /\ \A n \in 1..N : n \in 0..N /\ n # 0
    BY <1>0
  <2> QED BY <1>10, <2>1
<1> HIDE DEF Next1, Pass
<1>12. \A n \in 0..N : n \in {m \in 0..N : upto[m] = Pieces(m)}
  <2> DEFINE S == {m \in 0..N : upto[m] = Pieces(m)}
  <2>1. 0 \in S
    BY <1>0, <1>8, <1>11
  <2>2. ASSUME NEW n \in 0..(N - 1), n \in S PROVE n + 1 \in S
    <3>1. n + 1 \in 1..N /\ n + 1 \in 0..N /\ (n + 1) - 1 = n
      BY <1>0
    <3>2. upto[n + 1] = Next1(n + 1, upto[n]) /\ Next1(n + 1, Pieces(n)) = Pieces(n + 1)
      BY <1>7, <1>11, <3>1
    <3> QED BY <2>2, <3>1, <3>2
  <2> HIDE DEF S
  <2>3. \A n \in 0..N : n \in S
    BY <1>0, <2>1, <2>2, Induction
  <2> QED BY <2>3 DEF S
<1>13. upto[N] = Full(M)
  <2>1. N \in 0..N /\ N % 2 = 1 /\ (N + 1) \div 2 = M
    BY <1>0, <1>99
  <2> QED BY <1>12, <2>1 DEF Pieces
<1> QED BY <1>5, <1>13 DEF Full, one, M, str

\* A piece of one word spells that word.
LEMMA WordOfOne == ASSUME NEW w PROVE Word(<<w>>) = w
<1> DEFINE Pass(f) == [n \in 0..1 |-> IF n = 0 THEN "" ELSE IF n = 1 THEN w ELSE f[n - 1] \o <<w>>[n]]
           upto == CHOOSE f : f = Pass(f)
<1>1. Word(<<w>>) = upto[1]
  <2>1. Len(<<w>>) = 1 /\ <<w>>[1] = w
    OBVIOUS
  <2> QED BY <2>1 DEF Word
<1>2. \E f : f = Pass(f)
  <2> DEFINE g == [n \in 0..1 |-> IF n = 0 THEN "" ELSE w]
  <2>1. g = Pass(g)
    OBVIOUS
  <2> QED BY <2>1
<1>3. upto = Pass(upto)
  <2> HIDE DEF Pass
  <2> QED BY <1>2
<1> HIDE DEF upto
<1>4. 1 \in 0..1 /\ 1 # 0
  OBVIOUS
<1>5. upto[1] = w
  BY <1>3, <1>4, Zenon
<1> QED BY <1>1, <1>5

\* The list of what a function on 1..n gives is the list itself if it gives its elements.
LEMMA SameList ==
    ASSUME NEW X, NEW s \in Seq(X)
    PROVE  [i \in 1..Len(s) |-> s[i]] = s
<1> DEFINE n == Len(s)
           f == [i \in 1..n |-> s[i]]
<1>1. n \in Nat /\ \A i \in 1..n : s[i] \in X
  BY Elements
<1> HIDE DEF n
<1>2. f \in [1..n -> X]
  BY <1>1
<1>3. \A i \in 1..n : f[i] = s[i]
  OBVIOUS
<1> HIDE DEF f
<1>4. f \in Seq(X) /\ Len(f) = n
  BY <1>1, <1>2, MadeSequence
<1>5. f = s
  BY <1>3, <1>4, SameSequence DEF n
<1> QED BY <1>5 DEF f, n

\* None of the pieces of a joined text is empty.
LEMMA SplitViewJoined ==
    ASSUME NEW W, NEW d, d \notin W, NEW words \in Seq(W)
    PROVE  make_split_view(join(words, d), d) = [i \in 1..Len(words) |-> <<words[i]>>]
<1> DEFINE N == Len(words)
           none == <<>>
           one(i) == <<words[i]>>
           pieces == [i \in 1..N |-> one(i)]
           Pass(f) == [n \in 0..N |->
                          IF n = 0 THEN none
                          ELSE IF pieces[n] = none THEN f[n - 1] ELSE Append(f[n - 1], pieces[n])]
           upto == CHOOSE f : f = Pass(f)
           Y == {one(i) : i \in 1..N}
           First(n) == [i \in 1..n |-> one(i)]
<1>0. N \in Nat
  OBVIOUS
<1>1. \A i \in 1..N : one(i) # none
  OBVIOUS
<1>2. pieces \in Seq(Y) /\ Len(pieces) = N
  <2>1. pieces \in [1..N -> Y]
    OBVIOUS
  <2> HIDE DEF pieces, Y
  <2> QED BY <1>0, <2>1, MadeSequence
<1>3. views_split(join(words, d), d) = pieces
  <2>1. CASE words = <<>>
    <3>1. join(words, d) = <<>>
      BY <2>1 DEF join
    <3>2. views_split(<<>>, d) = <<>>
      BY DEF views_split
    <3>3. N = 0
      BY <2>1
    <3> HIDE DEF N, pieces
    <3>4. pieces = <<>>
      BY <1>2, <3>3
    <3> QED BY <3>1, <3>2, <3>4
  <2>2. CASE words # <<>>
    BY <2>2, SplitJoined
  <2> QED BY <2>1, <2>2
<1>4. make_split_view(join(words, d), d) = upto[N]
  <2> HIDE DEF pieces, N
  <2> QED BY <1>2, <1>3 DEF make_split_view
<1> HIDE DEF none, one, N
<1>5. ASSUME NEW n \in 1..N
      PROVE  pieces[n] # none /\ Append(First(n - 1), pieces[n]) = First(n)
  <2>0. n - 1 \in Nat /\ n \in Nat /\ (n - 1) + 1 = n /\ \A i \in 1..n : i \in 1..N /\ (i = n \/ i \in 1..(n - 1))
    BY <1>0
  <2>1. pieces[n] = one(n) /\ one(n) # none
    BY <1>1
  <2>2. First(n - 1) \in [1..(n - 1) -> Y] /\ First(n) \in [1..n -> Y] /\ one(n) \in Y
    BY <2>0
  <2>3. (\A i \in 1..(n - 1) : First(n - 1)[i] = First(n)[i]) /\ First(n)[n] = one(n)
    BY <2>0
  <2> HIDE DEF First, Y, pieces
  <2>4. First(n - 1) \in Seq(Y) /\ Len(First(n - 1)) = n - 1 /\ First(n) \in Seq(Y) /\ Len(First(n)) = n
    BY <2>0, <2>2, MadeSequence
  <2>5. /\ Append(First(n - 1), one(n)) \in Seq(Y) /\ Len(Append(First(n - 1), one(n))) = n
        /\ \A i \in 1..(n - 1) : Append(First(n - 1), one(n))[i] = First(n - 1)[i]
        /\ Append(First(n - 1), one(n))[n] = one(n)
    BY <2>0, <2>2, <2>4, Appended
  <2>6. \A i \in 1..n : Append(First(n - 1), one(n))[i] = First(n)[i]
    BY <2>0, <2>3, <2>5
  <2> QED BY <2>1, <2>4, <2>5, <2>6, SameSequence
<1>6. First(0) = none
  BY DEF none
<1> HIDE DEF First, pieces, Y
<1>7. \E f : f = Pass(f)
  <2> DEFINE g == [n \in 0..N |-> First(n)]
  <2>1. \A n \in 0..N : n = 0 \/ (n \in 1..N /\ n - 1 \in 0..N /\ n # 0)
    BY <1>0
  <2>2. \A n \in 1..N : g[n - 1] = First(n - 1) /\ g[n] = First(n)
    BY <2>1
  <2>3. g[0] = none
    BY <1>0, <1>6
  <2>4. \A n \in 0..N : g[n] = IF n = 0 THEN none
                               ELSE IF pieces[n] = none THEN g[n - 1] ELSE Append(g[n - 1], pieces[n])
    <3> HIDE DEF g
    <3> QED BY <1>5, <2>1, <2>2, <2>3
  <2>5. g = Pass(g)
    BY <2>4
  <2> QED BY <2>5
<1>8. upto = Pass(upto)
  <2> HIDE DEF Pass
  <2> QED BY <1>7
<1> HIDE DEF upto
<1>9. /\ upto[0] = none
      /\ \A n \in 1..N : upto[n] = Append(upto[n - 1], pieces[n])
  <2>1. 0 \in 0..N /\ \A n \in 1..N : n \in 0..N /\ n # 0
    BY <1>0
  <2> QED BY <1>5, <1>8, <2>1
<1> HIDE DEF Pass
<1> DEFINE S == {n \in 0..N : upto[n] = First(n)}
<1>10. 0 \in S
  BY <1>0, <1>6, <1>9
<1>11. ASSUME NEW n \in 0..(N - 1), n \in S PROVE n + 1 \in S
  <2>1. n + 1 \in 1..N /\ n + 1 \in 0..N /\ (n + 1) - 1 = n
    BY <1>0
  <2>2. upto[n + 1] = Append(upto[n], pieces[n + 1]) /\ Append(First(n), pieces[n + 1]) = First(n + 1)
    BY <1>5, <1>9, <2>1
  <2> QED BY <1>11, <2>1, <2>2
<1> HIDE DEF S
<1>12. \A n \in 0..N : n \in S
  BY <1>0, <1>10, <1>11, Induction
<1>13. upto[N] = First(N)
  <2>1. N \in 0..N
    BY <1>0
  <2> QED BY <1>12, <2>1 DEF S
<1> QED BY <1>4, <1>13 DEF First, one, N

\* The words of a joined text are those it was joined of.
LEMMA MultilineJoined ==
    ASSUME NEW W, NEW d, d \notin W, NEW words \in Seq(W)
    PROVE  make_multiline(join(words, d), FALSE, d) = words
<1> DEFINE lines == [i \in 1..Len(words) |-> <<words[i]>>]
<1>1. make_split_view(join(words, d), d) = lines
  BY SplitViewJoined
<1>2. DOMAIN lines = 1..Len(words) /\ \A i \in 1..Len(words) : Word(lines[i]) = words[i]
  BY WordOfOne
<1> HIDE DEF lines
<1>3. make_multiline(join(words, d), FALSE, d) = [i \in 1..Len(words) |-> words[i]]
  BY <1>1, <1>2 DEF make_multiline
<1> QED BY <1>3, SameList

------------------------------------------------------------------------------
(* The configuration file.                                                  *)

\* The words of the lists, none of which is a blank.
Words ==
    {"base", "udev", "autodetect", "modconf", "block", "filesystems", "keyboard", "fsck",
     "mdadm_udev", "consolefont", "keymap", "encrypt", "lvm2", "zfs",
     "btrfs", "raid0", "raid1", "/usr/lib/libgcc_s.so.1"}

\* What is read from a line that was written is what was written.
LEMMA ParseJoined ==
    ASSUME NEW words \in Seq(Words)
    PROVE  parse_line(join(words, " ")) = words
<1>1. CASE words = <<>>
  <2>1. join(words, " ") = <<>>
    BY <1>1 DEF join
  <2>2. views_split(<<>>, " ") = <<>>
    BY DEF views_split
  <2> DEFINE none == <<>>
             p == [i \in DOMAIN none |-> Word(none[i])]
  <2>3. parse_line(join(words, " ")) = p
    BY <2>1, <2>2 DEF parse_line
  <2>4. p = none
    <3>1. DOMAIN none = 1..0
      OBVIOUS
    <3> HIDE DEF none
    <3>2. p \in [1..0 -> {}]
      BY <3>1
    <3>3. p \in Seq({}) /\ Len(p) = 0
      BY <3>2, MadeSequence
    <3> HIDE DEF p
    <3> QED BY <3>3 DEF none
  <2> QED BY <1>1, <2>3, <2>4
<1>2. CASE words # <<>>
  <2> DEFINE pieces == [i \in 1..Len(words) |-> <<words[i]>>]
  <2>1. views_split(join(words, " "), " ") = pieces
    <3> DEFINE blank == " "
    <3>1. blank \notin Words
      BY DEF Words
    <3> HIDE DEF blank
    <3>2. views_split(join(words, blank), blank) = pieces
      BY <1>2, <3>1, SplitJoined
    <3> QED BY <3>2 DEF blank
  <2>3. DOMAIN pieces = 1..Len(words) /\ \A i \in 1..Len(words) : pieces[i] = <<words[i]>>
    OBVIOUS
  <2> HIDE DEF pieces
  <2>4. parse_line(join(words, " ")) = [i \in 1..Len(words) |-> words[i]]
    BY <2>1, <2>3, WordOfOne DEF parse_line
  <2> QED BY <2>4, SameList
<1> QED BY <1>1, <1>2

\* The file with these three lists.
FileOf(modules, files, hooks) ==
    <<Line("other", <<>>), Line("MODULES", modules), Line("other", <<>>), Line("FILES", files),
      Line("HOOKS", hooks), Line("other", <<>>)>>

\* Its lists are the ones it was made of, and writing others makes the file with those.
LEMMA FileLists ==
    ASSUME NEW modules \in Seq(Words), NEW files \in Seq(Words), NEW hooks \in Seq(Words)
    PROVE  LET file == FileOf(modules, files, hooks)
           IN  /\ file # NoConf
               /\ parse_file(file)["MODULES"] = modules
               /\ parse_file(file)["FILES"] = files
               /\ parse_file(file)["HOOKS"] = hooks
               /\ \A lists : write(file, lists) =
                                FileOf(lists["MODULES"], lists["FILES"], lists["HOOKS"])
<1> DEFINE file == FileOf(modules, files, hooks)
           content(i) == IF i = 2 THEN join(modules, " ") ELSE IF i = 4 THEN join(files, " ")
                      ELSE IF i = 5 THEN join(hooks, " ") ELSE join(<<>>, " ")
           name(i) == IF i = 2 THEN "MODULES" ELSE IF i = 4 THEN "FILES"
                      ELSE IF i = 5 THEN "HOOKS" ELSE "other"
<1>0. \A list, words : Line(list, words).list = list /\ Line(list, words).text = join(words, " ")
  BY DEF Line
<1>1. /\ Len(file) = 6 /\ DOMAIN file = 1..6 /\ file # NoConf
      /\ file[1] = Line("other", <<>>) /\ file[2] = Line("MODULES", modules)
      /\ file[3] = Line("other", <<>>) /\ file[4] = Line("FILES", files)
      /\ file[5] = Line("HOOKS", hooks) /\ file[6] = Line("other", <<>>)
  BY DEF FileOf, NoConf
<1> HIDE DEF file
<1>2. \A i \in 1..6 : i = 1 \/ i = 2 \/ i = 3 \/ i = 4 \/ i = 5 \/ i = 6
  OBVIOUS
<1>3. \A i \in 1..6 : file[i].list = name(i) /\ file[i].text = content(i)
  <2> SUFFICES ASSUME NEW i \in 1..6 PROVE file[i].list = name(i) /\ file[i].text = content(i)
    OBVIOUS
  <2>1. CASE i = 2
    <3>1. file[i] = Line("MODULES", modules)
      BY <1>1, <2>1
    <3>2. name(i) = "MODULES" /\ content(i) = join(modules, " ")
      BY <2>1
    <3> HIDE DEF name, content
    <3> QED BY <1>0, <3>1, <3>2
  <2>2. CASE i = 4
    <3>1. file[i] = Line("FILES", files)
      BY <1>1, <2>2
    <3>2. name(i) = "FILES" /\ content(i) = join(files, " ")
      BY <2>2
    <3> HIDE DEF name, content
    <3> QED BY <1>0, <3>1, <3>2
  <2>3. CASE i = 5
    <3>1. file[i] = Line("HOOKS", hooks)
      BY <1>1, <2>3
    <3>2. name(i) = "HOOKS" /\ content(i) = join(hooks, " ")
      BY <2>3
    <3> HIDE DEF name, content
    <3> QED BY <1>0, <3>1, <3>2
  <2>4. CASE i = 1 \/ i = 3 \/ i = 6
    <3>1. file[i] = Line("other", <<>>)
      BY <1>1, <2>4
    <3>2. name(i) = "other" /\ content(i) = join(<<>>, " ")
      BY <2>4
    <3> HIDE DEF name, content
    <3> QED BY <1>0, <3>1, <3>2
  <2> HIDE DEF name, content
  <2> QED BY <1>2, <2>1, <2>2, <2>3, <2>4
<1>4. ASSUME NEW k \in {2, 4, 5}
      PROVE  parse_file(file)[name(k)] = parse_line(content(k))
  <2> DEFINE I == {i \in 1..Len(file) : file[i].list = name(k)}
  <2>1. I = {k}
    <3>1. \A i \in 1..6 : name(i) = name(k) <=> i = k
      BY <1>2
    <3>2. k \in 1..6
      OBVIOUS
    <3>3. \A i \in 1..6 : file[i].list = name(i)
      BY <1>3
    <3>4. Len(file) = 6
      BY <1>1
    <3> HIDE DEF name
    <3> QED BY <3>1, <3>2, <3>3, <3>4, Zenon
  <2>2. Max(I) = k
    <3>1. k \in Int
      OBVIOUS
    <3> QED BY <2>1, <3>1 DEF Max
  <2>3. SelectLastInSeq(file, LAMBDA line : line.list = name(k)) = k
    BY <2>1, <2>2 DEF SelectLastInSeq
  <2>4. name(k) \in Lists /\ k # 0 /\ k \in 1..6
    BY DEF Lists
  <2> HIDE DEF name
  <2> QED BY <1>3, <2>3, <2>4 DEF parse_file
<1>5. /\ parse_file(file)["MODULES"] = modules
      /\ parse_file(file)["FILES"] = files
      /\ parse_file(file)["HOOKS"] = hooks
  <2>1. /\ name(2) = "MODULES" /\ content(2) = join(modules, " ")
        /\ name(4) = "FILES" /\ content(4) = join(files, " ")
        /\ name(5) = "HOOKS" /\ content(5) = join(hooks, " ")
    OBVIOUS
  <2> HIDE DEF name, content
  <2>2. /\ parse_file(file)[name(2)] = parse_line(content(2))
        /\ parse_file(file)[name(4)] = parse_line(content(4))
        /\ parse_file(file)[name(5)] = parse_line(content(5))
    BY <1>4
  <2> QED BY <2>1, <2>2, ParseJoined
<1>6. ASSUME NEW lists
      PROVE  write(file, lists) = FileOf(lists["MODULES"], lists["FILES"], lists["HOOKS"])
  <2> DEFINE a == Line("other", <<>>)
             m == Line("MODULES", lists["MODULES"])
             f == Line("FILES", lists["FILES"])
             h == Line("HOOKS", lists["HOOKS"])
             X == {a, m, f, h}
             g == write(file, lists)
             t == <<a, m, a, f, h, a>>
  <2>1. g = [i \in 1..6 |-> modify_initcpio_line(file[i], lists)]
    BY <1>1 DEF write
  <2>2. /\ modify_initcpio_line(Line("other", <<>>), lists) = a
        /\ modify_initcpio_line(Line("MODULES", modules), lists) = m
        /\ modify_initcpio_line(Line("FILES", files), lists) = f
        /\ modify_initcpio_line(Line("HOOKS", hooks), lists) = h
    BY <1>0 DEF modify_initcpio_line, Lists
  <2> HIDE DEF g, a, m, f, h
  <2>3. g[1] = a /\ g[2] = m /\ g[3] = a /\ g[4] = f /\ g[5] = h /\ g[6] = a
    BY <1>1, <2>1, <2>2
  <2>4. g \in [1..6 -> X]
    <3>1. \A i \in 1..6 : g[i] \in X
      BY <1>2, <2>3
    <3> HIDE DEF X
    <3> QED BY <2>1, <3>1
  <2>5. t \in Seq(X) /\ Len(t) = 6
    OBVIOUS
  <2>6. \A i \in 1..6 : g[i] = t[i]
    BY <1>2, <2>3
  <2> HIDE DEF X, t
  <2>7. g \in Seq(X) /\ Len(g) = 6
    BY <2>4, MadeSequence
  <2>8. g = t
    BY <2>5, <2>6, <2>7, SameSequence
  <2> QED BY <2>8 DEF g, t, a, m, f, h, FileOf
<1> QED BY <1>1, <1>5, <1>6 DEF file


\* A configuration of the three lists, each of words.
IsFile(file) ==
    /\ parse_file(file)["MODULES"] \in Seq(Words)
    /\ parse_file(file)["FILES"] \in Seq(Words)
    /\ parse_file(file)["HOOKS"] \in Seq(Words)
    /\ file = FileOf(parse_file(file)["MODULES"], parse_file(file)["FILES"], parse_file(file)["HOOKS"])

\* FileOf makes such a configuration.
LEMMA MadeFile ==
    ASSUME NEW modules \in Seq(Words), NEW files \in Seq(Words), NEW hooks \in Seq(Words)
    PROVE  LET file == FileOf(modules, files, hooks)
           IN  /\ IsFile(file) /\ file # NoConf
               /\ Modules(file) = modules /\ parse_file(file)["FILES"] = files /\ Hooks(file) = hooks
<1> DEFINE file == FileOf(modules, files, hooks)
<1>1. /\ parse_file(file)["MODULES"] = modules /\ parse_file(file)["FILES"] = files
      /\ parse_file(file)["HOOKS"] = hooks /\ file # NoConf
  BY FileLists
<1>2. file = FileOf(modules, files, hooks)
  OBVIOUS
<1> HIDE DEF file
<1> QED BY <1>1, <1>2 DEF IsFile, Modules, Hooks, file

\* Replace puts a list in the place of one and keeps the others.
LEMMA ReplacedList ==
    ASSUME NEW file, IsFile(file), NEW list \in Lists, NEW new \in Seq(Words)
    PROVE  LET r == Replace(file, list, new)
           IN  /\ IsFile(r) /\ r # NoConf
               /\ \A l \in Lists : parse_file(r)[l] = IF l = list THEN new ELSE parse_file(file)[l]
<1> DEFINE r == Replace(file, list, new)
           lists == parse_file(file)
           other == [lists EXCEPT ![list] = new]
           M == lists["MODULES"]
           F == lists["FILES"]
           H == lists["HOOKS"]
<1>1. M \in Seq(Words) /\ F \in Seq(Words) /\ H \in Seq(Words) /\ file = FileOf(M, F, H)
  BY DEF IsFile
<1>2. file # NoConf /\ \A ls : write(file, ls) = FileOf(ls["MODULES"], ls["FILES"], ls["HOOKS"])
  <2> HIDE DEF M, F, H, lists
  <2> QED BY <1>1, FileLists
<1>3. DOMAIN lists = Lists
  BY DEF parse_file
<1>4. CASE lists[list] = new
  <2>1. r = file
    BY <1>4 DEF Replace
  <2> HIDE DEF r, lists
  <2>2. \A l \in Lists : parse_file(r)[l] = IF l = list THEN new ELSE lists[l]
    BY <1>4, <2>1 DEF lists
  <2> QED BY <1>2, <2>1, <2>2 DEF r, lists
<1>5. CASE lists[list] # new
  <2>1. r = write(file, other)
    BY <1>2, <1>5 DEF Replace
  <2> HIDE DEF lists
  <2>2. \A l \in Lists : other[l] = IF l = list THEN new ELSE lists[l]
    BY <1>3
  <2>3. "MODULES" \in Lists /\ "FILES" \in Lists /\ "HOOKS" \in Lists
    BY DEF Lists
  <2> HIDE DEF other
  <2>4. other["MODULES"] \in Seq(Words) /\ other["FILES"] \in Seq(Words) /\ other["HOOKS"] \in Seq(Words)
    <3> HIDE DEF Words
    <3> DEFINE A == Seq(Words)
    <3>1. M \in A /\ F \in A /\ H \in A /\ new \in A
      BY <1>1
    <3> HIDE DEF A
    <3> QED BY <2>2, <2>3, <3>1 DEF A
  <2>5. r = FileOf(other["MODULES"], other["FILES"], other["HOOKS"])
    BY <1>2, <2>1
  <2> HIDE DEF r
  <2>6. /\ IsFile(r) /\ r # NoConf
        /\ Modules(r) = other["MODULES"] /\ parse_file(r)["FILES"] = other["FILES"]
        /\ Hooks(r) = other["HOOKS"]
    BY <2>4, <2>5, MadeFile
  <2>7. \A l \in Lists : parse_file(r)[l] = other[l]
    BY <2>6 DEF Lists, Modules, Hooks
  <2> QED BY <2>2, <2>6, <2>7 DEF r, lists
<1> QED BY <1>4, <1>5

\* The three cases of it.
LEMMA ReplacedHooks ==
    ASSUME NEW file, IsFile(file), NEW new \in Seq(Words)
    PROVE  LET r == Replace(file, "HOOKS", new)
           IN  IsFile(r) /\ r # NoConf /\ Hooks(r) = new /\ Modules(r) = Modules(file)
<1>1. {"MODULES", "HOOKS", "FILES"} = Lists /\ "HOOKS" # "MODULES"
  BY DEF Lists
<1> QED BY <1>1, ReplacedList DEF Hooks, Modules

LEMMA ReplacedModules ==
    ASSUME NEW file, IsFile(file), NEW new \in Seq(Words)
    PROVE  LET r == Replace(file, "MODULES", new)
           IN  IsFile(r) /\ r # NoConf /\ Hooks(r) = Hooks(file) /\ Modules(r) = new
<1>1. {"MODULES", "HOOKS", "FILES"} = Lists /\ "HOOKS" # "MODULES"
  BY DEF Lists
<1> QED BY <1>1, ReplacedList DEF Hooks, Modules

LEMMA ReplacedFiles ==
    ASSUME NEW file, IsFile(file), NEW new \in Seq(Words)
    PROVE  LET r == Replace(file, "FILES", new)
           IN  IsFile(r) /\ r # NoConf /\ Hooks(r) = Hooks(file) /\ Modules(r) = Modules(file)
<1>1. {"MODULES", "HOOKS", "FILES"} = Lists /\ "HOOKS" # "FILES" /\ "MODULES" # "FILES"
  BY DEF Lists
<1> QED BY <1>1, ReplacedList DEF Hooks, Modules

\* Nothing is made of no file.
LEMMA NoFile ==
    /\ \A list, new : Replace(NoConf, list, new) = NoConf
    /\ Hooks(NoConf) = <<>> /\ Modules(NoConf) = <<>>
<1>1. \A list, new : Replace(NoConf, list, new) = NoConf
  BY DEF Replace
<1>2. ASSUME NEW list \in Lists PROVE parse_file(NoConf)[list] = <<>>
  <2>1. SelectLastInSeq(NoConf, LAMBDA line : line.list = list) = 0
    <3>1. {i \in 1..Len(NoConf) : NoConf[i].list = list} = {}
      <4>1. Len(NoConf) = 0
        BY DEF NoConf
      <4> QED BY <4>1
    <3> QED BY <3>1 DEF SelectLastInSeq
  <2> QED BY <2>1 DEF parse_file
<1>3. "HOOKS" \in Lists /\ "MODULES" \in Lists
  BY DEF Lists
<1> QED BY <1>1, <1>2, <1>3 DEF Hooks, Modules


------------------------------------------------------------------------------
(* The hooks.                                                               *)

\* The hooks of a fresh file but fsck, which no one removes.
Fixed == {"base", "udev", "autodetect", "modconf", "block", "filesystems", "keyboard"}

\* Each hook that must come before another.
Order ==
    {<<"encrypt", "filesystems">>, <<"lvm2", "filesystems">>, <<"zfs", "filesystems">>,
     <<"mdadm_udev", "block">>, <<"keymap", "keyboard">>}

\* What holds of the hooks as long as the file is there: none is listed twice, the fixed
\* ones are all there, in front of which the others are put, and the order is right.
GoodHooks(hooks) ==
    /\ hooks \in Seq(Words) /\ NoDup(hooks)
    /\ \A w \in Fixed : Contains(hooks, w)
    /\ \A p \in Order : Before(p[1], p[2], hooks)

GoodFile(file) == IsFile(file) /\ file # NoConf /\ GoodHooks(Hooks(file))

\* Hooks that go in front of needle, and so before the ones they must precede.
Fitting(hooks, needle) ==
    /\ hooks \in Seq(Words) /\ NoDup(hooks) /\ needle \in Fixed
    /\ \A p \in Order : ~Contains(hooks, p[2]) /\ (Contains(hooks, p[1]) => p[2] = needle)

\* insert_hook adds hooks and keeps the others, and the order.
LEMMA HookInserted ==
    ASSUME NEW file, GoodFile(file), NEW hooks, NEW needle, Fitting(hooks, needle)
    PROVE  LET r == insert_hook(file, needle, hooks)
           IN  /\ GoodFile(r) /\ Modules(r) = Modules(file)
               /\ \A w : Contains(Hooks(r), w) <=> Contains(Hooks(file), w) \/ Contains(hooks, w)
<1> DEFINE s == Hooks(file)
           new == Missing(s, hooks)
           place == FindIn(s, needle)
           h == InsertAll(s, place, new)
           r == insert_hook(file, needle, hooks)
<1>1. /\ s \in Seq(Words) /\ NoDup(s) /\ Contains(s, needle) /\ \A w \in Fixed : Contains(s, w)
      /\ \A p \in Order : Before(p[1], p[2], s)
      /\ hooks \in Seq(Words) /\ NoDup(hooks)
  BY DEF GoodFile, GoodHooks, Fitting
<1> HIDE DEF s
<1>2. /\ new \in Seq(Words) /\ NoDup(new)
      /\ \A w : Contains(new, w) <=> Contains(hooks, w) /\ ~Contains(s, w)
  BY <1>1, MissingWords
<1>3. place \in 1..(Len(s) + 1) /\ place \in 1..Len(s) /\ s[place] = needle
  BY <1>1, Found
<1> HIDE DEF new, place
<1>4. /\ h \in Seq(Words) /\ NoDup(h)
      /\ \A w : Contains(h, w) <=> Contains(s, w) \/ Contains(new, w)
      /\ \A a, b : (/\ Before(a, b, s) /\ ~Contains(new, b)
                    /\ Contains(new, a) => place <= Len(s) /\ s[place] = b)
                   => Before(a, b, h)
  <2>1. \A w : Contains(new, w) => ~Contains(s, w)
    BY <1>2
  <2> QED BY <1>1, <1>2, <1>3, <2>1, InsertedWords
<1>5. ASSUME NEW p \in Order PROVE Before(p[1], p[2], h)
  <2>1. ~Contains(new, p[2]) /\ (Contains(new, p[1]) => p[2] = needle)
    BY <1>2 DEF Fitting
  <2>2. place <= Len(s)
    BY <1>3
  <2> HIDE DEF h
  <2> QED BY <1>1, <1>3, <1>4, <2>1, <2>2
<1>6. GoodHooks(h)
  <2> HIDE DEF h
  <2> QED BY <1>1, <1>4, <1>5 DEF GoodHooks
<1>7. IsFile(r) /\ r # NoConf /\ Hooks(r) = h /\ Modules(r) = Modules(file)
  <2>1. IsFile(file)
    BY DEF GoodFile
  <2>2. r = Replace(file, "HOOKS", h)
    BY DEF insert_hook, h, s, new, place
  <2> HIDE DEF h, r
  <2> QED BY <1>4, <2>1, <2>2, ReplacedHooks
<1> HIDE DEF h, r
<1>8. \A w : Contains(h, w) <=> Contains(s, w) \/ Contains(hooks, w)
  BY <1>2, <1>4
<1> QED BY <1>6, <1>7, <1>8 DEF GoodFile, r, s

\* append_hooks of the fixed ones and fsck makes sure of fsck.
LEMMA HooksAppended ==
    ASSUME NEW file, GoodFile(file)
    PROVE  LET r == append_hooks(file, PackageHooks)
           IN  /\ GoodFile(r) /\ Modules(r) = Modules(file) /\ Contains(Hooks(r), "fsck")
               /\ \A w : Contains(Hooks(file), w) => Contains(Hooks(r), w)
<1> DEFINE s == Hooks(file)
           new == Missing(s, PackageHooks)
           h == s \o new
           r == append_hooks(file, PackageHooks)
<1>1. /\ s \in Seq(Words) /\ NoDup(s) /\ \A w \in Fixed : Contains(s, w)
      /\ \A p \in Order : Before(p[1], p[2], s)
  BY DEF GoodFile, GoodHooks
<1>2. /\ PackageHooks \in Seq(Words) /\ NoDup(PackageHooks) /\ Contains(PackageHooks, "fsck")
      /\ \A w : Contains(PackageHooks, w) => w \in Fixed \cup {"fsck"}
  <2>1. PackageHooks \in Seq(Words)
    BY DEF PackageHooks, Words
  <2>2. Len(PackageHooks) = 8 /\ PackageHooks[8] = "fsck"
    BY DEF PackageHooks
  <2>3. NoDup(PackageHooks)
    BY DEF PackageHooks, NoDup
  <2>4. Contains(PackageHooks, "fsck")
    BY <2>2 DEF Contains
  <2>5. \A w : Contains(PackageHooks, w) => w \in Fixed \cup {"fsck"}
    BY DEF Contains, PackageHooks, Fixed
  <2> QED BY <2>1, <2>3, <2>4, <2>5
<1> HIDE DEF s
<1>3. /\ new \in Seq(Words) /\ NoDup(new)
      /\ \A w : Contains(new, w) <=> Contains(PackageHooks, w) /\ ~Contains(s, w)
  BY <1>1, <1>2, MissingWords
<1> HIDE DEF new
<1>4. h = InsertAll(s, Len(s) + 1, new) /\ Len(s) + 1 \in 1..(Len(s) + 1)
  <2>0. Len(s) \in Nat
    BY <1>1
  <2>1. SubSeq(s, 1, Len(s)) = s /\ SubSeq(s, Len(s) + 1, Len(s)) = <<>>
    BY <1>1
  <2>2. (Len(s) + 1) - 1 = Len(s) /\ Len(s) + 1 \in 1..(Len(s) + 1)
    BY <2>0
  <2>3. h \in Seq(Words) /\ h \o <<>> = h
    BY <1>1, <1>3
  <2> HIDE DEF h
  <2> QED BY <2>1, <2>2, <2>3 DEF InsertAll, h
<1> HIDE DEF h
<1>5. /\ h \in Seq(Words) /\ NoDup(h)
      /\ \A w : Contains(h, w) <=> Contains(s, w) \/ Contains(new, w)
      /\ \A a, b : (Before(a, b, s) /\ ~Contains(new, b) /\ ~Contains(new, a)) => Before(a, b, h)
  <2>1. \A w : Contains(new, w) => ~Contains(s, w)
    BY <1>3
  <2> DEFINE p == Len(s) + 1
  <2>2. p \in 1..(Len(s) + 1)
    BY <1>4
  <2> HIDE DEF p
  <2>3. LET q == InsertAll(s, p, new)
        IN  /\ q \in Seq(Words) /\ NoDup(q)
            /\ \A w : Contains(q, w) <=> Contains(s, w) \/ Contains(new, w)
            /\ \A a, b : (/\ Before(a, b, s) /\ ~Contains(new, b)
                          /\ Contains(new, a) => p <= Len(s) /\ s[p] = b)
                         => Before(a, b, q)
    BY <1>1, <1>3, <2>1, <2>2, InsertedWords
  <2> QED BY <1>4, <2>3 DEF p
<1>6. ASSUME NEW w, Contains(new, w) PROVE w = "fsck"
  BY <1>1, <1>2, <1>3, <1>6
<1>7. ASSUME NEW p \in Order PROVE Before(p[1], p[2], h)
  <2>1. p[1] # "fsck" /\ p[2] # "fsck"
    BY DEF Order
  <2> QED BY <1>1, <1>5, <1>6, <2>1
<1>8. GoodHooks(h)
  BY <1>1, <1>5, <1>7 DEF GoodHooks
<1>9. IsFile(r) /\ r # NoConf /\ Hooks(r) = h /\ Modules(r) = Modules(file)
  <2>1. IsFile(file)
    BY DEF GoodFile
  <2>2. r = Replace(file, "HOOKS", h)
    BY DEF append_hooks, h, s, new
  <2> HIDE DEF r
  <2> QED BY <1>5, <2>1, <2>2, ReplacedHooks
<1>10. Contains(h, "fsck") /\ \A w : Contains(s, w) => Contains(h, w)
  BY <1>2, <1>3, <1>5
<1> HIDE DEF r
<1> QED BY <1>8, <1>9, <1>10 DEF GoodFile, r, s

\* remove_hook takes fsck off and keeps the others, and the order.
LEMMA FsckRemoved ==
    ASSUME NEW file, GoodFile(file)
    PROVE  LET r == remove_hook(file, "fsck")
           IN  /\ GoodFile(r) /\ Modules(r) = Modules(file)
               /\ \A w : Contains(Hooks(r), w) <=> Contains(Hooks(file), w) /\ w # "fsck"
<1> DEFINE s == Hooks(file)
           h == RemoveFirst(s, "fsck")
           r == remove_hook(file, "fsck")
<1>1. /\ s \in Seq(Words) /\ NoDup(s) /\ \A w \in Fixed : Contains(s, w)
      /\ \A p \in Order : Before(p[1], p[2], s)
  BY DEF GoodFile, GoodHooks
<1> HIDE DEF s
<1>2. /\ h \in Seq(Words) /\ NoDup(h)
      /\ \A w : Contains(h, w) <=> Contains(s, w) /\ w # "fsck"
      /\ \A a, b : Before(a, b, s) => Before(a, b, h)
  BY <1>1, RemovedWord
<1> HIDE DEF h
<1>3. \A w \in Fixed : w # "fsck"
  BY DEF Fixed
<1>4. GoodHooks(h)
  BY <1>1, <1>2, <1>3 DEF GoodHooks
<1>5. IsFile(r) /\ r # NoConf /\ Hooks(r) = h /\ Modules(r) = Modules(file)
  <2>1. IsFile(file)
    BY DEF GoodFile
  <2>2. r = Replace(file, "HOOKS", h)
    BY DEF remove_hook, h, s
  <2> HIDE DEF r
  <2> QED BY <1>2, <2>1, <2>2, ReplacedHooks
<1> HIDE DEF r
<1> QED BY <1>2, <1>4, <1>5 DEF GoodFile, r, s

\* append_module adds a module, append_file a file; both keep the hooks.
LEMMA ModuleAppended ==
    ASSUME NEW file, GoodFile(file), NEW module \in Words
    PROVE  LET r == append_module(file, module)
           IN  /\ GoodFile(r) /\ Hooks(r) = Hooks(file)
               /\ \A w : Contains(Modules(r), w) <=> Contains(Modules(file), w) \/ w = module
<1> DEFINE s == Modules(file)
           new == Missing(s, <<module>>)
           h == s \o new
           r == append_module(file, module)
<1>1. IsFile(file) /\ s \in Seq(Words) /\ <<module>> \in Seq(Words)
  BY DEF GoodFile, IsFile, Modules
<1> HIDE DEF s
<1>2. new \in Seq(Words) /\ \A w : Contains(new, w) <=> Contains(<<module>>, w) /\ ~Contains(s, w)
  BY <1>1, MissingWords
<1>3. \A w : Contains(<<module>>, w) <=> w = module
  BY DEF Contains
<1> HIDE DEF new
<1>4. h \in Seq(Words) /\ \A w : Contains(h, w) <=> Contains(s, w) \/ Contains(new, w)
  <2>1. /\ h \in Seq(Words) /\ Len(h) = Len(s) + Len(new) /\ Len(s) \in Nat /\ Len(new) \in Nat
        /\ \A i \in 1..Len(s) : h[i] = s[i]
        /\ \A i \in (Len(s) + 1)..Len(h) : h[i] = new[i - Len(s)]
    BY <1>1, <1>2, Joined, Elements
  <2> HIDE DEF h
  <2>2. \A i \in 1..Len(h) : i \in 1..Len(s) \/ (i \in (Len(s) + 1)..Len(h) /\ i - Len(s) \in 1..Len(new))
    BY <2>1
  <2>3. ASSUME NEW i \in 1..Len(new)
        PROVE  i + Len(s) \in 1..Len(h) /\ h[i + Len(s)] = new[i]
    <3>1. i + Len(s) \in (Len(s) + 1)..Len(h) /\ i + Len(s) \in 1..Len(h) /\ (i + Len(s)) - Len(s) = i
      BY <2>1
    <3> QED BY <2>1, <3>1
  <2>4. \A i \in 1..Len(s) : i \in 1..Len(h)
    BY <2>1
  <2> QED BY <2>1, <2>2, <2>3, <2>4 DEF Contains
<1> HIDE DEF h
<1>5. IsFile(r) /\ r # NoConf /\ Hooks(r) = Hooks(file) /\ Modules(r) = h
  <2>1. r = Replace(file, "MODULES", h)
    BY DEF append_module, h, s, new
  <2> HIDE DEF r
  <2> QED BY <1>1, <1>4, <2>1, ReplacedModules
<1> HIDE DEF r
<1>6. GoodHooks(Hooks(file))
  BY DEF GoodFile
<1>7. \A w : Contains(h, w) <=> Contains(s, w) \/ w = module
  BY <1>2, <1>3, <1>4
<1> QED BY <1>5, <1>6, <1>7 DEF GoodFile, r, s

LEMMA FileAppended ==
    ASSUME NEW file, GoodFile(file), NEW name \in Words
    PROVE  LET r == append_file(file, name)
           IN  GoodFile(r) /\ Hooks(r) = Hooks(file) /\ Modules(r) = Modules(file)
<1> DEFINE s == parse_file(file)["FILES"]
           new == Missing(s, <<name>>)
           h == s \o new
           r == append_file(file, name)
<1>1. IsFile(file) /\ s \in Seq(Words) /\ <<name>> \in Seq(Words)
  BY DEF GoodFile, IsFile
<1> HIDE DEF s
<1>2. new \in Seq(Words)
  BY <1>1, MissingWords
<1> HIDE DEF new
<1>3. h \in Seq(Words)
  BY <1>1, <1>2, Joined
<1>4. r = Replace(file, "FILES", h)
  BY DEF append_file, h, s, new
<1> HIDE DEF h, r
<1>5. IsFile(r) /\ r # NoConf /\ Hooks(r) = Hooks(file) /\ Modules(r) = Modules(file)
  BY <1>1, <1>3, <1>4, ReplacedFiles
<1> QED BY <1>5 DEF GoodFile, r

\* The file of the package is a good one, with fsck.
LEMMA PackageFile == GoodFile(PackageConf) /\ Contains(Hooks(PackageConf), "fsck")
<1>1. <<>> \in Seq(Words) /\ PackageHooks \in Seq(Words)
  BY DEF PackageHooks, Words
<1>2. PackageConf = FileOf(<<>>, <<>>, PackageHooks)
  BY DEF PackageConf, FileOf
<1>3. IsFile(PackageConf) /\ PackageConf # NoConf /\ Hooks(PackageConf) = PackageHooks
  BY <1>1, <1>2, MadeFile
<1>4. NoDup(PackageHooks)
  BY DEF PackageHooks, NoDup
<1>5. /\ PackageHooks[1] = "base" /\ PackageHooks[2] = "udev" /\ PackageHooks[3] = "autodetect"
      /\ PackageHooks[4] = "modconf" /\ PackageHooks[5] = "block"
      /\ PackageHooks[6] = "filesystems" /\ PackageHooks[7] = "keyboard"
      /\ PackageHooks[8] = "fsck" /\ Len(PackageHooks) = 8
  BY DEF PackageHooks
<1>6. \A w \in Fixed \cup {"fsck"} : Contains(PackageHooks, w)
  BY <1>5 DEF Fixed, Contains
<1>7. \A p \in Order : ~Contains(PackageHooks, p[1])
  BY DEF Order, Contains, PackageHooks
<1>8. \A p \in Order : Before(p[1], p[2], PackageHooks)
  BY <1>7 DEF Contains, Before
<1> QED BY <1>1, <1>3, <1>4, <1>6, <1>8 DEF GoodFile, GoodHooks


\* Writing the lists that were read changes nothing.
LEMMA Rewritten ==
    ASSUME NEW file, IsFile(file) \/ file = NoConf
    PROVE  write(file, parse_file(file)) = file
<1>1. CASE IsFile(file)
  <2> DEFINE M == parse_file(file)["MODULES"]
             F == parse_file(file)["FILES"]
             H == parse_file(file)["HOOKS"]
  <2>1. M \in Seq(Words) /\ F \in Seq(Words) /\ H \in Seq(Words) /\ file = FileOf(M, F, H)
    BY <1>1 DEF IsFile
  <2> DEFINE lists == parse_file(file)
  <2>2. \A ls : write(file, ls) = FileOf(ls["MODULES"], ls["FILES"], ls["HOOKS"])
    <3> HIDE DEF M, F, H
    <3> QED BY <2>1, FileLists
  <2>3. write(file, lists) = FileOf(lists["MODULES"], lists["FILES"], lists["HOOKS"])
    <3> HIDE DEF lists
    <3> QED BY <2>2
  <2> QED BY <2>1, <2>3
<1>2. CASE file = NoConf
  <2> DEFINE w == write(file, parse_file(file))
             line(i) == modify_initcpio_line(file[i], parse_file(file))
  <2>1. w = [i \in DOMAIN file |-> line(i)]
    BY DEF write
  <2>2. DOMAIN file = 1..0
    BY <1>2 DEF NoConf
  <2> HIDE DEF w, line
  <2>3. w \in [1..0 -> {}]
    BY <2>1, <2>2
  <2>4. w \in Seq({}) /\ Len(w) = 0
    BY <2>3, MadeSequence
  <2>5. w = <<>>
    BY <2>4
  <2> QED BY <1>2, <2>5 DEF w, NoConf
<1> QED BY <1>1, <1>2

------------------------------------------------------------------------------
(* The invariant.                                                           *)

\* The file, as soon as there is one.
FileInv == conf = NoConf \/ GoodFile(conf)

\* The step the installation is at is one of these, or behind them and it is finished.
Past(steps) == at \in steps \/ completed

\* append_hooks puts fsck back, and fs_hooks takes it off again.
FsckInv ==
    conf # NoConf /\ at \in {"pacstrap", "copy_file", "fs_hooks"} => Contains(Hooks(conf), "fsck")

\* What each step puts into the file stays there until the installation is finished.
FsHooks ==
    conf # NoConf =>
        /\ Contains(Hooks(conf), "fsck") <=> filesystem_type = "ext4"
        /\ filesystem_type = "zfs" => Contains(Hooks(conf), "zfs")
        /\ filesystem_type = "btrfs" => Contains(Modules(conf), "btrfs")
LuksNoticed == (root = "crypt" /\ boot # "plain") \/ boot = "crypt" => LUKS = 1
RaidHooks == conf # NoConf /\ RAID = 1 => Contains(Hooks(conf), "mdadm_udev")
DiskHooks ==
    conf # NoConf =>
        /\ LUKS = 1 => Contains(Hooks(conf), "encrypt")
        /\ LVM = 1 => Contains(Hooks(conf), "lvm2")

\* The initramfs is a new one, unless its command failed, and so are the units.
ImageMade ==
    ~chroot_failed /\ (LVM + LUKS > 0 \/ filesystem_type # "ext4") => image = conf
UnitsEnabled == ~chroot_failed /\ ZFS = 1 => services = Units

StageInv ==
    /\ completed => at = "menu"
    /\ filesystem_type = "zfs" => ZFS = 1
    /\ FsckInv
    /\ Past({"recheck_luks", "raid_hooks", "lvm_luks_hooks", "mkinitcpio", "drivers"}) => FsHooks
    /\ Past({"raid_hooks", "lvm_luks_hooks", "mkinitcpio", "drivers"}) => LuksNoticed
    /\ Past({"lvm_luks_hooks", "mkinitcpio", "drivers"}) => RaidHooks
    /\ Past({"mkinitcpio", "drivers"}) => DiskHooks
    /\ Past({"drivers"}) => ImageMade
    /\ completed => UnitsEnabled

IInv == TypeOK /\ FileInv /\ StageInv

\* The two kinds of variables.
Flags ==
    /\ etc \in BOOLEAN /\ pacman \in BOOLEAN /\ base_installed \in BOOLEAN
    /\ mdadm_conf \in BOOLEAN /\ completed \in BOOLEAN /\ chroot_failed \in BOOLEAN
Kinds ==
    /\ filesystem_type \in {"ext4", "btrfs", "zfs"}
    /\ LVM \in {0, 1} /\ LUKS \in {0, 1} /\ RAID \in {0, 1} /\ ZFS \in {0, 1}
    /\ root \in Roots /\ boot \in Boots
    /\ at \in {"menu", "append_hooks", "pacstrap", "copy_file", "fs_hooks", "recheck_luks",
               "raid_hooks", "lvm_luks_hooks", "mkinitcpio", "drivers", "terminated"}
    /\ calls \in 0..MaxCalls
    /\ services \subseteq Units

LEMMA TypeParts == TypeOK <=> Flags /\ Kinds /\ (pacman => conf # NoConf)
  BY Zenon DEF TypeOK, Flags, Kinds

LEMMA NextTypeParts ==
    Flags' /\ Kinds' /\ (pacman' => conf' # NoConf) => TypeOK'
  BY Zenon DEF TypeOK, Flags, Kinds

LEMMA InitIInv == Init => IInv
<1> SUFFICES ASSUME Init PROVE IInv
  OBVIOUS
<1>1. Flags
  BY DEF Init, Flags
<1>2. Kinds
  BY CallsAssumption DEF Init, Kinds, Roots, Boots
<1>3. pacman = FALSE /\ conf = NoConf /\ completed = FALSE /\ at = "menu" /\ filesystem_type = "ext4"
  BY DEF Init
<1>4. TypeOK
  BY <1>1, <1>2, <1>3, TypeParts
<1>5. FileInv /\ StageInv
  BY <1>3 DEF FileInv, StageInv, FsckInv, Past
<1> QED BY <1>4, <1>5 DEF IInv

\* What a step leaves of the file's invariants when it does not touch what they are about.
LEMMA SameFile == ASSUME FileInv, conf' = conf PROVE FileInv'
  BY DEF FileInv

\* The steps that choose, fail, or go back to the menu.
LEMMA PrepareKeeps == ASSUME IInv, prepare_disks PROVE IInv'
<1> USE DEF IInv
<1>1. CASE UNCHANGED <<filesystem_type, root, boot, target>>
  <2>1. conf' = conf /\ at = "menu" /\ at' = "menu" /\ completed' = FALSE
    BY <1>1 DEF prepare_disks, target
  <2>2. FileInv'
    BY <2>1, SameFile
  <2>3. TypeOK'
    BY <1>1 DEF prepare_disks, target, TypeOK
  <2>4. filesystem_type' = "zfs" => ZFS' = 1
    BY <1>1 DEF prepare_disks
  <2>5. StageInv'
    BY <2>1, <2>4 DEF StageInv, Past, FsckInv
  <2> QED BY <2>2, <2>3, <2>5
<1>2. CASE filesystem_type' \in {"ext4", "btrfs", "zfs"} /\ root' \in Roots
           /\ boot' \in Boots /\ FreshTarget
  <2>1. conf' = NoConf /\ at = "menu" /\ at' = "menu" /\ completed' = FALSE
    BY <1>2 DEF prepare_disks, FreshTarget
  <2>2. FileInv'
    BY <2>1 DEF FileInv
  <2>3. TypeOK'
    BY <1>2 DEF prepare_disks, FreshTarget, TypeOK
  <2>4. filesystem_type' = "zfs" => ZFS' = 1
    BY DEF prepare_disks
  <2>5. StageInv'
    BY <2>1, <2>4 DEF StageInv, Past, FsckInv
  <2> QED BY <2>2, <2>3, <2>5
<1> QED BY <1>1, <1>2 DEF prepare_disks

LEMMA StartKeeps == ASSUME IInv, tui_install_base PROVE IInv'
<1> USE DEF IInv
<1>1. conf' = conf /\ at' \in {"menu", "append_hooks"} /\ completed' = FALSE
  BY DEF tui_install_base
<1>2. filesystem_type' = filesystem_type /\ ZFS' = ZFS
  BY DEF tui_install_base, disks
<1>3. FileInv'
  BY <1>1, SameFile
<1>4. TypeOK'
  <2>1. Flags'
    BY TypeParts DEF tui_install_base, disks, Flags
  <2>2. Kinds'
    BY TypeParts, CallsAssumption DEF tui_install_base, disks, Kinds
  <2>3. pacman' = pacman
    BY DEF tui_install_base
  <2> QED BY <1>1, <2>1, <2>2, <2>3, NextTypeParts, TypeParts
<1>5. StageInv'
  BY <1>1, <1>2 DEF StageInv, Past, FsckInv
<1> QED BY <1>3, <1>4, <1>5

\* append_hooks, then pacstrap with its own file or over the one that is there.
LEMMA AppendKeeps == ASSUME IInv, append_hooks_first PROVE IInv'
<1> USE DEF IInv
<1>1. conf = NoConf => conf' = NoConf
  BY NoFile DEF append_hooks_first, append_hooks
<1>2. conf # NoConf => GoodFile(conf') /\ conf' # NoConf /\ Contains(Hooks(conf'), "fsck")
  BY HooksAppended DEF append_hooks_first, FileInv, GoodFile
<1>3. at = "append_hooks" /\ at' = "pacstrap" /\ completed' = completed /\ UNCHANGED <<filesystem_type, ZFS>>
  BY DEF append_hooks_first, Goto, disks
<1>4. TypeOK'
  <2>1. Flags'
    BY TypeParts DEF append_hooks_first, Goto, disks, Flags
  <2>2. Kinds'
    BY TypeParts DEF append_hooks_first, Goto, disks, Kinds
  <2>3. pacman' = pacman
    BY DEF append_hooks_first
  <2> QED BY <1>1, <1>2, <2>1, <2>2, <2>3, NextTypeParts, TypeParts
<1>5. StageInv'
  BY <1>1, <1>2, <1>3 DEF StageInv, Past, FsckInv
<1>6. FileInv'
  BY <1>1, <1>2 DEF FileInv
<1> QED BY <1>4, <1>5, <1>6

LEMMA PacstrapKeeps == ASSUME IInv, install_from_pkglist PROVE IInv'
<1> USE DEF IInv
<1>1. GoodFile(PackageConf) /\ PackageConf # NoConf /\ Contains(Hooks(PackageConf), "fsck")
  BY PackageFile DEF GoodFile
<1>2. /\ at = "pacstrap" /\ at' = "copy_file" /\ completed' = completed
      /\ UNCHANGED <<filesystem_type, ZFS>>
      /\ conf' = conf \/ (conf = NoConf /\ conf' = PackageConf)
      /\ pacman' = pacman \/ conf' # NoConf
  BY <1>1 DEF install_from_pkglist, Goto, disks
<1>3. TypeOK'
  <2>1. Flags'
    BY TypeParts DEF install_from_pkglist, Goto, disks, Flags
  <2>2. Kinds'
    BY TypeParts DEF install_from_pkglist, Goto, disks, Kinds
  <2> QED BY <1>1, <1>2, <2>1, <2>2, NextTypeParts, TypeParts
<1>4. FileInv'
  BY <1>1, <1>2 DEF FileInv
<1>5. StageInv'
  BY <1>1, <1>2 DEF StageInv, Past, FsckInv
<1> QED BY <1>3, <1>4, <1>5

LEMMA CopyKeeps == ASSUME IInv, copy_pacman_conf PROVE IInv'
<1> USE DEF IInv
<1>1. /\ at = "copy_file" /\ at' \in {"fs_hooks", "terminated"} /\ completed' = completed
      /\ UNCHANGED <<filesystem_type, ZFS>> /\ conf' = conf
  BY DEF copy_pacman_conf, Goto, disks
<1>2. TypeOK'
  BY DEF copy_pacman_conf, Goto, disks, TypeOK
<1>3. FileInv'
  BY <1>1, SameFile
<1>4. StageInv'
  BY <1>1 DEF StageInv, Past, FsckInv
<1> QED BY <1>2, <1>3, <1>4


\* What the installer inserts fits in front of what it names.
LEMMA Fits ==
    /\ Fitting(<<"zfs">>, "filesystems") /\ Fitting(<<"mdadm_udev">>, "block")
    /\ Fitting(<<"consolefont", "keymap">>, "keyboard") /\ Fitting(<<"lvm2">>, "filesystems")
    /\ Fitting(<<"encrypt">>, "filesystems") /\ Fitting(<<"encrypt", "lvm2">>, "filesystems")
<1>1. ASSUME NEW w \in Words, NEW needle \in Fixed, \A p \in Order : p[2] # w /\ (p[1] = w => p[2] = needle)
      PROVE  Fitting(<<w>>, needle)
  <2>1. <<w>> \in Seq(Words) /\ Len(<<w>>) = 1 /\ <<w>>[1] = w
    OBVIOUS
  <2>2. \A v : Contains(<<w>>, v) <=> v = w
    BY <2>1 DEF Contains
  <2>3. NoDup(<<w>>)
    BY <2>1 DEF NoDup
  <2> QED BY <1>1, <2>1, <2>2, <2>3 DEF Fitting
<1>2. ASSUME NEW w \in Words, NEW v \in Words, w # v, NEW needle \in Fixed,
             \A p \in Order : /\ p[2] # w /\ (p[1] = w => p[2] = needle)
                              /\ p[2] # v /\ (p[1] = v => p[2] = needle)
      PROVE  Fitting(<<w, v>>, needle)
  <2> DEFINE s == <<w, v>>
  <2>1. s \in Seq(Words) /\ Len(s) = 2 /\ s[1] = w /\ s[2] = v
    OBVIOUS
  <2> HIDE DEF s
  <2>0. \A i \in 1..2 : i = 1 \/ i = 2
    OBVIOUS
  <2>2. \A u : Contains(s, u) => u = w \/ u = v
    BY <2>0, <2>1 DEF Contains
  <2>3. NoDup(s)
    BY <1>2, <2>0, <2>1 DEF NoDup
  <2>4. Fitting(s, needle)
    BY <1>2, <2>1, <2>2, <2>3 DEF Fitting
  <2> QED BY <2>4 DEF s
<1>3. ASSUME NEW p \in Order
      PROVE  /\ p[2] \in {"filesystems", "block", "keyboard"}
             /\ p[1] \in {"zfs", "lvm2", "encrypt"} <=> p[2] = "filesystems"
             /\ p[1] = "mdadm_udev" <=> p[2] = "block"
             /\ p[1] = "keymap" <=> p[2] = "keyboard"
             /\ p[1] # "consolefont"
  BY DEF Order
<1>4. /\ {"zfs", "mdadm_udev", "consolefont", "keymap", "lvm2", "encrypt"} \subseteq Words
      /\ {"filesystems", "block", "keyboard"} \subseteq Fixed
  BY DEF Words, Fixed
<1>5. Fitting(<<"zfs">>, "filesystems") /\ Fitting(<<"lvm2">>, "filesystems")
      /\ Fitting(<<"encrypt">>, "filesystems") /\ Fitting(<<"mdadm_udev">>, "block")
  BY <1>1, <1>3, <1>4
<1>6. Fitting(<<"consolefont", "keymap">>, "keyboard")
  BY <1>2, <1>3, <1>4
<1>7. Fitting(<<"encrypt", "lvm2">>, "filesystems")
  BY <1>2, <1>3, <1>4
<1> QED BY <1>5, <1>6, <1>7

\* fs_hooks leaves the hooks of the root's file system, and of the others what there was.
LEMMA FsKeeps == ASSUME IInv, fs_hooks PROVE IInv'
<1> USE DEF IInv
<1> DEFINE bare == remove_hook(conf, "fsck")
           pool == insert_hook(bare, "filesystems", <<"zfs">>)
           lib == append_file(pool, "/usr/lib/libgcc_s.so.1")
           btr == append_module(bare, "btrfs")
<1>1. /\ at = "fs_hooks" /\ at' = "recheck_luks" /\ completed' = completed
      /\ UNCHANGED <<filesystem_type, root, boot, LVM, LUKS, RAID, ZFS, pacman>>
      /\ filesystem_type = "btrfs" => conf' = btr
      /\ filesystem_type = "zfs" => conf' = lib
      /\ filesystem_type = "ext4" => conf' = conf
  BY DEF fs_hooks, Goto, disks
<1>0. filesystem_type \in {"ext4", "btrfs", "zfs"}
  BY DEF TypeOK
<1>2. conf = NoConf => conf' = NoConf
  <2>1. ASSUME conf = NoConf PROVE bare = NoConf /\ pool = NoConf /\ lib = NoConf /\ btr = NoConf
    BY <2>1, NoFile DEF remove_hook, insert_hook, append_file, append_module
  <2> HIDE DEF bare, pool, lib, btr
  <2> QED BY <1>0, <1>1, <2>1
<1>3. ASSUME conf # NoConf
      PROVE  GoodFile(conf') /\ FsHooks'
  <2>1. GoodFile(conf) /\ Contains(Hooks(conf), "fsck")
    BY <1>1, <1>3 DEF FileInv, StageInv, FsckInv
  <2>2. GoodFile(bare) /\ ~Contains(Hooks(bare), "fsck")
    BY <2>1, FsckRemoved
  <2> HIDE DEF bare
  <2>3. /\ GoodFile(pool) /\ ~Contains(Hooks(pool), "fsck") /\ Contains(Hooks(pool), "zfs")
    <3>1. /\ GoodFile(pool)
          /\ \A w : Contains(Hooks(pool), w) <=> Contains(Hooks(bare), w) \/ Contains(<<"zfs">>, w)
      BY <2>2, Fits, HookInserted
    <3>2. Contains(<<"zfs">>, "zfs") /\ ~Contains(<<"zfs">>, "fsck")
      BY DEF Contains
    <3> QED BY <2>2, <3>1, <3>2
  <2>4. /\ GoodFile(btr) /\ ~Contains(Hooks(btr), "fsck") /\ Contains(Modules(btr), "btrfs")
    <3>1. "btrfs" \in Words
      BY DEF Words
    <3>2. /\ GoodFile(btr) /\ Hooks(btr) = Hooks(bare)
          /\ \A w : Contains(Modules(btr), w) <=> Contains(Modules(bare), w) \/ w = "btrfs"
      BY <2>2, <3>1, ModuleAppended
    <3> QED BY <2>2, <3>2
  <2> HIDE DEF pool, btr
  <2>5. GoodFile(lib) /\ Hooks(lib) = Hooks(pool)
    <3>1. "/usr/lib/libgcc_s.so.1" \in Words
      BY DEF Words
    <3> QED BY <2>3, <3>1, FileAppended
  <2> HIDE DEF lib
  <2>6. CASE filesystem_type = "ext4"
    BY <1>1, <2>1, <2>6 DEF FsHooks
  <2>7. CASE filesystem_type = "btrfs"
    BY <1>1, <2>4, <2>7 DEF FsHooks
  <2>8. CASE filesystem_type = "zfs"
    BY <1>1, <2>3, <2>5, <2>8 DEF FsHooks
  <2> QED BY <1>0, <2>6, <2>7, <2>8
<1> HIDE DEF bare, pool, lib, btr
<1>4. FileInv'
  BY <1>2, <1>3 DEF FileInv
<1>5. FsHooks'
  BY <1>2, <1>3 DEF FsHooks
<1>6. StageInv'
  BY <1>1, <1>5 DEF StageInv, Past, FsckInv
<1>7. TypeOK'
  <2>1. Flags'
    BY TypeParts DEF fs_hooks, Goto, disks, Flags
  <2>2. Kinds'
    BY TypeParts DEF fs_hooks, Goto, disks, Kinds
  <2>3. conf # NoConf => conf' # NoConf
    BY <1>3 DEF GoodFile
  <2> QED BY <1>1, <2>1, <2>2, <2>3, NextTypeParts, TypeParts
<1> QED BY <1>4, <1>6, <1>7

LEMMA RecheckKeeps == ASSUME IInv, recheck_luks PROVE IInv'
<1> USE DEF IInv
<1>1. /\ at = "recheck_luks" /\ at' = "raid_hooks" /\ completed' = completed
      /\ UNCHANGED <<filesystem_type, root, boot, LVM, RAID, ZFS, conf, pacman>>
  BY DEF recheck_luks, target
<1>2. LuksNoticed'
  BY DEF recheck_luks, LuksNoticed, TypeOK, Boots
<1>3. FileInv'
  BY <1>1, SameFile
<1>4. FsHooks => FsHooks'
  BY <1>1 DEF FsHooks
<1>5. StageInv'
  BY <1>1, <1>2, <1>4 DEF StageInv, Past, FsckInv
<1>6. TypeOK'
  <2>1. Flags'
    BY TypeParts DEF recheck_luks, target, Flags
  <2>2. Kinds'
    BY TypeParts DEF recheck_luks, target, Kinds
  <2> QED BY <1>1, <2>1, <2>2, NextTypeParts, TypeParts
<1> QED BY <1>3, <1>5, <1>6


\* new is a good file with the hooks of file and ws, and at least its modules.
Adds(file, new, ws) ==
    /\ GoodFile(new)
    /\ \A w : Contains(Modules(file), w) => Contains(Modules(new), w)
    /\ \A w : Contains(Hooks(new), w) <=> Contains(Hooks(file), w) \/ w \in ws

LEMMA InsertAdds ==
    ASSUME NEW file, GoodFile(file)
    PROVE  /\ Adds(file, insert_hook(file, "block", <<"mdadm_udev">>), {"mdadm_udev"})
           /\ Adds(file, insert_hook(file, "keyboard", <<"consolefont", "keymap">>),
                   {"consolefont", "keymap"})
           /\ Adds(file, insert_hook(file, "filesystems", <<"lvm2">>), {"lvm2"})
           /\ Adds(file, insert_hook(file, "filesystems", <<"encrypt">>), {"encrypt"})
           /\ Adds(file, insert_hook(file, "filesystems", <<"encrypt", "lvm2">>), {"encrypt", "lvm2"})
<1>1. ASSUME NEW hooks, NEW needle, NEW ws, Fitting(hooks, needle), \A w : Contains(hooks, w) <=> w \in ws
      PROVE  Adds(file, insert_hook(file, needle, hooks), ws)
  <2>1. LET r == insert_hook(file, needle, hooks)
        IN  /\ GoodFile(r) /\ Modules(r) = Modules(file)
            /\ \A w : Contains(Hooks(r), w) <=> Contains(Hooks(file), w) \/ Contains(hooks, w)
    BY <1>1, HookInserted
  <2> QED BY <1>1, <2>1 DEF Adds
<1>2. ASSUME NEW a PROVE \A w : Contains(<<a>>, w) <=> w \in {a}
  BY DEF Contains
<1>3. ASSUME NEW a, NEW b PROVE \A w : Contains(<<a, b>>, w) <=> w \in {a, b}
  <2> DEFINE s == <<a, b>>
  <2>1. Len(s) = 2 /\ s[1] = a /\ s[2] = b /\ 1 \in 1..2 /\ 2 \in 1..2 /\ \A i \in 1..2 : i = 1 \/ i = 2
    OBVIOUS
  <2> HIDE DEF s
  <2>2. \A w : Contains(s, w) <=> w \in {a, b}
    BY <2>1 DEF Contains
  <2> QED BY <2>2 DEF s
<1> QED BY <1>1, <1>2, <1>3, Fits

\* Additions one after the other, and with modules between them.
LEMMA AddsTwice ==
    ASSUME NEW a, NEW b, NEW c, NEW u, NEW v, Adds(a, b, u), Adds(b, c, v)
    PROVE  Adds(a, c, u \cup v)
  BY DEF Adds

LEMMA ModuleAdds ==
    ASSUME NEW file, GoodFile(file), NEW module \in Words
    PROVE  Adds(file, append_module(file, module), {})
<1>1. LET r == append_module(file, module)
      IN  /\ GoodFile(r) /\ Hooks(r) = Hooks(file)
          /\ \A w : Contains(Modules(r), w) <=> Contains(Modules(file), w) \/ w = module
  BY ModuleAppended
<1> QED BY <1>1 DEF Adds

\* Hooks that are not fsck can be added to what is right for the root's file system.
LEMMA FsHooksStay ==
    ASSUME FsHooks, NEW ws, Adds(conf, conf', ws), "fsck" \notin ws, conf # NoConf,
           UNCHANGED filesystem_type
    PROVE  FsHooks'
  BY DEF FsHooks, Adds

LEMMA RaidKeeps == ASSUME IInv, raid_hooks PROVE IInv'
<1> USE DEF IInv
<1> DEFINE udev == insert_hook(conf, "block", <<"mdadm_udev">>)
           raid0 == append_module(udev, "raid0")
           raid1 == append_module(raid0, "raid1")
<1>1. /\ at = "raid_hooks" /\ at' = "lvm_luks_hooks" /\ completed' = completed
      /\ UNCHANGED <<filesystem_type, root, boot, LVM, LUKS, RAID, ZFS, pacman>>
      /\ conf' = IF RAID = 0 THEN conf ELSE raid1
  BY DEF raid_hooks, Goto, disks
<1>2. conf = NoConf => conf' = NoConf
  <2>1. ASSUME conf = NoConf PROVE raid1 = NoConf
    BY <2>1, NoFile DEF insert_hook, append_module
  <2> HIDE DEF raid1
  <2> QED BY <1>1, <2>1
<1>3. ASSUME conf # NoConf
      PROVE  GoodFile(conf') /\ FsHooks' /\ RaidHooks'
  <2>1. GoodFile(conf) /\ FsHooks
    BY <1>1, <1>3 DEF FileInv, StageInv, Past
  <2>2. CASE RAID = 0
    BY <1>1, <2>1, <2>2 DEF FsHooks, RaidHooks
  <2>3. CASE RAID # 0
    <3>1. "raid0" \in Words /\ "raid1" \in Words
      BY DEF Words
    <3>2. Adds(conf, udev, {"mdadm_udev"})
      BY <2>1, InsertAdds
    <3> HIDE DEF udev
    <3>3. Adds(udev, raid0, {})
      BY <3>1, <3>2, ModuleAdds DEF Adds
    <3> HIDE DEF raid0
    <3>4. Adds(raid0, raid1, {})
      BY <3>1, <3>3, ModuleAdds DEF Adds
    <3> HIDE DEF raid1
    <3>5. Adds(conf, raid1, {"mdadm_udev"})
      <4>1. Adds(conf, raid0, {"mdadm_udev"} \cup {})
        BY <3>2, <3>3, AddsTwice
      <4>2. Adds(conf, raid1, ({"mdadm_udev"} \cup {}) \cup {})
        BY <3>4, <4>1, AddsTwice
      <4>3. ({"mdadm_udev"} \cup {}) \cup {} = {"mdadm_udev"}
        OBVIOUS
      <4> QED BY <4>2, <4>3
    <3>6. conf' = raid1
      BY <1>1, <2>3
    <3>7. FsHooks'
      BY <1>1, <1>3, <2>1, <3>5, <3>6, FsHooksStay
    <3> QED BY <3>5, <3>6, <3>7 DEF RaidHooks, Adds
  <2> QED BY <2>2, <2>3
<1> HIDE DEF udev, raid0, raid1
<1>4. FileInv'
  BY <1>2, <1>3 DEF FileInv
<1>5. FsHooks' /\ RaidHooks'
  BY <1>2, <1>3 DEF FsHooks, RaidHooks
<1>6. LuksNoticed => LuksNoticed'
  BY <1>1 DEF LuksNoticed
<1>7. StageInv'
  BY <1>1, <1>5, <1>6 DEF StageInv, Past, FsckInv
<1>8. TypeOK'
  <2>1. Flags'
    BY TypeParts DEF raid_hooks, Goto, disks, Flags
  <2>2. Kinds'
    BY TypeParts DEF raid_hooks, Goto, disks, Kinds
  <2>3. conf # NoConf => conf' # NoConf
    BY <1>3 DEF GoodFile
  <2> QED BY <1>1, <2>1, <2>2, <2>3, NextTypeParts, TypeParts
<1> QED BY <1>4, <1>7, <1>8

\* The four cases of LVM and LUKS; the last write changes nothing.
LEMMA LvmLuksKeeps == ASSUME IInv, lvm_luks_hooks PROVE IInv'
<1> USE DEF IInv
<1> DEFINE keyboard == insert_hook(conf, "keyboard", <<"consolefont", "keymap">>)
           lvm == insert_hook(conf, "filesystems", <<"lvm2">>)
           luks == insert_hook(keyboard, "filesystems", <<"encrypt">>)
           both == insert_hook(keyboard, "filesystems", <<"encrypt", "lvm2">>)
           hooks == CASE LVM = 1 /\ LUKS = 0 -> lvm
                      [] LVM = 0 /\ LUKS = 1 -> luks
                      [] LVM = 1 /\ LUKS = 1 -> both
                      [] OTHER -> conf
<1>1. /\ at = "lvm_luks_hooks" /\ at' = "mkinitcpio" /\ completed' = completed
      /\ UNCHANGED <<filesystem_type, root, boot, LVM, LUKS, RAID, ZFS, pacman>>
      /\ conf' = write(hooks, parse_file(hooks))
  BY DEF lvm_luks_hooks, Goto, disks
<1>0. LVM \in {0, 1} /\ LUKS \in {0, 1}
  BY DEF TypeOK
<1>2. /\ LVM = 1 /\ LUKS = 0 => hooks = lvm
      /\ LVM = 0 /\ LUKS = 1 => hooks = luks
      /\ LVM = 1 /\ LUKS = 1 => hooks = both
      /\ LVM = 0 /\ LUKS = 0 => hooks = conf
  <2> HIDE DEF keyboard, lvm, luks, both
  <2> QED BY <1>0
<1> HIDE DEF hooks
<1>3. conf = NoConf => conf' = NoConf
  <2>1. ASSUME conf = NoConf PROVE lvm = NoConf /\ luks = NoConf /\ both = NoConf
    BY <2>1, NoFile DEF insert_hook
  <2> HIDE DEF lvm, luks, both
  <2>2. conf = NoConf => hooks = NoConf
    BY <1>0, <1>2, <2>1
  <2> QED BY <1>1, <2>2, Rewritten
<1>4. ASSUME conf # NoConf
      PROVE  GoodFile(conf') /\ FsHooks' /\ RaidHooks' /\ DiskHooks'
  <2>1. GoodFile(conf) /\ FsHooks /\ RaidHooks
    BY <1>1, <1>4 DEF FileInv, StageInv, Past
  <2>2. Adds(conf, keyboard, {"consolefont", "keymap"}) /\ Adds(conf, lvm, {"lvm2"})
    BY <2>1, InsertAdds
  <2> HIDE DEF keyboard, lvm
  <2>3. Adds(keyboard, luks, {"encrypt"}) /\ Adds(keyboard, both, {"encrypt", "lvm2"})
    BY <2>2, InsertAdds DEF Adds
  <2> HIDE DEF luks, both
  <2>4. /\ Adds(conf, luks, {"consolefont", "keymap"} \cup {"encrypt"})
        /\ Adds(conf, both, {"consolefont", "keymap"} \cup {"encrypt", "lvm2"})
    BY <2>2, <2>3, AddsTwice
  <2>5. Adds(conf, conf, {})
    BY <2>1 DEF Adds
  <2>6. PICK ws : /\ Adds(conf, hooks, ws) /\ "fsck" \notin ws
                  /\ (LUKS = 1 => "encrypt" \in ws) /\ (LVM = 1 => "lvm2" \in ws)
    <3>1. CASE LVM = 1 /\ LUKS = 0
      BY <1>2, <2>2, <3>1
    <3>2. CASE LVM = 0 /\ LUKS = 1
      <4> DEFINE s == {"consolefont", "keymap"} \cup {"encrypt"}
      <4>1. Adds(conf, luks, s) /\ "encrypt" \in s /\ "fsck" \notin s
        BY <2>4
      <4> HIDE DEF s
      <4> QED BY <1>2, <3>2, <4>1
    <3>3. CASE LVM = 1 /\ LUKS = 1
      <4> DEFINE s == {"consolefont", "keymap"} \cup {"encrypt", "lvm2"}
      <4>1. Adds(conf, both, s) /\ "encrypt" \in s /\ "lvm2" \in s /\ "fsck" \notin s
        BY <2>4
      <4> HIDE DEF s
      <4> QED BY <1>2, <3>3, <4>1
    <3>4. CASE LVM = 0 /\ LUKS = 0
      BY <1>2, <2>5, <3>4
    <3> QED BY <1>0, <3>1, <3>2, <3>3, <3>4
  <2>7. conf' = hooks
    BY <1>1, <2>6, Rewritten DEF Adds, GoodFile
  <2>8. FsHooks'
    BY <1>1, <1>4, <2>1, <2>6, <2>7, FsHooksStay
  <2>9. RaidHooks' /\ DiskHooks'
    BY <1>1, <1>4, <2>1, <2>6, <2>7 DEF RaidHooks, DiskHooks, Adds
  <2> QED BY <2>6, <2>7, <2>8, <2>9 DEF Adds
<1> HIDE DEF keyboard, lvm, luks, both
<1>5. FileInv'
  BY <1>3, <1>4 DEF FileInv
<1>6. FsHooks' /\ RaidHooks' /\ DiskHooks'
  BY <1>3, <1>4 DEF FsHooks, RaidHooks, DiskHooks
<1>7. LuksNoticed => LuksNoticed'
  BY <1>1 DEF LuksNoticed
<1>8. StageInv'
  BY <1>1, <1>6, <1>7 DEF StageInv, Past, FsckInv
<1>9. TypeOK'
  <2>1. Flags'
    <3>1. mdadm_conf' \in BOOLEAN
      BY TypeParts DEF lvm_luks_hooks, Flags
    <3> QED BY <3>1, TypeParts DEF lvm_luks_hooks, Goto, disks, Flags
  <2>2. Kinds'
    BY TypeParts DEF lvm_luks_hooks, Goto, disks, Kinds
  <2>3. conf # NoConf => conf' # NoConf
    BY <1>4 DEF GoodFile
  <2> QED BY <1>1, <2>1, <2>2, <2>3, NextTypeParts, TypeParts
<1> QED BY <1>5, <1>8, <1>9


\* mkinitcpio makes a new initramfs, or has failed, or was not called for.
LEMMA MkinitcpioKeeps == ASSUME IInv, mkinitcpio PROVE IInv'
<1> USE DEF IInv
<1>1. /\ at = "mkinitcpio" /\ at' = "drivers" /\ completed' = completed /\ conf' = conf
      /\ UNCHANGED <<filesystem_type, root, boot, LVM, LUKS, RAID, ZFS, pacman>>
  BY DEF mkinitcpio, disks
<1>2. ImageMade'
  <2>0. LVM \in {0, 1} /\ LUKS \in {0, 1}
    BY DEF TypeOK
  <2>1. chroot_failed' \/ image' = conf \/ (LVM + LUKS = 0 /\ filesystem_type = "ext4")
    BY DEF mkinitcpio
  <2> QED BY <1>1, <2>0, <2>1 DEF ImageMade
<1>3. FileInv'
  BY <1>1, SameFile
<1>4. /\ FsHooks => FsHooks'
      /\ LuksNoticed => LuksNoticed'
      /\ RaidHooks => RaidHooks'
      /\ DiskHooks => DiskHooks'
  BY <1>1 DEF FsHooks, LuksNoticed, RaidHooks, DiskHooks
<1>5. StageInv'
  BY <1>1, <1>2, <1>4 DEF StageInv, Past, FsckInv
<1>6. TypeOK'
  <2>1. Flags'
    <3>1. chroot_failed' \in BOOLEAN
      BY DEF mkinitcpio
    <3> QED BY <3>1, TypeParts DEF mkinitcpio, disks, Flags
  <2>2. Kinds'
    BY TypeParts DEF mkinitcpio, disks, Kinds
  <2> QED BY <1>1, <2>1, <2>2, NextTypeParts, TypeParts
<1> QED BY <1>3, <1>5, <1>6

\* The end keeps what was made, whatever initramfs a driver brings.
LEMMA FinishKeeps == ASSUME IInv, finish_base PROVE IInv'
<1> USE DEF IInv
<1>1. /\ at = "drivers" /\ at' = "menu" /\ completed' = TRUE /\ conf' = conf
      /\ UNCHANGED <<filesystem_type, root, boot, LVM, LUKS, RAID, ZFS, pacman>>
      /\ image' = image \/ image' = conf
  BY DEF finish_base, disks, install_available_profiles
<1>2. PICK enabled \in {{}} \cup IF pacman THEN {Units} ELSE {} :
         /\ IF ZFS = 0 THEN UNCHANGED services ELSE enable_systemd_service(enabled)
         /\ chroot_failed' = (chroot_failed \/ (ZFS = 1 /\ enabled # Units))
  BY DEF finish_base
<1>3. services \subseteq Units /\ enabled \subseteq Units /\ chroot_failed' \in BOOLEAN
  BY <1>2 DEF TypeOK
<1>4. services' \subseteq Units
  BY <1>2, <1>3 DEF enable_systemd_service
<1>5. UnitsEnabled'
  <2> SUFFICES ASSUME ~chroot_failed', ZFS' = 1 PROVE services' = Units
    BY DEF UnitsEnabled
  <2>1. enabled = Units /\ ZFS = 1
    BY <1>1, <1>2
  <2> QED BY <1>2, <1>3, <2>1 DEF enable_systemd_service
<1>6. ~chroot_failed' => ~chroot_failed
  BY <1>2
<1>7. ImageMade => ImageMade'
  BY <1>1, <1>6 DEF ImageMade
<1>8. FileInv'
  BY <1>1, SameFile
<1>9. /\ FsHooks => FsHooks'
      /\ LuksNoticed => LuksNoticed'
      /\ RaidHooks => RaidHooks'
      /\ DiskHooks => DiskHooks'
  BY <1>1 DEF FsHooks, LuksNoticed, RaidHooks, DiskHooks
<1>10. StageInv'
  BY <1>1, <1>5, <1>7, <1>9 DEF StageInv, Past, FsckInv
<1>11. TypeOK'
  <2>1. Flags'
    BY <1>3, TypeParts DEF finish_base, disks, Flags
  <2>2. Kinds'
    BY <1>4, TypeParts DEF finish_base, disks, Kinds
  <2> QED BY <1>1, <2>1, <2>2, NextTypeParts, TypeParts
<1> QED BY <1>8, <1>10, <1>11

\* Every step keeps the invariant.
LEMMA NextIInv == ASSUME IInv, [Next]_vars PROVE IInv'
<1>1. CASE UNCHANGED vars
  <2> USE <1>1 DEF vars, disks, target
  <2>1. TypeOK'
    BY DEF IInv, TypeOK
  <2>2. FileInv'
    BY SameFile DEF IInv
  <2>3. StageInv'
    BY DEF IInv, StageInv, Past, FsckInv, FsHooks, LuksNoticed, RaidHooks, DiskHooks, ImageMade, UnitsEnabled
  <2> QED BY <2>1, <2>2, <2>3 DEF IInv
<1> QED BY <1>1, PrepareKeeps, StartKeeps, AppendKeeps, PacstrapKeeps, CopyKeeps, FsKeeps, RecheckKeeps,
           RaidKeeps, LvmLuksKeeps, MkinitcpioKeeps, FinishKeeps DEF Next

LEMMA InvCorrect == Spec => []IInv
  BY InitIInv, NextIInv, PTL DEF Spec

\* The variables keep their types, for any number of installations.
THEOREM TypeCorrect == Spec => []TypeOK
<1>1. IInv => TypeOK
  BY DEF IInv
<1> QED BY <1>1, InvCorrect, PTL

\* However often the base is installed, with whatever flags and failing where it may, no
\* hook is listed twice, and a hook that must run before another stands before it.
THEOREM HooksOrdered == Spec => []HookOrder
<1>1. IInv => HookOrder
  <2> SUFFICES ASSUME IInv PROVE HookOrder
    OBVIOUS
  <2> DEFINE hooks == Hooks(conf)
  <2>1. CASE conf = NoConf
    <3>1. hooks = <<>>
      BY <2>1, NoFile
    <3> HIDE DEF hooks
    <3>2. DOMAIN hooks = {}
      BY <3>1
    <3> QED BY <3>2 DEF HookOrder, Precedes, hooks
  <2>2. CASE GoodFile(conf)
    <3>1. hooks \in Seq(Words) /\ NoDup(hooks) /\ \A p \in Order : Before(p[1], p[2], hooks)
      BY <2>2 DEF GoodFile, GoodHooks
    <3> HIDE DEF hooks
    <3>2. DOMAIN hooks = 1..Len(hooks)
      BY <3>1
    <3>3. /\ Before("encrypt", "filesystems", hooks) /\ Before("lvm2", "filesystems", hooks)
          /\ Before("zfs", "filesystems", hooks) /\ Before("mdadm_udev", "block", hooks)
          /\ Before("keymap", "keyboard", hooks)
      <4>1. ASSUME NEW a, NEW b, <<a, b>> \in Order PROVE Before(a, b, hooks)
        BY <3>1, <4>1
      <4> QED BY <4>1 DEF Order
    <3> QED BY <3>1, <3>2, <3>3 DEF HookOrder, Precedes, Before, NoDup, hooks
  <2> QED BY <2>1, <2>2 DEF IInv, FileInv
<1> QED BY <1>1, InvCorrect, PTL

\* A finished installation has the hooks and modules its disks need, and fsck only for a root
\* that has one, whatever the installations before it left.
THEOREM HooksComplete == Spec => []HooksForDisks
<1>1. IInv => HooksForDisks
  BY DEF IInv, TypeOK, StageInv, Past, FsHooks, LuksNoticed, RaidHooks, DiskHooks, HooksForDisks
<1> QED BY <1>1, InvCorrect, PTL

\* When the commands in the chroot worked, the initramfs of a finished installation has the
\* hooks that are needed to reach the root, and the units of ZFS are enabled.
THEOREM ImageComplete == Spec => []ImageReachesRoot
<1>1. IInv => ImageReachesRoot
  BY DEF IInv, TypeOK, StageInv, Past, FsHooks, RaidHooks, DiskHooks, ImageMade, UnitsEnabled, ImageReachesRoot
<1> QED BY <1>1, InvCorrect, PTL

------------------------------------------------------------------------------
(* The texts of the dialogues.                                              *)

\* The text with a blank behind every word.
Blanks(words) ==
    [i \in 1..(2 * Len(words)) |-> IF i % 2 = 1 THEN words[(i + 1) \div 2] ELSE " "]

\* Its length and what is where.
LEMMA BlanksBehind ==
    ASSUME NEW W, NEW words \in Seq(W)
    PROVE  /\ Blanks(words) \in Seq(W \cup {" "}) /\ Len(Blanks(words)) = 2 * Len(words)
           /\ \A k \in 1..Len(words) : Blanks(words)[2 * k - 1] = words[k] /\ Blanks(words)[2 * k] = " "
<1> DEFINE L == Len(words)
           T == W \cup {" "}
           r == Blanks(words)
<1>0. L \in Nat /\ 2 * L \in Nat /\ \A k \in 1..L : words[k] \in W
  BY Elements
<1>1. r = [i \in 1..(2 * L) |-> IF i % 2 = 1 THEN words[(i + 1) \div 2] ELSE " "]
  BY DEF Blanks
<1> HIDE DEF L, r
<1>2. \A i \in 1..(2 * L) : i % 2 = 1 => (i + 1) \div 2 \in 1..L
  BY <1>0
<1>3. r \in [1..(2 * L) -> T]
  BY <1>0, <1>1, <1>2
<1>4. r \in Seq(T) /\ Len(r) = 2 * L
  <2> HIDE DEF T
  <2> QED BY <1>0, <1>3, MadeSequence
<1>5. ASSUME NEW k \in 1..L PROVE r[2 * k - 1] = words[k] /\ r[2 * k] = " "
  <2>1. 2 * k - 1 \in 1..(2 * L) /\ (2 * k - 1) % 2 = 1 /\ ((2 * k - 1) + 1) \div 2 = k
    BY <1>0
  <2>2. 2 * k \in 1..(2 * L) /\ (2 * k) % 2 # 1
    BY <1>0
  <2> QED BY <1>1, <2>1, <2>2
<1> QED BY <1>4, <1>5 DEF L, r

\* A sequence of two.
LEMMA Pair ==
    ASSUME NEW X, NEW v \in X, NEW w \in X
    PROVE  <<v, w>> \in Seq(X) /\ Len(<<v, w>>) = 2 /\ <<v, w>>[1] = v /\ <<v, w>>[2] = w
OBVIOUS

\* Only the empty sequence has the length 0.
LEMMA EmptySequence == ASSUME NEW X, NEW s \in Seq(X), Len(s) = 0 PROVE s = <<>>
OBVIOUS

\* Nothing behind a sequence leaves it as it is.
LEMMA NothingBehind == ASSUME NEW X, NEW s \in Seq(X) PROVE s \o <<>> = s
OBVIOUS

\* One more word is put behind the text with its blank.
LEMMA BlanksAppend ==
    ASSUME NEW W, NEW words \in Seq(W), NEW w \in W
    PROVE  Blanks(words \o <<w>>) = Blanks(words) \o <<w, " ">>
<1> DEFINE L == Len(words)
           T == W \cup {" "}
           q == words \o <<w>>
           two == <<w, " ">>
           a == Blanks(q)
           b == Blanks(words)
           c == b \o two
<1>0. L \in Nat
  OBVIOUS
<1>1. q \in Seq(W) /\ Len(q) = L + 1 /\ (\A k \in 1..L : q[k] = words[k]) /\ q[L + 1] = w
  OBVIOUS
<1>2. two \in Seq(T) /\ Len(two) = 2 /\ two[1] = w /\ two[2] = " "
  <2>1. w \in T /\ " " \in T
    OBVIOUS
  <2> HIDE DEF T
  <2> QED BY <2>1, Pair
<1> HIDE DEF q, two
<1>3. /\ a \in Seq(T) /\ Len(a) = 2 * (L + 1)
      /\ \A k \in 1..(L + 1) : a[2 * k - 1] = q[k] /\ a[2 * k] = " "
  BY <1>1, BlanksBehind
<1>4. /\ b \in Seq(T) /\ Len(b) = 2 * L
      /\ \A k \in 1..L : b[2 * k - 1] = words[k] /\ b[2 * k] = " "
  BY BlanksBehind
<1> HIDE DEF a, b, T, L
<1>5. /\ c \in Seq(T) /\ Len(c) = 2 * L + 2
      /\ \A i \in 1..(2 * L) : c[i] = b[i]
      /\ \A i \in (2 * L + 1)..(2 * L + 2) : c[i] = two[i - 2 * L]
  <2>1. /\ c \in Seq(T) /\ Len(c) = Len(b) + Len(two)
        /\ \A i \in 1..Len(b) : c[i] = b[i]
        /\ \A i \in (Len(b) + 1)..Len(c) : c[i] = two[i - Len(b)]
    BY <1>2, <1>4, Joined
  <2> HIDE DEF c
  <2> QED BY <1>2, <1>4, <2>1
<1> HIDE DEF c
<1>6. ASSUME NEW i \in 1..(2 * L + 2) PROVE a[i] = c[i]
  <2>1. \/ \E k \in 1..L : i = 2 * k - 1 /\ i \in 1..(2 * L)
        \/ \E k \in 1..L : i = 2 * k /\ i \in 1..(2 * L)
        \/ i = 2 * (L + 1) - 1
        \/ i = 2 * (L + 1)
    <3>1. i % 2 = 1 => i = 2 * ((i + 1) \div 2) - 1
      BY <1>0
    <3>2. i % 2 # 1 => i = 2 * (i \div 2)
      BY <1>0
    <3>3. i <= 2 * L => (i + 1) \div 2 \in 1..L /\ (i % 2 # 1 => i \div 2 \in 1..L)
      BY <1>0
    <3> QED BY <1>0, <3>1, <3>2, <3>3
  <2>2. CASE \E k \in 1..L : i = 2 * k - 1 /\ i \in 1..(2 * L)
    <3>1. PICK k \in 1..L : i = 2 * k - 1 /\ i \in 1..(2 * L)
      BY <2>2
    <3>2. k \in 1..(L + 1)
      BY <1>0
    <3>3. a[i] = q[k] /\ c[i] = b[i] /\ b[i] = words[k] /\ q[k] = words[k]
      BY <1>1, <1>3, <1>4, <1>5, <3>1, <3>2
    <3> QED BY <3>3
  <2>3. CASE \E k \in 1..L : i = 2 * k /\ i \in 1..(2 * L)
    <3>1. PICK k \in 1..L : i = 2 * k /\ i \in 1..(2 * L)
      BY <2>3
    <3>2. k \in 1..(L + 1)
      BY <1>0
    <3>3. a[i] = " " /\ c[i] = b[i] /\ b[i] = " "
      BY <1>3, <1>4, <1>5, <3>1, <3>2
    <3> QED BY <3>3
  <2>4. CASE i = 2 * (L + 1) - 1
    <3>1. i \in (2 * L + 1)..(2 * L + 2) /\ i - 2 * L = 1 /\ L + 1 \in 1..(L + 1)
      BY <1>0, <2>4
    <3> QED BY <1>1, <1>2, <1>3, <1>5, <2>4, <3>1
  <2>5. CASE i = 2 * (L + 1)
    <3>1. i \in (2 * L + 1)..(2 * L + 2) /\ i - 2 * L = 2 /\ L + 1 \in 1..(L + 1)
      BY <1>0, <2>5
    <3> QED BY <1>2, <1>3, <1>5, <2>5, <3>1
  <2> QED BY <2>1, <2>2, <2>3, <2>4, <2>5
<1>7. Len(a) = 2 * L + 2
  <2>1. Len(a) = 2 * (L + 1)
    BY <1>3
  <2> QED BY <1>0, <2>1
<1>8. a = c
  BY <1>3, <1>5, <1>6, <1>7, SameSequence
<1> QED BY <1>8 DEF a, b, c, q, two

\* A text joined of words, its length and what is where.
LEMMA JoinedText ==
    ASSUME NEW W, NEW d, NEW words \in Seq(W), words # <<>>
    PROVE  /\ join(words, d) \in Seq(W \cup {d})
           /\ Len(words) \in Nat /\ Len(words) >= 1 /\ Len(join(words, d)) = 2 * Len(words) - 1
           /\ \A i \in 1..(2 * Len(words) - 1) :
                 join(words, d)[i] = IF i % 2 = 1 THEN words[(i + 1) \div 2] ELSE d
           /\ \A i \in 1..(2 * Len(words) - 1) : i % 2 = 1 => (i + 1) \div 2 \in 1..Len(words)
<1> DEFINE M == Len(words)
           N == 2 * M - 1
           str == join(words, d)
<1>0. M \in Nat /\ M >= 1 /\ \A i \in 1..M : words[i] \in W
  BY Elements
<1>1. str = [i \in 1..N |-> IF i % 2 = 1 THEN words[(i + 1) \div 2] ELSE d]
  BY DEF join
<1> HIDE DEF M, str
<1>2. \A i \in 1..N : i % 2 = 1 => (i + 1) \div 2 \in 1..M
  BY <1>0
<1>3. str \in [1..N -> W \cup {d}] /\ N \in Nat
  BY <1>0, <1>1, <1>2
<1> HIDE DEF N
<1>4. str \in Seq(W \cup {d}) /\ Len(str) = N
  BY <1>3, MadeSequence
<1> QED BY <1>0, <1>1, <1>2, <1>4 DEF M, N, str

\* Without its last blank the text is joined.
LEMMA BlankTakenOff ==
    ASSUME NEW W, NEW words \in Seq(W)
    PROVE  LET res == Blanks(words)
           IN  (IF res # <<>> /\ Last(res) = " " THEN Front(res) ELSE res) = join(words, " ")
<1> DEFINE L == Len(words)
           T == W \cup {" "}
           res == Blanks(words)
<1>0. L \in Nat
  BY Elements
<1>1. res \in Seq(T) /\ Len(res) = 2 * L
  BY BlanksBehind
<1>2. \A k \in 1..L : res[2 * k - 1] = words[k] /\ res[2 * k] = " "
  BY BlanksBehind
<1>3. CASE words = <<>>
  <2>1. L = 0 /\ join(words, " ") = <<>>
    BY <1>3 DEF join
  <2> HIDE DEF L, T, res
  <2>2. Len(res) = 0
    <3>1. Len(res) = 2 * L /\ L = 0
      BY <1>1, <2>1
    <3> QED BY <3>1
  <2>3. res = <<>>
    BY <1>1, <2>2, EmptySequence
  <2> QED BY <2>1, <2>3 DEF res
<1>4. CASE words # <<>>
  <2> DEFINE t == join(words, " ")
  <2>1. t \in Seq(T) /\ Len(t) = 2 * L - 1 /\ L >= 1
    BY <1>4, JoinedText
  <2>2. /\ \A i \in 1..(2 * L - 1) : t[i] = IF i % 2 = 1 THEN words[(i + 1) \div 2] ELSE " "
        /\ \A i \in 1..(2 * L - 1) : i % 2 = 1 => (i + 1) \div 2 \in 1..L
    BY <1>4, JoinedText
  <2> HIDE DEF L, T, t, res
  <2>3. res # <<>>
    BY <1>0, <1>1, <2>1
  <2>4. Last(res) = " "
    <3>1. Last(res) = res[2 * L] /\ L \in 1..L
      BY <1>0, <1>1, <2>1 DEF Last
    <3> QED BY <1>2, <3>1
  <2>5. /\ Front(res) \in Seq(T) /\ Len(Front(res)) = 2 * L - 1
        /\ \A i \in 1..(2 * L - 1) : Front(res)[i] = res[i]
    <3>1. 2 * L - 1 \in Nat /\ 2 * L - 1 <= Len(res)
      BY <1>0, <1>1, <2>1
    <3>2. Front(res) = SubSeq(res, 1, 2 * L - 1)
      BY <1>1 DEF Front
    <3> QED BY <1>1, <3>1, <3>2
  <2>6. ASSUME NEW i \in 1..(2 * L - 1) PROVE Front(res)[i] = t[i]
    <3>1. CASE i % 2 = 1
      <4> DEFINE k == (i + 1) \div 2
      <4>1. k \in 1..L /\ 2 * k - 1 = i
        BY <1>0, <3>1
      <4>2. t[i] = words[k]
        BY <2>2, <3>1
      <4> HIDE DEF k
      <4> QED BY <1>2, <2>5, <4>1, <4>2
    <3>2. CASE i % 2 # 1
      <4> DEFINE k == i \div 2
      <4>1. k \in 1..L /\ 2 * k = i
        BY <1>0, <3>2
      <4>2. t[i] = " "
        BY <2>2, <3>2
      <4> HIDE DEF k
      <4> QED BY <1>2, <2>5, <4>1, <4>2
    <3> QED BY <3>1, <3>2
  <2>7. Front(res) = t
    BY <2>1, <2>5, <2>6, SameSequence
  <2> QED BY <2>3, <2>4, <2>7 DEF res, t
<1> QED BY <1>3, <1>4

\* What is checked is a list of the words, nothing if no box is checked, and the string
\* is joined of it.
LEMMA Checklist ==
    ASSUME NEW W, NEW opts \in Seq(W), NEW state
    PROVE  LET v == from_checklist_vector(opts, state)
           IN  /\ v \in Seq(W) /\ (state = {} => v = <<>>)
               /\ from_checklist_string(opts, state) = join(v, " ")
<1> DEFINE N == Len(opts)
           A == Seq(W)
           none == <<>>
           pick(n) == IF n \in state THEN <<opts[n]>> ELSE none
           pick2(n) == IF n \in state THEN <<opts[n], " ">> ELSE none
           PassV(f) == [n \in 0..N |-> IF n = 0 THEN none ELSE f[n - 1] \o pick(n)]
           PassS(f) == [n \in 0..N |-> IF n = 0 THEN none ELSE f[n - 1] \o pick2(n)]
           v == CHOOSE f : f = PassV(f)
           s == CHOOSE f : f = PassS(f)
<1>0. N \in Nat /\ \A n \in 1..N : opts[n] \in W
  BY Elements
<1>1. from_checklist_vector(opts, state) = v[N]
  BY DEF from_checklist_vector
<1>2. from_checklist_string(opts, state) =
        IF s[N] # <<>> /\ Last(s[N]) = " " THEN Front(s[N]) ELSE s[N]
  BY DEF from_checklist_string
<1>3. \A n \in 1..N : pick(n) \in A
  BY <1>0
<1>4. none \in A
  OBVIOUS
<1>5. ASSUME NEW q \in A, NEW n \in 1..N
      PROVE  q \o pick(n) \in A /\ Blanks(q \o pick(n)) = Blanks(q) \o pick2(n)
  <2>1. CASE n \in state
    <3>1. opts[n] \in W /\ q \in Seq(W)
      BY <1>0
    <3>2. <<opts[n]>> \in Seq(W)
      BY <3>1
    <3>3. q \o <<opts[n]>> \in Seq(W)
      BY <3>1, <3>2, Joined
    <3>4. Blanks(q \o <<opts[n]>>) = Blanks(q) \o <<opts[n], " ">>
      BY <3>1, BlanksAppend
    <3> QED BY <2>1, <3>3, <3>4
  <2>2. CASE n \notin state
    <3>1. Blanks(q) \in Seq(W \cup {" "})
      BY BlanksBehind
    <3>2. q \o <<>> = q /\ Blanks(q) \o <<>> = Blanks(q)
      BY <3>1, NothingBehind
    <3> QED BY <2>2, <3>2
  <2> QED BY <2>1, <2>2
<1>6. Blanks(none) = none
  <2>1. none \in Seq(W) /\ Len(none) = 0
    OBVIOUS
  <2>2. Blanks(none) \in Seq(W \cup {" "}) /\ Len(Blanks(none)) = 2 * Len(none)
    BY <2>1, BlanksBehind
  <2> HIDE DEF none
  <2>3. Len(Blanks(none)) = 0
    <3>1. Len(Blanks(none)) = 2 * Len(none) /\ Len(none) = 0
      BY <2>1, <2>2
    <3> QED BY <3>1
  <2>4. Blanks(none) = <<>>
    BY <2>2, <2>3, EmptySequence
  <2> QED BY <2>4 DEF none
<1> HIDE DEF none, N, A, pick, pick2
<1>7. v = PassV(v)
  <2> DEFINE step == [n \in 1..N |-> [acc \in A |-> acc \o pick(n)]]
  <2>1. step \in [1..N -> [A -> A]]
    BY <1>5
  <2>2. PICK g \in [0..N -> A] : g[0] = none /\ \A i \in 1..N : g[i] = step[i][g[i - 1]]
    <3>1. Passes(step, N, A)
      BY <2>1 DEF Passes
    <3> HIDE DEF step
    <3>2. PICK g : Folds(g, none, step, N, A)
      BY <1>0, <1>4, <3>1, Folding
    <3> QED BY <3>2 DEF Folds
  <2>3. \A i \in 1..N : g[i] = g[i - 1] \o pick(i)
    <3> SUFFICES ASSUME NEW i \in 1..N PROVE g[i] = g[i - 1] \o pick(i)
      OBVIOUS
    <3>1. g[i - 1] \in A
      BY <1>0, <2>2
    <3> QED BY <2>2, <3>1
  <2> HIDE DEF step
  <2>4. \A i \in 0..N : i = 0 \/ (i \in 1..N /\ i # 0)
    BY <1>0
  <2>5. g = PassV(g)
    BY <2>2, <2>3, <2>4
  <2>6. \E f : f = PassV(f)
    BY <2>5
  <2> HIDE DEF PassV
  <2> QED BY <2>6
<1> HIDE DEF v
<1>8. v[0] = none /\ \A n \in 1..N : v[n] = v[n - 1] \o pick(n)
  <2>1. 0 \in 0..N /\ \A n \in 1..N : n \in 0..N /\ n # 0
    BY <1>0
  <2> QED BY <1>7, <2>1
<1> HIDE DEF PassV
<1> DEFINE V == {n \in 0..N : v[n] \in A /\ (state = {} => v[n] = none)}
<1>9. \A n \in 0..N : n \in V
  <2>1. 0 \in V
    BY <1>0, <1>4, <1>8
  <2>2. ASSUME NEW n \in 0..(N - 1), n \in V PROVE n + 1 \in V
    <3>1. n + 1 \in 1..N /\ n + 1 \in 0..N /\ (n + 1) - 1 = n
      BY <1>0
    <3>2. v[n + 1] = v[n] \o pick(n + 1) /\ v[n] \in A
      BY <1>8, <2>2, <3>1
    <3>3. v[n + 1] \in A
      BY <1>5, <3>1, <3>2
    <3>4. state = {} => v[n + 1] = none
      <4> SUFFICES ASSUME state = {} PROVE v[n + 1] = none
        OBVIOUS
      <4>1. v[n] = none /\ pick(n + 1) = none
        BY <2>2 DEF pick
      <4>2. <<>> \o <<>> = <<>>
        OBVIOUS
      <4> QED BY <3>2, <4>1, <4>2 DEF none
    <3> QED BY <3>1, <3>3, <3>4
  <2> HIDE DEF V
  <2> QED BY <1>0, <2>1, <2>2, Induction
<1>10. \A n \in 0..N : v[n] \in A /\ (state = {} => v[n] = none)
  BY <1>9
<1> HIDE DEF V
<1>11. s = PassS(s)
  <2> DEFINE g == [n \in 0..N |-> Blanks(v[n])]
  <2>1. \A n \in 0..N : n = 0 \/ (n \in 1..N /\ n - 1 \in 0..N /\ n # 0)
    BY <1>0
  <2>2. ASSUME NEW n \in 1..N PROVE Blanks(v[n]) = Blanks(v[n - 1]) \o pick2(n)
    <3>1. v[n] = v[n - 1] \o pick(n) /\ v[n - 1] \in A
      BY <1>8, <1>10, <2>1
    <3> QED BY <1>5, <3>1
  <2>3. \A n \in 1..N : g[n - 1] = Blanks(v[n - 1])
    BY <2>1
  <2>4. \A n \in 0..N : Blanks(v[n]) = IF n = 0 THEN none ELSE g[n - 1] \o pick2(n)
    <3> HIDE DEF g
    <3> QED BY <1>6, <1>8, <2>1, <2>2, <2>3
  <2>5. g = PassS(g)
    BY <2>4
  <2>6. \E f : f = PassS(f)
    BY <2>5
  <2> HIDE DEF PassS
  <2> QED BY <2>6
<1> HIDE DEF s
<1>12. s[0] = none /\ \A n \in 1..N : s[n] = s[n - 1] \o pick2(n)
  <2>1. 0 \in 0..N /\ \A n \in 1..N : n \in 0..N /\ n # 0
    BY <1>0
  <2> QED BY <1>11, <2>1
<1> HIDE DEF PassS
<1> DEFINE U == {n \in 0..N : s[n] = Blanks(v[n])}
<1>13. \A n \in 0..N : n \in U
  <2>1. 0 \in U
    BY <1>0, <1>6, <1>8, <1>12
  <2>2. ASSUME NEW n \in 0..(N - 1), n \in U PROVE n + 1 \in U
    <3>1. n + 1 \in 1..N /\ n + 1 \in 0..N /\ (n + 1) - 1 = n
      BY <1>0
    <3>2. v[n + 1] = v[n] \o pick(n + 1)
      BY <1>8, <3>1
    <3>3. s[n + 1] = s[n] \o pick2(n + 1)
      BY <1>12, <3>1
    <3>4. v[n] \in A /\ s[n] = Blanks(v[n])
      BY <1>10, <2>2
    <3> QED BY <1>5, <3>1, <3>2, <3>3, <3>4
  <2> HIDE DEF U
  <2> QED BY <1>0, <2>1, <2>2, Induction
<1>14. N \in 0..N
  BY <1>0
<1>15. s[N] = Blanks(v[N]) /\ v[N] \in A /\ (state = {} => v[N] = none)
  BY <1>10, <1>13, <1>14
<1> HIDE DEF U
<1>16. from_checklist_string(opts, state) = join(v[N], " ")
  <2>1. v[N] \in Seq(W)
    BY <1>15 DEF A
  <2> QED BY <1>2, <1>15, <2>1, BlankTakenOff
<1> QED BY <1>1, <1>15, <1>16 DEF A, none

\* What cleanup_mount_opts does, for any two delimiters.
Replaced(str, from, to) ==
    LET commas == [i \in DOMAIN str |-> IF str[i] = from THEN to ELSE str[i]]
    IN  IF commas # <<>> /\ Last(commas) = to THEN Front(commas) ELSE commas

\* With the blanks replaced the text is joined by commas.
LEMMA ReplacedDelimiters ==
    ASSUME NEW W, NEW from, NEW to, from \notin W, to \notin W, NEW words \in Seq(W)
    PROVE  Replaced(join(words, from), from, to) = join(words, to)
<1> DEFINE L == Len(words)
           a == join(words, from)
           b == join(words, to)
           c == [i \in DOMAIN a |-> IF a[i] = from THEN to ELSE a[i]]
<1>1. CASE words = <<>>
  <2>1. a = <<>> /\ b = <<>>
    BY <1>1 DEF join
  <2> DEFINE none == <<>>
             p == [i \in DOMAIN none |-> IF none[i] = from THEN to ELSE none[i]]
  <2>2. p = none
    <3>1. DOMAIN none = 1..0
      OBVIOUS
    <3> HIDE DEF none
    <3>2. p \in [1..0 -> {}]
      BY <3>1
    <3> HIDE DEF p
    <3>3. p \in Seq({}) /\ Len(p) = 0
      <4>1. 0 \in Nat
        OBVIOUS
      <4> QED BY <3>2, <4>1, MadeSequence
    <3>4. p = <<>>
      BY <3>3, EmptySequence
    <3> QED BY <3>4 DEF none
  <2>3. Replaced(none, from, to) = IF p # <<>> /\ Last(p) = to THEN Front(p) ELSE p
    BY DEF Replaced
  <2> HIDE DEF a, b, p
  <2>4. Replaced(none, from, to) = none
    BY <2>2, <2>3
  <2> QED BY <2>1, <2>4 DEF a, b
<1>2. CASE words # <<>>
  <2>1. L \in Nat /\ L >= 1 /\ a \in Seq(W \cup {from}) /\ Len(a) = 2 * L - 1
    BY <1>2, JoinedText
  <2>2. /\ \A i \in 1..(2 * L - 1) : a[i] = IF i % 2 = 1 THEN words[(i + 1) \div 2] ELSE from
        /\ \A i \in 1..(2 * L - 1) : i % 2 = 1 => (i + 1) \div 2 \in 1..L
    BY <1>2, JoinedText
  <2>9. b \in Seq(W \cup {to}) /\ Len(b) = 2 * L - 1
    BY <1>2, JoinedText
  <2>10. \A i \in 1..(2 * L - 1) : b[i] = IF i % 2 = 1 THEN words[(i + 1) \div 2] ELSE to
    BY <1>2, JoinedText
  <2>3. \A k \in 1..L : words[k] \in W
    BY Elements
  <2> HIDE DEF L, a, b
  <2> DEFINE N == 2 * L - 1
  <2>4. DOMAIN a = 1..N /\ N \in Nat /\ \A i \in 1..N : b[i] \in W \cup {to}
    <3>1. DOMAIN a = 1..Len(a) /\ Len(a) = N
      BY <2>1
    <3>2. Len(b) = N /\ \A i \in 1..Len(b) : b[i] \in W \cup {to}
      BY <2>9
    <3>3. N \in Nat
      BY <2>1
    <3> QED BY <3>1, <3>2, <3>3
  <2>5. ASSUME NEW i \in 1..(2 * L - 1) PROVE c[i] = b[i]
    <3>1. c[i] = IF a[i] = from THEN to ELSE a[i]
      BY <2>4
    <3> HIDE DEF c
    <3>2. CASE i % 2 = 1
      <4>1. a[i] = words[(i + 1) \div 2] /\ b[i] = a[i] /\ a[i] \in W
        BY <2>2, <2>10, <2>3, <3>2
      <4> QED BY <3>1, <4>1
    <3>3. CASE i % 2 # 1
      <4>1. a[i] = from /\ b[i] = to
        BY <2>2, <2>10, <3>3
      <4> QED BY <3>1, <4>1
    <3> QED BY <3>2, <3>3
  <2>6. c = b
    <3>1. DOMAIN c = 1..N /\ c = [i \in 1..N |-> c[i]]
      BY <2>4
    <3>2. Len(b) = N /\ \A i \in 1..N : c[i] = b[i]
      BY <2>9, <2>5
    <3> HIDE DEF c, N
    <3>3. c \in [1..N -> W \cup {to}]
      BY <2>4, <3>1, <3>2
    <3>4. c \in Seq(W \cup {to}) /\ Len(c) = N
      BY <2>4, <3>3, MadeSequence
    <3> QED BY <2>9, <3>2, <3>4, SameSequence
  <2>7. b # <<>> /\ Last(b) # to
    <3>1. 2 * L - 1 \in 1..(2 * L - 1) /\ (2 * L - 1) % 2 = 1 /\ ((2 * L - 1) + 1) \div 2 = L /\ L \in 1..L
      BY <2>1
    <3>2. b[2 * L - 1] = words[L]
      BY <2>10, <3>1
    <3>3. words[L] \in W
      BY <2>3, <3>1
    <3>4. Len(b) # 0 /\ Last(b) = b[2 * L - 1]
      BY <2>9, <3>1 DEF Last
    <3>5. b # <<>>
      BY <3>4
    <3> QED BY <3>2, <3>3, <3>4, <3>5
  <2>8. Replaced(a, from, to) = IF c # <<>> /\ Last(c) = to THEN Front(c) ELSE c
    BY DEF Replaced
  <2> HIDE DEF c, N
  <2> QED BY <2>6, <2>7, <2>8 DEF a, b
<1> QED BY <1>1, <1>2

\* A set of words, of which none is a blank or a comma.
Labels == STRING \ {" ", ","}

\* Neither of the two delimiters is among the words.
LEMMA NoDelimiters ==
    ASSUME NEW d, d = " " \/ d = ","
    PROVE  d \notin Labels
BY Zenon DEF Labels

\* cleanup_mount_opts of the words with blanks gives them with commas.
LEMMA Commas ==
    ASSUME NEW words \in Seq(Labels)
    PROVE  cleanup_mount_opts(join(words, " ")) = join(words, ",")
<1> DEFINE blank == " "
           comma == ","
<1>1. blank \notin Labels
  BY Zenon, NoDelimiters
<1>2. comma \notin Labels
  BY Zenon, NoDelimiters
<1>3. cleanup_mount_opts(join(words, " ")) = Replaced(join(words, blank), blank, comma)
  BY Zenon DEF cleanup_mount_opts, Replaced
<1>4. join(words, ",") = join(words, comma)
  BY Zenon
<1> HIDE DEF blank, comma
<1>5. Replaced(join(words, blank), blank, comma) = join(words, comma)
  BY <1>1, <1>2, ReplacedDelimiters
<1> QED BY <1>3, <1>4, <1>5, Zenon

\* The two texts that the dialogues make of the boxes, and what is read from them.
LEMMA Texts ==
    ASSUME NEW opts \in Seq(Labels), NEW state
    PROVE  LET v == from_checklist_vector(opts, state)
               str == from_checklist_string(opts, state)
           IN  /\ state = {} => str = <<>>
               /\ make_multiline(str, FALSE, " ") = v
               /\ make_multiline(cleanup_mount_opts(str), FALSE, ",") = v
<1> DEFINE v == from_checklist_vector(opts, state)
           str == from_checklist_string(opts, state)
           blank == " "
           comma == ","
<1>1. v \in Seq(Labels) /\ (state = {} => v = <<>>) /\ str = join(v, blank)
  BY Checklist
<1>2. cleanup_mount_opts(str) = join(v, comma)
  <2>1. cleanup_mount_opts(join(v, blank)) = join(v, comma)
    <3>1. v \in Seq(Labels)
      BY <1>1
    <3> HIDE DEF v
    <3> QED BY <3>1, Commas, Zenon
  <2>2. str = join(v, blank)
    BY <1>1
  <2> HIDE DEF str, v
  <2> QED BY <2>1, <2>2, Zenon
<1>3. blank \notin Labels
  BY Zenon, NoDelimiters
<1>4. comma \notin Labels
  BY Zenon, NoDelimiters
<1>5. state = {} => str = <<>>
  <2>1. join(<<>>, blank) = <<>>
    BY DEF join
  <2> HIDE DEF str, v, blank
  <2> QED BY <1>1, <2>1
<1> HIDE DEF str, v, blank, comma
<1>6. make_multiline(str, FALSE, blank) = v
  BY <1>1, <1>3, MultilineJoined
<1>7. make_multiline(cleanup_mount_opts(str), FALSE, comma) = v
  BY <1>1, <1>2, <1>4, MultilineJoined
<1> USE DEF blank, comma
<1> QED BY <1>5, <1>6, <1>7, Zenon DEF str, v

------------------------------------------------------------------------------
(* Dialogues.                                                               *)

\* The screens that a function shows, by their kinds; a message is in front of another one.
KindsOf(function) ==
    IF function = "install_base" THEN {"checklist"}
    ELSE IF function = "select_mount_opts" THEN {"checklist", "yesno_container"}
    ELSE IF function = "select_filesystem" THEN {"menu", "yesno"}
    ELSE {"menu", "radiolist", "inputbox"}
Functions == Simple \cup {"select_filesystem", "install_base", "select_mount_opts"}

IsScreen(s) ==
    /\ s = [kind |-> s.kind, content |-> s.content, success |-> s.success, quit |-> s.quit,
            then |-> s.then]
    /\ s.success \in BOOLEAN /\ s.quit \in BOOLEAN

\* One of the screens that the function may show, the menu of file systems on one of them.
ShownBy(function, s) ==
    /\ IsScreen(s) /\ s.kind \in KindsOf(function)
    /\ function = "select_filesystem" /\ s.kind = "menu" => s.content \in DOMAIN FsMenu

ScreensInv ==
    \/ caller = "none" /\ screens = <<>>
    \/ /\ caller \in Functions
       /\ \E s : ShownBy(caller, s) /\
             \/ screens = <<s>>
             \/ /\ caller = "install_base"
                /\ \E m : IsScreen(m) /\ m.kind = "msgbox" /\ screens = <<s, m>>

\* The text is what was checked at the last "OK", with commas once the list is gone, or
\* still empty; on the menu of file systems it is one of them.
TextInv ==
    /\ caller = "install_base" =>
          text = <<>> \/ text = from_checklist_string(Kernels, checked)
    /\ caller = "select_mount_opts" =>
          \/ screens[1].kind = "checklist" /\ text \in {<<>>, from_checklist_string(fs_opts, checked)}
          \/ /\ screens[1].kind = "yesno_container"
             /\ text = cleanup_mount_opts(from_checklist_string(fs_opts, checked))
    /\ caller = "select_filesystem" => text = <<>> \/ \E fs \in DOMAIN FsMenu : text = <<fs>>

MenuInv == \E fs \in DOMAIN FsMenu : FsMenu[fs] = fs_opts

\* Every formatting was asked for by a dialogue of its own.
CountInv ==
    /\ events \in 0..MaxEvents /\ formatted \in Nat
    /\ formatted <= events /\ (caller = "select_filesystem" => formatted < events)

DialoguesInv == ScreensInv /\ TextInv /\ MenuInv /\ CountInv /\ initramfs \in BOOLEAN

\* The one screen that is open.
LEMMA OneScreen ==
    ASSUME NEW s
    PROVE  /\ <<s>> # <<>> /\ Len(<<s>>) = 1 /\ <<s>>[1] = s /\ DOMAIN <<s>> = {1}
           /\ Last(<<s>>) = s /\ Front(<<s>>) = <<>>
           /\ \A t : [<<s>> EXCEPT ![1] = t] = <<t>>
<1>1. <<s>> # <<>> /\ Len(<<s>>) = 1 /\ <<s>>[1] = s /\ DOMAIN <<s>> = {1}
  OBVIOUS
<1>2. Last(<<s>>) = s
  BY <1>1 DEF Last
<1>3. Front(<<s>>) = <<>>
  BY <1>1 DEF Front
<1>4. \A t : [<<s>> EXCEPT ![1] = t] = <<t>>
  OBVIOUS
<1> QED BY <1>1, <1>2, <1>3, <1>4

\* A message in front of a screen.
LEMMA TwoScreens ==
    ASSUME NEW s, NEW m
    PROVE  /\ <<s, m>> # <<>> /\ Len(<<s, m>>) = 2 /\ <<s, m>>[1] = s /\ DOMAIN <<s, m>> = {1, 2}
           /\ Last(<<s, m>>) = m /\ Front(<<s, m>>) = <<s>>
           /\ Append(<<>>, s) = <<s>> /\ <<s>> \o <<m>> = <<s, m>>
           /\ \A t : [<<s, m>> EXCEPT ![2] = t] = <<s, t>>
<1>0. \A X : s \in X /\ m \in X => <<s>> \in Seq(X) /\ <<m>> \in Seq(X) /\ <<s, m>> \in Seq(X)
  OBVIOUS
<1>1. <<s, m>> # <<>> /\ Len(<<s, m>>) = 2 /\ <<s, m>>[1] = s /\ <<s, m>>[2] = m /\ DOMAIN <<s, m>> = {1, 2}
  OBVIOUS
<1>2. Last(<<s, m>>) = m
  BY <1>1 DEF Last
<1>3. Front(<<s, m>>) = <<s>>
  <2> DEFINE X == {s, m}
             a == SubSeq(<<s, m>>, 1, 1)
             b == <<s>>
  <2>1. a \in Seq(X) /\ Len(a) = 1 /\ a[1] = s
    BY <1>0, <1>1
  <2>2. b \in Seq(X) /\ Len(b) = 1 /\ b[1] = s
    BY <1>0
  <2>3. Front(<<s, m>>) = a
    BY <1>1 DEF Front
  <2> HIDE DEF a, b, X
  <2>4. \A i \in 1..1 : i = 1
    OBVIOUS
  <2>5. a = b
    BY <2>1, <2>2, <2>4, SameSequence
  <2> QED BY <2>3, <2>5 DEF b
<1>4. \A t : [<<s, m>> EXCEPT ![2] = t] = <<s, t>>
  OBVIOUS
<1>5. Append(<<>>, s) = <<s>>
  OBVIOUS
<1>6. <<s>> \o <<m>> = <<s, m>>
  <2> DEFINE X == {s, m}
             p == <<s>>
             q == <<m>>
             a == p \o q
             b == <<s, m>>
  <2>1. p \in Seq(X) /\ q \in Seq(X) /\ Len(p) = 1 /\ Len(q) = 1 /\ p[1] = s /\ q[1] = m
    BY <1>0
  <2>2. b \in Seq(X) /\ Len(b) = 2 /\ b[1] = s /\ b[2] = m
    BY <1>0, <1>1
  <2> HIDE DEF X, p, q, b
  <2>3. a \in Seq(X) /\ Len(a) = 2 /\ a[1] = s /\ a[2] = m
    <3>1. /\ a \in Seq(X) /\ Len(a) = Len(p) + Len(q)
          /\ \A i \in 1..Len(p) : a[i] = p[i]
          /\ \A i \in (Len(p) + 1)..Len(a) : a[i] = q[i - Len(p)]
      BY <2>1, Joined
    <3>2. 1 + 1 = 2 /\ 1 \in 1..1 /\ 2 \in 2..2 /\ 2 - 1 = 1
      OBVIOUS
    <3> HIDE DEF a
    <3> QED BY <2>1, <3>1, <3>2
  <2> HIDE DEF a
  <2>4. \A i \in 1..2 : i = 1 \/ i = 2
    OBVIOUS
  <2>5. a = b
    BY <2>2, <2>3, <2>4, SameSequence
  <2> QED BY <2>5 DEF a, b, p, q
<1> QED BY <1>1, <1>2, <1>3, <1>4, <1>5, <1>6

\* What is changed of a screen leaves its kind.
LEMMA ScreenChanged ==
    ASSUME NEW s, IsScreen(s), NEW v, NEW b \in BOOLEAN
    PROVE  /\ LET r == [s EXCEPT !.content = v] IN IsScreen(r) /\ r.kind = s.kind /\ r.content = v
           /\ LET r == [s EXCEPT !.success = b] IN IsScreen(r) /\ r.kind = s.kind /\ r.content = s.content
           /\ LET r == [s EXCEPT !.quit = b] IN IsScreen(r) /\ r.kind = s.kind /\ r.content = s.content
           /\ LET r == [s EXCEPT !.then = v] IN IsScreen(r) /\ r.kind = s.kind /\ r.content = s.content
<1>1. LET r == [s EXCEPT !.content = v] IN IsScreen(r) /\ r.kind = s.kind /\ r.content = v
  BY DEF IsScreen
<1>2. LET r == [s EXCEPT !.success = b] IN IsScreen(r) /\ r.kind = s.kind /\ r.content = s.content
  BY DEF IsScreen
<1>3. LET r == [s EXCEPT !.quit = b] IN IsScreen(r) /\ r.kind = s.kind /\ r.content = s.content
  BY DEF IsScreen
<1>4. LET r == [s EXCEPT !.then = v] IN IsScreen(r) /\ r.kind = s.kind /\ r.content = s.content
  BY DEF IsScreen
<1> QED BY <1>1, <1>2, <1>3, <1>4

\* A loop that is asked to end keeps its kind and content.
LEMMA LoopExits ==
    ASSUME NEW s, IsScreen(s)
    PROVE  IsScreen(ExitLoop(s)) /\ ExitLoop(s).kind = s.kind /\ ExitLoop(s).content = s.content
<1>1. TRUE \in BOOLEAN
  OBVIOUS
<1>2. LET r == [s EXCEPT !.quit = TRUE] IN IsScreen(r) /\ r.kind = s.kind /\ r.content = s.content
  BY <1>1, ScreenChanged, Zenon
<1> QED BY <1>2, Zenon DEF ExitLoop

\* A new screen.
LEMMA NewScreen ==
    ASSUME NEW kind, NEW content
    PROVE  IsScreen(Screen(kind, content)) /\ Screen(kind, content).kind = kind
           /\ Screen(kind, content).content = content
BY DEF IsScreen, Screen

\* What is assumed of the constants.
LEMMA Given ==
    /\ Kernels \in Seq(Labels) /\ FsMenu \in Seq(Seq(Labels))
    /\ 1 \in DOMAIN FsMenu /\ FsMenu[1] = <<>> /\ MaxEvents \in Nat /\ Entries \in Nat /\ Entries > 1
<1>1. /\ Kernels \in Seq(Labels) /\ FsMenu \in Seq(Seq(Labels)) /\ Len(FsMenu) > 1
      /\ FsMenu[1] = <<>> /\ MaxEvents \in Nat /\ Entries \in Nat /\ Entries > 1
  BY DialoguesAssumption, Zenon DEF Labels
<1>2. 1 \in DOMAIN FsMenu
  BY <1>1
<1> QED BY <1>1, <1>2

\* What is in front: the screen of the function, or a message in front of the kernels.
LEMMA FrontScreen ==
    ASSUME ScreensInv, screens # <<>>
    PROVE  /\ caller \in Functions /\ IsScreen(front)
           /\ \E s : /\ ShownBy(caller, s) /\ screens[1] = s
                     /\ \/ screens = <<s>> /\ front = s
                        \/ /\ caller = "install_base" /\ front.kind = "msgbox"
                           /\ screens = <<s, front>>
<1>1. caller \in Functions
  BY DEF ScreensInv
<1>2. PICK s : /\ ShownBy(caller, s)
               /\ \/ screens = <<s>>
                  \/ /\ caller = "install_base"
                     /\ \E m : IsScreen(m) /\ m.kind = "msgbox" /\ screens = <<s, m>>
  BY DEF ScreensInv
<1>3. CASE screens = <<s>>
  BY <1>1, <1>2, <1>3, OneScreen DEF front, ShownBy
<1>4. CASE /\ caller = "install_base"
           /\ \E m : IsScreen(m) /\ m.kind = "msgbox" /\ screens = <<s, m>>
  <2>1. PICK m : IsScreen(m) /\ m.kind = "msgbox" /\ screens = <<s, m>>
    BY <1>4
  <2>2. front = m /\ screens[1] = s
    BY <2>1, TwoScreens DEF front
  <2> QED BY <1>1, <1>2, <1>4, <2>1, <2>2
<1> QED BY <1>2, <1>3, <1>4

\* The function in front of which no message is shows its own screen.
LEMMA OwnScreen ==
    ASSUME ScreensInv, screens # <<>>, front.kind # "msgbox"
    PROVE  caller \in Functions /\ ShownBy(caller, front) /\ screens = <<front>> /\ screens[1] = front
BY FrontScreen

\* A change of the screen in front that leaves its kind.
LEMMA FrontChanged ==
    ASSUME ScreensInv, screens # <<>>, caller' = caller, NEW r, IsScreen(r), InFront(r),
           r.kind = front.kind,
           caller = "select_filesystem" /\ front.kind = "menu" => r.content \in DOMAIN FsMenu
    PROVE  ScreensInv' /\ screens'[1].kind = screens[1].kind
<1>1. PICK s : /\ ShownBy(caller, s) /\ screens[1] = s
               /\ \/ screens = <<s>> /\ front = s
                  \/ /\ caller = "install_base" /\ front.kind = "msgbox"
                     /\ screens = <<s, front>>
  BY FrontScreen
<1>2. caller \in Functions
  BY FrontScreen
<1>3. CASE screens = <<s>> /\ front = s
  <2>1. screens' = <<r>> /\ screens'[1] = r
    BY <1>3, OneScreen DEF InFront
  <2>2. ShownBy(caller, r)
    BY <1>1, <1>3 DEF ShownBy
  <2> QED BY <1>1, <1>2, <1>3, <2>1, <2>2 DEF ScreensInv
<1>4. CASE caller = "install_base" /\ front.kind = "msgbox" /\ screens = <<s, front>>
  <2>1. screens' = <<s, r>> /\ screens'[1] = s
    BY <1>4, TwoScreens DEF InFront
  <2> QED BY <1>1, <1>2, <1>4, <2>1 DEF ScreensInv
<1> QED BY <1>1, <1>3, <1>4

\* What changes no text and no screen of the mount options keeps what the text is.
LEMMA TextKept ==
    ASSUME TextInv, UNCHANGED <<text, checked, caller, fs_opts>>,
           caller = "select_mount_opts" => screens'[1].kind = screens[1].kind
    PROVE  TextInv'
BY DEF TextInv

\* What the keys that fill no text keep.
LEMMA KeyKeeps ==
    ASSUME DialoguesInv, Event, screens # <<>>, UNCHANGED <<caller, text, config, checked>>,
           NEW r, IsScreen(r), InFront(r), r.kind = front.kind,
           caller = "select_filesystem" /\ front.kind = "menu" => r.content \in DOMAIN FsMenu
    PROVE  DialoguesInv'
<1>1. ScreensInv' /\ screens'[1].kind = screens[1].kind
  BY FrontChanged DEF DialoguesInv
<1>2. TextInv'
  BY <1>1, TextKept DEF DialoguesInv, config
<1>3. MenuInv' /\ initramfs' \in BOOLEAN
  BY DEF DialoguesInv, MenuInv, config
<1>4. CountInv'
  BY Given DEF DialoguesInv, CountInv, Event, config
<1> QED BY <1>1, <1>2, <1>3, <1>4 DEF DialoguesInv

\* The content of the menu of file systems in front is one of them.
LEMMA MenuContent ==
    ASSUME DialoguesInv, screens # <<>>, caller = "select_filesystem", front.kind = "menu"
    PROVE  front.content \in DOMAIN FsMenu
BY FrontScreen DEF DialoguesInv, ShownBy

\* A key that edits the content.
LEMMA EditKeeps == ASSUME DialoguesInv, edit PROVE DialoguesInv'
<1>1. PICK content \in Contents(front.kind) : InFront([front EXCEPT !.content = content])
  BY DEF edit
<1>2. Event /\ screens # <<>> /\ UNCHANGED <<caller, text, config, checked>>
  BY DEF edit
<1> DEFINE r == [front EXCEPT !.content = content]
<1>3. IsScreen(r) /\ r.kind = front.kind /\ r.content = content
  <2>1. IsScreen(front)
    BY <1>2, FrontScreen DEF DialoguesInv
  <2> QED BY <2>1, ScreenChanged
<1>4. caller = "select_filesystem" /\ front.kind = "menu" => content \in DOMAIN FsMenu
  BY <1>1 DEF Contents
<1> HIDE DEF r
<1>5. InFront(r)
  BY <1>1 DEF r
<1> QED BY <1>2, <1>3, <1>4, <1>5, KeyKeeps

\* "OK" of a message or of a question.
LEMMA OkKeeps == ASSUME DialoguesInv, press_ok PROVE DialoguesInv'
<1> DEFINE b == front.kind # "msgbox"
           q == [front EXCEPT !.success = b]
           r == ExitLoop(q)
<1>1. /\ Event /\ screens # <<>> /\ UNCHANGED <<caller, text, config, checked>>
      /\ front.kind \in {"msgbox", "inputbox", "yesno", "yesno_container"}
      /\ InFront(r)
  BY Zenon DEF press_ok
<1>2. IsScreen(r) /\ r.kind = front.kind /\ r.content = front.content
  <2>1. IsScreen(front)
    BY <1>1, FrontScreen DEF DialoguesInv
  <2>2. b \in BOOLEAN
    OBVIOUS
  <2> HIDE DEF b
  <2>3. IsScreen(q) /\ q.kind = front.kind /\ q.content = front.content
    BY <2>1, <2>2, ScreenChanged
  <2> HIDE DEF q
  <2> QED BY <2>3, LoopExits
<1> HIDE DEF r
<1>3. front.kind # "menu"
  BY <1>1
<1> QED BY <1>1, <1>2, <1>3, KeyKeeps

\* "Cancel".
LEMMA CancelKeeps == ASSUME DialoguesInv, press_cancel PROVE DialoguesInv'
<1> DEFINE r == ExitLoop(front)
<1>1. Event /\ screens # <<>> /\ UNCHANGED <<caller, text, config, checked>> /\ InFront(r)
  BY DEF press_cancel
<1>2. IsScreen(r) /\ r.kind = front.kind /\ r.content = front.content
  BY <1>1, FrontScreen, LoopExits DEF DialoguesInv
<1> HIDE DEF r
<1> QED BY <1>1, <1>2, MenuContent, KeyKeeps

\* "OK" of a list makes the text the number of a choice.
LEMMA OkListKeeps == ASSUME DialoguesInv, press_ok_list PROVE DialoguesInv'
<1> DEFINE r == ExitLoop(front)
<1>1. /\ Event /\ screens # <<>> /\ front.kind \in {"menu", "radiolist"}
      /\ text' = <<front.content>> /\ InFront(r) /\ UNCHANGED <<caller, config, checked>>
  BY DEF press_ok_list
<1>2. IsScreen(r) /\ r.kind = front.kind /\ r.content = front.content
  BY <1>1, FrontScreen, LoopExits DEF DialoguesInv
<1> HIDE DEF r
<1>3. caller = "select_filesystem" => front.kind = "menu" /\ front.content \in DOMAIN FsMenu
  BY <1>1, OwnScreen DEF DialoguesInv, ShownBy, KindsOf
<1>4. caller # "install_base" /\ caller # "select_mount_opts"
  BY <1>1, OwnScreen DEF DialoguesInv, ShownBy, KindsOf
<1>5. ScreensInv'
  BY <1>1, <1>2, <1>3, FrontChanged DEF DialoguesInv
<1>6. TextInv'
  BY <1>1, <1>3, <1>4 DEF TextInv
<1>7. MenuInv' /\ initramfs' \in BOOLEAN
  BY <1>1 DEF DialoguesInv, MenuInv, config
<1>8. CountInv'
  BY <1>1, Given DEF DialoguesInv, CountInv, Event, config
<1> QED BY <1>5, <1>6, <1>7, <1>8 DEF DialoguesInv

\* "OK" of the kernels makes the text what is checked, or shows a message.
LEMMA KernelsOkKeeps == ASSUME DialoguesInv, install_base_ok PROVE DialoguesInv'
<1> DEFINE r == ExitLoop(front)
           w == IF initramfs THEN "exit" ELSE "return"
           q == [front EXCEPT !.then = w]
<1>1. /\ Event /\ caller = "install_base" /\ front.kind = "checklist"
      /\ text' = from_checklist_string(Kernels, front.content) /\ checked' = front.content
      /\ IF text' # <<>> THEN InFront(r)
         ELSE screens' = Append(Front(screens), q) \o <<msgbox_widget>>
      /\ UNCHANGED <<caller, config>>
  BY Zenon DEF install_base_ok
<1>2. screens # <<>>
  BY <1>1, OneScreen, TwoScreens DEF DialoguesInv, ScreensInv
<1>3. /\ screens = <<front>> /\ ShownBy(caller, front) /\ caller \in Functions
      /\ IsScreen(front)
  BY <1>1, <1>2, OwnScreen DEF DialoguesInv, ShownBy
<1>4. IsScreen(r) /\ r.kind = front.kind
  BY <1>3, LoopExits
<1>5. IsScreen(q) /\ q.kind = front.kind
  <2> HIDE DEF w
  <2> QED BY <1>3, ScreenChanged
<1> HIDE DEF r, q
<1>6. ScreensInv'
  <2>1. CASE text' # <<>>
    BY <1>1, <1>2, <1>4, <2>1, FrontChanged DEF DialoguesInv
  <2>2. CASE text' = <<>>
    <3>1. screens' = <<q, msgbox_widget>>
      <4>1. Front(screens) = <<>>
        BY <1>3, OneScreen
      <4> QED BY <1>1, <2>2, <4>1, TwoScreens
    <3>2. IsScreen(msgbox_widget) /\ msgbox_widget.kind = "msgbox"
      BY NewScreen DEF msgbox_widget
    <3>3. ShownBy(caller, q)
      BY <1>1, <1>3, <1>5 DEF ShownBy
    <3> HIDE DEF msgbox_widget
    <3> QED BY <1>1, <1>3, <3>1, <3>2, <3>3 DEF ScreensInv
  <2> QED BY <2>1, <2>2
<1>7. TextInv'
  BY <1>1 DEF TextInv
<1>8. MenuInv' /\ initramfs' \in BOOLEAN
  BY <1>1 DEF DialoguesInv, MenuInv, config
<1>9. CountInv'
  BY <1>1, Given DEF DialoguesInv, CountInv, Event, config
<1> QED BY <1>6, <1>7, <1>8, <1>9 DEF DialoguesInv

\* "OK" of the mount options makes the text what is checked.
LEMMA OptionsOkKeeps == ASSUME DialoguesInv, select_mount_opts_ok PROVE DialoguesInv'
<1> DEFINE r == ExitLoop(front)
<1>1. /\ Event /\ caller = "select_mount_opts" /\ front.kind = "checklist"
      /\ text' = from_checklist_string(fs_opts, front.content) /\ checked' = front.content
      /\ InFront(r) /\ UNCHANGED <<caller, config>>
  BY DEF select_mount_opts_ok
<1>2. screens # <<>>
  BY <1>1, OneScreen, TwoScreens DEF DialoguesInv, ScreensInv
<1>3. screens[1] = front /\ IsScreen(front)
  BY <1>1, <1>2, OwnScreen DEF DialoguesInv, ShownBy
<1>4. IsScreen(r) /\ r.kind = front.kind
  BY <1>3, LoopExits
<1> HIDE DEF r
<1>5. ScreensInv' /\ screens'[1].kind = "checklist"
  BY <1>1, <1>2, <1>3, <1>4, FrontChanged DEF DialoguesInv
<1>6. TextInv'
  BY <1>1, <1>5 DEF TextInv, config
<1>7. MenuInv' /\ initramfs' \in BOOLEAN
  BY <1>1 DEF DialoguesInv, MenuInv, config
<1>8. CountInv'
  BY <1>1, Given DEF DialoguesInv, CountInv, Event, config
<1> QED BY <1>5, <1>6, <1>7, <1>8 DEF DialoguesInv

\* What opening a dialogue keeps.
LEMMA Opens ==
    ASSUME DialoguesInv, NEW function \in Functions, NEW s, ShownBy(function, s),
           s.kind = "checklist" \/ function # "select_mount_opts", Open(function, s),
           fs_opts' \in {fs_opts, <<>>}, UNCHANGED <<formatted, initramfs>>
    PROVE  DialoguesInv'
<1>1. Event /\ caller' = function /\ screens' = <<s>> /\ text' = <<>>
  BY DEF Open
<1>2. ScreensInv'
  BY <1>1 DEF ScreensInv
<1>3. TextInv'
  BY <1>1, OneScreen DEF TextInv
<1>4. MenuInv' /\ initramfs' \in BOOLEAN
  BY Given DEF DialoguesInv, MenuInv
<1>5. CountInv'
  BY <1>1, Given DEF DialoguesInv, CountInv, Event
<1> QED BY <1>2, <1>3, <1>4, <1>5 DEF DialoguesInv

\* A call of one of the functions that ask nothing of the options.
LEMMA CallsKeep ==
    ASSUME DialoguesInv,
           \/ select_filesystem \/ select_filesystem_simple \/ btrfs_subvolumes
           \/ install_desktop \/ set_hostname \/ install_base
    PROVE  DialoguesInv'
<1> USE DEF Functions, Simple
<1>1. CASE select_filesystem
  <2>1. ShownBy("select_filesystem", menu_widget)
    BY Given, NewScreen DEF ShownBy, KindsOf, menu_widget
  <2> QED BY <1>1, <2>1, Opens DEF select_filesystem
<1>2. CASE select_filesystem_simple
  <2>1. ShownBy("select_filesystem_simple", menu_widget)
    BY NewScreen DEF ShownBy, KindsOf, menu_widget
  <2> QED BY <1>2, <2>1, Opens DEF select_filesystem_simple
<1>3. CASE btrfs_subvolumes
  <2>1. ShownBy("btrfs_subvolumes", menu_widget)
    BY NewScreen DEF ShownBy, KindsOf, menu_widget
  <2> QED BY <1>3, <2>1, Opens DEF btrfs_subvolumes, config
<1>4. CASE install_desktop
  <2>1. ShownBy("install_desktop", radiolist_widget)
    BY NewScreen DEF ShownBy, KindsOf, radiolist_widget
  <2> QED BY <1>4, <2>1, Opens DEF install_desktop, config
<1>5. CASE set_hostname
  <2>1. PICK name \in Names : Open("set_hostname", inputbox_widget(name)) /\ UNCHANGED <<config, checked>>
    BY <1>5 DEF set_hostname
  <2>2. ShownBy("set_hostname", inputbox_widget(name))
    BY NewScreen DEF ShownBy, KindsOf, inputbox_widget
  <2> QED BY <2>1, <2>2, Opens DEF config
<1>6. CASE install_base
  <2>1. ShownBy("install_base", checklist_widget({}))
    BY NewScreen DEF ShownBy, KindsOf, checklist_widget
  <2> QED BY <1>6, <2>1, Opens DEF install_base, config
<1> QED BY <1>1, <1>2, <1>3, <1>4, <1>5, <1>6

\* The questions about the mount options are asked, or the preset is taken.
LEMMA OptionsKeep == ASSUME DialoguesInv, select_mount_opts PROVE DialoguesInv'
<1>1. PICK rotational \in BOOLEAN, force \in BOOLEAN :
        LET preset == Preset(rotational) IN
        IF fs_opts # <<>> /\ ~force
        THEN /\ Open("select_mount_opts", checklist_widget(preset))
             /\ MOUNT_OPTS' = <<>> /\ UNCHANGED <<fs_opts, formatted, initramfs, KERNEL, answer, checked>>
        ELSE /\ Event /\ caller = "none" /\ checked' = preset
             /\ MOUNT_OPTS' = cleanup_mount_opts(from_checklist_string(fs_opts, preset))
             /\ UNCHANGED <<screens, caller, text, fs_opts, formatted, initramfs, KERNEL, answer>>
  BY Zenon DEF select_mount_opts
<1> DEFINE preset == Preset(rotational)
<1>2. CASE fs_opts # <<>> /\ ~force
  <2>1. ShownBy("select_mount_opts", checklist_widget(preset)) /\ checklist_widget(preset).kind = "checklist"
    BY NewScreen DEF ShownBy, KindsOf, checklist_widget
  <2>2. "select_mount_opts" \in Functions
    BY DEF Functions
  <2> HIDE DEF preset
  <2>3. Open("select_mount_opts", checklist_widget(preset)) /\ UNCHANGED <<fs_opts, formatted, initramfs>>
    BY <1>1, <1>2 DEF preset
  <2> QED BY <2>1, <2>2, <2>3, Opens
<1>3. CASE ~(fs_opts # <<>> /\ ~force)
  <2>1. /\ Event /\ caller = "none"
        /\ UNCHANGED <<screens, caller, text, fs_opts, formatted, initramfs>>
    BY <1>1, <1>3, Zenon
  <2>2. ScreensInv' /\ TextInv' /\ MenuInv' /\ initramfs' \in BOOLEAN
    BY <2>1 DEF DialoguesInv, ScreensInv, TextInv, MenuInv
  <2>3. CountInv'
    BY <2>1, Given DEF DialoguesInv, CountInv, Event
  <2> QED BY <2>2, <2>3 DEF DialoguesInv
<1> QED BY <1>2, <1>3

\* A step with which a function returns; a file system may have been made by then.
Returning ==
    /\ screens # <<>> /\ front.kind # "msgbox" /\ Returns
    /\ fs_opts' = fs_opts /\ initramfs' = initramfs /\ events' = events
    /\ \/ formatted' = formatted
       \/ caller = "select_filesystem" /\ formatted' = formatted + 1

\* A function that returns leaves no screen.
LEMMA Returned == ASSUME DialoguesInv, Returning PROVE DialoguesInv'
<1>1. screens' = <<>> /\ caller' = "none"
  BY OwnScreen, OneScreen DEF DialoguesInv, Returning, Returns
<1>2. ScreensInv' /\ TextInv' /\ MenuInv' /\ initramfs' \in BOOLEAN
  BY <1>1 DEF DialoguesInv, ScreensInv, TextInv, MenuInv, Returning
<1>3. CountInv'
  BY <1>1, Given DEF DialoguesInv, CountInv, Returning
<1> QED BY <1>2, <1>3 DEF DialoguesInv

\* The message goes away, and the kernels are in front again.
LEMMA MessageEnds ==
    ASSUME DialoguesInv, screens # <<>>, front.kind = "msgbox", message_ends, UNCHANGED <<events, checked>>
    PROVE  DialoguesInv'
<1>1. PICK s : /\ ShownBy(caller, s) /\ screens[1] = s
               /\ caller = "install_base" /\ screens = <<s, front>>
  <2>1. PICK s : /\ ShownBy(caller, s) /\ screens[1] = s
                 /\ \/ screens = <<s>> /\ front = s
                    \/ /\ caller = "install_base" /\ front.kind = "msgbox"
                       /\ screens = <<s, front>>
    BY FrontScreen DEF DialoguesInv
  <2>2. ~(front = s)
    BY <2>1, FrontScreen DEF DialoguesInv, ShownBy, KindsOf
  <2> QED BY <2>1, <2>2
<1> DEFINE b == s.quit \/ s.then = "exit"
           r == [s EXCEPT !.quit = b]
<1>2. screens' = Append(Front(Front(screens)), r) /\ UNCHANGED <<caller, text, config>>
  <2>1. Len(screens) = 2
    BY <1>1, TwoScreens
  <2>2. screens[Len(screens) - 1] = s
    BY <1>1, <2>1
  <2> QED BY <2>2, Zenon DEF message_ends
<1>3. Front(Front(screens)) = <<>>
  <2>1. Front(screens) = <<s>>
    BY <1>1, TwoScreens
  <2> QED BY <2>1, OneScreen
<1>4. IsScreen(r) /\ r.kind = s.kind
  <2>1. b \in BOOLEAN /\ IsScreen(s)
    BY <1>1 DEF ShownBy
  <2> HIDE DEF b
  <2> QED BY <2>1, ScreenChanged
<1> HIDE DEF r
<1>5. screens' = <<r>>
  BY <1>2, <1>3, TwoScreens
<1>6. ShownBy(caller, r) /\ caller \in Functions
  BY <1>1, <1>4 DEF ShownBy, Functions
<1>7. ScreensInv'
  BY <1>2, <1>5, <1>6 DEF ScreensInv
<1>8. TextInv'
  BY <1>1, <1>2, TextKept DEF DialoguesInv, config
<1>9. MenuInv' /\ initramfs' \in BOOLEAN /\ CountInv'
  BY <1>2 DEF DialoguesInv, MenuInv, CountInv, config
<1> QED BY <1>7, <1>8, <1>9 DEF DialoguesInv

\* The end of each loop, by what its caller does with the result.
LEMMA LoopEndKeeps == ASSUME DialoguesInv, loop_ends PROVE DialoguesInv'
<1>1. screens # <<>> /\ UNCHANGED <<events, checked>>
  BY DEF loop_ends
<1>2. CASE front.kind = "msgbox" /\ message_ends
  BY <1>1, <1>2, MessageEnds
<1>3. CASE caller = "install_base" /\ front.kind = "checklist" /\ kernels_end
  <2>1. Returns /\ UNCHANGED <<fs_opts, initramfs, events>> /\ formatted' = formatted
    BY <1>1, <1>3 DEF kernels_end
  <2>9. Returning
    BY <1>1, <1>3, <2>1 DEF Returning
  <2> QED BY <2>9, Returned
<1>4. CASE caller = "select_mount_opts" /\ front.kind = "checklist" /\ mount_opts_end
  <2>1. CASE text = <<>>
    <3>1. Returns /\ UNCHANGED <<fs_opts, initramfs, events>> /\ formatted' = formatted
      BY <1>1, <1>4, <2>1 DEF mount_opts_end, config
    <3>8. Returning
      BY <1>1, <1>4, <3>1 DEF Returning
    <3> QED BY <3>8, Returned
  <2>2. CASE text # <<>>
    <3>1. /\ text' = cleanup_mount_opts(text) /\ screens' = <<yesno_widget_container>>
          /\ UNCHANGED caller /\ UNCHANGED config
      BY <1>4, <2>2 DEF mount_opts_end
    <3>2. screens[1].kind = "checklist"
      BY <1>1, <1>4, OwnScreen DEF DialoguesInv
    <3>3. text = from_checklist_string(fs_opts, checked)
      BY <1>4, <2>2, <3>2 DEF DialoguesInv, TextInv
    <3>4. ShownBy("select_mount_opts", yesno_widget_container) /\ yesno_widget_container.kind = "yesno_container"
      BY NewScreen DEF ShownBy, KindsOf, yesno_widget_container
    <3> HIDE DEF yesno_widget_container
    <3>5. ScreensInv'
      BY <1>4, <3>1, <3>4 DEF ScreensInv, Functions
    <3>6. TextInv'
      BY <1>1, <1>4, <3>1, <3>3, <3>4, OneScreen DEF TextInv, config
    <3>7. MenuInv' /\ initramfs' \in BOOLEAN /\ CountInv'
      BY <1>1, <3>1 DEF DialoguesInv, MenuInv, CountInv, config
    <3> QED BY <3>5, <3>6, <3>7 DEF DialoguesInv
  <2> QED BY <2>1, <2>2
<1>5. CASE front.kind = "yesno_container" /\ confirm_ends
  <2>1. Returns /\ UNCHANGED <<fs_opts, initramfs, events>> /\ formatted' = formatted
    BY <1>1, <1>5 DEF confirm_ends
  <2>9. Returning
    BY <1>1, <1>5, <2>1 DEF Returning
  <2> QED BY <2>9, Returned
<1>6. CASE caller = "select_filesystem" /\ front.kind = "menu" /\ file_systems_end
  <2>1. CASE text \in {<<>>, <<1>>}
    <3>1. Returns /\ UNCHANGED <<fs_opts, initramfs, events>> /\ formatted' = formatted
      BY <1>1, <1>6, <2>1 DEF file_systems_end
    <3>8. Returning
      BY <1>1, <1>6, <3>1 DEF Returning
    <3> QED BY <3>8, Returned
  <2>2. CASE text \notin {<<>>, <<1>>}
    <3>1. /\ fs_opts' = FsMenu[text[1]] /\ screens' = <<yesno_widget>> /\ UNCHANGED caller
          /\ UNCHANGED <<text, formatted, initramfs>>
      BY <1>6, <2>2 DEF file_systems_end
    <3>2. text[1] \in DOMAIN FsMenu
      BY <1>6, <2>2, OneScreen DEF DialoguesInv, TextInv
    <3>3. ShownBy("select_filesystem", yesno_widget)
      BY NewScreen DEF ShownBy, KindsOf, yesno_widget
    <3> HIDE DEF yesno_widget
    <3>4. ScreensInv'
      BY <1>6, <3>1, <3>3 DEF ScreensInv, Functions
    <3>5. TextInv'
      BY <1>1, <1>6, <3>1 DEF DialoguesInv, TextInv
    <3>6. MenuInv' /\ initramfs' \in BOOLEAN /\ CountInv'
      BY <1>1, <3>1, <3>2 DEF DialoguesInv, MenuInv, CountInv
    <3> QED BY <3>4, <3>5, <3>6 DEF DialoguesInv
  <2> QED BY <2>1, <2>2
<1>7. CASE front.kind = "yesno" /\ warning_ends
  <2>1. caller = "select_filesystem"
    BY <1>1, <1>7, OwnScreen DEF DialoguesInv, ShownBy, KindsOf
  <2>2. /\ Returns /\ UNCHANGED <<fs_opts, initramfs, events>>
        /\ formatted' = formatted \/ formatted' = formatted + 1
    BY <1>1, <1>7 DEF warning_ends
  <2>9. Returning
    BY <1>1, <1>7, <2>1, <2>2 DEF Returning
  <2> QED BY <2>9, Returned
<1>8. CASE caller \in Simple /\ simple_ends
  <2>1. front.kind # "msgbox"
    BY <1>1, <1>8, FrontScreen DEF DialoguesInv, Simple, ShownBy, KindsOf
  <2>2. Returns /\ UNCHANGED <<fs_opts, initramfs, events>> /\ formatted' = formatted
    BY <1>1, <1>8 DEF simple_ends
  <2>9. Returning
    BY <1>1, <2>1, <2>2 DEF Returning
  <2> QED BY <2>9, Returned
<1> QED BY <1>2, <1>3, <1>4, <1>5, <1>6, <1>7, <1>8 DEF loop_ends

\* No dialogue is open at first.
LEMMA DialoguesInitInv == DialoguesInit => DialoguesInv
<1> SUFFICES ASSUME DialoguesInit PROVE DialoguesInv
  OBVIOUS
<1>1. ScreensInv /\ TextInv /\ initramfs \in BOOLEAN
  BY DEF DialoguesInit, ScreensInv, TextInv
<1>2. MenuInv
  BY Given DEF DialoguesInit, MenuInv
<1>3. CountInv
  BY Given DEF DialoguesInit, CountInv
<1> QED BY <1>1, <1>2, <1>3 DEF DialoguesInv

\* Every step keeps the invariant.
LEMMA DialoguesNextInv == ASSUME DialoguesInv, [DialoguesNext]_dialogue_vars PROVE DialoguesInv'
<1>1. CASE UNCHANGED dialogue_vars
  BY <1>1 DEF dialogue_vars, DialoguesInv, ScreensInv, TextInv, MenuInv, CountInv
<1>2. CASE DialoguesNext
  BY <1>2, EditKeeps, OkKeeps, OkListKeeps, KernelsOkKeeps, OptionsOkKeeps, CancelKeeps, CallsKeep,
     OptionsKeep, LoopEndKeeps DEF DialoguesNext
<1> QED BY <1>1, <1>2

\* The invariant holds in every state.
LEMMA DialoguesInvCorrect == DialoguesSpec => []DialoguesInv
BY DialoguesInitInv, DialoguesNextInv, PTL DEF DialoguesSpec

\* In every behaviour the variables of the dialogues keep their types.
THEOREM DialoguesTypes == DialoguesSpec => []DialoguesTypeOK
<1>1. DialoguesInv => DialoguesTypeOK
  <2> SUFFICES ASSUME DialoguesInv PROVE DialoguesTypeOK
    OBVIOUS
  <2>1. events \in 0..MaxEvents /\ formatted \in 0..MaxEvents /\ initramfs \in BOOLEAN
    BY Given DEF DialoguesInv, CountInv
  <2>2. caller \in Simple \cup {"none", "select_filesystem", "install_base", "select_mount_opts"}
    BY DEF DialoguesInv, ScreensInv, Functions
  <2>3. CASE caller = "none" /\ screens = <<>>
    BY <2>1, <2>2, <2>3 DEF DialoguesTypeOK
  <2>4. CASE /\ caller \in Functions
             /\ \E s : ShownBy(caller, s) /\
                   \/ screens = <<s>>
                   \/ /\ caller = "install_base"
                      /\ \E m : IsScreen(m) /\ m.kind = "msgbox" /\ screens = <<s, m>>
    <3>1. caller # "none"
      BY <2>4 DEF Functions, Simple
    <3>2. PICK s : /\ IsScreen(s)
                   /\ \/ screens = <<s>>
                      \/ \E m : IsScreen(m) /\ screens = <<s, m>>
      BY <2>4 DEF ShownBy
    <3>3. CASE screens = <<s>>
      <4>1. Len(screens) = 1 /\ screens # <<>> /\ DOMAIN screens = {1} /\ screens[1] = s
        BY <3>3, OneScreen
      <4>2. \A i \in DOMAIN screens : screens[i].quit \in BOOLEAN /\ screens[i].success \in BOOLEAN
        BY <3>2, <4>1, Zenon DEF IsScreen
      <4>3. Len(screens) \in 0..2
        BY <4>1
      <4> QED BY <2>1, <2>2, <3>1, <4>1, <4>2, <4>3, Zenon DEF DialoguesTypeOK
    <3>4. CASE \E m : IsScreen(m) /\ screens = <<s, m>>
      <4>1. PICK m : IsScreen(m) /\ screens = <<s, m>>
        BY <3>4
      <4>2. Len(screens) = 2 /\ screens # <<>> /\ DOMAIN screens = {1, 2} /\ screens[1] = s /\ screens[2] = m
        BY <4>1, TwoScreens
      <4>3. \A i \in DOMAIN screens : screens[i].quit \in BOOLEAN /\ screens[i].success \in BOOLEAN
        BY <3>2, <4>1, <4>2, Zenon DEF IsScreen
      <4>4. Len(screens) \in 0..2
        BY <4>2
      <4> QED BY <2>1, <2>2, <3>1, <4>2, <4>3, <4>4, Zenon DEF DialoguesTypeOK
    <3> QED BY <3>2, <3>3, <3>4
  <2> QED BY <2>3, <2>4 DEF DialoguesInv, ScreensInv
<1> QED BY <1>1, DialoguesInvCorrect, PTL

\* A step that changes KERNEL is the end of the list of kernels.
LEMMA KernelsStep ==
    ASSUME DialoguesNext \/ UNCHANGED dialogue_vars, KERNEL' # KERNEL
    PROVE  caller = "install_base" /\ text # <<>> /\ KERNEL' = text /\ checked' = checked
<1>1. \/ loop_ends
      \/ UNCHANGED KERNEL
  BY DEF DialoguesNext, dialogue_vars, config, edit, press_ok, press_ok_list, install_base_ok,
         select_mount_opts_ok, press_cancel, select_filesystem, select_filesystem_simple,
         btrfs_subvolumes, install_desktop, set_hostname, install_base, select_mount_opts
<1>2. loop_ends
  BY <1>1
<1>3. caller = "install_base" /\ kernels_end /\ UNCHANGED checked
  BY <1>2 DEF loop_ends, message_ends, mount_opts_end, confirm_ends, file_systems_end,
              warning_ends, simple_ends, config
<1> QED BY <1>3 DEF kernels_end

\* The kernels are those that were checked at the last "OK", and there are some, for any
\* list of kernels and any keys.
THEOREM KernelsChecked == DialoguesSpec => KernelsAsChecked
<1>1. ASSUME DialoguesInv, [DialoguesNext]_dialogue_vars, KERNEL' # KERNEL
      PROVE  /\ checked # {}
             /\ make_multiline(KERNEL', FALSE, " ") = from_checklist_vector(Kernels, checked)
  <2>1. caller = "install_base" /\ text # <<>> /\ KERNEL' = text
    BY <1>1, KernelsStep
  <2>2. text = from_checklist_string(Kernels, checked)
    BY <1>1, <2>1 DEF DialoguesInv, TextInv
  <2>3. Kernels \in Seq(Labels)
    BY Given
  <2> QED BY <2>1, <2>2, <2>3, Texts
<1>2. DialoguesInv /\ [DialoguesNext]_dialogue_vars =>
        [KERNEL' # KERNEL =>
          /\ checked # {}
          /\ make_multiline(KERNEL', FALSE, " ") = from_checklist_vector(Kernels, checked)]_dialogue_vars
  BY <1>1
<1> QED BY <1>2, DialoguesInvCorrect, PTL DEF DialoguesSpec, KernelsAsChecked

\* A step that sets options ends the question about them, or takes the preset.
LEMMA OptionsStep ==
    ASSUME DialoguesInv, DialoguesNext \/ UNCHANGED dialogue_vars, MOUNT_OPTS' \notin {MOUNT_OPTS, <<>>}
    PROVE  MOUNT_OPTS' = cleanup_mount_opts(from_checklist_string(fs_opts, checked'))
<1>1. \/ loop_ends \/ select_mount_opts
      \/ UNCHANGED MOUNT_OPTS
  BY DEF DialoguesNext, dialogue_vars, config, edit, press_ok, press_ok_list, install_base_ok,
         select_mount_opts_ok, press_cancel, select_filesystem, select_filesystem_simple,
         btrfs_subvolumes, install_desktop, set_hostname, install_base
<1>2. CASE select_mount_opts
  BY <1>2 DEF select_mount_opts
<1>3. CASE loop_ends
  <2>1. screens # <<>> /\ UNCHANGED checked /\ front.kind = "yesno_container" /\ confirm_ends
    BY <1>3 DEF loop_ends, message_ends, mount_opts_end, kernels_end, file_systems_end,
                warning_ends, simple_ends, config
  <2>2. MOUNT_OPTS' = text
    BY <2>1 DEF confirm_ends
  <2>3. caller = "select_mount_opts" /\ screens[1].kind = "yesno_container"
    BY <2>1, OwnScreen DEF DialoguesInv, ShownBy, KindsOf
  <2>4. text = cleanup_mount_opts(from_checklist_string(fs_opts, checked))
    BY <2>3 DEF DialoguesInv, TextInv
  <2> QED BY <2>1, <2>2, <2>4
<1> QED BY <1>1, <1>2, <1>3

\* The options are those that were checked, and of the file system selected last, for any
\* file systems and options.
THEOREM OptionsChecked == DialoguesSpec => MountOptsAsChecked
<1>1. ASSUME DialoguesInv, [DialoguesNext]_dialogue_vars, MOUNT_OPTS' \notin {MOUNT_OPTS, <<>>}
      PROVE  /\ make_multiline(MOUNT_OPTS', FALSE, ",") = from_checklist_vector(fs_opts, checked')
             /\ \E fs \in DOMAIN FsMenu : FsMenu[fs] = fs_opts
  <2>1. MOUNT_OPTS' = cleanup_mount_opts(from_checklist_string(fs_opts, checked'))
    BY <1>1, OptionsStep
  <2>2. \E fs \in DOMAIN FsMenu : FsMenu[fs] = fs_opts
    BY <1>1 DEF DialoguesInv, MenuInv
  <2>3. fs_opts \in Seq(Labels)
    BY <2>2, Given
  <2>4. make_multiline(cleanup_mount_opts(from_checklist_string(fs_opts, checked')), FALSE, ",")
          = from_checklist_vector(fs_opts, checked')
    BY <2>3, Texts
  <2> QED BY <2>1, <2>2, <2>4
<1>2. DialoguesInv /\ [DialoguesNext]_dialogue_vars =>
        [MOUNT_OPTS' \notin {MOUNT_OPTS, <<>>} =>
          /\ make_multiline(MOUNT_OPTS', FALSE, ",") = from_checklist_vector(fs_opts, checked')
          /\ \E fs \in DOMAIN FsMenu : FsMenu[fs] = fs_opts]_dialogue_vars
  BY <1>1
<1> QED BY <1>2, DialoguesInvCorrect, PTL DEF DialoguesSpec, MountOptsAsChecked

==============================================================================
