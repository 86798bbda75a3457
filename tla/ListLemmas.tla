----------------------------- MODULE ListLemmas ------------------------------
(* What the proofs about lists and vectors have in common: the least place,   *)
(* loops over a list, and what is appended or inserted.                      *)
EXTENDS Integers, Sequences, FiniteSets, WellFoundedInduction, TLAPS

\* A set of numbers that is not empty has a least one.
LEMMA Least == ASSUME NEW S \in SUBSET Nat, S # {} PROVE \E m \in S : \A k \in S : m <= k
<1>1. PICK m \in S : \A k \in S : ~ (<<k, m>> \in OpToRel(<, Nat))
  BY WFMin, NatLessThanWellFounded
<1>2. ASSUME NEW j \in Nat, NEW i \in Nat, j < i PROVE <<j, i>> \in OpToRel(<, Nat)
  <2>1. <<j, i>> \in Nat \X Nat /\ <<j, i>>[1] < <<j, i>>[2]
    BY <1>2
  <2> QED BY <2>1, Zenon DEF OpToRel
<1>3. ASSUME NEW k \in S PROVE m <= k
  <2>1. ~(k < m)
    BY <1>1, <1>2
  <2> QED BY <2>1
<1> QED BY <1>3

\* What holds of 0 and of the next number holds up to N: induction over a set.
LEMMA Induction ==
    ASSUME NEW N \in Nat, NEW S, 0 \in S, \A n \in 0..(N - 1) : n \in S => n + 1 \in S
    PROVE  \A n \in 0..N : n \in S
<1> DEFINE Bad == (0..N) \ S
<1>1. SUFFICES ASSUME Bad # {} PROVE FALSE
  OBVIOUS
<1>2. PICK m \in Bad : \A k \in Bad : m <= k
  <2>1. Bad \in SUBSET Nat
    OBVIOUS
  <2> HIDE DEF Bad
  <2> QED BY <1>1, <2>1, Least
<1>3. m # 0 /\ m - 1 \in 0..(N - 1)
  BY <1>2
<1>4. m - 1 \in S
  BY <1>2, <1>3
<1> QED BY <1>2, <1>3, <1>4

\* The places of a sequence are numbers.
LEMMA Elements ==
    ASSUME NEW X, NEW s \in Seq(X)
    PROVE  Len(s) \in Nat /\ DOMAIN s = 1..Len(s) /\ \A i \in 1..Len(s) : s[i] \in X
OBVIOUS

\* A function on 1..n is a sequence of length n.
LEMMA MadeSequence ==
    ASSUME NEW X, NEW n \in Nat, NEW s \in [1..n -> X]
    PROVE  s \in Seq(X) /\ Len(s) = n
OBVIOUS

\* A loop of N passes over values in A, and what it has after each pass.
Passes(step, N, A) == step \in [1..N -> [A -> A]]
Folds(g, base, step, N, A) ==
    /\ g \in [0..N -> A] /\ g[0] = base
    /\ \A i \in 1..N : g[i] = step[i][g[i - 1]]

\* A loop that makes the next value out of the last one and of the number of the pass
\* has a value after each pass.
LEMMA Folding ==
    ASSUME NEW N \in Nat, NEW A, NEW base \in A, NEW step, Passes(step, N, A)
    PROVE  \E g : Folds(g, base, step, N, A)
<1> DEFINE G(n, g) == /\ g \in [0..n -> A] /\ g[0] = base
                      /\ \A i \in 1..n : g[i] = step[i][g[i - 1]]
           S == {n \in 0..N : \E g : G(n, g)}
<1>0. step \in [1..N -> [A -> A]]
  BY DEF Passes
<1>1. 0 \in S
  <2>1. G(0, [i \in {0} |-> base])
    OBVIOUS
  <2> HIDE DEF G
  <2> QED BY <2>1
<1>2. ASSUME NEW n \in 0..(N - 1), n \in S PROVE n + 1 \in S
  <2>1. PICK g : G(n, g)
    BY <1>2
  <2> DEFINE h == [i \in 0..(n + 1) |-> IF i = n + 1 THEN step[n + 1][g[n]] ELSE g[i]]
  <2>2. h \in [0..(n + 1) -> A] /\ h[0] = base
    <3>1. step[n + 1][g[n]] \in A
      BY <1>0, <2>1
    <3> QED BY <2>1, <3>1
  <2>3. ASSUME NEW i \in 1..(n + 1) PROVE h[i] = step[i][h[i - 1]]
    <3>1. CASE i = n + 1
      <4>1. h[i - 1] = g[n]
        BY <3>1
      <4> QED BY <3>1, <4>1
    <3>2. CASE i # n + 1
      <4>1. i \in 1..n /\ h[i] = g[i] /\ h[i - 1] = g[i - 1]
        BY <3>2
      <4> QED BY <2>1, <4>1
    <3> QED BY <3>1, <3>2
  <2>4. G(n + 1, h)
    BY <2>2, <2>3
  <2> HIDE DEF G, h
  <2> QED BY <2>4
<1> HIDE DEF S
<1>3. N \in S
  <2>1. \A n \in 0..(N - 1) : n \in S => n + 1 \in S
    BY <1>2
  <2>2. \A n \in 0..N : n \in S
    BY <1>1, <2>1, Induction
  <2> QED BY <2>2
<1>4. PICK g : G(N, g)
  BY <1>3 DEF S
<1>5. Folds(g, base, step, N, A)
  BY <1>4 DEF Folds
<1> QED BY <1>5

\* Append adds one element and leaves the others where they are.
LEMMA Appended ==
    ASSUME NEW X, NEW s \in Seq(X), NEW e \in X
    PROVE  /\ Append(s, e) \in Seq(X) /\ Len(Append(s, e)) = Len(s) + 1
           /\ \A i \in 1..Len(s) : Append(s, e)[i] = s[i]
           /\ Append(s, e)[Len(s) + 1] = e
OBVIOUS

\* Sequences that agree at every place are equal.
LEMMA SameSequence ==
    ASSUME NEW X, NEW s \in Seq(X), NEW t \in Seq(X), Len(s) = Len(t),
           \A i \in 1..Len(s) : s[i] = t[i]
    PROVE  s = t
OBVIOUS

\* The elements of two sequences put together.
LEMMA Joined ==
    ASSUME NEW X, NEW p \in Seq(X), NEW q \in Seq(X)
    PROVE  /\ p \o q \in Seq(X) /\ Len(p \o q) = Len(p) + Len(q)
           /\ \A i \in 1..Len(p) : (p \o q)[i] = p[i]
           /\ \A i \in (Len(p) + 1)..Len(p \o q) : (p \o q)[i] = q[i - Len(p)]
OBVIOUS

\* Where the elements of r come from, which is s with new put in front of place.
Insertion(r, s, place, new) ==
    LET K == Len(new)
    IN  /\ Len(r) = Len(s) + K
        /\ \A i \in 1..(place - 1) : r[i] = s[i]
        /\ \A i \in place..(place - 1 + K) : i - (place - 1) \in 1..K /\ r[i] = new[i - (place - 1)]
        /\ \A i \in (place + K)..(Len(s) + K) : i - K \in place..Len(s) /\ r[i] = s[i - K]

\* What SubSeq and \o make is such an insertion.
Spliced(s, place, new) == SubSeq(s, 1, place - 1) \o new \o SubSeq(s, place, Len(s))

LEMMA Inserted ==
    ASSUME NEW X, NEW s \in Seq(X), NEW new \in Seq(X), NEW place \in 1..(Len(s) + 1)
    PROVE  /\ Spliced(s, place, new) \in Seq(X)
           /\ Insertion(Spliced(s, place, new), s, place, new)
<1> DEFINE K == Len(new)
           a == SubSeq(s, 1, place - 1)
           b == SubSeq(s, place, Len(s))
           c == a \o new
           r == c \o b
<1>0. Len(s) \in Nat /\ K \in Nat /\ place \in Nat /\ 1 <= place /\ place <= Len(s) + 1
  OBVIOUS
<1>1. a \in Seq(X) /\ Len(a) = place - 1 /\ \A i \in 1..(place - 1) : a[i] = s[i]
  OBVIOUS
<1>2. b \in Seq(X) /\ Len(b) = Len(s) - place + 1 /\ \A i \in 1..Len(b) : b[i] = s[place + i - 1]
  OBVIOUS
<1>3. /\ c \in Seq(X) /\ Len(c) = Len(a) + K
      /\ \A i \in 1..Len(a) : c[i] = a[i]
      /\ \A i \in (Len(a) + 1)..Len(c) : c[i] = new[i - Len(a)]
  <2> HIDE DEF a
  <2> QED BY <1>1, Joined
<1>4. /\ r \in Seq(X) /\ Len(r) = Len(c) + Len(b)
      /\ \A i \in 1..Len(c) : r[i] = c[i]
      /\ \A i \in (Len(c) + 1)..Len(r) : r[i] = b[i - Len(c)]
  <2> HIDE DEF c, b
  <2>1. c \in Seq(X) /\ b \in Seq(X)
    BY <1>2, <1>3
  <2> QED BY <2>1, Joined
<1> HIDE DEF K, a, b, c, r
<1>5. /\ Len(a) = place - 1 /\ Len(b) = Len(s) - place + 1
      /\ Len(c) = place - 1 + K /\ Len(r) = Len(s) + K
  <2>1. Len(a) = place - 1 /\ Len(b) = Len(s) - place + 1
    BY <1>1, <1>2
  <2>2. Len(c) = Len(a) + K /\ Len(r) = Len(c) + Len(b)
    BY <1>3, <1>4
  <2> QED BY <1>0, <2>1, <2>2
<1>6. ASSUME NEW i \in 1..(place - 1) PROVE r[i] = s[i]
  <2>1. i \in 1..Len(a) /\ i \in 1..Len(c)
    BY <1>0, <1>5
  <2> QED BY <1>1, <1>3, <1>4, <2>1
<1>7. ASSUME NEW i \in place..(place - 1 + K)
      PROVE  i - (place - 1) \in 1..K /\ r[i] = new[i - (place - 1)]
  <2>1. i \in (Len(a) + 1)..Len(c) /\ i \in 1..Len(c) /\ i - (place - 1) \in 1..K
    BY <1>0, <1>5
  <2>2. r[i] = c[i] /\ c[i] = new[i - Len(a)]
    BY <1>3, <1>4, <2>1
  <2> QED BY <1>5, <2>1, <2>2
<1>8. ASSUME NEW i \in (place + K)..(Len(s) + K)
      PROVE  i - K \in place..Len(s) /\ r[i] = s[i - K]
  <2>1. /\ i \in (Len(c) + 1)..Len(r) /\ i - Len(c) \in 1..Len(b) /\ i - K \in place..Len(s)
        /\ place + (i - Len(c)) - 1 = i - K
    BY <1>0, <1>5
  <2>2. r[i] = b[i - Len(c)] /\ b[i - Len(c)] = s[place + (i - Len(c)) - 1]
    BY <1>2, <1>4, <2>1
  <2> QED BY <2>1, <2>2
<1>9. Spliced(s, place, new) = r
  BY DEF Spliced, a, b, c, r
<1>10. r \in Seq(X)
  BY <1>4
<1>11. Insertion(r, s, place, new)
  BY <1>5, <1>6, <1>7, <1>8 DEF Insertion, K
<1> QED BY <1>9, <1>10, <1>11
==============================================================================
