---------------------------- MODULE QueueLemmas ----------------------------
(***************************************************************************)
(* What appending to and removing from a queue without repetitions does to *)
(* it: the facts about deque.append and deque.remove that the proofs about *)
(* the primitives need.  A queue without repetitions is an injective       *)
(* sequence.                                                               *)
(***************************************************************************)
EXTENDS SequencesExt, SequenceTheorems, TLAPS

\* In an injective queue an element has one position, and removing the first
\* occurrence takes out that position.
LEMMA FirstPosition ==
  ASSUME NEW S, NEW s \in Seq(S), NEW e, IsInjective(s),
         NEW k \in DOMAIN s, s[k] = e
  PROVE  RemoveFirst(s, e) = RemoveAt(s, k)
<1> DEFINE I == {i \in 1..Len(s) : s[i] = e}
<1>1. I = {k}
  BY DEF IsInjective
<1>2. Min(I) = k
  BY <1>1 DEF Min
<1>3. SelectInSeq(s, LAMBDA v : v = e) = k
  BY <1>1, <1>2 DEF SelectInSeq
<1> QED
  BY <1>3 DEF RemoveFirst

\* The entries of a sequence with position k taken out.
LEMMA RemoveAtEntries ==
  ASSUME NEW S, NEW s \in Seq(S), NEW k \in DOMAIN s
  PROVE  /\ RemoveAt(s, k) \in Seq(S)
         /\ Len(RemoveAt(s, k)) = Len(s) - 1
         /\ \A i \in 1..(Len(s) - 1) :
              RemoveAt(s, k)[i] = IF i < k THEN s[i] ELSE s[i + 1]
<1> DEFINE a == SubSeq(s, 1, k - 1)
           b == SubSeq(s, k + 1, Len(s))
<1>1. Len(s) \in Nat /\ k \in 1..Len(s) /\ \A i \in 1..Len(s) : s[i] \in S
  BY LenProperties, ElementOfSeq
<1>2. /\ a \in Seq(S) /\ Len(a) = k - 1
      /\ \A i \in 1..(k - 1) : a[i] = s[i]
  <2>1. \A i \in 1..(k - 1) : s[i] \in S
    BY <1>1
  <2> QED
    BY <1>1, <2>1, SubSeqProperties
<1>3. /\ b \in Seq(S) /\ Len(b) = Len(s) - k
      /\ \A i \in 1..(Len(s) - k) : b[i] = s[k + i]
  <2>1. \A i \in (k + 1)..Len(s) : s[i] \in S
    BY <1>1
  <2>2. /\ b \in Seq(S)
        /\ Len(b) = IF k + 1 <= Len(s) THEN Len(s) - (k + 1) + 1 ELSE 0
        /\ \A i \in 1..(Len(s) - (k + 1) + 1) : b[i] = s[k + 1 + i - 1]
    BY <1>1, <2>1, SubSeqProperties
  <2> QED
    BY <1>1, <2>2
<1> HIDE DEF a, b
<1>4. /\ a \o b \in Seq(S)
      /\ Len(a \o b) = Len(a) + Len(b)
      /\ \A i \in 1..(Len(a) + Len(b)) :
           (a \o b)[i] = IF i <= Len(a) THEN a[i] ELSE b[i - Len(a)]
  BY <1>2, <1>3, ConcatProperties
<1>5. RemoveAt(s, k) = a \o b
  BY DEF RemoveAt, a, b
<1> DEFINE r == a \o b
<1> HIDE DEF r
<1>6. /\ r \in Seq(S) /\ Len(r) = Len(s) - 1
  BY <1>1, <1>2, <1>3, <1>4 DEF r
<1>7. ASSUME NEW i \in 1..(Len(s) - 1)
      PROVE  r[i] = IF i < k THEN s[i] ELSE s[i + 1]
  <2>0. Len(a) = k - 1 /\ i \in 1..(Len(a) + Len(b))
    BY <1>1, <1>2, <1>3
  <2>1. r[i] = IF i <= k - 1 THEN a[i] ELSE b[i - (k - 1)]
    BY <2>0, <1>4 DEF r
  <2>2. CASE i < k
    BY <2>1, <2>2, <1>1, <1>2
  <2>3. CASE ~(i < k)
    <3>1. i - (k - 1) \in 1..(Len(s) - k)
      BY <2>3, <1>1
    <3>2. b[i - (k - 1)] = s[k + (i - (k - 1))]
      BY <3>1, <1>3
    <3>3. k + (i - (k - 1)) = i + 1
      BY <1>1
    <3> QED
      BY <2>1, <2>3, <3>2, <3>3, <1>1
  <2> QED
    BY <2>2, <2>3
<1> QED
  BY <1>5, <1>6, <1>7 DEF r

\* What is left of an injective queue once e is removed: an injective queue of
\* the other elements.
LEMMA RemoveFirstFacts ==
  ASSUME NEW S, NEW s \in Seq(S), NEW e, IsInjective(s), Contains(s, e)
  PROVE  /\ RemoveFirst(s, e) \in Seq(S)
         /\ IsInjective(RemoveFirst(s, e))
         /\ \A x : Contains(RemoveFirst(s, e), x) <=> Contains(s, x) /\ x # e
<1>1. PICK k \in 1..Len(s) : s[k] = e
  BY DEF Contains
<1>2. Len(s) \in Nat /\ DOMAIN s = 1..Len(s)
  BY LenProperties
<1> DEFINE r == RemoveFirst(s, e)
<1>3. /\ r \in Seq(S)
      /\ Len(r) = Len(s) - 1
      /\ \A i \in 1..(Len(s) - 1) : r[i] = IF i < k THEN s[i] ELSE s[i + 1]
  <2>1. k \in DOMAIN s
    BY <1>2
  <2>2. r = RemoveAt(s, k)
    BY <2>1, <1>1, FirstPosition
  <2> HIDE DEF r
  <2> QED
    BY <2>1, <2>2, RemoveAtEntries
<1>4. DOMAIN r = 1..(Len(s) - 1)
  BY <1>3, LenProperties
<1> HIDE DEF r
<1>5. ASSUME NEW i \in DOMAIN r, NEW j \in DOMAIN r, r[i] = r[j]
      PROVE  i = j
  <2> DEFINE p(n) == IF n < k THEN n ELSE n + 1
  <2>1. p(i) \in DOMAIN s /\ p(j) \in DOMAIN s /\ r[i] = s[p(i)] /\ r[j] = s[p(j)]
    BY <1>2, <1>3, <1>4
  <2>2. p(i) = p(j)
    BY <2>1, <1>5 DEF IsInjective
  <2> QED
    BY <2>2, <1>4, <1>2, <1>1
<1>6. ASSUME NEW x, Contains(r, x) PROVE Contains(s, x) /\ x # e
  <2>1. PICK i \in 1..Len(r) : r[i] = x
    BY <1>6 DEF Contains
  <2>2. PICK m \in DOMAIN s : s[m] = x /\ m # k
    BY <2>1, <1>3, <1>1, <1>2
  <2> QED
    BY <2>2, <1>1, <1>2 DEF Contains, IsInjective
<1>7. ASSUME NEW x, x # e, Contains(s, x) PROVE Contains(r, x)
  <2>0. PICK i \in 1..Len(s) : s[i] = x
    BY <1>7 DEF Contains
  <2>1. CASE i < k
    BY <2>0, <2>1, <1>1, <1>2, <1>3 DEF Contains
  <2>2. CASE i > k
    <3>1. i - 1 \in 1..Len(r) /\ r[i - 1] = x
      BY <2>0, <2>2, <1>1, <1>2, <1>3
    <3> QED
      BY <3>1 DEF Contains
  <2> QED
    BY <2>0, <2>1, <2>2, <1>1, <1>7
<1>8. IsInjective(r)
  BY <1>5 DEF IsInjective
<1> QED
  BY <1>3, <1>6, <1>7, <1>8 DEF r

\* A newcomer at the end keeps an injective queue injective.
LEMMA AppendFacts ==
  ASSUME NEW S, NEW s \in Seq(S), NEW e \in S, IsInjective(s), ~Contains(s, e)
  PROVE  /\ Append(s, e) \in Seq(S)
         /\ IsInjective(Append(s, e))
         /\ \A x : Contains(Append(s, e), x) <=> Contains(s, x) \/ x = e
<1>1. /\ Append(s, e) \in Seq(S) /\ Len(Append(s, e)) = Len(s) + 1
      /\ \A i \in 1..Len(s) : Append(s, e)[i] = s[i]
      /\ Append(s, e)[Len(s) + 1] = e
  BY AppendProperties
<1>2. Len(s) \in Nat /\ DOMAIN s = 1..Len(s) /\ DOMAIN Append(s, e) = 1..(Len(s) + 1)
  BY <1>1, LenProperties
<1>3. IsInjective(Append(s, e))
  BY <1>1, <1>2 DEF IsInjective, Contains
<1>4. \A x : Contains(Append(s, e), x) <=> Contains(s, x) \/ x = e
  BY <1>1, <1>2 DEF Contains
<1> QED
  BY <1>1, <1>3, <1>4

\* An injective queue without its first n entries
LEMMA DropFacts ==
  ASSUME NEW S, NEW s \in Seq(S), IsInjective(s), NEW n \in 0..Len(s)
  PROVE  /\ SubSeq(s, n + 1, Len(s)) \in Seq(S)
         /\ IsInjective(SubSeq(s, n + 1, Len(s)))
         /\ \A x : Contains(SubSeq(s, n + 1, Len(s)), x)
                   <=> Contains(s, x) /\ x \notin {s[i] : i \in 1..n}
<1> DEFINE r == SubSeq(s, n + 1, Len(s))
<1>0. Len(s) \in Nat /\ n \in Nat /\ n <= Len(s)
  BY LenProperties
<1>1. /\ Len(s) \in Nat /\ DOMAIN s = 1..Len(s) /\ n \in Nat /\ n <= Len(s)
      /\ \A i \in 1..Len(s) : s[i] \in S
  BY LenProperties, ElementOfSeq
<1>2. /\ r \in Seq(S) /\ Len(r) = Len(s) - n
      /\ \A i \in 1..(Len(s) - n) : r[i] = s[n + i]
  <2>1. \A i \in (n + 1)..Len(s) : s[i] \in S
    BY <1>1
  <2>2. /\ r \in Seq(S)
        /\ Len(r) = IF n + 1 <= Len(s) THEN Len(s) - (n + 1) + 1 ELSE 0
        /\ \A i \in 1..(Len(s) - (n + 1) + 1) : r[i] = s[n + 1 + i - 1]
    BY <1>1, <2>1, SubSeqProperties
  <2> HIDE DEF r
  <2>3. Len(r) = Len(s) - n
    <3>1. CASE n = Len(s)
      <4>1. ~(n + 1 <= Len(s)) /\ Len(s) - n = 0
        BY <1>1, <3>1
      <4> QED
        BY <2>2, <4>1
    <3>2. CASE n < Len(s)
      <4>1. n + 1 <= Len(s) /\ Len(s) - (n + 1) + 1 = Len(s) - n
        BY <1>1, <3>2
      <4> QED
        BY <2>2, <4>1
    <3>3. n = Len(s) \/ n < Len(s)
      <4>1. \A a, b \in Nat : a <= b => a = b \/ a < b
        OBVIOUS
      <4> QED
        BY <1>0, <4>1
    <3> QED
      BY <3>1, <3>2, <3>3
  <2>4. ASSUME NEW i \in 1..(Len(s) - n) PROVE r[i] = s[n + i]
    <3>1. i \in 1..(Len(s) - (n + 1) + 1) /\ n + 1 + i - 1 = n + i
      BY <1>1
    <3> QED
      BY <3>1, <2>2
  <2> QED
    BY <2>2, <2>3, <2>4
<1>3. DOMAIN r = 1..(Len(s) - n)
  BY <1>2, LenProperties
<1> HIDE DEF r
<1>4. ASSUME NEW i \in DOMAIN r, NEW j \in DOMAIN r, r[i] = r[j]
      PROVE  i = j
  <2>1. n + i \in DOMAIN s /\ n + j \in DOMAIN s /\ s[n + i] = s[n + j]
    BY <1>1, <1>2, <1>3, <1>4
  <2>2. n + i = n + j
    BY <2>1 DEF IsInjective
  <2> QED
    BY <2>2, <1>1, <1>3
<1>5. ASSUME NEW x, Contains(r, x)
      PROVE  Contains(s, x) /\ x \notin {s[i] : i \in 1..n}
  <2>1. PICK k \in 1..(Len(s) - n) : r[k] = x
    BY <1>2, <1>5 DEF Contains
  <2>2. s[n + k] = x /\ n + k \in 1..Len(s) /\ n + k > n
    BY <1>1, <1>2, <2>1
  <2> QED
    BY <1>1, <2>2 DEF Contains, IsInjective
<1>6. ASSUME NEW x, Contains(s, x), x \notin {s[i] : i \in 1..n}
      PROVE  Contains(r, x)
  <2>1. PICK k \in 1..Len(s) : s[k] = x
    BY <1>6 DEF Contains
  <2>2. k - n \in 1..(Len(s) - n) /\ r[k - n] = x
    BY <1>1, <1>2, <1>6, <2>1
  <2> QED
    BY <1>2, <2>2 DEF Contains
<1>7. IsInjective(r)
  BY <1>4 DEF IsInjective
<1> QED
  BY <1>2, <1>5, <1>6, <1>7 DEF r

\* remove() of an element that may not be there: what is left, in the order it was in
LEMMA WithdrawFacts ==
  ASSUME NEW S, NEW s \in Seq(S), NEW e, IsInjective(s)
  PROVE  /\ RemoveFirst(s, e) \in Seq(S)
         /\ IsInjective(RemoveFirst(s, e))
         /\ \A x : Contains(RemoveFirst(s, e), x) <=> Contains(s, x) /\ x # e
         /\ \A i, j \in DOMAIN RemoveFirst(s, e) :
              i < j => \E a, b \in DOMAIN s :
                         /\ a < b /\ RemoveFirst(s, e)[i] = s[a]
                         /\ RemoveFirst(s, e)[j] = s[b]
<1>1. CASE Contains(s, e)
  <2> DEFINE r == RemoveFirst(s, e)
  <2>1. PICK k \in 1..Len(s) : s[k] = e
    BY <1>1 DEF Contains
  <2>2. Len(s) \in Nat /\ DOMAIN s = 1..Len(s)
    BY LenProperties
  <2>3. /\ r \in Seq(S) /\ Len(r) = Len(s) - 1
        /\ \A i \in 1..(Len(s) - 1) : r[i] = IF i < k THEN s[i] ELSE s[i + 1]
    <3>1. r = RemoveAt(s, k)
      BY <2>1, <2>2, FirstPosition
    <3> QED
      BY <2>1, <2>2, <3>1, RemoveAtEntries
  <2>4. DOMAIN r = 1..(Len(s) - 1)
    BY <2>3, LenProperties
  <2> HIDE DEF r
  <2>5. ASSUME NEW i \in DOMAIN r, NEW j \in DOMAIN r, i < j
        PROVE  \E a, b \in DOMAIN s : a < b /\ r[i] = s[a] /\ r[j] = s[b]
    <3> DEFINE p(n) == IF n < k THEN n ELSE n + 1
    <3>1. p(i) \in DOMAIN s /\ p(j) \in DOMAIN s /\ p(i) < p(j)
      BY <2>1, <2>2, <2>4, <2>5
    <3>2. r[i] = s[p(i)] /\ r[j] = s[p(j)]
      BY <2>3, <2>4
    <3> QED
      BY <3>1, <3>2
  <2> QED
    BY <1>1, <2>5, RemoveFirstFacts DEF r
<1>2. CASE ~Contains(s, e)
  <2>1. RemoveFirst(s, e) = s
    BY <1>2 DEF RemoveFirst, Contains
  <2> QED
    BY <1>2, <2>1
<1> QED
  BY <1>1, <1>2

\* popleft() of a queue that is not empty
LEMMA TailFacts ==
  ASSUME NEW S, NEW s \in Seq(S), s # <<>>
  PROVE  /\ Head(s) \in S /\ Head(s) = s[1] /\ 1 \in DOMAIN s
         /\ Tail(s) \in Seq(S) /\ Len(Tail(s)) = Len(s) - 1
         /\ \A i \in DOMAIN Tail(s) : i + 1 \in DOMAIN s /\ Tail(s)[i] = s[i + 1]
         /\ IsInjective(s) =>
              /\ IsInjective(Tail(s))
              /\ \A x : Contains(Tail(s), x) <=> Contains(s, x) /\ x # Head(s)
<1>1. /\ Len(s) \in Nat \ {0} /\ DOMAIN s = 1..Len(s) /\ Head(s) = s[1]
      /\ Head(s) \in S /\ Tail(s) \in Seq(S) /\ Len(Tail(s)) = Len(s) - 1
      /\ \A i \in 1..Len(Tail(s)) : Tail(s)[i] = s[i + 1]
  BY EmptySeq, LenProperties, HeadTailProperties
<1> DEFINE r == Tail(s)
<1>2. /\ r \in Seq(S) /\ Len(r) = Len(s) - 1 /\ DOMAIN r = 1..(Len(s) - 1)
      /\ \A i \in 1..(Len(s) - 1) : r[i] = s[i + 1]
  BY <1>1, LenProperties
<1> HIDE DEF r
<1>3. ASSUME IsInjective(s)
      PROVE  /\ IsInjective(r)
             /\ \A x : Contains(r, x) <=> Contains(s, x) /\ x # s[1]
  <2>1. IsInjective(r)
    BY <1>1, <1>2, <1>3 DEF IsInjective
  <2>2. ASSUME NEW x, Contains(r, x) PROVE Contains(s, x) /\ x # s[1]
    <3>1. PICK i \in 1..(Len(s) - 1) : r[i] = x
      BY <1>2, <2>2 DEF Contains
    <3>2. i + 1 \in 1..Len(s) /\ s[i + 1] = x /\ i + 1 # 1
      BY <1>1, <1>2, <3>1
    <3> QED
      BY <1>1, <1>3, <3>2 DEF Contains, IsInjective
  <2>3. ASSUME NEW x, Contains(s, x), x # s[1] PROVE Contains(r, x)
    <3>1. PICK i \in 1..Len(s) : s[i] = x
      BY <2>3 DEF Contains
    <3>2. i - 1 \in 1..(Len(s) - 1) /\ r[i - 1] = x
      BY <1>1, <1>2, <2>3, <3>1
    <3> QED
      BY <1>2, <3>2 DEF Contains
  <2> QED
    BY <2>1, <2>2, <2>3
<1> QED
  BY <1>1, <1>2, <1>3 DEF r

\* The elements at the positions m to n
Between(s, m, n) == {s[i] : i \in m..n}

\* A slice of a queue has the elements at its positions, and no repetition that the queue
\* has not.
LEMMA SliceFacts ==
  ASSUME NEW S, NEW s \in Seq(S), NEW m \in Nat, m # 0, NEW n \in Nat, n <= Len(s)
  PROVE  /\ SubSeq(s, m, n) \in Seq(S)
         /\ Range(SubSeq(s, m, n)) = Between(s, m, n)
         /\ IsInjective(s) => IsInjective(SubSeq(s, m, n))
<1> DEFINE r == SubSeq(s, m, n)
           l == IF m <= n THEN n - m + 1 ELSE 0
<1>1. DOMAIN s = 1..Len(s) /\ Len(s) \in Nat /\ \A i \in 1..Len(s) : s[i] \in S
  BY LenProperties, ElementOfSeq
<1>2. /\ r \in Seq(S) /\ Len(r) = l
      /\ \A i \in 1..(n - m + 1) : r[i] = s[m + i - 1]
  <2>1. \A i \in m..n : s[i] \in S
    BY <1>1
  <2> QED
    BY <2>1, SubSeqProperties
<1>3. DOMAIN r = 1..l
  BY <1>2, LenProperties
<1>4. \A i \in 1..l : i \in 1..(n - m + 1) /\ m + i - 1 \in m..n /\ m + i - 1 \in 1..Len(s)
  BY <1>1
<1> HIDE DEF r, l
<1>5. \A i \in 1..l : r[i] = s[m + i - 1]
  BY <1>2, <1>4
<1>6. ASSUME NEW x, NEW i \in DOMAIN r, x = r[i] PROVE \E j \in m..n : x = s[j]
  BY <1>3, <1>4, <1>5, <1>6
<1>7. ASSUME NEW x, NEW j \in m..n, x = s[j] PROVE \E i \in DOMAIN r : x = r[i]
  <2> DEFINE i == j - m + 1
  <2>1. i \in 1..l /\ m + i - 1 = j
    BY DEF l
  <2> HIDE DEF i
  <2> QED
    BY <1>3, <1>5, <1>7, <2>1
<1>8. ASSUME IsInjective(s) PROVE IsInjective(r)
  <2> SUFFICES ASSUME NEW i \in 1..l, NEW j \in 1..l, r[i] = r[j] PROVE i = j
    BY <1>3 DEF IsInjective
  <2> DEFINE v == m + i - 1
             w == m + j - 1
  <2>1. v \in DOMAIN s /\ w \in DOMAIN s /\ r[i] = s[v] /\ r[j] = s[w]
    BY <1>1, <1>4, <1>5
  <2>2. (v = w => i = j)
    <3>1. i \in Nat /\ j \in Nat
      BY DEF l
    <3> QED
      BY <3>1
  <2> HIDE DEF v, w
  <2>3. v = w
    BY <1>8, <2>1 DEF IsInjective
  <2> QED
    BY <2>2, <2>3
<1>9. Range(r) = Between(s, m, n)
  BY <1>6, <1>7 DEF Range, Between
<1> QED
  BY <1>2, <1>8, <1>9 DEF r
=============================================================================
