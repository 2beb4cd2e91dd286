---------------------------- MODULE ListsProofs ----------------------------
(***************************************************************************)
(* What the list operators return, for every list: types, lengths and the  *)
(* order of what stays.                                                    *)
(***************************************************************************)
EXTENDS Lists, SequenceTheorems, WellFoundedInduction, TLAPS

\* A set of natural numbers that is not empty has a least element, and Min is it.
LEMMA MinIsLeast ==
  ASSUME NEW S \in SUBSET Nat, S # {}
  PROVE  Min(S) \in S /\ \A y \in S : Min(S) <= y
<1>1. PICK x \in S : \A y \in S : ~ (<<y, x>> \in OpToRel(<, Nat))
  BY WFMin, NatLessThanWellFounded
<1>2. \A y \in S : ~ (y < x)
  BY <1>1 DEF OpToRel
<1>3. \A y \in S : x <= y
  BY <1>2
<1>. QED BY <1>3 DEF Min

\* The elements of a concatenation, counted from the start of each part.
LEMMA ConcatElements ==
  ASSUME NEW S, NEW f \in Seq(S), NEW b \in Seq(S)
  PROVE  /\ f \o b \in Seq(S)
         /\ Len(f \o b) = Len(f) + Len(b)
         /\ \A j \in 1..Len(f) : (f \o b)[j] = f[j]
         /\ \A j \in 1..Len(b) : (f \o b)[Len(f) + j] = b[j]
<1>1. Len(f) \in Nat /\ Len(b) \in Nat
  OBVIOUS
<1>2. \A j \in 1..Len(f) : (f \o b)[j] = f[j]
  BY <1>1, ConcatProperties
<1>3. \A j \in 1..Len(b) : (f \o b)[Len(f) + j] = b[j]
  BY <1>1, ConcatProperties
<1>. QED BY <1>1, <1>2, <1>3, ConcatProperties

\* InsertAt and RemoveAt (SequencesExt), element by element.
LEMMA InsertAtElements ==
  ASSUME NEW S, NEW q \in Seq(S), NEW x \in S, NEW i \in 1..(Len(q) + 1)
  PROVE  /\ InsertAt(q, i, x) \in Seq(S)
         /\ Len(InsertAt(q, i, x)) = Len(q) + 1
         /\ \A j \in 1..(Len(q) + 1) :
              InsertAt(q, i, x)[j] = IF j < i THEN q[j]
                                     ELSE IF j = i THEN x ELSE q[j - 1]
<1>1. Len(q) \in Nat /\ \A j \in 1..Len(q) : q[j] \in S
  BY ElementOfSeq
<1>2. PICK front : front = SubSeq(q, 1, i - 1)
  OBVIOUS
<1>3. PICK back : back = SubSeq(q, i, Len(q))
  OBVIOUS
<1>4. front \in Seq(S) /\ Len(front) = i - 1
  BY <1>1, <1>2, SubSeqProperties
<1>4a. \A j \in 1..(i - 1) : front[j] = q[j]
  BY <1>1, <1>2, SubSeqProperties
<1>5. back \in Seq(S) /\ Len(back) = Len(q) - i + 1
  BY <1>1, <1>3, SubSeqProperties
<1>5a. \A j \in 1..(Len(q) - i + 1) : back[j] = q[i + j - 1]
  BY <1>1, <1>3, SubSeqProperties
<1>6. PICK one : one = <<x>>
  OBVIOUS
<1>7. one \in Seq(S) /\ Len(one) = 1
  BY <1>6
<1>7a. one[1] = x
  BY <1>6
<1>8. PICK mid : mid = front \o one
  OBVIOUS
<1>9. PICK r : r = mid \o back
  OBVIOUS
<1>10. InsertAt(q, i, x) = r
  BY <1>2, <1>3, <1>6, <1>8, <1>9 DEF InsertAt
<1>11. mid \in Seq(S) /\ Len(mid) = Len(front) + Len(one)
  BY <1>4, <1>7, <1>8, ConcatElements
<1>11a. /\ \A j \in 1..Len(front) : mid[j] = front[j]
        /\ \A j \in 1..Len(one) : mid[Len(front) + j] = one[j]
  BY <1>4, <1>7, <1>8, ConcatElements
<1>12. r \in Seq(S) /\ Len(r) = Len(mid) + Len(back)
  BY <1>5, <1>9, <1>11, ConcatElements
<1>12a. /\ \A j \in 1..Len(mid) : r[j] = mid[j]
        /\ \A j \in 1..Len(back) : r[Len(mid) + j] = back[j]
  <2>1. mid \in Seq(S) /\ back \in Seq(S)
    BY <1>5, <1>11
  <2>. QED BY <1>9, <2>1, ConcatElements
<1>13. Len(mid) = i /\ mid[i] = x /\ Len(r) = Len(q) + 1
  <2>1. 1 \in 1..Len(one) /\ Len(front) + 1 = i
    BY <1>4, <1>7
  <2>2. mid[Len(front) + 1] = one[1]
    BY <1>11a, <2>1
  <2>. QED BY <1>1, <1>4, <1>5, <1>7, <1>7a, <1>11, <1>12, <2>1, <2>2
<1>14. ASSUME NEW j \in 1..(Len(q) + 1)
       PROVE  r[j] = IF j < i THEN q[j] ELSE IF j = i THEN x ELSE q[j - 1]
  <2>1. CASE j < i
    <3>1. j \in 1..Len(mid) /\ j \in 1..Len(front) /\ j \in 1..(i - 1)
      BY <1>4, <1>13, <2>1
    <3>. QED BY <1>4, <1>4a, <1>11a, <1>12a, <2>1, <3>1
  <2>2. CASE j = i
    <3>1. j \in 1..Len(mid)
      BY <1>13, <2>2
    <3>. QED BY <1>12a, <1>13, <2>2, <3>1
  <2>3. CASE j > i
    <3>. PICK k : k = j - i
      OBVIOUS
    <3>1. /\ k \in 1..Len(back) /\ k \in 1..(Len(q) - i + 1)
          /\ Len(mid) + k = j /\ i + k - 1 = j - 1
      BY <1>1, <1>5, <1>13, <2>3
    <3>2. r[Len(mid) + k] = back[k] /\ back[k] = q[i + k - 1]
      BY <1>5a, <1>12a, <3>1
    <3>. QED BY <2>3, <3>1, <3>2
  <2>. QED BY <2>1, <2>2, <2>3
<1>. QED BY <1>10, <1>12, <1>13, <1>14

\* What RemoveAt returns, element by element.
LEMMA RemoveAtElements ==
  ASSUME NEW S, NEW q \in Seq(S), NEW i \in 1..Len(q)
  PROVE  /\ RemoveAt(q, i) \in Seq(S)
         /\ Len(RemoveAt(q, i)) = Len(q) - 1
         /\ \A j \in 1..(Len(q) - 1) :
              RemoveAt(q, i)[j] = IF j < i THEN q[j] ELSE q[j + 1]
<1>1. Len(q) \in Nat /\ \A j \in 1..Len(q) : q[j] \in S
  BY ElementOfSeq
<1>2. PICK front : front = SubSeq(q, 1, i - 1)
  OBVIOUS
<1>3. PICK back : back = SubSeq(q, i + 1, Len(q))
  OBVIOUS
<1>4. PICK r : r = front \o back
  OBVIOUS
<1>5. RemoveAt(q, i) = r
  BY <1>2, <1>3, <1>4 DEF RemoveAt
<1>6. front \in Seq(S) /\ Len(front) = i - 1
  BY <1>1, <1>2, SubSeqProperties
<1>6a. \A j \in 1..(i - 1) : front[j] = q[j]
  BY <1>1, <1>2, SubSeqProperties
<1>7. back \in Seq(S) /\ Len(back) = Len(q) - i
  BY <1>1, <1>3, SubSeqProperties
<1>7a. \A j \in 1..(Len(q) - i) : back[j] = q[i + j]
  BY <1>1, <1>3, SubSeqProperties
<1>8. r \in Seq(S) /\ Len(r) = Len(front) + Len(back)
  BY <1>4, <1>6, <1>7, ConcatElements
<1>8a. /\ \A j \in 1..Len(front) : r[j] = front[j]
       /\ \A j \in 1..Len(back) : r[Len(front) + j] = back[j]
  <2>1. front \in Seq(S) /\ back \in Seq(S)
    BY <1>6, <1>7
  <2>. QED BY <1>4, <2>1, ConcatElements
<1>9. Len(r) = Len(q) - 1
  BY <1>1, <1>6, <1>7, <1>8
<1>10. ASSUME NEW j \in 1..(Len(q) - 1)
       PROVE  r[j] = IF j < i THEN q[j] ELSE q[j + 1]
  <2>1. CASE j < i
    <3>1. j \in 1..Len(front) /\ j \in 1..(i - 1)
      BY <1>6, <2>1
    <3>. QED BY <1>6a, <1>8a, <2>1, <3>1
  <2>2. CASE j >= i
    <3>. PICK k : k = j - (i - 1)
      OBVIOUS
    <3>1. /\ k \in 1..Len(back) /\ k \in 1..(Len(q) - i)
          /\ Len(front) + k = j /\ i + k = j + 1
      BY <1>1, <1>6, <1>7, <2>2
    <3>2. r[Len(front) + k] = back[k] /\ back[k] = q[i + k]
      BY <1>7a, <1>8a, <3>1
    <3>. QED BY <2>2, <3>1, <3>2
  <2>. QED BY <2>1, <2>2
<1>. QED BY <1>5, <1>8, <1>9, <1>10

\* x is at position k of r, and the elements of q are at the others, in order.
Inserted(r, q, x, k) ==
  \A j \in 1..(Len(q) + 1) :
    r[j] = IF j < k THEN q[j] ELSE IF j = k THEN x ELSE q[j - 1]

\* The insertion loop puts the new element at a position k of its own, moves
\* nothing else, and passes every position that does not stop it.
LEMMA InsertBeforeFirstElements ==
  ASSUME NEW S, NEW q \in Seq(S), NEW x \in S, NEW later \in SUBSET (1..Len(q))
  PROVE  /\ InsertBeforeFirst(q, x, later) \in Seq(S)
         /\ Len(InsertBeforeFirst(q, x, later)) = Len(q) + 1
         /\ \E k \in 1..(Len(q) + 1) :
              /\ \A j \in 1..(k - 1) : j \notin later
              /\ k <= Len(q) => k \in later
              /\ Inserted(InsertBeforeFirst(q, x, later), q, x, k)
<1>0. Len(q) \in Nat
  OBVIOUS
<1>1. CASE later = {}
  <2>1. InsertBeforeFirst(q, x, later) = Append(q, x)
    BY <1>1 DEF InsertBeforeFirst
  <2>2. /\ Append(q, x) \in Seq(S) /\ Len(Append(q, x)) = Len(q) + 1
        /\ \A j \in 1..Len(q) : Append(q, x)[j] = q[j]
        /\ Append(q, x)[Len(q) + 1] = x
    BY AppendProperties
  <2>3. \A j \in 1..(Len(q) + 1) :
          Append(q, x)[j] = IF j < Len(q) + 1 THEN q[j]
                            ELSE IF j = Len(q) + 1 THEN x ELSE q[j - 1]
    BY <1>0, <2>2
  <2>4. Len(q) + 1 \in 1..(Len(q) + 1) /\ ~(Len(q) + 1 <= Len(q))
    BY <1>0
  <2>. QED BY <1>1, <2>1, <2>2, <2>3, <2>4 DEF Inserted
<1>2. CASE later # {}
  <2>0. PICK k : k = Min(later)
    OBVIOUS
  <2>1. k \in later /\ \A j \in later : k <= j
    BY <1>2, <2>0, MinIsLeast
  <2>2. InsertBeforeFirst(q, x, later) = InsertAt(q, k, x)
    BY <1>2, <2>0 DEF InsertBeforeFirst
  <2>3. k \in 1..(Len(q) + 1)
    BY <1>0, <2>1
  <2>4. \A j \in 1..(k - 1) : j \notin later
    BY <1>0, <2>1, <2>3
  <2>5. /\ InsertAt(q, k, x) \in Seq(S)
        /\ Len(InsertAt(q, k, x)) = Len(q) + 1
        /\ \A j \in 1..(Len(q) + 1) :
             InsertAt(q, k, x)[j] = IF j < k THEN q[j]
                                    ELSE IF j = k THEN x ELSE q[j - 1]
    BY <2>3, InsertAtElements
  <2>. QED BY <2>1, <2>2, <2>3, <2>4, <2>5 DEF Inserted
<1>. QED BY <1>1, <1>2

\* What is inserted into, and where, apart: the result is a sequence of the same set.
LEMMA InsertBeforeFirstType ==
  ASSUME NEW S, NEW q \in Seq(S), NEW x \in S, NEW later \in SUBSET (1..Len(q))
  PROVE  InsertBeforeFirst(q, x, later) \in Seq(S)
  BY InsertBeforeFirstElements

\* Whatever delete_list unlinks, what stays keeps its order.
LEMMA DeleteSortedElements ==
  ASSUME NEW S, NEW q \in Seq(S), NEW i \in 1..Len(q), NEW r \in DeleteSorted(q, i)
  PROVE  /\ r \in Seq(S)
         /\ \A a, b \in 1..Len(r) : a < b =>
              \E c, d \in 1..Len(q) : c < d /\ r[a] = q[c] /\ r[b] = q[d]
<1>1. Len(q) \in Nat /\ \A j \in 1..Len(q) : q[j] \in S
  BY ElementOfSeq
<1>2. CASE i = 1
  <2>1. r = Tail(q) /\ q # <<>>
    BY <1>1, <1>2 DEF DeleteSorted
  <2>2. /\ r \in Seq(S) /\ Len(r) = Len(q) - 1
        /\ \A j \in 1..Len(r) : r[j] = q[j + 1]
    BY <2>1, HeadTailProperties
  <2>3. ASSUME NEW a \in 1..Len(r), NEW b \in 1..Len(r), a < b
        PROVE  \E c, d \in 1..Len(q) : c < d /\ r[a] = q[c] /\ r[b] = q[d]
    <3>1. a + 1 \in 1..Len(q) /\ b + 1 \in 1..Len(q) /\ a + 1 < b + 1
      BY <1>1, <2>2, <2>3
    <3>. QED BY <2>2, <3>1
  <2>. QED BY <2>2, <2>3
<1>3. CASE i # 1
  <2>1. PICK j \in 1..(i - 1) : r = SubSeq(q, 1, j) \o SubSeq(q, i + 1, Len(q))
    BY <1>3 DEF DeleteSorted
  <2>2. PICK front : front = SubSeq(q, 1, j)
    OBVIOUS
  <2>3. PICK back : back = SubSeq(q, i + 1, Len(q))
    OBVIOUS
  <2>4. front \in Seq(S) /\ Len(front) = j
    BY <1>1, <2>2, SubSeqProperties
  <2>4a. \A a \in 1..j : front[a] = q[a]
    BY <1>1, <2>2, SubSeqProperties
  <2>5. back \in Seq(S) /\ Len(back) = Len(q) - i
    BY <1>1, <2>3, SubSeqProperties
  <2>5a. \A a \in 1..(Len(q) - i) : back[a] = q[i + a]
    BY <1>1, <2>3, SubSeqProperties
  <2>6. r \in Seq(S) /\ Len(r) = Len(front) + Len(back)
    BY <2>1, <2>2, <2>3, <2>4, <2>5, ConcatElements
  <2>6a. /\ \A a \in 1..Len(front) : r[a] = front[a]
         /\ \A a \in 1..Len(back) : r[Len(front) + a] = back[a]
    BY <2>1, <2>2, <2>3, <2>4, <2>5, ConcatElements
  <2>. DEFINE pos(n) == IF n <= j THEN n ELSE i + (n - j)
  <2>7. ASSUME NEW n \in 1..Len(r)
        PROVE  pos(n) \in 1..Len(q) /\ r[n] = q[pos(n)]
    <3>1. CASE n <= j
      <4>1. n \in 1..j /\ n \in 1..Len(front) /\ n \in 1..Len(q)
        BY <1>1, <2>4, <3>1
      <4>. QED BY <2>4a, <2>6a, <3>1, <4>1
    <3>2. CASE n > j
      <4>. PICK m : m = n - j
        OBVIOUS
      <4>1. /\ m \in 1..Len(back) /\ m \in 1..(Len(q) - i)
            /\ Len(front) + m = n /\ i + m \in 1..Len(q)
        BY <1>1, <2>4, <2>5, <2>6, <3>2
      <4>2. r[Len(front) + m] = back[m] /\ back[m] = q[i + m]
        BY <2>5a, <2>6a, <4>1
      <4>3. pos(n) = i + m
        BY <1>1, <2>6, <3>2
      <4>. QED BY <4>1, <4>2, <4>3
    <3>. QED BY <3>1, <3>2
  <2>8. \A a, b \in 1..Len(r) : a < b => pos(a) < pos(b)
    OBVIOUS
  <2>. HIDE DEF pos
  <2>. QED BY <2>6, <2>7, <2>8
<1>. QED BY <1>2, <1>3

-----------------------------------------------------------------------------
(* Lists in order of a key of their elements. *)

InOrder(q, key) == \A i, j \in DOMAIN q : i < j => key[q[i]] <= key[q[j]]

\* The insertion loop keeps the order, when it stops at the first greater key.
LEMMA InsertKeepsOrder ==
  ASSUME NEW S, NEW key \in [S -> Nat], NEW q \in Seq(S), NEW x \in S,
         NEW later \in SUBSET (1..Len(q))
  PROVE  /\ InOrder(q, key)
         /\ \A i \in 1..Len(q) : i \in later <=> key[q[i]] > key[x]
         => InOrder(InsertBeforeFirst(q, x, later), key)
<1>0. /\ InsertBeforeFirst(q, x, later) \in Seq(S)
      /\ Len(InsertBeforeFirst(q, x, later)) = Len(q) + 1
      /\ \E k \in 1..(Len(q) + 1) :
           /\ \A j \in 1..(k - 1) : j \notin later
           /\ k <= Len(q) => k \in later
           /\ Inserted(InsertBeforeFirst(q, x, later), q, x, k)
  BY InsertBeforeFirstElements
<1>. HAVE InOrder(q, key) /\ \A i \in 1..Len(q) : i \in later <=> key[q[i]] > key[x]
<1>1. DOMAIN q = 1..Len(q) /\ Len(q) \in Nat
  BY LenProperties
<1>2. \A i \in 1..Len(q) : q[i] \in S /\ key[q[i]] \in Nat
  BY ElementOfSeq
<1>3. key[x] \in Nat
  OBVIOUS
<1>4. PICK r : r = InsertBeforeFirst(q, x, later)
  OBVIOUS
<1>5. PICK k \in 1..(Len(q) + 1) :
        /\ \A j \in 1..(k - 1) : j \notin later
        /\ k <= Len(q) => k \in later
        /\ Inserted(r, q, x, k)
  BY <1>0, <1>4
<1>6. \A j \in 1..(Len(q) + 1) :
        r[j] = IF j < k THEN q[j] ELSE IF j = k THEN x ELSE q[j - 1]
  BY <1>5 DEF Inserted
<1>7. \A i, j \in 1..Len(q) : i < j => key[q[i]] <= key[q[j]]
  BY <1>1 DEF InOrder
<1>8. \A i \in 1..Len(q) : i < k => key[q[i]] <= key[x]
  BY <1>1, <1>2, <1>3, <1>5
<1>9. \A i \in 1..Len(q) : i >= k => key[x] <= key[q[i]]
  BY <1>1, <1>2, <1>3, <1>5, <1>7
<1>10. ASSUME NEW i \in 1..(Len(q) + 1), NEW j \in 1..(Len(q) + 1), i < j
       PROVE  key[r[i]] <= key[r[j]]
  <2>1. CASE j < k
    <3>1. r[i] = q[i] /\ r[j] = q[j] /\ i \in 1..Len(q) /\ j \in 1..Len(q)
      BY <1>1, <1>6, <1>10, <2>1
    <3>. QED BY <1>7, <1>10, <3>1
  <2>2. CASE j = k
    <3>1. r[i] = q[i] /\ r[j] = x /\ i \in 1..Len(q) /\ i < k
      BY <1>1, <1>6, <1>10, <2>2
    <3>. QED BY <1>8, <3>1
  <2>3. CASE j > k /\ i < k
    <3>1. r[i] = q[i] /\ r[j] = q[j - 1] /\ i \in 1..Len(q) /\ j - 1 \in 1..Len(q)
      BY <1>1, <1>6, <1>10, <2>3
    <3>2. i < j - 1
      BY <1>1, <2>3
    <3>. QED BY <1>7, <3>1, <3>2
  <2>4. CASE j > k /\ i = k
    <3>1. r[i] = x /\ r[j] = q[j - 1] /\ j - 1 \in 1..Len(q) /\ j - 1 >= k
      BY <1>1, <1>6, <1>10, <2>4
    <3>. QED BY <1>9, <3>1
  <2>5. CASE j > k /\ i > k
    <3>1. /\ r[i] = q[i - 1] /\ r[j] = q[j - 1]
          /\ i - 1 \in 1..Len(q) /\ j - 1 \in 1..Len(q) /\ i - 1 < j - 1
      BY <1>1, <1>6, <1>10, <2>5
    <3>. QED BY <1>7, <3>1
  <2>. QED BY <1>1, <1>10, <2>1, <2>2, <2>3, <2>4, <2>5
<1>11. DOMAIN r = 1..(Len(q) + 1)
  BY <1>0, <1>4, LenProperties
<1>. QED BY <1>4, <1>10, <1>11 DEF InOrder

\* So does pop.
LEMMA TailKeepsOrder ==
  ASSUME NEW S, NEW key \in [S -> Nat], NEW q \in Seq(S), q # <<>>, InOrder(q, key)
  PROVE  InOrder(Tail(q), key)
<1>1. /\ Len(q) \in Nat /\ DOMAIN q = 1..Len(q) /\ Len(Tail(q)) = Len(q) - 1
      /\ Tail(q) \in Seq(S)
      /\ \A i \in 1..(Len(q) - 1) : Tail(q)[i] = q[i + 1]
  BY HeadTailProperties, LenProperties
<1>2. DOMAIN Tail(q) = 1..(Len(q) - 1)
  BY <1>1, LenProperties
<1>3. ASSUME NEW i \in 1..(Len(q) - 1), NEW j \in 1..(Len(q) - 1), i < j
      PROVE  key[Tail(q)[i]] <= key[Tail(q)[j]]
  <2>1. i + 1 \in DOMAIN q /\ j + 1 \in DOMAIN q /\ i + 1 < j + 1
    BY <1>1, <1>3
  <2>. QED BY <1>1, <2>1 DEF InOrder
<1>. QED BY <1>2, <1>3 DEF InOrder

\* So does delete_list, however many elements it takes along.
LEMMA DeleteKeepsOrder ==
  ASSUME NEW S, NEW key \in [S -> Nat], NEW q \in Seq(S), InOrder(q, key),
         NEW i \in 1..Len(q), NEW r \in DeleteSorted(q, i)
  PROVE  InOrder(r, key)
<1>1. /\ r \in Seq(S)
      /\ \A a, b \in 1..Len(r) : a < b =>
           \E c, d \in 1..Len(q) : c < d /\ r[a] = q[c] /\ r[b] = q[d]
  BY DeleteSortedElements
<1>2. DOMAIN r = 1..Len(r) /\ DOMAIN q = 1..Len(q)
  BY <1>1, LenProperties
<1>3. ASSUME NEW a \in 1..Len(r), NEW b \in 1..Len(r), a < b
      PROVE  key[r[a]] <= key[r[b]]
  <2>1. PICK c \in 1..Len(q), d \in 1..Len(q) : c < d /\ r[a] = q[c] /\ r[b] = q[d]
    BY <1>1, <1>3
  <2>2. key[q[c]] <= key[q[d]]
    BY <1>2, <2>1 DEF InOrder
  <2>. QED BY <2>1, <2>2
<1>. QED BY <1>2, <1>3 DEF InOrder

-----------------------------------------------------------------------------
(* Lists as sets: what they hold, and that they hold nothing twice. *)

\* find.
LEMMA ContainsElements ==
  ASSUME NEW S, NEW q \in Seq(S), NEW x
  PROVE  /\ Contains(q, x) <=> x \in ToSet(q)
         /\ ToSet(q) \subseteq S
<1>1. DOMAIN q = 1..Len(q)
  BY LenProperties
<1>2. \A i \in 1..Len(q) : q[i] \in S
  BY ElementOfSeq
<1>. QED BY <1>1, <1>2 DEF Contains, ToSet

\* A list made of q and x, with x at a position of its own, holds what q held and x.
LEMMA InsertedSet ==
  ASSUME NEW S, NEW q \in Seq(S), NEW x, NEW r \in Seq(S), Len(r) = Len(q) + 1,
         NEW k \in 1..(Len(q) + 1), Inserted(r, q, x, k)
  PROVE  /\ ToSet(r) = ToSet(q) \cup {x}
         /\ IsInjective(q) /\ x \notin ToSet(q) => IsInjective(r)
<1>1. /\ DOMAIN q = 1..Len(q) /\ Len(q) \in Nat
      /\ DOMAIN r = 1..(Len(q) + 1)
  BY LenProperties
<1>2. \A j \in 1..(Len(q) + 1) :
        r[j] = IF j < k THEN q[j] ELSE IF j = k THEN x ELSE q[j - 1]
  BY DEF Inserted
<1>. DEFINE from(j) == IF j < k THEN j ELSE j - 1
<1>3. \A j \in 1..(Len(q) + 1) : j # k => from(j) \in 1..Len(q) /\ r[j] = q[from(j)]
  BY <1>1, <1>2
<1>4. r[k] = x
  BY <1>1, <1>2
<1>5. \A i \in 1..Len(q) : \E j \in 1..(Len(q) + 1) : j # k /\ r[j] = q[i]
  <2>1. ASSUME NEW i \in 1..Len(q)
        PROVE  \E j \in 1..(Len(q) + 1) : j # k /\ r[j] = q[i]
    <3>1. CASE i < k
      BY <1>1, <1>2, <3>1
    <3>2. CASE i >= k
      <4>1. i + 1 \in 1..(Len(q) + 1) /\ ~(i + 1 < k) /\ i + 1 # k /\ (i + 1) - 1 = i
        BY <1>1, <3>2
      <4>. QED BY <1>2, <4>1
    <3>. QED BY <1>1, <3>1, <3>2
  <2>. QED BY <2>1
<1>6. \A i, j \in 1..(Len(q) + 1) : i # k /\ j # k /\ from(i) = from(j) => i = j
  BY <1>1
<1>. HIDE DEF from
<1>7. ToSet(r) = ToSet(q) \cup {x}
  <2>1. \A j \in 1..(Len(q) + 1) : r[j] \in ToSet(q) \cup {x}
    BY <1>1, <1>3, <1>4 DEF ToSet
  <2>2. \A i \in 1..Len(q) : q[i] \in ToSet(r)
    BY <1>1, <1>5 DEF ToSet
  <2>3. x \in ToSet(r)
    BY <1>1, <1>4 DEF ToSet
  <2>4. ToSet(r) \subseteq ToSet(q) \cup {x}
    BY <1>1, <2>1 DEF ToSet
  <2>5. ToSet(q) \subseteq ToSet(r)
    BY <1>1, <2>2 DEF ToSet
  <2>. QED BY <2>3, <2>4, <2>5
<1>8. ASSUME IsInjective(q), x \notin ToSet(q)
      PROVE  IsInjective(r)
  <2>1. \A i \in 1..Len(q) : q[i] # x
    BY <1>1, <1>8 DEF ToSet
  <2>2. \A i, j \in 1..Len(q) : q[i] = q[j] => i = j
    BY <1>1, <1>8 DEF IsInjective
  <2>. QED BY <1>1, <1>3, <1>4, <1>6, <2>1, <2>2 DEF IsInjective
<1>. QED BY <1>7, <1>8

\* The insertion loop adds one element, and keeps a list without repetitions one.
LEMMA InsertSet ==
  ASSUME NEW S, NEW q \in Seq(S), NEW x \in S, NEW later \in SUBSET (1..Len(q))
  PROVE  /\ ToSet(InsertBeforeFirst(q, x, later)) = ToSet(q) \cup {x}
         /\ IsInjective(q) /\ x \notin ToSet(q)
              => IsInjective(InsertBeforeFirst(q, x, later))
<1>1. PICK r : r = InsertBeforeFirst(q, x, later)
  OBVIOUS
<1>2. /\ r \in Seq(S) /\ Len(r) = Len(q) + 1
      /\ \E k \in 1..(Len(q) + 1) : Inserted(r, q, x, k)
  BY <1>1, InsertBeforeFirstElements
<1>. QED BY <1>1, <1>2, InsertedSet

\* So does push.
LEMMA AppendSet ==
  ASSUME NEW S, NEW q \in Seq(S), NEW x \in S
  PROVE  /\ ToSet(Append(q, x)) = ToSet(q) \cup {x}
         /\ IsInjective(q) /\ x \notin ToSet(q) => IsInjective(Append(q, x))
<1>1. /\ Append(q, x) \in Seq(S) /\ Len(Append(q, x)) = Len(q) + 1
      /\ \A j \in 1..Len(q) : Append(q, x)[j] = q[j]
      /\ Append(q, x)[Len(q) + 1] = x
      /\ Len(q) \in Nat
  BY AppendProperties
<1>2. Len(q) + 1 \in 1..(Len(q) + 1) /\ Inserted(Append(q, x), q, x, Len(q) + 1)
  BY <1>1 DEF Inserted
<1>. QED BY <1>1, <1>2, InsertedSet

\* pop takes the first element, which is nowhere else in a list without repetitions.
LEMMA TailSet ==
  ASSUME NEW S, NEW q \in Seq(S), q # <<>>, IsInjective(q)
  PROVE  /\ Head(q) \in ToSet(q)
         /\ ToSet(Tail(q)) = ToSet(q) \ {Head(q)}
         /\ IsInjective(Tail(q))
<1>1. /\ Len(q) \in Nat /\ DOMAIN q = 1..Len(q) /\ Tail(q) \in Seq(S)
      /\ Len(Tail(q)) = Len(q) - 1 /\ Head(q) = q[1]
      /\ \A i \in 1..(Len(q) - 1) : Tail(q)[i] = q[i + 1]
  BY HeadTailProperties, LenProperties
<1>2. DOMAIN Tail(q) = 1..(Len(q) - 1)
  BY <1>1, LenProperties
<1>3. 1 \in 1..Len(q)
  BY <1>1, EmptySeq
<1>4. \A i \in 1..Len(q) : i # 1 => i - 1 \in 1..(Len(q) - 1) /\ (i - 1) + 1 = i
  BY <1>1
<1>5. \A i \in 1..(Len(q) - 1) : i + 1 \in 1..Len(q) /\ i + 1 # 1
  BY <1>1
<1>6. \A i, j \in 1..Len(q) : q[i] = q[j] => i = j
  BY <1>1 DEF IsInjective
<1>7. ToSet(Tail(q)) = ToSet(q) \ {Head(q)}
  <2>1. \A x \in ToSet(Tail(q)) : x \in ToSet(q) /\ x # q[1]
    BY <1>1, <1>2, <1>3, <1>5, <1>6 DEF ToSet
  <2>2. \A x \in ToSet(q) : x # q[1] => x \in ToSet(Tail(q))
    <3>1. ASSUME NEW i \in 1..Len(q), q[i] # q[1] PROVE q[i] \in ToSet(Tail(q))
      <4>1. i # 1
        BY <3>1
      <4>2. Tail(q)[i - 1] = q[i] /\ i - 1 \in DOMAIN Tail(q)
        BY <1>1, <1>2, <1>4, <4>1
      <4>. QED BY <4>2 DEF ToSet
    <3>. QED BY <1>1, <3>1 DEF ToSet
  <2>. QED BY <1>1, <2>1, <2>2
<1>8. IsInjective(Tail(q))
  <2>1. ASSUME NEW i \in 1..(Len(q) - 1), NEW j \in 1..(Len(q) - 1),
               Tail(q)[i] = Tail(q)[j]
        PROVE  i = j
    <3>1. q[i + 1] = q[j + 1]
      BY <1>1, <2>1
    <3>2. i + 1 = j + 1
      BY <1>5, <1>6, <3>1
    <3>. QED BY <1>1, <3>2
  <2>. QED BY <1>2, <2>1 DEF IsInjective
<1>. QED BY <1>1, <1>3, <1>7, <1>8 DEF ToSet

\* delete_list takes one position out of a list without repetitions.
LEMMA RemoveAtSet ==
  ASSUME NEW S, NEW q \in Seq(S), NEW k \in 1..Len(q), IsInjective(q)
  PROVE  /\ ToSet(RemoveAt(q, k)) = ToSet(q) \ {q[k]}
         /\ IsInjective(RemoveAt(q, k))
<1>1. PICK r : r = RemoveAt(q, k)
  OBVIOUS
<1>2. /\ r \in Seq(S) /\ Len(r) = Len(q) - 1 /\ Len(q) \in Nat
      /\ \A j \in 1..(Len(q) - 1) : r[j] = IF j < k THEN q[j] ELSE q[j + 1]
  <2>1. r \in Seq(S)
    BY <1>1, RemoveAtElements
  <2>2. Len(r) = Len(q) - 1
    BY <1>1, RemoveAtElements
  <2>3. \A j \in 1..(Len(q) - 1) : r[j] = IF j < k THEN q[j] ELSE q[j + 1]
    BY <1>1, RemoveAtElements
  <2>. QED BY <2>1, <2>2, <2>3
<1>3. DOMAIN q = 1..Len(q) /\ DOMAIN r = 1..(Len(q) - 1)
  <2>1. DOMAIN r = 1..Len(r)
    BY <1>2, LenProperties
  <2>. QED BY <1>2, <2>1, LenProperties
<1>4. \A i, j \in 1..Len(q) : q[i] = q[j] => i = j
  BY <1>3 DEF IsInjective
<1>. DEFINE from(j) == IF j < k THEN j ELSE j + 1
<1>5. ASSUME NEW j \in 1..(Len(q) - 1)
      PROVE  from(j) \in 1..Len(q) /\ from(j) # k /\ r[j] = q[from(j)]
  <2>1. CASE j < k
    BY <1>2, <2>1
  <2>2. CASE j >= k
    <3>1. from(j) = j + 1 /\ j + 1 \in 1..Len(q) /\ j + 1 # k
      BY <1>2, <2>2
    <3>2. r[j] = q[j + 1]
      BY <1>2, <2>2
    <3>. QED BY <3>1, <3>2
  <2>. QED BY <2>1, <2>2
<1>6. \A i, j \in 1..(Len(q) - 1) : from(i) = from(j) => i = j
  BY <1>2
<1>7. \A i \in 1..Len(q) : i # k => \E j \in 1..(Len(q) - 1) : r[j] = q[i]
  <2>1. ASSUME NEW i \in 1..Len(q), i # k
        PROVE  \E j \in 1..(Len(q) - 1) : r[j] = q[i]
    <3>1. CASE i < k
      <4>1. i \in 1..(Len(q) - 1)
        BY <1>2, <3>1
      <4>. QED BY <1>2, <3>1, <4>1
    <3>2. CASE i > k
      <4>1. i - 1 \in 1..(Len(q) - 1) /\ ~(i - 1 < k) /\ (i - 1) + 1 = i
        BY <1>2, <3>2
      <4>. QED BY <1>2, <4>1
    <3>. QED BY <1>2, <2>1, <3>1, <3>2
  <2>. QED BY <2>1
<1>. HIDE DEF from
<1>8. ToSet(r) = ToSet(q) \ {q[k]}
  <2>1. \A j \in 1..(Len(q) - 1) : r[j] \in ToSet(q) \ {q[k]}
    BY <1>3, <1>4, <1>5 DEF ToSet
  <2>2. \A i \in 1..Len(q) : q[i] # q[k] => q[i] \in ToSet(r)
    BY <1>3, <1>7 DEF ToSet
  <2>3. ToSet(r) \subseteq ToSet(q) \ {q[k]}
    BY <1>3, <2>1 DEF ToSet
  <2>4. ToSet(q) \ {q[k]} \subseteq ToSet(r)
    BY <1>3, <2>2 DEF ToSet
  <2>. QED BY <2>3, <2>4
<1>9. IsInjective(r)
  BY <1>3, <1>4, <1>5, <1>6 DEF IsInjective
<1>. QED BY <1>1, <1>8, <1>9

\* delete_list cuts a list without repetitions off before one of its positions.
LEMMA PrefixSet ==
  ASSUME NEW S, NEW q \in Seq(S), NEW k \in 1..Len(q), IsInjective(q)
  PROVE  /\ ToSet(SubSeq(q, 1, k - 1)) \subseteq ToSet(q) \ {q[k]}
         /\ IsInjective(SubSeq(q, 1, k - 1))
<1>1. Len(q) \in Nat /\ DOMAIN q = 1..Len(q)
  BY LenProperties
<1>2. PICK r : r = SubSeq(q, 1, k - 1)
  OBVIOUS
<1>3. r \in Seq(S) /\ Len(r) = k - 1 /\ \A i \in 1..(k - 1) : r[i] = q[i]
  BY <1>1, <1>2
<1>4. DOMAIN r = 1..(k - 1)
  BY <1>3, LenProperties
<1>5. \A i \in 1..(k - 1) : i \in 1..Len(q) /\ i # k
  BY <1>1
<1>6. \A i, j \in 1..Len(q) : q[i] = q[j] => i = j
  BY <1>1 DEF IsInjective
<1>7. IsInjective(r)
  BY <1>3, <1>4, <1>5, <1>6 DEF IsInjective
<1>8. \A i \in 1..(k - 1) : r[i] \in ToSet(q) \ {q[k]}
  BY <1>1, <1>3, <1>5, <1>6 DEF ToSet
<1>. QED BY <1>2, <1>4, <1>7, <1>8 DEF ToSet

=============================================================================
