----------------------------- MODULE QueueProofs -----------------------------
(***************************************************************************)
(* What the operators on queues return, for queues of any length.  The     *)
(* induction is over a set of numbers, which needs no operator parameter:  *)
(* it rests on the well-foundedness of < on Nat.                           *)
(***************************************************************************)
EXTENDS Queues, WellFoundedInduction, TLAPS

(* Every set of naturals that is not empty has a least element.            *)
LEMMA NatMinimum ==
  ASSUME NEW B, B \subseteq Nat, B # {}
  PROVE  \E x \in B : \A y \in B : x <= y
<1> DEFINE L == {ss \in Nat \X Nat : ss[1] < ss[2]}
<1>1. IsWellFoundedOn(L, Nat)
  BY NatLessThanWellFounded DEF OpToRel
<1> HIDE DEF L
<1>2. PICK x \in B : \A y \in B : ~ (<<y, x>> \in L)
  BY ONLY <1>1, B \subseteq Nat, B # {}, WFMin
<1>3. ASSUME NEW y \in B PROVE x <= y
  <2>1. x \in Nat /\ y \in Nat /\ ~ (<<y, x>> \in L)
    BY <1>2
  <2> QED
    BY <2>1 DEF L
<1> QED
  BY <1>2, <1>3

(* Induction over the naturals, for a set.                                 *)
LEMMA NatSetInduction ==
  ASSUME NEW T, 0 \in T, \A n \in Nat : n \in T => n + 1 \in T
  PROVE  Nat \subseteq T
<1> DEFINE B == Nat \ T
<1>1. SUFFICES ASSUME B # {} PROVE FALSE
  OBVIOUS
<1>2. B \subseteq Nat
  OBVIOUS
<1> HIDE DEF B
<1>3. PICK x \in B : \A y \in B : x <= y
  BY <1>1, <1>2, NatMinimum
<1>4. x \in Nat /\ x # 0 /\ x - 1 \in Nat
  BY <1>3 DEF B
<1>5. x - 1 \in B
  BY <1>3, <1>4 DEF B
<1> QED
  BY <1>3, <1>4, <1>5

-----------------------------------------------------------------------------
(* The definition of Keeping(q, S)[n] from the function g.                 *)
KeptOf(g, q, S, n) ==
  IF n = 0 THEN << >> ELSE IF q[n] \in S THEN Append(g[n - 1], q[n]) ELSE g[n - 1]

(* There is a function that satisfies the recursion.                       *)
LEMMA KeptExists ==
  ASSUME NEW q, Len(q) \in Nat, NEW S
  PROVE  \E g : g = [n \in 0 .. Len(q) |-> KeptOf(g, q, S, n)]
<1> DEFINE T == {k \in Nat : \E g : g = [n \in 0 .. k |-> KeptOf(g, q, S, n)]}
<1>1. 0 \in T
  <2>1. [n \in 0 .. 0 |-> << >>] = [n \in 0 .. 0 |-> KeptOf([i \in 0 .. 0 |-> << >>], q, S, n)]
    BY DEF KeptOf
  <2> QED
    BY <2>1
<1>2. ASSUME NEW k \in Nat, k \in T PROVE k + 1 \in T
  <2>1. PICK h : h = [n \in 0 .. k |-> KeptOf(h, q, S, n)]
    BY <1>2
  <2>2. \A i \in 0 .. k : h[i] = KeptOf(h, q, S, i)
    BY <2>1, Zenon
  <2> DEFINE g == [n \in 0 .. k + 1 |-> IF n <= k THEN h[n] ELSE KeptOf(h, q, S, n)]
  <2>3. ASSUME NEW n \in 0 .. k + 1 PROVE g[n] = KeptOf(g, q, S, n)
    <3>1. n # 0 => n - 1 \in 0 .. k + 1 /\ n - 1 <= k /\ g[n - 1] = h[n - 1]
      OBVIOUS
    <3>2. KeptOf(g, q, S, n) = KeptOf(h, q, S, n)
      BY <3>1 DEF KeptOf
    <3> QED
      BY <2>2, <3>2
  <2>4. g = [n \in 0 .. k + 1 |-> KeptOf(g, q, S, n)]
    BY <2>3
  <2> HIDE DEF g
  <2>5. \E f : f = [n \in 0 .. k + 1 |-> KeptOf(f, q, S, n)]
    BY <2>4, Zenon
  <2> QED
    BY <2>5
<1> HIDE DEF T
<1>3. Len(q) \in T
  BY <1>1, <1>2, NatSetInduction
<1> QED
  BY <1>3 DEF T

(* So Keeping satisfies it.                                                *)
LEMMA KeepingRecursion ==
  ASSUME NEW q, Len(q) \in Nat, NEW S, NEW n \in 0 .. Len(q)
  PROVE  Keeping(q, S)[n] = KeptOf(Keeping(q, S), q, S, n)
<1>1. \E g : g = [i \in 0 .. Len(q) |-> KeptOf(g, q, S, i)]
  BY KeptExists
<1>2. Keeping(q, S) = CHOOSE g : g = [i \in 0 .. Len(q) |-> KeptOf(g, q, S, i)]
  BY Zenon DEF Keeping, KeptOf
<1>3. Keeping(q, S) = [i \in 0 .. Len(q) |-> KeptOf(Keeping(q, S), q, S, i)]
  BY <1>1, <1>2, Zenon
<1> QED
  BY <1>3, Zenon

(* Appending adds an element after the others.                             *)
LEMMA AppendRange ==
  ASSUME NEW A, NEW r \in Seq(A), NEW x \in A
  PROVE  /\ Append(r, x) \in Seq(A) /\ DOMAIN Append(r, x) = 1 .. Len(r) + 1
         /\ \A i \in 1 .. Len(r) : Append(r, x)[i] = r[i]
         /\ Append(r, x)[Len(r) + 1] = x
         /\ Range(Append(r, x)) = Range(r) \cup {x}
<1>1. /\ Append(r, x) \in Seq(A) /\ DOMAIN Append(r, x) = 1 .. Len(r) + 1
      /\ \A i \in 1 .. Len(r) : Append(r, x)[i] = r[i]
      /\ Append(r, x)[Len(r) + 1] = x
      /\ DOMAIN r = 1 .. Len(r) /\ Len(r) \in Nat
  OBVIOUS
<1>2. \A i \in 1 .. Len(r) + 1 : i \in 1 .. Len(r) \/ i = Len(r) + 1
  BY <1>1
<1>3. 1 .. Len(r) \subseteq 1 .. Len(r) + 1 /\ Len(r) + 1 \in 1 .. Len(r) + 1
  BY <1>1
<1> QED
  BY <1>1, <1>2, <1>3, Zenon DEF Range

(* Filter returns the elements of the queue that are in S, in their order. *)
LEMMA FilterProperties ==
  ASSUME NEW A, NEW q \in Seq(A), NEW S
  PROVE  /\ Filter(q, S) \in Seq(A)
         /\ Range(Filter(q, S)) = Range(q) \cap S
         /\ \A R : InOrder(q, R) => InOrder(Filter(q, S), R)
<1> DEFINE k == Keeping(q, S)
           Good(n) == /\ k[n] \in Seq(A)
                      /\ \A x : x \in Range(k[n]) <=> x \in S /\ \E i \in 1 .. n : x = q[i]
                      /\ \A R : InOrder(q, R) => InOrder(k[n], R)
           T == {n \in Nat : n <= Len(q) => Good(n)}
<1>1. Len(q) \in Nat /\ DOMAIN q = 1 .. Len(q) /\ \A i \in 1 .. Len(q) : q[i] \in A
  OBVIOUS
<1>r. \A n \in 0 .. Len(q) : k[n] = IF n = 0 THEN << >>
                               ELSE IF q[n] \in S THEN Append(k[n - 1], q[n]) ELSE k[n - 1]
  BY <1>1, KeepingRecursion DEF KeptOf
<1> HIDE DEF k
<1>2. 0 \in T
  <2>1. k[0] = << >>
    BY <1>1, <1>r
  <2>2. << >> \in Seq(A) /\ Range(<< >>) = {} /\ \A R : InOrder(<< >>, R)
    BY DEF Range, InOrder
  <2>3. Good(0)
    BY <2>1, <2>2
  <2> QED
    BY <2>3
<1>3. ASSUME NEW n \in Nat, n \in T PROVE n + 1 \in T
  <2>1. SUFFICES ASSUME n + 1 <= Len(q) PROVE Good(n + 1)
    OBVIOUS
  <2>2. Good(n)
    BY <1>1, <1>3, <2>1
  <2>3. k[n + 1] = IF q[n + 1] \in S THEN Append(k[n], q[n + 1]) ELSE k[n]
    BY <1>1, <1>r, <2>1
  <2>4. CASE q[n + 1] \notin S
    BY <1>1, <2>1, <2>2, <2>3, <2>4
  <2>5. CASE q[n + 1] \in S
    <3> DEFINE r == k[n]
               t == k[n + 1]
    <3>1. r \in Seq(A) /\ Len(r) \in Nat /\ DOMAIN r = 1 .. Len(r)
      BY <2>2
    <3>2. t = Append(r, q[n + 1]) /\ q[n + 1] \in A
      BY <1>1, <2>1, <2>3, <2>5
    <3>3. /\ \A x : x \in Range(r) <=> x \in S /\ \E i \in 1 .. n : x = q[i]
          /\ \A R : InOrder(q, R) => InOrder(r, R)
      BY <2>2
    <3> HIDE DEF r, t
    <3>4. /\ t \in Seq(A) /\ DOMAIN t = 1 .. Len(r) + 1
          /\ \A i \in 1 .. Len(r) : t[i] = r[i]
          /\ t[Len(r) + 1] = q[n + 1]
          /\ Range(t) = Range(r) \cup {q[n + 1]}
      BY <3>1, <3>2, AppendRange
    <3>5. \A x : x \in Range(t) <=> x \in S /\ \E i \in 1 .. n + 1 : x = q[i]
      BY <2>5, <3>3, <3>4
    <3>6. ASSUME NEW R, InOrder(q, R) PROVE InOrder(t, R)
      <4>1. \A i \in 1 .. Len(r) : <<r[i], q[n + 1]>> \in R
        <5>1. \A i \in 1 .. n : <<q[i], q[n + 1]>> \in R
          BY <1>1, <2>1, <3>6 DEF InOrder
        <5>2. \A i \in 1 .. Len(r) : r[i] \in Range(r)
          BY <3>1 DEF Range
        <5> QED
          BY <3>3, <5>1, <5>2
      <4>2. \A i, j \in 1 .. Len(r) : i < j => <<r[i], r[j]>> \in R
        BY <3>1, <3>3, <3>6 DEF InOrder
      <4>3. \A i, j \in 1 .. Len(r) + 1 : i < j => <<t[i], t[j]>> \in R
        <5>1. SUFFICES ASSUME NEW i \in 1 .. Len(r) + 1, NEW j \in 1 .. Len(r) + 1, i < j
                       PROVE  <<t[i], t[j]>> \in R
          OBVIOUS
        <5>2. i \in 1 .. Len(r) /\ t[i] = r[i]
          BY <3>1, <3>4, <5>1
        <5>3. CASE j \in 1 .. Len(r)
          BY <3>4, <4>2, <5>1, <5>2, <5>3
        <5>4. CASE j = Len(r) + 1
          BY <3>4, <4>1, <5>2, <5>4
        <5> QED
          BY <3>1, <5>3, <5>4
      <4> QED
        BY <3>4, <4>3 DEF InOrder
    <3> QED
      BY <3>4, <3>5, <3>6 DEF t
  <2> QED
    BY <2>4, <2>5
<1> HIDE DEF T
<1>4. Len(q) \in T
  BY <1>1, <1>2, <1>3, NatSetInduction
<1>5. Good(Len(q))
  BY <1>1, <1>4 DEF T
<1> HIDE DEF Good
<1>6. Filter(q, S) = k[Len(q)]
  BY DEF Filter, k
<1>7. \A x : x \in Range(q) <=> \E i \in 1 .. Len(q) : x = q[i]
  BY <1>1 DEF Range
<1> QED
  BY <1>5, <1>6, <1>7, Zenon DEF Good

(* A queue in which no element comes twice, as an order.                   *)
LEMMA OnceIsOrder ==
  ASSUME NEW A, NEW q \in Seq(A)
  PROVE  Once(q) <=> InOrder(q, {p \in A \X A : p[1] # p[2]})
<1>1. DOMAIN q = 1 .. Len(q) /\ Len(q) \in Nat /\ \A i \in 1 .. Len(q) : q[i] \in A
  OBVIOUS
<1>2. ASSUME Once(q) PROVE InOrder(q, {p \in A \X A : p[1] # p[2]})
  BY <1>1, <1>2 DEF Once, InOrder
<1>3. ASSUME InOrder(q, {p \in A \X A : p[1] # p[2]}) PROVE Once(q)
  <2>1. \A i, j \in 1 .. Len(q) : i < j => q[i] # q[j]
    BY <1>1, <1>3 DEF InOrder
  <2> QED
    BY <1>1, <2>1 DEF Once
<1> QED
  BY <1>2, <1>3

LEMMA FilterOnce ==
  ASSUME NEW A, NEW q \in Seq(A), NEW S, Once(q)
  PROVE  Once(Filter(q, S))
BY FilterProperties, OnceIsOrder

(* Unlinking elements leaves the others, in their order.                   *)
LEMMA WithoutProperties ==
  ASSUME NEW A, NEW q \in Seq(A), NEW D
  PROVE  /\ Without(q, D) \in Seq(A)
         /\ Range(Without(q, D)) = Range(q) \ D
         /\ \A R : InOrder(q, R) => InOrder(Without(q, D), R)
         /\ Once(q) => Once(Without(q, D))
BY FilterProperties, FilterOnce DEF Without

-----------------------------------------------------------------------------
(* The elements of a queue.                                                *)
LEMMA RangeType ==
  ASSUME NEW A, NEW q \in Seq(A)
  PROVE  /\ Len(q) \in Nat /\ DOMAIN q = 1 .. Len(q)
         /\ Range(q) \subseteq A
         /\ \A i \in 1 .. Len(q) : q[i] \in Range(q)
         /\ \A x \in Range(q) : \E i \in 1 .. Len(q) : x = q[i]
         /\ Range(q) = {} <=> q = << >>
<1>1. Len(q) \in Nat /\ DOMAIN q = 1 .. Len(q)
  OBVIOUS
<1>2. \A i \in 1 .. Len(q) : q[i] \in A
  OBVIOUS
<1>3. /\ \A i \in 1 .. Len(q) : q[i] \in Range(q)
      /\ \A x \in Range(q) : \E i \in 1 .. Len(q) : x = q[i]
  BY <1>1 DEF Range
<1>4. q # << >> => 1 \in 1 .. Len(q)
  BY <1>1
<1>5. Range(<< >>) = {}
  BY DEF Range
<1> QED
  BY <1>1, <1>2, <1>3, <1>4, <1>5

(* Queues put one after the other.                                         *)
LEMMA ConcatRange ==
  ASSUME NEW A, NEW q \in Seq(A), NEW r \in Seq(A)
  PROVE  /\ q \o r \in Seq(A)
         /\ Range(q \o r) = Range(q) \cup Range(r)
         /\ Once(q) /\ Once(r) /\ Range(q) \cap Range(r) = {} => Once(q \o r)
<1> DEFINE t == q \o r
<1>1. /\ Len(q) \in Nat /\ Len(r) \in Nat /\ t \in Seq(A) /\ Len(t) = Len(q) + Len(r)
      /\ DOMAIN q = 1 .. Len(q) /\ DOMAIN r = 1 .. Len(r) /\ DOMAIN t = 1 .. Len(t)
      /\ \A i \in 1 .. Len(t) : t[i] = IF i <= Len(q) THEN q[i] ELSE r[i - Len(q)]
  OBVIOUS
<1> HIDE DEF t
<1>2. \A i \in 1 .. Len(q) : i \in 1 .. Len(t) /\ t[i] = q[i]
  BY <1>1
<1>3. \A i \in 1 .. Len(r) : i + Len(q) \in 1 .. Len(t) /\ t[i + Len(q)] = r[i]
  <2>1. SUFFICES ASSUME NEW i \in 1 .. Len(r)
                 PROVE  i + Len(q) \in 1 .. Len(t) /\ t[i + Len(q)] = r[i]
    OBVIOUS
  <2>2. i + Len(q) \in 1 .. Len(t) /\ ~ (i + Len(q) <= Len(q)) /\ (i + Len(q)) - Len(q) = i
    BY <1>1
  <2> QED
    BY <1>1, <2>2
<1>4. \A i \in 1 .. Len(t) : \/ i \in 1 .. Len(q) /\ t[i] = q[i]
                             \/ i - Len(q) \in 1 .. Len(r) /\ t[i] = r[i - Len(q)]
  BY <1>1
<1>5. Range(t) = Range(q) \cup Range(r)
  <2>1. /\ \A x : x \in Range(q) <=> \E i \in 1 .. Len(q) : x = q[i]
        /\ \A x : x \in Range(r) <=> \E i \in 1 .. Len(r) : x = r[i]
        /\ \A x : x \in Range(t) <=> \E i \in 1 .. Len(t) : x = t[i]
    BY <1>1, Zenon DEF Range
  <2>2. ASSUME NEW x \in Range(t) PROVE x \in Range(q) \cup Range(r)
    <3>1. PICK i \in 1 .. Len(t) : x = t[i]
      BY ONLY <2>1, <2>2, Zenon
    <3>2. CASE i \in 1 .. Len(q) /\ t[i] = q[i]
      BY ONLY <2>1, <3>1, <3>2, Zenon
    <3>3. CASE i - Len(q) \in 1 .. Len(r) /\ t[i] = r[i - Len(q)]
      BY ONLY <2>1, <3>1, <3>3, Zenon
    <3> QED
      BY ONLY <1>4, <3>1, <3>2, <3>3, Zenon
  <2>3. \A x \in Range(q) : x \in Range(t)
    BY <1>2, <2>1
  <2>4. ASSUME NEW x \in Range(r) PROVE x \in Range(t)
    <3>1. PICK i \in 1 .. Len(r) : x = r[i]
      BY ONLY <2>1, <2>4, Zenon
    <3>2. i + Len(q) \in 1 .. Len(t) /\ x = t[i + Len(q)]
      BY ONLY <1>3, <3>1, Zenon
    <3> QED
      BY ONLY <2>1, <3>2, Zenon
  <2> QED
    BY <2>2, <2>3, <2>4
<1>6. ASSUME Once(q), Once(r), Range(q) \cap Range(r) = {} PROVE Once(t)
  <2>1. SUFFICES ASSUME NEW i \in 1 .. Len(t), NEW j \in 1 .. Len(t), t[i] = t[j]
                 PROVE  i = j
    BY <1>1 DEF Once
  <2>2. \A a \in 1 .. Len(q), b \in 1 .. Len(r) : q[a] # r[b]
    BY <1>6, RangeType
  <2>3. \A a, b \in 1 .. Len(q) : q[a] = q[b] => a = b
    BY <1>1, <1>6 DEF Once
  <2>4. \A a, b \in 1 .. Len(r) : r[a] = r[b] => a = b
    BY <1>1, <1>6 DEF Once
  <2>5. CASE i \in 1 .. Len(q) /\ t[i] = q[i]
    BY <1>4, <2>1, <2>2, <2>3, <2>5
  <2>6. CASE i - Len(q) \in 1 .. Len(r) /\ t[i] = r[i - Len(q)]
    <3>1. j - Len(q) \in 1 .. Len(r) /\ t[j] = r[j - Len(q)]
      BY <1>4, <2>1, <2>2, <2>6
    <3>2. i - Len(q) = j - Len(q)
      BY <2>1, <2>4, <2>6, <3>1
    <3> QED
      BY <1>1, <3>2
  <2> QED
    BY <1>4, <2>5, <2>6
<1> QED
  BY <1>1, <1>5, <1>6 DEF t

(* A queue cut in two.                                                     *)
LEMMA CutRange ==
  ASSUME NEW A, NEW q \in Seq(A), NEW k \in 0 .. Len(q)
  PROVE  LET a == SubSeq(q, 1, k)
             b == SubSeq(q, k + 1, Len(q))
         IN  /\ a \in Seq(A) /\ b \in Seq(A) /\ Range(q) = Range(a) \cup Range(b)
             /\ Once(q) => Once(a) /\ Once(b) /\ Range(a) \cap Range(b) = {}
             /\ \A R : InOrder(q, R) => InOrder(b, R)
<1> DEFINE a == SubSeq(q, 1, k)
           b == SubSeq(q, k + 1, Len(q))
<1>1. Len(q) \in Nat /\ DOMAIN q = 1 .. Len(q) /\ k \in Nat /\ k <= Len(q)
  OBVIOUS
<1>2. a \in Seq(A) /\ Len(a) = k /\ DOMAIN a = 1 .. k /\ \A i \in 1 .. k : a[i] = q[i]
  BY <1>1
<1>3. /\ b \in Seq(A) /\ Len(b) = Len(q) - k /\ DOMAIN b = 1 .. Len(q) - k
      /\ \A i \in 1 .. Len(q) - k : b[i] = q[i + k]
  <2>1. k + 1 \in 1 .. Len(q) + 1 /\ Len(q) \in (k + 1) - 1 .. Len(q)
    BY <1>1
  <2>2. /\ b \in Seq(A) /\ Len(b) = Len(q) - (k + 1) + 1
        /\ \A i \in 1 .. Len(q) - (k + 1) + 1 : b[i] = q[(k + 1) + i - 1]
    BY <2>1
  <2>3. Len(q) - (k + 1) + 1 = Len(q) - k
    BY <1>1
  <2>4. \A i \in 1 .. Len(q) - k : (k + 1) + i - 1 = i + k
    BY <1>1
  <2>5. DOMAIN b = 1 .. Len(b)
    BY <2>2
  <2> HIDE DEF b
  <2>6. \A i \in 1 .. Len(q) - k : b[i] = q[i + k]
    BY <2>2, <2>3, <2>4
  <2> QED
    BY <2>2, <2>3, <2>5, <2>6
<1> HIDE DEF a, b
<1>4. \A i \in 1 .. Len(q) : \/ i \in 1 .. k /\ a[i] = q[i]
                             \/ i - k \in 1 .. Len(q) - k /\ b[i - k] = q[i]
  BY <1>1, <1>2, <1>3
<1>e. /\ \A x : x \in Range(q) <=> \E i \in 1 .. Len(q) : x = q[i]
      /\ \A x : x \in Range(a) <=> \E i \in 1 .. k : x = a[i]
      /\ \A x : x \in Range(b) <=> \E i \in 1 .. Len(q) - k : x = b[i]
  BY <1>1, <1>2, <1>3, Zenon DEF Range
<1>5. Range(q) = Range(a) \cup Range(b)
  <2>1. ASSUME NEW x \in Range(q) PROVE x \in Range(a) \cup Range(b)
    <3>1. PICK i \in 1 .. Len(q) : x = q[i]
      BY ONLY <1>e, <2>1, Zenon
    <3>2. CASE i \in 1 .. k /\ a[i] = q[i]
      BY ONLY <1>e, <3>1, <3>2, Zenon
    <3>3. CASE i - k \in 1 .. Len(q) - k /\ b[i - k] = q[i]
      BY ONLY <1>e, <3>1, <3>3, Zenon
    <3> QED
      BY ONLY <1>4, <3>1, <3>2, <3>3, Zenon
  <2>2. \A x \in Range(a) : x \in Range(q)
    <3>1. 1 .. k \subseteq 1 .. Len(q)
      BY <1>1
    <3> QED
      BY <1>e, <1>2, <3>1
  <2>3. ASSUME NEW x \in Range(b) PROVE x \in Range(q)
    <3>1. \A i \in 1 .. Len(q) - k : i + k \in 1 .. Len(q)
      BY <1>1
    <3>2. PICK i \in 1 .. Len(q) - k : x = b[i]
      BY ONLY <1>e, <2>3, Zenon
    <3>3. i + k \in 1 .. Len(q) /\ x = q[i + k]
      BY ONLY <1>3, <3>1, <3>2, Zenon
    <3> QED
      BY ONLY <1>e, <3>3, Zenon
  <2> QED
    BY <2>1, <2>2, <2>3
<1>6. ASSUME Once(q) PROVE Once(a) /\ Once(b) /\ Range(a) \cap Range(b) = {}
  <2>1. \A i, j \in 1 .. Len(q) : q[i] = q[j] => i = j
    BY <1>1, <1>6 DEF Once
  <2>2. Once(a)
    BY <1>1, <1>2, <2>1 DEF Once
  <2>3. Once(b)
    BY <1>1, <1>3, <2>1 DEF Once
  <2>4. \A i \in 1 .. k, j \in 1 .. Len(q) - k : a[i] # b[j]
    BY <1>1, <1>2, <1>3, <2>1
  <2> QED
    BY <1>e, <2>2, <2>3, <2>4
<1>7. ASSUME NEW R, InOrder(q, R) PROVE InOrder(b, R)
  <2>1. \A i, j \in 1 .. Len(q) : i < j => <<q[i], q[j]>> \in R
    BY <1>1, <1>7 DEF InOrder
  <2>2. \A i, j \in 1 .. Len(q) - k : i < j => <<b[i], b[j]>> \in R
    <3>1. SUFFICES ASSUME NEW i \in 1 .. Len(q) - k, NEW j \in 1 .. Len(q) - k, i < j
                   PROVE  <<b[i], b[j]>> \in R
      OBVIOUS
    <3>2. /\ i + k \in 1 .. Len(q) /\ j + k \in 1 .. Len(q) /\ i + k < j + k
          /\ b[i] = q[i + k] /\ b[j] = q[j + k]
      BY <1>1, <1>3, <3>1
    <3> QED
      BY <2>1, <3>2
  <2> QED
    BY <1>3, <2>2 DEF InOrder
<1> QED
  BY <1>2, <1>3, <1>5, <1>6, <1>7 DEF a, b

(* A queue with an element inserted at a position.                         *)
LEMMA InsertRange ==
  ASSUME NEW A, NEW q \in Seq(A), NEW e \in A, NEW k \in 1 .. Len(q) + 1
  PROVE  LET t == InsertBefore(q, k, e)
         IN  /\ t \in Seq(A) /\ DOMAIN t = 1 .. Len(q) + 1
             /\ \A i \in 1 .. Len(q) + 1 :
                   t[i] = IF i < k THEN q[i] ELSE IF i = k THEN e ELSE q[i - 1]
             /\ Range(t) = Range(q) \cup {e}
             /\ Once(q) /\ e \notin Range(q) => Once(t)
<1> DEFINE a == SubSeq(q, 1, k - 1)
           b == SubSeq(q, k, Len(q))
           t == InsertBefore(q, k, e)
<1>1. Len(q) \in Nat /\ DOMAIN q = 1 .. Len(q) /\ k \in Nat /\ k - 1 \in 0 .. Len(q)
  OBVIOUS
<1>2. /\ a \in Seq(A) /\ b \in Seq(A) /\ Range(q) = Range(a) \cup Range(b)
      /\ Once(q) => Once(a) /\ Once(b) /\ Range(a) \cap Range(b) = {}
  <2>1. b = SubSeq(q, (k - 1) + 1, Len(q))
    BY <1>1
  <2> QED
    BY <1>1, <2>1, CutRange
<1>3. Len(a) = k - 1 /\ \A i \in 1 .. k - 1 : a[i] = q[i]
  BY <1>1
<1>4. Len(b) = Len(q) - k + 1 /\ \A i \in 1 .. Len(q) - k + 1 : b[i] = q[k + i - 1]
  <2>1. \A i \in k .. Len(q) : q[i] \in A
    BY <1>1
  <2>2. Len(b) = IF k <= Len(q) THEN Len(q) - k + 1 ELSE 0
    BY <1>1, <2>1
  <2>3. \A i \in 1 .. Len(q) - k + 1 : b[i] = q[k + i - 1]
    BY <1>1, <2>1
  <2> QED
    BY <1>1, <2>2, <2>3
<1>5. t = (a \o <<e>>) \o b
  BY DEF InsertBefore
<1> HIDE DEF a, b, t
<1>6. /\ <<e>> \in Seq(A) /\ Len(<<e>>) = 1 /\ <<e>>[1] = e
      /\ Range(<<e>>) = {e} /\ Once(<<e>>)
  <2>1. <<e>> \in Seq(A) /\ Len(<<e>>) = 1 /\ <<e>>[1] = e /\ DOMAIN <<e>> = {1}
    OBVIOUS
  <2> QED
    BY <2>1, Zenon DEF Range, Once
<1> DEFINE c == a \o <<e>>
<1>7. /\ c \in Seq(A) /\ Range(c) = Range(a) \cup {e}
      /\ Once(a) /\ e \notin Range(a) => Once(c)
  <2>1. a \in Seq(A) /\ <<e>> \in Seq(A)
    BY <1>2, <1>6
  <2> DEFINE one == <<e>>
  <2> HIDE DEF one
  <2>a. one \in Seq(A)
    BY ONLY <2>1, Zenon DEF one
  <2>b. /\ a \o one \in Seq(A) /\ Range(a \o one) = Range(a) \cup Range(one)
        /\ Once(a) /\ Once(one) /\ Range(a) \cap Range(one) = {} => Once(a \o one)
    BY ONLY <2>1, <2>a, ConcatRange
  <2>2. /\ c \in Seq(A) /\ Range(c) = Range(a) \cup Range(<<e>>)
        /\ Once(a) /\ Once(<<e>>) /\ Range(a) \cap Range(<<e>>) = {} => Once(c)
    BY ONLY <2>b, Zenon DEF one
  <2> QED
    BY <1>6, <2>2
<1>8. Len(c) = k /\ \A i \in 1 .. k : c[i] = IF i < k THEN q[i] ELSE e
  <2>1. Len(c) = Len(a) + 1 /\ \A i \in 1 .. Len(a) + 1 : c[i] = IF i <= Len(a) THEN a[i] ELSE <<e>>[i - Len(a)]
    BY <1>2, <1>6
  <2>2. \A i \in 1 .. k : IF i < k THEN i <= Len(a) /\ i \in 1 .. k - 1 ELSE ~ (i <= Len(a)) /\ i - Len(a) = 1
    BY <1>1, <1>3
  <2>3. Len(a) + 1 = k
    BY <1>1, <1>3
  <2> QED
    BY <1>3, <1>6, <2>1, <2>2, <2>3
<1> HIDE DEF c
<1>9. /\ t \in Seq(A) /\ Range(t) = Range(c) \cup Range(b)
      /\ Once(c) /\ Once(b) /\ Range(c) \cap Range(b) = {} => Once(t)
  <2>1. c \in Seq(A) /\ b \in Seq(A) /\ t = c \o b
    BY <1>2, <1>5, <1>7 DEF c
  <2> QED
    BY ONLY <2>1, ConcatRange
<1>10. Len(t) = Len(q) + 1 /\ \A i \in 1 .. Len(q) + 1 :
                   t[i] = IF i < k THEN q[i] ELSE IF i = k THEN e ELSE q[i - 1]
  <2>1. Len(t) = Len(c) + Len(b) /\ \A i \in 1 .. Len(c) + Len(b) :
              t[i] = IF i <= Len(c) THEN c[i] ELSE b[i - Len(c)]
    BY <1>2, <1>5, <1>7 DEF c
  <2>2. Len(c) + Len(b) = Len(q) + 1
    BY <1>1, <1>4, <1>8
  <2>3. \A i \in 1 .. Len(q) + 1 :
          i > k => i - k \in 1 .. Len(q) - k + 1 /\ k + (i - k) - 1 = i - 1
    BY <1>1
  <2>4. ASSUME NEW i \in 1 .. Len(q) + 1, i > k PROVE t[i] = q[i - 1]
    BY <1>1, <1>4, <1>8, <2>1, <2>2, <2>3, <2>4
  <2>5. ASSUME NEW i \in 1 .. Len(q) + 1, i <= k PROVE t[i] = IF i < k THEN q[i] ELSE e
    BY <1>1, <1>8, <2>1, <2>2, <2>5
  <2> QED
    BY <1>1, <2>1, <2>2, <2>4, <2>5
<1>11. DOMAIN t = 1 .. Len(t)
  BY <1>9
<1>12. Range(t) = Range(q) \cup {e} /\ (Once(q) /\ e \notin Range(q) => Once(t))
  BY <1>2, <1>7, <1>9
<1> QED
  BY <1>9, <1>10, <1>11, <1>12 DEF t

(* The head of a queue, and what is left without it.                       *)
LEMMA TailRange ==
  ASSUME NEW A, NEW q \in Seq(A), q # << >>
  PROVE  /\ Head(q) \in Range(q) /\ Head(q) \in A /\ Head(q) = q[1] /\ Tail(q) \in Seq(A)
         /\ Range(q) = {Head(q)} \cup Range(Tail(q))
         /\ Once(q) => Once(Tail(q)) /\ Head(q) \notin Range(Tail(q))
<1> DEFINE t == Tail(q)
<1>1. /\ Len(q) \in Nat /\ Len(q) > 0 /\ DOMAIN q = 1 .. Len(q)
      /\ Head(q) = q[1] /\ q[1] \in A
  OBVIOUS
<1>2. /\ t \in Seq(A) /\ DOMAIN t = 1 .. Len(q) - 1
      /\ \A i \in 1 .. Len(q) - 1 : t[i] = q[i + 1]
  BY <1>1
<1> HIDE DEF t
<1>3. /\ \A x : x \in Range(q) <=> \E i \in 1 .. Len(q) : x = q[i]
      /\ \A x : x \in Range(t) <=> \E i \in 1 .. Len(q) - 1 : x = t[i]
  BY <1>1, <1>2, Zenon DEF Range
<1>4. \A i \in 1 .. Len(q) : i = 1 \/ (i - 1 \in 1 .. Len(q) - 1 /\ q[i] = t[i - 1])
  BY <1>1, <1>2
<1>5. 1 \in 1 .. Len(q) /\ \A i \in 1 .. Len(q) - 1 : i + 1 \in 1 .. Len(q)
  BY <1>1
<1>6. Range(q) = {Head(q)} \cup Range(t)
  <2>1. \A x \in Range(q) : x = Head(q) \/ x \in Range(t)
    BY <1>1, <1>3, <1>4
  <2>2. \A x \in Range(t) : x \in Range(q)
    BY <1>2, <1>3, <1>5
  <2>3. Head(q) \in Range(q)
    BY <1>1, <1>3, <1>5
  <2> QED
    BY <2>1, <2>2, <2>3
<1>7. ASSUME Once(q) PROVE Once(t) /\ Head(q) \notin Range(t)
  <2>1. \A i, j \in 1 .. Len(q) : q[i] = q[j] => i = j
    BY <1>1, <1>7 DEF Once
  <2>2. Once(t)
    BY <1>1, <1>2, <2>1 DEF Once
  <2>3. \A i \in 1 .. Len(q) - 1 : t[i] # q[1]
    BY <1>1, <1>2, <1>5, <2>1
  <2> QED
    BY <1>1, <1>3, <2>2, <2>3
<1> QED
  BY <1>1, <1>2, <1>6, <1>7 DEF t

-----------------------------------------------------------------------------
(* The definition of Joining(ss)[n] from the function g.                   *)
Joined(g, ss, n) == IF n = 0 THEN << >> ELSE g[n - 1] \o ss[n]

(* There is a function that satisfies the recursion.                       *)
LEMMA JoinedExists ==
  ASSUME NEW ss, Len(ss) \in Nat
  PROVE  \E g : g = [n \in 0 .. Len(ss) |-> Joined(g, ss, n)]
<1> DEFINE T == {k \in Nat : \E g : g = [n \in 0 .. k |-> Joined(g, ss, n)]}
<1>1. 0 \in T
  <2>1. [n \in 0 .. 0 |-> << >>] = [n \in 0 .. 0 |-> Joined([i \in 0 .. 0 |-> << >>], ss, n)]
    BY DEF Joined
  <2> QED
    BY <2>1
<1>2. ASSUME NEW k \in Nat, k \in T PROVE k + 1 \in T
  <2>1. PICK h : h = [n \in 0 .. k |-> Joined(h, ss, n)]
    BY <1>2
  <2>2. \A n \in 0 .. k : h[n] = Joined(h, ss, n)
    BY <2>1, Zenon
  <2> DEFINE g == [n \in 0 .. k + 1 |-> IF n <= k THEN h[n] ELSE Joined(h, ss, n)]
  <2>3. ASSUME NEW n \in 0 .. k + 1 PROVE g[n] = Joined(g, ss, n)
    <3>1. n # 0 => n - 1 \in 0 .. k + 1 /\ n - 1 <= k /\ g[n - 1] = h[n - 1]
      OBVIOUS
    <3>2. Joined(g, ss, n) = Joined(h, ss, n)
      BY <3>1 DEF Joined
    <3> QED
      BY <2>2, <3>2
  <2>4. g = [n \in 0 .. k + 1 |-> Joined(g, ss, n)]
    BY <2>3
  <2> HIDE DEF g
  <2>5. \E f : f = [n \in 0 .. k + 1 |-> Joined(f, ss, n)]
    BY <2>4, Zenon
  <2> QED
    BY <2>5
<1> HIDE DEF T
<1>3. Len(ss) \in T
  BY <1>1, <1>2, NatSetInduction
<1> QED
  BY <1>3 DEF T

(* So Joining satisfies it.                                                *)
LEMMA JoiningRecursion ==
  ASSUME NEW ss, Len(ss) \in Nat, NEW n \in 0 .. Len(ss)
  PROVE  Joining(ss)[n] = Joined(Joining(ss), ss, n)
<1>1. \E g : g = [i \in 0 .. Len(ss) |-> Joined(g, ss, i)]
  BY JoinedExists
<1>2. Joining(ss) = CHOOSE g : g = [i \in 0 .. Len(ss) |-> Joined(g, ss, i)]
  BY Zenon DEF Joining, Joined
<1>3. Joining(ss) = [i \in 0 .. Len(ss) |-> Joined(Joining(ss), ss, i)]
  BY <1>1, <1>2, Zenon
<1> QED
  BY <1>3, Zenon

(* Queues put together have the elements of all of them, each once if no   *)
(* two of them share one.                                                  *)
LEMMA ConcatAllRange ==
  ASSUME NEW A, NEW n \in Nat, NEW ss \in [1 .. n -> Seq(A)]
  PROVE  /\ Concat(ss) \in Seq(A)
         /\ \A x : x \in Range(Concat(ss)) <=> \E i \in 1 .. n : x \in Range(ss[i])
         /\ /\ \A i \in 1 .. n : Once(ss[i])
            /\ \A i, j \in 1 .. n : i # j => Range(ss[i]) \cap Range(ss[j]) = {}
            => Once(Concat(ss))
<1> DEFINE g == Joining(ss)
           Apart == /\ \A i \in 1 .. n : Once(ss[i])
                    /\ \A i, j \in 1 .. n : i # j => Range(ss[i]) \cap Range(ss[j]) = {}
           Good(k) == /\ g[k] \in Seq(A)
                      /\ \A x : x \in Range(g[k]) <=> \E i \in 1 .. k : x \in Range(ss[i])
                      /\ Apart => Once(g[k])
           T == {k \in Nat : k <= n => Good(k)}
<1>1. Len(ss) = n
  OBVIOUS
<1>2. \A k \in 0 .. n : g[k] = IF k = 0 THEN << >> ELSE g[k - 1] \o ss[k]
  BY <1>1, JoiningRecursion DEF Joined
<1>3. Concat(ss) = g[n]
  BY <1>1 DEF Concat
<1> HIDE DEF g
<1>4. 0 \in T
  <2>1. << >> \in Seq(A) /\ Range(<< >>) = {} /\ Once(<< >>)
    BY DEF Range, Once
  <2>2. g[0] = << >> /\ 1 .. 0 = {}
    BY <1>2
  <2> QED
    BY <2>1, <2>2
<1> HIDE DEF Good
<1>5. ASSUME NEW m \in Nat, m \in T PROVE m + 1 \in T
  <2>1. SUFFICES ASSUME m + 1 <= n PROVE Good(m + 1)
    OBVIOUS
  <2>2. m <= n
    BY <2>1
  <2>3. Good(m)
    BY ONLY <1>5, <2>2
  <2>4. m + 1 \in 1 .. n /\ m + 1 \in 0 .. n /\ m + 1 # 0 /\ (m + 1) - 1 = m
    BY <2>1
  <2>5. g[m + 1] = g[m] \o ss[m + 1]
    BY <1>2, <2>4
  <2>6. g[m] \in Seq(A) /\ ss[m + 1] \in Seq(A)
    BY <2>3, <2>4 DEF Good
  <2>7. /\ \A x : x \in Range(g[m]) <=> \E i \in 1 .. m : x \in Range(ss[i])
        /\ Apart => Once(g[m])
    BY <2>3 DEF Good
  <2> HIDE DEF Apart
  <2>8. /\ g[m + 1] \in Seq(A)
        /\ Range(g[m + 1]) = Range(g[m]) \cup Range(ss[m + 1])
        /\ Once(g[m]) /\ Once(ss[m + 1]) /\ Range(g[m]) \cap Range(ss[m + 1]) = {}
           => Once(g[m + 1])
    BY <2>5, <2>6, ConcatRange
  <2>9. \A x : x \in Range(g[m + 1]) <=> \E i \in 1 .. m + 1 : x \in Range(ss[i])
    <3>1. \A i \in 1 .. m + 1 : i \in 1 .. m \/ i = m + 1
      BY <2>4
    <3>2. 1 .. m \subseteq 1 .. m + 1 /\ m + 1 \in 1 .. m + 1
      BY <2>4
    <3> QED
      BY <2>7, <2>8, <3>1, <3>2
  <2>10. ASSUME Apart PROVE Once(g[m + 1])
    <3>1. \A i \in 1 .. m : i \in 1 .. n /\ i # m + 1
      BY <2>4
    <3>2. Once(ss[m + 1]) /\ \A i \in 1 .. m : Range(ss[i]) \cap Range(ss[m + 1]) = {}
      BY <2>4, <2>10, <3>1 DEF Apart
    <3>3. Range(g[m]) \cap Range(ss[m + 1]) = {}
      BY <2>7, <3>2
    <3> QED
      BY <2>7, <2>8, <2>10, <3>2, <3>3
  <2> QED
    BY <2>8, <2>9, <2>10 DEF Good
<1> HIDE DEF T
<1>6. n \in T
  BY <1>4, <1>5, NatSetInduction
<1>7. Good(n)
  BY <1>6 DEF T
<1> QED
  BY <1>3, <1>7 DEF Good

-----------------------------------------------------------------------------
(* Where a search ends.                                                    *)
LEMMA FirstProperties ==
  ASSUME NEW A, NEW q \in Seq(A), NEW S, NEW n, n = First(q, S)
  PROVE  /\ n \in 1 .. Len(q) + 1
         /\ n <= Len(q) => q[n] \in S
         /\ \A i \in 1 .. n - 1 : q[i] \notin S
<1> DEFINE P(k) == (k <= Len(q) => q[k] \in S) /\ \A i \in 1 .. k - 1 : q[i] \notin S
           B == {k \in 1 .. Len(q) + 1 : k <= Len(q) => q[k] \in S}
<1>1. Len(q) \in Nat
  OBVIOUS
<1>2. Len(q) + 1 \in B /\ B \subseteq Nat
  BY <1>1
<1>3. PICK k \in B : \A y \in B : k <= y
  BY <1>2, NatMinimum
<1>4. k \in 1 .. Len(q) + 1 /\ (k <= Len(q) => q[k] \in S)
  BY <1>3
<1>5. ASSUME NEW i \in 1 .. k - 1 PROVE q[i] \notin S
  <2>1. i \in 1 .. Len(q) + 1 /\ ~ (k <= i)
    BY <1>1, <1>4
  <2> QED
    BY <1>3, <2>1
<1>6. \E j \in 1 .. Len(q) + 1 : P(j)
  BY <1>4, <1>5
<1>7. n = CHOOSE j \in 1 .. Len(q) + 1 : P(j)
  BY DEF First
<1> HIDE DEF P
<1>8. n \in 1 .. Len(q) + 1 /\ P(n)
  BY <1>6, <1>7, Zenon
<1> QED
  BY <1>8 DEF P
=============================================================================
