---------------------------- MODULE QueueLemmas ----------------------------
(***************************************************************************)
(* What the operations of dart:collection's Queue (addLast, removeFirst,   *)
(* remove) do to the elements of a queue without repetitions.              *)
(***************************************************************************)
EXTENDS DartQueue, SequenceTheorems, FiniteSetTheorems, WellFoundedInduction, TLAPS

\* A queue that holds no request twice.
Injective(s) == \A i, j \in 1 .. Len(s) : s[i] = s[j] => i = j

(* An empty queue has no elements. *)
LEMMA EmptyQueue == Range(<<>>) = {}
BY DEF Range

(* addLast puts a new request behind the others of the line. *)
LEMMA AppendToQueue ==
  ASSUME NEW S, NEW s \in Seq(S), NEW x \in S, x \notin Range(s), Injective(s)
  PROVE  /\ Append(s, x) \in Seq(S)
         /\ Injective(Append(s, x))
         /\ Range(Append(s, x)) = Range(s) \cup {x}
<1> DEFINE t == Append(s, x)
<1>1. t \in Seq(S) /\ Len(t) = Len(s) + 1 /\ t[Len(t)] = x
  OBVIOUS
<1>2. \A i \in 1 .. Len(s) : t[i] = s[i]
  OBVIOUS
<1>3. \A i \in 1 .. Len(s) : s[i] # x
  BY DEF Range
<1>4. Injective(t)
  BY <1>1, <1>2, <1>3 DEF Injective
<1>5. Range(t) = Range(s) \cup {x}
  <2>1. DOMAIN t = 1 .. Len(t) /\ DOMAIN s = 1 .. Len(s)
    OBVIOUS
  <2>2. 1 .. Len(t) = (1 .. Len(s)) \cup {Len(t)}
    BY <1>1
  <2> QED
    BY <1>1, <1>2, <2>1, <2>2 DEF Range
<1> QED
  BY <1>1, <1>4, <1>5

(* removeFirst takes exactly the head out of a queue. *)
LEMMA TailOfQueue ==
  ASSUME NEW S, NEW s \in Seq(S), s # <<>>, Injective(s)
  PROVE  /\ Tail(s) \in Seq(S)
         /\ Head(s) \in Range(s)
         /\ Injective(Tail(s))
         /\ Range(Tail(s)) = Range(s) \ {Head(s)}
<1> DEFINE t == Tail(s)
<1>1. Len(s) >= 1 /\ Head(s) = s[1]
  OBVIOUS
<1>2. t \in Seq(S) /\ Len(t) = Len(s) - 1
  OBVIOUS
<1>3. \A i \in 1 .. Len(t) : t[i] = s[i + 1]
  OBVIOUS
<1>4. Injective(t)
  BY <1>1, <1>2, <1>3 DEF Injective
<1>5. DOMAIN t = 1 .. Len(t) /\ DOMAIN s = 1 .. Len(s)
  OBVIOUS
<1>6. \A i \in 2 .. Len(s) : s[i] # s[1]
  BY <1>1 DEF Injective
<1>7. Range(t) \subseteq Range(s) \ {Head(s)}
  BY <1>1, <1>2, <1>3, <1>5, <1>6 DEF Range
<1>8. ASSUME NEW e \in Range(s) \ {Head(s)}
      PROVE  e \in Range(t)
  <2>1. PICK i \in 1 .. Len(s) : e = s[i]
    BY <1>5 DEF Range
  <2>2. i - 1 \in 1 .. Len(t)
    BY <1>1, <1>2, <2>1
  <2>3. t[i - 1] = e
    BY <1>3, <2>1, <2>2
  <2> QED
    BY Zenon, <1>5, <2>2, <2>3 DEF Range
<1> QED
  BY <1>1, <1>2, <1>4, <1>5, <1>7, <1>8 DEF Range

(* Queue.remove closes the gap that one request leaves. *)
LEMMA RemoveClosesGap ==
  ASSUME NEW S, NEW s \in Seq(S), NEW e \in Range(s), Injective(s)
  PROVE  \E p \in 1 .. Len(s) :
           /\ s[p] = e
           /\ Remove(s, e) \in Seq(S) /\ Len(Remove(s, e)) = Len(s) - 1
           /\ \A i \in 1 .. Len(s) - 1 : Remove(s, e)[i] = IF i < p THEN s[i] ELSE s[i + 1]
<1>1. PICK p \in 1 .. Len(s) : s[p] = e
  BY DEF Range
<1>2. \A i \in 1 .. Len(s) : s[i] = e => i = p
  BY <1>1 DEF Injective
<1>3. DOMAIN s = 1 .. Len(s) /\ p \in DOMAIN s
  OBVIOUS
<1>4. (CHOOSE i \in DOMAIN s : s[i] = e /\ \A j \in 1 .. i - 1 : s[j] # e) = p
  <2>1. s[p] = e /\ \A j \in 1 .. p - 1 : s[j] # e
    BY <1>1, <1>2
  <2>2. \A i \in DOMAIN s : (s[i] = e /\ \A j \in 1 .. i - 1 : s[j] # e) <=> i = p
    BY <1>2, <1>3, <2>1
  <2> QED
    BY <1>3, <2>2
<1> DEFINE a == SubSeq(s, 1, p - 1)
           b == SubSeq(s, p + 1, Len(s))
           t == a \o b
<1>5. Remove(s, e) = t
  BY Zenon, <1>4 DEF Remove
<1>6. /\ a \in Seq(S) /\ Len(a) = p - 1
      /\ \A i \in 1 .. p - 1 : a[i] = s[i]
  OBVIOUS
<1>7. /\ b \in Seq(S) /\ Len(b) = Len(s) - p
      /\ \A i \in 1 .. Len(s) - p : b[i] = s[p + i]
  OBVIOUS
<1> HIDE DEF a, b
<1>8. /\ t \in Seq(S) /\ Len(t) = Len(s) - 1
      /\ \A i \in 1 .. Len(t) : t[i] = IF i < p THEN s[i] ELSE s[i + 1]
  <2>0. /\ t \in Seq(S) /\ Len(t) = Len(a) + Len(b)
        /\ \A i \in 1 .. Len(a) + Len(b) : t[i] = IF i <= Len(a) THEN a[i] ELSE b[i - Len(a)]
    BY Zenon, <1>6, <1>7, ConcatProperties
  <2>1. t \in Seq(S) /\ Len(t) = Len(s) - 1
    BY <1>6, <1>7, <2>0
  <2>2. ASSUME NEW i \in 1 .. Len(t), i < p
        PROVE  t[i] = s[i]
    BY <1>6, <1>7, <2>0, <2>2
  <2>3. ASSUME NEW i \in 1 .. Len(t), ~(i < p)
        PROVE  t[i] = s[i + 1]
    <3>1. t[i] = b[i - Len(a)]
      BY SMTT(20), <1>6, <1>7, <2>0, <2>3
    <3>2. i - Len(a) \in 1 .. Len(s) - p /\ p + (i - Len(a)) = i + 1
      BY SMTT(20), <1>6, <2>1, <2>3
    <3> QED
      BY Zenon, <1>7, <3>1, <3>2
  <2> QED
    BY <2>1, <2>2, <2>3
<1> HIDE DEF t
<1> QED
  BY <1>1, <1>5, <1>8

(* Queue.remove takes exactly one request out of a queue. *)
LEMMA RemoveFromQueue ==
  ASSUME NEW S, NEW s \in Seq(S), NEW e \in Range(s), Injective(s)
  PROVE  /\ Remove(s, e) \in Seq(S)
         /\ Injective(Remove(s, e))
         /\ Range(Remove(s, e)) = Range(s) \ {e}
<1> DEFINE t == Remove(s, e)
<1>1. PICK p \in 1 .. Len(s) :
        /\ s[p] = e
        /\ t \in Seq(S) /\ Len(t) = Len(s) - 1
        /\ \A i \in 1 .. Len(s) - 1 : t[i] = IF i < p THEN s[i] ELSE s[i + 1]
  BY RemoveClosesGap
<1>2. \A i \in 1 .. Len(s) : s[i] = e => i = p
  BY <1>1 DEF Injective
<1>3. /\ t \in Seq(S) /\ Len(t) = Len(s) - 1
      /\ \A i \in 1 .. Len(t) : t[i] = IF i < p THEN s[i] ELSE s[i + 1]
  BY <1>1
<1> HIDE DEF t
<1>4. Injective(t)
  <2> SUFFICES ASSUME NEW i \in 1 .. Len(t), NEW j \in 1 .. Len(t), t[i] = t[j] PROVE i = j
    BY DEF Injective
  <2> DEFINE at(k) == IF k < p THEN k ELSE k + 1
  <2>1. s[at(i)] = s[at(j)] /\ at(i) \in 1 .. Len(s) /\ at(j) \in 1 .. Len(s)
    BY <1>3
  <2>2. at(i) = at(j)
    BY <2>1 DEF Injective
  <2> QED
    BY <2>2
<1>5. DOMAIN t = 1 .. Len(t) /\ DOMAIN s = 1 .. Len(s)
  BY <1>3
<1>6. ASSUME NEW x \in Range(t)
      PROVE  x \in Range(s) \ {e}
  <2>1. PICK i \in 1 .. Len(t) : x = t[i]
    BY Zenon, <1>5 DEF Range
  <2>2. CASE i < p
    <3>1. i \in 1 .. Len(s) /\ i # p /\ t[i] = s[i]
      BY SMTT(20), <1>1, <1>3, <2>2
    <3> QED
      BY Zenon, <1>2, <1>5, <2>1, <3>1 DEF Range
  <2>3. CASE ~(i < p)
    <3>1. i + 1 \in 1 .. Len(s) /\ i + 1 # p /\ t[i] = s[i + 1]
      BY SMTT(20), <1>1, <1>3, <2>3
    <3> QED
      BY Zenon, <1>2, <1>5, <2>1, <3>1 DEF Range
  <2> QED
    BY Zenon, <2>2, <2>3
<1>7. ASSUME NEW x \in Range(s) \ {e}
       PROVE  x \in Range(t)
  <2>1. PICK i \in 1 .. Len(s) : x = s[i]
    BY <1>5 DEF Range
  <2>2. i # p
    BY <1>1, <2>1
  <2>3. CASE i < p
    <3>1. i \in 1 .. Len(t) /\ t[i] = s[i]
      BY SMTT(20), <1>1, <1>3, <2>1, <2>3
    <3> QED
      BY Zenon, <1>5, <2>1, <3>1 DEF Range
  <2>4. CASE i > p
    <3>1. i - 1 \in 1 .. Len(t) /\ ~(i - 1 < p)
      BY <1>3, <2>1, <2>4
    <3>2. t[i - 1] = s[i]
      BY <1>3, <3>1
    <3> QED
      BY <1>5, <2>1, <3>1, <3>2 DEF Range
  <2> QED
    BY <2>2, <2>3, <2>4
<1> QED
  BY <1>3, <1>4, <1>6, <1>7 DEF t

(* The sizes of two finite sets without common elements add up. *)
LEMMA DisjointUnion ==
  ASSUME NEW S, IsFiniteSet(S), NEW T, IsFiniteSet(T), S \cap T = {}
  PROVE  Cardinality(S \cup T) = Cardinality(S) + Cardinality(T)
<1>1. Cardinality(S) \in Nat /\ Cardinality(T) \in Nat
  BY FS_CardinalityType
<1>2. Cardinality(S \cap T) = 0
  BY FS_EmptySet
<1>3. Cardinality(S \cup T) = Cardinality(S) + Cardinality(T) - Cardinality(S \cap T)
  BY FS_Union
<1> QED
  BY <1>1, <1>2, <1>3

(* A queue that holds nothing twice is as long as the set of its elements. *)
LEMMA InjectiveLength ==
  ASSUME NEW S, NEW s \in Seq(S), Injective(s)
  PROVE  Len(s) = Cardinality(Range(s))
<1> DEFINE D == 1 .. Len(s)
<1>1. s \in [D -> Range(s)]
  BY DEF Range
<1>2. s \in Injection(D, Range(s))
  BY <1>1 DEF Injective, Injection, IsInjective
<1>3. s \in Surjection(D, Range(s))
  BY <1>1 DEF Range, Surjection
<1>4. ExistsBijection(D, Range(s))
  BY <1>2, <1>3 DEF ExistsBijection, Bijection
<1>5. Len(s) \in Nat
  OBVIOUS
<1>6. IsFiniteSet(D) /\ Cardinality(D) = Len(s)
  <2> DEFINE n == Len(s)
  <2>1. n \in Int /\ 1 \in Int
    BY SMT, <1>5
  <2> HIDE DEF n
  <2>2. IsFiniteSet(1 .. n) /\ Cardinality(1 .. n) = IF 1 > n THEN 0 ELSE n - 1 + 1
    BY Zenon, <2>1, FS_Interval
  <2>3. n \in Nat
    BY <1>5 DEF n
  <2>4. Cardinality(1 .. n) = n
    BY SMT, <2>2, <2>3
  <2> QED
    BY Zenon, <2>2, <2>4 DEF n
<1> QED
  BY <1>4, <1>6, FS_Bijection

(* Queue.remove of a queued element makes the line one shorter.                 *)
LEMMA RemoveShortens ==
  ASSUME NEW S, NEW s \in Seq(S), NEW e \in Range(s), Injective(s)
  PROVE  Len(Remove(s, e)) = Len(s) - 1
BY RemoveClosesGap

(* Queue.remove keeps the order of the others, and moves none of them back.     *)
LEMMA RemoveKeepsOrder ==
  ASSUME NEW S, NEW s \in Seq(S), NEW e \in Range(s), Injective(s)
  PROVE  \A i \in 1 .. Len(Remove(s, e)) :
           \E j \in 1 .. Len(s) : i <= j /\ Remove(s, e)[i] = s[j]
<1>1. PICK p \in 1 .. Len(s) :
        /\ Len(Remove(s, e)) = Len(s) - 1
        /\ \A i \in 1 .. Len(s) - 1 : Remove(s, e)[i] = IF i < p THEN s[i] ELSE s[i + 1]
  BY RemoveClosesGap
<1> TAKE i \in 1 .. Len(Remove(s, e))
<1>2. i \in 1 .. Len(s) /\ i + 1 \in 1 .. Len(s) /\ i <= i + 1
  BY <1>1
<1> QED
  BY <1>1, <1>2

\* The elements W are the first n of queue q, and b is the rest.
Split(S, q, n, W, b) ==
  /\ b \in Seq(S) /\ Len(b) = Len(q) - n /\ Injective(b)
  /\ \A i \in 1 .. Len(q) - n : b[i] = q[n + i]
  /\ Range(b) = Range(q) \ W /\ W \subseteq Range(q)
  /\ IsFiniteSet(W) /\ Cardinality(W) = n

(* A _drain takes requests from the front of a queue; they are as many as it counts,  *)
(* and the rest keeps its order.                                                      *)
LEMMA SplitQueue ==
  ASSUME NEW S, NEW q \in Seq(S), Injective(q), NEW n \in 0 .. Len(q)
  PROVE  Split(S, q, n, {q[i] : i \in 1 .. n}, SubSeq(q, n + 1, Len(q)))
<1> DEFINE a == SubSeq(q, 1, n)
           b == SubSeq(q, n + 1, Len(q))
           W == Range(q) \ Range(b)
<1>1. /\ a \in Seq(S) /\ Len(a) = n
      /\ \A i \in 1 .. n : a[i] = q[i]
  OBVIOUS
<1>2. /\ b \in Seq(S) /\ Len(b) = Len(q) - n
      /\ \A i \in 1 .. Len(q) - n : b[i] = q[n + i]
  OBVIOUS
<1>3. /\ DOMAIN a = 1 .. n /\ DOMAIN b = 1 .. Len(q) - n /\ DOMAIN q = 1 .. Len(q)
  BY <1>1, <1>2
<1> HIDE DEF a, b
<1>4. Injective(a) /\ Injective(b)
  <2>1. Injective(a)
    BY <1>1 DEF Injective
  <2>2. ASSUME NEW i \in 1 .. Len(b), NEW j \in 1 .. Len(b), b[i] = b[j]
        PROVE  i = j
    <3>1. q[n + i] = q[n + j] /\ n + i \in 1 .. Len(q) /\ n + j \in 1 .. Len(q)
      BY <1>2, <2>2
    <3> QED
      BY <3>1 DEF Injective
  <2> QED
    BY <2>1, <2>2 DEF Injective
<1>5. Range(b) \subseteq Range(q)
  <2> SUFFICES ASSUME NEW i \in 1 .. Len(q) - n PROVE b[i] \in Range(q)
    BY <1>3 DEF Range
  <2> QED
    BY SMTT(20), <1>2, <1>3 DEF Range
<1>6. Range(a) = W
  <2>1. ASSUME NEW i \in 1 .. n PROVE a[i] \in W
    <3>1. a[i] = q[i] /\ q[i] \in Range(q)
      BY <1>1, <1>3 DEF Range
    <3>2. \A j \in 1 .. Len(q) - n : b[j] # q[i]
      BY <1>2 DEF Injective
    <3> QED
      BY <1>3, <3>1, <3>2 DEF Range
  <2>2. ASSUME NEW x \in W PROVE x \in Range(a)
    <3>1. PICK i \in 1 .. Len(q) : x = q[i]
      BY <1>3 DEF Range
    <3>2. CASE i <= n
      BY <1>1, <1>3, <3>1, <3>2 DEF Range
    <3>3. CASE i > n
      <4>1. i - n \in 1 .. Len(q) - n /\ n + (i - n) = i
        BY <3>3
      <4>2. b[i - n] = x
        BY <1>2, <3>1, <4>1
      <4> QED
        BY <1>3, <4>1, <4>2 DEF Range
    <3> QED
      BY <3>2, <3>3
  <2> QED
    BY Zenon, <1>3, <2>1, <2>2 DEF Range
<1>7. Cardinality(W) = n
  BY Zenon, <1>1, <1>4, <1>6, InjectiveLength
<1>8. IsFiniteSet(W)
  <2>1. a \in Surjection(1 .. n, Range(a))
    BY <1>1, <1>3 DEF Range, Surjection
  <2>2. IsFiniteSet(1 .. n)
    BY FS_Interval
  <2> QED
    BY <1>6, <2>1, <2>2, FS_Surjection
<1>9. {q[i] : i \in 1 .. n} = Range(a)
  BY SMTT(20), <1>1, <1>3 DEF Range
<1>10. Range(b) = Range(q) \ W
  BY <1>5
<1> HIDE DEF W
<1> QED
  BY Zenon, <1>1, <1>2, <1>4, <1>5, <1>6, <1>7, <1>8, <1>9, <1>10 DEF Split, b, W

(* Every set of natural numbers has a least one: the loop of a _drain stops at  *)
(* the first request it may not start.                                          *)
LEMMA LeastNumber ==
  ASSUME NEW S \in SUBSET Nat, S # {}
  PROVE  \E m \in S : \A n \in S : m <= n
<1> DEFINE R == {ss \in Nat \X Nat : ss[1] < ss[2]}
<1>1. R = OpToRel(<, Nat)
  BY DEF OpToRel
<1>2. IsWellFoundedOn(R, Nat)
  BY Zenon, <1>1, NatLessThanWellFounded
<1> HIDE DEF R
<1>3. PICK m \in S : \A n \in S : ~(<<n, m>> \in R)
  BY Zenon, <1>2, WFMin
<1>4. \A n \in S : ~(n < m)
  BY Zenon, <1>3 DEF R
<1> QED
  BY <1>3, <1>4

=============================================================================
