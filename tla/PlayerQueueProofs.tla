-------------------------- MODULE PlayerQueueProofs --------------------------
(***************************************************************************)
(* Proofs about PlayerQueue: operations that change the queue, its order   *)
(* or the meaning of the index keep the current song current, and the deck *)
(* that takes over has the right song, for queues of any length.           *)
(***************************************************************************)
EXTENDS PlayerQueue, WellFoundedInduction, NaturalsInduction, FiniteSetTheorems,
        SequenceTheorems, TLAPS

-----------------------------------------------------------------------------
(* Sequences.                                                              *)
LEMMA LeastPosition == ASSUME NEW T \in SUBSET Nat, T # {} PROVE \E x \in T : \A y \in T : x <= y
<1> DEFINE Less == {p \in Nat \X Nat : p[1] < p[2]}
<1>1. IsWellFoundedOn(Less, Nat)
  BY NatLessThanWellFounded DEF OpToRel
<1>2. PICK x \in T : \A y \in T : <<y, x>> \notin Less
  <2> HIDE DEF Less
  <2> QED BY <1>1, WFMin
<1>3. \A y \in T : y \in Nat /\ x \in Nat /\ ~(y < x)
  BY <1>2
<1> QED BY <1>3

LEMMA SeqFacts ==
    ASSUME NEW S, NEW s \in Seq(S)
    PROVE  /\ Len(s) \in Nat /\ DOMAIN s = 1 .. Len(s) /\ Range(s) \subseteq S
           /\ \A x : x \in Range(s) <=> \E i \in 1 .. Len(s) : s[i] = x
           /\ \A i \in 1 .. Len(s) : s[i] \in Range(s) /\ s[i] \in S
           /\ s \in Seq(Range(s)) /\ (s = <<>> <=> Len(s) = 0)
<1>1. Len(s) \in Nat /\ DOMAIN s = 1 .. Len(s) /\ (s = <<>> <=> Len(s) = 0)
  OBVIOUS
<1>2. \A i \in 1 .. Len(s) : s[i] \in S
  OBVIOUS
<1>3. \A x : x \in Range(s) <=> \E i \in 1 .. Len(s) : s[i] = x
  BY <1>1 DEF Range
<1>4. s \in Seq(Range(s))
  BY SeqOfRange
<1> QED BY <1>1, <1>2, <1>3, <1>4

LEMMA EmptyFacts == Range(<<>>) = {} /\ IsInjective(<<>>) /\ Len(<<>>) = 0 /\ \A S : <<>> \in Seq(S)
BY DEF Range, IsInjective

\* A sequence given by its elements.
LEMMA MapFacts ==
    ASSUME NEW S, NEW n \in Nat, NEW f, DOMAIN f = 1 .. n, f = [i \in 1 .. n |-> f[i]],
           \A i \in 1 .. n : f[i] \in S
    PROVE  f \in Seq(S) /\ Len(f) = n
OBVIOUS

LEMMA ConcatFacts ==
    ASSUME NEW S, NEW s \in Seq(S), NEW t \in Seq(S)
    PROVE  /\ s \o t \in Seq(S) /\ Len(s \o t) = Len(s) + Len(t)
           /\ \A i \in 1 .. Len(s) : (s \o t)[i] = s[i]
           /\ \A i \in 1 .. Len(t) : (s \o t)[Len(s) + i] = t[i]
           /\ Range(s \o t) = Range(s) \cup Range(t)
           /\ IsInjective(s) /\ IsInjective(t) /\ Range(s) \cap Range(t) = {} => IsInjective(s \o t)
           /\ IsInjective(s \o t) => IsInjective(s) /\ IsInjective(t) /\ Range(s) \cap Range(t) = {}
<1> DEFINE u == s \o t
<1>1. /\ u \in Seq(S) /\ Len(u) = Len(s) + Len(t)
      /\ \A i \in 1 .. Len(s) + Len(t) : u[i] = IF i <= Len(s) THEN s[i] ELSE t[i - Len(s)]
  BY ConcatProperties
<1>2. Range(u) = Range(s) \cup Range(t)
  BY RangeConcatenation
<1> HIDE DEF u
<1>3. Len(s) \in Nat /\ Len(t) \in Nat /\ DOMAIN s = 1 .. Len(s) /\ DOMAIN t = 1 .. Len(t)
      /\ DOMAIN u = 1 .. Len(s) + Len(t)
  BY <1>1
<1>4. \A i \in 1 .. Len(s) : i \in DOMAIN u /\ u[i] = s[i]
  BY <1>1, <1>3
<1>5. \A i \in 1 .. Len(t) : Len(s) + i \in DOMAIN u /\ u[Len(s) + i] = t[i]
  <2> TAKE i \in 1 .. Len(t)
  <2>1. Len(s) + i \in 1 .. Len(s) + Len(t) /\ ~(Len(s) + i <= Len(s)) /\ (Len(s) + i) - Len(s) = i
    BY <1>3
  <2> QED BY <1>1, <1>3, <2>1
<1>6. \A i \in DOMAIN u : i \in 1 .. Len(s) \/ \E j \in 1 .. Len(t) : i = Len(s) + j
  <2> TAKE i \in DOMAIN u
  <2>1. i \in 1 .. Len(s) \/ (i - Len(s) \in 1 .. Len(t) /\ i = Len(s) + (i - Len(s)))
    BY <1>3
  <2> QED BY <2>1
<1>7. /\ \A i \in 1 .. Len(s) : s[i] \in Range(s)
      /\ \A i \in 1 .. Len(t) : t[i] \in Range(t)
  BY <1>3 DEF Range
<1>8. ASSUME IsInjective(s), IsInjective(t), Range(s) \cap Range(t) = {} PROVE IsInjective(u)
  <2> SUFFICES ASSUME NEW a \in DOMAIN u, NEW b \in DOMAIN u, u[a] = u[b] PROVE a = b
    BY DEF IsInjective
  <2>1. CASE a \in 1 .. Len(s) /\ b \in 1 .. Len(s)
    BY <1>3, <1>4, <1>8, <2>1 DEF IsInjective
  <2>2. CASE a \in 1 .. Len(s) /\ \E j \in 1 .. Len(t) : b = Len(s) + j
    BY <1>4, <1>5, <1>7, <1>8, <2>2
  <2>3. CASE b \in 1 .. Len(s) /\ \E j \in 1 .. Len(t) : a = Len(s) + j
    BY <1>4, <1>5, <1>7, <1>8, <2>3
  <2>4. CASE (\E j \in 1 .. Len(t) : a = Len(s) + j) /\ (\E j \in 1 .. Len(t) : b = Len(s) + j)
    <3>1. PICK i \in 1 .. Len(t) : a = Len(s) + i
      BY <2>4
    <3>2. PICK j \in 1 .. Len(t) : b = Len(s) + j
      BY <2>4
    <3>3. t[i] = t[j]
      BY <1>5, <3>1, <3>2
    <3> QED BY <1>3, <1>8, <3>1, <3>2, <3>3 DEF IsInjective
  <2> QED BY <1>6, <2>1, <2>2, <2>3, <2>4
<1>9. ASSUME IsInjective(u) PROVE IsInjective(s) /\ IsInjective(t) /\ Range(s) \cap Range(t) = {}
  <2>1. IsInjective(s)
    BY <1>3, <1>4, <1>9 DEF IsInjective
  <2>2. ASSUME NEW i \in 1 .. Len(t), NEW j \in 1 .. Len(t), t[i] = t[j] PROVE i = j
    <3>1. Len(s) + i = Len(s) + j
      BY <1>5, <1>9, <2>2 DEF IsInjective
    <3> QED BY <1>3, <3>1
  <2>3. ASSUME NEW i \in 1 .. Len(s), NEW j \in 1 .. Len(t), s[i] = t[j] PROVE FALSE
    <3>1. i = Len(s) + j
      BY <1>4, <1>5, <1>9, <2>3 DEF IsInjective
    <3> QED BY <1>3, <3>1
  <2> QED BY <1>3, <2>1, <2>2, <2>3 DEF IsInjective, Range
<1> QED BY <1>1, <1>2, <1>4, <1>5, <1>8, <1>9 DEF u

\* A sequence without repetitions is as long as the set of its elements is large.
LEMMA InjectiveLength ==
    ASSUME NEW S, NEW s \in Seq(S), IsInjective(s)
    PROVE  IsFiniteSet(Range(s)) /\ Cardinality(Range(s)) = Len(s)
<1>1. Len(s) \in Nat /\ DOMAIN s = 1 .. Len(s)
  OBVIOUS
<1>2. s \in [1 .. Len(s) -> Range(s)]
  BY <1>1 DEF Range
<1>3. s \in Bijection(1 .. Len(s), Range(s))
  BY <1>1, <1>2 DEF Bijection, Injection, Surjection, Range
<1>4. IsFiniteSet(1 .. Len(s)) /\ Cardinality(1 .. Len(s)) = Len(s)
  BY <1>1, FS_Interval
<1> QED BY <1>3, <1>4, FS_Bijection DEF ExistsBijection

\* slice: the two parts of an array make up the array.
LEMMA SplitFacts ==
    ASSUME NEW S, NEW s \in Seq(S), NEW n \in Nat \cup {NaN}
    PROVE  /\ Upto(s, n) \in Seq(S) /\ From(s, n) \in Seq(S) /\ Upto(s, n) \o From(s, n) = s
           /\ n \in 0 .. Len(s) => Len(Upto(s, n)) = n
<1>1. Len(s) \in Nat /\ NaN \notin Nat
  BY PlayerQueueAssumption
<1>2. CASE n = NaN
  <2>1. Upto(s, n) = <<>> /\ From(s, n) = s
    BY <1>2 DEF Upto, From
  <2> QED BY <1>1, <1>2, <2>1, ConcatEmptySeq
<1>3. CASE n \in Nat /\ n <= Len(s)
  <2>1. Upto(s, n) = SubSeq(s, 1, n) /\ From(s, n) = SubSeq(s, n + 1, Len(s))
    BY <1>1, <1>3 DEF Upto, From
  <2>2. SubSeq(s, 1, n) \in Seq(S) /\ SubSeq(s, n + 1, Len(s)) \in Seq(S) /\ Len(SubSeq(s, 1, n)) = n
    BY <1>1, <1>3
  <2>3. SubSeq(s, 1, n) \o SubSeq(s, n + 1, Len(s)) = SubSeq(s, 1, Len(s))
    <3>1. 1 \in 1 .. Len(s) + 1 /\ n \in 1 - 1 .. Len(s) /\ Len(s) \in n .. Len(s)
      BY <1>1, <1>3
    <3> QED BY <3>1, ConcatAdjacentSubSeq
  <2> QED BY <2>1, <2>2, <2>3, SubSeqFull
<1>4. CASE n \in Nat /\ n > Len(s)
  <2>1. Upto(s, n) = SubSeq(s, 1, Len(s)) /\ From(s, n) = SubSeq(s, n + 1, Len(s))
    BY <1>1, <1>4 DEF Upto, From
  <2>2. SubSeq(s, 1, Len(s)) = s /\ SubSeq(s, n + 1, Len(s)) = <<>>
    BY <1>1, <1>4, SubSeqFull, SubSeqEmpty
  <2>3. s \o <<>> = s /\ <<>> \in Seq(S)
    BY ConcatEmptySeq
  <2>4. n \notin 0 .. Len(s)
    BY <1>1, <1>4
  <2> QED BY <2>1, <2>2, <2>3, <2>4
<1> QED BY <1>1, <1>2, <1>3, <1>4

\* filter by ranks: the elements kept, each as often as before; all if all are to be kept.
LEMMA RankedFacts ==
    ASSUME NEW S, NEW s \in Seq(S), NEW T
    PROVE  /\ Ranked(s, T) \in Seq(S) /\ Range(Ranked(s, T)) = Range(s) \cap T
           /\ IsInjective(s) => IsInjective(Ranked(s, T))
           /\ Range(s) \subseteq T => Ranked(s, T) = s
<1> DEFINE n == Len(s)
           places == {i \in DOMAIN s : s[i] \in T}
           rank(i) == Cardinality({j \in places : j <= i})
           m == Cardinality(places)
           at(k) == CHOOSE i \in places : rank(i) = k
           K == [k \in 1 .. m |-> s[at(k)]]
<1>1. n \in Nat /\ DOMAIN s = 1 .. n /\ places \subseteq 1 .. n /\ (\A i \in 1 .. n : s[i] \in S)
      /\ s = [i \in 1 .. n |-> s[i]]
  OBVIOUS
<1>c. IsFiniteSet(1 .. n) /\ Cardinality(1 .. n) = n
  <2>1. Len(s) \in Nat
    OBVIOUS
  <2>2. IsFiniteSet(1 .. Len(s)) /\ Cardinality(1 .. Len(s)) = Len(s)
    BY <2>1, FS_Interval
  <2> QED BY <2>2
<1>2. IsFiniteSet(1 .. n) /\ IsFiniteSet(places) /\ m \in Nat
  <2>1. IsFiniteSet(1 .. n)
    BY <1>c
  <2>2. IsFiniteSet(places)
    BY <1>1, <2>1, FS_Subset
  <2> QED BY <2>1, <2>2, FS_CardinalityType
<1>3. \A i \in places : /\ IsFiniteSet({j \in places : j <= i}) /\ rank(i) \in Nat /\ rank(i) <= m
                        /\ rank(i) >= 1
  <2> TAKE i \in places
  <2> DEFINE A == {j \in places : j <= i}
  <2>1. A \subseteq places /\ i \in A
    BY <1>1
  <2>2. IsFiniteSet(A) /\ Cardinality(A) <= m /\ Cardinality(A) \in Nat
    BY <1>2, <2>1, FS_Subset, FS_CardinalityType
  <2>3. Cardinality(A) # 0
    BY <2>1, <2>2, FS_EmptySet
  <2> HIDE DEF A
  <2>4. Cardinality(A) >= 1
    BY <2>2, <2>3
  <2> QED BY <2>2, <2>4 DEF A
<1>4. \A i, j \in places : i < j => rank(i) < rank(j)
  <2> TAKE i, j \in places
  <2> HAVE i < j
  <2> DEFINE A == {k \in places : k <= i}  B == {k \in places : k <= j}
  <2>1. A \subseteq B /\ j \in B /\ j \notin A
    BY <1>1
  <2>2. IsFiniteSet(A) /\ IsFiniteSet(B)
    BY <1>3
  <2>3. Cardinality(A) <= Cardinality(B) /\ Cardinality(A) # Cardinality(B)
    BY <2>1, <2>2, FS_Subset
  <2>4. Cardinality(A) \in Nat /\ Cardinality(B) \in Nat
    BY <2>2, FS_CardinalityType
  <2> HIDE DEF A, B
  <2>5. Cardinality(A) < Cardinality(B)
    BY <2>3, <2>4
  <2> QED BY <2>5 DEF A, B
<1>5. Ranked(s, T) = K
  BY DEF Ranked
<1> HIDE DEF rank, m
<1>a. \A i \in places : rank(i) \in 1 .. m /\ rank(i) \in Nat
  <2> TAKE i \in places
  <2>1. rank(i) \in Nat /\ rank(i) <= m /\ rank(i) >= 1
    BY <1>3
  <2> QED BY <1>2, <2>1
<1>b. places \subseteq Int
  BY <1>1
<1> HIDE DEF places
<1>6. \A i, j \in places : rank(i) = rank(j) => i = j
  <2> TAKE i, j \in places
  <2>1. i \in Int /\ j \in Int
    BY <1>b
  <2>2. i = j \/ i < j \/ j < i
    BY <2>1
  <2>3. rank(i) \in Nat /\ rank(j) \in Nat /\ (i < j => rank(i) < rank(j)) /\ (j < i => rank(j) < rank(i))
    BY <1>a, <1>4
  <2> QED BY <2>2, <2>3
<1> DEFINE r == [i \in places |-> rank(i)]
<1>7. r \in Injection(places, 1 .. m)
  <2>1. r \in [places -> 1 .. m]
    BY <1>a
  <2> QED BY <1>6, <2>1 DEF Injection, IsInjective
<1>8. r \in Surjection(places, 1 .. m)
  <2>1. IsFiniteSet(1 .. m) /\ Cardinality(1 .. m) = m
    BY <1>2, FS_Interval
  <2> HIDE DEF r
  <2> QED BY <1>7, <2>1, FS_Injection DEF m
<1>9. \A k \in 1 .. m : at(k) \in places /\ rank(at(k)) = k
  BY <1>8 DEF Surjection
<1>10. \A i \in places : rank(i) \in 1 .. m /\ at(rank(i)) = i
  BY <1>a, <1>6, <1>9
<1> HIDE DEF at, r
<1>11. K \in Seq(S) /\ Len(K) = m /\ DOMAIN K = 1 .. m /\ \A k \in 1 .. m : K[k] = s[at(k)]
  <2>1. \A k \in 1 .. m : K[k] = s[at(k)] /\ s[at(k)] \in S
    BY <1>1, <1>9 DEF places
  <2>2. K \in Seq(S) /\ Len(K) = m
    BY <1>2, <2>1, MapFacts
  <2> QED BY <2>1, <2>2
<1> HIDE DEF K
<1>12. Range(K) = Range(s) \cap T
  <2>1. ASSUME NEW x \in Range(K) PROVE x \in Range(s) \cap T
    <3>1. PICK k \in 1 .. m : x = s[at(k)]
      BY <1>11 DEF Range
    <3> QED BY <1>9, <3>1 DEF Range, places
  <2>2. ASSUME NEW x \in Range(s) \cap T PROVE x \in Range(K)
    <3>1. PICK i \in places : x = s[i]
      BY DEF Range, places
    <3>2. rank(i) \in 1 .. m /\ K[rank(i)] = x
      BY <1>10, <1>11, <3>1
    <3> QED BY <1>11, <3>2 DEF Range
  <2> QED BY <2>1, <2>2
<1>13. ASSUME IsInjective(s) PROVE IsInjective(K)
  <2> SUFFICES ASSUME NEW a \in 1 .. m, NEW b \in 1 .. m, K[a] = K[b] PROVE a = b
    BY <1>11 DEF IsInjective
  <2>1. at(a) = at(b)
    BY <1>1, <1>9, <1>11, <1>13 DEF IsInjective, places
  <2> QED BY <1>9, <2>1
<1>14. ASSUME Range(s) \subseteq T PROVE K = s
  <2>1. places = 1 .. n
    BY <1>1, <1>14 DEF Range, places
  <2>2. m = n
    BY <1>c, <2>1 DEF m
  <2>3. \A i \in 1 .. n : rank(i) = i
    <3> TAKE i \in 1 .. n
    <3>1. {j \in places : j <= i} = 1 .. i
      BY <1>1, <2>1
    <3>2. Cardinality(1 .. i) = i
      BY <1>1, FS_Interval
    <3> QED BY <3>1, <3>2 DEF rank
  <2>4. \A k \in 1 .. n : at(k) = k
    BY <1>10, <2>1, <2>3
  <2>5. K = [k \in 1 .. n |-> s[k]]
    BY <2>2, <2>4 DEF K
  <2> QED BY <1>1, <2>5
<1> QED BY <1>5, <1>11, <1>12, <1>13, <1>14

\* filter: the same, whether or not there is anything to remove.
LEMMA KeepFacts ==
    ASSUME NEW S, NEW s \in Seq(S), NEW T
    PROVE  /\ Keep(s, T) \in Seq(S) /\ Range(Keep(s, T)) = Range(s) \cap T
           /\ IsInjective(s) => IsInjective(Keep(s, T))
           /\ Range(s) \subseteq T => Keep(s, T) = s
<1>1. CASE Range(s) \subseteq T
  BY <1>1 DEF Keep
<1>2. CASE ~(Range(s) \subseteq T)
  <2>1. Keep(s, T) = Ranked(s, T)
    BY <1>2 DEF Keep
  <2> QED BY <1>2, <2>1, RankedFacts
<1> QED BY <1>1, <1>2

\* shuffleInPlace: the same elements.
LEMMA OrdersFacts ==
    ASSUME NEW S, NEW s \in Seq(S), NEW o \in Orders(s)
    PROVE  /\ o \in Seq(S) /\ Len(o) = Len(s) /\ Range(o) = Range(s)
           /\ IsInjective(s) => IsInjective(o)
<1>1. Len(s) \in Nat /\ DOMAIN s = 1 .. Len(s) /\ \A i \in 1 .. Len(s) : s[i] \in S
  OBVIOUS
<1> DEFINE n == Len(s)
<1>2. PICK f \in Bijection(DOMAIN s, DOMAIN s) : o = [i \in DOMAIN s |-> s[f[i]]]
  BY DEF Orders
<1>3. /\ f \in [1 .. n -> 1 .. n] /\ \A i, j \in 1 .. n : f[i] = f[j] => i = j
      /\ \A j \in 1 .. n : \E i \in 1 .. n : f[i] = j
  BY <1>1, <1>2 DEF Bijection, Injection, Surjection, IsInjective
<1>4. DOMAIN o = 1 .. n /\ o = [i \in 1 .. n |-> o[i]] /\ \A i \in 1 .. n : o[i] = s[f[i]] /\ f[i] \in 1 .. n
  BY <1>1, <1>2, <1>3
<1>5. o \in Seq(S) /\ Len(o) = n
  BY <1>1, <1>4, MapFacts
<1>6. Range(o) = Range(s)
  <2>1. \A x \in Range(o) : x \in Range(s)
    BY <1>1, <1>4 DEF Range
  <2>2. ASSUME NEW x \in Range(s) PROVE x \in Range(o)
    <3>1. PICK j \in 1 .. n : x = s[j]
      BY <1>1 DEF Range
    <3>2. PICK i \in 1 .. n : f[i] = j
      BY <1>3
    <3> QED BY <1>4, <3>1, <3>2 DEF Range
  <2> QED BY <2>1, <2>2
<1>7. IsInjective(s) => IsInjective(o)
  BY <1>1, <1>3, <1>4 DEF IsInjective
<1> QED BY <1>5, <1>6, <1>7

LEMMA CountFacts ==
    ASSUME NEW n \in Nat, NEW from \in Nat \cup {NaN}
    PROVE  /\ Count(from, n) \in Seq({NaN} \cup Nat) /\ Len(Count(from, n)) = n
           /\ from # NaN => /\ Range(Count(from, n)) = from .. from + n - 1
                            /\ IsInjective(Count(from, n))
<1> DEFINE c == Count(from, n)
<1>1. /\ DOMAIN c = 1 .. n /\ c = [i \in 1 .. n |-> c[i]]
      /\ \A i \in 1 .. n : c[i] = Plus(from, i - 1)
  BY DEF Count
<1>2. \A i \in 1 .. n : c[i] \in {NaN} \cup Nat /\ (from # NaN => c[i] = from + i - 1)
  BY <1>1 DEF Plus
<1> HIDE DEF c
<1>3. c \in Seq({NaN} \cup Nat) /\ Len(c) = n
  BY <1>1, <1>2, MapFacts
<1>4. ASSUME from # NaN PROVE Range(c) = from .. from + n - 1 /\ IsInjective(c)
  <2>1. from \in Nat
    BY <1>4
  <2>2. \A x : x \in Range(c) <=> \E i \in 1 .. n : x = from + i - 1
    BY <1>1, <1>2, <1>4 DEF Range
  <2>3. \A x \in from .. from + n - 1 : x - from + 1 \in 1 .. n /\ x = from + (x - from + 1) - 1
    BY <2>1
  <2>4. \A x \in from .. from + n - 1 : x \in Range(c)
    BY <2>2, <2>3
  <2>5. \A i \in 1 .. n : from + i - 1 \in from .. from + n - 1
    BY <2>1
  <2>6. Range(c) = from .. from + n - 1
    <3>1. \A x \in Range(c) : x \in from .. from + n - 1
      BY <2>2, <2>5
    <3> HIDE DEF c
    <3> QED BY <2>4, <3>1
  <2>7. \A i, j \in 1 .. n : c[i] = c[j] => i = j
    BY <1>2, <1>4, <2>1
  <2> QED BY <1>1, <2>6, <2>7 DEF IsInjective
<1> QED BY <1>3, <1>4 DEF c

\* findIndex: the first place of what is there, -1 for what is not.
LEMMA FindFacts ==
    ASSUME NEW S, NEW s \in Seq(S), NEW x
    PROVE  /\ Find(s, x) \in -1 .. Len(s) - 1
           /\ x \in Range(s) => Find(s, x) \in 0 .. Len(s) - 1 /\ s[Find(s, x) + 1] = x
           /\ x \notin Range(s) => Find(s, x) = -1
           /\ IsInjective(s) => \A i \in 0 .. Len(s) - 1 : s[i + 1] = x => Find(s, x) = i
<1> DEFINE I == {i \in 1 .. Len(s) : s[i] = x}
<1>1. Len(s) \in Nat /\ DOMAIN s = 1 .. Len(s)
  OBVIOUS
<1>2. Find(s, x) = (IF I # {} THEN Min(I) ELSE 0) - 1
  BY DEF Find, SelectInSeq
<1>3. x \in Range(s) <=> I # {}
  BY <1>1 DEF Range
<1>4. ASSUME I # {} PROVE Min(I) \in I
  <2>1. I \subseteq Nat
    BY <1>1
  <2>2. \E y \in I : \A z \in I : y <= z
    BY <1>4, <2>1, LeastPosition
  <2> HIDE DEF I
  <2> QED BY <2>2 DEF Min
<1>5. CASE I = {}
  <2>1. Find(s, x) = -1
    BY <1>2, <1>5
  <2>2. \A i \in 0 .. Len(s) - 1 : i + 1 \in 1 .. Len(s)
    BY <1>1
  <2>3. \A i \in 0 .. Len(s) - 1 : s[i + 1] # x
    BY <1>5, <2>2
  <2> QED BY <1>1, <1>3, <1>5, <2>1, <2>3
<1>6. CASE I # {}
  <2>1. PICK j \in 1 .. Len(s) : s[j] = x /\ Find(s, x) = j - 1
    BY <1>2, <1>4, <1>6
  <2>2. j - 1 \in 0 .. Len(s) - 1 /\ (j - 1) + 1 = j
    BY <1>1
  <2>3. ASSUME IsInjective(s), NEW i \in 0 .. Len(s) - 1, s[i + 1] = x PROVE j - 1 = i
    <3>1. i + 1 \in 1 .. Len(s)
      BY <1>1
    <3>2. i + 1 = j
      BY <1>1, <2>1, <2>3, <3>1 DEF IsInjective
    <3> QED BY <1>1, <3>2
  <2> QED BY <1>1, <1>3, <1>6, <2>1, <2>2, <2>3
<1> QED BY <1>5, <1>6

-----------------------------------------------------------------------------
(* The inductive invariant: the queue lists songs that have an entry, none *)
(* twice; queue.shuffled is an array of numbers, whatever they are.        *)
Indices == {NaN, -1} \cup Nat
Positions == {NaN} \cup Nat

PlayerOK(p) ==
    p \in [index : Indices, playerNum : {1, 2}, repeat : Repeats,
           shuffle : {"none", "track"}, status : {"playing", "paused"},
           pauseOnNextSongEnd : BOOLEAN]

DefaultOK(default, songs) ==
    /\ default \in Seq(Ids) /\ IsInjective(default) /\ Range(default) \subseteq songs
    /\ Len(default) <= MaxSongs

QueueOK(q) ==
    /\ DOMAIN q = {"default", "shuffled", "songs"} /\ q.songs \subseteq Ids
    /\ DefaultOK(q.default, q.songs) /\ q.shuffled \in Seq(Positions)

StoreInv == PlayerOK(player) /\ QueueOK(queue) /\ timestamp \in Timestamps

LEMMA InvTypes == StoreInv => TypeOK
<1> SUFFICES ASSUME StoreInv PROVE TypeOK
  OBVIOUS
<1>1. Range(queue.shuffled) \subseteq Positions
  BY SeqFacts DEF StoreInv, QueueOK
<1> QED BY <1>1 DEF StoreInv, PlayerOK, QueueOK, DefaultOK, TypeOK, Indices, Positions

\* Every song of the queue has an entry: the filter of getQueueOrder lets all pass.
LEMMA QueueOrder == ASSUME NEW q, QueueOK(q) PROVE getQueueOrder(q) = q.default
BY KeepFacts DEF QueueOK, DefaultOK, getQueueOrder

\* As many songs or fewer.
LEMMA NoLonger ==
    ASSUME NEW S, NEW s \in Seq(S), NEW t \in Seq(S), IsInjective(s), IsInjective(t),
           Range(t) \subseteq Range(s)
    PROVE  Len(t) <= Len(s) /\ (Range(t) = Range(s) => Len(t) = Len(s))
<1>1. /\ IsFiniteSet(Range(s)) /\ Cardinality(Range(s)) = Len(s)
      /\ Cardinality(Range(t)) = Len(t)
  BY InjectiveLength
<1>2. Cardinality(Range(t)) <= Cardinality(Range(s))
  BY <1>1, FS_Subset
<1> QED BY <1>1, <1>2

LEMMA PlusFacts ==
    /\ NaN \notin Nat /\ NaN # -1 /\ NaN \in Int
    /\ \A x \in Indices : Plus(x, 1) \in Positions /\ (x # NaN => Plus(x, 1) = x + 1)
BY PlayerQueueAssumption DEF Plus, Indices, Positions

LEMMA NumAtFacts == ASSUME NEW s \in Seq(Positions), NEW i PROVE NumAt(s, i) \in Positions
<1>1. \A j \in 1 .. Len(s) : s[j] \in Positions
  OBVIOUS
<1>2. Len(s) \in Nat /\ \A j \in 0 .. Len(s) - 1 : j + 1 \in 1 .. Len(s)
  OBVIOUS
<1> QED BY <1>1, <1>2 DEF NumAt, Positions

\* What is added: new ids, none twice.
LEMMA NewFacts ==
    ASSUME QueueOK(queue), NEW ids \in Replacements
    PROVE  /\ ids \in Seq(Ids) /\ IsInjective(ids) /\ Range(ids) \subseteq Ids
           /\ Range(ids) \cap queue.songs = {} /\ Len(ids) \in Nat /\ Len(ids) <= MaxSongs
           /\ DefaultOK(ids, queue.songs \cup Range(ids))
<1>1. PICK n \in 0 .. MaxAdded : ids \in [1 .. n -> Ids \ queue.songs] /\ IsInjective(ids)
  BY DEF Replacements
<1>2. n \in Nat /\ n <= MaxSongs
  BY PlayerQueueAssumption
<1>3. ids \in Seq(Ids \ queue.songs) /\ Len(ids) = n /\ ids \in Seq(Ids)
  BY <1>1, <1>2
<1>4. Range(ids) \subseteq Ids \ queue.songs
  BY <1>3, SeqFacts
<1> QED BY <1>1, <1>2, <1>3, <1>4 DEF DefaultOK

LEMMA NewItemsFacts ==
    ASSUME NEW ids \in NewItems
    PROVE  ids \in Replacements /\ Len(queue.default) + Len(ids) <= MaxSongs
BY DEF NewItems

\* Songs put into the queue at a place: the songs before them stay where they are.
Spliced(s, n, t) == Upto(s, n) \o t \o From(s, n)

LEMMA InsertFacts ==
    ASSUME NEW S, NEW s \in Seq(S), NEW t \in Seq(S), NEW n \in Positions
    PROVE  /\ Spliced(s, n, t) \in Seq(S) /\ Len(Spliced(s, n, t)) = Len(s) + Len(t)
           /\ Range(Spliced(s, n, t)) = Range(s) \cup Range(t)
           /\ IsInjective(s) /\ IsInjective(t) /\ Range(s) \cap Range(t) = {}
                 => IsInjective(Spliced(s, n, t))
           /\ n \in Nat => \A i \in 1 .. n : i <= Len(s) => Spliced(s, n, t)[i] = s[i]
<1> DEFINE a == Upto(s, n)  b == From(s, n)  u == Spliced(s, n, t)
<1>1. a \in Seq(S) /\ b \in Seq(S) /\ a \o b = s
  BY SplitFacts DEF Positions
<1>2. n \in Nat => Len(a) = IF n < Len(s) THEN n ELSE Len(s)
  <2>1. CASE n \in Nat
    <3>1. Len(s) \in Nat /\ n # NaN
      BY <2>1, PlusFacts
    <3>2. CASE n < Len(s)
      BY <2>1, <3>1, <3>2, SplitFacts
    <3>3. CASE ~(n < Len(s))
      <4>1. a = SubSeq(s, 1, Len(s))
        BY <3>1, <3>3 DEF Upto
      <4> QED BY <3>1, <3>3, <4>1, SubSeqFull
    <3> QED BY <3>2, <3>3
  <2> QED BY <2>1
<1> HIDE DEF a, b
<1>3. /\ Len(s) = Len(a) + Len(b) /\ Range(s) = Range(a) \cup Range(b)
      /\ IsInjective(s) => IsInjective(a) /\ IsInjective(b) /\ Range(a) \cap Range(b) = {}
      /\ \A i \in 1 .. Len(a) : s[i] = a[i]
  <2>1. /\ Len(a \o b) = Len(a) + Len(b) /\ Range(a \o b) = Range(a) \cup Range(b)
        /\ IsInjective(a \o b) => IsInjective(a) /\ IsInjective(b) /\ Range(a) \cap Range(b) = {}
        /\ \A i \in 1 .. Len(a) : (a \o b)[i] = a[i]
    <3>1. a \in Seq(S) /\ b \in Seq(S)
      BY <1>1
    <3> QED BY <3>1, ConcatFacts
  <2> QED BY <1>1, <2>1
<1> DEFINE v == a \o t
<1>4. /\ v \in Seq(S) /\ Len(v) = Len(a) + Len(t) /\ Range(v) = Range(a) \cup Range(t)
      /\ IsInjective(a) /\ IsInjective(t) /\ Range(a) \cap Range(t) = {} => IsInjective(v)
      /\ \A i \in 1 .. Len(a) : v[i] = a[i]
  BY <1>1, ConcatFacts
<1> HIDE DEF v
<1>5. /\ v \o b \in Seq(S) /\ Len(v \o b) = Len(v) + Len(b) /\ Range(v \o b) = Range(v) \cup Range(b)
      /\ IsInjective(v) /\ IsInjective(b) /\ Range(v) \cap Range(b) = {} => IsInjective(v \o b)
      /\ \A i \in 1 .. Len(v) : (v \o b)[i] = v[i]
  <2>1. v \in Seq(S) /\ b \in Seq(S)
    BY <1>1, <1>4
  <2> QED BY <2>1, ConcatFacts
<1>6. u = v \o b
  BY DEF v, a, b, Spliced
<1> HIDE DEF u
<1>7. Len(a) \in Nat /\ Len(b) \in Nat /\ Len(t) \in Nat /\ Len(s) \in Nat
  BY <1>1
<1>8. Len(u) = Len(s) + Len(t)
  BY <1>3, <1>4, <1>5, <1>6, <1>7
<1>9. Range(u) = Range(s) \cup Range(t)
  BY <1>3, <1>4, <1>5, <1>6
<1>10. ASSUME IsInjective(s), IsInjective(t), Range(s) \cap Range(t) = {} PROVE IsInjective(u)
  <2>1. Range(a) \cap Range(t) = {} /\ Range(b) \cap Range(t) = {} /\ Range(a) \cap Range(b) = {}
    BY <1>3, <1>10
  <2>2. Range(v) \cap Range(b) = {}
    BY <1>4, <2>1
  <2> QED BY <1>3, <1>4, <1>5, <1>6, <1>10, <2>1, <2>2
<1>11. ASSUME n \in Nat, NEW i \in 1 .. n, i <= Len(s) PROVE u[i] = s[i]
  <2>1. i \in 1 .. Len(a) /\ i \in 1 .. Len(v)
    BY <1>2, <1>4, <1>7, <1>11
  <2> QED BY <1>3, <1>4, <1>5, <1>6, <2>1
<1>12. u \in Seq(S)
  BY <1>5, <1>6
<1> QED BY <1>8, <1>9, <1>10, <1>11, <1>12 DEF u

\* The queue with new songs in it.
LEMMA LongerOK ==
    ASSUME NEW d, NEW songs, DefaultOK(d, songs), NEW o \in Seq(Ids), IsInjective(o),
           Range(o) \cap songs = {}, Len(d) + Len(o) <= MaxSongs, NEW n \in Positions
    PROVE  /\ DefaultOK(Spliced(d, n, o), songs \cup Range(o))
           /\ DefaultOK(d \o o, songs \cup Range(o))
<1>1. d \in Seq(Ids) /\ IsInjective(d) /\ Range(d) \subseteq songs /\ Range(d) \cap Range(o) = {}
  BY DEF DefaultOK
<1> DEFINE u == Spliced(d, n, o)  w == d \o o
<1>2. /\ u \in Seq(Ids) /\ Len(u) = Len(d) + Len(o) /\ Range(u) = Range(d) \cup Range(o)
      /\ IsInjective(d) /\ IsInjective(o) /\ Range(d) \cap Range(o) = {} => IsInjective(u)
  <2>1. d \in Seq(Ids) /\ o \in Seq(Ids) /\ n \in Positions
    BY <1>1
  <2>2. u \in Seq(Ids) /\ Len(u) = Len(d) + Len(o)
    BY ONLY <2>1, InsertFacts
  <2>3. Range(u) = Range(d) \cup Range(o)
    BY ONLY <2>1, InsertFacts
  <2>4. IsInjective(d) /\ IsInjective(o) /\ Range(d) \cap Range(o) = {} => IsInjective(u)
    BY ONLY <2>1, InsertFacts
  <2> QED BY <2>2, <2>3, <2>4
<1>3. /\ w \in Seq(Ids) /\ Len(w) = Len(d) + Len(o) /\ Range(w) = Range(d) \cup Range(o)
      /\ IsInjective(d) /\ IsInjective(o) /\ Range(d) \cap Range(o) = {} => IsInjective(w)
  BY <1>1, ConcatFacts
<1> HIDE DEF u, w
<1>4. DefaultOK(u, songs \cup Range(o))
  BY <1>1, <1>2 DEF DefaultOK
<1>5. DefaultOK(w, songs \cup Range(o))
  BY <1>1, <1>3 DEF DefaultOK
<1> QED BY <1>4, <1>5 DEF u, w

LEMMA InsertedOK ==
    ASSUME QueueOK(queue), NEW ids \in NewItems, NEW o, NEW n \in Positions,
           o \in Seq(Ids), Len(o) = Len(ids), Range(o) = Range(ids), IsInjective(o)
    PROVE  /\ DefaultOK(Inserted(n, o), queue.songs \cup Range(o))
           /\ DefaultOK(queue.default \o o, queue.songs \cup Range(o))
           /\ queue.songs \cup Range(o) \subseteq Ids
<1>1. /\ Range(ids) \subseteq Ids /\ Range(ids) \cap queue.songs = {}
      /\ Len(queue.default) + Len(ids) <= MaxSongs
  BY NewFacts, NewItemsFacts
<1>2. DefaultOK(queue.default, queue.songs) /\ queue.songs \subseteq Ids
  BY DEF QueueOK
<1>3. Range(o) \cap queue.songs = {} /\ Len(queue.default) + Len(o) <= MaxSongs
  BY <1>1
<1>4. /\ DefaultOK(Spliced(queue.default, n, o), queue.songs \cup Range(o))
      /\ DefaultOK(queue.default \o o, queue.songs \cup Range(o))
  BY <1>2, <1>3, LongerOK
<1> QED BY <1>1, <1>2, <1>4 DEF Inserted, Spliced

LEMMA PlaybackIndexFacts ==
    ASSUME NEW p, NEW q, QueueOK(q), NEW i \in Nat
    PROVE  PlaybackIndex(p, q, i) \in Nat
<1>1. Find(q.shuffled, i) \in -1 .. Len(q.shuffled) - 1 /\ Len(q.shuffled) \in Nat
  BY FindFacts DEF QueueOK
<1> QED BY <1>1 DEF PlaybackIndex

LEMMA PlayTargetFacts ==
    ASSUME NEW p, NEW q, PlayerOK(p), QueueOK(q), NEW t
    PROVE  PlayerOK(PlayTarget(p, q, t)) /\ PlayTarget(p, q, t).shuffle = p.shuffle
<1> DEFINE i == Find(getQueueOrder(q), t)
<1>1. i \in -1 .. Len(q.default) - 1 /\ Len(q.default) \in Nat
  BY QueueOrder, FindFacts DEF QueueOK, DefaultOK
<1> HIDE DEF i
<1>2. CASE t = NoSong \/ i = -1
  BY <1>2 DEF PlayTarget, i
<1>3. CASE ~(t = NoSong \/ i = -1)
  <2>1. PlaybackIndex(p, q, i) \in Nat
    BY <1>1, <1>3, PlaybackIndexFacts
  <2>2. PlayTarget(p, q, t) = [p EXCEPT !.index = PlaybackIndex(p, q, i), !.status = "playing"]
    BY <1>3 DEF PlayTarget, i
  <2> QED BY <2>1, <2>2 DEF PlayerOK, Indices
<1> QED BY <1>2, <1>3

\* recalculatePlayerIndex changes the index only, to where the current song is.
LEMMA RecalculateFacts ==
    ASSUME NEW p, PlayerOK(p), NEW default \in Seq(Ids)
    PROVE  LET r == recalculatePlayerIndex(p, default)
               current == getCurrentSong(player, queue)
           IN  /\ PlayerOK(r) /\ r.shuffle = p.shuffle
               /\ current # NoSong /\ current \in Range(default) =>
                     r.index \in 0 .. Len(default) - 1 /\ default[r.index + 1] = current
<1> DEFINE current == getCurrentSong(player, queue)
           i == AtLeast(0, Find(default, current))
<1>1. /\ Find(default, current) \in -1 .. Len(default) - 1 /\ Len(default) \in Nat
      /\ current \in Range(default) => /\ Find(default, current) \in 0 .. Len(default) - 1
                                       /\ default[Find(default, current) + 1] = current
  BY FindFacts
<1>2. NaN < -1 /\ NaN \in Int
  BY PlayerQueueAssumption
<1>3. i \in Nat /\ (Find(default, current) \in Nat => i = Find(default, current))
  BY <1>1, <1>2 DEF AtLeast
<1> HIDE DEF current, i
<1>4. CASE current = NoSong
  BY <1>4 DEF recalculatePlayerIndex, current
<1>5. CASE current # NoSong
  <2>1. recalculatePlayerIndex(p, default) = [p EXCEPT !.index = i]
    BY <1>5 DEF recalculatePlayerIndex, current, i
  <2>2. PlayerOK([p EXCEPT !.index = i]) /\ [p EXCEPT !.index = i].index = i
        /\ [p EXCEPT !.index = i].shuffle = p.shuffle
    BY <1>3 DEF PlayerOK, Indices
  <2>3. current \in Range(default) => i \in 0 .. Len(default) - 1 /\ default[i + 1] = current
    BY <1>1, <1>3
  <2> QED BY <2>1, <2>2, <2>3 DEF current
<1> QED BY <1>4, <1>5

-----------------------------------------------------------------------------
(* Every operation keeps the invariant, and only setShuffle and            *)
(* toggleShuffle change player.shuffle.                                    *)

\* queue.shuffled when it lists every position of a queue of n songs once.
IsOrder(o, n) == o \in Seq(Positions) /\ Len(o) = n /\ IsInjective(o) /\ Range(o) = 0 .. n - 1

LEMMA RecordOK ==
    ASSUME NEW default, NEW songs, NEW o, songs \subseteq Ids, DefaultOK(default, songs),
           o \in Seq(Positions)
    PROVE  QueueOK([default |-> default, songs |-> songs, shuffled |-> o])
BY DEF QueueOK

LEMMA ExceptOK ==
    ASSUME NEW q, QueueOK(q)
    PROVE  /\ \A o \in Seq(Positions) : QueueOK([q EXCEPT !.shuffled = o])
           /\ \A d : DefaultOK(d, q.songs) => QueueOK([q EXCEPT !.default = d])
           /\ \A d : \A o \in Seq(Positions) :
                 DefaultOK(d, q.songs) => QueueOK([q EXCEPT !.default = d, !.shuffled = o])
           /\ QueueOK(cleanupOrphanedSongs(q)) /\ cleanupOrphanedSongs(q).default = q.default
           /\ cleanupOrphanedSongs(q).shuffled = q.shuffled
<1>1. /\ QueueOK(cleanupOrphanedSongs(q)) /\ cleanupOrphanedSongs(q).default = q.default
      /\ cleanupOrphanedSongs(q).shuffled = q.shuffled
  BY DEF QueueOK, DefaultOK, cleanupOrphanedSongs
<1>2. \A o \in Seq(Positions) : QueueOK([q EXCEPT !.shuffled = o])
  BY DEF QueueOK
<1>3. \A d : DefaultOK(d, q.songs) => QueueOK([q EXCEPT !.default = d])
  BY DEF QueueOK
<1>4. \A d : \A o \in Seq(Positions) :
                 DefaultOK(d, q.songs) => QueueOK([q EXCEPT !.default = d, !.shuffled = o])
  BY DEF QueueOK
<1> QED BY <1>1, <1>2, <1>3, <1>4

LEMMA NewOrderFacts ==
    ASSUME NEW n \in Positions, NEW k \in Nat, NEW o \in Orders(Count(n, k))
    PROVE  /\ o \in Seq(Positions) /\ Len(o) = k
           /\ n # NaN => IsInjective(o) /\ Range(o) = n .. n + k - 1
<1>1. /\ Count(n, k) \in Seq(Positions) /\ Len(Count(n, k)) = k
      /\ n # NaN => Range(Count(n, k)) = n .. n + k - 1 /\ IsInjective(Count(n, k))
  BY CountFacts DEF Positions
<1>2. /\ o \in Seq(Positions) /\ Len(o) = Len(Count(n, k)) /\ Range(o) = Range(Count(n, k))
      /\ IsInjective(Count(n, k)) => IsInjective(o)
  BY <1>1, OrdersFacts
<1> QED BY <1>1, <1>2

LEMMA GenerateFacts ==
    ASSUME NEW n \in Nat, NEW o \in generateShuffledIndexes(n)
    PROVE  IsOrder(o, n)
<1>1. 0 \in Positions /\ 0 # NaN /\ o \in Orders(Count(0, n)) /\ 0 + n - 1 = n - 1
  BY PlusFacts DEF Positions, generateShuffledIndexes
<1>2. /\ o \in Seq(Positions) /\ Len(o) = n
      /\ IsInjective(o) /\ Range(o) = 0 .. 0 + n - 1
  BY <1>1, NewOrderFacts
<1> QED BY <1>1, <1>2 DEF IsOrder

LEMMA FirstOfFacts ==
    ASSUME NEW n \in Nat, NEW i \in 0 .. n - 1, NEW o \in FirstOf(i, n)
    PROVE  IsOrder(o, n) /\ o[1] = i
<1> DEFINE c == Count(0, n)
           w == Without(c, {i})
<1>1. c \in Seq(Positions) /\ Len(c) = n /\ Range(c) = 0 .. n - 1 /\ IsInjective(c)
  <2>1. 0 \in Nat \cup {NaN} /\ 0 # NaN /\ 0 + n - 1 = n - 1
    BY PlusFacts
  <2>2. /\ Count(0, n) \in Seq({NaN} \cup Nat) /\ Len(Count(0, n)) = n
        /\ Range(Count(0, n)) = 0 .. 0 + n - 1 /\ IsInjective(Count(0, n))
    BY <2>1, CountFacts
  <2> QED BY <2>1, <2>2 DEF Positions
<1> HIDE DEF c
<1>2. w \in Seq(Positions) /\ Range(w) = (0 .. n - 1) \ {i} /\ IsInjective(w)
  <2> DEFINE T == Range(c) \ {i}
  <2>1. w = Keep(c, T)
    BY DEF Without
  <2> HIDE DEF w, T
  <2>2. Keep(c, T) \in Seq(Positions) /\ Range(Keep(c, T)) = Range(c) \cap T /\ IsInjective(Keep(c, T))
    BY <1>1, KeepFacts
  <2>3. Range(w) = Range(c) \ {i}
    BY <2>1, <2>2 DEF T
  <2> QED BY <1>1, <2>1, <2>2, <2>3
<1>3. PICK r \in Orders(w) : o = <<i>> \o r
  BY DEF FirstOf, c
<1> HIDE DEF w
<1>4. r \in Seq(Positions) /\ Range(r) = (0 .. n - 1) \ {i} /\ IsInjective(r)
  BY <1>2, OrdersFacts
<1> DEFINE h == <<i>>
<1>5. h \in Seq(Positions) /\ Range(h) = {i} /\ IsInjective(h) /\ Len(h) = 1 /\ h[1] = i
  BY DEF Positions, Range, IsInjective
<1> HIDE DEF h
<1>6. /\ h \o r \in Seq(Positions) /\ Len(h \o r) = Len(h) + Len(r)
      /\ \A k \in 1 .. Len(h) : (h \o r)[k] = h[k]
      /\ Range(h \o r) = Range(h) \cup Range(r)
      /\ IsInjective(h) /\ IsInjective(r) /\ Range(h) \cap Range(r) = {} => IsInjective(h \o r)
  BY <1>4, <1>5, ConcatFacts
<1>7. o = h \o r
  BY <1>3 DEF h
<1>8. o \in Seq(Positions) /\ Range(o) = 0 .. n - 1 /\ IsInjective(o)
  BY <1>4, <1>5, <1>6, <1>7
<1>9. o[1] = i
  BY <1>5, <1>6, <1>7
<1>10. Len(o) = n
  BY <1>1, <1>8, NoLonger
<1> QED BY <1>8, <1>9, <1>10 DEF IsOrder

LEMMA AdjustFacts ==
    ASSUME NEW s \in Seq(Positions), NEW n \in Positions, NEW k \in Nat, NEW a,
           a = adjustShuffledIndexesForInsertion(s, n, k)
    PROVE  /\ a \in Seq(Positions) /\ Len(a) = Len(s)
           /\ \A i \in 1 .. Len(s) : a[i] = IF n # NaN /\ s[i] >= n THEN s[i] + k ELSE s[i]
<1>1. Len(s) \in Nat /\ DOMAIN s = 1 .. Len(s) /\ \A i \in 1 .. Len(s) : s[i] \in Positions
  OBVIOUS
<1>2. /\ DOMAIN a = 1 .. Len(s) /\ a = [i \in 1 .. Len(s) |-> a[i]]
      /\ \A i \in 1 .. Len(s) : a[i] = IF n # NaN /\ s[i] >= n THEN s[i] + k ELSE s[i]
  BY <1>1 DEF adjustShuffledIndexesForInsertion
<1>3. \A i \in 1 .. Len(s) : a[i] \in Positions
  <2> TAKE i \in 1 .. Len(s)
  <2>1. s[i] \in Positions /\ (a[i] = s[i] \/ (n # NaN /\ s[i] >= n /\ a[i] = s[i] + k))
    BY <1>1, <1>2
  <2>2. NaN \in Int /\ NaN < -1
    BY PlayerQueueAssumption
  <2> QED BY <2>1, <2>2 DEF Positions
<1>4. a \in Seq(Positions) /\ Len(a) = Len(s)
  BY <1>1, <1>2, <1>3, MapFacts
<1> QED BY <1>2, <1>4

LEMMA InvParts ==
    ASSUME StoreInv
    PROVE  /\ PlayerOK(player) /\ QueueOK(queue) /\ timestamp \in Timestamps
           /\ queue.default \in Seq(Ids) /\ IsInjective(queue.default)
           /\ Len(queue.default) \in Nat /\ Len(queue.default) <= MaxSongs
           /\ Range(queue.default) \subseteq queue.songs /\ queue.songs \subseteq Ids
           /\ queue.shuffled \in Seq(Positions) /\ Len(queue.shuffled) \in Nat
           /\ player.index \in Indices /\ getQueueOrder(queue) = queue.default
           /\ player.shuffle \in {"none", "track"} /\ player.playerNum \in {1, 2}
<1>1. queue.default \in Seq(Ids) /\ queue.shuffled \in Seq(Positions)
  BY DEF StoreInv, QueueOK, DefaultOK
<1>2. Len(queue.default) \in Nat /\ Len(queue.shuffled) \in Nat
  BY <1>1
<1>3. player.index \in Indices /\ player.shuffle \in {"none", "track"} /\ player.playerNum \in {1, 2}
  BY DEF StoreInv, PlayerOK
<1>4. getQueueOrder(queue) = queue.default
  BY QueueOrder DEF StoreInv
<1> QED BY <1>1, <1>2, <1>3, <1>4 DEF StoreInv, QueueOK, DefaultOK

\* New songs in any order.
LEMMA NewSongs ==
    ASSUME StoreInv, NEW ids \in NewItems, NEW o, o = ids \/ o \in Orders(ids)
    PROVE  /\ o \in Seq(Ids) /\ Len(o) = Len(ids) /\ Range(o) = Range(ids) /\ IsInjective(o)
           /\ Len(o) \in Nat /\ Len(queue.default) + Len(o) <= MaxSongs
           /\ Range(o) \cap queue.songs = {}
<1>1. QueueOK(queue) /\ ids \in Replacements /\ Len(queue.default) + Len(ids) <= MaxSongs
  BY NewItemsFacts DEF StoreInv
<1>2. /\ ids \in Seq(Ids) /\ IsInjective(ids) /\ Len(ids) \in Nat
      /\ Range(ids) \cap queue.songs = {}
  BY <1>1, NewFacts
<1>3. o \in Seq(Ids) /\ Len(o) = Len(ids) /\ Range(o) = Range(ids) /\ IsInjective(o)
  <2>1. CASE o = ids
    BY <1>2, <2>1
  <2>2. CASE o \in Orders(ids)
    BY <1>2, <2>2, OrdersFacts
  <2> QED BY <2>1, <2>2
<1> QED BY <1>1, <1>2, <1>3

LEMMA AddLastOK ==
    ASSUME StoreInv, NEW ids \in NewItems, AddLast(ids) \/ AddLastShuffle(ids)
    PROVE  StoreInv' /\ player' = player
<1>1. UNCHANGED <<player, timestamp>>
  BY DEF AddLast, AddLastShuffle
<1>2. PICK o, new : /\ o = ids \/ o \in Orders(ids)
                    /\ new \in Orders(Count(Len(queue.default), Len(ids)))
                    /\ \E s \in {queue.shuffled, queue.shuffled \o new} :
                          queue' = [default |-> queue.default \o o,
                                    songs |-> queue.songs \cup Range(o), shuffled |-> s]
  <2>1. CASE AddLast(ids)
    BY <2>1 DEF AddLast
  <2>2. CASE AddLastShuffle(ids)
    BY <2>2 DEF AddLastShuffle
  <2> QED BY <2>1, <2>2
<1>3. PICK s \in {queue.shuffled, queue.shuffled \o new} :
          queue' = [default |-> queue.default \o o, songs |-> queue.songs \cup Range(o),
                    shuffled |-> s]
  BY <1>2
<1>4. o \in Seq(Ids) /\ Len(o) = Len(ids) /\ Range(o) = Range(ids) /\ IsInjective(o) /\ Len(ids) \in Nat
  BY <1>2, NewSongs
<1>5. 0 \in Positions /\ Len(queue.default) \in Positions /\ queue.shuffled \in Seq(Positions)
  BY InvParts DEF Positions
<1>6. DefaultOK(queue.default \o o, queue.songs \cup Range(o)) /\ queue.songs \cup Range(o) \subseteq Ids
  BY <1>4, <1>5, InvParts, InsertedOK
<1>7. new \in Seq(Positions)
  BY <1>2, <1>4, <1>5, NewOrderFacts
<1>8. s \in Seq(Positions)
  <2>1. queue.shuffled \o new \in Seq(Positions)
    BY ONLY <1>5, <1>7, ConcatFacts
  <2> QED BY <1>3, <1>5, <2>1
<1>9. QueueOK(queue')
  BY <1>3, <1>6, <1>8, RecordOK
<1> QED BY <1>1, <1>9 DEF StoreInv, PlayerOK

LEMMA AddNextOK ==
    ASSUME StoreInv, NEW ids \in NewItems, AddNext(ids) \/ AddNextShuffle(ids)
    PROVE  StoreInv' /\ player' = player
<1>1. UNCHANGED <<player, timestamp>>
  BY DEF AddNext, AddNextShuffle
<1>a. /\ queue.shuffled \in Seq(Positions) /\ player.index \in Indices /\ QueueOK(queue)
  BY InvParts
<1>b. Positions \subseteq Indices /\ Plus(player.index, 1) \in Positions
  BY <1>a, PlusFacts DEF Positions, Indices
<1>c. Plus(NumAt(queue.shuffled, player.index), 1) \in Positions
  BY <1>a, <1>b, NumAtFacts, PlusFacts
<1>2. PICK o : \E position \in Positions : (o = ids \/ o \in Orders(ids)) /\ InsertNext(o, position)
  <2>1. CASE AddNext(ids)
    BY <2>1, <1>b, <1>c DEF AddNext
  <2>2. CASE AddNextShuffle(ids)
    BY <2>2, <1>b, <1>c DEF AddNextShuffle
  <2> QED BY <2>1, <2>2
<1>3. PICK position \in Positions : (o = ids \/ o \in Orders(ids)) /\ InsertNext(o, position)
  BY <1>2
<1> DEFINE adjusted == adjustShuffledIndexesForInsertion(queue.shuffled, position, Len(o))
           here == Plus(player.index, 1)
<1>4. PICK new \in Orders(Count(position, Len(o))) :
          \E s \in {queue.shuffled, Upto(adjusted, here) \o new \o From(adjusted, here)} :
             queue' = [default |-> Inserted(position, o), songs |-> queue.songs \cup Range(o),
                       shuffled |-> s]
  BY <1>3 DEF InsertNext
<1> HIDE DEF adjusted, here
<1>5. PICK s \in {queue.shuffled, Spliced(adjusted, here, new)} :
             queue' = [default |-> Inserted(position, o), songs |-> queue.songs \cup Range(o),
                       shuffled |-> s]
  BY <1>4 DEF Spliced
<1>6. o \in Seq(Ids) /\ Len(o) = Len(ids) /\ Range(o) = Range(ids) /\ IsInjective(o) /\ Len(o) \in Nat
  BY <1>3, NewSongs
<1>7. DefaultOK(Inserted(position, o), queue.songs \cup Range(o)) /\ queue.songs \cup Range(o) \subseteq Ids
  BY <1>6, <1>a, InsertedOK
<1>8. new \in Seq(Positions)
  BY <1>4, <1>6, NewOrderFacts
<1>9. adjusted \in Seq(Positions) /\ here \in Positions
  BY <1>a, <1>b, <1>6, AdjustFacts DEF adjusted, here
<1>10. Spliced(adjusted, here, new) \in Seq(Positions)
  BY <1>8, <1>9, InsertFacts
<1>11. QueueOK(queue')
  BY <1>5, <1>7, <1>10, <1>a, RecordOK
<1> QED BY <1>1, <1>11 DEF StoreInv, PlayerOK

LEMMA PlayOK ==
    ASSUME StoreInv, NEW ids \in Replacements, NEW target \in {NoSong} \cup Range(ids),
           PlayNow(ids, target) \/ PlayShuffle(ids, target)
    PROVE  StoreInv' /\ player'.shuffle = player.shuffle
<1>1. /\ ids \in Seq(Ids) /\ IsInjective(ids) /\ Range(ids) \subseteq Ids /\ Len(ids) \in Nat
      /\ Len(ids) <= MaxSongs /\ DefaultOK(ids, queue.songs \cup Range(ids))
  BY NewFacts DEF StoreInv
<1>2. PICK o, order, s : /\ o = ids \/ o \in Orders(ids)
                         /\ order \in generateShuffledIndexes(Len(ids)) \/
                            (target # NoSong /\ order \in FirstOf(Find(ids, target), Len(ids)))
                         /\ s \in {order, queue.shuffled}
                         /\ queue' = [default |-> o, songs |-> queue.songs \cup Range(o), shuffled |-> s]
                         /\ player' = PlayTarget(Restarted, queue', target) /\ timestamp' = 0
  <2>1. CASE PlayNow(ids, target)
    <3>1. PICK order \in IF target = NoSong THEN generateShuffledIndexes(Len(ids))
                         ELSE FirstOf(Find(ids, target), Len(ids)) :
            /\ queue' = [default |-> ids, songs |-> queue.songs \cup Range(ids),
                         shuffled |-> IF player.shuffle = "track" THEN order ELSE queue.shuffled]
            /\ player' = PlayTarget(Restarted, queue', target)
      BY <2>1 DEF PlayNow
    <3>2. timestamp' = 0
      BY <2>1 DEF PlayNow
    <3> QED BY <3>1, <3>2
  <2>2. CASE PlayShuffle(ids, target)
    BY <2>2 DEF PlayShuffle
  <2> QED BY <2>1, <2>2
<1>3. order \in Seq(Positions)
  <2>1. CASE order \in generateShuffledIndexes(Len(ids))
    BY <1>1, <2>1, GenerateFacts DEF IsOrder
  <2>2. CASE target # NoSong /\ order \in FirstOf(Find(ids, target), Len(ids))
    <3>1. Find(ids, target) \in 0 .. Len(ids) - 1
      BY <1>1, <2>2, FindFacts
    <3> QED BY <1>1, <2>2, <3>1, FirstOfFacts DEF IsOrder
  <2> QED BY <1>2, <2>1, <2>2
<1>4. s \in Seq(Positions)
  BY <1>2, <1>3, InvParts
<1>5. o \in Seq(Ids) /\ Len(o) = Len(ids) /\ Range(o) = Range(ids) /\ IsInjective(o)
  <2>1. CASE o = ids
    BY <1>1, <2>1
  <2>2. CASE o \in Orders(ids)
    BY <1>1, <2>2, OrdersFacts
  <2> QED BY <1>2, <2>1, <2>2
<1>6. DefaultOK(o, queue.songs \cup Range(o)) /\ queue.songs \cup Range(o) \subseteq Ids
  BY <1>1, <1>5, InvParts DEF DefaultOK
<1>7. QueueOK(queue')
  BY <1>2, <1>4, <1>6, RecordOK
<1>8. PlayerOK(Restarted) /\ Restarted.shuffle = player.shuffle
  BY DEF StoreInv, PlayerOK, Restarted, Indices
<1>9. PlayerOK(player') /\ player'.shuffle = player.shuffle
  BY <1>2, <1>7, <1>8, PlayTargetFacts
<1> QED BY <1>2, <1>7, <1>9 DEF StoreInv, PlayerOK, Timestamps

\* addIndexesToShuffled: the new positions come somewhere after the place of the index.
LEMMA AddIndexesFacts ==
    ASSUME NEW s \in Seq(Positions), NEW i \in Indices, NEW c \in Seq(Positions),
           NEW o \in addIndexesToShuffled(s, i, c)
    PROVE  /\ o \in Seq(Positions) /\ Len(o) = Len(s) + Len(c) /\ Range(o) = Range(s) \cup Range(c)
           /\ IsInjective(s) /\ IsInjective(c) /\ Range(s) \cap Range(c) = {} => IsInjective(o)
           /\ i \in 0 .. Len(s) - 1 => o[i + 1] = s[i + 1]
<1> DEFINE k == Plus(i, 1)  a == Upto(s, k)  b == From(s, k)  v == b \o c
<1>1. k \in Positions /\ (i # NaN => k = i + 1)
  BY PlusFacts
<1>2. PICK r \in Orders(v) : o = a \o r
  BY DEF addIndexesToShuffled
<1> HIDE DEF k
<1>3. /\ a \in Seq(Positions) /\ b \in Seq(Positions) /\ a \o b = s
      /\ k \in 0 .. Len(s) => Len(a) = k
  <2>1. k \in Nat \cup {NaN}
    BY <1>1 DEF Positions
  <2> QED BY <2>1, SplitFacts
<1> HIDE DEF a, b
<1>4. /\ Len(a \o b) = Len(a) + Len(b) /\ Range(a \o b) = Range(a) \cup Range(b)
      /\ IsInjective(a \o b) => IsInjective(a) /\ IsInjective(b) /\ Range(a) \cap Range(b) = {}
      /\ \A j \in 1 .. Len(a) : (a \o b)[j] = a[j]
  <2>1. a \in Seq(Positions) /\ b \in Seq(Positions)
    BY <1>3
  <2> QED BY ONLY <2>1, ConcatFacts
<1>5. /\ v \in Seq(Positions) /\ Len(v) = Len(b) + Len(c) /\ Range(v) = Range(b) \cup Range(c)
      /\ IsInjective(b) /\ IsInjective(c) /\ Range(b) \cap Range(c) = {} => IsInjective(v)
  <2>1. b \in Seq(Positions) /\ c \in Seq(Positions)
    BY <1>3
  <2> QED BY ONLY <2>1, ConcatFacts
<1> HIDE DEF v
<1>6. /\ r \in Seq(Positions) /\ Len(r) = Len(v) /\ Range(r) = Range(v)
      /\ IsInjective(v) => IsInjective(r)
  BY <1>5, OrdersFacts
<1>7. /\ a \o r \in Seq(Positions) /\ Len(a \o r) = Len(a) + Len(r) /\ Range(a \o r) = Range(a) \cup Range(r)
      /\ IsInjective(a) /\ IsInjective(r) /\ Range(a) \cap Range(r) = {} => IsInjective(a \o r)
      /\ \A j \in 1 .. Len(a) : (a \o r)[j] = a[j]
  <2>1. a \in Seq(Positions) /\ r \in Seq(Positions)
    BY <1>3, <1>6
  <2> QED BY ONLY <2>1, ConcatFacts
<1>8. Len(a) \in Nat /\ Len(b) \in Nat /\ Len(c) \in Nat /\ Len(s) \in Nat
  BY <1>3
<1>9. Len(o) = Len(s) + Len(c)
  BY <1>2, <1>3, <1>4, <1>5, <1>6, <1>7, <1>8
<1>10. Range(o) = Range(s) \cup Range(c)
  BY <1>2, <1>3, <1>4, <1>5, <1>6, <1>7
<1>11. ASSUME IsInjective(s), IsInjective(c), Range(s) \cap Range(c) = {} PROVE IsInjective(o)
  <2>1. /\ IsInjective(a) /\ IsInjective(b) /\ Range(a) \cap Range(b) = {}
        /\ Range(s) = Range(a) \cup Range(b)
    BY <1>3, <1>4, <1>11
  <2>2. Range(b) \cap Range(c) = {} /\ Range(a) \cap Range(c) = {}
    BY <1>11, <2>1
  <2>3. IsInjective(r)
    BY <1>5, <1>6, <1>11, <2>1, <2>2
  <2>4. Range(a) \cap Range(r) = {}
    BY <1>5, <1>6, <2>1, <2>2
  <2> QED BY <1>2, <1>7, <2>1, <2>3, <2>4
<1>12. ASSUME i \in 0 .. Len(s) - 1 PROVE o[i + 1] = s[i + 1]
  <2>1. i # NaN /\ i + 1 \in 0 .. Len(s) /\ i + 1 \in 1 .. i + 1
    BY <1>8, <1>12, PlusFacts
  <2>2. i + 1 \in 1 .. Len(a)
    BY <1>1, <1>3, <2>1
  <2> QED BY <1>2, <1>3, <1>4, <1>7, <2>2
<1> QED BY <1>2, <1>7, <1>9, <1>10, <1>11, <1>12

LEMMA DropOK ==
    ASSUME StoreInv, DropSongs PROVE StoreInv' /\ player'.shuffle = player.shuffle
<1>1. PICK ids \in NewItems, at \in DropPositions :
          \E target \in {NoSong} \cup Range(ids) : addToQueueByUniqueId(ids, at, target)
  BY DEF DropSongs
<1>2. PICK target : addToQueueByUniqueId(ids, at, target)
  BY <1>1
<1> DEFINE n == Len(ids)
           default == Inserted(at, ids)
           added == [queue EXCEPT !.default = default, !.songs = @ \cup Range(ids)]
           current == getCurrentSong(player, queue)
           adjusted == adjustShuffledIndexesForInsertion(queue.shuffled, at, n)
           shifted == IF at <= player.index THEN [player EXCEPT !.index = @ + n] ELSE player
           orders == CASE player.shuffle # "track" -> {queue.shuffled}
                       [] player.shuffle = "track" /\ current # NoSong ->
                            addIndexesToShuffled(adjusted, player.index, Count(at, n))
                       [] OTHER -> generateShuffledIndexes(Len(default))
           next(order) == CASE player.shuffle # "track" -> recalculatePlayerIndex(shifted, default)
                            [] player.shuffle = "track" /\ current # NoSong
                               /\ Find(order, Find(default, current)) # -1 ->
                                 [player EXCEPT !.index = Find(order, Find(default, current))]
                            [] OTHER -> player
<1>3. PICK order \in orders : /\ queue' = [added EXCEPT !.shuffled = order]
                              /\ player' = PlayTarget(next(order), queue', target)
  BY <1>2 DEF addToQueueByUniqueId
<1>4. timestamp' \in {timestamp, 0}
  BY <1>2 DEF addToQueueByUniqueId
<1>5. /\ QueueOK(queue) /\ PlayerOK(player) /\ at \in Nat /\ at \in Positions
      /\ queue.shuffled \in Seq(Positions) /\ player.index \in Indices
  BY InvParts DEF DropPositions, Positions
<1>6. /\ ids \in Seq(Ids) /\ IsInjective(ids) /\ n \in Nat
  BY NewSongs
<1>7. DefaultOK(default, queue.songs \cup Range(ids)) /\ queue.songs \cup Range(ids) \subseteq Ids
  BY <1>5, <1>6, InsertedOK
<1> HIDE DEF default, next, current, orders
<1>8. default \in Seq(Ids) /\ Len(default) \in Nat
  BY <1>7 DEF DefaultOK
<1>9. order \in Seq(Positions)
  <2>1. CASE order = queue.shuffled
    BY <1>5, <2>1
  <2>2. CASE order \in addIndexesToShuffled(adjusted, player.index, Count(at, n))
    <3>1. adjusted \in Seq(Positions)
      BY <1>5, <1>6, AdjustFacts
    <3>2. Count(at, n) \in Seq(Positions)
      BY <1>5, <1>6, CountFacts DEF Positions
    <3> HIDE DEF adjusted
    <3> QED BY <1>5, <2>2, <3>1, <3>2, AddIndexesFacts
  <2>3. CASE order \in generateShuffledIndexes(Len(default))
    BY <1>8, <2>3, GenerateFacts DEF IsOrder
  <2> QED BY <2>1, <2>2, <2>3 DEF orders
<1>10. QueueOK(queue')
  <2>1. DOMAIN queue = {"default", "shuffled", "songs"}
    BY <1>5 DEF QueueOK
  <2>2. /\ queue'.default = default /\ queue'.songs = queue.songs \cup Range(ids)
        /\ queue'.shuffled = order /\ DOMAIN queue' = {"default", "shuffled", "songs"}
    BY <1>3, <2>1
  <2> QED BY <1>7, <1>9, <2>2 DEF QueueOK
<1>11. PlayerOK(next(order)) /\ next(order).shuffle = player.shuffle
  <2>1. PlayerOK(shifted) /\ shifted.shuffle = player.shuffle
    <3>1. CASE at <= player.index
      <4>1. player.index + n \in Indices
        BY <1>5, <1>6, <3>1, PlayerQueueAssumption DEF Indices
      <4> QED BY <1>5, <3>1, <4>1 DEF PlayerOK
    <3>2. CASE ~(at <= player.index)
      BY <1>5, <3>2
    <3> QED BY <3>1, <3>2
  <2> HIDE DEF shifted
  <2>2. /\ PlayerOK(recalculatePlayerIndex(shifted, default))
        /\ recalculatePlayerIndex(shifted, default).shuffle = shifted.shuffle
    BY <1>8, <2>1, RecalculateFacts
  <2> DEFINE f == Find(order, Find(default, current))
  <2>3. f \in -1 .. Len(order) - 1 /\ Len(order) \in Nat
    BY <1>9, FindFacts
  <2>4. f \in Indices
    BY <2>3 DEF Indices
  <2> HIDE DEF f
  <2>5. PlayerOK([player EXCEPT !.index = f]) /\ [player EXCEPT !.index = f].shuffle = player.shuffle
    BY <1>5, <2>4 DEF PlayerOK
  <2> QED BY <1>5, <2>1, <2>2, <2>5 DEF next, f
<1>12. PlayerOK(player') /\ player'.shuffle = player.shuffle
  BY <1>3, <1>10, <1>11, PlayTargetFacts
<1> QED BY <1>4, <1>10, <1>12 DEF StoreInv, PlayerOK, Timestamps

\* The songs of the queue in another order.
Rearranged(d) ==
    d \in Seq(Ids) /\ IsInjective(d) /\ Range(d) = Range(queue.default) /\ Len(d) = Len(queue.default)

LEMMA RearrangedOK ==
    ASSUME StoreInv, NEW d, Rearranged(d) PROVE DefaultOK(d, queue.songs) /\ d \in Seq(Ids)
BY InvParts DEF Rearranged, DefaultOK

\* A part of the songs after the other part.
LEMMA TwoParts ==
    ASSUME NEW a \in Seq(Ids), NEW b \in Seq(Ids), IsInjective(a), IsInjective(b),
           Range(a) \cap Range(b) = {}
    PROVE  a \o b \in Seq(Ids) /\ IsInjective(a \o b) /\ Range(a \o b) = Range(a) \cup Range(b)
BY ConcatFacts

LEMMA ThreeParts ==
    ASSUME NEW a \in Seq(Ids), NEW b \in Seq(Ids), NEW c \in Seq(Ids), IsInjective(a), IsInjective(b),
           IsInjective(c), Range(a) \cap Range(b) = {}, Range(a) \cap Range(c) = {},
           Range(b) \cap Range(c) = {}
    PROVE  /\ a \o b \o c \in Seq(Ids) /\ IsInjective(a \o b \o c)
           /\ Range(a \o b \o c) = Range(a) \cup Range(b) \cup Range(c)
<1> DEFINE v == a \o b
<1>1. v \in Seq(Ids) /\ IsInjective(v) /\ Range(v) = Range(a) \cup Range(b)
  BY TwoParts
<1> HIDE DEF v
<1>2. Range(v) \cap Range(c) = {}
  BY <1>1
<1>3. v \o c \in Seq(Ids) /\ IsInjective(v \o c) /\ Range(v \o c) = Range(v) \cup Range(c)
  BY <1>1, <1>2, TwoParts
<1> QED BY <1>1, <1>3 DEF v

\* The selected songs, and the others.
LEMMA PartFacts ==
    ASSUME NEW s \in Seq(Ids), IsInjective(s), NEW sel
    PROVE  /\ Keep(s, sel) \in Seq(Ids) /\ IsInjective(Keep(s, sel)) /\ Range(Keep(s, sel)) = Range(s) \cap sel
           /\ Without(s, sel) \in Seq(Ids) /\ IsInjective(Without(s, sel))
           /\ Range(Without(s, sel)) = Range(s) \ sel
<1> DEFINE T == Range(s) \ sel
<1>1. Without(s, sel) = Keep(s, T)
  BY DEF Without
<1>2. Range(s) \cap T = Range(s) \ sel
  OBVIOUS
<1> HIDE DEF T
<1>3. Keep(s, T) \in Seq(Ids) /\ IsInjective(Keep(s, T)) /\ Range(Keep(s, T)) = Range(s) \cap T
  BY KeepFacts
<1>4. Keep(s, sel) \in Seq(Ids) /\ IsInjective(Keep(s, sel)) /\ Range(Keep(s, sel)) = Range(s) \cap sel
  BY KeepFacts
<1> QED BY <1>1, <1>2, <1>3, <1>4

LEMMA RearrangedBy ==
    ASSUME StoreInv, NEW d, d \in Seq(Ids) /\ IsInjective(d) /\ Range(d) = Range(queue.default)
    PROVE  Rearranged(d)
BY InvParts, NoLonger DEF Rearranged

\* moveSelectedToNext: the place where the selected songs go in.
LEMMA NextPlace ==
    ASSUME StoreInv, NEW sel, NEW before, before = {i \in 0 .. Len(queue.default) - 1 :
                                              At(queue.default, i) \in sel /\ i < player.index}
    PROVE  Plus(player.index, 1 - Cardinality(before)) \in Positions
<1>1. player.index \in Indices /\ NaN \in Int /\ NaN < -1
  BY InvParts, PlayerQueueAssumption
<1>2. CASE player.index = NaN
  BY <1>2 DEF Plus, Positions
<1>3. CASE player.index = -1
  <2>1. before = {}
    BY <1>3
  <2>2. Cardinality(before) = 0
    BY <2>1, FS_EmptySet
  <2> QED BY <1>1, <1>3, <2>2 DEF Plus, Positions
<1>4. CASE player.index \in Nat
  <2> DEFINE k == player.index
  <2>1. before \subseteq 0 .. k - 1
    BY <1>4
  <2>2. IsFiniteSet(0 .. k - 1) /\ Cardinality(0 .. k - 1) = k
    <3>1. 0 \in Int /\ k - 1 \in Int /\ (0 <= k - 1 \/ k = 0)
      BY <1>4
    <3>2. IsFiniteSet(0 .. k - 1) /\ Cardinality(0 .. k - 1) = IF 0 > k - 1 THEN 0 ELSE (k - 1) - 0 + 1
      BY <3>1, FS_Interval
    <3> QED BY <1>4, <3>2
  <2>3. Cardinality(before) <= k /\ Cardinality(before) \in Nat
    BY <2>1, <2>2, FS_Subset, FS_CardinalityType
  <2> QED BY <1>1, <1>4, <2>3 DEF Plus, Positions
<1> QED BY <1>1, <1>2, <1>3, <1>4 DEF Indices

LEMMA MovesFacts ==
    ASSUME StoreInv, Moves PROVE \E d : Rearranged(d) /\ Reorder(d)
<1>1. PICK sel \in Selections : \/ \E at \in DropPositions : moveSelectedTo(sel, at)
                                \/ moveSelectedToBottom(sel) \/ moveSelectedToTop(sel)
                                \/ moveSelectedToNext(sel)
  BY DEF Moves
<1> DEFINE q == queue.default  picked == Keep(q, sel)  rest == Without(q, sel)
<1>2. q \in Seq(Ids) /\ IsInjective(q) /\ Selected(sel) = picked
  BY InvParts DEF Selected
<1> HIDE DEF q
<1>3. /\ picked \in Seq(Ids) /\ IsInjective(picked) /\ Range(picked) = Range(q) \cap sel
      /\ rest \in Seq(Ids) /\ IsInjective(rest) /\ Range(rest) = Range(q) \ sel
  BY <1>2, PartFacts
<1> HIDE DEF picked, rest
<1>4. ASSUME NEW at \in DropPositions, moveSelectedTo(sel, at) PROVE \E d : Rearranged(d) /\ Reorder(d)
  <2> DEFINE a == Upto(q, at)  b == From(q, at)  A == Without(a, sel)  B == Without(b, sel)
             d == A \o picked \o B
  <2>1. a \in Seq(Ids) /\ b \in Seq(Ids) /\ a \o b = q
    <3>1. at \in Nat \cup {NaN}
      BY DEF DropPositions
    <3> QED BY <1>2, <3>1, SplitFacts
  <2>2. Reorder(d)
    BY <1>2, <1>4 DEF moveSelectedTo, q
  <2> HIDE DEF a, b
  <2>3. /\ IsInjective(a \o b) => IsInjective(a) /\ IsInjective(b) /\ Range(a) \cap Range(b) = {}
        /\ Range(a \o b) = Range(a) \cup Range(b)
    <3>1. a \in Seq(Ids) /\ b \in Seq(Ids)
      BY <2>1
    <3> QED BY ONLY <3>1, ConcatFacts
  <2>4. /\ IsInjective(a) /\ IsInjective(b) /\ Range(a) \cap Range(b) = {}
        /\ Range(q) = Range(a) \cup Range(b)
    BY <1>2, <2>1, <2>3
  <2>5. /\ A \in Seq(Ids) /\ IsInjective(A) /\ Range(A) = Range(a) \ sel
        /\ B \in Seq(Ids) /\ IsInjective(B) /\ Range(B) = Range(b) \ sel
    BY <2>1, <2>4, PartFacts
  <2> HIDE DEF A, B
  <2>6. /\ Range(A) \cap Range(picked) = {} /\ Range(A) \cap Range(B) = {}
        /\ Range(picked) \cap Range(B) = {}
        /\ Range(A) \cup Range(picked) \cup Range(B) = Range(q)
    BY <1>3, <2>4, <2>5
  <2>7. d \in Seq(Ids) /\ IsInjective(d) /\ Range(d) = Range(A) \cup Range(picked) \cup Range(B)
    <3>1. picked \in Seq(Ids) /\ IsInjective(picked)
      BY <1>3
    <3> QED BY ONLY <2>5, <2>6, <3>1, ThreeParts
  <2> HIDE DEF d
  <2>8. Rearranged(d)
    BY <2>6, <2>7, RearrangedBy DEF q
  <2> QED BY <2>2, <2>8
<1>5. /\ Range(rest) \cap Range(picked) = {} /\ Range(picked) \cap Range(rest) = {}
      /\ Range(rest) \cup Range(picked) = Range(q) /\ Range(picked) \cup Range(rest) = Range(q)
  BY <1>3
<1>6. ASSUME moveSelectedToBottom(sel) PROVE \E d : Rearranged(d) /\ Reorder(d)
  <2> DEFINE d == rest \o picked
  <2>1. Reorder(d)
    BY <1>2, <1>6 DEF moveSelectedToBottom, q, rest
  <2>2. d \in Seq(Ids) /\ IsInjective(d) /\ Range(d) = Range(rest) \cup Range(picked)
    BY <1>3, <1>5, TwoParts
  <2> HIDE DEF d
  <2>3. Rearranged(d)
    BY <1>5, <2>2, RearrangedBy DEF q
  <2> QED BY <2>1, <2>3
<1>7. ASSUME moveSelectedToTop(sel) PROVE \E d : Rearranged(d) /\ Reorder(d)
  <2> DEFINE d == picked \o rest
  <2>1. Reorder(d)
    BY <1>2, <1>7 DEF moveSelectedToTop, q, rest
  <2>2. d \in Seq(Ids) /\ IsInjective(d) /\ Range(d) = Range(picked) \cup Range(rest)
    BY <1>3, <1>5, TwoParts
  <2> HIDE DEF d
  <2>3. Rearranged(d)
    BY <1>5, <2>2, RearrangedBy DEF q
  <2> QED BY <2>1, <2>3
<1>8. ASSUME moveSelectedToNext(sel) PROVE \E d : Rearranged(d) /\ Reorder(d)
  <2> DEFINE before == {i \in 0 .. Len(queue.default) - 1 : At(queue.default, i) \in sel /\ i < player.index}
             insert == Plus(player.index, 1 - Cardinality(before))
             d == Spliced(rest, insert, picked)
  <2>1. Reorder(d)
    BY <1>2, <1>8 DEF moveSelectedToNext, q, rest, Spliced
  <2>2. insert \in Positions
    BY NextPlace
  <2> HIDE DEF insert
  <2>3. /\ d \in Seq(Ids) /\ Range(d) = Range(rest) \cup Range(picked)
        /\ IsInjective(rest) /\ IsInjective(picked) /\ Range(rest) \cap Range(picked) = {} => IsInjective(d)
    <3>1. rest \in Seq(Ids) /\ picked \in Seq(Ids)
      BY <1>3
    <3>2. d \in Seq(Ids)
      BY ONLY <2>2, <3>1, InsertFacts
    <3>3. Range(d) = Range(rest) \cup Range(picked)
      BY ONLY <2>2, <3>1, InsertFacts
    <3>4. IsInjective(rest) /\ IsInjective(picked) /\ Range(rest) \cap Range(picked) = {} => IsInjective(d)
      BY ONLY <2>2, <3>1, InsertFacts
    <3> QED BY <3>2, <3>3, <3>4
  <2> HIDE DEF d
  <2>4. Rearranged(d)
    BY <1>3, <1>5, <2>3, RearrangedBy DEF q
  <2> QED BY <2>1, <2>4
<1> QED BY <1>1, <1>4, <1>6, <1>7, <1>8

LEMMA ReorderOK ==
    ASSUME StoreInv, NEW d, Rearranged(d), Reorder(d)
    PROVE  StoreInv' /\ player'.shuffle = player.shuffle
<1>1. DefaultOK(d, queue.songs) /\ d \in Seq(Ids) /\ QueueOK(queue) /\ PlayerOK(player)
  BY RearrangedOK, InvParts
<1>2. QueueOK(queue')
  BY <1>1, ExceptOK DEF Reorder
<1>3. PlayerOK(player') /\ player'.shuffle = player.shuffle
  BY <1>1, RecalculateFacts DEF Reorder
<1> QED BY <1>2, <1>3 DEF Reorder, StoreInv, PlayerOK

LEMMA RemoveOK ==
    ASSUME StoreInv, RemoveSongs PROVE StoreInv' /\ player'.shuffle = player.shuffle
<1>1. CASE clearQueue
  <2>1. PlayerOK(player') /\ player'.shuffle = player.shuffle /\ timestamp' \in Timestamps
    BY <1>1 DEF clearQueue, StoreInv, PlayerOK, Indices
  <2>2. DefaultOK(<<>>, {}) /\ <<>> \in Seq(Positions)
    BY EmptyFacts, PlayerQueueAssumption DEF DefaultOK
  <2>3. QueueOK([default |-> <<>>, songs |-> {}, shuffled |-> <<>>])
    BY <2>2, RecordOK
  <2>4. QueueOK(queue')
    BY <1>1, <2>3 DEF clearQueue
  <2> QED BY <2>1, <2>4 DEF StoreInv, PlayerOK
<1>2. ASSUME NEW sel \in Selections, clearSelected(sel) PROVE StoreInv' /\ player'.shuffle = player.shuffle
  <2> DEFINE d == Without(queue.default, sel)
             removed == {i \in 0 .. Len(queue.default) - 1 : At(queue.default, i) \in sel}
             left == Without(queue.shuffled, removed)
             remap(i) == Plus(i, -Cardinality({r \in removed : r < i}))
             mapped == [k \in DOMAIN left |-> remap(left[k])]
             s == IF isShuffleEnabled(player, queue) THEN mapped ELSE <<>>
             q == [queue EXCEPT !.default = d, !.shuffled = s]
  <2>1. queue' = cleanupOrphanedSongs(q) /\ player' = recalculatePlayerIndex(player, d) /\ timestamp' = timestamp
    BY <1>2 DEF clearSelected
  <2>2. /\ queue.default \in Seq(Ids) /\ IsInjective(queue.default) /\ QueueOK(queue) /\ PlayerOK(player)
        /\ queue.shuffled \in Seq(Positions) /\ Range(queue.default) \subseteq queue.songs
        /\ Len(queue.default) <= MaxSongs /\ Len(queue.default) \in Nat
    BY InvParts
  <2>3. d \in Seq(Ids) /\ IsInjective(d) /\ Range(d) = Range(queue.default) \ sel
    BY <2>2, PartFacts
  <2>4. Len(d) <= Len(queue.default) /\ Len(d) \in Nat
    <3>1. Range(d) \subseteq Range(queue.default)
      BY <2>3
    <3> QED BY <2>2, <2>3, <3>1, NoLonger
  <2> HIDE DEF d
  <2>5. DefaultOK(d, queue.songs)
    <3>1. Len(d) <= MaxSongs
      BY <2>2, <2>4, PlayerQueueAssumption
    <3> QED BY <2>2, <2>3, <3>1 DEF DefaultOK
  <2>6. left \in Seq(Positions)
    BY <2>2, KeepFacts DEF Without
  <2>7. ASSUME NEW i \in Positions PROVE remap(i) \in Positions
    <3> DEFINE below == {r \in removed : r < i}
    <3>1. CASE i = NaN
      BY <3>1 DEF Plus, Positions
    <3>2. CASE i \in Nat
      <4>1. below \subseteq 0 .. i - 1
        BY <3>2
      <4>2. IsFiniteSet(0 .. i - 1) /\ Cardinality(0 .. i - 1) = i
        <5>1. IsFiniteSet(0 .. i - 1) /\ Cardinality(0 .. i - 1) = IF 0 > i - 1 THEN 0 ELSE (i - 1) - 0 + 1
          BY <3>2, FS_Interval
        <5> QED BY <3>2, <5>1
      <4>3. Cardinality(below) <= i /\ Cardinality(below) \in Nat
        BY <4>1, <4>2, FS_Subset, FS_CardinalityType
      <4> HIDE DEF below
      <4>4. Plus(i, -Cardinality(below)) \in Positions
        BY <3>2, <4>3, PlusFacts DEF Plus, Positions
      <4> QED BY <4>4 DEF below
    <3> QED BY <3>1, <3>2 DEF Positions
  <2> HIDE DEF left, removed, remap
  <2>8. mapped \in Seq(Positions)
    <3>1. Len(left) \in Nat /\ DOMAIN left = 1 .. Len(left) /\ \A k \in 1 .. Len(left) : left[k] \in Positions
      BY <2>6
    <3>2. /\ DOMAIN mapped = 1 .. Len(left) /\ mapped = [k \in 1 .. Len(left) |-> mapped[k]]
          /\ \A k \in 1 .. Len(left) : mapped[k] \in Positions
      BY <2>7, <3>1
    <3> HIDE DEF mapped
    <3> QED BY <3>1, <3>2, MapFacts
  <2> HIDE DEF mapped
  <2>9. s \in Seq(Positions)
    BY <2>8, EmptyFacts
  <2> HIDE DEF s
  <2>10. QueueOK(q)
    BY <2>2, <2>5, <2>9, ExceptOK
  <2> HIDE DEF q
  <2>11. QueueOK(queue')
    BY <2>1, <2>10, ExceptOK
  <2>12. PlayerOK(player') /\ player'.shuffle = player.shuffle
    BY <2>1, <2>2, <2>3, RecalculateFacts
  <2> QED BY <2>1, <2>11, <2>12 DEF StoreInv, PlayerOK
<1> QED BY <1>1, <1>2 DEF RemoveSongs

LEMMA RestoreOK ==
    ASSUME StoreInv, RestoreQueue PROVE StoreInv' /\ player'.shuffle = player.shuffle
<1>1. PICK ids \in Replacements : \E i \in IF ids = <<>> THEN {0} ELSE 0 .. Len(ids) - 1 : setQueue(ids, i)
  BY DEF RestoreQueue
<1>2. PICK i \in IF ids = <<>> THEN {0} ELSE 0 .. Len(ids) - 1 : setQueue(ids, i)
  BY <1>1
<1>3. /\ DefaultOK(ids, queue.songs \cup Range(ids)) /\ Range(ids) \subseteq Ids /\ Len(ids) \in Nat
  BY NewFacts DEF StoreInv
<1>4. i \in Nat
  BY <1>2, <1>3
<1>5. PlayerOK(player') /\ player'.shuffle = player.shuffle
  BY <1>2, <1>4 DEF setQueue, StoreInv, PlayerOK, Indices
<1>6. QueueOK(queue')
  <2>1. DOMAIN queue = {"default", "shuffled", "songs"} /\ queue.shuffled \in Seq(Positions) /\ queue.songs \subseteq Ids
    BY DEF StoreInv, QueueOK
  <2>2. /\ queue'.default = ids /\ queue'.songs = queue.songs \cup Range(ids)
        /\ queue'.shuffled = queue.shuffled /\ DOMAIN queue' = {"default", "shuffled", "songs"}
    BY <1>2, <2>1 DEF setQueue
  <2> QED BY <1>3, <2>1, <2>2 DEF QueueOK
<1>7. timestamp' = timestamp
  BY <1>2 DEF setQueue
<1> QED BY <1>5, <1>6, <1>7 DEF StoreInv, PlayerOK


\* What setShuffle and toggleShuffle do: an index for an order, or none.
LEMMA SwitchFacts ==
    ASSUME StoreInv, toggleShuffle \/ \E s \in {"none", "track"} : setShuffle(s)
    PROVE  /\ timestamp' = timestamp
           /\ \/ /\ queue' \in {[queue EXCEPT !.shuffled = <<>>],
                                cleanupOrphanedSongs([queue EXCEPT !.shuffled = <<>>])}
                 /\ player' = [player EXCEPT !.shuffle = "none",
                                 !.index = IF player.shuffle = "track" /\ @ \in 0 .. Len(queue.shuffled) - 1
                                           THEN NumAt(queue.shuffled, @) ELSE @]
              \/ \E order : \E i \in Indices :
                    /\ IsOrder(order, Len(queue.default))
                    /\ queue' \in {[queue EXCEPT !.shuffled = order],
                                   cleanupOrphanedSongs([queue EXCEPT !.shuffled = order])}
                    /\ player' = [player EXCEPT !.shuffle = "track", !.index = i]
                    /\ player.index \in 0 .. Len(queue.default) - 1 =>
                          i \in 0 .. Len(queue.default) - 1 /\ order[i + 1] = player.index
<1> DEFINE n == Len(queue.default)
           on == \E order : \E i \in Indices :
                    /\ IsOrder(order, n)
                    /\ queue' \in {[queue EXCEPT !.shuffled = order],
                                   cleanupOrphanedSongs([queue EXCEPT !.shuffled = order])}
                    /\ player' = [player EXCEPT !.shuffle = "track", !.index = i]
                    /\ player.index \in 0 .. n - 1 => i \in 0 .. n - 1 /\ order[i + 1] = player.index
           off == /\ queue' \in {[queue EXCEPT !.shuffled = <<>>],
                                 cleanupOrphanedSongs([queue EXCEPT !.shuffled = <<>>])}
                  /\ player' = [player EXCEPT !.shuffle = "none",
                                 !.index = IF player.shuffle = "track" /\ @ \in 0 .. Len(queue.shuffled) - 1
                                           THEN NumAt(queue.shuffled, @) ELSE @]
<1>1. n \in Nat /\ player.index \in Indices
  BY InvParts
<1>2. timestamp' = timestamp
  BY DEF toggleShuffle, setShuffle
<1>3. CASE Unshuffled
  BY <1>2, <1>3 DEF Unshuffled
<1>4. CASE setShuffle("none")
  BY <1>2, <1>4 DEF setShuffle
<1>5. ASSUME setShuffle("track") PROVE on
  <2>1. PICK order \in generateShuffledIndexes(n) :
              /\ queue' = cleanupOrphanedSongs([queue EXCEPT !.shuffled = order])
              /\ player' = [player EXCEPT !.shuffle = "track",
                                !.index = IF @ \in 0 .. n - 1 THEN Find(order, @) ELSE @]
    BY <1>5 DEF setShuffle
  <2>2. IsOrder(order, n)
    BY <1>1, GenerateFacts
  <2> DEFINE k == player.index  i == IF k \in 0 .. n - 1 THEN Find(order, k) ELSE k
  <2>3. k \in 0 .. n - 1 => Find(order, k) \in 0 .. n - 1 /\ order[Find(order, k) + 1] = k
    BY <2>2, FindFacts DEF IsOrder
  <2>4. i \in Indices
    BY <1>1, <2>3 DEF Indices
  <2>5. player' = [player EXCEPT !.shuffle = "track", !.index = i]
    BY <2>1
  <2>6. k \in 0 .. n - 1 => i \in 0 .. n - 1 /\ order[i + 1] = player.index
    BY <2>3
  <2> HIDE DEF i, n
  <2> QED BY <2>1, <2>2, <2>4, <2>5, <2>6
<1>6. ASSUME toggleShuffle, player.shuffle = "none" PROVE on
  <2> DEFINE playing == player.index \in 0 .. n - 1
             i == IF playing THEN 0 ELSE player.index
  <2>1. PICK order \in IF playing THEN FirstOf(player.index, n) ELSE generateShuffledIndexes(n) :
              queue' = [queue EXCEPT !.shuffled = order]
    BY <1>6 DEF toggleShuffle
  <2>2. player' = [player EXCEPT !.shuffle = "track", !.index = i]
    BY <1>6 DEF toggleShuffle
  <2>3. IsOrder(order, n) /\ (playing => order[1] = player.index)
    <3>1. CASE playing
      BY <1>1, <2>1, <3>1, FirstOfFacts
    <3>2. CASE ~playing
      BY <1>1, <2>1, <3>2, GenerateFacts
    <3> QED BY <3>1, <3>2
  <2>4. i \in Indices
    BY <1>1 DEF Indices
  <2>5. playing => i \in 0 .. n - 1 /\ order[i + 1] = player.index
    BY <1>1, <2>3
  <2> HIDE DEF i, n
  <2> QED BY <2>1, <2>2, <2>3, <2>4, <2>5
<1>7. toggleShuffle => Unshuffled \/ player.shuffle = "none"
  BY DEF toggleShuffle
<1> QED BY <1>2, <1>3, <1>4, <1>5, <1>6, <1>7

LEMMA SwitchOK ==
    ASSUME StoreInv, toggleShuffle \/ \E s \in {"none", "track"} : setShuffle(s)
    PROVE  StoreInv'
<1>1. /\ PlayerOK(player) /\ QueueOK(queue) /\ queue.shuffled \in Seq(Positions) /\ player.index \in Indices
      /\ timestamp \in Timestamps
  BY InvParts
<1>2. ASSUME NEW o \in Seq(Positions), NEW q, q = [queue EXCEPT !.shuffled = o]
      PROVE  QueueOK(q) /\ QueueOK(cleanupOrphanedSongs(q))
  BY <1>1, <1>2, ExceptOK
<1>3. ASSUME NEW s \in {"none", "track"}, NEW i \in Indices
      PROVE  PlayerOK([player EXCEPT !.shuffle = s, !.index = i])
  BY <1>1 DEF PlayerOK
<1> DEFINE j == IF player.shuffle = "track" /\ player.index \in 0 .. Len(queue.shuffled) - 1
                THEN NumAt(queue.shuffled, player.index) ELSE player.index
<1>4. j \in Indices /\ <<>> \in Seq(Positions)
  BY <1>1, NumAtFacts, EmptyFacts DEF Indices, Positions
<1>5. \/ /\ queue' \in {[queue EXCEPT !.shuffled = <<>>],
                        cleanupOrphanedSongs([queue EXCEPT !.shuffled = <<>>])}
         /\ player' = [player EXCEPT !.shuffle = "none", !.index = j]
      \/ \E order \in Seq(Positions) : \E i \in Indices :
           /\ queue' \in {[queue EXCEPT !.shuffled = order],
                          cleanupOrphanedSongs([queue EXCEPT !.shuffled = order])}
           /\ player' = [player EXCEPT !.shuffle = "track", !.index = i]
  BY SwitchFacts DEF IsOrder
<1> HIDE DEF j
<1>6. QueueOK(queue')
  BY <1>2, <1>4, <1>5
<1>7. PlayerOK(player')
  BY <1>3, <1>4, <1>5
<1>8. timestamp' = timestamp
  BY SwitchFacts
<1> QED BY <1>1, <1>6, <1>7, <1>8 DEF StoreInv, PlayerOK

\* An array around one of its places.
LEMMA AroundFacts ==
    ASSUME NEW S, NEW s \in Seq(S), NEW i \in 0 .. Len(s) - 1
    PROVE  /\ Upto(s, i) \in Seq(S) /\ From(s, i + 1) \in Seq(S) /\ Len(Upto(s, i)) = i
           /\ Upto(s, i) \o <<s[i + 1]>> \o From(s, i + 1) = s
<1> DEFINE n == Len(s)
<1>1. n \in Nat /\ i \in Nat /\ i + 1 \in 1 .. n /\ i < n /\ i # NaN /\ i + 1 # NaN
  BY PlusFacts
<1>2. Upto(s, i) = SubSeq(s, 1, i) /\ From(s, i + 1) = SubSeq(s, (i + 1) + 1, n)
  BY <1>1 DEF Upto, From
<1>3. SubSeq(s, 1, i) \in Seq(S) /\ SubSeq(s, (i + 1) + 1, n) \in Seq(S) /\ Len(SubSeq(s, 1, i)) = i
  BY <1>1
<1>5. SubSeq(s, 1, i) \o <<s[i + 1]>> = SubSeq(s, 1, i + 1)
  <2>1. 1 \in 1 .. Len(s) /\ i + 1 \in 1 .. Len(s) /\ (i + 1) - 1 = i
    BY <1>1
  <2> QED BY <2>1, SubSeqRecursiveSecond
<1>6. SubSeq(s, 1, i + 1) \o SubSeq(s, (i + 1) + 1, n) = SubSeq(s, 1, n)
  <2>1. 1 \in 1 .. n + 1 /\ i + 1 \in 1 - 1 .. n /\ n \in i + 1 .. n
    BY <1>1
  <2> QED BY <2>1, ConcatAdjacentSubSeq
<1>7. SubSeq(s, 1, n) = s
  BY SubSeqFull
<1> QED BY <1>2, <1>3, <1>5, <1>6, <1>7

LEMMA ShuffleAllFacts ==
    ASSUME StoreInv, shuffleAll
    PROVE  /\ UNCHANGED <<player, timestamp>>
           /\ \E d : /\ Rearranged(d) /\ regenerateShuffledIndexesIfNeeded(d)
                     /\ player.index \in 0 .. Len(queue.default) - 1 =>
                           d[player.index + 1] = queue.default[player.index + 1]
<1> DEFINE q == queue.default
           i == Find(q, At(q, player.index))
<1>1. q \in Seq(Ids) /\ IsInjective(q) /\ Len(q) \in Nat /\ getQueueOrder(queue) = q
  BY InvParts
<1>2. PICK d \in IF i # -1 THEN {b \o <<At(q, i)>> \o a : b \in Orders(Upto(q, i)), a \in Orders(From(q, i + 1))}
                 ELSE Orders(q) :
          regenerateShuffledIndexesIfNeeded(d)
  BY <1>1 DEF shuffleAll
<1>3. UNCHANGED <<player, timestamp>>
  BY DEF shuffleAll
<1>4. i \in -1 .. Len(q) - 1 /\ (player.index \in 0 .. Len(q) - 1 => i = player.index)
  <2>1. i \in -1 .. Len(q) - 1
    BY <1>1, FindFacts
  <2>2. ASSUME player.index \in 0 .. Len(q) - 1 PROVE i = player.index
    <3>1. At(q, player.index) = q[player.index + 1]
      BY <2>2 DEF At
    <3> QED BY <1>1, <2>2, <3>1, FindFacts
  <2> QED BY <2>1, <2>2
<1> HIDE DEF q, i
<1>5. CASE i = -1
  <2>1. d \in Orders(q) /\ player.index \notin 0 .. Len(q) - 1
    BY <1>1, <1>2, <1>4, <1>5
  <2>2. d \in Seq(Ids) /\ IsInjective(d) /\ Range(d) = Range(q)
    BY <1>1, <2>1, OrdersFacts
  <2>3. Rearranged(d)
    BY <2>2, RearrangedBy DEF q
  <2> QED BY <1>2, <1>3, <2>1, <2>3 DEF q
<1>6. CASE i # -1
  <2>1. i \in 0 .. Len(q) - 1
    BY <1>1, <1>4, <1>6
  <2>2. PICK b \in Orders(Upto(q, i)), a \in Orders(From(q, i + 1)) : d = b \o <<At(q, i)>> \o a
    BY <1>2, <1>6
  <2> DEFINE x == q[i + 1]  B == Upto(q, i)  A == From(q, i + 1)  X == <<x>>
  <2>3. At(q, i) = x
    BY <2>1 DEF At
  <2>4. B \in Seq(Ids) /\ A \in Seq(Ids) /\ Len(B) = i /\ B \o X \o A = q
    BY <1>1, <2>1, AroundFacts
  <2>5. X \in Seq(Ids) /\ IsInjective(X) /\ Len(X) = 1 /\ X[1] = x
    <3>1. x \in Ids
      BY <1>1, <2>1
    <3> QED BY <3>1 DEF IsInjective
  <2> HIDE DEF B, A, X, x
  <2>6. /\ IsInjective(B) /\ IsInjective(A) /\ Range(B) \cap Range(X) = {}
        /\ Range(B) \cap Range(A) = {} /\ Range(X) \cap Range(A) = {}
        /\ Range(q) = Range(B) \cup Range(X) \cup Range(A)
    <3> DEFINE v == B \o X
    <3>1. /\ v \in Seq(Ids) /\ Range(v) = Range(B) \cup Range(X)
          /\ IsInjective(v) => IsInjective(B) /\ IsInjective(X) /\ Range(B) \cap Range(X) = {}
      BY ONLY <2>4, <2>5, ConcatFacts
    <3>2. v \o A = q
      BY <2>4
    <3> HIDE DEF v
    <3>a. v \in Seq(Ids) /\ A \in Seq(Ids)
      BY <2>4, <3>1
    <3>3. /\ Range(v \o A) = Range(v) \cup Range(A)
          /\ IsInjective(v \o A) => IsInjective(v) /\ IsInjective(A) /\ Range(v) \cap Range(A) = {}
      BY ONLY <3>a, ConcatFacts
    <3>4. IsInjective(v) /\ IsInjective(A) /\ Range(v) \cap Range(A) = {} /\ Range(q) = Range(v) \cup Range(A)
      BY <1>1, <3>2, <3>3
    <3> QED BY <3>1, <3>4
  <2>7. /\ b \in Seq(Ids) /\ Len(b) = i /\ Range(b) = Range(B) /\ IsInjective(b)
        /\ a \in Seq(Ids) /\ Range(a) = Range(A) /\ IsInjective(a)
    <3>1. b \in Orders(B) /\ a \in Orders(A)
      BY <2>2 DEF B, A
    <3>2. b \in Seq(Ids) /\ Len(b) = Len(B) /\ Range(b) = Range(B) /\ IsInjective(b)
      BY <2>4, <2>6, <3>1, OrdersFacts
    <3>3. a \in Seq(Ids) /\ Range(a) = Range(A) /\ IsInjective(a)
      BY <2>4, <2>6, <3>1, OrdersFacts
    <3> QED BY <2>4, <3>2, <3>3
  <2>8. d = b \o X \o a
    BY <2>2, <2>3 DEF X
  <2>9. d \in Seq(Ids) /\ IsInjective(d) /\ Range(d) = Range(b) \cup Range(X) \cup Range(a)
    <3>1. Range(b) \cap Range(X) = {} /\ Range(b) \cap Range(a) = {} /\ Range(X) \cap Range(a) = {}
      BY <2>6, <2>7
    <3>2. /\ b \o X \o a \in Seq(Ids) /\ IsInjective(b \o X \o a)
          /\ Range(b \o X \o a) = Range(b) \cup Range(X) \cup Range(a)
      <4>1. /\ b \in Seq(Ids) /\ X \in Seq(Ids) /\ a \in Seq(Ids)
            /\ IsInjective(b) /\ IsInjective(X) /\ IsInjective(a)
        BY <2>5, <2>7
      <4> QED BY ONLY <3>1, <4>1, ThreeParts
    <3> QED BY <2>8, <3>2
  <2>10. Rearranged(d)
    <3>1. Range(d) = Range(q)
      BY <2>6, <2>7, <2>9
    <3> QED BY <2>9, <3>1, RearrangedBy DEF q
  <2>11. d[i + 1] = x
    <3> DEFINE v == b \o X
    <3>a. b \in Seq(Ids) /\ X \in Seq(Ids) /\ a \in Seq(Ids)
      BY <2>5, <2>7
    <3>1. /\ v \in Seq(Ids) /\ Len(v) = Len(b) + Len(X)
          /\ \A j \in 1 .. Len(X) : v[Len(b) + j] = X[j]
      BY ONLY <3>a, ConcatFacts
    <3>2. d = v \o a
      BY <2>8
    <3> HIDE DEF v
    <3>3. \A j \in 1 .. Len(v) : (v \o a)[j] = v[j]
      BY ONLY <3>a, <3>1, ConcatFacts
    <3>4. Len(b) = i /\ i \in Nat
      BY <1>1, <2>1, <2>7
    <3>5. v[i + 1] = x
      BY <2>5, <3>1, <3>4
    <3>6. i + 1 \in 1 .. Len(v)
      BY <2>5, <3>1, <3>4
    <3> QED BY <3>2, <3>3, <3>5, <3>6
  <2> QED BY <1>2, <1>3, <1>4, <2>10, <2>11 DEF x, q
<1> QED BY <1>5, <1>6

LEMMA ShuffleSelectedFacts ==
    ASSUME StoreInv, NEW sel \in Selections, shuffleSelected(sel)
    PROVE  /\ UNCHANGED <<player, timestamp>>
           /\ \E d : DefaultOK(d, queue.songs) /\ d \in Seq(Ids) /\ regenerateShuffledIndexesIfNeeded(d)
<1> DEFINE q == queue.default  n == Len(q)  picked == Keep(q, sel)
<1>1. q \in Seq(Ids) /\ IsInjective(q) /\ n \in Nat /\ DOMAIN q = 1 .. n /\ Selected(sel) = picked
  BY InvParts DEF Selected
<1>2. UNCHANGED <<player, timestamp>>
  BY DEF shuffleSelected
<1>3. PICK order \in Orders(picked) :
          regenerateShuffledIndexesIfNeeded(
              [i \in DOMAIN q |-> IF q[i] \in sel THEN order[Find(picked, q[i]) + 1] ELSE q[i]])
  BY <1>1 DEF shuffleSelected
<1> DEFINE d == [i \in DOMAIN q |-> IF q[i] \in sel THEN order[Find(picked, q[i]) + 1] ELSE q[i]]
<1> HIDE DEF q
<1>4. picked \in Seq(Ids) /\ IsInjective(picked) /\ Range(picked) = Range(q) \cap sel
  BY <1>1, PartFacts
<1> HIDE DEF picked
<1>5. order \in Seq(Ids) /\ IsInjective(order) /\ Range(order) = Range(q) \cap sel /\ Len(order) = Len(picked)
  BY <1>4, OrdersFacts
<1>6. Len(picked) \in Nat /\ DOMAIN order = 1 .. Len(picked)
  BY <1>4, <1>5
<1>7. ASSUME NEW i \in 1 .. n
      PROVE  /\ d[i] = IF q[i] \in sel THEN order[Find(picked, q[i]) + 1] ELSE q[i]
             /\ q[i] \in Range(q) /\ d[i] \in Range(q)
             /\ q[i] \in sel => /\ d[i] \in sel /\ Find(picked, q[i]) + 1 \in 1 .. Len(picked)
                                /\ picked[Find(picked, q[i]) + 1] = q[i]
  <2>1. d[i] = IF q[i] \in sel THEN order[Find(picked, q[i]) + 1] ELSE q[i]
    BY <1>1
  <2>2. q[i] \in Range(q)
    BY <1>1 DEF Range
  <2>3. ASSUME q[i] \in sel
        PROVE  Find(picked, q[i]) + 1 \in 1 .. Len(picked) /\ picked[Find(picked, q[i]) + 1] = q[i]
    <3>1. q[i] \in Range(picked)
      BY <1>4, <2>2, <2>3
    <3>2. Find(picked, q[i]) \in 0 .. Len(picked) - 1 /\ picked[Find(picked, q[i]) + 1] = q[i]
      BY <1>4, <3>1, FindFacts
    <3> QED BY <1>6, <3>2
  <2>4. ASSUME NEW k \in 1 .. Len(picked) PROVE order[k] \in Range(q) \cap sel
    BY <1>5, <1>6 DEF Range
  <2> QED BY <2>1, <2>2, <2>3, <2>4
<1>8. DOMAIN d = 1 .. n /\ d = [i \in 1 .. n |-> d[i]]
  BY <1>1
<1> HIDE DEF d, n
<1>9. d \in Seq(Ids) /\ Len(d) = n /\ Range(d) \subseteq Range(q)
  <2>1. Range(q) \subseteq Ids
    BY <1>1, SeqFacts
  <2>2. \A i \in 1 .. n : d[i] \in Ids
    BY <1>7, <2>1
  <2>3. d \in Seq(Ids) /\ Len(d) = n
    BY <1>1, <1>8, <2>2, MapFacts
  <2>4. \A y \in Range(d) : \E i \in 1 .. n : y = d[i]
    BY ONLY <1>8 DEF Range
  <2>5. \A i \in 1 .. n : d[i] \in Range(q)
    BY <1>7
  <2> QED BY ONLY <2>3, <2>4, <2>5
<1>10. IsInjective(d)
  <2> SUFFICES ASSUME NEW i \in 1 .. n, NEW j \in 1 .. n, d[i] = d[j] PROVE i = j
    BY <1>8 DEF IsInjective
  <2>1. CASE q[i] \in sel /\ q[j] \in sel
    <3>1. Find(picked, q[i]) + 1 = Find(picked, q[j]) + 1
      BY <1>5, <1>6, <1>7, <2>1 DEF IsInjective
    <3>2. q[i] = q[j]
      BY <1>7, <2>1, <3>1
    <3> QED BY <1>1, <3>2 DEF IsInjective
  <2>2. CASE q[i] \notin sel /\ q[j] \notin sel
    BY <1>1, <1>7, <2>2 DEF IsInjective
  <2>3. CASE (q[i] \in sel) # (q[j] \in sel)
    BY <1>7, <2>3
  <2> QED BY <2>1, <2>2, <2>3
<1>11. DefaultOK(d, queue.songs)
  BY <1>9, <1>10, InvParts DEF DefaultOK, q, n
<1> QED BY <1>2, <1>3, <1>9, <1>11 DEF d

LEMMA RegenerateOK ==
    ASSUME StoreInv, NEW d \in Seq(Ids), DefaultOK(d, queue.songs), regenerateShuffledIndexesIfNeeded(d)
    PROVE  QueueOK(queue')
<1>1. PICK order \in IF isShuffleEnabled(player, queue)
                     THEN generateShuffledIndexes(Len(d)) ELSE {queue.shuffled} :
          queue' = [queue EXCEPT !.default = d, !.shuffled = order]
  BY DEF regenerateShuffledIndexesIfNeeded
<1>2. Len(d) \in Nat
  OBVIOUS
<1>3. order \in Seq(Positions)
  BY <1>1, <1>2, GenerateFacts, InvParts DEF IsOrder
<1> QED BY <1>1, <1>3, InvParts, ExceptOK

LEMMA ShufflingOK ==
    ASSUME StoreInv, Shuffling PROVE StoreInv'
<1>1. ASSUME shuffle PROVE StoreInv'
  <2>1. PICK order \in generateShuffledIndexes(Len(queue.default)) : queue' = [queue EXCEPT !.shuffled = order]
    BY <1>1 DEF shuffle
  <2>2. order \in Seq(Positions)
    BY InvParts, GenerateFacts DEF IsOrder
  <2>3. QueueOK(queue')
    BY <2>1, <2>2, InvParts, ExceptOK
  <2> QED BY <1>1, <2>3 DEF shuffle, StoreInv, PlayerOK
<1>2. ASSUME shuffleAll PROVE StoreInv'
  <2>1. QueueOK(queue')
    BY <1>2, ShuffleAllFacts, RearrangedOK, RegenerateOK
  <2> QED BY <1>2, <2>1, ShuffleAllFacts DEF StoreInv, PlayerOK
<1>3. ASSUME NEW sel \in Selections, shuffleSelected(sel) PROVE StoreInv'
  <2>1. QueueOK(queue')
    BY <1>3, ShuffleSelectedFacts, RegenerateOK
  <2> QED BY <1>3, <2>1, ShuffleSelectedFacts DEF StoreInv, PlayerOK
<1> QED BY <1>1, <1>2, <1>3, SwitchOK DEF Shuffling

LEMMA AutoNextOK ==
    ASSUME StoreInv, mediaAutoNext PROVE StoreInv' /\ player'.shuffle = player.shuffle
<1> DEFINE n == IF isShuffleEnabled(player, queue) THEN Len(queue.shuffled) ELSE Len(queue.default)
           step == calculateNextIndex(player.index, n, player.repeat)
<1>1. player' = AfterAutoNext(player, queue) /\ timestamp' = 0 /\ queue' = queue
  BY DEF mediaAutoNext
<1>2. AutoNextIndex(player, queue) = step
  BY InvParts DEF AutoNextIndex
<1>3. player.index \in Indices /\ PlayerOK(player)
  BY InvParts
<1>4. Plus(player.index, 1) \in Indices /\ 0 \in Indices
  BY <1>3, PlusFacts DEF Positions, Indices
<1>5. step.next \in Indices
  BY <1>3, <1>4 DEF calculateNextIndex
<1> HIDE DEF step, n
<1>6. PlayerOK(player') /\ player'.shuffle = player.shuffle
  <2>1. PICK status \in {"playing", "paused"}, num \in {player.playerNum, 3 - player.playerNum} :
          player' = [player EXCEPT !.index = step.next, !.status = status, !.playerNum = num,
                                   !.pauseOnNextSongEnd = FALSE]
    BY <1>1, <1>2 DEF AfterAutoNext
  <2>2. num \in {1, 2}
    BY <1>3 DEF PlayerOK
  <2> QED BY <1>3, <1>5, <2>1, <2>2 DEF PlayerOK
<1> QED BY <1>1, <1>6 DEF StoreInv, PlayerOK, Timestamps

LEMMA MoveToOK ==
    ASSUME StoreInv, NEW i \in Indices, MoveTo(i) PROVE StoreInv' /\ player'.shuffle = player.shuffle
BY DEF MoveTo, StoreInv, PlayerOK, Timestamps

LEMMA NavigateOK ==
    ASSUME StoreInv, Navigate PROVE StoreInv' /\ player'.shuffle = player.shuffle
<1>1. /\ player.index \in Indices /\ Len(queue.default) \in Nat /\ getQueueOrder(queue) = queue.default
      /\ queue.default \in Seq(Ids) /\ QueueOK(queue)
  BY InvParts
<1>2. NaN \in Int /\ NaN < -1
  BY PlayerQueueAssumption
<1>3. ASSUME mediaNext PROVE StoreInv' /\ player'.shuffle = player.shuffle
  <2> DEFINE n == Len(queue.default)
  <2>1. PICK i \in {0, player.index, AtMost(n - 1, Plus(player.index, 1))} : MoveTo(i)
    BY <1>1, <1>3 DEF mediaNext
  <2>2. AtMost(n - 1, Plus(player.index, 1)) \in Indices /\ 0 \in Indices
    BY <1>1, <1>2 DEF AtMost, Plus, Indices
  <2> QED BY <1>1, <2>1, <2>2, MoveToOK
<1>4. ASSUME mediaPrevious, ~UNCHANGED vars PROVE StoreInv' /\ player'.shuffle = player.shuffle
  <2> DEFINE n == Len(queue.default)
  <2>1. PICK i \in {n - 1, player.index, AtLeast(0, Plus(player.index, -1))} : MoveTo(i)
    BY <1>1, <1>4 DEF mediaPrevious
  <2>2. AtLeast(0, Plus(player.index, -1)) \in Indices /\ n - 1 \in Indices
    BY <1>1, <1>2 DEF AtLeast, Plus, Indices
  <2> QED BY <1>1, <2>1, <2>2, MoveToOK
<1>5. ASSUME UNCHANGED vars PROVE StoreInv' /\ player'.shuffle = player.shuffle
  BY <1>5 DEF vars, StoreInv, PlayerOK, QueueOK, DefaultOK
<1>6. ASSUME NEW id, mediaPlay(id) PROVE StoreInv' /\ player'.shuffle = player.shuffle
  <2> DEFINE i == Find(queue.default, id)
  <2>1. i \in -1 .. Len(queue.default) - 1
    BY <1>1, FindFacts
  <2>2. i # -1 => PlaybackIndex(player, queue, i) \in Nat
    BY <1>1, <2>1, PlaybackIndexFacts
  <2>3. /\ player' = [player EXCEPT !.status = "playing",
                          !.index = IF i = -1 THEN @ ELSE PlaybackIndex(player, queue, i)]
        /\ timestamp' \in {timestamp, 0} /\ queue' = queue
    BY <1>1, <1>6 DEF mediaPlay
  <2> HIDE DEF i
  <2> QED BY <2>2, <2>3 DEF StoreInv, PlayerOK, Indices, Timestamps
<1>7. ASSUME NEW i \in -1 .. Len(queue.default), mediaPlayByIndex(i)
      PROVE  StoreInv' /\ player'.shuffle = player.shuffle
  <2>1. i # -1 => PlaybackIndex(player, queue, i) \in Nat
    BY <1>1, PlaybackIndexFacts
  <2>2. /\ timestamp' \in {timestamp, 0} /\ queue' = queue
        /\ \/ player' = [player EXCEPT !.status = "paused"]
           \/ i # -1 /\ player' = [player EXCEPT !.status = "playing", !.index = PlaybackIndex(player, queue, i)]
    BY <1>7 DEF mediaPlayByIndex
  <2> QED BY <2>1, <2>2 DEF StoreInv, PlayerOK, Indices, Timestamps
<1> QED BY <1>3, <1>4, <1>5, <1>6, <1>7 DEF Navigate

LEMMA ControlsOK ==
    ASSUME StoreInv, Controls PROVE StoreInv' /\ player'.shuffle = player.shuffle
<1>1. queue' = queue
  BY DEF Controls, mediaPause, mediaStop, mediaTogglePlayPause, mediaSeekToTimestamp, toggleRepeat,
         setRepeat, setPauseOnNextSongEnd
<1>2. timestamp' \in Timestamps
  BY DEF Controls, mediaPause, mediaStop, mediaTogglePlayPause, mediaSeekToTimestamp, toggleRepeat,
         setRepeat, setPauseOnNextSongEnd, StoreInv, Timestamps
<1>3. PlayerOK(player') /\ player'.shuffle = player.shuffle
  <2>1. CASE mediaPause \/ mediaStop \/ mediaTogglePlayPause
    BY <2>1 DEF mediaPause, mediaStop, mediaTogglePlayPause, StoreInv, PlayerOK
  <2>2. CASE \E t \in Timestamps : mediaSeekToTimestamp(t)
    BY <2>2 DEF mediaSeekToTimestamp, StoreInv, PlayerOK
  <2>3. ASSUME NEW r \in Repeats, setRepeat(r) PROVE PlayerOK(player') /\ player'.shuffle = player.shuffle
    BY <2>3 DEF setRepeat, StoreInv, PlayerOK
  <2>4. toggleRepeat => \E r \in Repeats : setRepeat(r)
    BY DEF toggleRepeat, Repeats
  <2>5. ASSUME NEW b \in BOOLEAN, setPauseOnNextSongEnd(b)
        PROVE  PlayerOK(player') /\ player'.shuffle = player.shuffle
    BY <2>5 DEF setPauseOnNextSongEnd, StoreInv, PlayerOK
  <2> QED BY <2>1, <2>2, <2>3, <2>4, <2>5 DEF Controls
<1> QED BY <1>1, <1>2, <1>3 DEF StoreInv, PlayerOK

LEMMA StoreInit == Init => StoreInv
<1> SUFFICES ASSUME Init PROVE StoreInv
  OBVIOUS
<1>1. PlayerOK(player) /\ timestamp \in Timestamps
  BY DEF Init, PlayerOK, Indices, Repeats, Timestamps
<1>2. DefaultOK(<<>>, {}) /\ <<>> \in Seq(Positions)
  BY EmptyFacts, PlayerQueueAssumption DEF DefaultOK
<1>3. QueueOK([default |-> <<>>, songs |-> {}, shuffled |-> <<>>])
  BY <1>2, RecordOK
<1>4. QueueOK(queue)
  BY <1>3 DEF Init
<1> QED BY <1>1, <1>4 DEF StoreInv

\* Switches are the only steps that change player.shuffle.
Switch == toggleShuffle \/ \E s \in {"none", "track"} : setShuffle(s)

LEMMA StoreStep ==
    ASSUME StoreInv, [Next]_vars PROVE StoreInv' /\ (Switch \/ player'.shuffle = player.shuffle)
<1>1. CASE addToQueueByType
  BY <1>1, AddLastOK, AddNextOK, PlayOK DEF addToQueueByType
<1>2. CASE DropSongs
  BY <1>2, DropOK
<1>3. CASE RemoveSongs
  BY <1>3, RemoveOK
<1>4. CASE Moves
  BY <1>4, MovesFacts, ReorderOK
<1>5. CASE RestoreQueue
  BY <1>5, RestoreOK
<1>6. CASE Shuffling
  <2>1. StoreInv'
    BY <1>6, ShufflingOK
  <2>2. Switch \/ player'.shuffle = player.shuffle
    BY <1>6 DEF Shuffling, Switch, shuffle, shuffleAll, shuffleSelected
  <2> QED BY <2>1, <2>2
<1>7. CASE mediaAutoNext
  BY <1>7, AutoNextOK
<1>8. CASE Navigate
  BY <1>8, NavigateOK
<1>9. CASE Controls
  BY <1>9, ControlsOK
<1>10. CASE UNCHANGED vars
  BY <1>10 DEF vars, StoreInv, PlayerOK, QueueOK, DefaultOK
<1> QED BY <1>1, <1>2, <1>3, <1>4, <1>5, <1>6, <1>7, <1>8, <1>9, <1>10 DEF Next

(* The store always holds what TypeOK says: an index that is a number, NaN or   *)
(* -1, a queue that lists songs with an entry, none of them twice and no more   *)
(* than there may be, and positions in queue.shuffled, whatever the operations  *)
(* of player.store.ts that led there.                                           *)
THEOREM QueueTypes == Spec => []TypeOK
<1>1. StoreInv /\ [Next]_vars => StoreInv'
  BY StoreStep
<1> QED BY StoreInit, <1>1, InvTypes, PTL DEF Spec


-----------------------------------------------------------------------------
(* The current song.                                                       *)

\* A queue and an index that points into it, through queue.shuffled under shuffle.
Points(p, q) ==
    /\ QueueOK(q) /\ p.shuffle \in {"none", "track"} /\ p.index \in 0 .. Len(q.default) - 1
    /\ p.shuffle = "track" => IsOrder(q.shuffled, Len(q.default))

Place(p, q) == IF p.shuffle = "track" THEN q.shuffled[p.index + 1] ELSE p.index

LEMMA CurrentFacts ==
    ASSUME NEW p, NEW q, Points(p, q)
    PROVE  /\ Place(p, q) \in 0 .. Len(q.default) - 1 /\ QueueIndex(p, q) = Place(p, q)
           /\ getCurrentSong(p, q) = q.default[Place(p, q) + 1]
           /\ getCurrentSong(p, q) \in Range(q.default) /\ getCurrentSong(p, q) # NoSong
           /\ isShuffleEnabled(p, q) <=> p.shuffle = "track"
           /\ getQueueOrder(q) = q.default /\ q.default \in Seq(Ids) /\ IsInjective(q.default)
           /\ Len(q.default) \in Nat
<1> DEFINE n == Len(q.default)
<1>1. /\ QueueOK(q) /\ p.shuffle \in {"none", "track"} /\ p.index \in 0 .. n - 1
      /\ p.shuffle = "track" => IsOrder(q.shuffled, n)
  BY DEF Points
<1>2. q.default \in Seq(Ids) /\ n \in Nat /\ IsInjective(q.default) /\ getQueueOrder(q) = q.default
  BY <1>1, QueueOrder DEF QueueOK, DefaultOK
<1>3. ASSUME p.shuffle = "track"
      PROVE  /\ q.shuffled # <<>> /\ Len(q.shuffled) = n
             /\ q.shuffled[p.index + 1] \in 0 .. n - 1
  <2>1. q.shuffled \in Seq(Positions) /\ Len(q.shuffled) = n /\ Range(q.shuffled) = 0 .. n - 1
    BY <1>1, <1>3 DEF IsOrder
  <2>2. p.index + 1 \in 1 .. n /\ n # 0
    BY <1>1, <1>2
  <2>3. q.shuffled[p.index + 1] \in Range(q.shuffled)
    <3>1. \A i \in 1 .. Len(q.shuffled) : q.shuffled[i] \in Range(q.shuffled)
      BY ONLY <2>1, SeqFacts
    <3> QED BY <2>1, <2>2, <3>1
  <2>4. q.shuffled # <<>>
    BY <2>1, <2>2, EmptyFacts
  <2> QED BY <2>1, <2>3, <2>4
<1>4. isShuffleEnabled(p, q) <=> p.shuffle = "track"
  BY <1>3 DEF isShuffleEnabled
<1>5. QueueIndex(p, q) = Place(p, q) /\ Place(p, q) \in 0 .. n - 1
  BY <1>1, <1>3, <1>4 DEF QueueIndex, Place, mapShuffledToQueueIndex, NumAt
<1>6. Place(p, q) + 1 \in 1 .. n
  BY <1>2, <1>5
<1>7. q.default[Place(p, q) + 1] \in Range(q.default) /\ q.default[Place(p, q) + 1] \in Ids
  BY <1>2, <1>6, SeqFacts
<1>8. getCurrentSong(p, q) = q.default[Place(p, q) + 1]
  BY <1>2, <1>5 DEF getCurrentSong, At
<1> QED BY <1>2, <1>4, <1>5, <1>7, <1>8, PlayerQueueAssumption

LEMMA OrderOf ==
    ASSUME NEW o \in Seq(Positions), NEW n \in Nat, Len(o) = n, Range(o) = 0 .. n - 1
    PROVE  IsOrder(o, n)
<1>1. o \in [1 .. n -> 0 .. n - 1] /\ \A y \in 0 .. n - 1 : \E i \in 1 .. n : o[i] = y
  <2>1. \A x : x \in Range(o) <=> \E i \in 1 .. n : o[i] = x
    BY SeqFacts
  <2>2. DOMAIN o = 1 .. n /\ o = [i \in 1 .. n |-> o[i]]
    OBVIOUS
  <2> QED BY <2>1, <2>2
<1>2. o \in Surjection(1 .. n, 0 .. n - 1)
  BY <1>1 DEF Surjection
<1>3. IsFiniteSet(1 .. n) /\ Cardinality(1 .. n) = n
  BY FS_Interval
<1>4. Cardinality(0 .. n - 1) = n
  <2>1. Cardinality(0 .. n - 1) = IF 0 > n - 1 THEN 0 ELSE (n - 1) - 0 + 1
    BY FS_Interval
  <2> QED BY <2>1
<1>5. o \in Injection(1 .. n, 0 .. n - 1)
  BY <1>2, <1>3, <1>4, FS_Surjection
<1> QED BY <1>5 DEF Injection, IsOrder

LEMMA AlignedPoints ==
    ASSUME StoreInv, Aligned PROVE Points(player, queue)
BY InvParts, OrderOf DEF Aligned, Points

LEMMA PointsAligned ==
    ASSUME Points(player, queue) PROVE Aligned
BY DEF Aligned, Points, IsOrder

\* The next song, when playback goes on by itself to index k.
LEMMA HandOverStep ==
    ASSUME StoreInv, Aligned, mediaAutoNext, player'.status = "playing"
    PROVE  /\ Current' # NoSong
           /\ getPlayerData(player, queue).decks[player'.playerNum] = Current'
<1> DEFINE n == Len(queue.default)
           d == queue.default
           step == calculateNextIndex(player.index, n, player.repeat)
           k == step.next
           shuffled == player.shuffle = "track"
<1>1. Points(player, queue)
  BY AlignedPoints
<1>2. /\ n \in Nat /\ player.index \in 0 .. n - 1 /\ getQueueOrder(queue) = d /\ d # <<>>
      /\ isShuffleEnabled(player, queue) <=> shuffled
      /\ shuffled => Len(queue.shuffled) = n
      /\ player.repeat \in Repeats /\ player.playerNum \in {1, 2}
  <2>1. n \in Nat /\ player.index \in 0 .. n - 1
    BY <1>1, CurrentFacts DEF Points
  <2>2. d # <<>>
    BY <2>1, EmptyFacts
  <2> QED BY <1>1, <2>1, <2>2, CurrentFacts DEF Points, IsOrder, StoreInv, PlayerOK
<1>3. AutoNextIndex(player, queue) = step
  BY <1>2 DEF AutoNextIndex
<1>4. player' = AfterAutoNext(player, queue) /\ queue' = queue
  BY DEF mediaAutoNext
<1>5. /\ ~(step.pause \/ player.pauseOnNextSongEnd)
      /\ player'.index = k /\ player'.shuffle = player.shuffle /\ player'.repeat = player.repeat
      /\ player'.playerNum = IF player.repeat = "one" /\ k = player.index
                             THEN player.playerNum ELSE 3 - player.playerNum
  <2> HIDE DEF step
  <2> QED BY <1>3, <1>4 DEF AfterAutoNext, StoreInv, PlayerOK
<1>6. Plus(player.index, 1) = player.index + 1 /\ NaN \notin Nat
  <2>1. player.index \in Nat /\ NaN \notin Nat
    BY <1>2, PlusFacts
  <2> QED BY ONLY <2>1, PlusFacts DEF Indices
<1>7. CASE player.repeat = "one"
  <2>1. k = player.index
    BY <1>7 DEF calculateNextIndex
  <2>2. player'.playerNum = player.playerNum
    BY <1>5, <1>7, <2>1
  <2>3. Points(player', queue')
    BY <1>1, <1>4, <1>5, <2>1 DEF Points
  <2>4. Place(player', queue') = Place(player, queue)
    BY <1>4, <1>5, <2>1 DEF Place
  <2>5. getCurrentSong(player', queue') = getCurrentSong(player, queue) /\ getCurrentSong(player', queue') # NoSong
    BY <1>1, <1>4, <2>3, <2>4, CurrentFacts
  <2>6. getPlayerData(player, queue).decks[player.playerNum] = getCurrentSong(player, queue)
    BY <1>2 DEF getPlayerData, getDualPlayerSongs
  <2> QED BY <2>2, <2>5, <2>6 DEF Current
<1>8. CASE player.repeat # "one"
  <2>1. /\ k = IF player.index = n - 1 THEN 0 ELSE player.index + 1
        /\ player.index = n - 1 => player.repeat = "all"
    BY <1>2, <1>5, <1>6, <1>8 DEF calculateNextIndex, Repeats
  <2>2. k \in 0 .. n - 1
    BY <1>2, <2>1
  <2> HIDE DEF k
  <2>3. Points(player', queue')
    BY <1>1, <1>4, <1>5, <2>2 DEF Points
  <2>4. Current' = d[Place(player', queue') + 1] /\ Current' # NoSong
    BY <1>4, <2>3, CurrentFacts DEF Current
  <2>5. Place(player', queue') = IF shuffled THEN queue.shuffled[k + 1] ELSE k
    BY <1>4, <1>5 DEF Place
  <2>6. Place(player', queue') \in 0 .. n - 1
    BY <1>4, <2>3, CurrentFacts
  <2>7. NextSong(player, queue) = Current'
    <3>1. CASE shuffled
      <4>1. NumAt(queue.shuffled, k) = queue.shuffled[k + 1] /\ At(d, NumAt(queue.shuffled, k)) = Current'
        BY <1>2, <2>2, <2>4, <2>5, <2>6, <3>1 DEF NumAt, At
      <4>2. CASE player.index = n - 1
        <5>1. k = 0 /\ player.repeat = "all" /\ ~(player.index + 1 < Len(queue.shuffled))
          BY <1>2, <2>1, <3>1, <4>2
        <5> QED BY <1>2, <1>8, <3>1, <4>1, <5>1 DEF NextSong
      <4>3. CASE player.index # n - 1
        <5>1. k = player.index + 1 /\ player.index + 1 < Len(queue.shuffled) /\ player.index # NaN
          BY <1>2, <1>6, <2>1, <3>1, <4>3
        <5> QED BY <1>2, <1>8, <3>1, <4>1, <5>1 DEF NextSong
      <4> QED BY <4>2, <4>3
    <3>2. CASE ~shuffled
      <4>1. At(d, k) = Current' /\ QueueIndex(player, queue) = player.index
        BY <1>2, <2>2, <2>4, <2>5, <3>2 DEF At, QueueIndex
      <4>2. NextSong(player, queue) = calculateNextSong(player.index, d, player.repeat)
        BY <1>2, <3>2, <4>1 DEF NextSong
      <4>3. calculateNextSong(player.index, d, player.repeat) = At(d, k)
        BY <1>2, <1>6, <1>8, <2>1 DEF calculateNextSong
      <4> QED BY <4>1, <4>2, <4>3
    <3> QED BY <3>1, <3>2
  <2>8. player'.playerNum \in {1, 2} /\ player'.playerNum # player.playerNum
    BY <1>2, <1>5, <1>8
  <2>9. getPlayerData(player, queue).decks[player'.playerNum] = NextSong(player, queue)
    BY <1>8, <2>8 DEF getPlayerData, getDualPlayerSongs
  <2> QED BY <2>4, <2>7, <2>9
<1> QED BY <1>7, <1>8

(* Whenever a track ends with a song current (mediaAutoNext) and playback goes  *)
(* on, the web player that takes over has the song loaded that becomes current, *)
(* with shuffle on or off, whatever the length of the queue and under every     *)
(* repeat mode.                                                                 *)
THEOREM DeckHasNextSong == Spec => HandOver
<1>1. StoreInv /\ [Next]_vars => StoreInv'
  BY StoreStep
<1>2. StoreInv /\ [Next]_vars =>
        [Aligned /\ mediaAutoNext /\ player'.status = "playing"
           => /\ Current' # NoSong
              /\ getPlayerData(player, queue).decks[player'.playerNum] = Current']_vars
  BY HandOverStep
<1> QED BY StoreInit, <1>1, <1>2, PTL DEF Spec, HandOver


\* Switching shuffle translates the index.
LEMMA SwitchStep ==
    ASSUME StoreInv, Aligned, Switch, player.shuffle # player'.shuffle
    PROVE  Aligned' /\ Current' = Current
<1> DEFINE n == Len(queue.default)  k == player.index
<1>1. Points(player, queue) /\ PlayerOK(player) /\ QueueOK(queue)
  BY AlignedPoints, InvParts
<1>2. Place(player, queue) \in 0 .. n - 1 /\ k \in 0 .. n - 1
  BY <1>1, CurrentFacts DEF Points
<1>3. QueueOK(queue')
  BY SwitchOK DEF Switch, StoreInv
<1>4. DOMAIN queue = {"default", "shuffled", "songs"}
  BY <1>1 DEF QueueOK
<1>5. Points(player', queue') /\ Place(player', queue') = Place(player, queue) /\ queue'.default = queue.default
  <2>1. CASE /\ queue' \in {[queue EXCEPT !.shuffled = <<>>], cleanupOrphanedSongs([queue EXCEPT !.shuffled = <<>>])}
             /\ player' = [player EXCEPT !.shuffle = "none",
                             !.index = IF player.shuffle = "track" /\ @ \in 0 .. Len(queue.shuffled) - 1
                                       THEN NumAt(queue.shuffled, @) ELSE @]
    <3>1. player.shuffle = "track" /\ player'.shuffle = "none"
      BY <1>1, <2>1 DEF PlayerOK
    <3>2. Len(queue.shuffled) = n
      BY <1>1, <3>1 DEF Points, IsOrder
    <3>3. NumAt(queue.shuffled, k) = Place(player, queue)
      BY <1>2, <3>1, <3>2 DEF NumAt, Place
    <3>4. player'.index = Place(player, queue)
      BY <1>1, <1>2, <2>1, <3>1, <3>2, <3>3 DEF PlayerOK
    <3>5. queue'.default = queue.default
      BY <1>4, <2>1 DEF cleanupOrphanedSongs
    <3> QED BY <1>2, <1>3, <3>1, <3>4, <3>5 DEF Points, Place
  <2>2. ASSUME NEW o, NEW i, IsOrder(o, n),
               queue' \in {[queue EXCEPT !.shuffled = o], cleanupOrphanedSongs([queue EXCEPT !.shuffled = o])},
               player' = [player EXCEPT !.shuffle = "track", !.index = i],
               i \in 0 .. n - 1 /\ o[i + 1] = k
        PROVE  Points(player', queue') /\ Place(player', queue') = Place(player, queue)
               /\ queue'.default = queue.default
    <3>1. player'.shuffle = "track" /\ player'.index = i /\ player.shuffle = "none"
      BY <1>1, <2>2 DEF PlayerOK
    <3>2. queue'.default = queue.default /\ queue'.shuffled = o
      BY <1>4, <2>2 DEF cleanupOrphanedSongs
    <3> QED BY <1>3, <2>2, <3>1, <3>2 DEF Points, Place
  <2> QED BY <1>2, <2>1, <2>2, SwitchFacts DEF Switch
<1>6. getCurrentSong(player', queue') = getCurrentSong(player, queue)
  BY <1>1, <1>5, CurrentFacts
<1>7. Aligned'
  BY <1>5 DEF Aligned, Points, IsOrder
<1> QED BY <1>6, <1>7 DEF Current

(* Switching shuffle on or off with a song current (toggleShuffle, setShuffle)  *)
(* leaves that song current and the playback order complete: the index is       *)
(* translated from positions of the queue to positions of queue.shuffled or     *)
(* back, whatever order the shuffle drew.                                       *)
THEOREM SwitchKeepsCurrent == Spec => ShuffleSwitchKeepsPlaying
<1>1. StoreInv /\ [Next]_vars => StoreInv'
  BY StoreStep
<1>2. StoreInv /\ [Next]_vars =>
        [Aligned /\ player.shuffle # player.shuffle' => Aligned' /\ Current' = Current]_vars
  BY StoreStep, SwitchStep
<1> QED BY StoreInit, <1>1, <1>2, PTL DEF Spec, ShuffleSwitchKeepsPlaying

\* Without shuffle, the index is that of the current song again after recalculatePlayerIndex.
LEMMA RecalculatedCurrent ==
    ASSUME StoreInv, Aligned, player.shuffle = "none", NEW d \in Seq(Ids), Current \in Range(d),
           QueueOK(queue'), queue'.default = d, player' = recalculatePlayerIndex(player, d)
    PROVE  Current' = Current
<1>1. Current # NoSong /\ PlayerOK(player)
  BY AlignedPoints, CurrentFacts, InvParts DEF Current
<1>2. /\ player'.shuffle = player.shuffle
      /\ player'.index \in 0 .. Len(d) - 1 /\ d[player'.index + 1] = Current
  BY <1>1, RecalculateFacts DEF Current
<1>3. Points(player', queue') /\ Place(player', queue') = player'.index
  BY <1>2 DEF Points, Place
<1>4. getCurrentSong(player', queue') = d[player'.index + 1]
  BY <1>3, CurrentFacts
<1> QED BY <1>2, <1>4 DEF Current

LEMMA EditingStep ==
    ASSUME StoreInv, Aligned, player.shuffle = "none",
           Moves \/ shuffleAll \/ \E sel \in Selections : Current \notin sel /\ clearSelected(sel)
    PROVE  Current' = Current
<1>1. Points(player, queue) /\ QueueOK(queue) /\ Current \in Range(queue.default)
  BY AlignedPoints, CurrentFacts, InvParts DEF Current
<1>2. CASE Moves
  <2>1. PICK d : Rearranged(d) /\ Reorder(d)
    BY <1>2, MovesFacts
  <2>2. QueueOK(queue')
    BY <2>1, ReorderOK DEF StoreInv
  <2>3. d \in Seq(Ids) /\ Current \in Range(d)
    BY <1>1, <2>1 DEF Rearranged
  <2>4. queue'.default = d /\ player' = recalculatePlayerIndex(player, d)
    BY <1>1, <2>1 DEF Reorder, QueueOK
  <2> QED BY <2>2, <2>3, <2>4, RecalculatedCurrent
<1>3. CASE shuffleAll
  <2>1. PICK d : /\ Rearranged(d) /\ regenerateShuffledIndexesIfNeeded(d)
                 /\ player.index \in 0 .. Len(queue.default) - 1 =>
                           d[player.index + 1] = queue.default[player.index + 1]
    BY <1>3, ShuffleAllFacts
  <2>2. player' = player
    BY <1>3, ShuffleAllFacts
  <2>3. QueueOK(queue')
    BY <1>3, ShufflingOK DEF Shuffling, StoreInv
  <2>4. queue'.default = d /\ Len(d) = Len(queue.default)
    BY <1>1, <2>1 DEF regenerateShuffledIndexesIfNeeded, QueueOK, Rearranged
  <2>5. player.index \in 0 .. Len(queue.default) - 1 /\ Place(player, queue) = player.index
    BY <1>1 DEF Points, Place
  <2>6. Points(player', queue') /\ Place(player', queue') = player.index
    BY <2>2, <2>3, <2>4, <2>5 DEF Points, Place
  <2>7. getCurrentSong(player', queue') = d[player.index + 1]
    BY <2>4, <2>6, CurrentFacts
  <2>8. getCurrentSong(player, queue) = queue.default[player.index + 1]
    BY <1>1, <2>5, CurrentFacts
  <2> QED BY <2>1, <2>5, <2>7, <2>8 DEF Current
<1>4. ASSUME NEW sel \in Selections, Current \notin sel, clearSelected(sel) PROVE Current' = Current
  <2> DEFINE d == Without(queue.default, sel)
  <2>1. QueueOK(queue')
    BY <1>4, RemoveOK DEF RemoveSongs, StoreInv
  <2>2. queue'.default = d /\ player' = recalculatePlayerIndex(player, d)
    BY <1>1, <1>4 DEF clearSelected, cleanupOrphanedSongs, QueueOK
  <2>3. d \in Seq(Ids) /\ Range(d) = Range(queue.default) \ sel
    BY InvParts, PartFacts
  <2> HIDE DEF d
  <2>4. Current \in Range(d)
    BY <1>1, <1>4, <2>3
  <2> QED BY <2>1, <2>2, <2>3, <2>4, RecalculatedCurrent
<1> QED BY <1>2, <1>3, <1>4

(* Without shuffle, moving songs about, shuffling the queue itself (shuffleAll) *)
(* or removing other songs (clearSelected) leaves the current song current, for *)
(* every selection and every place the songs are moved to.                      *)
THEOREM EditingKeepsCurrent == Spec => EditingKeepsPlaying
<1>1. StoreInv /\ [Next]_vars => StoreInv'
  BY StoreStep
<1>2. StoreInv /\ [Next]_vars =>
        [/\ Aligned /\ player.shuffle = "none"
         /\ Moves \/ shuffleAll \/ \E sel \in Selections : Current \notin sel /\ clearSelected(sel)
         => Current' = Current]_vars
  BY EditingStep
<1> QED BY StoreInit, <1>1, <1>2, PTL DEF Spec, EditingKeepsPlaying


\* adjustShuffledIndexesForInsertion makes room for k positions from position on.
LEMMA AdjustRange ==
    ASSUME NEW n \in Nat, NEW s, IsOrder(s, n), NEW at \in 0 .. n, NEW k \in Nat, NEW a,
           a = adjustShuffledIndexesForInsertion(s, at, k)
    PROVE  /\ a \in Seq(Positions) /\ Len(a) = n /\ IsInjective(a)
           /\ Range(a) = (0 .. at - 1) \cup (at + k .. n + k - 1)
           /\ \A i \in 1 .. n : s[i] < at => a[i] = s[i]
<1>1. s \in Seq(Positions) /\ Len(s) = n /\ IsInjective(s) /\ Range(s) = 0 .. n - 1
  BY DEF IsOrder
<1>2. at \in Positions /\ at # NaN /\ at \in Nat
  BY PlusFacts DEF Positions
<1>3. /\ a \in Seq(Positions) /\ Len(a) = n
      /\ \A i \in 1 .. n : a[i] = IF s[i] >= at THEN s[i] + k ELSE s[i]
  BY <1>1, <1>2, AdjustFacts
<1>4. \A x : x \in 0 .. n - 1 <=> \E i \in 1 .. n : s[i] = x
  BY <1>1, SeqFacts
<1>5. \A x : x \in Range(a) <=> \E i \in 1 .. n : a[i] = x
  BY <1>3, SeqFacts
<1>6. \A i \in 1 .. n : s[i] \in 0 .. n - 1
  BY <1>4
<1>7. IsInjective(a)
  <2> SUFFICES ASSUME NEW i \in 1 .. n, NEW j \in 1 .. n, a[i] = a[j] PROVE i = j
    BY <1>3 DEF IsInjective
  <2>1. s[i] \in Nat /\ s[j] \in Nat
    BY <1>6
  <2>2. s[i] = s[j]
    BY <1>2, <1>3, <2>1
  <2> QED BY <1>1, <2>2 DEF IsInjective
<1>8. \A i \in 1 .. n : s[i] < at => a[i] = s[i]
  BY <1>2, <1>3, <1>6
<1>9. ASSUME NEW x \in Range(a) PROVE x \in (0 .. at - 1) \cup (at + k .. n + k - 1)
  <2>1. PICK i \in 1 .. n : a[i] = x
    BY <1>5
  <2>2. s[i] \in 0 .. n - 1 /\ x = IF s[i] >= at THEN s[i] + k ELSE s[i]
    BY <1>3, <1>6, <2>1
  <2> QED BY <1>2, <2>2
<1>10. ASSUME NEW x \in 0 .. at - 1 PROVE x \in Range(a)
  <2>1. x \in 0 .. n - 1 /\ x < at
    BY <1>2
  <2>2. PICK i \in 1 .. n : s[i] = x
    BY <1>4, <2>1
  <2>3. a[i] = x
    BY <1>8, <2>1, <2>2
  <2> QED BY <1>5, <2>3
<1>11. ASSUME NEW x \in at + k .. n + k - 1 PROVE x \in Range(a)
  <2>1. x - k \in 0 .. n - 1 /\ x - k >= at /\ (x - k) + k = x
    BY <1>2
  <2>2. PICK i \in 1 .. n : s[i] = x - k
    BY <1>4, <2>1
  <2>3. a[i] = x
    BY <1>3, <2>1, <2>2
  <2> QED BY <1>5, <2>3
<1>12. Range(a) = (0 .. at - 1) \cup (at + k .. n + k - 1)
  BY <1>9, <1>10, <1>11
<1> QED BY <1>3, <1>7, <1>8, <1>12

\* The positions that are there and the new ones make up the longer queue.
LEMMA RangesMeet ==
    ASSUME NEW n \in Nat, NEW at \in 0 .. n, NEW k \in Nat
    PROVE  /\ ((0 .. at - 1) \cup (at + k .. n + k - 1)) \cup (at .. at + k - 1) = 0 .. n + k - 1
           /\ ((0 .. at - 1) \cup (at + k .. n + k - 1)) \cap (at .. at + k - 1) = {}
OBVIOUS

\* Adding at the end: positions and songs that are there stay.
LEMMA AddLastKeeps ==
    ASSUME StoreInv, Aligned, NEW ids \in NewItems, AddLast(ids) \/ AddLastShuffle(ids)
    PROVE  Aligned' /\ Current' = Current
<1> DEFINE d == queue.default  n == Len(d)  s == queue.shuffled
<1>1. Points(player, queue) /\ player' = player /\ QueueOK(queue')
  BY AlignedPoints, AddLastOK DEF StoreInv
<1>2. /\ d \in Seq(Ids) /\ n \in Nat /\ player.index \in 0 .. n - 1
      /\ isShuffleEnabled(player, queue) <=> player.shuffle = "track"
      /\ Place(player, queue) \in 0 .. n - 1
  BY <1>1, CurrentFacts DEF Points
<1>3. PICK o, new : /\ o = ids \/ o \in Orders(ids)
                    /\ new \in Orders(Count(n, Len(ids)))
                    /\ queue' = [default |-> d \o o, songs |-> queue.songs \cup Range(o),
                                 shuffled |-> IF player.shuffle = "track" THEN s \o new ELSE s]
  <2>1. CASE AddLast(ids)
    BY <1>2, <2>1 DEF AddLast
  <2>2. CASE AddLastShuffle(ids)
    BY <2>2 DEF AddLastShuffle
  <2> QED BY <2>1, <2>2
<1>4. o \in Seq(Ids) /\ Len(o) = Len(ids) /\ Len(o) \in Nat
  BY <1>3, NewSongs
<1> DEFINE m == Len(o)  e == d \o o  t == s \o new
<1>5. e \in Seq(Ids) /\ Len(e) = n + m /\ \A i \in 1 .. n : e[i] = d[i]
  <2>1. d \in Seq(Ids) /\ o \in Seq(Ids)
    BY <1>2, <1>4
  <2> QED BY ONLY <2>1, ConcatFacts
<1>6. queue'.default = e /\ (player.shuffle = "track" => queue'.shuffled = t)
  BY <1>3
<1> HIDE DEF e
<1>7. ASSUME player.shuffle = "track"
      PROVE  IsOrder(t, n + m) /\ t[player.index + 1] = s[player.index + 1]
  <2>1. IsOrder(s, n)
    BY <1>1, <1>7 DEF Points
  <2>2. n \in Positions /\ n # NaN
    BY <1>2, PlusFacts DEF Positions
  <2>3. new \in Seq(Positions) /\ Len(new) = m /\ IsInjective(new) /\ Range(new) = n .. n + m - 1
    BY <1>3, <1>4, <2>2, NewOrderFacts
  <2>4. s \in Seq(Positions) /\ Len(s) = n /\ IsInjective(s) /\ Range(s) = 0 .. n - 1
    BY <2>1 DEF IsOrder
  <2>5. /\ t \in Seq(Positions) /\ Len(t) = Len(s) + Len(new)
        /\ \A i \in 1 .. Len(s) : t[i] = s[i]
        /\ Range(t) = Range(s) \cup Range(new)
        /\ IsInjective(s) /\ IsInjective(new) /\ Range(s) \cap Range(new) = {} => IsInjective(t)
    <3>1. s \in Seq(Positions) /\ new \in Seq(Positions)
      BY <2>3, <2>4
    <3> QED BY ONLY <3>1, ConcatFacts
  <2> HIDE DEF t
  <2>6. Range(s) \cap Range(new) = {} /\ Range(s) \cup Range(new) = 0 .. n + m - 1
    BY <1>2, <1>4, <2>3, <2>4
  <2>7. player.index + 1 \in 1 .. Len(s)
    BY <1>2, <2>4
  <2>8. t[player.index + 1] = s[player.index + 1]
    BY <2>5, <2>7
  <2>9. /\ t \in Seq(Positions) /\ Len(t) = n + m /\ IsInjective(t)
        /\ Range(t) = 0 .. n + m - 1
    BY <2>3, <2>4, <2>5, <2>6
  <2>10. IsOrder(t, n + m)
    BY ONLY <2>9 DEF IsOrder
  <2> QED BY ONLY <2>8, <2>10
<1> HIDE DEF t
<1>8. Points(player', queue') /\ Place(player', queue') = Place(player, queue)
  <2>1. player'.index \in 0 .. Len(e) - 1
    BY <1>1, <1>2, <1>4, <1>5
  <2>2. player.shuffle \in {"none", "track"}
    BY <1>1 DEF Points
  <2> QED BY <1>1, <1>5, <1>6, <1>7, <2>1, <2>2 DEF Points, Place
<1>9. e[Place(player, queue) + 1] = d[Place(player, queue) + 1]
  BY <1>2, <1>5
<1>10. getCurrentSong(player', queue') = getCurrentSong(player, queue)
  BY <1>1, <1>6, <1>8, <1>9, CurrentFacts
<1>11. Aligned'
  BY <1>8 DEF Aligned, Points, IsOrder
<1> QED BY <1>10, <1>11 DEF Current


\* Adding after the current song: it stays where it is, in both orders.
LEMMA AddNextKeeps ==
    ASSUME StoreInv, Aligned, NEW ids \in NewItems, AddNext(ids) \/ AddNextShuffle(ids)
    PROVE  Aligned' /\ Current' = Current
<1> DEFINE d == queue.default  n == Len(d)  s == queue.shuffled
           place == Place(player, queue)  at == place + 1  here == player.index + 1
<1>1. Points(player, queue) /\ player' = player /\ QueueOK(queue')
  BY AlignedPoints, AddNextOK DEF StoreInv
<1>2. /\ d \in Seq(Ids) /\ n \in Nat /\ player.index \in 0 .. n - 1
      /\ isShuffleEnabled(player, queue) <=> player.shuffle = "track"
      /\ place \in 0 .. n - 1
  BY <1>1, CurrentFacts DEF Points
<1>a. player.shuffle = "track" => IsOrder(s, n)
  BY <1>1 DEF Points
<1>b. /\ Plus(player.index, 1) = here
      /\ (IF player.shuffle = "track" THEN Plus(NumAt(s, player.index), 1) ELSE Plus(player.index, 1)) = at
  <2>1. Plus(player.index, 1) = here
    BY <1>2, PlusFacts DEF Plus
  <2>2. ASSUME player.shuffle = "track" PROVE Plus(NumAt(s, player.index), 1) = at
    <3>1. NumAt(s, player.index) = place
      BY <1>2, <1>a, <2>2 DEF NumAt, Place, IsOrder
    <3> HIDE DEF place
    <3> QED BY <1>2, <3>1, PlusFacts DEF Plus
  <2>3. player.shuffle # "track" => place = player.index
    BY DEF Place
  <2> HIDE DEF place
  <2> QED BY <2>1, <2>2, <2>3
<1> HIDE DEF place
<1>3. PICK o : (o = ids \/ o \in Orders(ids)) /\ InsertNext(o, at)
  <2>1. CASE AddNext(ids)
    BY <1>b, <2>1 DEF AddNext
  <2>2. CASE AddNextShuffle(ids)
    BY <1>b, <1>2, <2>2 DEF AddNextShuffle
  <2> QED BY <2>1, <2>2
<1>4. o \in Seq(Ids) /\ Len(o) = Len(ids) /\ Len(o) \in Nat
  BY <1>3, NewSongs
<1> DEFINE m == Len(o)  e == Spliced(d, at, o)
           a == adjustShuffledIndexesForInsertion(s, at, m)
<1>5. PICK new \in Orders(Count(at, m)) :
          queue' = [default |-> e, songs |-> queue.songs \cup Range(o),
                    shuffled |-> IF player.shuffle = "track" THEN Spliced(a, here, new) ELSE s]
  <2> HIDE DEF a, m
  <2>1. PICK new \in Orders(Count(at, m)) :
          queue' = [default |-> Inserted(at, o), songs |-> queue.songs \cup Range(o),
                    shuffled |-> IF isShuffleEnabled(player, queue)
                                 THEN Upto(a, Plus(player.index, 1)) \o new \o From(a, Plus(player.index, 1))
                                 ELSE s]
    BY <1>3 DEF InsertNext, a, m
  <2> QED BY <1>2, <1>b, <2>1 DEF Inserted, Spliced
<1>6. /\ at \in Positions /\ at \in Nat /\ at \in 0 .. n /\ at # NaN /\ place < at /\ here \in Positions
      /\ here \in Nat /\ here \in 1 .. n
  BY <1>2, PlusFacts DEF Positions
<1>7. e \in Seq(Ids) /\ Len(e) = n + m /\ e[place + 1] = d[place + 1]
  <2>1. d \in Seq(Ids) /\ o \in Seq(Ids) /\ at \in Positions /\ at \in Nat
    BY <1>2, <1>4, <1>6
  <2>4. place + 1 \in 1 .. at /\ place + 1 <= n
    BY <1>2
  <2> HIDE DEF d, at
  <2>2. e \in Seq(Ids) /\ Len(e) = n + m
    BY ONLY <2>1, InsertFacts
  <2>3. \A i \in 1 .. at : i <= n => e[i] = d[i]
    BY ONLY <2>1, InsertFacts
  <2> QED BY <2>2, <2>3, <2>4
<1> DEFINE t == Spliced(a, here, new)
<1>8. queue'.default = e /\ (player.shuffle = "track" => queue'.shuffled = t)
  BY <1>5
<1> HIDE DEF e
<1>9. ASSUME player.shuffle = "track"
      PROVE  IsOrder(t, n + m) /\ t[here] = s[here]
  <2>1. /\ a \in Seq(Positions) /\ Len(a) = n /\ IsInjective(a)
        /\ Range(a) = (0 .. at - 1) \cup (at + m .. n + m - 1)
        /\ \A i \in 1 .. n : s[i] < at => a[i] = s[i]
    <3>1. n \in Nat /\ IsOrder(s, n) /\ at \in 0 .. n /\ m \in Nat
      BY <1>2, <1>4, <1>6, <1>9, <1>a
    <3> HIDE DEF s, at, m, n
    <3> QED BY ONLY <3>1, AdjustRange
  <2> HIDE DEF a
  <2>2. new \in Seq(Positions) /\ Len(new) = m /\ IsInjective(new) /\ Range(new) = at .. at + m - 1
    BY <1>4, <1>5, <1>6, NewOrderFacts
  <2>3. a \in Seq(Positions) /\ new \in Seq(Positions) /\ here \in Positions /\ here \in Nat
    BY <1>6, <2>1, <2>2
  <2>4. t \in Seq(Positions) /\ Len(t) = Len(a) + Len(new)
    <3> HIDE DEF here
    <3> QED BY ONLY <2>3, InsertFacts
  <2>5. Range(t) = Range(a) \cup Range(new)
    <3> HIDE DEF here
    <3> QED BY ONLY <2>3, InsertFacts
  <2>6. IsInjective(a) /\ IsInjective(new) /\ Range(a) \cap Range(new) = {} => IsInjective(t)
    <3> HIDE DEF here
    <3> QED BY ONLY <2>3, InsertFacts
  <2>7. \A i \in 1 .. here : i <= Len(a) => t[i] = a[i]
    <3> HIDE DEF here
    <3> QED BY ONLY <2>3, InsertFacts
  <2> HIDE DEF t
  <2>8. Range(a) \cup Range(new) = 0 .. n + m - 1 /\ Range(a) \cap Range(new) = {}
    BY <1>2, <1>4, <1>6, <2>1, <2>2, RangesMeet
  <2>9. s[here] = place
    BY <1>9 DEF place, Place
  <2>10. t[here] = s[here]
    BY <1>6, <2>1, <2>7, <2>9
  <2> QED BY <2>1, <2>2, <2>4, <2>5, <2>6, <2>8, <2>10 DEF IsOrder
<1> HIDE DEF t
<1>10. Points(player', queue') /\ Place(player', queue') = place
  <2>1. player'.index \in 0 .. Len(e) - 1
    BY <1>1, <1>2, <1>4, <1>7
  <2>2. player.shuffle \in {"none", "track"}
    BY <1>1 DEF Points
  <2> QED BY <1>1, <1>7, <1>8, <1>9, <2>1, <2>2 DEF Points, Place, place
<1>11. getCurrentSong(player', queue') = getCurrentSong(player, queue)
  BY <1>1, <1>7, <1>8, <1>10, CurrentFacts DEF place
<1>12. Aligned'
  BY <1>10 DEF Aligned, Points, IsOrder
<1> QED BY <1>11, <1>12 DEF Current

\* Dropping songs somewhere: the index follows the current song.
LEMMA DropKeeps ==
    ASSUME StoreInv, Aligned, NEW ids \in NewItems, NEW at \in DropPositions,
           addToQueueByUniqueId(ids, at, NoSong)
    PROVE  Aligned' /\ Current' = Current
<1> DEFINE d == queue.default  n == Len(d)  s == queue.shuffled  m == Len(ids)
           e == Spliced(d, at, ids)
           current == getCurrentSong(player, queue)
           a == adjustShuffledIndexesForInsertion(s, at, m)
           shifted == IF at <= player.index THEN [player EXCEPT !.index = @ + m] ELSE player
<1>1. Points(player, queue) /\ PlayerOK(player) /\ QueueOK(queue)
  BY AlignedPoints, InvParts
<1>2. /\ d \in Seq(Ids) /\ n \in Nat /\ player.index \in 0 .. n - 1
      /\ current # NoSong /\ current \in Range(d) /\ player.shuffle \in {"none", "track"}
  BY <1>1, CurrentFacts DEF Points
<1>3. at \in Nat /\ at \in 0 .. n /\ at \in Positions /\ at # NaN
  BY <1>2, PlusFacts DEF DropPositions, Positions
<1>4. ids \in Seq(Ids) /\ m \in Nat
  BY NewSongs
<1>5. e \in Seq(Ids) /\ Len(e) = n + m /\ Range(e) = Range(d) \cup Range(ids) /\ e = Inserted(at, ids)
  <2>1. d \in Seq(Ids) /\ ids \in Seq(Ids) /\ at \in Positions
    BY <1>2, <1>3, <1>4
  <2> HIDE DEF d
  <2>2. e \in Seq(Ids) /\ Len(e) = n + m
    BY ONLY <2>1, InsertFacts
  <2>3. Range(e) = Range(d) \cup Range(ids)
    BY ONLY <2>1, InsertFacts
  <2> QED BY <2>2, <2>3 DEF Inserted, Spliced, d
<1> HIDE DEF e
<1>6. current \in Range(e) /\ Find(e, current) \in 0 .. n + m - 1 /\ e[Find(e, current) + 1] = current
  BY <1>2, <1>5, FindFacts
<1>7. DropSongs
  BY DEF DropSongs
<1>8. QueueOK(queue') /\ player'.shuffle = player.shuffle
  BY <1>7, DropOK DEF StoreInv
<1>9. CASE player.shuffle = "none"
  <2> HIDE DEF shifted
  <2>1. queue'.default = e /\ player' = recalculatePlayerIndex(shifted, e)
    BY <1>1, <1>5, <1>9 DEF addToQueueByUniqueId, PlayTarget, QueueOK, shifted
  <2>2. PlayerOK(shifted)
    BY <1>1, <1>2, <1>4 DEF shifted, PlayerOK, Indices
  <2>3. player'.index \in 0 .. Len(e) - 1 /\ e[player'.index + 1] = current
    BY <1>2, <1>5, <1>6, <2>1, <2>2, RecalculateFacts
  <2>4. Points(player', queue') /\ Place(player', queue') = player'.index
    BY <1>8, <1>9, <2>1, <2>3 DEF Points, Place
  <2>5. getCurrentSong(player', queue') = current
    BY <2>1, <2>3, <2>4, CurrentFacts
  <2>6. Aligned'
    BY <2>4 DEF Aligned, Points, IsOrder
  <2> QED BY <2>5, <2>6 DEF Current
<1>10. CASE player.shuffle = "track"
  <2> DEFINE j == Find(e, current)
  <2>1. IsOrder(s, n)
    BY <1>1, <1>10 DEF Points
  <2>2. /\ a \in Seq(Positions) /\ Len(a) = n /\ IsInjective(a)
        /\ Range(a) = (0 .. at - 1) \cup (at + m .. n + m - 1)
    BY <1>2, <1>3, <1>4, <2>1, AdjustRange
  <2> HIDE DEF a, current
  <2>3. PICK order \in addIndexesToShuffled(a, player.index, Count(at, m)) :
            /\ queue'.default = e /\ queue'.shuffled = order
            /\ player' = IF Find(order, j) # -1 THEN [player EXCEPT !.index = Find(order, j)] ELSE player
    BY <1>1, <1>2, <1>5, <1>10 DEF addToQueueByUniqueId, PlayTarget, QueueOK, a, current
  <2>4. /\ Count(at, m) \in Seq(Positions) /\ Len(Count(at, m)) = m /\ IsInjective(Count(at, m))
        /\ Range(Count(at, m)) = at .. at + m - 1
    BY <1>3, <1>4, CountFacts DEF Positions
  <2>5. /\ order \in Seq(Positions) /\ Len(order) = Len(a) + Len(Count(at, m))
        /\ Range(order) = Range(a) \cup Range(Count(at, m))
        /\ IsInjective(a) /\ IsInjective(Count(at, m)) /\ Range(a) \cap Range(Count(at, m)) = {}
              => IsInjective(order)
    <3>1. player.index \in Indices
      BY <1>2 DEF Indices
    <3>2. a \in Seq(Positions) /\ Count(at, m) \in Seq(Positions)
      BY <2>2, <2>4
    <3> DEFINE c == Count(at, m)
    <3>3. order \in addIndexesToShuffled(a, player.index, c) /\ c \in Seq(Positions)
      BY <3>2
    <3> HIDE DEF c
    <3>4. /\ order \in Seq(Positions) /\ Len(order) = Len(a) + Len(c) /\ Range(order) = Range(a) \cup Range(c)
          /\ IsInjective(a) /\ IsInjective(c) /\ Range(a) \cap Range(c) = {} => IsInjective(order)
      BY ONLY <3>1, <3>2, <3>3, AddIndexesFacts
    <3> QED BY <3>4 DEF c
  <2>6. IsOrder(order, n + m)
    <3>1. /\ order \in Seq(Positions) /\ Len(order) = n + m /\ Range(order) = 0 .. n + m - 1
          /\ IsInjective(order)
      BY <1>2, <1>3, <1>4, <2>2, <2>4, <2>5, RangesMeet
    <3> QED BY ONLY <3>1 DEF IsOrder
  <2> DEFINE f == Find(order, j)
  <2>7. j \in 0 .. n + m - 1
    BY <1>6
  <2> HIDE DEF j
  <2>8. f \in 0 .. n + m - 1 /\ order[f + 1] = j /\ f # -1
    <3>1. order \in Seq(Positions) /\ Len(order) = n + m /\ j \in Range(order)
      BY <2>6, <2>7 DEF IsOrder
    <3>2. Find(order, j) \in 0 .. Len(order) - 1 /\ order[Find(order, j) + 1] = j
      BY ONLY <3>1, FindFacts
    <3> QED BY <3>1, <3>2, <1>2, <1>4
  <2> HIDE DEF f
  <2>9. player'.index = f
    BY <1>1, <2>3, <2>8 DEF f, PlayerOK
  <2>10. Points(player', queue') /\ Place(player', queue') = j
    BY <1>5, <1>8, <1>10, <2>3, <2>6, <2>8, <2>9 DEF Points, Place
  <2>11. getCurrentSong(player', queue') = current
    BY <1>6, <2>3, <2>10, CurrentFacts DEF j
  <2>12. Aligned'
    BY <2>10 DEF Aligned, Points, IsOrder
  <2> QED BY <2>11, <2>12 DEF Current, current
<1> QED BY <1>2, <1>9, <1>10

(* Adding songs with a song current (addToQueueByType, addToQueueByUniqueId)    *)
(* leaves it current and, under shuffle, leaves in queue.shuffled every         *)
(* position of the longer queue exactly once, wherever the songs go and in      *)
(* whatever order the shuffle puts them.                                        *)
THEOREM AddingKeepsCurrent == Spec => AddingKeepsPlaying
<1>1. StoreInv /\ [Next]_vars => StoreInv'
  BY StoreStep
<1>2. StoreInv /\ [Next]_vars => [Aligned /\ Additions => Aligned' /\ Current' = Current]_vars
  BY AddLastKeeps, AddNextKeeps, DropKeeps DEF Additions
<1> QED BY StoreInit, <1>1, <1>2, PTL DEF Spec, AddingKeepsPlaying


-----------------------------------------------------------------------------
(* A lap of the queue.                                                     *)
LEMMA StepByStep ==
    ASSUME NEW n \in Nat, NEW T, 0 \in T, \A k \in 0 .. n - 1 : k \in T => k + 1 \in T
    PROVE  \A k \in 0 .. n : k \in T
<1> DEFINE U == {k \in 0 .. n : k \notin T}
<1> SUFFICES ASSUME U # {} PROVE FALSE
  OBVIOUS
<1>1. U \in SUBSET Nat
  OBVIOUS
<1>2. PICK x \in U : \A y \in U : x <= y
  BY <1>1, LeastPosition
<1>3. x \in 0 .. n /\ x \notin T /\ x # 0
  BY <1>2
<1>4. x - 1 \in 0 .. n - 1 /\ x - 1 \in 0 .. n /\ (x - 1) + 1 = x /\ ~(x <= x - 1)
  BY <1>3
<1>5. x - 1 \in T
  BY <1>2, <1>4
<1> QED BY <1>3, <1>4, <1>5

IsLap(f, n) ==
    f = [k \in 0 .. n |-> IF k = 0 THEN player ELSE AfterAutoNext(f[k - 1], queue)]

LEMMA LapExists == ASSUME NEW n \in Nat PROVE \E f : IsLap(f, n)
<1> DEFINE T == {m \in 0 .. n : \E f : IsLap(f, m)}
<1>1. 0 \in T
  <2> DEFINE f == [k \in 0 .. 0 |-> player]
  <2>1. f = [k \in 0 .. 0 |-> IF k = 0 THEN player ELSE AfterAutoNext(f[k - 1], queue)]
    OBVIOUS
  <2> HIDE DEF f
  <2>2. IsLap(f, 0) /\ 0 \in 0 .. n
    BY <2>1 DEF IsLap
  <2> QED BY <2>2
<1>2. ASSUME NEW m \in 0 .. n - 1, m \in T PROVE m + 1 \in T
  <2>1. PICK f : IsLap(f, m)
    BY <1>2
  <2> DEFINE g == [k \in 0 .. m + 1 |-> IF k <= m THEN f[k] ELSE AfterAutoNext(f[m], queue)]
  <2>2. ASSUME NEW k \in 0 .. m + 1
        PROVE  g[k] = IF k = 0 THEN player ELSE AfterAutoNext(g[k - 1], queue)
    <3>1. CASE k = 0
      <4>1. g[k] = f[0] /\ 0 \in 0 .. m
        BY <3>1
      <4>2. f[0] = player
        BY <2>1, <4>1 DEF IsLap
      <4> QED BY <3>1, <4>1, <4>2
    <3>2. CASE k # 0 /\ k <= m
      <4>1. k \in 0 .. m /\ k - 1 \in 0 .. m + 1 /\ k - 1 <= m /\ g[k] = f[k] /\ g[k - 1] = f[k - 1]
        BY <3>2
      <4>2. f[k] = AfterAutoNext(f[k - 1], queue)
        <5>1. f[k] = IF k = 0 THEN player ELSE AfterAutoNext(f[k - 1], queue)
          BY <2>1, <4>1 DEF IsLap
        <5> QED BY <3>2, <5>1
      <4> QED BY <3>2, <4>1, <4>2
    <3>3. CASE k = m + 1
      <4>1. k # 0 /\ k - 1 = m /\ g[k] = AfterAutoNext(f[m], queue) /\ g[m] = f[m]
        BY <3>3
      <4> QED BY <4>1
    <3> QED BY <3>1, <3>2, <3>3
  <2>3. DOMAIN g = 0 .. m + 1 /\ g = [k \in 0 .. m + 1 |-> g[k]]
    OBVIOUS
  <2> HIDE DEF g
  <2>4. IsLap(g, m + 1)
    <3>1. [k \in 0 .. m + 1 |-> g[k]]
            = [k \in 0 .. m + 1 |-> IF k = 0 THEN player ELSE AfterAutoNext(g[k - 1], queue)]
      BY <2>2
    <3> QED BY <2>3, <3>1 DEF IsLap
  <2> QED BY <2>4
<1> HIDE DEF T
<1>3. n \in T
  BY <1>1, <1>2, StepByStep
<1> QED BY <1>3 DEF T

LEMMA LapFacts ==
    ASSUME StoreInv
    PROVE  /\ lap[0] = player
           /\ \A k \in 0 .. Len(queue.default) - 1 : lap[k + 1] = AfterAutoNext(lap[k], queue)
<1> DEFINE n == Len(queue.default)
<1>1. n \in Nat
  BY InvParts
<1>2. lap = CHOOSE f : IsLap(f, n)
  BY DEF lap, IsLap
<1>3. IsLap(lap, n)
  BY <1>1, <1>2, LapExists
<1>4. \A k \in 0 .. n : lap[k] = IF k = 0 THEN player ELSE AfterAutoNext(lap[k - 1], queue)
  BY <1>3 DEF IsLap
<1>5. \A k \in 0 .. n - 1 : k + 1 \in 0 .. n /\ k + 1 # 0 /\ (k + 1) - 1 = k
  BY <1>1
<1> QED BY <1>1, <1>4, <1>5


\* With repeat on, the end of a track takes the index one further, and from the end to the start.
LEMMA AutoNextRepeats ==
    ASSUME NEW p, NEW q, Points(p, q), p.repeat = "all",
           DOMAIN p = {"index", "playerNum", "repeat", "shuffle", "status", "pauseOnNextSongEnd"},
           NEW r, r = AfterAutoNext(p, q)
    PROVE  /\ Points(r, q) /\ r.repeat = "all" /\ DOMAIN r = DOMAIN p /\ r.shuffle = p.shuffle
           /\ r.index = IF p.index = Len(q.default) - 1 THEN 0 ELSE p.index + 1
<1> DEFINE n == Len(q.default)
           k == IF p.index = n - 1 THEN 0 ELSE p.index + 1
<1>1. /\ isShuffleEnabled(p, q) <=> p.shuffle = "track"
      /\ getQueueOrder(q) = q.default /\ n \in Nat /\ p.index \in 0 .. n - 1
      /\ p.shuffle = "track" => Len(q.shuffled) = n
  BY CurrentFacts DEF Points, IsOrder
<1>2. Plus(p.index, 1) = p.index + 1 /\ k \in 0 .. n - 1
  BY <1>1, PlusFacts DEF Plus
<1>3. AutoNextIndex(p, q) = [next |-> k, pause |-> FALSE]
  BY <1>1, <1>2 DEF AutoNextIndex, calculateNextIndex
<1> HIDE DEF k
<1>4. AfterAutoNext(p, q).index = k /\ AfterAutoNext(p, q).repeat = "all"
      /\ DOMAIN AfterAutoNext(p, q) = DOMAIN p /\ AfterAutoNext(p, q).shuffle = p.shuffle
  BY <1>3 DEF AfterAutoNext
<1>5. Points(AfterAutoNext(p, q), q)
  BY <1>2, <1>4 DEF Points
<1> QED BY <1>4, <1>5 DEF k

LEMMA RoundTheEnd ==
    ASSUME NEW n \in Nat, NEW i \in 0 .. n - 1, NEW k \in 0 .. n - 1,
           NEW x, x = IF i + k < n THEN i + k ELSE i + k - n
    PROVE  (IF x = n - 1 THEN 0 ELSE x + 1) = IF i + (k + 1) < n THEN i + (k + 1) ELSE i + (k + 1) - n
<1>1. CASE i + k < n
  BY <1>1
<1>2. CASE ~(i + k < n)
  BY <1>2
<1> QED BY <1>1, <1>2

LEMMA LapIndex ==
    ASSUME StoreInv, Aligned, player.repeat = "all", NEW n, n = Len(queue.default)
    PROVE  \A k \in 0 .. n :
              /\ Points(lap[k], queue) /\ lap[k].shuffle = player.shuffle
              /\ lap[k].index = IF player.index + k < n THEN player.index + k ELSE player.index + k - n
<1> DEFINE fields == {"index", "playerNum", "repeat", "shuffle", "status", "pauseOnNextSongEnd"}
           idx(k) == IF player.index + k < n THEN player.index + k ELSE player.index + k - n
           Good(k) == /\ Points(lap[k], queue) /\ lap[k].shuffle = player.shuffle
                      /\ lap[k].repeat = "all" /\ DOMAIN lap[k] = fields /\ lap[k].index = idx(k)
           T == {k \in 0 .. n : Good(k)}
<1>1. n \in Nat /\ player.index \in 0 .. n - 1 /\ Points(player, queue) /\ DOMAIN player = fields
  BY AlignedPoints, InvParts DEF Points, StoreInv, PlayerOK
<1>2. Good(0)
  <2>1. lap[0] = player
    BY LapFacts
  <2>2. idx(0) = player.index
    BY <1>1
  <2> HIDE DEF idx
  <2> QED BY <1>1, <2>1, <2>2
<1>3. ASSUME NEW k \in 0 .. n - 1, Good(k) PROVE Good(k + 1)
  <2>1. lap[k + 1] = AfterAutoNext(lap[k], queue)
    BY LapFacts
  <2> DEFINE now == lap[k]  then == lap[k + 1]
  <2>a. /\ Points(now, queue) /\ now.repeat = "all" /\ then = AfterAutoNext(now, queue)
        /\ DOMAIN now = {"index", "playerNum", "repeat", "shuffle", "status", "pauseOnNextSongEnd"}
    BY <1>3, <2>1
  <2>2. /\ Points(lap[k + 1], queue) /\ lap[k + 1].repeat = "all"
        /\ DOMAIN lap[k + 1] = DOMAIN lap[k] /\ lap[k + 1].shuffle = lap[k].shuffle
        /\ lap[k + 1].index = IF lap[k].index = n - 1 THEN 0 ELSE lap[k].index + 1
    <3> HIDE DEF idx, now, then
    <3>1. /\ Points(then, queue) /\ then.repeat = "all" /\ DOMAIN then = DOMAIN now /\ then.shuffle = now.shuffle
          /\ then.index = IF now.index = Len(queue.default) - 1 THEN 0 ELSE now.index + 1
      BY <2>a, AutoNextRepeats
    <3> QED BY <3>1 DEF now, then
  <2>3. (IF idx(k) = n - 1 THEN 0 ELSE idx(k) + 1) = idx(k + 1)
    <3> DEFINE i == player.index  x == idx(k)
    <3>1. n \in Nat /\ i \in 0 .. n - 1 /\ x = IF i + k < n THEN i + k ELSE i + k - n
      BY <1>1
    <3> HIDE DEF x, i
    <3>2. (IF x = n - 1 THEN 0 ELSE x + 1) = IF i + (k + 1) < n THEN i + (k + 1) ELSE i + (k + 1) - n
      BY ONLY <3>1, RoundTheEnd
    <3> QED BY <3>2 DEF x, i
  <2> HIDE DEF idx
  <2> QED BY <1>3, <2>2, <2>3
<1> HIDE DEF Good
<1>4. 0 \in T /\ \A k \in 0 .. n - 1 : k \in T => k + 1 \in T
  BY <1>1, <1>2, <1>3
<1> HIDE DEF T
<1>5. \A k \in 0 .. n : k \in T
  BY <1>1, <1>4, StepByStep
<1> QED BY <1>5 DEF T, Good

LEMMA LapStep ==
    ASSUME StoreInv PROVE LapPlaysAll
<1> SUFFICES ASSUME Aligned, player.repeat = "all"
             PROVE  {getCurrentSong(lap[k], queue) : k \in 1 .. Len(queue.default)} = Range(queue.default)
  BY DEF LapPlaysAll
<1> DEFINE n == Len(queue.default)  d == queue.default
           idx(k) == IF player.index + k < n THEN player.index + k ELSE player.index + k - n
<1>1. n \in Nat /\ player.index \in 0 .. n - 1 /\ Points(player, queue) /\ d \in Seq(Ids)
  BY AlignedPoints, InvParts DEF Points
<1>2. ASSUME NEW k \in 1 .. n
      PROVE  /\ Points(lap[k], queue) /\ lap[k].shuffle = player.shuffle /\ lap[k].index = idx(k)
  BY <1>1, LapIndex
<1>3. ASSUME NEW k \in 1 .. n PROVE getCurrentSong(lap[k], queue) \in Range(d)
  BY <1>2, CurrentFacts
<1>4. ASSUME NEW x \in Range(d) PROVE \E k \in 1 .. n : getCurrentSong(lap[k], queue) = x
  <2>1. PICK h \in 1 .. n : d[h] = x
    BY <1>1, SeqFacts
  <2>2. PICK j \in 0 .. n - 1 : (IF player.shuffle = "track" THEN queue.shuffled[j + 1] ELSE j) = h - 1
    <3>1. h - 1 \in 0 .. n - 1
      BY <1>1
    <3>2. CASE player.shuffle = "track"
      <4>1. queue.shuffled \in Seq(Positions) /\ Len(queue.shuffled) = n /\ Range(queue.shuffled) = 0 .. n - 1
        BY <1>1, <3>2 DEF Points, IsOrder
      <4>2. PICK g \in 1 .. n : queue.shuffled[g] = h - 1
        <5>1. \A y : y \in Range(queue.shuffled) <=> \E i \in 1 .. Len(queue.shuffled) : queue.shuffled[i] = y
          BY ONLY <4>1, SeqFacts
        <5>2. h - 1 \in Range(queue.shuffled)
          BY <3>1, <4>1
        <5> QED BY <4>1, <5>1, <5>2
      <4>3. g - 1 \in 0 .. n - 1 /\ (g - 1) + 1 = g
        BY <1>1
      <4> QED BY <3>2, <4>2, <4>3
    <3>3. CASE player.shuffle # "track"
      BY <3>1, <3>3
    <3> QED BY <3>2, <3>3
  <2> DEFINE k == IF j > player.index THEN j - player.index ELSE j - player.index + n
  <2>3. k \in 1 .. n /\ idx(k) = j
    <3>1. n \in Nat /\ player.index \in 0 .. n - 1
      BY <1>1
    <3>2. CASE j > player.index
      BY ONLY <3>1, <3>2
    <3>3. CASE ~(j > player.index)
      BY ONLY <3>1, <3>3
    <3> QED BY ONLY <3>2, <3>3
  <2> HIDE DEF k, idx
  <2>4. Place(lap[k], queue) = h - 1
    BY <1>2, <2>2, <2>3 DEF Place
  <2>5. getCurrentSong(lap[k], queue) = d[(h - 1) + 1]
    BY <1>2, <2>3, <2>4, CurrentFacts
  <2>6. (h - 1) + 1 = h
    BY <1>1
  <2> QED BY <2>1, <2>3, <2>5, <2>6
<1> QED BY <1>3, <1>4

(* With repeat "all" and a song current, the ends of tracks alone lead through  *)
(* every song of the queue before one is heard again, for queues of any length, *)
(* under every order shuffle can draw.                                          *)
THEOREM LapIsComplete == Spec => []LapPlaysAll
<1>1. StoreInv /\ [Next]_vars => StoreInv'
  BY StoreStep
<1>2. StoreInv => LapPlaysAll
  BY LapStep
<1> QED BY StoreInit, <1>1, <1>2, PTL DEF Spec
=============================================================================
