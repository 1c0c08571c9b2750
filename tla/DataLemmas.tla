------------------------------- MODULE DataLemmas -------------------------------
(* What the proofs need to know of numbers and finite sets.  A least element *)
(* stands in for induction: a property of all naturals holds if the least of *)
(* its counterexamples cannot be one.                                        *)
EXTENDS Lists, FiniteSetTheorems, FiniteSetsExt, Functions, SequenceTheorems, TLAPS

\* A set of naturals has a least element: what stands in for induction here.
LEMMA LeastNatural ==
  ASSUME NEW T, T \subseteq Nat, T # {}
  PROVE  \E x \in T : \A y \in T : x <= y
<1>1. IsWellFoundedOn(OpToRel(<, Nat), Nat)
  BY NatLessThanWellFounded
<1>2. IsWellFoundedOn({ss \in Nat \X Nat : ss[1] < ss[2]}, Nat)
  BY <1>1 DEF OpToRel
<1>3. PICK x \in T : \A y \in T : ~(<<y, x>> \in {ss \in Nat \X Nat : ss[1] < ss[2]})
  BY <1>2, WFMin, Zenon
<1>4. \A y \in T : x <= y
  <2>1. TAKE y \in T
  <2>2. x \in Nat /\ y \in Nat
    OBVIOUS
  <2>3. ~(y < x)
    BY <1>3, <2>2
  <2> QED  BY <2>2, <2>3
<1> QED  BY <1>3, <1>4

\* Among n and more naturals of an interval, one is the n-th.
LEMMA NthIsThere ==
  ASSUME NEW m \in Nat, NEW at \in SUBSET (1 .. m), NEW n \in 1 .. Cardinality(at)
  PROVE  \E i \in at : Cardinality({k \in at : k <= i}) = n
<1> DEFINE Upto(i) == {k \in at : k <= i}
<1>1. \A i \in at : i \in Nat /\ 1 <= i /\ i <= m
  OBVIOUS
<1>2. IsFiniteSet(at)
  <2>1. IsFiniteSet(1 .. m)
    BY FS_Interval
  <2> QED  BY <2>1, FS_Subset
<1>3. \A i : IsFiniteSet(Upto(i)) /\ Cardinality(Upto(i)) \in Nat
  BY <1>2, FS_Subset, FS_CardinalityType
<1>4. Upto(m) = at
  BY <1>1 DEF Upto
<1>5. Cardinality(Upto(0)) = 0
  <2>1. \A k \in at : ~ (k <= 0)
    BY <1>1
  <2>2. Upto(0) = {}
    BY <2>1 DEF Upto
  <2> QED  BY <2>2, FS_EmptySet
<1>6. Cardinality(at) \in Nat /\ n \in Nat /\ 1 <= n /\ n <= Cardinality(at)
  BY <1>2, FS_CardinalityType
<1> DEFINE T == {i \in Nat : Cardinality(Upto(i)) >= n}
<1>7. m \in T
  BY <1>4, <1>6
<1> HIDE DEF Upto
<1>8. PICK x \in T : \A y \in T : x <= y
  <2> HIDE DEF T
  <2>1. T # {}
    BY <1>7
  <2>2. T \subseteq Nat
    BY DEF T
  <2> QED  BY <2>1, <2>2, LeastNatural
<1>9. x \in Nat /\ Cardinality(Upto(x)) >= n
  OBVIOUS
<1>10. x - 1 \in Nat /\ x - 1 \notin T
  <2>1. x # 0
    BY <1>5, <1>6, <1>9
  <2> QED  BY <1>8, <1>9, <2>1
<1>11. Cardinality(Upto(x - 1)) < n
  BY <1>3, <1>6, <1>10
<1>12. \A k \in at : k <= x <=> k <= x - 1 \/ k = x
  BY <1>1, <1>9
<1>13. CASE x \in at
  <2>1. Upto(x) = Upto(x - 1) \cup {x}
    BY <1>12, <1>13 DEF Upto
  <2>2. x \notin Upto(x - 1)
    BY <1>9 DEF Upto
  <2>3. Cardinality(Upto(x)) = Cardinality(Upto(x - 1)) + 1
    BY <1>3, <2>1, <2>2, FS_AddElement
  <2>4. Cardinality(Upto(x)) = n
    BY <1>3, <1>6, <1>9, <1>11, <2>3
  <2> QED  BY <1>13, <2>4 DEF Upto
<1>14. CASE x \notin at
  <2>1. Upto(x) = Upto(x - 1)
    BY <1>12, <1>14 DEF Upto
  <2> QED  BY <1>3, <1>6, <1>9, <1>11, <2>1
<1> QED  BY <1>13, <1>14

-----------------------------------------------------------------------------
(* Finite sets of naturals                                                 *)

\* A finite set of naturals has a bound.
LEMMA FiniteIsBounded ==
  ASSUME NEW S \in SUBSET Nat, IsFiniteSet(S)
  PROVE  \E b \in Nat : \A x \in S : x <= b
<1>1. PICK n \in Nat : ExistsBijection(1 .. n, S)
  BY FS_NatBijection
<1>2. PICK f \in [1 .. n -> S] : \A x \in S : \E j \in 1 .. n : f[j] = x
  BY <1>1 DEF ExistsBijection, Bijection, Injection, Surjection
<1>2a. \A j \in 1 .. n : f[j] \in Nat /\ j \in Nat
  <2>1. \A x \in S : x \in Nat
    OBVIOUS
  <2>2. ASSUME NEW j \in 1 .. n PROVE f[j] \in S
    BY <1>2
  <2>3. \A j \in 1 .. n : j \in Nat
    OBVIOUS
  <2> QED  BY <2>1, <2>2, <2>3
<1> DEFINE Bounded(k) == \E b \in Nat : \A j \in 1 .. n : j <= k => f[j] <= b
           bad == {k \in Nat : ~ Bounded(k)}
<1>3. bad = {}
  <2> SUFFICES ASSUME bad # {} PROVE FALSE
    OBVIOUS
  <2>1. PICK k \in bad : \A y \in bad : k <= y
    <3> HIDE DEF bad
    <3>1. bad \subseteq Nat
      BY DEF bad
    <3> QED  BY <3>1, LeastNatural
  <2>2. k \in Nat /\ ~ Bounded(k)
    OBVIOUS
  <2>3. k # 0
    <3>1. Bounded(0)
      OBVIOUS
    <3> QED  BY <2>2, <3>1
  <2>4. k - 1 \in Nat /\ ~ (k <= k - 1)
    BY <2>2, <2>3
  <2>5. PICK b \in Nat : \A j \in 1 .. n : j <= k - 1 => f[j] <= b
    BY <2>1, <2>4
  <2>6. CASE k \in 1 .. n
    <3>1. f[k] \in Nat
      BY <1>2a, <2>6
    <3>2. PICK c \in Nat : b <= c /\ f[k] <= c
      <4>1. PICK v \in Nat : v = f[k]
        BY <3>1
      <4>2. b <= b + v /\ v <= b + v /\ b + v \in Nat
        OBVIOUS
      <4> QED  BY <4>1, <4>2
    <3>3. ASSUME NEW j \in 1 .. n, j <= k PROVE f[j] <= c
      <4>1. f[j] \in Nat /\ j \in Nat
        BY <1>2a
      <4>2. CASE j = k
        BY <3>2, <4>2
      <4>3. CASE j <= k - 1
        <5>1. f[j] <= b
          BY <2>5, <4>3
        <5> HIDE DEF Bounded
        <5>2. PICK v \in Nat : v = f[j]
          BY <4>1
        <5>3. v <= b /\ b <= c
          BY <3>2, <5>1, <5>2
        <5> QED  BY <5>2, <5>3
      <4> QED  BY <2>2, <3>3, <4>1, <4>2, <4>3
    <3> QED  BY <2>2, <3>3
  <2>7. CASE k \notin 1 .. n
    <3>1. \A j \in 1 .. n : j <= k => j <= k - 1
      BY <2>2, <2>7
    <3> QED  BY <2>2, <2>5, <3>1
  <2> QED  BY <2>6, <2>7
<1>4. Bounded(n)
  BY <1>3
<1>5. PICK b \in Nat : \A j \in 1 .. n : f[j] <= b
  BY <1>4
<1> QED  BY <1>2, <1>5

\* The image of a finite set is finite.
LEMMA ImageIsFinite ==
  ASSUME NEW S, IsFiniteSet(S), NEW f
  PROVE  IsFiniteSet({f[x] : x \in S})
<1> DEFINE T == {f[x] : x \in S}
           g == [x \in S |-> f[x]]
<1>1. g \in Surjection(S, T)
  BY DEF Surjection
<1> HIDE DEF T, g
<1>2. IsFiniteSet(T)
  BY <1>1, FS_Surjection
<1> QED  BY <1>2 DEF T

\* And a finite one has a greatest.
LEMMA GreatestNatural ==
  ASSUME NEW S \in SUBSET Nat, IsFiniteSet(S), S # {}
  PROVE  \E x \in S : \A y \in S : y <= x
<1> DEFINE T == {b \in Nat : \A x \in S : x <= b}
<1>1. PICK m \in T : \A y \in T : m <= y
  <2>1. T # {}
    BY FiniteIsBounded
  <2> HIDE DEF T
  <2>2. T \subseteq Nat
    BY DEF T
  <2> QED  BY <2>1, <2>2, LeastNatural
<1>2. m \in Nat /\ \A x \in S : x <= m /\ x \in Nat
  OBVIOUS
<1>3. m \in S
  <2> SUFFICES ASSUME m \notin S PROVE FALSE
    OBVIOUS
  <2>1. \A x \in S : x <= m - 1
    BY <1>2
  <2>2. m # 0
    <3>1. PICK x \in S : TRUE
      OBVIOUS
    <3>2. x \in Nat /\ x <= m - 1
      BY <1>2, <2>1, <3>1
    <3> QED  BY <1>2, <3>2
  <2>3. m - 1 \in T
    BY <1>2, <2>1, <2>2
  <2> QED  BY <1>1, <1>2, <2>3
<1> QED  BY <1>2, <1>3

\* What the CHOOSE of Max picks.
LEMMA MaxIsGreatest ==
  ASSUME NEW S \in SUBSET Nat, IsFiniteSet(S), S # {}
  PROVE  Max(S) \in S /\ \A y \in S : y <= Max(S)
<1>1. PICK x \in S : \A y \in S : y <= x
  BY GreatestNatural
<1>2. \A y \in S : x >= y
  BY <1>1
<1>3. Max(S) \in S /\ \A y \in S : Max(S) >= y
  BY <1>2 DEF Max
<1> QED  BY <1>3

\* What the CHOOSE of Min picks.
LEMMA MinIsLeast ==
  ASSUME NEW S \in SUBSET Nat, S # {}
  PROVE  Min(S) \in S /\ \A y \in S : Min(S) <= y
<1>1. PICK x \in S : \A y \in S : x <= y
  BY LeastNatural
<1> QED  BY <1>1 DEF Min

-----------------------------------------------------------------------------
(* Lists: sequences of anything.                                           *)

LEMMA EmptyIsList == IsList(<<>>) /\ Len(<<>>) = 0 /\ DOMAIN <<>> = {}
BY DEF IsList

\* What it is to be a list with an element more, or with another element in a place.
Longer(s, e, t) ==
    /\ IsList(t) /\ Len(t) = Len(s) + 1
    /\ DOMAIN s = 1 .. Len(s) /\ DOMAIN t = 1 .. Len(s) + 1
    /\ t[Len(s) + 1] = e
    /\ \A i \in 1 .. Len(s) : t[i] = s[i]

Changed(s, n, e, t) ==
    /\ IsList(t) /\ Len(t) = Len(s) /\ DOMAIN s = 1 .. Len(s) /\ DOMAIN t = DOMAIN s
    /\ t[n] = e /\ \A i \in 1 .. Len(s) : i # n => t[i] = s[i]

\* What appending, replacing and dropping the head leave.
LEMMA ListGrows == \A s, e : IsList(s) => Longer(s, e, Append(s, e))
<1> SUFFICES ASSUME NEW s, IsList(s), NEW e, NEW t, t = Append(s, e)
             PROVE  Longer(s, e, t)
  OBVIOUS
<1> DEFINE S == {s[i] : i \in 1 .. Len(s)} \cup {e}
<1>1. Len(s) \in Nat /\ DOMAIN s = 1 .. Len(s)
  BY DEF IsList
<1>2. s \in [1 .. Len(s) -> S]
  <2>1. \A i \in 1 .. Len(s) : s[i] \in S
    OBVIOUS
  <2> HIDE DEF S
  <2> QED  BY <2>1 DEF IsList
<1> HIDE DEF S
<1>3. s \in Seq(S) /\ e \in S
  <2>1. e \in S
    BY DEF S
  <2> QED  BY <1>1, <1>2, <2>1
<1>4. t \in Seq(S) /\ Len(t) = Len(s) + 1
  BY <1>3
<1>5. t = [i \in 1 .. Len(t) |-> t[i]]
  <2>1. t \in [1 .. Len(t) -> S]
    BY <1>4, LenProperties
  <2> QED  BY <2>1
<1> QED  BY <1>1, <1>3, <1>4, <1>5 DEF IsList, Longer

LEMMA ListChanges ==
  \A s, n, e : IsList(s) /\ n \in 1 .. Len(s) => Changed(s, n, e, [s EXCEPT ![n] = e])
<1> SUFFICES ASSUME NEW s, IsList(s), NEW n, n \in 1 .. Len(s), NEW e,
                    NEW t, t = [s EXCEPT ![n] = e]
             PROVE  Changed(s, n, e, t)
  OBVIOUS
<1> DEFINE S == {t[i] : i \in 1 .. Len(s)}
<1>1. Len(s) \in Nat /\ DOMAIN s = 1 .. Len(s)
  BY DEF IsList
<1>2. DOMAIN t = 1 .. Len(s)
  BY <1>1
<1>3. t \in [1 .. Len(s) -> S]
  BY <1>2
<1> HIDE DEF S
<1>4. t \in Seq(S)
  <2>1. PICK m \in Nat : m = Len(s)
    BY <1>1
  <2>2. t \in [1 .. m -> S]
    BY <1>3, <2>1
  <2>3. Seq(S) = UNION {[1 .. k -> S] : k \in Nat}
    BY SeqDef, Zenon
  <2> QED  BY <2>2, <2>3
<1>5. Len(t) = Len(s)
  BY <1>1, <1>2, <1>4
<1>6. t = [i \in 1 .. Len(t) |-> t[i]]
  <2>1. t \in [1 .. Len(t) -> S]
    BY <1>4, LenProperties
  <2> QED  BY <2>1
<1> QED  BY <1>1, <1>2, <1>5, <1>6 DEF IsList, Changed

\* A list without its first element.
Shorter(s, t) ==
    /\ IsList(t) /\ Len(t) = Len(s) - 1 /\ Len(s) \in Nat /\ Len(t) \in Nat
    /\ DOMAIN s = 1 .. Len(s) /\ DOMAIN t = 1 .. Len(s) - 1
    /\ Head(s) = s[1] /\ 1 \in DOMAIN s
    /\ \A i \in 1 .. Len(s) - 1 : t[i] = s[i + 1]

LEMMA ListShrinks == \A s : IsList(s) /\ s # <<>> => Shorter(s, Tail(s))
<1> SUFFICES ASSUME NEW s, IsList(s), s # <<>>, NEW t, t = Tail(s)
             PROVE  Shorter(s, t)
  OBVIOUS
<1>1. PICK S : S = {s[i] : i \in 1 .. Len(s)}
  OBVIOUS
<1>2. Len(s) \in Nat /\ DOMAIN s = 1 .. Len(s)
  BY DEF IsList
<1>3. s \in Seq(S)
  <2>1. s \in [1 .. Len(s) -> S]
    BY <1>1 DEF IsList
  <2> QED  BY <1>2, <2>1, SeqDef
<1>4. t \in Seq(S) /\ Len(t) = Len(s) - 1 /\ Head(s) = s[1] /\ Len(s) # 0
      /\ \A i \in 1 .. Len(s) - 1 : t[i] = s[i + 1]
  BY <1>3
<1>5. Len(t) \in Nat /\ t \in [1 .. Len(t) -> S]
  BY <1>4, LenProperties
<1>6. IsList(t) /\ DOMAIN t = 1 .. Len(s) - 1
  BY <1>4, <1>5 DEF IsList
<1>7. 1 \in DOMAIN s
  BY <1>2, <1>4
<1> QED  BY <1>2, <1>4, <1>5, <1>6, <1>7 DEF Shorter

-----------------------------------------------------------------------------
(* Filtering.                                                              *)

\* What is kept of a sequence is elements of it, and only those to be kept.
LEMMA AmongKeeps ==
  ASSUME NEW S, NEW seq \in Seq(S), NEW some
  PROVE  /\ Among(seq, some) \in Seq(S)
         /\ Range(Among(seq, some)) \subseteq Range(seq) \cap some
<1> DEFINE at == {i \in DOMAIN seq : seq[i] \in some}
           Nth(n) == CHOOSE i \in at : Cardinality({k \in at : k <= i}) = n
<1>1. DOMAIN seq = 1 .. Len(seq) /\ Len(seq) \in Nat
  BY LenProperties
<1>2. Cardinality(at) \in Nat
  <2>1. IsFiniteSet(1 .. Len(seq))
    BY <1>1, FS_Interval
  <2>2. at \in SUBSET (1 .. Len(seq))
    BY <1>1
  <2> QED  BY <2>1, <2>2, FS_Subset, FS_CardinalityType
<1>3. \A n \in 1 .. Cardinality(at) : Nth(n) \in at
  <2>1. TAKE n \in 1 .. Cardinality(at)
  <2> HIDE DEF at
  <2>2. at \in SUBSET (1 .. Len(seq))
    BY <1>1 DEF at
  <2>3. \E i \in at : Cardinality({k \in at : k <= i}) = n
    BY <1>1, <2>2, NthIsThere
  <2> QED  BY <2>3
<1>4. Among(seq, some) = [n \in 1 .. Cardinality(at) |-> seq[Nth(n)]]
  BY DEF Among
<1>5. \A n \in 1 .. Cardinality(at) : seq[Nth(n)] \in S /\ seq[Nth(n)] \in some /\ seq[Nth(n)] \in Range(seq)
  BY <1>1, <1>3, ElementOfSeq DEF Range
<1> HIDE DEF at, Nth
<1>6. Among(seq, some) \in [1 .. Cardinality(at) -> S]
  BY <1>4, <1>5
<1>7. Among(seq, some) \in Seq(S)
  BY <1>2, <1>6, SeqDef
<1>8. Range(Among(seq, some)) \subseteq Range(seq) \cap some
  BY <1>4, <1>5 DEF Range
<1> QED  BY <1>7, <1>8

\* Every place is the one its number finds.
LEMMA PlaceIsCounted ==
  ASSUME NEW m \in Nat, NEW at \in SUBSET (1 .. m), NEW i \in at
  PROVE  /\ Cardinality({k \in at : k <= i}) \in 1 .. Cardinality(at)
         /\ \A j \in at : Cardinality({k \in at : k <= j}) = Cardinality({k \in at : k <= i}) => j = i
<1> DEFINE Upto(j) == {k \in at : k <= j}
<1>1. \A j \in at : j \in Nat /\ 1 <= j /\ j <= m
  OBVIOUS
<1>2. IsFiniteSet(at)
  <2>1. IsFiniteSet(1 .. m)
    BY FS_Interval
  <2> QED  BY <2>1, FS_Subset
<1>3. \A j : IsFiniteSet(Upto(j)) /\ Cardinality(Upto(j)) \in Nat
             /\ Cardinality(Upto(j)) <= Cardinality(at)
  BY <1>2, FS_Subset, FS_CardinalityType
<1>4. Cardinality(at) \in Nat
  BY <1>2, FS_CardinalityType
<1>5. i \in Upto(i)
  BY <1>1
<1>6. ASSUME NEW a \in at, NEW b \in at, a < b
      PROVE  Cardinality(Upto(a)) < Cardinality(Upto(b))
  <2>1. \A k \in at : k <= a => k <= b
    BY <1>1, <1>6
  <2>2. b \in Upto(b) /\ b \notin Upto(a)
    BY <1>1, <1>6
  <2>3. Upto(a) \subseteq Upto(b)
    BY <2>1
  <2> HIDE DEF Upto
  <2>4. /\ Cardinality(Upto(a)) <= Cardinality(Upto(b))
        /\ Cardinality(Upto(a)) = Cardinality(Upto(b)) => Upto(a) = Upto(b)
    BY <1>3, <2>3, FS_Subset
  <2>5. Cardinality(Upto(a)) \in Nat /\ Cardinality(Upto(b)) \in Nat
    BY <1>3
  <2> QED  BY <2>2, <2>4, <2>5
<1> HIDE DEF Upto
<1>7. Cardinality(Upto(i)) # 0
  BY <1>3, <1>5, FS_EmptySet
<1>8. Cardinality(Upto(i)) \in 1 .. Cardinality(at)
  BY <1>3, <1>4, <1>7
<1>9. ASSUME NEW j \in at, Cardinality(Upto(j)) = Cardinality(Upto(i)) PROVE j = i
  <2>1. ~ (j < i) /\ ~ (i < j)
    <3>1. Cardinality(Upto(i)) \in Nat
      BY <1>3
    <3> QED  BY <1>6, <1>9, <3>1
  <2>2. j \in Nat /\ i \in Nat
    BY <1>1
  <2> QED  BY <2>1, <2>2
<1> QED  BY <1>8, <1>9 DEF Upto

\* A list is a sequence of what is in it.
LEMMA ListIsSeq == ASSUME NEW s, IsList(s) PROVE s \in Seq(Range(s)) /\ DOMAIN s = 1 .. Len(s)
<1>1. PICK S : S = Range(s)
  OBVIOUS
<1>2. Len(s) \in Nat /\ DOMAIN s = 1 .. Len(s)
  BY DEF IsList
<1>3. \A i \in 1 .. Len(s) : s[i] \in S
  BY <1>1, <1>2 DEF Range
<1>4. s \in [1 .. Len(s) -> S]
  BY <1>3 DEF IsList
<1> QED  BY <1>1, <1>2, <1>4, SeqDef

LEMMA SeqIsList == ASSUME NEW S, NEW s \in Seq(S) PROVE IsList(s)
<1>1. Len(s) \in Nat /\ s \in [1 .. Len(s) -> S]
  BY LenProperties
<1> QED  BY <1>1 DEF IsList

\* A list filtered has the elements to be kept, all of them and no others.
Filtered(s, some, t) == IsList(t) /\ Range(t) = Range(s) \cap some

\* What Among leaves of a list.
LEMMA ListIsFiltered == \A s, some : IsList(s) => Filtered(s, some, Among(s, some))
<1> SUFFICES ASSUME NEW s, IsList(s), NEW some PROVE Filtered(s, some, Among(s, some))
  OBVIOUS
<1>1. PICK S : S = Range(s)
  OBVIOUS
<1>2. s \in Seq(S) /\ DOMAIN s = 1 .. Len(s) /\ Len(s) \in Nat
  BY <1>1, ListIsSeq DEF IsList
<1>3. Among(s, some) \in Seq(S) /\ Range(Among(s, some)) \subseteq Range(s) \cap some
  BY <1>2, AmongKeeps
<1>4. IsList(Among(s, some))
  BY <1>3, SeqIsList
<1>5. ASSUME NEW e \in Range(s) \cap some PROVE e \in Range(Among(s, some))
  <2> DEFINE at == {i \in DOMAIN s : s[i] \in some}
             Nth(n) == CHOOSE i \in at : Cardinality({k \in at : k <= i}) = n
  <2>1. PICK i \in at : s[i] = e
    BY <1>5 DEF Range
  <2>2. at \in SUBSET (1 .. Len(s))
    BY <1>2
  <2>3. Among(s, some) = [n \in 1 .. Cardinality(at) |-> s[Nth(n)]]
    BY DEF Among
  <2> HIDE DEF at
  <2>4. PICK n : n = Cardinality({k \in at : k <= i})
    OBVIOUS
  <2>5. n \in 1 .. Cardinality(at)
    BY <1>2, <2>2, <2>4, PlaceIsCounted
  <2>6. \A j \in at : Cardinality({k \in at : k <= j}) = n => j = i
    <3>1. \A j \in at : Cardinality({k \in at : k <= j}) = Cardinality({k \in at : k <= i})
                             => j = i
      BY <1>2, <2>2, PlaceIsCounted, Zenon
    <3> QED  BY <2>4, <3>1, Zenon
  <2>7. Nth(n) = i
    BY <2>4, <2>6
  <2> HIDE DEF Nth
  <2>8. Among(s, some)[n] = e /\ n \in DOMAIN Among(s, some)
    BY <2>1, <2>3, <2>5, <2>7
  <2> QED  BY <2>8 DEF Range
<1> QED  BY <1>3, <1>4, <1>5 DEF Filtered

\* As many different places as there are before and after: each is counted once.
LEMMA CountsAreOnto ==
  ASSUME NEW c \in Nat, NEW f \in [1 .. c -> 1 .. c],
         \A i, j \in 1 .. c : i # j => f[i] # f[j]
  PROVE  \A n \in 1 .. c : \E i \in 1 .. c : f[i] = n
<1>1. IsFiniteSet(1 .. c)
  BY FS_Interval
<1>2. f \in Injection(1 .. c, 1 .. c)
  BY DEF Injection, IsInjective
<1>3. f \in Surjection(1 .. c, 1 .. c)
  BY <1>1, <1>2, FS_Injection
<1> QED  BY <1>3 DEF Surjection

\* What Among keeps is in the order it had.
LEMMA AmongOrders ==
  ASSUME NEW s, IsList(s), NEW some
  PROVE  \E p \in [DOMAIN Among(s, some) -> DOMAIN s] :
            /\ \A n \in DOMAIN Among(s, some) : Among(s, some)[n] = s[p[n]]
            /\ \A m, n \in DOMAIN Among(s, some) : m < n => p[m] < p[n]
<1> DEFINE at == {i \in DOMAIN s : s[i] \in some}
           Upto(i) == {k \in at : k <= i}
           c == Cardinality(at)
           p == [n \in 1 .. c |-> CHOOSE i \in at : Cardinality(Upto(i)) = n]
<1>1. Len(s) \in Nat /\ DOMAIN s = 1 .. Len(s)
  BY DEF IsList
<1>2. at \in SUBSET (1 .. Len(s)) /\ at \subseteq DOMAIN s
  BY <1>1
<1>3. Among(s, some) = [n \in 1 .. c |-> s[p[n]]]
  BY DEF Among
<1> HIDE DEF at
<1>4. IsFiniteSet(at) /\ c \in Nat
  <2>1. IsFiniteSet(1 .. Len(s))
    BY <1>1, FS_Interval
  <2> QED  BY <1>2, <2>1, FS_Subset, FS_CardinalityType
<1>5. \A n \in 1 .. c : \E i \in at : Cardinality(Upto(i)) = n
  BY <1>1, <1>2, NthIsThere
<1>6. \A i : IsFiniteSet(Upto(i)) /\ Cardinality(Upto(i)) \in Nat
  BY <1>4, FS_Subset, FS_CardinalityType
<1>7. \A i, j \in at : i <= j => Upto(i) \subseteq Upto(j)
  BY <1>2
<1> HIDE DEF Upto
<1>8. \A n \in 1 .. c : p[n] \in at /\ Cardinality(Upto(p[n])) = n
  BY <1>5
<1>9. ASSUME NEW m \in 1 .. c, NEW n \in 1 .. c, m < n PROVE p[m] < p[n]
  <2>1. p[m] \in at /\ p[n] \in at /\ Cardinality(Upto(p[m])) = m /\ Cardinality(Upto(p[n])) = n
    BY <1>8
  <2>2. p[m] \in Nat /\ p[n] \in Nat
    BY <1>2, <2>1
  <2>3. ~(p[n] <= p[m])
    <3>1. SUFFICES ASSUME p[n] <= p[m] PROVE FALSE
      OBVIOUS
    <3>2. Upto(p[n]) \in SUBSET Upto(p[m])
      BY <1>7, <2>1, <3>1
    <3>3. Cardinality(Upto(p[n])) <= Cardinality(Upto(p[m]))
      BY <1>6, <3>2, FS_Subset
    <3> QED  BY <1>4, <1>9, <2>1, <3>3
  <2> QED  BY <2>2, <2>3
<1>10. p \in [1 .. c -> DOMAIN s]
  BY <1>2, <1>8
<1> HIDE DEF p
<1> QED  BY <1>3, <1>9, <1>10

\* Two lists, one after the other.
Joined(s, t, u) ==
    /\ IsList(u) /\ Len(u) = Len(s) + Len(t) /\ DOMAIN u = 1 .. Len(s) + Len(t)
    /\ \A i \in DOMAIN s : i \in DOMAIN u /\ u[i] = s[i]
    /\ \A i \in DOMAIN t : Len(s) + i \in DOMAIN u /\ u[Len(s) + i] = t[i]
    /\ \A n \in DOMAIN u : \/ n \in DOMAIN s
                           \/ n - Len(s) \in DOMAIN t /\ n = Len(s) + (n - Len(s)) /\ n > Len(s)
    /\ Range(u) = Range(s) \cup Range(t)

LEMMA ListsJoin == \A s, t : IsList(s) /\ IsList(t) => Joined(s, t, s \o t)
<1> SUFFICES ASSUME NEW s, IsList(s), NEW t, IsList(t) PROVE Joined(s, t, s \o t)
  OBVIOUS
<1>1. PICK S : S = Range(s) \cup Range(t)
  OBVIOUS
<1>2. Len(s) \in Nat /\ Len(t) \in Nat /\ DOMAIN s = 1 .. Len(s) /\ DOMAIN t = 1 .. Len(t)
  BY DEF IsList
<1>3. s \in Seq(S) /\ t \in Seq(S)
  <2>1. s \in Seq(Range(s)) /\ t \in Seq(Range(t))
    BY ListIsSeq
  <2> QED  BY <1>1, <2>1, SeqDef
<1>4. PICK u : u = s \o t
  OBVIOUS
<1>5. /\ u \in Seq(S) /\ Len(u) = Len(s) + Len(t)
      /\ \A i \in 1 .. Len(s) + Len(t) : u[i] = IF i <= Len(s) THEN s[i] ELSE t[i - Len(s)]
  BY <1>3, <1>4, ConcatProperties
<1>6. IsList(u) /\ DOMAIN u = 1 .. Len(s) + Len(t)
  <2>1. IsList(u)
    BY <1>5, SeqIsList
  <2> QED  BY <1>5, <2>1 DEF IsList
<1>7. \A i \in DOMAIN s : i \in DOMAIN u /\ u[i] = s[i]
  BY <1>2, <1>5, <1>6
<1>8. ASSUME NEW i \in DOMAIN t PROVE Len(s) + i \in DOMAIN u /\ u[Len(s) + i] = t[i]
  <2>1. Len(s) + i \in 1 .. Len(s) + Len(t) /\ ~(Len(s) + i <= Len(s)) /\ (Len(s) + i) - Len(s) = i
    BY <1>2
  <2> QED  BY <1>5, <1>6, <2>1
<1>9. \A n \in DOMAIN u : \/ n \in DOMAIN s
                          \/ n - Len(s) \in DOMAIN t /\ n = Len(s) + (n - Len(s)) /\ n > Len(s)
  BY <1>2, <1>6
<1>10. Range(u) = Range(s) \cup Range(t)
  <2>1. \A e \in Range(u) : e \in Range(s) \cup Range(t)
    <3> SUFFICES ASSUME NEW n \in DOMAIN u PROVE u[n] \in Range(s) \cup Range(t)
      BY DEF Range
    <3>1. CASE n \in DOMAIN s
      BY <1>7, <3>1 DEF Range
    <3>2. CASE n - Len(s) \in DOMAIN t /\ n = Len(s) + (n - Len(s))
      <4>1. u[n] = t[n - Len(s)]
        BY <1>8, <3>2
      <4> QED  BY <3>2, <4>1 DEF Range
    <3> QED  BY <1>9, <3>1, <3>2
  <2>2. \A e \in Range(s) \cup Range(t) : e \in Range(u)
    BY <1>7, <1>8 DEF Range
  <2> QED  BY <2>1, <2>2
<1> QED  BY <1>4, <1>5, <1>6, <1>7, <1>8, <1>9, <1>10 DEF Joined

\* A list has finitely many elements.
LEMMA ListIsFinite == ASSUME NEW s, IsList(s) PROVE IsFiniteSet(Range(s))
<1>1. Len(s) \in Int /\ DOMAIN s = 1 .. Len(s)
  BY DEF IsList
<1>2. IsFiniteSet(1 .. Len(s))
  BY <1>1, FS_Interval
<1> QED  BY <1>1, <1>2, ImageIsFinite DEF Range

\* A weighted sum follows its parts.
LEMMA ProductGrows ==
  ASSUME NEW w \in Nat, NEW u \in Nat, NEW x \in Nat, NEW y \in Nat, x >= y
  PROVE  /\ w * x * u \in Nat /\ w * y * u \in Nat /\ w * x * u >= w * y * u
         /\ w >= 1 /\ u >= 1 /\ x > y => w * x * u > w * y * u
<1>1. PICK d \in Nat : x = y + d
  <2>1. x - y \in Nat /\ x = y + (x - y)
    OBVIOUS
  <2> QED  BY <2>1
<1>2. PICK v \in Nat : v = w * u
  OBVIOUS
<1>3. w * x * u = w * y * u + v * d
  BY <1>1, <1>2
<1>4. v * d \in Nat /\ w * y * u \in Nat
  BY <1>2
<1>5. ASSUME w >= 1, u >= 1, x > y PROVE v * d >= 1
  <2>1. v >= 1 /\ d >= 1
    BY <1>1, <1>2, <1>5
  <2> QED  BY <2>1
<1> QED  BY <1>3, <1>4, <1>5

\* What a quotient of naturals lies between.
LEMMA QuotientIsBetween ==
  ASSUME NEW a \in Nat, NEW b \in Nat, b >= 1
  PROVE  /\ a \div b \in Nat /\ b * (a \div b) <= a /\ a < b * (a \div b) + b
OBVIOUS

\* More makes no smaller a quotient.
LEMMA QuotientGrows ==
  ASSUME NEW x \in Nat, NEW y \in Nat, x >= y, NEW d \in Nat, d >= 1
  PROVE  x \div d \in Nat /\ y \div d \in Nat /\ x \div d >= y \div d
<1> DEFINE p == x \div d
           q == y \div d
<1>1. p \in Nat /\ q \in Nat /\ d * p <= x /\ x < d * p + d /\ d * q <= y /\ y < d * q + d
  BY QuotientIsBetween
<1> HIDE DEF p, q
<1>2. ASSUME p < q PROVE FALSE
  <2>1. PICK k \in Nat : q = p + 1 + k
    <3>1. q - (p + 1) \in Nat /\ q = p + 1 + (q - (p + 1))
      BY <1>1, <1>2
    <3> QED  BY <3>1
  <2>2. d * q = d * p + d + d * k /\ d * k \in Nat /\ d * p \in Nat
    BY <1>1, <2>1
  <2> QED  BY <1>1, <2>1, <2>2
<1>3. p >= q
  BY <1>1, <1>2
<1> QED  BY <1>1, <1>3 DEF p, q
=============================================================================
