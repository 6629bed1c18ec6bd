----------------------------- MODULE DataFacts ------------------------------
(***************************************************************************)
(* What the other proofs use of sequences, finite sets, sums and filters:  *)
(* a waiting line that is joined and left, induction on numbers and on     *)
(* finite sets, sums that may be cut up and put together in any order, the *)
(* part of a sequence that a filter keeps, and sorting.                    *)
(***************************************************************************)
EXTENDS SequencesExt, SequenceTheorems, FiniteSetTheorems, TLAPS

(***************************************************************************)
(* Lines without repetitions: joining, leading and leaving.                *)
(***************************************************************************)

\* Appending a new element keeps a line free of repetitions and adds it alone.
LEMMA AppendToLine ==
    ASSUME NEW S, NEW s \in Seq(S), NEW e \in S, IsInjective(s), e \notin Range(s)
    PROVE  /\ Append(s, e) \in Seq(S)
           /\ IsInjective(Append(s, e))
           /\ Range(Append(s, e)) = Range(s) \cup {e}
<1>1. /\ Append(s, e) \in Seq(S)
      /\ Len(Append(s, e)) = Len(s) + 1
      /\ \A i \in 1..Len(s) : Append(s, e)[i] = s[i]
      /\ Append(s, e)[Len(s) + 1] = e
    BY AppendProperties
<1>2. Len(s) \in Nat /\ DOMAIN s = 1..Len(s)
    BY LenProperties
<1>3. DOMAIN Append(s, e) = 1..(Len(s) + 1)
    BY <1>1, LenProperties
<1>4. Range(s) = {s[i] : i \in 1..Len(s)}
    BY RangeEquality
<1>5. Range(Append(s, e)) = {Append(s, e)[i] : i \in 1..(Len(s) + 1)}
    BY <1>1, RangeEquality
<1>6. IsInjective(Append(s, e))
    BY <1>1, <1>2, <1>3, <1>4 DEF IsInjective
<1>7. Range(Append(s, e)) = Range(s) \cup {e}
    BY <1>1, <1>2, <1>4, <1>5
<1>8. QED
    BY <1>1, <1>6, <1>7

\* The head of a line without repetitions is in it once: the tail has the others.
LEMMA TailOfLine ==
    ASSUME NEW S, NEW s \in Seq(S), IsInjective(s), s # <<>>
    PROVE  /\ Head(s) \in S /\ Head(s) \in Range(s)
           /\ Tail(s) \in Seq(S)
           /\ IsInjective(Tail(s))
           /\ Range(Tail(s)) = Range(s) \ {Head(s)}
<1>1. /\ Head(s) \in S
      /\ Tail(s) \in Seq(S)
      /\ Len(Tail(s)) = Len(s) - 1
      /\ \A i \in 1..Len(Tail(s)) : Tail(s)[i] = s[i + 1]
    BY HeadTailProperties
<1>2. Len(s) \in Nat \ {0} /\ DOMAIN s = 1..Len(s)
    BY LenProperties, EmptySeq
<1>3. DOMAIN Tail(s) = 1..(Len(s) - 1)
    BY <1>1, LenProperties
<1>4. Range(s) = {s[i] : i \in 1..Len(s)}
    BY RangeEquality
<1>5. Range(Tail(s)) = {Tail(s)[i] : i \in 1..(Len(s) - 1)}
    BY <1>1, RangeEquality
<1>6. Head(s) = s[1]
    BY <1>2
<1>7. IsInjective(Tail(s))
    <2>1. SUFFICES ASSUME NEW a \in 1..(Len(s) - 1), NEW b \in 1..(Len(s) - 1),
                          Tail(s)[a] = Tail(s)[b]
                   PROVE  a = b
        BY <1>3 DEF IsInjective
    <2>2. s[a + 1] = s[b + 1] /\ a + 1 \in DOMAIN s /\ b + 1 \in DOMAIN s
        BY <1>1, <1>2, <2>1
    <2>3. a + 1 = b + 1
        BY <2>2 DEF IsInjective
    <2>4. QED
        BY <2>3, <1>2
<1>8. Range(Tail(s)) \subseteq Range(s) \ {Head(s)}
    <2>1. SUFFICES ASSUME NEW i \in 1..(Len(s) - 1)
                   PROVE  s[i + 1] \in Range(s) /\ s[i + 1] # s[1]
        BY <1>1, <1>5, <1>6
    <2>2. i + 1 \in 1..Len(s) /\ 1 \in 1..Len(s) /\ i + 1 # 1
        BY <1>2
    <2>3. QED
        BY <1>2, <1>4, <2>2 DEF IsInjective
<1>9. Range(s) \ {Head(s)} \subseteq Range(Tail(s))
    <2>1. SUFFICES ASSUME NEW i \in 1..Len(s), s[i] # s[1]
                   PROVE  s[i] \in Range(Tail(s))
        BY <1>4, <1>6
    <2>2. i - 1 \in 1..(Len(s) - 1) /\ (i - 1) + 1 = i
        BY <1>2, <2>1
    <2>3. Tail(s)[i - 1] = s[i]
        BY <1>1, <2>2
    <2>4. QED
        BY <1>5, <2>2, <2>3
<1>10. QED
    BY <1>1, <1>2, <1>4, <1>6, <1>7, <1>8, <1>9

\* A segment of a sequence, possibly empty, element by element.
LEMMA Segment ==
    ASSUME NEW S, NEW s \in Seq(S), NEW m \in Nat, NEW n \in Nat,
           1 <= m, m <= n + 1, n <= Len(s)
    PROVE  /\ SubSeq(s, m, n) \in Seq(S)
           /\ Len(SubSeq(s, m, n)) = n - m + 1
           /\ \A i \in 1..(n - m + 1) : SubSeq(s, m, n)[i] = s[m + i - 1]
<1>1. \A i \in m..n : s[i] \in S
    BY ElementOfSeq, LenProperties
<1>2. m \in Int /\ n \in Int
    OBVIOUS
<1>3. /\ SubSeq(s, m, n) \in Seq(S)
      /\ Len(SubSeq(s, m, n)) = IF m <= n THEN n - m + 1 ELSE 0
      /\ \A i \in 1..(n - m + 1) : SubSeq(s, m, n)[i] = s[m + i - 1]
    BY <1>1, <1>2, SubSeqProperties, SMTT(20)
<1>4. QED
    BY <1>3

\* Taking the k-th element out moves the later ones up by one.
LEMMA RemovedAt ==
    ASSUME NEW S, NEW s \in Seq(S), NEW k \in 1..Len(s)
    PROVE  /\ RemoveAt(s, k) \in Seq(S) /\ Len(RemoveAt(s, k)) = Len(s) - 1
           /\ \A i \in 1..(Len(s) - 1) : RemoveAt(s, k)[i] = IF i < k THEN s[i] ELSE s[i + 1]
<1> DEFINE a == SubSeq(s, 1, k - 1)
           b == SubSeq(s, k + 1, Len(s))
           r == a \o b
<1>1. Len(s) \in Nat /\ DOMAIN s = 1..Len(s) /\ \A i \in 1..Len(s) : s[i] \in S
    BY LenProperties, ElementOfSeq
<1>2. a \in Seq(S) /\ Len(a) = k - 1 /\ \A i \in 1..(k - 1) : a[i] = s[i]
    BY <1>1, SMT
<1>3. b \in Seq(S) /\ Len(b) = Len(s) - k /\ \A i \in 1..(Len(s) - k) : b[i] = s[k + i]
    <2> DEFINE m == k + 1
    <2>1. m \in Nat /\ Len(s) \in Nat /\ 1 <= m /\ m <= Len(s) + 1 /\ Len(s) <= Len(s)
        BY <1>1
    <2> HIDE DEF m
    <2>2. /\ SubSeq(s, m, Len(s)) \in Seq(S)
          /\ Len(SubSeq(s, m, Len(s))) = Len(s) - m + 1
          /\ \A i \in 1..(Len(s) - m + 1) : SubSeq(s, m, Len(s))[i] = s[m + i - 1]
        BY <2>1, Segment
    <2>3. \A i \in 1..(Len(s) - k) : i \in 1..(Len(s) - m + 1) /\ m + i - 1 = k + i
        BY <1>1 DEF m
    <2>4. Len(s) - m + 1 = Len(s) - k
        BY <1>1 DEF m
    <2>5. b = SubSeq(s, m, Len(s))
        BY DEF m
    <2>6. QED
        BY <2>2, <2>3, <2>4, <2>5
<1> HIDE DEF a, b
<1>4. /\ r \in Seq(S) /\ Len(r) = Len(s) - 1
      /\ \A i \in 1..(Len(s) - 1) : r[i] = IF i < k THEN s[i] ELSE s[i + 1]
    <2>1. /\ r \in Seq(S) /\ Len(r) = Len(a) + Len(b)
          /\ \A i \in 1..(Len(a) + Len(b)) :
                r[i] = IF i <= Len(a) THEN a[i] ELSE b[i - Len(a)]
        BY <1>2, <1>3, ConcatProperties
    <2> HIDE DEF r
    <2>2. Len(r) = Len(s) - 1
        BY <2>1, <1>1, <1>2, <1>3
    <2>3. ASSUME NEW i \in 1..(Len(s) - 1)
          PROVE  r[i] = IF i < k THEN s[i] ELSE s[i + 1]
        <3>1. CASE i < k
            <4>1. i \in 1..(k - 1) /\ i \in 1..(Len(a) + Len(b)) /\ i <= Len(a)
                BY <3>1, <1>1, <1>2, <1>3
            <4>2. QED
                BY <4>1, <3>1, <2>1, <1>2
        <3>2. CASE ~(i < k)
            <4>1. /\ i \in 1..(Len(a) + Len(b)) /\ ~(i <= Len(a))
                  /\ i - Len(a) \in 1..(Len(s) - k) /\ k + (i - Len(a)) = i + 1
                BY <3>2, <1>1, <1>2, <1>3
            <4>2. QED
                BY <4>1, <3>2, <2>1, <1>3
        <3>3. QED
            BY <3>1, <3>2
    <2>4. QED
        BY <2>1, <2>2, <2>3
<1>5. QED
    BY <1>4 DEF RemoveAt, a, b, r

\* Out of a line without repetitions it takes that element only.
LEMMA RemoveFromLine ==
    ASSUME NEW S, NEW s \in Seq(S), IsInjective(s), NEW k \in 1..Len(s)
    PROVE  /\ RemoveAt(s, k) \in Seq(S)
           /\ IsInjective(RemoveAt(s, k))
           /\ Range(RemoveAt(s, k)) = Range(s) \ {s[k]}
<1> DEFINE r == RemoveAt(s, k)
<1>1. Len(s) \in Nat /\ DOMAIN s = 1..Len(s) /\ \A i \in 1..Len(s) : s[i] \in S
    BY LenProperties, ElementOfSeq
<1>4. /\ r \in Seq(S) /\ Len(r) = Len(s) - 1
      /\ \A i \in 1..(Len(s) - 1) : r[i] = IF i < k THEN s[i] ELSE s[i + 1]
    BY RemovedAt
<1> HIDE DEF r
<1>5. DOMAIN r = 1..(Len(s) - 1) /\ Range(r) = {r[i] : i \in 1..(Len(s) - 1)}
    BY <1>4, LenProperties, RangeEquality
<1>6. Range(s) = {s[i] : i \in 1..Len(s)}
    BY RangeEquality
<1>7. IsInjective(r)
    <2>1. SUFFICES ASSUME NEW x \in 1..(Len(s) - 1), NEW y \in 1..(Len(s) - 1), r[x] = r[y]
                   PROVE  x = y
        BY <1>5 DEF IsInjective
    <2> DEFINE X == IF x < k THEN x ELSE x + 1
               Y == IF y < k THEN y ELSE y + 1
    <2>2. X \in DOMAIN s /\ Y \in DOMAIN s /\ s[X] = s[Y]
        BY <1>1, <1>4, <2>1
    <2>3. X = Y
        BY <2>2 DEF IsInjective
    <2>4. QED
        BY <2>3, <1>1
<1>8. Range(r) \subseteq Range(s) \ {s[k]}
    <2>1. SUFFICES ASSUME NEW i \in 1..(Len(s) - 1) PROVE r[i] \in Range(s) \ {s[k]}
        BY <1>5
    <2> DEFINE X == IF i < k THEN i ELSE i + 1
    <2>2. X \in 1..Len(s) /\ X # k /\ r[i] = s[X]
        BY <1>1, <1>4
    <2>3. QED
        BY <2>2, <1>1, <1>6 DEF IsInjective
<1>9. Range(s) \ {s[k]} \subseteq Range(r)
    <2>1. SUFFICES ASSUME NEW i \in 1..Len(s), i # k PROVE s[i] \in Range(r)
        BY <1>6
    <2> DEFINE X == IF i < k THEN i ELSE i - 1
    <2>2. X \in 1..(Len(s) - 1) /\ r[X] = s[i]
        BY <1>1, <1>4, <2>1
    <2>3. QED
        BY <2>2, <1>5
<1>10. QED
    BY <1>4, <1>7, <1>8, <1>9 DEF r

\* One more element.
LEMMA RangeOfAppend ==
    ASSUME NEW S, NEW s \in Seq(S), NEW e \in S
    PROVE  Range(Append(s, e)) = Range(s) \cup {e}
<1>1. /\ Append(s, e) \in Seq(S)
      /\ Len(Append(s, e)) = Len(s) + 1
      /\ \A i \in 1..Len(s) : Append(s, e)[i] = s[i]
      /\ Append(s, e)[Len(s) + 1] = e
    BY AppendProperties
<1>2. Len(s) \in Nat
    BY LenProperties
<1>3. Range(s) = {s[i] : i \in 1..Len(s)}
    BY RangeEquality
<1>4. Range(Append(s, e)) = {Append(s, e)[i] : i \in 1..(Len(s) + 1)}
    BY <1>1, RangeEquality
<1>5. QED
    BY <1>1, <1>2, <1>3, <1>4

-----------------------------------------------------------------------------
(***************************************************************************)
(* Induction.  The well-founded ordering of the finite sets of naturals    *)
(* gives the least-number principle, and that induction, stated with the   *)
(* set of the numbers that have a property in place of the property.       *)
(***************************************************************************)

\* Every non-empty set of naturals has a least element.
LEMMA LeastNumber ==
    ASSUME NEW T \in SUBSET Nat, T # {}
    PROVE  \E x \in T : \A y \in T : x <= y
<1> DEFINE F == {0..n : n \in T}
<1>1. F \subseteq FiniteSubsetsOf(Nat)
    <2>1. \A n \in T : 0..n \in SUBSET Nat /\ IsFiniteSet(0..n)
        BY FS_Interval
    <2>2. QED
        BY <2>1 DEF FiniteSubsetsOf
<1>2. F # {}
    OBVIOUS
<1> HIDE DEF F
<1>3. PICK s \in F : \A t \in F : ~(<<t, s>> \in StrictSubsetOrdering(Nat))
    BY <1>1, <1>2, FS_StrictSubsetOrderingWellFounded, WFMin
<1>4. PICK x \in T : s = 0..x
    BY DEF F
<1>5. ASSUME NEW y \in T, y < x PROVE FALSE
    <2>1. x \in 0..x /\ x \notin 0..y /\ 0..y \subseteq 0..x
        BY <1>5
    <2>2. 0..y \in F
        BY DEF F
    <2>3. <<0..y, 0..x>> \in StrictSubsetOrdering(Nat)
        BY <2>1 DEF StrictSubsetOrdering
    <2>4. QED
        BY <1>3, <1>4, <2>2, <2>3
<1>6. QED
    BY <1>4, <1>5

\* A set of naturals with 0 and with the successor of all it has is all of Nat.
LEMMA Induction ==
    ASSUME NEW T \in SUBSET Nat, 0 \in T, \A n \in T : n + 1 \in T
    PROVE  T = Nat
<1>1. SUFFICES ASSUME Nat \ T # {} PROVE FALSE
    OBVIOUS
<1>2. PICK x \in Nat \ T : \A y \in Nat \ T : x <= y
    <2>1. Nat \ T \in SUBSET Nat
        OBVIOUS
    <2>2. QED
        BY <1>1, <2>1, LeastNumber
<1>3. x # 0 /\ x - 1 \in Nat
    BY <1>2
<1>4. x - 1 \in T
    BY <1>2, <1>3
<1>5. x - 1 + 1 = x
    BY <1>3
<1>6. QED
    BY <1>4, <1>5

\* A family of finite sets that has a set as soon as it has all smaller ones has
\* every finite subset of S.
LEMMA SizeInduction ==
    ASSUME NEW S, NEW C \in SUBSET SUBSET S,
           \A s \in SUBSET S :
               /\ IsFiniteSet(s)
               /\ \A t \in SUBSET s : Cardinality(t) < Cardinality(s) => t \in C
               => s \in C
    PROVE  \A s \in SUBSET S : IsFiniteSet(s) => s \in C
<1> DEFINE T == {n \in Nat : \A s \in SUBSET S :
                                 IsFiniteSet(s) /\ Cardinality(s) < n => s \in C}
<1>1. T \in SUBSET Nat
    OBVIOUS
<1>2. 0 \in T
    BY FS_CardinalityType
<1>3. ASSUME NEW n \in T PROVE n + 1 \in T
    <2>1. SUFFICES ASSUME NEW s \in SUBSET S, IsFiniteSet(s), Cardinality(s) < n + 1
                   PROVE  s \in C
        OBVIOUS
    <2>2. ASSUME NEW t \in SUBSET s, Cardinality(t) < Cardinality(s) PROVE t \in C
        <3>1. IsFiniteSet(t) /\ Cardinality(t) \in Nat /\ Cardinality(s) \in Nat
            BY <2>1, FS_Subset, FS_CardinalityType
        <3>2. t \in SUBSET S /\ Cardinality(t) < n
            BY <2>1, <2>2, <3>1
        <3>3. QED
            BY <3>1, <3>2
    <2>3. QED
        BY <2>1, <2>2
<1> HIDE DEF T
<1>4. T = Nat
    BY <1>1, <1>2, <1>3, Induction
<1>5. SUFFICES ASSUME NEW s \in SUBSET S, IsFiniteSet(s) PROVE s \in C
    OBVIOUS
<1>6. Cardinality(s) \in Nat /\ Cardinality(s) + 1 \in T
    BY <1>4, <1>5, FS_CardinalityType
<1>7. QED
    BY <1>5, <1>6 DEF T

\* A non-empty set of numbers up to n has a largest one.
LEMMA MaxIsIn ==
    ASSUME NEW n \in Nat, NEW s \in SUBSET (1..n), s # {}
    PROVE  Max(s) \in s /\ \A x \in s : x <= Max(s)
<1> DEFINE T == {k \in Nat : k \in Nat /\ \A x \in s : x <= k}
<1>1. T \in SUBSET Nat /\ T # {}
    <2>1. n \in T
        OBVIOUS
    <2>2. QED
        BY <2>1
<1>2. PICK m \in T : \A k \in T : m <= k
    <2> HIDE DEF T
    <2>1. \E m \in T : \A k \in T : m <= k
        BY <1>1, LeastNumber
    <2>2. QED
        BY <2>1
<1>3. m \in s
    <2>1. SUFFICES ASSUME m \notin s PROVE FALSE
        OBVIOUS
    <2>2. m - 1 \in T
        <3>1. PICK y \in s : TRUE
            OBVIOUS
        <3>2. \A x \in s : x \in Nat /\ x >= 1 /\ x <= m /\ x # m
            BY <1>2, <2>1
        <3>3. m \in Nat /\ m - 1 \in Nat /\ \A x \in s : x <= m - 1
            BY <1>2, <3>1, <3>2
        <3>4. QED
            BY <3>3
    <2>3. QED
        BY <1>2, <2>2
<1>4. \A x \in s : x <= m
    BY <1>2
<1>5. QED
    BY <1>3, <1>4 DEF Max

\* A non-empty set of numbers has a least one.
LEMMA MinIsIn ==
    ASSUME NEW s \in SUBSET Nat, s # {}
    PROVE  Min(s) \in s /\ \A x \in s : Min(s) <= x
<1>1. \E x \in s : \A y \in s : x <= y
    BY LeastNumber
<1>2. QED
    BY <1>1 DEF Min

\* The larger of two numbers.
LEMMA Larger ==
    ASSUME NEW a \in Int, NEW b \in Int
    PROVE  Max({a, b}) \in {a, b} /\ Max({a, b}) >= a /\ Max({a, b}) >= b
<1>1. \E x \in {a, b} : \A y \in {a, b} : x >= y
    OBVIOUS
<1>2. QED
    BY <1>1 DEF Max

-----------------------------------------------------------------------------
(***************************************************************************)
(* SumSteps.  SumFunctionOnSet(f, S) chooses an order; for a finite S and      *)
(* integers it does not matter which.                                      *)
(***************************************************************************)
OneOf(s) == CHOOSE x \in s : TRUE

SumSteps(f, g, S) ==
    g = [s \in SUBSET S |-> IF s = {} THEN 0 ELSE f[OneOf(s)] + g[s \ {OneOf(s)}]]

LEMMA OneOfIsIn == ASSUME NEW s, s # {} PROVE OneOf(s) \in s
    BY DEF OneOf

LEMMA Smaller ==
    ASSUME NEW s, IsFiniteSet(s), NEW x \in s
    PROVE  /\ IsFiniteSet(s \ {x}) /\ Cardinality(s) \in Nat
           /\ Cardinality(s \ {x}) = Cardinality(s) - 1
           /\ Cardinality(s \ {x}) < Cardinality(s)
<1>1. IsFiniteSet(s \ {x}) /\ Cardinality(s \ {x}) = Cardinality(s) - 1
    BY FS_RemoveElement
<1>2. Cardinality(s) \in Nat
    BY FS_CardinalityType
<1>3. QED
    BY <1>1, <1>2

\* The definition has a solution.
LEMMA SumsExist ==
    ASSUME NEW S, IsFiniteSet(S), NEW f
    PROVE  \E g : SumSteps(f, g, S)
<1> DEFINE Upto(n) == {s \in SUBSET S : Cardinality(s) <= n}
           Is(g, n) == g = [s \in Upto(n) |-> IF s = {} THEN 0
                                              ELSE f[OneOf(s)] + g[s \ {OneOf(s)}]]
           T == {n \in Nat : \E g : Is(g, n)}
<1>1. \A s \in SUBSET S : IsFiniteSet(s) /\ Cardinality(s) \in Nat
    BY FS_Subset, FS_CardinalityType
<1>2. 0 \in T
    <2>1. \A s \in Upto(0) : s = {}
        BY <1>1, FS_EmptySet
    <2>2. Is([s \in Upto(0) |-> 0], 0)
        BY <2>1
    <2>3. QED
        BY <2>2
<1>3. ASSUME NEW n \in T PROVE n + 1 \in T
    <2>1. PICK g : Is(g, n)
        OBVIOUS
    <2> DEFINE h == [s \in Upto(n + 1) |-> IF s = {} THEN 0
                                           ELSE f[OneOf(s)] + g[s \ {OneOf(s)}]]
    <2>2. \A s \in Upto(n + 1) : s # {} => OneOf(s) \in s /\ s \ {OneOf(s)} \in Upto(n)
        <3>1. SUFFICES ASSUME NEW s \in Upto(n + 1), s # {}
                       PROVE  OneOf(s) \in s /\ s \ {OneOf(s)} \in Upto(n)
            OBVIOUS
        <3>2. OneOf(s) \in s
            BY <3>1, OneOfIsIn
        <3>3. Cardinality(s \ {OneOf(s)}) = Cardinality(s) - 1 /\ Cardinality(s) \in Nat
            BY <1>1, <3>2, Smaller
        <3>4. QED
            BY <3>1, <3>2, <3>3
    <2>3. \A s \in Upto(n) : s \in Upto(n + 1) /\ h[s] = g[s]
        <3>1. SUFFICES ASSUME NEW s \in Upto(n) PROVE s \in Upto(n + 1) /\ h[s] = g[s]
            OBVIOUS
        <3>2. s \in Upto(n + 1)
            BY <1>1
        <3>3. g[s] = IF s = {} THEN 0 ELSE f[OneOf(s)] + g[s \ {OneOf(s)}]
            BY <2>1
        <3> HIDE DEF Upto
        <3>4. QED
            BY <3>2, <3>3
    <2>4. Is(h, n + 1)
        <3> HIDE DEF Upto
        <3>1. \A s \in Upto(n + 1) :
                 h[s] = IF s = {} THEN 0 ELSE f[OneOf(s)] + h[s \ {OneOf(s)}]
            BY <2>2, <2>3
        <3>2. h = [s \in Upto(n + 1) |-> h[s]]
            OBVIOUS
        <3> HIDE DEF h
        <3>3. QED
            BY <3>1, <3>2
    <2> HIDE DEF Is, h
    <2>5. QED
        BY <2>4
<1>4. Cardinality(S) \in T
    <2>1. T \in SUBSET Nat
        OBVIOUS
    <2> HIDE DEF T
    <2>2. QED
        BY <1>2, <1>3, <2>1, Induction, FS_CardinalityType
<1>5. Upto(Cardinality(S)) = SUBSET S
    BY <1>1, FS_Subset
<1>6. QED
    BY <1>4, <1>5 DEF SumSteps

\* Two solutions agree where both are defined.
LEMMA SumsAgree ==
    ASSUME NEW S, NEW U, NEW f, NEW g, NEW h, SumSteps(f, g, S), SumSteps(f, h, U)
    PROVE  \A s \in SUBSET (S \cap U) : IsFiniteSet(s) => g[s] = h[s]
<1> DEFINE C == {s \in SUBSET (S \cap U) : g[s] = h[s]}
<1>1. ASSUME NEW s \in SUBSET (S \cap U), IsFiniteSet(s),
             \A t \in SUBSET s : Cardinality(t) < Cardinality(s) => t \in C
      PROVE  s \in C
    <2>1. /\ g[s] = IF s = {} THEN 0 ELSE f[OneOf(s)] + g[s \ {OneOf(s)}]
          /\ h[s] = IF s = {} THEN 0 ELSE f[OneOf(s)] + h[s \ {OneOf(s)}]
        BY DEF SumSteps
    <2>2. CASE s = {}
        BY <2>1, <2>2
    <2>3. CASE s # {}
        <3>1. s \ {OneOf(s)} \in C
            BY <1>1, <2>3, OneOfIsIn, Smaller
        <3>2. QED
            BY <2>1, <2>3, <3>1
    <2>4. QED
        BY <2>2, <2>3
<1>2. C \in SUBSET SUBSET (S \cap U)
    OBVIOUS
<1> HIDE DEF C
<1>3. \A s \in SUBSET (S \cap U) : IsFiniteSet(s) => s \in C
    BY <1>1, <1>2, SizeInduction
<1>4. QED
    BY <1>3 DEF C

\* Any solution gives the sum of any subset.
LEMMA SumIsIt ==
    ASSUME NEW S, IsFiniteSet(S), NEW f
    PROVE  \E g : /\ SumSteps(f, g, S)
                  /\ \A s \in SUBSET S : SumFunctionOnSet(f, s) = g[s]
<1>1. PICK g : SumSteps(f, g, S)
    BY SumsExist
<1>2. ASSUME NEW s \in SUBSET S PROVE SumFunctionOnSet(f, s) = g[s]
    <2> DEFINE h == CHOOSE k : SumSteps(f, k, s)
    <2>1. IsFiniteSet(s)
        BY FS_Subset
    <2>2. SumSteps(f, h, s)
        BY <2>1, SumsExist
    <2>3. SumFunctionOnSet(f, s) = h[s]
        BY DEF SumFunctionOnSet, FoldFunctionOnSet, MapThenFoldSet, SumSteps, OneOf
    <2> HIDE DEF h
    <2>4. QED
        BY <1>1, <2>1, <2>2, <2>3, SumsAgree
<1>3. QED
    BY <1>1, <1>2

LEMMA SumOfNone == ASSUME NEW f PROVE SumFunctionOnSet(f, {}) = 0
<1>1. PICK g : SumSteps(f, g, {}) /\ SumFunctionOnSet(f, {}) = g[{}]
    BY FS_EmptySet, SumIsIt
<1>2. QED
    BY <1>1 DEF SumSteps

LEMMA SumOfSome ==
    ASSUME NEW S, IsFiniteSet(S), S # {}, NEW f
    PROVE  SumFunctionOnSet(f, S) = f[OneOf(S)] + SumFunctionOnSet(f, S \ {OneOf(S)})
<1>1. PICK g : SumSteps(f, g, S) /\ \A s \in SUBSET S : SumFunctionOnSet(f, s) = g[s]
    BY SumIsIt
<1>2. g[S] = f[OneOf(S)] + g[S \ {OneOf(S)}]
    BY <1>1 DEF SumSteps
<1>3. QED
    BY <1>1, <1>2

LEMMA SumIsInt ==
    ASSUME NEW S, IsFiniteSet(S), NEW f, \A x \in S : f[x] \in Int
    PROVE  SumFunctionOnSet(f, S) \in Int
<1> DEFINE C == {s \in SUBSET S : SumFunctionOnSet(f, s) \in Int}
<1>1. ASSUME NEW s \in SUBSET S, IsFiniteSet(s),
             \A t \in SUBSET s : Cardinality(t) < Cardinality(s) => t \in C
      PROVE  s \in C
    <2>1. CASE s = {}
        BY <2>1, SumOfNone
    <2>2. CASE s # {}
        <3>1. OneOf(s) \in s /\ s \ {OneOf(s)} \in C
            BY <1>1, <2>2, OneOfIsIn, Smaller
        <3>2. SumFunctionOnSet(f, s) = f[OneOf(s)] + SumFunctionOnSet(f, s \ {OneOf(s)})
            BY <1>1, <2>2, SumOfSome
        <3>3. f[OneOf(s)] \in Int /\ SumFunctionOnSet(f, s \ {OneOf(s)}) \in Int
            BY <3>1
        <3>4. SumFunctionOnSet(f, s) \in Int
            BY <3>2, <3>3
        <3>5. QED
            BY <3>4
    <2>3. QED
        BY <2>1, <2>2
<1>2. C \in SUBSET SUBSET S
    OBVIOUS
<1> HIDE DEF C
<1>3. S \in C
    BY <1>1, <1>2, SizeInduction
<1>4. QED
    BY <1>3 DEF C

\* The sum of f over S is that over the others and f at any one element.
LEMMA SumOfOthers ==
    ASSUME NEW S, IsFiniteSet(S), NEW f, \A x \in S : f[x] \in Int
    PROVE  \A x \in S : SumFunctionOnSet(f, S) = f[x] + SumFunctionOnSet(f, S \ {x})
<1> DEFINE C == {s \in SUBSET S :
                    \A x \in s : SumFunctionOnSet(f, s) = f[x] + SumFunctionOnSet(f, s \ {x})}
<1>1. ASSUME NEW s \in SUBSET S, IsFiniteSet(s),
             \A t \in SUBSET s : Cardinality(t) < Cardinality(s) => t \in C
      PROVE  s \in C
    <2>1. SUFFICES ASSUME NEW x \in s
                   PROVE  SumFunctionOnSet(f, s) = f[x] + SumFunctionOnSet(f, s \ {x})
        OBVIOUS
    <2>2. PICK y \in s : y = OneOf(s)
        BY OneOfIsIn
    <2>3. SumFunctionOnSet(f, s) = f[y] + SumFunctionOnSet(f, s \ {y})
        BY <1>1, <2>2, SumOfSome
    <2>4. CASE x # y
        <3>1. s \ {y} \in C /\ s \ {x} \in C
            BY <1>1, Smaller
        <3>2. SumFunctionOnSet(f, s \ {y}) = f[x] + SumFunctionOnSet(f, (s \ {y}) \ {x})
            BY <2>4, <3>1
        <3>3. SumFunctionOnSet(f, s \ {x}) = f[y] + SumFunctionOnSet(f, (s \ {x}) \ {y})
            BY <2>4, <3>1
        <3>4. (s \ {x}) \ {y} = (s \ {y}) \ {x} /\ IsFiniteSet((s \ {y}) \ {x})
            BY <1>1, FS_Subset
        <3>5. SumFunctionOnSet(f, (s \ {y}) \ {x}) \in Int
            BY <3>4, SumIsInt
        <3>6. f[x] \in Int /\ f[y] \in Int
            OBVIOUS
        <3> DEFINE rest == SumFunctionOnSet(f, (s \ {y}) \ {x})
        <3>7. /\ SumFunctionOnSet(f, s) = f[y] + (f[x] + rest)
              /\ SumFunctionOnSet(f, s \ {x}) = f[y] + rest
            BY <2>3, <3>2, <3>3, <3>4
        <3> HIDE DEF rest
        <3>8. f[y] + (f[x] + rest) = f[x] + (f[y] + rest)
            BY <3>5, <3>6 DEF rest
        <3>9. QED
            BY <3>7, <3>8
    <2>5. QED
        BY <2>3, <2>4
<1>2. C \in SUBSET SUBSET S
    OBVIOUS
<1> HIDE DEF C
<1>3. S \in C
    BY <1>1, <1>2, SizeInduction
<1>4. QED
    BY <1>3 DEF C

\* Functions that agree on S have one sum over it.
LEMMA SameSum ==
    ASSUME NEW S, IsFiniteSet(S), NEW f, NEW g, \A x \in S : f[x] = g[x]
    PROVE  SumFunctionOnSet(f, S) = SumFunctionOnSet(g, S)
<1> DEFINE C == {s \in SUBSET S : SumFunctionOnSet(f, s) = SumFunctionOnSet(g, s)}
<1>1. ASSUME NEW s \in SUBSET S, IsFiniteSet(s),
             \A t \in SUBSET s : Cardinality(t) < Cardinality(s) => t \in C
      PROVE  s \in C
    <2>1. CASE s = {}
        BY <2>1, SumOfNone
    <2>2. CASE s # {}
        <3>1. OneOf(s) \in s /\ s \ {OneOf(s)} \in C
            BY <1>1, <2>2, OneOfIsIn, Smaller
        <3>2. QED
            BY <1>1, <2>2, <3>1, SumOfSome
    <2>3. QED
        BY <2>1, <2>2
<1>2. C \in SUBSET SUBSET S
    OBVIOUS
<1> HIDE DEF C
<1>3. S \in C
    BY <1>1, <1>2, SizeInduction
<1>4. QED
    BY <1>3 DEF C

\* Two sets without a common element: the sums add up.
LEMMA SumOfTwo ==
    ASSUME NEW A, NEW B, IsFiniteSet(A), IsFiniteSet(B), A \cap B = {},
           NEW f, \A x \in A \cup B : f[x] \in Int
    PROVE  SumFunctionOnSet(f, A \cup B) = SumFunctionOnSet(f, A) + SumFunctionOnSet(f, B)
<1> DEFINE C == {s \in SUBSET A : SumFunctionOnSet(f, s \cup B) =
                                     SumFunctionOnSet(f, s) + SumFunctionOnSet(f, B)}
<1>b. SumFunctionOnSet(f, B) \in Int
    BY SumIsInt
<1>1. ASSUME NEW s \in SUBSET A, IsFiniteSet(s),
             \A t \in SUBSET s : Cardinality(t) < Cardinality(s) => t \in C
      PROVE  s \in C
    <2>1. CASE s = {}
        <3>1. s \cup B = B
            BY <2>1
        <3>2. QED
            BY <1>b, <2>1, <3>1, SumOfNone
    <2>2. CASE s # {}
        <3>1. PICK x \in s : s \ {x} \in C
            BY <1>1, <2>2, Smaller
        <3>2. IsFiniteSet(s \cup B) /\ IsFiniteSet(s \ {x})
            BY <1>1, FS_Union, Smaller
        <3>3. (s \cup B) \ {x} = (s \ {x}) \cup B
            OBVIOUS
        <3>4. SumFunctionOnSet(f, s \cup B) = f[x] + SumFunctionOnSet(f, (s \cup B) \ {x})
            BY <3>2, SumOfOthers
        <3>5. SumFunctionOnSet(f, s) = f[x] + SumFunctionOnSet(f, s \ {x})
            BY <1>1, SumOfOthers
        <3>6. f[x] \in Int /\ SumFunctionOnSet(f, s \ {x}) \in Int
            BY <3>2, SumIsInt
        <3>7. SumFunctionOnSet(f, (s \ {x}) \cup B) =
                 SumFunctionOnSet(f, s \ {x}) + SumFunctionOnSet(f, B)
            BY <3>1
        <3> DEFINE a == SumFunctionOnSet(f, s \ {x})
                   b == SumFunctionOnSet(f, B)
        <3>8. /\ SumFunctionOnSet(f, s \cup B) = f[x] + (a + b)
              /\ SumFunctionOnSet(f, s) = f[x] + a
            BY <3>3, <3>4, <3>5, <3>7
        <3>9. f[x] + (a + b) = (f[x] + a) + b
            <4>1. a \in Int /\ b \in Int
                BY <1>b, <3>6
            <4> HIDE DEF a, b
            <4>2. QED
                BY <3>6, <4>1
        <3>10. SumFunctionOnSet(f, s \cup B) = SumFunctionOnSet(f, s) + SumFunctionOnSet(f, B)
            BY <3>8, <3>9
        <3> HIDE DEF a, b
        <3>11. QED
            BY <3>10
    <2>3. QED
        BY <2>1, <2>2
<1>2. C \in SUBSET SUBSET A
    OBVIOUS
<1> HIDE DEF C
<1>3. A \in C
    BY <1>1, <1>2, SizeInduction
<1>4. QED
    BY <1>3 DEF C

\* A sum of numbers is no less than that of a part of them.
LEMMA SumGrows ==
    ASSUME NEW S, IsFiniteSet(S), NEW T \in SUBSET S, NEW f, \A x \in S : f[x] \in Nat
    PROVE  /\ SumFunctionOnSet(f, T) \in Nat /\ SumFunctionOnSet(f, S) \in Nat
           /\ SumFunctionOnSet(f, T) <= SumFunctionOnSet(f, S)
<1> DEFINE C == {s \in SUBSET S : SumFunctionOnSet(f, s) \in Nat}
<1>1. ASSUME NEW s \in SUBSET S, IsFiniteSet(s),
             \A t \in SUBSET s : Cardinality(t) < Cardinality(s) => t \in C
      PROVE  s \in C
    <2>1. CASE s = {}
        BY <2>1, SumOfNone
    <2>2. CASE s # {}
        <3>1. PICK x \in s : s \ {x} \in C
            BY <1>1, <2>2, Smaller
        <3>2. SumFunctionOnSet(f, s) = f[x] + SumFunctionOnSet(f, s \ {x})
            BY <1>1, SumOfOthers
        <3>3. f[x] \in Nat /\ SumFunctionOnSet(f, s \ {x}) \in Nat
            BY <3>1
        <3>4. SumFunctionOnSet(f, s) \in Nat
            BY <3>2, <3>3
        <3>5. QED
            BY <3>4
    <2>3. QED
        BY <2>1, <2>2
<1>2. C \in SUBSET SUBSET S
    OBVIOUS
<1>3. \A s \in SUBSET S : IsFiniteSet(s) /\ SumFunctionOnSet(f, s) \in Nat
    <2>1. \A s \in SUBSET S : IsFiniteSet(s)
        BY FS_Subset
    <2>2. \A s \in SUBSET S : IsFiniteSet(s) => s \in C
        <3> HIDE DEF C
        <3>1. QED
            BY <1>1, <1>2, SizeInduction
    <2>3. QED
        BY <2>1, <2>2
<1>4. SumFunctionOnSet(f, T \cup (S \ T)) = SumFunctionOnSet(f, T) + SumFunctionOnSet(f, S \ T)
    <2>1. T \cap (S \ T) = {} /\ \A x \in T \cup (S \ T) : f[x] \in Int
        OBVIOUS
    <2>2. IsFiniteSet(T) /\ IsFiniteSet(S \ T)
        BY <1>3
    <2>3. QED
        BY <2>1, <2>2, SumOfTwo
<1>5. T \cup (S \ T) = S
    OBVIOUS
<1>6. SumFunctionOnSet(f, S) = SumFunctionOnSet(f, T) + SumFunctionOnSet(f, S \ T)
    BY <1>4, <1>5
<1>7. /\ SumFunctionOnSet(f, T) \in Nat /\ SumFunctionOnSet(f, S \ T) \in Nat
      /\ SumFunctionOnSet(f, S) \in Nat
    BY <1>3
<1>8. QED
    BY <1>6, <1>7

\* What is zero may be left out.
LEMMA SumWithoutZeros ==
    ASSUME NEW S, IsFiniteSet(S), NEW T \in SUBSET S, NEW f, \A x \in S : f[x] \in Int,
           \A x \in S \ T : f[x] = 0
    PROVE  SumFunctionOnSet(f, S) = SumFunctionOnSet(f, T)
<1> DEFINE C == {s \in SUBSET (S \ T) : SumFunctionOnSet(f, s) = 0}
<1>1. ASSUME NEW s \in SUBSET (S \ T), IsFiniteSet(s),
             \A t \in SUBSET s : Cardinality(t) < Cardinality(s) => t \in C
      PROVE  s \in C
    <2>1. CASE s = {}
        BY <2>1, SumOfNone
    <2>2. CASE s # {}
        <3>1. OneOf(s) \in s /\ s \ {OneOf(s)} \in C
            BY <1>1, <2>2, OneOfIsIn, Smaller
        <3>2. SumFunctionOnSet(f, s) = f[OneOf(s)] + SumFunctionOnSet(f, s \ {OneOf(s)})
            BY <1>1, <2>2, SumOfSome
        <3>3. f[OneOf(s)] = 0 /\ SumFunctionOnSet(f, s \ {OneOf(s)}) = 0
            BY <3>1
        <3>4. SumFunctionOnSet(f, s) = 0
            BY <3>2, <3>3
        <3>5. QED
            BY <3>4
    <2>3. QED
        BY <2>1, <2>2
<1>2. C \in SUBSET SUBSET (S \ T)
    OBVIOUS
<1>3. IsFiniteSet(S \ T) /\ IsFiniteSet(T)
    BY FS_Subset
<1> HIDE DEF C
<1>4. S \ T \in C
    <2>1. \A s \in SUBSET (S \ T) : IsFiniteSet(s) => s \in C
        BY <1>1, <1>2, SizeInduction
    <2>2. QED
        BY <1>3, <2>1
<1>5. /\ S = T \cup (S \ T) /\ T \cap (S \ T) = {}
      /\ \A x \in T \cup (S \ T) : f[x] \in Int
    OBVIOUS
<1>6. SumFunctionOnSet(f, T \cup (S \ T)) = SumFunctionOnSet(f, T) + SumFunctionOnSet(f, S \ T)
    BY <1>3, <1>5, SumOfTwo
<1>7. SumFunctionOnSet(f, S \ T) = 0 /\ SumFunctionOnSet(f, T) \in Int
    BY <1>3, <1>4, SumIsInt DEF C
<1>8. T \cup (S \ T) = S
    OBVIOUS
<1>9. SumFunctionOnSet(f, S) = SumFunctionOnSet(f, T) + 0
    BY <1>6, <1>7, <1>8
<1>10. \A n \in Int : n + 0 = n
    OBVIOUS
<1>11. QED
    BY <1>7, <1>9, <1>10

\* A sum cut into parts: P gives each element of X its part of the whole.
LEMMA SumOfParts ==
    ASSUME NEW X, IsFiniteSet(X), NEW S, IsFiniteSet(S), NEW P \in [X -> SUBSET S],
           \A x, y \in X : x # y => P[x] \cap P[y] = {},
           NEW f, \A i \in S : f[i] \in Int,
           NEW g, \A x \in X : g[x] = SumFunctionOnSet(f, P[x])
    PROVE  SumFunctionOnSet(g, X) = SumFunctionOnSet(f, UNION {P[x] : x \in X})
<1> DEFINE All(s) == UNION {P[x] : x \in s}
           C == {s \in SUBSET X : SumFunctionOnSet(g, s) = SumFunctionOnSet(f, All(s))}
<1>i. \A x \in X : g[x] \in Int /\ IsFiniteSet(P[x])
    BY FS_Subset, SumIsInt
<1>1. ASSUME NEW s \in SUBSET X, IsFiniteSet(s),
             \A t \in SUBSET s : Cardinality(t) < Cardinality(s) => t \in C
      PROVE  s \in C
    <2>1. CASE s = {}
        <3>1. All(s) = {}
            BY <2>1
        <3>2. QED
            BY <2>1, <3>1, SumOfNone
    <2>2. CASE s # {}
        <3>1. PICK x \in s : s \ {x} \in C
            BY <1>1, <2>2, Smaller
        <3>2. All(s) = P[x] \cup All(s \ {x}) /\ P[x] \cap All(s \ {x}) = {}
              /\ All(s \ {x}) \in SUBSET S /\ P[x] \in SUBSET S
            OBVIOUS
        <3>3. IsFiniteSet(All(s \ {x})) /\ IsFiniteSet(P[x])
            BY <3>2, FS_Subset
        <3>4. \A i \in P[x] \cup All(s \ {x}) : f[i] \in Int
            BY <3>2
        <3>5. SumFunctionOnSet(g, s \ {x}) = SumFunctionOnSet(f, All(s \ {x}))
            BY <3>1
        <3> HIDE DEF All
        <3>6. SumFunctionOnSet(f, All(s)) = SumFunctionOnSet(f, P[x]) + SumFunctionOnSet(f, All(s \ {x}))
            <4>1. SumFunctionOnSet(f, P[x] \cup All(s \ {x})) =
                     SumFunctionOnSet(f, P[x]) + SumFunctionOnSet(f, All(s \ {x}))
                BY <3>2, <3>3, <3>4, SumOfTwo
            <4>2. QED
                BY <3>2, <4>1
        <3>7. SumFunctionOnSet(g, s) = g[x] + SumFunctionOnSet(g, s \ {x})
            BY <1>1, <1>i, SumOfOthers
        <3>8. QED
            BY <3>5, <3>6, <3>7
    <2>3. QED
        BY <2>1, <2>2
<1>2. C \in SUBSET SUBSET X
    OBVIOUS
<1> HIDE DEF C
<1>3. X \in C
    BY <1>1, <1>2, SizeInduction
<1>4. QED
    BY <1>3 DEF C

-----------------------------------------------------------------------------
(***************************************************************************)
(* Filters.  F[k] is what has been picked of the first k elements of q:    *)
(* those in P.                                                             *)
(***************************************************************************)
Picks(F, q, P) ==
    /\ F[0] = <<>>
    /\ \A k \in 1..Len(q) : F[k] = IF q[k] \in P THEN Append(F[k - 1], q[k]) ELSE F[k - 1]

\* What is picked of a sequence: all its elements in P, in their order.
LEMMA PickedInOrder ==
    ASSUME NEW S, NEW q \in Seq(S), NEW P, NEW F, Picks(F, q, P)
    PROVE  /\ F[Len(q)] \in Seq(S)
           /\ Range(F[Len(q)]) = Range(q) \cap P
           /\ \E m \in [1..Len(F[Len(q)]) -> 1..Len(q)] :
                 /\ \A i \in 1..Len(F[Len(q)]) : F[Len(q)][i] = q[m[i]]
                 /\ \A i, j \in 1..Len(F[Len(q)]) : i < j => m[i] < m[j]
<1> DEFINE Sub(k, m) ==
               /\ F[k] \in Seq(S)
               /\ m \in [1..Len(F[k]) -> 1..k]
               /\ \A i \in 1..Len(F[k]) : F[k][i] = q[m[i]]
               /\ \A i, j \in 1..Len(F[k]) : i < j => m[i] < m[j]
               /\ Range(F[k]) = {q[i] : i \in 1..k} \cap P
           T == {k \in Nat : k <= Len(q) => \E m : Sub(k, m)}
<1>n. Len(q) \in Nat /\ DOMAIN q = 1..Len(q)
    OBVIOUS
<1>1. T \in SUBSET Nat
    OBVIOUS
<1>2. 0 \in T
    <2>1. F[0] = <<>> /\ Len(F[0]) = 0 /\ F[0] \in Seq(S) /\ Range(F[0]) = {}
        BY DEF Picks, Range
    <2>2. Sub(0, [i \in 1..0 |-> 1])
        BY <2>1
    <2>3. QED
        BY <2>2
<1>3. ASSUME NEW k \in T PROVE k + 1 \in T
    <2>1. SUFFICES ASSUME k + 1 <= Len(q) PROVE \E m : Sub(k + 1, m)
        OBVIOUS
    <2>2. PICK m : Sub(k, m)
        BY <1>n, <2>1
    <2>3. /\ k + 1 \in 1..Len(q) /\ q[k + 1] \in S /\ k \in Nat /\ (k + 1) - 1 = k
          /\ {q[i] : i \in 1..(k + 1)} = {q[i] : i \in 1..k} \cup {q[k + 1]}
        BY <1>n, <2>1
    <2>4. CASE q[k + 1] \notin P
        <3>1. F[k + 1] = F[k]
            BY <2>3, <2>4 DEF Picks
        <3>2. m \in [1..Len(F[k + 1]) -> 1..(k + 1)]
            BY <2>2, <2>3, <3>1
        <3>3. Sub(k + 1, m)
            BY <2>2, <2>3, <2>4, <3>1, <3>2
        <3>4. QED
            BY <3>3
    <2>5. CASE q[k + 1] \in P
        <3> DEFINE e == q[k + 1]
                   s == F[k]
                   t == Append(s, e)
                   p == [i \in 1..(Len(s) + 1) |-> IF i = Len(s) + 1 THEN k + 1 ELSE m[i]]
        <3>1. F[k + 1] = t
            BY <2>3, <2>5 DEF Picks
        <3>2. /\ s \in Seq(S) /\ Len(s) \in Nat /\ e \in S
              /\ m \in [1..Len(s) -> 1..k]
              /\ \A i \in 1..Len(s) : s[i] = q[m[i]]
              /\ \A i, j \in 1..Len(s) : i < j => m[i] < m[j]
              /\ Range(s) = {q[i] : i \in 1..k} \cap P
            BY <2>2, <2>3
        <3> HIDE DEF s
        <3>3. /\ t \in Seq(S) /\ Len(t) = Len(s) + 1
              /\ \A i \in 1..Len(s) : t[i] = s[i]
              /\ t[Len(s) + 1] = e
            BY <3>2, AppendProperties
        <3> HIDE DEF t, e
        <3>4. Range(t) = Range(s) \cup {e}
            BY <3>2, RangeOfAppend DEF t
        <3>5. p \in [1..Len(t) -> 1..(k + 1)]
            BY <2>3, <3>2, <3>3
        <3>6. \A i \in 1..Len(t) : t[i] = q[p[i]]
            BY <3>2, <3>3 DEF e
        <3>7. \A i, j \in 1..Len(t) : i < j => p[i] < p[j]
            <4>1. SUFFICES ASSUME NEW i \in 1..Len(t), NEW j \in 1..Len(t), i < j
                           PROVE  p[i] < p[j]
                OBVIOUS
            <4>2. i \in 1..Len(s) /\ p[i] = m[i] /\ m[i] \in 1..k
                BY <3>2, <3>3, <4>1
            <4>3. CASE j = Len(s) + 1
                BY <2>3, <3>2, <4>2, <4>3
            <4>4. CASE j # Len(s) + 1
                <5>1. j \in 1..Len(s) /\ p[j] = m[j]
                    BY <3>2, <3>3, <4>4
                <5>2. QED
                    BY <3>2, <4>1, <4>2, <5>1
            <4>5. QED
                BY <4>3, <4>4
        <3> HIDE DEF p
        <3>8. Range(t) = {q[i] : i \in 1..(k + 1)} \cap P
            BY <2>3, <2>5, <3>2, <3>4 DEF e
        <3>9. Sub(k + 1, p)
            BY <3>1, <3>3, <3>5, <3>6, <3>7, <3>8 DEF e
        <3>10. QED
            BY <3>9
    <2>6. QED
        BY <2>4, <2>5
<1>4. Len(q) \in T
    <2> HIDE DEF T
    <2>1. QED
        BY <1>n, <1>1, <1>2, <1>3, Induction
<1>5. PICK m : Sub(Len(q), m)
    BY <1>4, <1>n
<1>6. Range(q) = {q[i] : i \in 1..Len(q)}
    BY RangeEquality
<1>7. QED
    BY <1>5, <1>6

-----------------------------------------------------------------------------
\* A finite set can be put in the order of the numbers its elements have.
Ascends(s, f) == \A k, l \in DOMAIN s : k <= l => f[s[k]] <= f[s[l]]

LEMMA CanBeSorted ==
    ASSUME NEW S, IsFiniteSet(S), NEW f, \A x \in S : f[x] \in Nat
    PROVE  \E s \in [1..Cardinality(S) -> S] : Range(s) = S /\ Ascends(s, f)
<1> DEFINE C == {T \in SUBSET S :
                    \E s \in [1..Cardinality(T) -> T] : Range(s) = T /\ Ascends(s, f)}
<1>1. ASSUME NEW T \in SUBSET S, IsFiniteSet(T),
             \A t \in SUBSET T : Cardinality(t) < Cardinality(T) => t \in C
      PROVE  T \in C
    <2>1. CASE T = {}
        <3>1. Cardinality(T) = 0 /\ 1..0 = {}
            BY <2>1, FS_EmptySet
        <3> DEFINE s == [k \in {} |-> 0]
        <3>2. s \in [1..Cardinality(T) -> T] /\ Range(s) = T /\ Ascends(s, f)
            BY <2>1, <3>1 DEF Range, Ascends
        <3> HIDE DEF s
        <3>3. QED
            BY <3>2
    <2>2. CASE T # {}
        <3>1. PICK m \in T : \A x \in T : f[m] <= f[x]
            <4> DEFINE V == {f[x] : x \in T}
            <4>1. V \in SUBSET Nat /\ V # {}
                BY <2>2
            <4>2. \E v \in V : \A w \in V : v <= w
                <5> HIDE DEF V
                <5>1. QED
                    BY <4>1, LeastNumber
            <4>3. QED
                BY <4>2
        <3> DEFINE n == Cardinality(T \ {m})
        <3>2. /\ Cardinality(T) = n + 1 /\ n \in Nat
              /\ T \ {m} \in C
            <4>1. Cardinality(T) \in Nat /\ n = Cardinality(T) - 1 /\ n < Cardinality(T)
                BY <1>1, Smaller
            <4>2. IsFiniteSet(T \ {m}) /\ n \in Nat
                BY <1>1, Smaller, FS_CardinalityType
            <4>3. T \ {m} \in C
                BY <1>1, <4>1
            <4> HIDE DEF n, C
            <4>4. QED
                BY <4>1, <4>2, <4>3
        <3>3. PICK s \in [1..n -> T \ {m}] : Range(s) = T \ {m} /\ Ascends(s, f)
            BY <3>2
        <3> HIDE DEF n
        <3> DEFINE t == [k \in 1..(n + 1) |-> IF k = 1 THEN m ELSE s[k - 1]]
        <3>4. \A k \in 1..(n + 1) : k # 1 => k - 1 \in 1..n
            BY <3>2
        <3>5. t \in [1..Cardinality(T) -> T]
            <4>1. \A k \in 1..(n + 1) : t[k] \in T
                BY <3>1, <3>3, <3>4
            <4>2. QED
                BY <3>2, <4>1
        <3>6. Range(t) = T
            <4>1. \A x \in T : \E k \in 1..(n + 1) : t[k] = x
                <5>1. SUFFICES ASSUME NEW x \in T PROVE \E k \in 1..(n + 1) : t[k] = x
                    OBVIOUS
                <5>2. CASE x = m
                    BY <3>2, <5>2
                <5>3. CASE x # m
                    <6>1. PICK j \in 1..n : s[j] = x
                        BY <3>3, <5>3 DEF Range
                    <6>2. j + 1 \in 1..(n + 1) /\ j + 1 # 1 /\ (j + 1) - 1 = j
                        BY <3>2
                    <6>3. t[j + 1] = x
                        BY <6>1, <6>2
                    <6>4. QED
                        BY <6>2, <6>3
                <5>4. QED
                    BY <5>2, <5>3
            <4>2. DOMAIN t = 1..(n + 1) /\ \A k \in 1..(n + 1) : t[k] \in T
                BY <3>2, <3>5
            <4> HIDE DEF t
            <4>3. QED
                BY <4>1, <4>2 DEF Range
        <3>7. Ascends(t, f)
            <4>1. SUFFICES ASSUME NEW k \in 1..(n + 1), NEW l \in 1..(n + 1), k <= l
                           PROVE  f[t[k]] <= f[t[l]]
                BY DEF Ascends
            <4>2. CASE k = 1
                <5>1. t[k] = m /\ t[l] \in T
                    BY <3>1, <3>3, <3>4, <4>2
                <5>2. QED
                    BY <3>1, <5>1
            <4>3. CASE k # 1
                <5>1. /\ k - 1 \in 1..n /\ l - 1 \in 1..n /\ k - 1 <= l - 1 /\ l # 1
                    BY <3>2, <3>4, <4>1, <4>3
                <5>2. t[k] = s[k - 1] /\ t[l] = s[l - 1]
                    BY <4>3, <5>1
                <5>3. f[s[k - 1]] <= f[s[l - 1]]
                    BY <3>3, <5>1 DEF Ascends
                <5>4. QED
                    BY <5>2, <5>3
            <4>4. QED
                BY <4>2, <4>3
        <3> HIDE DEF t
        <3>8. QED
            BY <3>5, <3>6, <3>7
    <2>3. QED
        BY <2>1, <2>2
<1>2. C \in SUBSET SUBSET S
    OBVIOUS
<1> HIDE DEF C
<1>3. S \in C
    BY <1>1, <1>2, SizeInduction
<1>4. QED
    BY <1>3 DEF C
=============================================================================
