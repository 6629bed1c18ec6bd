------------------------------ MODULE FoldFacts ------------------------------
(***************************************************************************)
(* What FoldLeft computes, for any operator: it chooses a function on the  *)
(* sets of positions, and this is what it comes to, one element after the  *)
(* other.  A proof about a fold instantiates the module with its operator. *)
(***************************************************************************)
EXTENDS DataFacts

CONSTANTS Op(_, _, _), Base

Folds(p, q, g, S) ==
    g = [s \in SUBSET S |-> IF s = {} THEN Base ELSE Op(p, g[s \ {Max(s)}], q[Max(s)])]

\* The definition has a solution.
LEMMA FoldsExist ==
    ASSUME NEW p, NEW q, NEW n \in Nat
    PROVE  \E g : Folds(p, q, g, 1..n)
<1> DEFINE T == {k \in Nat : \E g : Folds(p, q, g, 1..k)}
<1>1. T \in SUBSET Nat
    OBVIOUS
<1>2. 0 \in T
    <2>1. \A s \in SUBSET (1..0) : s = {}
        OBVIOUS
    <2>2. Folds(p, q, [s \in SUBSET (1..0) |-> Base], 1..0)
        BY <2>1 DEF Folds
    <2>3. QED
        BY <2>2
<1>3. ASSUME NEW k \in T PROVE k + 1 \in T
    <2>1. PICK g : Folds(p, q, g, 1..k)
        OBVIOUS
    <2> DEFINE h == [s \in SUBSET (1..(k + 1)) |->
                        IF s = {} THEN Base ELSE Op(p, g[s \ {Max(s)}], q[Max(s)])]
    <2>2. \A s \in SUBSET (1..(k + 1)) : s # {} => s \ {Max(s)} \in SUBSET (1..k)
        <3>1. SUFFICES ASSUME NEW s \in SUBSET (1..(k + 1)), s # {}
                       PROVE  s \ {Max(s)} \in SUBSET (1..k)
            OBVIOUS
        <3>2. Max(s) \in s /\ \A x \in s : x <= Max(s)
            BY <3>1, k + 1 \in Nat, MaxIsIn
        <3>3. Max(s) \in 1..(k + 1)
            BY <3>2
        <3> DEFINE m == Max(s)
        <3>4. m \in 1..(k + 1) /\ \A x \in s : x \in 1..(k + 1) /\ x <= m
            BY <3>2, <3>3
        <3> HIDE DEF m
        <3>5. \A x \in s \ {m} : x \in 1..k
            BY <3>4
        <3>6. QED
            BY <3>5 DEF m
    <2>3. \A s \in SUBSET (1..k) : s \in SUBSET (1..(k + 1)) /\ h[s] = g[s]
        <3>1. SUFFICES ASSUME NEW s \in SUBSET (1..k)
                       PROVE  s \in SUBSET (1..(k + 1)) /\ h[s] = g[s]
            OBVIOUS
        <3>2. s \in SUBSET (1..(k + 1))
            OBVIOUS
        <3>3. g[s] = IF s = {} THEN Base ELSE Op(p, g[s \ {Max(s)}], q[Max(s)])
            BY <2>1 DEF Folds
        <3>4. QED
            BY <3>2, <3>3
    <2>4. \A s \in SUBSET (1..(k + 1)) :
             h[s] = IF s = {} THEN Base ELSE Op(p, h[s \ {Max(s)}], q[Max(s)])
        BY <2>2, <2>3
    <2>5. h = [s \in SUBSET (1..(k + 1)) |-> h[s]]
        OBVIOUS
    <2> HIDE DEF h
    <2>6. Folds(p, q, h, 1..(k + 1))
        BY <2>4, <2>5 DEF Folds
    <2>7. QED
        BY <2>6
<1> HIDE DEF T
<1>4. T = Nat
    BY <1>1, <1>2, <1>3, Induction
<1>5. QED
    BY <1>4 DEF T

\* The fold of q, as the definition of FoldLeft gives it.
Folded(p, q) == (CHOOSE g : Folds(p, q, g, DOMAIN q))[DOMAIN q]

\* It goes through the elements in order.
THEOREM FoldedInOrder ==
    ASSUME NEW n \in Nat, NEW p, NEW q, DOMAIN q = 1..n
    PROVE  \E F : /\ F[0] = Base
                  /\ \A k \in 1..n : F[k] = Op(p, F[k - 1], q[k])
                  /\ Folded(p, q) = F[n]
<1> DEFINE g == CHOOSE h : Folds(p, q, h, 1..n)
           F == [k \in 0..n |-> g[1..k]]
<1>1. Folds(p, q, g, 1..n)
    BY FoldsExist
<1>2. Folded(p, q) = g[1..n]
    BY DEF Folded
<1> HIDE DEF g
<1>3. F[0] = Base
    <2>1. 1..0 = {} /\ {} \in SUBSET (1..n)
        OBVIOUS
    <2>2. QED
        BY <1>1, <2>1 DEF Folds
<1>4. ASSUME NEW k \in 1..n PROVE F[k] = Op(p, F[k - 1], q[k])
    <2>1. 1..k \in SUBSET (1..n) /\ 1..k # {} /\ 1..k \in SUBSET (1..k) /\ k \in Nat
        OBVIOUS
    <2>2. Max(1..k) \in 1..k /\ \A x \in 1..k : x <= Max(1..k)
        BY <2>1, MaxIsIn
    <2>3. Max(1..k) = k
        BY <2>2
    <2>4. (1..k) \ {k} = 1..(k - 1)
        OBVIOUS
    <2>5. g[1..k] = Op(p, g[1..(k - 1)], q[k])
        BY <1>1, <2>1, <2>3, <2>4 DEF Folds
    <2>6. QED
        BY <2>5
<1>5. F[n] = g[1..n]
    OBVIOUS
<1> HIDE DEF F
<1>6. QED
    BY <1>2, <1>3, <1>4, <1>5
=============================================================================
