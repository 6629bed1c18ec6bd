--------------------------- MODULE DispatchProofs ---------------------------
(***************************************************************************)
(* Proofs about Dispatch, for any list of homes, any requests and images,  *)
(* with or without a threshold, any bound on time and any restarts.        *)
(***************************************************************************)
EXTENDS Dispatch, DataFacts

LEMMA OrderFacts ==
    /\ Order \in Seq(Homes) /\ Len(Order) \in Nat \ {0}
    /\ DOMAIN Order = 1..Len(Order)
    /\ \A i \in 1..Len(Order) : Order[i] \in Homes
    /\ \A i, j \in 1..Len(Order) : Order[i] = Order[j] => i = j
<1>1. Order \in Seq(Homes) /\ Order # <<>> /\ IsInjective(Order)
    BY DispatchAssumption
<1>2. Len(Order) \in Nat /\ Len(Order) # 0 /\ DOMAIN Order = 1..Len(Order)
    BY <1>1
<1>3. \A i \in 1..Len(Order) : Order[i] \in Homes
    BY <1>1, <1>2
<1>4. \A i, j \in 1..Len(Order) : Order[i] = Order[j] => i = j
    BY <1>1, <1>2 DEF IsInjective
<1>5. QED
    BY <1>1, <1>2, <1>3, <1>4

(***************************************************************************)
(* Round-robin.  Since the last restart every home had its turn k times,   *)
(* and those before the cursor once more.                                  *)
(***************************************************************************)
Turn(k) ==
    \A i \in 1..Len(Order) : claims[Order[i]] = IF i <= cursor THEN k + 1 ELSE k

Even ==
    /\ cursor \in 0..Len(Order) - 1
    /\ claims \in [Homes -> Nat]
    /\ \E k \in Nat : Turn(k)

LEMMA InitEven == Init => Even
<1> SUFFICES ASSUME Init PROVE Even
    OBVIOUS
<1>1. Turn(0)
    BY OrderFacts DEF Turn, Init
<1>2. QED
    BY <1>1, OrderFacts DEF Even, Init

\* A claim moves the cursor past the home it counts.
LEMMA ClaimEven ==
    ASSUME Even, cursor' = Advanced,
           claims' = [claims EXCEPT ![Order[cursor + 1]] = @ + 1]
    PROVE  Even'
<1>1. PICK k \in Nat : Turn(k)
    BY DEF Even
<1>2. cursor + 1 \in 1..Len(Order) /\ Order[cursor + 1] \in Homes
    BY OrderFacts DEF Even
<1>3. claims' \in [Homes -> Nat]
    BY <1>2 DEF Even
<1>4. \A i \in 1..Len(Order) :
        claims'[Order[i]] = IF i <= cursor + 1 THEN k + 1 ELSE k
    BY <1>1, <1>2, OrderFacts DEF Even, Turn
<1>5. CASE cursor + 1 = Len(Order)
    <2>1. cursor' = 0
        BY <1>5, OrderFacts DEF Advanced
    <2>2. Turn(k + 1)'
        BY <1>4, <1>5, <2>1, OrderFacts DEF Turn
    <2>3. QED
        BY <1>3, <2>1, <2>2, OrderFacts, k + 1 \in Nat DEF Even
<1>6. CASE cursor + 1 # Len(Order)
    <2>1. cursor' = cursor + 1 /\ cursor' \in 0..Len(Order) - 1
        <3> DEFINE n == Len(Order)
                   c == cursor + 1
        <3>1. n \in Nat \ {0} /\ c \in Nat /\ c < n
            BY <1>2, <1>6, OrderFacts
        <3>2. c % n = c
            <4> HIDE DEF n, c
            <4> QED
                BY <3>1
        <3>3. QED
            BY <3>1, <3>2 DEF Advanced
    <2>2. Turn(k)'
        BY <1>4, <2>1 DEF Turn
    <2>3. QED
        BY <1>3, <2>1, <2>2 DEF Even
<1>7. QED
    BY <1>5, <1>6

LEMMA NextEven == Even /\ [Next]_vars => Even'
<1> SUFFICES ASSUME Even, [Next]_vars PROVE Even'
    OBVIOUS
<1>1. ASSUME UNCHANGED <<cursor, claims>> PROVE Even'
    BY <1>1 DEF Even, Turn
<1>2. ASSUME NEW r \in Reqs, NEW n, Begins(r, n) PROVE Even'
    <2>1. \/ cursor' = Advanced /\ claims' = [claims EXCEPT ![Order[cursor + 1]] = @ + 1]
          \/ UNCHANGED <<cursor, claims>>
        BY <1>2 DEF Begins
    <2>2. QED
        BY <2>1, <1>1, ClaimEven
<1>3. ASSUME NEW r \in Reqs, ReqStep(r) PROVE Even'
    <2>1. CASE Begin(r)
        BY <2>1, <1>2 DEF Begin
    <2>2. CASE Looked(r) \/ Start(r) \/ StartBreaks(r) \/ Hits(r)
        BY <2>2, <1>1 DEF Looked, Start, StartBreaks, Hits
    <2>3. CASE RunFails(r)
        BY <2>3, <1>1 DEF RunFails, Retries
    <2>4. CASE NoImage(r) \/ PeekEnds(r)
        BY <2>4, <1>1 DEF NoImage, PeekEnds
    <2>5. CASE Image(r)
        BY <2>5, <1>1, <1>2 DEF Image
    <2>6. QED
        BY <1>3, <2>1, <2>2, <2>3, <2>4, <2>5 DEF ReqStep
<1>4. ASSUME NEW m, SetMode(m) PROVE Even'
    BY <1>4, <1>1 DEF SetMode
<1>5. CASE Restart
    <2>1. Turn(0)'
        BY <1>5, OrderFacts DEF Restart, Turn
    <2>2. QED
        BY <1>5, <2>1, OrderFacts DEF Restart, Even
<1>6. CASE Tick \/ UNCHANGED vars
    BY <1>6, <1>1 DEF Tick, vars
<1>7. QED
    BY <1>3, <1>4, <1>5, <1>6 DEF Next

\* Since the last restart no home was first in line two times more often than
\* another, whatever failed, was retried, or was switched in between.
THEOREM RoundRobinIsBalanced == Spec => []Balanced
<1>1. Even => Balanced
    <2> SUFFICES ASSUME Even, NEW g \in Homes, NEW h \in Homes
                 PROVE  claims[g] <= claims[h] + 1
        BY DEF Balanced
    <2>1. PICK k \in Nat : Turn(k)
        BY DEF Even
    <2>2. PICK i \in 1..Len(Order), j \in 1..Len(Order) : g = Order[i] /\ h = Order[j]
        BY OrderFacts DEF Homes, Range
    <2>3. QED
        BY <2>1, <2>2, OrderFacts DEF Turn, Even
<1>2. QED
    BY <1>1, InitEven, NextEven, PTL DEF Spec

(***************************************************************************)
(* Cooldowns.  What a run found out, and what is written down, are times.  *)
(***************************************************************************)
Fields == {"rot", "att", "made", "hit", "tried", "avoid", "left"}

CoolType ==
    /\ now \in 0..MaxTime
    /\ cool \in [Homes -> 0..MaxTime + 1]
    /\ DOMAIN req = Reqs
    /\ \A r \in Reqs : DOMAIN req[r] = Fields /\ req[r].hit \in 0..MaxTime + 1

LEMMA BlankType == DOMAIN Blank = Fields /\ Blank.hit = 0
    BY DEF Blank, Fields

LEMMA InitCool == Init => CoolType
    BY DispatchAssumption, BlankType DEF Init, CoolType

\* Changing a request to one of the right shape keeps the type.
LEMMA ReqCool ==
    ASSUME CoolType, NEW r \in Reqs, NEW q,
           req' = [req EXCEPT ![r] = q],
           DOMAIN q = Fields, q.hit \in 0..MaxTime + 1,
           cool' \in [Homes -> 0..MaxTime + 1], now' \in 0..MaxTime
    PROVE  CoolType'
    BY DEF CoolType

LEMMA EndsCool ==
    ASSUME CoolType, NEW r \in Reqs, NEW place, Ends(r, place),
           cool' \in [Homes -> 0..MaxTime + 1], UNCHANGED now
    PROVE  CoolType'
<1> DEFINE q == [Blank EXCEPT !.left =
                    IF place = "failed" \/ (place = "dropped" /\ req[r].hit > 0)
                      THEN Tries(req[r].rot) - Len(req[r].tried) ELSE 0]
<1>1. req' = [req EXCEPT ![r] = q]
    BY DEF Ends
<1>2. DOMAIN q = Fields /\ q.hit = 0
    BY DEF Blank, Fields
<1>3. 0 \in 0..MaxTime + 1 /\ now' \in 0..MaxTime
    BY DispatchAssumption DEF CoolType
<1> HIDE DEF q
<1>4. QED
    BY <1>1, <1>2, <1>3, ReqCool

LEMMA BeginsCool ==
    ASSUME CoolType, NEW r \in Reqs, NEW n, Begins(r, n), UNCHANGED <<now, cool>>
    PROVE  CoolType'
<1>1. PICK homes, seen :
        req' = [req EXCEPT ![r] = [Blank EXCEPT
                    !.rot = IF Threshold THEN homes ELSE Kept(r, homes),
                    !.made = n, !.avoid = seen]]
    BY DEF Begins
<1> DEFINE q == [Blank EXCEPT !.rot = IF Threshold THEN homes ELSE Kept(r, homes),
                              !.made = n, !.avoid = seen]
<1>2. DOMAIN q = Fields /\ q.hit = 0
    BY DEF Blank, Fields
<1>3. req' = [req EXCEPT ![r] = q]
    BY <1>1
<1>4. 0 \in 0..MaxTime + 1 /\ now' \in 0..MaxTime /\ cool' \in [Homes -> 0..MaxTime + 1]
    BY DispatchAssumption DEF CoolType
<1> HIDE DEF q
<1>5. QED
    BY <1>2, <1>3, <1>4, ReqCool

\* A note writes times, and as long as the map can be read it keeps those of the
\* homes that are cooling.
LEMMA NotedCool ==
    ASSUME CoolType, NEW r \in Reqs, Noted(r)
    PROVE  /\ cool' \in [Homes -> 0..MaxTime + 1]
           /\ ~ReadsFail => \A h \in Homes : cool[h] > now => cool'[h] >= cool[h]
<1>1. CASE UNCHANGED cool
    BY <1>1 DEF CoolType
<1>2. ASSUME NEW seen \in Readings,
             cool' = [[h \in Homes |-> IF h \in seen THEN cool[h] ELSE 0]
                        EXCEPT ![Home(r)] = Max({@, req[r].hit})]
      PROVE  /\ cool' \in [Homes -> 0..MaxTime + 1]
             /\ ~ReadsFail => \A h \in Homes : cool[h] > now => cool'[h] >= cool[h]
    <2> DEFINE old == [h \in Homes |-> IF h \in seen THEN cool[h] ELSE 0]
    <2>1. old \in [Homes -> 0..MaxTime + 1] /\ req[r].hit \in 0..MaxTime + 1
        BY DispatchAssumption DEF CoolType
    <2>2. \A h \in Homes : ~ReadsFail /\ cool[h] > now => old[h] = cool[h]
        BY <1>2 DEF Readings, Cooling
    <2>3. \A h \in Homes : /\ Max({old[h], req[r].hit}) \in 0..MaxTime + 1
                           /\ Max({old[h], req[r].hit}) >= old[h]
        <3> SUFFICES ASSUME NEW h \in Homes
                     PROVE  /\ Max({old[h], req[r].hit}) \in 0..MaxTime + 1
                            /\ Max({old[h], req[r].hit}) >= old[h]
            OBVIOUS
        <3>1. old[h] \in 0..MaxTime + 1 /\ old[h] \in Int /\ req[r].hit \in Int
            BY <2>1
        <3> HIDE DEF old
        <3>2. QED
            BY <3>1, <2>1, Larger
    <2>4. cool' = [old EXCEPT ![Home(r)] = Max({@, req[r].hit})]
        BY <1>2
    <2> HIDE DEF old
    <2>5. \A h \in Homes :
            cool'[h] = IF h = Home(r) THEN Max({old[h], req[r].hit}) ELSE old[h]
        BY <2>1, <2>4
    <2>6. DOMAIN cool' = Homes /\ cool' = [h \in Homes |-> cool'[h]]
        BY <2>1, <2>4
    <2>7. \A h \in Homes : cool'[h] \in 0..MaxTime + 1
        BY <2>1, <2>3, <2>5
    <2>8. cool' \in [Homes -> 0..MaxTime + 1]
        BY <2>6, <2>7
    <2>9. \A h \in Homes : old[h] \in Int
        BY <2>1
    <2>10. \A h \in Homes : ~ReadsFail /\ cool[h] > now => cool'[h] >= cool[h]
        <3> SUFFICES ASSUME NEW h \in Homes, ~ReadsFail, cool[h] > now
                     PROVE  cool'[h] >= cool[h]
            OBVIOUS
        <3>1. old[h] = cool[h] /\ old[h] \in Int
            BY <2>2, <2>9
        <3>2. cool'[h] >= old[h]
            <4>1. CASE h = Home(r)
                <5>1. cool'[h] = Max({old[h], req[r].hit})
                    BY <4>1, <2>5
                <5>2. Max({old[h], req[r].hit}) >= old[h]
                    BY <2>3
                <5>3. QED
                    BY <5>1, <5>2
            <4>2. CASE h # Home(r)
                <5>1. cool'[h] = old[h]
                    BY <4>2, <2>5
                <5>2. QED
                    BY <5>1, <3>1
            <4>3. QED
                BY <4>1, <4>2
        <3>3. QED
            BY <3>1, <3>2
    <2>11. QED
        BY <2>8, <2>10
<1>3. QED
    BY <1>1, <1>2 DEF Noted

\* A step keeps the types; and what is cooling, while the map can be read.
LEMMA NextCool ==
    ASSUME CoolType, [Next]_vars
    PROVE  /\ CoolType'
           /\ ~ReadsFail => \A h \in Homes : cool[h] > now' => cool'[h] >= cool[h]
<1> DEFINE Keeps == ~ReadsFail => \A h \in Homes : cool[h] > now' => cool'[h] >= cool[h]
<1>0. ASSUME UNCHANGED cool PROVE Keeps
    <2>1. \A h \in Homes : cool[h] \in Int
        BY DispatchAssumption DEF CoolType
    <2>2. QED
        BY <1>0, <2>1
<1>c. /\ now \in 0..MaxTime /\ cool \in [Homes -> 0..MaxTime + 1]
      /\ DOMAIN req = Reqs /\ 0 \in 0..MaxTime + 1
      /\ \A r \in Reqs : DOMAIN req[r] = Fields /\ req[r].hit \in 0..MaxTime + 1
    BY DispatchAssumption DEF CoolType
<1>1. ASSUME NEW r \in Reqs, ReqStep(r) PROVE CoolType' /\ Keeps
    <2>1. CASE Begin(r)
        BY <2>1, <1>0, BeginsCool DEF Begin
    <2>2. CASE Looked(r)
        <3>1. PICK homes : req' = [req EXCEPT ![r].rot = homes]
            BY <2>2 DEF Looked
        <3>2. CoolType'
            BY <2>2, <3>1, <1>c DEF Looked, CoolType, Fields
        <3>3. QED
            BY <2>2, <3>2, <1>0 DEF Looked
    <2>3. CASE Start(r)
        <3>1. CoolType'
            BY <2>3, <1>c DEF Start, CoolType, Fields
        <3>2. QED
            BY <2>3, <3>1, <1>0 DEF Start
    <2>4. CASE StartBreaks(r) \/ PeekEnds(r)
        BY <2>4, <1>0, <1>c, EndsCool DEF StartBreaks, PeekEnds
    <2>5. CASE Hits(r)
        <3>1. PICK t \in now + 1 .. MaxTime + 1 : req' = [req EXCEPT ![r].hit = t]
            BY <2>5 DEF Hits
        <3>2. t \in 0..MaxTime + 1
            BY <1>c, DispatchAssumption
        <3>3. CoolType'
            BY <2>5, <3>1, <3>2, <1>c DEF Hits, CoolType, Fields
        <3>4. QED
            BY <2>5, <3>3, <1>0 DEF Hits
    <2>6. CASE RunFails(r)
        <3>1. cool' \in [Homes -> 0..MaxTime + 1] /\ Keeps /\ UNCHANGED now
            BY <2>6, NotedCool DEF RunFails
        <3>2. CASE Retries(r)
            <4>1. CoolType'
                BY <3>1, <3>2, <1>c DEF Retries, CoolType, Fields
            <4>2. QED
                BY <3>1, <4>1
        <3>3. CASE Ends(r, "failed")
            BY <3>1, <3>3, EndsCool
        <3>4. QED
            BY <2>6, <3>2, <3>3 DEF RunFails
    <2>7. CASE NoImage(r)
        BY <2>7, NotedCool, EndsCool DEF NoImage
    <2>8. CASE Image(r)
        <3>1. UNCHANGED <<now, cool>>
            BY <2>8 DEF Image
        <3>2. Ends(r, "done") \/ Begins(r, req[r].made + 1)
            BY <2>8 DEF Image
        <3>3. QED
            BY <3>1, <3>2, <1>0, <1>c, EndsCool, BeginsCool
    <2>9. QED
        BY <1>1, <2>1, <2>2, <2>3, <2>4, <2>5, <2>6, <2>7, <2>8 DEF ReqStep
<1>2. ASSUME NEW m, SetMode(m) PROVE CoolType' /\ Keeps
    BY <1>2, <1>0 DEF SetMode, CoolType
<1>3. CASE Restart
    <2>1. CoolType'
        BY <1>3, <1>c, BlankType DEF Restart, CoolType
    <2>2. QED
        BY <1>3, <2>1, <1>0 DEF Restart
<1>4. CASE Tick
    <2>1. now' \in 0..MaxTime
        BY <1>4, <1>c, DispatchAssumption DEF Tick
    <2>2. CoolType'
        BY <1>4, <2>1 DEF Tick, CoolType
    <2>3. QED
        BY <1>4, <2>2, <1>0 DEF Tick
<1>5. CASE UNCHANGED vars
    BY <1>5, <1>0 DEF vars, CoolType
<1>6. QED
    BY <1>1, <1>2, <1>3, <1>4, <1>5 DEF Next

\* As long as app_settings can be read, no step drops or shortens a cooldown that
\* has not passed: neither another worker's note on another home, nor an earlier
\* reset time met on the same one, nor a restart.
THEOREM CooldownsLast == ~ReadsFail /\ Spec => WallsRemembered
<1> SUFFICES ASSUME ~ReadsFail PROVE Spec => WallsRemembered
    OBVIOUS
<1>1. CoolType /\ [Next]_vars => CoolType'
    BY NextCool
<1>2. CoolType /\ [Next]_vars => [\A h \in Homes : cool[h] > now' => cool'[h] >= cool[h]]_vars
    BY NextCool
<1>3. QED
    BY <1>1, <1>2, InitCool, PTL DEF Spec, WallsRemembered

(***************************************************************************)
(* Rotations.  What Without, Ordered, Leave and Kept do to a list of homes *)
(* without repetition.                                                     *)
(***************************************************************************)
Pass(out, kept, h) == IF h \in out THEN kept ELSE Append(kept, h)

Passing == INSTANCE FoldFacts WITH Op <- Pass, Base <- <<>>

LEMMA WithoutOut ==
    ASSUME NEW q \in Seq(Homes), IsInjective(q), NEW out
    PROVE  /\ Without(q, out) \in Seq(Homes)
           /\ IsInjective(Without(q, out))
           /\ Range(Without(q, out)) = Range(q) \ out
<1> DEFINE n == Len(q)
           P == Range(q) \ out
<1>1. n \in Nat /\ DOMAIN q = 1..n
    OBVIOUS
<1>2. Range(q) = {q[i] : i \in 1..n}
    BY RangeEquality
<1>3. Without(q, out) = Passing!Folded(out, q)
    BY DEF Without, FoldLeft, MapThenFoldSet, Passing!Folded, Passing!Folds, Passing!Max, Max, Pass
<1>4. PICK F : /\ F[0] = <<>>
               /\ \A k \in 1..n : F[k] = Pass(out, F[k - 1], q[k])
               /\ Without(q, out) = F[n]
    <2> HIDE DEF n
    <2>1. \E F : /\ F[0] = <<>>
                 /\ \A k \in 1..n : F[k] = Pass(out, F[k - 1], q[k])
                 /\ Passing!Folded(out, q) = F[n]
        BY <1>1, Passing!FoldedInOrder
    <2>2. QED
        BY <1>3, <2>1
<1>5. Picks(F, q, P)
    BY <1>2, <1>4 DEF Picks, Pass
<1>6. /\ F[n] \in Seq(Homes)
      /\ Range(F[n]) = Range(q) \cap P
      /\ \E m \in [1..Len(F[n]) -> 1..n] :
            /\ \A i \in 1..Len(F[n]) : F[n][i] = q[m[i]]
            /\ \A i, j \in 1..Len(F[n]) : i < j => m[i] < m[j]
    <2> HIDE DEF P
    <2>1. QED
        BY <1>5, PickedInOrder
<1>7. IsInjective(F[n])
    <2>1. PICK m \in [1..Len(F[n]) -> 1..n] :
            /\ \A i \in 1..Len(F[n]) : F[n][i] = q[m[i]]
            /\ \A i, j \in 1..Len(F[n]) : i < j => m[i] < m[j]
        BY <1>6
    <2>2. DOMAIN F[n] = 1..Len(F[n]) /\ Len(F[n]) \in Nat
        BY <1>6
    <2>3. SUFFICES ASSUME NEW i \in 1..Len(F[n]), NEW j \in 1..Len(F[n]), F[n][i] = F[n][j]
                   PROVE  i = j
        BY <2>2 DEF IsInjective
    <2>4. m[i] \in DOMAIN q /\ m[j] \in DOMAIN q /\ q[m[i]] = q[m[j]]
        BY <1>1, <2>1, <2>3
    <2>5. m[i] = m[j]
        BY <2>4 DEF IsInjective
    <2>6. ~(i < j) /\ ~(j < i) /\ i \in Int /\ j \in Int /\ m[i] \in Int
        BY <1>1, <2>1, <2>2, <2>5
    <2>7. QED
        BY <2>6
<1>8. QED
    BY <1>4, <1>6, <1>7

\* Leaving out never leaves nothing; what is left out stays out if it can.
LEMMA LeaveOut ==
    ASSUME NEW q \in Seq(Homes), IsInjective(q), q # <<>>, NEW out
    PROVE  /\ Leave(q, out) \in Seq(Homes) /\ Leave(q, out) # <<>>
           /\ IsInjective(Leave(q, out))
           /\ Range(Leave(q, out)) \subseteq Range(q)
           /\ ~(Range(q) \subseteq out) => Range(Leave(q, out)) \cap out = {}
<1> DEFINE rest == Without(q, out)
<1>1. /\ rest \in Seq(Homes) /\ IsInjective(rest)
      /\ Range(rest) = Range(q) \ out
    BY WithoutOut
<1>2. Range(rest) = {rest[i] : i \in 1..Len(rest)}
    BY <1>1, RangeEquality
<1>3. Leave(q, out) = IF rest = <<>> THEN q ELSE rest
    BY DEF Leave
<1> HIDE DEF rest
<1>4. rest = <<>> => Range(q) \subseteq out
    <2>1. SUFFICES ASSUME rest = <<>> PROVE Range(q) \subseteq out
        OBVIOUS
    <2>2. Range(rest) = {}
        BY <1>2, <2>1
    <2>3. QED
        BY <1>1, <2>2
<1>5. QED
    BY <1>1, <1>3, <1>4

\* From wherever it starts, the rotation goes through every home once.
LEMMA OrderedIsAll ==
    ASSUME NEW base \in 0..Len(Order) - 1
    PROVE  /\ Ordered(base) \in Seq(Homes) /\ Ordered(base) # <<>>
           /\ IsInjective(Ordered(base))
           /\ Range(Ordered(base)) = Homes
<1> DEFINE n == Len(Order)
           q == Ordered(base)
           At(i) == IF base + i <= n THEN base + i ELSE base + i - n
<1>1. /\ n \in Nat \ {0} /\ DOMAIN Order = 1..n /\ base \in 0..n - 1
      /\ \A i \in 1..n : Order[i] \in Homes
      /\ \A i, j \in 1..n : Order[i] = Order[j] => i = j
    BY OrderFacts
<1>2. q = [i \in 1..n |-> Order[((base + i - 1) % n) + 1]]
    BY <1>1 DEF Ordered
<1> HIDE DEF n, q
<1>3. ASSUME NEW i \in 1..n PROVE ((base + i - 1) % n) + 1 = At(i) /\ At(i) \in 1..n
    <2>1. base \in Int /\ n \in Int /\ i \in Int
        BY <1>1
    <2>2. CASE base + i <= n
        <3> DEFINE a == base + i - 1
        <3>1. a \in Nat /\ a < n
            BY <1>1, <2>1, <2>2
        <3> HIDE DEF a
        <3>2. a % n = a
            BY <1>1, <3>1
        <3>3. a + 1 = base + i
            BY <2>1 DEF a
        <3>4. QED
            BY <1>1, <2>2, <3>2, <3>3 DEF a
    <2>3. CASE base + i > n
        <3> DEFINE b == base + i - 1 - n
        <3>1. b \in Nat /\ b < n /\ b + n = base + i - 1 /\ ~(base + i <= n)
            BY <1>1, <2>1, <2>3
        <3>2. b + 1 = base + i - n
            BY <2>1
        <3> HIDE DEF b
        <3>3. (b + n) % n = b
            BY <1>1, <3>1, SMTT(20)
        <3>4. ((base + i - 1) % n) + 1 = b + 1
            BY <3>1, <3>3
        <3>5. b + 1 \in 1..n
            BY <1>1, <3>1
        <3>6. QED
            BY <3>1, <3>2, <3>4, <3>5
    <2>4. QED
        BY <2>1, <2>2, <2>3
<1>4. \A i \in 1..n : q[i] = Order[At(i)] /\ At(i) \in 1..n
    BY <1>2, <1>3
<1>5. DOMAIN q = 1..n /\ q \in Seq(Homes) /\ Len(q) = n
    <2>1. \A i \in 1..n : q[i] \in Homes
        BY <1>1, <1>4
    <2>2. q \in [1..n -> Homes] /\ n \in Nat
        BY <1>1, <1>2, <2>1
    <2>3. QED
        BY <2>2
<1>6. IsInjective(q)
    <2>1. SUFFICES ASSUME NEW i \in 1..n, NEW j \in 1..n, q[i] = q[j] PROVE i = j
        BY <1>5 DEF IsInjective
    <2>2. At(i) = At(j)
        BY <1>1, <1>4, <2>1
    <2>3. QED
        BY <1>1, <2>2
<1>7. Homes \subseteq Range(q)
    <2>1. SUFFICES ASSUME NEW h \in Homes PROVE h \in Range(q)
        OBVIOUS
    <2>2. PICK k \in 1..n : h = Order[k]
        BY <1>1, <2>1 DEF Homes, Range
    <2> DEFINE i == IF k > base THEN k - base ELSE k - base + n
    <2>3. i \in 1..n /\ At(i) = k
        BY <1>1
    <2> HIDE DEF i, At
    <2>4. q[i] = h
        BY <1>4, <2>2, <2>3
    <2>5. QED
        BY <1>5, <2>3, <2>4 DEF Range
<1>8. Range(q) = {q[i] : i \in 1..n}
    BY <1>5, RangeEquality
<1>9. Range(q) \subseteq Homes
    BY <1>1, <1>4, <1>8
<1>10. q # <<>>
    BY <1>1, <1>5
<1>11. QED
    BY <1>5, <1>6, <1>7, <1>9, <1>10 DEF q

LEMMA Less ==
    ASSUME NEW a \in Int, NEW b \in Int
    PROVE  Min({a, b}) \in {a, b} /\ Min({a, b}) <= a /\ Min({a, b}) <= b
<1>1. \E x \in {a, b} : \A y \in {a, b} : x <= y
    OBVIOUS
<1>2. QED
    BY <1>1 DEF Min

LEMMA KeptOf ==
    ASSUME NEW r, NEW q \in Seq(Homes), IsInjective(q), q # <<>>
    PROVE  /\ Kept(r, q) \in Seq(Homes) /\ Kept(r, q) # <<>>
           /\ IsInjective(Kept(r, q))
           /\ Range(Kept(r, q)) \subseteq Range(q)
<1>1. CASE r \notin Peeks
    BY <1>1 DEF Kept
<1>2. CASE r \in Peeks
    <2>1. Len(q) \in Nat /\ 1 <= Len(q)
        BY EmptySeq, LenProperties
    <2>2. Min({1, Len(q)}) = 1
        <3> DEFINE n == Len(q)
        <3> HIDE DEF n
        <3>1. n \in Int /\ 1 \in Int /\ 1 <= n
            BY <2>1 DEF n
        <3>2. Min({1, n}) \in {1, n} /\ Min({1, n}) <= 1
            BY <3>1, Less
        <3>3. QED
            BY <3>1, <3>2 DEF n
    <2> DEFINE s == SubSeq(q, 1, 1)
    <2>3. s \in Seq(Homes) /\ Len(s) = 1 /\ s[1] = q[1]
        BY <2>1, Segment
    <2>4. Kept(r, q) = s
        BY <1>2, <2>2 DEF Kept
    <2> HIDE DEF s
    <2>5. DOMAIN s = 1..1 /\ s # <<>>
        <3>1. DOMAIN s = 1..Len(s)
            BY <2>3, LenProperties
        <3>2. DOMAIN s = 1..1
            BY <2>3, <3>1
        <3>3. s # <<>>
            <4>1. SUFFICES ASSUME s = <<>> PROVE FALSE
                OBVIOUS
            <4>2. Len(s) = 0
                BY <4>1
            <4>3. QED
                BY <2>3, <4>2
        <3>4. QED
            BY <3>2, <3>3
    <2>6. IsInjective(s)
        BY <2>5 DEF IsInjective
    <2>7. Range(s) \subseteq Range(q)
        BY <2>1, <2>3, RangeEquality
    <2>8. QED
        BY <2>3, <2>4, <2>5, <2>6, <2>7
<1>3. QED
    BY <1>1, <1>2

(***************************************************************************)
(* Requests.  What holds of a request's locals q where it is at place: the *)
(* homes tried for an image are the first of its rotation, one less than   *)
(* its attempts while it waits and as many while codex runs, and none of   *)
(* them is one it knew to be cooling.                                      *)
(***************************************************************************)
Places == {"idle", "fetch", "turn", "run"} \cup Ended

Shaped(q, place) ==
    /\ DOMAIN q = Fields
    /\ q.rot \in Seq(Homes) /\ IsInjective(q.rot)
    /\ q.tried \in Seq(Homes) /\ Len(q.tried) <= Len(q.rot)
    /\ \A i \in 1..Len(q.tried) : q.tried[i] = q.rot[i]
    /\ q.att \in 1..2 /\ q.made \in 0..Images - 1
    /\ q.avoid \subseteq Homes /\ q.left \in 0..1
    /\ q.avoid # Homes => Range(q.rot) \cap q.avoid = {}
    /\ place = "fetch" => q.rot # <<>> /\ q.att = 1 /\ Len(q.tried) = 0
    /\ place = "turn" => q.att <= Len(q.rot) /\ Len(q.tried) = q.att - 1
    /\ place = "run" => q.att <= Len(q.rot) /\ Len(q.tried) = q.att
    /\ place = "failed" => q.left = 0

Lined ==
    /\ mode \in {"round-robin", "primary-first"} /\ restarts \in 0..MaxRestarts
    /\ DOMAIN req = Reqs /\ pc \in [Reqs -> Places]
    /\ \A r \in Reqs : Shaped(req[r], pc[r])

\* A request that has nothing to try yet, or no longer.
LEMMA ShapedBlank ==
    ASSUME NEW place, place \notin {"fetch", "turn", "run"}, NEW n \in 0..1,
           place = "failed" => n = 0
    PROVE  Shaped([Blank EXCEPT !.left = n], place)
<1> DEFINE q == [Blank EXCEPT !.left = n]
<1>1. /\ DOMAIN q = Fields /\ q.rot = <<>> /\ q.tried = <<>> /\ q.att = 1 /\ q.made = 0
      /\ q.avoid = {} /\ q.left = n
    BY DEF Blank, Fields
<1> HIDE DEF q
<1>2. /\ <<>> \in Seq(Homes) /\ Len(<<>>) = 0 /\ IsInjective(<<>>) /\ Range(<<>>) = {}
    BY DEF IsInjective, Range
<1>3. 0 \in 0..Images - 1
    BY DispatchAssumption
<1>4. Shaped(q, place)
    BY <1>1, <1>2, <1>3 DEF Shaped
<1>5. QED
    BY <1>4 DEF q

LEMMA ShapedAtRest ==
    ASSUME NEW place, place \notin {"fetch", "turn", "run"}
    PROVE  Shaped(Blank, place)
<1>1. [Blank EXCEPT !.left = 0] = Blank
    BY DEF Blank
<1>2. Shaped([Blank EXCEPT !.left = 0], place)
    BY ShapedBlank
<1>3. QED
    BY <1>1, <1>2

LEMMA InitLined == Init => Lined
<1> SUFFICES ASSUME Init PROVE Lined
    OBVIOUS
<1>1. Shaped(Blank, "idle")
    BY ShapedAtRest
<1>2. QED
    BY <1>1, DispatchAssumption DEF Init, Lined, Places

\* A request moves to a place that its locals fit.
LEMMA MoveLined ==
    ASSUME Lined, NEW r \in Reqs, NEW q, NEW place \in Places,
           req' = [req EXCEPT ![r] = q], pc' = [pc EXCEPT ![r] = place],
           Shaped(q, place), UNCHANGED <<mode, restarts>>
    PROVE  Lined'
<1>1. \A x \in Reqs : /\ req'[x] = (IF x = r THEN q ELSE req[x])
                       /\ pc'[x] = (IF x = r THEN place ELSE pc[x])
    BY DEF Lined
<1>2. \A x \in Reqs : Shaped(req'[x], pc'[x])
    BY <1>1 DEF Lined
<1>3. DOMAIN req' = Reqs /\ pc' \in [Reqs -> Places]
    BY DEF Lined
<1>4. \A x \in Reqs : Shaped(req[x], pc[x])'
    BY <1>2 DEF Shaped
<1>5. QED
    BY <1>3, <1>4 DEF Lined

LEMMA TriesOf ==
    ASSUME NEW q \in Seq(Homes)
    PROVE  Tries(q) = IF Len(q) < 2 THEN Len(q) ELSE 2
<1> DEFINE n == Len(q)
<1>1. n \in Nat
    OBVIOUS
<1> HIDE DEF n
<1>2. Min({2, n}) \in {2, n} /\ Min({2, n}) <= 2 /\ Min({2, n}) <= n
    BY <1>1, 2 \in Int, n \in Int, Less
<1>3. QED
    BY <1>1, <1>2 DEF n, Tries

\* A request ends; on an error only when it has tried all it may.
LEMMA EndsLined ==
    ASSUME Lined, NEW r \in Reqs, NEW place \in Ended, Ends(r, place),
           place = "failed" \/ place = "dropped" => pc[r] = "run",
           place = "failed" => req[r].att = 2 \/ Len(req[r].rot) = 1,
           UNCHANGED <<mode, restarts>>
    PROVE  Lined'
<1> DEFINE rot == req[r].rot
           tried == req[r].tried
           n == IF place = "failed" \/ (place = "dropped" /\ req[r].hit > 0)
                  THEN Tries(rot) - Len(tried) ELSE 0
<1>1. /\ rot \in Seq(Homes) /\ Len(rot) \in Nat /\ tried \in Seq(Homes) /\ Len(tried) \in Nat
      /\ req[r].att \in 1..2
      /\ pc[r] = "run" => req[r].att <= Len(rot) /\ Len(tried) = req[r].att
    BY DEF Lined, Shaped
<1>2. Tries(rot) = IF Len(rot) < 2 THEN Len(rot) ELSE 2
    BY <1>1, TriesOf
<1>3. n \in 0..1 /\ (place = "failed" => n = 0)
    <2> DEFINE l == Len(rot)
               t == Len(tried)
               a == req[r].att
    <2>1. CASE place = "failed" \/ place = "dropped"
        <3>1. l \in Nat /\ t = a /\ a \in 1..2 /\ a <= l /\ Tries(rot) = (IF l < 2 THEN l ELSE 2)
            BY <1>1, <1>2, <2>1
        <3>2. place = "failed" => a = 2 \/ l = 1
            OBVIOUS
        <3> HIDE DEF l, t, a
        <3>3. Tries(rot) - t \in 0..1 /\ (place = "failed" => Tries(rot) - t = 0)
            BY <3>1, <3>2
        <3>4. QED
            BY <2>1, <3>3 DEF t
    <2>2. CASE place # "failed" /\ place # "dropped"
        BY <2>2
    <2>3. QED
        BY <2>1, <2>2
<1>4. req' = [req EXCEPT ![r] = [Blank EXCEPT !.left = n]] /\ pc' = [pc EXCEPT ![r] = place]
    BY DEF Ends
<1>5. place \notin {"fetch", "turn", "run"} /\ place \in Places
    BY DEF Ended, Places
<1> HIDE DEF n
<1>6. Shaped([Blank EXCEPT !.left = n], place)
    BY <1>3, <1>5, ShapedBlank
<1>7. QED
    BY <1>4, <1>5, <1>6, MoveLined

\* A request takes its rotation: without the homes it reads as cooling, unless
\* all are.
LEMMA BeginsLined ==
    ASSUME Lined, cursor \in 0..Len(Order) - 1,
           NEW r \in Reqs, NEW n \in 0..Images - 1, Begins(r, n), UNCHANGED <<mode, restarts>>
    PROVE  Lined'
<1>1. PICK round \in ModeReadings, seen \in Readings :
        LET homes == Leave(Ordered(IF round THEN cursor ELSE 0), seen)
        IN  /\ pc' = [pc EXCEPT ![r] = IF Threshold THEN "fetch" ELSE "turn"]
            /\ req' = [req EXCEPT ![r] = [Blank EXCEPT
                            !.rot = IF Threshold THEN homes ELSE Kept(r, homes),
                            !.made = n, !.avoid = seen]]
    BY DEF Begins
<1> DEFINE base == IF round THEN cursor ELSE 0
           homes == Leave(Ordered(base), seen)
           rot == IF Threshold THEN homes ELSE Kept(r, homes)
           place == IF Threshold THEN "fetch" ELSE "turn"
           q == [Blank EXCEPT !.rot = rot, !.made = n, !.avoid = seen]
<1>2. base \in 0..Len(Order) - 1
    BY OrderFacts
<1>3. seen \subseteq Homes
    BY DEF Readings, Cooling
<1> HIDE DEF base
<1>4. /\ Ordered(base) \in Seq(Homes) /\ Ordered(base) # <<>> /\ IsInjective(Ordered(base))
      /\ Range(Ordered(base)) = Homes
    BY <1>2, OrderedIsAll
<1>5. /\ homes \in Seq(Homes) /\ homes # <<>> /\ IsInjective(homes)
      /\ seen # Homes => Range(homes) \cap seen = {}
    BY <1>3, <1>4, LeaveOut
<1> HIDE DEF homes
<1>6. /\ rot \in Seq(Homes) /\ rot # <<>> /\ IsInjective(rot)
      /\ seen # Homes => Range(rot) \cap seen = {}
    <2>1. /\ Kept(r, homes) \in Seq(Homes) /\ Kept(r, homes) # <<>>
          /\ IsInjective(Kept(r, homes)) /\ Range(Kept(r, homes)) \subseteq Range(homes)
        BY <1>5, KeptOf
    <2>2. QED
        BY <1>5, <2>1
<1>7. req' = [req EXCEPT ![r] = q] /\ pc' = [pc EXCEPT ![r] = place]
    BY <1>1 DEF homes, base
<1>8. place \in Places /\ place \in {"fetch", "turn"}
    BY DEF Places
<1> HIDE DEF rot, place
<1>9. /\ DOMAIN q = Fields /\ q.rot = rot /\ q.tried = <<>> /\ q.att = 1 /\ q.made = n
      /\ q.avoid = seen /\ q.left = 0
    BY DEF Blank, Fields
<1> HIDE DEF q
<1>10. Len(rot) \in Nat /\ 1 <= Len(rot)
    BY <1>6, EmptySeq, LenProperties
<1>11. <<>> \in Seq(Homes) /\ Len(<<>>) = 0
    OBVIOUS
<1>12. Shaped(q, place)
    BY <1>3, <1>6, <1>8, <1>9, <1>10, <1>11 DEF Shaped
<1>13. QED
    BY <1>7, <1>8, <1>12, MoveLined

\* Usage is known: what is left out now was in the rotation before.
LEMMA LookedLined == ASSUME Lined, NEW r \in Reqs, Looked(r) PROVE Lined'
<1> DEFINE old == req[r].rot
<1>1. PICK drained \in SUBSET Range(old) : req' = [req EXCEPT ![r].rot = Kept(r, Settled(@, drained))]
    BY DEF Looked
<1> DEFINE homes == Settled(old, drained)
           rot == Kept(r, homes)
           q == [req[r] EXCEPT !.rot = rot]
<1>2. Shaped(req[r], "fetch")
    BY DEF Lined, Looked
<1>3. old \in Seq(Homes) /\ IsInjective(old) /\ old # <<>>
    BY <1>2 DEF Shaped
<1>4. homes \in Seq(Homes) /\ homes # <<>> /\ IsInjective(homes) /\ Range(homes) \subseteq Range(old)
    BY <1>3, LeaveOut DEF Settled
<1>5. req' = [req EXCEPT ![r] = q] /\ pc' = [pc EXCEPT ![r] = "turn"]
    BY <1>1 DEF Looked, Lined
<1> HIDE DEF homes
<1>6. /\ rot \in Seq(Homes) /\ rot # <<>> /\ IsInjective(rot)
      /\ Range(rot) \subseteq Range(old)
    BY <1>4, KeptOf
<1> HIDE DEF rot
<1>7. Len(rot) \in Nat /\ 1 <= Len(rot)
    BY <1>6, EmptySeq, LenProperties
<1>8. /\ DOMAIN q = Fields /\ q.rot = rot /\ q.tried = req[r].tried /\ q.att = req[r].att
      /\ q.made = req[r].made /\ q.avoid = req[r].avoid /\ q.left = req[r].left
    BY <1>2 DEF Shaped, Fields
<1> HIDE DEF q
<1>9. Shaped(q, "turn")
    BY <1>2, <1>6, <1>7, <1>8 DEF Shaped
<1>10. UNCHANGED <<mode, restarts>> /\ "turn" \in Places
    BY DEF Looked, Places
<1>11. QED
    BY <1>5, <1>9, <1>10, MoveLined

\* codex starts: the home is the next of the rotation.
LEMMA StartLined == ASSUME Lined, NEW r \in Reqs, Start(r) PROVE Lined'
<1> DEFINE h == Home(r)
           old == req[r].tried
           tried == Append(old, h)
           q == [req[r] EXCEPT !.tried = tried, !.hit = 0]
<1>1. Shaped(req[r], "turn")
    BY DEF Lined, Start
<1>2. /\ old \in Seq(Homes) /\ Len(old) \in Nat /\ req[r].att \in 1..Len(req[r].rot)
      /\ Len(old) = req[r].att - 1 /\ req[r].rot \in Seq(Homes)
    BY <1>1 DEF Shaped
<1>3. h = req[r].rot[Len(old) + 1] /\ h \in Homes
    BY <1>2 DEF Home
<1>4. req' = [req EXCEPT ![r] = q] /\ pc' = [pc EXCEPT ![r] = "run"]
    BY DEF Start, Lined
<1> HIDE DEF h, old
<1>5. /\ tried \in Seq(Homes) /\ Len(tried) = Len(old) + 1
      /\ \A i \in 1..Len(old) : tried[i] = old[i]
      /\ tried[Len(old) + 1] = h
    BY <1>2, <1>3, AppendProperties
<1> HIDE DEF tried
<1>6. /\ DOMAIN q = Fields /\ q.rot = req[r].rot /\ q.tried = tried /\ q.att = req[r].att
      /\ q.made = req[r].made /\ q.avoid = req[r].avoid /\ q.left = req[r].left
    BY <1>1 DEF Shaped, Fields
<1> HIDE DEF q
<1>7. \A i \in 1..Len(tried) : tried[i] = req[r].rot[i]
    <2>1. \A i \in 1..Len(old) : old[i] = req[r].rot[i]
        BY <1>1 DEF Shaped, old
    <2>2. SUFFICES ASSUME NEW i \in 1..Len(tried) PROVE tried[i] = req[r].rot[i]
        OBVIOUS
    <2>3. i \in 1..Len(old) \/ i = Len(old) + 1
        BY <1>2, <1>5
    <2>4. QED
        BY <1>3, <1>5, <2>1, <2>3
<1>8. Len(tried) = req[r].att /\ Len(tried) <= Len(req[r].rot)
    BY <1>2, <1>5
<1>9. Shaped(q, "run")
    BY <1>1, <1>2, <1>5, <1>6, <1>7, <1>8 DEF Shaped
<1>10. UNCHANGED <<mode, restarts>> /\ "run" \in Places
    BY DEF Start, Places
<1>11. QED
    BY <1>4, <1>9, <1>10, MoveLined

\* The try after an error is the second of at least two.
LEMMA RetriesLined ==
    ASSUME Lined, NEW r \in Reqs, pc[r] = "run", req[r].att = 1, Len(req[r].rot) > 1,
           Retries(r), UNCHANGED <<mode, restarts>>
    PROVE  Lined'
<1> DEFINE q == [req[r] EXCEPT !.att = 2]
<1>1. Shaped(req[r], "run")
    BY DEF Lined
<1>2. req' = [req EXCEPT ![r] = q] /\ pc' = [pc EXCEPT ![r] = "turn"]
    BY DEF Retries, Lined
<1>3. /\ DOMAIN q = Fields /\ q.rot = req[r].rot /\ q.tried = req[r].tried /\ q.att = 2
      /\ q.made = req[r].made /\ q.avoid = req[r].avoid /\ q.left = req[r].left
    BY <1>1 DEF Shaped, Fields
<1> HIDE DEF q
<1>4. 2 <= Len(req[r].rot) /\ Len(req[r].tried) = 2 - 1
    BY <1>1 DEF Shaped
<1>5. Shaped(q, "turn")
    BY <1>1, <1>3, <1>4 DEF Shaped
<1>6. QED
    BY <1>2, <1>5, MoveLined DEF Places

\* A 429 in stderr changes nothing of this.
LEMMA HitsLined == ASSUME Lined, NEW r \in Reqs, Hits(r) PROVE Lined'
<1>1. PICK t : req' = [req EXCEPT ![r].hit = t]
    BY DEF Hits
<1> DEFINE q == [req[r] EXCEPT !.hit = t]
<1>2. Shaped(req[r], "run")
    BY DEF Lined, Hits
<1>3. req' = [req EXCEPT ![r] = q]
    BY <1>1 DEF Lined
<1>4. /\ DOMAIN q = Fields /\ q.rot = req[r].rot /\ q.tried = req[r].tried /\ q.att = req[r].att
      /\ q.made = req[r].made /\ q.avoid = req[r].avoid /\ q.left = req[r].left
    BY <1>2 DEF Shaped, Fields
<1> HIDE DEF q
<1>5. Shaped(q, "run")
    BY <1>2, <1>4 DEF Shaped
<1>6. pc' = [pc EXCEPT ![r] = "run"] /\ UNCHANGED <<mode, restarts>>
    BY DEF Hits, Lined
<1>7. QED
    BY <1>3, <1>5, <1>6, MoveLined DEF Places

LEMMA NextLined == Lined /\ cursor \in 0..Len(Order) - 1 /\ [Next]_vars => Lined'
<1> SUFFICES ASSUME Lined, cursor \in 0..Len(Order) - 1, [Next]_vars PROVE Lined'
    OBVIOUS
<1>e. "done" \in Ended /\ "failed" \in Ended /\ "dropped" \in Ended /\ "broken" \in Ended
    BY DEF Ended
<1>1. ASSUME NEW r \in Reqs, ReqStep(r) PROVE Lined'
    <2>1. CASE Begin(r)
        <3>1. 0 \in 0..Images - 1 /\ Begins(r, 0) /\ UNCHANGED <<mode, restarts>>
            BY <2>1, DispatchAssumption DEF Begin
        <3>2. QED
            BY <3>1, BeginsLined
    <2>2. CASE Looked(r)
        BY <2>2, LookedLined
    <2>3. CASE Start(r)
        BY <2>3, StartLined
    <2>4. CASE StartBreaks(r)
        BY <2>4, <1>e, EndsLined DEF StartBreaks
    <2>5. CASE Hits(r)
        BY <2>5, HitsLined
    <2>6. CASE RunFails(r)
        <3>1. pc[r] = "run" /\ UNCHANGED <<mode, restarts>>
            BY <2>6 DEF RunFails
        <3>2. CASE req[r].att = 1 /\ Len(req[r].rot) > 1
            BY <2>6, <3>1, <3>2, RetriesLined DEF RunFails
        <3>3. CASE ~(req[r].att = 1 /\ Len(req[r].rot) > 1)
            <4>1. Ends(r, "failed")
                BY <2>6, <3>3 DEF RunFails
            <4>2. req[r].att = 2 \/ Len(req[r].rot) = 1
                <5> DEFINE l == Len(req[r].rot)
                           a == req[r].att
                <5>1. a \in 1..2 /\ a <= l /\ l \in Nat
                    BY <3>1 DEF Lined, Shaped
                <5>2. ~(a = 1 /\ l > 1)
                    BY <3>3
                <5> HIDE DEF l, a
                <5>3. a = 2 \/ l = 1
                    BY <5>1, <5>2
                <5>4. QED
                    BY <5>3 DEF l, a
            <4>3. QED
                BY <3>1, <4>1, <4>2, <1>e, EndsLined
        <3>4. QED
            BY <3>2, <3>3
    <2>7. CASE NoImage(r)
        BY <2>7, <1>e, EndsLined DEF NoImage
    <2>8. CASE Image(r)
        <3>1. UNCHANGED <<mode, restarts>>
            BY <2>8 DEF Image
        <3>2. CASE req[r].made + 1 = Images
            BY <2>8, <3>1, <3>2, <1>e, EndsLined DEF Image
        <3>3. CASE req[r].made + 1 # Images
            <4> DEFINE n == req[r].made
            <4>m. n \in 0..Images - 1 /\ n + 1 # Images
                BY <3>3 DEF Lined, Shaped
            <4> HIDE DEF n
            <4>n. n + 1 \in 0..Images - 1
                BY <4>m, DispatchAssumption
            <4>1. req[r].made + 1 \in 0..Images - 1
                BY <4>n DEF n
            <4>2. Begins(r, req[r].made + 1)
                BY <2>8, <3>3 DEF Image
            <4>3. QED
                BY <3>1, <4>1, <4>2, BeginsLined
        <3>4. QED
            BY <3>2, <3>3
    <2>9. CASE PeekEnds(r)
        BY <2>9, <1>e, EndsLined DEF PeekEnds
    <2>10. QED
        BY <1>1, <2>1, <2>2, <2>3, <2>4, <2>5, <2>6, <2>7, <2>8, <2>9 DEF ReqStep
<1>2. ASSUME NEW m \in {"round-robin", "primary-first"}, SetMode(m) PROVE Lined'
    BY <1>2 DEF SetMode, Lined
<1>3. CASE Restart
    <2>1. /\ DOMAIN req' = Reqs /\ pc' \in [Reqs -> Places]
          /\ mode' \in {"round-robin", "primary-first"} /\ restarts' \in 0..MaxRestarts
        BY <1>3, DispatchAssumption DEF Restart, Lined, Places, Ended
    <2>2. ASSUME NEW r \in Reqs PROVE Shaped(req'[r], pc'[r])
        <3>1. CASE pc'[r] = "gone"
            BY <1>3, <3>1, ShapedAtRest DEF Restart
        <3>2. CASE pc'[r] # "gone"
            BY <1>3, <3>2 DEF Restart, Lined
        <3>3. QED
            BY <3>1, <3>2
    <2>3. QED
        BY <2>1, <2>2 DEF Lined, Shaped
<1>4. CASE Tick \/ UNCHANGED vars
    BY <1>4 DEF Tick, vars, Lined
<1>5. QED
    BY <1>1, <1>2, <1>3, <1>4 DEF Next

\* The three parts together.
Sound == Even /\ CoolType /\ Lined

LEMMA AlwaysSound == Spec => []Sound
<1>1. Init => Sound
    BY InitEven, InitCool, InitLined DEF Sound
<1>2. Sound /\ [Next]_vars => Sound'
    BY NextEven, NextCool, NextLined DEF Sound, Even
<1>3. QED
    BY <1>1, <1>2, PTL DEF Spec

\* Every variable keeps its type, for any homes and any number of requests.
THEOREM DispatchTypes == Spec => []TypeOK
<1>1. Sound => TypeOK
    <2>1. DOMAIN Blank = Fields
        BY BlankType
    <2>2. QED
        BY <2>1 DEF Sound, Even, CoolType, Lined, Shaped, TypeOK, Places, Time
<1>2. QED
    BY <1>1, AlwaysSound, PTL

\* However many homes are cooling, drained, or unknown, a request in line for a
\* home has one, on its first try and on its second.
THEOREM NeverWithoutAHome == Spec => []SomewhereToRun
<1>1. Sound => SomewhereToRun
    <2> SUFFICES ASSUME Sound, NEW r \in Reqs, pc[r] \in {"turn", "run"}
                 PROVE  req[r].att \in DOMAIN req[r].rot
        BY DEF SomewhereToRun
    <2>1. /\ req[r].rot \in Seq(Homes) /\ req[r].att \in 1..2
          /\ req[r].att <= Len(req[r].rot)
        BY DEF Sound, Lined, Shaped
    <2>2. QED
        BY <2>1
<1>2. QED
    BY <1>1, AlwaysSound, PTL

\* A home known to be cooling when a rotation began is not in it, whatever usage
\* says of the others, unless all homes are cooling.
THEOREM CoolingHomesSkipped == Spec => []KnownWallsAvoided
<1>1. Sound => KnownWallsAvoided
    BY DEF Sound, Lined, Shaped, KnownWallsAvoided
<1>2. QED
    BY <1>1, AlwaysSound, PTL

\* The tries of an image are on different homes, and a request fails on an error
\* only when it has made all the tries it has.
THEOREM SecondTryElsewhere == Spec => []TriesAnother
<1>1. Sound => TriesAnother
    <2> SUFFICES ASSUME Sound, NEW r \in Reqs
                 PROVE  IsInjective(req[r].tried) /\ (pc[r] = "failed" => req[r].left = 0)
        BY DEF TriesAnother
    <2> DEFINE rot == req[r].rot
               tried == req[r].tried
    <2>1. /\ rot \in Seq(Homes) /\ IsInjective(rot)
          /\ tried \in Seq(Homes) /\ Len(tried) <= Len(rot)
          /\ \A i \in 1..Len(tried) : tried[i] = rot[i]
          /\ pc[r] = "failed" => req[r].left = 0
        BY DEF Sound, Lined, Shaped
    <2> HIDE DEF rot, tried
    <2>2. Len(tried) \in Nat /\ Len(rot) \in Nat /\ DOMAIN tried = 1..Len(tried) /\ DOMAIN rot = 1..Len(rot)
        BY <2>1
    <2>3. IsInjective(tried)
        BY <2>1, <2>2 DEF IsInjective
    <2>4. QED
        BY <2>1, <2>3 DEF tried
<1>2. QED
    BY <1>1, AlwaysSound, PTL
=============================================================================
