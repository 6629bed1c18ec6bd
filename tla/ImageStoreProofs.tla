-------------------------- MODULE ImageStoreProofs --------------------------
(***************************************************************************)
(* For any requests, numbers of images, pictures, overlapping sweeps and   *)
(* undeletable files: what a row promises is there, what failed is gone,   *)
(* what a sweep leaves is accounted for, and no old picture passes as new. *)
(***************************************************************************)
EXTENDS ImageStore, FiniteSetTheorems, TLAPS

\* How far a request's row, its generate and its images are along.
Course(r) ==
    /\ pc[r] = "idle" => row[r] = "none" /\ images[r] = <<>>
    /\ pc[r] = "codex" => row[r] \in {"running", "deleted"} /\ Len(images[r]) < Count[r]
    /\ pc[r] # "over" => known[r] = {} /\ r \notin due
    /\ Delivered(r) => Passed(r) /\ InTable(r)

\* The three invariants about files, of one request.
Promised(r) ==
    r \notin due =>
        /\ row[r] = "succeeded" => \A i \in 0..Count[r] : <<r, i>> \in disk
        /\ row[r] = "running" /\ pc[r] = "codex" =>
               \A i \in 0..Len(images[r]) : <<r, i>> \in disk

Clean(r) ==
    row[r] = "failed" /\ pc[r] = "over" /\ ~Passed(r) =>
        \A i \in 1..Count[r] : <<r, i>> \in disk => i > Len(images[r])

Stuck(r) ==
    row[r] = "expired" => \A i \in known[r] : <<r, i>> \in disk => <<r, i>> \in errors

Own(r) == Course(r) /\ Promised(r) /\ Clean(r) /\ Stuck(r)

\* A sweep holds nothing against a row that is not due, and has all that the
\* rows it is about to expire name.
Sweeping ==
    /\ DOMAIN todo = Sweeps
    /\ \A s \in Sweeps :
          /\ at[s] = "rows" => \A e \in todo[s] : e.row \in due /\ known[e.row] \subseteq e.names
          /\ at[s] \in {"files", "dirs"} => todo[s] \subseteq Items
    /\ \A x \in old : x[1] \in due

SInv == StoreTypeOK /\ Sweeping /\ \A r \in Requests : Own(r)

-----------------------------------------------------------------------------
LEMMA CountType == \A r \in Requests : Count[r] \in Nat \ {0}
BY DeliveryAssumption

LEMMA ItemFacts ==
    /\ \A r \in Requests : \A i : <<r, i>> \in Items <=> i \in 0..Count[r]
    /\ \A x \in Items : x = <<x[1], x[2]>> /\ x[1] \in Requests /\ x[2] \in 0..Count[x[1]]
BY DEF Items

\* What q's own step leaves alone.
Touches(q) ==
    \A r \in Requests \ {q} :
        /\ row'[r] = row[r] /\ pc'[r] = pc[r] /\ images'[r] = images[r]
        /\ sha'[r] = sha[r] /\ known'[r] = known[r]
        /\ r \in due' <=> r \in due
        /\ \A i : <<r, i>> \in disk' <=> <<r, i>> \in disk

LEMMA OthersKeep ==
    ASSUME SInv, NEW q, Touches(q), errors \subseteq errors'
    PROVE  \A r \in Requests \ {q} : Own(r)'
<1> SUFFICES ASSUME NEW r \in Requests \ {q} PROVE Own(r)'
    OBVIOUS
<1>1. Own(r)
    BY DEF SInv
<1>2. /\ row'[r] = row[r] /\ pc'[r] = pc[r] /\ images'[r] = images[r]
      /\ sha'[r] = sha[r] /\ known'[r] = known[r]
      /\ r \in due' <=> r \in due
      /\ \A i : <<r, i>> \in disk' <=> <<r, i>> \in disk
    BY DEF Touches
<1>3. Course(r)'
    <2>1. Course(r)
        BY <1>1 DEF Own
    <2>2. /\ Delivered(r)' <=> Delivered(r)
          /\ Passed(r)' <=> Passed(r)
          /\ InTable(r)' <=> InTable(r)
        BY <1>2 DEF Delivered, Passed, InTable, Last
    <2> QED
        BY <1>2, <2>1, <2>2 DEF Course
<1>4. Promised(r)'
    BY <1>1, <1>2 DEF Own, Promised
<1>5. Clean(r)'
    BY <1>1, <1>2 DEF Own, Clean, Passed
<1>6. Stuck(r)'
    BY <1>1, <1>2 DEF Own, Stuck
<1> QED
    BY <1>3, <1>4, <1>5, <1>6 DEF Own

LEMMA StoreInitInv == SInit => SInv
<1> SUFFICES ASSUME SInit PROVE SInv
    OBVIOUS
<1> USE SweepAssumption, CountType DEF SInit, Init
<1>1. TypeOK
    BY DEF TypeOK
<1>2. StoreTypeOK
    <2>1. Cardinality(errors) <= MaxErrors
        BY FS_EmptySet
    <2> QED
        BY <1>1, <2>1 DEF StoreTypeOK
<1>3. Sweeping
    BY DEF Sweeping
<1>4. ASSUME NEW r \in Requests PROVE Own(r)
    BY DEF Own, Course, Promised, Clean, Stuck, Delivered, InTable
<1> QED
    BY <1>2, <1>3, <1>4 DEF SInv

-----------------------------------------------------------------------------
(***************************************************************************)
(* A job's step.                                                           *)
(***************************************************************************)

\* What a step of q has to show: the frame, its types and its own part.
JobSound(q) == TypeOK' /\ Touches(q) /\ Own(q)'

\* A step gives q's fields these values, and every other request keeps its own.
Sets(q, a, b, c, d, e) ==
    /\ a \in {"none", "running", "succeeded", "failed", "expired", "deleted"}
    /\ b \in {"idle", "codex", "over"}
    /\ c \in Seq(Pictures) /\ Len(c) <= Count[q]
    /\ d \in Pictures \cup {NoPicture} /\ e \subseteq 0..Count[q]
    /\ row' = [row EXCEPT ![q] = a] /\ pc' = [pc EXCEPT ![q] = b]
    /\ images' = [images EXCEPT ![q] = c] /\ sha' = [sha EXCEPT ![q] = d]
    /\ known' = [known EXCEPT ![q] = e]
    /\ disk' \subseteq Items /\ UNCHANGED due
    /\ \A r \in Requests \ {q} : \A i : <<r, i>> \in disk' <=> <<r, i>> \in disk

LEMMA TypeOfStep ==
    ASSUME TypeOK, NEW q \in Requests, NEW a, NEW b, NEW c, NEW d, NEW e, Sets(q, a, b, c, d, e)
    PROVE  /\ TypeOK' /\ Touches(q)
           /\ row'[q] = a /\ pc'[q] = b /\ images'[q] = c /\ sha'[q] = d /\ known'[q] = e
<1> USE DEF Sets
<1>1. /\ row'[q] = a /\ pc'[q] = b /\ images'[q] = c /\ sha'[q] = d /\ known'[q] = e
    BY DEF TypeOK
<1>2. Touches(q)
    BY DEF TypeOK, Touches
<1>3. TypeOK'
    <2>1. e \in SUBSET Nat
        BY CountType
    <2>2. known' \in [Requests -> SUBSET Nat]
        BY <2>1 DEF TypeOK
    <2>3. \A r \in Requests : Len(images'[r]) <= Count[r] /\ known'[r] \subseteq 0..Count[r]
        BY DEF TypeOK
    <2>4. images' \in [Requests -> Seq(Pictures)]
        BY DEF TypeOK
    <2> QED
        BY <2>2, <2>3, <2>4 DEF TypeOK
<1> QED
    BY <1>1, <1>2, <1>3

\* What q may add to the disk or take from it.
LEMMA OwnItems ==
    ASSUME NEW q \in Requests, disk \subseteq Items, NEW D, NEW S,
           D \subseteq disk \cup S, S \subseteq {<<q, i>> : i \in 0..Count[q]}
    PROVE  D \subseteq Items
BY ItemFacts

LEMMA BeginSound ==
    ASSUME SInv, NEW q \in Requests, Begin(q), UNCHANGED <<due, errors>>
    PROVE  JobSound(q)
<1> USE CountType
<1>1. TypeOK /\ disk \subseteq Items
    BY DEF SInv, StoreTypeOK, TypeOK
<1>2. images[q] = <<>> /\ known[q] = {} /\ q \notin due
    BY DEF Begin, SInv, Own, Course
<1>3. disk' = disk \cup {<<q, 0>>} /\ disk' \subseteq Items
    BY ItemFacts, <1>1 DEF Begin, Workdir
<1> DEFINE c == images[q]
           d == sha[q]
           e == known[q]
<1>4. /\ TypeOK' /\ Touches(q)
      /\ row'[q] = "running" /\ pc'[q] = "codex" /\ images'[q] = c
      /\ sha'[q] = d /\ known'[q] = e
    <2>1. /\ row' = [row EXCEPT ![q] = "running"] /\ pc' = [pc EXCEPT ![q] = "codex"]
          /\ images' = [images EXCEPT ![q] = c] /\ sha' = [sha EXCEPT ![q] = d]
          /\ known' = [known EXCEPT ![q] = e]
          /\ c \in Seq(Pictures) /\ Len(c) <= Count[q]
          /\ d \in Pictures \cup {NoPicture} /\ e \in SUBSET (0..Count[q])
          /\ UNCHANGED due
        BY <1>1 DEF Begin, TypeOK
    <2>2. \A r \in Requests \ {q} : \A i : <<r, i>> \in disk' <=> <<r, i>> \in disk
        BY <1>3
    <2> HIDE DEF c, d, e
    <2>3. Sets(q, "running", "codex", c, d, e)
        BY <1>3, <2>1, <2>2 DEF Sets
    <2> QED
        BY <1>1, <2>3, TypeOfStep
<1>5. Own(q)'
    <2>1. Course(q)'
        BY <1>2, <1>4 DEF Course, Delivered
    <2>2. Promised(q)'
        BY <1>2, <1>3, <1>4 DEF Promised
    <2>3. Clean(q)' /\ Stuck(q)'
        BY <1>4 DEF Clean, Stuck
    <2> QED
        BY <2>1, <2>2, <2>3 DEF Own
<1> QED
    BY <1>4, <1>5 DEF JobSound

LEMMA NextImageSound ==
    ASSUME SInv, NEW q \in Requests, NEW p \in Pictures, NextImage(q, p), UNCHANGED <<due, errors>>
    PROVE  JobSound(q)
<1> USE CountType
<1>1. TypeOK /\ disk \subseteq Items
    BY DEF SInv, StoreTypeOK, TypeOK
<1>2. /\ pc[q] = "codex" /\ row[q] \in {"running", "deleted"} /\ known[q] = {} /\ q \notin due
      /\ row[q] = "running" => \A i \in 0..Len(images[q]) : <<q, i>> \in disk
    BY DEF NextImage, SInv, Own, Course, Promised
<1>3. /\ images[q] \in Seq(Pictures) /\ Len(images[q]) \in Nat /\ Len(images[q]) + 1 < Count[q]
      /\ Append(images[q], p) \in Seq(Pictures)
      /\ Len(Append(images[q], p)) = Len(images[q]) + 1
    BY <1>1 DEF NextImage, TypeOK
<1>4. disk' = disk \cup {<<q, Len(images[q]) + 1>>} /\ disk' \subseteq Items
    BY ItemFacts, <1>1, <1>3 DEF NextImage, Current
<1> DEFINE a == row[q]
           c == Append(images[q], p)
           d == sha[q]
           e == known[q]
<1>5. /\ TypeOK' /\ Touches(q)
      /\ row'[q] = a /\ pc'[q] = "codex" /\ images'[q] = c
      /\ sha'[q] = d /\ known'[q] = e
    <2>1. /\ row' = [row EXCEPT ![q] = a] /\ pc' = [pc EXCEPT ![q] = "codex"]
          /\ sha' = [sha EXCEPT ![q] = d] /\ known' = [known EXCEPT ![q] = e]
          /\ images' = [images EXCEPT ![q] = c] /\ c \in Seq(Pictures)
          /\ a \in {"none", "running", "succeeded", "failed", "expired", "deleted"}
          /\ d \in Pictures \cup {NoPicture} /\ e \in SUBSET (0..Count[q])
          /\ Len(c) <= Count[q] /\ UNCHANGED due
        BY <1>1, <1>2, <1>3 DEF NextImage, TypeOK
    <2>2. \A r \in Requests \ {q} : \A i : <<r, i>> \in disk' <=> <<r, i>> \in disk
        BY <1>4
    <2> HIDE DEF a, c, d, e
    <2>3. Sets(q, a, "codex", c, d, e)
        BY <1>4, <2>1, <2>2 DEF Sets
    <2> QED
        BY <1>1, <2>3, TypeOfStep
<1>6. Own(q)'
    <2>1. Course(q)'
        BY <1>2, <1>3, <1>5 DEF Course, Delivered
    <2>2. Promised(q)'
        BY <1>2, <1>3, <1>4, <1>5 DEF Promised
    <2>3. Clean(q)' /\ Stuck(q)'
        BY <1>2, <1>5 DEF Clean, Stuck
    <2> QED
        BY <2>1, <2>2, <2>3 DEF Own
<1> QED
    BY <1>5, <1>6 DEF JobSound

\* A request that ends as failed, with the images c and the hash d.
LEMMA FailedSound ==
    ASSUME SInv, NEW q \in Requests, pc[q] = "codex", NEW named \in BOOLEAN, MarkFailed(q, named),
           UNCHANGED <<due, errors>>,
           NEW c \in Seq(Pictures), Len(c) <= Count[q], NEW d \in Pictures \cup {NoPicture},
           images' = [images EXCEPT ![q] = c], sha' = [sha EXCEPT ![q] = d], disk' \subseteq Items,
           \A r \in Requests \ {q} : \A i : <<r, i>> \in disk' <=> <<r, i>> \in disk,
           InTable(q) => \/ Len(c) = Count[q] /\ d = Last(c)
                         \/ \A i \in 1..Len(c) : <<q, i>> \notin disk'
    PROVE  JobSound(q)
<1> USE CountType
<1>1. TypeOK
    BY DEF SInv, StoreTypeOK
<1>2. row[q] \in {"running", "deleted"} /\ known[q] = {} /\ q \notin due
    BY DEF SInv, Own, Course
<1> DEFINE a == IF InTable(q) THEN "failed" ELSE row[q]
           e == IF InTable(q) /\ named THEN {0} ELSE {}
<1>3. /\ TypeOK' /\ Touches(q)
      /\ row'[q] = a /\ pc'[q] = "over" /\ images'[q] = c /\ sha'[q] = d /\ known'[q] = e
    <2>1. /\ row' = [row EXCEPT ![q] = a] /\ pc' = [pc EXCEPT ![q] = "over"]
          /\ known' = [known EXCEPT ![q] = e]
        BY <1>1, <1>2 DEF MarkFailed, TypeOK
    <2>2. a \in {"none", "running", "succeeded", "failed", "expired", "deleted"}
        BY <1>2
    <2>3. e \in SUBSET (0..Count[q])
        OBVIOUS
    <2> HIDE DEF a, e
    <2>4. Sets(q, a, "over", c, d, e)
        BY <2>1, <2>2, <2>3 DEF Sets
    <2> QED
        BY <1>1, <2>4, TypeOfStep
<1>4. Own(q)'
    <2>1. Course(q)'
        BY <1>3 DEF Course, Delivered
    <2>2. Promised(q)' /\ Stuck(q)'
        BY <1>2, <1>3 DEF Promised, Stuck
    <2>3. Clean(q)'
        <3> SUFFICES ASSUME row'[q] = "failed", ~Passed(q)', NEW i \in 1..Count[q], <<q, i>> \in disk'
                     PROVE  i > Len(images'[q])
            BY DEF Clean
        <3>1. InTable(q)
            BY <1>2, <1>3
        <3>2. ~(Len(c) = Count[q] /\ d = Last(c))
            BY <1>3 DEF Passed, Last
        <3>3. i \notin 1..Len(c) /\ Len(c) \in Nat
            BY <3>1, <3>2
        <3> QED
            BY <1>3, <3>3
    <2> QED
        BY <2>1, <2>2, <2>3 DEF Own
<1> QED
    BY <1>3, <1>4 DEF JobSound

LEMMA RunFailsSound ==
    ASSUME SInv, NEW q \in Requests, Raises(q) \/ NoImage(q), UNCHANGED <<due, errors>>
    PROVE  JobSound(q)
<1> USE CountType
<1>1. TypeOK /\ disk \subseteq Items /\ pc[q] = "codex" /\ Len(images[q]) < Count[q]
    <2>1. TypeOK /\ disk \subseteq Items /\ pc[q] = "codex"
        BY DEF SInv, StoreTypeOK, TypeOK, Raises, NoImage
    <2> QED
        BY <2>1 DEF SInv, Own, Course
<1>2. /\ images[q] \in Seq(Pictures) /\ Len(images[q]) \in Nat /\ Len(images[q]) <= Count[q]
      /\ sha[q] \in Pictures \cup {NoPicture}
      /\ images' = [images EXCEPT ![q] = images[q]] /\ sha' = [sha EXCEPT ![q] = sha[q]]
    <2>1. images' = images /\ sha' = sha
        BY DEF Raises, NoImage
    <2> QED
        BY <1>1, <2>1 DEF TypeOK
<1>3. Made(q) = {<<q, i>> : i \in 1..Len(images[q])} /\ Current(q) = <<q, Len(images[q]) + 1>>
    BY DEF Made, Current
<1>4. PICK S \in {{}, {Current(q)}}, T \in {{}, {Current(q)}} :
          disk' = (disk \ (Made(q) \cup T)) \cup S /\ (S # {} => T = {})
    <2>1. CASE Raises(q)
        <3>1. PICK S \in {{}, {Current(q)}} : disk' = (disk \ Made(q)) \cup S
            BY <2>1 DEF Raises, Copy
        <3> QED
            BY <3>1
    <2>2. CASE NoImage(q)
        BY <2>2 DEF NoImage
    <2> QED
        BY <2>1, <2>2
<1>5. PICK named \in BOOLEAN : MarkFailed(q, named)
    BY DEF Raises, NoImage
<1>6. disk' \subseteq Items
    BY ItemFacts, <1>1, <1>2, <1>3, <1>4
<1>7. \A r \in Requests \ {q} : \A i : <<r, i>> \in disk' <=> <<r, i>> \in disk
    <2> SUFFICES ASSUME NEW r \in Requests \ {q}, NEW i PROVE <<r, i>> \in disk' <=> <<r, i>> \in disk
        OBVIOUS
    <2>1. <<r, i>> \notin Made(q) /\ <<r, i>> \notin S /\ <<r, i>> \notin T
        BY <1>3
    <2> QED
        BY <1>4, <2>1
<1>8. \A i \in 1..Len(images[q]) : <<q, i>> \notin disk'
    BY <1>2, <1>3, <1>4
<1> QED
    BY <1>1, <1>2, <1>5, <1>6, <1>7, <1>8, FailedSound

LEMMA CancelledSound ==
    ASSUME SInv, NEW q \in Requests, Cancelled(q), UNCHANGED <<due, errors>>
    PROVE  JobSound(q)
<1> USE CountType
<1>1. TypeOK /\ disk \subseteq Items /\ pc[q] = "codex"
    BY DEF Cancelled, SInv, StoreTypeOK, TypeOK
<1>2. row[q] \in {"running", "deleted"} /\ known[q] = {} /\ Len(images[q]) < Count[q]
    BY <1>1 DEF SInv, Own, Course
<1> DEFINE a == row[q]
           c == images[q]
           d == sha[q]
           e == known[q]
<1>3. /\ a \in {"none", "running", "succeeded", "failed", "expired", "deleted"}
      /\ c \in Seq(Pictures) /\ Len(c) \in Nat /\ Len(c) <= Count[q]
      /\ d \in Pictures \cup {NoPicture} /\ e \in SUBSET (0..Count[q])
      /\ row' = [row EXCEPT ![q] = a] /\ pc' = [pc EXCEPT ![q] = "over"]
      /\ images' = [images EXCEPT ![q] = c] /\ sha' = [sha EXCEPT ![q] = d]
      /\ known' = [known EXCEPT ![q] = e] /\ UNCHANGED due
    BY <1>1 DEF Cancelled, TypeOK
<1>4. PICK S \in {{}, {<<q, Len(images[q]) + 1>>}} : disk' = disk \cup S
    BY DEF Cancelled, Copy, Current
<1>5. /\ disk' \subseteq Items
      /\ \A r \in Requests \ {q} : \A i : <<r, i>> \in disk' <=> <<r, i>> \in disk
    BY ItemFacts, <1>1, <1>2, <1>3, <1>4
<1>6. /\ TypeOK' /\ Touches(q)
      /\ row'[q] = a /\ pc'[q] = "over" /\ known'[q] = e
    <2> HIDE DEF a, c, d, e
    <2>1. Sets(q, a, "over", c, d, e)
        BY <1>3, <1>5 DEF Sets
    <2> QED
        BY <1>1, <2>1, TypeOfStep
<1>7. Own(q)'
    BY <1>2, <1>6 DEF Own, Course, Promised, Clean, Stuck, Delivered
<1> QED
    BY <1>6, <1>7 DEF JobSound

\* The check of a request's images in turn: if all pass, the row has the last
\* one's hash; if not, it may have an earlier one's.
LEMMA HashKept ==
    ASSUME NEW n \in Nat \ {0}, NEW bad \in SUBSET (1..n)
    PROVE  LET good == {i \in 1..n : \A j \in bad : i < j}
           IN  /\ good # {} => Cardinality(good) \in 1..n
               /\ bad = {} => good # {} /\ Cardinality(good) = n
<1> DEFINE good == {i \in 1..n : \A j \in bad : i < j}
<1>1. IsFiniteSet(1..n) /\ Cardinality(1..n) = n
    BY FS_Interval
<1>2. good # {} => Cardinality(good) \in 1..n
    <2>1. IsFiniteSet(good) /\ Cardinality(good) <= n /\ Cardinality(good) \in Nat
        BY <1>1, FS_Subset, FS_CardinalityType
    <2>2. good # {} => Cardinality(good) # 0
        BY <2>1, FS_EmptySet
    <2> QED
        BY <2>1, <2>2
<1>3. bad = {} => good # {} /\ Cardinality(good) = n
    <2> SUFFICES ASSUME bad = {} PROVE good # {} /\ Cardinality(good) = n
        OBVIOUS
    <2>1. good = 1..n
        OBVIOUS
    <2>2. 1 \in 1..n
        OBVIOUS
    <2> QED
        BY <1>1, <2>1, <2>2
<1> QED
    BY <1>2, <1>3

\* What LastImage does, by how the check went.
LEMMA LastImageCases ==
    ASSUME SInv, NEW q \in Requests, NEW p \in Pictures, LastImage(q, p)
    PROVE  LET pics == Append(images[q], p)
           IN  \E d \in Pictures \cup {NoPicture} :
                  /\ pc[q] = "codex" /\ pics \in Seq(Pictures) /\ Len(pics) = Count[q]
                  /\ images' = [images EXCEPT ![q] = pics] /\ sha' = [sha EXCEPT ![q] = d]
                  /\ \/ /\ \A i \in 1..Count[q] : ~Seen(q, pics[i])
                        /\ InTable(q) => d = Last(pics)
                        /\ disk' = disk \cup {<<q, Count[q]>>}
                        /\ \/ /\ pc' = [pc EXCEPT ![q] = "over"]
                              /\ row' = [row EXCEPT ![q] =
                                             IF InTable(q) THEN "succeeded" ELSE @]
                              /\ known' = [known EXCEPT ![q] =
                                               IF InTable(q) THEN 0..Count[q] ELSE @]
                           \/ MarkFailed(q, FALSE)
                     \/ /\ disk' = disk \ {<<q, i>> : i \in 1..Count[q]}
                        /\ \E named \in BOOLEAN : MarkFailed(q, named)
<1> DEFINE pics == Append(images[q], p)
           n == Count[q]
           bad == {i \in 1..n : Refused(q, pics, i)}
           good == {i \in 1..n : \A j \in bad : i < j}
           d == IF good # {} /\ InTable(q) THEN pics[Cardinality(good)] ELSE sha[q]
<1>1. /\ pc[q] = "codex" /\ Len(images[q]) + 1 = n
      /\ images' = [images EXCEPT ![q] = pics]
      /\ sha' = [sha EXCEPT ![q] = IF good # {} /\ InTable(q)
                                     THEN pics[Cardinality(good)] ELSE @]
    BY DEF LastImage
<1>2. IF bad = {}
        THEN \/ /\ disk' = disk \cup {Current(q)}
                /\ pc' = [pc EXCEPT ![q] = "over"]
                /\ row' = [row EXCEPT ![q] = IF InTable(q) THEN "succeeded" ELSE @]
                /\ known' = [known EXCEPT ![q] = IF InTable(q) THEN 0..Count[q] ELSE @]
             \/ /\ disk' = disk \cup {Current(q)}
                /\ MarkFailed(q, FALSE)
        ELSE /\ disk' = disk \ (Made(q) \cup {Current(q)})
             /\ \E named \in BOOLEAN : MarkFailed(q, named)
    BY DEF LastImage
<1>3. /\ images[q] \in Seq(Pictures) /\ sha[q] \in Pictures \cup {NoPicture} /\ n \in Nat \ {0}
      /\ sha \in [Requests -> Pictures \cup {NoPicture}]
    BY CountType DEF SInv, StoreTypeOK, TypeOK
<1>4. /\ pics \in Seq(Pictures) /\ Len(pics) = n /\ \A i \in 1..n : pics[i] \in Pictures
    BY <1>1, <1>3
<1>5. /\ good # {} => Cardinality(good) \in 1..n
      /\ bad = {} => good # {} /\ Cardinality(good) = n
    <2> HIDE DEF n
    <2>1. bad \in SUBSET (1..n)
        OBVIOUS
    <2> HIDE DEF bad
    <2> QED
        BY <1>3, <2>1, HashKept
<1>6. Current(q) = <<q, n>> /\ Made(q) \cup {Current(q)} = {<<q, i>> : i \in 1..n}
    <2>1. Len(images[q]) \in Nat /\ 1..n = (1..Len(images[q])) \cup {n}
        BY <1>1, <1>3
    <2> QED
        BY <1>1, <2>1 DEF Current, Made
<1>7. bad = {} => \A i \in 1..n : ~Seen(q, pics[i])
    BY DEF Refused
<1>8. d \in Pictures \cup {NoPicture} /\ (bad = {} /\ InTable(q) => d = Last(pics))
    <2> HIDE DEF pics, n, bad, good
    <2> QED
        BY <1>3, <1>4, <1>5 DEF Last
<1>9. sha' = [sha EXCEPT ![q] = d]
    BY <1>1
<1> HIDE DEF d, bad, good
<1>10. CASE bad = {}
    BY <1>1, <1>2, <1>4, <1>6, <1>7, <1>8, <1>9, <1>10
<1>11. CASE bad # {}
    BY <1>1, <1>2, <1>4, <1>6, <1>8, <1>9, <1>11
<1> QED
    BY <1>10, <1>11

LEMMA LastImageSound ==
    ASSUME SInv, NEW q \in Requests, NEW p \in Pictures, LastImage(q, p), UNCHANGED <<due, errors>>
    PROVE  JobSound(q)
<1> USE CountType
<1> DEFINE pics == Append(images[q], p)
<1>1. PICK d \in Pictures \cup {NoPicture} :
          /\ pc[q] = "codex" /\ pics \in Seq(Pictures) /\ Len(pics) = Count[q]
          /\ images' = [images EXCEPT ![q] = pics] /\ sha' = [sha EXCEPT ![q] = d]
          /\ \/ /\ InTable(q) => d = Last(pics)
                /\ disk' = disk \cup {<<q, Count[q]>>}
                /\ \/ /\ pc' = [pc EXCEPT ![q] = "over"]
                      /\ row' = [row EXCEPT ![q] = IF InTable(q) THEN "succeeded" ELSE @]
                      /\ known' = [known EXCEPT ![q] = IF InTable(q) THEN 0..Count[q] ELSE @]
                   \/ MarkFailed(q, FALSE)
             \/ /\ disk' = disk \ {<<q, i>> : i \in 1..Count[q]}
                /\ \E named \in BOOLEAN : MarkFailed(q, named)
    BY LastImageCases
<1>2. TypeOK /\ disk \subseteq Items /\ Len(pics) <= Count[q]
    BY <1>1 DEF SInv, StoreTypeOK, TypeOK
<1>3. /\ row[q] \in {"running", "deleted"} /\ known[q] = {} /\ q \notin due
      /\ row[q] = "running" => \A i \in 0..Len(images[q]) : <<q, i>> \in disk
      /\ images[q] \in Seq(Pictures) /\ Len(pics) = Len(images[q]) + 1
    <2>1. images[q] \in Seq(Pictures)
        BY <1>2 DEF TypeOK
    <2>2. Len(pics) = Len(images[q]) + 1
        BY <2>1
    <2> HIDE DEF pics
    <2> QED
        BY <1>1, <2>1, <2>2 DEF SInv, Own, Course, Promised
<1>4. /\ disk' \subseteq Items
      /\ \A r \in Requests \ {q} : \A i : <<r, i>> \in disk' <=> <<r, i>> \in disk
    <2>1. CASE disk' = disk \cup {<<q, Count[q]>>}
        <3>1. <<q, Count[q]>> \in Items
            BY ItemFacts
        <3> QED
            BY <1>2, <2>1, <3>1
    <2>2. CASE disk' = disk \ {<<q, i>> : i \in 1..Count[q]}
        BY <1>2, <2>2
    <2> QED
        BY <1>1, <2>1, <2>2
<1>5. CASE /\ InTable(q) => d = Last(pics)
           /\ disk' = disk \cup {<<q, Count[q]>>}
           /\ MarkFailed(q, FALSE)
    <2> HIDE DEF pics
    <2> QED
        BY <1>1, <1>2, <1>4, <1>5, FailedSound
<1>6. CASE /\ disk' = disk \ {<<q, i>> : i \in 1..Count[q]}
           /\ \E named \in BOOLEAN : MarkFailed(q, named)
    <2>1. PICK named \in BOOLEAN : MarkFailed(q, named)
        BY <1>6
    <2>2. \A i \in 1..Len(pics) : <<q, i>> \notin disk'
        BY <1>1, <1>6
    <2> HIDE DEF pics
    <2> QED
        BY <1>1, <1>2, <1>4, <2>1, <2>2, FailedSound
<1>7. CASE /\ InTable(q) => d = Last(pics)
           /\ disk' = disk \cup {<<q, Count[q]>>}
           /\ pc' = [pc EXCEPT ![q] = "over"]
           /\ row' = [row EXCEPT ![q] = IF InTable(q) THEN "succeeded" ELSE @]
           /\ known' = [known EXCEPT ![q] = IF InTable(q) THEN 0..Count[q] ELSE @]
    <2> DEFINE a == IF InTable(q) THEN "succeeded" ELSE row[q]
               e == IF InTable(q) THEN 0..Count[q] ELSE {}
    <2>1. /\ row' = [row EXCEPT ![q] = a] /\ known' = [known EXCEPT ![q] = e]
          /\ a \in {"none", "running", "succeeded", "failed", "expired", "deleted"}
          /\ e \subseteq 0..Count[q]
        BY <1>2, <1>3, <1>7 DEF TypeOK
    <2>2. Sets(q, a, "over", pics, d, e)
        <3> HIDE DEF a, e, pics
        <3> QED
            BY <1>1, <1>2, <1>4, <1>7, <2>1 DEF Sets
    <2>3. /\ TypeOK' /\ Touches(q)
          /\ row'[q] = a /\ pc'[q] = "over" /\ images'[q] = pics /\ sha'[q] = d /\ known'[q] = e
        <3> HIDE DEF a, e, pics
        <3> QED
            BY <1>2, <2>2, TypeOfStep
    <2>4. Course(q)'
        <3>1. Delivered(q)' => InTable(q)
            BY <2>3 DEF Delivered
        <3>2. InTable(q) => InTable(q)' /\ Passed(q)'
            <4> SUFFICES ASSUME InTable(q) PROVE InTable(q)' /\ Passed(q)'
                OBVIOUS
            <4>1. row'[q] = "succeeded"
                BY <2>3
            <4> HIDE DEF pics
            <4> QED
                BY <1>1, <1>7, <2>3, <4>1 DEF InTable, Passed, Last
        <3> QED
            BY <2>3, <3>1, <3>2 DEF Course
    <2>5. Promised(q)'
        <3> SUFFICES ASSUME InTable(q), NEW i \in 0..Count[q] PROVE <<q, i>> \in disk'
            BY <1>3, <2>3 DEF Promised
        <3>1. row[q] = "running"
            BY <1>3 DEF InTable
        <3>2. i = Count[q] \/ i \in 0..Len(images[q])
            BY <1>1, <1>3
        <3> QED
            BY <1>3, <1>7, <3>1, <3>2
    <2>6. Clean(q)' /\ Stuck(q)'
        BY <1>3, <2>3 DEF Clean, Stuck
    <2> QED
        BY <2>3, <2>4, <2>5, <2>6 DEF JobSound, Own
<1> QED
    BY <1>1, <1>5, <1>6, <1>7

LEMMA JobStepSound ==
    ASSUME SInv, NEW q \in Requests, JobStep(q)
    PROVE  JobSound(q)
<1>1. Step(q) /\ UNCHANGED <<due, errors>>
    BY DEF JobStep
<1>2. CASE Begin(q)
    BY <1>1, <1>2, BeginSound
<1>3. CASE Raises(q) \/ NoImage(q)
    BY <1>1, <1>3, RunFailsSound
<1>4. CASE Cancelled(q)
    BY <1>1, <1>4, CancelledSound
<1>5. ASSUME NEW p \in Pictures, NextImage(q, p) PROVE JobSound(q)
    BY <1>1, <1>5, NextImageSound
<1>6. ASSUME NEW p \in Pictures, LastImage(q, p) PROVE JobSound(q)
    BY <1>1, <1>6, LastImageSound
<1>7. \A p \in Recovered \ {NoPicture} : p \in Pictures
    BY DEF Recovered
<1> QED
    BY <1>1, <1>2, <1>3, <1>4, <1>5, <1>6, <1>7 DEF Step

LEMMA JobStepInv ==
    ASSUME SInv, NEW q \in Requests, JobStep(q)
    PROVE  SInv'
<1>1. Step(q) /\ UNCHANGED <<due, at, todo, seen, errors>> /\ old' = old \cap disk'
    BY DEF JobStep
<1>2. JobSound(q)
    BY JobStepSound
<1>3. \A r \in Requests : Own(r)'
    BY <1>1, <1>2, OthersKeep DEF JobSound
<1>4. StoreTypeOK'
    BY <1>1, <1>2 DEF JobSound, SInv, StoreTypeOK
<1>5. q \notin due
    BY <1>1 DEF Step, Begin, Raises, NoImage, Cancelled, NextImage, LastImage, SInv, Own, Course
<1>6. \A r \in due : known'[r] = known[r]
    BY <1>2, <1>5 DEF JobSound, Touches, SInv, StoreTypeOK
<1>7. Sweeping'
    BY <1>1, <1>6 DEF Sweeping, SInv
<1> QED
    BY <1>3, <1>4, <1>7 DEF SInv

-----------------------------------------------------------------------------
(***************************************************************************)
(* Time, the admin and the sweeps.                                         *)
(***************************************************************************)

\* A due row's request is over: nothing more is written for it.
LEMMA DueIsOver == SInv => \A r \in due : r \in Requests /\ pc[r] = "over"
BY DEF SInv, StoreTypeOK, TypeOK, Own, Course

LEMMA FallsDueInv ==
    ASSUME SInv, NEW q \in Requests, FallsDue(q)
    PROVE  SInv'
<1>1. /\ due' = due \cup {q} /\ InTable(q) /\ pc[q] # "codex"
      /\ UNCHANGED <<vars, old, at, todo, seen, errors>>
    BY DEF FallsDue
<1>2. /\ row' = row /\ pc' = pc /\ images' = images /\ sha' = sha /\ disk' = disk
      /\ known' = known /\ errors' = errors
    BY <1>1 DEF vars
<1>3. Course(q) /\ Clean(q) /\ Stuck(q) /\ pc[q] = "over"
    BY <1>1 DEF SInv, Own, Course, InTable, StoreTypeOK, TypeOK
<1>4. Touches(q)
    BY <1>1, <1>2 DEF Touches
<1>5. Own(q)'
    <2>1. Course(q)'
        BY <1>2, <1>3 DEF Course, Delivered, Passed, InTable, Last
    <2>2. Promised(q)'
        BY <1>1 DEF Promised
    <2>3. Clean(q)' /\ Stuck(q)'
        BY <1>2, <1>3 DEF Clean, Stuck, Passed, Last
    <2> QED
        BY <2>1, <2>2, <2>3 DEF Own
<1>6. \A r \in Requests : Own(r)'
    BY <1>2, <1>4, <1>5, OthersKeep
<1>7. StoreTypeOK'
    BY <1>1, <1>2 DEF SInv, StoreTypeOK, TypeOK
<1>8. Sweeping'
    BY <1>1, <1>2 DEF SInv, Sweeping
<1> QED
    BY <1>6, <1>7, <1>8 DEF SInv

LEMMA AdminDeleteInv ==
    ASSUME SInv, NEW q \in Requests, AdminDelete(q)
    PROVE  SInv'
<1>1. /\ InTable(q) /\ row' = [row EXCEPT ![q] = "deleted"]
      /\ disk' = disk \ {<<q, i>> : i \in known[q]} /\ known' = [known EXCEPT ![q] = {}]
      /\ old' = old \cap disk'
      /\ pc' = pc /\ images' = images /\ sha' = sha /\ due' = due /\ errors' = errors
      /\ UNCHANGED <<at, todo, seen>>
    BY DEF AdminDelete
<1>2. TypeOK
    BY DEF SInv, StoreTypeOK
<1>3. row'[q] = "deleted" /\ known'[q] = {}
    BY <1>1, <1>2 DEF TypeOK
<1>4. Touches(q)
    BY <1>1, <1>2 DEF Touches, TypeOK
<1>5. Own(q)'
    <2>1. pc[q] # "idle" /\ (pc[q] # "over" => q \notin due)
          /\ (pc[q] = "codex" => Len(images[q]) < Count[q])
        BY <1>1 DEF SInv, Own, Course, InTable
    <2> QED
        BY <1>1, <1>3, <2>1 DEF Own, Course, Promised, Clean, Stuck, Delivered
<1>6. \A r \in Requests : Own(r)'
    BY <1>1, <1>4, <1>5, OthersKeep
<1>7. StoreTypeOK'
    <2>1. TypeOK'
        BY <1>1, <1>2 DEF TypeOK
    <2> QED
        BY <1>1, <2>1 DEF SInv, StoreTypeOK
<1>8. Sweeping'
    <2>1. \A r \in due : known'[r] \subseteq known[r]
        BY <1>1, <1>2, <1>3, DueIsOver DEF TypeOK
    <2> QED
        BY <1>1, <2>1 DEF SInv, Sweeping
<1> QED
    BY <1>6, <1>7, <1>8 DEF SInv

\* What takes nothing but files of a due request, or nothing at all.
LEMMA SweptInv ==
    ASSUME SInv, NEW q \in due, errors \subseteq errors', TypeOK',
           UNCHANGED <<pc, images, sha, known, due>>, disk' \subseteq disk,
           \A r \in Requests \ {q} : row'[r] = row[r] /\ \A i : <<r, i>> \in disk => <<r, i>> \in disk',
           row'[q] = row[q] \/ (InTable(q) /\ row'[q] = "expired"),
           row'[q] = "expired" => \A i \in known[q] : <<q, i>> \in disk' => <<q, i>> \in errors'
    PROVE  \A r \in Requests : Own(r)'
<1>1. q \in Requests /\ pc[q] = "over" /\ Own(q)
    BY DueIsOver DEF SInv
<1>2. Touches(q)
    BY DEF Touches
<1>3. Own(q)'
    <2>1. Course(q)'
        <3>1. Delivered(q)' = Delivered(q)
            BY DEF Delivered
        <3>2. Passed(q)' = Passed(q)
            BY DEF Passed, Last
        <3>3. InTable(q) => InTable(q)'
            BY DEF InTable
        <3> QED
            BY <1>1, <3>1, <3>2, <3>3 DEF Own, Course
    <2>2. Promised(q)'
        BY DEF Promised
    <2>3. Clean(q)'
        BY <1>1 DEF Own, Clean, Passed, Last
    <2>4. Stuck(q)'
        BY DEF Stuck
    <2> QED
        BY <2>1, <2>2, <2>3, <2>4 DEF Own
<1> QED
    BY <1>2, <1>3, OthersKeep

LEMMA SweepsRowInv ==
    ASSUME SInv, NEW s \in Sweeps, NEW e \in todo[s], SweepsRow(s, e)
    PROVE  SInv'
<1> DEFINE q == e.row
           items == {<<q, i>> : i \in e.names} \cap disk
<1>1. PICK stuck \in SUBSET items :
          /\ Cardinality(errors \cup stuck) <= MaxErrors
          /\ errors' = errors \cup stuck
          /\ disk' = disk \ (items \ stuck)
    BY DEF SweepsRow
<1>2. /\ at[s] = "rows"
      /\ row' = [row EXCEPT ![q] = IF InTable(q) THEN "expired" ELSE @]
      /\ old' = old \cap disk' /\ todo' = [todo EXCEPT ![s] = @ \ {e}]
      /\ UNCHANGED <<pc, images, sha, known>> /\ UNCHANGED <<due, at, seen>>
    BY DEF SweepsRow
<1>3. q \in due /\ known[q] \subseteq e.names /\ q \in Requests
    BY <1>2, DueIsOver DEF SInv, Sweeping
<1>4. TypeOK /\ disk \subseteq Items /\ DOMAIN todo = Sweeps
    BY DEF SInv, StoreTypeOK, TypeOK, Sweeping
<1>5. TypeOK'
    <2>1. row' \in [Requests -> {"none", "running", "succeeded", "failed", "expired", "deleted"}]
        BY <1>2, <1>4 DEF TypeOK
    <2>2. disk' \subseteq Items
        BY <1>1, <1>4
    <2> QED
        BY <1>2, <1>4, <2>1, <2>2 DEF TypeOK
<1>6. \A r \in Requests : Own(r)'
    <2>1. \A r \in Requests \ {q} : row'[r] = row[r] /\ \A i : <<r, i>> \in disk => <<r, i>> \in disk'
        BY <1>1, <1>2, <1>4 DEF TypeOK
    <2>2. row'[q] = IF InTable(q) THEN "expired" ELSE row[q]
        BY <1>2, <1>3, <1>4 DEF TypeOK
    <2>3. \A i \in known[q] : <<q, i>> \in disk' => <<q, i>> \in errors'
        BY <1>1, <1>3
    <2>4. errors \subseteq errors' /\ disk' \subseteq disk
        BY <1>1
    <2> HIDE DEF q, items
    <2> QED
        BY <1>2, <1>3, <1>5, <2>1, <2>2, <2>3, <2>4, SweptInv
<1>7. StoreTypeOK'
    <2>1. errors' \subseteq Items /\ Cardinality(errors') <= MaxErrors
        BY <1>1, <1>4 DEF SInv, StoreTypeOK
    <2> QED
        BY <1>2, <1>5, <2>1 DEF SInv, StoreTypeOK
<1>8. Sweeping'
    <2>1. DOMAIN todo' = Sweeps /\ \A t \in Sweeps : todo'[t] \subseteq todo[t]
        BY <1>2, <1>4
    <2> QED
        BY <1>2, <2>1 DEF SInv, Sweeping
<1> QED
    BY <1>6, <1>7, <1>8 DEF SInv

LEMMA StatsInv ==
    ASSUME SInv, NEW s \in Sweeps, Stats(s)
    PROVE  SInv'
<1>1. /\ seen[s] # Nothing /\ seen[s] \in disk
      /\ \/ seen[s] \in old /\ disk' = disk \ {seen[s]}
         \/ disk' = disk
      /\ old' = old \cap disk' /\ seen' = [seen EXCEPT ![s] = Nothing]
      /\ UNCHANGED <<row, pc, images, sha, known>> /\ UNCHANGED <<due, at, todo, errors>>
    BY DEF Stats
<1>2. TypeOK /\ disk \subseteq Items
    BY DEF SInv, StoreTypeOK, TypeOK
<1>3. TypeOK'
    BY <1>1, <1>2 DEF TypeOK
<1>4. StoreTypeOK'
    BY <1>1, <1>3 DEF SInv, StoreTypeOK
<1>5. Sweeping'
    BY <1>1 DEF SInv, Sweeping
<1>6. CASE seen[s] \in old /\ disk' = disk \ {seen[s]}
    <2>1. PICK q \in due : seen[s] = <<q, seen[s][2]>>
        BY <1>1, <1>2, <1>6, ItemFacts DEF SInv, Sweeping
    <2>2. \A r \in Requests \ {q} : row'[r] = row[r] /\ \A i : <<r, i>> \in disk => <<r, i>> \in disk'
        BY <1>1, <1>6, <2>1
    <2>3. row'[q] = "expired" => \A i \in known[q] : <<q, i>> \in disk' => <<q, i>> \in errors'
        BY <1>1, <1>6, DueIsOver DEF SInv, Own, Stuck
    <2>4. \A r \in Requests : Own(r)'
        BY <1>1, <1>3, <1>6, <2>2, <2>3, SweptInv
    <2> QED
        BY <1>4, <1>5, <2>4 DEF SInv
<1>7. CASE disk' = disk
    BY <1>1, <1>4, <1>5, <1>7
       DEF SInv, Own, Course, Promised, Clean, Stuck, Delivered, Passed, InTable, Last
<1> QED
    BY <1>1, <1>6, <1>7

\* The steps that change no row and no file.
LEMMA QuietInv ==
    ASSUME SInv, UNCHANGED <<vars, due, errors>>, StoreTypeOK', Sweeping'
    PROVE  SInv'
BY DEF vars, SInv, Own, Course, Promised, Clean, Stuck, Delivered, Passed, InTable, Last

LEMMA SweepMovesInv ==
    ASSUME SInv, NEW s \in Sweeps,
           SweepBegins(s) \/ LoopEnds(s) \/ Aborts(s) \/ \E x \in todo[s] : Looks(s, x)
    PROVE  SInv'
<1>1. UNCHANGED <<vars, due, old, errors>>
    BY DEF SweepBegins, LoopEnds, Aborts, Looks
<1>2. TypeOK' /\ disk \subseteq Items /\ disk' = disk /\ known' = known
    BY <1>1 DEF SInv, StoreTypeOK, TypeOK, vars
<1>3. DOMAIN todo = Sweeps /\ at \in [Sweeps -> {"idle", "rows", "files", "dirs"}]
    BY DEF SInv, Sweeping, StoreTypeOK
<1>4. StoreTypeOK'
    <2>1. at' \in [Sweeps -> {"idle", "rows", "files", "dirs"}]
        BY <1>3 DEF SweepBegins, LoopEnds, Aborts, Looks
    <2>2. seen' \in [Sweeps -> Items \cup {Nothing}]
        BY <1>2 DEF SweepBegins, LoopEnds, Aborts, Looks, SInv, StoreTypeOK
    <2> QED
        BY <1>1, <1>2, <2>1, <2>2 DEF SInv, StoreTypeOK
<1>5. Sweeping'
    <2>1. ASSUME NEW v, DOMAIN todo' = Sweeps, todo'[s] = v,
                 \A t \in Sweeps \ {s} : todo'[t] = todo[t] /\ at'[t] = at[t],
                 at'[s] = "rows" => \A e \in v : e.row \in due /\ known[e.row] \subseteq e.names,
                 at'[s] \in {"files", "dirs"} => v \subseteq Items
          PROVE  Sweeping'
        BY <1>1, <1>2, <2>1 DEF SInv, Sweeping
    <2>2. CASE SweepBegins(s)
        <3>1. /\ at' = [at EXCEPT ![s] = "rows"]
              /\ todo' = [todo EXCEPT ![s] = {[row |-> r, names |-> known[r]] :
                              r \in {q \in due : InTable(q) /\ row[q] # "expired"}}]
            BY <2>2 DEF SweepBegins
        <3> QED
            BY <1>3, <2>1, <3>1
    <2>3. CASE Aborts(s)
        BY <1>3, <2>1, <2>3 DEF Aborts
    <2>4. CASE \E x \in todo[s] : Looks(s, x)
        <3>1. PICK x \in todo[s] : Looks(s, x)
            BY <2>4
        <3>2. at' = at /\ at[s] \in {"files", "dirs"} /\ todo' = [todo EXCEPT ![s] = @ \ {x}]
            BY <3>1 DEF Looks
        <3>3. todo[s] \subseteq Items
            BY <3>2 DEF SInv, Sweeping
        <3> QED
            BY <1>3, <2>1, <3>2, <3>3
    <2>5. CASE LoopEnds(s)
        <3>1. CASE at[s] = "rows" /\ at' = [at EXCEPT ![s] = "files"] /\ Loop(s, TRUE)
            BY <1>2, <1>3, <2>1, <3>1 DEF Loop
        <3>2. CASE at[s] = "files" /\ at' = [at EXCEPT ![s] = "dirs"] /\ Loop(s, FALSE)
            BY <1>2, <1>3, <2>1, <3>2 DEF Loop
        <3>3. CASE at[s] = "dirs" /\ at' = [at EXCEPT ![s] = "idle"] /\ UNCHANGED todo
            BY <1>3, <2>1, <3>3
        <3> QED
            BY <2>5, <3>1, <3>2, <3>3 DEF LoopEnds
    <2> QED
        BY <2>2, <2>3, <2>4, <2>5
<1> QED
    BY <1>1, <1>4, <1>5, QuietInv

LEMMA GrowsOldInv ==
    ASSUME SInv, NEW q \in Requests, GrowsOld(q)
    PROVE  SInv'
<1>1. /\ q \in due /\ old' = old \cup {x \in disk : x[1] = q}
      /\ UNCHANGED <<vars, due, at, todo, seen, errors>>
    BY DEF GrowsOld
<1>2. StoreTypeOK'
    BY <1>1 DEF vars, SInv, StoreTypeOK, TypeOK
<1>3. Sweeping'
    BY <1>1 DEF vars, SInv, Sweeping
<1> QED
    BY <1>1, <1>2, <1>3, QuietInv

LEMMA StoreNextInv == SInv /\ [SNext]_allVars => SInv'
<1> SUFFICES ASSUME SInv, [SNext]_allVars PROVE SInv'
    OBVIOUS
<1>1. ASSUME NEW r \in Requests, JobStep(r) \/ FallsDue(r) \/ GrowsOld(r) \/ AdminDelete(r)
      PROVE  SInv'
    BY <1>1, JobStepInv, FallsDueInv, GrowsOldInv, AdminDeleteInv
<1>2. ASSUME NEW s \in Sweeps, SweepBegins(s) \/ SweepStep(s)
      PROVE  SInv'
    BY <1>2, SweepsRowInv, StatsInv, SweepMovesInv DEF SweepStep
<1>3. CASE UNCHANGED allVars
    <2>1. StoreTypeOK'
        BY <1>3 DEF allVars, sweepVars, vars, SInv, StoreTypeOK, TypeOK
    <2>2. Sweeping'
        BY <1>3 DEF allVars, sweepVars, vars, SInv, Sweeping
    <2> QED
        BY <1>3, <2>1, <2>2, QuietInv DEF allVars, sweepVars
<1> QED
    BY <1>1, <1>2, <1>3 DEF SNext

LEMMA StoreInvariance == SSpec => []SInv
BY StoreInitInv, StoreNextInv, PTL DEF SSpec

-----------------------------------------------------------------------------
\* Rows, files, hashes and sweeps are what their types say.
THEOREM StoreTypeCorrect == SSpec => []StoreTypeOK
<1>1. SInv => StoreTypeOK
    BY DEF SInv
<1> QED
    BY <1>1, StoreInvariance, PTL

\* cleanup_expired_storage and the admin's delete: whatever they are at, the
\* files a row promises stay until its retention is over.
THEOREM PromisesAreKept == SSpec => []PromisedFilesExist
<1>1. SInv => PromisedFilesExist
    <2> SUFFICES ASSUME SInv, NEW r \in Requests \ due
                 PROVE  /\ row[r] = "succeeded" => \A i \in 0..Count[r] : <<r, i>> \in disk
                        /\ row[r] = "running" /\ pc[r] = "codex" =>
                               {Workdir(r)} \cup Made(r) \subseteq disk
        BY DEF PromisedFilesExist
    <2>1. Promised(r) /\ images[r] \in Seq(Pictures)
        BY DEF SInv, Own, StoreTypeOK, TypeOK
    <2>2. {Workdir(r)} \cup Made(r) = {<<r, i>> : i \in 0..Len(images[r])}
        <3>1. 0..Len(images[r]) = {0} \cup (1..Len(images[r]))
            BY <2>1
        <3> QED
            BY <3>1 DEF Workdir, Made
    <2> QED
        BY <2>1, <2>2 DEF Promised
<1> QED
    BY <1>1, StoreInvariance, PTL

\* generate's clean-up: a request that failed has left none of its images.
THEOREM FailuresAreCleanedUp == SSpec => []FailureLeavesNoImage
<1>1. SInv => FailureLeavesNoImage
    BY DEF SInv, Own, Clean, FailureLeavesNoImage
<1> QED
    BY <1>1, StoreInvariance, PTL

\* mark_image_request_expired: only what could not be unlinked stays behind.
THEOREM NothingElseIsStuck == SSpec => []OnlyErrorsAreStuck
<1>1. SInv => OnlyErrorsAreStuck
    <2> SUFFICES ASSUME SInv, NEW x \in disk, row[x[1]] = "expired", x \in Named
                 PROVE  x \in errors
        BY DEF OnlyErrorsAreStuck
    <2>1. x = <<x[1], x[2]>> /\ x[1] \in Requests /\ x[2] \in known[x[1]]
        BY ItemFacts DEF Named
    <2>2. Stuck(x[1])
        BY <2>1 DEF SInv, Own
    <2> QED
        BY <2>1, <2>2 DEF Stuck
<1> QED
    BY <1>1, StoreInvariance, PTL

-----------------------------------------------------------------------------
\* A failed request is not delivered.
LEMMA FailedIsNotDelivered ==
    ASSUME SInv, NEW q \in Requests, NEW named, MarkFailed(q, named), NEW r \in Requests, Delivered(r)'
    PROVE  Delivered(r)
<1>1. known \in [Requests -> SUBSET Nat] /\ Count[r] # 0
    BY CountType DEF SInv, StoreTypeOK, TypeOK
<1>2. known'[r] \subseteq known[r] \cup {0}
    BY <1>1 DEF MarkFailed
<1> QED
    BY <1>1, <1>2 DEF Delivered

\* Only a last image delivers, after the check against every other request.
LEMMA DeliveryIsChecked ==
    ASSUME SInv, [SNext]_allVars, NEW r \in Requests, ~Delivered(r), Delivered(r)'
    PROVE  \A pic \in Range(images'[r]) : ~Seen(r, pic)
<1>1. known' # known
    BY DEF Delivered
<1>2. PICK q \in Requests : JobStep(q) \/ AdminDelete(q)
    BY <1>1 DEF SNext, FallsDue, GrowsOld, SweepBegins, SweepStep, SweepsRow, LoopEnds, Looks,
                Stats, Aborts, allVars, vars
<1>3. known \in [Requests -> SUBSET Nat] /\ images \in [Requests -> Seq(Pictures)]
    BY DEF SInv, StoreTypeOK, TypeOK
<1>4. ~AdminDelete(q)
    BY <1>3 DEF AdminDelete, Delivered
<1>5. JobStep(q)
    BY <1>2, <1>4
<1>6. PICK p \in Pictures : LastImage(q, p)
    <2>1. ~Begin(q) /\ ~Cancelled(q) /\ \A p : ~NextImage(q, p)
        BY <1>1 DEF Begin, Cancelled, NextImage
    <2>2. ~Raises(q) /\ ~NoImage(q)
        BY FailedIsNotDelivered DEF Raises, NoImage
    <2> QED
        BY <1>5, <2>1, <2>2 DEF JobStep, Step, Recovered
<1>7. q = r
    <2>1. \A t \in Requests \ {q} : known'[t] = known[t]
        BY <1>5, JobStepSound DEF JobSound, Touches
    <2> QED
        BY <2>1 DEF Delivered
<1> DEFINE pics == Append(images[q], p)
<1>8. pics \in Seq(Pictures) /\ Len(pics) = Count[q] /\ images'[q] = pics
    <2>1. \A d : images' = [images EXCEPT ![q] = d] => images'[q] = d
        BY <1>3
    <2> HIDE DEF pics
    <2> QED
        BY <1>6, <2>1, LastImageCases DEF pics
<1>9. \A i \in 1..Count[q] : ~Seen(q, pics[i])
    <2>1. ~\E named \in BOOLEAN : MarkFailed(q, named)
        BY FailedIsNotDelivered
    <2> QED
        BY <1>6, <2>1, LastImageCases
<1>10. Range(pics) = {pics[i] : i \in 1..Count[q]}
    <2> HIDE DEF pics
    <2> QED
        BY <1>8 DEF Range
<1> QED
    BY <1>7, <1>8, <1>9, <1>10

\* _assert_not_duplicate and output_sha_seen_before: no picture that another
\* request on record ended with is delivered as new.
THEOREM OldPicturesAreRefused == SSpec => NoRepeatOfLast
<1>1. SInv /\ [SNext]_allVars =>
          [\A r, s \in Requests :
               r # s /\ Delivered(s) /\ ~Delivered(r) /\ Delivered(r)' =>
                   Last(images[s]) \notin Range(images'[r])]_vars
    <2> SUFFICES ASSUME SInv, [SNext]_allVars, NEW r \in Requests, NEW s \in Requests, r # s,
                        Delivered(s), ~Delivered(r), Delivered(r)'
                 PROVE  Last(images[s]) \notin Range(images'[r])
        OBVIOUS
    <2>1. \A pic \in Range(images'[r]) : ~Seen(r, pic)
        BY DeliveryIsChecked
    <2>2. InTable(s) /\ sha[s] = Last(images[s])
        BY DEF SInv, Own, Course, Passed
    <2> QED
        BY <2>1, <2>2 DEF Seen
<1> QED
    BY <1>1, StoreInvariance, PTL DEF SSpec, NoRepeatOfLast
=============================================================================
