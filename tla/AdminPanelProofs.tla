-------------------------- MODULE AdminPanelProofs --------------------------
(***************************************************************************)
(* Proofs about what the admin panel keeps and shows, for any keys, any    *)
(* finite number of requests, any accounts and hours, and any number of    *)
(* overlapping lookups.                                                    *)
(***************************************************************************)
EXTENDS AdminPanel, DataFacts

(***************************************************************************)
(* Keys.  A job is visible to the key that submitted it and to no other,   *)
(* and every request is counted.                                           *)
(***************************************************************************)
\* A row belongs to the key that asked for it, until that key is deleted; and
\* a deleted key is not issued again.
OwnedByAsker ==
    \A r \in Asked :
        /\ stage[r] = "none" => asker[r] = Nobody /\ owner[r] = Nobody
        /\ Rowed(r) => /\ asker[r] \in Keys
                       /\ \/ owner[r] = asker[r]
                          \/ owner[r] = Nobody /\ key[asker[r]] = "deleted"

\* The requests of k that its counter must have.
Counted(k) == {r \in Asked : asker[r] = k} \ uncounted

AInv == KeysTypeOK /\ OwnedByAsker /\ RowsAreCounted

LEMMA KeysInitInv == KeysInit => AInv
<1> SUFFICES ASSUME KeysInit PROVE AInv
    OBVIOUS
<1> USE ApiKeysAssumption DEF KeysInit
<1>1. KeysTypeOK
    BY DEF KeysTypeOK, KeyRows, Stages
<1>2. OwnedByAsker
    BY DEF OwnedByAsker, Rowed
<1>3. RowsAreCounted
    <2> SUFFICES ASSUME NEW k \in Keys PROVE Cardinality(Counted(k)) <= uses[k]
        BY DEF RowsAreCounted, Counted
    <2>1. Counted(k) = {}
        BY DEF Counted
    <2> QED
        BY <2>1, FS_EmptySet
<1> QED
    BY <1>1, <1>2, <1>3 DEF AInv

LEMMA CountedIsFinite ==
    ASSUME NEW k
    PROVE  IsFiniteSet(Counted(k)) /\ Cardinality(Counted(k)) \in Nat
<1>1. Counted(k) \subseteq Asked
    BY DEF Counted
<1> QED
    BY <1>1, ApiKeysAssumption, FS_Subset, FS_CardinalityType

\* Whatever is counted may be counted on.
LEMMA CountedGrows ==
    ASSUME AInv, NEW k \in Keys, NEW n \in Nat \ {0}, NEW r \in Asked, Used(k, n),
           asker' = [asker EXCEPT ![r] = k], asker[r] = Nobody, UNCHANGED uncounted
    PROVE  RowsAreCounted'
<1> SUFFICES ASSUME NEW j \in Keys PROVE Cardinality(Counted(j)') <= uses'[j]
    BY DEF RowsAreCounted, Counted
<1>1. Cardinality(Counted(j)) <= uses[j] /\ uses[j] \in Nat
    BY DEF AInv, RowsAreCounted, KeysTypeOK, Counted
<1>2. uses'[j] = IF j = k THEN uses[j] + n ELSE uses[j]
    BY DEF Used, AInv, KeysTypeOK
<1>3. CASE j # k
    <2>1. Counted(j)' = Counted(j)
        BY <1>3, ApiKeysAssumption DEF Counted, AInv, KeysTypeOK
    <2> QED
        BY <2>1, <1>1, <1>2, <1>3
<1>4. CASE j = k
    <2>1. Counted(j)' \subseteq Counted(j) \cup {r}
        BY <1>4 DEF Counted, AInv, KeysTypeOK
    <2>2. /\ IsFiniteSet(Counted(j) \cup {r})
          /\ Cardinality(Counted(j) \cup {r}) <= Cardinality(Counted(j)) + 1
          /\ Cardinality(Counted(j) \cup {r}) \in Nat
        <3>1. IsFiniteSet(Counted(j)) /\ Cardinality(Counted(j)) \in Nat
            BY CountedIsFinite
        <3> HIDE DEF Counted
        <3>2. /\ IsFiniteSet(Counted(j) \cup {r})
              /\ Cardinality(Counted(j) \cup {r}) =
                     IF r \in Counted(j) THEN Cardinality(Counted(j))
                                         ELSE Cardinality(Counted(j)) + 1
            BY <3>1, FS_AddElement
        <3> QED
            BY <3>1, <3>2
    <2>3. Cardinality(Counted(j)') <= Cardinality(Counted(j) \cup {r}) /\ Cardinality(Counted(j)') \in Nat
        BY <2>1, <2>2, FS_Subset, FS_CardinalityType
    <2>4. Cardinality(Counted(j)) \in Nat
        BY CountedIsFinite
    <2> QED
        BY <1>1, <1>2, <1>4, <2>2, <2>3, <2>4
<1> QED
    BY <1>3, <1>4

\* What neither makes a request nor takes from a counter.
LEMMA CountedStays ==
    ASSUME AInv, UNCHANGED <<asker, uncounted>>, \A k \in Keys : uses'[k] \in Nat /\ uses[k] <= uses'[k]
    PROVE  RowsAreCounted'
<1> SUFFICES ASSUME NEW k \in Keys PROVE Cardinality(Counted(k)) <= uses'[k]
    BY DEF RowsAreCounted, Counted
<1>1. Cardinality(Counted(k)) <= uses[k] /\ uses[k] \in Nat
    BY DEF AInv, RowsAreCounted, KeysTypeOK, Counted
<1> QED
    BY <1>1, CountedIsFinite

LEMMA UsedType ==
    ASSUME AInv, NEW k \in Keys, NEW n \in Nat, Used(k, n)
    PROVE  /\ uses' \in [Keys -> 0..MaxUses]
           /\ \A j \in Keys : uses'[j] \in Nat /\ uses[j] <= uses'[j]
BY ApiKeysAssumption DEF Used, AInv, KeysTypeOK

\* A new row, in whatever state.
LEMMA InsertedInv ==
    ASSUME AInv, NEW k \in Keys, NEW r \in Asked, NEW s \in {"queued", "failed"},
           key[k] = "enabled", Inserted(k, r, s), UNCHANGED key,
           uses' \in [Keys -> 0..MaxUses], uncounted' \subseteq Asked
    PROVE  KeysTypeOK' /\ OwnedByAsker' /\ asker[r] = Nobody
<1> USE ApiKeysAssumption DEF Inserted
<1>1. k \in Known
    BY DEF Known
<1>2. KeysTypeOK'
    BY <1>1 DEF AInv, KeysTypeOK, Known, Stages
<1>3. OwnedByAsker'
    BY DEF AInv, KeysTypeOK, OwnedByAsker, Rowed
<1>4. asker[r] = Nobody
    BY DEF AInv, OwnedByAsker
<1> QED
    BY <1>2, <1>3, <1>4

LEMMA CallInv ==
    ASSUME AInv, NEW k \in Keys, Calls(k)
    PROVE  AInv'
<1>1. Used(k, 1) /\ UNCHANGED <<key, owner, stage, asker, uncounted>>
    BY DEF Calls
<1>2. KeysTypeOK' /\ OwnedByAsker'
    BY <1>1, UsedType DEF AInv, KeysTypeOK, OwnedByAsker, Rowed, Known
<1>3. RowsAreCounted'
    BY <1>1, UsedType, CountedStays
<1> QED
    BY <1>2, <1>3 DEF AInv

\* A request with a row, or the admin's test.
LEMMA RequestInv ==
    ASSUME AInv, NEW k \in Keys, NEW r \in Asked,
           Generates(k, r) \/ Submits(k, r) \/ AdminTests(k, r)
    PROVE  AInv'
<1>1. ASSUME NEW n \in {1, 2}, NEW s \in {"queued", "failed"}, key[k] = "enabled",
             Used(k, n), Inserted(k, r, s), UNCHANGED <<key, uncounted>>
      PROVE  AInv'
    <2>1. uses' \in [Keys -> 0..MaxUses] /\ uncounted' \subseteq Asked
        BY <1>1, UsedType DEF AInv, KeysTypeOK
    <2>2. KeysTypeOK' /\ OwnedByAsker' /\ asker[r] = Nobody
        BY <1>1, <2>1, InsertedInv
    <2>3. asker' = [asker EXCEPT ![r] = k] /\ UNCHANGED uncounted
        BY <1>1 DEF Inserted
    <2>4. n \in Nat \ {0}
        BY <1>1
    <2>5. RowsAreCounted'
        BY <1>1, <2>2, <2>3, <2>4, CountedGrows
    <2> QED
        BY <2>2, <2>5 DEF AInv
<1>2. Auth(k) = "ok" => key[k] = "enabled"
    BY DEF Auth, AInv, KeysTypeOK, KeyRows
<1>3. CASE Generates(k, r)
    <2>1. Used(k, 1) /\ Inserted(k, r, "queued") /\ UNCHANGED <<key, uncounted>>
        BY <1>3 DEF Generates
    <2> QED
        BY <1>1, <1>2, <1>3, <2>1 DEF Generates
<1>4. CASE Submits(k, r)
    <2>1. CASE Used(k, 2) /\ Inserted(k, r, "queued")
        BY <1>1, <1>2, <1>4, <2>1 DEF Submits
    <2>2. CASE Used(k, 1) /\ Inserted(k, r, "failed")
        BY <1>1, <1>2, <1>4, <2>2 DEF Submits
    <2> QED
        BY <1>4, <2>1, <2>2 DEF Submits
<1>5. CASE AdminTests(k, r)
    <2>1. CASE Used(k, 1) /\ Inserted(k, r, "queued") /\ UNCHANGED uncounted
        BY <1>1, <1>5, <2>1 DEF AdminTests
    <2>2. CASE /\ Inserted(k, r, "failed")
               /\ uncounted' = uncounted \cup {r}
               /\ UNCHANGED uses
        <3>1. KeysTypeOK' /\ OwnedByAsker' /\ asker[r] = Nobody
            <4>1. uses' \in [Keys -> 0..MaxUses] /\ uncounted' \subseteq Asked
                BY <2>2 DEF AInv, KeysTypeOK
            <4> QED
                BY <1>5, <2>2, <4>1, InsertedInv DEF AdminTests
        <3>2. RowsAreCounted'
            <4> SUFFICES ASSUME NEW j \in Keys PROVE Cardinality(Counted(j)') <= uses[j]
                BY <2>2 DEF RowsAreCounted, Counted
            <4>1. Counted(j)' \subseteq Counted(j)
                BY <2>2 DEF Inserted, Counted, AInv, KeysTypeOK
            <4>2. Cardinality(Counted(j)') <= Cardinality(Counted(j)) /\ Cardinality(Counted(j)') \in Nat
                BY <4>1, CountedIsFinite, FS_Subset, FS_CardinalityType
            <4>3. Cardinality(Counted(j)) <= uses[j] /\ uses[j] \in Nat
                BY DEF AInv, RowsAreCounted, KeysTypeOK, Counted
            <4> QED
                BY <4>2, <4>3, CountedIsFinite
        <3> QED
            BY <3>1, <3>2 DEF AInv
    <2> QED
        BY <1>5, <2>1, <2>2 DEF AdminTests
<1> QED
    BY <1>3, <1>4, <1>5

\* What becomes of a row.
LEMMA RowInv ==
    ASSUME AInv, NEW r \in Asked, JobEnds(r) \/ RowExpires(r) \/ RowDeleted(r)
    PROVE  AInv'
<1> USE DEF JobEnds, RowExpires, RowDeleted
<1>1. UNCHANGED <<key, uses, asker, uncounted>>
    OBVIOUS
<1>2. KeysTypeOK'
    BY <1>1 DEF AInv, KeysTypeOK, Stages, Known
<1>3. OwnedByAsker'
    BY <1>1 DEF AInv, KeysTypeOK, OwnedByAsker, Rowed
<1>4. RowsAreCounted'
    BY <1>1, CountedStays DEF AInv, KeysTypeOK
<1> QED
    BY <1>2, <1>3, <1>4 DEF AInv

\* What becomes of a key.
LEMMA KeyInv ==
    ASSUME AInv, NEW k \in Keys, CreatesKey(k) \/ DisablesKey(k) \/ DeletesKey(k)
    PROVE  AInv'
<1> USE ApiKeysAssumption DEF CreatesKey, DisablesKey, DeletesKey
<1>1. UNCHANGED <<uses, stage, asker, uncounted>>
    OBVIOUS
<1>2. KeysTypeOK'
    BY <1>1 DEF AInv, KeysTypeOK, KeyRows, Known, Unlinked
<1>3. OwnedByAsker'
    <2>1. CASE CreatesKey(k) \/ DisablesKey(k)
        BY <1>1, <2>1 DEF AInv, KeysTypeOK, OwnedByAsker, Rowed
    <2>2. CASE DeletesKey(k)
        BY <1>1, <2>2 DEF AInv, KeysTypeOK, OwnedByAsker, Rowed, Unlinked
    <2> QED
        BY <2>1, <2>2
<1>4. RowsAreCounted'
    BY <1>1, CountedStays DEF AInv, KeysTypeOK
<1> QED
    BY <1>2, <1>3, <1>4 DEF AInv

LEMMA KeysNextInv == AInv /\ [KeysNext]_keyVars => AInv'
<1> SUFFICES ASSUME AInv, [KeysNext]_keyVars PROVE AInv'
    OBVIOUS
<1>1. CASE UNCHANGED keyVars
    BY <1>1 DEF keyVars, AInv, KeysTypeOK, OwnedByAsker, RowsAreCounted, Rowed, Known
<1> QED
    BY <1>1, CallInv, RequestInv, RowInv, KeyInv DEF KeysNext

\* require_api_key and get_image_job: a poller with the job's own key is told
\* the row's status, and a poller with any other is told nothing.
THEOREM OthersSeeNothing == KeysSpec => []JobsSeenByTheirKey
<1>1. AInv => JobsSeenByTheirKey
    <2> SUFFICES ASSUME AInv, NEW r \in Asked, NEW k \in Keys
                 PROVE  Poll(k, r) = IF Auth(k) = "ok" /\ Rowed(r) /\ asker[r] = k
                                       THEN stage[r]
                                       ELSE IF Auth(k) = "ok" THEN "404" ELSE Auth(k)
        BY DEF JobsSeenByTheirKey
    <2>1. Auth(k) = "ok" => key[k] = "enabled"
        BY DEF Auth, AInv, KeysTypeOK, KeyRows
    <2>2. Rowed(r) /\ key[k] = "enabled" => (owner[r] = k <=> asker[r] = k)
        BY ApiKeysAssumption DEF AInv, OwnedByAsker
    <2> QED
        BY <2>1, <2>2 DEF Poll
<1> QED
    BY <1>1, KeysInitInv, KeysNextInv, PTL DEF KeysSpec

\* mark_api_key_used: no request made with a key is missing from its counter.
THEOREM NoCallIsFree == KeysSpec => []RowsAreCounted
<1>1. AInv => RowsAreCounted
    BY DEF AInv
<1> QED
    BY <1>1, KeysInitInv, KeysNextInv, PTL DEF KeysSpec

(***************************************************************************)
(* Usage.  What fetch_many returns is recent, for any lifetime of an entry *)
(* and any overlapping calls.                                              *)
(***************************************************************************)
\* An entry is stored with a date at which its account had not yet answered.
DatedEarly ==
    \A h \in Plans :
        cache[h] # Absent =>
            /\ cache[h].at <= moment
            /\ cache[h].says \in Moments => cache[h].at <= cache[h].says

\* A call looks accounts up after it began, and has the others from the cache.
AnswersDated ==
    \A p \in Pages :
        /\ begun[p] <= moment
        /\ \A h \in Plans :
               answer[p][h] \in Moments =>
                   /\ begun[p] - answer[p][h] < TTL
                   /\ h \in stale[p] => begun[p] <= answer[p][h]

UInv == UsageTypeOK /\ DatedEarly /\ AnswersDated

\* Moments are numbers, and neither a missing entry nor a failed lookup is one.
LEMMA MomentFacts ==
    /\ Moments \subseteq Nat
    /\ Failed \notin Moments /\ Waiting \notin Moments /\ Failed # Waiting
BY UsageAssumption DEF Moments, Waiting

\* An entry that was stored is not the missing one.
LEMMA StoredIsNotAbsent ==
    ASSUME NEW c \in [at : Moments, says : Answers] \cup {Absent}
    PROVE  c # Absent <=> c \in [at : Moments, says : Answers]
BY MomentFacts DEF Absent

LEMMA UsageInitInv == UsageInit => UInv
<1> SUFFICES ASSUME UsageInit PROVE UInv
    OBVIOUS
<1> USE UsageAssumption, MomentFacts DEF UsageInit
<1>1. UsageTypeOK
    BY DEF UsageTypeOK, Moments
<1>2. DatedEarly
    BY DEF DatedEarly
<1>3. AnswersDated
    <2> SUFFICES ASSUME NEW p \in Pages
                 PROVE  begun[p] <= moment /\ \A h \in Plans : answer[p][h] \notin Moments
        BY DEF AnswersDated
    <2>1. begun[p] = 0 /\ moment = 0
        OBVIOUS
    <2>2. \A h \in Plans : answer[p][h] = Waiting
        OBVIOUS
    <2> QED
        BY <2>1, <2>2
<1> QED
    BY <1>1, <1>2, <1>3 DEF UInv

\* fetch_many up to its await: a fresh entry's answer is no older than its date.
LEMMA AsksInv ==
    ASSUME UInv, NEW q \in Pages, Asks(q)
    PROVE  UInv'
<1> USE MomentFacts, UsageAssumption
<1>1. PICK homes \in SUBSET Plans \ {{}} :
          /\ stale' = [stale EXCEPT ![q] = {h \in homes : ~Fresh(h)}]
          /\ answer' = [answer EXCEPT ![q] =
                 [h \in Plans |-> IF h \in homes /\ Fresh(h) THEN cache[h].says ELSE Waiting]]
          /\ page' = [page EXCEPT ![q] =
                 IF \A h \in homes : Fresh(h) THEN "done" ELSE "asking"]
    BY DEF Asks
<1>2. begun' = [begun EXCEPT ![q] = moment] /\ moment' = moment /\ cache' = cache
    BY DEF Asks
<1>3. ASSUME NEW h \in Plans, Fresh(h)
      PROVE  /\ cache[h] \in [at : Moments, says : Answers]
             /\ cache[h].says \in Moments => moment - cache[h].says < TTL
    <2>1. cache[h] # Absent /\ moment - cache[h].at < TTL
        BY <1>3 DEF Fresh
    <2>2. cache[h] \in [at : Moments, says : Answers]
        BY <2>1, StoredIsNotAbsent DEF UInv, UsageTypeOK
    <2>3. moment \in Nat /\ cache[h].at \in Nat
        BY <2>2 DEF UInv, UsageTypeOK
    <2>4. cache[h].says \in Moments => cache[h].says \in Nat /\ cache[h].at <= cache[h].says
        BY <2>1 DEF UInv, DatedEarly
    <2> QED
        BY <2>1, <2>2, <2>3, <2>4
<1>4. UsageTypeOK'
    <2>1. answer'[q] \in [Plans -> Answers \cup {Waiting}]
        BY <1>1, <1>3 DEF UInv, UsageTypeOK
    <2>2. page'[q] = "done" => stale'[q] = {}
        BY <1>1 DEF UInv, UsageTypeOK
    <2> QED
        BY <1>1, <1>2, <2>1, <2>2 DEF UInv, UsageTypeOK
<1>5. DatedEarly'
    BY <1>2 DEF UInv, DatedEarly
<1>6. AnswersDated'
    <2> SUFFICES ASSUME NEW p \in Pages
                 PROVE  /\ begun'[p] <= moment'
                        /\ \A h \in Plans :
                               answer'[p][h] \in Moments =>
                                   /\ begun'[p] - answer'[p][h] < TTL
                                   /\ h \in stale'[p] => begun'[p] <= answer'[p][h]
        BY DEF AnswersDated
    <2>1. CASE p # q
        BY <2>1, <1>1, <1>2 DEF UInv, UsageTypeOK, AnswersDated
    <2>2. CASE p = q
        <3>1. begun'[p] = moment /\ moment \in Nat
            BY <2>2, <1>2 DEF UInv, UsageTypeOK
        <3>2. ASSUME NEW h \in Plans, answer'[p][h] \in Moments
              PROVE  h \in homes /\ Fresh(h) /\ answer'[p][h] = cache[h].says
            BY <3>2, <2>2, <1>1 DEF UInv, UsageTypeOK
        <3>3. \A h \in Plans : Fresh(h) => h \notin stale'[p]
            BY <2>2, <1>1 DEF UInv, UsageTypeOK
        <3> QED
            BY <3>1, <3>2, <3>3, <1>2, <1>3
    <2> QED
        BY <2>1, <2>2
<1> QED
    BY <1>4, <1>5, <1>6 DEF UInv

\* A lookup's answer is as new as the moment it comes.
LEMMA AnsweredInv ==
    ASSUME UInv, NEW q \in Pages, NEW g \in Plans, Answered(q, g)
    PROVE  UInv'
<1> USE MomentFacts, UsageAssumption
<1>1. PICK a \in {moment, Failed} : answer' = [answer EXCEPT ![q][g] = a]
    BY DEF Answered
<1>2. UNCHANGED <<moment, cache, page, begun, stale>> /\ page[q] = "asking"
    BY DEF Answered
<1>3. a \in Answers
    BY DEF UInv, UsageTypeOK, Answers
<1>4. UsageTypeOK'
    BY <1>1, <1>2, <1>3 DEF UInv, UsageTypeOK
<1>5. DatedEarly'
    BY <1>2 DEF UInv, DatedEarly
<1>6. AnswersDated'
    <2> SUFFICES ASSUME NEW p \in Pages, NEW h \in Plans, answer'[p][h] \in Moments
                 PROVE  /\ begun[p] - answer'[p][h] < TTL
                        /\ h \in stale[p] => begun[p] <= answer'[p][h]
        BY <1>2 DEF UInv, AnswersDated
    <2>1. begun[p] \in Nat /\ moment \in Nat /\ begun[p] <= moment
        BY DEF UInv, UsageTypeOK, AnswersDated
    <2>2. CASE p = q /\ h = g
        <3>1. answer'[p][h] = a
            BY <2>2, <1>1 DEF UInv, UsageTypeOK
        <3>2. a = moment
            BY <3>1
        <3> QED
            BY <2>1, <3>1, <3>2
    <2>3. CASE ~(p = q /\ h = g)
        BY <2>3, <1>1 DEF UInv, UsageTypeOK, AnswersDated
    <2> QED
        BY <2>2, <2>3
<1> QED
    BY <1>4, <1>5, <1>6 DEF UInv

\* What gather brought is stored with the date of the call.
LEMMA StoresInv ==
    ASSUME UInv, NEW q \in Pages, Stores(q)
    PROVE  UInv'
<1> USE MomentFacts, UsageAssumption
<1>1. /\ cache' = [h \in Plans |-> IF h \in stale[q]
                                     THEN [at |-> begun[q], says |-> answer[q][h]]
                                     ELSE cache[h]]
      /\ page' = [page EXCEPT ![q] = "done"]
      /\ \A h \in stale[q] : answer[q][h] # Waiting
      /\ UNCHANGED <<moment, begun, stale, answer>>
    BY DEF Stores, Stamp
<1>2. \A h \in stale[q] : h \in Plans /\ answer[q][h] \in Answers
    BY <1>1 DEF UInv, UsageTypeOK
<1>3. UsageTypeOK'
    BY <1>1, <1>2 DEF UInv, UsageTypeOK
<1>4. DatedEarly'
    BY <1>1, <1>2 DEF UInv, UsageTypeOK, DatedEarly, AnswersDated
<1>5. AnswersDated'
    BY <1>1 DEF UInv, AnswersDated
<1> QED
    BY <1>3, <1>4, <1>5 DEF UInv

LEMMA UsageNextInv == UInv /\ [UsageNext]_usageVars => UInv'
<1> SUFFICES ASSUME UInv, [UsageNext]_usageVars PROVE UInv'
    OBVIOUS
<1> USE MomentFacts, UsageAssumption
<1>1. CASE Elapses
    <2>1. moment \in Nat /\ moment' = moment + 1 /\ moment' \in Moments
        BY <1>1 DEF Elapses, UInv, UsageTypeOK, Moments
    <2>2. UNCHANGED <<cache, page, begun, stale, answer>>
        BY <1>1 DEF Elapses
    <2>3. UsageTypeOK'
        BY <2>1, <2>2 DEF UInv, UsageTypeOK
    <2>4. DatedEarly'
        <3> SUFFICES ASSUME NEW h \in Plans, cache[h] # Absent
                     PROVE  /\ cache[h].at <= moment'
                            /\ cache[h].says \in Moments => cache[h].at <= cache[h].says
            BY <2>2 DEF DatedEarly
        <3>1. cache[h] \in [at : Moments, says : Answers]
            BY StoredIsNotAbsent DEF UInv, UsageTypeOK
        <3>2. cache[h].at \in Nat
            BY <3>1
        <3> QED
            BY <2>1, <3>2 DEF UInv, DatedEarly
    <2>5. AnswersDated'
        <3>1. \A p \in Pages : begun[p] \in Nat /\ begun[p] <= moment
            BY DEF UInv, UsageTypeOK, AnswersDated
        <3>2. \A p \in Pages : begun[p] <= moment'
            BY <2>1, <3>1
        <3> QED
            BY <2>2, <3>2 DEF UInv, AnswersDated
    <2> QED
        BY <2>3, <2>4, <2>5 DEF UInv
<1>2. CASE \E p \in Pages : Asks(p)
    BY <1>2, AsksInv
<1>3. CASE \E p \in Pages : Stores(p)
    BY <1>3, StoresInv
<1>4. CASE \E p \in Pages : GivenUp(p)
    BY <1>4 DEF GivenUp, UInv, UsageTypeOK, DatedEarly, AnswersDated
<1>5. CASE \E p \in Pages, h \in Plans : Answered(p, h)
    BY <1>5, AnsweredInv
<1>6. CASE UNCHANGED usageVars
    BY <1>6 DEF usageVars, UInv, UsageTypeOK, DatedEarly, AnswersDated, Fresh
<1> QED
    BY <1>1, <1>2, <1>3, <1>4, <1>5, <1>6 DEF UsageNext

\* fetch_many: what it returns was said less than TTL before it was called.
THEOREM UsageIsRecent == UsageSpec => []AnswersAreRecent
<1>1. UInv => AnswersAreRecent
    BY DEF UInv, AnswersDated, AnswersAreRecent
<1> QED
    BY <1>1, UsageInitInv, UsageNextInv, PTL DEF UsageSpec

(***************************************************************************)
(* Statistics.  What holds of a row of image_requests at time t: it has    *)
(* been served or failed, not both; it names its account exactly from      *)
(* then on; and only a row past its retention is marked expired.           *)
(***************************************************************************)
Row == [at : Nat, done : Nat, home : Homes, count : Counts,
        status : {"queued", "succeeded", "failed", "expired"}, error : BOOLEAN,
        reset : Nat, served : Nat]

Entry(row, t) ==
    /\ row.at <= row.done /\ row.done <= t
    /\ row.served \in {0, row.count}
    /\ row.served > 0 =>
           ~row.error /\ row.home \in Accounts /\ row.status \in {"succeeded", "expired"}
    /\ row.home \in Accounts /\ ~row.error => row.served > 0
    /\ row.status = "succeeded" => row.served > 0
    /\ row.status = "failed" => row.error
    /\ row.error => row.status \in {"failed", "expired"}
    /\ row.status = "expired" => row.at + Retention <= t

Logged ==
    /\ clock \in 0..MaxClock
    /\ inserted \in Len(log)..MaxRows
    /\ log \in Seq(Row)
    /\ \A i \in 1..Len(log) : Entry(log[i], clock)
    /\ \A i, j \in 1..Len(log) : i <= j => log[i].at <= log[j].at

LEMMA StatsBounds ==
    /\ Hour \in Nat \ {0} /\ Day \in Nat \ {0} /\ Points \in Nat \ {0} /\ Days \in Nat \ {0}
    /\ Zone \in Nat /\ Retention \in Nat /\ Near \in Nat /\ MaxRows \in Nat
    /\ FullBy \in Nat /\ MaxClock \in Nat
    /\ \A n \in Counts : n \in Nat /\ n > 0
    /\ \A w \in Waits : w \in Nat /\ w > 0
    /\ Unknown \notin Accounts
<1>1. /\ Hour \in Nat \ {0} /\ Day \in Nat \ {0} /\ Points \in Nat \ {0} /\ Days \in Nat \ {0}
      /\ Zone \in Nat /\ Retention \in Nat /\ Near \in Nat /\ MaxRows \in Nat
      /\ FullBy \in Nat /\ MaxClock \in Nat
    BY StatisticsAssumption
<1>2. /\ \A n \in Counts : n \in Nat \ {0}
      /\ \A w \in Waits : w \in Nat \ {0}
      /\ Unknown \notin Accounts
    BY StatisticsAssumption
<1>3. \A n \in Nat \ {0} : n > 0
    OBVIOUS
<1>4. QED
    BY <1>1, <1>2, <1>3

LEMMA LogFacts ==
    ASSUME Logged
    PROVE  /\ Len(log) \in Nat /\ DOMAIN log = 1..Len(log) /\ clock \in Nat
           /\ \A i \in 1..Len(log) : log[i] \in Row /\ Entry(log[i], clock)
BY StatsBounds DEF Logged

LEMMA StatsInitInv == StatsInit => Logged
    BY StatsBounds DEF StatsInit, Logged

\* A row written over with one that is as old.
LEMMA WriteRow ==
    ASSUME Logged, NEW i \in 1..Len(log), NEW row \in Row, row.at = log[i].at, Entry(row, clock),
           log' = [log EXCEPT ![i] = row], UNCHANGED <<clock, inserted>>
    PROVE  Logged'
<1>1. /\ Len(log) \in Nat /\ DOMAIN log = 1..Len(log)
      /\ \A j \in 1..Len(log) : log[j] \in Row
    BY LogFacts
<1>2. log' \in Seq(Row) /\ Len(log') = Len(log)
    BY <1>1 DEF Logged
<1>3. \A j \in 1..Len(log) : log'[j] = IF j = i THEN row ELSE log[j]
    BY <1>1
<1>4. \A j \in 1..Len(log) : log'[j].at = log[j].at
    BY <1>3
<1>5. QED
    BY <1>1, <1>2, <1>3, <1>4 DEF Logged

LEMMA StatsNextInv == Logged /\ [StatsNext]_statVars => Logged'
<1> SUFFICES ASSUME Logged, [StatsNext]_statVars PROVE Logged'
    OBVIOUS
<1> USE LogFacts, StatsBounds
<1>1. CASE RowInserted
    <2>1. PICK n \in Counts :
             log' = Append(log, [at |-> clock, done |-> clock, home |-> Unknown,
                                 count |-> n, status |-> "queued", error |-> FALSE,
                                 reset |-> 0, served |-> 0])
        BY <1>1 DEF RowInserted
    <2> DEFINE row == [at |-> clock, done |-> clock, home |-> Unknown,
                       count |-> n, status |-> "queued", error |-> FALSE,
                       reset |-> 0, served |-> 0]
    <2>2. row \in Row /\ Entry(row, clock) /\ row.at = clock
        BY DEF Row, Entry, Homes
    <2>3. log' = Append(log, row)
        BY <2>1
    <2> HIDE DEF row
    <2>4. /\ log' \in Seq(Row) /\ Len(log') = Len(log) + 1
          /\ \A i \in 1..Len(log) : log'[i] = log[i]
          /\ log'[Len(log) + 1] = row
        BY <2>2, <2>3, AppendProperties DEF Logged
    <2>5. UNCHANGED clock /\ inserted' = inserted + 1 /\ inserted < MaxRows
        BY <1>1 DEF RowInserted
    <2>6. \A i \in 1..Len(log') : i \in 1..Len(log) \/ i = Len(log) + 1
        BY <2>4
    <2>7. \A i \in 1..Len(log') : Entry(log'[i], clock)
        BY <2>2, <2>4, <2>6
    <2>8. ASSUME NEW i \in 1..Len(log'), NEW j \in 1..Len(log'), i <= j
          PROVE  log'[i].at <= log'[j].at
        <3>1. CASE j \in 1..Len(log)
            <4>1. i \in 1..Len(log)
                BY <2>4, <2>8, <3>1
            <4>2. QED
                BY <2>4, <2>8, <3>1, <4>1 DEF Logged
        <3>2. CASE j = Len(log) + 1
            <4>1. log'[j].at = clock
                BY <2>2, <2>4, <3>2
            <4>2. CASE i = j
                BY <4>1, <4>2
            <4>3. CASE i # j
                <5>1. i \in 1..Len(log) /\ log'[i] = log[i]
                    BY <2>4, <2>6, <3>2, <4>3
                <5>2. log[i].at \in Nat /\ log[i].done \in Nat
                      /\ log[i].at <= log[i].done /\ log[i].done <= clock
                    BY <5>1 DEF Row, Entry
                <5>3. QED
                    BY <4>1, <5>1, <5>2
            <4>4. QED
                BY <4>2, <4>3
        <3>3. QED
            BY <2>6, <3>1, <3>2
    <2>9. inserted' \in Len(log')..MaxRows
        BY <2>4, <2>5 DEF Logged
    <2>10. QED
        BY <2>4, <2>5, <2>7, <2>8, <2>9 DEF Logged
<1>2. CASE Passes
    <2>1. \A i \in 1..Len(log) : Entry(log[i], clock + 1)
        BY DEF Entry, Row
    <2>2. QED
        BY <1>2, <2>1 DEF Passes, Logged
<1>3. ASSUME NEW i \in DOMAIN log, RowSucceeds(i) PROVE Logged'
    <2>1. PICK h \in Accounts :
             log' = [log EXCEPT ![i].status = "succeeded", ![i].home = h,
                                ![i].done = clock, ![i].served = log[i].count]
        BY <1>3 DEF RowSucceeds
    <2> DEFINE row == [log[i] EXCEPT !.status = "succeeded", !.home = h, !.done = clock,
                                     !.served = log[i].count]
    <2>2. log' = [log EXCEPT ![i] = row]
        BY <2>1, <1>3
    <2>3. log[i] \in Row /\ Entry(log[i], clock) /\ i \in 1..Len(log)
        BY <1>3
    <2>4. row \in Row /\ row.at = log[i].at
        BY <2>3 DEF Row, Homes
    <2>5. Entry(row, clock)
        BY <1>3, <2>3 DEF Row, Entry, RowSucceeds
    <2>6. UNCHANGED <<clock, inserted>>
        BY <1>3 DEF RowSucceeds
    <2> HIDE DEF row
    <2>7. QED
        BY <2>2, <2>3, <2>4, <2>5, <2>6, WriteRow
<1>4. ASSUME NEW i \in DOMAIN log, RowFails(i) PROVE Logged'
    <2>1. PICK h \in Homes, w \in {0} \cup Waits :
             log' = [log EXCEPT ![i].status = "failed", ![i].error = TRUE, ![i].home = h,
                                ![i].reset = IF w = 0 THEN 0 ELSE clock + w]
        BY <1>4 DEF RowFails
    <2> DEFINE r == IF w = 0 THEN 0 ELSE clock + w
               row == [log[i] EXCEPT !.status = "failed", !.error = TRUE, !.home = h,
                                     !.reset = r]
    <2>2. log' = [log EXCEPT ![i] = row]
        BY <2>1, <1>4
    <2>3. log[i] \in Row /\ Entry(log[i], clock) /\ i \in 1..Len(log) /\ r \in Nat
        BY <1>4
    <2> HIDE DEF r
    <2>4. row \in Row /\ row.at = log[i].at
        BY <2>3 DEF Row, Homes
    <2>5. Entry(row, clock)
        BY <1>4, <2>3 DEF Row, Entry, RowFails
    <2>6. UNCHANGED <<clock, inserted>>
        BY <1>4 DEF RowFails
    <2> HIDE DEF row
    <2>7. QED
        BY <2>2, <2>3, <2>4, <2>5, <2>6, WriteRow
<1>5. ASSUME NEW i \in DOMAIN log, RowExpired(i) PROVE Logged'
    <2> DEFINE row == [log[i] EXCEPT !.status = "expired"]
    <2>2. log' = [log EXCEPT ![i] = row]
        BY <1>5 DEF RowExpired
    <2>3. log[i] \in Row /\ Entry(log[i], clock) /\ i \in 1..Len(log)
        BY <1>5
    <2>4. row \in Row /\ row.at = log[i].at
        BY <2>3 DEF Row, Homes
    <2>5. Entry(row, clock)
        BY <1>5, <2>3 DEF Row, Entry, RowExpired
    <2>6. UNCHANGED <<clock, inserted>>
        BY <1>5 DEF RowExpired
    <2> HIDE DEF row
    <2>7. QED
        BY <2>2, <2>3, <2>4, <2>5, <2>6, WriteRow
<1>6. ASSUME NEW k \in DOMAIN log, RowRemoved(k) PROVE Logged'
    <2>1. log' = RemoveAt(log, k) /\ UNCHANGED <<clock, inserted>> /\ k \in 1..Len(log)
        BY <1>6 DEF RowRemoved
    <2>2. /\ log' \in Seq(Row) /\ Len(log') = Len(log) - 1
          /\ \A i \in 1..(Len(log) - 1) : log'[i] = IF i < k THEN log[i] ELSE log[i + 1]
        BY <2>1, RemovedAt DEF Logged
    <2> DEFINE At(i) == IF i < k THEN i ELSE i + 1
    <2>3. \A i \in 1..Len(log') : At(i) \in 1..Len(log) /\ log'[i] = log[At(i)]
        BY <2>1, <2>2
    <2>4. \A i, j \in 1..Len(log') : i <= j => At(i) <= At(j)
        BY <2>1, <2>2
    <2> HIDE DEF At
    <2>5. \A i \in 1..Len(log') : Entry(log'[i], clock)
        BY <2>3
    <2>6. \A i, j \in 1..Len(log') : i <= j => log'[i].at <= log'[j].at
        BY <2>3, <2>4 DEF Logged
    <2>7. inserted' \in Len(log')..MaxRows
        BY <2>1, <2>2 DEF Logged
    <2>8. QED
        BY <2>1, <2>2, <2>5, <2>6, <2>7 DEF Logged
<1>7. CASE UNCHANGED statVars
    BY <1>7 DEF statVars, Logged
<1>8. QED
    BY <1>1, <1>2, <1>3, <1>4, <1>5, <1>6, <1>7 DEF StatsNext

LEMMA LoggedType == Logged => StatsTypeOK
<1> SUFFICES ASSUME Logged PROVE StatsTypeOK
    OBVIOUS
<1>1. clock \in 0..MaxClock /\ inserted \in Len(log)..MaxRows
    BY DEF Logged
<1>2. ASSUME NEW i \in DOMAIN log
      PROVE  /\ log[i].home \in Homes /\ log[i].count \in Counts
             /\ log[i].status \in {"queued", "succeeded", "failed", "expired"}
             /\ log[i].at \in 0..log[i].done /\ log[i].done <= clock
             /\ log[i].served \in {0, log[i].count}
             /\ log[i].served > 0 => ~log[i].error /\ log[i].home \in Accounts
             /\ log[i].status = "succeeded" => log[i].served > 0
             /\ log[i].error => log[i].status \in {"failed", "expired"}
    <2>1. log[i] \in Row /\ Entry(log[i], clock)
        BY LogFacts
    <2>2. QED
        BY <2>1 DEF Row, Entry
<1>3. QED
    BY <1>1, <1>2 DEF StatsTypeOK

\* What the requests an account served asked for is the sum of the rows that the
\* counters take for its successes.
LEMMA ServedIsCounted ==
    ASSUME Logged, NEW h \in Accounts, NEW I \in SUBSET DOMAIN log
    PROVE  Served(h, I) = Sum({i \in I : i \in Successful /\ log[i].home = h})
<1> DEFINE served == [i \in DOMAIN log |-> log[i].served]
           count == [i \in DOMAIN log |-> log[i].count]
           S == {i \in I : log[i].home = h}
           T == {i \in I : i \in Successful /\ log[i].home = h}
<1>1. /\ DOMAIN log = 1..Len(log) /\ Len(log) \in Nat
      /\ \A i \in DOMAIN log : log[i] \in Row /\ Entry(log[i], clock)
    BY LogFacts
<1>2. IsFiniteSet(DOMAIN log)
    BY <1>1, FS_Interval
<1>3. IsFiniteSet(S) /\ IsFiniteSet(T) /\ T \in SUBSET S /\ S \subseteq DOMAIN log
    BY <1>2, FS_Subset
<1>4. \A i \in S : served[i] \in Int
    BY <1>1 DEF Row
<1>5. \A i \in S \ T : served[i] = 0
    BY <1>1, StatsBounds DEF Row, Entry, Successful
<1>6. \A i \in T : served[i] = count[i]
    BY <1>1 DEF Row, Entry, Successful
<1>7. Served(h, I) = SumFunctionOnSet(served, S) /\ Sum(T) = SumFunctionOnSet(count, T)
    BY DEF Served, Sum
<1> HIDE DEF served, count, S, T
<1>8. SumFunctionOnSet(served, S) = SumFunctionOnSet(served, T)
    BY <1>3, <1>4, <1>5, SumWithoutZeros
<1>9. SumFunctionOnSet(served, T) = SumFunctionOnSet(count, T)
    BY <1>3, <1>6, SameSum
<1>10. QED
    BY <1>7, <1>8, <1>9 DEF T

\* Within the retention nothing has been swept.
LEMMA LoggedCards == Logged => CardsRightWithinRetention
<1> SUFFICES ASSUME Logged, NEW h \in Accounts, NEW w \in 1..(Retention - 1)
             PROVE  LET card == Account(h, w)
                        recent == {i \in DOMAIN log : log[i].at >= clock - w}
                    IN  /\ card.images = Served(h, recent)
                        /\ card.failed =
                               Cardinality({i \in recent : log[i].home = h /\ log[i].error})
                        /\ card.succeeded =
                               Cardinality({i \in recent : log[i].home = h /\ log[i].served > 0})
    BY DEF CardsRightWithinRetention
<1> DEFINE recent == {i \in DOMAIN log : log[i].at >= clock - w}
           within(S) == {i \in DOMAIN log : /\ log[i].at >= clock - w /\ log[i].home = h
                                            /\ log[i].status \in S}
           good == within({"succeeded"})
           bad == within({"failed"})
<1>1. \A i \in DOMAIN log : log[i] \in Row /\ Entry(log[i], clock)
    BY LogFacts
<1>2. \A i \in recent : log[i].status # "expired"
    <2>1. SUFFICES ASSUME NEW i \in recent, log[i].status = "expired" PROVE FALSE
        OBVIOUS
    <2>2. log[i].at \in Nat /\ log[i].at + Retention <= clock /\ log[i].at >= clock - w
        BY <1>1, <2>1 DEF Row, Entry
    <2>3. clock \in Nat /\ w \in Nat /\ w < Retention /\ Retention \in Nat
        BY StatsBounds, LogFacts
    <2>4. QED
        BY <2>2, <2>3
<1>3. good = {i \in recent : i \in Successful /\ log[i].home = h}
    BY <1>1, <1>2 DEF Row, Entry, Successful
<1>4. good = {i \in recent : log[i].home = h /\ log[i].served > 0}
    BY <1>1, <1>2 DEF Row, Entry
<1>5. bad = {i \in recent : log[i].home = h /\ log[i].error}
    BY <1>1, <1>2 DEF Row, Entry
<1>6. Account(h, w) = [succeeded |-> Cardinality(good),
                       failed |-> Cardinality(bad),
                       images |-> Sum(good)]
    BY DEF Account
<1>7. Served(h, recent) = Sum({i \in recent : i \in Successful /\ log[i].home = h})
    BY ServedIsCounted
<1> HIDE DEF good, bad
<1>8. /\ Account(h, w).images = Served(h, recent)
      /\ Account(h, w).failed = Cardinality({i \in recent : log[i].home = h /\ log[i].error})
      /\ Account(h, w).succeeded =
             Cardinality({i \in recent : log[i].home = h /\ log[i].served > 0})
    <2> HIDE DEF recent
    <2>1. /\ Account(h, w).images = Sum(good) /\ Account(h, w).failed = Cardinality(bad)
          /\ Account(h, w).succeeded = Cardinality(good)
        BY <1>6
    <2>2. Sum(good) = Served(h, recent)
        BY <1>3, <1>7
    <2>3. Cardinality(bad) = Cardinality({i \in recent : log[i].home = h /\ log[i].error})
        BY <1>5
    <2>4. Cardinality(good) = Cardinality({i \in recent : log[i].home = h /\ log[i].served > 0})
        BY <1>4
    <2>5. QED
        BY <2>1, <2>2, <2>3, <2>4
<1>9. QED
    BY <1>8

(***************************************************************************)
(* The charts.  A whole hour within the cut-off is shown as it was.        *)
(***************************************************************************)

\* The hour of a time, by what it means.
LEMMA HourBounds ==
    ASSUME NEW t \in Nat
    PROVE  /\ HourOf(t) \in Nat
           /\ HourOf(t) * Hour <= t /\ t < HourOf(t) * Hour + Hour
<1> DEFINE d == Hour
<1>1. d \in Nat \ {0}
    BY StatsBounds
<1> HIDE DEF d
<1>2. t \div d \in Nat /\ (t \div d) * d <= t /\ t < (t \div d) * d + d
    BY <1>1, SMTT(20)
<1>3. QED
    BY <1>2 DEF HourOf, d

LEMMA DateBounds ==
    ASSUME NEW x \in Nat
    PROVE  /\ DateOf(x) \in Nat
           /\ DateOf(x) * Day <= x + Zone /\ x + Zone < DateOf(x) * Day + Day
<1> DEFINE d == Day
           t == x + Zone
<1>1. d \in Nat \ {0} /\ t \in Nat
    BY StatsBounds
<1> HIDE DEF d, t
<1>2. t \div d \in Nat /\ (t \div d) * d <= t /\ t < (t \div d) * d + d
    BY <1>1, SMTT(20)
<1>3. QED
    BY <1>2 DEF DateOf, d, t

LEMMA Multiples ==
    ASSUME NEW a \in Int, NEW b \in Int, NEW d \in Nat, a <= b
    PROVE  a * d <= b * d
    BY SMTT(20)

\* An hour not older than the n-th before the clock's is within m hours, m >= n.
LEMMA CutOff ==
    ASSUME Logged, NEW n \in Nat, NEW m \in Nat, n <= m,
           NEW hour \in Int, hour >= HourOf(clock) - n + 1
    PROVE  clock - m * Hour <= hour * Hour
<1> DEFINE d == Hour
           c == HourOf(clock)
<1>1. d \in Nat /\ c \in Int /\ clock \in Nat /\ clock < c * d + d
    BY StatsBounds, LogFacts, HourBounds
<1>2. hour >= c - n + 1
    OBVIOUS
<1> HIDE DEF d, c
<1>3. c + 1 <= hour + m /\ c + 1 \in Int /\ hour + m \in Int
    BY <1>1, <1>2
<1>4. (c + 1) * d <= (hour + m) * d
    BY <1>1, <1>3, Multiples
<1>5. (c + 1) * d = c * d + d /\ (hour + m) * d = hour * d + m * d
    BY <1>1, SMTT(20)
<1>6. c * d \in Int /\ hour * d \in Int /\ m * d \in Int
    BY <1>1
<1>7. clock - m * d <= hour * d
    BY <1>1, <1>4, <1>5, <1>6
<1>8. QED
    BY <1>7 DEF d

\* What hourly_images reports for an hour that is whole within its cut-off.
LEMMA HourShown ==
    ASSUME Logged, NEW h \in Accounts, NEW hours \in Nat, NEW hour \in Int,
           clock - hours * Hour <= hour * Hour
    PROVE  HourlyImages(hours, h, hour) = Served(h, {j \in DOMAIN log : HourOf(log[j].at) = hour})
<1> DEFINE I == {j \in DOMAIN log : HourOf(log[j].at) = hour}
           cut == clock - hours * Hour
           from == hour * Hour
<1>1. cut \in Int /\ from \in Int /\ cut <= from
    BY LogFacts, StatsBounds
<1>2. ASSUME NEW j \in I PROVE log[j].at >= cut
    <2>1. log[j].at \in Nat
        BY LogFacts DEF Row
    <2>2. from <= log[j].at
        BY <2>1, HourBounds
    <2> HIDE DEF cut, from
    <2>3. QED
        BY <1>1, <2>1, <2>2
<1>3. {i \in Successful : /\ log[i].at >= cut
                          /\ log[i].home = h
                          /\ HourOf(log[i].at) = hour} =
      {i \in I : i \in Successful /\ log[i].home = h}
    BY <1>2 DEF Successful
<1>4. Served(h, I) = Sum({i \in I : i \in Successful /\ log[i].home = h})
    BY ServedIsCounted
<1>5. QED
    BY <1>3, <1>4 DEF HourlyImages

\* The rows of an hour k, and those of the hours of X.
InHour(k) == {j \in DOMAIN log : HourOf(log[j].at) = k}
InHours(X, hour) == {j \in DOMAIN log : \E x \in X : HourOf(log[j].at) = hour[x]}

\* Different hours, each as it was, add up to what was served in all of them.
LEMMA HoursAddUp ==
    ASSUME Logged, NEW h \in Accounts, NEW X, IsFiniteSet(X), NEW hour,
           \A x, y \in X : x # y => hour[x] # hour[y],
           NEW g,
           \A x \in X : g[x] = Served(h, InHour(hour[x]))
    PROVE  SumFunctionOnSet(g, X) = Served(h, InHours(X, hour))
<1> USE DEF InHour, InHours
<1> DEFINE served == [i \in DOMAIN log |-> log[i].served]
           S == {j \in DOMAIN log : log[j].home = h}
           P == [x \in X |-> {j \in S : HourOf(log[j].at) = hour[x]}]
<1>1. IsFiniteSet(S) /\ \A j \in S : served[j] \in Int
    <2>1. IsFiniteSet(DOMAIN log)
        BY LogFacts, FS_Interval
    <2>2. QED
        BY <2>1, LogFacts, FS_Subset DEF Row
<1>2. P \in [X -> SUBSET S] /\ \A x, y \in X : x # y => P[x] \cap P[y] = {}
    OBVIOUS
<1>3. ASSUME NEW x \in X PROVE g[x] = SumFunctionOnSet(served, P[x])
    <2>1. P[x] = {i \in {j \in DOMAIN log : HourOf(log[j].at) = hour[x]} : log[i].home = h}
        OBVIOUS
    <2>2. Served(h, {j \in DOMAIN log : HourOf(log[j].at) = hour[x]}) = SumFunctionOnSet(served, P[x])
        BY <2>1 DEF Served
    <2>3. QED
        BY <2>2
<1>4. UNION {P[x] : x \in X} =
          {i \in {j \in DOMAIN log : \E x \in X : HourOf(log[j].at) = hour[x]} : log[i].home = h}
    OBVIOUS
<1>5. Served(h, {j \in DOMAIN log : \E x \in X : HourOf(log[j].at) = hour[x]}) =
          SumFunctionOnSet(served, UNION {P[x] : x \in X})
    BY <1>4 DEF Served
<1> HIDE DEF served, S, P
<1>6. SumFunctionOnSet(g, X) = SumFunctionOnSet(served, UNION {P[x] : x \in X})
    BY <1>1, <1>2, <1>3, SumOfParts
<1>7. QED
    BY <1>5, <1>6

LEMMA PerHourAt ==
    ASSUME NEW h, NEW x \in 1..(Points + Day - 1)
    PROVE  PerHour(h)[x] = HourlyImages(Points + Day, h, Oldest + x)
    BY DEF PerHour

LEMMA LoggedRolling ==
    ASSUME Logged, NEW h \in Accounts, NEW i \in 1..Points, NEW end,
           end = HourOf(clock) - (Points - i)
    PROVE  Rolling(h)[i] =
               Served(h, {j \in DOMAIN log : HourOf(log[j].at) \in (end - Day + 1)..end})
<1> DEFINE c == HourOf(clock)
           n == Points + Day
           oldest == c - (n - 1)
           X == i..(i + Day - 1)
           perHour == PerHour(h)
           hour == [x \in X |-> oldest + x]
<1>1. /\ c \in Nat /\ Points \in Nat \ {0} /\ Day \in Nat \ {0} /\ n \in Nat /\ oldest \in Int
      /\ i \in 1..Points /\ end = c - (Points - i)
    BY StatsBounds, LogFacts, HourBounds
<1>2. Rolling(h)[i] = SumFunctionOnSet(perHour, X)
    BY DEF Rolling
<1>3. ASSUME NEW x \in X
      PROVE  perHour[x] = Served(h, {j \in DOMAIN log : HourOf(log[j].at) = hour[x]})
    <2>1. x \in 1..(n - 1) /\ oldest + x \in Int /\ oldest + x >= c - n + 1
        BY <1>1
    <2>0. perHour[x] = HourlyImages(Points + Day, h, Oldest + x)
        <3>1. x \in 1..(Points + Day - 1)
            BY <1>1, <2>1
        <3>2. QED
            BY <3>1, PerHourAt
    <2>2. clock - n * Hour <= (oldest + x) * Hour
        <3> HIDE DEF oldest, n
        <3>1. n <= n
            BY <1>1
        <3>2. QED
            BY <1>1, <2>1, <3>1, CutOff DEF c
    <2> HIDE DEF oldest, n, c
    <2>3. HourlyImages(n, h, oldest + x) =
             Served(h, {j \in DOMAIN log : HourOf(log[j].at) = oldest + x})
        BY <1>1, <2>1, <2>2, HourShown
    <2>4. perHour[x] = HourlyImages(n, h, oldest + x) /\ hour[x] = oldest + x
        <3>1. Oldest = oldest /\ Points + Day = n
            BY <1>1 DEF Oldest, oldest, n, c
        <3>2. QED
            BY <2>0, <3>1
    <2>5. QED
        BY <2>3, <2>4
<1>4. IsFiniteSet(X) /\ \A x, y \in X : x # y => hour[x] # hour[y]
    <2>1. IsFiniteSet(X)
        BY <1>1, FS_Interval
    <2>2. \A x, y \in X : x # y => hour[x] # hour[y]
        <3> HIDE DEF oldest
        <3>1. QED
            BY <1>1
    <2>3. QED
        BY <2>1, <2>2
<1>5. ASSUME NEW t \in Nat PROVE (\E x \in X : t = hour[x]) <=> t \in (end - Day + 1)..end
    <2>1. ASSUME NEW x \in X, t = hour[x] PROVE t \in (end - Day + 1)..end
        BY <1>1, <2>1
    <2>2. ASSUME t \in (end - Day + 1)..end PROVE \E x \in X : t = hour[x]
        <3>1. t - oldest \in X /\ oldest + (t - oldest) = t
            BY <1>1, <2>2
        <3> HIDE DEF oldest, X
        <3>2. hour[t - oldest] = t
            BY <3>1
        <3> HIDE DEF hour
        <3>3. QED
            BY <3>1, <3>2
    <2>3. QED
        BY <2>1, <2>2
<1>6. {j \in DOMAIN log : \E x \in X : HourOf(log[j].at) = hour[x]} =
      {j \in DOMAIN log : HourOf(log[j].at) \in (end - Day + 1)..end}
    <2>1. \A j \in DOMAIN log : HourOf(log[j].at) \in Nat
        BY LogFacts, HourBounds DEF Row
    <2> HIDE DEF X, hour
    <2>2. QED
        BY <1>5, <2>1
<1> HIDE DEF X, hour, perHour
<1>7. \A x \in X : perHour[x] = Served(h, InHour(hour[x]))
    BY <1>3 DEF InHour
<1>8. SumFunctionOnSet(perHour, X) = Served(h, InHours(X, hour))
    BY <1>4, <1>7, HoursAddUp
<1>9. QED
    BY <1>2, <1>6, <1>8 DEF InHours

LEMMA LoggedDaily ==
    ASSUME Logged, NEW h \in Accounts,
           NEW date \in (DateOf(HourOf(clock)) - Days + 1)..DateOf(HourOf(clock))
    PROVE  Daily(h, date) = Served(h, {j \in DOMAIN log : DateOf(HourOf(log[j].at)) = date})
<1> DEFINE c == HourOf(clock)
           today == DateOf(c)
           n == Days * Day
           m == n + Zone
           X == {x \in 0..c : DateOf(x) = date}
           perHour == [x \in X |-> HourlyImages(m, h, x)]
           hour == [x \in X |-> x]
<1>1. /\ c \in Nat /\ n \in Nat /\ m \in Nat /\ n <= m
    <2>1. Days \in Nat /\ Day \in Nat /\ Zone \in Nat /\ c \in Nat
        BY StatsBounds, LogFacts, HourBounds
    <2>2. n \in Nat
        BY <2>1, SMTT(20)
    <2> HIDE DEF n, c
    <2>3. QED
        BY <2>1, <2>2
<1>2. Daily(h, date) = SumFunctionOnSet(perHour, X)
    BY DEF Daily
<1>3. ASSUME NEW x \in X PROVE x >= c - n + 1
    <2> DEFINE d == Day
               a == Days
    <2>1. /\ d \in Nat \ {0} /\ a \in Nat /\ Zone \in Nat /\ x \in Nat
          /\ c + Zone < today * d + d /\ date * d <= x + Zone /\ today \in Nat
        BY <1>1, StatsBounds, DateBounds
    <2>2. date \in Int /\ today - a + 1 <= date
        BY <2>1
    <2>3. n = a * d
        OBVIOUS
    <2> HIDE DEF today, d, a, n, c
    <2>4. (today - a + 1) * d <= date * d
        BY <2>1, <2>2, Multiples, today - a + 1 \in Int
    <2>5. (today - a + 1) * d = today * d - a * d + d
        BY <2>1, SMTT(20)
    <2>6. today * d \in Int /\ a * d \in Int /\ date * d \in Int
        BY <2>1, <2>2
    <2>7. QED
        BY <1>1, <2>1, <2>3, <2>4, <2>5, <2>6
<1>4. ASSUME NEW x \in X
      PROVE  perHour[x] = Served(h, {j \in DOMAIN log : HourOf(log[j].at) = hour[x]})
    <2>1. x \in Int /\ x >= c - n + 1
        BY <1>1, <1>3
    <2> HIDE DEF n, m
    <2>2. clock - m * Hour <= x * Hour
        BY <1>1, <2>1, CutOff
    <2>3. HourlyImages(m, h, x) = Served(h, {j \in DOMAIN log : HourOf(log[j].at) = x})
        BY <1>1, <2>1, <2>2, HourShown
    <2>4. QED
        BY <2>3
<1>5. IsFiniteSet(X) /\ \A x, y \in X : x # y => hour[x] # hour[y]
    <2>1. IsFiniteSet(0..c) /\ X \subseteq 0..c
        BY <1>1, FS_Interval
    <2>2. QED
        BY <2>1, FS_Subset
<1>6. {j \in DOMAIN log : \E x \in X : HourOf(log[j].at) = hour[x]} =
      {j \in DOMAIN log : DateOf(HourOf(log[j].at)) = date}
    <2>1. ASSUME NEW j \in DOMAIN log PROVE HourOf(log[j].at) \in 0..c
        <3>1. log[j].at \in Nat /\ log[j].at <= clock /\ clock \in Nat
            BY LogFacts DEF Row, Entry
        <3> DEFINE a == log[j].at
                   d == Hour
                   x == HourOf(a)
        <3>2. x \in Nat /\ x * d <= a /\ clock < c * d + d /\ a <= clock /\ d \in Nat \ {0}
              /\ a \in Nat
            BY <3>1, HourBounds, StatsBounds
        <3> HIDE DEF a, d, x, c
        <3>3. ASSUME x > c PROVE FALSE
            <4>1. (c + 1) * d <= x * d
                BY <1>1, <3>2, <3>3, Multiples, c + 1 \in Int, c + 1 <= x
            <4>2. (c + 1) * d = c * d + d /\ c * d \in Int /\ x * d \in Int
                BY <1>1, <3>2, SMTT(20)
            <4>3. QED
                BY <3>1, <3>2, <4>1, <4>2
        <3>4. x \in 0..c
            BY <1>1, <3>2, <3>3
        <3>5. QED
            BY <3>4 DEF x, a
    <2>2. QED
        BY <2>1
<1> HIDE DEF X, hour, perHour
<1>7. \A x \in X : perHour[x] = Served(h, InHour(hour[x]))
    BY <1>4 DEF InHour
<1>8. SumFunctionOnSet(perHour, X) = Served(h, InHours(X, hour))
    BY <1>5, <1>7, HoursAddUp
<1>9. QED
    BY <1>2, <1>6, <1>8 DEF InHours

LEMMA LoggedCharts == Logged => ChartsShowWhatWasServed
<1> SUFFICES ASSUME Logged PROVE ChartsShowWhatWasServed
    OBVIOUS
<1>1. ASSUME NEW h \in Accounts,
             NEW hour \in (HourOf(clock) - Day + 1)..HourOf(clock)
      PROVE  Hourly(h, hour) = Served(h, {j \in DOMAIN log : HourOf(log[j].at) = hour})
    <2>1. HourOf(clock) \in Nat /\ Day \in Nat
        BY LogFacts, HourBounds, StatsBounds
    <2>2. hour \in Int /\ hour >= HourOf(clock) - Day + 1 /\ Day + 1 \in Nat /\ Day <= Day + 1
        BY <2>1
    <2> DEFINE m == Day + 1
    <2> HIDE DEF m
    <2>3. m \in Nat /\ Day <= m
        BY <2>2 DEF m
    <2>4. clock - m * Hour <= hour * Hour
        BY <2>1, <2>2, <2>3, CutOff
    <2>5. HourlyImages(m, h, hour) = Served(h, {j \in DOMAIN log : HourOf(log[j].at) = hour})
        BY <2>2, <2>3, <2>4, HourShown
    <2>6. QED
        BY <2>5 DEF m, Hourly
<1>2. QED
    BY <1>1, LoggedRolling, LoggedDaily DEF ChartsShowWhatWasServed

(***************************************************************************)
(* The wall log.  Its rows are those of the log with a reset, in the order *)
(* of the log.                                                             *)
(***************************************************************************)
WithWall(all, rows, row) == IF row.reset # 0 THEN Append(rows, row) ELSE rows

Rows == INSTANCE FoldFacts WITH Op <- WithWall, Base <- <<>>

LEMMA WallsInOrder ==
    ASSUME Logged
    PROVE  /\ Walls \in Seq(Row)
           /\ \A i, j \in 1..Len(Walls) : i <= j => Walls[i].at <= Walls[j].at
<1> DEFINE n == Len(log)
           P == {row \in Row : row.reset # 0}
<1>1. n \in Nat /\ DOMAIN log = 1..n /\ log \in Seq(Row) /\ \A i \in 1..n : log[i] \in Row
    BY LogFacts DEF Logged
<1>2. Walls = Rows!Folded({}, log)
    BY DEF Walls, FoldLeft, MapThenFoldSet, Rows!Folded, Rows!Folds, Rows!Max, Max, WithWall
<1>3. PICK F : /\ F[0] = <<>>
               /\ \A k \in 1..n : F[k] = WithWall({}, F[k - 1], log[k])
               /\ Walls = F[n]
    <2> HIDE DEF n
    <2>1. \E F : /\ F[0] = <<>>
                 /\ \A k \in 1..n : F[k] = WithWall({}, F[k - 1], log[k])
                 /\ Rows!Folded({}, log) = F[n]
        BY <1>1, Rows!FoldedInOrder
    <2>2. QED
        BY <1>2, <2>1
<1>4. Picks(F, log, P)
    BY <1>1, <1>3 DEF Picks, WithWall
<1>5. /\ F[n] \in Seq(Row)
      /\ \E m \in [1..Len(F[n]) -> 1..n] :
            /\ \A i \in 1..Len(F[n]) : F[n][i] = log[m[i]]
            /\ \A i, j \in 1..Len(F[n]) : i < j => m[i] < m[j]
    <2> HIDE DEF P
    <2>1. QED
        BY <1>1, <1>4, PickedInOrder
<1>6. PICK m \in [1..Len(Walls) -> 1..n] :
            /\ \A i \in 1..Len(Walls) : Walls[i] = log[m[i]]
            /\ \A i, j \in 1..Len(Walls) : i < j => m[i] < m[j]
    BY <1>3, <1>5
<1>7. Walls \in Seq(Row) /\ Len(Walls) \in Nat
    BY <1>3, <1>5
<1>8. ASSUME NEW i \in 1..Len(Walls), NEW j \in 1..Len(Walls), i <= j
      PROVE  Walls[i].at <= Walls[j].at
    <2>1. m[i] \in 1..n /\ m[j] \in 1..n /\ m[i] <= m[j]
        BY <1>1, <1>6, <1>7, <1>8
    <2>2. log[m[i]].at <= log[m[j]].at
        BY <2>1 DEF Logged
    <2>3. QED
        BY <1>6, <2>2
<1>9. QED
    BY <1>7, <1>8

Event == [home : Homes, first : Nat, last : Nat, reset : Nat, hits : Nat]

OfWall(e, row) == e.home = row.home /\ Distance(e.reset, row.reset) <= Near

\* A row joins the first event of its wall, or is one of its own.
LEMMA RowJoins ==
    ASSUME NEW events \in Seq(Event), NEW row \in Row
    PROVE  LET new == [home |-> row.home, first |-> row.at, last |-> row.at,
                       reset |-> row.reset, hits |-> 1]
               all == WithRow(events, row)
           IN  \/ /\ new \in Event /\ all = Append(events, new)
                  /\ \A k \in 1..Len(events) : ~OfWall(events[k], row)
               \/ \E s \in 1..Len(events) :
                     /\ all \in Seq(Event) /\ Len(all) = Len(events) /\ OfWall(events[s], row)
                     /\ all[s] = [events[s] EXCEPT !.last = row.at, !.hits = @ + 1]
                     /\ \A k \in 1..Len(events) : k # s => all[k] = events[k]
<1> DEFINE same == SameWall(events, row)
           new == [home |-> row.home, first |-> row.at, last |-> row.at,
                   reset |-> row.reset, hits |-> 1]
           all == WithRow(events, row)
           s == Min(same)
<1>1. Len(events) \in Nat /\ DOMAIN events = 1..Len(events)
      /\ \A k \in 1..Len(events) : events[k] \in Event
    OBVIOUS
<1>2. same = {k \in 1..Len(events) : OfWall(events[k], row)}
    BY <1>1 DEF SameWall, OfWall
<1>3. new \in Event
    BY DEF Event, Row
<1>4. all = IF same = {}
              THEN Append(events, new)
              ELSE [events EXCEPT ![s].last = row.at, ![s].hits = @ + 1]
    BY DEF WithRow
<1> HIDE DEF same
<1>5. CASE same = {}
    <2>1. \A k \in 1..Len(events) : ~OfWall(events[k], row)
        BY <1>2, <1>5
    <2>2. all = Append(events, new)
        BY <1>4, <1>5
    <2>3. QED
        BY <1>3, <2>1, <2>2
<1>6. CASE same # {}
    <2>1. s \in same
        <3>1. same \in SUBSET Nat
            BY <1>1, <1>2
        <3>2. \E x \in same : \A y \in same : x <= y
            BY <1>6, <3>1, LeastNumber
        <3>3. QED
            BY <3>2 DEF Min
    <2> HIDE DEF s
    <2> DEFINE e == [events[s] EXCEPT !.last = row.at, !.hits = @ + 1]
    <2>2. s \in 1..Len(events) /\ OfWall(events[s], row) /\ events[s] \in Event
        BY <1>1, <1>2, <2>1
    <2>3. e \in Event
        <3> DEFINE x == events[s]
        <3>1. x \in Event /\ row.at \in Nat
            BY <2>2 DEF Row
        <3> HIDE DEF x
        <3> DEFINE n == x.hits + 1
        <3>2. n \in Nat
            BY <3>1 DEF Event
        <3>3. [x EXCEPT !.last = row.at, !.hits = @ + 1] = [x EXCEPT !.last = row.at, !.hits = n]
            BY <3>1 DEF Event
        <3> HIDE DEF n
        <3>4. [x EXCEPT !.last = row.at, !.hits = n] \in Event
            BY <3>1, <3>2 DEF Event
        <3>5. QED
            BY <3>3, <3>4 DEF x
    <2>4. all = [events EXCEPT ![s] = e]
        BY <1>1, <1>4, <1>6, <2>2 DEF Event
    <2> HIDE DEF e, all
    <2>5. /\ all \in Seq(Event) /\ Len(all) = Len(events) /\ all[s] = e
          /\ \A k \in 1..Len(events) : k # s => all[k] = events[k]
        BY <1>1, <2>2, <2>3, <2>4
    <2>6. QED
        BY <2>2, <2>5 DEF e, all
<1>7. QED
    BY <1>5, <1>6

HitsAt(events) == [k \in DOMAIN events |-> events[k].hits]
Hits(events) == SumFunctionOnSet(HitsAt(events), DOMAIN events)

LEMMA HitsOf ==
    ASSUME NEW events \in Seq(Event)
    PROVE  /\ Hits(events) = SumFunctionOnSet(HitsAt(events), 1..Len(events))
           /\ IsFiniteSet(1..Len(events)) /\ Len(events) \in Nat
           /\ \A k \in 1..Len(events) :
                 HitsAt(events)[k] = events[k].hits /\ events[k].hits \in Nat
<1>1. Len(events) \in Nat /\ DOMAIN events = 1..Len(events)
    OBVIOUS
<1>2. \A k \in 1..Len(events) : events[k] \in Event
    OBVIOUS
<1>3. \A k \in 1..Len(events) : HitsAt(events)[k] = events[k].hits /\ events[k].hits \in Nat
    BY <1>1, <1>2 DEF Event, HitsAt
<1>4. QED
    BY <1>1, <1>3, FS_Interval DEF Hits

LEMMA HitsOfOneMore ==
    ASSUME NEW events \in Seq(Event), NEW e \in Event
    PROVE  Hits(Append(events, e)) = Hits(events) + e.hits
<1> DEFINE all == Append(events, e)
           n == Len(events)
           f == HitsAt(events)
           g == HitsAt(all)
<1>1. /\ all \in Seq(Event) /\ Len(all) = n + 1 /\ n \in Nat
      /\ \A i \in 1..n : all[i] = events[i]
      /\ all[n + 1] = e
    BY AppendProperties
<1> HIDE DEF all
<1>2. /\ Hits(events) = SumFunctionOnSet(f, 1..n) /\ IsFiniteSet(1..n)
      /\ \A k \in 1..n : f[k] = events[k].hits /\ f[k] \in Int
    BY HitsOf
<1>3. /\ Hits(all) = SumFunctionOnSet(g, 1..(n + 1)) /\ IsFiniteSet(1..(n + 1))
      /\ \A k \in 1..(n + 1) : g[k] = all[k].hits /\ g[k] \in Int
    <2>1. /\ Hits(all) = SumFunctionOnSet(g, 1..Len(all)) /\ IsFiniteSet(1..Len(all))
          /\ \A k \in 1..Len(all) : g[k] = all[k].hits /\ g[k] \in Int
        BY <1>1, HitsOf
    <2>2. QED
        BY <1>1, <2>1
<1> HIDE DEF f, g, n
<1>4. n + 1 \in 1..(n + 1) /\ (1..(n + 1)) \ {n + 1} = 1..n
    BY <1>1
<1>5. SumFunctionOnSet(g, 1..(n + 1)) = g[n + 1] + SumFunctionOnSet(g, (1..(n + 1)) \ {n + 1})
    BY <1>3, <1>4, SumOfOthers
<1>6. SumFunctionOnSet(g, 1..n) = SumFunctionOnSet(f, 1..n)
    <2>1. \A k \in 1..n : g[k] = f[k]
        BY <1>1, <1>2, <1>3
    <2>2. QED
        BY <1>2, <2>1, SameSum
<1>7. SumFunctionOnSet(f, 1..n) \in Int /\ g[n + 1] = e.hits /\ g[n + 1] \in Int
    BY <1>1, <1>2, <1>3, <1>4, SumIsInt
<1>8. Hits(all) = g[n + 1] + Hits(events)
    BY <1>2, <1>3, <1>4, <1>5, <1>6
<1>9. QED
    BY <1>2, <1>7, <1>8 DEF all

LEMMA HitsOfOneHit ==
    ASSUME NEW events \in Seq(Event), NEW all \in Seq(Event), Len(all) = Len(events),
           NEW s \in 1..Len(events), all[s].hits = events[s].hits + 1,
           \A k \in 1..Len(events) : k # s => all[k] = events[k]
    PROVE  Hits(all) = Hits(events) + 1
<1> DEFINE n == Len(events)
           f == HitsAt(events)
           g == HitsAt(all)
           others == (1..n) \ {s}
<1>1. /\ Hits(events) = SumFunctionOnSet(f, 1..n) /\ IsFiniteSet(1..n)
      /\ \A k \in 1..n : f[k] = events[k].hits /\ f[k] \in Int
    BY HitsOf
<1>2. /\ Hits(all) = SumFunctionOnSet(g, 1..n)
      /\ \A k \in 1..n : g[k] = all[k].hits /\ g[k] \in Int
    <2>1. /\ Hits(all) = SumFunctionOnSet(g, 1..Len(all))
          /\ \A k \in 1..Len(all) : g[k] = all[k].hits /\ g[k] \in Int
        BY HitsOf
    <2>2. QED
        BY <2>1
<1>3. IsFiniteSet(others) /\ \A k \in others : g[k] = f[k]
    BY <1>1, <1>2, FS_Subset
<1> HIDE DEF f, g
<1>4. /\ SumFunctionOnSet(f, 1..n) = f[s] + SumFunctionOnSet(f, others)
      /\ SumFunctionOnSet(g, 1..n) = g[s] + SumFunctionOnSet(g, others)
    BY <1>1, <1>2, SumOfOthers
<1>5. SumFunctionOnSet(g, others) = SumFunctionOnSet(f, others)
    <2> HIDE DEF others
    <2>1. QED
        BY <1>3, SameSum
<1>6. SumFunctionOnSet(f, others) \in Int /\ f[s] \in Int /\ g[s] = f[s] + 1
    BY <1>1, <1>2, <1>3, SumIsInt
<1> HIDE DEF others
<1>7. QED
    BY <1>1, <1>2, <1>4, <1>5, <1>6

\* What holds of the events once the first k rows are in: each row is in an event
\* of its wall, no two events are of one wall, and none is ahead of the rows.
Covers(e, row) == OfWall(e, row) /\ e.first <= row.at /\ row.at <= e.last

Sorted(events, k) ==
    /\ events \in Seq(Event)
    /\ Hits(events) = k
    /\ \A i \in 1..k : \E l \in 1..Len(events) : Covers(events[l], Walls[i])
    /\ \A l, m \in 1..Len(events) :
          l # m /\ events[l].home = events[m].home =>
              Distance(events[l].reset, events[m].reset) > Near
    /\ \A l \in 1..Len(events), j \in (k + 1)..Len(Walls) :
          events[l].first <= Walls[j].at /\ events[l].last <= Walls[j].at

LEMMA SortedNone == Sorted(<<>>, 0)
<1>1. <<>> \in Seq(Event) /\ Len(<<>>) = 0
    OBVIOUS
<1>2. Hits(<<>>) = 0
    <2>1. DOMAIN <<>> = {}
        OBVIOUS
    <2>2. QED
        BY <2>1, SumOfNone DEF Hits
<1>3. QED
    BY <1>1, <1>2 DEF Sorted

LEMMA SortedOneMore ==
    ASSUME Logged, NEW events, NEW k \in Nat, k + 1 <= Len(Walls), Sorted(events, k)
    PROVE  Sorted(WithRow(events, Walls[k + 1]), k + 1)
<1> DEFINE row == Walls[k + 1]
           all == WithRow(events, row)
           n == Len(events)
           new == [home |-> row.home, first |-> row.at, last |-> row.at,
                   reset |-> row.reset, hits |-> 1]
<1>1. /\ events \in Seq(Event) /\ n \in Nat /\ \A l \in 1..n : events[l] \in Event
      /\ Len(Walls) \in Nat /\ k + 1 \in 1..Len(Walls)
      /\ \A i \in 1..Len(Walls) : Walls[i] \in Row /\ Walls[i].at \in Nat
      /\ row \in Row /\ row.at \in Nat /\ row.reset \in Nat
    <2>1. events \in Seq(Event) /\ Walls \in Seq(Row)
        BY WallsInOrder DEF Sorted
    <2>2. /\ n \in Nat /\ \A l \in 1..n : events[l] \in Event
          /\ Len(Walls) \in Nat /\ k + 1 \in 1..Len(Walls)
          /\ \A i \in 1..Len(Walls) : Walls[i] \in Row
        BY <2>1
    <2>3. \A r \in Row : r.at \in Nat /\ r.reset \in Nat
        BY DEF Row
    <2>4. QED
        BY <2>1, <2>2, <2>3
<1>2. \A j \in (k + 2)..Len(Walls) : row.at <= Walls[j].at
    BY <1>1, WallsInOrder
<1>3. \A l \in 1..n : events[l].first <= row.at /\ events[l].last <= row.at
    BY <1>1 DEF Sorted
<1>4. \/ /\ new \in Event /\ all = Append(events, new)
         /\ \A l \in 1..n : ~OfWall(events[l], row)
      \/ \E s \in 1..n :
            /\ all \in Seq(Event) /\ Len(all) = n /\ OfWall(events[s], row)
            /\ all[s] = [events[s] EXCEPT !.last = row.at, !.hits = @ + 1]
            /\ \A l \in 1..n : l # s => all[l] = events[l]
    <2> HIDE DEF row
    <2>1. QED
        BY <1>1, RowJoins
<1>k. k + 1 \in Nat /\ (k + 1) + 1 = k + 2 /\ \A i \in 1..(k + 1) : i \in 1..k \/ i = k + 1
    OBVIOUS
<1>s. /\ Hits(events) = k
      /\ \A i \in 1..k : \E l \in 1..n : Covers(events[l], Walls[i])
      /\ \A l, m \in 1..n : l # m /\ events[l].home = events[m].home =>
              Distance(events[l].reset, events[m].reset) > Near
      /\ \A l \in 1..n, j \in (k + 2)..Len(Walls) :
              events[l].first <= Walls[j].at /\ events[l].last <= Walls[j].at
    BY <1>1 DEF Sorted
<1>r. row = Walls[k + 1]
    OBVIOUS
<1> HIDE DEF row, all, n
<1>5. CASE new \in Event /\ all = Append(events, new) /\ \A l \in 1..n : ~OfWall(events[l], row)
    <2>1. /\ all \in Seq(Event) /\ Len(all) = n + 1
          /\ \A l \in 1..n : all[l] = events[l]
          /\ all[n + 1] = new
        BY <1>1, <1>5, AppendProperties DEF n
    <2>2. Hits(all) = k + 1
        <3>1. Hits(all) = Hits(events) + new.hits
            BY <1>1, <1>5, HitsOfOneMore
        <3>2. QED
            BY <1>s, <3>1
    <2>n. n + 1 \in 1..(n + 1) /\ \A l \in 1..(n + 1) : l \in 1..n \/ l = n + 1
        BY <1>1
    <2>3. Covers(new, row)
        BY <1>1, StatsBounds DEF Covers, OfWall, Distance
    <2>d. /\ new.home = row.home /\ new.reset = row.reset /\ new.first = row.at /\ new.last = row.at
        OBVIOUS
    <2> HIDE DEF new
    <2>4. \A i \in 1..(k + 1) : \E l \in 1..(n + 1) : Covers(all[l], Walls[i])
        <3>1. SUFFICES ASSUME NEW i \in 1..(k + 1)
                       PROVE  \E l \in 1..(n + 1) : Covers(all[l], Walls[i])
            OBVIOUS
        <3>2. CASE i \in 1..k
            <4>1. PICK l \in 1..n : Covers(events[l], Walls[i])
                BY <1>s, <3>2
            <4>2. l \in 1..(n + 1) /\ all[l] = events[l]
                BY <1>1, <2>1
            <4>3. QED
                BY <4>1, <4>2
        <3>3. CASE i = k + 1
            BY <1>r, <2>1, <2>3, <2>n, <3>3
        <3>4. QED
            BY <1>k, <3>2, <3>3
    <2>5. \A l \in 1..n : events[l].home = row.home =>
               /\ Distance(events[l].reset, row.reset) > Near
               /\ Distance(row.reset, events[l].reset) > Near
        <3>1. SUFFICES ASSUME NEW l \in 1..n, events[l].home = row.home
                       PROVE  /\ Distance(events[l].reset, row.reset) > Near
                              /\ Distance(row.reset, events[l].reset) > Near
            OBVIOUS
        <3>2. events[l].reset \in Nat /\ row.reset \in Nat /\ Near \in Nat
            BY <1>1, StatsBounds DEF Event
        <3>3. ~(Distance(events[l].reset, row.reset) <= Near)
            BY <1>5, <3>1 DEF OfWall
        <3>4. QED
            BY <3>2, <3>3 DEF Distance
    <2>6. \A l, m \in 1..(n + 1) :
             l # m /\ all[l].home = all[m].home => Distance(all[l].reset, all[m].reset) > Near
        <3>1. SUFFICES ASSUME NEW l \in 1..(n + 1), NEW m \in 1..(n + 1),
                              l # m, all[l].home = all[m].home
                       PROVE  Distance(all[l].reset, all[m].reset) > Near
            OBVIOUS
        <3>2. CASE l \in 1..n /\ m \in 1..n
            BY <1>s, <2>1, <3>1, <3>2
        <3>3. CASE l = n + 1 /\ m \in 1..n
            BY <2>1, <2>5, <2>d, <3>1, <3>3
        <3>4. CASE l \in 1..n /\ m = n + 1
            BY <2>1, <2>5, <2>d, <3>1, <3>4
        <3>5. QED
            BY <2>n, <3>1, <3>2, <3>3, <3>4
    <2>7. \A l \in 1..(n + 1), j \in (k + 2)..Len(Walls) :
              all[l].first <= Walls[j].at /\ all[l].last <= Walls[j].at
        BY <1>s, <1>2, <2>1, <2>d, <2>n
    <2>8. QED
        BY <1>k, <2>1, <2>2, <2>4, <2>6, <2>7 DEF Sorted, all, row
<1>6. ASSUME NEW s \in 1..n, all \in Seq(Event), Len(all) = n, OfWall(events[s], row),
             all[s] = [events[s] EXCEPT !.last = row.at, !.hits = @ + 1],
             \A l \in 1..n : l # s => all[l] = events[l]
      PROVE  Sorted(WithRow(events, Walls[k + 1]), k + 1)
    <2>1. /\ all[s].home = events[s].home /\ all[s].first = events[s].first
          /\ all[s].last = row.at /\ all[s].reset = events[s].reset
          /\ all[s].hits = events[s].hits + 1
        BY <1>1, <1>6 DEF Event
    <2>2. Hits(all) = k + 1
        <3>1. Hits(all) = Hits(events) + 1
            BY <1>1, <1>6, <2>1, HitsOfOneHit DEF n
        <3>2. QED
            BY <1>s, <3>1
    <2>3. \A l \in 1..n : /\ all[l].home = events[l].home /\ all[l].reset = events[l].reset
                           /\ all[l].first = events[l].first
                           /\ events[l].last <= all[l].last /\ all[l].last \in Nat
                           /\ events[l].last \in Nat
        <3>1. SUFFICES ASSUME NEW l \in 1..n
                       PROVE  /\ all[l].home = events[l].home /\ all[l].reset = events[l].reset
                              /\ all[l].first = events[l].first
                              /\ events[l].last <= all[l].last /\ all[l].last \in Nat
                              /\ events[l].last \in Nat
            OBVIOUS
        <3>2. events[l].last \in Nat /\ events[l].last <= row.at
            BY <1>1, <1>3 DEF Event
        <3>3. CASE l = s
            BY <1>1, <2>1, <3>2, <3>3
        <3>4. CASE l # s
            <4>1. all[l] = events[l]
                BY <1>6, <3>4
            <4>2. QED
                BY <3>2, <4>1
        <3>5. QED
            BY <3>3, <3>4
    <2>4. \A i \in 1..(k + 1) : \E l \in 1..n : Covers(all[l], Walls[i])
        <3>1. SUFFICES ASSUME NEW i \in 1..(k + 1)
                       PROVE  \E l \in 1..n : Covers(all[l], Walls[i])
            OBVIOUS
        <3>2. CASE i \in 1..k
            <4>1. PICK l \in 1..n : Covers(events[l], Walls[i])
                BY <1>s, <3>2
            <4>2. Walls[i].at \in Nat /\ Walls[i].at <= events[l].last
                BY <1>1, <3>2, <4>1 DEF Covers
            <4>3. Walls[i].at <= all[l].last
                <5>1. events[l].last <= all[l].last /\ all[l].last \in Nat /\ events[l].last \in Nat
                    BY <2>3
                <5>2. QED
                    BY <4>2, <5>1
            <4>4. Covers(all[l], Walls[i])
                BY <2>3, <4>1, <4>3 DEF Covers, OfWall
            <4>5. QED
                BY <4>4
        <3>3. CASE i = k + 1
            <4>1. Covers(all[s], row)
                BY <1>1, <1>3, <1>6, <2>1 DEF Covers, OfWall
            <4>2. QED
                BY <1>r, <3>3, <4>1
        <3>4. QED
            BY <1>k, <3>2, <3>3
    <2>5. \A l, m \in 1..n :
             l # m /\ all[l].home = all[m].home => Distance(all[l].reset, all[m].reset) > Near
        BY <1>s, <2>3
    <2>6. \A l \in 1..n, j \in (k + 2)..Len(Walls) :
              all[l].first <= Walls[j].at /\ all[l].last <= Walls[j].at
        BY <1>s, <1>2, <1>6, <2>1
    <2>7. QED
        BY <1>k, <1>6, <2>2, <2>4, <2>5, <2>6 DEF Sorted, all, row
<1>7. QED
    BY <1>4, <1>5, <1>6

Merge(any, events, row) == WithRow(events, row)

Merged == INSTANCE FoldFacts WITH Op <- Merge, Base <- <<>>

LEMMA LoggedWalls == Logged => WallsToldApart
<1> SUFFICES ASSUME Logged PROVE WallsToldApart
    OBVIOUS
<1> DEFINE n == Len(Walls)
<1>1. n \in Nat /\ DOMAIN Walls = 1..n /\ Walls \in Seq(Row)
    BY WallsInOrder
<1>2. Events = Merged!Folded({}, Walls)
    BY DEF Events, FoldLeft, MapThenFoldSet, Merged!Folded, Merged!Folds, Merged!Max, Max, Merge
<1>3. PICK F : /\ F[0] = <<>>
               /\ \A k \in 1..n : F[k] = Merge({}, F[k - 1], Walls[k])
               /\ Events = F[n]
    <2> HIDE DEF n
    <2>1. \E F : /\ F[0] = <<>>
                 /\ \A k \in 1..n : F[k] = Merge({}, F[k - 1], Walls[k])
                 /\ Merged!Folded({}, Walls) = F[n]
        BY <1>1, Merged!FoldedInOrder
    <2>2. QED
        BY <1>2, <2>1
<1> DEFINE T == {k \in Nat : k <= n => Sorted(F[k], k)}
<1>4. T \in SUBSET Nat /\ 0 \in T
    BY <1>3, SortedNone
<1>5. ASSUME NEW k \in T PROVE k + 1 \in T
    <2>1. SUFFICES ASSUME k + 1 <= n PROVE Sorted(F[k + 1], k + 1)
        OBVIOUS
    <2>2. k \in Nat /\ k <= n /\ k + 1 \in 1..n /\ (k + 1) - 1 = k /\ Sorted(F[k], k)
        BY <1>1, <2>1
    <2>3. F[k + 1] = WithRow(F[k], Walls[k + 1])
        BY <1>3, <2>2 DEF Merge
    <2>4. QED
        BY <2>1, <2>2, <2>3, SortedOneMore
<1>6. Sorted(Events, n)
    <2>1. T = Nat
        <3> HIDE DEF T
        <3>1. QED
            BY <1>4, <1>5, Induction
    <2>2. QED
        BY <1>1, <1>3, <2>1
<1>7. Events \in Seq(Event) /\ DOMAIN Events = 1..Len(Events)
    <2>1. Events \in Seq(Event)
        BY <1>6 DEF Sorted
    <2>2. QED
        BY <2>1
<1>8. SumFunctionOnSet([k \in DOMAIN Events |-> Events[k].hits], DOMAIN Events) = Len(Walls)
    BY <1>6 DEF Sorted, Hits, HitsAt
<1>9. \A row \in Range(Walls) : \E e \in Range(Events) :
           /\ e.home = row.home /\ row.at \in e.first..e.last
           /\ Distance(e.reset, row.reset) <= Near
    <2>1. SUFFICES ASSUME NEW i \in 1..n
                   PROVE  \E e \in Range(Events) :
                             /\ e.home = Walls[i].home /\ Walls[i].at \in e.first..e.last
                             /\ Distance(e.reset, Walls[i].reset) <= Near
        BY <1>1, RangeEquality
    <2>2. PICK l \in 1..Len(Events) : Covers(Events[l], Walls[i])
        BY <1>6 DEF Sorted
    <2>3. Events[l] \in Range(Events) /\ Events[l] \in Event /\ Walls[i] \in Row
        BY <1>1, <1>7, RangeEquality
    <2>4. Walls[i].at \in Events[l].first..Events[l].last
        BY <2>2, <2>3 DEF Covers, Event, Row
    <2>5. QED
        BY <2>2, <2>3, <2>4 DEF Covers, OfWall
<1>10. \A k, l \in DOMAIN Events :
          k # l /\ Events[k].home = Events[l].home =>
              Distance(Events[k].reset, Events[l].reset) > Near
    BY <1>6, <1>7 DEF Sorted
<1>11. QED
    BY <1>8, <1>9, <1>10 DEF WallsToldApart

(***************************************************************************)
(* The busiest day.  times lists the n pictures of I, old to new.          *)
(***************************************************************************)
Lists(times, n, I) ==
    /\ n \in Nat /\ I \in SUBSET DOMAIN log
    /\ times \in [1..n -> I] /\ I = {times[k] : k \in 1..n}
    /\ \A k, l \in 1..n : k <= l => log[times[k]].done <= log[times[l]].done
    /\ \A k, l \in 1..n : times[k] = times[l] => k = l

\* Times can be chosen, and lists each picture once.
LEMMA TimesListed ==
    ASSUME Logged, NEW h, NEW since
    PROVE  LET I == {i \in Successful : log[i].home = h /\ log[i].done >= since}
           IN  Lists(Times(h, since), Cardinality(I), I)
<1> DEFINE I == {i \in Successful : log[i].home = h /\ log[i].done >= since}
           n == Cardinality(I)
           times == Times(h, since)
           done == [i \in DOMAIN log |-> log[i].done]
<1>1. I \in SUBSET DOMAIN log /\ \A i \in I : done[i] = log[i].done /\ done[i] \in Nat
    BY LogFacts DEF Successful, Row
<1>2. IsFiniteSet(I)
    <2>1. IsFiniteSet(DOMAIN log)
        BY LogFacts, FS_Interval
    <2>2. QED
        BY <1>1, <2>1, FS_Subset
<1>3. n \in Nat
    BY <1>2, FS_CardinalityType
<1>4. times = CHOOSE s \in [1..n -> I] :
                 /\ Range(s) = I
                 /\ \A k, l \in DOMAIN s : k <= l => log[s[k]].done <= log[s[l]].done
    BY DEF Times
<1>5. \E s \in [1..n -> I] :
         /\ Range(s) = I
         /\ \A k, l \in DOMAIN s : k <= l => log[s[k]].done <= log[s[l]].done
    <2> HIDE DEF I, done
    <2>1. PICK s \in [1..n -> I] : Range(s) = I /\ Ascends(s, done)
        BY <1>1, <1>2, CanBeSorted
    <2>2. \A k, l \in 1..n : k <= l => log[s[k]].done <= log[s[l]].done
        BY <1>1, <2>1 DEF Ascends
    <2>3. QED
        BY <2>1, <2>2
<1> HIDE DEF I, times, done
<1>6. /\ times \in [1..n -> I] /\ Range(times) = I
      /\ \A k, l \in 1..n : k <= l => log[times[k]].done <= log[times[l]].done
    BY <1>4, <1>5
<1>7. I = {times[k] : k \in 1..n}
    BY <1>6 DEF Range
<1>8. \A k, l \in 1..n : times[k] = times[l] => k = l
    <2>1. IsFiniteSet(1..n) /\ Cardinality(1..n) = n
        BY <1>3, FS_Interval
    <2>2. times \in Surjection(1..n, I)
        BY <1>6, <1>7 DEF Surjection
    <2>3. Cardinality(1..n) = Cardinality(I)
        BY <2>1
    <2>4. times \in Injection(1..n, I)
        <3> HIDE DEF n
        <3>1. QED
            BY <2>1, <2>2, <2>3, FS_SurjSameCardinalityImpliesInj
    <2>5. QED
        BY <1>6, <2>4 DEF Injection, IsInjective
<1>9. Lists(times, n, I)
    BY <1>1, <1>3, <1>6, <1>7, <1>8 DEF Lists
<1>10. QED
    BY <1>9 DEF I, times

\* The pictures from a to b, and how many images they are.
Part(times, a, b) == {times[j] : j \in a..b}
Images(times, a, b) == Sum(Part(times, a, b))

\* A part can be cut in two anywhere.
LEMMA PartsAddUp ==
    ASSUME Logged, NEW n, NEW times, NEW I, Lists(times, n, I),
           NEW a \in 1..n, NEW b \in 1..n, NEW m \in a..(b + 1)
    PROVE  /\ Images(times, a, b) \in Nat
           /\ Images(times, a, m - 1) \in Nat /\ Images(times, m, b) \in Nat
           /\ Images(times, a, b) = Images(times, a, m - 1) + Images(times, m, b)
<1> DEFINE count == [i \in DOMAIN log |-> log[i].count]
           A == Part(times, a, m - 1)
           B == Part(times, m, b)
<1>n. n \in Nat /\ a \in Nat /\ b \in Nat /\ m \in Nat /\ m - 1 \in Int
    BY DEF Lists
<1>1. /\ \A j \in a..(m - 1) : j \in 1..n /\ j < m
      /\ \A j \in m..b : j \in 1..n /\ j >= m
      /\ \A j \in a..b : j \in 1..n /\ (j \in a..(m - 1) \/ j \in m..b)
      /\ \A j \in a..(m - 1) : j \in a..b
      /\ \A j \in m..b : j \in a..b
    BY <1>n
<1>2. A \in SUBSET DOMAIN log /\ B \in SUBSET DOMAIN log
      /\ Part(times, a, b) = A \cup B /\ A \cap B = {}
    BY <1>1 DEF Lists, Part
<1>3. IsFiniteSet(DOMAIN log) /\ \A i \in DOMAIN log : count[i] \in Nat
    <2>1. IsFiniteSet(DOMAIN log)
        BY LogFacts, FS_Interval
    <2>2. \A i \in DOMAIN log : count[i] \in Nat
        BY LogFacts, StatsBounds DEF Row
    <2>3. QED
        BY <2>1, <2>2
<1>4. IsFiniteSet(A) /\ IsFiniteSet(B)
    BY <1>2, <1>3, FS_Subset
<1>5. /\ Images(times, a, m - 1) = SumFunctionOnSet(count, A)
      /\ Images(times, m, b) = SumFunctionOnSet(count, B)
      /\ Images(times, a, b) = SumFunctionOnSet(count, A \cup B)
    BY <1>2 DEF Images, Sum
<1> HIDE DEF A, B, count
<1>6. /\ SumFunctionOnSet(count, A) \in Nat /\ SumFunctionOnSet(count, B) \in Nat
      /\ SumFunctionOnSet(count, A \cup B) \in Nat
    <2>1. A \cup B \in SUBSET DOMAIN log
        BY <1>2
    <2>2. QED
        BY <1>2, <1>3, <2>1, SumGrows
<1>7. SumFunctionOnSet(count, A \cup B) = SumFunctionOnSet(count, A) + SumFunctionOnSet(count, B)
    <2>1. \A i \in A \cup B : count[i] \in Int
        BY <1>2, <1>3
    <2>2. QED
        BY <1>2, <1>4, <2>1, SumOfTwo
<1>8. QED
    BY <1>5, <1>6, <1>7

\* One picture alone.
LEMMA OnePicture ==
    ASSUME Logged, NEW n, NEW times, NEW I, Lists(times, n, I), NEW k \in 1..n
    PROVE  Images(times, k, k) = log[times[k]].count /\ log[times[k]].count \in Nat
<1> DEFINE count == [i \in DOMAIN log |-> log[i].count]
<1>1. times[k] \in DOMAIN log /\ k \in Nat
    BY DEF Lists
<1>2. count[times[k]] = log[times[k]].count /\ count[times[k]] \in Nat
    BY <1>1, LogFacts, StatsBounds DEF Row
<1>3. Part(times, k, k) = {times[k]}
    BY <1>1 DEF Part
<1>4. Images(times, k, k) = SumFunctionOnSet(count, {times[k]})
    BY <1>3 DEF Images, Sum
<1> HIDE DEF count
<1>5. SumFunctionOnSet(count, {times[k]}) = count[times[k]] + SumFunctionOnSet(count, {})
    <2> DEFINE x == times[k]
    <2>1. IsFiniteSet({x}) /\ {x} \ {x} = {}
        BY FS_Singleton
    <2>2. \A y \in {x} : count[y] \in Int
        BY <1>2
    <2> HIDE DEF x
    <2>3. SumFunctionOnSet(count, {x}) = count[x] + SumFunctionOnSet(count, {x} \ {x})
        BY <2>1, <2>2, SumOfOthers
    <2>4. QED
        BY <2>1, <2>3 DEF x
<1>6. SumFunctionOnSet(count, {}) = 0
    BY SumOfNone
<1>7. QED
    BY <1>2, <1>4, <1>5, <1>6

(***************************************************************************)
(* What the pointers have seen after the k-th picture: the window begins   *)
(* at the first picture that is not a day older, its total is what it has, *)
(* and best is the largest total there was.                                *)
(***************************************************************************)
ADay == Day * Hour

LEMMA DayLasts == ADay \in Nat /\ ADay > 0
<1> DEFINE a == Day
           b == Hour
<1>1. a \in Nat \ {0} /\ b \in Nat \ {0}
    BY StatsBounds
<1> HIDE DEF a, b
<1>2. a * b \in Nat /\ a * b > 0
    BY <1>1, SMTT(20)
<1>3. QED
    BY <1>2 DEF ADay, a, b

Old(times, j, k) == log[times[j]].done <= log[times[k]].done - ADay

Window(times, w, k) ==
    /\ w.lo \in 1..(k + 1)
    /\ k > 0 => w.lo \in 1..k
    /\ \A j \in 1..(w.lo - 1) : Old(times, j, k)
    /\ \A j \in (w.lo)..k : ~Old(times, j, k)
    /\ k > 0 => w.total = Images(times, w.lo, k)
    /\ k = 0 => w.total = 0 /\ w.lo = 1
    /\ w.best \in Nat

\* One picture more keeps the window right; best takes its total or stays.
LEMMA WindowSlides ==
    ASSUME Logged, NEW n, NEW times, NEW I, Lists(times, n, I),
           NEW k \in 1..n, NEW w, Window(times, w, k - 1)
    PROVE  LET v == Slid(times, w, k)
           IN  /\ Window(times, v, k) /\ v.total \in Nat
               /\ v.best \in {w.best, v.total} /\ v.best >= w.best /\ v.best >= v.total
<1> DEFINE J == {j \in w.lo..k : ~Drops(log[times[j]].done, log[times[k]].done)}
           lo == Min(J)
           total == w.total + log[times[k]].count - Sum({times[j] : j \in w.lo..(lo - 1)})
           best == Max({w.best, total})
           v == Slid(times, w, k)
<1>1. v.lo = lo /\ v.total = total /\ v.best = best
    BY DEF Slid
<1>2. /\ n \in Nat /\ k \in Nat /\ k >= 1 /\ k <= n /\ w.lo \in 1..k /\ w.lo \in Nat
      /\ \A j \in 1..n : log[times[j]].done \in Nat
      /\ w.best \in Nat
    <2>1. n \in Nat /\ \A j \in 1..n : times[j] \in DOMAIN log
        BY DEF Lists
    <2>2. \A i \in DOMAIN log : log[i].done \in Nat
        BY LogFacts DEF Row
    <2>3. k - 1 \in Nat /\ (k - 1) + 1 = k /\ k \in Nat /\ k >= 1 /\ k <= n
        BY <2>1
    <2>4. w.lo \in 1..k
        <3>1. w.lo \in 1..((k - 1) + 1)
            BY DEF Window
        <3>2. QED
            BY <2>3, <3>1
    <2>5. QED
        BY <2>1, <2>2, <2>3, <2>4 DEF Window
<1>3. \A j \in 1..n : Drops(log[times[j]].done, log[times[k]].done) <=> Old(times, j, k)
    BY DEF Drops, Old, ADay
<1>4. J = {j \in w.lo..k : ~Old(times, j, k)}
    BY <1>2, <1>3
<1> HIDE DEF J
<1>5. k \in J
    <2>1. ~Old(times, k, k)
        BY <1>2, DayLasts DEF Old
    <2>2. k \in w.lo..k
        BY <1>2
    <2>3. QED
        BY <1>4, <2>1, <2>2
<1>6. lo \in J /\ \A j \in J : lo <= j
    <2>1. J \in SUBSET Nat /\ J # {}
        BY <1>2, <1>4, <1>5
    <2>2. QED
        BY <2>1, MinIsIn
<1> HIDE DEF lo
<1>7. lo \in w.lo..k /\ lo \in Nat /\ ~Old(times, lo, k)
    BY <1>2, <1>4, <1>6
<1>8. \A j \in 1..(lo - 1) : Old(times, j, k)
    <2>1. SUFFICES ASSUME NEW j \in 1..(lo - 1) PROVE Old(times, j, k)
        OBVIOUS
    <2>2. j \in 1..n /\ j < lo /\ j \in 1..k /\ j \in Nat
        BY <1>2, <1>7
    <2>3. CASE j >= w.lo
        <3>1. j \in w.lo..k
            BY <1>2, <2>2, <2>3
        <3>2. j \notin J
            BY <1>6, <1>7, <2>2
        <3>3. QED
            BY <1>4, <3>1, <3>2
    <2>4. CASE j < w.lo
        <3>1. j \in 1..(w.lo - 1) /\ k - 1 \in 1..n
            BY <1>2, <2>2, <2>4
        <3>2. Old(times, j, k - 1)
            BY <3>1 DEF Window
        <3>3. log[times[k - 1]].done <= log[times[k]].done
            BY <1>2, <3>1 DEF Lists
        <3>4. QED
            BY <1>2, <2>2, <3>1, <3>2, <3>3, DayLasts DEF Old
    <2>5. QED
        BY <1>2, <2>2, <2>3, <2>4
<1>9. \A j \in lo..k : ~Old(times, j, k)
    <2>1. SUFFICES ASSUME NEW j \in lo..k PROVE ~Old(times, j, k)
        OBVIOUS
    <2>2. j \in 1..n /\ lo \in 1..n /\ lo <= j
        BY <1>2, <1>7
    <2>3. log[times[lo]].done <= log[times[j]].done
        BY <2>2 DEF Lists
    <2>4. QED
        BY <1>2, <1>7, <2>2, <2>3, DayLasts DEF Old
<1>10. total = Images(times, lo, k) /\ total \in Nat
    <2> DEFINE c == log[times[k]].count
               all == Images(times, w.lo, k)
               left == Images(times, w.lo, lo - 1)
               kept == Images(times, lo, k)
    <2>1. Images(times, k, k) = c /\ c \in Nat
        BY OnePicture
    <2>2. /\ w.lo \in 1..n /\ k \in (w.lo)..(k + 1) /\ lo \in (w.lo)..(k + 1)
        BY <1>2, <1>7
    <2>3. all \in Nat /\ left \in Nat /\ kept \in Nat /\ all = left + kept
        BY <2>2, PartsAddUp
    <2>4. w.total \in Nat /\ all = w.total + c
        <3>1. CASE k = 1
            <4>1. w.total = 0 /\ w.lo = 1
                BY <3>1 DEF Window
            <4>2. QED
                BY <2>1, <3>1, <4>1
        <3>2. CASE k # 1
            <4>1. k - 1 > 0
                BY <1>2, <3>2
            <4>2. w.total = Images(times, w.lo, k - 1)
                BY <4>1 DEF Window
            <4>3. /\ Images(times, w.lo, k - 1) \in Nat
                  /\ Images(times, w.lo, k) = Images(times, w.lo, k - 1) + Images(times, k, k)
                BY <2>2, PartsAddUp
            <4>4. QED
                BY <2>1, <4>2, <4>3
        <3>3. QED
            BY <3>1, <3>2
    <2>5. Sum({times[j] : j \in w.lo..(lo - 1)}) = left
        BY DEF Images, Part
    <2>6. total = w.total + (c - left)
        BY <2>5
    <2> HIDE DEF c, all, left, kept, total
    <2>7. total = kept
        <3> DEFINE t == w.total
        <3>1. /\ t \in Nat /\ c \in Nat /\ left \in Nat /\ kept \in Nat
              /\ t + c = left + kept
            BY <2>1, <2>3, <2>4
        <3>2. total = t + (c - left)
            BY <2>6
        <3> HIDE DEF t
        <3>3. t + (c - left) = kept
            BY <3>1
        <3>4. QED
            BY <3>2, <3>3
    <2>8. QED
        BY <2>3, <2>7 DEF kept
<1> HIDE DEF total, v
<1>11. best \in {w.best, total} /\ best >= w.best /\ best >= total
    <2> DEFINE x == w.best
    <2>1. x \in Int /\ total \in Int
        BY <1>2, <1>10
    <2> HIDE DEF x
    <2>2. /\ Max({x, total}) \in {x, total} /\ Max({x, total}) >= x
          /\ Max({x, total}) >= total
        BY <2>1, Larger
    <2>3. best = Max({x, total})
        BY DEF x
    <2> HIDE DEF best
    <2>4. best \in {x, total} /\ best >= x /\ best >= total
        BY <2>2, <2>3
    <2>5. QED
        BY <2>4 DEF x
<1> HIDE DEF best
<1>12. Window(times, v, k)
    <2>1. lo \in 1..k /\ lo \in 1..(k + 1) /\ k # 0 /\ best \in Nat
        BY <1>2, <1>7, <1>10, <1>11
    <2>2. QED
        BY <1>1, <1>8, <1>9, <1>10, <2>1 DEF Window
<1>13. QED
    BY <1>1, <1>10, <1>11, <1>12 DEF v

\* More rows ask for no fewer images.
LEMMA SumsOfRows ==
    ASSUME Logged, NEW B \in SUBSET DOMAIN log, NEW A \in SUBSET B
    PROVE  Sum(A) \in Nat /\ Sum(B) \in Nat /\ Sum(A) <= Sum(B)
<1> DEFINE count == [i \in DOMAIN log |-> log[i].count]
<1>1. IsFiniteSet(DOMAIN log)
    BY LogFacts, FS_Interval
<1>2. IsFiniteSet(B) /\ \A i \in B : count[i] \in Nat
    <2>1. \A i \in DOMAIN log : count[i] \in Nat
        BY LogFacts, StatsBounds DEF Row
    <2>2. QED
        BY <1>1, <2>1, FS_Subset
<1>3. Sum(A) = SumFunctionOnSet(count, A) /\ Sum(B) = SumFunctionOnSet(count, B)
    BY DEF Sum
<1> HIDE DEF count
<1>4. QED
    BY <1>2, <1>3, SumGrows

\* The pointers after all pictures up to the k-th.
Slides == INSTANCE FoldFacts WITH Op <- Slid, Base <- [lo |-> 1, total |-> 0, best |-> 0]

Seen(times, F, k) ==
    /\ Window(times, F[k], k)
    /\ \A j \in 1..k : /\ Window(times, F[j], j)
                       /\ F[j].total \in Nat /\ F[j].total <= F[k].best
    /\ F[k].best = 0 \/ \E j \in 1..k : F[k].best = F[j].total

\* By induction over the pictures.
LEMMA AllSeen ==
    ASSUME Logged, NEW n, NEW times, NEW I, Lists(times, n, I)
    PROVE  \E F : /\ Seen(times, F, n)
                  /\ FoldLeftDomain(LAMBDA w, k : Slid(times, w, k),
                                    [lo |-> 1, total |-> 0, best |-> 0], times) = F[n]
<1> DEFINE base == [lo |-> 1, total |-> 0, best |-> 0]
           q == [i \in DOMAIN times |-> i]
<1>1. n \in Nat /\ DOMAIN times = 1..n /\ DOMAIN q = 1..n /\ \A k \in 1..n : q[k] = k
    BY DEF Lists
<1>2. FoldLeftDomain(LAMBDA w, k : Slid(times, w, k), base, times) = Slides!Folded(times, q)
    BY DEF FoldLeftDomain, FoldLeft, MapThenFoldSet, Slides!Folded, Slides!Folds, Slides!Max, Max
<1> HIDE DEF q
<1>3. PICK F : /\ F[0] = base
               /\ \A k \in 1..n : F[k] = Slid(times, F[k - 1], q[k])
               /\ Slides!Folded(times, q) = F[n]
    BY <1>1, Slides!FoldedInOrder
<1>4. \A k \in 1..n : F[k] = Slid(times, F[k - 1], k)
    BY <1>1, <1>3
<1> DEFINE T == {k \in Nat : k <= n => Seen(times, F, k)}
<1>5. T \in SUBSET Nat /\ 0 \in T
    BY <1>3 DEF Seen, Window
<1>6. ASSUME NEW k \in T PROVE k + 1 \in T
    <2>1. SUFFICES ASSUME k + 1 <= n PROVE Seen(times, F, k + 1)
        OBVIOUS
    <2>2. k \in Nat /\ k + 1 \in 1..n /\ (k + 1) - 1 = k /\ Seen(times, F, k)
        BY <1>1, <2>1
    <2> DEFINE w == F[k]
               v == F[k + 1]
    <2>3. v = Slid(times, w, k + 1)
        BY <1>4, <2>2
    <2>4. Window(times, w, (k + 1) - 1)
        BY <2>2 DEF Seen
    <2> HIDE DEF w, v
    <2>5. /\ Window(times, v, k + 1) /\ v.total \in Nat
          /\ v.best \in {w.best, v.total} /\ v.best >= w.best /\ v.best >= v.total
        BY <2>2, <2>3, <2>4, WindowSlides
    <2>6. w.best \in Nat /\ v.best \in Nat
        <3>1. w.best \in Nat
            BY <2>4 DEF Window
        <3>2. v.best \in Nat
            BY <2>5 DEF Window
        <3>3. QED
            BY <3>1, <3>2
    <2>7. ASSUME NEW j \in 1..(k + 1)
          PROVE  Window(times, F[j], j) /\ F[j].total \in Nat /\ F[j].total <= v.best
        <3>1. CASE j = k + 1
            BY <2>5, <2>6, <3>1 DEF v
        <3>2. CASE j # k + 1
            <4>1. j \in 1..k
                BY <2>2, <3>2
            <4>2. Window(times, F[j], j) /\ F[j].total \in Nat /\ F[j].total <= w.best
                BY <2>2, <4>1 DEF Seen, w
            <4>3. QED
                BY <2>5, <2>6, <4>2
        <3>3. QED
            BY <3>1, <3>2
    <2>8. v.best = 0 \/ \E j \in 1..(k + 1) : v.best = F[j].total
        <3>1. CASE v.best = v.total
            BY <2>2, <3>1 DEF v
        <3>2. CASE v.best = w.best
            <4>1. w.best = 0 \/ \E j \in 1..k : w.best = F[j].total
                BY <2>2 DEF Seen, w
            <4>2. 1..k \subseteq 1..(k + 1)
                BY <2>2
            <4>3. QED
                BY <3>2, <4>1, <4>2
        <3>3. QED
            BY <2>5, <3>1, <3>2
    <2>9. QED
        BY <2>5, <2>7, <2>8 DEF Seen, v
<1>7. Seen(times, F, n)
    <2>1. T = Nat
        <3> HIDE DEF T
        <3>1. QED
            BY <1>5, <1>6, Induction
    <2>2. QED
        BY <1>1, <2>1
<1>8. QED
    BY <1>2, <1>3, <1>7

\* Every total is the images of a day that ends with a picture, at most; every
\* day's images are in the window that ends with the day's last picture.
LEMMA LoggedBusiest == Logged => MaxOkIsBusiestDay
<1> SUFFICES ASSUME Logged, NEW h \in Accounts
             PROVE  LET since == Since(h)
                        within(t) == {i \in DOMAIN log :
                                         /\ log[i].done \in (t - Day * Hour + 1)..t
                                         /\ log[i].done >= since}
                    IN  MaxOk(h) = Max({Served(h, within(t)) : t \in 0..clock})
    BY DEF MaxOkIsBusiestDay
<1> DEFINE since == Since(h)
           I == {i \in Successful : log[i].home = h /\ log[i].done >= since}
           n == Cardinality(I)
           times == Times(h, since)
           within(t) == {i \in DOMAIN log : /\ log[i].done \in (t - Day * Hour + 1)..t
                                            /\ log[i].done >= since}
           In(t) == {i \in I : log[i].done \in (t - Day * Hour + 1)..t}
           All == {Served(h, within(t)) : t \in 0..clock}
           best == MaxOk(h)
<1>1. Lists(times, n, I)
    <2> HIDE DEF since
    <2>1. QED
        BY TimesListed
<1>2. PICK F : Seen(times, F, n) /\ best = F[n].best
    <2>1. best = FoldLeftDomain(LAMBDA w, k : Slid(times, w, k),
                                [lo |-> 1, total |-> 0, best |-> 0], times).best
        BY DEF MaxOk
    <2> HIDE DEF times, n, I, best
    <2>2. QED
        BY <1>1, <2>1, AllSeen
<1>3. \A t \in 0..clock : In(t) \in SUBSET I /\ I \in SUBSET DOMAIN log
                          /\ Served(h, within(t)) = Sum(In(t))
    <2> SUFFICES ASSUME NEW t \in 0..clock
                 PROVE  In(t) \in SUBSET I /\ I \in SUBSET DOMAIN log
                        /\ Served(h, within(t)) = Sum(In(t))
        OBVIOUS
    <2>1. within(t) \in SUBSET DOMAIN log /\ I \in SUBSET DOMAIN log
        BY DEF Successful
    <2>2. In(t) = {i \in within(t) : i \in Successful /\ log[i].home = h}
        BY DEF Successful
    <2> HIDE DEF within, In
    <2>3. Served(h, within(t)) = Sum(In(t))
        BY <2>1, <2>2, ServedIsCounted
    <2>4. QED
        BY <2>1, <2>2, <2>3 DEF In
<1> HIDE DEF since, I, n, times, within, best
<1>4. /\ n \in Nat /\ clock \in Nat
      /\ \A k \in 1..n : times[k] \in I /\ log[times[k]].done \in 0..clock
    <2>1. n \in Nat /\ I \in SUBSET DOMAIN log /\ \A k \in 1..n : times[k] \in I
        BY <1>1 DEF Lists
    <2>2. clock \in Nat /\ \A i \in DOMAIN log : log[i].done \in 0..clock
        BY LogFacts DEF Row, Entry
    <2>3. QED
        BY <2>1, <2>2
<1>5. best \in Nat
    BY <1>2 DEF Seen, Window
<1>6. I \in SUBSET DOMAIN log
    BY <1>1 DEF Lists
<1>7. ASSUME NEW k \in 1..n
      PROVE  /\ F[k].lo \in 1..k /\ F[k].total = Images(times, F[k].lo, k)
             /\ F[k].total \in Nat /\ F[k].total <= best
             /\ \A j \in 1..(F[k].lo - 1) : Old(times, j, k)
             /\ \A j \in (F[k].lo)..k : ~Old(times, j, k)
    <2>1. Window(times, F[k], k) /\ F[k].total \in Nat /\ F[k].total <= best
        BY <1>2 DEF Seen
    <2>2. k > 0
        BY <1>4
    <2>3. QED
        BY <2>1, <2>2 DEF Window
<1>8. ASSUME NEW t \in 0..clock PROVE Sum(In(t)) \in Nat /\ Sum(In(t)) <= best
    <2> DEFINE K == {k \in 1..n : times[k] \in In(t)}
    <2>1. In(t) \in SUBSET DOMAIN log
        BY <1>6
    <2>2. Sum(In(t)) \in Nat
        <3> HIDE DEF In
        <3>1. QED
            BY <2>1, SumsOfRows
    <2>3. CASE K = {}
        <3>1. In(t) = {}
            BY <1>1, <2>3 DEF Lists
        <3>2. Sum(In(t)) = 0
            <4> HIDE DEF In
            <4>1. QED
                BY <3>1, SumOfNone DEF Sum
        <3>3. QED
            BY <1>5, <3>2
    <2>4. CASE K # {}
        <3> DEFINE m == Max(K)
        <3>1. m \in K /\ \A k \in K : k <= m
            <4>1. K \in SUBSET (1..n)
                OBVIOUS
            <4> HIDE DEF K
            <4>2. QED
                BY <1>4, <2>4, <4>1, MaxIsIn
        <3> HIDE DEF m
        <3> DEFINE P == Part(times, F[m].lo, m)
        <3>2. m \in 1..n /\ log[times[m]].done <= t /\ t \in Nat
            BY <1>4, <3>1
        <3>3. F[m].lo \in 1..m
            BY <1>7, <3>2
        <3>4. ASSUME NEW i \in In(t) PROVE i \in P
            <4>1. PICK j \in 1..n : times[j] = i
                BY <1>1, <3>4 DEF Lists
            <4>2. j <= m /\ log[times[j]].done \in (t - Day * Hour + 1)..t
                BY <3>1, <4>1
            <4>3. CASE j < F[m].lo
                <5>1. j \in 1..(F[m].lo - 1)
                    BY <1>4, <3>2, <3>3, <4>3
                <5>2. log[times[j]].done <= log[times[m]].done - ADay
                    BY <1>7, <3>2, <5>1 DEF Old
                <5>3. log[times[j]].done \in (t - ADay + 1)..t
                    BY <4>2 DEF ADay
                <5>4. log[times[j]].done \in Nat /\ log[times[m]].done \in Nat
                    BY <1>4, <3>2
                <5>5. QED
                    BY <3>2, <5>2, <5>3, <5>4, DayLasts
            <4>4. CASE ~(j < F[m].lo)
                <5>1. j \in (F[m].lo)..m
                    BY <1>4, <3>2, <3>3, <4>2, <4>4
                <5>2. QED
                    BY <4>1, <5>1 DEF Part
            <4>5. QED
                BY <4>3, <4>4
        <3>5. P \in SUBSET DOMAIN log /\ In(t) \in SUBSET P
            <4>1. \A j \in (F[m].lo)..m : j \in 1..n
                BY <1>4, <3>2, <3>3
            <4>2. P \in SUBSET DOMAIN log
                BY <1>4, <1>6, <4>1 DEF Part
            <4>3. QED
                BY <3>4, <4>2
        <3> HIDE DEF P, In
        <3>6. Sum(In(t)) <= Sum(P) /\ Sum(P) \in Nat
            BY <3>5, SumsOfRows
        <3>7. Sum(P) <= best
            BY <1>7, <3>2 DEF P, Images
        <3>8. QED
            BY <1>5, <2>2, <3>6, <3>7
    <2>5. QED
        BY <2>2, <2>3, <2>4
<1>9. \E t \in 0..clock : best <= Sum(In(t))
    <2>1. CASE best = 0
        <3>1. 0 \in 0..clock
            BY <1>4
        <3>2. QED
            BY <1>8, <2>1, <3>1
    <2>2. CASE best # 0
        <3>1. PICK k \in 1..n : best = F[k].total
            BY <1>2, <2>2 DEF Seen
        <3> DEFINE t == log[times[k]].done
                   P == Part(times, F[k].lo, k)
        <3>2. best = Sum(P) /\ t \in 0..clock
            BY <1>4, <1>7, <3>1 DEF Images
        <3>3. ASSUME NEW j \in (F[k].lo)..k PROVE times[j] \in In(t)
            <4>1. F[k].lo \in 1..k
                BY <1>7
            <4>2. j \in 1..n /\ j <= k
                BY <1>4, <4>1
            <4>3. log[times[j]].done <= log[times[k]].done
                BY <1>1, <4>2 DEF Lists
            <4>4. ~(log[times[j]].done <= log[times[k]].done - ADay)
                BY <1>7 DEF Old
            <4>5. log[times[j]].done \in Nat /\ log[times[k]].done \in Nat /\ times[j] \in I
                BY <1>4, <4>2
            <4>6. log[times[j]].done \in (t - ADay + 1)..t
                BY <4>3, <4>4, <4>5, DayLasts
            <4>7. QED
                BY <4>5, <4>6 DEF ADay
        <3>4. P \in SUBSET In(t) /\ In(t) \in SUBSET DOMAIN log
            BY <1>6, <3>3 DEF Part
        <3> HIDE DEF P, In, t
        <3>5. Sum(P) <= Sum(In(t))
            BY <3>4, SumsOfRows
        <3>6. QED
            BY <3>2, <3>5
    <2>3. QED
        BY <2>1, <2>2
<1>10. best \in All /\ All \subseteq Nat /\ \A x \in All : x <= best
    <2>1. \A t \in 0..clock : Served(h, within(t)) \in Nat /\ Served(h, within(t)) <= best
        BY <1>3, <1>8
    <2>2. PICK t \in 0..clock : best <= Served(h, within(t))
        BY <1>3, <1>9
    <2>3. best = Served(h, within(t))
        BY <1>5, <2>1, <2>2
    <2>4. QED
        BY <2>1, <2>3
<1>11. best = Max(All)
    <2> HIDE DEF All
    <2>1. best \in All /\ \A y \in All : best >= y
        BY <1>5, <1>10
    <2>2. \A x \in All : (\A y \in All : x >= y) => x = best
        BY <1>5, <1>10
    <2>3. QED
        BY <2>1, <2>2 DEF Max
<1>12. QED
    BY <1>11 DEF since, within, best

(***************************************************************************)
(* The three parts under the panel's specification.                        *)
(***************************************************************************)
PanelInv == AInv /\ Logged /\ UInv

LEMMA PanelHolds == PanelSpec => []PanelInv
<1>1. PanelInit => PanelInv
    BY KeysInitInv, StatsInitInv, UsageInitInv DEF PanelInit, PanelInv
<1>2. PanelInv /\ [PanelNext]_panelVars => PanelInv'
    <2> SUFFICES ASSUME PanelInv, [PanelNext]_panelVars PROVE PanelInv'
        OBVIOUS
    <2>1. [KeysNext]_keyVars /\ [StatsNext]_statVars /\ [UsageNext]_usageVars
        BY DEF PanelNext, panelVars, keyVars, statVars, usageVars
    <2>2. QED
        BY <2>1, KeysNextInv, StatsNextInv, UsageNextInv DEF PanelInv
<1>3. QED
    BY <1>1, <1>2, PTL DEF PanelSpec

\* Every variable of the panel keeps its type, and every row and answer what it
\* must satisfy with the others.
THEOREM PanelTypes == PanelSpec => []PanelTypeOK
<1>1. PanelInv => PanelTypeOK
    BY LoggedType DEF PanelInv, AInv, UInv, PanelTypeOK
<1>2. QED
    BY <1>1, PanelHolds, PTL

\* per_account_stats: for every window shorter than the retention an account card
\* adds up what the requests it served asked for and counts what failed on it.
THEOREM CardsAreRight == PanelSpec => []CardsRightWithinRetention
<1>1. PanelInv => CardsRightWithinRetention
    BY LoggedCards DEF PanelInv
<1>2. QED
    BY <1>1, PanelHolds, PTL

\* _rolling_24h, _daily_counts and _hourly_chart: no bar within a chart's reach
\* lacks a served request or has one too many, for any hour, day and time zone.
THEOREM ChartsAreRight == PanelSpec => []ChartsShowWhatWasServed
<1>1. PanelInv => ChartsShowWhatWasServed
    BY LoggedCharts DEF PanelInv
<1>2. QED
    BY <1>1, PanelHolds, PTL

\* _wall_log: every 429 is counted under one event of its account with almost its
\* reset, and no two events are one wall, however the rows come mixed.
THEOREM WallLogIsRight == PanelSpec => []WallsToldApart
<1>1. PanelInv => WallsToldApart
    BY LoggedWalls DEF PanelInv
<1>2. QED
    BY <1>1, PanelHolds, PTL

\* _wall_log: the two pointers find the day since an account's last wall on which
\* what it served asked for most, whatever ended at the same moment.
THEOREM BusiestDayIsRight == PanelSpec => []MaxOkIsBusiestDay
<1>1. PanelInv => MaxOkIsBusiestDay
    BY LoggedBusiest DEF PanelInv
<1>2. QED
    BY <1>1, PanelHolds, PTL
=============================================================================
