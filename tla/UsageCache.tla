----------------------------- MODULE UsageCache -----------------------------
(***************************************************************************)
(* fetch_many and its cache (app/services/chatgpt_usage.py), as called by  *)
(* the overview page and by the rotation of every job: on one event loop,  *)
(* each call suspends once, while the accounts it found stale are looked   *)
(* up side by side, and any number of calls may be at that point.          *)
(*                                                                         *)
(* An account's usage keeps changing.  An answer is the moment the account *)
(* gave it, which is all that tells a good one from an old one, or Failed: *)
(* no token, a time-out, a refusal, or a body without a window.            *)
(*                                                                         *)
(* Bounds: the clock stops at MaxMoment; a call is made once.              *)
(***************************************************************************)
EXTENDS Integers

CONSTANTS
    Pages,          \* calls of fetch_many
    Plans,          \* CODEX_HOMEs asked for
    Failed,         \* None
    TTL,            \* _CACHE_TTL_SECONDS
    MaxMoment

ASSUME UsageAssumption ==
    TTL \in Nat \ {0} /\ MaxMoment \in Nat /\ Failed \notin Int

VARIABLES
    moment,     \* time.monotonic()
    cache,      \* _cache: per home when its lookup began and what it said
    page,       \* where a call is
    begun,      \* its now
    stale,      \* its stale
    answer      \* its lookups' answers, and its result once it is done

usageVars == <<moment, cache, page, begun, stale, answer>>

Moments == 0..MaxMoment
Answers == Moments \cup {Failed}
Waiting == -1           \* a lookup that has not come back, an absent entry

Absent == [at |-> Waiting, says |-> Waiting]

UsageInit ==
    /\ moment = 0
    /\ cache = [h \in Plans |-> Absent]
    /\ page = [p \in Pages |-> "idle"]
    /\ begun = [p \in Pages |-> 0]
    /\ stale = [p \in Pages |-> {}]
    /\ answer = [p \in Pages |-> [h \in Plans |-> Waiting]]

-----------------------------------------------------------------------------
\* Whether h's entry can be used at this moment.
Fresh(h) == cache[h] # Absent /\ moment - cache[h].at < TTL

\* fetch_many(homes) up to its await: what is fresh is taken, the rest is
\* looked up; with nothing stale the call returns at once.
Asks(p) ==
    /\ page[p] = "idle"
    /\ begun' = [begun EXCEPT ![p] = moment]
    /\ \E homes \in SUBSET Plans \ {{}} :
           /\ stale' = [stale EXCEPT ![p] = {h \in homes : ~Fresh(h)}]
           /\ answer' = [answer EXCEPT ![p] =
                  [h \in Plans |-> IF h \in homes /\ Fresh(h) THEN cache[h].says ELSE Waiting]]
           /\ page' = [page EXCEPT ![p] =
                  IF \A h \in homes : Fresh(h) THEN "done" ELSE "asking"]
    /\ UNCHANGED <<moment, cache>>

\* _fetch_one: the account answers, or not.
Answered(p, h) ==
    /\ page[p] = "asking" /\ h \in stale[p] /\ answer[p][h] = Waiting
    /\ \E a \in {moment, Failed} : answer' = [answer EXCEPT ![p][h] = a]
    /\ UNCHANGED <<moment, cache, page, begun, stale>>

\* Mutant of Stamp: the entry counts from the moment it is stored.
StampNow(p) == moment

\* The moment an entry counts from: that of the call, not of the answer.
Stamp(p) == begun[p]

\* gather is done: every lookup's answer goes into the cache, over whatever a
\* call that overlapped this one has put there.
Stores(p) ==
    /\ page[p] = "asking" /\ \A h \in stale[p] : answer[p][h] # Waiting
    /\ cache' = [h \in Plans |-> IF h \in stale[p]
                                   THEN [at |-> Stamp(p), says |-> answer[p][h]]
                                   ELSE cache[h]]
    /\ page' = [page EXCEPT ![p] = "done"]
    /\ UNCHANGED <<moment, begun, stale, answer>>

\* The caller is cancelled (a page closed, a worker stopped): nothing is kept.
GivenUp(p) ==
    /\ page[p] = "asking"
    /\ page' = [page EXCEPT ![p] = "gone"]
    /\ UNCHANGED <<moment, cache, begun, stale, answer>>

Elapses ==
    /\ moment < MaxMoment
    /\ moment' = moment + 1
    /\ UNCHANGED <<cache, page, begun, stale, answer>>

UsageNext ==
    \/ Elapses
    \/ \E p \in Pages :
           Asks(p) \/ Stores(p) \/ GivenUp(p) \/ \E h \in Plans : Answered(p, h)

UsageSpec == UsageInit /\ [][UsageNext]_usageVars

-----------------------------------------------------------------------------
(***************************************************************************)
(* Properties                                                              *)
(***************************************************************************)
UsageTypeOK ==
    /\ moment \in Moments
    /\ cache \in [Plans -> [at : Moments, says : Answers] \cup {Absent}]
    /\ page \in [Pages -> {"idle", "asking", "done", "gone"}]
    /\ begun \in [Pages -> Moments]
    /\ stale \in [Pages -> SUBSET Plans]
    /\ answer \in [Pages -> [Plans -> Answers \cup {Waiting}]]
    /\ \A p \in Pages : page[p] = "done" =>
           \A h \in stale[p] : answer[p][h] # Waiting

\* What a page shows, or the rotation acts on, was said by the account less
\* than TTL before the call, however long the lookup took that brought it and
\* in whatever order overlapping lookups were stored: an older answer may
\* replace a newer one, but only with the date that makes it expire first.
AnswersAreRecent ==
    \A p \in Pages, h \in Plans :
        page[p] = "done" /\ answer[p][h] \in Moments => begun[p] - answer[p][h] < TTL
=============================================================================
