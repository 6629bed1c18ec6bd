------------------------------ MODULE ApiKeys -------------------------------
(***************************************************************************)
(* The api_keys table, the requests made with a key and who may poll them: *)
(* require_api_key and the /v1/images handlers (app/api/public.py), the    *)
(* admin's key and test pages (app/api/admin.py) and their statements      *)
(* (app/db.py).                                                            *)
(*                                                                         *)
(* A handler authenticates, counts the call and inserts its row without an *)
(* await in between, on the one event loop that serves the admin too: an   *)
(* action each.  Keys are random, so a key's token and its id, the token's *)
(* last characters, stand for each other.  What a job does between queued  *)
(* and its outcome is JobQueue's; here it just ends.                       *)
(*                                                                         *)
(* Bound: a key's counter stops at MaxUses.                                *)
(***************************************************************************)
EXTENDS Naturals, FiniteSets

CONSTANTS
    Keys,           \* tokens that may ever be issued
    Asked,          \* request ids
    Nobody,         \* NULL
    MaxUses

ASSUME ApiKeysAssumption ==
    Nobody \notin Keys /\ IsFiniteSet(Asked) /\ MaxUses \in Nat

VARIABLES
    key,        \* the row of a key in api_keys
    uses,       \* api_keys.requests_count
    owner,      \* image_requests.api_key_id
    stage,      \* image_requests.status
    asker,      \* history: the key a request was made with
    uncounted   \* history: the admin's tests the queue refused

keyVars == <<key, uses, owner, stage, asker, uncounted>>

KeyRows == {"none", "enabled", "disabled", "deleted"}
Known == {k \in Keys : key[k] \in {"enabled", "disabled"}}
Stages == {"none", "queued", "succeeded", "failed", "expired", "deleted"}
Rowed(r) == stage[r] \notin {"none", "deleted"}

KeysInit ==
    /\ key = [k \in Keys |-> "none"]
    /\ uses = [k \in Keys |-> 0]
    /\ owner = [r \in Asked |-> Nobody]
    /\ stage = [r \in Asked |-> "none"]
    /\ asker = [r \in Asked |-> Nobody]
    /\ uncounted = {}

-----------------------------------------------------------------------------
\* What require_api_key answers to a bearer of k.
Auth(k) ==
    CASE key[k] \in {"none", "deleted"} -> "401"
      [] key[k] = "disabled" -> "403"
      [] key[k] = "enabled" -> "ok"

\* What a bearer of k is told of request r: another key's job is not found.
Poll(k, r) ==
    CASE Auth(k) # "ok" -> Auth(k)
      [] Auth(k) = "ok" /\ (~Rowed(r) \/ owner[r] # k) -> "404"
      [] OTHER -> stage[r]

\* mark_api_key_used, n times in one handler.
Used(k, n) ==
    /\ uses[k] + n <= MaxUses
    /\ uses' = [uses EXCEPT ![k] = @ + n]

\* insert_image_request, with the status the handler leaves the row in.
Inserted(k, r, s) ==
    /\ stage[r] = "none"
    /\ stage' = [stage EXCEPT ![r] = s]
    /\ owner' = [owner EXCEPT ![r] = k]
    /\ asker' = [asker EXCEPT ![r] = k]

-----------------------------------------------------------------------------
\* An authenticated call that leaves no row: a poll, a vision request, or a
\* body that does not validate.
Calls(k) ==
    /\ Auth(k) = "ok"
    /\ Used(k, 1)
    /\ UNCHANGED <<key, owner, stage, asker, uncounted>>

\* Mutant of Generates: the call is not counted.
GeneratesFree(k, r) ==
    /\ Auth(k) = "ok"
    /\ Inserted(k, r, "queued")
    /\ UNCHANGED <<key, uses, uncounted>>

\* generate_image: its row is queued, and failed later on if there is no room.
Generates(k, r) ==
    /\ Auth(k) = "ok"
    /\ Used(k, 1)
    /\ Inserted(k, r, "queued")
    /\ UNCHANGED <<key, uncounted>>

\* submit_image_job: submit_only counts a queued job once more.
Submits(k, r) ==
    /\ Auth(k) = "ok"
    /\ \/ Used(k, 2) /\ Inserted(k, r, "queued")
       \/ Used(k, 1) /\ Inserted(k, r, "failed")
    /\ UNCHANGED <<key, uncounted>>

\* admin_test_generate goes through no authentication: only submit_only
\* counts, and it does not count a job the queue has no room for.
AdminTests(k, r) ==
    /\ key[k] = "enabled"
    /\ \/ Used(k, 1) /\ Inserted(k, r, "queued") /\ UNCHANGED uncounted
       \/ /\ Inserted(k, r, "failed")
          /\ uncounted' = uncounted \cup {r}
          /\ UNCHANGED uses
    /\ UNCHANGED key

\* A job reaches its outcome, the sweep passes, the admin deletes a row.
JobEnds(r) ==
    /\ stage[r] = "queued"
    /\ \E s \in {"succeeded", "failed"} : stage' = [stage EXCEPT ![r] = s]
    /\ UNCHANGED <<key, uses, owner, asker, uncounted>>

RowExpires(r) ==
    /\ stage[r] \in {"queued", "succeeded", "failed"}
    /\ stage' = [stage EXCEPT ![r] = "expired"]
    /\ UNCHANGED <<key, uses, owner, asker, uncounted>>

RowDeleted(r) ==
    /\ Rowed(r)
    /\ stage' = [stage EXCEPT ![r] = "deleted"]
    /\ owner' = [owner EXCEPT ![r] = Nobody]
    /\ UNCHANGED <<key, uses, asker, uncounted>>

-----------------------------------------------------------------------------
CreatesKey(k) ==
    /\ key[k] = "none"
    /\ key' = [key EXCEPT ![k] = "enabled"]
    /\ UNCHANGED <<uses, owner, stage, asker, uncounted>>

DisablesKey(k) ==
    /\ key[k] = "enabled"
    /\ key' = [key EXCEPT ![k] = "disabled"]
    /\ UNCHANGED <<uses, owner, stage, asker, uncounted>>

\* Mutant of Unlinked: the UPDATE without its WHERE clause.
UnlinkedAll(k) == [r \in Asked |-> Nobody]

\* delete_api_key's UPDATE: the key's rows lose their api_key_id.
Unlinked(k) == [r \in Asked |-> IF owner[r] = k THEN Nobody ELSE owner[r]]

\* delete_api_key: the rows stay, the key goes, in one transaction.
DeletesKey(k) ==
    /\ k \in Known
    /\ owner' = Unlinked(k)
    /\ key' = [key EXCEPT ![k] = "deleted"]
    /\ UNCHANGED <<uses, stage, asker, uncounted>>

KeysNext ==
    \/ \E k \in Keys :
           \/ CreatesKey(k) \/ DisablesKey(k) \/ DeletesKey(k) \/ Calls(k)
           \/ \E r \in Asked : Generates(k, r) \/ Submits(k, r) \/ AdminTests(k, r)
    \/ \E r \in Asked : JobEnds(r) \/ RowExpires(r) \/ RowDeleted(r)

KeysSpec == KeysInit /\ [][KeysNext]_keyVars

-----------------------------------------------------------------------------
(***************************************************************************)
(* Properties                                                              *)
(***************************************************************************)

\* The types, and the foreign key: a row's api_key_id is a key of the table
\* (deleting one that rows still name fails, db.py:149).
KeysTypeOK ==
    /\ key \in [Keys -> KeyRows]
    /\ uses \in [Keys -> 0..MaxUses]
    /\ owner \in [Asked -> Known \cup {Nobody}]
    /\ stage \in [Asked -> Stages]
    /\ asker \in [Asked -> Keys \cup {Nobody}]
    /\ uncounted \subseteq Asked

\* "Jobs are only visible to the key that created them" (public.py:111), and to
\* that key always: whatever other keys are created, disabled or deleted while
\* its job runs, the key that asked reads its row's own status for as long as
\* key and row exist, and no other key ever reads it, not even once the row
\* has lost its api_key_id.
JobsSeenByTheirKey ==
    \A r \in Asked, k \in Keys :
        Poll(k, r) = IF Auth(k) = "ok" /\ Rowed(r) /\ asker[r] = k
                       THEN stage[r]
                       ELSE IF Auth(k) = "ok" THEN "404" ELSE Auth(k)

\* Every request made with a key is in the key's counter, whichever of the
\* three ways it came and even when it was refused; only a test the admin made
\* while the queue was full is not.
RowsAreCounted ==
    \A k \in Keys :
        Cardinality({r \in Asked : asker[r] = k} \ uncounted) <= uses[k]
=============================================================================
