----------------------------- MODULE ImageStore -----------------------------
(***************************************************************************)
(* The sweeps over what Delivery leaves (app/services/storage.py and       *)
(* cleanup.py) and the admin's delete (app/api/admin.py).  A sweep runs in *)
(* a thread of its own beside the event loop: the periodic one and the     *)
(* admin's may overlap with each other and with everything else.           *)
(*                                                                         *)
(* Time is what has passed IMAGE_RETENTION_DAYS: a row, whose expires_at    *)
(* counts from its creation, before the files its job wrote later, and no  *)
(* row before its job is over.                                             *)
(*                                                                         *)
(* Bound: MaxErrors files and directories that cannot be deleted.          *)
(***************************************************************************)
EXTENDS Delivery

CONSTANTS
    Sweeps,         \* cleanup_expired_storage calls that may overlap
    MaxErrors,
    Nothing

ASSUME SweepAssumption ==
    /\ MaxErrors \in Nat
    /\ Nothing \notin Items

VARIABLES
    due,        \* rows with expires_at in the past
    old,        \* what was last modified before the retention's cutoff
    at,         \* where a sweep is
    todo,       \* what its current loop still has before it
    seen,       \* the file or directory it is about to stat
    errors      \* what could not be deleted

sweepVars == <<due, old, at, todo, seen, errors>>
allVars == <<vars, sweepVars>>

SInit ==
    /\ Init
    /\ due = {} /\ old = {}
    /\ at = [s \in Sweeps |-> "idle"]
    /\ todo = [s \in Sweeps |-> {}]
    /\ seen = [s \in Sweeps |-> Nothing]
    /\ errors = {}

-----------------------------------------------------------------------------
\* A job's step: what it writes is new, what it removes is gone.
JobStep(r) ==
    /\ Step(r)
    /\ old' = old \cap disk'
    /\ UNCHANGED <<due, at, todo, seen, errors>>

FallsDue(r) ==
    /\ InTable(r) /\ r \notin due /\ pc[r] # "codex"
    /\ due' = due \cup {r}
    /\ UNCHANGED <<vars, old, at, todo, seen, errors>>

GrowsOld(r) ==
    /\ r \in due
    /\ old' = old \cup {x \in disk : x[1] = r}
    /\ UNCHANGED <<vars, due, at, todo, seen, errors>>

\* The admin deletes a row, with what it names, whatever the job is doing.
AdminDelete(r) ==
    /\ InTable(r)
    /\ row' = [row EXCEPT ![r] = "deleted"]
    /\ disk' = disk \ {<<r, i>> : i \in known[r]}
    /\ known' = [known EXCEPT ![r] = {}]
    /\ old' = old \cap disk'
    /\ UNCHANGED <<pc, images, sha>>
    /\ UNCHANGED <<due, at, todo, seen, errors>>

-----------------------------------------------------------------------------
Named == {x \in Items : x[2] \in known[x[1]]}

\* list_expired_image_requests: the rows, with what they name at that moment.
SweepBegins(s) ==
    /\ at[s] = "idle"
    /\ at' = [at EXCEPT ![s] = "rows"]
    /\ todo' = [todo EXCEPT ![s] =
                   {[row |-> r, names |-> known[r]] :
                        r \in {q \in due : InTable(q) /\ row[q] # "expired"}}]
    /\ UNCHANGED <<vars, due, old, seen, errors>>

\* Mutant of SweepsRow: the row is expired, its second image stays.
SweepsOneFile(s, e) ==
    /\ at[s] = "rows" /\ e \in todo[s]
    /\ disk' = disk \ {<<e.row, i>> : i \in e.names \cap {0, 1}}
    /\ row' = [row EXCEPT ![e.row] = IF InTable(e.row) THEN "expired" ELSE @]
    /\ old' = old \cap disk'
    /\ todo' = [todo EXCEPT ![s] = @ \ {e}]
    /\ UNCHANGED <<pc, images, sha, known, due, at, seen, errors>>

\* One row: its files and its directory go, or cannot, and it is expired.
SweepsRow(s, e) ==
    /\ at[s] = "rows" /\ e \in todo[s]
    /\ LET items == {<<e.row, i>> : i \in e.names} \cap disk
       IN  \E stuck \in SUBSET items :
              /\ Cardinality(errors \cup stuck) <= MaxErrors
              /\ errors' = errors \cup stuck
              /\ disk' = disk \ (items \ stuck)
    /\ row' = [row EXCEPT ![e.row] = IF InTable(e.row) THEN "expired" ELSE @]
    /\ old' = old \cap disk'
    /\ todo' = [todo EXCEPT ![s] = @ \ {e}]
    /\ UNCHANGED <<pc, images, sha, known>>
    /\ UNCHANGED <<due, at, seen>>

\* The next loop: over the files, then over the work directories, that no row
\* names at its beginning.
Loop(s, files) ==
    todo' = [todo EXCEPT ![s] = {x \in disk \ Named : (x[2] # 0) = files}]

LoopEnds(s) ==
    /\ todo[s] = {} /\ seen[s] = Nothing
    /\ \/ at[s] = "rows" /\ at' = [at EXCEPT ![s] = "files"] /\ Loop(s, TRUE)
       \/ at[s] = "files" /\ at' = [at EXCEPT ![s] = "dirs"] /\ Loop(s, FALSE)
       \/ at[s] = "dirs" /\ at' = [at EXCEPT ![s] = "idle"] /\ UNCHANGED todo
    /\ UNCHANGED <<vars, due, old, seen, errors>>

\* is_file() or is_dir(): if it is there, it is looked at next.
Looks(s, x) ==
    /\ at[s] \in {"files", "dirs"} /\ x \in todo[s] /\ seen[s] = Nothing
    /\ todo' = [todo EXCEPT ![s] = @ \ {x}]
    /\ seen' = [seen EXCEPT ![s] = IF x \in disk THEN x ELSE Nothing]
    /\ UNCHANGED <<vars, due, old, at, errors>>

\* Mutant of Stats: its age is not looked at.
StatsNoAge(s) ==
    /\ seen[s] # Nothing /\ seen[s] \in disk
    /\ disk' = disk \ {seen[s]}
    /\ old' = old \cap disk'
    /\ seen' = [seen EXCEPT ![s] = Nothing]
    /\ UNCHANGED <<row, pc, images, sha, known>>
    /\ UNCHANGED <<due, at, todo, errors>>

\* stat() and, if it is old, unlink() or rmtree(), which may fail.
Stats(s) ==
    /\ seen[s] # Nothing /\ seen[s] \in disk
    /\ \/ seen[s] \in old /\ disk' = disk \ {seen[s]}
       \/ UNCHANGED disk
    /\ old' = old \cap disk'
    /\ seen' = [seen EXCEPT ![s] = Nothing]
    /\ UNCHANGED <<row, pc, images, sha, known>>
    /\ UNCHANGED <<due, at, todo, errors>>

\* Mutant of Aborts: a sweep that failed is not made again.
AbortsForGood(s) ==
    /\ seen[s] # Nothing /\ seen[s] \notin disk
    /\ at' = [at EXCEPT ![s] = "aborted"]
    /\ UNCHANGED <<vars, due, old, todo, seen, errors>>

\* Somebody deleted it in between: the sweep ends with FileNotFoundError.
Aborts(s) ==
    /\ seen[s] # Nothing /\ seen[s] \notin disk
    /\ at' = [at EXCEPT ![s] = "idle"]
    /\ todo' = [todo EXCEPT ![s] = {}]
    /\ seen' = [seen EXCEPT ![s] = Nothing]
    /\ UNCHANGED <<vars, due, old, errors>>

SweepStep(s) ==
    \/ \E e \in todo[s] : SweepsRow(s, e)
    \/ \E x \in todo[s] : Looks(s, x)
    \/ LoopEnds(s) \/ Stats(s) \/ Aborts(s)

SNext ==
    \/ \E r \in Requests : JobStep(r) \/ FallsDue(r) \/ GrowsOld(r) \/ AdminDelete(r)
    \/ \E s \in Sweeps : SweepBegins(s) \/ SweepStep(s)

SSpec == SInit /\ [][SNext]_allVars

-----------------------------------------------------------------------------
StoreTypeOK ==
    /\ TypeOK
    /\ due \subseteq Requests /\ old \subseteq disk
    /\ at \in [Sweeps -> {"idle", "rows", "files", "dirs"}]
    /\ seen \in [Sweeps -> Items \cup {Nothing}]
    /\ errors \subseteq Items /\ Cardinality(errors) <= MaxErrors

\* Until its retention is over, a succeeded request has all its files, whatever
\* sweeps are at work; and a running one has its work directory and the images
\* it has made so far.
PromisedFilesExist ==
    \A r \in Requests \ due :
        /\ row[r] = "succeeded" => \A i \in 0..Count[r] : <<r, i>> \in disk
        /\ row[r] = "running" /\ pc[r] = "codex" => {Workdir(r)} \cup Made(r) \subseteq disk

\* What a sweep could not delete is what it leaves for ever: the row is expired,
\* so no sweep reads it again, and still names the file, so it is no orphan.
\* Nothing else is ever beyond the reach of both.
OnlyErrorsAreStuck ==
    \A x \in disk : row[x[1]] = "expired" /\ x \in Named => x \in errors
=============================================================================
