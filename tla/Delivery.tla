------------------------------ MODULE Delivery ------------------------------
(***************************************************************************)
(* CodexImageGenerator.generate (app/services/codex_image.py) from the     *)
(* work directory to the delivered images, with the row it belongs to:     *)
(* each codex run leaves an image in its session rollout or none, its      *)
(* bytes become the request's file, and when all are there their hashes    *)
(* are compared with those on record (app/db.py).                          *)
(*                                                                         *)
(* The stretch between two runs of codex has no await and is one step; so  *)
(* is the one after the last run, with the row's final write.  A codex run *)
(* may hand back any picture, new or old (comment at codex_image.py:804).  *)
(***************************************************************************)
EXTENDS Integers, FiniteSets, Sequences, SequencesExt

CONSTANTS
    Requests,
    Pictures,       \* what an image file may contain
    Count,          \* how many images a request makes
    NoPicture

ASSUME DeliveryAssumption ==
    /\ NoPicture \notin Pictures
    /\ Count \in [Requests -> Nat \ {0}]

VARIABLES
    row,        \* status of the request's row
    pc,         \* where generate is
    images,     \* what it has made so far
    sha,        \* the row's output_sha256
    disk,       \* generated_dir and codex_workdir
    known       \* what the row names of it: image_paths and workdir

vars == <<row, pc, images, sha, disk, known>>

(***************************************************************************)
(* <<r, i>> is the file of r's i-th image, <<r, 0>> r's work directory.    *)
(***************************************************************************)
Workdir(r) == <<r, 0>>
Items == UNION {{r} \X (0..Count[r]) : r \in Requests}
Made(r) == {<<r, i>> : i \in 1..Len(images[r])}

Current(r) == <<r, Len(images[r]) + 1>>      \* storage.generated_image_path

InTable(r) == row[r] \notin {"none", "deleted"}

Init ==
    /\ row = [r \in Requests |-> "none"]
    /\ pc = [r \in Requests |-> "idle"]
    /\ images = [r \in Requests |-> <<>>]
    /\ sha = [r \in Requests |-> NoPicture]
    /\ disk = {}
    /\ known = [r \in Requests |-> {}]

-----------------------------------------------------------------------------
\* What _find_image_in_rollout may return: the picture of some rollout that is
\* not older than the run, whatever codex put there, or nothing.
Recovered == Pictures \cup {NoPicture}

\* The row is running, run_dir is made, and the first codex run begins.
Begin(r) ==
    /\ pc[r] = "idle"
    /\ row' = [row EXCEPT ![r] = "running"]
    /\ pc' = [pc EXCEPT ![r] = "codex"]
    /\ disk' = disk \cup {Workdir(r)}
    /\ UNCHANGED <<images, sha, known>>

\* A rollout image that is not the last: into the file, and on to the next run.
NextImage(r, p) ==
    /\ pc[r] = "codex" /\ Len(images[r]) + 1 < Count[r]
    /\ images' = [images EXCEPT ![r] = Append(@, p)]
    /\ disk' = disk \cup {Current(r)}
    /\ UNCHANGED <<row, pc, sha, known>>

\* mark_image_request_failed, which names the work directory if the exception did.
MarkFailed(r, named) ==
    /\ pc' = [pc EXCEPT ![r] = "over"]
    /\ row' = [row EXCEPT ![r] = IF InTable(r) THEN "failed" ELSE @]
    /\ known' = [known EXCEPT ![r] = IF InTable(r) /\ named THEN @ \cup {0} ELSE @]

\* What codex copied to output_path, as it was told to, or nothing.
Copy(r) == {{}, {Current(r)}}

\* Mutant of Raises: the files of a request that failed are left.
RaisesLeaves(r) ==
    /\ pc[r] = "codex"
    /\ \E c \in Copy(r) : disk' = disk \cup c
    /\ \E named \in BOOLEAN : MarkFailed(r, named)
    /\ UNCHANGED <<images, sha>>

\* The run raises: the images before it go, what codex copied for this one stays.
Raises(r) ==
    /\ pc[r] = "codex"
    /\ \E c \in Copy(r) : disk' = (disk \ Made(r)) \cup c
    /\ \E named \in BOOLEAN : MarkFailed(r, named)
    /\ UNCHANGED <<images, sha>>

\* No image in the rollout: codex's copy is not trusted either.
NoImage(r) ==
    /\ pc[r] = "codex"
    /\ disk' = disk \ (Made(r) \cup {Current(r)})
    /\ MarkFailed(r, TRUE)
    /\ UNCHANGED <<images, sha>>

\* Mutant of Seen: the images of expired requests are forgotten.
SeenUnexpired(r, p) == \E s \in Requests \ {r} : row[s] = "succeeded" /\ sha[s] = p

\* output_sha_seen_before
Seen(r, p) == \E s \in Requests \ {r} : InTable(s) /\ sha[s] = p

(***************************************************************************)
(* The last image, p, and the check of all of them in turn: the first that *)
(* was seen before, or whose file is gone, fails the request; the row      *)
(* keeps the hash of the one before it.                                    *)
(***************************************************************************)
Refused(r, pics, i) == Seen(r, pics[i]) \/ (i < Count[r] /\ <<r, i>> \notin disk)

LastImage(r, p) ==
    /\ pc[r] = "codex" /\ Len(images[r]) + 1 = Count[r]
    /\ LET pics == Append(images[r], p)
           bad == {i \in 1..Count[r] : Refused(r, pics, i)}
           good == {i \in 1..Count[r] : \A j \in bad : i < j}
       IN  /\ images' = [images EXCEPT ![r] = pics]
           /\ sha' = [sha EXCEPT ![r] = IF good # {} /\ InTable(r)
                                          THEN pics[Cardinality(good)] ELSE @]
           /\ IF bad = {}
                THEN \/ /\ disk' = disk \cup {Current(r)}
                        /\ pc' = [pc EXCEPT ![r] = "over"]
                        /\ row' = [row EXCEPT ![r] = IF InTable(r) THEN "succeeded" ELSE @]
                        /\ known' = [known EXCEPT ![r] = IF InTable(r) THEN 0..Count[r] ELSE @]
                     \/ /\ disk' = disk \cup {Current(r)}       \* the write raises
                        /\ MarkFailed(r, FALSE)
                ELSE /\ disk' = disk \ (Made(r) \cup {Current(r)})
                     /\ \E named \in BOOLEAN : MarkFailed(r, named)

\* stop() cancels the worker, or the process dies: CancelledError is no Exception.
Cancelled(r) ==
    /\ pc[r] = "codex"
    /\ pc' = [pc EXCEPT ![r] = "over"]
    /\ \E c \in Copy(r) : disk' = disk \cup c
    /\ UNCHANGED <<row, images, sha, known>>

Step(r) ==
    \/ Begin(r) \/ Raises(r) \/ NoImage(r) \/ Cancelled(r)
    \/ \E p \in Recovered \ {NoPicture} : NextImage(r, p) \/ LastImage(r, p)

Next == \E r \in Requests : Step(r)

-----------------------------------------------------------------------------
TypeOK ==
    /\ row \in [Requests -> {"none", "running", "succeeded", "failed", "expired", "deleted"}]
    /\ pc \in [Requests -> {"idle", "codex", "over"}]
    /\ images \in [Requests -> Seq(Pictures)]
    /\ \A r \in Requests : Len(images[r]) <= Count[r]
    /\ sha \in [Requests -> Pictures \cup {NoPicture}]
    /\ disk \subseteq Items
    /\ known \in [Requests -> SUBSET Nat]
    /\ \A r \in Requests : known[r] \subseteq 0..Count[r]

\* A row that once succeeded names its images until it is deleted.
Delivered(r) == Count[r] \in known[r]

\* No request succeeds with a picture that one before it, still on record, ended
\* with.  (A request's other pictures, and those of one and the same request,
\* are compared with nothing later: a row keeps one hash.)
NoRepeatOfLast ==
    [][\A r, s \in Requests :
          r # s /\ Delivered(s) /\ ~Delivered(r) /\ Delivered(r)' =>
              Last(images[s]) \notin Range(images'[r])]_vars

\* The images of a request passed the check.
Passed(r) == Len(images[r]) = Count[r] /\ sha[r] = Last(images[r])

\* A request that failed leaves no image behind, but for codex's own copy of the
\* one whose run raised, and except when it was its success that could not be
\* written.
FailureLeavesNoImage ==
    \A r \in Requests :
        row[r] = "failed" /\ pc[r] = "over" /\ ~Passed(r) =>
            \A i \in 1..Count[r] : <<r, i>> \in disk => i > Len(images[r])
=============================================================================
