# A specification of codex-image-service

TLA+ modules for the parts of codex-image-service whose state several actors
change: the job queue between the HTTP handlers and the background workers, the
request rows both of them write, the locks that keep two `codex` processes off
one ChatGPT account and the refresh tokens those locks protect, the choice of
the account a request runs on, the image files and the sweeps over them, and
what the admin panel keeps and shows. TLC checks them on small instances, TLAPS
proves their safety for every instance. Line numbers refer to the files
of this repository.

## The system and its parts

| Part | Code | State | Operations |
|---|---|---|---|
| Job queue and workers | `app/services/job_queue.py` | `asyncio.Queue` (bounded), the callers blocked in `put`, one future per job, worker tasks | `submit_only`, `submit_and_wait`, `_worker`, `_run_job`, `start`, `stop` |
| Request rows | `app/db.py` | SQLite `image_requests` (status, files, content hash, account) | insert, mark running / succeeded / failed / expired, delete, list |
| Image handlers | `app/api/public.py` | none | generate (200, 502, 503, 504), submit (202, 503), poll, vision |
| Per-home guard | `codex_image.py` 44-61, 89-95, 408-462, 914-1018 | one `asyncio.Lock` per CODEX_HOME, an flock on a file in the home, the executor's threads, codex processes | `_home_exec_guard`, `_run_codex_once`, `inspect`, `_terminate_process_group` |
| Tokens and audit | `codex_image.py` 64-86, 365-406 | `auth.json` of each home, `token-audit.log` | fingerprint before and after a run, audit line |
| Dispatch, retry, cooldowns | `codex_image.py` 245-276, 337-344, 464-550, 841-912, `chatgpt_usage.py` | cursor, dispatch mode and cooldown map in `app_settings`, usage cache | claim a slot, filter homes, retry once elsewhere, note a cooldown |
| Delivery and duplicates | `codex_image.py` 98-240, 690-839 | session rollouts, image files, `output_sha256` | read the image back, check and record its hash, clean up on failure |
| Storage and cleanup | `storage.py`, `cleanup.py` | image files, work directories, rollouts | sweep at start, periodically and on the admin's request |
| API keys | `db.py` 105-165, `api/public.py`, `api/admin.py` | `api_keys` | create, disable, delete, authenticate, count |
| Admin sessions | `security.py`, `api/admin.py` | none on the server (signed cookies) | log in, log out |
| Admin statistics | `api/admin.py` 472-690, `db.py` | none (folds over rows) | account cards, rolling counters, charts, wall log |
| Usage lookup | `chatgpt_usage.py` | a cache in memory | `fetch_many` |
| Start-up, configuration, models | `main.py`, `config.py`, `models.py` | settings | lifespan |

How they interact. A handler inserts a row and puts a job into the queue, or
blocks until there is room; a worker takes it, marks the row, and calls
`generate`, which for each image picks a home, enters its guard and starts
`codex`. `inspect` takes the same guard without passing the queue. The outcome
goes to the row (for pollers) and to the job's future (for the caller that
waits). The sweep runs in a second thread and the admin's delete on the event
loop, both on the rows and files the workers use. A process outside the
service, the keepalive cron, shares the homes through the flock.

What is hard here, and is listed line by line under `hazards` in
`PROJECT.json`: time-outs that race with the wake-up or the answer they wait
for; the hand-over of queue slots among blocked callers; the queue living in
memory while the rows survive; writes that fail at a point where nothing
catches them; two locks of different kinds, one of which may fail, around a
process that can outlive both; decisions about accounts on data that is stale
by the time it is used; a token that is retired at the server before it is
replaced on disk; sweeps that delete by age what somebody still uses, and that
overlap; checks against a table that other requests write meanwhile; numbers cut
into windows, hours and local days that must agree with each other.

What makes each part correct: *queue* - a job is in one place, is run at most
once, its row follows it, its outcome is final and every caller is answered;
*guard* - codex processes take turns on a home, no path leaks a lock, every run
gets through; *tokens* - a retired refresh token is never presented, and the
audit shows every case where it may be; *dispatch* - no request fails because
of an account it did not have to use, and an account at its limit is skipped;
*delivery* - a request never returns another one's image; *storage* - a row
that promises a file has it, and an expired file goes away; *keys* - a job is
visible to the key that submitted it and to no other, and is counted;
*statistics* - every chart shows what the accounts served, no wall is listed twice;
*usage* - no decision rests on an answer older than the cache's lifetime.

## Modules

    JobContract      what a client is promised about one job
    JobQueue         the queue, its callers and workers, the rows' status
    MCJobQueue       symmetry for TLC
    JobQueueProofs   the inductive invariant of JobQueue and its theorems

    HomeMutex        codex processes take turns on a home
    HomeExec         the guard, its two locks, executor threads and codex
    MCHomeExec       symmetry for TLC
    HomeExecProofs   the inductive invariant of HomeExec and its theorems

    CodexTokens      HomeExec with refresh tokens, auth.json and the audit trail
    MCCodexTokens    one user per home, symmetry
    CodexTokensProofs  its invariant on top of HomeExec's, and its theorems

    Dispatch         which home a request tries, cooldowns, the one retry
    MCDispatch       two homes in order, symmetry
    DispatchProofs   theorems about the rotation, the tries, the cooldowns

    Delivery         the images of a request, their files and hashes
    ImageStore       Delivery under overlapping sweeps and the admin's delete
    MCImageStore     one request of two images, symmetry
    ImageStoreProofs the inductive invariant of ImageStore and its theorems

    ApiKeys          keys, who may poll which job, the usage counter
    Statistics       histories of rows, and the numbers made of them
    UsageCache       fetch_many under overlapping calls
    AdminPanel       the three of them side by side, for TLC
    MCAdminPanel     symmetry
    AdminPanelProofs the inductive invariant of each, and their theorems

    DataFacts        lemmas: lines, removals, induction, sums, filters, sorting
    FoldFacts        what FoldLeft computes, for any operator

Operators between an action's comment and the action that are introduced as a
*mutant* are slips the code could have had. They are not part of `Next`; each
shows that some property notices when it takes the place of the real action.

### JobQueue

One event loop runs the handlers and the workers, so what happens between two
`await`s is atomic, and each action is one such stretch with every write in it.

| Action | Code |
|---|---|
| `SubmitOnly`, `SubmitOnlyRefused` | `submit_only`: row, `put_nowait`, 202; or `QueueFull`, row failed, 503 |
| `SubmitAndWait` | `submit_and_wait` up to its first suspension: row, then in the queue or in the line of putters |
| `PutResumes` | a putter whose future was resolved looks at `full()` again |
| `PutTimeout` | `wait_for` cancels the put: out of the line, or the slot is passed on; row failed, 504 |
| `ClientAnswered`, `ClientTimeout` | the shielded wait on the job's future: 200 or 502; 504 |
| `WorkerTakes` | `queue.get()`, which wakes the oldest putter, and `mark_image_request_running` |
| `RunSucceeds`, `RunFails` | the three endings of `_run_job`, the read-back of a deleted row included |
| `SubmitFault`, `PutTimeoutFault`, `TakeFault`, `RunFault` | a database write raises at each place where one happens |
| `Expire`, `AdminDelete` | the sweep and the admin, whatever the job is doing |
| `Shutdown`, `Crash`, `Start` | `stop()` after the calls in flight ended, a kill, and the lifespan start that reads nothing back |

`call` is where the submitting HTTP call stands or what it answered; `runs` is a
history variable. `generate()` is one step that succeeds or fails at any
moment: what it does is the subject of other modules. `self.started` being
false is not modelled: uvicorn hands requests on only between the lifespan's
start and stop, so the 503 for it cannot occur. A status of `deleted` stands
for a row that is gone, on which an UPDATE has no effect.

### HomeExec

A run is one `_run_codex_once` or `inspect` on a home, at most once each. `pc`
follows it through the `asyncio.Lock` (a line of `waiters` per home), the
executor (`tasks`, served by `Threads` threads, one of which each blocked
`flock()` keeps), the codex process and the way out. `FlockFails` is the
documented degradation to the in-process lock alone. `TimesOut`, `Kill` and
`RunEnds` are `codex_timeout_seconds`, `_terminate_process_group` and
`communicate()`. Hosts are processes that hold the flock around their own
codex. `ProcessEnds` is a crash, or `stop()` cancelling a worker, which leaves
the guard through its `finally` without ending codex; the codex processes live
on or die with the service, each as it may. Runs still idle then belong to the
restarted service. An empty CODEX_HOMES, where the guard takes no flock at all,
behaves as a run whose flock failed. `CalmNext` is `Next` without failing
flocks and ends of the service; mutual exclusion and liveness are claimed of it.

### CodexTokens

Extends HomeExec: every step is one of its steps with the effect on the tokens,
or one between codex and the server. A token is the number of rotations before
it, so that the fingerprint of `_auth_snapshot` is the token itself.

| Action | Code |
|---|---|
| `RunSpawns` | `auth_before = _auth_snapshot(...)`, and codex starts with what `auth.json` has |
| `RunIsOver` | `communicate()` returned: `_audit_token_state` leaves a line if the file changed |
| `RunIsKilled` | SIGKILL after the grace period; a `timeout_kill` line in any case |
| `Presents`, `WritesBack`, `EndsInOrder`, `HostSpawns` | codex, in the service or on the host (external) |
| `ServiceEnds` | codex processes go down with the service or outlive it |
| `GuardStep` | the steps of the guard that touch no codex |

`issued` is what the server accepts, `stored` what `auth.json` has, `carried` what
a process has loaded, `pending` who has a new token and did not write it yet. A
token that is presented after it was retired is reuse: the user's sessions end
(`revoked`). What codex and the server do is taken from the comments at
codex_image.py:353 and 411 and README.md:395-419, as is that a SIGTERM lets codex
finish its write. `wrote`, `torn` and `exposed` are history. `inspect` starts
codex on a home without leaving a line, although README.md:416 says every run is
fingerprinted; `RetiredHomeIsNamed` excepts it.

### Dispatch

`cursor`, `mode` and `cool` are `_home_cursor` and the two `app_settings` keys;
`req` has a request's locals, with three history fields, and `claims` counts how
often round-robin began at each home since the last start.

| Action | Code |
|---|---|
| `Begin` | `generate`'s first image, or `inspect`: `_claim_primary_base` and `_rotation` up to the usage lookup |
| `Looked` | the rest of `_rotation` once `fetch_many` returned or raised |
| `Start`, `StartBreaks` | the home's guard is free: codex starts, or cannot |
| `Hits` | codex writes a 429 of image_gen to stderr and goes on |
| `RunFails` | `CodexGenerationError`: note the cooldown, next home or the end |
| `NoImage` | exit 0, no image in the rollout: note the cooldown and fail |
| `Image` | an image; the next one of the request gets a rotation of its own |
| `PeekEnds` | `inspect`'s single run is over, whatever came of it |
| `SetMode`, `Restart`, `Tick` | the admin's switch, a new process with the old settings, the clock |

The guard of `HomeExec` is here a home that is taken or free. Usage is any set
of drained homes at any time, which covers what the 120-second cache or a
failing lookup may answer. With `ReadsFail` the reads of `app_settings` may
raise: then no home counts as cooling and the mode is round-robin, as in the
code; writing may always raise. CODEX_HOMES is non-empty and free of
repetitions, as its documentation has it.

Two things to know when reading the properties. The docstring of
`_claim_primary_base` lets the cursor advance "once per request"; it advances
once per *image* of a request and once per inspection, which is what `Balanced`
counts. And `Balanced` is about the homes round-robin begins at: while a home
is skipped, all its turns go to its successor in CODEX_HOMES, which then serves
two shares until the cooldown is over.

A comment at codex_image.py:267 fears that two workers overwrite each other's
cooldown. `note_image_gen_cooldown` has no `await` between reading and writing,
and there is one event loop, so `WallsRemembered` holds - as long as the read
works. A read that fails answers `{}`, and the map written back then has lost
every other home: `CooldownsLast` has `~ReadsFail` as a hypothesis.

### Delivery and ImageStore

`Delivery` is `generate` with one row per request. The stretch between two runs
of codex has no `await`, so it is one action, and so is the one after the last
run, which checks all hashes and writes the row. A picture is whatever a rollout
may hold, new or old. `disk` holds `<<r, i>>` for the i-th image of r and
`<<r, 0>>` for its work directory; `known` is what r's row names of them.

| Action | Code |
|---|---|
| `Begin` | row running, work directory made, first codex run |
| `NextImage`, `LastImage` | an image read back; after the last, hashes checked and recorded in turn, row succeeded, or the success cannot be written |
| `Raises`, `NoImage` | the run fails, with or without codex's own copy of the image; the rollout has no image |
| `Cancelled` | `CancelledError` passes every `except Exception`: nothing is cleaned up |

`ImageStore` extends it with sweeps, which run in threads of their own.

| Action | Code |
|---|---|
| `JobStep` | a step of `Delivery`; what it writes is new |
| `FallsDue`, `GrowsOld` | `IMAGE_RETENTION_DAYS` have passed since the row's creation, then since the files were written |
| `AdminDelete` | `delete_image_request` (admin.py:224): the row and what it names |
| `SweepBegins`, `SweepsRow` | the expired rows as listed at the beginning, then one after the other; a file may resist |
| `LoopEnds` | on to the next loop: orphan files, orphan directories |
| `Looks`, `Stats`, `Aborts` | `is_file()`, then `stat()` and `unlink()`; when somebody else deletes the file in between, the sweep ends with `FileNotFoundError` |

Abstractions: a row's deletions and its mark are one action; the retention is
longer than a job, so that no row is due before its job is over.
`IMAGE_RETENTION_DAYS` has no lower bound, so this is a matter of
configuration: with a retention of nothing a sweep would take the work
directory of a running codex.

### ApiKeys

Authentication, counting and the insertion of the row have no `await` between
them and are one action.

| Action | Code |
|---|---|
| `Calls` | an authenticated call that leaves no row |
| `Generates`, `Submits` | `POST /v1/images/generate`, `/submit`; a queued submission is counted by the dependency and again at job_queue.py:98 |
| `AdminTests` | the admin's test page, counted only if the queue takes the job |
| `JobEnds`, `RowExpires`, `RowDeleted` | what becomes of a row |
| `CreatesKey`, `DisablesKey`, `DeletesKey` | the admin's key page |

`Auth` is `require_api_key` and `Poll` what `GET /v1/images/jobs/{request_id}` answers.
A caller whose key is disabled or deleted while its job runs gets 403 or 401,
and nobody else may read the job then.

### Statistics

`log` is `image_requests` in the order of `created_at`. `RowInserted`,
`RowSucceeds`, `RowFails`, `RowExpired`, `RowRemoved` and `Passes` write every
history the service can; the rest are operators on it: `HourlyImages` is the
query, `Rolling`, `Daily` and `Hourly` the three charts made of it, `Account`
the card, `Events` (a fold of `WithRow`) the wall log, and `MaxOk` the two-pointer
window. The images they show are compared with `Served`, which sums the history
field `served`: the count a request asked for, once it succeeded. What an edit
delivers is less than that if it asked for several (see below), so the properties
speak of what was asked for, as the code's `SUM(count)` does.

### UsageCache

`Asks` is `fetch_many` up to its `gather`, `Answered` one `_fetch_one`, `Stores`
the end, `GivenUp` a cancelled caller, `Elapses` the clock. Any number of calls
may stand at the `gather` at once and end in any order. An answer is the moment
at which the account gave it.

### AdminPanel

The three above share no column, no variable and no handler's locals, so
`PanelSpec` lets one of them move while the others are as they began: every
state of each and none of their product, in one run.

## What the runs check

| Run | Instance | Shows |
|---|---|---|
| `queue_safety` | 3 jobs, 2 workers, queue of 1, 1 restart, 1 failing write | jobs, rows and answers agree in every interleaving, no wake-up is lost; the queue implements `JobContract` |
| `queue_live` | 3 jobs, 2 workers, queue of 1, 1 failing write | callers are answered whatever dies; while no worker does, every job reaches an outcome |
| `queue_restart` | 2 jobs, 1 worker, 1 restart | *violated*: rows stay queued or running after a restart |
| `queue_worker_death` | 2 jobs, 1 worker, 1 failing write | *violated*: a failing write ends a worker for good |
| `token_safety` | 2 runs and an inspection, 2 homes, 1 host, 2 threads, flock may fail, 1 end of the service, 1 rotation per home | locks, executor and processes agree; who can meet on a home; why a token can be reused or lost, and what the audit says of it |
| `token_audit` | 2 runs, 2 homes, 1 host, 1 thread | *violated*: the dangerous kill is logged as harmless |
| `guard_live` | 3 runs, 2 homes, 1 host, 1 thread | mutual exclusion as a refinement; every run gets through |
| `guard_orphan` | 2 runs, 2 homes, 1 host, 1 end | *violated*: codex outlives its lock |
| `dispatch_safety` | 2 jobs of 2 images, 1 inspection, 2 homes, 2 instants, 1 restart | nobody is left without a home, known cooldowns are avoided and kept, the round-robin is balanced, a retry goes elsewhere |
| `dispatch_retry` | 2 jobs of 1 image, 1 inspection, 2 homes, failing reads | *violated*: a job that met an image_gen limit fails with a home untried |
| `image_files` | 2 requests, one of 2 images, 2 pictures, 2 sweeps, 1 file that resists | promised files exist, failed requests leave none, no old picture is handed out as new, only what resisted stays |
| `admin_panel` | 2 keys, 2 requests; 1 account, 3 rows over 7 instants, 2 rows over 12; 3 lookups of 2 homes | who sees a job, what is counted, what charts, cards and wall log show, how old a usage answer can be |

Why these bounds are enough to be interesting. With a queue of one, three jobs
fill a queue, a worker and the line of putters at once, and a newcomer can
overtake a woken putter; two free slots and two putters, where a wake-up could
get lost, need a longer queue, for which `NoLostWakeup` is proved. One restart
separates the jobs of before from those of after; one failing write at each
place it can happen reaches each handler's error path. In the guard, two homes
are needed for one home's blocked acquire to stand before the other's release,
three runs for a line behind a holder, and one thread is the worst case for
liveness. Two threads let acquires and releases overlap. One rotation per home is
enough to retire a token somebody carries; `MCCodexTokens` gives each home a
user of its own; the proofs allow homes that share one. In the dispatch, with two
homes the retry is the other home and one cooling home leaves one, which is
where filters and fallbacks meet; two jobs and an inspection share the cursor
and the cooldown map, two images make a request claim twice, and two instants
let a cooldown pass while others wait. Three homes add orders of the same cases;
the proofs cover any number. A second image separates a request's recorded hash
from its others, two sweeps delete under each other's eyes. Days of two hours of
two ticks let windows begin and end inside an hour and a local day inside a UTC
one; three rows are a wall between two others, and two pictures around a window's
edge with a third outside; a retention of five ticks is longer than a day and
shorter than the charts reach, so that expired rows are in them. The charts cut
rows off 6, 8 and 10 ticks ago (`(Day + 1)`, `(Points + Day)` and
`(Days * Day + Zone)` hours), so the clock runs to 11: every cut-off has then
left a row of instant 0 out, also while another row stands in the first hour or
date a chart shows. For that a row left out and one shown are enough: only with
fewer than `MaxRows` rows does the clock go on after `FullBy`, which is 6.
Three lookups are one that overtakes another and one that reads what they left.
Without a threshold, and with no drained home found, a request goes through the
same rotation, so a threshold is set throughout; the invariants of `dispatch_safety`
hold just as well with `Threshold = FALSE` and with `ReadsFail = TRUE` (set them in
`DispatchSafety.cfg`, with one image and without `WallsRemembered`).

Deadlock is not checked where a run may end in a state in which nobody submits
anything and no bound is left.

Fairness. `FairSpec` of JobQueue: the event loop resumes ready tasks, the timers
of `wait_for` fire, a run ends because `codex_timeout_seconds` bounds it, and
`restart: unless-stopped` (docker-compose.yml:32) starts the service again. No
fairness on what clients, sweeps, admins and the database do. `FairSpec` of
HomeExec is over `CalmNext`: executor threads take tasks, time-outs fire and
SIGKILL ends codex; a host's codex ends; and strong fairness of the flock,
because hosts that come and go could otherwise be preferred for ever by a kernel
that, in fact, queues blocked requests. The service's codex is under no fairness:
it may hang, which is what time-out and SIGKILL are there for. The other modules
state safety only.

## Findings

1. `queue_restart`. README.md:273 advises pollers to give up after ten minutes,
   "by then the job has either finished or failed server-side". After a restart
   the rows that were queued or running keep that status until they expire,
   because `lifespan` (main.py:34-49) starts an empty queue and reads none back.
2. `queue_worker_death`. `mark_image_request_running` (job_queue.py:145) stands
   before the `try`, and the two `mark_image_request_failed` calls (181, 194) stand
   in `except` clauses; TLC's trace takes one of the latter. When one raises -
   the README's own troubleshooting names `sqlite3.OperationalError` - the
   exception leaves `_worker`'s loop, the task is gone, and `start()` is not
   called again. After `CODEX_WORKER_CONCURRENCY` such writes the service
   accepts jobs and runs none.
3. `guard_orphan`. The comment at codex_image.py:354-362 wants one process on an
   `auth.json` at a time. codex runs in its own session and only a time-out
   terminates it. When `stop()` cancels a worker, the guard's `finally` gives the
   flock back with codex alive; when the process dies the flock goes with it. In
   a container, codex goes down with it soon after; under `uvicorn --reload`
   (README.md:118) it stays. Until it ends, the keepalive cron or the restarted
   service can start codex on the same home.
4. `dispatch_retry`. README.md:297 promises "automatic cross-account retry if any
   one account errors out", and README.md:322 leaves accounts at their limit to
   "the existing retry". codex exits 0 when image_gen answers 429, so the retry
   of `_run_codex_with_retry` sees a success; `generate` notes the cooldown
   (codex_image.py:789-791) and fails with the next home untried. Later requests
   avoid the account, this one is lost. A run that errs or times out is retried
   (`TriesAnother`).
5. `token_audit`. README.md:425 calls a `timeout_kill` entry with
   `"rotated": true` "the dangerous case: the run was killed across a rotation, so
   the home may be holding a retired token". `rotated` compares `auth.json` before
   and after the run (codex_image.py:385), so it is true when the new token did
   reach the file. A codex killed after the server's rotation and before its own
   write leaves `"rotated": false`. What does hold is `RetiredHomeIsNamed`: a home
   left with a retired token has a `timeout_kill` line, whatever `rotated` says,
   unless its codex ran without the flock, outlived the service, went down with
   it, or was `inspect`'s.

## What is proved

`JobQueueProofs` proves, for any sets of jobs and workers, any queue size
(unbounded included) and any number of restarts and failing writes:

- `TypeCorrect`, `JobsInOnePlace`, `NoSecondRun`, `RowsTellTheTruth`,
  `AnswersTellTheTruth`: the invariants `TypeOK`, `OnePlace`, `RunsAtMostOnce`,
  `RowFollowsJob`, `AnswerAgreesWithRow`;
- `WakeupsArrive`, `NothingIsForgotten`: the invariants `NoLostWakeup` and
  `NoForgottenJob`;
- `OutcomesAreFinal`: the action property `OutcomeIsFinal`;
- `QueueKeepsContract`: the refinement `KeepsContract`, for every job. A step of
  the queue is for each job one step of `JobContract` or a stutter; most of the
  cases are that a step about another job leaves this one's row, call and
  answers alone, which `IInv` has to say of a cancelled or woken neighbour.

The only assumptions are those of `QueueAssumption`. The argument: the
conjunction `IInv` of the first five invariants is inductive. None of the last three
is so by itself. A job may only run once because a job in the queue has not
run, is there once and is with no worker, and because the callers in line have
not entered the queue; a row only keeps its outcome because a job with one is
neither in the queue nor with a worker, so that no `Mark` can name it. `OnePlace`
says that, and it needs the line of putters to be exactly the calls that are
blocked, which `PutCancelled` has to maintain when it takes a caller out of the
middle. `DataFacts` has what appending, taking the head and removing an element
do to a sequence without repetitions; each action has a lemma of its own.

`HomeExecProofs` proves, for any homes, runs, hosts and executor threads, any
number of ends of the service, and flocks that may fail:

- `TypeCorrect`, `LocksStayConsistent`, `FlockNeverLeaks`, `CodexIsWaitedFor`,
  `NobodyMeets`: the invariants `TypeOK`, `LocksAgree`, `FlockFollowsGuard`,
  `CodexHasKeeper`, `NoOverlap`;
- `GuardIsMutex`: where flocks do not fail and the service stays up (`Sound`),
  the guard implements `HomeMutex` (`KeepsMutex`).

The only assumptions are those of `HomeAssumption`. `IInv` adds to the first four
invariants what they leave open (`Shape`): a host is idle or at work, and a
descriptor belongs to a run past `_flock_acquire`. `NoOverlap` follows from it in
any one state: two runs at work on a home would both hold its `asyncio.Lock`, a
host and a run with a descriptor would both hold its flock, and two hosts
likewise. For the refinement, `Armed` says that under `Sound` every run inside
the guard holds the flock, so that a codex starts only on a home nobody uses.

`DispatchProofs` proves, for any accounts, requests and images, from
`DispatchAssumption`:

- `RoundRobinIsBalanced`: the invariant `Balanced`. It is not inductive, as it
  does not say who is next; `Even` does: the homes before the cursor have been
  begun at once more than those from it on.
- `CooldownsLast`: the action property `WallsRemembered`, where `app_settings`
  can be read. Only `Noted` writes the map, and what it leaves out has passed.
  `CoolType` is the part of `TypeOK` that this needs.
- `DispatchTypes`, `NeverWithoutAHome`, `CoolingHomesSkipped`,
  `SecondTryElsewhere`: the invariants `TypeOK`, `SomewhereToRun`,
  `KnownWallsAvoided`, `TriesAnother`. `Lined` says of each request how its order
  of homes, its attempt and the homes it tried hang together at every place; the
  order has no home twice, and what was tried is its beginning, so the second try
  is another home. The two filters of `_rotation` keep that: `Without` is a fold,
  and `PickedInOrder` says that what a filter leaves of a sequence is a
  subsequence of it.

`CodexTokensProofs` proves, for any homes, users with several homes, runs, hosts
and rotations, from `HomeAssumption` and `TokenAssumption`: `TokensTypeCorrect`,
`ReuseHasACause`, `LossIsOnRecord`, `AuditIsExact` (the invariants `TokenTypeOK`,
`TokensSurvive`, `RetiredHomeIsNamed`, `AuditTellsTruth`), and `TokensKeepGuard`: every behaviour of
CodexTokens is one of HomeExec, so that the theorems of `HomeExecProofs` hold of
it. `CInv` rests on HomeExec's `IInv`: on a home that is not exposed one process
at a time is at work (`Keepers`, with the locks), hence a codex's token is the
server's until it is killed before its write (`Versions`), and a run's own
rotation is the only thing between its two fingerprints (`Trail`).

`ImageStoreProofs` proves, for any requests, numbers of images, pictures, sweeps
and files that resist, from `DeliveryAssumption` and `SweepAssumption`:
`StoreTypeCorrect`, `PromisesAreKept`, `FailuresAreCleanedUp`,
`NothingElseIsStuck` (the invariants `StoreTypeOK`, `PromisedFilesExist`,
`FailureLeavesNoImage`, `OnlyErrorsAreStuck`) and `OldPicturesAreRefused` (the
action property `NoRepeatOfLast`). `SInv` says of each request alone where it
stands (`Course`), and of a sweep that it holds only rows that are due, with all
they name (`Sweeping`). As the request of a row that is due is over, a sweep
takes nothing from one that runs, nor does a job change what a sweep has listed.
The last theorem needs `Course` for the hash: a row that ever succeeded has its
last image's hash until it is deleted.

`AdminPanelProofs` proves, from the assumptions of the three modules:

- `OthersSeeNothing`, `NoCallIsFree` (the invariants `JobsSeenByTheirKey`,
  `RowsAreCounted`), for any keys and any finite set of requests. `OwnedByAsker`
  adds that a row without its key has lost it to the key's deletion.
- `UsageIsRecent` (the invariant `AnswersAreRecent`), for any calls, homes and
  lifetime: an entry is dated no later than its answer (`DatedEarly`), so it
  expires in time whichever of two overlapping calls stored last.
- `CardsAreRight`, `ChartsAreRight`, `WallLogIsRight`, `BusiestDayIsRight` (the
  invariants `CardsRightWithinRetention`, `ChartsShowWhatWasServed`,
  `WallsToldApart`, `MaxOkIsBusiestDay`), for any
  number of accounts and rows, lengths of hour, day and charts, time zone,
  retention and tolerance. `Logged` says what a row may be and that rows are in
  the order of `created_at`. From it, the rows that the counters take for successes are
  those that were served (`ServedIsCounted`); an hour a chart shows lies behind its
  query's cut-off (`CutOff`), so that its bar is whole (`HourShown`), and the bars
  add up (`HoursAddUp`). For the wall log, `Sorted` is the invariant of its fold:
  after k rows the events have k hits between them, each of the rows is covered by
  one, and no two are one wall. For the busiest day, `Window` is the invariant of
  the two pointers: what lies before `lo` is a day older than the row the
  window ends with, nothing behind it is, and `total` is what lies between. So no
  total exceeds what some day held (rows that end at the same moment are
  counted one by one), and the window of a day's last row has all of that day.
- `PanelTypes` (the invariant `PanelTypeOK`).

What these need of data is in two modules. `DataFacts` proves induction over
numbers as a statement about subsets of `Nat` (`Induction`), and the same over the
finite subsets of a set by their size (`SizeInduction`), from the library's
well-founded sets; with them, sums over sets (`SumOfOthers`, `SumOfTwo`,
`SumOfParts`), filters (`PickedInOrder`) and sorting (`CanBeSorted`). `FoldFacts` has an operator and a
start as CONSTANTS and proves that `FoldLeft` goes through a sequence in order
(`FoldedInOrder`); a proof about a fold instantiates it with its own operator.

## What is only model-checked

Liveness (`JobsSettleUndisturbed`, `CallsAnswered`, `RunsGetThrough`) is beyond
TLAPS here, as is anything about ENABLED. Every invariant, action property and
refinement that a passing run checks is proved. The properties of the runs that
are expected to fail are false of the code, which TLC's counterexamples show.

## What the models leave open

Behaviours met while modelling that the properties exclude by name, or that a
reader of a property should know.

- A request's images are compared with the one hash each other row keeps. The
  comment at codex_image.py:804-807 speaks of "any previous output"; twins
  within a request, and images other than the last of an earlier request, are
  not found.
- A submitted job is counted twice (the dependency, and job_queue.py:98), an
  admin's test that the queue refused not at all.
- A row that a restart lost has no `codex_home`, so once it expires its status
  counts it among the successes, but of no account.
- In edit mode one image is made whatever `count` says (codex_image.py:736-737)
  while the row keeps `count` (job_queue.py:69, README.md:214), and cards and
  charts add `count` up. `served` is what was asked for, so
  `ChartsShowWhatWasServed`, `CardsRightWithinRetention` and `MaxOkIsBusiestDay`
  count an edit with all it asked for; db.py:411 and admin.py:483 speak of images
  produced, which is more than the code knows of an edit.
- The 30-day card has no expired row in it. With a window as long as the
  retention or longer it therefore falls short; admin.py:329 knows this of the 48-hour one.
- A sweep whose file vanishes between `is_file()` and `stat()` ends there; the
  files it did not come to are left to the next one.

## What is not modelled

Formatting, HTML, request validation, environment parsing, HTTP transport, the
prompt's text and the sessions of the admin (signed cookies) hold no state that
anything here depends on. Beyond these:

- a shutdown that waits for a thread blocked in `flock()` (codex_image.py:457);
  the end of the service is one step;
- the sweep of session rollouts (storage.py:189), as nothing in this repository
  says how codex makes its directories, and the `vis_` work directories of
  `inspect`;
- the limits of 500 expired rows to a sweep and of 10000 rows to a statistic; a
  429 in the stderr of a request that succeeded; `images_24h` and `now_24h` of
  the overview;
- a failing write of the audit log, an `auth.json` that cannot be read, a
  session id that is parsed wrongly.

## Plan

Done: `JobContract`, `JobQueue`, `HomeMutex`, `HomeExec`, `CodexTokens`, `Dispatch`,
`Delivery`, `ImageStore`, `ApiKeys`, `Statistics`, `UsageCache`, and the proofs listed
above. Next, in this order:

1. `Delivery` and `Dispatch` in one behaviour, so that the account a row is
   charged to is the one that made its image.
2. The shutdown as a sequence of steps beside `flock()`, instead of one.
3. The sweep of rollouts, and `now_24h` against the charts.
