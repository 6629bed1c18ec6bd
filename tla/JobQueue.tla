------------------------------ MODULE JobQueue ------------------------------
(***************************************************************************)
(* ImageJobQueue (app/services/job_queue.py): the in-memory queue between  *)
(* the HTTP handlers and the background workers, and the image_requests    *)
(* rows (app/db.py) both of them write.                                    *)
(*                                                                         *)
(* Everything between two awaits runs atomically on one event loop, so an  *)
(* action is one such stretch.  A job is identified with its request id    *)
(* and is submitted once, by submit_only (POST /v1/images/jobs, the admin  *)
(* test form) or by submit_and_wait (POST /v1/images/generate).            *)
(*                                                                         *)
(* Bounds: MaxRestarts process deaths, MaxFaults failing database writes.  *)
(***************************************************************************)
EXTENDS Integers, FiniteSets, SequencesExt

CONSTANTS
    Jobs,           \* request ids
    Workers,        \* max(1, codex_worker_concurrency) worker tasks
    QueueSize,      \* generation_queue_max_size; 0 is an unbounded asyncio.Queue
    MaxRestarts,
    MaxFaults,
    Idle, Dead      \* what a worker holds when it holds no job

ASSUME QueueAssumption ==
    /\ QueueSize \in Nat /\ MaxRestarts \in Nat /\ MaxFaults \in Nat
    /\ Workers # {}
    /\ Idle \notin Jobs /\ Dead \notin Jobs /\ Idle # Dead

VARIABLES
    up,         \* the process is between lifespan startup and shutdown
    status,     \* image_requests.status; "none": no row yet, "deleted": no row any more
    queue,      \* ImageJobQueue.queue, in FIFO order
    putters,    \* submit_and_wait callers blocked in queue.put, oldest first
    call,       \* where the HTTP call that submitted the job is, or what it answered
    future,     \* ImageJob.future
    worker,     \* the job a worker task runs
    runs,       \* history: how often generate() was started for the job
    restarts, faults

rowVars == <<status, future, runs>>
callVars == <<queue, putters, call>>
vars == <<up, status, queue, putters, call, future, worker, runs, restarts, faults>>

(***************************************************************************)
(* A call that is not answered is "putting" (blocked in queue.put),        *)
(* "woken" (its putter future was resolved, the coroutine not yet resumed) *)
(* or "waiting" (for the job's future).  Answers carry the HTTP status;    *)
(* "504put" is the time-out for lack of capacity, "500queued" the error    *)
(* after the job had entered the queue, "dropped" a connection cut by a    *)
(* crash.                                                                  *)
(***************************************************************************)
InFlight == {"putting", "woken", "waiting"}
Entered == {"waiting", "200", "202", "502", "504", "500queued", "dropped"}
Refusals == {"500", "503", "504put"}
Calls == {"idle"} \cup InFlight \cup Entered \cup Refusals
Rows == {"none", "queued", "running", "succeeded", "failed", "expired", "deleted"}

Full == QueueSize > 0 /\ Len(queue) >= QueueSize

\* An UPDATE ... WHERE id = ?: no effect once the row is gone.
Mark(j, s) == IF status[j] = "deleted" THEN status ELSE [status EXCEPT ![j] = s]

\* asyncio.Queue._wakeup_next(putters): resolve the oldest putter's future.
Wake(c) == IF putters = <<>> THEN c ELSE [c EXCEPT ![Head(putters)] = "woken"]
Woken == IF putters = <<>> THEN <<>> ELSE Tail(putters)

-----------------------------------------------------------------------------
Init ==
    /\ up = TRUE
    /\ status = [j \in Jobs |-> "none"]
    /\ queue = <<>>
    /\ putters = <<>>
    /\ call = [j \in Jobs |-> "idle"]
    /\ future = [j \in Jobs |-> "pending"]
    /\ worker = [w \in Workers |-> Idle]
    /\ runs = [j \in Jobs |-> 0]
    /\ restarts = 0
    /\ faults = 0

\* A new request, with a fresh request_id, reaches a started queue.  Before
\* start() and after stop() uvicorn hands no request on.
Arrives(j) == up /\ call[j] = "idle"

\* submit_only, room in the queue: 202.
SubmitOnly(j) ==
    /\ Arrives(j) /\ ~Full
    /\ status' = [status EXCEPT ![j] = "queued"]
    /\ queue' = Append(queue, j)
    /\ call' = [call EXCEPT ![j] = "202"]
    /\ UNCHANGED <<up, putters, future, worker, runs, restarts, faults>>

\* submit_only, put_nowait raises QueueFull: the row becomes failed, 503.
SubmitOnlyRefused(j) ==
    /\ Arrives(j) /\ Full
    /\ status' = [status EXCEPT ![j] = "failed"]
    /\ call' = [call EXCEPT ![j] = "503"]
    /\ UNCHANGED <<up, queue, putters, future, worker, runs, restarts, faults>>

\* submit_and_wait up to its first await: the job enters the queue, or the
\* call blocks in queue.put behind the putters that were there before it.
SubmitAndWait(j) ==
    /\ Arrives(j)
    /\ status' = [status EXCEPT ![j] = "queued"]
    /\ IF Full
         THEN /\ putters' = Append(putters, j)
              /\ call' = [call EXCEPT ![j] = "putting"]
              /\ UNCHANGED queue
         ELSE /\ queue' = Append(queue, j)
              /\ call' = [call EXCEPT ![j] = "waiting"]
              /\ UNCHANGED putters
    /\ UNCHANGED <<up, future, worker, runs, restarts, faults>>

\* A woken putter resumes and checks full() again: another submission may
\* have taken the slot, and then it queues up behind every other putter.
PutResumes(j) ==
    /\ up /\ call[j] = "woken"
    /\ IF Full
         THEN /\ putters' = Append(putters, j)
              /\ call' = [call EXCEPT ![j] = "putting"]
              /\ UNCHANGED queue
         ELSE /\ queue' = Append(queue, j)
              /\ call' = [call EXCEPT ![j] = "waiting"]
              /\ UNCHANGED putters
    /\ UNCHANGED <<up, worker, restarts, faults>> /\ UNCHANGED rowVars

\* Mutants of PutCancelled: the put is shielded from the time-out and stays in
\* line; a woken putter that gives up keeps the slot it was woken for.
PutShielded(j, c) ==
    /\ call[j] \in {"putting", "woken"}
    /\ call' = [call EXCEPT ![j] = c]
    /\ UNCHANGED putters

PutKeepsSlot(j, c) ==
    /\ call[j] \in {"putting", "woken"}
    /\ call' = [call EXCEPT ![j] = c]
    /\ putters' = SelectSeq(putters, LAMBDA i : i # j)

\* What the cancelled queue.put leaves behind when the call answers c: a
\* waiting putter leaves the line; one that had been woken passes the slot on.
PutCancelled(j, c) ==
    \/ /\ call[j] = "putting"
       /\ \E k \in 1..Len(putters) : /\ putters[k] = j
                                     /\ putters' = RemoveAt(putters, k)
       /\ call' = [call EXCEPT ![j] = c]
    \/ /\ call[j] = "woken"
       /\ putters' = IF Full THEN putters ELSE Woken
       /\ call' = LET answered == [call EXCEPT ![j] = c]
                  IN  IF Full THEN answered ELSE Wake(answered)

\* Mutant of PutTimeout: the row of a call that found no room is left queued.
PutTimeoutUnmarked(j) ==
    /\ up
    /\ PutCancelled(j, "504put")
    /\ UNCHANGED <<up, queue, worker, restarts, faults>> /\ UNCHANGED rowVars

\* The wait for capacity times out: the row becomes failed, 504.
PutTimeout(j) ==
    /\ up
    /\ PutCancelled(j, "504put")
    /\ status' = Mark(j, "failed")
    /\ UNCHANGED <<up, queue, future, worker, runs, restarts, faults>>

\* Mutant of ClientAnswered: the outcome is reported without looking at it.
ClientToldSuccess(j) ==
    /\ up /\ call[j] = "waiting" /\ future[j] # "pending"
    /\ call' = [call EXCEPT ![j] = "200"]
    /\ UNCHANGED <<up, queue, putters, worker, restarts, faults>> /\ UNCHANGED rowVars

\* The shielded wait for the future ends with its outcome: 200 or 502.
ClientAnswered(j) ==
    /\ up /\ call[j] = "waiting" /\ future[j] # "pending"
    /\ call' = [call EXCEPT ![j] = IF future[j] = "result" THEN "200" ELSE "502"]
    /\ UNCHANGED <<up, queue, putters, worker, restarts, faults>> /\ UNCHANGED rowVars

\* Mutants of ClientTimeout: another status than the documented one; the row
\* marked failed while its job goes on; no time-out around the wait at all.
ClientTimeout408(j) ==
    /\ up /\ call[j] = "waiting"
    /\ call' = [call EXCEPT ![j] = "408"]
    /\ UNCHANGED <<up, queue, putters, worker, restarts, faults>> /\ UNCHANGED rowVars

ClientTimeoutFails(j) ==
    /\ up /\ call[j] = "waiting"
    /\ call' = [call EXCEPT ![j] = "504"]
    /\ status' = Mark(j, "failed")
    /\ UNCHANGED <<up, queue, putters, future, worker, runs, restarts, faults>>

ClientWaits(j) ==
    /\ up /\ call[j] = "waiting" /\ future[j] # "pending"
    /\ call' = [call EXCEPT ![j] = "504"]
    /\ UNCHANGED <<up, queue, putters, worker, restarts, faults>> /\ UNCHANGED rowVars

\* The wait for the future times out: 504, the job goes on.  The time-out may
\* win although the outcome has just been set.
ClientTimeout(j) ==
    /\ up /\ call[j] = "waiting"
    /\ call' = [call EXCEPT ![j] = "504"]
    /\ UNCHANGED <<up, queue, putters, worker, restarts, faults>> /\ UNCHANGED rowVars

-----------------------------------------------------------------------------
\* queue.get(): the oldest job leaves the queue and the oldest putter wakes.
Get ==
    /\ up /\ queue # <<>>
    /\ queue' = Tail(queue)
    /\ putters' = Woken
    /\ call' = Wake(call)

\* Mutant of WorkerTakes: the row is not marked running.
WorkerTakesUnmarked(w) ==
    /\ worker[w] = Idle
    /\ Get
    /\ worker' = [worker EXCEPT ![w] = Head(queue)]
    /\ runs' = [runs EXCEPT ![Head(queue)] = @ + 1]
    /\ UNCHANGED <<up, status, future, restarts, faults>>

\* A worker takes a job, marks its row running and enters generate().
WorkerTakes(w) ==
    /\ worker[w] = Idle
    /\ Get
    /\ worker' = [worker EXCEPT ![w] = Head(queue)]
    /\ status' = Mark(Head(queue), "running")
    /\ runs' = [runs EXCEPT ![Head(queue)] = @ + 1]
    /\ UNCHANGED <<up, future, restarts, faults>>

\* generate() returned: the row is succeeded; the response needs the row's
\* created_at, so a row deleted meanwhile turns into an exception.
RunSucceeds(w) ==
    /\ up /\ worker[w] \in Jobs
    /\ status' = Mark(worker[w], "succeeded")
    /\ future' = [future EXCEPT ![worker[w]] =
                     IF status[worker[w]] = "deleted" THEN "exception" ELSE "result"]
    /\ worker' = [worker EXCEPT ![w] = Idle]
    /\ UNCHANGED <<up, runs, restarts, faults>> /\ UNCHANGED callVars

\* Mutant of RunFails: the row is not marked failed.
RunFailsUnmarked(w) ==
    /\ up /\ worker[w] \in Jobs
    /\ future' = [future EXCEPT ![worker[w]] = "exception"]
    /\ worker' = [worker EXCEPT ![w] = Idle]
    /\ UNCHANGED <<up, status, runs, restarts, faults>> /\ UNCHANGED callVars

\* generate() raised, or recording its success did and the handler could
\* still mark the row failed.
RunFails(w) ==
    /\ up /\ worker[w] \in Jobs
    /\ status' = Mark(worker[w], "failed")
    /\ future' = [future EXCEPT ![worker[w]] = "exception"]
    /\ worker' = [worker EXCEPT ![w] = Idle]
    /\ UNCHANGED <<up, runs, restarts, faults>> /\ UNCHANGED callVars

-----------------------------------------------------------------------------
\* A database write raises (sqlite3.OperationalError).
Fault == up /\ faults < MaxFaults /\ faults' = faults + 1

\* The INSERT of _build_job, the UPDATE of a refused row, or the key's usage
\* counter after the job was queued: the call answers 500.
SubmitFault(j) ==
    /\ Arrives(j) /\ Fault
    /\ \/ /\ call' = [call EXCEPT ![j] = "500"]
          /\ UNCHANGED <<status, queue>>
       \/ /\ Full
          /\ status' = [status EXCEPT ![j] = "queued"]
          /\ call' = [call EXCEPT ![j] = "500"]
          /\ UNCHANGED queue
       \/ /\ ~Full
          /\ status' = [status EXCEPT ![j] = "queued"]
          /\ queue' = Append(queue, j)
          /\ call' = [call EXCEPT ![j] = "500queued"]
    /\ UNCHANGED <<up, putters, future, worker, runs, restarts>>

\* The wait for capacity times out and the row cannot be marked failed: 500.
PutTimeoutFault(j) ==
    /\ Fault
    /\ PutCancelled(j, "500")
    /\ UNCHANGED <<up, queue, worker, restarts>> /\ UNCHANGED rowVars

\* mark_image_request_running is outside _run_job's try: the worker task ends,
\* and the job it took is in no queue any more.
TakeFault(w) ==
    /\ Fault
    /\ worker[w] = Idle
    /\ Get
    /\ worker' = [worker EXCEPT ![w] = Dead]
    /\ UNCHANGED <<up, restarts>> /\ UNCHANGED rowVars

\* mark_image_request_failed raises inside an except clause: the worker task
\* ends, with the row running, or succeeded when only the read-back had failed.
RunFault(w) ==
    /\ Fault
    /\ worker[w] \in Jobs
    /\ status' \in {status, Mark(worker[w], "succeeded")}
    /\ worker' = [worker EXCEPT ![w] = Dead]
    /\ UNCHANGED <<up, future, runs, restarts>> /\ UNCHANGED callVars

-----------------------------------------------------------------------------
\* The sweep finds expires_at in the past.  It does not look at what the job
\* is doing, and IMAGE_RETENTION_DAYS has no lower bound.
Expire(j) ==
    /\ up /\ status[j] \in {"queued", "running", "succeeded", "failed"}
    /\ status' = [status EXCEPT ![j] = "expired"]
    /\ UNCHANGED <<up, future, worker, runs, restarts, faults>> /\ UNCHANGED callVars

\* The admin deletes the row, in any status.
AdminDelete(j) ==
    /\ up /\ status[j] \notin {"none", "deleted"}
    /\ status' = [status EXCEPT ![j] = "deleted"]
    /\ UNCHANGED <<up, future, worker, runs, restarts, faults>> /\ UNCHANGED callVars

\* The process is gone: queue, putters and worker tasks with it; rows stay.
ProcessEnds ==
    /\ up /\ restarts < MaxRestarts
    /\ up' = FALSE
    /\ queue' = <<>>
    /\ putters' = <<>>
    /\ worker' = [w \in Workers |-> Idle]
    /\ restarts' = restarts + 1
    /\ UNCHANGED faults /\ UNCHANGED rowVars

\* lifespan shutdown: uvicorn has let every call finish, stop() cancels the
\* workers, and a cancelled run writes nothing to its row.
Shutdown ==
    /\ ProcessEnds
    /\ \A j \in Jobs : call[j] \notin InFlight
    /\ UNCHANGED call

\* SIGKILL, OOM, power: calls in flight are cut.
Crash ==
    /\ ProcessEnds
    /\ \E j \in Jobs : call[j] \in InFlight
    /\ call' = [j \in Jobs |-> IF call[j] \in InFlight THEN "dropped" ELSE call[j]]

\* Mutant of Start: queued and running rows are put back into the queue.
StartRequeues ==
    /\ ~up
    /\ up' = TRUE
    /\ queue' = SetToSeq({j \in Jobs : status[j] \in {"queued", "running"}})
    /\ UNCHANGED <<putters, call, worker, restarts, faults>> /\ UNCHANGED rowVars

\* lifespan startup makes a new, empty queue; nothing reads the rows back.
Start ==
    /\ ~up
    /\ up' = TRUE
    /\ UNCHANGED <<worker, restarts, faults>> /\ UNCHANGED rowVars /\ UNCHANGED callVars

Submission(j) ==
    SubmitOnly(j) \/ SubmitOnlyRefused(j) \/ SubmitAndWait(j) \/ SubmitFault(j)

CallStep(j) ==
    PutResumes(j) \/ PutTimeout(j) \/ PutTimeoutFault(j)
        \/ ClientAnswered(j) \/ ClientTimeout(j)

WorkerStep(w) ==
    WorkerTakes(w) \/ RunSucceeds(w) \/ RunFails(w) \/ TakeFault(w) \/ RunFault(w)

Next ==
    \/ \E j \in Jobs : Submission(j) \/ CallStep(j) \/ Expire(j) \/ AdminDelete(j)
    \/ \E w \in Workers : WorkerStep(w)
    \/ Shutdown \/ Crash \/ Start

Spec == Init /\ [][Next]_vars

(***************************************************************************)
(* The event loop resumes every ready task, wait_for's timers fire, and    *)
(* codex_timeout_seconds bounds a run.  The supervisor (docker-compose's   *)
(* restart: unless-stopped) brings the process back.  Nothing makes a      *)
(* client submit, a row expire, an admin delete or a database fail.        *)
(***************************************************************************)
Fairness ==
    /\ \A j \in Jobs : /\ WF_vars(PutResumes(j)) /\ WF_vars(PutTimeout(j))
                       /\ WF_vars(ClientAnswered(j)) /\ WF_vars(ClientTimeout(j))
    /\ \A w \in Workers : /\ WF_vars(WorkerTakes(w))
                          /\ WF_vars(RunSucceeds(w) \/ RunFails(w))
    /\ WF_vars(Start)

FairSpec == Spec /\ Fairness

-----------------------------------------------------------------------------
(***************************************************************************)
(* Properties                                                              *)
(***************************************************************************)
HeldBy(j) == {w \in Workers : worker[w] = j}

TypeOK ==
    /\ up \in BOOLEAN
    /\ status \in [Jobs -> Rows]
    /\ queue \in Seq(Jobs)
    /\ putters \in Seq(Jobs)
    /\ call \in [Jobs -> Calls]
    /\ future \in [Jobs -> {"pending", "result", "exception"}]
    /\ worker \in [Workers -> Jobs \cup {Idle, Dead}]
    /\ runs \in [Jobs -> Nat]
    /\ restarts \in 0..MaxRestarts
    /\ faults \in 0..MaxFaults

\* A job is in at most one place: in the line of putters exactly while its
\* call is blocked, after that once in the queue or with one worker; and only
\* a job that left all of them has an outcome.  So an outcome is set once.
OnePlace ==
    /\ IsInjective(queue) /\ IsInjective(putters)
    /\ Range(putters) = {j \in Jobs : call[j] = "putting"}
    /\ \A j \in Range(queue) :
           call[j] \in Entered /\ future[j] = "pending" /\ HeldBy(j) = {}
    /\ \A w \in Workers : worker[w] \in Jobs =>
           /\ call[worker[w]] \in Entered /\ future[worker[w]] = "pending"
           /\ HeldBy(worker[w]) = {w}
    /\ \A j \in Jobs : future[j] # "pending" => call[j] \in Entered

\* No job is generated twice, and none is generated whose caller is still in
\* line or was refused (503, 504 or 500 before it entered the queue), in
\* whatever order time-outs, wake-ups and restarts come: a run costs quota.
RunsAtMostOnce ==
    \A j \in Jobs : /\ runs[j] <= 1
                    /\ call[j] \notin Entered \/ j \in Range(queue) => runs[j] = 0

\* The row a poller reads follows the job: queued while it waits, running while
\* a worker holds it, then its outcome.  Only the sweep and the admin get in
\* between, and their expired or deleted is the one other thing it can say.
RowFollowsJob ==
    \A j \in Jobs :
        /\ call[j] = "idle" <=> status[j] = "none" /\ call[j] # "500"
        /\ call[j] \in {"putting", "woken"} \/ j \in Range(queue) =>
               status[j] \in {"queued", "expired", "deleted"}
        /\ HeldBy(j) # {} => status[j] \in {"running", "expired", "deleted"}
        /\ future[j] = "result" => status[j] \in {"succeeded", "expired", "deleted"}
        /\ future[j] = "exception" => status[j] \in {"failed", "expired", "deleted"}

\* A caller is told the outcome of its own job and a refused one finds its row
\* failed, now and whenever it polls later, until the row expires or is deleted.
AnswerAgreesWithRow ==
    \A j \in Jobs :
        /\ call[j] = "200" => /\ future[j] = "result"
                             /\ status[j] \in {"succeeded", "expired", "deleted"}
        /\ call[j] = "502" => /\ future[j] = "exception"
                             /\ status[j] \in {"failed", "expired", "deleted"}
        /\ call[j] \in {"503", "504put"} => status[j] \in {"failed", "expired", "deleted"}

\* No wake-up is lost in the hand-over of queue slots: while callers stand in
\* line, every free slot has a woken putter on its way to it, even when wake-ups
\* race with time-outs and with submissions that overtake the line.
NoLostWakeup ==
    putters # <<>> =>
        QueueSize - Len(queue) <= Cardinality({j \in Jobs : call[j] = "woken"})

\* As long as the process lives and its database works, a row that says queued
\* or running belongs to a job some caller, the queue or a worker still holds.
NoForgottenJob ==
    (restarts = 0 /\ faults = 0) =>
        \A j \in Jobs :
            /\ status[j] = "queued" => \/ call[j] \in {"putting", "woken"}
                                       \/ j \in Range(queue)
            /\ status[j] = "running" => HeldBy(j) # {}

\* A row that reports an outcome keeps it until it expires or is deleted: no
\* late worker, time-out or restart overwrites what a poller has already seen.
OutcomeIsFinal ==
    [][\A j \in Jobs : status[j] \in {"succeeded", "failed"} =>
           status'[j] \in {status[j], "expired", "deleted"}]_vars

\* Every submitted job reaches an outcome (README, polling advice: "Give up
\* after ~10 min - by then the job has either finished or failed server-side").
\* A restart refutes it: nothing picks a queued or running row up again.
JobsSettle ==
    \A j \in Jobs : status[j] = "queued" ~>
                        status[j] \in {"succeeded", "failed", "expired", "deleted"}

\* The same as long as the process lives and its database works.
JobsSettleUndisturbed ==
    \A j \in Jobs : status[j] = "queued" ~>
        \/ status[j] \in {"succeeded", "failed", "expired", "deleted"}
        \/ restarts > 0 \/ faults > 0

\* What is in the queue is worked off (README: "background workers run codex
\* exec", as many as CODEX_WORKER_CONCURRENCY).  One failing write refutes it:
\* it ends a worker task, and nothing starts another.
QueueServed ==
    \A j \in Jobs : j \in Range(queue) ~> j \notin Range(queue)

\* Whatever dies, a synchronous caller gets an answer (or loses its connection):
\* dead workers and lost jobs cannot leave it hanging.
CallsAnswered ==
    \A j \in Jobs : call[j] \in InFlight ~> call[j] \notin InFlight

-----------------------------------------------------------------------------
(***************************************************************************)
(* Refinement of JobContract.  A job's stage is where the process holds    *)
(* it; a submitted job that is held nowhere, has no outcome and was not    *)
(* refused is lost, whatever its row says.                                 *)
(***************************************************************************)
Pending(j) == call[j] \in {"putting", "woken"} \/ j \in Range(queue)
Running(j) == HeldBy(j) # {}

StageOf(j) ==
    CASE call[j] = "idle" -> "new"
      [] call[j] \in Refusals -> "refused"
      [] future[j] = "result" -> "done"
      [] future[j] = "exception" -> "failed"
      [] Pending(j) -> "pending"
      [] Running(j) -> "running"
      [] OTHER -> "lost"

ToldOf(j) ==
    CASE call[j] \in {"idle"} \cup InFlight -> "nothing"
      [] call[j] = "504put" -> "504"
      [] call[j] = "500queued" -> "500"
      [] OTHER -> call[j]

Promise == INSTANCE JobContract WITH stage <- [j \in Jobs |-> StageOf(j)],
                                     told <- [j \in Jobs |-> ToldOf(j)]

\* The queue implements the contract: every step of handlers, workers, crashes
\* and failing writes is a step the promise allows, or invisible to it.
KeepsContract == Promise!Contract
=============================================================================
