------------------------------ MODULE HomeExec ------------------------------
(***************************************************************************)
(* CodexImageGenerator._home_exec_guard (app/services/codex_image.py) and  *)
(* the codex processes it guards.                                          *)
(*                                                                         *)
(* A run (one _run_codex_once attempt, or one inspect call) on a home takes *)
(* the home's asyncio.Lock, then an flock on <home>/.codex-exec.lock in a  *)
(* thread of the loop's default executor, starts codex in a session of its *)
(* own, waits for it or terminates it on time-out, gives the flock back,   *)
(* again through the executor, and then the asyncio.Lock.  Host processes  *)
(* (the keepalive cron) take the same flock from outside.                  *)
(*                                                                         *)
(* Bounds: each run happens once; MaxEnds ends of the service process.     *)
(***************************************************************************)
EXTENDS Integers, FiniteSets, SequencesExt

CONSTANTS
    Homes,          \* settings.codex_homes
    Runs,           \* runs of the service
    Hosts,          \* codex invocations outside the service
    Threads,        \* max_workers of the default executor
    LockCanFail,    \* open() or flock() may raise OSError
    MaxEnds,
    Nobody, Nowhere

ASSUME HomeAssumption ==
    /\ Runs \cap Hosts = {} /\ Nobody \notin Runs \cup Hosts
    /\ Nowhere \notin Homes
    /\ Threads \in Nat \ {0} /\ MaxEnds \in Nat
    /\ LockCanFail \in BOOLEAN

VARIABLES
    at,         \* the home a process works on
    pc,         \* where a run's coroutine, or a host process, is
    holder,     \* who holds the home's asyncio.Lock
    waiters,    \* who waits for it, in order
    tasks,      \* the executor's queue of _flock_acquire and _flock_release calls
    flock,      \* who holds the flock on the home's lock file
    fd,         \* whether a run's _flock_acquire returned a descriptor
    codex,      \* the codex process of a run or host
    ends

vars == <<at, pc, holder, waiters, tasks, flock, fd, codex, ends>>

Procs == Runs \cup Hosts

(***************************************************************************)
(* "lock": waits for the asyncio.Lock; "acquire": _flock_acquire is in the *)
(* executor's queue; "flock": it blocks a thread; "inside": it returned;   *)
(* "run": codex was started; "term": the time-out sent SIGTERM; "release": *)
(* _flock_release is in the executor's queue; "gone": the service process  *)
(* ended under the run.                                                    *)
(***************************************************************************)
Guarded == {"acquire", "flock", "inside", "run", "term", "release"}
Places == {"idle", "lock", "done", "gone"} \cup Guarded

Busy == {r \in Runs : pc[r] = "flock"}      \* threads blocked in flock()
Alive(p) == codex[p] = "alive"

Init ==
    /\ at = [p \in Procs |-> Nowhere]
    /\ pc = [p \in Procs |-> "idle"]
    /\ holder = [h \in Homes |-> Nobody]
    /\ waiters = [h \in Homes |-> <<>>]
    /\ tasks = <<>>
    /\ flock = [h \in Homes |-> Nobody]
    /\ fd = [r \in Runs |-> FALSE]
    /\ codex = [p \in Procs |-> "none"]
    /\ ends = 0

-----------------------------------------------------------------------------
\* Mutant of Enter: every call makes a lock of its own.
EnterOwnLock(r, h) ==
    /\ pc[r] = "idle"
    /\ at' = [at EXCEPT ![r] = h]
    /\ holder' = [holder EXCEPT ![h] = r]
    /\ pc' = [pc EXCEPT ![r] = "acquire"]
    /\ tasks' = Append(tasks, r)
    /\ UNCHANGED <<waiters, flock, fd, codex, ends>>

\* async with self._exec_lock_for(home): free, or behind those that wait.
Enter(r, h) ==
    /\ pc[r] = "idle"
    /\ at' = [at EXCEPT ![r] = h]
    /\ IF holder[h] = Nobody
         THEN /\ holder' = [holder EXCEPT ![h] = r]
              /\ pc' = [pc EXCEPT ![r] = "acquire"]
              /\ tasks' = Append(tasks, r)
              /\ UNCHANGED waiters
         ELSE /\ waiters' = [waiters EXCEPT ![h] = Append(@, r)]
              /\ pc' = [pc EXCEPT ![r] = "lock"]
              /\ UNCHANGED <<holder, tasks>>
    /\ UNCHANGED <<flock, fd, codex, ends>>

\* A free executor thread takes the next _flock_acquire call and blocks in it.
ThreadAcquires ==
    /\ tasks # <<>> /\ Cardinality(Busy) < Threads
    /\ pc[Head(tasks)] = "acquire"
    /\ pc' = [pc EXCEPT ![Head(tasks)] = "flock"]
    /\ tasks' = Tail(tasks)
    /\ UNCHANGED <<at, holder, waiters, flock, fd, codex, ends>>

\* Mutant of FlockGranted: a shared lock.
FlockShared(r) ==
    /\ pc[r] = "flock"
    /\ flock' = [flock EXCEPT ![at[r]] = r]
    /\ fd' = [fd EXCEPT ![r] = TRUE]
    /\ pc' = [pc EXCEPT ![r] = "inside"]
    /\ UNCHANGED <<at, holder, waiters, tasks, codex, ends>>

\* fcntl.flock(fd, LOCK_EX) returns.
FlockGranted(r) ==
    /\ pc[r] = "flock" /\ flock[at[r]] = Nobody
    /\ flock' = [flock EXCEPT ![at[r]] = r]
    /\ fd' = [fd EXCEPT ![r] = TRUE]
    /\ pc' = [pc EXCEPT ![r] = "inside"]
    /\ UNCHANGED <<at, holder, waiters, tasks, codex, ends>>

\* open() or flock() raises OSError: the run goes on without the flock.
FlockFails(r) ==
    /\ LockCanFail
    /\ pc[r] = "flock"
    /\ pc' = [pc EXCEPT ![r] = "inside"]
    /\ UNCHANGED <<at, holder, waiters, tasks, flock, fd, codex, ends>>

\* create_subprocess_exec, after the auth snapshot.
Spawn(r) ==
    /\ pc[r] = "inside"
    /\ pc' = [pc EXCEPT ![r] = "run"]
    /\ codex' = [codex EXCEPT ![r] = "alive"]
    /\ UNCHANGED <<at, holder, waiters, tasks, flock, fd, ends>>

\* The guard's finally: hand _flock_release to the executor.
Leave(r) ==
    /\ pc' = [pc EXCEPT ![r] = "release"]
    /\ tasks' = Append(tasks, r)

\* codex could not be started.
SpawnFails(r) ==
    /\ pc[r] = "inside"
    /\ Leave(r)
    /\ UNCHANGED <<at, holder, waiters, flock, fd, codex, ends>>

\* A codex process ends by itself, or because of the SIGTERM it was sent.
CodexExits(p) ==
    /\ Alive(p)
    /\ codex' = [codex EXCEPT ![p] = "exited"]
    /\ UNCHANGED <<at, pc, holder, waiters, tasks, flock, fd, ends>>

\* communicate() returned, before codex_timeout_seconds or after the SIGTERM.
RunEnds(r) ==
    /\ pc[r] \in {"run", "term"} /\ ~Alive(r)
    /\ Leave(r)
    /\ UNCHANGED <<at, holder, waiters, flock, fd, codex, ends>>

\* Mutant of TimesOut: SIGTERM, and nobody waits for it to take effect.
TimesOutLeaves(r) ==
    /\ pc[r] = "run"
    /\ Leave(r)
    /\ UNCHANGED <<at, holder, waiters, flock, fd, codex, ends>>

\* codex_timeout_seconds passed: SIGTERM to the process group.
TimesOut(r) ==
    /\ pc[r] = "run"
    /\ pc' = [pc EXCEPT ![r] = "term"]
    /\ UNCHANGED <<at, holder, waiters, tasks, flock, fd, codex, ends>>

\* Mutant of Kill: SIGTERM once more.
TermAgain(r) ==
    /\ pc[r] = "term" /\ Alive(r)
    /\ UNCHANGED vars

\* codex is still there after the grace period: SIGKILL.
Kill(r) ==
    /\ pc[r] = "term" /\ Alive(r)
    /\ codex' = [codex EXCEPT ![r] = "exited"]
    /\ Leave(r)
    /\ UNCHANGED <<at, holder, waiters, flock, fd, ends>>

\* _flock_release: nothing to do for a run that could not get the flock.  Its
\* mutant loses the descriptor without unlocking and closing it.
Unreleased(r) == flock
Released(r) == IF fd[r] THEN [flock EXCEPT ![at[r]] = Nobody] ELSE flock

\* A free thread runs _flock_release; the asyncio.Lock goes to the longest
\* waiting run, which asks the executor for the flock in its turn.
ThreadReleases ==
    /\ tasks # <<>> /\ Cardinality(Busy) < Threads
    /\ LET r == Head(tasks)
           h == at[r]
       IN  /\ pc[r] = "release"
           /\ flock' = Released(r)
           /\ fd' = [fd EXCEPT ![r] = FALSE]
           /\ IF waiters[h] = <<>>
                THEN /\ holder' = [holder EXCEPT ![h] = Nobody]
                     /\ pc' = [pc EXCEPT ![r] = "done"]
                     /\ tasks' = Tail(tasks)
                     /\ UNCHANGED waiters
                ELSE /\ holder' = [holder EXCEPT ![h] = Head(waiters[h])]
                     /\ waiters' = [waiters EXCEPT ![h] = Tail(@)]
                     /\ pc' = [pc EXCEPT ![r] = "done", ![Head(waiters[h])] = "acquire"]
                     /\ tasks' = Append(Tail(tasks), Head(waiters[h]))
    /\ UNCHANGED <<at, codex, ends>>

-----------------------------------------------------------------------------
\* flock <home>/.codex-exec.lock codex ... on the host.
HostStarts(p, h) ==
    /\ pc[p] = "idle" /\ flock[h] = Nobody
    /\ at' = [at EXCEPT ![p] = h]
    /\ flock' = [flock EXCEPT ![h] = p]
    /\ pc' = [pc EXCEPT ![p] = "run"]
    /\ codex' = [codex EXCEPT ![p] = "alive"]
    /\ UNCHANGED <<holder, waiters, tasks, fd, ends>>

HostEnds(p) ==
    /\ pc[p] = "run" /\ ~Alive(p)
    /\ flock' = [flock EXCEPT ![at[p]] = Nobody]
    /\ pc' = [pc EXCEPT ![p] = "idle"]
    /\ UNCHANGED <<at, holder, waiters, tasks, fd, codex, ends>>

\* The service process ends: a crash, or stop() cancelling the workers, which
\* leaves through the guard without ending codex.  The locks are gone, and the
\* codex processes, each in its own session, live on or go down with it.
ProcessEnds ==
    /\ ends < MaxEnds
    /\ ends' = ends + 1
    /\ pc' = [p \in Procs |->
                 IF p \in Runs /\ pc[p] \in Guarded \cup {"lock"} THEN "gone" ELSE pc[p]]
    /\ \E killed \in SUBSET {r \in Runs : Alive(r)} :
          codex' = [p \in Procs |-> IF p \in killed THEN "exited" ELSE codex[p]]
    /\ holder' = [h \in Homes |-> Nobody]
    /\ waiters' = [h \in Homes |-> <<>>]
    /\ tasks' = <<>>
    /\ flock' = [h \in Homes |-> IF flock[h] \in Runs THEN Nobody ELSE flock[h]]
    /\ fd' = [r \in Runs |-> FALSE]
    /\ UNCHANGED at

RunStep(r) ==
    \/ FlockGranted(r) \/ Spawn(r) \/ SpawnFails(r)
    \/ RunEnds(r) \/ TimesOut(r) \/ Kill(r)

\* The flock works and the service stays up.
CalmNext ==
    \/ \E r \in Runs : RunStep(r) \/ \E h \in Homes : Enter(r, h)
    \/ \E p \in Hosts : HostEnds(p) \/ \E h \in Homes : HostStarts(p, h)
    \/ \E p \in Procs : CodexExits(p)
    \/ ThreadAcquires \/ ThreadReleases

Next ==
    \/ CalmNext
    \/ \E r \in Runs : FlockFails(r)
    \/ ProcessEnds

Spec == Init /\ [][Next]_vars

(***************************************************************************)
(* The executor's threads and the event loop make progress, time-outs      *)
(* fire, a host's codex ends, and the kernel does not pass over a thread   *)
(* blocked in flock() for ever.  Nothing makes the service's codex end by  *)
(* itself: the time-out and SIGKILL see to it.                             *)
(***************************************************************************)
Fairness ==
    /\ WF_vars(ThreadAcquires) /\ WF_vars(ThreadReleases)
    /\ \A r \in Runs : /\ SF_vars(FlockGranted(r))
                       /\ WF_vars(Spawn(r) \/ SpawnFails(r))
                       /\ WF_vars(RunEnds(r)) /\ WF_vars(TimesOut(r)) /\ WF_vars(Kill(r))
    /\ \A p \in Hosts : WF_vars(CodexExits(p)) /\ WF_vars(HostEnds(p))

FairSpec == Init /\ [][CalmNext]_vars /\ Fairness

-----------------------------------------------------------------------------
(***************************************************************************)
(* Properties                                                              *)
(***************************************************************************)
TypeOK ==
    /\ at \in [Procs -> Homes \cup {Nowhere}]
    /\ pc \in [Procs -> Places]
    /\ holder \in [Homes -> Runs \cup {Nobody}]
    /\ waiters \in [Homes -> Seq(Runs)]
    /\ tasks \in Seq(Runs)
    /\ flock \in [Homes -> Procs \cup {Nobody}]
    /\ fd \in [Runs -> BOOLEAN]
    /\ codex \in [Procs -> {"none", "alive", "exited"}]
    /\ ends \in 0..MaxEnds

\* A codex process whose run is no longer there to wait for it.
Orphan(p) == pc[p] = "gone"
OnHome(p, h) == at[p] = h /\ Alive(p)

\* The asyncio.Lock and the executor agree on who is where: a home's lock is
\* held by exactly the run that is past it, those behind it wait in line once,
\* and the executor holds one call for exactly the runs that wait for one.
LocksAgree ==
    /\ \A h \in Homes :
          /\ IsInjective(waiters[h])
          /\ Range(waiters[h]) = {r \in Runs : at[r] = h /\ pc[r] = "lock"}
          /\ holder[h] = Nobody => waiters[h] = <<>>
          /\ holder[h] # Nobody => at[holder[h]] = h /\ pc[holder[h]] \in Guarded
    /\ \A r \in Runs : pc[r] \in Guarded => at[r] \in Homes /\ holder[at[r]] = r
    /\ IsInjective(tasks)
    /\ Range(tasks) = {r \in Runs : pc[r] \in {"acquire", "release"}}

\* The flock is held by exactly the run, inside the guard, that has the
\* descriptor, or by a host at work: no path through the guard leaks it, which
\* would lock every later run and the keepalive out of the home.
FlockFollowsGuard ==
    /\ \A h \in Homes, r \in Runs :
          flock[h] = r <=> /\ fd[r] /\ at[r] = h
                           /\ pc[r] \in {"inside", "run", "term", "release"}
    /\ \A h \in Homes, p \in Hosts : flock[h] = p <=> at[p] = h /\ pc[p] = "run"

\* codex is alive only under a run or host that still waits for it, or as an
\* orphan: whatever ends a guarded run ends its codex first.
CodexHasKeeper ==
    \A p \in Procs : Alive(p) => pc[p] \in {"run", "term", "gone"}

\* Two codex processes are on one home only if one of them was orphaned by the
\* end of the service, or a run that could not get the flock meets a host.  Two
\* runs of the service never meet, not even without the flock.
NoOverlap ==
    \A h \in Homes : \A p, q \in Procs :
        p # q /\ OnHome(p, h) /\ OnHome(q, h) =>
            \/ Orphan(p) \/ Orphan(q)
            \/ \E r \in {p, q} \cap Runs : ~fd[r]
               /\ {p, q} \cap Hosts # {}

\* "... so only one process touches a given auth.json at a time"
\* (codex_image.py, CodexImageGenerator.__init__), as it stands.
OneProcessPerHome ==
    \A h \in Homes : \A p, q \in Procs : OnHome(p, h) /\ OnHome(q, h) => p = q

\* With a working flock and a service that stays up, the guard implements the
\* mutual exclusion of the homes.
Mutual == INSTANCE HomeMutex WITH using <- [h \in Homes |-> {p \in Procs : OnHome(p, h)}]
KeepsMutex == Mutual!Mutex

\* A run that asks for a home gets through: no set of runs, host processes and
\* executor threads ends up waiting on each other, even with a single thread,
\* where an acquire that blocks on one home delays the release of another.
RunsGetThrough ==
    \A r \in Runs : pc[r] # "idle" ~> pc[r] \in {"done", "gone"}
=============================================================================
