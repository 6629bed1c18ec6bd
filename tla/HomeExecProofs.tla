--------------------------- MODULE HomeExecProofs ---------------------------
(***************************************************************************)
(* Proofs about HomeExec, for any homes, runs, hosts and executor threads, *)
(* any number of ends of the service, and flocks that may fail.            *)
(***************************************************************************)
EXTENDS HomeExec, DataFacts

\* What the listed invariants leave open: a host is idle or at work, and a
\* descriptor belongs to a run that is past _flock_acquire.
Shape ==
    /\ \A p \in Hosts : pc[p] \in {"idle", "run"}
    /\ \A r \in Runs : fd[r] => pc[r] \in {"inside", "run", "term", "release"}

IInv == TypeOK /\ LocksAgree /\ FlockFollowsGuard /\ CodexHasKeeper /\ Shape

\* Everything the invariant says of one run that is inside the guard.
LEMMA GuardedRun ==
    ASSUME IInv, NEW r \in Runs, pc[r] \in Guarded
    PROVE  /\ r \in Procs /\ r \notin Hosts
           /\ at[r] \in Homes /\ holder[at[r]] = r
           /\ \A q \in Runs : pc[q] \in Guarded /\ at[q] = at[r] => q = r
    BY HomeAssumption DEF IInv, LocksAgree, Procs

LEMMA InitIInv == Init => IInv
<1> SUFFICES ASSUME Init PROVE IInv
    OBVIOUS
<1>1. Range(<<>>) = {} /\ IsInjective(<<>>) /\ <<>> \in Seq(Runs)
    BY DEF Range, IsInjective
<1>2. TypeOK
    BY <1>1, HomeAssumption DEF Init, TypeOK, Places, Procs
<1>3. LocksAgree
    BY <1>1, HomeAssumption DEF Init, LocksAgree, Guarded, Procs
<1>4. FlockFollowsGuard
    BY HomeAssumption DEF Init, FlockFollowsGuard, Procs
<1>5. CodexHasKeeper /\ Shape
    BY DEF Init, CodexHasKeeper, Alive, Shape, Procs
<1>6. QED
    BY <1>2, <1>3, <1>4, <1>5 DEF IInv

(***************************************************************************)
(* Steps that only move a run from one place in the guard to the next.     *)
(***************************************************************************)
LEMMA MoveIInv ==
    ASSUME IInv, NEW r \in Runs, NEW c \in {"flock", "inside", "run", "term"},
           pc[r] \in {"flock", "inside", "run"},
           pc[r] # "flock" => c # "flock" /\ c # "inside",
           pc' = [pc EXCEPT ![r] = c],
           UNCHANGED <<at, holder, waiters, tasks, ends>>,
           \/ UNCHANGED <<flock, fd>>
           \/ /\ pc[r] = "flock" /\ c = "inside" /\ flock[at[r]] = Nobody
              /\ flock' = [flock EXCEPT ![at[r]] = r]
              /\ fd' = [fd EXCEPT ![r] = TRUE],
           \/ UNCHANGED codex /\ (pc[r] = "run" => c = "term")
           \/ c = "run" /\ codex' = [codex EXCEPT ![r] = "alive"]
    PROVE  IInv'
<1>1. /\ r \in Procs /\ r \notin Hosts /\ at[r] \in Homes /\ holder[at[r]] = r
      /\ pc[r] \in Guarded /\ c \in Guarded /\ c \in Places
    BY GuardedRun DEF Guarded, Places
<1>2. TypeOK'
    BY <1>1 DEF IInv, TypeOK
<1>3. LocksAgree'
    BY <1>1, HomeAssumption DEF IInv, TypeOK, LocksAgree, Guarded, Procs
<1>4. FlockFollowsGuard'
    BY <1>1, HomeAssumption DEF IInv, TypeOK, FlockFollowsGuard, Shape, Procs
<1>5. CodexHasKeeper'
    BY <1>1 DEF IInv, TypeOK, CodexHasKeeper, Alive
<1>6. Shape'
    BY <1>1 DEF IInv, TypeOK, Shape, Procs
<1>7. QED
    BY <1>2, <1>3, <1>4, <1>5, <1>6 DEF IInv

LEMMA RunMovesIInv ==
    ASSUME IInv, NEW r \in Runs,
           FlockGranted(r) \/ FlockFails(r) \/ Spawn(r) \/ TimesOut(r)
    PROVE  IInv'
<1>1. CASE FlockGranted(r)
    BY <1>1, MoveIInv DEF FlockGranted
<1>2. CASE FlockFails(r)
    BY <1>2, MoveIInv DEF FlockFails
<1>3. CASE Spawn(r)
    BY <1>3, MoveIInv DEF Spawn
<1>4. CASE TimesOut(r)
    BY <1>4, MoveIInv DEF TimesOut
<1>5. QED
    BY <1>1, <1>2, <1>3, <1>4

(***************************************************************************)
(* Steps that change the lines.                                            *)
(***************************************************************************)
LEMMA LeaveIInv ==
    ASSUME IInv, NEW r \in Runs,
           SpawnFails(r) \/ RunEnds(r) \/ Kill(r)
    PROVE  IInv'
<1>1. /\ pc[r] \in {"inside", "run", "term"} /\ pc' = [pc EXCEPT ![r] = "release"]
      /\ tasks' = Append(tasks, r) /\ UNCHANGED <<at, holder, waiters, flock, fd, ends>>
    BY DEF SpawnFails, RunEnds, Kill, Leave
<1>2. r \in Procs /\ r \notin Hosts /\ at[r] \in Homes /\ holder[at[r]] = r
    BY <1>1, GuardedRun DEF Guarded
<1>3. /\ codex' \in [Procs -> {"none", "alive", "exited"}] /\ codex'[r] # "alive"
      /\ \A p \in Procs : p # r => codex'[p] = codex[p]
    BY <1>1, <1>2 DEF SpawnFails, RunEnds, Kill, IInv, TypeOK, CodexHasKeeper, Alive
<1>4. /\ tasks' \in Seq(Runs) /\ IsInjective(tasks') /\ Range(tasks') = Range(tasks) \cup {r}
    <2>1. tasks \in Seq(Runs) /\ IsInjective(tasks) /\ r \notin Range(tasks)
        BY <1>1 DEF IInv, TypeOK, LocksAgree
    <2>2. QED
        BY <1>1, <2>1, AppendToLine
<1>5. TypeOK'
    BY <1>1, <1>2, <1>3, <1>4 DEF IInv, TypeOK, Places, Guarded
<1>6. LocksAgree'
    BY <1>1, <1>2, <1>4, HomeAssumption DEF IInv, TypeOK, LocksAgree, Guarded, Procs
<1>7. FlockFollowsGuard'
    BY <1>1, <1>2 DEF IInv, TypeOK, FlockFollowsGuard, Procs
<1>8. CodexHasKeeper'
    BY <1>1, <1>2, <1>3 DEF IInv, TypeOK, CodexHasKeeper, Alive
<1>9. Shape'
    BY <1>1, <1>2 DEF IInv, TypeOK, Shape, Procs
<1>10. QED
    BY <1>5, <1>6, <1>7, <1>8, <1>9 DEF IInv

LEMMA EnterIInv == ASSUME IInv, NEW r \in Runs, NEW h \in Homes, Enter(r, h) PROVE IInv'
<1>1. /\ pc[r] = "idle" /\ at' = [at EXCEPT ![r] = h]
      /\ UNCHANGED <<flock, fd, codex, ends>>
    BY DEF Enter
<1>2. r \in Procs /\ r \notin Hosts /\ ~fd[r] /\ codex[r] # "alive"
    BY <1>1, HomeAssumption DEF IInv, Shape, CodexHasKeeper, Alive, Procs
<1>3. /\ r \notin Range(tasks)
      /\ \A g \in Homes : r \notin Range(waiters[g]) /\ holder[g] # r
    BY <1>1, HomeAssumption DEF IInv, LocksAgree, Guarded, Procs
<1>4. CASE holder[h] = Nobody
    <2>1. /\ holder' = [holder EXCEPT ![h] = r] /\ pc' = [pc EXCEPT ![r] = "acquire"]
          /\ tasks' = Append(tasks, r) /\ UNCHANGED waiters
        BY <1>4 DEF Enter
    <2>2. /\ tasks' \in Seq(Runs) /\ IsInjective(tasks') /\ Range(tasks') = Range(tasks) \cup {r}
        BY <1>3, <2>1, AppendToLine DEF IInv, TypeOK, LocksAgree
    <2>3. TypeOK'
        BY <1>1, <1>2, <2>1, <2>2 DEF IInv, TypeOK, Places, Guarded
    <2>4. LocksAgree'
        BY <1>1, <1>2, <1>3, <1>4, <2>1, <2>2, HomeAssumption
           DEF IInv, TypeOK, LocksAgree, Guarded, Procs
    <2>5. FlockFollowsGuard' /\ CodexHasKeeper' /\ Shape'
        BY <1>1, <1>2, <2>1
           DEF IInv, TypeOK, FlockFollowsGuard, CodexHasKeeper, Alive, Shape, Procs
    <2>6. QED
        BY <2>3, <2>4, <2>5 DEF IInv
<1>5. CASE holder[h] # Nobody
    <2>1. /\ waiters' = [waiters EXCEPT ![h] = Append(waiters[h], r)]
          /\ pc' = [pc EXCEPT ![r] = "lock"] /\ UNCHANGED <<holder, tasks>>
        BY <1>5 DEF Enter
    <2>2. /\ Append(waiters[h], r) \in Seq(Runs) /\ IsInjective(Append(waiters[h], r))
          /\ Range(Append(waiters[h], r)) = Range(waiters[h]) \cup {r}
        BY <1>3, AppendToLine DEF IInv, TypeOK, LocksAgree
    <2>3. TypeOK'
        BY <1>1, <1>2, <2>1, <2>2 DEF IInv, TypeOK, Places
    <2>4. LocksAgree'
        <3>1. waiters' \in [Homes -> Seq(Runs)] /\ waiters'[h] = Append(waiters[h], r)
              /\ \A g \in Homes : g # h => waiters'[g] = waiters[g]
            BY <2>1, <2>2 DEF IInv, TypeOK
        <3>2. \A g \in Homes : Range(waiters'[g]) = {q \in Runs : at'[q] = g /\ pc'[q] = "lock"}
            <4>1. ASSUME NEW g \in Homes
                  PROVE  Range(waiters'[g]) = {q \in Runs : at'[q] = g /\ pc'[q] = "lock"}
                <5>1. Range(waiters[g]) = {q \in Runs : at[q] = g /\ pc[q] = "lock"}
                    BY DEF IInv, LocksAgree
                <5>2. \A q \in Runs : q # r => at'[q] = at[q] /\ pc'[q] = pc[q]
                    BY <1>1, <2>1, <1>2 DEF IInv, TypeOK, Procs
                <5>3. at'[r] = h /\ pc'[r] = "lock"
                    BY <1>1, <2>1, <1>2 DEF IInv, TypeOK
                <5>4. CASE g = h
                    BY <5>1, <5>2, <5>3, <5>4, <3>1, <2>2
                <5>5. CASE g # h
                    BY <5>1, <5>2, <5>3, <5>5, <3>1, <1>1
                <5>6. QED
                    BY <5>4, <5>5
            <4>2. QED
                BY <4>1
        <3>3. QED
            BY <1>1, <1>2, <1>3, <1>5, <2>1, <2>2, <3>1, <3>2
               DEF IInv, TypeOK, LocksAgree, Guarded, Procs
    <2>5. FlockFollowsGuard' /\ CodexHasKeeper' /\ Shape'
        BY <1>1, <1>2, <2>1
           DEF IInv, TypeOK, FlockFollowsGuard, CodexHasKeeper, Alive, Shape, Procs
    <2>6. QED
        BY <2>3, <2>4, <2>5 DEF IInv
<1>6. QED
    BY <1>4, <1>5

\* The executor's next task and the rest of them.
LEMMA NextTask ==
    ASSUME IInv, tasks # <<>>
    PROVE  /\ Head(tasks) \in Runs /\ Head(tasks) \in Range(tasks)
           /\ Tail(tasks) \in Seq(Runs) /\ IsInjective(Tail(tasks))
           /\ Range(Tail(tasks)) = Range(tasks) \ {Head(tasks)}
    BY TailOfLine DEF IInv, TypeOK, LocksAgree

LEMMA ThreadAcquiresIInv == ASSUME IInv, ThreadAcquires PROVE IInv'
<1>1. PICK r \in Runs : r = Head(tasks)
    BY NextTask DEF ThreadAcquires
<1>2. /\ pc[r] = "acquire" /\ pc' = [pc EXCEPT ![r] = "flock"] /\ tasks' = Tail(tasks)
      /\ UNCHANGED <<at, holder, waiters, flock, fd, codex, ends>>
    BY <1>1 DEF ThreadAcquires
<1>3. /\ tasks' \in Seq(Runs) /\ IsInjective(tasks') /\ Range(tasks') = Range(tasks) \ {r}
    BY <1>1, <1>2, NextTask DEF ThreadAcquires
<1>4. r \in Procs /\ r \notin Hosts /\ at[r] \in Homes /\ holder[at[r]] = r
    BY <1>2, GuardedRun DEF Guarded
<1>5. TypeOK'
    BY <1>2, <1>3, <1>4 DEF IInv, TypeOK, Places, Guarded
<1>6. LocksAgree'
    BY <1>2, <1>3, <1>4, HomeAssumption DEF IInv, TypeOK, LocksAgree, Guarded, Procs
<1>7. FlockFollowsGuard' /\ CodexHasKeeper' /\ Shape'
    BY <1>2, <1>4 DEF IInv, TypeOK, FlockFollowsGuard, CodexHasKeeper, Alive, Shape, Procs
<1>8. QED
    BY <1>5, <1>6, <1>7 DEF IInv

\* Giving back the flock keeps it with those that still have it.
LEMMA ReleaseFacts ==
    ASSUME IInv, NEW r \in Runs, pc[r] = "release",
           NEW c \in [Procs -> Places], c[r] = "done",
           \A p \in Procs : p # r =>
               c[p] = pc[p] \/ (p \in Runs /\ pc[p] = "lock" /\ c[p] = "acquire"),
           pc' = c, flock' = Released(r), fd' = [fd EXCEPT ![r] = FALSE],
           UNCHANGED <<at, codex, ends>>
    PROVE  /\ flock' \in [Homes -> Procs \cup {Nobody}] /\ fd' \in [Runs -> BOOLEAN]
           /\ FlockFollowsGuard' /\ CodexHasKeeper' /\ Shape'
<1>1. r \in Procs /\ r \notin Hosts /\ at[r] \in Homes /\ holder[at[r]] = r
    BY GuardedRun DEF Guarded
<1>2. flock' \in [Homes -> Procs \cup {Nobody}] /\ fd' \in [Runs -> BOOLEAN]
    BY <1>1 DEF IInv, TypeOK, Released
<1>3. \A h \in Homes : flock'[h] = IF flock[h] = r THEN Nobody ELSE flock[h]
    BY <1>1 DEF IInv, TypeOK, Released, FlockFollowsGuard
<1>4. FlockFollowsGuard'
    <2>1. ASSUME NEW h \in Homes, NEW q \in Runs
          PROVE  flock'[h] = q <=> /\ fd'[q] /\ at'[q] = h
                                   /\ pc'[q] \in {"inside", "run", "term", "release"}
        <3>1. CASE q = r
            <4>1. flock'[h] # r
                BY <1>3, HomeAssumption
            <4>2. fd'[r] = FALSE
                BY DEF IInv, TypeOK
            <4>3. QED
                BY <3>1, <4>1, <4>2
        <3>2. CASE q # r
            <4>1. fd'[q] = fd[q] /\ at'[q] = at[q] /\ q # Nobody /\ q \in Procs
                BY <3>2, HomeAssumption DEF IInv, TypeOK, Procs
            <4>2. flock'[h] = q <=> flock[h] = q
                BY <3>2, <4>1, <1>3
            <4>3. fd[q] => pc'[q] = pc[q]
                BY <3>2, <4>1 DEF IInv, Shape
            <4>4. QED
                BY <3>2, <4>1, <4>2, <4>3 DEF IInv, FlockFollowsGuard, Shape
        <3>3. QED
            BY <3>1, <3>2
    <2>2. ASSUME NEW h \in Homes, NEW p \in Hosts
          PROVE  flock'[h] = p <=> at'[p] = h /\ pc'[p] = "run"
        <3>1. p \in Procs /\ p # r /\ p # Nobody /\ p \notin Runs
            BY <1>1, HomeAssumption DEF Procs
        <3>2. pc'[p] = pc[p] /\ at'[p] = at[p] /\ (flock'[h] = p <=> flock[h] = p)
            BY <3>1, <1>3
        <3>3. QED
            BY <3>2 DEF IInv, FlockFollowsGuard
    <2>3. QED
        BY <2>1, <2>2 DEF FlockFollowsGuard
<1>5. CodexHasKeeper'
    BY <1>1 DEF IInv, CodexHasKeeper, Alive
<1>6. Shape'
    <2>1. ASSUME NEW p \in Hosts PROVE pc'[p] \in {"idle", "run"}
        BY <1>1, HomeAssumption DEF IInv, Shape, Procs
    <2>2. ASSUME NEW q \in Runs, fd'[q] PROVE pc'[q] \in {"inside", "run", "term", "release"}
        BY <2>2 DEF IInv, TypeOK, Shape, Procs
    <2>3. QED
        BY <2>1, <2>2 DEF Shape
<1>7. QED
    BY <1>2, <1>4, <1>5, <1>6

LEMMA ThreadReleasesIInv == ASSUME IInv, ThreadReleases PROVE IInv'
<1>1. PICK r \in Runs : r = Head(tasks)
    BY NextTask DEF ThreadReleases
<1>2. PICK h : h = at[r]
    OBVIOUS
<1>3. /\ pc[r] = "release" /\ flock' = Released(r) /\ fd' = [fd EXCEPT ![r] = FALSE]
      /\ UNCHANGED <<at, codex, ends>>
    BY <1>1 DEF ThreadReleases
<1>4. r \in Procs /\ r \notin Hosts /\ h \in Homes /\ at[r] = h /\ holder[h] = r /\ r # Nobody
    BY <1>2, <1>3, GuardedRun, HomeAssumption DEF Guarded, Procs
<1>5. /\ Tail(tasks) \in Seq(Runs) /\ IsInjective(Tail(tasks))
      /\ Range(Tail(tasks)) = Range(tasks) \ {r}
    BY <1>1, NextTask DEF ThreadReleases
<1>6. \A q \in Runs : q # r /\ at[q] = h => pc[q] \notin Guarded
    BY <1>3, <1>4, GuardedRun DEF Guarded
<1>7. CASE waiters[h] = <<>>
    <2>1. /\ holder' = [holder EXCEPT ![h] = Nobody] /\ pc' = [pc EXCEPT ![r] = "done"]
          /\ tasks' = Tail(tasks) /\ UNCHANGED waiters
        BY <1>1, <1>2, <1>7 DEF ThreadReleases
    <2>2. pc' \in [Procs -> Places] /\ pc'[r] = "done" /\ \A p \in Procs : p # r => pc'[p] = pc[p]
        BY <1>4, <2>1 DEF IInv, TypeOK, Places
    <2>3. /\ flock' \in [Homes -> Procs \cup {Nobody}] /\ fd' \in [Runs -> BOOLEAN]
          /\ FlockFollowsGuard' /\ CodexHasKeeper' /\ Shape'
        BY <1>3, <2>2, ReleaseFacts
    <2>4. TypeOK'
        BY <1>3, <1>4, <1>5, <2>1, <2>2, <2>3 DEF IInv, TypeOK
    <2>5. LocksAgree'
        BY <1>3, <1>4, <1>5, <1>6, <1>7, <2>1, <2>2, HomeAssumption
           DEF IInv, TypeOK, LocksAgree, Guarded, Procs
    <2>6. QED
        BY <2>3, <2>4, <2>5 DEF IInv
<1>8. CASE waiters[h] # <<>>
    <2>1. /\ Head(waiters[h]) \in Runs /\ Head(waiters[h]) \in Range(waiters[h])
          /\ Tail(waiters[h]) \in Seq(Runs) /\ IsInjective(Tail(waiters[h]))
          /\ Range(Tail(waiters[h])) = Range(waiters[h]) \ {Head(waiters[h])}
        BY <1>4, <1>8, TailOfLine DEF IInv, TypeOK, LocksAgree
    <2>2. PICK w \in Runs : w = Head(waiters[h])
        BY <2>1
    <2>3. PICK t : t = Tail(waiters[h])
        OBVIOUS
    <2>4. /\ pc[w] = "lock" /\ at[w] = h /\ w # r /\ w \in Procs /\ w # Nobody
          /\ w \notin Range(tasks)
        BY <1>3, <1>4, <2>1, <2>2, HomeAssumption DEF IInv, LocksAgree, Procs
    <2>5. /\ holder' = [holder EXCEPT ![h] = w] /\ waiters' = [waiters EXCEPT ![h] = t]
          /\ pc' = [pc EXCEPT ![r] = "done", ![w] = "acquire"]
          /\ tasks' = Append(Tail(tasks), w)
        BY <1>1, <1>2, <1>8, <2>2, <2>3 DEF ThreadReleases
    <2>6. /\ t \in Seq(Runs) /\ IsInjective(t) /\ Range(t) = Range(waiters[h]) \ {w}
        BY <2>1, <2>2, <2>3
    <2>7. /\ tasks' \in Seq(Runs) /\ IsInjective(tasks')
          /\ Range(tasks') = (Range(tasks) \ {r}) \cup {w}
        <3>1. w \notin Range(Tail(tasks))
            BY <1>5, <2>4
        <3>2. /\ Append(Tail(tasks), w) \in Seq(Runs) /\ IsInjective(Append(Tail(tasks), w))
              /\ Range(Append(Tail(tasks), w)) = Range(Tail(tasks)) \cup {w}
            BY <1>5, <3>1, AppendToLine
        <3>3. QED
            BY <1>5, <2>5, <3>2
    <2>8. /\ pc' \in [Procs -> Places] /\ pc'[r] = "done" /\ pc'[w] = "acquire"
          /\ \A p \in Procs : p # r /\ p # w => pc'[p] = pc[p]
        BY <1>4, <2>4, <2>5 DEF IInv, TypeOK, Places, Guarded
    <2>9. /\ flock' \in [Homes -> Procs \cup {Nobody}] /\ fd' \in [Runs -> BOOLEAN]
          /\ FlockFollowsGuard' /\ CodexHasKeeper' /\ Shape'
        BY <1>3, <2>2, <2>4, <2>8, ReleaseFacts
    <2>10. TypeOK'
        BY <1>3, <1>4, <2>2, <2>5, <2>6, <2>7, <2>8, <2>9 DEF IInv, TypeOK
    <2>11. /\ holder'[h] = w /\ waiters'[h] = t
           /\ \A g \in Homes : g # h => holder'[g] = holder[g] /\ waiters'[g] = waiters[g]
        BY <1>4, <2>5 DEF IInv, TypeOK
    <2>12. LocksAgree'
        <3>1. ASSUME NEW g \in Homes
              PROVE  /\ IsInjective(waiters'[g])
                     /\ Range(waiters'[g]) = {q \in Runs : at'[q] = g /\ pc'[q] = "lock"}
                     /\ holder'[g] = Nobody => waiters'[g] = <<>>
                     /\ holder'[g] # Nobody => /\ at'[holder'[g]] = g
                                               /\ pc'[holder'[g]] \in Guarded
            <4>1. CASE g = h
                <5>1. Range(waiters[h]) = {q \in Runs : at[q] = h /\ pc[q] = "lock"}
                    BY <1>4 DEF IInv, LocksAgree
                <5>2. \A q \in Runs : q # r /\ q # w => pc'[q] = pc[q]
                    BY <2>8 DEF Procs
                <5>3. Range(t) = {q \in Runs : at[q] = h /\ pc'[q] = "lock"}
                    BY <5>1, <5>2, <1>3, <2>6, <2>8
                <5>4. QED
                    BY <4>1, <5>3, <1>3, <2>4, <2>6, <2>8, <2>11 DEF Guarded
            <4>2. CASE g # h
                <5>1. /\ IsInjective(waiters[g])
                      /\ Range(waiters[g]) = {q \in Runs : at[q] = g /\ pc[q] = "lock"}
                      /\ holder[g] = Nobody => waiters[g] = <<>>
                      /\ holder[g] # Nobody => at[holder[g]] = g /\ pc[holder[g]] \in Guarded
                    BY DEF IInv, LocksAgree
                <5>2. \A q \in Runs : at[q] = g => pc'[q] = pc[q]
                    BY <4>2, <1>4, <2>4, <2>8 DEF Procs
                <5>3. holder[g] \in Runs \cup {Nobody}
                    BY DEF IInv, TypeOK
                <5>4. QED
                    BY <4>2, <5>1, <5>2, <5>3, <1>3, <2>11
            <4>3. QED
                BY <4>1, <4>2
        <3>2. ASSUME NEW q \in Runs, pc'[q] \in Guarded
              PROVE  at'[q] \in Homes /\ holder'[at'[q]] = q
            <4>1. CASE q = w
                BY <4>1, <1>3, <1>4, <2>4, <2>11
            <4>2. CASE q # w
                <5>1. q # r /\ pc[q] \in Guarded
                    BY <3>2, <4>2, <2>8 DEF Guarded, Procs
                <5>2. at[q] \in Homes /\ at[q] # h /\ holder[at[q]] = q
                    BY <5>1, <1>6, GuardedRun
                <5>3. QED
                    BY <5>2, <1>3, <2>11
            <4>3. QED
                BY <4>1, <4>2
        <3>3. Range(tasks') = {q \in Runs : pc'[q] \in {"acquire", "release"}}
            <4>1. Range(tasks) = {q \in Runs : pc[q] \in {"acquire", "release"}}
                BY DEF IInv, LocksAgree
            <4>2. \A q \in Runs : q # r /\ q # w => pc'[q] = pc[q]
                BY <2>8 DEF Procs
            <4>3. QED
                BY <4>1, <4>2, <2>7, <2>8
        <3>4. QED
            BY <3>1, <3>2, <3>3, <2>7 DEF LocksAgree
    <2>13. QED
        BY <2>9, <2>10, <2>12 DEF IInv
<1>9. QED
    BY <1>7, <1>8

(***************************************************************************)
(* Steps of codex, of hosts, and the end of the service.                   *)
(***************************************************************************)
LEMMA CodexExitsIInv == ASSUME IInv, NEW p \in Procs, CodexExits(p) PROVE IInv'
<1>1. /\ codex' = [codex EXCEPT ![p] = "exited"]
      /\ UNCHANGED <<at, pc, holder, waiters, tasks, flock, fd, ends>>
    BY DEF CodexExits
<1>2. TypeOK' /\ CodexHasKeeper'
    BY <1>1 DEF IInv, TypeOK, CodexHasKeeper, Alive
<1>3. LocksAgree' /\ FlockFollowsGuard' /\ Shape'
    BY <1>1 DEF IInv, LocksAgree, FlockFollowsGuard, Shape
<1>4. QED
    BY <1>2, <1>3 DEF IInv

\* A step of a host leaves the service's own lines and locks alone.
LEMMA HostKeepsLocks ==
    ASSUME IInv, NEW p \in Hosts, UNCHANGED <<holder, waiters, tasks>>,
           \A r \in Runs : at'[r] = at[r] /\ pc'[r] = pc[r]
    PROVE  LocksAgree'
<1>1. \A h \in Homes : holder[h] \in Runs \cup {Nobody}
    BY DEF IInv, TypeOK
<1>2. QED
    BY <1>1 DEF IInv, LocksAgree

LEMMA HostStartsIInv == ASSUME IInv, NEW p \in Hosts, NEW h \in Homes, HostStarts(p, h) PROVE IInv'
<1>1. /\ pc[p] = "idle" /\ flock[h] = Nobody
      /\ at' = [at EXCEPT ![p] = h] /\ flock' = [flock EXCEPT ![h] = p]
      /\ pc' = [pc EXCEPT ![p] = "run"] /\ codex' = [codex EXCEPT ![p] = "alive"]
      /\ UNCHANGED <<holder, waiters, tasks, fd, ends>>
    BY DEF HostStarts
<1>2. p \in Procs /\ p \notin Runs /\ p # Nobody
    BY HomeAssumption DEF Procs
<1>3. \A q \in Procs : q # p => at'[q] = at[q] /\ pc'[q] = pc[q]
    BY <1>1 DEF IInv, TypeOK
<1>4. at'[p] = h /\ pc'[p] = "run"
    BY <1>1, <1>2 DEF IInv, TypeOK
<1>5. TypeOK'
    BY <1>1, <1>2 DEF IInv, TypeOK, Places, Guarded
<1>6. LocksAgree'
    BY <1>1, <1>2, <1>3, HostKeepsLocks DEF Procs
<1>7. FlockFollowsGuard'
    <2>1. ASSUME NEW g \in Homes, NEW r \in Runs
          PROVE  flock'[g] = r <=> /\ fd'[r] /\ at'[r] = g
                                   /\ pc'[r] \in {"inside", "run", "term", "release"}
        <3>1. at'[r] = at[r] /\ pc'[r] = pc[r] /\ fd'[r] = fd[r]
            BY <1>1, <1>2, <1>3 DEF Procs
        <3>2. flock'[g] = r <=> flock[g] = r
            BY <1>1, <1>2, HomeAssumption DEF IInv, TypeOK
        <3>3. QED
            BY <3>1, <3>2 DEF IInv, FlockFollowsGuard
    <2>2. ASSUME NEW g \in Homes, NEW q \in Hosts
          PROVE  flock'[g] = q <=> at'[q] = g /\ pc'[q] = "run"
        <3>1. CASE q = p
            <4>1. flock[g] # p
                BY <1>1 DEF IInv, FlockFollowsGuard
            <4>2. QED
                BY <3>1, <4>1, <1>1, <1>4 DEF IInv, TypeOK
        <3>2. CASE q # p
            <4>1. at'[q] = at[q] /\ pc'[q] = pc[q]
                BY <3>2, <1>3 DEF Procs
            <4>2. flock'[g] = q <=> flock[g] = q
                BY <3>2, <1>1, HomeAssumption DEF IInv, TypeOK
            <4>3. QED
                BY <4>1, <4>2 DEF IInv, FlockFollowsGuard
        <3>3. QED
            BY <3>1, <3>2
    <2>3. QED
        BY <2>1, <2>2 DEF FlockFollowsGuard
<1>8. CodexHasKeeper' /\ Shape'
    BY <1>1, <1>2 DEF IInv, TypeOK, CodexHasKeeper, Alive, Shape, Procs
<1>9. QED
    BY <1>5, <1>6, <1>7, <1>8 DEF IInv

LEMMA HostEndsIInv == ASSUME IInv, NEW p \in Hosts, HostEnds(p) PROVE IInv'
<1>1. /\ pc[p] = "run" /\ codex[p] # "alive"
      /\ flock' = [flock EXCEPT ![at[p]] = Nobody] /\ pc' = [pc EXCEPT ![p] = "idle"]
      /\ UNCHANGED <<at, holder, waiters, tasks, fd, codex, ends>>
    BY DEF HostEnds, Alive
<1>2. p \in Procs /\ p \notin Runs /\ p # Nobody
    BY HomeAssumption DEF Procs
<1>3. pc'[p] = "idle" /\ \A q \in Procs : q # p => pc'[q] = pc[q]
    BY <1>1, <1>2 DEF IInv, TypeOK
<1>4. \A g \in Homes : flock'[g] = IF flock[g] = p THEN Nobody ELSE flock[g]
    BY <1>1 DEF IInv, TypeOK, FlockFollowsGuard
<1>5. TypeOK'
    BY <1>1, <1>2 DEF IInv, TypeOK, Places
<1>6. LocksAgree'
    BY <1>1, <1>2, <1>3, HostKeepsLocks DEF Procs
<1>7. FlockFollowsGuard'
    <2>1. ASSUME NEW g \in Homes, NEW r \in Runs
          PROVE  flock'[g] = r <=> /\ fd'[r] /\ at'[r] = g
                                   /\ pc'[r] \in {"inside", "run", "term", "release"}
        <3>1. pc'[r] = pc[r] /\ r # Nobody /\ r # p
            BY <1>2, <1>3, HomeAssumption DEF Procs
        <3>2. flock'[g] = r <=> flock[g] = r
            BY <3>1, <1>4
        <3>3. QED
            BY <1>1, <3>1, <3>2 DEF IInv, FlockFollowsGuard
    <2>2. ASSUME NEW g \in Homes, NEW q \in Hosts
          PROVE  flock'[g] = q <=> at'[q] = g /\ pc'[q] = "run"
        <3>1. CASE q = p
            BY <3>1, <1>2, <1>3, <1>4
        <3>2. CASE q # p
            <4>1. pc'[q] = pc[q] /\ q # Nobody
                BY <3>2, <1>3, HomeAssumption DEF Procs
            <4>2. flock'[g] = q <=> flock[g] = q
                BY <3>2, <4>1, <1>4
            <4>3. QED
                BY <1>1, <4>1, <4>2 DEF IInv, FlockFollowsGuard
        <3>3. QED
            BY <3>1, <3>2
    <2>3. QED
        BY <2>1, <2>2 DEF FlockFollowsGuard
<1>8. CodexHasKeeper' /\ Shape'
    BY <1>1, <1>2, <1>3 DEF IInv, TypeOK, CodexHasKeeper, Alive, Shape, Procs
<1>9. QED
    BY <1>5, <1>6, <1>7, <1>8 DEF IInv

LEMMA ProcessEndsIInv == ASSUME IInv, ProcessEnds PROVE IInv'
<1>1. /\ ends < MaxEnds /\ ends' = ends + 1
      /\ holder' = [h \in Homes |-> Nobody] /\ waiters' = [h \in Homes |-> <<>>]
      /\ tasks' = <<>> /\ fd' = [r \in Runs |-> FALSE] /\ UNCHANGED at
      /\ flock' = [h \in Homes |-> IF flock[h] \in Runs THEN Nobody ELSE flock[h]]
    BY DEF ProcessEnds
<1>2. PICK killed \in SUBSET {r \in Runs : Alive(r)} :
        codex' = [p \in Procs |-> IF p \in killed THEN "exited" ELSE codex[p]]
    BY DEF ProcessEnds
<1>3. /\ pc' \in [Procs -> Places]
      /\ \A p \in Hosts : pc'[p] = pc[p]
      /\ \A r \in Runs : /\ pc'[r] \notin Guarded \cup {"lock"}
                         /\ pc[r] \in {"run", "term", "gone"} => pc'[r] = "gone"
    BY HomeAssumption DEF ProcessEnds, IInv, TypeOK, Places, Guarded, Procs
<1>4. Range(<<>>) = {} /\ IsInjective(<<>>) /\ <<>> \in Seq(Runs)
    BY DEF Range, IsInjective
<1>5. TypeOK'
    <2>1. ends' \in 0..MaxEnds
        <3>1. ends \in 0..MaxEnds /\ MaxEnds \in Nat
            BY HomeAssumption DEF IInv, TypeOK
        <3>2. QED
            BY <1>1, <3>1
    <2>2. codex' \in [Procs -> {"none", "alive", "exited"}]
        BY <1>2 DEF IInv, TypeOK
    <2>3. QED
        BY <1>1, <1>3, <1>4, <2>1, <2>2 DEF IInv, TypeOK
<1>6. LocksAgree'
    BY <1>1, <1>3, <1>4 DEF LocksAgree, Guarded
<1>7. FlockFollowsGuard'
    BY <1>1, <1>3, HomeAssumption DEF IInv, FlockFollowsGuard
<1>8. CodexHasKeeper'
    <2>1. \A p \in Procs : codex'[p] = "alive" => codex[p] = "alive"
        BY <1>2
    <2>2. \A p \in Procs : codex'[p] = "alive" => pc'[p] \in {"run", "term", "gone"}
        BY <2>1, <1>3 DEF IInv, CodexHasKeeper, Alive, Procs
    <2>3. QED
        BY <2>2 DEF CodexHasKeeper, Alive
<1>9. Shape'
    BY <1>1, <1>3 DEF IInv, Shape
<1>10. QED
    BY <1>5, <1>6, <1>7, <1>8, <1>9 DEF IInv

LEMMA NextIInv == IInv /\ [Next]_vars => IInv'
<1> SUFFICES ASSUME IInv, [Next]_vars PROVE IInv'
    OBVIOUS
<1>1. ASSUME NEW r \in Runs, RunStep(r) \/ FlockFails(r) PROVE IInv'
    BY <1>1, RunMovesIInv, LeaveIInv DEF RunStep
<1>2. ASSUME NEW r \in Runs, NEW h \in Homes, Enter(r, h) PROVE IInv'
    BY <1>2, EnterIInv
<1>3. ASSUME NEW p \in Hosts, HostEnds(p) PROVE IInv'
    BY <1>3, HostEndsIInv
<1>4. ASSUME NEW p \in Hosts, NEW h \in Homes, HostStarts(p, h) PROVE IInv'
    BY <1>4, HostStartsIInv
<1>5. ASSUME NEW p \in Procs, CodexExits(p) PROVE IInv'
    BY <1>5, CodexExitsIInv
<1>6. CASE ThreadAcquires \/ ThreadReleases
    BY <1>6, ThreadAcquiresIInv, ThreadReleasesIInv
<1>7. CASE ProcessEnds
    BY <1>7, ProcessEndsIInv
<1>8. CASE UNCHANGED vars
    BY <1>8 DEF vars, IInv, TypeOK, LocksAgree, FlockFollowsGuard, CodexHasKeeper, Alive, Shape
<1>9. QED
    BY <1>1, <1>2, <1>3, <1>4, <1>5, <1>6, <1>7, <1>8 DEF Next, CalmNext

LEMMA Invariance == Spec => []IInv
    BY InitIInv, NextIInv, PTL DEF Spec

-----------------------------------------------------------------------------
\* Every variable keeps its type.
THEOREM TypeCorrect == Spec => []TypeOK
<1>1. IInv => TypeOK
    BY DEF IInv
<1>2. QED
    BY <1>1, Invariance, PTL

\* The asyncio.Lock, its line and the executor's calls stay consistent.
THEOREM LocksStayConsistent == Spec => []LocksAgree
<1>1. IInv => LocksAgree
    BY DEF IInv
<1>2. QED
    BY <1>1, Invariance, PTL

\* No way through the guard leaks the flock, or gives back another's.
THEOREM FlockNeverLeaks == Spec => []FlockFollowsGuard
<1>1. IInv => FlockFollowsGuard
    BY DEF IInv
<1>2. QED
    BY <1>1, Invariance, PTL

\* A live codex has somebody who waits for it, unless the service ended.
THEOREM CodexIsWaitedFor == Spec => []CodexHasKeeper
<1>1. IInv => CodexHasKeeper
    BY DEF IInv
<1>2. QED
    BY <1>1, Invariance, PTL

\* Who is at work on a home holds its asyncio.Lock, or its flock, or both.
LEMMA Apart == IInv => NoOverlap
<1> SUFFICES ASSUME IInv, NEW h \in Homes, NEW p \in Procs, NEW q \in Procs,
                    p # q, OnHome(p, h), OnHome(q, h), ~Orphan(p), ~Orphan(q)
             PROVE  \E r \in {p, q} \cap Runs : ~fd[r] /\ {p, q} \cap Hosts # {}
    BY DEF NoOverlap
<1>1. /\ at[p] = h /\ pc[p] \in {"run", "term"}
      /\ at[q] = h /\ pc[q] \in {"run", "term"}
    BY DEF IInv, CodexHasKeeper, OnHome, Orphan
<1>2. \A x \in Hosts : pc[x] \in {"run", "term"} /\ at[x] = h => flock[h] = x
    BY DEF IInv, Shape, FlockFollowsGuard
<1>3. \A x \in Runs : pc[x] \in {"run", "term"} /\ at[x] = h =>
                          holder[h] = x /\ (fd[x] => flock[h] = x)
    BY DEF IInv, LocksAgree, FlockFollowsGuard, Guarded
<1>4. CASE p \in Runs /\ q \in Runs
    BY <1>1, <1>3, <1>4
<1>5. CASE p \in Hosts /\ q \in Hosts
    BY <1>1, <1>2, <1>5
<1>6. CASE p \in Runs /\ q \in Hosts
    <2>1. ~fd[p]
        BY <1>1, <1>2, <1>3, <1>6
    <2>2. QED
        BY <1>6, <2>1
<1>7. CASE p \in Hosts /\ q \in Runs
    <2>1. ~fd[q]
        BY <1>1, <1>2, <1>3, <1>7
    <2>2. QED
        BY <1>7, <2>1
<1>8. QED
    BY <1>4, <1>5, <1>6, <1>7 DEF Procs

\* What the guard is for: codex processes meet on a home only through an orphan,
\* or where a run without the flock meets a host.
THEOREM NobodyMeets == Spec => []NoOverlap
    BY Apart, Invariance, PTL

-----------------------------------------------------------------------------
(***************************************************************************)
(* The refinement of HomeMutex, for a flock that works and a service that  *)
(* stays up: then a run inside the guard has the flock, and nobody is      *)
(* orphaned.                                                               *)
(***************************************************************************)
Sound == ~LockCanFail /\ MaxEnds = 0

Armed ==
    /\ \A r \in Runs : pc[r] \in {"inside", "run", "term"} => fd[r]
    /\ \A p \in Hosts : pc[p] = "run" => at[p] \in Homes
    /\ \A p \in Procs : ~Orphan(p)

LEMMA ArmedInit == Init => Armed
    BY DEF Init, Armed, Orphan, Procs

LEMMA ArmedNext == Sound /\ IInv /\ Armed /\ [Next]_vars => Armed'
<1> SUFFICES ASSUME Sound, IInv, Armed, [Next]_vars PROVE Armed'
    OBVIOUS
<1>t. /\ pc \in [Procs -> Places] /\ fd \in [Runs -> BOOLEAN]
      /\ at \in [Procs -> Homes \cup {Nowhere}]
      /\ Runs \subseteq Procs /\ Hosts \subseteq Procs /\ Runs \cap Hosts = {}
    BY HomeAssumption DEF IInv, TypeOK, Procs
<1>1. ASSUME NEW r \in Runs, RunStep(r) \/ FlockFails(r) PROVE Armed'
    BY <1>1, <1>t DEF RunStep, FlockGranted, FlockFails, Spawn, SpawnFails, RunEnds, TimesOut,
                      Kill, Leave, Sound, Armed, Orphan
<1>2. ASSUME NEW r \in Runs, NEW h \in Homes, Enter(r, h) PROVE Armed'
    BY <1>2, <1>t DEF Enter, Armed, Orphan
<1>3. ASSUME NEW p \in Hosts, HostEnds(p) \/ \E h \in Homes : HostStarts(p, h) PROVE Armed'
    BY <1>3, <1>t DEF HostEnds, HostStarts, Armed, Orphan
<1>4. ASSUME NEW p \in Procs, CodexExits(p) PROVE Armed'
    BY <1>4 DEF CodexExits, Armed, Orphan
<1>5. CASE ThreadAcquires
    <2>1. Head(tasks) \in Runs
        BY <1>5, NextTask DEF ThreadAcquires
    <2>2. QED
        BY <1>5, <1>t, <2>1 DEF ThreadAcquires, Armed, Orphan
<1>6. CASE ThreadReleases
    <2>1. PICK r \in Runs : r = Head(tasks)
        BY <1>6, NextTask DEF ThreadReleases
    <2>2. /\ pc[r] = "release" /\ fd' = [fd EXCEPT ![r] = FALSE]
          /\ \/ pc' = [pc EXCEPT ![r] = "done"]
             \/ pc' = [pc EXCEPT ![r] = "done", ![Head(waiters[at[r]])] = "acquire"]
          /\ UNCHANGED at
        BY <1>6, <2>1 DEF ThreadReleases
    <2>3. QED
        BY <1>t, <2>1, <2>2 DEF Armed, Orphan
<1>7. CASE ProcessEnds
    BY <1>7 DEF ProcessEnds, Sound, IInv, TypeOK
<1>8. CASE UNCHANGED vars
    BY <1>8 DEF vars, Armed, Orphan
<1>9. QED
    BY <1>1, <1>2, <1>3, <1>4, <1>5, <1>6, <1>7, <1>8 DEF Next, CalmNext

Using == [h \in Homes |-> {p \in Procs : OnHome(p, h)}]

\* A process whose codex is about to start has the home to itself.
LEMMA HomeIsFree ==
    ASSUME IInv, Armed, NEW h \in Homes, NEW p \in Procs, flock[h] \in {Nobody, p},
           ~Alive(p)
    PROVE  Using[h] = {} /\ \A g \in Homes : p \notin Using[g]
<1>1. ASSUME NEW q \in Procs, OnHome(q, h) PROVE FALSE
    <2>1. at[q] = h /\ pc[q] \in {"run", "term"} /\ q # p /\ q # Nobody
        BY <1>1, HomeAssumption DEF IInv, CodexHasKeeper, OnHome, Armed, Orphan, Procs
    <2>2. flock[h] = q
        BY <2>1 DEF IInv, FlockFollowsGuard, Shape, Armed, Procs
    <2>3. QED
        BY <2>1, <2>2
<1>2. QED
    BY <1>1 DEF Using, OnHome

\* The codex of p stops being alive, and nothing else changes.
LEMMA EndsOn ==
    ASSUME IInv, Armed, NEW p \in Procs, Alive(p), codex' = [codex EXCEPT ![p] = "exited"],
           UNCHANGED at
    PROVE  \E q \in Procs, h \in Homes : Mutual!End(q, h)
<1>1. at[p] \in Homes
    <2>1. pc[p] \in {"run", "term"}
        BY DEF IInv, CodexHasKeeper, Armed, Orphan
    <2>2. QED
        BY <2>1 DEF IInv, LocksAgree, Guarded, Shape, Armed, Procs
<1>2. PICK h \in Homes : h = at[p]
    BY <1>1
<1>3. Using' = [Using EXCEPT ![h] = Using[h] \ {p}]
    <2>1. \A q \in Procs, g \in Homes : OnHome(q, g)' <=> OnHome(q, g) /\ q # p
        BY DEF IInv, TypeOK, OnHome, Alive
    <2>2. \A g \in Homes : Using'[g] = IF g = h THEN Using[h] \ {p} ELSE Using[g]
        BY <1>2, <2>1 DEF Using, OnHome
    <2>3. QED
        BY <2>2 DEF Using
<1>4. p \in Using[h]
    BY <1>2 DEF Using, OnHome
<1>5. QED
    BY <1>3, <1>4 DEF Using, Mutual!End

\* The codex of p starts on a home where no other is.
LEMMA BeginsOn ==
    ASSUME IInv, Armed, NEW p \in Procs, NEW h \in Homes, ~Alive(p),
           flock[h] \in {Nobody, p},
           at' = [at EXCEPT ![p] = h], codex' = [codex EXCEPT ![p] = "alive"]
    PROVE  Mutual!Begin(p, h)
<1>1. Using[h] = {} /\ \A g \in Homes : p \notin Using[g]
    BY HomeIsFree
<1>2. Using' = [Using EXCEPT ![h] = {p}]
    <2>1. \A q \in Procs, g \in Homes : OnHome(q, g)' <=> OnHome(q, g) \/ (q = p /\ g = h)
        BY <1>1 DEF IInv, TypeOK, OnHome, Alive
    <2>2. \A g \in Homes : Using'[g] = IF g = h THEN {p} ELSE Using[g]
        BY <1>1, <2>1 DEF Using
    <2>3. QED
        BY <2>2 DEF Using
<1>3. QED
    BY <1>1, <1>2 DEF Using, Mutual!Begin

\* Steps under which nobody's codex starts, ends or moves are invisible.
LEMMA Invisible ==
    ASSUME \A p \in Procs : codex'[p] = codex[p] /\ (Alive(p) => at'[p] = at[p])
    PROVE  UNCHANGED Using
<1>1. \A p \in Procs, h \in Homes : OnHome(p, h)' <=> OnHome(p, h)
    BY DEF OnHome, Alive
<1>2. QED
    BY <1>1 DEF Using

LEMMA MutexStep ==
    Sound /\ IInv /\ Armed /\ [Next]_vars =>
        UNCHANGED Using \/ Mutual!MutexNext
<1> SUFFICES ASSUME Sound, IInv, Armed, [Next]_vars
             PROVE  UNCHANGED Using \/ Mutual!MutexNext
    OBVIOUS
<1>t. Runs \subseteq Procs /\ Hosts \subseteq Procs
    BY DEF Procs
<1>1. ASSUME NEW r \in Runs, Spawn(r) PROVE Mutual!MutexNext
    <2>1. PICK h \in Homes : h = at[r]
        BY <1>1, GuardedRun DEF Spawn, Guarded
    <2>2. flock[h] = r /\ ~Alive(r)
        BY <1>1, <1>t, <2>1 DEF Spawn, Armed, IInv, FlockFollowsGuard, CodexHasKeeper
    <2>3. at' = [at EXCEPT ![r] = h]
        BY <1>1, <2>1 DEF Spawn, IInv, TypeOK
    <2>4. Mutual!Begin(r, h)
        BY <1>1, <1>t, <2>2, <2>3, BeginsOn DEF Spawn
    <2>5. QED
        BY <1>t, <2>4 DEF Mutual!MutexNext
<1>2. ASSUME NEW p \in Hosts, NEW h \in Homes, HostStarts(p, h) PROVE Mutual!MutexNext
    <2>1. ~Alive(p)
        BY <1>2, <1>t DEF HostStarts, IInv, CodexHasKeeper
    <2>2. Mutual!Begin(p, h)
        BY <1>2, <1>t, <2>1, BeginsOn DEF HostStarts
    <2>3. QED
        BY <1>t, <2>2 DEF Mutual!MutexNext
<1>3. ASSUME NEW p \in Procs, CodexExits(p) \/ (p \in Runs /\ Kill(p)) PROVE Mutual!MutexNext
    <2>1. \E q \in Procs, h \in Homes : Mutual!End(q, h)
        BY <1>3, EndsOn DEF CodexExits, Kill
    <2>2. QED
        BY <2>1 DEF Mutual!MutexNext
<1>4. ASSUME NEW r \in Runs, RunStep(r) \/ FlockFails(r), ~Spawn(r), ~Kill(r)
      PROVE  UNCHANGED Using
    BY <1>4, Invisible DEF RunStep, FlockGranted, FlockFails, SpawnFails, RunEnds, TimesOut
<1>5. ASSUME NEW r \in Runs, NEW h \in Homes, Enter(r, h) PROVE UNCHANGED Using
    <2>1. ~Alive(r)
        BY <1>5, <1>t DEF Enter, IInv, CodexHasKeeper
    <2>2. codex' = codex /\ at' = [at EXCEPT ![r] = h]
        BY <1>5 DEF Enter
    <2>3. \A p \in Procs : codex'[p] = codex[p] /\ (Alive(p) => at'[p] = at[p])
        BY <2>1, <2>2 DEF IInv, TypeOK
    <2>4. QED
        BY <2>3, Invisible
<1>6. ASSUME NEW p \in Hosts, HostEnds(p) PROVE UNCHANGED Using
    BY <1>6, Invisible DEF HostEnds
<1>7. CASE ThreadAcquires \/ ThreadReleases
    BY <1>7, Invisible DEF ThreadAcquires, ThreadReleases
<1>8. CASE ProcessEnds
    BY <1>8 DEF ProcessEnds, Sound, IInv, TypeOK
<1>9. CASE UNCHANGED vars
    BY <1>9, Invisible DEF vars
<1>10. QED
    BY <1>t, <1>1, <1>2, <1>3, <1>4, <1>5, <1>6, <1>7, <1>8, <1>9 DEF Next, CalmNext

\* With a flock that works and a service that stays up, the guard lets codex
\* processes, the service's and the hosts', take turns on every home.
THEOREM GuardIsMutex == Sound /\ Spec => KeepsMutex
<1> SUFFICES ASSUME Sound PROVE Spec => KeepsMutex
    OBVIOUS
<1>1. Init => Mutual!MutexInit
    BY DEF Init, Mutual!MutexInit, OnHome, Alive
<1>2. IInv /\ Armed /\ [Next]_vars => [Mutual!MutexNext]_Using
    BY MutexStep
<1>3. IInv /\ Armed /\ [Next]_vars => Armed'
    BY ArmedNext
<1>4. QED
    BY <1>1, <1>2, <1>3, Invariance, ArmedInit, PTL
       DEF Spec, KeepsMutex, Mutual!Mutex, Using
=============================================================================
