-------------------------- MODULE CodexTokensProofs --------------------------
(***************************************************************************)
(* Proofs about CodexTokens, for any homes, users, runs, hosts, rotations  *)
(* and ends of the service, and flocks that may fail.                      *)
(***************************************************************************)
EXTENDS CodexTokens, HomeExecProofs

AtWork(p) == pc[p] \in {"run", "term"}

\* On a home that is not exposed, a run at work has the flock, and its codex
\* does not outlive it.
Keepers ==
    \A r \in Runs : at[r] \notin exposed =>
        /\ AtWork(r) => fd[r]
        /\ Alive(r) => AtWork(r)

OnePerHome ==
    \A h \in Homes : h \notin exposed =>
        \A p, q \in Procs : at[p] = h /\ at[q] = h /\ AtWork(p) /\ AtWork(q) => p = q

Owned ==
    /\ \A p \in Procs : pc[p] # "idle" => at[p] \in Homes
    /\ \A p \in pending : Alive(p)
    /\ \A r \in torn :
          /\ pc[r] \in {"release", "done", "gone"}
          /\ \/ pc[r] = "gone" \/ r \in Inspections
             \/ audit[r].event = "timeout_kill"

Trusted(h) == h \notin exposed /\ \A r \in torn : at[r] # h

\* While nothing untoward happened on a home, its codex has the token that the
\* server accepts, and the file has it too or is about to.
Versions ==
    /\ \A p \in Procs : Alive(p) /\ Trusted(at[p]) => carried[p] = issued[at[p]]
    /\ \A h \in Homes : Trusted(h) /\ stored[h] # issued[h] =>
           \E p \in pending : at[p] = h
    /\ \A h \in Homes : User[h] \in revoked =>
           \E g \in Homes : User[g] = User[h] /\ ~Trusted(g)

\* What a run's line will have to say, while it is at work, and what it says.
Trail ==
    \A r \in Runs :
        /\ pc[r] \in {"idle", "lock", "acquire", "flock", "inside"} =>
               r \notin wrote /\ audit[r] = NoLine
        /\ at[r] \notin exposed =>
              /\ Alive(r) => before[r] <= carried[r]
              /\ r \in pending => before[r] < carried[r]
              /\ AtWork(r) => IF r \in wrote THEN before[r] < stored[at[r]]
                                             ELSE before[r] = stored[at[r]]
              /\ pc[r] \in {"release", "done"} /\ r \notin Inspections =>
                     (audit[r].rotated <=> r \in wrote)

CInv == IInv /\ TokenTypeOK /\ Keepers /\ Owned /\ Versions /\ Trail

-----------------------------------------------------------------------------
\* Every step is one of the guard's, or none.
LEMMA StepOfGuard == [TNext]_allVars => [Next]_vars
BY DEF TNext, allVars, tokens, vars, Next, CalmNext, RunStep, GuardStep, RunSpawns, Snapshot,
       RunIsOver, RunIsKilled, HostSpawns, Presents, WritesBack, EndsInOrder, ServiceEnds

\* A home's lock, or its flock, has one owner.
LEMMA Exclusive == IInv /\ Keepers => OnePerHome
<1> SUFFICES ASSUME IInv, Keepers, NEW h \in Homes, h \notin exposed,
                    NEW p \in Procs, NEW q \in Procs,
                    at[p] = h, at[q] = h, AtWork(p), AtWork(q)
             PROVE  p = q
    BY DEF OnePerHome
<1>1. \A x \in Runs : at[x] = h /\ AtWork(x) => holder[h] = x /\ flock[h] = x
    BY DEF IInv, LocksAgree, Guarded, FlockFollowsGuard, Keepers, AtWork
<1>2. \A x \in Hosts : at[x] = h /\ AtWork(x) => flock[h] = x
    BY DEF IInv, Shape, FlockFollowsGuard, AtWork
<1>3. QED
    BY <1>1, <1>2 DEF Procs

\* A live codex on a home that is not exposed is at work.
LEMMA AliveAtWork ==
    ASSUME IInv, Keepers, NEW p \in Procs, Alive(p), at[p] \notin exposed
    PROVE  AtWork(p)
<1>1. CASE p \in Runs
    BY <1>1 DEF Keepers
<1>2. CASE p \in Hosts
    BY <1>2 DEF IInv, CodexHasKeeper, Shape, AtWork
<1>3. QED
    BY <1>1, <1>2 DEF Procs

\* What a step of the guard may do to a process.
Waiting == {"lock", "acquire", "flock", "inside"}
Over == {"release", "done"}

MovesOn(p) ==
    /\ pc[p] # "idle" => at'[p] = at[p]
    /\ pc'[p] # "idle" => at'[p] \in Homes \/ (at'[p] = at[p] /\ pc[p] # "idle")
    /\ pc'[p] \in Waiting => pc[p] \in Waiting \cup {"idle"}
    /\ pc'[p] = "idle" => pc[p] = "idle" \/ p \in Hosts
    /\ AtWork(p)' => AtWork(p) /\ (p \in Runs => fd'[p] = fd[p])
    /\ AtWork(p) => AtWork(p)' \/ (p \in Hosts /\ ~Alive(p))
    /\ pc'[p] \in Over => pc[p] \in Over \cup {"inside"}
    /\ pc[p] \in Over => pc'[p] \in Over
    /\ pc[p] = "gone" <=> pc'[p] = "gone"

LEMMA GuardMoves ==
    ASSUME IInv, GuardStep
    PROVE  codex' = codex /\ \A p \in Procs : MovesOn(p)
<1> USE DEF MovesOn, AtWork, Waiting, Over
<1>t. pc \in [Procs -> Places] /\ at \in [Procs -> Homes \cup {Nowhere}] /\ fd \in [Runs -> BOOLEAN]
    BY DEF IInv, TypeOK
<1>1. ASSUME NEW r \in Runs, NEW h \in Homes, Enter(r, h)
      PROVE  codex' = codex /\ \A p \in Procs : MovesOn(p)
    BY <1>t, <1>1 DEF Enter, Procs
<1>2. ASSUME NEW r \in Runs, FlockGranted(r) \/ FlockFails(r) \/ SpawnFails(r) \/ TimesOut(r)
      PROVE  codex' = codex /\ \A p \in Procs : MovesOn(p)
    BY <1>t, <1>2 DEF FlockGranted, FlockFails, SpawnFails, TimesOut, Leave, Procs
<1>3. ASSUME NEW p \in Hosts, HostEnds(p)
      PROVE  codex' = codex /\ \A q \in Procs : MovesOn(q)
    BY <1>t, <1>3 DEF HostEnds, Procs
<1>4. CASE ThreadAcquires
    <2>1. Head(tasks) \in Runs
        BY <1>4, NextTask DEF ThreadAcquires
    <2>2. QED
        BY <1>t, <1>4, <2>1 DEF ThreadAcquires, Procs
<1>5. CASE ThreadReleases
    <2>1. PICK r \in Runs : r = Head(tasks) /\ pc[r] = "release"
        BY <1>5, NextTask DEF ThreadReleases
    <2>2. at[r] \in Homes
        BY <2>1, GuardedRun DEF Guarded
    <2>3. fd' = [fd EXCEPT ![r] = FALSE] /\ codex' = codex /\ at' = at
        BY <1>5, <2>1 DEF ThreadReleases
    <2>4. CASE waiters[at[r]] = <<>>
        <3>1. pc' = [pc EXCEPT ![r] = "done"]
            BY <1>5, <2>1, <2>4 DEF ThreadReleases
        <3>2. QED
            BY <1>t, <2>1, <2>3, <3>1 DEF Procs
    <2>5. CASE waiters[at[r]] # <<>>
        <3>1. PICK q : q = Head(waiters[at[r]])
            OBVIOUS
        <3>2. q \in Runs /\ pc[q] = "lock" /\ at[q] = at[r]
            BY <2>2, <2>5, <3>1, TailOfLine DEF IInv, TypeOK, LocksAgree
        <3>3. pc' = [pc EXCEPT ![r] = "done", ![q] = "acquire"]
            BY <1>5, <2>1, <2>5, <3>1 DEF ThreadReleases
        <3>4. QED
            BY <1>t, <2>1, <2>2, <2>3, <3>2, <3>3 DEF Procs
    <2>6. QED
        BY <2>4, <2>5
<1>6. QED
    BY <1>1, <1>2, <1>3, <1>4, <1>5 DEF GuardStep

-----------------------------------------------------------------------------
LEMMA TypeNext == ASSUME IInv, TokenTypeOK, Owned, [TNext]_allVars PROVE TokenTypeOK'
<1> USE TokenAssumption DEF TokenTypeOK
<1>t. at \in [Procs -> Homes \cup {Nowhere}] /\ pc \in [Procs -> Places] /\ Runs \subseteq Procs
    BY DEF IInv, TypeOK, Procs
<1>1. ASSUME NEW r \in Runs, RunSpawns(r) PROVE TokenTypeOK'
    <2>1. at[r] \in Homes
        BY <1>t, <1>1 DEF RunSpawns, Snapshot, Spawn, Owned
    <2>2. QED
        BY <1>t, <1>1, <2>1 DEF RunSpawns, Snapshot
<1>2. ASSUME NEW p \in Hosts, NEW h \in Homes, HostSpawns(p, h) PROVE TokenTypeOK'
    BY <1>2 DEF HostSpawns, Procs
<1>3. ASSUME NEW p \in Procs, Presents(p) PROVE TokenTypeOK'
    <2>1. Alive(p) /\ at[p] \in Homes
        BY <1>3 DEF Presents, IInv, CodexHasKeeper, Owned
    <2>2. CASE carried[p] = issued[at[p]]
        <3>1. issued[at[p]] + 1 \in 0..MaxRotations
            BY <1>3, <2>1, <2>2 DEF Presents
        <3>2. QED
            BY <1>3, <2>1, <2>2, <3>1 DEF Presents
    <2>3. CASE carried[p] # issued[at[p]]
        <3>1. User[at[p]] \in Range(User)
            BY <2>1 DEF Range
        <3>2. QED
            BY <1>3, <2>3, <3>1 DEF Presents
    <2>4. QED
        BY <2>2, <2>3
<1>4. ASSUME NEW p \in Procs, WritesBack(p) PROVE TokenTypeOK'
    BY <1>4 DEF WritesBack
<1>5. ASSUME NEW p \in Procs, EndsInOrder(p) PROVE TokenTypeOK'
    BY <1>5 DEF EndsInOrder, tokens
<1>6. ASSUME NEW r \in Runs, RunIsOver(r) \/ RunIsKilled(r) PROVE TokenTypeOK'
    <2>1. Line(r) \in [event : {"none", "rotated", "timeout_kill"}, rotated : BOOLEAN]
        BY DEF Line, NoLine, Rotated, Snapshot
    <2>2. QED
        BY <1>6, <2>1 DEF RunIsOver, RunIsKilled
<1>7. CASE ServiceEnds
    <2>1. \A r \in Runs : codex'[r] = "alive" => Alive(r) /\ at[r] \in Homes
        BY <1>t, <1>7 DEF ServiceEnds, ProcessEnds, Alive, IInv, TypeOK, CodexHasKeeper, Owned
    <2>2. ASSUME NEW p \in Procs, Alive(p), codex'[p] = "exited" PROVE p \in Runs
        <3>1. PICK killed \in SUBSET {r \in Runs : Alive(r)} :
                  codex' = [q \in Procs |-> IF q \in killed THEN "exited" ELSE codex[q]]
            BY <1>7 DEF ServiceEnds, ProcessEnds
        <3>2. QED
            BY <2>2, <3>1 DEF Alive
    <2>3. {at[r] : r \in {s \in Runs : codex'[s] = "alive"}} \subseteq Homes
        BY <2>1
    <2>4. exposed' \subseteq Homes /\ torn' \subseteq Runs /\ pending' \subseteq Procs
        BY <1>7, <2>2, <2>3 DEF ServiceEnds
    <2>5. QED
        BY <1>7, <2>4 DEF ServiceEnds
<1>8. CASE UNCHANGED tokens
    BY <1>8 DEF tokens
<1>9. QED
    BY <1>1, <1>2, <1>3, <1>4, <1>5, <1>6, <1>7, <1>8 DEF TNext, allVars

LEMMA KeepersNext == ASSUME IInv, Keepers, [TNext]_allVars PROVE Keepers'
<1> USE DEF Keepers, AtWork, Alive
<1>t. /\ at \in [Procs -> Homes \cup {Nowhere}] /\ pc \in [Procs -> Places]
      /\ fd \in [Runs -> BOOLEAN] /\ codex \in [Procs -> {"none", "alive", "exited"}]
      /\ Runs \subseteq Procs
    BY DEF IInv, TypeOK, Procs
<1>1. ASSUME NEW r \in Runs, RunSpawns(r) PROVE Keepers'
    BY <1>t, <1>1 DEF RunSpawns, Snapshot, Spawn
<1>2. ASSUME NEW p \in Hosts, NEW h \in Homes, HostSpawns(p, h) PROVE Keepers'
    BY <1>t, <1>2, HomeAssumption DEF HostSpawns, HostStarts
<1>3. ASSUME NEW p \in Procs, Presents(p) \/ WritesBack(p) PROVE Keepers'
    BY <1>3 DEF Presents, WritesBack, vars
<1>4. ASSUME NEW p \in Procs, EndsInOrder(p) PROVE Keepers'
    BY <1>t, <1>4 DEF EndsInOrder, CodexExits, tokens
<1>5. ASSUME NEW r \in Runs, RunIsOver(r) \/ RunIsKilled(r) PROVE Keepers'
    BY <1>t, <1>5 DEF RunIsOver, RunIsKilled, RunEnds, Kill, Leave
<1>6. CASE ServiceEnds
    <2> SUFFICES ASSUME NEW r \in Runs, at'[r] \notin exposed'
                 PROVE  ~AtWork(r)' /\ ~Alive(r)'
        OBVIOUS
    <2>1. codex'[r] # "alive"
        BY <1>6 DEF ServiceEnds, ProcessEnds
    <2>2. pc'[r] \notin {"run", "term"}
        BY <1>t, <1>6 DEF ServiceEnds, ProcessEnds, Guarded
    <2>3. QED
        BY <2>1, <2>2
<1>7. CASE GuardStep /\ UNCHANGED tokens
    <2> SUFFICES ASSUME NEW r \in Runs, at'[r] \notin exposed'
                 PROVE  (AtWork(r)' => fd'[r]) /\ (Alive(r)' => AtWork(r)')
        OBVIOUS
    <2>1. codex' = codex /\ MovesOn(r) /\ exposed' = exposed /\ r \notin Hosts
        BY <1>t, <1>7, GuardMoves, HomeAssumption DEF tokens
    <2>2. AtWork(r)' => fd'[r]
        BY <2>1 DEF MovesOn
    <2>3. Alive(r) => pc[r] # "idle"
        BY <1>t DEF IInv, CodexHasKeeper
    <2>4. Alive(r)' => AtWork(r)'
        BY <2>1, <2>3 DEF MovesOn
    <2>5. QED
        BY <2>2, <2>4
<1>8. CASE UNCHANGED allVars
    BY <1>8 DEF allVars, vars, tokens
<1>9. QED
    BY <1>1, <1>2, <1>3, <1>4, <1>5, <1>6, <1>7, <1>8 DEF TNext

LEMMA OwnedNext == ASSUME IInv, TokenTypeOK, Owned, [TNext]_allVars PROVE Owned'
<1> USE DEF Owned, Alive
<1>t. /\ at \in [Procs -> Homes \cup {Nowhere}] /\ pc \in [Procs -> Places]
      /\ codex \in [Procs -> {"none", "alive", "exited"}]
      /\ Runs \subseteq Procs /\ torn \subseteq Runs /\ pending \subseteq Procs
      /\ audit \in [Runs -> [event : {"none", "rotated", "timeout_kill"}, rotated : BOOLEAN]]
    BY DEF IInv, TypeOK, Procs, TokenTypeOK
<1>1. ASSUME NEW r \in Runs, RunSpawns(r) PROVE Owned'
    BY <1>t, <1>1 DEF RunSpawns, Snapshot, Spawn
<1>2. ASSUME NEW p \in Hosts, NEW h \in Homes, HostSpawns(p, h) PROVE Owned'
    BY <1>t, <1>2, HomeAssumption DEF HostSpawns, HostStarts
<1>3. ASSUME NEW p \in Procs, Presents(p) \/ WritesBack(p) PROVE Owned'
    BY <1>3 DEF Presents, WritesBack, vars
<1>4. ASSUME NEW p \in Procs, EndsInOrder(p) PROVE Owned'
    BY <1>t, <1>4 DEF EndsInOrder, CodexExits, tokens
<1>5. ASSUME NEW r \in Runs, RunIsOver(r) PROVE Owned'
    BY <1>t, <1>5 DEF RunIsOver, RunEnds, Leave
<1>6. ASSUME NEW r \in Runs, RunIsKilled(r) PROVE Owned'
    <2>1. r \in Inspections \/ Line(r).event = "timeout_kill"
        BY <1>6 DEF RunIsKilled, Kill, Line
    <2>2. /\ pc[r] = "term" /\ pc' = [pc EXCEPT ![r] = "release"] /\ at' = at
          /\ codex' = [codex EXCEPT ![r] = "exited"] /\ pending' = pending \ {r}
          /\ torn' \subseteq torn \cup {r} /\ audit' = [audit EXCEPT ![r] = Line(r)]
        BY <1>6 DEF RunIsKilled, Kill, Leave
    <2>3. QED
        BY <1>t, <2>1, <2>2
<1>7. CASE ServiceEnds
    <2>1. /\ at' = at /\ audit' = audit
          /\ \A p \in Procs : /\ pc'[p] = pc[p] \/ (pc'[p] = "gone" /\ pc[p] # "idle")
                              /\ p \in Runs /\ Alive(p) => pc'[p] = "gone"
                              /\ codex'[p] = codex[p] \/ (codex'[p] = "exited" /\ p \in Runs)
        <3>1. PICK killed \in SUBSET {r \in Runs : Alive(r)} :
                  codex' = [q \in Procs |-> IF q \in killed THEN "exited" ELSE codex[q]]
            BY <1>7 DEF ServiceEnds, ProcessEnds
        <3>2. \A r \in Runs : Alive(r) => pc[r] \in {"run", "term", "gone"}
            BY <1>t DEF IInv, CodexHasKeeper
        <3>3. QED
            BY <1>7, <3>1, <3>2, <1>t DEF ServiceEnds, ProcessEnds, Guarded
    <2>2. ASSUME NEW p \in pending' PROVE Alive(p)'
        BY <1>t, <1>7, <2>1, <2>2 DEF ServiceEnds
    <2>3. ASSUME NEW r \in torn' PROVE pc'[r] = "gone" \/ (r \in torn /\ pc'[r] = pc[r])
        BY <1>t, <1>7, <2>1, <2>3 DEF ServiceEnds
    <2>4. QED
        BY <1>t, <2>1, <2>2, <2>3
<1>8. CASE GuardStep /\ UNCHANGED tokens
    <2>1. /\ codex' = codex /\ torn' = torn /\ pending' = pending /\ audit' = audit
          /\ \A p \in Procs : MovesOn(p)
        BY <1>8, GuardMoves DEF tokens
    <2>2. \A p \in Procs : pc'[p] # "idle" => at'[p] \in Homes
        BY <2>1 DEF MovesOn
    <2>3. \A r \in torn : \/ pc'[r] \in Over /\ pc[r] # "gone"
                          \/ pc[r] = "gone" /\ pc'[r] = "gone"
        BY <1>t, <2>1 DEF MovesOn, Over
    <2>4. \A p \in pending' : Alive(p)'
        BY <2>1
    <2>5. QED
        BY <2>1, <2>2, <2>3, <2>4 DEF Over
<1>9. CASE UNCHANGED allVars
    BY <1>9 DEF allVars, vars, tokens
<1>10. QED
    BY <1>1, <1>2, <1>3, <1>4, <1>5, <1>6, <1>7, <1>8, <1>9 DEF TNext

\* While a codex lives on a trusted home, nobody else has the home's token.
LEMMA SoleBearer ==
    ASSUME IInv, Keepers, NEW p \in Procs, NEW q \in Procs, Alive(p), Alive(q),
           at[p] = at[q], at[p] \in Homes, at[p] \notin exposed
    PROVE  p = q
    BY Exclusive, AliveAtWork DEF OnePerHome

\* A codex that starts on a trusted home finds the token the server accepts.
LEMMA FreshStart ==
    ASSUME IInv, Keepers, Owned, Versions, TokenTypeOK,
           (IInv /\ Keepers)',
           NEW p \in Procs, NEW h \in Homes,
           at'[p] = h, AtWork(p)', ~Alive(p), h \notin exposed',
           h \notin exposed, Trusted(h),
           \A q \in Procs : q # p => at'[q] = at[q] /\ pc'[q] = pc[q]
    PROVE  stored[h] = issued[h]
<1> SUFFICES ASSUME stored[h] # issued[h] PROVE FALSE
    OBVIOUS
<1>1. PICK q \in pending : at[q] = h
    BY DEF Versions
<1>2. q \in Procs /\ Alive(q) /\ q # p /\ AtWork(q)
    BY <1>1, AliveAtWork DEF Owned, TokenTypeOK
<1>3. OnePerHome'
    BY Exclusive, PTL
<1>4. AtWork(q)' /\ at'[q] = h
    BY <1>1, <1>2 DEF AtWork
<1>5. QED
    BY <1>2, <1>3, <1>4 DEF OnePerHome

LEMMA VersionsNext ==
    ASSUME IInv, Keepers, Owned, TokenTypeOK, Versions, (IInv /\ Keepers)', [TNext]_allVars
    PROVE  Versions'
<1> USE DEF Alive
<1>t. /\ at \in [Procs -> Homes \cup {Nowhere}] /\ pc \in [Procs -> Places]
      /\ codex \in [Procs -> {"none", "alive", "exited"}]
      /\ Runs \subseteq Procs /\ torn \subseteq Runs /\ pending \subseteq Procs
      /\ issued \in [Homes -> 0..MaxRotations] /\ stored \in [Homes -> 0..MaxRotations]
      /\ carried \in [Procs -> 0..MaxRotations]
    BY DEF IInv, TypeOK, Procs, TokenTypeOK
<1>o. \A p \in Procs : Alive(p) => at[p] \in Homes /\ pc[p] # "idle"
    BY DEF IInv, CodexHasKeeper, Owned
<1>p. \A p \in pending : p \in Procs /\ Alive(p)
    BY <1>t DEF Owned
\* codex starts.
<1>1. ASSUME NEW p \in Procs, NEW h \in Homes, ~Alive(p),
             at'[p] = h, \A q \in Procs : q # p => at'[q] = at[q] /\ pc'[q] = pc[q],
             AtWork(p)', codex' = [codex EXCEPT ![p] = "alive"],
             carried' = [carried EXCEPT ![p] = stored[h]],
             p \in Runs => at[p] = h, p \notin torn,
             exposed \subseteq exposed', exposed' \subseteq exposed \cup {h},
             UNCHANGED <<issued, stored, pending, revoked, torn>>
      PROVE  Versions'
    <2>1. \A g \in Homes : Trusted(g)' => Trusted(g)
        BY <1>1, <1>t DEF Trusted
    <2>2. Trusted(h)' => stored[h] = issued[h]
        BY <1>1, <2>1, FreshStart DEF Trusted
    <2>3. p \notin pending
        BY <1>1, <1>p
    <2>4. \A q \in Procs : q # p => (Trusted(at[q])' => Trusted(at[q]))
        BY <1>1, <1>t DEF Trusted
    <2>5. ASSUME NEW q \in Procs, Alive(q)', Trusted(at[q])' PROVE carried'[q] = issued'[at'[q]]
        <3>1. CASE q = p
            BY <1>1, <1>t, <2>2, <2>5, <3>1
        <3>2. CASE q # p
            BY <1>1, <1>t, <2>4, <2>5, <3>2 DEF Versions
        <3>3. QED
            BY <3>1, <3>2
    <2>6. ASSUME NEW g \in Homes, Trusted(g)', stored'[g] # issued'[g]
          PROVE  \E q \in pending' : at'[q] = g
        BY <1>1, <1>t, <2>1, <2>3, <2>6 DEF Versions
    <2>7. ASSUME NEW g \in Homes, User[g] \in revoked'
          PROVE  \E k \in Homes : User[k] = User[g] /\ ~Trusted(k)'
        BY <1>1, <2>1, <2>7 DEF Versions
    <2>8. QED
        BY <2>5, <2>6, <2>7 DEF Versions
<1>2. ASSUME NEW r \in Runs, RunSpawns(r) PROVE Versions'
    <2>1. /\ pc[r] = "inside" /\ pc' = [pc EXCEPT ![r] = "run"] /\ at' = at
          /\ codex' = [codex EXCEPT ![r] = "alive"] /\ at[r] \in Homes
        BY <1>2 DEF RunSpawns, Snapshot, Spawn, Owned, Procs
    <2>2. ~Alive(r) /\ r \notin torn
        BY <1>t, <2>1 DEF IInv, CodexHasKeeper, Owned
    <2>3. QED
        BY <1>1, <1>2, <1>t, <2>1, <2>2 DEF RunSpawns, Snapshot, AtWork
<1>3. ASSUME NEW p \in Hosts, NEW h \in Homes, HostSpawns(p, h) PROVE Versions'
    <2>1. /\ pc[p] = "idle" /\ pc' = [pc EXCEPT ![p] = "run"] /\ at' = [at EXCEPT ![p] = h]
          /\ codex' = [codex EXCEPT ![p] = "alive"] /\ p \in Procs
        BY <1>3 DEF HostSpawns, HostStarts, Procs
    <2>2. ~Alive(p) /\ p \notin Runs
        BY <1>t, <2>1, HomeAssumption DEF IInv, CodexHasKeeper
    <2>3. QED
        BY <1>1, <1>3, <1>t, <2>1, <2>2 DEF HostSpawns, AtWork
<1>4. ASSUME NEW p \in Procs, Presents(p) PROVE Versions'
    <2>1. /\ Alive(p) /\ at[p] \in Homes /\ p \notin pending
          /\ UNCHANGED <<at, codex, exposed, torn, stored>>
        BY <1>4, <1>o DEF Presents, vars
    <2>2. \A h : Trusted(h)' <=> Trusted(h)
        BY <2>1 DEF Trusted
    <2>3. CASE carried[p] = issued[at[p]]
        <3>1. /\ issued' = [issued EXCEPT ![at[p]] = @ + 1]
              /\ carried' = [carried EXCEPT ![p] = @ + 1]
              /\ pending' = pending \cup {p} /\ revoked' = revoked
            BY <1>4, <2>3 DEF Presents
        <3>2. ASSUME NEW q \in Procs, Alive(q)', Trusted(at[q])' PROVE carried'[q] = issued'[at'[q]]
            <4>1. Trusted(at[q]) /\ Alive(q) /\ at[q] \in Homes
                BY <1>o, <2>1, <2>2, <3>2
            <4>2. q = p \/ at[q] # at[p]
                BY <2>1, <4>1, SoleBearer DEF Trusted
            <4>3. QED
                BY <1>t, <2>1, <2>3, <3>1, <4>1, <4>2 DEF Versions
        <3>3. ASSUME NEW h \in Homes, Trusted(h)', stored'[h] # issued'[h]
              PROVE  \E q \in pending' : at'[q] = h
            BY <1>t, <2>1, <2>2, <3>1, <3>3 DEF Versions
        <3>4. QED
            BY <2>2, <3>1, <3>2, <3>3 DEF Versions
    <2>4. CASE carried[p] # issued[at[p]]
        <3>1. revoked' = revoked \cup {User[at[p]]} /\ UNCHANGED <<issued, carried, pending>>
            BY <1>4, <2>4 DEF Presents
        <3>2. ~Trusted(at[p])
            BY <2>1, <2>4 DEF Versions
        <3>3. QED
            BY <2>1, <2>2, <3>1, <3>2 DEF Versions
    <2>5. QED
        BY <2>3, <2>4
<1>5. ASSUME NEW p \in Procs, WritesBack(p) PROVE Versions'
    <2>1. /\ Alive(p) /\ at[p] \in Homes
          /\ UNCHANGED <<at, codex, exposed, torn, issued, carried, revoked>>
          /\ stored' = [stored EXCEPT ![at[p]] = carried[p]] /\ pending' = pending \ {p}
        BY <1>5, <1>o DEF WritesBack, vars
    <2>2. \A h : Trusted(h)' <=> Trusted(h)
        BY <2>1 DEF Trusted
    <2>3. ASSUME NEW h \in Homes, Trusted(h)', stored'[h] # issued'[h]
          PROVE  \E q \in pending' : at'[q] = h
        <3>1. h # at[p]
            BY <1>t, <2>1, <2>2, <2>3 DEF Versions
        <3>2. QED
            BY <1>t, <2>1, <2>2, <2>3, <3>1 DEF Versions
    <2>4. QED
        BY <2>1, <2>2, <2>3 DEF Versions
\* codex ends in order, or the guard moves on.
<1>6. ASSUME UNCHANGED <<issued, stored, carried, revoked, torn, exposed, pending>>,
             \A p \in Procs : Alive(p)' => Alive(p),
             \A p \in Procs : Alive(p) => at'[p] = at[p],
             \A r \in torn : at'[r] = at[r]
      PROVE  Versions'
    <2>1. \A h : Trusted(h)' <=> Trusted(h)
        BY <1>6 DEF Trusted
    <2>2. \A p \in pending : at'[p] = at[p]
        BY <1>6, <1>p
    <2>3. QED
        BY <1>6, <2>1, <2>2 DEF Versions
<1>7. ASSUME NEW p \in Procs, EndsInOrder(p) PROVE Versions'
    BY <1>6, <1>7, <1>t DEF EndsInOrder, CodexExits, tokens
<1>8. ASSUME NEW r \in Runs, RunIsOver(r) PROVE Versions'
    BY <1>6, <1>8 DEF RunIsOver, RunEnds
<1>9. CASE GuardStep /\ UNCHANGED tokens
    <2>1. codex' = codex /\ \A p \in Procs : pc[p] # "idle" => at'[p] = at[p]
        BY <1>9, GuardMoves DEF MovesOn
    <2>2. \A r \in torn : at'[r] = at[r]
        BY <1>t, <2>1 DEF Owned
    <2>3. QED
        BY <1>6, <1>9, <1>o, <2>1, <2>2 DEF tokens
<1>10. CASE UNCHANGED allVars
    BY <1>6, <1>10 DEF allVars, vars, tokens
\* A codex is killed: the home of one that was about to write is not trusted.
<1>11. ASSUME UNCHANGED <<at, issued, stored, carried, revoked>>,
              \A p \in Procs : Alive(p)' => Alive(p),
              torn \subseteq torn', exposed \subseteq exposed', pending' \subseteq pending,
              pending \ pending' \subseteq torn'
       PROVE  Versions'
    <2>1. \A h : Trusted(h)' => Trusted(h)
        BY <1>11 DEF Trusted
    <2>2. ASSUME NEW h \in Homes, Trusted(h)', stored'[h] # issued'[h]
          PROVE  \E q \in pending' : at'[q] = h
        BY <1>11, <2>1, <2>2 DEF Versions, Trusted
    <2>3. QED
        BY <1>11, <2>1, <2>2 DEF Versions
<1>12. ASSUME NEW r \in Runs, RunIsKilled(r) PROVE Versions'
    BY <1>11, <1>12, <1>t DEF RunIsKilled, Kill
<1>13. CASE ServiceEnds
    <2>1. \A p \in Procs : Alive(p)' => Alive(p)
        BY <1>t, <1>13 DEF ServiceEnds, ProcessEnds
    <2>2. QED
        BY <1>11, <1>13, <2>1 DEF ServiceEnds, ProcessEnds
<1>14. QED
    BY <1>2, <1>3, <1>4, <1>5, <1>7, <1>8, <1>9, <1>10, <1>12, <1>13 DEF TNext

LEMMA TrailNext ==
    ASSUME IInv, Keepers, Owned, TokenTypeOK, Trail, [TNext]_allVars
    PROVE  Trail'
<1> USE DEF Alive, AtWork
<1>t. /\ at \in [Procs -> Homes \cup {Nowhere}] /\ pc \in [Procs -> Places]
      /\ codex \in [Procs -> {"none", "alive", "exited"}]
      /\ Runs \subseteq Procs /\ wrote \subseteq Runs /\ pending \subseteq Procs
      /\ stored \in [Homes -> 0..MaxRotations] /\ before \in [Runs -> 0..MaxRotations]
      /\ carried \in [Procs -> 0..MaxRotations] /\ MaxRotations \in Nat
      /\ audit \in [Runs -> [event : {"none", "rotated", "timeout_kill"}, rotated : BOOLEAN]]
    BY TokenAssumption DEF IInv, TypeOK, Procs, TokenTypeOK
<1>o. \A p \in Procs : Alive(p) => at[p] \in Homes /\ pc[p] \in {"run", "term", "gone"}
    BY DEF IInv, CodexHasKeeper, Owned
<1>1. ASSUME NEW r \in Runs, RunSpawns(r) PROVE Trail'
    <2>1. /\ pc[r] = "inside" /\ pc' = [pc EXCEPT ![r] = "run"] /\ at[r] \in Homes
          /\ codex' = [codex EXCEPT ![r] = "alive"] /\ UNCHANGED <<at, stored, pending, audit, wrote>>
          /\ before' = [before EXCEPT ![r] = stored[at[r]]]
          /\ carried' = [carried EXCEPT ![r] = stored[at[r]]]
          /\ exposed \subseteq exposed'
        BY <1>1 DEF RunSpawns, Snapshot, Spawn, Owned, Procs
    <2>2. r \notin pending /\ r \notin wrote
        BY <1>o, <1>t, <2>1 DEF Owned, Trail
    <2>3. QED
        BY <1>t, <2>1, <2>2 DEF Trail
<1>2. ASSUME NEW p \in Hosts, NEW h \in Homes, HostSpawns(p, h) PROVE Trail'
    <2>1. \A r \in Runs : pc'[r] = pc[r] /\ at'[r] = at[r] /\ codex'[r] = codex[r]
                          /\ carried'[r] = carried[r]
        BY <1>2, HomeAssumption DEF HostSpawns, HostStarts
    <2>2. QED
        BY <1>2, <2>1 DEF HostSpawns, Trail
<1>3. ASSUME NEW p \in Procs, Presents(p) PROVE Trail'
    <2>1. UNCHANGED <<at, pc, codex, before, stored, audit, wrote, exposed>>
        BY <1>3 DEF Presents, vars
    <2>2. ASSUME NEW r \in Runs, at[r] \notin exposed
          PROVE  /\ Alive(r) => before[r] <= carried'[r]
                 /\ r \in pending' => before[r] < carried'[r]
        BY <1>3, <1>t, <2>2 DEF Presents, Trail
    <2>3. QED
        BY <2>1, <2>2 DEF Trail
<1>4. ASSUME NEW p \in Procs, WritesBack(p) PROVE Trail'
    <2>1. /\ Alive(p) /\ at[p] \in Homes /\ p \in pending
          /\ UNCHANGED <<at, pc, codex, carried, before, audit, exposed>>
          /\ stored' = [stored EXCEPT ![at[p]] = carried[p]] /\ pending' = pending \ {p}
          /\ wrote' = IF p \in Runs THEN wrote \cup {p} ELSE wrote
        BY <1>4, <1>o DEF WritesBack, vars
    <2>2. ASSUME NEW r \in Runs PROVE Trail!(r)'
        <3>1. CASE r = p
            <4>1. wrote' = wrote \cup {r} /\ stored'[at[r]] = carried[r]
                BY <1>t, <2>1, <3>1
            <4>2. at[r] \notin exposed => before[r] < carried[r] /\ AtWork(r)
                BY <2>1, <3>1 DEF Trail, Keepers
            <4>3. pc[r] \in {"run", "term", "gone"}
                BY <1>o, <2>1, <3>1
            <4>4. QED
                BY <1>t, <2>1, <3>1, <4>1, <4>2, <4>3 DEF Trail
        <3>2. CASE r # p
            <4>1. r \in wrote' <=> r \in wrote
                BY <2>1, <3>2
            <4>2. at[r] \notin exposed /\ AtWork(r) => at[r] # at[p]
                <5>1. at[p] \notin exposed => AtWork(p)
                    BY <2>1, AliveAtWork
                <5>2. QED
                    BY <1>t, <2>1, <3>2, <5>1, Exclusive DEF OnePerHome
            <4>3. at[r] \notin exposed /\ AtWork(r) => stored'[at[r]] = stored[at[r]]
                BY <1>t, <2>1, <4>2
            <4>4. QED
                BY <1>t, <2>1, <3>2, <4>1, <4>3 DEF Trail
        <3>3. QED
            BY <3>1, <3>2
    <2>3. QED
        BY <2>2 DEF Trail
<1>5. ASSUME NEW p \in Procs, EndsInOrder(p) PROVE Trail'
    BY <1>5, <1>t DEF EndsInOrder, CodexExits, tokens, Trail
<1>6. ASSUME NEW r \in Runs, RunIsOver(r) \/ RunIsKilled(r) PROVE Trail'
    <2>1. /\ AtWork(r) /\ pc' = [pc EXCEPT ![r] = "release"]
          /\ \A q \in Runs : Alive(q)' => Alive(q)
          /\ UNCHANGED <<at, stored, carried, before, wrote, exposed>>
          /\ pending' \subseteq pending /\ audit' = [audit EXCEPT ![r] = Line(r)]
        BY <1>6, <1>t DEF RunIsOver, RunIsKilled, RunEnds, Kill, Leave
    <2>2. at[r] \notin exposed /\ r \notin Inspections => (Line(r).rotated <=> r \in wrote)
        <3>1. at[r] \notin exposed => (Rotated(r) <=> r \in wrote)
            <4>1. at[r] \in Homes
                BY <1>t, <2>1 DEF Owned
            <4>2. QED
                BY <1>t, <2>1, <4>1 DEF Trail, Rotated, Snapshot
        <3>2. r \notin Inspections => (Line(r).rotated <=> Rotated(r))
            BY <2>1 DEF Line, NoLine, Rotated, Snapshot
        <3>3. QED
            BY <3>1, <3>2
    <2>3. ~Alive(r)' /\ r \notin pending'
        BY <1>6, <1>t DEF RunIsOver, RunIsKilled, RunEnds, Kill, Owned
    <2>4. QED
        BY <1>t, <2>1, <2>2, <2>3 DEF Trail
<1>7. CASE ServiceEnds
    <2>1. /\ UNCHANGED <<at, stored, carried, before, wrote, audit>>
          /\ exposed \subseteq exposed' /\ pending' \subseteq pending
        BY <1>7 DEF ServiceEnds, ProcessEnds
    <2>2. \A r \in Runs : /\ Alive(r)' => Alive(r)
                          /\ pc'[r] \in {"idle", "done", "gone"}
                          /\ pc'[r] # "gone" => pc'[r] = pc[r]
        BY <1>7, <1>t DEF ServiceEnds, ProcessEnds, Places, Guarded
    <2>3. QED
        BY <2>1, <2>2 DEF Trail
<1>8. CASE GuardStep /\ UNCHANGED tokens
    <2>1. /\ UNCHANGED <<codex, stored, carried, before, wrote, audit, exposed, pending>>
          /\ \A p \in Procs : MovesOn(p)
        BY <1>8, GuardMoves DEF tokens
    <2>2. ASSUME NEW r \in Runs PROVE Trail!(r)'
        <3>1. MovesOn(r) /\ r \notin Hosts
            BY <1>t, <2>1, HomeAssumption
        <3>2. pc'[r] \in {"idle", "lock", "acquire", "flock", "inside"} =>
                  pc[r] \in {"idle", "lock", "acquire", "flock", "inside"}
            BY <3>1 DEF MovesOn, Waiting
        <3>3. Alive(r) \/ r \in pending => at'[r] = at[r]
            BY <1>o, <1>t, <3>1 DEF MovesOn, Owned
        <3>4. AtWork(r)' => AtWork(r) /\ at'[r] = at[r]
            BY <3>1 DEF MovesOn
        <3>5. pc'[r] \in {"release", "done"} =>
                  at'[r] = at[r] /\ pc[r] \in {"release", "done", "inside"}
            BY <3>1 DEF MovesOn, Over
        <3>6. pc[r] = "inside" => ~audit[r].rotated /\ r \notin wrote
            BY DEF Trail, NoLine
        <3>7. QED
            BY <2>1, <3>2, <3>3, <3>4, <3>5, <3>6 DEF Trail
    <2>3. QED
        BY <2>2 DEF Trail
<1>9. CASE UNCHANGED allVars
    BY <1>9 DEF allVars, vars, tokens, Trail
<1>10. QED
    BY <1>1, <1>2, <1>3, <1>4, <1>5, <1>6, <1>7, <1>8, <1>9 DEF TNext

-----------------------------------------------------------------------------
LEMMA InitCInv == TInit => CInv
<1> SUFFICES ASSUME TInit PROVE CInv
    OBVIOUS
<1>1. IInv
    BY InitIInv DEF TInit
<1>2. TokenTypeOK
    BY TokenAssumption DEF TInit, TokenTypeOK, NoLine
<1>3. Keepers /\ Owned /\ Versions /\ Trail
    BY DEF TInit, Init, Keepers, Owned, Versions, Trail, Trusted, AtWork, Alive, Procs, NoLine
<1>4. QED
    BY <1>1, <1>2, <1>3 DEF CInv

LEMMA NextCInv == CInv /\ [TNext]_allVars => CInv'
<1> SUFFICES ASSUME CInv, [TNext]_allVars PROVE CInv'
    OBVIOUS
<1>1. IInv'
    BY NextIInv, StepOfGuard DEF CInv
<1>2. TokenTypeOK' /\ Keepers' /\ Owned'
    BY TypeNext, KeepersNext, OwnedNext DEF CInv
<1>3. Versions' /\ Trail'
    BY <1>1, <1>2, VersionsNext, TrailNext DEF CInv
<1>4. QED
    BY <1>1, <1>2, <1>3 DEF CInv

LEMMA TokenInvariance == TSpec => []CInv
    BY InitCInv, NextCInv, PTL DEF TSpec

\* Every variable of the tokens keeps its type.
THEOREM TokensTypeCorrect == TSpec => []TokenTypeOK
<1>1. CInv => TokenTypeOK
    BY DEF CInv
<1>2. QED
    BY <1>1, TokenInvariance, PTL

\* A user is logged out by reuse only after a codex of one of the user's homes was
\* killed before its write, ran without the flock, or outlived the service.
THEOREM ReuseHasACause == TSpec => []TokensSurvive
<1>1. CInv => TokensSurvive
    BY DEF CInv, Versions, TokensSurvive, Trusted
<1>2. QED
    BY <1>1, TokenInvariance, PTL

\* A home with a retired token was exposed, or torn in a way that the audit trail
\* shows unless the run was an inspection or the service ended.
THEOREM LossIsOnRecord == TSpec => []RetiredHomeIsNamed
<1>1. CInv => RetiredHomeIsNamed
    BY DEF CInv, Versions, Owned, RetiredHomeIsNamed, Retired, Trusted
<1>2. QED
    BY <1>1, TokenInvariance, PTL

\* A line says "rotated" exactly if the run's own codex wrote a new token.
THEOREM AuditIsExact == TSpec => []AuditTellsTruth
<1>1. CInv => AuditTellsTruth
    BY TokenAssumption DEF CInv, Trail, AuditTellsTruth
<1>2. QED
    BY <1>1, TokenInvariance, PTL

\* The tokens add nothing to the guard: what is proved of HomeExec holds here.
THEOREM TokensKeepGuard == TSpec => Spec
<1>1. TInit => Init
    BY DEF TInit
<1>2. QED
    BY <1>1, StepOfGuard, PTL DEF TSpec, Spec
=============================================================================
