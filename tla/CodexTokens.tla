----------------------------- MODULE CodexTokens -----------------------------
(***************************************************************************)
(* The refresh tokens in the homes' auth.json files under the guard of     *)
(* HomeExec, and the audit trail that _run_codex_once keeps of them        *)
(* (app/services/codex_image.py).                                          *)
(*                                                                         *)
(* A token is the number of rotations before it.  codex loads the token of *)
(* its home when it starts and may present it to the server at any time;   *)
(* the server answers with the next one, which codex then writes back.  A  *)
(* token the server has retired is reuse: the user's sessions are revoked. *)
(* codex's own part is external: it is what the comments at lines 353 and  *)
(* 411 and README.md:395-419 say of it.  Every step is one of HomeExec's,  *)
(* with its effect on the tokens, or one between codex and the server.     *)
(*                                                                         *)
(* Bound: MaxRotations per home.                                           *)
(***************************************************************************)
EXTENDS HomeExec

CONSTANTS
    Inspections,    \* the runs that inspect() starts
    User,           \* the ChatGPT user a home is logged in as
    MaxRotations

ASSUME TokenAssumption ==
    /\ Inspections \subseteq Runs
    /\ DOMAIN User = Homes
    /\ MaxRotations \in Nat

VARIABLES
    issued,     \* the token the server accepts for a home
    stored,     \* the one in the home's auth.json
    carried,    \* the one a codex process has
    pending,    \* the processes that have a new token and did not write it yet
    revoked,    \* the users whose sessions the server ended
    before,     \* a run's auth_before
    audit,      \* the line a run left in token-audit.log
    \* History:
    wrote,      \* the runs whose codex wrote a new token
    torn,       \* the runs whose codex was killed before it could
    exposed     \* homes a codex used without the flock, or after its service

tokens == <<issued, stored, carried, pending, revoked, before, audit, wrote, torn, exposed>>
allVars == <<vars, tokens>>

NoLine == [event |-> "none", rotated |-> FALSE]

TInit ==
    /\ Init
    /\ issued = [h \in Homes |-> 0]
    /\ stored = [h \in Homes |-> 0]
    /\ carried = [p \in Procs |-> 0]
    /\ pending = {}
    /\ revoked = {}
    /\ before = [r \in Runs |-> 0]
    /\ audit = [r \in Runs |-> NoLine]
    /\ wrote = {} /\ torn = {} /\ exposed = {}

-----------------------------------------------------------------------------
\* _auth_snapshot of r's home: the fingerprint of a token is the token itself.
Snapshot(r) == stored[at[r]]

\* Mutant of RunSpawns: the fingerprint of an earlier run is good enough.
SpawnsUnread(r) ==
    /\ Spawn(r)
    /\ carried' = [carried EXCEPT ![r] = stored[at[r]]]
    /\ exposed' = IF fd[r] THEN exposed ELSE exposed \cup {at[r]}
    /\ UNCHANGED <<issued, stored, pending, revoked, before, audit, wrote, torn>>

\* auth_before = _auth_snapshot(codex_home), and codex starts.
RunSpawns(r) ==
    /\ Spawn(r)
    /\ before' = [before EXCEPT ![r] = Snapshot(r)]
    /\ carried' = [carried EXCEPT ![r] = stored[at[r]]]
    /\ exposed' = IF fd[r] THEN exposed ELSE exposed \cup {at[r]}
    /\ UNCHANGED <<issued, stored, pending, revoked, audit, wrote, torn>>

HostSpawns(p, h) ==
    /\ HostStarts(p, h)
    /\ carried' = [carried EXCEPT ![p] = stored[h]]
    /\ UNCHANGED <<issued, stored, pending, revoked, before, audit, wrote, torn, exposed>>

\* codex presents its refresh token: the next one, or reuse.
Presents(p) ==
    /\ Alive(p) /\ p \notin pending
    /\ User[at[p]] \notin revoked
    /\ IF carried[p] = issued[at[p]]
         THEN /\ issued[at[p]] < MaxRotations
              /\ issued' = [issued EXCEPT ![at[p]] = @ + 1]
              /\ carried' = [carried EXCEPT ![p] = @ + 1]
              /\ pending' = pending \cup {p}
              /\ UNCHANGED revoked
         ELSE /\ revoked' = revoked \cup {User[at[p]]}
              /\ UNCHANGED <<issued, carried, pending>>
    /\ UNCHANGED <<stored, before, audit, wrote, torn, exposed>>
    /\ UNCHANGED vars

WritesBack(p) ==
    /\ Alive(p) /\ p \in pending
    /\ stored' = [stored EXCEPT ![at[p]] = carried[p]]
    /\ pending' = pending \ {p}
    /\ wrote' = IF p \in Runs THEN wrote \cup {p} ELSE wrote
    /\ UNCHANGED <<issued, carried, revoked, before, audit, torn, exposed>>
    /\ UNCHANGED vars

\* codex ends in order, after a SIGTERM as well: not before its write.
EndsInOrder(p) ==
    /\ CodexExits(p) /\ p \notin pending
    /\ UNCHANGED tokens

-----------------------------------------------------------------------------
Rotated(r) == before[r] # Snapshot(r)

\* Mutant of Line: a time-out goes by another name.
LineKilled(r) ==
    IF r \in Inspections \/ (pc[r] = "run" /\ ~Rotated(r))
      THEN NoLine
      ELSE [event   |-> IF pc[r] = "run" THEN "rotated" ELSE "killed",
            rotated |-> Rotated(r)]

\* _audit_token_state, which inspect() does not call.  A time-out leaves a line
\* in any case, a run that ended by itself only if auth.json changed.
Line(r) ==
    IF r \in Inspections \/ (pc[r] = "run" /\ ~Rotated(r))
      THEN NoLine
      ELSE [event   |-> IF pc[r] = "run" THEN "rotated" ELSE "timeout_kill",
            rotated |-> Rotated(r)]

RunIsOver(r) ==
    /\ RunEnds(r)
    /\ audit' = [audit EXCEPT ![r] = Line(r)]
    /\ UNCHANGED <<issued, stored, carried, pending, revoked, before, wrote, torn, exposed>>

\* Mutant of RunIsKilled: only a codex that obeyed the SIGTERM is audited.
KilledUnaudited(r) ==
    /\ Kill(r)
    /\ torn' = IF r \in pending THEN torn \cup {r} ELSE torn
    /\ pending' = pending \ {r}
    /\ UNCHANGED <<issued, stored, carried, revoked, before, audit, wrote, exposed>>

\* SIGKILL after the grace period, whatever codex was doing.
RunIsKilled(r) ==
    /\ Kill(r)
    /\ torn' = IF r \in pending THEN torn \cup {r} ELSE torn
    /\ pending' = pending \ {r}
    /\ audit' = [audit EXCEPT ![r] = Line(r)]
    /\ UNCHANGED <<issued, stored, carried, revoked, before, wrote, exposed>>

\* The service ends, with some codex processes and without others.
ServiceEnds ==
    /\ ProcessEnds
    /\ LET dead == {p \in Procs : Alive(p) /\ codex'[p] = "exited"}
       IN  /\ torn' = torn \cup (dead \cap pending)
           /\ pending' = pending \ dead
    /\ exposed' = exposed \cup {at[r] : r \in {s \in Runs : codex'[s] = "alive"}}
    /\ UNCHANGED <<issued, stored, carried, revoked, before, audit, wrote>>

\* The guard's steps that do not touch a codex process.
GuardStep ==
    \/ \E r \in Runs :
          \/ \E h \in Homes : Enter(r, h)
          \/ FlockGranted(r) \/ FlockFails(r) \/ SpawnFails(r) \/ TimesOut(r)
    \/ \E p \in Hosts : HostEnds(p)
    \/ ThreadAcquires \/ ThreadReleases

TNext ==
    \/ \E r \in Runs : RunSpawns(r) \/ RunIsOver(r) \/ RunIsKilled(r)
    \/ \E p \in Hosts, h \in Homes : HostSpawns(p, h)
    \/ \E p \in Procs : Presents(p) \/ WritesBack(p) \/ EndsInOrder(p)
    \/ ServiceEnds
    \/ GuardStep /\ UNCHANGED tokens

TSpec == TInit /\ [][TNext]_allVars

-----------------------------------------------------------------------------
TokenTypeOK ==
    /\ issued \in [Homes -> 0..MaxRotations]
    /\ stored \in [Homes -> 0..MaxRotations]
    /\ carried \in [Procs -> 0..MaxRotations]
    /\ pending \subseteq Procs
    /\ revoked \subseteq Range(User)
    /\ before \in [Runs -> 0..MaxRotations]
    /\ audit \in [Runs -> [event : {"none", "rotated", "timeout_kill"}, rotated : BOOLEAN]]
    /\ wrote \subseteq Runs /\ torn \subseteq Runs /\ exposed \subseteq Homes

\* The server has retired the token in auth.json and nobody is about to write
\* the one that took its place.
Retired(h) ==
    /\ stored[h] # issued[h]
    /\ \A p \in pending : at[p] # h

\* The guard does what it is for (comment at codex_image.py:353): a user is
\* logged out by reuse only after a codex of one of the user's homes was killed
\* before its write, ran without the flock, or outlived the service.
TokensSurvive ==
    \A h \in Homes :
        User[h] \in revoked =>
            \E g \in Homes : /\ User[g] = User[h]
                             /\ g \in exposed \cup {at[r] : r \in torn}

\* A home is left with a retired token only where a codex ran unguarded, went
\* down with the service or was inspect's (which is not audited), and else the
\* trail has a timeout_kill line for the run that did it.
RetiredHomeIsNamed ==
    \A h \in Homes : Retired(h) =>
        \/ h \in exposed
        \/ \E r \in torn : /\ at[r] = h
                           /\ \/ pc[r] = "gone" \/ r \in Inspections
                              \/ audit[r].event = "timeout_kill"

\* On a home used under the flock the trail tells the runs apart: a run's line
\* says "rotated" exactly if its own codex wrote a new token, and not because
\* of a run or a host before or after it.
AuditTellsTruth ==
    \A r \in Runs \ Inspections :
        pc[r] \in {"release", "done"} /\ at[r] \notin exposed =>
            (audit[r].rotated <=> r \in wrote)

\* "A `timeout_kill` entry with "rotated": true is the dangerous case: the run
\* was killed across a rotation, so the home may be holding a retired token."
\* (README.md:425; codex_image.py:381): the entry to look for, for such a home.
LostRotationIsFlagged ==
    \A h \in Homes : Retired(h) =>
        \E r \in Runs : at[r] = h /\ audit[r] = [event |-> "timeout_kill", rotated |-> TRUE]
=============================================================================
