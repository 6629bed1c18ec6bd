------------------------------ MODULE Dispatch ------------------------------
(***************************************************************************)
(* Which CODEX_HOME a request runs on: CodexImageGenerator._rotation and   *)
(* _run_codex_with_retry, and the image_gen cooldowns in app_settings      *)
(* (app/services/codex_image.py).                                          *)
(*                                                                         *)
(* Everything runs on one event loop, so an action is what happens between *)
(* two awaits: _rotation suspends only while usage is being looked up, a   *)
(* try while it waits for the home and while codex runs.  The guard that   *)
(* lets one run at a time on a home is HomeExec; here a home is just taken *)
(* or free.  Accounts are external: any run may meet a 429 with any reset  *)
(* time, and any set of homes may turn out to be drained.                  *)
(*                                                                         *)
(* CODEX_HOMES is taken to be non-empty and without repetition.            *)
(* Bounds: each request is made once, of Images images; the clock stops at *)
(* MaxTime; MaxRestarts restarts.                                          *)
(***************************************************************************)
EXTENDS Integers, FiniteSets, SequencesExt

CONSTANTS
    Order,          \* settings.codex_homes
    Jobs,           \* generate() calls
    Peeks,          \* inspect() calls
    Images,         \* payload.count
    Threshold,      \* codex_min_quota_percent > 0
    ReadsFail,      \* reading app_settings may raise
    MaxTime, MaxRestarts

Homes == Range(Order)
Reqs == Jobs \cup Peeks
Time == 0..MaxTime

ASSUME DispatchAssumption ==
    /\ Order \in Seq(Homes) /\ Order # <<>> /\ IsInjective(Order)
    /\ Jobs \cap Peeks = {}
    /\ Images \in Nat \ {0} /\ MaxTime \in Nat /\ MaxRestarts \in Nat
    /\ Threshold \in BOOLEAN /\ ReadsFail \in BOOLEAN

VARIABLES
    now,
    mode,       \* app_settings: dispatch_mode
    cool,       \* app_settings: image_gen_cooldowns, home -> resets_at, 0 for none
    cursor,     \* _home_cursor
    pc,         \* where a request is
    req,        \* a request's local variables
    claims,     \* history: rotations begun at each home by round-robin
    restarts

vars == <<now, mode, cool, cursor, pc, req, claims, restarts>>

(***************************************************************************)
(* A request's locals: the homes to try (rot), the attempt, images made,   *)
(* and the resets_at of a 429 in this run's stderr (hit).  History: the    *)
(* homes tried for this image, those it had reason to avoid, and the tries *)
(* it had left when it failed on an account's error or limit.              *)
(***************************************************************************)
Blank == [rot |-> <<>>, att |-> 1, made |-> 0, hit |-> 0,
          tried |-> <<>>, avoid |-> {}, left |-> 0]

\* "fetch": looks usage up; "turn": waits for the home; "run": codex runs.
\* "failed": the last try ended in an error; "dropped": one ended without an
\* image and without an error; "broken": codex could not be started.
Ended == {"done", "failed", "dropped", "broken", "gone"}

Init ==
    /\ now = 0 /\ mode = "round-robin" /\ cursor = 0
    /\ cool = [h \in Homes |-> 0]
    /\ pc = [r \in Reqs |-> "idle"]
    /\ req = [r \in Reqs |-> Blank]
    /\ claims = [h \in Homes |-> 0]
    /\ restarts = 0

-----------------------------------------------------------------------------
\* image_gen_cooldowns: entries whose reset is past do not count.
Cooling == {h \in Homes : cool[h] > now}

\* What image_gen_cooldowns may return: a failing read gives no cooldowns.
Readings == {Cooling} \cup (IF ReadsFail THEN {{}} ELSE {})

\* Whether dispatch_mode returns round-robin, as it does when it cannot read.
ModeReadings == {mode = "round-robin"} \cup (IF ReadsFail THEN {TRUE} ELSE {})

\* Mutant of Advanced: the cursor runs past the last home.
AdvancedOn == cursor + 1

\* _home_cursor after a claim.
Advanced == (cursor + 1) % Len(Order)

\* ordered: all homes in configuration order from base on.
Ordered(base) ==
    [i \in DOMAIN Order |-> Order[((base + i - 1) % Len(Order)) + 1]]

\* [h for h in homes if h not in out]
Without(homes, out) ==
    FoldLeft(LAMBDA kept, h : IF h \in out THEN kept ELSE Append(kept, h), <<>>, homes)

\* Mutant of Leave: leaves out homes until none may be left.
LeaveAnyway(homes, out) == Without(homes, out)

\* The homes that are not left out, or all of them if none would remain.
Leave(homes, out) ==
    LET rest == Without(homes, out)
    IN  IF rest = <<>> THEN homes ELSE rest

Home(r) == req[r].rot[req[r].att]

Free(h) == \A r \in Reqs : pc[r] = "run" => Home(r) # h

\* How many tries an image has: two, if there are two homes to try it on.
Tries(rot) == Min({2, Len(rot)})

\* A request ends.
Ends(r, place) ==
    /\ pc' = [pc EXCEPT ![r] = place]
    /\ req' = [req EXCEPT ![r] = [Blank EXCEPT !.left =
                    IF place = "failed" \/ (place = "dropped" /\ req[r].hit > 0)
                      THEN Tries(req[r].rot) - Len(req[r].tried) ELSE 0]]

-----------------------------------------------------------------------------
\* Mutant of Settled: where nothing is healthy, all configured homes will do.
SettledAnywhere(homes, drained) ==
    IF Range(homes) \subseteq drained THEN Order ELSE Leave(homes, drained)

\* The rotation once the homes' usage is known.
Settled(homes, drained) == Leave(homes, drained)

\* What a request keeps of a rotation: inspect() takes the first home only.
Kept(r, homes) ==
    IF r \in Peeks THEN SubSeq(homes, 1, Min({1, Len(homes)})) ELSE homes

\* _claim_primary_base and _rotation, with n images made.  Without a threshold no
\* usage is looked up; a lookup that the cache can answer returns at once.
Begins(r, n) ==
    \E round \in ModeReadings, seen \in Readings :
        LET homes == Leave(Ordered(IF round THEN cursor ELSE 0), seen)
        IN  /\ pc' = [pc EXCEPT ![r] = IF Threshold THEN "fetch" ELSE "turn"]
            /\ req' = [req EXCEPT ![r] = [Blank EXCEPT
                            !.rot = IF Threshold THEN homes ELSE Kept(r, homes),
                            !.made = n, !.avoid = seen]]
            /\ IF round
                 THEN /\ cursor' = Advanced
                      /\ claims' = [claims EXCEPT ![Order[cursor + 1]] = @ + 1]
                 ELSE UNCHANGED <<cursor, claims>>

\* generate() reaches its first image, inspect() its rotation.
Begin(r) ==
    /\ pc[r] = "idle"
    /\ Begins(r, 0)
    /\ UNCHANGED <<now, mode, cool, restarts>>

\* fetch_many returns; or raises, which is as if no home were drained.
Looked(r) ==
    /\ pc[r] = "fetch"
    /\ pc' = [pc EXCEPT ![r] = "turn"]
    /\ \E drained \in SUBSET Range(req[r].rot) :
        req' = [req EXCEPT ![r].rot = Kept(r, Settled(@, drained))]
    /\ UNCHANGED <<now, mode, cool, cursor, claims, restarts>>

-----------------------------------------------------------------------------
\* Mutant of Noted: writes this home's entry only.
NotedAlone(r) ==
    IF req[r].hit <= now
      THEN UNCHANGED cool
      ELSE cool' = [h \in Homes |-> IF h = Home(r) THEN req[r].hit ELSE 0]

\* note_image_gen_cooldown: nothing to note, or the write raises, or the map is
\* read, without what is past, and written back with this home's reset.
Noted(r) ==
    \/ UNCHANGED cool
    \/ /\ req[r].hit > now
       /\ \E seen \in Readings :
            LET old == [h \in Homes |-> IF h \in seen THEN cool[h] ELSE 0]
            IN  cool' = [old EXCEPT ![Home(r)] = Max({@, req[r].hit})]

\* codex starts on the home.
Start(r) ==
    /\ pc[r] = "turn" /\ Free(Home(r))
    /\ pc' = [pc EXCEPT ![r] = "run"]
    /\ req' = [req EXCEPT ![r].tried = Append(@, Home(r)), ![r].hit = 0]
    /\ UNCHANGED <<now, mode, cool, cursor, claims, restarts>>

\* codex cannot be started: no CodexGenerationError, hence no retry.
StartBreaks(r) ==
    /\ pc[r] = "turn" /\ Free(Home(r))
    /\ Ends(r, "broken")
    /\ UNCHANGED <<now, mode, cool, cursor, claims, restarts>>

\* codex writes a 429 usage_limit_reached with its resets_at to stderr.
Hits(r) ==
    /\ r \in Jobs /\ pc[r] = "run" /\ req[r].hit = 0
    /\ \E t \in now + 1 .. MaxTime + 1 : req' = [req EXCEPT ![r].hit = t]
    /\ UNCHANGED <<now, mode, cool, cursor, pc, claims, restarts>>

\* Mutant of Retries: stays on the same home.
RetriesHere(r) ==
    /\ pc' = [pc EXCEPT ![r] = "turn"]
    /\ UNCHANGED <<req, cursor, claims>>

\* Mutant of Retries: moves on in the rotation of all requests.
RetriesNext(r) ==
    /\ pc' = [pc EXCEPT ![r] = "turn"]
    /\ req' = [req EXCEPT ![r].att = 2]
    /\ cursor' = Advanced
    /\ UNCHANGED claims

\* The next home of this request's rotation.
Retries(r) ==
    /\ pc' = [pc EXCEPT ![r] = "turn"]
    /\ req' = [req EXCEPT ![r].att = 2]
    /\ UNCHANGED <<cursor, claims>>

\* A non-zero exit or a time-out: note a 429, then the next home or the end.
RunFails(r) ==
    /\ r \in Jobs /\ pc[r] = "run"
    /\ Noted(r)
    /\ IF req[r].att = 1 /\ Len(req[r].rot) > 1
         THEN Retries(r)
         ELSE Ends(r, "failed") /\ UNCHANGED <<cursor, claims>>
    /\ UNCHANGED <<now, mode, restarts>>

\* codex exits 0 and the rollout has no image: generate() notes a 429 and fails.
NoImage(r) ==
    /\ r \in Jobs /\ pc[r] = "run"
    /\ Noted(r)
    /\ Ends(r, "dropped")
    /\ UNCHANGED <<now, mode, cursor, claims, restarts>>

\* An image: generate() returns, or goes on to the next with a new rotation.
Image(r) ==
    /\ r \in Jobs /\ pc[r] = "run"
    /\ IF req[r].made + 1 = Images
         THEN Ends(r, "done") /\ UNCHANGED <<cursor, claims>>
         ELSE Begins(r, req[r].made + 1)
    /\ UNCHANGED <<now, mode, cool, restarts>>

\* inspect() has its one run behind it.
PeekEnds(r) ==
    /\ r \in Peeks /\ pc[r] = "run"
    /\ Ends(r, "done")
    /\ UNCHANGED <<now, mode, cool, cursor, claims, restarts>>

-----------------------------------------------------------------------------
\* The admin switches the dispatch mode.
SetMode(m) ==
    /\ m # mode /\ mode' = m
    /\ UNCHANGED <<now, cool, cursor, pc, req, claims, restarts>>

\* The service starts anew: memory is lost, app_settings are not.
Restart ==
    /\ restarts < MaxRestarts /\ restarts' = restarts + 1
    /\ cursor' = 0
    /\ pc' = [r \in Reqs |-> IF pc[r] \in {"fetch", "turn", "run"} THEN "gone" ELSE pc[r]]
    /\ req' = [r \in Reqs |-> IF pc'[r] = "gone" THEN Blank ELSE req[r]]
    /\ claims' = [h \in Homes |-> 0]
    /\ UNCHANGED <<now, mode, cool>>

Tick ==
    /\ now < MaxTime /\ now' = now + 1
    /\ UNCHANGED <<mode, cool, cursor, pc, req, claims, restarts>>

ReqStep(r) ==
    \/ Begin(r) \/ Looked(r) \/ Start(r) \/ StartBreaks(r) \/ Hits(r)
    \/ RunFails(r) \/ NoImage(r) \/ Image(r) \/ PeekEnds(r)

Next ==
    \/ \E r \in Reqs : ReqStep(r)
    \/ \E m \in {"round-robin", "primary-first"} : SetMode(m)
    \/ Restart \/ Tick

Spec == Init /\ [][Next]_vars

-----------------------------------------------------------------------------
\* Every variable keeps its type.
TypeOK ==
    /\ now \in Time /\ mode \in {"round-robin", "primary-first"}
    /\ cool \in [Homes -> 0..MaxTime + 1]
    /\ cursor \in 0..Len(Order) - 1
    /\ pc \in [Reqs -> {"idle", "fetch", "turn", "run"} \cup Ended]
    /\ DOMAIN req = Reqs
    /\ \A r \in Reqs :
        /\ DOMAIN req[r] = DOMAIN Blank
        /\ req[r].rot \in Seq(Homes) /\ req[r].tried \in Seq(Homes)
        /\ req[r].att \in 1..2 /\ req[r].made \in 0..Images - 1
        /\ req[r].hit \in 0..MaxTime + 1
        /\ req[r].avoid \subseteq Homes /\ req[r].left \in 0..1
    /\ claims \in [Homes -> Nat] /\ restarts \in 0..MaxRestarts

\* Whatever is cooling, drained or unknown, a request in line for a home, first
\* try or second, has one: _rotation never excludes everything.
SomewhereToRun ==
    \A r \in Reqs : pc[r] \in {"turn", "run"} => req[r].att \in DOMAIN req[r].rot

\* A home known to be in image_gen cooldown when a request began its rotation is
\* not tried by it, even where every other home turns out to be drained; only
\* when all are cooling is none skipped.
KnownWallsAvoided ==
    \A r \in Reqs :
        req[r].avoid # Homes => Range(req[r].rot) \cap req[r].avoid = {}

\* As long as app_settings can be read, a cooldown stays at its reset time or
\* later until that has passed: no other worker's write to the shared map, no
\* admin and no restart drops or shortens it.
WallsRemembered ==
    [][\A h \in Homes : cool[h] > now' => cool'[h] >= cool[h]]_vars

\* Round-robin begins at each home in turn: since the last restart no home was
\* first in line two times more than another, whatever happened to the requests
\* in between, to their retries, and to the mode.
Balanced == \A g, h \in Homes : claims[g] <= claims[h] + 1

\* An image is tried on different homes, and a request only fails on an error
\* once it has tried as many as it may.
TriesAnother ==
    \A r \in Reqs :
        /\ IsInjective(req[r].tried)
        /\ pc[r] = "failed" => req[r].left = 0

\* README.md: retry is "automatic [...] if any one account errors out", and with
\* every account at its limit it is left to "the existing retry": a job that fails
\* on an account's image_gen limit was tried on a second account if there was one.
WallsAreRetried ==
    \A r \in Jobs : pc[r] \in {"failed", "dropped"} => req[r].left = 0
=============================================================================
