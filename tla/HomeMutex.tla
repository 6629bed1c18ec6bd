------------------------------ MODULE HomeMutex -----------------------------
(***************************************************************************)
(* What the per-home execution lock is for: codex processes take turns on  *)
(* a CODEX_HOME, because two of them refreshing one auth.json make OpenAI  *)
(* revoke the whole token family.                                          *)
(***************************************************************************)
CONSTANTS Homes, Procs

VARIABLE using      \* the codex processes that may touch a home's auth.json

MutexInit == using = [h \in Homes |-> {}]

Begin(p, h) ==
    /\ using[h] = {}
    /\ \A g \in Homes : p \notin using[g]
    /\ using' = [using EXCEPT ![h] = {p}]

End(p, h) ==
    /\ p \in using[h]
    /\ using' = [using EXCEPT ![h] = @ \ {p}]

MutexNext == \E p \in Procs, h \in Homes : Begin(p, h) \/ End(p, h)

Mutex == MutexInit /\ [][MutexNext]_using
=============================================================================
