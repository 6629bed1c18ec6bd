----------------------------- MODULE AdminPanel -----------------------------
(***************************************************************************)
(* What the admin panel keeps and shows: keys, counters and usage.         *)
(*                                                                         *)
(* The three share no column, no variable and no handler's locals, so what *)
(* one may do does not depend on the others, and each property is about    *)
(* one of them.  PanelSpec therefore lets one part move while the others   *)
(* are as they began: it reaches every state of each part and leaves out   *)
(* their product, which has nothing more to show.                          *)
(***************************************************************************)
EXTENDS ApiKeys, Statistics, UsageCache

panelVars == <<keyVars, statVars, usageVars>>

PanelInit == KeysInit /\ StatsInit /\ UsageInit

PanelNext ==
    \/ StatsInit /\ UsageInit /\ KeysNext /\ UNCHANGED <<statVars, usageVars>>
    \/ KeysInit /\ UsageInit /\ StatsNext /\ UNCHANGED <<keyVars, usageVars>>
    \/ KeysInit /\ StatsInit /\ UsageNext /\ UNCHANGED <<keyVars, statVars>>

PanelSpec == PanelInit /\ [][PanelNext]_panelVars

\* The type invariants of the three parts, with what their rows must satisfy
\* together: the foreign key of a request, the marks of a success, and answers
\* for all an overview page has waited for.
PanelTypeOK == KeysTypeOK /\ StatsTypeOK /\ UsageTypeOK
=============================================================================
