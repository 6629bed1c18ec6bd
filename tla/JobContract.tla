----------------------------- MODULE JobContract ----------------------------
(***************************************************************************)
(* What the service promises about a generation job, with no queue, worker *)
(* or database in sight: a job is generated at most once, a refused job    *)
(* never is, and the answer to the call that submitted it is the truth     *)
(* about it at that moment.  JobQueue is shown to implement it.            *)
(***************************************************************************)
CONSTANTS Jobs

VARIABLES
    stage,      \* how far each job got
    told        \* what the submitting call was answered

contractVars == <<stage, told>>

Stages == {"new", "pending", "running", "done", "failed", "refused", "lost"}

\* Answers that say nothing of the outcome: accepted, still at it, error.
Accepted == {"202", "500"}

ContractInit ==
    /\ stage = [j \in Jobs |-> "new"]
    /\ told = [j \in Jobs |-> "nothing"]

\* The job is taken on: the call stays open, or is answered at once.
Admit(j) ==
    /\ stage[j] = "new"
    /\ stage' = [stage EXCEPT ![j] = "pending"]
    /\ \/ UNCHANGED told
       \/ \E a \in Accepted : told' = [told EXCEPT ![j] = a]

\* The job is turned away: never after it began to run.
Refuse(j) ==
    /\ stage[j] \in {"new", "pending"} /\ told[j] = "nothing"
    /\ stage' = [stage EXCEPT ![j] = "refused"]
    /\ \E a \in {"500", "503", "504"} : told' = [told EXCEPT ![j] = a]

Begin(j) ==
    /\ stage[j] = "pending"
    /\ stage' = [stage EXCEPT ![j] = "running"]
    /\ UNCHANGED told

Finish(j) ==
    /\ stage[j] = "running"
    /\ \E s \in {"done", "failed"} : stage' = [stage EXCEPT ![j] = s]
    /\ UNCHANGED told

\* The open call is answered: by the outcome, or that there is none yet.
Answer(j) ==
    /\ stage[j] # "new" /\ told[j] = "nothing"
    /\ \/ stage[j] = "done" /\ told' = [told EXCEPT ![j] = "200"]
       \/ stage[j] = "failed" /\ told' = [told EXCEPT ![j] = "502"]
       \/ stage[j] # "refused" /\ told' = [told EXCEPT ![j] = "504"]
    /\ UNCHANGED stage

\* A database failure loses one job.
Lose(j) ==
    /\ stage[j] \in {"pending", "running"}
    /\ stage' = [stage EXCEPT ![j] = "lost"]
    /\ UNCHANGED told

\* The end of the process loses every unfinished job and cuts every open call.
Collapse ==
    /\ stage' = [j \in Jobs |->
                    IF stage[j] \in {"pending", "running"} THEN "lost" ELSE stage[j]]
    /\ told' = [j \in Jobs |->
                    IF stage[j] # "new" /\ told[j] = "nothing" THEN "dropped" ELSE told[j]]

ContractNext ==
    \/ \E j \in Jobs : Admit(j) \/ Refuse(j) \/ Begin(j) \/ Finish(j) \/ Answer(j) \/ Lose(j)
    \/ Collapse

Contract == ContractInit /\ [][ContractNext]_contractVars
=============================================================================
