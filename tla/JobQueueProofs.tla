--------------------------- MODULE JobQueueProofs ---------------------------
(***************************************************************************)
(* Proofs about JobQueue, for every set of jobs and workers, every queue   *)
(* size and any number of restarts and failing writes.                     *)
(***************************************************************************)
EXTENDS JobQueue, DataFacts, FiniteSetTheorems

\* The inductive invariant.  RunsAtMostOnce alone is not inductive: a job may
\* be taken a second time if it sits in the queue twice, or in the queue while
\* a worker has it; and an answer is only stable because a job with an outcome
\* is nowhere any more.
IInv == TypeOK /\ OnePlace /\ RunsAtMostOnce /\ RowFollowsJob /\ AnswerAgreesWithRow

\* Resolving the oldest putter shortens the line by it and wakes its call only.
LEMMA WakeFacts ==
    ASSUME TypeOK, OnePlace
    PROVE  /\ Woken \in Seq(Jobs) /\ IsInjective(Woken)
           /\ Range(Woken) \subseteq Range(putters)
           /\ \A c \in [Jobs -> Calls] :
                 Wake(c) = [j \in Jobs |-> IF j \in Range(putters) \ Range(Woken)
                                             THEN "woken" ELSE c[j]]
<1>1. CASE putters = <<>>
    <2>1. Range(putters) \ Range(Woken) = {}
        BY <1>1 DEF Woken
    <2>2. QED
        BY <1>1, <2>1 DEF Woken, Wake, TypeOK, OnePlace
<1>2. CASE putters # <<>>
    <2>1. /\ Head(putters) \in Jobs /\ Head(putters) \in Range(putters)
          /\ Tail(putters) \in Seq(Jobs) /\ IsInjective(Tail(putters))
          /\ Range(Tail(putters)) = Range(putters) \ {Head(putters)}
        BY <1>2, TailOfLine DEF TypeOK, OnePlace
    <2>2. Range(putters) \ Range(Woken) = {Head(putters)}
        BY <1>2, <2>1 DEF Woken
    <2>3. QED
        BY <1>2, <2>1, <2>2 DEF Woken, Wake
<1>3. QED
    BY <1>1, <1>2

LEMMA InitIInv == Init => IInv
<1> SUFFICES ASSUME Init PROVE IInv
    OBVIOUS
<1>1. queue = <<>> /\ putters = <<>> /\ <<>> \in Seq(Jobs)
    BY DEF Init
<1>2. Range(<<>>) = {} /\ IsInjective(<<>>)
    BY DEF Range, IsInjective
<1>3. TypeOK
    BY <1>1, QueueAssumption DEF Init, TypeOK, Calls, Rows
<1>4. QED
    BY <1>1, <1>2, <1>3, QueueAssumption
       DEF Init, IInv, OnePlace, RunsAtMostOnce, RowFollowsJob, AnswerAgreesWithRow, HeldBy

LEMMA LinesOfJobs == ASSUME TypeOK PROVE Range(queue) \subseteq Jobs /\ Range(putters) \subseteq Jobs
    BY RangeOfSeq DEF TypeOK

\* A job whose call has not handed it over is not in the queue, with no worker,
\* was never run and has no outcome.
LEMMA NotHandedOver ==
    ASSUME IInv, NEW j \in Jobs, call[j] \notin Entered
    PROVE  /\ j \notin Range(queue) /\ HeldBy(j) = {}
           /\ runs[j] = 0 /\ future[j] = "pending"
<1>1. \A w \in Workers : worker[w] # j
    BY DEF IInv, OnePlace
<1>2. HeldBy(j) = {}
    BY <1>1 DEF HeldBy
<1>3. j \notin Range(queue) /\ future[j] = "pending" /\ runs[j] = 0
    BY DEF IInv, OnePlace, RunsAtMostOnce
<1>4. QED
    BY <1>2, <1>3

(***************************************************************************)
(* One lemma per action: each first says what happens to the queue and the *)
(* line of putters, then goes through the parts of the invariant.          *)
(***************************************************************************)
LEMMA SubmitOnlyIInv == ASSUME IInv, NEW j \in Jobs, SubmitOnly(j) PROVE IInv'
<1>1. /\ j \notin Range(queue) /\ HeldBy(j) = {}
      /\ runs[j] = 0 /\ future[j] = "pending"
    BY NotHandedOver DEF SubmitOnly, Arrives, Entered
<1>2. /\ queue' \in Seq(Jobs) /\ IsInjective(queue') /\ Range(queue') = Range(queue) \cup {j}
    BY <1>1, AppendToLine DEF IInv, TypeOK, OnePlace, SubmitOnly
<1>3. TypeOK'
    BY <1>2 DEF IInv, TypeOK, SubmitOnly, Rows, Calls, Entered
<1>4. OnePlace'
    BY <1>1, <1>2 DEF IInv, TypeOK, OnePlace, SubmitOnly, Arrives, Entered, HeldBy
<1>5. RunsAtMostOnce'
    BY <1>1, <1>2 DEF IInv, TypeOK, RunsAtMostOnce, SubmitOnly, Entered
<1>6. RowFollowsJob'
    BY <1>1, <1>2 DEF IInv, TypeOK, RowFollowsJob, SubmitOnly, Entered, HeldBy
<1>7. AnswerAgreesWithRow'
    BY <1>1, <1>2 DEF IInv, TypeOK, AnswerAgreesWithRow, SubmitOnly
<1>8. QED
    BY <1>3, <1>4, <1>5, <1>6, <1>7 DEF IInv

LEMMA SubmitOnlyRefusedIInv == ASSUME IInv, NEW j \in Jobs, SubmitOnlyRefused(j) PROVE IInv'
<1>1. /\ j \notin Range(queue) /\ HeldBy(j) = {}
      /\ runs[j] = 0 /\ future[j] = "pending"
    BY NotHandedOver DEF SubmitOnlyRefused, Arrives, Entered
<1>2. TypeOK'
    BY DEF IInv, TypeOK, SubmitOnlyRefused, Rows, Calls, Refusals
<1>3. OnePlace'
    BY <1>1 DEF IInv, TypeOK, OnePlace, SubmitOnlyRefused, Arrives, Entered, HeldBy
<1>4. RunsAtMostOnce'
    BY <1>1 DEF IInv, TypeOK, RunsAtMostOnce, SubmitOnlyRefused, Entered
<1>5. RowFollowsJob'
    BY <1>1 DEF IInv, TypeOK, RowFollowsJob, SubmitOnlyRefused, HeldBy
<1>6. AnswerAgreesWithRow'
    BY <1>1 DEF IInv, TypeOK, AnswerAgreesWithRow, SubmitOnlyRefused
<1>7. QED
    BY <1>2, <1>3, <1>4, <1>5, <1>6 DEF IInv

\* Entering the queue or joining the line, for a fresh call and a woken one.
LEMMA JoinFacts ==
    ASSUME IInv, NEW j \in Jobs, call[j] \in {"idle", "woken"},
           \/ Full /\ putters' = Append(putters, j) /\ UNCHANGED queue
           \/ ~Full /\ queue' = Append(queue, j) /\ UNCHANGED putters
    PROVE  /\ queue' \in Seq(Jobs) /\ IsInjective(queue')
           /\ putters' \in Seq(Jobs) /\ IsInjective(putters')
           /\ Full => Range(queue') = Range(queue) /\ Range(putters') = Range(putters) \cup {j}
           /\ ~Full => Range(queue') = Range(queue) \cup {j} /\ Range(putters') = Range(putters)
<1>1. j \notin Range(queue) /\ j \notin Range(putters)
    BY DEF IInv, OnePlace, Entered
<1>t. /\ queue \in Seq(Jobs) /\ IsInjective(queue)
      /\ putters \in Seq(Jobs) /\ IsInjective(putters)
    BY DEF IInv, TypeOK, OnePlace
<1>2. CASE Full
    <2>1. putters' = Append(putters, j) /\ queue' = queue
        BY <1>2
    <2>2. /\ Append(putters, j) \in Seq(Jobs) /\ IsInjective(Append(putters, j))
          /\ Range(Append(putters, j)) = Range(putters) \cup {j}
        BY <1>1, <1>t, AppendToLine
    <2>3. QED
        BY <1>2, <1>t, <2>1, <2>2
<1>3. CASE ~Full
    <2>1. queue' = Append(queue, j) /\ putters' = putters
        BY <1>3
    <2>2. /\ Append(queue, j) \in Seq(Jobs) /\ IsInjective(Append(queue, j))
          /\ Range(Append(queue, j)) = Range(queue) \cup {j}
        BY <1>1, <1>t, AppendToLine
    <2>3. QED
        BY <1>3, <1>t, <2>1, <2>2
<1>4. QED
    BY <1>2, <1>3

LEMMA SubmitAndWaitIInv == ASSUME IInv, NEW j \in Jobs, SubmitAndWait(j) PROVE IInv'
<1>1. /\ j \notin Range(queue) /\ HeldBy(j) = {}
      /\ runs[j] = 0 /\ future[j] = "pending"
    BY NotHandedOver DEF SubmitAndWait, Arrives, Entered
<1>2. /\ queue' \in Seq(Jobs) /\ IsInjective(queue')
      /\ putters' \in Seq(Jobs) /\ IsInjective(putters')
      /\ Full => Range(queue') = Range(queue) /\ Range(putters') = Range(putters) \cup {j}
      /\ ~Full => Range(queue') = Range(queue) \cup {j} /\ Range(putters') = Range(putters)
    BY JoinFacts DEF SubmitAndWait, Arrives
<1>3. TypeOK'
    <2>1. status' \in [Jobs -> Rows] /\ call' \in [Jobs -> Calls]
        BY DEF IInv, TypeOK, SubmitAndWait, Rows, Calls, InFlight
    <2>2. QED
        BY <1>2, <2>1 DEF IInv, TypeOK, SubmitAndWait
<1>4. OnePlace'
    <2>1. Range(putters') = {k \in Jobs : call'[k] = "putting"}
        BY <1>1, <1>2 DEF IInv, TypeOK, OnePlace, SubmitAndWait, Arrives
    <2>2. \A k \in Range(queue') : call'[k] \in Entered /\ future'[k] = "pending" /\ HeldBy(k)' = {}
        <3>1. Range(queue') \subseteq Range(queue) \cup {j} /\ Range(queue) \subseteq Jobs
            BY <1>2, LinesOfJobs DEF IInv
        <3>2. SUFFICES ASSUME NEW k \in Range(queue')
                       PROVE  call'[k] \in Entered /\ future'[k] = "pending" /\ HeldBy(k)' = {}
            OBVIOUS
        <3>3. HeldBy(k)' = HeldBy(k)
            BY DEF SubmitAndWait, HeldBy
        <3>4. CASE k \in Range(queue)
            BY <1>1, <3>1, <3>3, <3>4 DEF IInv, TypeOK, OnePlace, SubmitAndWait, Arrives, Entered
        <3>5. CASE k = j /\ k \notin Range(queue)
            <4>1. ~Full
                BY <1>2, <3>5
            <4>2. QED
                BY <1>1, <3>3, <3>5, <4>1 DEF IInv, TypeOK, SubmitAndWait, Arrives, Entered
        <3>6. QED
            BY <3>1, <3>4, <3>5
    <2>3. \A w \in Workers : worker'[w] \in Jobs =>
             /\ call'[worker'[w]] \in Entered /\ future'[worker'[w]] = "pending"
             /\ {v \in Workers : worker'[v] = worker'[w]} = {w}
        BY <1>1 DEF IInv, TypeOK, OnePlace, SubmitAndWait, Arrives, Entered, HeldBy
    <2>4. \A k \in Jobs : future'[k] # "pending" => call'[k] \in Entered
        BY <1>1 DEF IInv, TypeOK, OnePlace, SubmitAndWait, Arrives, Entered
    <2>5. QED
        BY <1>2, <2>1, <2>2, <2>3, <2>4 DEF OnePlace, HeldBy
<1>5. RunsAtMostOnce'
    BY <1>1, <1>2 DEF IInv, TypeOK, RunsAtMostOnce, SubmitAndWait
<1>6. RowFollowsJob'
    BY <1>1, <1>2 DEF IInv, TypeOK, RowFollowsJob, SubmitAndWait, HeldBy
<1>7. AnswerAgreesWithRow'
    BY <1>1, <1>2 DEF IInv, TypeOK, AnswerAgreesWithRow, SubmitAndWait
<1>8. QED
    BY <1>3, <1>4, <1>5, <1>6, <1>7 DEF IInv

LEMMA PutResumesIInv == ASSUME IInv, NEW j \in Jobs, PutResumes(j) PROVE IInv'
<1>1. /\ j \notin Range(queue) /\ HeldBy(j) = {}
      /\ runs[j] = 0 /\ future[j] = "pending"
      /\ status[j] \in {"queued", "expired", "deleted"}
    BY NotHandedOver DEF PutResumes, Entered, IInv, RowFollowsJob
<1>2. /\ queue' \in Seq(Jobs) /\ IsInjective(queue')
      /\ putters' \in Seq(Jobs) /\ IsInjective(putters')
      /\ Full => Range(queue') = Range(queue) /\ Range(putters') = Range(putters) \cup {j}
      /\ ~Full => Range(queue') = Range(queue) \cup {j} /\ Range(putters') = Range(putters)
    BY JoinFacts DEF PutResumes
<1>3. TypeOK'
    BY <1>2 DEF IInv, TypeOK, PutResumes, rowVars, Calls, InFlight
<1>4. OnePlace'
    <2>1. Range(putters') = {k \in Jobs : call'[k] = "putting"}
        BY <1>1, <1>2 DEF IInv, TypeOK, OnePlace, PutResumes, rowVars
    <2>2. \A k \in Range(queue') : call'[k] \in Entered /\ future'[k] = "pending" /\ HeldBy(k)' = {}
        <3>1. Range(queue') \subseteq Range(queue) \cup {j} /\ Range(queue) \subseteq Jobs
            BY <1>2, LinesOfJobs DEF IInv
        <3>2. SUFFICES ASSUME NEW k \in Range(queue')
                       PROVE  call'[k] \in Entered /\ future'[k] = "pending" /\ HeldBy(k)' = {}
            OBVIOUS
        <3>3. HeldBy(k)' = HeldBy(k)
            BY DEF PutResumes, HeldBy
        <3>4. CASE k \in Range(queue)
            BY <1>1, <3>1, <3>3, <3>4 DEF IInv, TypeOK, OnePlace, PutResumes, rowVars, Entered
        <3>5. CASE k = j /\ k \notin Range(queue)
            <4>1. ~Full
                BY <1>2, <3>5
            <4>2. QED
                BY <1>1, <3>3, <3>5, <4>1 DEF IInv, TypeOK, PutResumes, rowVars, Entered
        <3>6. QED
            BY <3>1, <3>4, <3>5
    <2>3. \A w \in Workers : worker'[w] \in Jobs =>
             /\ call'[worker'[w]] \in Entered /\ future'[worker'[w]] = "pending"
             /\ {v \in Workers : worker'[v] = worker'[w]} = {w}
        BY <1>1 DEF IInv, TypeOK, OnePlace, PutResumes, rowVars, Entered, HeldBy
    <2>4. \A k \in Jobs : future'[k] # "pending" => call'[k] \in Entered
        BY <1>1 DEF IInv, TypeOK, OnePlace, PutResumes, rowVars, Entered
    <2>5. QED
        BY <1>2, <2>1, <2>2, <2>3, <2>4 DEF OnePlace, HeldBy
<1>5. RunsAtMostOnce'
    BY <1>1, <1>2 DEF IInv, TypeOK, RunsAtMostOnce, PutResumes, rowVars
<1>6. RowFollowsJob'
    BY <1>1, <1>2 DEF IInv, TypeOK, RowFollowsJob, PutResumes, rowVars, HeldBy
<1>7. AnswerAgreesWithRow'
    BY <1>1, <1>2 DEF IInv, TypeOK, AnswerAgreesWithRow, PutResumes, rowVars
<1>8. QED
    BY <1>3, <1>4, <1>5, <1>6, <1>7 DEF IInv

\* A cancelled queue.put takes its own call out and wakes at most one other.
LEMMA CancelFacts ==
    ASSUME IInv, NEW j \in Jobs, NEW c \in Refusals, PutCancelled(j, c)
    PROVE  /\ call[j] \in {"putting", "woken"}
           /\ putters' \in Seq(Jobs) /\ IsInjective(putters')
           /\ Range(putters') \subseteq Range(putters) \ {j}
           /\ call' \in [Jobs -> Calls]
           /\ call' = [k \in Jobs |-> IF k = j THEN c
                                      ELSE IF k \in Range(putters) \ Range(putters')
                                      THEN "woken" ELSE call[k]]
<1>t. /\ putters \in Seq(Jobs) /\ IsInjective(putters) /\ call \in [Jobs -> Calls]
      /\ c \in Calls /\ "woken" \in Calls /\ TypeOK /\ OnePlace
    BY DEF IInv, TypeOK, OnePlace, Calls, InFlight
<1>1. CASE call[j] = "putting"
    <2>1. PICK k \in 1..Len(putters) : putters[k] = j /\ putters' = RemoveAt(putters, k)
        BY <1>1 DEF PutCancelled
    <2>2. /\ putters' \in Seq(Jobs) /\ IsInjective(putters')
          /\ Range(putters') = Range(putters) \ {j}
        BY <1>t, <2>1, RemoveFromLine
    <2>3. call' = [call EXCEPT ![j] = c]
        BY <1>1 DEF PutCancelled
    <2>4. QED
        BY <1>1, <1>t, <2>2, <2>3
<1>2. CASE call[j] = "woken" /\ Full
    <2>1. putters' = putters /\ call' = [call EXCEPT ![j] = c]
        BY <1>2 DEF PutCancelled
    <2>2. j \notin Range(putters)
        BY <1>2, <1>t DEF OnePlace
    <2>3. QED
        BY <1>2, <1>t, <2>1, <2>2
<1>3. CASE call[j] = "woken" /\ ~Full
    <2>1. putters' = Woken /\ call' = Wake([call EXCEPT ![j] = c])
        BY <1>3 DEF PutCancelled
    <2>2. j \notin Range(putters)
        BY <1>3, <1>t DEF OnePlace
    <2>3. [call EXCEPT ![j] = c] \in [Jobs -> Calls]
        BY <1>t
    <2>4. /\ putters' \in Seq(Jobs) /\ IsInjective(putters')
          /\ Range(putters') \subseteq Range(putters)
          /\ call' = [k \in Jobs |-> IF k \in Range(putters) \ Range(putters')
                                     THEN "woken" ELSE [call EXCEPT ![j] = c][k]]
        BY <1>t, <2>1, <2>3, WakeFacts
    <2>5. QED
        BY <1>3, <1>t, <2>2, <2>4
<1>4. QED
    BY <1>1, <1>2, <1>3 DEF PutCancelled

\* Both endings of a cancelled put differ in the row only.
LEMMA CancelPlaces ==
    ASSUME IInv, NEW j \in Jobs, NEW c \in Refusals, PutCancelled(j, c),
           UNCHANGED <<queue, future, worker, runs>>
    PROVE  OnePlace' /\ RunsAtMostOnce'
<1>1. /\ call[j] \in {"putting", "woken"}
      /\ putters' \in Seq(Jobs) /\ IsInjective(putters')
      /\ Range(putters') \subseteq Range(putters) \ {j}
      /\ call' = [k \in Jobs |-> IF k = j THEN c
                                 ELSE IF k \in Range(putters) \ Range(putters')
                                 THEN "woken" ELSE call[k]]
    BY CancelFacts
<1>2. /\ j \notin Range(queue) /\ HeldBy(j) = {}
      /\ runs[j] = 0 /\ future[j] = "pending"
    BY <1>1, NotHandedOver DEF Entered
<1>3. \A k \in Jobs : call'[k] \in Entered <=> call[k] \in Entered
    BY <1>1 DEF IInv, OnePlace, Entered, Refusals
<1>4. Range(putters') = {k \in Jobs : call'[k] = "putting"}
    BY <1>1 DEF IInv, OnePlace, Refusals
<1>5. Range(queue) \subseteq Jobs
    BY LinesOfJobs DEF IInv
<1>6. OnePlace'
    BY <1>1, <1>3, <1>4, <1>5 DEF IInv, OnePlace, HeldBy
<1>7. RunsAtMostOnce'
    BY <1>3 DEF IInv, RunsAtMostOnce
<1>8. QED
    BY <1>6, <1>7

LEMMA PutTimeoutIInv == ASSUME IInv, NEW j \in Jobs, PutTimeout(j) PROVE IInv'
<1>1. /\ call[j] \in {"putting", "woken"}
      /\ putters' \in Seq(Jobs)
      /\ Range(putters') \subseteq Range(putters) \ {j}
      /\ call' \in [Jobs -> Calls]
      /\ call' = [k \in Jobs |-> IF k = j THEN "504put"
                                 ELSE IF k \in Range(putters) \ Range(putters')
                                 THEN "woken" ELSE call[k]]
    BY CancelFacts DEF PutTimeout, Refusals
<1>2. OnePlace' /\ RunsAtMostOnce'
    BY CancelPlaces DEF PutTimeout, Refusals
<1>3. /\ j \notin Range(queue) /\ HeldBy(j) = {} /\ future[j] = "pending"
    BY <1>1, NotHandedOver DEF Entered
<1>4. \A k \in Range(putters) : call[k] = "putting"
    BY DEF IInv, OnePlace
<1>5. TypeOK'
    BY <1>1 DEF IInv, TypeOK, PutTimeout, Mark, Rows
<1>6. RowFollowsJob'
    <2>1. SUFFICES ASSUME NEW k \in Jobs
                   PROVE  /\ call'[k] = "idle" <=> status'[k] = "none" /\ call'[k] # "500"
                          /\ call'[k] \in {"putting", "woken"} \/ k \in Range(queue') =>
                                 status'[k] \in {"queued", "expired", "deleted"}
                          /\ HeldBy(k)' # {} => status'[k] \in {"running", "expired", "deleted"}
                          /\ future'[k] = "result" => status'[k] \in {"succeeded", "expired", "deleted"}
                          /\ future'[k] = "exception" => status'[k] \in {"failed", "expired", "deleted"}
        BY DEF RowFollowsJob
    <2>2. HeldBy(k)' = HeldBy(k) /\ queue' = queue /\ future' = future
        BY DEF PutTimeout, HeldBy
    <2>3. CASE k = j
        BY <1>1, <1>3, <2>2, <2>3 DEF IInv, TypeOK, RowFollowsJob, PutTimeout, Mark
    <2>4. CASE k # j
        BY <1>1, <1>4, <2>2, <2>4 DEF IInv, TypeOK, RowFollowsJob, PutTimeout, Mark
    <2>5. QED
        BY <2>3, <2>4
<1>7. AnswerAgreesWithRow'
    BY <1>1 DEF IInv, TypeOK, AnswerAgreesWithRow, PutTimeout, Mark
<1>8. QED
    BY <1>2, <1>5, <1>6, <1>7 DEF IInv

LEMMA PutTimeoutFaultIInv == ASSUME IInv, NEW j \in Jobs, PutTimeoutFault(j) PROVE IInv'
<1>1. /\ call[j] \in {"putting", "woken"}
      /\ putters' \in Seq(Jobs)
      /\ Range(putters') \subseteq Range(putters) \ {j}
      /\ call' \in [Jobs -> Calls]
      /\ call' = [k \in Jobs |-> IF k = j THEN "500"
                                 ELSE IF k \in Range(putters) \ Range(putters')
                                 THEN "woken" ELSE call[k]]
    BY CancelFacts DEF PutTimeoutFault, Refusals
<1>2. OnePlace' /\ RunsAtMostOnce'
    BY CancelPlaces DEF PutTimeoutFault, rowVars, Refusals
<1>3. \A k \in Range(putters) : call[k] = "putting"
    BY DEF IInv, OnePlace
<1>4. TypeOK'
    BY <1>1, QueueAssumption DEF IInv, TypeOK, PutTimeoutFault, Fault, rowVars
<1>5. RowFollowsJob'
    BY <1>1, <1>3 DEF IInv, RowFollowsJob, PutTimeoutFault, rowVars, HeldBy
<1>6. AnswerAgreesWithRow'
    BY <1>1 DEF IInv, AnswerAgreesWithRow, PutTimeoutFault, rowVars
<1>7. QED
    BY <1>2, <1>4, <1>5, <1>6 DEF IInv

LEMMA ClientIInv ==
    ASSUME IInv, NEW j \in Jobs, ClientAnswered(j) \/ ClientTimeout(j)
    PROVE  IInv'
<1>1. PICK a \in {"200", "502", "504"} :
        /\ call[j] = "waiting" /\ call' = [call EXCEPT ![j] = a]
        /\ a = "200" => future[j] = "result"
        /\ a = "502" => future[j] = "exception"
    BY DEF ClientAnswered, ClientTimeout, IInv, TypeOK
<1>2. UNCHANGED <<up, queue, putters, worker, restarts, faults, status, future, runs>>
    BY DEF ClientAnswered, ClientTimeout, rowVars
<1>3. \A k \in Jobs : /\ call'[k] \in Entered <=> call[k] \in Entered
                      /\ call'[k] = "putting" <=> call[k] = "putting"
    BY <1>1 DEF IInv, TypeOK, Entered
<1>4. TypeOK'
    BY <1>1, <1>2 DEF IInv, TypeOK, Calls, Entered
<1>5. OnePlace'
    BY <1>2, <1>3, LinesOfJobs DEF IInv, OnePlace, HeldBy
<1>6. RunsAtMostOnce'
    BY <1>2, <1>3 DEF IInv, RunsAtMostOnce
<1>7. RowFollowsJob'
    BY <1>1, <1>2 DEF IInv, TypeOK, RowFollowsJob, HeldBy
<1>8. AnswerAgreesWithRow'
    BY <1>1, <1>2 DEF IInv, TypeOK, AnswerAgreesWithRow, RowFollowsJob
<1>9. QED
    BY <1>4, <1>5, <1>6, <1>7, <1>8 DEF IInv

\* Taking the head of the queue, for a worker that runs it or dies with it.
LEMMA GetFacts ==
    ASSUME IInv, Get
    PROVE  /\ Head(queue) \in Jobs /\ Head(queue) \in Range(queue)
           /\ queue' \in Seq(Jobs) /\ IsInjective(queue')
           /\ Range(queue') = Range(queue) \ {Head(queue)}
           /\ putters' \in Seq(Jobs) /\ IsInjective(putters')
           /\ Range(putters') \subseteq Range(putters)
           /\ call' \in [Jobs -> Calls]
           /\ call' = [k \in Jobs |-> IF k \in Range(putters) \ Range(putters')
                                      THEN "woken" ELSE call[k]]
           /\ Range(putters') = {k \in Jobs : call'[k] = "putting"}
           /\ \A k \in Jobs : call'[k] \in Entered <=> call[k] \in Entered
<1>1. TypeOK /\ OnePlace /\ call \in [Jobs -> Calls] /\ "woken" \in Calls
    BY DEF IInv, TypeOK, Calls, InFlight
<1>2. /\ Head(queue) \in Jobs /\ Head(queue) \in Range(queue)
      /\ queue' \in Seq(Jobs) /\ IsInjective(queue')
      /\ Range(queue') = Range(queue) \ {Head(queue)}
    BY <1>1, TailOfLine DEF Get, TypeOK, OnePlace
<1>3. /\ putters' \in Seq(Jobs) /\ IsInjective(putters')
      /\ Range(putters') \subseteq Range(putters)
      /\ call' = [k \in Jobs |-> IF k \in Range(putters) \ Range(putters')
                                 THEN "woken" ELSE call[k]]
    BY <1>1, WakeFacts DEF Get
<1>4. call' \in [Jobs -> Calls]
    BY <1>1, <1>3
<1>5. /\ Range(putters') = {k \in Jobs : call'[k] = "putting"}
      /\ \A k \in Jobs : call'[k] \in Entered <=> call[k] \in Entered
    BY <1>1, <1>3 DEF OnePlace, Entered
<1>6. QED
    BY <1>2, <1>3, <1>4, <1>5

LEMMA WorkerTakesIInv == ASSUME IInv, NEW w \in Workers, WorkerTakes(w) PROVE IInv'
<1>0. PICK h \in Jobs : h = Head(queue)
    BY GetFacts DEF WorkerTakes
<1>1. /\ h \in Jobs /\ h \in Range(queue)
      /\ queue' \in Seq(Jobs) /\ IsInjective(queue')
      /\ Range(queue') = Range(queue) \ {h}
      /\ putters' \in Seq(Jobs) /\ IsInjective(putters')
      /\ call' \in [Jobs -> Calls]
      /\ call' = [k \in Jobs |-> IF k \in Range(putters) \ Range(putters')
                                 THEN "woken" ELSE call[k]]
      /\ Range(putters') = {k \in Jobs : call'[k] = "putting"}
      /\ \A k \in Jobs : call'[k] \in Entered <=> call[k] \in Entered
    BY <1>0, GetFacts DEF WorkerTakes
<1>2. /\ worker[w] = Idle /\ worker' = [worker EXCEPT ![w] = h]
      /\ status' = Mark(h, "running") /\ runs' = [runs EXCEPT ![h] = @ + 1]
      /\ UNCHANGED <<up, future, restarts, faults>>
    BY <1>0 DEF WorkerTakes
<1>3. /\ call[h] \in Entered /\ future[h] = "pending" /\ runs[h] = 0
      /\ HeldBy(h) = {} /\ status[h] \in {"queued", "expired", "deleted"}
    BY <1>1 DEF IInv, OnePlace, RunsAtMostOnce, RowFollowsJob
<1>4. \A k \in Range(putters) : call[k] = "putting"
    BY DEF IInv, OnePlace
<1>5. HeldBy(h)' = {w} /\ \A k \in Jobs : k # h => HeldBy(k)' = HeldBy(k)
    <2>1. \A u \in Workers : worker[u] # h
        BY <1>3 DEF HeldBy
    <2>2. \A u \in Workers : worker'[u] = IF u = w THEN h ELSE worker[u]
        BY <1>2 DEF IInv, TypeOK
    <2>3. \A k \in Jobs : worker[w] # k
        BY <1>2, QueueAssumption
    <2>4. HeldBy(h)' = {w}
        BY <2>1, <2>2 DEF HeldBy
    <2>5. ASSUME NEW k \in Jobs, k # h PROVE HeldBy(k)' = HeldBy(k)
        BY <2>2, <2>3, <2>5 DEF HeldBy
    <2>6. QED
        BY <2>4, <2>5
<1>6. Range(queue) \subseteq Jobs
    BY LinesOfJobs DEF IInv
<1>7. TypeOK'
    BY <1>1, <1>2 DEF IInv, TypeOK, Mark, Rows
<1>8. OnePlace'
    <2>1. \A k \in Range(queue') :
             call'[k] \in Entered /\ future'[k] = "pending" /\ HeldBy(k)' = {}
        BY <1>1, <1>2, <1>5, <1>6 DEF IInv, OnePlace
    <2>2. ASSUME NEW v \in Workers, worker'[v] \in Jobs
          PROVE  /\ call'[worker'[v]] \in Entered /\ future'[worker'[v]] = "pending"
                 /\ HeldBy(worker[v])' = {v}
        <3>1. CASE v = w
            <4>1. worker'[v] = h
                BY <1>2, <3>1 DEF IInv, TypeOK
            <4>2. HeldBy(worker[v])' = HeldBy(h)'
                BY <4>1 DEF HeldBy, IInv, TypeOK
            <4>3. QED
                BY <1>1, <1>2, <1>3, <1>5, <3>1, <4>1, <4>2
        <3>2. CASE v # w
            <4>1. worker'[v] = worker[v] /\ worker[v] # h
                BY <1>2, <1>3, <3>2 DEF IInv, TypeOK, HeldBy
            <4>2. QED
                BY <1>1, <1>2, <1>5, <2>2, <4>1 DEF IInv, OnePlace
        <3>3. QED
            BY <3>1, <3>2
    <2>3. \A k \in Jobs : future'[k] # "pending" => call'[k] \in Entered
        BY <1>1, <1>2 DEF IInv, OnePlace
    <2>4. QED
        BY <1>1, <2>1, <2>2, <2>3 DEF OnePlace
<1>9. RunsAtMostOnce'
    BY <1>1, <1>2, <1>3 DEF IInv, TypeOK, RunsAtMostOnce
<1>10. RowFollowsJob'
    <2>1. SUFFICES ASSUME NEW k \in Jobs
                   PROVE  /\ call'[k] = "idle" <=> status'[k] = "none" /\ call'[k] # "500"
                          /\ call'[k] \in {"putting", "woken"} \/ k \in Range(queue') =>
                                 status'[k] \in {"queued", "expired", "deleted"}
                          /\ HeldBy(k)' # {} => status'[k] \in {"running", "expired", "deleted"}
                          /\ future'[k] = "result" => status'[k] \in {"succeeded", "expired", "deleted"}
                          /\ future'[k] = "exception" => status'[k] \in {"failed", "expired", "deleted"}
        BY DEF RowFollowsJob
    <2>2. CASE k = h
        BY <1>1, <1>2, <1>3, <1>4, <2>2 DEF IInv, TypeOK, RowFollowsJob, Mark, Entered
    <2>3. CASE k # h
        BY <1>1, <1>2, <1>4, <1>5, <2>3 DEF IInv, TypeOK, RowFollowsJob, Mark
    <2>4. QED
        BY <2>2, <2>3
<1>11. AnswerAgreesWithRow'
    <2>1. \A k \in Jobs : k # h => status'[k] = status[k]
        BY <1>1, <1>2 DEF IInv, TypeOK, Mark
    <2>2. call[h] \notin {"200", "502", "503", "504put"}
        BY <1>1, <1>3 DEF IInv, AnswerAgreesWithRow, Entered
    <2>3. QED
        BY <1>1, <1>2, <1>4, <2>1, <2>2 DEF IInv, AnswerAgreesWithRow
<1>12. QED
    BY <1>7, <1>8, <1>9, <1>10, <1>11 DEF IInv

LEMMA TakeFaultIInv == ASSUME IInv, NEW w \in Workers, TakeFault(w) PROVE IInv'
<1>1. /\ queue' \in Seq(Jobs) /\ IsInjective(queue') /\ Range(queue') \subseteq Range(queue)
      /\ putters' \in Seq(Jobs) /\ IsInjective(putters')
      /\ call' \in [Jobs -> Calls]
      /\ call' = [k \in Jobs |-> IF k \in Range(putters) \ Range(putters')
                                 THEN "woken" ELSE call[k]]
      /\ Range(putters') = {k \in Jobs : call'[k] = "putting"}
      /\ \A k \in Jobs : call'[k] \in Entered <=> call[k] \in Entered
    BY GetFacts DEF TakeFault
<1>2. /\ worker[w] = Idle /\ worker' = [worker EXCEPT ![w] = Dead]
      /\ faults < MaxFaults /\ faults' = faults + 1
      /\ UNCHANGED <<up, status, future, runs, restarts>>
    BY DEF TakeFault, Fault, rowVars
<1>3. \A k \in Range(putters) : call[k] = "putting"
    BY DEF IInv, OnePlace
<1>4. \A k \in Jobs : HeldBy(k)' = HeldBy(k)
    BY <1>2, QueueAssumption DEF HeldBy, IInv, TypeOK
<1>5. Range(queue) \subseteq Jobs
    BY LinesOfJobs DEF IInv
<1>6. TypeOK'
    BY <1>1, <1>2, QueueAssumption DEF IInv, TypeOK
<1>7. OnePlace'
    <2>1. \A k \in Range(queue') :
             call'[k] \in Entered /\ future'[k] = "pending" /\ HeldBy(k)' = {}
        BY <1>1, <1>2, <1>4, <1>5 DEF IInv, OnePlace
    <2>2. ASSUME NEW v \in Workers, worker'[v] \in Jobs
          PROVE  /\ call'[worker'[v]] \in Entered /\ future'[worker'[v]] = "pending"
                 /\ HeldBy(worker[v])' = {v}
        <3>1. worker'[v] = worker[v]
            BY <1>2, <2>2, QueueAssumption DEF IInv, TypeOK
        <3>2. QED
            BY <1>1, <1>2, <1>4, <2>2, <3>1 DEF IInv, OnePlace
    <2>3. QED
        BY <1>1, <1>2, <2>1, <2>2 DEF IInv, OnePlace
<1>8. RunsAtMostOnce'
    BY <1>1, <1>2 DEF IInv, RunsAtMostOnce
<1>9. RowFollowsJob'
    BY <1>1, <1>2, <1>3, <1>4 DEF IInv, RowFollowsJob
<1>10. AnswerAgreesWithRow'
    BY <1>1, <1>2, <1>3 DEF IInv, AnswerAgreesWithRow
<1>11. QED
    BY <1>6, <1>7, <1>8, <1>9, <1>10 DEF IInv

\* A worker puts its job down: with an outcome, or by dying.
LEMMA RunEndsIInv ==
    ASSUME IInv, NEW w \in Workers, RunSucceeds(w) \/ RunFails(w) \/ RunFault(w)
    PROVE  IInv'
<1>1. PICK j \in Jobs, x \in {Idle, Dead}, r \in {"succeeded", "failed", "running"},
           o \in {"result", "exception", "pending"} :
        /\ worker[w] = j /\ worker' = [worker EXCEPT ![w] = x]
        /\ status' = IF r = "running" THEN status ELSE Mark(j, r)
        /\ future' = [future EXCEPT ![j] = o]
        /\ o = "result" => r = "succeeded" /\ status[j] # "deleted"
        /\ o = "exception" => r = "failed" \/ status[j] = "deleted"
    <2>1. CASE RunSucceeds(w)
        BY <2>1 DEF RunSucceeds
    <2>2. CASE RunFails(w)
        BY <2>2 DEF RunFails
    <2>3. CASE RunFault(w)
        <3>1. future' = [future EXCEPT ![worker[w]] = "pending"]
            BY <2>3 DEF RunFault, IInv, TypeOK, OnePlace
        <3>2. CASE status' = status
            BY <2>3, <3>1, <3>2 DEF RunFault
        <3>3. CASE status' = Mark(worker[w], "succeeded")
            BY <2>3, <3>1, <3>3 DEF RunFault
        <3>4. QED
            BY <2>3, <3>2, <3>3 DEF RunFault
    <2>4. QED
        BY <2>1, <2>2, <2>3
<1>2. UNCHANGED <<up, queue, putters, call, runs, restarts>> /\ faults' \in 0..MaxFaults
    BY QueueAssumption DEF RunSucceeds, RunFails, RunFault, Fault, callVars, IInv, TypeOK
<1>3. /\ call[j] \in Entered /\ future[j] = "pending" /\ HeldBy(j) = {w}
      /\ status[j] \in {"running", "expired", "deleted"}
    <2>1. call[j] \in Entered /\ future[j] = "pending" /\ HeldBy(j) = {w}
        BY <1>1 DEF IInv, OnePlace
    <2>2. QED
        BY <2>1 DEF IInv, RowFollowsJob
<1>4. j \notin Range(queue)
    BY <1>3 DEF IInv, OnePlace
<1>5. \A u \in Workers : worker'[u] = IF u = w THEN x ELSE worker[u]
    BY <1>1 DEF IInv, TypeOK
<1>6. HeldBy(j)' = {} /\ \A k \in Jobs : k # j => HeldBy(k)' = HeldBy(k)
    BY <1>1, <1>3, <1>5, QueueAssumption DEF HeldBy
<1>7. Range(queue) \subseteq Jobs
    BY LinesOfJobs DEF IInv
<1>8. TypeOK'
    BY <1>1, <1>2 DEF IInv, TypeOK, Mark, Rows
<1>9. \A k \in Jobs : k # j => future'[k] = future[k] /\ status'[k] = status[k]
    BY <1>1 DEF IInv, TypeOK, Mark
<1>10. OnePlace'
    <2>1. \A k \in Range(queue') :
             call'[k] \in Entered /\ future'[k] = "pending" /\ HeldBy(k)' = {}
        BY <1>2, <1>4, <1>6, <1>7, <1>9 DEF IInv, OnePlace
    <2>2. ASSUME NEW v \in Workers, worker'[v] \in Jobs
          PROVE  /\ call'[worker'[v]] \in Entered /\ future'[worker'[v]] = "pending"
                 /\ HeldBy(worker[v])' = {v}
        <3>1. v # w /\ worker'[v] = worker[v]
            BY <1>1, <1>5, <2>2, QueueAssumption
        <3>2. worker[v] # j
            BY <1>3, <3>1 DEF HeldBy
        <3>3. HeldBy(worker[v])' = HeldBy(worker[v])
            BY <1>6, <2>2, <3>1, <3>2 DEF HeldBy
        <3>4. QED
            BY <1>2, <1>9, <2>2, <3>1, <3>2, <3>3 DEF IInv, OnePlace
    <2>3. \A k \in Jobs : future'[k] # "pending" => call'[k] \in Entered
        BY <1>2, <1>3, <1>9 DEF IInv, OnePlace
    <2>4. QED
        BY <1>2, <2>1, <2>2, <2>3 DEF IInv, OnePlace
<1>11. RunsAtMostOnce'
    BY <1>2 DEF IInv, RunsAtMostOnce
<1>12. RowFollowsJob'
    <2>1. SUFFICES ASSUME NEW k \in Jobs
                   PROVE  /\ call'[k] = "idle" <=> status'[k] = "none" /\ call'[k] # "500"
                          /\ call'[k] \in {"putting", "woken"} \/ k \in Range(queue') =>
                                 status'[k] \in {"queued", "expired", "deleted"}
                          /\ HeldBy(k)' # {} => status'[k] \in {"running", "expired", "deleted"}
                          /\ future'[k] = "result" => status'[k] \in {"succeeded", "expired", "deleted"}
                          /\ future'[k] = "exception" => status'[k] \in {"failed", "expired", "deleted"}
        BY DEF RowFollowsJob
    <2>2. CASE k = j
        BY <1>1, <1>2, <1>3, <1>4, <1>6, <2>2 DEF IInv, TypeOK, RowFollowsJob, Mark, Entered
    <2>3. CASE k # j
        BY <1>2, <1>6, <1>9, <2>3 DEF IInv, RowFollowsJob
    <2>4. QED
        BY <2>2, <2>3
<1>13. AnswerAgreesWithRow'
    <2>1. call[j] \notin {"200", "502", "503", "504put"}
        BY <1>3 DEF IInv, AnswerAgreesWithRow, Entered
    <2>2. QED
        BY <1>2, <1>9, <2>1 DEF IInv, AnswerAgreesWithRow
<1>14. QED
    BY <1>8, <1>10, <1>11, <1>12, <1>13 DEF IInv

LEMMA SubmitFaultIInv == ASSUME IInv, NEW j \in Jobs, SubmitFault(j) PROVE IInv'
<1>1. /\ j \notin Range(queue) /\ HeldBy(j) = {}
      /\ runs[j] = 0 /\ future[j] = "pending" /\ status[j] = "none"
    BY NotHandedOver DEF SubmitFault, Arrives, Entered, IInv, RowFollowsJob
<1>2. PICK c \in {"500", "500queued"}, r \in {"none", "queued"} :
        /\ call[j] = "idle" /\ call' = [call EXCEPT ![j] = c]
        /\ status' = [status EXCEPT ![j] = r]
        /\ c = "500queued" => r = "queued" /\ queue' = Append(queue, j)
        /\ c = "500" => queue' = queue
    <2>1. status = [status EXCEPT ![j] = "none"]
        BY <1>1 DEF IInv, TypeOK
    <2>2. QED
        BY <2>1 DEF SubmitFault, Arrives
<1>3. UNCHANGED <<up, putters, future, worker, runs, restarts>> /\ faults' \in 0..MaxFaults
    BY QueueAssumption DEF SubmitFault, Fault, IInv, TypeOK
<1>4. /\ queue' \in Seq(Jobs) /\ IsInjective(queue')
      /\ Range(queue') = IF c = "500queued" THEN Range(queue) \cup {j} ELSE Range(queue)
    <2>1. CASE c = "500queued"
        <3>1. queue \in Seq(Jobs) /\ IsInjective(queue) /\ j \notin Range(queue)
            BY <1>1 DEF IInv, TypeOK, OnePlace
        <3>2. queue' = Append(queue, j)
            BY <1>2, <2>1
        <3>3. /\ Append(queue, j) \in Seq(Jobs) /\ IsInjective(Append(queue, j))
              /\ Range(Append(queue, j)) = Range(queue) \cup {j}
            BY <3>1, AppendToLine
        <3>4. QED
            BY <2>1, <3>2, <3>3
    <2>2. CASE c = "500"
        BY <1>2, <2>2 DEF IInv, TypeOK, OnePlace
    <2>3. QED
        BY <1>2, <2>1, <2>2
<1>5. Range(queue) \subseteq Jobs
    BY LinesOfJobs DEF IInv
<1>6. \A k \in Jobs : HeldBy(k)' = HeldBy(k)
    BY <1>3 DEF HeldBy
<1>7. TypeOK'
    BY <1>2, <1>3, <1>4 DEF IInv, TypeOK, Rows, Calls, Entered, Refusals
<1>8. OnePlace'
    <2>1. \A k \in Range(queue') :
             call'[k] \in Entered /\ future'[k] = "pending" /\ HeldBy(k)' = {}
        BY <1>1, <1>2, <1>3, <1>4, <1>5, <1>6 DEF IInv, TypeOK, OnePlace, Entered
    <2>2. \A k \in Jobs : k # j => call'[k] = call[k]
        BY <1>2 DEF IInv, TypeOK
    <2>3. Range(putters') = {k \in Jobs : call'[k] = "putting"}
        BY <1>2, <1>3 DEF IInv, TypeOK, OnePlace
    <2>4. ASSUME NEW v \in Workers, worker'[v] \in Jobs
          PROVE  /\ call'[worker'[v]] \in Entered /\ future'[worker'[v]] = "pending"
                 /\ HeldBy(worker[v])' = {v}
        <3>1. worker'[v] = worker[v] /\ worker[v] # j
            BY <1>1, <1>3 DEF HeldBy
        <3>2. QED
            BY <1>3, <1>6, <2>2, <2>4, <3>1 DEF IInv, OnePlace
    <2>5. QED
        BY <1>1, <1>3, <1>4, <2>1, <2>2, <2>3, <2>4 DEF IInv, OnePlace
<1>9. RunsAtMostOnce'
    BY <1>1, <1>2, <1>3, <1>4 DEF IInv, TypeOK, RunsAtMostOnce
<1>10. RowFollowsJob'
    BY <1>1, <1>2, <1>3, <1>4, <1>6 DEF IInv, TypeOK, RowFollowsJob
<1>11. AnswerAgreesWithRow'
    BY <1>1, <1>2, <1>3 DEF IInv, TypeOK, AnswerAgreesWithRow
<1>12. QED
    BY <1>7, <1>8, <1>9, <1>10, <1>11 DEF IInv

LEMMA SweepIInv == ASSUME IInv, NEW j \in Jobs, Expire(j) \/ AdminDelete(j) PROVE IInv'
<1>1. PICK r \in {"expired", "deleted"} :
        status[j] # "none" /\ status' = [status EXCEPT ![j] = r]
    BY DEF Expire, AdminDelete
<1>2. UNCHANGED <<up, queue, putters, call, future, worker, runs, restarts, faults>>
    BY DEF Expire, AdminDelete, callVars
<1>3. TypeOK'
    BY <1>1, <1>2 DEF IInv, TypeOK, Rows
<1>4. OnePlace' /\ RunsAtMostOnce'
    BY <1>2 DEF IInv, OnePlace, RunsAtMostOnce, HeldBy
<1>5. RowFollowsJob'
    BY <1>1, <1>2 DEF IInv, TypeOK, RowFollowsJob, HeldBy
<1>6. AnswerAgreesWithRow'
    BY <1>1, <1>2 DEF IInv, TypeOK, AnswerAgreesWithRow
<1>7. QED
    BY <1>3, <1>4, <1>5, <1>6 DEF IInv

LEMMA ProcessEndsIInv == ASSUME IInv, Shutdown \/ Crash PROVE IInv'
<1>1. /\ up' = FALSE /\ queue' = <<>> /\ putters' = <<>>
      /\ worker' = [w \in Workers |-> Idle]
      /\ restarts < MaxRestarts /\ restarts' = restarts + 1
      /\ UNCHANGED <<faults, status, future, runs>>
    BY DEF Shutdown, Crash, ProcessEnds, rowVars
<1>2. call' = [j \in Jobs |-> IF call[j] \in InFlight THEN "dropped" ELSE call[j]]
    BY DEF Shutdown, Crash, IInv, TypeOK
<1>3. <<>> \in Seq(Jobs) /\ Range(<<>>) = {} /\ IsInjective(<<>>)
    BY DEF Range, IsInjective
<1>4. \A j \in Jobs : HeldBy(j)' = {}
    BY <1>1, QueueAssumption DEF HeldBy
<1>5. TypeOK'
    <2>1. call' \in [Jobs -> Calls] /\ worker' \in [Workers -> Jobs \cup {Idle, Dead}]
        BY <1>1, <1>2 DEF IInv, TypeOK, Calls, Entered
    <2>2. restarts' \in 0..MaxRestarts
        <3>1. restarts \in 0..MaxRestarts /\ MaxRestarts \in Nat
            BY QueueAssumption DEF IInv, TypeOK
        <3>2. QED
            BY <1>1, <3>1
    <2>3. QED
        BY <1>1, <1>3, <2>1, <2>2 DEF IInv, TypeOK
<1>6. OnePlace'
    BY <1>1, <1>2, <1>3, <1>4, QueueAssumption DEF IInv, OnePlace, InFlight, Entered
<1>7. RunsAtMostOnce'
    BY <1>1, <1>2, <1>3 DEF IInv, RunsAtMostOnce, Entered
<1>8. RowFollowsJob'
    BY <1>1, <1>2, <1>3, <1>4 DEF IInv, RowFollowsJob, InFlight
<1>9. AnswerAgreesWithRow'
    BY <1>1, <1>2 DEF IInv, AnswerAgreesWithRow
<1>10. QED
    BY <1>5, <1>6, <1>7, <1>8, <1>9 DEF IInv

LEMMA StartIInv == ASSUME IInv, Start PROVE IInv'
<1>1. up' = TRUE /\ UNCHANGED <<status, queue, putters, call, future, worker, runs, restarts, faults>>
    BY DEF Start, rowVars, callVars
<1>2. QED
    BY <1>1 DEF IInv, TypeOK, OnePlace, RunsAtMostOnce, RowFollowsJob, AnswerAgreesWithRow, HeldBy

LEMMA NextIInv == IInv /\ [Next]_vars => IInv'
<1> SUFFICES ASSUME IInv, [Next]_vars PROVE IInv'
    OBVIOUS
<1>1. ASSUME NEW j \in Jobs, Submission(j) PROVE IInv'
    BY <1>1, SubmitOnlyIInv, SubmitOnlyRefusedIInv, SubmitAndWaitIInv, SubmitFaultIInv
       DEF Submission
<1>2. ASSUME NEW j \in Jobs, CallStep(j) PROVE IInv'
    BY <1>2, PutResumesIInv, PutTimeoutIInv, PutTimeoutFaultIInv, ClientIInv DEF CallStep
<1>3. ASSUME NEW j \in Jobs, Expire(j) \/ AdminDelete(j) PROVE IInv'
    BY <1>3, SweepIInv
<1>4. ASSUME NEW w \in Workers, WorkerStep(w) PROVE IInv'
    BY <1>4, WorkerTakesIInv, TakeFaultIInv, RunEndsIInv DEF WorkerStep
<1>5. CASE Shutdown \/ Crash
    BY <1>5, ProcessEndsIInv
<1>6. CASE Start
    BY <1>6, StartIInv
<1>7. CASE UNCHANGED vars
    BY <1>7 DEF vars, IInv, TypeOK, OnePlace, RunsAtMostOnce, RowFollowsJob,
                AnswerAgreesWithRow, HeldBy
<1>8. QED
    BY <1>1, <1>2, <1>3, <1>4, <1>5, <1>6, <1>7 DEF Next

LEMMA Invariance == Spec => []IInv
    BY InitIInv, NextIInv, PTL DEF Spec

-----------------------------------------------------------------------------
\* Every variable keeps its type, whatever restarts and faults happen.
THEOREM TypeCorrect == Spec => []TypeOK
<1>1. IInv => TypeOK
    BY DEF IInv
<1>2. QED
    BY <1>1, Invariance, PTL

\* The queue, the line of callers waiting for room and the workers share the
\* jobs out: no job is in two places, none has an outcome while it is in one.
THEOREM JobsInOnePlace == Spec => []OnePlace
<1>1. IInv => OnePlace
    BY DEF IInv
<1>2. QED
    BY <1>1, Invariance, PTL

\* Quota is spent at most once per job, and never for a refused one.
THEOREM NoSecondRun == Spec => []RunsAtMostOnce
<1>1. IInv => RunsAtMostOnce
    BY DEF IInv
<1>2. QED
    BY <1>1, Invariance, PTL

\* What polling shows is where the job is, or that the row was swept or deleted.
THEOREM RowsTellTheTruth == Spec => []RowFollowsJob
<1>1. IInv => RowFollowsJob
    BY DEF IInv
<1>2. QED
    BY <1>1, Invariance, PTL

\* What the synchronous caller was told stays consistent with its row.
THEOREM AnswersTellTheTruth == Spec => []AnswerAgreesWithRow
<1>1. IInv => AnswerAgreesWithRow
    BY DEF IInv
<1>2. QED
    BY <1>1, Invariance, PTL

\* No step of anyone overwrites an outcome a poller has seen: the invariant
\* keeps the jobs that are still written to apart from those with an outcome.
THEOREM OutcomesAreFinal == Spec => OutcomeIsFinal
<1> DEFINE Keeps == \A j \in Jobs : status[j] \in {"succeeded", "failed"} =>
                       status'[j] \in {status[j], "expired", "deleted"}
<1>1. IInv /\ [Next]_vars => [Keeps]_vars
    <2> SUFFICES ASSUME IInv, Next, NEW j \in Jobs, status[j] \in {"succeeded", "failed"}
                 PROVE  status'[j] \in {status[j], "expired", "deleted"}
        OBVIOUS
    <2>t. status \in [Jobs -> Rows]
        BY DEF IInv, TypeOK
    <2>1. /\ call[j] \notin {"idle", "putting", "woken"}
          /\ j \notin Range(queue) /\ HeldBy(j) = {}
        BY DEF IInv, RowFollowsJob
    <2>2. ASSUME NEW i \in Jobs, Submission(i) PROVE status'[j] = status[j]
        BY <2>t, <2>1, <2>2
           DEF Submission, SubmitOnly, SubmitOnlyRefused, SubmitAndWait, SubmitFault, Arrives
    <2>3. ASSUME NEW i \in Jobs, CallStep(i) PROVE status'[j] = status[j]
        <3>1. CASE PutTimeout(i)
            <4>1. call[i] \in {"putting", "woken"} /\ status' = Mark(i, "failed")
                BY <3>1 DEF PutTimeout, PutCancelled
            <4>2. QED
                BY <2>t, <2>1, <4>1 DEF Mark
        <3>2. CASE ~PutTimeout(i)
            BY <2>3, <3>2 DEF CallStep, PutResumes, PutTimeoutFault, ClientAnswered,
                              ClientTimeout, rowVars
        <3>3. QED
            BY <3>1, <3>2
    <2>4. ASSUME NEW w \in Workers, WorkerStep(w) PROVE status'[j] = status[j]
        <3>1. CASE WorkerTakes(w)
            <4>1. Head(queue) \in Range(queue) /\ status' = Mark(Head(queue), "running")
                BY <3>1, GetFacts DEF WorkerTakes
            <4>2. QED
                BY <2>t, <2>1, <4>1 DEF Mark
        <3>2. CASE RunSucceeds(w) \/ RunFails(w) \/ RunFault(w)
            <4>1. worker[w] # j
                BY <2>1 DEF HeldBy
            <4>2. QED
                BY <2>t, <3>2, <4>1 DEF RunSucceeds, RunFails, RunFault, Mark
        <3>3. CASE TakeFault(w)
            BY <3>3 DEF TakeFault, rowVars
        <3>4. QED
            BY <2>4, <3>1, <3>2, <3>3 DEF WorkerStep
    <2>5. ASSUME NEW i \in Jobs, Expire(i) \/ AdminDelete(i)
          PROVE  status'[j] \in {status[j], "expired", "deleted"}
        BY <2>t, <2>5 DEF Expire, AdminDelete
    <2>6. CASE Shutdown \/ Crash \/ Start
        BY <2>6 DEF Shutdown, Crash, Start, ProcessEnds, rowVars
    <2>7. QED
        BY <2>2, <2>3, <2>4, <2>5, <2>6 DEF Next
<1>2. QED
    BY <1>1, Invariance, PTL DEF Spec, OutcomeIsFinal
-----------------------------------------------------------------------------
(***************************************************************************)
(* The hand-over of slots.  The jobs must be finitely many, for the woken  *)
(* calls to be counted.                                                    *)
(***************************************************************************)
WokenCalls == {j \in Jobs : call[j] = "woken"}

\* A cancelled put that had been woken passes its slot on: as many calls are on
\* their way to one afterwards.
LEMMA SlotPassedOn ==
    ASSUME IsFiniteSet(Jobs), IInv, NoLostWakeup, UNCHANGED queue,
           NEW j \in Jobs, NEW c \in Refusals, PutCancelled(j, c)
    PROVE  NoLostWakeup'
<1>t. /\ putters \in Seq(Jobs) /\ call \in [Jobs -> Calls] /\ c # "woken"
      /\ queue \in Seq(Jobs) /\ Len(queue) \in Nat /\ QueueSize \in Nat
      /\ Range(putters) = {k \in Jobs : call[k] = "putting"}
    BY QueueAssumption DEF IInv, TypeOK, OnePlace, Refusals
<1>f. IsFiniteSet(WokenCalls) /\ Cardinality(WokenCalls) \in Nat
    BY FS_Subset, FS_CardinalityType DEF WokenCalls
<1>1. CASE call[j] = "putting"
    <2>1. WokenCalls' = WokenCalls
        BY <1>t, <1>1 DEF PutCancelled, WokenCalls
    <2>2. putters # <<>>
        BY <1>t, <1>1 DEF PutCancelled
    <2>3. QED
        BY <2>1, <2>2 DEF NoLostWakeup, WokenCalls
<1>2. CASE call[j] = "woken" /\ Full
    <2>1. WokenCalls' = WokenCalls \ {j}
        BY <1>t, <1>2 DEF PutCancelled, WokenCalls
    <2>2. Cardinality(WokenCalls') \in Nat
        BY <1>f, <2>1, FS_RemoveElement, FS_CardinalityType
    <2>3. QED
        BY <1>t, <1>2, <2>2 DEF NoLostWakeup, WokenCalls, Full
<1>3. CASE call[j] = "woken" /\ ~Full /\ putters # <<>>
    <2>1. /\ Head(putters) \in Jobs /\ call[Head(putters)] = "putting"
          /\ Head(putters) # j
        BY <1>t, <1>3, TailOfLine DEF IInv, OnePlace
    <2>2. call' = [[call EXCEPT ![j] = c] EXCEPT ![Head(putters)] = "woken"]
        BY <1>3 DEF PutCancelled, Wake
    <2>3. WokenCalls' = (WokenCalls \ {j}) \cup {Head(putters)}
        BY <1>t, <2>1, <2>2 DEF WokenCalls
    <2>4. j \in WokenCalls /\ Head(putters) \notin WokenCalls \ {j}
        BY <1>3, <2>1 DEF WokenCalls
    <2>5. /\ IsFiniteSet(WokenCalls \ {j})
          /\ Cardinality(WokenCalls \ {j}) = Cardinality(WokenCalls) - 1
        BY <1>f, <2>4, FS_RemoveElement
    <2>6. Cardinality(WokenCalls') = Cardinality(WokenCalls)
        <3> DEFINE Others == WokenCalls \ {j}
        <3>1. IsFiniteSet(Others) /\ Head(putters) \notin Others
            BY <2>4, <2>5
        <3> HIDE DEF Others
        <3>2. Cardinality(Others \cup {Head(putters)}) = Cardinality(Others) + 1
            BY <3>1, FS_AddElement
        <3>3. QED
            BY <1>f, <2>3, <2>5, <3>2 DEF Others
    <2>7. QED
        BY <1>3, <2>6 DEF NoLostWakeup, WokenCalls
<1>4. CASE call[j] = "woken" /\ ~Full /\ putters = <<>>
    BY <1>4 DEF PutCancelled, Woken, NoLostWakeup
<1>5. QED
    BY <1>1, <1>2, <1>3, <1>4 DEF PutCancelled

\* A slot that a worker frees goes with the wake-up of the oldest putter.
LEMMA SlotHandedOver ==
    ASSUME IsFiniteSet(Jobs), IInv, NoLostWakeup, Get
    PROVE  NoLostWakeup'
<1>t. /\ putters \in Seq(Jobs) /\ call \in [Jobs -> Calls]
      /\ queue \in Seq(Jobs) /\ Len(queue) \in Nat /\ QueueSize \in Nat
      /\ Range(putters) = {k \in Jobs : call[k] = "putting"}
    BY QueueAssumption DEF IInv, TypeOK, OnePlace
<1>f. IsFiniteSet(WokenCalls) /\ Cardinality(WokenCalls) \in Nat
    BY FS_Subset, FS_CardinalityType DEF WokenCalls
<1>1. CASE putters = <<>>
    BY <1>1 DEF Get, Woken, NoLostWakeup
<1>2. CASE putters # <<>>
    <2>1. Head(putters) \in Jobs /\ call[Head(putters)] = "putting"
        BY <1>t, <1>2, TailOfLine DEF IInv, OnePlace
    <2>2. WokenCalls' = WokenCalls \cup {Head(putters)} /\ Head(putters) \notin WokenCalls
        BY <1>t, <1>2, <2>1 DEF Get, Wake, WokenCalls
    <2>3. Cardinality(WokenCalls') = Cardinality(WokenCalls) + 1
        BY <1>f, <2>2, FS_AddElement
    <2>4. Len(queue') = Len(queue) - 1
        BY <1>t DEF Get
    <2>5. QED
        BY <1>t, <1>f, <1>2, <2>3, <2>4 DEF NoLostWakeup, WokenCalls
<1>3. QED
    BY <1>1, <1>2

\* A woken putter that finds its slot takes it; one that finds it taken leaves
\* no free slot behind.
LEMMA SlotTaken ==
    ASSUME IsFiniteSet(Jobs), IInv, NoLostWakeup, NEW j \in Jobs,
           SubmitAndWait(j) \/ PutResumes(j)
    PROVE  NoLostWakeup'
<1>t. /\ putters \in Seq(Jobs) /\ call \in [Jobs -> Calls]
      /\ queue \in Seq(Jobs) /\ Len(queue) \in Nat /\ QueueSize \in Nat
    BY QueueAssumption DEF IInv, TypeOK
<1>f. IsFiniteSet(WokenCalls) /\ Cardinality(WokenCalls) \in Nat
    BY FS_Subset, FS_CardinalityType DEF WokenCalls
<1>1. WokenCalls' = WokenCalls \ {j}
    BY <1>t DEF SubmitAndWait, PutResumes, Arrives, WokenCalls
<1>2. /\ Cardinality(WokenCalls') \in Nat
      /\ Cardinality(WokenCalls') >= Cardinality(WokenCalls) - 1
      /\ j \notin WokenCalls => Cardinality(WokenCalls') = Cardinality(WokenCalls)
    <2>1. /\ IsFiniteSet(WokenCalls \ {j})
          /\ Cardinality(WokenCalls \ {j}) = IF j \in WokenCalls THEN Cardinality(WokenCalls) - 1
                                                              ELSE Cardinality(WokenCalls)
        BY <1>f, FS_RemoveElement
    <2>2. Cardinality(WokenCalls \ {j}) \in Nat
        BY <2>1, FS_CardinalityType
    <2>3. QED
        BY <1>f, <1>1, <2>1, <2>2
<1>3. CASE Full
    <2>1. queue' = queue
        BY <1>3 DEF SubmitAndWait, PutResumes
    <2>2. QED
        BY <1>t, <1>2, <1>3, <2>1 DEF NoLostWakeup, WokenCalls, Full
<1>4. CASE ~Full
    <2>1. putters' = putters /\ queue' = Append(queue, j)
        BY <1>4 DEF SubmitAndWait, PutResumes
    <2>2. Len(queue') = Len(queue) + 1
        BY <1>t, <2>1
    <2>3. QED
        BY <1>t, <1>f, <1>2, <2>1, <2>2 DEF NoLostWakeup, WokenCalls
<1>5. QED
    BY <1>3, <1>4

LEMMA NextSlots ==
    ASSUME IsFiniteSet(Jobs), IInv, NoLostWakeup, [Next]_vars
    PROVE  NoLostWakeup'
<1>t. /\ call \in [Jobs -> Calls] /\ queue \in Seq(Jobs) /\ Len(queue) \in Nat
      /\ QueueSize \in Nat
    BY QueueAssumption DEF IInv, TypeOK
<1>f. IsFiniteSet(WokenCalls) /\ Cardinality(WokenCalls) \in Nat
    BY FS_Subset, FS_CardinalityType DEF WokenCalls
<1>1. ASSUME NEW j \in Jobs, SubmitOnly(j) \/ SubmitOnlyRefused(j) \/ SubmitFault(j)
      PROVE  NoLostWakeup'
    <2>1. WokenCalls' = WokenCalls /\ putters' = putters
        BY <1>t, <1>1 DEF SubmitOnly, SubmitOnlyRefused, SubmitFault, Arrives, WokenCalls
    <2>2. queue' = queue \/ queue' = Append(queue, j)
        BY <1>1 DEF SubmitOnly, SubmitOnlyRefused, SubmitFault
    <2>3. Len(queue') \in Nat /\ Len(queue') >= Len(queue)
        BY <1>t, <2>2
    <2>4. QueueSize - Len(queue') <= QueueSize - Len(queue)
        BY <1>t, <2>3
    <2>5. ASSUME putters # <<>> PROVE QueueSize - Len(queue) <= Cardinality(WokenCalls)
        BY <2>5 DEF NoLostWakeup, WokenCalls
    <2>6. ASSUME putters' # <<>> PROVE QueueSize - Len(queue') <= Cardinality(WokenCalls')
        BY <1>t, <1>f, <2>1, <2>3, <2>4, <2>5, <2>6
    <2>7. QED
        BY <2>6 DEF NoLostWakeup, WokenCalls
<1>2. ASSUME NEW j \in Jobs, SubmitAndWait(j) \/ PutResumes(j) PROVE NoLostWakeup'
    BY <1>2, SlotTaken
<1>3. ASSUME NEW j \in Jobs, PutTimeout(j) \/ PutTimeoutFault(j) PROVE NoLostWakeup'
    BY <1>3, SlotPassedOn DEF PutTimeout, PutTimeoutFault, Refusals
<1>4. ASSUME NEW j \in Jobs, ClientAnswered(j) \/ ClientTimeout(j) PROVE NoLostWakeup'
    <2>1. WokenCalls' = WokenCalls /\ putters' = putters /\ queue' = queue
        BY <1>t, <1>4 DEF ClientAnswered, ClientTimeout, WokenCalls
    <2>2. QED
        BY <2>1 DEF NoLostWakeup, WokenCalls
<1>5. ASSUME NEW w \in Workers, WorkerTakes(w) \/ TakeFault(w) PROVE NoLostWakeup'
    BY <1>5, SlotHandedOver DEF WorkerTakes, TakeFault
<1>6. ASSUME UNCHANGED callVars PROVE NoLostWakeup'
    BY <1>6 DEF callVars, NoLostWakeup
<1>7. CASE Shutdown \/ Crash
    BY <1>7 DEF Shutdown, Crash, ProcessEnds, NoLostWakeup
<1>8. QED
    BY <1>1, <1>2, <1>3, <1>4, <1>5, <1>6, <1>7
       DEF Next, vars, callVars, Submission, CallStep, WorkerStep, RunSucceeds, RunFails,
           RunFault, Expire, AdminDelete, Start

\* For any queue size, and any number of callers in line and of wake-ups under
\* way: no free slot of asyncio.Queue is left without somebody to take it while
\* callers wait in put().
THEOREM WakeupsArrive == IsFiniteSet(Jobs) /\ Spec => []NoLostWakeup
<1> SUFFICES ASSUME IsFiniteSet(Jobs) PROVE Spec => []NoLostWakeup
    OBVIOUS
<1>1. Init => NoLostWakeup
    BY DEF Init, NoLostWakeup
<1>2. IInv /\ NoLostWakeup /\ [Next]_vars => NoLostWakeup'
    BY NextSlots
<1>3. QED
    BY <1>1, <1>2, Invariance, PTL DEF Spec

-----------------------------------------------------------------------------
\* Every job that a row calls queued or running is held by somebody.
LEMMA NextKept ==
    ASSUME IInv, NoForgottenJob, [Next]_vars
    PROVE  NoForgottenJob'
<1>t. /\ call \in [Jobs -> Calls] /\ status \in [Jobs -> Rows]
      /\ worker \in [Workers -> Jobs \cup {Idle, Dead}]
      /\ restarts \in Nat /\ faults \in Nat /\ MaxFaults \in Nat
      /\ Idle \notin Jobs /\ Dead \notin Jobs
    BY QueueAssumption DEF IInv, TypeOK
<1> SUFFICES ASSUME restarts' = 0, faults' = 0, NEW j \in Jobs
             PROVE  /\ status'[j] = "queued" => \/ call'[j] \in {"putting", "woken"}
                                                \/ j \in Range(queue')
                    /\ status'[j] = "running" => HeldBy(j)' # {}
    BY DEF NoForgottenJob
<1>k. restarts = 0 /\ faults = 0
    <2>1. restarts' \in {restarts, restarts + 1} /\ faults' \in {faults, faults + 1}
        BY <1>t DEF Next, vars, Submission, CallStep, WorkerStep, SubmitOnly,
           SubmitOnlyRefused, SubmitAndWait, SubmitFault, PutResumes, PutTimeout,
           PutTimeoutFault, ClientAnswered, ClientTimeout, WorkerTakes, RunSucceeds,
           RunFails, TakeFault, RunFault, Expire, AdminDelete, Shutdown, Crash, Start,
           ProcessEnds, Fault
    <2>2. QED
        BY <1>t, <2>1
<1>h. /\ status[j] = "queued" => call[j] \in {"putting", "woken"} \/ j \in Range(queue)
      /\ status[j] = "running" => HeldBy(j) # {}
    BY <1>k DEF NoForgottenJob
<1>1. ASSUME NEW i \in Jobs, SubmitOnly(i) \/ SubmitOnlyRefused(i) \/ SubmitAndWait(i)
      PROVE  /\ status'[j] = "queued" => \/ call'[j] \in {"putting", "woken"}
                                         \/ j \in Range(queue')
             /\ status'[j] = "running" => HeldBy(j)' # {}
    <2>1. /\ worker' = worker
          /\ i # j => status'[j] = status[j] /\ call'[j] = call[j]
          /\ status'[i] \in {"queued", "failed"}
        BY <1>t, <1>1 DEF SubmitOnly, SubmitOnlyRefused, SubmitAndWait
    <2>q. /\ i \notin Range(queue) /\ queue \in Seq(Jobs) /\ IsInjective(queue)
        BY <1>1, NotHandedOver
           DEF SubmitOnly, SubmitOnlyRefused, SubmitAndWait, Arrives, Entered, IInv, TypeOK, OnePlace
    <2>a. Range(Append(queue, i)) = Range(queue) \cup {i}
        BY <2>q, AppendToLine
    <2>b. queue' \in {queue, Append(queue, i)}
        BY <1>1 DEF SubmitOnly, SubmitOnlyRefused, SubmitAndWait
    <2>2. Range(queue) \subseteq Range(queue')
        BY <2>a, <2>b
    <2>3. status'[i] = "queued" => call'[i] = "putting" \/ i \in Range(queue')
        BY <1>t, <1>1, <2>a DEF SubmitOnly, SubmitOnlyRefused, SubmitAndWait
    <2>4. HeldBy(j)' = HeldBy(j)
        BY <2>1 DEF HeldBy
    <2>5. QED
        BY <1>h, <2>1, <2>2, <2>3, <2>4
<1>2. ASSUME NEW i \in Jobs, CallStep(i)
      PROVE  /\ status'[j] = "queued" => \/ call'[j] \in {"putting", "woken"}
                                         \/ j \in Range(queue')
             /\ status'[j] = "running" => HeldBy(j)' # {}
    <2>1. worker' = worker /\ HeldBy(j)' = HeldBy(j)
        BY <1>2 DEF CallStep, PutResumes, PutTimeout, PutTimeoutFault, ClientAnswered,
                    ClientTimeout, HeldBy
    <2>2. CASE PutTimeout(i)
        <3>1. /\ call' = [k \in Jobs |-> IF k = i THEN "504put"
                                         ELSE IF k \in Range(putters) \ Range(putters')
                                         THEN "woken" ELSE call[k]]
              /\ status' = Mark(i, "failed") /\ queue' = queue
            BY <2>2, CancelFacts DEF PutTimeout, Refusals
        <3>2. QED
            BY <1>t, <1>h, <2>1, <3>1 DEF Mark
    <2>3. CASE PutTimeoutFault(i)
        BY <1>t, <1>k, <2>3 DEF PutTimeoutFault, Fault
    <2>4. CASE PutResumes(i)
        <3>1. Range(queue) \subseteq Range(queue') /\ (i \in Range(queue') \/ call'[i] = "putting")
            BY <1>t, <2>4, JoinFacts DEF PutResumes
        <3>2. QED
            BY <1>t, <1>h, <2>1, <2>4, <3>1 DEF PutResumes, rowVars
    <2>5. CASE ClientAnswered(i) \/ ClientTimeout(i)
        BY <1>t, <1>h, <2>1, <2>5 DEF ClientAnswered, ClientTimeout, rowVars
    <2>6. QED
        BY <1>2, <2>2, <2>3, <2>4, <2>5 DEF CallStep
<1>3. ASSUME NEW w \in Workers, WorkerStep(w)
      PROVE  /\ status'[j] = "queued" => \/ call'[j] \in {"putting", "woken"}
                                         \/ j \in Range(queue')
             /\ status'[j] = "running" => HeldBy(j)' # {}
    <2>1. CASE WorkerTakes(w)
        <3>1. /\ Range(queue') = Range(queue) \ {Head(queue)}
              /\ call' = [k \in Jobs |-> IF k \in Range(putters) \ Range(putters')
                                         THEN "woken" ELSE call[k]]
              /\ Head(queue) \in Jobs
            BY <2>1, GetFacts DEF WorkerTakes
        <3>2. /\ status' = Mark(Head(queue), "running")
              /\ worker[w] = Idle /\ worker' = [worker EXCEPT ![w] = Head(queue)]
            BY <2>1 DEF WorkerTakes
        <3>3. HeldBy(j) \subseteq HeldBy(j)'
            <4> SUFFICES ASSUME NEW v \in Workers, worker[v] = j PROVE worker'[v] = j
                BY DEF HeldBy
            <4>1. v # w
                BY <1>t, <3>2
            <4>2. QED
                BY <1>t, <3>2, <4>1
        <3>4. worker'[w] = Head(queue)
            BY <1>t, <3>2
        <3>5. CASE j = Head(queue)
            <4>1. HeldBy(j)' # {}
                BY <3>4, <3>5 DEF HeldBy
            <4>2. status'[j] # "queued"
                BY <1>t, <3>1, <3>2, <3>5 DEF Mark
            <4>3. QED
                BY <4>1, <4>2
        <3>6. CASE j # Head(queue)
            <4>1. status'[j] = status[j]
                BY <1>t, <3>2, <3>6 DEF Mark
            <4>2. j \in Range(queue) => j \in Range(queue')
                BY <3>1, <3>6
            <4>3. call[j] \in {"putting", "woken"} => call'[j] \in {"putting", "woken"}
                BY <3>1
            <4>4. QED
                BY <1>h, <3>3, <4>1, <4>2, <4>3
        <3>7. QED
            BY <3>5, <3>6
    <2>2. CASE RunSucceeds(w) \/ RunFails(w)
        <3>1. /\ worker[w] \in Jobs /\ worker' = [worker EXCEPT ![w] = Idle]
              /\ status' \in {Mark(worker[w], "succeeded"), Mark(worker[w], "failed")}
              /\ queue' = queue /\ call' = call
            BY <2>2 DEF RunSucceeds, RunFails, callVars
        <3>2. j # worker[w] => status'[j] = status[j] /\ HeldBy(j)' = HeldBy(j)
            BY <1>t, <3>1 DEF Mark, HeldBy
        <3>3. j = worker[w] => status'[j] \in {"succeeded", "failed", "deleted"}
            BY <1>t, <3>1 DEF Mark
        <3>4. QED
            BY <1>h, <3>1, <3>2, <3>3
    <2>3. CASE TakeFault(w) \/ RunFault(w)
        BY <1>t, <1>k, <2>3 DEF TakeFault, RunFault, Fault
    <2>4. QED
        BY <1>3, <2>1, <2>2, <2>3 DEF WorkerStep
<1>4. ASSUME NEW i \in Jobs, Expire(i) \/ AdminDelete(i)
      PROVE  /\ status'[j] = "queued" => \/ call'[j] \in {"putting", "woken"}
                                         \/ j \in Range(queue')
             /\ status'[j] = "running" => HeldBy(j)' # {}
    BY <1>t, <1>h, <1>4 DEF Expire, AdminDelete, callVars, HeldBy
<1>5. CASE Start \/ UNCHANGED vars
    BY <1>h, <1>5 DEF Start, vars, rowVars, callVars, HeldBy
<1>6. ~Shutdown /\ ~Crash
    BY <1>t, <1>k DEF Shutdown, Crash, ProcessEnds
<1>7. ASSUME NEW i \in Jobs, SubmitFault(i) PROVE FALSE
    BY <1>t, <1>k, <1>7 DEF SubmitFault, Fault
<1>8. QED
    BY <1>1, <1>2, <1>3, <1>4, <1>5, <1>6, <1>7 DEF Next, Submission

\* As long as the process lives and its database works, what is told to pollers
\* as queued or running is really going to happen: nothing is dropped between
\* callers, queue and workers.
THEOREM NothingIsForgotten == Spec => []NoForgottenJob
<1>1. Init => NoForgottenJob
    BY DEF Init, NoForgottenJob
<1>2. IInv /\ NoForgottenJob /\ [Next]_vars => NoForgottenJob'
    BY NextKept
<1>3. QED
    BY <1>1, <1>2, Invariance, PTL DEF Spec
-----------------------------------------------------------------------------
(***************************************************************************)
(* The refinement of JobContract.  Stage and Told are the abstract state;  *)
(* a step changes the stage or the answer of one job at most, but for the  *)
(* end of the process, which is the contract's Collapse.                   *)
(***************************************************************************)
Stage == [j \in Jobs |-> StageOf(j)]
Told == [j \in Jobs |-> ToldOf(j)]

\* A job in line or in the queue is pending; one that a worker holds is running
\* and not pending; a call that waits belongs to a job that is not refused.
LEMMA StageFacts ==
    ASSUME IInv, NEW j \in Jobs
    PROVE  /\ call[j] \in {"putting", "woken"} \/ j \in Range(queue) =>
                  StageOf(j) = "pending"
           /\ HeldBy(j) # {} => StageOf(j) = "running"
           /\ future[j] = "result" => StageOf(j) = "done"
           /\ future[j] = "exception" => StageOf(j) = "failed"
           /\ call[j] = "idle" => StageOf(j) = "new" /\ ToldOf(j) = "nothing"
           /\ call[j] \in InFlight => ToldOf(j) = "nothing"
           /\ call[j] = "waiting" => StageOf(j) \notin {"new", "refused"}
<1>1. /\ call[j] \in {"putting", "woken"} => future[j] = "pending"
      /\ j \in Range(queue) => call[j] \in Entered /\ future[j] = "pending"
      /\ HeldBy(j) # {} => call[j] \in Entered /\ future[j] = "pending" /\ j \notin Range(queue)
      /\ future[j] # "pending" => call[j] \in Entered
      /\ future[j] \in {"pending", "result", "exception"}
    <2>1. HeldBy(j) # {} => call[j] \in Entered /\ future[j] = "pending"
        BY DEF IInv, OnePlace, HeldBy
    <2>2. QED
        BY <2>1 DEF IInv, OnePlace, TypeOK, Entered
<1>2. QED
    BY <1>1 DEF StageOf, ToldOf, Pending, Running, Entered, Refusals, InFlight

\* No two of the stages StageOf tells apart ever hold together: it may be read
\* from the top down.
FirstStage(j) ==
    IF call[j] = "idle" THEN "new"
    ELSE IF call[j] \in Refusals THEN "refused"
    ELSE IF future[j] = "result" THEN "done"
    ELSE IF future[j] = "exception" THEN "failed"
    ELSE IF Pending(j) THEN "pending"
    ELSE IF Running(j) THEN "running"
    ELSE "lost"

LEMMA StagesApart == IInv => \A j \in Jobs : StageOf(j) = FirstStage(j)
<1> SUFFICES ASSUME IInv, NEW j \in Jobs PROVE StageOf(j) = FirstStage(j)
    OBVIOUS
<1>1. /\ call[j] \notin Entered =>
             j \notin Range(queue) /\ HeldBy(j) = {} /\ future[j] = "pending"
      /\ j \in Range(queue) => call[j] \in Entered /\ future[j] = "pending" /\ HeldBy(j) = {}
      /\ HeldBy(j) # {} => call[j] \in Entered /\ future[j] = "pending" /\ j \notin Range(queue)
    <2>1. HeldBy(j) # {} => call[j] \in Entered /\ future[j] = "pending"
        BY DEF IInv, OnePlace, HeldBy
    <2>2. QED
        BY <2>1, NotHandedOver DEF IInv, OnePlace
<1>2. QED
    BY <1>1 DEF StageOf, FirstStage, Pending, Running, Entered, Refusals

LEMMA StagesApartNext == IInv /\ [Next]_vars => \A j \in Jobs : StageOf(j)' = FirstStage(j)'
<1>1. IInv /\ [Next]_vars => IInv'
    BY NextIInv
<1>2. IInv' => (\A j \in Jobs : StageOf(j) = FirstStage(j))'
    BY StagesApart, PTL
<1>3. QED
    BY <1>1, <1>2

\* A job whose call stays where it was, or is woken, that stays in or out of the
\* queue and in or out of a worker's hands, and keeps its outcome.
LEMMA SameStage ==
    ASSUME NEW k \in Jobs,
           call'[k] = call[k] \/ (call[k] = "putting" /\ call'[k] = "woken"),
           future'[k] = future[k],
           k \in Range(queue') <=> k \in Range(queue),
           HeldBy(k)' # {} <=> HeldBy(k) # {}
    PROVE  StageOf(k)' = StageOf(k) /\ ToldOf(k)' = ToldOf(k)
BY DEF StageOf, ToldOf, Pending, Running, InFlight, Refusals

\* What a step of one job does to the abstract state.
LEMMA StepOfOne ==
    ASSUME NEW j \in Jobs,
           \A k \in Jobs : k # j => StageOf(k)' = StageOf(k) /\ ToldOf(k)' = ToldOf(k)
    PROVE  /\ Stage' = [Stage EXCEPT ![j] = StageOf(j)']
           /\ Told' = [Told EXCEPT ![j] = ToldOf(j)']
           /\ StageOf(j)' = StageOf(j) => Stage' = Stage
           /\ ToldOf(j)' = ToldOf(j) => Told' = Told
BY DEF Stage, Told

\* A fresh call enters the queue, joins the line or is turned away.
LEMMA SubmissionKeeps ==
    ASSUME IInv, NEW j \in Jobs, Submission(j)
    PROVE  Promise!Admit(j) \/ Promise!Refuse(j)
<1>s. StageOf(j)' = FirstStage(j)'
    BY StagesApartNext DEF Next
<1>1. /\ j \notin Range(queue) /\ HeldBy(j) = {} /\ future[j] = "pending" /\ call[j] = "idle"
      /\ worker' = worker /\ future' = future
      /\ StageOf(j) = "new" /\ ToldOf(j) = "nothing"
    <2>1. call[j] = "idle" /\ worker' = worker /\ future' = future
        BY DEF Submission, SubmitOnly, SubmitOnlyRefused, SubmitAndWait, SubmitFault, Arrives
    <2>2. QED
        BY <2>1, NotHandedOver, StageFacts DEF Entered
<1>2. PICK c \in Calls : call' = [call EXCEPT ![j] = c]
    BY DEF Submission, SubmitOnly, SubmitOnlyRefused, SubmitAndWait, SubmitFault, Calls,
           InFlight, Entered, Refusals
<1>3. /\ call \in [Jobs -> Calls] /\ queue \in Seq(Jobs) /\ IsInjective(queue)
    BY DEF IInv, TypeOK, OnePlace
<1>4. Range(Append(queue, j)) = Range(queue) \cup {j}
    BY <1>1, <1>3, AppendToLine
<1>5. \/ c \in {"202", "500queued", "waiting"} /\ queue' = Append(queue, j)
      \/ c \in {"putting", "500", "503"} /\ queue' = queue
    BY <1>1, <1>2, <1>3
       DEF Submission, SubmitOnly, SubmitOnlyRefused, SubmitAndWait, SubmitFault
<1>q. /\ c \in {"202", "500queued", "waiting"} => Range(queue') = Range(queue) \cup {j}
      /\ c \in {"putting", "500", "503"} => Range(queue') = Range(queue)
    BY <1>4, <1>5
<1>6. \A k \in Jobs : k # j => StageOf(k)' = StageOf(k) /\ ToldOf(k)' = ToldOf(k)
    <2> SUFFICES ASSUME NEW k \in Jobs, k # j
                 PROVE  StageOf(k)' = StageOf(k) /\ ToldOf(k)' = ToldOf(k)
        OBVIOUS
    <2>1. HeldBy(k)' = HeldBy(k)
        BY <1>1 DEF HeldBy
    <2>2. call'[k] = call[k] /\ (k \in Range(queue') <=> k \in Range(queue))
        <3>1. call'[k] = call[k]
            BY <1>2, <1>3
        <3>2. QED
            BY <3>1, <1>5, <1>q
    <2>3. QED
        BY <1>1, <2>1, <2>2, SameStage
<1>7. /\ Stage' = [Stage EXCEPT ![j] = StageOf(j)'] /\ Told' = [Told EXCEPT ![j] = ToldOf(j)']
      /\ ToldOf(j)' = ToldOf(j) => Told' = Told
    BY <1>6, StepOfOne
<1>8. call'[j] = c
    BY <1>2, <1>3
<1>9. CASE c \in {"202", "500queued", "waiting", "putting"}
    <2>1. Pending(j)' /\ call'[j] \notin Refusals \cup {"idle"} /\ future'[j] = "pending"
        BY <1>1, <1>8, <1>9, <1>q DEF Pending, Refusals
    <2>2. StageOf(j)' = "pending"
        BY <1>s, <2>1 DEF FirstStage
    <2>3. ToldOf(j)' \in {"nothing", "202", "500"}
        BY <1>8, <1>9 DEF ToldOf, InFlight
    <2>4. QED
        BY <1>1, <1>7, <2>2, <2>3 DEF Promise!Admit, Promise!Accepted, Stage, Told
<1>10. CASE c \in {"500", "503"}
    <2>1. call'[j] \in Refusals /\ call'[j] # "idle"
        BY <1>8, <1>10 DEF Refusals
    <2>2. StageOf(j)' = "refused"
        BY <1>s, <2>1 DEF FirstStage
    <2>3. ToldOf(j)' \in {"500", "503"}
        BY <1>8, <1>10 DEF ToldOf, InFlight
    <2>4. QED
        BY <1>1, <1>7, <2>2, <2>3 DEF Promise!Refuse, Stage, Told
<1>11. QED
    BY <1>5, <1>9, <1>10

\* A woken putter enters the queue or goes back to the end of the line: nothing
\* the contract can see.
LEMMA PutResumesKeeps ==
    ASSUME IInv, NEW j \in Jobs, PutResumes(j)
    PROVE  UNCHANGED <<Stage, Told>>
<1>s. StageOf(j)' = FirstStage(j)'
    BY StagesApartNext DEF Next, CallStep
<1>1. /\ j \notin Range(queue) /\ future[j] = "pending" /\ call[j] = "woken"
      /\ worker' = worker /\ future' = future
      /\ StageOf(j) = "pending" /\ ToldOf(j) = "nothing"
    BY NotHandedOver, StageFacts DEF PutResumes, rowVars, Entered, InFlight
<1>2. /\ call \in [Jobs -> Calls] /\ queue \in Seq(Jobs) /\ IsInjective(queue)
    BY DEF IInv, TypeOK, OnePlace
<1>3. Range(Append(queue, j)) = Range(queue) \cup {j}
    BY <1>1, <1>2, AppendToLine
<1>4. \/ call' = [call EXCEPT ![j] = "waiting"] /\ queue' = Append(queue, j)
      \/ call' = [call EXCEPT ![j] = "putting"] /\ queue' = queue
    BY DEF PutResumes
<1>5. \A k \in Jobs : k # j => StageOf(k)' = StageOf(k) /\ ToldOf(k)' = ToldOf(k)
    <2> SUFFICES ASSUME NEW k \in Jobs, k # j
                 PROVE  StageOf(k)' = StageOf(k) /\ ToldOf(k)' = ToldOf(k)
        OBVIOUS
    <2>1. HeldBy(k)' = HeldBy(k)
        BY <1>1 DEF HeldBy
    <2>2. call'[k] = call[k] /\ (k \in Range(queue') <=> k \in Range(queue))
        BY <1>2, <1>3, <1>4
    <2>3. QED
        BY <1>1, <2>1, <2>2, SameStage
<1>6. StageOf(j)' = "pending" /\ ToldOf(j)' = "nothing"
    <2>1. /\ call'[j] \in {"putting", "waiting"} /\ future'[j] = "pending"
          /\ call'[j] = "waiting" => j \in Range(queue')
        BY <1>1, <1>2, <1>3, <1>4
    <2>2. Pending(j)' /\ call'[j] \notin Refusals \cup {"idle"} /\ call'[j] \in InFlight
        BY <2>1 DEF Pending, Refusals, InFlight
    <2>3. QED
        BY <1>s, <2>1, <2>2 DEF FirstStage, ToldOf
<1>7. QED
    BY <1>1, <1>5, <1>6, StepOfOne

\* A call that gives up in line is refused; the caller it may wake is not touched.
LEMMA PutTimeoutKeeps ==
    ASSUME IInv, NEW j \in Jobs, PutTimeout(j) \/ PutTimeoutFault(j)
    PROVE  Promise!Refuse(j)
<1>s. StageOf(j)' = FirstStage(j)'
    BY StagesApartNext DEF Next, CallStep
<1>1. PICK c \in {"504put", "500"} : PutCancelled(j, c)
    BY DEF PutTimeout, PutTimeoutFault
<1>2. /\ call[j] \in {"putting", "woken"}
      /\ call' = [k \in Jobs |-> IF k = j THEN c
                                 ELSE IF k \in Range(putters) \ Range(putters')
                                 THEN "woken" ELSE call[k]]
    BY <1>1, CancelFacts DEF Refusals
<1>3. queue' = queue /\ worker' = worker /\ future' = future
    BY DEF PutTimeout, PutTimeoutFault, rowVars
<1>4. \A k \in Jobs : k # j => StageOf(k)' = StageOf(k) /\ ToldOf(k)' = ToldOf(k)
    <2> SUFFICES ASSUME NEW k \in Jobs, k # j
                 PROVE  StageOf(k)' = StageOf(k) /\ ToldOf(k)' = ToldOf(k)
        OBVIOUS
    <2>1. call'[k] = call[k] \/ (call[k] = "putting" /\ call'[k] = "woken")
        BY <1>2 DEF IInv, OnePlace
    <2>2. HeldBy(k)' = HeldBy(k)
        BY <1>3 DEF HeldBy
    <2>3. QED
        BY <1>3, <2>1, <2>2, SameStage
<1>5. StageOf(j) = "pending" /\ ToldOf(j) = "nothing"
    BY <1>2, StageFacts DEF InFlight
<1>6. StageOf(j)' = "refused" /\ ToldOf(j)' \in {"504", "500"}
    <2>1. call'[j] = c
        BY <1>2
    <2>2. call'[j] \in Refusals /\ call'[j] \notin {"idle"} \cup InFlight
        BY <2>1 DEF Refusals, InFlight
    <2>3. StageOf(j)' = "refused"
        BY <1>s, <2>2 DEF FirstStage
    <2>4. ToldOf(j)' \in {"504", "500"}
        BY <2>1, <2>2 DEF ToldOf
    <2>5. QED
        BY <2>3, <2>4
<1>7. Stage' = [Stage EXCEPT ![j] = StageOf(j)'] /\ Told' = [Told EXCEPT ![j] = ToldOf(j)']
    BY <1>4, StepOfOne
<1>8. QED
    BY <1>5, <1>6, <1>7 DEF Promise!Refuse, Stage, Told

\* The waiting call is answered by the outcome, or that there is none yet.
LEMMA ClientKeeps ==
    ASSUME IInv, NEW j \in Jobs, ClientAnswered(j) \/ ClientTimeout(j)
    PROVE  Promise!Answer(j)
<1>1. PICK a \in {"200", "502", "504"} :
        /\ call[j] = "waiting" /\ call' = [call EXCEPT ![j] = a]
        /\ a = "200" => future[j] = "result"
        /\ a = "502" => future[j] = "exception"
    BY DEF ClientAnswered, ClientTimeout, IInv, TypeOK
<1>2. queue' = queue /\ worker' = worker /\ future' = future /\ call \in [Jobs -> Calls]
    BY DEF ClientAnswered, ClientTimeout, rowVars, IInv, TypeOK
<1>3. \A k \in Jobs : HeldBy(k)' = HeldBy(k)
    BY <1>2 DEF HeldBy
<1>4. \A k \in Jobs : k # j => StageOf(k)' = StageOf(k) /\ ToldOf(k)' = ToldOf(k)
    BY <1>1, <1>2, <1>3, SameStage
<1>5. StageOf(j) \notin {"new", "refused"} /\ ToldOf(j) = "nothing"
    BY <1>1, StageFacts DEF InFlight
<1>6. StageOf(j)' = StageOf(j) /\ ToldOf(j)' = a
    BY <1>1, <1>2, <1>3 DEF StageOf, ToldOf, Pending, Running, Refusals, InFlight
<1>7. a = "200" => StageOf(j) = "done"
    BY <1>1, StageFacts
<1>8. a = "502" => StageOf(j) = "failed"
    BY <1>1, StageFacts
<1>9. Stage' = Stage /\ Told' = [Told EXCEPT ![j] = a]
    BY <1>4, <1>6, StepOfOne
<1>10. QED
    BY <1>5, <1>7, <1>8, <1>9 DEF Promise!Answer, Stage, Told

\* The head of the queue begins to run, or is lost with the worker that took it.
LEMMA TakeKeeps ==
    ASSUME IInv, NEW w \in Workers, WorkerTakes(w) \/ TakeFault(w)
    PROVE  \E j \in Jobs : Promise!Begin(j) \/ Promise!Lose(j)
<1>0. PICK h \in Jobs : h = Head(queue)
    BY GetFacts DEF WorkerTakes, TakeFault
<1>1. /\ h \in Range(queue) /\ Range(queue') = Range(queue) \ {h}
      /\ call' = [k \in Jobs |-> IF k \in Range(putters) \ Range(putters')
                                 THEN "woken" ELSE call[k]]
      /\ \A k \in Range(putters) : call[k] = "putting"
    BY <1>0, GetFacts DEF WorkerTakes, TakeFault, IInv, OnePlace
<1>2. /\ worker[w] = Idle /\ future' = future /\ worker \in [Workers -> Jobs \cup {Idle, Dead}]
      /\ worker' = [worker EXCEPT ![w] = h] \/ worker' = [worker EXCEPT ![w] = Dead]
    BY <1>0 DEF WorkerTakes, TakeFault, rowVars, IInv, TypeOK
<1>3. /\ call[h] \in Entered /\ future[h] = "pending" /\ HeldBy(h) = {}
    BY <1>1 DEF IInv, OnePlace
<1>4. \A k \in Jobs : k # h => HeldBy(k)' = HeldBy(k)
    BY <1>2, QueueAssumption DEF HeldBy
<1>5. \A k \in Jobs : k # h => StageOf(k)' = StageOf(k) /\ ToldOf(k)' = ToldOf(k)
    <2> SUFFICES ASSUME NEW k \in Jobs, k # h
                 PROVE  StageOf(k)' = StageOf(k) /\ ToldOf(k)' = ToldOf(k)
        OBVIOUS
    <2>1. call'[k] = call[k] \/ (call[k] = "putting" /\ call'[k] = "woken")
        BY <1>1
    <2>2. k \in Range(queue') <=> k \in Range(queue)
        BY <1>1
    <2>3. QED
        BY <1>2, <1>4, <2>1, <2>2, SameStage
<1>6. StageOf(h) = "pending"
    BY <1>1, StageFacts
<1>7. call'[h] = call[h]
    BY <1>1, <1>3 DEF Entered
<1>8. ToldOf(h)' = ToldOf(h)
    BY <1>7 DEF ToldOf
<1>9. Stage' = [Stage EXCEPT ![h] = StageOf(h)'] /\ Told' = Told
    BY <1>5, <1>8, StepOfOne
<1>10. CASE worker' = [worker EXCEPT ![w] = h]
    <2>1. w \in HeldBy(h)'
        BY <1>2, <1>10 DEF HeldBy
    <2>2. StageOf(h)' = "running"
        BY <1>1, <1>2, <1>3, <1>7, <2>1 DEF StageOf, Pending, Running, Entered, Refusals
    <2>3. QED
        BY <1>6, <1>9, <2>2 DEF Promise!Begin, Stage, Told
<1>11. CASE worker' = [worker EXCEPT ![w] = Dead]
    <2>1. HeldBy(h)' = {}
        BY <1>2, <1>3, <1>11, QueueAssumption DEF HeldBy
    <2>2. StageOf(h)' = "lost"
        BY <1>1, <1>2, <1>3, <1>7, <2>1 DEF StageOf, Pending, Running, Entered, Refusals
    <2>3. QED
        BY <1>6, <1>9, <2>2 DEF Promise!Lose, Stage, Told
<1>12. QED
    BY <1>2, <1>10, <1>11

\* A worker puts its job down: with an outcome, or losing it.
LEMMA RunEndsKeeps ==
    ASSUME IInv, NEW w \in Workers, RunSucceeds(w) \/ RunFails(w) \/ RunFault(w)
    PROVE  \E j \in Jobs : Promise!Finish(j) \/ Promise!Lose(j)
<1>0. PICK h \in Jobs : h = worker[w]
    BY DEF RunSucceeds, RunFails, RunFault
<1>1. /\ call[h] \in Entered /\ future[h] = "pending" /\ HeldBy(h) = {w}
      /\ h \notin Range(queue)
    BY <1>0 DEF IInv, OnePlace
<1>2. /\ queue' = queue /\ call' = call
      /\ worker' = [worker EXCEPT ![w] = Idle] \/ worker' = [worker EXCEPT ![w] = Dead]
      /\ future' = [future EXCEPT ![h] = "result"] \/ future' = [future EXCEPT ![h] = "exception"]
             \/ future' = future
      /\ future \in [Jobs -> {"pending", "result", "exception"}]
      /\ worker \in [Workers -> Jobs \cup {Idle, Dead}]
    BY <1>0 DEF RunSucceeds, RunFails, RunFault, callVars, IInv, TypeOK
<1>3. HeldBy(h)' = {} /\ \A k \in Jobs : k # h => HeldBy(k)' = HeldBy(k)
    BY <1>0, <1>1, <1>2, QueueAssumption DEF HeldBy
<1>4. \A k \in Jobs : k # h => StageOf(k)' = StageOf(k) /\ ToldOf(k)' = ToldOf(k)
    BY <1>2, <1>3, SameStage
<1>5. StageOf(h) = "running"
    BY <1>1, StageFacts
<1>6. ToldOf(h)' = ToldOf(h)
    BY <1>2 DEF ToldOf
<1>7. StageOf(h)' \in {"done", "failed", "lost"}
    BY <1>1, <1>2, <1>3 DEF StageOf, Pending, Running, Entered, Refusals
<1>8. Stage' = [Stage EXCEPT ![h] = StageOf(h)'] /\ Told' = Told
    BY <1>4, <1>6, StepOfOne
<1>9. QED
    BY <1>5, <1>7, <1>8 DEF Promise!Finish, Promise!Lose, Stage, Told

\* The end of the process loses what is pending or running and cuts open calls.
LEMMA ProcessEndsKeeps == ASSUME IInv, Shutdown \/ Crash PROVE Promise!Collapse
<1>1. /\ queue' = <<>> /\ worker' = [w \in Workers |-> Idle] /\ future' = future
      /\ Range(<<>>) = {}
    BY DEF Shutdown, Crash, ProcessEnds, rowVars, Range
<1>2. call' = [j \in Jobs |-> IF call[j] \in InFlight THEN "dropped" ELSE call[j]]
    BY DEF Shutdown, Crash, IInv, TypeOK
<1>3. \A j \in Jobs : HeldBy(j)' = {}
    BY <1>1, QueueAssumption DEF HeldBy
<1>4. ASSUME NEW j \in Jobs
      PROVE  /\ StageOf(j)' = IF StageOf(j) \in {"pending", "running"} THEN "lost" ELSE StageOf(j)
             /\ ToldOf(j)' = IF StageOf(j) # "new" /\ ToldOf(j) = "nothing"
                             THEN "dropped" ELSE ToldOf(j)
    <2>1. /\ call'[j] = IF call[j] \in InFlight THEN "dropped" ELSE call[j]
          /\ future'[j] = future[j] /\ j \notin Range(queue') /\ HeldBy(j)' = {}
        BY <1>1, <1>2, <1>3
    <2>2. call[j] \in Calls
        BY DEF IInv, TypeOK
    <2>3. /\ call'[j] = "idle" <=> call[j] = "idle"
          /\ call'[j] \in Refusals <=> call[j] \in Refusals
          /\ call[j] = "idle" => call[j] \notin Refusals
          /\ ~Pending(j)' /\ ~Running(j)'
        BY <2>1, <2>2 DEF Pending, Running, Calls, Entered, Refusals, InFlight
    <2>s. StageOf(j)' = FirstStage(j)' /\ StageOf(j) = FirstStage(j)
        BY StagesApart, StagesApartNext DEF Next
    <2>4. StageOf(j)' = IF StageOf(j) \in {"pending", "running"} THEN "lost" ELSE StageOf(j)
        BY <2>1, <2>3, <2>s DEF FirstStage
    <2>5. StageOf(j) = "new" <=> call[j] = "idle"
        BY <2>s DEF FirstStage
    <2>6. CASE call[j] \in InFlight
        <3>1. StageOf(j) # "new" /\ ToldOf(j) = "nothing"
            BY <2>5, <2>6 DEF ToldOf, InFlight
        <3>2. ToldOf(j)' = "dropped"
            BY <2>1, <2>6 DEF ToldOf, InFlight
        <3>3. QED
            BY <2>4, <3>1, <3>2
    <2>7. CASE call[j] \notin InFlight
        <3>1. ToldOf(j)' = ToldOf(j)
            BY <2>1, <2>7 DEF ToldOf
        <3>2. ToldOf(j) = "nothing" => call[j] = "idle"
            BY <2>2, <2>7 DEF ToldOf, Calls, Entered, Refusals
        <3>3. QED
            BY <2>4, <2>5, <3>1, <3>2
    <2>8. QED
        BY <2>6, <2>7
<1>5. QED
    BY <1>4 DEF Promise!Collapse

LEMMA ContractStep ==
    IInv /\ [Next]_vars => UNCHANGED <<Stage, Told>> \/ Promise!ContractNext
<1> SUFFICES ASSUME IInv, [Next]_vars
             PROVE  UNCHANGED <<Stage, Told>> \/ Promise!ContractNext
    OBVIOUS
<1>1. ASSUME NEW j \in Jobs, Submission(j) PROVE Promise!ContractNext
    BY <1>1, SubmissionKeeps DEF Promise!ContractNext
<1>2. ASSUME NEW j \in Jobs, CallStep(j)
      PROVE  UNCHANGED <<Stage, Told>> \/ Promise!ContractNext
    BY <1>2, PutResumesKeeps, PutTimeoutKeeps, ClientKeeps DEF CallStep, Promise!ContractNext
<1>3. ASSUME NEW w \in Workers, WorkerStep(w) PROVE Promise!ContractNext
    BY <1>3, TakeKeeps, RunEndsKeeps DEF WorkerStep, Promise!ContractNext
<1>4. CASE Shutdown \/ Crash
    BY <1>4, ProcessEndsKeeps DEF Promise!ContractNext
<1>5. ASSUME UNCHANGED <<queue, call, future, worker>> PROVE UNCHANGED <<Stage, Told>>
    BY <1>5, SameStage DEF Stage, Told, HeldBy
<1>6. QED
    BY <1>1, <1>2, <1>3, <1>4, <1>5
       DEF Next, vars, callVars, rowVars, Expire, AdminDelete, Start

\* The queue keeps the service's promise, for every set of jobs and workers and
\* every queue size: at most one run per job, none for a refused one, and every
\* answer true of the job at that moment, through crashes and failing writes.
THEOREM QueueKeepsContract == Spec => KeepsContract
<1>1. Init => Promise!ContractInit
    <2> SUFFICES ASSUME Init PROVE Promise!ContractInit
        OBVIOUS
    <2>1. \A j \in Jobs : StageOf(j) = "new" /\ ToldOf(j) = "nothing"
        <3>1. IInv
            BY InitIInv
        <3>2. QED
            BY <3>1, StagesApart DEF Init, FirstStage, ToldOf
    <2>2. QED
        BY <2>1 DEF Promise!ContractInit
<1>2. IInv /\ [Next]_vars => [Promise!ContractNext]_<<Stage, Told>>
    BY ContractStep
<1>3. QED
    BY <1>1, <1>2, Invariance, PTL
       DEF Spec, KeepsContract, Promise!Contract, Promise!contractVars, Stage, Told
=============================================================================
