----------------------- MODULE CloudKitChatJobs_proofs -----------------------
(***************************************************************************)
(* Proofs about CloudKitChatJobs, for any number of requests, runs and     *)
(* retries, any deadlines and any lease time: type correctness, one        *)
(* committer per request, the account of retries, the monotone time stamp  *)
(* of the exported responses, and that the queue implements                *)
(* ChatRequestLifecycle.                                                   *)
(***************************************************************************)
EXTENDS CloudKitChatJobs, TLAPS

USE DEF NoTime, NoLease

-----------------------------------------------------------------------------
(* The rows the operations write *)

\* A sweep turns rows into rows.
LEMMA SweepType ==
  ASSUME jobs \in [Requests -> Job], NEW now \in Nat
  PROVE  expireAndRecoverJobs(now) \in [Requests -> Job]
<1> SUFFICES ASSUME NEW r \in Requests
             PROVE  SweptJob(jobs[r], r, now) \in Job
  BY DEF expireAndRecoverJobs
<1>0. jobs[r] \in Job
  OBVIOUS
<1>1. ExpiredJob(jobs[r], now) \in Job
  BY <1>0 DEF ExpiredJob, Job, Statuses, Codes
<1>2. RecoveredJob(jobs[r], now) \in Job
  BY <1>0 DEF RecoveredJob, Job, Statuses, Codes
<1> QED
  BY <1>0, <1>1, <1>2 DEF SweptJob

\* So do the claim, the completion and the reopening of a job.
LEMMA RowTypes ==
  ASSUME NEW j \in Job, NEW lease \in Nat, NEW now \in Nat
  PROVE  /\ ClaimedJob(j, lease, now) \in Job
         /\ CompletedJob(j, now) \in Job
         /\ ReopenedJob(j, now) \in Job
<1>1. ClaimedJob(j, lease, now) \in Job
  <2>1. now + LeaseTime \in Nat /\ j.attempts + 1 \in Nat
    BY LimitsAssumption DEF Job
  <2> QED
    BY <2>1 DEF ClaimedJob, Job, Statuses, Codes
<1>2. CompletedJob(j, now) \in Job
  BY DEF CompletedJob, Job, Statuses, Codes
<1>3. ReopenedJob(j, now) \in Job
  BY DEF ReopenedJob, Job, Statuses, Codes
<1> QED
  BY <1>1, <1>2, <1>3

\* What the handling of a failed call writes is a row.
LEMMA FailedType ==
  ASSUME NEW j \in Job, NEW r \in Requests, NEW failure \in Failures, NEW now \in Nat,
         j.attempts >= 1
  PROVE  FailedJob(j, r, failure, now) \in Job
<1> USE LimitsAssumption
<1>1. CASE CanRetry(j, r, failure.retryable, now)
  <2>1. j.attempts \in 1 .. MaxAttempts
    BY <1>1 DEF CanRetry, Job
  <2>2. now + RetryDelay[j.attempts] \in Nat
    BY <2>1
  <2>3. failure.code \in Codes
    BY DEF Failures, Codes
  <2> QED
    BY <1>1, <2>2, <2>3 DEF FailedJob, Job, Statuses
<1>2. CASE ~ CanRetry(j, r, failure.retryable, now)
  <2>1. failure.code \in Codes
    BY DEF Failures, Codes
  <2> QED
    BY <1>2, <2>1 DEF FailedJob, ExpiredJob, Job, Statuses, Codes
<1> QED
  BY <1>1, <1>2

-----------------------------------------------------------------------------
(* The inductive invariant *)

\* A run that waits for the AI holds a lease id of its own.
LeaseInv ==
  /\ \A w \in Workers : run[w].phase = "asking" =>
       run[w].req \in Requests /\ run[w].lease \in 1 .. leaseSeq /\ run[w].left > 0
  /\ \A v, w \in Workers :
       /\ run[v].phase = "asking"
       /\ run[w].phase = "asking"
       /\ run[v].lease = run[w].lease
       => v = w

\* A queued job has an attempt left, or an interruption that pays for one.
RetryInv ==
  \A r \in Requests :
    /\ jobs[r].attempts <= MaxAttempts + interruptions[r]
    /\ jobs[r].status = "queued" => jobs[r].attempts < MaxAttempts + interruptions[r]
    /\ jobs[r].status = "processing" => jobs[r].attempts >= 1
    /\ jobs[r].status = "absent" => jobs[r].attempts = 0

\* No reading of the clock, in a run or in a row, is from the future.
PastInv ==
  /\ \A w \in Workers : run[w].now <= clock
  /\ \A r \in Requests : jobs[r].updatedAt <= clock

\* A job that was claimed is not touched before its time stamp: a lease and a
\* retry end after it, and its deadline too; and who holds the lease claimed the
\* job with the very reading that stamped it.
StampInv ==
  /\ \A r \in Requests : jobs[r].attempts > 0 =>
       /\ jobs[r].status \in {"queued", "processing", "failed"}
            => jobs[r].updatedAt < ExpiresAt[r]
       /\ jobs[r].status = "queued" => jobs[r].nextAt >= jobs[r].updatedAt
       /\ jobs[r].status = "processing" => jobs[r].leaseEnd > jobs[r].updatedAt
  /\ \A w \in Workers : HoldsLease(w) => jobs[run[w].req].updatedAt = run[w].now

\* An expired request is past its deadline.
ExpiryInv ==
  \A r \in Requests : jobs[r].status = "expired" => ExpiresAt[r] <= clock

IInv == TypeOK /\ LeaseInv /\ RetryInv /\ PastInv /\ StampInv /\ ExpiryInv

-----------------------------------------------------------------------------
(* What a step may do to the row of one request.  now is a reading of the    *)
(* clock, the step's own or an older one.                                    *)

Kept(r) ==
  jobs'[r] = jobs[r] /\ interruptions'[r] = interruptions[r] /\ replies'[r] = replies[r]

Received(r, now) ==
  /\ jobs[r].status = "absent"
  /\ jobs'[r] = NewJob(r, now)
  /\ interruptions'[r] = interruptions[r]
  /\ replies'[r] = replies[r]

SweepCount(r, now) ==
  /\ interruptions'[r] = IF Interrupted(jobs[r], r, now)
                         THEN interruptions[r] + 1 ELSE interruptions[r]
  /\ replies'[r] = replies[r]

Swept(r, now) ==
  SweepCount(r, now) /\ jobs'[r] = SweptJob(jobs[r], r, now)

Claimed(r, now) ==
  LET j == SweptJob(jobs[r], r, now)
  IN  /\ SweepCount(r, now)
      /\ j.status = "queued"
      /\ ExpiresAt[r] > now
      /\ j.nextAt = NoTime \/ j.nextAt <= now
      /\ jobs'[r] = ClaimedJob(j, FreshLease, now)

Reopened(r, now) ==
  LET j == SweptJob(jobs[r], r, now)
  IN  /\ now = clock
      /\ SweepCount(r, now)
      /\ AwaitsConfiguration(j, r, now)
      /\ jobs'[r] = ReopenedJob(j, now)

Answered(r, now) ==
  /\ \E w \in Workers : HoldsLease(w) /\ run[w].req = r /\ run[w].now = now
  /\ ExpiresAt[r] > now
  /\ jobs'[r] = CompletedJob(jobs[r], now)
  /\ replies'[r] = replies[r] + 1
  /\ interruptions'[r] = interruptions[r]

Failed(r, now) ==
  /\ \E w \in Workers : HoldsLease(w) /\ run[w].req = r /\ run[w].now = now
  /\ \E failure \in Failures : jobs'[r] = FailedJob(jobs[r], r, failure, now)
  /\ replies'[r] = replies[r]
  /\ interruptions'[r] = interruptions[r]

RowStep(r) ==
  \/ Kept(r)
  \/ \E now \in 0 .. clock :
       \/ Received(r, now)
       \/ Swept(r, now)
       \/ Claimed(r, now)
       \/ Reopened(r, now)
       \/ Answered(r, now)
       \/ Failed(r, now)

\* Every step of the system is such a step for every row.
LEMMA RowSteps ==
  ASSUME TypeOK, PastInv, [Next]_vars
  PROVE  \A r \in Requests : RowStep(r)
<1> SUFFICES ASSUME NEW r \in Requests
             PROVE  RowStep(r)
  OBVIOUS
<1> DEFINE Quiet == UNCHANGED <<jobs, interruptions, replies>>
<1>0. clock \in Nat /\ clock \in 0 .. clock
  BY DEF TypeOK
<1>1. ASSUME Quiet PROVE RowStep(r)
  BY <1>1 DEF RowStep, Kept
<1>2. ASSUME NEW w \in Workers PROVE run[w].now \in 0 .. clock
  BY DEF TypeOK, PastInv, Run
<1>3. ASSUME NEW w \in Workers, NEW s \in Requests, ImportRequest(w, s) PROVE RowStep(r)
  <2>1. UNCHANGED <<interruptions, replies>>
    BY <1>3 DEF ImportRequest
  <2>2. CASE jobs[s].status = "absent" /\ r = s
    <3>1. jobs'[r] = NewJob(r, run[w].now)
      BY <1>3, <2>2 DEF ImportRequest, TypeOK
    <3>2. Received(r, run[w].now)
      BY <2>1, <2>2, <3>1 DEF Received
    <3> QED
      BY <1>2, <3>2 DEF RowStep
  <2>3. CASE ~ (jobs[s].status = "absent" /\ r = s)
    <3>1. jobs'[r] = jobs[r]
      BY <1>3, <2>3 DEF ImportRequest, TypeOK
    <3> QED
      BY <2>1, <3>1 DEF RowStep, Kept
  <2> QED
    BY <2>2, <2>3
<1>4. ASSUME NEW w \in Workers, Claim(w) PROVE RowStep(r)
  <2> DEFINE now == run[w].now
             swept == expireAndRecoverJobs(now)
  <2>1. PICK s \in Oldest(Due(swept, now)) :
          jobs' = [swept EXCEPT ![s] = ClaimedJob(swept[s], FreshLease, now)]
    BY <1>4 DEF Claim
  <2>2. s \in Requests /\ s \in Due(swept, now)
    BY DEF Oldest, Due
  <2>3. SweepCount(r, now)
    BY <1>4 DEF Claim, CountInterruptions, SweepCount
  <2>4. swept[r] = SweptJob(jobs[r], r, now)
    BY DEF expireAndRecoverJobs
  <2>5. CASE r = s
    <3>1. jobs'[r] = ClaimedJob(swept[r], FreshLease, now)
      BY <2>1, <2>2, <2>5 DEF expireAndRecoverJobs
    <3>2. Claimed(r, now)
      BY <2>2, <2>3, <2>4, <2>5, <3>1 DEF Claimed, Due
    <3> QED
      BY <1>2, <3>2 DEF RowStep
  <2>6. CASE r # s
    <3>1. jobs'[r] = swept[r]
      BY <2>1, <2>2, <2>6 DEF expireAndRecoverJobs
    <3>2. Swept(r, now)
      BY <2>3, <2>4, <3>1 DEF Swept
    <3> QED
      BY <1>2, <3>2 DEF RowStep
  <2> QED
    BY <2>5, <2>6
<1>5. ASSUME NEW w \in Workers, QueueIdle(w) PROVE RowStep(r)
  <2>1. Swept(r, run[w].now)
    BY <1>5 DEF QueueIdle, Swept, SweepCount, CountInterruptions, expireAndRecoverJobs
  <2> QED
    BY <1>2, <2>1 DEF RowStep
<1>6. ASSUME NEW w \in Workers, AnswerArrives(w) PROVE RowStep(r)
  <2>1. CASE r = run[w].req
    <3>1. Answered(r, run[w].now)
      BY <1>6, <2>1 DEF AnswerArrives, Answered, TypeOK
    <3> QED
      BY <1>2, <3>1 DEF RowStep
  <2>2. CASE r # run[w].req
    BY <1>6, <2>2 DEF AnswerArrives, RowStep, Kept, TypeOK
  <2> QED
    BY <2>1, <2>2
<1>7. ASSUME NEW w \in Workers, CallFails(w) PROVE RowStep(r)
  <2>1. CASE r = run[w].req
    <3>1. Failed(r, run[w].now)
      BY <1>7, <2>1 DEF CallFails, Failed, TypeOK
    <3> QED
      BY <1>2, <3>1 DEF RowStep
  <2>2. CASE r # run[w].req
    BY <1>7, <2>2 DEF CallFails, RowStep, Kept, TypeOK
  <2> QED
    BY <2>1, <2>2
<1>8. ASSUME ConfigureAi PROVE RowStep(r)
  <2>1. SweepCount(r, clock)
    BY <1>8 DEF ConfigureAi, CountInterruptions, SweepCount
  <2>2. CASE AwaitsConfiguration(SweptJob(jobs[r], r, clock), r, clock)
    <3>1. Reopened(r, clock)
      BY <1>8, <2>1, <2>2 DEF ConfigureAi, Reopened, expireAndRecoverJobs
    <3> QED
      BY <1>0, <3>1 DEF RowStep
  <2>3. CASE ~ AwaitsConfiguration(SweptJob(jobs[r], r, clock), r, clock)
    <3>1. Swept(r, clock)
      BY <1>8, <2>1, <2>3 DEF ConfigureAi, Swept, expireAndRecoverJobs
    <3> QED
      BY <1>0, <3>1 DEF RowStep
  <2> QED
    BY <2>2, <2>3
<1>9. CASE UNCHANGED vars
  BY <1>1, <1>9 DEF vars
<1>10. ASSUME NEW w \in Workers,
              \/ BeginRun(w) \/ PullStops(w) \/ PullSucceeds(w)
              \/ ClaimThrows(w) \/ QueueFull(w) \/ ResultTooLate(w)
       PROVE RowStep(r)
  BY <1>1, <1>10 DEF BeginRun, PullStops, PullSucceeds, ClaimThrows, QueueFull, ResultTooLate
<1>11. CASE CleanupChats \/ Crash \/ Tick
  BY <1>1, <1>11 DEF CleanupChats, Crash, Tick
<1> QED
  BY <1>3, <1>4, <1>5, <1>6, <1>7, <1>8, <1>9, <1>10, <1>11 DEF Next, RunStep

-----------------------------------------------------------------------------
(* Every action preserves the invariant *)

LEMMA InitInv == Init => IInv
<1> SUFFICES ASSUME Init PROVE IInv
  OBVIOUS
<1> USE TimesAssumption, LimitsAssumption, RequestsAssumption DEF Init, IdleRun, NoJob
<1>1. TypeOK
  BY DEF TypeOK, Job, Run, Statuses, Codes, Phases
<1>2. LeaseInv
  BY DEF LeaseInv
<1>3. RetryInv
  BY DEF RetryInv
<1>4. PastInv
  BY DEF PastInv
<1>5. StampInv
  BY DEF StampInv, HoldsLease
<1>6. ExpiryInv
  BY DEF ExpiryInv
<1> QED
  BY <1>1, <1>2, <1>3, <1>4, <1>5, <1>6 DEF IInv

\* A run changed alone leaves the type as it is.
LEMMA RunChange ==
  ASSUME run \in [Workers -> Run], NEW w \in Workers, NEW u \in Run,
         run' = [run EXCEPT ![w] = u]
  PROVE  run' \in [Workers -> Run]
  OBVIOUS

LEMMA TypeStep ==
  ASSUME TypeOK, LeaseInv, RetryInv, [Next]_vars
  PROVE  TypeOK'
<1> DEFINE Others == UNCHANGED <<clock, jobs, prompts, answers, leaseSeq, crashes, replies,
                                 interruptions>>
<1>0. IdleRun \in Run
  BY DEF IdleRun, Run, Phases
<1>1. ASSUME NEW w \in Workers, NEW u \in Run, run' = [run EXCEPT ![w] = u], Others
      PROVE  TypeOK'
  BY <1>1 DEF TypeOK
<1>2. ASSUME NEW w \in Workers PROVE run[w] \in Run
  BY DEF TypeOK
<1>3. ASSUME NEW w \in Workers, BeginRun(w) PROVE TypeOK'
  <2>1. [IdleRun EXCEPT !.phase = "pulling", !.now = clock] \in Run
    BY DEF IdleRun, Run, Phases, TypeOK
  <2> QED
    BY <1>1, <1>3, <2>1 DEF BeginRun
<1>4. ASSUME NEW w \in Workers, NEW r \in Requests, ImportRequest(w, r) PROVE TypeOK'
  <2>1. NewJob(r, run[w].now) \in Job
    BY <1>2 DEF NewJob, NoJob, Job, Run, Statuses, Codes
  <2>2. jobs' \in [Requests -> Job] /\ prompts' \subseteq Requests
    BY <1>4, <2>1 DEF ImportRequest, TypeOK
  <2> QED
    BY <1>4, <2>2 DEF ImportRequest, TypeOK
<1>5. ASSUME NEW w \in Workers,
             PullStops(w) \/ ClaimThrows(w) \/ QueueFull(w) \/ ResultTooLate(w)
      PROVE TypeOK'
  <2>1. run' = [run EXCEPT ![w] = IdleRun] /\ Others
    BY <1>5 DEF PullStops, ClaimThrows, QueueFull, ResultTooLate
  <2> QED
    BY <1>0, <1>1, <2>1
<1>6. ASSUME NEW w \in Workers, PullSucceeds(w) PROVE TypeOK'
  <2>1. TakesJobs(run[w]) \in Run
    BY <1>2, LimitsAssumption DEF TakesJobs, Run, Phases
  <2> QED
    BY <1>1, <1>6, <2>1 DEF PullSucceeds
<1>7. ASSUME NEW now \in Nat, CountInterruptions(now)
      PROVE interruptions' \in [Requests -> Nat]
  BY <1>7 DEF CountInterruptions, TypeOK
<1>8. ASSUME NEW w \in Workers, Claim(w) PROVE TypeOK'
  <2> DEFINE now == run[w].now
             swept == expireAndRecoverJobs(now)
  <2>1. now \in Nat
    BY <1>2 DEF Run
  <2>2. swept \in [Requests -> Job]
    BY <2>1, SweepType DEF TypeOK
  <2> HIDE DEF swept
  <2>3. PICK r \in Oldest(Due(swept, now)) :
          /\ jobs' = [swept EXCEPT ![r] = ClaimedJob(swept[r], FreshLease, now)]
          /\ run' = [run EXCEPT ![w] = Asks(run[w], r)]
    BY <1>8 DEF Claim, swept
  <2>4. r \in Requests
    BY DEF Oldest, Due
  <2>5. swept[r] \in Job /\ FreshLease \in Nat
    BY <2>2, <2>4 DEF FreshLease, TypeOK
  <2>6. ClaimedJob(swept[r], FreshLease, now) \in Job
    BY <2>1, <2>5, RowTypes
  <2>7. jobs' \in [Requests -> Job]
    BY <2>2, <2>3, <2>6
  <2>8. Asks(run[w], r) \in Run
    BY <1>2, <2>4, <2>5 DEF Asks, Run, Phases
  <2>9. run' \in [Workers -> Run]
    BY <2>3, <2>8, RunChange DEF TypeOK
  <2> QED
    BY <1>7, <1>8, <2>1, <2>7, <2>9 DEF Claim, TypeOK
<1>9. ASSUME NEW w \in Workers, QueueIdle(w) PROVE TypeOK'
  <2>1. run[w].now \in Nat
    BY <1>2 DEF Run
  <2>2. jobs' \in [Requests -> Job]
    BY <1>9, <2>1, SweepType DEF QueueIdle, TypeOK
  <2>3. run' \in [Workers -> Run]
    BY <1>0, <1>9, RunChange DEF QueueIdle, TypeOK
  <2> QED
    BY <1>7, <1>9, <2>1, <2>2, <2>3 DEF QueueIdle, TypeOK
<1>10. ASSUME NEW w \in Workers, run[w].phase = "asking" PROVE Freed(run[w]) \in Run
  <2>1. run[w].left - 1 \in Nat
    BY <1>2, <1>10 DEF Run, LeaseInv
  <2> QED
    BY <1>2, <2>1 DEF Freed, Run, Phases
<1>11. ASSUME NEW w \in Workers, AnswerArrives(w) PROVE TypeOK'
  <2>1. run' \in [Workers -> Run]
    BY <1>10, <1>11, RunChange DEF AnswerArrives, HoldsLease, TypeOK
  <2>2. run[w].req \in Requests
    BY <1>11 DEF AnswerArrives, HoldsLease, LeaseInv
  <2>3. CompletedJob(jobs[run[w].req], run[w].now) \in Job
    BY <1>2, <2>2, RowTypes DEF Run, TypeOK
  <2>4. jobs' \in [Requests -> Job] /\ replies' \in [Requests -> Nat]
    BY <1>11, <2>2, <2>3 DEF AnswerArrives, TypeOK
  <2> QED
    BY <1>11, <2>1, <2>2, <2>4 DEF AnswerArrives, TypeOK
<1>12. ASSUME NEW w \in Workers, CallFails(w) PROVE TypeOK'
  <2>1. run' \in [Workers -> Run]
    BY <1>10, <1>12, RunChange DEF CallFails, HoldsLease, TypeOK
  <2> DEFINE r == run[w].req
             now == run[w].now
  <2>2. r \in Requests /\ now \in Nat
    BY <1>2, <1>12 DEF CallFails, HoldsLease, LeaseInv, Run
  <2>3. jobs[r].attempts >= 1 /\ jobs[r] \in Job
    BY <1>12, <2>2 DEF CallFails, HoldsLease, RetryInv, TypeOK
  <2>4. \A failure \in Failures : FailedJob(jobs[r], r, failure, now) \in Job
    BY <2>2, <2>3, FailedType
  <2>5. jobs' \in [Requests -> Job]
    BY <1>12, <2>2, <2>4 DEF CallFails, TypeOK
  <2> QED
    BY <1>12, <2>1, <2>5 DEF CallFails, TypeOK
<1>13. CASE ConfigureAi
  <2> DEFINE swept == expireAndRecoverJobs(clock)
  <2>1. clock \in Nat /\ swept \in [Requests -> Job]
    BY SweepType DEF TypeOK
  <2> HIDE DEF swept
  <2>2. \A r \in Requests : ReopenedJob(swept[r], clock) \in Job
    BY <2>1, RowTypes
  <2>3. jobs' \in [Requests -> Job]
    BY <1>13, <2>1, <2>2 DEF ConfigureAi, swept
  <2> QED
    BY <1>7, <1>13, <2>1, <2>3 DEF ConfigureAi, TypeOK
<1>14. CASE CleanupChats
  BY <1>14 DEF CleanupChats, TypeOK
<1>15. CASE Crash
  BY <1>0, <1>15 DEF Crash, TypeOK
<1>16. CASE Tick
  BY <1>16 DEF Tick, TypeOK
<1>17. CASE UNCHANGED vars
  BY <1>17 DEF vars, TypeOK
<1> QED
  BY <1>3, <1>4, <1>5, <1>6, <1>8, <1>9, <1>11, <1>12, <1>13, <1>14, <1>15, <1>16, <1>17
  DEF Next, RunStep

\* A run changes to waiting for the AI only by a claim, which draws a new lease
\* and stamps the row it claims with the run's reading of the clock.
Leased(w) ==
  LET r == run'[w].req
  IN  /\ r \in Requests
      /\ run'[w].lease = FreshLease
      /\ run'[w].left > 0
      /\ run'[w].now = run[w].now
      /\ jobs'[r].updatedAt = run[w].now
      /\ leaseSeq' = leaseSeq + 1
      /\ \A v \in Workers \ {w} : run'[v] = run[v]

LEMMA RunSteps ==
  ASSUME TypeOK, [Next]_vars, NEW w \in Workers, run'[w].phase = "asking"
  PROVE  run'[w] = run[w] \/ Leased(w)
<1>1. CASE Claim(w)
  <2> DEFINE now == run[w].now
             swept == expireAndRecoverJobs(now)
  <2>1. swept \in [Requests -> Job] /\ now \in Nat
    BY SweepType DEF TypeOK, Run
  <2> HIDE DEF swept
  <2>2. PICK r \in Oldest(Due(swept, now)) :
          /\ jobs' = [swept EXCEPT ![r] = ClaimedJob(swept[r], FreshLease, now)]
          /\ run' = [run EXCEPT ![w] = Asks(run[w], r)]
    BY <1>1 DEF Claim, swept
  <2>3. r \in Requests
    BY DEF Oldest, Due
  <2>4. run'[w] = Asks(run[w], r) /\ \A v \in Workers \ {w} : run'[v] = run[v]
    BY <2>2 DEF TypeOK
  <2>5. run[w] \in Run
    BY DEF TypeOK
  <2>6. /\ run'[w].req = r
        /\ run'[w].lease = FreshLease
        /\ run'[w].left = run[w].left
        /\ run'[w].now = now
    BY <2>4, <2>5 DEF Asks, Run
  <2>7. jobs'[r].updatedAt = now
    BY <2>1, <2>2, <2>3 DEF ClaimedJob, Job
  <2> QED
    BY <1>1, <2>3, <2>4, <2>6, <2>7 DEF Claim, MayTake, Leased
<1>2. ASSUME NEW v \in Workers, v # w, RunStep(v) PROVE run'[w] = run[w]
  BY <1>2 DEF RunStep, BeginRun, ImportRequest, PullStops, PullSucceeds, Claim, ClaimThrows,
    QueueIdle, QueueFull, AnswerArrives, CallFails, ResultTooLate, TypeOK
<1>3. CASE RunStep(w) /\ ~ Claim(w)
  <2>1. IdleRun.phase # "asking" /\ [IdleRun EXCEPT !.phase = "pulling", !.now = clock].phase # "asking"
    BY DEF IdleRun
  <2>2. TakesJobs(run[w]).phase # "asking" /\ Freed(run[w]).phase # "asking"
    BY DEF TakesJobs, Freed, TypeOK, Run
  <2>3. CASE \E r \in Requests : ImportRequest(w, r)
    BY <2>3 DEF ImportRequest
  <2>4. CASE \/ BeginRun(w) \/ PullStops(w) \/ ClaimThrows(w) \/ QueueIdle(w) \/ QueueFull(w)
             \/ ResultTooLate(w)
    BY <2>1, <2>4 DEF BeginRun, PullStops, ClaimThrows, QueueIdle, QueueFull, ResultTooLate, TypeOK
  <2>5. CASE PullSucceeds(w) \/ AnswerArrives(w) \/ CallFails(w)
    BY <2>2, <2>5 DEF PullSucceeds, AnswerArrives, CallFails, TypeOK
  <2> QED
    BY <1>3, <2>3, <2>4, <2>5 DEF RunStep
<1>4. CASE Crash
  BY <1>4 DEF Crash, IdleRun
<1>5. CASE ConfigureAi \/ CleanupChats \/ Tick \/ UNCHANGED vars
  BY <1>5 DEF ConfigureAi, CleanupChats, Tick, vars
<1> QED
  BY <1>1, <1>2, <1>3, <1>4, <1>5 DEF Next

LEMMA LeaseStep ==
  ASSUME TypeOK, LeaseInv, [Next]_vars, TypeOK'
  PROVE  LeaseInv'
<1>1. leaseSeq \in Nat /\ leaseSeq' \in Nat /\ leaseSeq' >= leaseSeq
  BY DEF TypeOK, Next, RunStep, BeginRun, ImportRequest, PullStops, PullSucceeds, Claim,
    ClaimThrows, QueueIdle, QueueFull, AnswerArrives, CallFails, ResultTooLate, ConfigureAi,
    CleanupChats, Crash, Tick, vars
<1>2. ASSUME NEW w \in Workers, run'[w].phase = "asking"
      PROVE  run'[w].req \in Requests /\ run'[w].lease \in 1 .. leaseSeq' /\ run'[w].left > 0
  <2>1. CASE run'[w] = run[w]
    BY <1>1, <1>2, <2>1 DEF LeaseInv
  <2>2. CASE Leased(w)
    BY <1>1, <2>2 DEF Leased, FreshLease
  <2> QED
    BY <1>2, <2>1, <2>2, RunSteps
<1>3. ASSUME NEW v \in Workers, NEW w \in Workers, v # w,
             run'[v].phase = "asking", run'[w].phase = "asking"
      PROVE  run'[v].lease # run'[w].lease
  <2>1. CASE run'[v] = run[v] /\ run'[w] = run[w]
    BY <1>3, <2>1 DEF LeaseInv
  <2>2. CASE Leased(v)
    BY <1>1, <1>3, <2>2 DEF Leased, FreshLease, LeaseInv
  <2>3. CASE Leased(w)
    BY <1>1, <1>3, <2>3 DEF Leased, FreshLease, LeaseInv
  <2> QED
    BY <1>3, <2>1, <2>2, <2>3, RunSteps
<1> QED
  BY <1>2, <1>3 DEF LeaseInv

\* A row that changes is stamped with the reading of the clock that changes it.
LEMMA StampCases ==
  ASSUME TypeOK, NEW r \in Requests, NEW now \in 0 .. clock,
         \/ Received(r, now) \/ Swept(r, now) \/ Claimed(r, now)
         \/ Reopened(r, now) \/ Answered(r, now) \/ Failed(r, now)
  PROVE  jobs'[r].updatedAt \in {jobs[r].updatedAt, now}
<1>1. jobs[r] \in Job /\ now \in Nat
  BY DEF TypeOK
<1>2. CASE Received(r, now)
  BY <1>2 DEF Received, NewJob, NoJob
<1>3. SweptJob(jobs[r], r, now).updatedAt \in {jobs[r].updatedAt, now}
  BY <1>1 DEF SweptJob, ExpiredJob, RecoveredJob, Job
<1>4. SweptJob(jobs[r], r, now) \in Job
  BY <1>1, SweepType DEF TypeOK, expireAndRecoverJobs
<1>5. CASE Swept(r, now)
  BY <1>3, <1>5 DEF Swept
<1>6. CASE Claimed(r, now)
  BY <1>4, <1>6 DEF Claimed, ClaimedJob, Job
<1>7. CASE Reopened(r, now)
  BY <1>4, <1>7 DEF Reopened, ReopenedJob, Job
<1>8. CASE Answered(r, now)
  BY <1>1, <1>8 DEF Answered, CompletedJob, Job
<1>9. CASE Failed(r, now)
  <2>1. ASSUME NEW failure PROVE FailedJob(jobs[r], r, failure, now).updatedAt = now
    BY <1>1 DEF FailedJob, ExpiredJob, Job
  <2> QED
    BY <1>9, <2>1 DEF Failed
<1> QED
  BY <1>2, <1>5, <1>6, <1>7, <1>8, <1>9

LEMMA PastStep ==
  ASSUME TypeOK, PastInv, [Next]_vars, TypeOK'
  PROVE  PastInv'
<1>1. clock \in Nat /\ clock' \in Nat /\ clock' >= clock
  BY DEF TypeOK, Next, RunStep, BeginRun, ImportRequest, PullStops, PullSucceeds, Claim,
    ClaimThrows, QueueIdle, QueueFull, AnswerArrives, CallFails, ResultTooLate, ConfigureAi,
    CleanupChats, Crash, Tick, vars
<1>2. ASSUME NEW w \in Workers PROVE run'[w].now <= clock'
  <2>1. run'[w].now \in {run[w].now, clock, 0}
    <3>1. CASE run'[w] = run[w]
      BY <3>1
    <3>2. ASSUME NEW v \in Workers, NEW u, run' = [run EXCEPT ![v] = u],
                 u.now \in {run[v].now, clock, 0}
          PROVE  run'[w].now \in {run[w].now, clock, 0}
      BY <3>2 DEF TypeOK
    <3>3. ASSUME NEW v \in Workers, RunStep(v), ~ UNCHANGED run
          PROVE  \E u : run' = [run EXCEPT ![v] = u] /\ u.now \in {run[v].now, clock, 0}
      <4>1. run[v] \in Run
        BY DEF TypeOK
      <4>2. IdleRun.now = 0 /\ [IdleRun EXCEPT !.phase = "pulling", !.now = clock].now = clock
        BY DEF IdleRun
      <4>3. /\ TakesJobs(run[v]).now = run[v].now
            /\ Freed(run[v]).now = run[v].now
            /\ \A r : Asks(run[v], r).now = run[v].now
        BY <4>1 DEF TakesJobs, Freed, Asks, Run
      <4>4. CASE BeginRun(v) \/ PullStops(v) \/ ClaimThrows(v) \/ QueueIdle(v) \/ QueueFull(v)
                 \/ ResultTooLate(v)
        BY <4>2, <4>4 DEF BeginRun, PullStops, ClaimThrows, QueueIdle, QueueFull, ResultTooLate
      <4>5. CASE PullSucceeds(v) \/ Claim(v) \/ AnswerArrives(v) \/ CallFails(v)
        BY <4>3, <4>5 DEF PullSucceeds, Claim, AnswerArrives, CallFails
      <4>6. ~ \E r \in Requests : ImportRequest(v, r)
        BY <3>3 DEF ImportRequest
      <4> QED
        BY <3>3, <4>4, <4>5, <4>6 DEF RunStep
    <3>4. CASE \E v \in Workers : RunStep(v)
      BY <3>1, <3>2, <3>3, <3>4
    <3>5. CASE Crash
      BY <3>5 DEF Crash, IdleRun
    <3>6. CASE ConfigureAi \/ CleanupChats \/ Tick \/ UNCHANGED vars
      BY <3>1, <3>6 DEF ConfigureAi, CleanupChats, Tick, vars
    <3> QED
      BY <3>4, <3>5, <3>6 DEF Next
  <2>2. run[w].now \in Nat /\ run[w].now <= clock
    BY DEF TypeOK, Run, PastInv
  <2> QED
    BY <1>1, <2>1, <2>2
<1>3. ASSUME NEW r \in Requests PROVE jobs'[r].updatedAt <= clock'
  <2>1. jobs[r] \in Job /\ jobs[r].updatedAt <= clock
    BY DEF TypeOK, PastInv
  <2>2. jobs'[r].updatedAt \in {jobs[r].updatedAt} \cup 0 .. clock
    BY <2>1, RowSteps, StampCases DEF RowStep, Kept
  <2> QED
    BY <1>1, <2>1, <2>2 DEF Job
<1> QED
  BY <1>2, <1>3 DEF PastInv

\* What a sweep makes of a row: as it was, expired, or back in the queue.
LEMMA SweptRow ==
  ASSUME TypeOK, NEW r \in Requests, NEW now \in 0 .. clock, NEW j,
         j = SweptJob(jobs[r], r, now)
  PROVE  /\ j \in Job
         /\ j.attempts = jobs[r].attempts
         /\ \/ j = jobs[r] /\ ~ Lapsed(jobs[r], r, now) /\ ~ Interrupted(jobs[r], r, now)
            \/ /\ Lapsed(jobs[r], r, now)
               /\ ~ Interrupted(jobs[r], r, now)
               /\ j.status = "expired"
               /\ j.updatedAt = now
            \/ /\ Interrupted(jobs[r], r, now)
               /\ j.status = "queued"
               /\ j.updatedAt = now
               /\ j.nextAt = now
<1>1. jobs[r] \in Job /\ now \in Nat
  BY DEF TypeOK
<1>2. j \in Job
  BY <1>1, SweepType DEF TypeOK, expireAndRecoverJobs
<1>3. CASE Lapsed(jobs[r], r, now)
  <2>1. j = ExpiredJob(jobs[r], now)
    BY <1>3 DEF SweptJob
  <2>2. ~ Interrupted(jobs[r], r, now)
    BY <1>1, <1>3, TimesAssumption DEF Lapsed, Interrupted
  <2> QED
    BY <1>1, <1>2, <1>3, <2>1, <2>2 DEF ExpiredJob, Job
<1>4. CASE ~ Lapsed(jobs[r], r, now) /\ Interrupted(jobs[r], r, now)
  <2>1. j = RecoveredJob(jobs[r], now)
    BY <1>4 DEF SweptJob
  <2> QED
    BY <1>1, <1>2, <1>4, <2>1 DEF RecoveredJob, Job
<1>5. CASE ~ Lapsed(jobs[r], r, now) /\ ~ Interrupted(jobs[r], r, now)
  BY <1>1, <1>2, <1>5 DEF SweptJob
<1> QED
  BY <1>3, <1>4, <1>5

\* What a claim, a reopening, an answer and a failure make of a row.
LEMMA WrittenRow ==
  ASSUME NEW j \in Job, NEW now \in Nat, NEW lease \in Nat
  PROVE  /\ LET k == ClaimedJob(j, lease, now)
            IN  /\ k.status = "processing"
                /\ k.attempts = j.attempts + 1
                /\ k.lease = lease
                /\ k.leaseEnd = now + LeaseTime
                /\ k.updatedAt = now
         /\ LET k == ReopenedJob(j, now)
            IN  /\ k.status = "queued"
                /\ k.attempts = j.attempts
                /\ k.nextAt = now
                /\ k.updatedAt = now
         /\ LET k == CompletedJob(j, now)
            IN  k.status = "completed" /\ k.attempts = j.attempts /\ k.updatedAt = now
  BY DEF ClaimedJob, ReopenedJob, CompletedJob, Job

LEMMA FailedRow ==
  ASSUME NEW j \in Job, NEW now \in Nat, NEW r \in Requests, NEW failure \in Failures, NEW k,
         k = FailedJob(j, r, failure, now)
  PROVE  /\ k.attempts = j.attempts
         /\ k.updatedAt = now
         /\ \/ /\ k.status = "queued"
               /\ j.attempts < MaxAttempts
               /\ ExpiresAt[r] > now
               /\ k.nextAt = now + RetryDelay[j.attempts]
            \/ k.status = "failed" /\ ExpiresAt[r] > now
            \/ k.status = "expired" /\ ExpiresAt[r] <= now
<1>1. CASE CanRetry(j, r, failure.retryable, now)
  BY <1>1 DEF FailedJob, CanRetry, Job
<1>2. CASE ~ CanRetry(j, r, failure.retryable, now)
  BY <1>2, TimesAssumption DEF FailedJob, ExpiredJob, Job
<1> QED
  BY <1>1, <1>2

\* The row parts of the invariant, of one request.
RowInv(r) ==
  /\ jobs[r].attempts <= MaxAttempts + interruptions[r]
  /\ jobs[r].status = "queued" => jobs[r].attempts < MaxAttempts + interruptions[r]
  /\ jobs[r].status = "processing" => jobs[r].attempts >= 1
  /\ jobs[r].status = "absent" => jobs[r].attempts = 0
  /\ jobs[r].attempts > 0 =>
       /\ jobs[r].status \in {"queued", "processing", "failed"}
            => jobs[r].updatedAt < ExpiresAt[r]
       /\ jobs[r].status = "queued" => jobs[r].nextAt >= jobs[r].updatedAt
       /\ jobs[r].status = "processing" => jobs[r].leaseEnd > jobs[r].updatedAt
  /\ jobs[r].status = "expired" => ExpiresAt[r] <= clock

LEMMA RowStepInv ==
  ASSUME IInv, [Next]_vars, TypeOK', NEW r \in Requests
  PROVE  /\ RowInv(r)'
         /\ jobs[r].attempts > 0 => jobs'[r].updatedAt >= jobs[r].updatedAt
<1> DEFINE Good == /\ RowInv(r)'
                   /\ jobs[r].attempts > 0 => jobs'[r].updatedAt >= jobs[r].updatedAt
<1>0. /\ TypeOK
      /\ RowInv(r)
      /\ jobs[r] \in Job /\ jobs'[r] \in Job
      /\ interruptions[r] \in Nat /\ interruptions'[r] \in Nat
      /\ clock \in Nat /\ clock' \in Nat
      /\ ExpiresAt[r] \in Nat /\ MaxAttempts \in Nat /\ LeaseTime \in Nat /\ LeaseTime > 0
  BY TimesAssumption, LimitsAssumption DEF IInv, TypeOK, RowInv, RetryInv, StampInv, ExpiryInv
<1>1. clock' >= clock
  BY <1>0 DEF Next, RunStep, BeginRun, ImportRequest, PullStops, PullSucceeds, Claim,
    ClaimThrows, QueueIdle, QueueFull, AnswerArrives, CallFails, ResultTooLate, ConfigureAi,
    CleanupChats, Crash, Tick, vars
<1>2. CASE Kept(r)
  BY <1>0, <1>1, <1>2 DEF Kept, RowInv, Job
<1>3. ASSUME NEW now \in 0 .. clock, Received(r, now) PROVE Good
  <2>1. jobs'[r].attempts = 0 /\ jobs'[r].status \in {"expired", "queued"}
    BY <1>3 DEF Received, NewJob, NoJob
  <2>2. jobs'[r].status = "expired" => ExpiresAt[r] <= now
    BY <1>3 DEF Received, NewJob, NoJob
  <2>3. interruptions'[r] = interruptions[r] /\ jobs[r].attempts = 0
    BY <1>0, <1>3 DEF Received, RowInv
  <2> QED
    BY <1>0, <1>1, <2>1, <2>2, <2>3, LimitsAssumption DEF RowInv, Job
<1>4. ASSUME NEW now \in 0 .. clock, NEW j, j = SweptJob(jobs[r], r, now), SweepCount(r, now)
      PROVE  /\ j \in Job
             /\ j.attempts = jobs[r].attempts
             /\ j.attempts <= MaxAttempts + interruptions'[r]
             /\ j.status = "queued" => j.attempts < MaxAttempts + interruptions'[r]
             /\ j.status = "processing" => j.attempts >= 1
             /\ j.status = "absent" => j.attempts = 0
             /\ j.attempts > 0 =>
                  /\ j.status \in {"queued", "processing", "failed"} => j.updatedAt < ExpiresAt[r]
                  /\ j.status = "queued" => j.nextAt >= j.updatedAt
                  /\ j.status = "processing" => j.leaseEnd > j.updatedAt
                  /\ j.updatedAt >= jobs[r].updatedAt
             /\ j.status = "expired" => ExpiresAt[r] <= clock
  <2>1. CASE j = jobs[r] /\ ~ Interrupted(jobs[r], r, now)
    BY <1>0, <1>4, <2>1 DEF RowInv, SweepCount, Job
  <2>2. CASE /\ Lapsed(jobs[r], r, now)
             /\ ~ Interrupted(jobs[r], r, now)
             /\ j.status = "expired"
             /\ j.updatedAt = now
    BY <1>0, <1>4, <2>2, SweptRow DEF RowInv, SweepCount, Lapsed, Job
  <2>3. CASE /\ Interrupted(jobs[r], r, now)
             /\ j.status = "queued"
             /\ j.updatedAt = now
             /\ j.nextAt = now
    <3>1. j \in Job /\ j.attempts = jobs[r].attempts /\ j.attempts \in Nat
      BY <1>0, <1>4, SweptRow DEF Job
    <3>2. interruptions'[r] = interruptions[r] + 1
      BY <1>4, <2>3 DEF SweepCount
    <3>3. now < ExpiresAt[r] /\ jobs[r].attempts >= 1
      BY <1>0, <2>3 DEF Interrupted, RowInv
    <3>4. now >= jobs[r].updatedAt
      BY <1>0, <2>3, <3>1, <3>3 DEF Interrupted, RowInv, Job
    <3> QED
      BY <1>0, <2>3, <3>1, <3>2, <3>3, <3>4 DEF RowInv
  <2> QED
    BY <1>0, <1>4, <2>1, <2>2, <2>3, SweptRow
<1>5. ASSUME NEW now \in 0 .. clock, Swept(r, now) PROVE Good
  BY <1>0, <1>1, <1>4, <1>5 DEF Swept, RowInv, Job
<1>6. ASSUME NEW now \in 0 .. clock, Claimed(r, now) PROVE Good
  <2> DEFINE j == SweptJob(jobs[r], r, now)
  <2>0. FreshLease \in Nat /\ now \in Nat /\ j \in Job /\ j.attempts \in Nat
    BY <1>0, <1>4, <1>6 DEF FreshLease, TypeOK, Claimed, Job
  <2>1. /\ jobs'[r].status = "processing"
        /\ jobs'[r].attempts = j.attempts + 1
        /\ jobs'[r].leaseEnd = now + LeaseTime
        /\ jobs'[r].updatedAt = now
    BY <1>6, <2>0, WrittenRow DEF Claimed
  <2>2. j.status = "queued" /\ ExpiresAt[r] > now /\ j.nextAt <= now
    BY <1>6, <2>0 DEF Claimed
  <2>3. j.attempts < MaxAttempts + interruptions'[r] /\ j.attempts = jobs[r].attempts
    BY <1>4, <1>6, <2>2 DEF Claimed
  <2>4. jobs[r].attempts > 0 => now >= jobs[r].updatedAt
    BY <1>0, <1>4, <1>6, <2>0, <2>2 DEF Claimed, Job
  <2> QED
    BY <1>0, <1>1, <2>0, <2>1, <2>2, <2>3, <2>4 DEF RowInv
<1>7. ASSUME NEW now \in 0 .. clock, Reopened(r, now) PROVE Good
  <2> DEFINE j == SweptJob(jobs[r], r, now)
  <2>0. j \in Job /\ now = clock /\ j.attempts \in Nat
    BY <1>0, <1>4, <1>7 DEF Reopened, Job
  <2>1. /\ jobs'[r].status = "queued"
        /\ jobs'[r].attempts = j.attempts
        /\ jobs'[r].nextAt = now
        /\ jobs'[r].updatedAt = now
    BY <1>7, <2>0, WrittenRow DEF Reopened
  <2>2. j.attempts < MaxAttempts /\ ExpiresAt[r] > now
    BY <1>7 DEF Reopened, AwaitsConfiguration
  <2>3. j.attempts = jobs[r].attempts /\ jobs[r].updatedAt <= clock
    BY <1>4, <1>7 DEF Reopened, IInv, PastInv
  <2> QED
    BY <1>0, <1>1, <2>0, <2>1, <2>2, <2>3 DEF RowInv
<1>8. ASSUME NEW now \in 0 .. clock, Answered(r, now) \/ Failed(r, now)
      PROVE  jobs[r].status = "processing" /\ jobs[r].updatedAt = now /\ jobs[r].attempts >= 1
  BY <1>0, <1>8 DEF Answered, Failed, HoldsLease, RowInv, IInv, StampInv
<1>9. ASSUME NEW now \in 0 .. clock, Answered(r, now) PROVE Good
  <2>1. /\ jobs'[r].status = "completed"
        /\ jobs'[r].attempts = jobs[r].attempts
        /\ jobs'[r].updatedAt = now
    BY <1>0, <1>9, WrittenRow DEF Answered
  <2> QED
    BY <1>0, <1>1, <1>8, <1>9, <2>1 DEF Answered, RowInv, Job
<1>10. ASSUME NEW now \in 0 .. clock, Failed(r, now) PROVE Good
  <2>1. PICK failure \in Failures : jobs'[r] = FailedJob(jobs[r], r, failure, now)
    BY <1>10 DEF Failed
  <2>2. now \in Nat /\ jobs[r].attempts \in Nat
    BY <1>0 DEF Job
  <2>3. /\ jobs'[r].attempts = jobs[r].attempts
        /\ jobs'[r].updatedAt = now
        /\ \/ /\ jobs'[r].status = "queued"
              /\ jobs[r].attempts < MaxAttempts
              /\ ExpiresAt[r] > now
              /\ jobs'[r].nextAt = now + RetryDelay[jobs[r].attempts]
           \/ jobs'[r].status = "failed" /\ ExpiresAt[r] > now
           \/ jobs'[r].status = "expired" /\ ExpiresAt[r] <= now
    BY <1>0, <2>1, <2>2, FailedRow
  <2>4. jobs[r].attempts < MaxAttempts => RetryDelay[jobs[r].attempts] \in Nat
    BY <1>8, <1>10, <2>2, LimitsAssumption
  <2>5. interruptions'[r] = interruptions[r]
    BY <1>10 DEF Failed
  <2> QED
    BY <1>0, <1>1, <1>8, <1>10, <2>2, <2>3, <2>4, <2>5 DEF RowInv
<1> QED
  BY <1>0, <1>2, <1>3, <1>5, <1>6, <1>7, <1>9, <1>10, RowSteps DEF IInv, RowStep

\* Who holds a lease after a step either just claimed it or held it before, and
\* the row still carries the stamp of that claim.
LEMMA StampStep ==
  ASSUME IInv, [Next]_vars, TypeOK', NEW w \in Workers, HoldsLease(w)'
  PROVE  jobs'[run'[w].req].updatedAt = run'[w].now
<1> DEFINE r == run[w].req
<1>0. TypeOK /\ LeaseInv /\ PastInv
  BY DEF IInv
<1>1. run'[w].phase = "asking"
  BY DEF HoldsLease
<1>2. CASE Leased(w)
  BY <1>2 DEF Leased
<1>3. CASE run'[w] = run[w]
  <2>1. /\ r \in Requests /\ run[w].lease \in 1 .. leaseSeq
        /\ jobs'[r].status = "processing" /\ jobs'[r].lease = run[w].lease
    BY <1>0, <1>1, <1>3 DEF HoldsLease, LeaseInv
  <2>2. jobs[r] \in Job /\ leaseSeq \in Nat
    BY <1>0, <2>1 DEF TypeOK
  <2>3. CASE jobs'[r] = jobs[r]
    BY <1>1, <1>3, <2>1, <2>3 DEF HoldsLease, IInv, StampInv
  <2>4. ASSUME NEW now \in 0 .. clock,
               \/ Received(r, now) \/ Swept(r, now) \/ Claimed(r, now)
               \/ Reopened(r, now) \/ Answered(r, now) \/ Failed(r, now)
        PROVE  jobs'[r] = jobs[r]
    <3> DEFINE j == SweptJob(jobs[r], r, now)
    <3>0. now \in Nat /\ j \in Job
      BY <1>0, <2>1, SweptRow DEF TypeOK
    <3>1. ~ Received(r, now)
      BY <2>1 DEF Received, NewJob, NoJob
    <3>2. CASE Swept(r, now)
      BY <1>0, <2>1, <3>2, SweptRow DEF Swept
    <3>3. ~ Claimed(r, now)
      <4>1. FreshLease \in Nat /\ FreshLease # run[w].lease
        BY <2>1, <2>2 DEF FreshLease
      <4> QED
        BY <2>1, <3>0, <4>1, WrittenRow DEF Claimed
    <3>4. ~ Reopened(r, now)
      BY <2>1, <3>0, WrittenRow DEF Reopened
    <3>5. ~ Answered(r, now)
      BY <2>1, <2>2, <3>0, WrittenRow DEF Answered
    <3>6. ~ Failed(r, now)
      BY <2>1, <2>2, <3>0, FailedRow DEF Failed
    <3> QED
      BY <2>4, <3>1, <3>2, <3>3, <3>4, <3>5, <3>6
  <2> QED
    BY <1>0, <2>1, <2>3, <2>4, RowSteps DEF RowStep, Kept
<1> QED
  BY <1>0, <1>1, <1>2, <1>3, RunSteps

\* The invariant is inductive.
LEMMA InvStep == IInv /\ [Next]_vars => IInv'
<1> SUFFICES ASSUME IInv, [Next]_vars PROVE IInv'
  OBVIOUS
<1>1. TypeOK'
  BY TypeStep DEF IInv
<1>2. LeaseInv' /\ PastInv'
  BY <1>1, LeaseStep, PastStep DEF IInv
<1>3. \A r \in Requests : RowInv(r)'
  BY <1>1, RowStepInv
<1>4. RetryInv' /\ ExpiryInv'
  BY <1>3 DEF RowInv, RetryInv, ExpiryInv
<1>5. StampInv'
  BY <1>1, <1>3, StampStep DEF RowInv, StampInv
<1> QED
  BY <1>1, <1>2, <1>4, <1>5 DEF IInv

LEMMA Invariance == Spec => []IInv
  BY InitInv, InvStep, PTL DEF Spec

-----------------------------------------------------------------------------
(* Theorems *)

\* Every variable keeps its type: no row, run or counter leaves its range.
THEOREM TypeCorrect == Spec => []TypeOK
<1>1. IInv => TypeOK
  BY DEF IInv
<1> QED
  BY <1>1, Invariance, PTL

\* However long a run waits for the AI and whoever asks again meanwhile, one run
\* at most can store the outcome of a request.
THEOREM OneCommitterHolds == Spec => []OneCommitter
<1>1. IInv => OneCommitter
  BY DEF IInv, LeaseInv, OneCommitter, HoldsLease
<1> QED
  BY <1>1, Invariance, PTL

\* MAX_ATTEMPTS bounds the attempts that were not cut short.
THEOREM RetriesCoveredHolds == Spec => []RetriesCovered
<1>1. IInv => RetriesCovered
  BY DEF IInv, RetryInv, RetriesCovered
<1> QED
  BY <1>1, Invariance, PTL

\* The logical clock of an exported response never goes back.
THEOREM PublishedClockMonotoneHolds == Spec => PublishedClockMonotone
<1>1. IInv /\ [Next]_vars =>
        [\A r \in Requests :
           jobs[r].attempts > 0 => jobs'[r].updatedAt >= jobs[r].updatedAt]_vars
  BY TypeStep, RowStepInv DEF IInv
<1> QED
  BY <1>1, Invariance, PTL DEF Spec, PublishedClockMonotone

-----------------------------------------------------------------------------
(* The queue implements the life cycle of a request *)

\* How the statuses of a row map to the states of a request.
LEMMA StateOfStatus ==
  ASSUME NEW j \in Job
  PROVE  /\ LifecycleState(j) \in Lifecycle!States
         /\ j.status = "absent" => LifecycleState(j) = "unknown"
         /\ j.status \in {"queued", "processing"} => LifecycleState(j) = "open"
         /\ j.status = "failed" => LifecycleState(j) = "declined"
         /\ j.status = "completed" => LifecycleState(j) = "answered"
         /\ j.status = "expired" => LifecycleState(j) = "expired"
  BY DEF LifecycleState, Lifecycle!States, Job, Statuses

\* A step moves a request as the life cycle allows, and counts its answers.
LEMMA RowMoves ==
  ASSUME IInv, [Next]_vars, TypeOK', NEW r \in Requests
  PROVE  LET from == LifecycleState(jobs[r])
             to   == LifecycleState(jobs'[r])
         IN  /\ Lifecycle!MayMove(r, from, to)
             /\ replies'[r] = IF <<from, to>> \in Lifecycle!Answer
                              THEN replies[r] + 1 ELSE replies[r]
<1> DEFINE from == LifecycleState(jobs[r])
           to   == LifecycleState(jobs'[r])
           Goal == /\ Lifecycle!MayMove(r, from, to)
                   /\ replies'[r] = IF <<from, to>> \in Lifecycle!Answer
                                    THEN replies[r] + 1 ELSE replies[r]
<1> USE DEF Lifecycle!MayMove, Lifecycle!Receive, Lifecycle!Answer, Lifecycle!Decline,
            Lifecycle!Reopen, Lifecycle!Expire
<1>0. /\ TypeOK /\ PastInv
      /\ jobs[r] \in Job /\ jobs'[r] \in Job
      /\ clock \in Nat /\ ExpiresAt[r] \in Nat
  BY TimesAssumption DEF IInv, TypeOK
<1>1. CASE Kept(r)
  BY <1>1 DEF Kept
<1>2. ASSUME NEW now \in 0 .. clock, Received(r, now) PROVE Goal
  <2>1. \/ jobs'[r].status = "queued"
        \/ jobs'[r].status = "expired" /\ ExpiresAt[r] <= now
    BY <1>2 DEF Received, NewJob, NoJob
  <2>2. jobs[r].status = "absent" /\ replies'[r] = replies[r]
    BY <1>2 DEF Received
  <2> QED
    BY <1>0, <2>1, <2>2, StateOfStatus
<1>3. ASSUME NEW now \in 0 .. clock, NEW j, j = SweptJob(jobs[r], r, now)
      PROVE  /\ j \in Job
             /\ \/ j = jobs[r]
                \/ /\ jobs[r].status \in {"queued", "processing", "failed"}
                   /\ j.status = "expired"
                   /\ ExpiresAt[r] <= clock
                \/ jobs[r].status = "processing" /\ j.status = "queued"
  BY <1>0, <1>3, SweptRow DEF Lapsed, Interrupted
<1>4. ASSUME NEW now \in 0 .. clock, Swept(r, now) PROVE Goal
  <2>1. replies'[r] = replies[r]
    BY <1>4 DEF Swept, SweepCount
  <2> QED
    BY <1>0, <1>3, <1>4, <2>1, StateOfStatus DEF Swept
<1>5. ASSUME NEW now \in 0 .. clock, Claimed(r, now) PROVE Goal
  <2> DEFINE j == SweptJob(jobs[r], r, now)
  <2>1. FreshLease \in Nat /\ now \in Nat /\ j \in Job
    BY <1>0, <1>3 DEF FreshLease, TypeOK
  <2>2. jobs'[r].status = "processing"
    BY <1>5, <2>1, WrittenRow DEF Claimed
  <2>3. jobs[r].status \in {"queued", "processing"} /\ replies'[r] = replies[r]
    BY <1>3, <1>5 DEF Claimed, SweepCount
  <2> QED
    BY <1>0, <2>2, <2>3, StateOfStatus
<1>6. ASSUME NEW now \in 0 .. clock, Reopened(r, now) PROVE Goal
  <2> DEFINE j == SweptJob(jobs[r], r, now)
  <2>1. now \in Nat /\ j \in Job
    BY <1>0, <1>3
  <2>2. jobs'[r].status = "queued"
    BY <1>6, <2>1, WrittenRow DEF Reopened
  <2>3. /\ jobs[r].status = "failed"
        /\ replies'[r] = replies[r]
        /\ clock < ExpiresAt[r]
    BY <1>3, <1>6 DEF Reopened, SweepCount, AwaitsConfiguration
  <2> QED
    BY <1>0, <2>2, <2>3, StateOfStatus
<1>7. ASSUME NEW now \in 0 .. clock, Answered(r, now) \/ Failed(r, now)
      PROVE  jobs[r].status = "processing"
  BY <1>7 DEF Answered, Failed, HoldsLease
<1>8. ASSUME NEW now \in 0 .. clock, Answered(r, now) PROVE Goal
  <2>1. now \in Nat
    BY <1>0
  <2>2. jobs'[r].status = "completed" /\ replies'[r] = replies[r] + 1
    BY <1>0, <1>8, <2>1, WrittenRow DEF Answered
  <2> QED
    BY <1>0, <1>7, <1>8, <2>2, StateOfStatus
<1>9. ASSUME NEW now \in 0 .. clock, Failed(r, now) PROVE Goal
  <2>1. PICK failure \in Failures : jobs'[r] = FailedJob(jobs[r], r, failure, now)
    BY <1>9 DEF Failed
  <2>2. now \in Nat /\ now <= clock
    BY <1>0
  <2>3. \/ jobs'[r].status = "queued" \/ jobs'[r].status = "failed"
        \/ jobs'[r].status = "expired" /\ ExpiresAt[r] <= clock
    BY <1>0, <2>1, <2>2, FailedRow
  <2>4. replies'[r] = replies[r] /\ jobs[r].status = "processing"
    BY <1>7, <1>9 DEF Failed
  <2> QED
    BY <1>0, <2>3, <2>4, StateOfStatus
<1> QED
  BY <1>0, <1>1, <1>2, <1>4, <1>5, <1>6, <1>8, <1>9, RowSteps DEF RowStep

\* The queue implements ChatRequestLifecycle: whatever runs, leases, retries,
\* restarts and stale readings of the clock do, a request is answered at most
\* once, expires only after its deadline, and is settled for good.
THEOREM Implements == Spec => KeepsLifecycle
<1> USE DEF Lifecycle!vars
<1>1. Init => Lifecycle!Init
  <2> SUFFICES ASSUME Init PROVE Lifecycle!Init
    OBVIOUS
  <2>1. \A r \in Requests : LifecycleState(jobs[r]) = "unknown"
    BY DEF Init, NoJob, LifecycleState
  <2> QED
    BY <2>1 DEF Init, Lifecycle!Init
<1>2. IInv /\ [Next]_vars => [Lifecycle!Next]_(Lifecycle!vars)
  <2> SUFFICES ASSUME IInv, [Next]_vars
               PROVE  Lifecycle!Next \/ UNCHANGED Lifecycle!vars
    OBVIOUS
  <2>1. TypeOK /\ TypeOK'
    BY TypeStep DEF IInv
  <2>2. CASE Tick
    BY <2>2 DEF Tick, Lifecycle!Next, Lifecycle!Pass
  <2>3. CASE ~ Tick
    <3>1. UNCHANGED clock
      BY <2>3 DEF Next, RunStep, BeginRun, ImportRequest, PullStops, PullSucceeds, Claim,
        ClaimThrows, QueueIdle, QueueFull, AnswerArrives, CallFails, ResultTooLate, ConfigureAi,
        CleanupChats, Crash, vars
    <3>2. \A r \in Requests : LifecycleState(jobs'[r]) \in Lifecycle!States
      BY <2>1, StateOfStatus DEF TypeOK
    <3>3. replies' \in [Requests -> Nat]
      BY <2>1 DEF TypeOK
    <3>4. Lifecycle!Move
      BY <2>1, <3>1, <3>2, <3>3, RowMoves DEF Lifecycle!Move
    <3> QED
      BY <3>4 DEF Lifecycle!Next
  <2> QED
    BY <2>2, <2>3
<1> QED
  BY <1>1, <1>2, Invariance, PTL DEF Spec, KeepsLifecycle, Lifecycle!Spec

=============================================================================
