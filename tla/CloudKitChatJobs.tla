-------------------------- MODULE CloudKitChatJobs --------------------------
(***************************************************************************)
(* The durable queue of chat requests a phone sends to the Mac through     *)
(* iCloud: server/cloudKitChatJobs.ts (the table and its operations),      *)
(* server/cloudKitChatWorker.ts (the worker that asks the AI) and the part *)
(* of server/cloudKitSyncCycle.ts that runs the worker.                    *)
(*                                                                         *)
(* Every operation of the table is one synchronous SQLite call of a single *)
(* Node process, so it is one atomic action.  Runs of the sync cycle       *)
(* interleave at their awaits: the pull from iCloud and the AI call.  A    *)
(* run reads the clock once, when it starts, and passes that reading to    *)
(* everything it does; the reading may be old when it is used.             *)
(*                                                                         *)
(* A conversation holds one request here, so its two messages (the user's  *)
(* and the assistant's) come and go together with it.                      *)
(***************************************************************************)
EXTENDS Integers, FiniteSets

CONSTANTS
  Requests,       \* requests the phone may send
  NoRequest,      \* stands for "no request"
  Workers,        \* runs of the sync cycle that can be in progress at once
  CreatedAt,      \* [Requests -> time the phone signed the request]
  ExpiresAt,      \* [Requests -> time after which it must not be answered]
  LeaseTime,      \* leaseMs: the AI timeout plus a margin
  MaxAttempts,    \* MAX_ATTEMPTS
  RetryDelay,     \* [attempts made -> time to the next]: doubles up to a cap
  QueueLimit,     \* jobs one run of the worker takes at most
  CleanupAge,     \* age of the conversations the owner's cleanup deletes
  MaxTime,        \* bound of the clock, for model checking
  MaxCrashes      \* bound of the number of server restarts

ASSUME TimesAssumption ==
  /\ CreatedAt \in [Requests -> Nat]
  /\ ExpiresAt \in [Requests -> Nat]
  /\ \A r \in Requests : CreatedAt[r] < ExpiresAt[r]

ASSUME RequestsAssumption == NoRequest \notin Requests

ASSUME LimitsAssumption ==
  /\ LeaseTime \in Nat \ {0}
  /\ MaxAttempts \in Nat \ {0}
  /\ RetryDelay \in [1 .. MaxAttempts -> Nat]
  /\ QueueLimit \in Nat \ {0}
  /\ CleanupAge \in Nat
  /\ MaxTime \in Nat
  /\ MaxCrashes \in Nat

VARIABLES
  clock,          \* the time of day
  jobs,           \* table cloudkit_chat_jobs
  prompts,        \* requests whose user message (and conversation) is stored
  answers,        \* requests whose assistant message is stored
  leaseSeq,       \* number of lease ids drawn so far: each id is fresh
  run,            \* the sync-cycle runs
  crashes,        \* restarts so far
  replies,        \* history: assistant messages ever written, per request
  interruptions   \* history: leases that ran out, per request

vars == <<clock, jobs, prompts, answers, leaseSeq, run, crashes, replies, interruptions>>

-----------------------------------------------------------------------------
(* Data *)

NoTime  == -1
NoLease == 0

Statuses == {"absent", "queued", "processing", "completed", "failed", "expired"}
Final    == {"completed", "expired"}
Codes    == {"none", "request-expired", "worker-interrupted", "ai-not-configured",
             "ai-refused", "ai-temporary", "configuration-updated"}

\* A row of the table; "absent" stands for no row.
Job == [status    : Statuses,
        attempts  : Nat,
        nextAt    : Nat \cup {NoTime},
        lease     : Nat,
        leaseEnd  : Nat \cup {NoTime},
        code      : Codes,
        updatedAt : Nat \cup {NoTime}]

NoJob == [status |-> "absent", attempts |-> 0, nextAt |-> NoTime, lease |-> NoLease,
          leaseEnd |-> NoTime, code |-> "none", updatedAt |-> NoTime]

\* A run of the cycle: waiting for the pull, taking jobs, or waiting for the AI
\* with the lease it claimed.
Phases == {"idle", "pulling", "queue", "asking"}

Run == [phase : Phases,
        now   : Nat,
        left  : Nat,
        req   : Requests \cup {NoRequest},
        lease : Nat]

IdleRun == [phase |-> "idle", now |-> 0, left |-> 0, req |-> NoRequest, lease |-> NoLease]

-----------------------------------------------------------------------------
(* The table's operations *)

\* The row enqueueCloudKitChatRequest inserts at time now.
NewJob(r, now) ==
  IF ExpiresAt[r] <= now
  THEN [NoJob EXCEPT !.status = "expired", !.code = "request-expired", !.updatedAt = now]
  ELSE [NoJob EXCEPT !.status = "queued", !.updatedAt = now]

\* Mutants: settled jobs expire too; jobs that failed never expire.
LapsedSettled(j, r, now) ==
  j.status # "absent" /\ ExpiresAt[r] <= now

LapsedButFailed(j, r, now) ==
  j.status \in {"queued", "processing"} /\ ExpiresAt[r] <= now

\* The two UPDATE statements of expireAndRecoverJobs.
Lapsed(j, r, now) ==
  j.status \in {"queued", "processing", "failed"} /\ ExpiresAt[r] <= now

\* Mutant: a lease that still runs counts as lapsed.
InterruptedAlways(j, r, now) ==
  j.status = "processing" /\ ExpiresAt[r] > now

Interrupted(j, r, now) ==
  j.status = "processing" /\ j.leaseEnd <= now /\ ExpiresAt[r] > now

ExpiredJob(j, now) ==
  [j EXCEPT !.status = "expired", !.code = "request-expired", !.lease = NoLease,
            !.leaseEnd = NoTime, !.updatedAt = now]

RecoveredJob(j, now) ==
  [j EXCEPT !.status = "queued", !.code = "worker-interrupted", !.lease = NoLease,
            !.leaseEnd = NoTime, !.nextAt = now, !.updatedAt = now]

SweptJob(j, r, now) ==
  IF Lapsed(j, r, now) THEN ExpiredJob(j, now)
  ELSE IF Interrupted(j, r, now) THEN RecoveredJob(j, now)
  ELSE j

expireAndRecoverJobs(now) == [r \in Requests |-> SweptJob(jobs[r], r, now)]

CountInterruptions(now) ==
  interruptions' = [r \in Requests |->
    IF Interrupted(jobs[r], r, now) THEN interruptions[r] + 1 ELSE interruptions[r]]

\* The SELECT of claimNextCloudKitChatJob: due jobs, and the oldest of them.
Due(js, now) ==
  {r \in Requests : /\ js[r].status = "queued"
                    /\ ExpiresAt[r] > now
                    /\ js[r].nextAt = NoTime \/ js[r].nextAt <= now}

Oldest(S) == {r \in S : \A s \in S : CreatedAt[r] <= CreatedAt[s]}

\* Mutant: every lease gets the same id.
FreshLeaseReused == 1

FreshLease == leaseSeq + 1

ClaimedJob(j, lease, now) ==
  [j EXCEPT !.status = "processing", !.attempts = j.attempts + 1, !.lease = lease,
            !.leaseEnd = now + LeaseTime, !.nextAt = NoTime, !.code = "none",
            !.updatedAt = now]

\* requireLease: the run still owns the job it claimed.
HoldsLease(w) ==
  /\ run[w].phase = "asking"
  /\ jobs[run[w].req].status = "processing"
  /\ jobs[run[w].req].lease = run[w].lease

CompletedJob(j, now) ==
  [j EXCEPT !.status = "completed", !.code = "none", !.lease = NoLease,
            !.leaseEnd = NoTime, !.updatedAt = now]

\* classifyWorkerError: what may go wrong with a call, as a code and whether the
\* job may be tried again.
Failures == [code : {"ai-temporary"}, retryable : {TRUE}]
       \cup [code : {"ai-not-configured", "ai-refused"}, retryable : {FALSE}]

CanRetry(j, r, retryable, now) ==
  retryable /\ j.attempts < MaxAttempts /\ ExpiresAt[r] > now

FailedJob(j, r, failure, now) ==
  IF CanRetry(j, r, failure.retryable, now)
  THEN [j EXCEPT !.status = "queued", !.nextAt = now + RetryDelay[j.attempts],
                 !.code = failure.code, !.lease = NoLease, !.leaseEnd = NoTime,
                 !.updatedAt = now]
  ELSE IF ExpiresAt[r] <= now
  THEN [ExpiredJob(j, now) EXCEPT !.nextAt = NoTime]
  ELSE [j EXCEPT !.status = "failed", !.nextAt = NoTime, !.code = failure.code,
                 !.lease = NoLease, !.leaseEnd = NoTime, !.updatedAt = now]

\* Mutant: a job that has used its attempts is reopened.
AwaitsConfigurationSpent(j, r, now) ==
  /\ j.status = "failed"
  /\ j.code = "ai-not-configured"
  /\ ExpiresAt[r] > now

\* A failed job the owner's AI configuration may repair.
AwaitsConfiguration(j, r, now) ==
  /\ j.status = "failed"
  /\ j.code = "ai-not-configured"
  /\ j.attempts < MaxAttempts
  /\ ExpiresAt[r] > now

ReopenedJob(j, now) ==
  [j EXCEPT !.status = "queued", !.nextAt = now, !.code = "configuration-updated",
            !.lease = NoLease, !.leaseEnd = NoTime, !.updatedAt = now]

\* chat_sessions.updated_at of the request's conversation.
LastActivity(r) ==
  IF r \in answers /\ jobs[r].updatedAt > CreatedAt[r]
  THEN jobs[r].updatedAt
  ELSE CreatedAt[r]

\* A run that takes jobs, waits for the AI to answer r, and is free again.
TakesJobs(u) == [u EXCEPT !.phase = "queue", !.left = QueueLimit]

Asks(u, r) == [u EXCEPT !.phase = "asking", !.req = r, !.lease = FreshLease]

Freed(u) == [u EXCEPT !.phase = "queue", !.left = u.left - 1,
                      !.req = NoRequest, !.lease = NoLease]

-----------------------------------------------------------------------------
(* A run of the sync cycle *)

\* The cycle starts and reads the clock, then waits for iCloud.
BeginRun(w) ==
  /\ run[w].phase = "idle"
  /\ run' = [run EXCEPT ![w] = [IdleRun EXCEPT !.phase = "pulling", !.now = clock]]
  /\ UNCHANGED <<clock, jobs, prompts, answers, leaseSeq, crashes, replies, interruptions>>

\* The pull applies a request the phone signed: the first delivery inserts the
\* job, a later one only restores the conversation and the user message.
ImportRequest(w, r) ==
  /\ run[w].phase = "pulling"
  /\ CreatedAt[r] <= clock
  /\ prompts' = prompts \cup {r}
  /\ jobs' = IF jobs[r].status = "absent"
             THEN [jobs EXCEPT ![r] = NewJob(r, run[w].now)]
             ELSE jobs
  /\ UNCHANGED <<clock, answers, leaseSeq, run, crashes, replies, interruptions>>

\* The pull failed, found conflicts, or has more pages: the cycle returns.
PullStops(w) ==
  /\ run[w].phase = "pulling"
  /\ run' = [run EXCEPT ![w] = IdleRun]
  /\ UNCHANGED <<clock, jobs, prompts, answers, leaseSeq, crashes, replies, interruptions>>

PullSucceeds(w) ==
  /\ run[w].phase = "pulling"
  /\ run' = [run EXCEPT ![w] = TakesJobs(run[w])]
  /\ UNCHANGED <<clock, jobs, prompts, answers, leaseSeq, crashes, replies, interruptions>>

\* Mutant: the limit of the queue is not tested.
TakesMore(w) == run[w].phase = "queue"

\* The loop of runCloudKitChatWorkerQueue goes round once more.
MayTake(w) == run[w].phase = "queue" /\ run[w].left > 0

\* claimNextCloudKitChatJob leases the oldest due job, and the AI is called.
Claim(w) ==
  /\ MayTake(w)
  /\ LET now   == run[w].now
         swept == expireAndRecoverJobs(now)
     IN  /\ \E r \in Oldest(Due(swept, now)) :
              /\ r \in prompts
              /\ jobs' = [swept EXCEPT ![r] = ClaimedJob(swept[r], FreshLease, now)]
              /\ run' = [run EXCEPT ![w] = Asks(run[w], r)]
         /\ CountInterruptions(now)
  /\ leaseSeq' = leaseSeq + 1
  /\ UNCHANGED <<clock, prompts, answers, crashes, replies>>

\* The oldest due job lost its user message: the transaction is rolled back, the
\* expiry and recovery it did with it, and the cycle throws.
ClaimThrows(w) ==
  /\ MayTake(w)
  /\ LET now == run[w].now
     IN  \E r \in Oldest(Due(expireAndRecoverJobs(now), now)) : r \notin prompts
  /\ run' = [run EXCEPT ![w] = IdleRun]
  /\ UNCHANGED <<clock, jobs, prompts, answers, leaseSeq, crashes, replies, interruptions>>

\* No job is due: the queue is idle and the cycle goes on to its upload.
QueueIdle(w) ==
  /\ MayTake(w)
  /\ LET now == run[w].now
     IN  /\ Due(expireAndRecoverJobs(now), now) = {}
         /\ jobs' = expireAndRecoverJobs(now)
         /\ CountInterruptions(now)
  /\ run' = [run EXCEPT ![w] = IdleRun]
  /\ UNCHANGED <<clock, prompts, answers, leaseSeq, crashes, replies>>

\* The run took as many jobs as it may.
QueueFull(w) ==
  /\ run[w].phase = "queue"
  /\ run[w].left = 0
  /\ run' = [run EXCEPT ![w] = IdleRun]
  /\ UNCHANGED <<clock, jobs, prompts, answers, leaseSeq, crashes, replies, interruptions>>

\* The AI answered in time: completeCloudKitChatJob stores the assistant message
\* and completes the job in one transaction.  The conversation must still exist
\* (foreign key) and hold no answer to this request (unique index).
AnswerArrives(w) ==
  LET r   == run[w].req
      now == run[w].now
  IN  /\ HoldsLease(w)
      /\ ExpiresAt[r] > now
      /\ r \in prompts
      /\ r \notin answers
      /\ jobs' = [jobs EXCEPT ![r] = CompletedJob(jobs[r], now)]
      /\ answers' = answers \cup {r}
      /\ replies' = [replies EXCEPT ![r] = replies[r] + 1]
      /\ run' = [run EXCEPT ![w] = Freed(run[w])]
      /\ UNCHANGED <<clock, prompts, leaseSeq, crashes, interruptions>>

\* The call or the storing of its answer failed: failCloudKitChatJob.
CallFails(w) ==
  LET r == run[w].req
  IN  /\ HoldsLease(w)
      /\ \E failure \in Failures :
           jobs' = [jobs EXCEPT ![r] = FailedJob(jobs[r], r, failure, run[w].now)]
      /\ run' = [run EXCEPT ![w] = Freed(run[w])]
      /\ UNCHANGED <<clock, prompts, answers, leaseSeq, crashes, replies, interruptions>>

\* The lease is gone when the call returns: completing throws, and so does the
\* failure handler, and the whole cycle with it.
ResultTooLate(w) ==
  /\ run[w].phase = "asking"
  /\ ~ HoldsLease(w)
  /\ run' = [run EXCEPT ![w] = IdleRun]
  /\ UNCHANGED <<clock, jobs, prompts, answers, leaseSeq, crashes, replies, interruptions>>

-----------------------------------------------------------------------------
(* The owner, the clock and the operating system *)

\* The owner saves AI settings: requeueCloudKitChatJobsAfterAiConfiguration.
ConfigureAi ==
  LET swept == expireAndRecoverJobs(clock)
  IN  /\ jobs' = [r \in Requests |->
                    IF AwaitsConfiguration(swept[r], r, clock)
                    THEN ReopenedJob(swept[r], clock)
                    ELSE swept[r]]
      /\ CountInterruptions(clock)
      /\ UNCHANGED <<clock, prompts, answers, leaseSeq, run, crashes, replies>>

\* The owner cleans up old conversations: cleanupData deletes their messages,
\* whatever the state of their jobs.
CleanupChats ==
  LET old == {r \in prompts : LastActivity(r) < clock - CleanupAge}
  IN  /\ old # {}
      /\ prompts' = prompts \ old
      /\ answers' = answers \ old
      /\ UNCHANGED <<clock, jobs, leaseSeq, run, crashes, replies, interruptions>>

\* The server stops and starts again: the table survives, the runs do not.
Crash ==
  /\ crashes < MaxCrashes
  /\ crashes' = crashes + 1
  /\ run' = [w \in Workers |-> IdleRun]
  /\ UNCHANGED <<clock, jobs, prompts, answers, leaseSeq, replies, interruptions>>

Tick ==
  /\ clock < MaxTime
  /\ clock' = clock + 1
  /\ UNCHANGED <<jobs, prompts, answers, leaseSeq, run, crashes, replies, interruptions>>

-----------------------------------------------------------------------------
(* Specification *)

Init ==
  /\ clock = 0
  /\ jobs = [r \in Requests |-> NoJob]
  /\ prompts = {}
  /\ answers = {}
  /\ leaseSeq = 0
  /\ run = [w \in Workers |-> IdleRun]
  /\ crashes = 0
  /\ replies = [r \in Requests |-> 0]
  /\ interruptions = [r \in Requests |-> 0]

RunStep(w) ==
  \/ BeginRun(w)
  \/ \E r \in Requests : ImportRequest(w, r)
  \/ PullStops(w)
  \/ PullSucceeds(w)
  \/ Claim(w)
  \/ ClaimThrows(w)
  \/ QueueIdle(w)
  \/ QueueFull(w)
  \/ AnswerArrives(w)
  \/ CallFails(w)
  \/ ResultTooLate(w)

Next ==
  \/ \E w \in Workers : RunStep(w)
  \/ ConfigureAi
  \/ CleanupChats
  \/ Crash
  \/ Tick

Spec == Init /\ [][Next]_vars

-----------------------------------------------------------------------------
(* Properties *)

TypeOK ==
  /\ clock \in Nat
  /\ jobs \in [Requests -> Job]
  /\ prompts \subseteq Requests
  /\ answers \subseteq Requests
  /\ leaseSeq \in Nat
  /\ run \in [Workers -> Run]
  /\ crashes \in Nat
  /\ replies \in [Requests -> Nat]
  /\ interruptions \in [Requests -> Nat]

\* At most one run can still write the outcome of a request, though a run whose
\* lease ran out keeps waiting for the AI while another run asks again.
OneCommitter ==
  \A v, w \in Workers :
    HoldsLease(v) /\ HoldsLease(w) /\ run[v].req = run[w].req => v = w

\* The attempts beyond MAX_ATTEMPTS are exactly accounted for by leases that ran
\* out: failed calls alone never ask the AI once more.
RetriesCovered ==
  \A r \in Requests : jobs[r].attempts <= MaxAttempts + interruptions[r]

\* Once a job is exported (it was claimed at least once), the time stamp its
\* response carries as logical clock never goes back, though runs with an older
\* clock reading write to the table: the helper refuses a lower clock.
PublishedClockMonotone ==
  [][\A r \in Requests :
       jobs[r].attempts > 0 => jobs'[r].updatedAt >= jobs[r].updatedAt]_vars

\* The state the phone's request is in, as ChatRequestLifecycle names it.
LifecycleState(j) ==
  CASE j.status = "absent"                     -> "unknown"
    [] j.status \in {"queued", "processing"}   -> "open"
    [] j.status = "failed"                     -> "declined"
    [] j.status = "completed"                  -> "answered"
    [] j.status = "expired"                    -> "expired"

Lifecycle == INSTANCE ChatRequestLifecycle WITH
  time     <- clock,
  state    <- [r \in Requests |-> LifecycleState(jobs[r])],
  answered <- replies

\* The queue implements the life cycle: answered once, expired only after the
\* deadline, settled for good.
KeepsLifecycle == Lifecycle!Spec

\* What the code's scheduling justifies: the scheduler starts a run again and
\* again, a pull ends one way or the other, a run that does not wait goes on, and
\* a call returns (withTimeout).  That a pull gets through is not assumed: a row
\* with a conflict ends every pull and has no way out.
Scheduling ==
  /\ WF_vars(Tick)
  /\ \A w \in Workers :
       /\ WF_vars(BeginRun(w))
       /\ WF_vars(PullStops(w) \/ PullSucceeds(w))
       /\ WF_vars(Claim(w) \/ ClaimThrows(w) \/ QueueIdle(w) \/ QueueFull(w))
       /\ WF_vars(AnswerArrives(w) \/ CallFails(w) \/ ResultTooLate(w))

FairSpec == Spec /\ Scheduling

\* Some run gets past its pull again and again, whatever the others do.
PullsGetThrough == \E w \in Workers : []<><<PullSucceeds(w)>>_vars

\* As long as pulls get through now and then, every stored request is answered or
\* expired in the end, whatever else fails: calls, leases, restarts of the server,
\* a due job whose message was cleaned up and whose claim throws every time.
EverySettled == PullsGetThrough => Lifecycle!Progress

=============================================================================
