-------------------------- MODULE CloudKitAutoSync --------------------------
(***************************************************************************)
(* When the Mac synchronises with the private CloudKit database:           *)
(* server/cloudKitAutoSyncSchedule.ts, the cycle it runs                   *)
(* (server/cloudKitSyncCycle.ts) and the admin routes that start a cycle   *)
(* or an upload by hand.                                                   *)
(*                                                                         *)
(* The schedule is one JSON value.  A scheduled run reads it, awaits a     *)
(* pull and an upload, and writes back what it read with the result; in    *)
(* between local changes are noted and the owner changes the schedule.     *)
(*                                                                         *)
(* An upload takes a batch: the kinds of record in the order the program   *)
(* collects them, no more than the limit in all                            *)
(* (server/cloudKitSyncBatch.ts).  When it succeeds the noted changes are  *)
(* done with, whether or not there was room for them in the batch.         *)
(*                                                                         *)
(* Time is kept as the schedule uses it: each time stamp is how long ago   *)
(* it was or how long it is still to come, and a time to come that has     *)
(* passed is 0.                                                            *)
(*                                                                         *)
(* getCloudKitAutoSyncSchedule would fill in a missing next run; TypeOK    *)
(* says that an enabled schedule always has one.                           *)
(***************************************************************************)
EXTENDS Integers, FiniteSets

CONSTANTS
  Shortest,     \* MIN_INTERVAL_MINUTES, which is also the default
  Longest,      \* MAX_INTERVAL_MINUTES
  Delay,        \* LOCAL_CHANGE_SYNC_DELAY_MS, REMOTE_PAGE_SYNC_DELAY_MS
  Retry,        \* TRANSIENT_RETRY_DELAY_MS
  Requests,     \* cycles and uploads by hand that can be in progress at once
  Records,      \* the records of the data types that are synchronised
  Kind,         \* [Records -> place of their kind in the order of collection]
  ByCreation,   \* records of the kinds listed by creation: messages and tasks
  RunLimit,     \* most records in the batch of a scheduled run
  HandLimits,   \* limits that a cycle or an upload by hand may ask for
  MaxChanges,   \* bound of the number of local changes
  None          \* undefined

ASSUME TimesAssumption ==
  /\ Shortest \in Nat \ {0} /\ Longest \in Nat /\ Shortest <= Longest
  /\ Delay \in Nat \ {0} /\ Delay <= Shortest
  /\ Retry \in Nat \ {0} /\ Retry <= Shortest

ASSUME BoundsAssumption ==
  /\ MaxChanges \in Nat
  /\ None \notin Nat

ASSUME RecordsAssumption ==
  /\ IsFiniteSet(Records)
  /\ Kind \in [Records -> Nat]
  /\ ByCreation \subseteq Records
  /\ RunLimit \in Nat \ {0}
  /\ HandLimits \subseteq Nat \ {0}

VARIABLES
  schedule,     \* the stored schedule
  auto,         \* the run of runCloudKitAutoSyncNow in progress
  request,      \* the cycles and uploads by hand
  nudged,       \* a push or a wake has queued a run
  starting,     \* the startup timer has not fired yet
  local,        \* local changes so far, which number them
  made,         \* [Records -> the change that made the record, 0 before it]
  changed,      \* [Records -> the last change of the record]
  uploaded,     \* history: [Records -> the last change of it known to be in iCloud]
  passed,       \* history: records whose last change was noted, but had no room in
                \* the batch, when an upload succeeded
  quiet         \* history: changes noted while nothing was in progress

data    == <<local, made, changed>>
history == <<uploaded, passed, quiet>>

vars == <<schedule, auto, request, nudged, starting, data, history>>

Intervals == Shortest .. Longest

\* pending: how long until the run that the noted changes ask for.
Schedule == [enabled  : BOOLEAN,
             interval : Intervals,
             lastRun  : 0 .. Longest \cup {None},
             nextRun  : 0 .. Longest \cup {None},
             pending  : 0 .. Delay \cup {None}]

\* An export: the changes made before it, and the change of each record in its
\* batch, 0 for the records that are not.
Changes == 0 .. MaxChanges
Export  == [upTo : Changes, holds : [Records -> Changes]]

\* A run: what it keeps of the schedule it read, how long ago it started, and
\* its export.
Phases == {"idle", "pulling", "uploading"}
Read    == [enabled : BOOLEAN, interval : Intervals, pending : 0 .. Delay \cup {None}]
AutoRun   == [phase : Phases, read : Read, started : 0 .. Longest, export : Export]

Request == [phase : Phases, export : Export]

\* Mutant: no floor.
Unfloored(d) == d

\* A time to come that has passed is 0.
Left(d) == IF d < 0 THEN 0 ELSE d

Earlier(d, e) == IF d < e THEN d ELSE e
Later(d, e)   == IF d < e THEN e ELSE d

\* computeNextRun, with a last run that may be undefined
NextRun(interval, lastRun) == Left(interval - (IF lastRun = None THEN 0 ELSE lastRun))

\* preferPendingLocalChangeRunAt
Prefer(d, pending) == IF pending = None THEN d ELSE Earlier(d, pending)

NothingRuns == auto.phase = "idle" /\ \A q \in Requests : request[q].phase = "idle"

-----------------------------------------------------------------------------
(* The batch of an upload *)

\* Each collector lists its records newest first, by their creation or by their
\* last change.
Age(r) == IF r \in ByCreation THEN made[r] ELSE changed[r]

\* The records that are collected before r.
Ahead(r) ==
  {s \in Records : /\ made[s] # 0
                   /\ \/ Kind[s] < Kind[r]
                      \/ Kind[s] = Kind[r] /\ Age(s) > Age(r)}

\* buildCloudKitSyncBatchPreview, buildCloudKitSyncExportPackage
Batch(limit) == {r \in Records : made[r] # 0 /\ Cardinality(Ahead(r)) < limit}

Exported(limit) ==
  [upTo  |-> local,
   holds |-> [r \in Records |-> IF r \in Batch(limit) THEN changed[r] ELSE 0]]

NoExport == [upTo |-> 0, holds |-> [r \in Records |-> 0]]

\* An upload of this export succeeded.
Upload(export) ==
  /\ uploaded' = [r \in Records |-> Later(uploaded[r], export.holds[r])]
  /\ passed' = {r \in Records : IF changed[r] <= export.upTo
                                THEN export.holds[r] < changed[r]
                                ELSE r \in passed}
  /\ UNCHANGED quiet

-----------------------------------------------------------------------------
(* The schedule *)

\* updateCloudKitAutoSyncSchedule
Updated(enabled, interval) ==
  [schedule EXCEPT
     !.enabled = enabled, !.interval = interval,
     !.nextRun = IF enabled THEN Prefer(NextRun(interval, schedule.lastRun), schedule.pending)
                 ELSE None]

\* A route saves a change of record r, or a new record; noteCloudKitLocalChange
LocalChange(r) ==
  /\ local < MaxChanges
  /\ local' = local + 1
  /\ changed' = [changed EXCEPT ![r] = local']
  /\ made' = [made EXCEPT ![r] = IF made[r] = 0 THEN local' ELSE @]
  /\ schedule' = [schedule EXCEPT
       !.pending = Delay,
       !.nextRun = IF schedule.enabled THEN Earlier(schedule.nextRun, Delay) ELSE @]
  /\ quiet' = IF NothingRuns THEN quiet \cup {local'} ELSE quiet
  /\ passed' = passed \ {r}
  /\ UNCHANGED <<auto, request, nudged, starting, uploaded>>

\* clearCloudKitLocalChanges
Cleared ==
  IF schedule.pending = None THEN schedule
  ELSE [schedule EXCEPT
          !.pending = None,
          !.nextRun = IF schedule.enabled THEN NextRun(schedule.interval, schedule.lastRun) ELSE @]

OwnerUpdates(enabled, interval) ==
  /\ schedule' = Updated(enabled, interval)
  /\ UNCHANGED <<auto, request, nudged, starting, data, history>>

-----------------------------------------------------------------------------
(* Scheduled runs *)

Kept(s) == [enabled |-> s.enabled, interval |-> s.interval, pending |-> s.pending]

IdleAuto == [phase |-> "idle", started |-> 0, export |-> NoExport,
             read |-> [enabled |-> FALSE, interval |-> Shortest, pending |-> None]]

\* When the run that read this schedule says the next one is.
NextAfter(read, started, outcome) ==
  CASE ~read.enabled        -> None
    [] outcome = "page"     -> Earlier(NextRun(read.interval, started), Left(Delay - started))
    [] outcome = "retry"    -> Earlier(NextRun(read.interval, started), Left(Retry - started))
    [] OTHER                -> NextRun(read.interval, started)

\* Mutant: a run that ends clears what it read, whatever its outcome.
PendingForgotten(read, outcome) == None

PendingAfter(read, outcome) == IF outcome = "ok" THEN None ELSE read.pending

\* The schedule a run writes back: the one it read, with its result.
WrittenBack(read, started, outcome) ==
  [enabled  |-> read.enabled,
   interval |-> read.interval,
   lastRun  |-> started,
   nextRun  |-> NextAfter(read, started, outcome),
   pending  |-> PendingAfter(read, outcome)]

\* runCloudKitAutoSyncNow up to its await, for the schedule s: it does nothing
\* while a run is in progress and records that CloudKit is not ready.
RunNow(s, ready) ==
  IF auto.phase # "idle"
  THEN schedule' = s /\ auto' = auto
  ELSE IF ready
  THEN /\ schedule' = s
       /\ auto' = [IdleAuto EXCEPT !.phase = "pulling", !.read = Kept(s)]
  ELSE schedule' = WrittenBack(Kept(s), 0, "unready") /\ auto' = auto

\* Mutant: a run that has nothing queued is skipped.
PollIfPending(ready) ==
  /\ schedule.enabled /\ schedule.nextRun = 0 /\ schedule.pending # None
  /\ RunNow(schedule, ready)
  /\ UNCHANGED <<request, nudged, starting, data, history>>

\* runDueCloudKitAutoSync, polled by the scheduler
Poll(ready) ==
  /\ schedule.enabled /\ schedule.nextRun = 0
  /\ RunNow(schedule, ready)
  /\ UNCHANGED <<request, nudged, starting, data, history>>

\* The startup timer of startCloudKitAutoSyncScheduler
Startup(ready) ==
  /\ starting
  /\ starting' = FALSE
  /\ IF schedule.enabled THEN RunNow(schedule, ready) ELSE UNCHANGED <<schedule, auto>>
  /\ UNCHANGED <<request, nudged, data, history>>

\* A CloudKit push or a desktop wake queues a run, which no longer looks at
\* whether the schedule is enabled.
Nudge ==
  /\ schedule.enabled
  /\ nudged' = TRUE
  /\ UNCHANGED <<schedule, auto, request, starting, data, history>>

RunNudged(ready) ==
  /\ nudged
  /\ nudged' = FALSE
  /\ RunNow(schedule, ready)
  /\ UNCHANGED <<request, starting, data, history>>

\* The run-now route, and the route that turns data sync on
OwnerRuns(ready) ==
  /\ \/ RunNow(schedule, ready)
     \/ RunNow(Updated(TRUE, Shortest), ready)
  /\ UNCHANGED <<request, nudged, starting, data, history>>

\* The pull lets the cycle go on: runCloudKitSyncUploadNow exports a batch.
AutoUploads ==
  /\ auto.phase = "pulling"
  /\ auto' = [auto EXCEPT !.phase = "uploading", !.export = Exported(RunLimit)]
  /\ UNCHANGED <<schedule, request, nudged, starting, data, history>>

\* The finally of runCloudKitAutoSyncNow
Freed(outcome) == IdleAuto

\* The cycle ends, or throws, without a successful upload: a page more to pull, a
\* failure to retry, or what waits for the owner: a conflict, or a record that is
\* blocked and with it every batch.
AutoEnds(outcome) ==
  /\ \/ auto.phase = "pulling" /\ outcome \in {"page", "retry", "wait"}
     \/ auto.phase = "uploading" /\ outcome \in {"retry", "wait"}
  /\ schedule' = WrittenBack(auto.read, auto.started, outcome)
  /\ auto' = Freed(outcome)
  /\ UNCHANGED <<request, nudged, starting, data, history>>

AutoSucceeds ==
  /\ auto.phase = "uploading"
  /\ schedule' = WrittenBack(auto.read, auto.started, "ok")
  /\ Upload(auto.export)
  /\ auto' = Freed("ok")
  /\ UNCHANGED <<request, nudged, starting, data>>

-----------------------------------------------------------------------------
(* Cycles and uploads by hand, and the environment *)

IdleRequest == [phase |-> "idle", export |-> NoExport]

\* The cycle route pulls first, the sync-export and upload-now routes do not.
StartCycle(q) ==
  /\ request[q].phase = "idle"
  /\ request' = [request EXCEPT ![q].phase = "pulling"]
  /\ UNCHANGED <<schedule, auto, nudged, starting, data, history>>

StartUpload(q, limit) ==
  /\ request[q].phase \in {"idle", "pulling"}
  /\ request' = [request EXCEPT ![q] = [phase |-> "uploading", export |-> Exported(limit)]]
  /\ UNCHANGED <<schedule, auto, nudged, starting, data, history>>

RequestFails(q) ==
  /\ request[q].phase # "idle"
  /\ request' = [request EXCEPT ![q] = IdleRequest]
  /\ UNCHANGED <<schedule, auto, nudged, starting, data, history>>

RequestSucceeds(q) ==
  /\ request[q].phase = "uploading"
  /\ schedule' = Cleared
  /\ Upload(request[q].export)
  /\ request' = [request EXCEPT ![q] = IdleRequest]
  /\ UNCHANGED <<auto, nudged, starting, data>>

Less(d) == IF d \in {0, None} THEN d ELSE d - 1
More(d) == IF d \in {Longest, None} THEN d ELSE d + 1

Tick ==
  /\ schedule' = [schedule EXCEPT !.lastRun = More(@), !.nextRun = Less(@), !.pending = Less(@)]
  /\ auto' = IF auto.phase = "idle" THEN auto
             ELSE [auto EXCEPT !.started = More(@), !.read.pending = Less(@)]
  /\ UNCHANGED <<request, nudged, starting, data, history>>

\* The server stops and starts again: the schedule survives.
Restart ==
  /\ auto' = IdleAuto
  /\ request' = [q \in Requests |-> IdleRequest]
  /\ nudged' = FALSE
  /\ starting' = TRUE
  /\ UNCHANGED <<schedule, data, history>>

-----------------------------------------------------------------------------

Init ==
  /\ schedule = [enabled |-> FALSE, interval |-> Shortest, lastRun |-> None,
                 nextRun |-> None, pending |-> None]
  /\ auto = IdleAuto
  /\ request = [q \in Requests |-> IdleRequest]
  /\ nudged = FALSE
  /\ starting = TRUE
  /\ local = 0
  /\ made = [r \in Records |-> 0]
  /\ changed = [r \in Records |-> 0]
  /\ uploaded = [r \in Records |-> 0]
  /\ passed = {}
  /\ quiet = {}

OwnerActs ==
  \/ \E enabled \in BOOLEAN, interval \in Intervals : OwnerUpdates(enabled, interval)
  \/ \E ready \in BOOLEAN : OwnerRuns(ready)

Next ==
  \/ \E r \in Records : LocalChange(r)
  \/ OwnerActs
  \/ \E ready \in BOOLEAN : Poll(ready) \/ Startup(ready) \/ RunNudged(ready)
  \/ Nudge
  \/ AutoUploads
  \/ \E outcome \in {"page", "retry", "wait"} : AutoEnds(outcome)
  \/ AutoSucceeds
  \/ \E q \in Requests :
       \/ StartCycle(q)
       \/ \E limit \in HandLimits : StartUpload(q, limit)
       \/ RequestFails(q)
       \/ RequestSucceeds(q)
  \/ Tick
  \/ Restart

Spec == Init /\ [][Next]_vars

EarlyEnds == \E outcome \in {"page", "retry", "wait"} : AutoEnds(outcome)

\* Timers fire and awaited calls return; nothing is assumed of what they return.
FairSpec ==
  /\ Spec
  /\ WF_vars(Tick)
  /\ WF_vars(\E ready \in BOOLEAN : Poll(ready) \/ RunNudged(ready))
  /\ WF_vars(\E ready \in BOOLEAN : Startup(ready))
  /\ WF_vars(AutoUploads \/ EarlyEnds \/ AutoSucceeds)

-----------------------------------------------------------------------------
(* Properties *)

\* Every variable has its type, and an enabled schedule says when it runs next.
TypeOK ==
  /\ schedule \in Schedule
  /\ schedule.enabled => schedule.nextRun # None
  /\ auto \in AutoRun
  /\ request \in [Requests -> Request]
  /\ nudged \in BOOLEAN /\ starting \in BOOLEAN
  /\ local \in 0 .. MaxChanges
  /\ made \in [Records -> 0 .. local] /\ changed \in [Records -> 0 .. local]
  /\ uploaded \in [Records -> 0 .. local]
  /\ passed \subseteq Records
  /\ quiet \subseteq 1 .. local

\* The last change of r was noted while nothing was in progress, it is not known
\* to be in iCloud, and no batch that was uploaded since lacked the room for it.
Waiting(r) ==
  changed[r] \in quiet /\ changed[r] > uploaded[r] /\ r \notin passed

\* A local change that no run was there to overlook asks for a run until it is
\* uploaded, or passed over by an upload whose batch was full: runs that fail,
\* runs whose stale schedule overwrites a later one, uploads by hand with a batch
\* taken before the change, and restarts do not lose it.
QuietChangeQueued ==
  \A r \in Records : Waiting(r) => schedule.pending # None

\* What keeps a scheduled run from its upload.
Trouble ==
  \/ EarlyEnds
  \/ auto.phase = "idle" /\ (Poll(FALSE) \/ Startup(FALSE) \/ RunNudged(FALSE))
  \/ Restart

\* Once the owner leaves the schedule alone, nothing more keeps a run from its
\* upload and the data no longer change, the batch is in iCloud with every change,
\* overlooked or not, or auto-sync is off: whatever runs, requests and restarts
\* have left of the schedule by then, it leads to one more run.
EveryChangeUploaded ==
  <>[][~OwnerActs]_schedule /\ <>[][~Trouble]_vars /\ <>[][FALSE]_local =>
    <>[](~schedule.enabled \/ \A r \in Batch(RunLimit) : uploaded[r] = changed[r])
=============================================================================
