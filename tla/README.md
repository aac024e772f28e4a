# LifeOS in TLA+

Specifications of LifeOS (the "OwnOrbit" personal assistant): a TypeScript
server with a SQLite database that runs on the owner's Mac, a web app on the
phone or in a browser, an Electron shell, and a Swift helper and phone app that
exchange data with the Mac through a private CloudKit database.

The modules say what the code does, TLC checks them on small instances, and
TLAPS proves the main properties for every value of the constants.
`PROJECT.json` names the lines each definition models (`map`), the runs, the
findings, the hazards and the theorems.

## 1. The system

### Parts, state, operations

| part | where | state | operations |
|---|---|---|---|
| chat request queue | `server/cloudKitChatJobs.ts`, `cloudKitChatWorker.ts`, `cloudKitChatProtocol.ts` | table `cloudkit_chat_jobs`: status, attempts, lease, next attempt; the conversation's messages | enqueue, expire and recover, claim, complete, fail, reopen after AI settings |
| sync cycle | `server/cloudKitSyncCycle.ts` | one clock reading per run | pull, then worker, then upload; early returns for pull failures, conflicts, further pages |
| pull | `server/cloudKitSyncNow.ts`, `cloudKitSyncState.ts` | per zone an applied and a pending change token; quarantine rows | preview, import, save, apply, promote |
| apply | `server/cloudKitSyncApply.ts` | quarantine status, local tables | merge of each record type, conflict detection, promotion of tokens |
| upload | `server/cloudKitSyncUploadNow.ts`, `cloudKitSyncBatch.ts` | none of its own | build a batch from local tables, export through the helper |
| automatic schedule | `server/cloudKitAutoSyncSchedule.ts` | one JSON value: enabled, interval, last and next run, pending local changes; a flag and timers in memory | update, note a local change, clear, run when due, run after a push or wake, run now |
| native helper | `native/apple/cloudkit-helper`, `server/cloudKitNativeHelper.ts` | none: a process per call | preview, import, export against CloudKit |
| phone outbox and sync | `native/apple/mobile-shell`: `LifeOSCloudKitSync.swift`, `LifeOSCloudMutationOutbox.swift` | a copy of one account's records and a bounded queue of actions, each in memory and in a file; a retry timer | sync, enqueue, upload, retry, put up for a review, expire, clear, turn off, change of the account |
| browser queue | `src/services/offlineMessageQueue.ts`, hooks | IndexedDB entries with status and attempts | enqueue, flush, acknowledge, recover stale entries |
| realtime | `server/realtime.ts`, `src/hooks/useLifeOSRealtime.ts` | socket per device, online mark; the phone's socket and timers | connect, authenticate, close, send, connect again |
| device binding | `server/devices.ts`, `auth.ts`, `routes/deviceRoutes.ts`, `src/services/deviceCredentialStore.ts`, `lifeosApi.ts` | devices, binding sessions; the phone's credential in memory and IndexedDB | create session, confirm, rotate, revoke, forget |
| tunnel | `server/cloudflareTunnel.ts`, `remoteHealthMonitor.ts` | one record of the tunnel, child processes, a reconnect timer, the saved address | start, stop, events of a child, reconnect, health check |
| calendar sync | `server/calendarSync*.ts`, connectors | previews, runs, history entries | preview, apply, roll back |
| custom apps | `server/customApps.ts` | apps, versions, capability requests | install, update, roll back, decide |
| database and backups | `server/db.ts`, `backupSchedule.ts`, `dataLifecycle.ts` | database file, backup files, pending restore | back up, prune, stage a restore, restore at start-up, clean up |
| the rest | see `components` in `PROJECT.json` | settings, logs, last results | reports, diagnostics, secrets, desktop shell, user interface |

### How they interact

The server is one Node process and SQLite is called synchronously, so a
function without `await` is atomic; two requests interleave only where one of
them awaits (the helper, the AI, a child process, Google). No lock spans an
await. The schedule has a flag that keeps a second *scheduled* run out; the
manual routes (`POST .../cycle`, `.../sync-now`, `.../upload-now`,
`.../changes-preview`, `.../import-quarantine`, `.../apply-quarantine`) do not
look at it. A cycle pulls (writing checkpoints, quarantine, local tables and
chat jobs), then lets the worker answer chat jobs, then uploads local tables
and responses. Local routes note changes to the schedule. The phone writes
signed requests and mutations to CloudKit and reads responses from it.

### What is hard, and what makes each part correct

* **Queue**: two runs may work on one table; a lease may run out while the AI
  still thinks; the server may stop between claim and outcome; the clock
  reading of a run may be minutes old. Correct means: one outcome per request,
  bounded attempts, no answer after an outcome, everything settled at last, and
  a published clock that does not go back.
* **Pull**: a change token passed too far loses changes for ever, and the token
  is written by several steps of several requests. Correct means: an applied
  token covers only changes that were imported, a decided row stays decided, and an
  undecided one holds the token.
* **Schedule**: a run writes back what it read before its await. Correct means:
  a noted change asks for a run until an upload had it to take, and once nothing is in the
  way any more the batch is in iCloud as it is.
* **Delivery of responses**: logical clocks made of time stamps, echoes of the
  Mac's own records in its pulls. Correct means: the phone sees the last state.
* **Browser queue and phone outbox**: lost and late acknowledgements, retries,
  a full queue; on the phone also an account that changes during an await. Correct
  means: no loss, no duplicate, bounded retries, and nothing of one account in
  another's iCloud or copy but by a change of the account after the last look at it.
* **Realtime, tunnel**: late events of an object that was replaced. Correct
  means: the record of what is connected or runs is true, and what is down
  comes back.
* **Device binding**: the phone and the server each keep a credential, and
  requests overlap or lose their answers. Correct means: one device per link,
  both agree unless an answer was lost, a revoked device stays revoked.
* **Backups and restore**: a sequence of file operations that can be cut off
  anywhere. Correct means: no database that is half old, half new; no restore
  nobody asked for; the newest backups kept.
* **Calendar, custom apps**: a check before an await or a stop between two
  statements. Correct means: one rollback, one decision.

`hazards` in `PROJECT.json` lists these at the lines where they bite, with the
properties that cover them or the module of the plan that will.

## 2. The modules

### `ChatRequestLifecycle` – what a request is promised

The abstract specification: a request is unknown, open, declined, answered or
expired. It is answered at most once, expires only after its deadline, may be
reopened after a refusal before the deadline, and is settled for good once
answered or expired. It follows the transition table of
`cloudKitChatProtocol.ts`, with *queued* and *processing* as one state.

### `CloudKitChatJobs` – the queue

`jobs` is the table, `prompts` and `answers` the two messages of each request's
conversation, `run` the sync-cycle runs in progress, each with the clock reading
`now` made when it began. `BeginRun`, `ImportRequest`, `PullStops` and
`PullSucceeds` are the cycle up to the worker; `Claim`, `ClaimThrows`,
`QueueIdle`, `QueueFull` the worker's loop; `AnswerArrives`, `CallFails`,
`ResultTooLate` the three ways a call ends; `ConfigureAi` and `CleanupChats`
what the owner does; `Crash` a restart. Claims and `ConfigureAi` begin with
`expireAndRecoverJobs`, in the same transaction, and a claim that throws undoes
it, as in the code. `Lifecycle` instantiates the abstract specification with
the refinement mapping `LifecycleState`.

### `CloudKitPull` – change tokens and the quarantine

`feed` is the ordered history of remote changes; a token is a position in it.
CloudKit reports a record once, at its newest change. A request asks from the
applied tokens (`Snapshot`); a preview saves the tokens it got to and nothing
else (`SavePreview`); an import reads (`ReadImport`), and later saves rows,
reset markers and tokens (`SaveImport`), followed at once, in a pull, by the
apply of what needs no review. `Apply` decides at most `ApplyLimit` rows and
ends in `Promote`, which is `promoteReadyZones`. A page may end anywhere, a token
may have expired (the fetch starts over and leaves a marker to review), a call
may fail, the backup before the apply may throw, the server may stop.
`origin` and `blind` are history variables: which step saved the pending token,
and which zones ever promoted a token that a preview saved.

`RemoteInbox` is what the owner of the Mac is promised about remote changes:
each change enters the inbox once and is decided once; the Mac accepts new records
only, an edit or a deletion waits for the owner, and no deletion is applied; a zone's
mark, behind which nothing is fetched again, moves only when nothing of the zone is
unresolved and everything up to it is in the inbox, except in a zone that went on to a
mark a preview had saved. The mapping takes the feed for the posts, the rows of the
quarantine for the inbox and its states, the applied tokens for the marks, and `blind`
for the exception.

### `CloudKitAutoSync` – the schedule

`schedule` is the stored record; `auto` the scheduled run with the schedule it
read; `request` the cycles and uploads by hand. `RunNow` is
`runCloudKitAutoSyncNow` up to its await, `AutoEnds` and `AutoSucceeds` what
follows it, which writes back the record that was read (`WrittenBack`).
`LocalChange`, `Cleared`, `OwnerUpdates`, `Poll`, `Startup`, `Nudge`,
`RunNudged` are the other operations. Times are distances from now (how long
ago, how long to come), so the state space is finite without a clock bound.

An upload takes a batch, `Exported`, of the records that come first: kind by kind in the
order of the data types, within a kind the newest first, by creation for messages and
tasks and by the last change for the rest (`Age`, `Ahead`), 100 in a scheduled run
(`RunLimit`) and what was asked for in one by hand (`HandLimits`). It does not remember
what earlier batches held, and its success clears the pending change whether or not there
was room for it. `changed` and `made` number the changes of each record; `uploaded` and
`passed` are history: what is known to be in iCloud, and which records a successful
upload had no room for.

### `OfflineMessageQueue` – messages of the browser on their way to the server

`queue` is the queue in memory and its mirror in localStorage (written
together), `indexed` the copy in IndexedDB (a write has reached it when the page
is opened again, or has not), `reading` what the hydration is about to find
there. A message goes through `Submit`, `FirstFails`, `Fallback` (a fresh
session) and `SecondFails` to `Enqueue`, or is `DirectSaved`. `flush` holds the
runs of `flushOfflineMessages`: `Begin` (called by `AutoSync`, `ForceSync`,
`RetryOne` and, when the page opens, `BootFlush`) reads the items to replay,
`Opened` gets the session, `Replayed` and `ReplayFails` end one request each.
`SyncAllowed` is the guard of the automatic syncs, `WriteQueue` every write with
its trimming to the budget. `sessionFailed` says that the session promise was
rejected and is kept. Requests stay in `saves` and `replays` until the server
takes them (`StoreSave`, `StoreReplay`), also when the client has given them up
or is gone; a request that never arrives is one that stays there. `rows` counts
the rows per session and idempotency key. `Reload` closes and opens the page;
`Hydrate`, `LoadHistory`, `BootFallback` are what it does then. An item is
named by its key, and keys are numbered in the order of the queue. `born`,
`discarded`, `forgotten` are history variables: what each key was made for, what
the owner or the budget took away, what a hydration dropped. `Signals` bounds what the
browser may say of the network.

`MessageDelivery` is what a user is promised: a message is posted twice at most and is
saved only when it has been stored, or goes on the queue under a key of its own unless
the queue has its text; an item leaves the queue when it is on the server, when the user
removes it, when newer ones push it out of a queue at its limit (the oldest first), or
with the one reading of an older copy that an opening of the page makes; it may be sent
any number of times and makes one row of a session. In the mapping a message that is in
its first try or between the two is *trying* (`Fates`), the keys on the queue are
waiting, `reading` says whether the older copy is still to be read, and the replays on
their way are named by session and key, whichever flush sent them (`Underway`).

### `DatabaseRestore` – backups and the start after a restore

`main` is the database file and `wal` what is in its write-ahead log only; a
content is the number of the last write it holds, or `Torn` for a copy that was
not finished. `backups` is the backup directory, `pending` and `meta` the two
files of a scheduled restore. `op` is the operation in progress: each route is
a sequence of steps with one file operation each, because the code is
synchronous and only a failing file operation or the end of the process (`Stop`)
comes in between. `Opens`, `CopyDatabase`, `Redact` and `Prune` are
`createDatabaseBackup`, which restores and clean-ups begin with;
`OpenPending`, `CopyPending`, `WriteMeta` the rest of `scheduleDatabaseRestore`;
`Cancel` and `RemoveMeta` its cancellation; `BeginImport`, `WriteImport`,
`CheckImport` an import, whose file may hold secrets (`raw`), because it is kept as it was
uploaded; `DeleteOldRows`, `TrimBackups` the owner's clean-up.
A start is `LookForPending`, `OpenMain`, `CopyToMain`, `Consume`, `Open`.
`interrupted`, `harmed` and `asked` are history: backups whose operation was cut
off, whether an unfinished file was ever going to be restored, whether a restore
is wanted.

`RestorableDatabase` is what the owner is promised, without the files: a backup is made
at once and holds the database, an import comes in between an `Upload` and its end; a
backup is removed only for a newer one that is whole; the next start puts what the owner
asked for in the database's place and serves only then. What is cut off leaves a backup
of unknown content, or turns the restore into one of a damaged copy. In the mapping the
database is `main` with what is in its log, and while a start copies it is already what
the copy is made of; a file that is not finished is not a backup yet.

### `DeviceAccess` – a phone, its credential and its socket

On the server `sessions`, `devices`, `clients` (the map `wsClients`) and
`sockets`; on the phone `ends` (its ends of the sockets), `cache` and `stored`
(the credential in memory and in IndexedDB), `hook` (the state of
`useLifeOSRealtime`) and `calls`, the requests under way. The two ends of a
socket learn of a close at different times (`Closed` by the phone,
`SocketCloses` on the server, `PhoneSeesClose`). `Authenticate` puts a socket in
the map without closing the one that was there. A request has four moments: it is
sent (`SendPair`, `SendRotate`, `AskRotation`, `SendForget`, `ConnectRotates`),
handled (`Confirm`, `Rotate`, `RevokeMe`), and its answer received or given up
(`Receive`, `GiveUp`); one the phone has given up may still be handled. Every
link of the phone's pages is a full page load, so `Load` ends requests and socket
and reads IndexedDB. `Stop` ends the server between any two handlers, and inside
`bind/confirm` between its two statements. Tokens are numbered, so that "the
token of the server" and "an older one" can be told apart; a device that signs
(`Signed`) has no token on the phone. `halves`, `unsaid`, `ghosts` are history.

`DeviceRegistry` is what the owner is promised about access: it is granted by a link that
is open, renewed, used and given back by a request or a socket that carries the current
credential, and withdrawn for good; a request acts once, and is refused only if what it
carries is not accepted; a phone shows nothing that the desktop has not given it. Binding
sessions are its links, rows of devices its accesses, the calls the server has not
handled what is asked, and the map of sockets says who is live.

### `CloudflareTunnel` – one record, several children

`managed` is the record `managedTunnel`; `children` the processes with the
promise their start returned: who waits for it (the owner, a reconnect, the
health check, the start of the server) and whether it is settled. A child lives
until `Ends`, and the server learns of it by `ExitEvent`; in between, or beside an
older child, another may be started. `Spawned` may fail (`SpawnFails` is the event
*error*). `Says` is output that makes the child count as started, `Timeout` the
end of the wait. `Scheduled` is the reconnect timer, `Reconnect` its firing.
`check` is `runRemoteHealthCheck`, which tests the saved address and starts the
named tunnel when it does not answer. `Remove` and `PutBack` take away and
restore the credentials file, which a named tunnel needs.

### `PhoneCloudData` – the phone's copy of iCloud and its outbox

`snapshot` and `file` are the copy in memory and on the phone's disk: the account
it is labelled with and the accounts its records come from. `outbox` and `stored` are
the queue in memory and in its file; `Commit` may end with only the file written, because
`persist` can throw after its write. `run` is the one sync or action in progress.

A pass of a sync reads the account (`ReadAccount`), fetches page after page of whoever is
signed in then (`FetchPage`), and saves the copy under the account it read (`Fetched`);
between passes it waits (`PauseEnds`), and then it uploads. `BeginUploads` reads the
entries of the account that are due, once, up to a limit, and `Turn` takes them one by
one, of a chat request its device key first (`KeySaved`). An upload has three moments, and
anything may come between them: the client looks which account is signed in (`Check`),
the record gets to the iCloud of whoever is signed in by then (`KeyStored`, `Stored`), and
the phone learns of it, saves the copy and removes the entry (`Answered`). An answer that
is lost is `UploadFails` after `Stored`, and `Saved` says that a later attempt finds the
record there, which is `resolve...Collision`. `UploadFails` counts an attempt,
`UploadRefused` puts the entry up for a review and goes on: the account is another one,
the Mac has changed the record, or the device key is there with another signature
(`KeyTaken`: each request draws the signature of its key anew, so the key that an earlier
request of the same identity stored never has the same content). `signer` says which
requests share an identity, which `loadOrCreate` keeps or renews.

`Submit` is the owner's memory, task completion or chat request. `Enable`,
`DisableAndClear`, `ClearPending`, `RetryPending`, the timer, `SwitchAccount` with its
later notice (`AccountNoticed`) and `Kill` may come during any await. What the Mac does to
a record is `Edit`. `made`, `gone` and `crossed` are history: for which account an action
was made, what the owner or a start took away, and what was sent after the account had
changed since its check; so is `mixed` in a copy. CloudKit is external: it executes a
request for the account that is signed in when the request gets there.

`ActionDelivery` is what the owner of the phone is promised about an action: it waits until
it is stored, is put up for a review, or is removed; an upload that took it up while it
waited finds its account signed in and then stores it, once in an account; it is done only
when it is stored; and a restart brings to light no more than a commit that failed had
left in the file. The state of an entry of the outbox gives what the owner sees (`Seen`), the
entries a run still has to send are those taken up (`Taken`), and the one whose record may
be saved next was found to be of the account signed in (`Checked`).

### `MC...` – instances; `..._proofs` – theorems

Each `MC` module extends one module and defines the functions its
configurations need.

## 3. The runs

| run | instance | what it shows |
|---|---|---|
| `chat_jobs` | 2 requests, the second made when the first expires, 2 runs that take one job each, leases of 1, 2 attempts, clock to 2, 1 restart (183,433 states) | `TypeOK`, `OneCommitter`, `RetriesCovered`, `PublishedClockMonotone`, `KeepsLifecycle`; `EverySettled` under `FairSpec`, if pulls get through |
| `cloudkit_pull` | 1 zone, 2 records, new, edited, broken and deleted, a pull and an owner's request, applies of one row, 2 changes, 1 expired token (718,411) | `TypeOK`, `CoveredUnlessBlind`, `KeepsInbox` |
| `cloudkit_pull_lost` | 2 records that are edited, 1 pull | **violation** of `NoRemoteChangeLost` |
| `auto_sync` | 1 request by hand, a conversation and a task, batches of one record and by hand of two, 2 changes, interval 2, delay 1, retry 2 (344,344) | `TypeOK`, `QuietChangeQueued`; `EveryChangeUploaded` under `FairSpec`, if nothing keeps the runs from their upload any more |
| `offline` | 1 message and 1 left by an earlier visit, the same text or a truncated one, queue of 1, 1 flush, 1 session (184,748) | `TypeOK`, `NothingVanishes`; `HealthyQueueDrains` under `LiveSpec` |
| `offline_flushes` | 1 message, no session at first, 2 flushes and 2 sessions (both symmetric), 1 reload, a browser that says it is online (365,039) | `DeliversMessages` |
| `restore` | retention 2, 4 backups, 1 write, 2 stops (1,621,732) | `TypeOK`, `NoOtherDamage`, `BackupsCurrent`, `KeepsPromise`, `RetentionKept`; `ScheduledRestoreMade` under `FairSpec` |
| `device_access` | 1 link, 2 devices, one of which signs, 2 sockets, 2 requests, 1 rotation, 2 failures or page loads, 1 stop (506,980) | `TypeOK`, `OneDevicePerBinding`, `PresenceTrue`, `CredentialInStep`, `KeepsRegistry`; `Reconnects` under `FairSpec` |
| `device_presence` | the same | **violation** of `UndeliveredMeansOffline` |
| `tunnel` | 2 children, 2 ends, 1 stop, 1 removal of the credentials (about 330,000) | `TypeOK`, `HandleAlive`, `NoReconnectWhenStopped`; `ReconnectRepeats`, `Restored` under `FairSpec` |
| `phone_cloud` | 2 accounts, 2 chat requests, outbox and batch of 2, 1 attempt, 2 passes, the first request may get too old, 1 change of the account or kill (1,376,012) | `TypeOK`, `ActionsKept`, `OwnAccountOnly`, `OneAccountInCopy`, `DeliversActions` |
| `phone_settled` | 2 accounts, a task completion, outbox of 1, 2 attempts, 1 pass, 2 changes of the account or kills (318,448) | `EverySettled` under `FairSpec` |

**Why the bounds are enough.** Queue: with two runs and leases of one tick every order of
claim, lapse, second claim and late answer occurs; two attempts reach the limit and pass it
through an interruption (the first retry comes within a tick); a clock to 2 lets a lease,
the second retry delay, the deadlines and the clean-up age go by. The queue treats rows one
by one except for the choice of the oldest, which two requests exercise. Pull: tokens matter
per zone only, so one zone suffices for safety; two records make one change wait while
another passes; applies of one row leave a row behind. Schedule: two changes let a run
overlook the second; batches of one record with two records leave one out, a conversation
that comes first or a task, and a batch of two by hand has room for both; the delay is
shorter than the retry and the interval, as in the code (15 s, 5 min, 15 min); the interval
is one, and that runs under another interval are safe too is left to the theorems. Offline
queue: a queue of one makes the new message push the one left there out, also while its
replay is in flight; two flushes have every overlap of two runs, and a reload leaves the
requests of a third behind; there the browser always says it is online, because the other
answer only forbids automatic syncs and such a run visits every state of queue and server
that one with both answers does; keys beyond the first two behave alike because the code
treats items one by one except for the order of sending and the budget. Restore: four
backups pass the retention count of two in each kind of pruning with a protected file among
them; one write tells the log from the file, and two stops cut off an operation and then the
start that follows it. Device access: two sockets make one replace the other while the close
of the first is on its way; two requests make two rotations, or a rotation and a forgetting,
overlap; two failures lose an answer and then a socket; two devices let one link be
confirmed twice. Tunnel: two children are what one record can confuse, two ends let an older
and a newer one end, and a removed file makes a start fail. Phone: two accounts, one signed
in at first, are what a copy can mix and a request can miss; two chat requests, each with a
key, of one identity or of two, have a key that collides, an entry that goes on after
another was refused, and an outbox that is full; two passes make one that is followed by
another and one that is not; one change of the account, or one kill, can come at every
await. One attempt there makes every failure the last; the run `phone_settled` has the
retry, a task that the Mac may overtake, and a kill after a change of the account. A run
that leaves due entries behind because of its limit, and tasks beside chat requests, are
left to the theorems. The theorems of section 5 hold without bounds. Symmetry is declared
only in runs that check no liveness.

The parameters stand for the code's constants: `MAX_ATTEMPTS` is 5 in the code,
the lease is the AI time-out plus a margin, the retry delay doubles from 5 s up to
a cap. The order of the durations is kept, their ratios are not.

**Fairness.** `CloudKitChatJobs`: the scheduler starts runs again and again, a run that does
not wait goes on, a call to the AI returns because `withTimeout` ends it (weak fairness).
Nothing is assumed of what a pull returns, because one row that waits as a conflict or for a
review makes every later pull end the cycle before the worker: that pulls get past it again
and again is the stated premise of `EverySettled` (`PullsGetThrough`). The run allows any
pattern of failed calls and refusals. `CloudKitAutoSync`: timers fire and awaited calls
return (weak fairness), nothing is assumed of the outcomes; `EveryChangeUploaded` is about
behaviours in which, from some time on, the owner leaves the schedule alone, the data do not
change and no run ends before a successful upload, and says that the state all earlier
trouble has left of the schedule leads to one more run. `CloudKitPull` has no liveness
property: see section 6. `OfflineMessageQueue`: a replay that was sent arrives and is
answered or fails (`requestJson` ends it after 15 s), the session request returns, the
hydration and the clock go on, and while the guard allows a sync some event starts one (the
page listens to network, focus, visibility and service-worker events, and every queued item
asks for a background sync). `HealthyQueueDrains` is about behaviours in which the network
is usable from some time on. `DatabaseRestore`: a start is one piece of synchronous code, so
it goes on unless the process ends. `DeviceAccess`: messages, requests and answers that are
not lost arrive, timers of the hook fire and close events reach both ends; failures are
bounded by `MaxDrops`; the write of a credential to IndexedDB need not ever end.
`CloudflareTunnel`: timers fire, events of children are handled, a child that got the signal
ends; `Restored` supposes also that the monitor's interval keeps starting checks.
`PhoneCloudData`: the app comes to the foreground, or a push or a background refresh reaches
it, again and again; awaited calls return and time passes (weak fairness); somebody is
signed in when a pass reads the account, the changes of iCloud come to an end again and
again, and the outbox can be written again and again (strong fairness: failures come in
between). `EverySettled` allows any pattern of failing uploads, which attempts bound. No
fairness is given to the owner, to pushes, to remote changes, or to anything that fails.

## 4. What disagrees with the documents

1. **A preview's token can be promoted** (`cloudkit_pull_lost`).
   `docs/icloud-data-sync-design.md:363` says the two-stage token avoids that "a
   preview advances the token before the remote changes have actually been
   imported". The preview's token is stored in the column that
   `promoteReadyZones` promotes; if the import after the preview fails and
   an earlier row is then applied, the changes in between are never fetched.
   `CoveredUnlessBlind` shows that this is the only way to lose a change.
2. **A connected device counts as offline** (`device_presence`).
   `src/i18n/translations.ts:5684` tells the owner, when a message was not
   delivered, "This device is offline". The close event of a socket deletes the
   entry of its device (`server/realtime.ts:112`) also when the entry names a newer
   socket: after a page load the device may be connected and authenticated and not
   in the map, until it connects again. `PresenceTrue` shows that map and presence agree with
   each other throughout, which is another matter: they agree on the wrong
   answer here.

### Smaller observations

These came up while modelling and have no run of their own.

*Queue, pull, schedule.* The worker compares a request's deadline with the clock
reading the cycle made before its pull (`server/cloudKitSyncCycle.ts:76,109`), so a
pull that outlasts the deadline lets the request through to the AI. A token is
promoted while rows in *auto-ready* that an apply with a limit left behind still
wait (`server/cloudKitSyncApply.ts:724`); the quarantine holds them. A change noted
during a scheduled run is taken off the queue by the run's write-back
(`server/cloudKitAutoSyncSchedule.ts:368`); `EveryChangeUploaded` shows that a later
run uploads it if it is in the batch. A success clears the pending change also when its
record was not in the batch (`:374`): batches start over with the newest 100 records every
time, chat first (`server/cloudKitSyncBatch.ts:646,736`), so a record that stays behind
100 others is never uploaded.

*Offline queue.* While any item is failed the guard refuses every automatic sync,
the one that the item's own retry timer asks for included
(`src/services/offlineMessageQueue.ts:1196,1348`), although
`src/i18n/translations.ts:6213` says "OwnOrbit will keep retrying with backoff";
the owner's retry or opening the page again helps. If the first session could not
be created, its rejected promise is kept and each flush of the page throws
(`src/hooks/useChatPersistence.ts:46-48`), although `translations.ts:5046` says that
"keeping this page open helps them write back sooner". A hydration prefers any
non-empty copy of IndexedDB to the newer one of localStorage
(`offlineMessageQueue.ts:557`); `NothingVanishes` shows that this is the only way to
lose a queued item. An idempotency key is unique per session
(`server/migrations.ts:280`), so a replay after the active session changed is stored
there again.

*Backups and restore.* A stop between the two removals of a start or of a
cancellation leaves `restore-pending.json` without its database. A second restore
that fails to copy removes the pending copy of the first, whose metadata stays.
A stop in the middle of the copy to `restore-pending.db` leaves an unfinished file,
which the next start puts in the database's place: this is the damage that
`NoOtherDamage` excepts. A backup whose redaction was cut off stays in the list, with
its secrets; an import is listed before it is validated. What is written between the
scheduling of a restore and the restart is only in no backup if none was made since.
`createDatabaseBackup` prunes without sparing the files that a pending restore names
(`server/db.ts:337`), while the owner's clean-up spares them
(`server/dataLifecycle.ts:350-355`), so the "Pre-restore backup" the page names may
be gone.

*Devices.* A page load during a rotation loses the new token, and the phone must be
paired again: `CredentialInStep` shows that a lost answer is the only way. The status
*online* of a device survives the end of the server until its next socket
(`server/routes/deviceRoutes.ts:458`). A socket that was replaced and not closed is
not closed by a revocation.

*Tunnel.* The exit event of an older child clears the handle of a newer one, which
runs on without a handle: a stop does not end it, and a start makes another. A reconnect
timer that fires while the credentials file is missing throws outside any handler and
ends the server (`server/cloudflareTunnel.ts:92`; `down` in the model). Starting a quick
tunnel leaves a scheduled reconnect in place; starting the named one while a quick one
runs does not end the quick one, and a stop then answers "Cloudflare Tunnel stopped."
(`server/routes/adminRoutes.ts:2126`) while the quick one is alive. A start that
overtakes a scheduled reconnect clears its timer, and if it fails nothing retries until
the next health check. The health check starts the tunnel again within minutes after
the owner stopped it.

*Phone.* The dialog that turns the feature off, or empties the outbox, stays open when a
sync begins (`CloudDataScreen.swift:47-58`; only the buttons that open it are off).
Confirmed then, it says "The offline iCloud copy was removed from this iPhone."
(`en.lproj/Localizable.strings:51`) and the sync saves the copy again; and "This removes
actions that have not reached iCloud" (`:160`), while the entries an upload has read are
still sent (`LifeOSCloudKitSync.swift:1198`). "Some actions ... will retry automatically"
(`:163`) holds by the next sync, not by the timer: a timer ends when any sync starts, and
one that fires during an upload is lost. A sync whose later pass fails skips the uploads,
also when its first pass has passed. The account is looked up before several awaits and not
again (`LifeOSCloudKitSync.swift:150,263,342,389,439`): if it changes in one of them, an
action reaches the iCloud of the new account and a copy holds records of both under the
label of the first. `OwnAccountOnly` and `OneAccountInCopy` show that this is the only way;
`:164` says that an action that needs review is not sent to another account, which
`ReviewedNotSent` proves, but one that waits may be. A second question asked under the same
device identity is refused over its key (`:504`, `LifeOSCloudDeviceIdentity.swift:199`) and
waits for a review, although `:131` says it "will send when iCloud is available". A commit
that throws after its write leaves an entry in the file that the owner was told was not
submitted: it is sent if the app is killed before the next commit.

## 5. What is proved

All theorems hold for every value of the constants that satisfies the named
assumptions of the modules (deadlines after creation, limits that are positive
where the code's are, records that belong to a zone, delays not longer than the
shortest interval). Nothing else is assumed.

Six components implement an abstract specification, which says what a part promises to
its user in a page and without the steps that make it hard: `Implements` (the chat queue),
`InboxKept`, `MessagesDelivered`, `PromiseKept`, `RegistryKept` and `ActionsDelivered`.
Each of these theorems has the same form: the initial states map to initial states, and,
under the inductive invariant, a step of the component maps to a step of the abstract
specification or leaves the mapped state as it is. The abstract specifications have no
bounds and no history of their own, so the refinement is stronger than the invariants
beside it: it also says in which order things happen and what may not happen twice.
Several of the older properties follow from them; those keep their theorems
(`AtMostOneRow`, `OnlyAskedRestoredHolds`, `DecidedStaysDecidedHolds`,
`RevokedForGoodHolds`, `ReviewedNotSent`), and the runs check the refinement instead.

**`CloudKitChatJobs_proofs`.** `TypeCorrect`, `OneCommitterHolds`,
`RetriesCoveredHolds`, `PublishedClockMonotoneHolds`, and `Implements`: the queue
implements `ChatRequestLifecycle`. The properties are not inductive alone.
`IInv` adds: every lease id a row or a run holds was drawn, and two waiting runs
hold different ones (`LeaseInv`: without it two runs could share a lease); the
attempts of a row that is not being processed are within the limit plus the
interruptions, with one to spare while it waits to be retried (`RetryInv`); every
run's clock reading is past (`PastInv`); the time stamp of a row is not later
than any reading that may still write to it, except through a sweep whose guard
implies the order (`StampInv`); and an expired row's deadline has passed
(`ExpiryInv`). Each action is first classified by what it does to one row
(`RowStep`), and the invariant and the refinement are proved per class.

**`CloudKitPull_proofs`.** `PullTypeCorrect`, `CoveredUnlessBlindHolds`,
`DecidedStaysDecidedHolds`, `UnresolvedHoldsCheckpointHolds` (the applied token of a zone
moves only over a zone with nothing unresolved), `InboxKept`. `IInv` is `TypeOK`
together with `TableInv` (coverage of applied and of imported pending tokens,
rows only for changes that happened) and, for each request, `RunInv`: the tokens
it asked from were applied ones and are covered still, and what it has read,
added to the quarantine, covers what it got to. The argument is that coverage is
monotone: rows never become absent again, a change that is no longer the newest of
its record drops out, and a new change lies beyond every token. The refinement of
`RemoteInbox` adds `ArrivedInv`: there are rows, and records read by a request, only of
changes that were made. That marks move only over what is resolved and in the inbox is
`UnresolvedHoldsCheckpointHolds` and the coverage of `TableInv` together; what an import and
an apply may make of a row is followed through the two in the order in which a pull runs
them (`Verdicts`).

**`CloudKitAutoSync_proofs`.** `AutoSyncTypeCorrect` and `QuietChangeQueuedHolds`.
`IInv` adds that no export holds changes that have not happened
(`ExportInv`), and that a scheduled run that started after a quiet change either
read that it was pending or took its export after it, as did every upload that may
clear it (`QuietInv`). A batch taken after a change either holds the record's last change or
had no room for it, which is what `passed` records: that the pending change is cleared only
by such an upload is the theorem.

**`OfflineMessageQueue_proofs`.** `Typing`, `NeverVanishes`, `AtMostOneRow`,
`MessagesDelivered`.
`IInv` has a part per group of variables: `QueueInv` (the three copies of the
queue fit the budget, and each item says what its key was made for: without it a
hydration could bring back anything), `FlushInv` (a request that is being waited
for is on its way or its row is there, and what a flush counts as synced has a
row), `DirectInv` (the same for direct saves), `KeptInv` (the first part of
`NothingVanishes`) and `PageInv`. The lemmas say what each operation on the queue
keeps: marking keeps the items (`SameItems`), trimming keeps the budget
(`TrimmedOK`, by the first kept key), a write puts what it drops into `discarded`
(`WriteKeeps`), a flush that starts, goes on or ends keeps the invariant
(`BeginKeeps`, `SendNextKeeps`, `FinishKeeps`). Each action is then one of these.
The refinement of `MessageDelivery` adds that keys are made in order and that flushes
replay only keys that were made (`DeliveryInv`), and needs what trimming does exactly:
nothing to a queue within its budget (`TrimmedSame`), and otherwise it drops the oldest
and never the newest (`TrimmedOldest`). So a write that only marks items is a stutter, a
flush that ends takes off only what has a row, and `Arrive` makes the row count one
because of `OneRowPerSession`.

**`DatabaseRestore_proofs`.** `RestoreTypeCorrect`, `NoOtherDamageHolds`,
`BackupsCurrentHolds`, `OnlyAskedRestoredHolds`, `RetentionKeptHolds`, `PromiseKept`. The invariant
says for each step of an operation what the files must be: which file is being
written, that a torn `main` is accompanied by the pending copy it is being made
from, that the log is empty while the database is replaced. `RetentionKept` rests on
lemmas about how many backups are newer than a given one when one is removed. The
refinement of `RestorableDatabase` adds `PassedInv`, which says what an operation has
passed at each step: the log is empty and the database is what the backup was made of
while its secrets are removed, an operation is not yet cut off while it files its backup,
a pending copy is torn while it is written and the database while it is replaced, and a start
that is past the copy has consumed it. Without it a finished step could not be told from one
that was cut off.

**`DeviceAccess_proofs`.** `DeviceTypeCorrect`, `OneDevicePerBindingHolds`,
`PresenceTrueHolds`, `CredentialInStepHolds`, `RevokedForGoodHolds`, `RegistryKept`. `IInv` is
`TypeOK` with a part per relation: what each request carries (`CallInv`), how many
devices a session has and may still get (`BindingInv`), `PresenceTrue`, that a
device with a socket in the map, or that was online when the server ended, is bound
(`ClientInv`), that credentials kept or on their way name bound devices, have no token
iff the device signs, and no token newer than the device's (`KnownInv`), that an answer
the phone has not seen holds its device's token, which the phone does not know yet
(`AnswerInv`), and that the phone's token is the device's, or the device's is in an
answer that is awaited (`CacheInv`). The refinement of `DeviceRegistry` needs no more: that a
phone uses only what it was given is `KnownInv`, that a socket is let in only for a device
whose access was granted and that a withdrawal leaves nobody live is `ClientInv` with
`PresenceTrue`, and that a link is used once is `BindingInv`. A confirmation that is cut
off between its statements is the second alternative of the registry's `End`.

**`CloudflareTunnel_proofs`.** `TunnelTypeCorrect`, `HandleAliveHolds`,
`NoReconnectWhenStoppedHolds`, `CheckHasChildHolds`. The last says that a health check that
waits for a start has a child to wait for, on which `Restored` rests; it is part of the
invariant, and no run repeats it. The invariant adds that at most one child is
waited for by the health check, and that a child that could not be spawned is not
settled.

**`PhoneCloudData_proofs`.** `PhoneTypeCorrect`, `NoActionLost`, `NoActionCrosses`,
`CopyOfOneAccount`, `ReviewedNotSent`, `ActionsDelivered`. The invariant adds that an entry in
memory is of the account its action was made for (`EntryInv`); how the file of the outbox may
differ from memory after commits that failed (`FileInv`: it may have an entry that was not
made or has expired, miss one that is stored, or have put one up for a review; without it
a start could lose an action); that what a sync has fetched so far is of one account or
marked as mixed (`CopyInv`); that the entries still to upload were made for the account of
the run and are not up for a review, that the copy in memory is of that account or was
cleared meanwhile, and that an answer is awaited only for a record that is stored
(`UploadInv`); that the account is still the one that was read or checked unless it was
seen to move (`MovedInv`); and that a pass adds to a copy of the account it has read
(`FetchInv`). The lemma `CommitOK` says that however a commit ends it keeps the entries in
memory and in the file. The refinement of
`ActionDelivery` adds `WayInv`: what was removed is not on the outbox any more, and an
entry that an upload still has to send and that is no longer on the outbox was removed, so
that nothing done is stored again. A kill maps to a `Restart`, whose effect on each
action is read off `FileInv`.

**Only model-checked.** The liveness properties `EverySettled`, `EveryChangeUploaded`,
`HealthyQueueDrains`, `ScheduledRestoreMade`, `Reconnects`, `ReconnectRepeats`, `Restored`,
`EverySettled` of the phone: liveness under fairness and `ENABLED` are out of this prover's
reach, as are inductions over data and recursive operators; the modules use none of the
latter. The two violated statements are counterexamples and have no theorem.
`CloudKitAutoSync` and `CloudflareTunnel` have no abstract specification: what they promise
is to get something done at last, which is the liveness that is only model-checked, and
their safety is in the invariants proved.

## 6. What is not modelled, and why

Within the modelled parts: conversations with several requests (their rows are
independent but for the order of messages); contents that recur; the
field-by-field merge of each record type, which is a free choice to accept or to
refuse; deselected record types.

What the code does not guarantee, and no property claims. *That a row is released*: one
decided as *conflict* or *failed* has no way out; it holds its zone's token and makes later
cycles stop before their worker and their upload. `KeepsInbox` shows it held; nothing
releases it. *That every remote change arrives*: the helper stops at 100 records and 10
pages, which the zones share in order (`LifeOSCloudKitHelper.swift:16-17`), and starts again
from the applied tokens, which an unresolved row freezes, so that the zones after it can
starve; and a record that fails validation fails every import (`:1011`). *That every local
record is uploaded*: see the limit of batches above; and a record that is blocked stops
every batch. *That a failed item of the browser's queue lets the others through*:
`HealthyQueueDrains` supposes that nothing is failed. *That no tunnel process is left
without a handle*: see section 4.

Offline queue: one tab; leaving the chat page and coming back within one document
(its flushes would go on beside the new page's); the review of similar messages
and of messages of several sources, which only ever withholds a sync; a session
deleted on the server (the replay is refused); sizes in bytes, of which the
budget's limit of items stands for both.

Backups: the times of the schedule, encryption. That an import is kept with its secrets is
in the model, and `BackupsCurrent` says *no secrets* of the server's own backups only.
Device access: tokens that expire, the replay protection of signatures, pairing over iCloud,
the case that the hook finds no credential when its socket opens, a socket left behind by an
unmounted hook. Tunnel: the installation of cloudflared and the texts of its output. Phone:
the fields and signatures of records, the change tokens inside a copy, the length of retry
delays, a copy or an outbox file that cannot be read at a start, the simulator's demo mode.

Parts without a module are listed with the reason in `components`: those of the
plan below, and those that only format, probe, encrypt or draw.

## 7. Plan

Done, in this order: the chat request queue and its life cycle, the pull, the
schedule, the offline queue with the server's replay detection, the restore, device
access with presence, the tunnel with its health check, the phone's copy and outbox, their
theorems, and the abstract specifications of six of them with the proofs that they are
implemented. Next:

1. `ChatDelivery`: the composition of job table, upload, CloudKit and pull —
   responses with their logical clocks, equal clocks with different contents, the
   Mac's own records coming back, clean-up before export. Abstract specification: a
   register per request that the phone reads, whose version never goes back.
2. `CalendarRollback`: check, await, update.
3. `CustomApps` and `ClientState`; a second tab for the offline queue.

Theorems worth proving there: the phone's view of a response never goes back; an
entry of the calendar history is rolled back once. Runs: two actors, two objects each, one crash.
