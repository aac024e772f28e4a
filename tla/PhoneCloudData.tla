--------------------------- MODULE PhoneCloudData ---------------------------
(***************************************************************************)
(* What the iPhone keeps of iCloud and what it still has to send there:    *)
(* LifeOSCloudDataStore and LifeOSCloudKitClient (LifeOSCloudKitSync.swift) *)
(* with the outbox they share (LifeOSCloudMutationOutbox.swift).           *)
(*                                                                         *)
(* A sync reads which account is signed in, fetches pages of changes,      *)
(* saves them as a copy of that account, and then uploads the actions of   *)
(* that account that are due.  The owner's actions (a new memory, a        *)
(* completed task, a chat request) are put on the outbox and uploaded at   *)
(* once, together with the others that are due.  One sync or one action is *)
(* in progress at a time, but every call to iCloud is an await: meanwhile  *)
(* the account can change, the owner can turn the feature off or empty the *)
(* outbox, timers fire and the app can be killed.                          *)
(*                                                                         *)
(* CloudKit itself is external.  Each request is executed for the account  *)
(* that is signed in when it gets there, which need not be the one the     *)
(* client read before; it may fail, and its answer can be lost.            *)
(*                                                                         *)
(* Actions are numbered in the order of their creation, which is the order *)
(* they are sent in.                                                       *)
(***************************************************************************)
EXTENDS Integers, FiniteSets

CONSTANTS
  Accounts,     \* iCloud accounts
  SignedIn,     \* who may be signed in at first
  KindOf,       \* what each action is: memoryCreate, taskComplete or chatRequest
  MaxEntries,   \* maxEntries
  BatchLimit,   \* how many due entries one run takes
  MaxAttempts,  \* maxAttempts
  MaxPasses,    \* maxCatchUpPasses
  MaxActions,   \* bound of the number of actions ever made
  Ageing,       \* bound of the actions that may get too old
  MaxUpsets,    \* bound of changes of the account and kills of the app, together
  None          \* nil

ASSUME PhoneAssumption ==
  /\ KindOf \in [1 .. MaxActions -> {"memoryCreate", "taskComplete", "chatRequest"}]
  /\ SignedIn \subseteq Accounts \cup {None}
  /\ {MaxEntries, BatchLimit, MaxAttempts, MaxPasses} \subseteq Nat \ {0}
  /\ {MaxActions, MaxUpsets} \subseteq Nat

VARIABLES
  account,   \* the account that is signed in on the phone, or None
  notice,    \* its change has not reached the store
  enabled,   \* the owner uses iCloud data
  snapshot,  \* the copy in memory
  file,      \* the copy in cloud-snapshot-v1.json
  outbox,    \* the entries in memory
  stored,    \* the entries in cloud-mutation-outbox-v1.json
  timer,     \* retryTask waits; how long is left out
  run,       \* the sync or the action in progress
  cloud,     \* the accounts in whose iCloud the record of an action is
  keys,      \* the accounts in whose iCloud the device key record of a chat request is
  edited,    \* actions whose record the Mac has changed since, or first
  expired,   \* actions that are too old, or whose device key is
  made,      \* history: the account an action was made for
  signer,    \* the first action signed with the identity that a chat request is signed with
  gone,      \* history: actions the owner removed or a start found expired
  crossed,   \* history: actions sent after the account had changed since its check
  upsets     \* history: changes of the account and kills so far

copies  == <<snapshot, file>>
queue   == <<outbox, stored>>
device  == <<enabled, copies, queue, timer>>
icloud  == <<cloud, keys, crossed>>
ever    == <<made, signer, gone>>
outside == <<account, notice, edited, expired, upsets>>
vars == <<account, notice, enabled, snapshot, file, outbox, stored, timer, run, cloud, keys,
          edited, expired, made, signer, gone, crossed, upsets>>

Actions == 1 .. MaxActions

\* due: nextRetryAt is nil or has passed.
Entry == [account : Accounts, attempts : 0 .. MaxAttempts,
          state : {"pending", "needsReview"}, due : BOOLEAN]

ASSUME NoneAssumption == None \notin Accounts \cup Entry

\* The account the copy says it is of, and the accounts its records come from.
\* mixed, history: the account changed after it was read for some of them.
Copy == [account : Accounts \cup {None}, of : SUBSET Accounts, mixed : BOOLEAN]
Empty == [account |-> None, of |-> {}, mixed |-> FALSE]

\* fetch: a sync reads the account and then the changes; pause: it waits for the
\* next pass; upload: the entries todo are sent, of a chat request its device key
\* first.  account: the one that was read, or whose entries are sent.  checked: it
\* was found signed in for the record that is next.  moved: it has changed since it
\* was read or checked.  copy: what the sync has fetched so far.  sent: the account
\* in whose iCloud the record is stored, its answer is on the way.
Run == [phase : {"idle", "fetch", "pause", "upload"}, sync : BOOLEAN,
        pass : 0 .. MaxPasses, copy : Copy, account : Accounts \cup {None},
        todo : SUBSET Actions, key : BOOLEAN, checked : BOOLEAN, moved : BOOLEAN,
        sent : Accounts \cup {None}]

IdleRun == [phase |-> "idle", sync |-> FALSE, pass |-> 0, copy |-> Empty, account |-> None,
            todo |-> {}, key |-> FALSE, checked |-> FALSE, moved |-> FALSE, sent |-> None]

Idle == run.phase = "idle"

-----------------------------------------------------------------------------
(* The copy *)

\* Mutant: the copy of another account is kept.
Relabelled(copy, a) == [copy EXCEPT !.account = a]

\* scoped(to:)
Scoped(copy, a) == IF copy.account = a THEN copy ELSE [Empty EXCEPT !.account = a]

\* merging(...) with records of account b, under the label a
Merged(copy, a, b) ==
  [account |-> a, of |-> copy.of \cup {b}, mixed |-> copy.mixed \/ run.moved]

-----------------------------------------------------------------------------
(* The outbox *)

Present(q) == {m \in Actions : q[m] # None}

\* Mutant: entries that need a review are sent as well.
DueOrReviewed(q, a) == {m \in Present(q) : q[m].account = a /\ q[m].due}

\* due(accountFingerprint:now:), before its limit
Due(q, a) == {m \in Present(q) : q[m].account = a /\ q[m].state = "pending" /\ q[m].due}

\* The oldest entries, up to the limit
Batch(q, a) == {m \in Due(q, a) : Cardinality({n \in Due(q, a) : n < m}) < BatchLimit}

\* makeDue(accountFingerprint:)
MadeDue(q, a) ==
  [m \in Actions |-> IF q[m] # None /\ q[m].account = a /\ q[m].state = "pending"
                     THEN [q[m] EXCEPT !.due = TRUE] ELSE q[m]]

\* Mutant: the limit of attempts is not kept.
SpentNever(n) == FALSE

Spent(n) == n >= MaxAttempts

\* Mutant: attempts are not counted.
Uncounted(q, m) ==
  IF q[m] = None THEN q ELSE [q EXCEPT ![m] = [q[m] EXCEPT !.due = FALSE]]

\* markAttempt(id:retryAt:)
Attempted(q, m) ==
  LET tries == IF Spent(q[m].attempts) THEN q[m].attempts ELSE q[m].attempts + 1
      next  == IF Spent(tries) THEN [q[m] EXCEPT !.attempts = tries, !.state = "needsReview"]
                               ELSE [q[m] EXCEPT !.attempts = tries, !.due = FALSE]
  IN IF q[m] = None THEN q ELSE [q EXCEPT ![m] = next]

\* Mutant: an entry that cannot be sent is removed.
DroppedInstead(q, m) == [q EXCEPT ![m] = None]

\* markNeedsReview(id:)
Reviewed(q, m) ==
  IF q[m] = None THEN q
  ELSE [q EXCEPT ![m] = [q[m] EXCEPT !.state = "needsReview", !.due = TRUE]]

Without(q, m) == [q EXCEPT ![m] = None]

\* How commit can end: done, after its file was written but not in memory, or before.
Ends == {"done", "written", "failed"}

\* commit(q): persist can throw after it has written the file.
Commit(q, end) ==
  /\ outbox' = IF end = "done" THEN q ELSE outbox
  /\ stored' = IF end = "failed" THEN stored ELSE q

-----------------------------------------------------------------------------
(* A sync *)

\* scheduleRetry(after:)
ScheduleRetry == timer' = (timer \/ enabled)

\* sync(reason:) up to its first await, with the copy c in memory
BeginSync(c) ==
  /\ run' = [IdleRun EXCEPT !.phase = "fetch", !.sync = TRUE, !.pass = 1, !.copy = c]
  /\ timer' = FALSE

First(ms) == CHOOSE m \in ms : \A n \in ms : m <= n

IsChat(m) == KindOf[m] = "chatRequest"

\* It is the turn of the first entry of todo, which are of account a.
Turn(todo, a) ==
  [IdleRun EXCEPT !.phase = "upload", !.sync = run.sync, !.account = a,
                  !.todo = todo, !.key = IsChat(First(todo))]

\* processPendingMutations up to its first await, for account a with outbox q
BeginUploads(a, q) ==
  run' = IF Batch(q, a) = {} THEN IdleRun ELSE Turn(Batch(q, a), a)

\* The app comes to the foreground, a push or a background refresh arrives, or
\* the owner asks for a sync.
StartSync ==
  /\ Idle /\ enabled
  /\ BeginSync(snapshot)
  /\ UNCHANGED <<enabled, copies, queue, icloud, ever, outside>>

\* retryPendingMutations; without its commit there is no sync, and if not even the
\* file is written nothing happens, which is left out here and in Submit.
RetryPending(end) ==
  /\ Idle /\ enabled /\ snapshot.account # None
  /\ Commit(MadeDue(outbox, snapshot.account), end)
  /\ IF end = "done" THEN BeginSync(snapshot) ELSE UNCHANGED <<run, timer>>
  /\ UNCHANGED <<enabled, copies, icloud, ever, outside>>

\* The task of scheduleRetry wakes up.  While something is in progress its sync
\* returns at once.
TimerFires ==
  /\ timer
  /\ IF Idle /\ enabled THEN BeginSync(snapshot) ELSE timer' = FALSE /\ run' = run
  /\ UNCHANGED <<enabled, copies, queue, icloud, ever, outside>>

Fetching == run.phase = "fetch"

\* A pass reads the account once, and goes on from the copy of that account.
ReadAccount ==
  /\ Fetching /\ run.account = None /\ account # None
  /\ run' = [run EXCEPT !.account = account, !.copy = Scoped(run.copy, account)]
  /\ UNCHANGED <<device, icloud, ever, outside>>

\* A page of changes, of whoever is signed in now
FetchPage ==
  /\ Fetching /\ run.account # None /\ account # None
  /\ run' = [run EXCEPT !.copy = Merged(run.copy, run.account, account)]
  /\ UNCHANGED <<device, icloud, ever, outside>>

\* A pass ends: its changes are saved, and the entries of the account it has read
\* are next unless more is coming.
Fetched(more) ==
  /\ Fetching /\ run.account # None
  /\ snapshot' = run.copy /\ file' = run.copy
  /\ IF more THEN run' = [run EXCEPT !.phase = "pause", !.account = None, !.moved = FALSE]
             ELSE BeginUploads(run.account, outbox)
  /\ UNCHANGED <<enabled, queue, timer, icloud, ever, outside>>

\* The next pass, or the last one has passed.
PauseEnds ==
  /\ run.phase = "pause"
  /\ \/ /\ run.pass < MaxPasses
        /\ run' = [run EXCEPT !.phase = "fetch", !.pass = @ + 1]
        /\ timer' = timer
     \/ /\ run.pass = MaxPasses
        /\ BeginUploads(run.copy.account, outbox)
        /\ ScheduleRetry
  /\ UNCHANGED <<enabled, copies, queue, icloud, ever, outside>>

\* iCloud cannot be reached, refuses, or the copy cannot be saved, before or
\* after its file is written.
SyncFails ==
  /\ Fetching
  /\ run' = IdleRun /\ ScheduleRetry
  /\ file' = file \/ (run.account # None /\ file' = run.copy)
  /\ UNCHANGED <<enabled, snapshot, queue, icloud, ever, outside>>

\* Nobody is signed in: clearAccountScopedSnapshot.
SyncSignedOut ==
  /\ Fetching /\ account = None
  /\ run' = IdleRun
  /\ snapshot' = Empty /\ file' = Empty
  /\ UNCHANGED <<enabled, queue, timer, icloud, ever, outside>>

-----------------------------------------------------------------------------
(* Actions of the owner and their upload *)

\* The chat request before m
ChatBefore(m) ==
  {n \in Actions : n < m /\ IsChat(n) /\ \A k \in Actions : n < k /\ k < m => ~IsChat(k)}

\* loadOrCreate: the identity of the chat request before m, or a new one when
\* that is missing or about to expire
Identities(m) == {m} \cup {signer[n] : n \in ChatBefore(m)}

\* createMemory, completeTaskListItem and sendChatRequest up to their first await.
\* An action that only the file has is not made: the owner is told it was not
\* submitted, and the next commit leaves it out again.
Submit(m, end) ==
  LET q == [outbox EXCEPT ![m] = [account |-> snapshot.account, attempts |-> 0,
                                  state |-> "pending", due |-> TRUE]]
  IN /\ Idle /\ enabled /\ snapshot.account # None
     /\ made[m] = None /\ \A n \in Actions : n < m => made[n] # None
     /\ Cardinality(Present(outbox)) < MaxEntries
     /\ Commit(q, end)
     /\ \E s \in Identities(m) : signer' = [signer EXCEPT ![m] = s]
     /\ IF end = "done"
        THEN /\ made' = [made EXCEPT ![m] = snapshot.account]
             /\ BeginUploads(snapshot.account, q)
        ELSE UNCHANGED <<made, run>>
     /\ UNCHANGED <<enabled, copies, timer, icloud, gone, outside>>

Uploading == run.phase = "upload"
Current == First(run.todo)

\* The loop of processPendingMutations ends with outbox q.
EndUploads(q) ==
  /\ run' = IdleRun
  /\ IF Due(q, run.account) # {} THEN ScheduleRetry ELSE timer' = timer

\* ... or goes on with the next entry.
NextEntry(q) ==
  LET rest == run.todo \ {Current}
  IN IF rest = {} THEN EndUploads(q) ELSE run' = Turn(rest, run.account) /\ timer' = timer

\* Mutant: any account will do.
AnyAccount == account # None

\* The account is the one that was expected.
SameAccount == account = run.account

\* The device key of the current entry has expired.
KeyExpired == IsChat(Current) /\ Current \in expired

\* What the client checks before it prepares to save the record or the device key
\* of an entry; it does not check again.
Check ==
  /\ Uploading /\ ~run.checked /\ SameAccount /\ ~KeyExpired
  /\ run' = [run EXCEPT !.checked = TRUE]
  /\ UNCHANGED <<device, icloud, ever, outside>>

Ready == Uploading /\ run.checked /\ run.sent = None /\ account # None

\* The record that is next gets to the iCloud of whoever is signed in now.
Sends ==
  /\ run' = [run EXCEPT !.sent = account]
  /\ crossed' = IF run.moved THEN crossed \cup {Current} ELSE crossed

\* The key of the same identity is there already from another chat request, with
\* another proof signature.
KeyTaken ==
  \E n \in Actions \ {Current} : signer[n] = signer[Current] /\ account \in keys[n]

\* iCloud stores the device key of the entry.
KeyStored ==
  /\ Ready /\ run.key /\ account \notin keys[Current] /\ ~KeyTaken
  /\ keys' = [keys EXCEPT ![Current] = @ \cup {account}]
  /\ Sends
  /\ UNCHANGED <<device, cloud, ever, outside>>

\* The Mac has changed the record of the entry, or the task list of an account
\* that is not the entry's is another one.
Stale ==
  \/ SameAccount /\ Current \in edited
  \/ ~SameAccount /\ KindOf[Current] = "taskComplete"

\* iCloud stores the record of the entry.
Stored ==
  /\ Ready /\ ~run.key /\ account \notin cloud[Current] /\ ~Stale
  /\ cloud' = [cloud EXCEPT ![Current] = @ \cup {account}]
  /\ Sends
  /\ UNCHANGED <<device, keys, ever, outside>>

\* The client learns that the record is in the iCloud of account a, from this upload
\* or because an earlier one, whose answer was lost, has stored it.
Saved(a) ==
  \/ Uploading /\ a = run.sent /\ a # None
  \/ /\ Ready /\ a = account
     /\ IF run.key THEN a \in keys[Current] ELSE a \in cloud[Current] /\ ~Stale

\* The copy with a record of account a
UploadedCopy(a) == Merged(snapshot, run.account, a)

\* The device key is in iCloud; the chat request is next, with a check of its own.
KeySaved(a) ==
  /\ Saved(a) /\ run.key
  /\ snapshot' = UploadedCopy(a) /\ file' = UploadedCopy(a)
  /\ run' = [run EXCEPT !.key = FALSE, !.checked = FALSE, !.moved = FALSE, !.sent = None]
  /\ UNCHANGED <<enabled, queue, timer, icloud, ever, outside>>

Answered(a) ==
  /\ Saved(a) /\ ~run.key
  /\ snapshot' = UploadedCopy(a) /\ file' = UploadedCopy(a)
  /\ Commit(Without(outbox, Current), "done")
  /\ NextEntry(outbox')
  /\ UNCHANGED <<enabled, icloud, ever, outside>>

\* The upload fails in a way that may pass, or its record is stored but the copy
\* or the outbox cannot be saved then: the loop ends.  The commit of the removal
\* may have written its file, that of the attempt ends as end says.
UploadFails(end) ==
  LET q == Attempted(outbox, Current)
  IN /\ Uploading
     /\ \/ Commit(q, end) /\ file' = file
        \/ \E a \in Accounts :
             /\ Saved(a) /\ file' = UploadedCopy(a)
             /\ \/ Commit(q, end)
                \/ end = "failed" /\ ~run.key /\ Commit(Without(outbox, Current), "written")
     /\ run' = IdleRun
     /\ IF end = "done" \/ Due(outbox', run.account) # {} THEN ScheduleRetry ELSE timer' = timer
     /\ UNCHANGED <<enabled, snapshot, icloud, ever, outside>>

\* Another account is signed in, the device key has expired or is there with
\* another signature, or the record was changed meanwhile: the entry needs a
\* review, and the loop goes on.
UploadRefused(end) ==
  /\ \/ Uploading /\ ~run.checked /\ account # None /\ (~SameAccount \/ KeyExpired)
     \/ Ready /\ run.key /\ KeyTaken
     \/ Ready /\ ~run.key /\ Stale
  /\ Commit(Reviewed(outbox, Current), end)
  /\ NextEntry(outbox')
  /\ UNCHANGED <<enabled, copies, icloud, ever, outside>>

-----------------------------------------------------------------------------
(* What happens meanwhile *)

\* clear(): without the file, nothing is left in memory either.
Cleared ==
  /\ Commit([m \in Actions |-> None], "done")
  /\ gone' = gone \cup Present(outbox)

\* enableAndSync; its buttons are off during a sync.
Enable ==
  /\ ~enabled /\ ~run.sync
  /\ enabled' = TRUE
  /\ IF Idle THEN BeginSync(snapshot) ELSE UNCHANGED <<run, timer>>
  /\ UNCHANGED <<copies, queue, icloud, ever, outside>>

\* disableAndClear; the dialog that calls it stays open when a sync begins.
\* cleared: the file of the outbox can be removed.
DisableAndClear(cleared) ==
  /\ enabled
  /\ enabled' = FALSE /\ timer' = FALSE
  /\ snapshot' = Empty /\ file' = Empty
  /\ IF cleared THEN Cleared ELSE UNCHANGED <<queue, gone>>
  /\ UNCHANGED <<run, icloud, made, signer, outside>>

\* clearPendingMutations
ClearPending ==
  /\ Present(outbox) # {}
  /\ Cleared
  /\ UNCHANGED <<enabled, copies, timer, run, icloud, made, signer, outside>>

Ripe(q, m) == IF q[m] = None THEN q ELSE [q EXCEPT ![m] = [q[m] EXCEPT !.due = TRUE]]

\* The retry delay of an entry is over.
Elapse(m) ==
  /\ queue # <<Ripe(outbox, m), Ripe(stored, m)>>
  /\ outbox' = Ripe(outbox, m) /\ stored' = Ripe(stored, m)
  /\ UNCHANGED <<enabled, copies, timer, run, icloud, ever, outside>>

\* The owner signs in, out, or in with another account.
SwitchAccount ==
  /\ upsets < MaxUpsets /\ upsets' = upsets + 1
  /\ account' \in (Accounts \cup {None}) \ {account}
  /\ notice' = TRUE
  /\ run' = [run EXCEPT !.moved = @ \/ (run.checked /\ run.sent = None)
                                   \/ (Fetching /\ run.account # None)]
  /\ UNCHANGED <<device, icloud, ever, edited, expired>>

\* handleAccountChanged
AccountNoticed ==
  /\ notice /\ notice' = FALSE
  /\ IF enabled
     THEN /\ snapshot' = Empty /\ file' = Empty
          /\ IF Idle THEN BeginSync(Empty) ELSE timer' = FALSE /\ run' = run
     ELSE UNCHANGED <<copies, timer, run>>
  /\ UNCHANGED <<account, enabled, queue, icloud, ever, edited, expired, upsets>>

\* The Mac changes the record of an action: the task list at any time, a memory
\* once it is there.
Edit(m) ==
  /\ m \in Present(outbox) \ edited
  /\ KindOf[m] = "taskComplete" \/ (KindOf[m] = "memoryCreate" /\ made[m] \in cloud[m])
  /\ edited' = edited \cup {m}
  /\ UNCHANGED <<device, run, icloud, ever, account, notice, expired, upsets>>

\* An action, or the device key of a chat request, gets too old.
Expire(m) ==
  /\ m \in ((Present(outbox) \cup Present(stored)) \cap Ageing) \ expired
  /\ expired' = expired \cup {m}
  /\ UNCHANGED <<device, run, icloud, ever, account, notice, edited, upsets>>

\* load(from:now:): the entries in the file, without those that have expired
Loaded == [m \in Actions |-> IF m \in expired THEN None ELSE stored[m]]

\* The app ends and is started again: the files are read.
Kill ==
  /\ upsets < MaxUpsets /\ upsets' = upsets + 1
  /\ run' = IdleRun /\ timer' = FALSE /\ notice' = FALSE
  /\ snapshot' = file
  /\ outbox' = Loaded
  /\ made' = [m \in Actions |-> IF Loaded[m] # None THEN Loaded[m].account ELSE made[m]]
  /\ gone' = gone \cup (Present(outbox) \cap Present(stored) \cap expired)
  /\ UNCHANGED <<account, enabled, file, stored, icloud, signer, edited, expired>>

-----------------------------------------------------------------------------
Init ==
  /\ account \in SignedIn /\ notice = FALSE /\ enabled = FALSE
  /\ snapshot = Empty /\ file = Empty
  /\ outbox = [m \in Actions |-> None] /\ stored = outbox /\ timer = FALSE /\ run = IdleRun
  /\ cloud = [m \in Actions |-> {}] /\ keys = cloud /\ edited = {} /\ expired = {}
  /\ made = [m \in Actions |-> None] /\ signer = [m \in Actions |-> m]
  /\ gone = {} /\ crossed = {} /\ upsets = 0

SyncStep ==
  \/ ReadAccount \/ FetchPage \/ PauseEnds \/ SyncFails \/ SyncSignedOut
  \/ \E more \in BOOLEAN : Fetched(more)

UploadStep ==
  \/ Check \/ KeyStored \/ Stored
  \/ \E a \in Accounts : KeySaved(a) \/ Answered(a)
  \/ \E end \in Ends : UploadFails(end) \/ UploadRefused(end)

Next ==
  \/ StartSync \/ TimerFires \/ SyncStep \/ UploadStep
  \/ \E end \in Ends \ {"failed"} : RetryPending(end) \/ \E m \in Actions : Submit(m, end)
  \/ \E m \in Actions : Elapse(m) \/ Edit(m) \/ Expire(m)
  \/ \E cleared \in BOOLEAN : DisableAndClear(cleared)
  \/ Enable \/ ClearPending
  \/ SwitchAccount \/ AccountNoticed \/ Kill

Spec == Init /\ [][Next]_vars

\* The app is opened, or a push or a background refresh reaches it, again and
\* again; awaited calls return, iCloud can be read and the outbox written again
\* and again, and time passes.
Fairness ==
  /\ WF_vars(StartSync) /\ WF_vars(SyncStep) /\ WF_vars(UploadStep)
  /\ SF_vars(ReadAccount) /\ SF_vars(Fetched(FALSE))
  /\ SF_vars((\E a \in Accounts : Answered(a)) \/ UploadFails("done") \/ UploadRefused("done"))
  /\ \A m \in Actions : WF_vars(Elapse(m))

FairSpec == Spec /\ Fairness

-----------------------------------------------------------------------------
(* Refinement *)

\* What the owner sees of an action
Status(m) ==
  IF made[m] = None THEN "unmade"
  ELSE IF outbox[m] # None THEN IF outbox[m].state = "pending" THEN "waiting" ELSE "held"
  ELSE IF m \in gone THEN "removed" ELSE "done"

Seen == [m \in Actions |-> Status(m)]

Taken == IF Uploading THEN run.todo ELSE {}

\* What may be stored now, its account having been found signed in
Checked == IF Uploading /\ run.checked /\ ~run.key /\ run.sent = None THEN {Current} ELSE {}

Delivery == INSTANCE ActionDelivery WITH
  for <- made, status <- Seen, where <- cloud, taken <- Taken, checked <- Checked

-----------------------------------------------------------------------------
(* Properties *)

\* Every variable has its type; the outbox holds its maximum of entries, each of
\* which was tried its maximum of times.
TypeOK ==
  /\ account \in Accounts \cup {None} /\ notice \in BOOLEAN /\ enabled \in BOOLEAN
  /\ snapshot \in Copy /\ file \in Copy
  /\ \A q \in {outbox, stored} :
       q \in [Actions -> Entry \cup {None}] /\ Cardinality(Present(q)) <= MaxEntries
  /\ timer \in BOOLEAN /\ run \in Run
  /\ cloud \in [Actions -> SUBSET Accounts] /\ keys \in [Actions -> SUBSET Accounts]
  /\ edited \subseteq Actions /\ expired \subseteq Actions
  /\ made \in [Actions -> Accounts \cup {None}] /\ signer \in [Actions -> Actions]
  /\ gone \subseteq Actions /\ crossed \subseteq Actions /\ upsets \in 0 .. MaxUpsets

\* Whatever is lost, killed or refused on the way, an action of the owner is on
\* the outbox or in iCloud, unless the owner removed it or it had expired at a
\* start: the entry is removed only after its record has been saved.
ActionsKept ==
  \A m \in Actions : made[m] # None =>
    m \in Present(outbox) \/ cloud[m] # {} \/ m \in gone

\* An action and its device key reach the iCloud of the account it was made for and
\* no other, unless the account changed between the client's check and the arrival
\* of the record: uploads of entries read under another account, retries after a
\* change and what a restart brings back are all caught by the check.
OwnAccountOnly == \A m \in Actions \ crossed : cloud[m] \cup keys[m] \subseteq {made[m]}

\* The copy on the phone holds records of one account, the one it is labelled with,
\* however syncs, uploads, changes of the account and restarts interleave, unless
\* the account changed in the middle of the pass or the upload that brought them.
OneAccountInCopy ==
  \A copy \in {snapshot, file} : copy.of \subseteq {copy.account} \/ copy.mixed

\* What needs a review is not sent on: no later run stores it.
ReviewWaits ==
  [][\A m \in Actions :
       outbox[m] # None /\ outbox[m].state = "needsReview" => cloud'[m] = cloud[m]]_vars

\* The syncs and uploads keep the promise of ActionDelivery: an action that left the
\* outbox was stored or removed, one that is held or removed is not taken up again,
\* nothing is stored twice in one account, every arrival follows a check of its own
\* that found the action's account signed in, and a restart brings back no more than
\* a commit that failed after its file was written.
DeliversActions == Delivery!Spec

\* What waits in the outbox of an account that stays signed in does not wait for
\* ever, whatever fails: it is uploaded, put up for a review, or removed.
EverySettled ==
  \A m \in Actions :
    <>[](enabled /\ made[m] # None /\ account = made[m])
      => <>[](outbox[m] # None => outbox[m].state = "needsReview")

=============================================================================
