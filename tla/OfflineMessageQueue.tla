------------------------ MODULE OfflineMessageQueue ------------------------
(***************************************************************************)
(* How a chat message of the browser client reaches the Mac, and what      *)
(* happens to it while it cannot: src/hooks/useChatPersistence.ts,         *)
(* src/hooks/useOfflineQueueSync.ts, src/services/offlineMessageQueue.ts   *)
(* and the server's insertMessage (server/chat.ts).                        *)
(*                                                                         *)
(* A message is first saved directly, then once more in a fresh session,   *)
(* and then put on the offline queue.  A flush replays the queue, one      *)
(* request after the other; several flushes can be in progress.  A         *)
(* request that the client has given up may still reach the server, now or *)
(* later.  The page can be closed and opened again at any moment.          *)
(*                                                                         *)
(* A queued item is named by its idempotency key.  Keys are numbered in    *)
(* the order of their creation, which is the order of the queue: items are *)
(* appended and never moved.                                               *)
(*                                                                         *)
(* The queue in memory and its mirror in localStorage are one variable:    *)
(* every write sets both at once.  The copy in IndexedDB is written        *)
(* asynchronously, and read once in the life of a page, by the hydration   *)
(* of the queue, whose transaction is older than those of the page's       *)
(* writes.  So a write of the queue has reached the copy when the page is  *)
(* opened again, or has not.                                               *)
(*                                                                         *)
(* One tab and one source: two queues in two tabs and the review of        *)
(* similar messages of different sources are left out.                     *)
(***************************************************************************)
EXTENDS Integers, FiniteSets

CONSTANTS
  Submissions,  \* messages the chat page persists
  Texts,        \* what they say; equal texts have equal fingerprints
  TextOf,       \* [Submissions -> Texts]
  Oversized,    \* the texts compactMessageForQueue truncates
  Sessions,     \* chat sessions on the server
  Saved,        \* the active session of an earlier visit, or None
  Left,         \* what it may have left on the queue: the text of an item, or None
  Flushes,      \* runs of flushOfflineMessages that can be in progress at once
  MaxItems,     \* MAX_QUEUE_ITEMS
  MaxKeys,      \* bound of the number of items ever put on the queue
  MaxReloads,   \* bound of the number of times the page is opened again
  Signals,      \* what the browser says of the network: BOOLEAN, or less as a bound
  None          \* undefined, null

ASSUME MessagesAssumption ==
  /\ TextOf \in [Submissions -> Texts]
  /\ Oversized \subseteq Texts
  /\ Saved \in Sessions \cup {None}
  /\ Left \subseteq Texts \cup {None}

VARIABLES
  queue,          \* queueCache and its mirror in localStorage
  indexed,        \* the copy in IndexedDB
  reading,        \* what hydrateOfflineMessageQueue is about to find there, None once it has
  session,        \* chatSessionIdRef, saved as the active session
  sessionFailed,  \* chatSessionPromiseRef holds a rejected promise
  made,           \* the sessions that exist on the server
  direct,         \* how far persistMessageToCore is with each message
  saves,          \* its requests the server has not processed
  flush,          \* the runs of flushOfflineMessages
  replays,        \* their requests the server has not processed
  boot,           \* what the page does when it opens
  online,         \* the browser says the network is usable
  rows,           \* rows of messages with an idempotency key
  copies,         \* rows of messages without one
  born,           \* history: the text each key was made for
  discarded,      \* history: keys the user removed or the budget pushed out
  forgotten,      \* history: keys that a hydration dropped
  reloads         \* history: openings of the page so far

storage == <<queue, indexed, discarded>>
server  == <<rows, copies>>
vars == <<queue, indexed, reading, session, sessionFailed, made, direct, saves,
          flush, replays, boot, online, rows, copies, born, discarded, forgotten, reloads>>

Keys == 1 .. MaxKeys

\* tried: lastAttemptAt is set.  due: it is SYNCING_STALE_AFTER_MS ago for an
\* item in "syncing", the retry delay for one in "failed".
Statuses == {"pending", "syncing", "failed"}
Item == [text : Texts, status : Statuses, tried : BOOLEAN, due : BOOLEAN]
Queue == [Keys -> Item \cup {None}]

ASSUME BoundsAssumption ==
  /\ MaxItems \in Nat \ {0}
  /\ MaxKeys \in Nat
  /\ MaxReloads \in Nat
  /\ Signals \subseteq BOOLEAN
  /\ None \notin Sessions \cup Texts \cup Item \cup Queue

\* A run of flushOfflineMessages: the items it still has to replay, the session
\* it replays them to, the items the server has acknowledged.  boot: it is the
\* run the page starts when it opens.
Run == [phase : {"idle", "opening", "sending"}, boot : BOOLEAN, todo : SUBSET Keys,
        session : Sessions \cup {None}, synced : SUBSET Keys]

IdleRun == [phase |-> "idle", boot |-> FALSE, todo |-> {}, session |-> None, synced |-> {}]

Steps == {"unsent", "first", "fallback", "second", "saved", "queued", "lost"}

Save   == [of : Submissions, try : {"first", "second"}]
Replay == [flush : Flushes, session : Sessions, key : Keys]

\* The effects of App.tsx have run: nothing else happens in a page before.
Mounted == boot # "flush"

Empty == [k \in Keys |-> None]
Present(q) == {k \in Keys : q[k] # None}
Having(q, status) == {k \in Present(q) : q[k].status = status}

-----------------------------------------------------------------------------
(* The queue *)

\* Mutant: the limit is off by one.
TrimmedLate(q) ==
  [k \in Keys |-> IF Cardinality({j \in Present(q) : j > k}) <= MaxItems THEN q[k] ELSE None]

\* trimQueueToBudget
Trimmed(q) ==
  [k \in Keys |-> IF Cardinality({j \in Present(q) : j > k}) < MaxItems THEN q[k] ELSE None]

\* What a stored copy says of the clock is found out again when it is read.
Stored(q) == [k \in Keys |-> IF q[k] = None THEN None ELSE [q[k] EXCEPT !.due = FALSE]]

\* writeQueue, after the user asked to remove the items in gone
WriteQueue(q, gone) ==
  /\ queue' = Trimmed(q)
  /\ indexed' \in {indexed, Stored(Trimmed(q))}
  /\ discarded' = discarded \cup gone \cup (Present(q) \ Present(Trimmed(q)))

Marked(q, ks, status) ==
  [k \in Keys |-> IF k \in ks /\ q[k] # None
                  THEN [q[k] EXCEPT !.status = status, !.due = FALSE] ELSE q[k]]

Without(q, ks) == [k \in Keys |-> IF k \in ks THEN None ELSE q[k]]

\* markOfflineMessageSyncing and markOfflineMessageFailed
Attempted(q, key, status) ==
  [k \in Keys |-> IF k = key /\ q[k] # None
                  THEN [q[k] EXCEPT !.status = status, !.tried = TRUE, !.due = FALSE] ELSE q[k]]

\* recoverStaleOfflineMessages and the items it finds
Stale(q) == {k \in Having(q, "syncing") : q[k].due}
Recovered(q) == Marked(q, Stale(q), "pending")

\* getQueueItemsReadyToSync
Ready(q) == Having(q, "pending") \cup {k \in Having(q, "syncing") \cup Having(q, "failed") : q[k].due}

\* Mutant: a single item is not synced.
SyncAllowedForSeveral(q) ==
  online /\ Cardinality(Ready(q)) > 1 /\ Having(q, "failed") = {} /\ Stale(q) = {}

\* getOfflineMessageQueueSyncGuard, not forced
SyncAllowed(q) == online /\ Ready(q) # {} /\ Having(q, "failed") = {} /\ Stale(q) = {}

\* A new item as compactMessageForQueue leaves it
NewItem(t) ==
  [text |-> t, status |-> IF t \in Oversized THEN "failed" ELSE "pending",
   tried |-> FALSE, due |-> FALSE]

\* enqueueOfflineMessage, at the end of persistMessageToCore
Enqueue(s) ==
  LET same == {k \in Present(queue) : queue[k].text = TextOf[s]}
  IN /\ direct' = [direct EXCEPT ![s] = "queued"]
     /\ \/ /\ same # {}
           /\ WriteQueue(Marked(queue, same, "pending"), {})
           /\ born' = born
        \/ /\ same = {}
           /\ \E key \in Keys :
                /\ born[key] = None /\ \A k \in Keys : k < key => born[k] # None
                /\ WriteQueue([queue EXCEPT ![key] = NewItem(TextOf[s])], {})
                /\ born' = [born EXCEPT ![key] = TextOf[s]]

-----------------------------------------------------------------------------
(* Sessions and the direct save *)

\* createAndUseChatSession, answered
CreateSession ==
  \E s \in Sessions \ made :
    made' = made \cup {s} /\ session' = s /\ sessionFailed' = FALSE

\* ensureChatSessionId, resolved
EnsureSession ==
  \/ session # None /\ UNCHANGED <<made, session, sessionFailed>>
  \/ session = None /\ ~sessionFailed /\ CreateSession

\* ensureChatSessionId, rejected: now, or when it was first called
NoSession == session = None /\ sessionFailed' = TRUE /\ UNCHANGED <<made, session>>

Sends(s, try) ==
  /\ direct' = [direct EXCEPT ![s] = try]
  /\ saves' = saves \cup {[of |-> s, try |-> try]}

\* persistMessageToCore up to its first request
Submit(s) ==
  /\ Mounted /\ direct[s] = "unsent"
  /\ \/ EnsureSession /\ Sends(s, "first")
     \/ NoSession /\ direct' = [direct EXCEPT ![s] = "fallback"] /\ UNCHANGED saves
  /\ UNCHANGED <<storage, server, reading, flush, replays, boot, online, born, forgotten, reloads>>

DirectSaved(s) ==
  /\ direct[s] \in {"first", "second"}
  /\ [of |-> s, try |-> direct[s]] \notin saves
  /\ direct' = [direct EXCEPT ![s] = "saved"]
  /\ UNCHANGED <<storage, server, reading, session, sessionFailed, made, saves,
                 flush, replays, boot, online, born, forgotten, reloads>>

\* Refused, lost, or given up after 15 seconds
FirstFails(s) ==
  /\ direct[s] = "first"
  /\ direct' = [direct EXCEPT ![s] = "fallback"]
  /\ UNCHANGED <<storage, server, reading, session, sessionFailed, made, saves,
                 flush, replays, boot, online, born, forgotten, reloads>>

SecondFails(s) ==
  /\ direct[s] = "second"
  /\ Enqueue(s)
  /\ UNCHANGED <<server, reading, session, sessionFailed, made, saves,
                 flush, replays, boot, online, forgotten, reloads>>

\* The catch of persistMessageToCore: a fresh session, or the queue
Fallback(s) ==
  /\ direct[s] = "fallback"
  /\ \/ CreateSession /\ Sends(s, "second") /\ UNCHANGED <<storage, born>>
     \/ Enqueue(s) /\ UNCHANGED <<session, sessionFailed, made, saves>>
  /\ UNCHANGED <<server, reading, flush, replays, boot, online, forgotten, reloads>>

-----------------------------------------------------------------------------
(* flushOfflineMessages *)

First(ks) == CHOOSE k \in ks : \A j \in ks : k <= j

\* markOfflineMessageSyncing and saveChatMessage for the first item of todo; the
\* item is sent although it may have left the queue.
SendNext(f, run, s, q) ==
  LET k == First(run.todo)
  IN /\ WriteQueue(Attempted(q, k, "syncing"), {})
     /\ flush' = [flush EXCEPT ![f] = [run EXCEPT !.phase = "sending", !.session = s]]
     /\ replays' = replays \cup {[flush |-> f, session |-> s, key |-> k]}

\* From the call to its first await; q is the queue the caller has just written.
Begin(f, q, isBoot) ==
  LET recovered == Recovered(q)
      todo      == Ready(recovered)
      run       == [IdleRun EXCEPT !.phase = "opening", !.boot = isBoot, !.todo = todo]
  IN /\ flush[f].phase = "idle"
     /\ \/ /\ todo = {}
           /\ WriteQueue(recovered, {})
           /\ boot' = IF isBoot THEN "history" ELSE boot
           /\ UNCHANGED <<flush, replays>>
        \/ /\ todo # {} /\ session # None
           /\ SendNext(f, run, session, recovered)
           /\ boot' = IF isBoot THEN "flushing" ELSE boot
        \/ /\ todo # {} /\ session = None
           /\ WriteQueue(recovered, {})
           /\ flush' = [flush EXCEPT ![f] = run]
           /\ boot' = IF isBoot THEN "flushing" ELSE boot
           /\ UNCHANGED replays

\* markOfflineMessagesSynced, and the call returns
Finish(f, synced, q) ==
  /\ WriteQueue(Without(q, synced), {})
  /\ flush' = [flush EXCEPT ![f] = IdleRun]
  /\ boot' = IF flush[f].boot THEN "history" ELSE boot
  /\ UNCHANGED replays

\* The session the call waited for is there, or never will be.
Opened(f) ==
  /\ flush[f].phase = "opening"
  /\ \/ /\ EnsureSession
        /\ SendNext(f, flush[f], session', queue)
        /\ boot' = boot
     \/ /\ NoSession
        /\ flush' = [flush EXCEPT ![f] = IdleRun]
        /\ boot' = IF flush[f].boot THEN "fallback" ELSE boot
        /\ UNCHANGED <<storage, replays>>
  /\ UNCHANGED <<server, reading, direct, saves, online, born, forgotten, reloads>>

Replayed(f) ==
  LET k    == First(flush[f].todo)
      rest == [flush[f] EXCEPT !.todo = @ \ {k}, !.synced = @ \cup {k}]
  IN /\ flush[f].phase = "sending"
     /\ [flush |-> f, session |-> flush[f].session, key |-> k] \notin replays
     /\ \/ rest.todo # {} /\ SendNext(f, rest, rest.session, queue) /\ boot' = boot
        \/ rest.todo = {} /\ Finish(f, rest.synced, queue)
     /\ UNCHANGED <<server, reading, session, sessionFailed, made, direct, saves,
                    online, born, forgotten, reloads>>

\* Mutant: the item is counted as synced before its request is answered.
AcknowledgedEarly(f) == flush[f].synced \cup {First(flush[f].todo)}

\* The acknowledged items a failed run takes off the queue
Acknowledged(f) == flush[f].synced

ReplayFails(f) ==
  /\ flush[f].phase = "sending"
  /\ Finish(f, Acknowledged(f), Attempted(queue, First(flush[f].todo), "failed"))
  /\ UNCHANGED <<server, reading, session, sessionFailed, made, direct, saves,
                 online, born, forgotten, reloads>>

-----------------------------------------------------------------------------
(* useOfflineQueueSync: what starts a flush *)

\* syncQueuedMessages on a network, visibility, worker or timer event
AutoSync(f) ==
  /\ Mounted /\ SyncAllowed(queue)
  /\ Begin(f, queue, FALSE)
  /\ UNCHANGED <<server, reading, session, sessionFailed, made, direct, saves,
                 online, born, forgotten, reloads>>

\* syncQueuedMessages(true): the owner retries everything
ForceSync(f) ==
  /\ Mounted /\ Present(queue) # {}
  /\ Begin(f, Marked(queue, Having(queue, "failed"), "pending"), FALSE)
  /\ UNCHANGED <<server, reading, session, sessionFailed, made, direct, saves,
                 online, born, forgotten, reloads>>

\* retryQueuedMessage; on the device page only retryOfflineMessage
RetryOne(f, k) ==
  LET q == Marked(queue, {k}, "pending")
  IN /\ Mounted /\ k \in Present(queue)
     /\ \/ SyncAllowed(q) /\ Begin(f, q, FALSE)
        \/ WriteQueue(q, {}) /\ UNCHANGED <<flush, replays, boot>>
     /\ UNCHANGED <<server, reading, session, sessionFailed, made, direct, saves,
                    online, born, forgotten, reloads>>

\* retryFailedOfflineMessages on the device page
RetryFailed ==
  /\ Mounted
  /\ WriteQueue(Marked(queue, Having(queue, "failed"), "pending"), {})
  /\ UNCHANGED <<server, reading, session, sessionFailed, made, direct, saves,
                 flush, replays, boot, online, born, forgotten, reloads>>

\* removeOfflineMessages: one item, or on the device page every failed one
Remove ==
  /\ Mounted
  /\ \E ks \in {{k} : k \in Present(queue)} \cup {Having(queue, "failed")} :
       ks # {} /\ WriteQueue(Without(queue, ks), ks)
  /\ UNCHANGED <<server, reading, session, sessionFailed, made, direct, saves,
                 flush, replays, boot, online, born, forgotten, reloads>>

\* clearOfflineMessageQueue
Clear ==
  /\ Mounted
  /\ WriteQueue(Empty, Present(queue))
  /\ UNCHANGED <<server, reading, session, sessionFailed, made, direct, saves,
                 flush, replays, boot, online, born, forgotten, reloads>>

\* The retry delay of a failed item, or the patience with a request, is over.
Elapse(k) ==
  /\ queue[k] # None /\ queue[k].status # "pending" /\ queue[k].tried /\ ~queue[k].due
  /\ queue' = [queue EXCEPT ![k].due = TRUE]
  /\ UNCHANGED <<indexed, discarded, server, reading, session, sessionFailed, made, direct,
                 saves, flush, replays, boot, online, born, forgotten, reloads>>

Network ==
  /\ online' \in Signals \ {online}
  /\ UNCHANGED <<storage, server, reading, session, sessionFailed, made, direct, saves,
                 flush, replays, boot, born, forgotten, reloads>>

-----------------------------------------------------------------------------
(* The page opens *)

\* The page is closed, whatever is in progress, and opened again.
Reload ==
  /\ reloads < MaxReloads
  /\ reloads' = reloads + 1
  /\ direct' = [s \in Submissions |->
       IF direct[s] \in {"first", "fallback", "second"} THEN "lost" ELSE direct[s]]
  /\ flush' = [f \in Flushes |-> IdleRun]
  /\ reading' = indexed
  /\ sessionFailed' = FALSE
  /\ boot' = "flush"
  /\ UNCHANGED <<storage, server, session, made, saves, replays, online, born, forgotten>>

\* hydrateOfflineMessageQueue: the copy that counts
Hydration == IF Present(reading) # {} THEN reading ELSE queue

Hydrate ==
  /\ Mounted /\ reading # None
  /\ reading' = None
  /\ queue' = Hydration
  /\ indexed' \in IF Present(reading) # {} THEN {indexed} ELSE {indexed, Stored(queue)}
  /\ forgotten' = forgotten \cup (Present(queue) \ Present(Hydration))
  /\ UNCHANGED <<server, discarded, session, sessionFailed, made, direct, saves,
                 flush, replays, boot, online, born, reloads>>

BootFlush(f) ==
  /\ boot = "flush"
  /\ Begin(f, queue, TRUE)
  /\ UNCHANGED <<server, reading, session, sessionFailed, made, direct, saves,
                 online, born, forgotten, reloads>>

\* loadMessagesFromCore
LoadHistory ==
  /\ boot = "history"
  /\ \/ EnsureSession /\ boot' \in {"done", "fallback"}
     \/ NoSession /\ boot' = "fallback"
  /\ UNCHANGED <<storage, server, reading, direct, saves, flush, replays,
                 online, born, forgotten, reloads>>

\* The catch of the effect in App.tsx
BootFallback ==
  /\ boot = "fallback"
  /\ boot' = "done"
  /\ CreateSession \/ UNCHANGED <<session, sessionFailed, made>>
  /\ UNCHANGED <<storage, server, reading, direct, saves, flush, replays,
                 online, born, forgotten, reloads>>

-----------------------------------------------------------------------------
(* The server *)

\* Mutant: an existing row is not looked for.
InsertedAgain(n) == n + 1

\* insertMessage with an idempotency key, n rows of the session having it
Inserted(n) == IF n > 0 THEN n ELSE n + 1

StoreReplay ==
  /\ \E r \in replays :
       /\ replays' = replays \ {r}
       /\ rows' = [rows EXCEPT ![r.session][r.key] = Inserted(@)]
  /\ UNCHANGED <<storage, copies, reading, session, sessionFailed, made, direct, saves,
                 flush, boot, online, born, forgotten, reloads>>

StoreSave ==
  /\ \E r \in saves :
       /\ saves' = saves \ {r}
       /\ copies' = [copies EXCEPT ![r.of] = @ + 1]
  /\ UNCHANGED <<storage, rows, reading, session, sessionFailed, made, direct,
                 flush, replays, boot, online, born, forgotten, reloads>>

-----------------------------------------------------------------------------
\* A queue with one item, or none
Leftover(t) == [k \in Keys |-> IF k = 1 /\ t # None THEN NewItem(t) ELSE None]

Init ==
  /\ \E t \in Left :
       /\ queue = Leftover(t) /\ indexed = Leftover(t) /\ reading = Leftover(t)
       /\ born = [k \in Keys |-> IF k = 1 THEN t ELSE None]
  /\ session = Saved /\ sessionFailed = FALSE /\ made = {Saved} \ {None}
  /\ direct = [s \in Submissions |-> "unsent"] /\ saves = {}
  /\ flush = [f \in Flushes |-> IdleRun] /\ replays = {}
  /\ boot = "flush" /\ online \in Signals
  /\ rows = [s \in Sessions |-> [k \in Keys |-> 0]]
  /\ copies = [s \in Submissions |-> 0]
  /\ discarded = {} /\ forgotten = {} /\ reloads = 0

Persisting(s) == Submit(s) \/ DirectSaved(s) \/ FirstFails(s) \/ SecondFails(s) \/ Fallback(s)

Flushing(f) ==
  \/ Opened(f) \/ Replayed(f) \/ ReplayFails(f)
  \/ AutoSync(f) \/ ForceSync(f) \/ BootFlush(f)
  \/ \E k \in Keys : RetryOne(f, k)

Next ==
  \/ \E s \in Submissions : Persisting(s)
  \/ \E f \in Flushes : Flushing(f)
  \/ RetryFailed \/ Remove \/ Clear
  \/ \E k \in Keys : Elapse(k)
  \/ Network \/ Reload \/ Hydrate \/ LoadHistory \/ BootFallback
  \/ StoreReplay \/ StoreSave

Spec == Init /\ [][Next]_vars

\* The network and the code's timers do their part: a request that has been sent
\* arrives and is answered, the browser hydrates the queue, time passes, and
\* while there is something to sync an event starts a sync.
Fairness ==
  /\ WF_vars(StoreReplay) /\ WF_vars(Hydrate)
  /\ \A k \in Keys : WF_vars(Elapse(k))
  /\ \A f \in Flushes : WF_vars(Opened(f)) /\ WF_vars(Replayed(f) \/ ReplayFails(f))
  /\ WF_vars(\E f \in Flushes : BootFlush(f))
  /\ WF_vars(\E f \in Flushes : AutoSync(f))

LiveSpec == Spec /\ Fairness

-----------------------------------------------------------------------------
(* Properties *)

TypeOK ==
  /\ queue \in Queue /\ indexed \in Queue /\ reading \in Queue \cup {None}
  /\ session \in Sessions \cup {None} /\ sessionFailed \in BOOLEAN /\ made \subseteq Sessions
  /\ direct \in [Submissions -> Steps] /\ saves \subseteq Save
  /\ flush \in [Flushes -> Run] /\ replays \subseteq Replay
  /\ boot \in {"flush", "flushing", "history", "fallback", "done"} /\ online \in BOOLEAN
  /\ rows \in [Sessions -> [Keys -> Nat]] /\ copies \in [Submissions -> Nat]
  /\ born \in [Keys -> Texts \cup {None}] /\ discarded \subseteq Keys /\ forgotten \subseteq Keys
  /\ reloads \in 0 .. MaxReloads
  /\ Cardinality(Present(queue)) <= MaxItems

Written(k) == \E s \in Sessions : rows[s][k] > 0

\* Nothing vanishes between the steps of two hooks and the server: an item that
\* was queued is on the queue or on the server, unless the owner or the budget
\* removed it or a hydration dropped it; and a message the chat page is done
\* with was saved directly or is such an item.
NothingVanishes ==
  /\ \A k \in Keys : born[k] # None =>
       k \in Present(queue) \/ Written(k) \/ k \in discarded \cup forgotten
  /\ \A s \in Submissions :
       /\ direct[s] = "saved" => copies[s] > 0
       /\ direct[s] = "queued" => \E k \in Keys : born[k] = TextOf[s]

\* However often an item is replayed to a session, by overlapping flushes, after
\* a reload or because an old copy of the queue came back, the session holds at
\* most one message for it.
OneRowPerSession == \A s \in Sessions, k \in Keys : rows[s][k] <= 1

\* With a session, a usable network and nothing failed or interrupted, syncs
\* empty the queue, whatever happened before.
HealthyQueueDrains ==
  <>[](online /\ session # None /\ Having(queue, "failed") = {} /\ Stale(queue) = {})
    => <>[](Present(queue) = {})
-----------------------------------------------------------------------------
(* What the user is promised: MessageDelivery *)

FateOf(step) ==
  IF step \in {"first", "fallback"} THEN "trying" ELSE IF step = "second" THEN "again" ELSE step

Fates == [s \in Submissions |-> FateOf(direct[s])]

Underway == {<<r.session, r.key>> : r \in replays}

Delivery == INSTANCE MessageDelivery WITH
  fate <- Fates, posts <- saves, items <- born, waiting <- Present(queue),
  dropped <- discarded \cup forgotten, sent <- Underway, unread <- reading # None,
  Limit <- MaxItems

\* Two tries of a message, any number of overlapping flushes that replay items to
\* sessions and take them off the queue later, with requests left behind by closed
\* pages and an old copy of the queue coming back, keep what MessageDelivery promises:
\* nothing is taken off before it is stored or dropped unless the user, the limit or
\* that one reading did it, the limit drops the oldest, and no session has an item twice.
DeliversMessages == Delivery!Spec
=============================================================================
