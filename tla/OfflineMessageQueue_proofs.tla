--------------------- MODULE OfflineMessageQueue_proofs ---------------------
(***************************************************************************)
(* Proofs about the offline queue, for any number of messages, sessions,   *)
(* overlapping flushes, reloads and any limit of the queue.                *)
(***************************************************************************)
EXTENDS OfflineMessageQueue, FiniteSetTheorems, WellFoundedInduction, TLAPS

-----------------------------------------------------------------------------
(* The inductive invariant, by the state its parts are about *)

\* Each item of q says what its key was made for.
Texted(q, b) == \A k \in Keys : q[k] # None => b[k] = q[k].text

\* The budget of the queue is kept.
Fits(q) == Cardinality(Present(q)) <= MaxItems

QueueInv ==
  /\ queue \in Queue /\ indexed \in Queue /\ reading \in Queue \cup {None}
  /\ born \in [Keys -> Texts \cup {None}] /\ discarded \subseteq Keys
  /\ Fits(queue) /\ Fits(indexed)
  /\ Texted(queue, born) /\ Texted(indexed, born)
  /\ reading # None => Fits(reading) /\ Texted(reading, born)

\* A request that has been sent is on its way or its message is stored, and what
\* a flush counts as synced is on the server.
FlushOK(f) ==
  /\ flush[f].phase # "idle" => flush[f].todo # {}
  /\ flush[f].phase = "sending" =>
       /\ flush[f].session \in Sessions
       /\ \/ [flush |-> f, session |-> flush[f].session, key |-> First(flush[f].todo)] \in replays
          \/ rows[flush[f].session][First(flush[f].todo)] > 0
  /\ \A k \in flush[f].synced : Written(k)

FlushInv ==
  /\ flush \in [Flushes -> Run] /\ replays \subseteq Replay
  /\ rows \in [Sessions -> [Keys -> Nat]]
  /\ \A f \in Flushes : FlushOK(f)

DirectOK(s) ==
  /\ direct[s] \in {"first", "second"} => [of |-> s, try |-> direct[s]] \in saves \/ copies[s] > 0
  /\ direct[s] = "saved" => copies[s] > 0
  /\ direct[s] = "queued" => \E k \in Keys : born[k] = TextOf[s]

DirectInv ==
  /\ direct \in [Submissions -> Steps] /\ saves \subseteq Save
  /\ copies \in [Submissions -> Nat]
  /\ \A s \in Submissions : DirectOK(s)

PageInv ==
  /\ session \in Sessions \cup {None} /\ sessionFailed \in BOOLEAN /\ made \subseteq Sessions
  /\ boot \in {"flush", "flushing", "history", "fallback", "done"} /\ online \in BOOLEAN
  /\ forgotten \subseteq Keys /\ reloads \in 0 .. MaxReloads

KeptInv ==
  \A k \in Keys : born[k] # None =>
    queue[k] # None \/ Written(k) \/ k \in discarded \cup forgotten

IInv == QueueInv /\ FlushInv /\ DirectInv /\ PageInv /\ KeptInv

LEMMA Implied ==
  ASSUME IInv PROVE TypeOK /\ NothingVanishes
BY DEF IInv, QueueInv, FlushInv, DirectInv, DirectOK, PageInv, KeptInv, TypeOK, NothingVanishes, Present, Fits

-----------------------------------------------------------------------------
(* Sets of keys *)

LEMMA NoneIsOther ==
  /\ None \notin Sessions /\ None \notin Texts /\ None \notin Item /\ None \notin Queue
BY BoundsAssumption

LEMMA KeysFinite ==
  ASSUME NEW S, S \subseteq Keys
  PROVE  IsFiniteSet(S) /\ Cardinality(S) \in Nat
<1>1. IsFiniteSet(Keys)
  BY BoundsAssumption, FS_Interval DEF Keys
<1>2. IsFiniteSet(S)
  BY <1>1, FS_Subset
<1> QED BY <1>2, FS_CardinalityType

\* A set of keys that is not empty has a first key.
LEMMA FirstIsLeast ==
  ASSUME NEW S, S \subseteq Keys, S # {}
  PROVE  First(S) \in S /\ \A j \in S : First(S) <= j
<1>1. S \subseteq Nat
  BY BoundsAssumption DEF Keys
<1>2. PICK x \in S : \A y \in S : ~ (<<y, x>> \in OpToRel(<, Nat))
  BY <1>1, NatLessThanWellFounded, WFMin
<1>3. \A y \in S : x <= y
  <2>1. TAKE y \in S
  <2>2. <<y, x>> \in Nat \X Nat /\ ~ (y < x)
    BY <1>1, <1>2, <2>1 DEF OpToRel
  <2> QED BY <1>1, <2>2
<1> QED BY <1>3 DEF First

-----------------------------------------------------------------------------
(* What the operations on the queue keep *)

\* r has the items of q, perhaps with another status.
SameItems(q, r) ==
  \A k \in Keys : (q[k] = None <=> r[k] = None) /\ (q[k] # None => r[k].text = q[k].text)

LEMMA MarkedOK ==
  ASSUME NEW q \in Queue, NEW ks, NEW status \in Statuses
  PROVE  Marked(q, ks, status) \in Queue /\ SameItems(q, Marked(q, ks, status))
BY NoneIsOther DEF Marked, Queue, Item, SameItems

LEMMA AttemptedOK ==
  ASSUME NEW q \in Queue, NEW key, NEW status \in Statuses
  PROVE  Attempted(q, key, status) \in Queue /\ SameItems(q, Attempted(q, key, status))
BY NoneIsOther DEF Attempted, Queue, Item, SameItems

LEMMA RecoveredOK ==
  ASSUME NEW q \in Queue
  PROVE  Recovered(q) \in Queue /\ SameItems(q, Recovered(q))
BY MarkedOK DEF Recovered, Statuses

LEMMA StoredOK ==
  ASSUME NEW q \in Queue
  PROVE  Stored(q) \in Queue /\ SameItems(q, Stored(q))
BY NoneIsOther DEF Stored, Queue, Item, SameItems

LEMMA WithoutOK ==
  ASSUME NEW q \in Queue, NEW ks
  PROVE  /\ Without(q, ks) \in Queue
         /\ \A k \in Keys : Without(q, ks)[k] = IF k \in ks THEN None ELSE q[k]
BY DEF Without, Queue

LEMMA SameTexts ==
  ASSUME NEW q, NEW r, NEW b, SameItems(q, r), Texted(q, b)
  PROVE  Texted(r, b)
BY DEF SameItems, Texted

LEMMA SameFits ==
  ASSUME NEW q, NEW r, SameItems(q, r), Fits(q)
  PROVE  Fits(r)
<1>1. Present(r) = Present(q)
  BY DEF SameItems, Present
<1> QED BY <1>1 DEF Fits

\* trimQueueToBudget keeps at most MaxItems items and changes none.
LEMMA TrimmedOK ==
  ASSUME NEW q \in Queue
  PROVE  /\ Trimmed(q) \in Queue
         /\ \A k \in Keys : Trimmed(q)[k] # None => Trimmed(q)[k] = q[k]
         /\ Fits(Trimmed(q))
<1> DEFINE P == Present(q)
           T == Present(Trimmed(q))
           Above(k) == {j \in P : j > k}
<1>1. Trimmed(q) \in Queue /\ \A k \in Keys : Trimmed(q)[k] # None => Trimmed(q)[k] = q[k]
  BY DEF Trimmed, Queue
<1>2. T \subseteq P /\ \A k \in T : Cardinality(Above(k)) < MaxItems
  BY DEF Trimmed, Present
<1>3. P \subseteq Keys /\ T \subseteq Keys
  BY DEF Present
<1>4. CASE T = {}
  BY <1>1, <1>4, FS_EmptySet, BoundsAssumption DEF Fits
<1>5. CASE T # {}
  <2> DEFINE m == First(T)
  <2>1. m \in T /\ \A j \in T : m <= j
    BY <1>3, <1>5, FirstIsLeast
  <2>2. T \subseteq Above(m) \cup {m}
    BY <1>2, <1>3, <2>1, BoundsAssumption DEF Keys
  <2> HIDE DEF T, m
  <2>3. IsFiniteSet(Above(m)) /\ Cardinality(Above(m)) \in Nat
    BY <1>3, KeysFinite
  <2>4. m \notin Above(m)
    BY <1>3, <2>1, BoundsAssumption DEF Keys
  <2> HIDE DEF Above
  <2>5. IsFiniteSet(Above(m) \cup {m}) /\ Cardinality(Above(m) \cup {m}) = Cardinality(Above(m)) + 1
    BY <2>3, <2>4, FS_AddElement
  <2>6. Cardinality(T) <= Cardinality(Above(m) \cup {m})
    BY <2>2, <2>5, FS_Subset
  <2>7. Cardinality(T) \in Nat
    BY <1>3, KeysFinite
  <2>8. Cardinality(Above(m)) < MaxItems
    BY <1>2, <2>1
  <2>9. Cardinality(T) <= MaxItems
    BY <2>3, <2>5, <2>6, <2>7, <2>8, BoundsAssumption
  <2> QED BY <1>1, <2>9 DEF T, Fits
<1> QED BY <1>4, <1>5

-----------------------------------------------------------------------------
(* A write of the queue *)

LEMMA WriteOK ==
  ASSUME NEW q \in Queue, NEW gone \in SUBSET Keys, NEW b,
         Texted(q, b), Texted(indexed, b), Fits(indexed),
         indexed \in Queue, discarded \subseteq Keys, WriteQueue(q, gone)
  PROVE  /\ queue' \in Queue /\ indexed' \in Queue /\ discarded' \subseteq Keys
         /\ Fits(queue') /\ Fits(indexed')
         /\ Texted(queue', b) /\ Texted(indexed', b)
         /\ discarded \cup gone \subseteq discarded'
         /\ \A k \in Keys : q[k] # None => queue'[k] # None \/ k \in discarded'
<1>1. /\ Trimmed(q) \in Queue /\ Fits(Trimmed(q))
      /\ \A k \in Keys : Trimmed(q)[k] # None => Trimmed(q)[k] = q[k]
  BY TrimmedOK
<1>2. queue' = Trimmed(q) /\ (indexed' = indexed \/ indexed' = Stored(Trimmed(q)))
      /\ discarded' = discarded \cup gone \cup (Present(q) \ Present(Trimmed(q)))
  BY DEF WriteQueue
<1>3. Texted(Trimmed(q), b)
  BY <1>1 DEF Texted
<1>4. Stored(Trimmed(q)) \in Queue /\ Texted(Stored(Trimmed(q)), b) /\ Fits(Stored(Trimmed(q)))
  BY <1>1, <1>3, StoredOK, SameTexts, SameFits
<1>5. discarded' \subseteq Keys /\ discarded \cup gone \subseteq discarded'
  BY <1>2 DEF Present
<1>6. \A k \in Keys : q[k] # None => queue'[k] # None \/ k \in discarded'
  BY <1>2 DEF Present
<1> HIDE DEF WriteQueue
<1> QED BY <1>1, <1>2, <1>3, <1>4, <1>5, <1>6

\* Writing a queue that has all items of the present one except those on the
\* server and those in gone.
LEMMA WriteKeeps ==
  ASSUME IInv, NEW q \in Queue, NEW gone \in SUBSET Keys, WriteQueue(q, gone),
         Texted(q, born),
         \A k \in Keys : queue[k] # None => q[k] # None \/ Written(k) \/ k \in gone,
         UNCHANGED <<born, reading, rows, forgotten>>
  PROVE  QueueInv' /\ KeptInv'
<1>1. /\ queue' \in Queue /\ indexed' \in Queue /\ discarded' \subseteq Keys
      /\ Fits(queue') /\ Fits(indexed')
      /\ Texted(queue', born) /\ Texted(indexed', born)
      /\ discarded \cup gone \subseteq discarded'
      /\ \A k \in Keys : q[k] # None => queue'[k] # None \/ k \in discarded'
  BY WriteOK DEF IInv, QueueInv
<1>2. QueueInv'
  BY <1>1 DEF IInv, QueueInv, Present, Texted, Fits
<1>3. \A k \in Keys : Written(k)' <=> Written(k)
  BY DEF Written
<1>4. KeptInv'
  BY <1>1, <1>3 DEF IInv, KeptInv
<1> QED BY <1>2, <1>4

LEMMA WriteSameKeeps ==
  ASSUME IInv, NEW q \in Queue, WriteQueue(q, {}), SameItems(queue, q),
         UNCHANGED <<born, reading, rows, forgotten>>
  PROVE  QueueInv' /\ KeptInv'
<1>1. Texted(q, born)
  BY SameTexts DEF IInv, QueueInv
<1>2. \A k \in Keys : queue[k] # None => q[k] # None
  BY DEF SameItems
<1> QED BY <1>1, <1>2, WriteKeeps

LEMMA SameTrans ==
  ASSUME NEW p, NEW q, NEW r, SameItems(p, q), SameItems(q, r)
  PROVE  SameItems(p, r)
BY DEF SameItems

LEMMA SameRefl == ASSUME NEW p PROVE SameItems(p, p)
BY DEF SameItems

-----------------------------------------------------------------------------
(* The runs of a flush *)

LEMMA SendNextKeeps ==
  ASSUME IInv, NEW f \in Flushes, NEW run \in Run, NEW s \in Sessions, NEW q \in Queue,
         run.todo # {}, \A k \in run.synced : Written(k),
         SameItems(queue, q), SendNext(f, run, s, q),
         UNCHANGED <<born, reading, rows, forgotten>>
  PROVE  QueueInv' /\ KeptInv' /\ FlushInv'
<1> DEFINE k == First(run.todo)
           sent == [flush |-> f, session |-> s, key |-> k]
           next == [run EXCEPT !.phase = "sending", !.session = s]
<1>1. k \in Keys /\ k \in run.todo
  BY FirstIsLeast DEF Run
<1>2. /\ WriteQueue(Attempted(q, k, "syncing"), {})
      /\ flush' = [flush EXCEPT ![f] = next]
      /\ replays' = replays \cup {sent}
  BY DEF SendNext
<1>3. Attempted(q, k, "syncing") \in Queue /\ SameItems(queue, Attempted(q, k, "syncing"))
  BY AttemptedOK, SameTrans DEF Statuses
<1>4. QueueInv' /\ KeptInv'
  BY <1>2, <1>3, WriteSameKeeps
<1>5. next \in Run /\ next.todo = run.todo /\ next.synced = run.synced
      /\ next.session = s /\ next.phase = "sending"
  BY DEF Run
<1>6. flush' \in [Flushes -> Run] /\ replays' \subseteq Replay
  BY <1>1, <1>2, <1>5 DEF IInv, FlushInv, Replay
<1>7. ASSUME NEW g \in Flushes PROVE FlushOK(g)'
  <2>1. CASE g = f
    BY <1>1, <1>2, <1>5, <2>1 DEF IInv, FlushInv, FlushOK, Written
  <2>2. CASE g # f
    <3>1. flush'[g] = flush[g] /\ replays \subseteq replays'
      BY <1>2, <2>2 DEF IInv, FlushInv
    <3> QED BY <3>1 DEF IInv, FlushInv, FlushOK, Written
  <2> QED BY <2>1, <2>2
<1> QED BY <1>4, <1>6, <1>7 DEF IInv, FlushInv

LEMMA IdleOK ==
  ASSUME IInv, NEW f \in Flushes, flush' = [flush EXCEPT ![f] = IdleRun],
         UNCHANGED <<replays, rows>>
  PROVE  FlushInv'
<1>1. IdleRun \in Run /\ IdleRun.phase = "idle" /\ IdleRun.synced = {}
  BY DEF IdleRun, Run
<1>2. ASSUME NEW g \in Flushes PROVE FlushOK(g)'
  <2>1. flush'[g] = IdleRun \/ flush'[g] = flush[g]
    BY DEF IInv, FlushInv
  <2> QED BY <1>1, <2>1 DEF IInv, FlushInv, FlushOK, Written
<1> QED BY <1>1, <1>2 DEF IInv, FlushInv

LEMMA FinishKeeps ==
  ASSUME IInv, NEW f \in Flushes, NEW q \in Queue, NEW synced \in SUBSET Keys,
         SameItems(queue, q), \A k \in synced : Written(k), Finish(f, synced, q),
         UNCHANGED <<born, reading, rows, forgotten>>
  PROVE  QueueInv' /\ KeptInv' /\ FlushInv'
         /\ boot' \in {"flush", "flushing", "history", "fallback", "done"}
<1>1. WriteQueue(Without(q, synced), {}) /\ flush' = [flush EXCEPT ![f] = IdleRun]
      /\ boot' = (IF flush[f].boot THEN "history" ELSE boot) /\ replays' = replays
  BY DEF Finish
<1>2. Without(q, synced) \in Queue
      /\ \A k \in Keys : Without(q, synced)[k] = IF k \in synced THEN None ELSE q[k]
  BY WithoutOK
<1>3. Texted(q, born)
  BY SameTexts DEF IInv, QueueInv
<1>4. Texted(Without(q, synced), born)
  BY <1>2, <1>3 DEF Texted
<1>5. \A k \in Keys : queue[k] # None => Without(q, synced)[k] # None \/ Written(k)
  BY <1>2 DEF SameItems
<1>6. QueueInv' /\ KeptInv'
  BY <1>1, <1>2, <1>4, <1>5, WriteKeeps
<1>7. FlushInv'
  BY <1>1, IdleOK
<1>8. boot' \in {"flush", "flushing", "history", "fallback", "done"}
  BY <1>1 DEF IInv, PageInv
<1> QED BY <1>6, <1>7, <1>8

LEMMA ReadyKeys ==
  ASSUME NEW q PROVE Ready(q) \subseteq Keys
BY DEF Ready, Having, Present

LEMMA BeginKeeps ==
  ASSUME IInv, NEW f \in Flushes, NEW q \in Queue, NEW isBoot \in BOOLEAN,
         SameItems(queue, q), Begin(f, q, isBoot),
         UNCHANGED <<born, reading, rows, forgotten>>
  PROVE  QueueInv' /\ KeptInv' /\ FlushInv'
         /\ boot' \in {"flush", "flushing", "history", "fallback", "done"}
<1> DEFINE recovered == Recovered(q)
           todo == Ready(recovered)
           run == [IdleRun EXCEPT !.phase = "opening", !.boot = isBoot, !.todo = todo]
<1>1. recovered \in Queue /\ SameItems(queue, recovered)
  BY RecoveredOK, SameTrans
<1>2. run \in Run /\ run.todo = todo /\ run.synced = {} /\ run.phase = "opening"
  BY ReadyKeys DEF IdleRun, Run
<1>3. boot' \in {"flush", "flushing", "history", "fallback", "done"}
  BY DEF Begin, IInv, PageInv
<1>4. CASE todo = {} /\ WriteQueue(recovered, {}) /\ UNCHANGED <<flush, replays>>
  <2>1. QueueInv' /\ KeptInv'
    BY <1>1, <1>4, WriteSameKeeps
  <2>2. FlushInv'
    BY <1>4 DEF IInv, FlushInv, FlushOK, Written
  <2> QED BY <1>3, <2>1, <2>2
<1>5. CASE todo # {} /\ session # None /\ SendNext(f, run, session, recovered)
  <2>1. session \in Sessions
    BY <1>5 DEF IInv, PageInv
  <2>2. QueueInv' /\ KeptInv' /\ FlushInv'
    BY <1>1, <1>2, <1>5, <2>1, SendNextKeeps
  <2> QED BY <1>3, <2>2
<1>6. CASE /\ todo # {} /\ WriteQueue(recovered, {})
           /\ flush' = [flush EXCEPT ![f] = run] /\ UNCHANGED replays
  <2>1. QueueInv' /\ KeptInv'
    BY <1>1, <1>6, WriteSameKeeps
  <2>2. ASSUME NEW g \in Flushes PROVE FlushOK(g)'
    <3>1. flush'[g] = run \/ flush'[g] = flush[g]
      BY <1>6 DEF IInv, FlushInv
    <3> QED BY <1>2, <1>6, <3>1 DEF IInv, FlushInv, FlushOK, Written
  <2>3. FlushInv'
    BY <1>2, <1>6, <2>2 DEF IInv, FlushInv
  <2> QED BY <1>3, <2>1, <2>3
<1> QED BY <1>4, <1>5, <1>6 DEF Begin

-----------------------------------------------------------------------------
(* Sessions and messages *)

LEMMA CreateOK ==
  ASSUME IInv, CreateSession
  PROVE  session' \in Sessions /\ sessionFailed' \in BOOLEAN /\ made' \subseteq Sessions
BY DEF IInv, PageInv, CreateSession

LEMMA EnsureOK ==
  ASSUME IInv, EnsureSession
  PROVE  session' \in Sessions /\ sessionFailed' \in BOOLEAN /\ made' \subseteq Sessions
BY CreateOK DEF IInv, PageInv, EnsureSession

LEMMA NoSessionOK ==
  ASSUME IInv, NoSession
  PROVE  session' = session /\ sessionFailed' \in BOOLEAN /\ made' = made
BY DEF IInv, PageInv, NoSession

\* Parts of the invariant no step of the page's other parts disturbs.
LEMMA QueueUntouched ==
  ASSUME IInv, UNCHANGED <<queue, indexed, discarded, reading, born>>
  PROVE  QueueInv'
BY DEF IInv, QueueInv, Texted, Present, Fits

LEMMA KeptUntouched ==
  ASSUME IInv, UNCHANGED <<queue, discarded, forgotten, born, rows>>
  PROVE  KeptInv'
BY DEF IInv, KeptInv, Written

LEMMA FlushUntouched ==
  ASSUME IInv, UNCHANGED <<flush, replays, rows>>
  PROVE  FlushInv'
BY DEF IInv, FlushInv, FlushOK, Written

LEMMA DirectUntouched ==
  ASSUME IInv, UNCHANGED <<direct, saves, copies, born>>
  PROVE  DirectInv'
BY DEF IInv, DirectInv, DirectOK

LEMMA SendsKeeps ==
  ASSUME IInv, NEW s \in Submissions, NEW try \in {"first", "second"}, Sends(s, try),
         UNCHANGED <<copies, born>>
  PROVE  DirectInv'
<1>1. direct' = [direct EXCEPT ![s] = try] /\ saves' = saves \cup {[of |-> s, try |-> try]}
  BY DEF Sends
<1>2. direct' \in [Submissions -> Steps] /\ saves' \subseteq Save
  BY <1>1 DEF IInv, DirectInv, Steps, Save
<1>3. ASSUME NEW t \in Submissions PROVE DirectOK(t)'
  BY <1>1 DEF IInv, DirectInv, DirectOK
<1> QED BY <1>2, <1>3 DEF IInv, DirectInv

\* A message leaves the direct path, or takes the next step of it.
LEMMA StepKeeps ==
  ASSUME IInv, NEW s \in Submissions, NEW step \in Steps \ {"first", "second"},
         direct' = [direct EXCEPT ![s] = step], UNCHANGED <<saves, copies, born>>,
         step = "saved" => copies[s] > 0,
         step = "queued" => \E k \in Keys : born[k] = TextOf[s]
  PROVE  DirectInv'
<1>1. direct' \in [Submissions -> Steps]
  BY DEF IInv, DirectInv
<1>2. ASSUME NEW t \in Submissions PROVE DirectOK(t)'
  BY DEF IInv, DirectInv, DirectOK
<1> QED BY <1>1, <1>2 DEF IInv, DirectInv

LEMMA NewItemOK ==
  ASSUME NEW t \in Texts
  PROVE  NewItem(t) \in Item /\ NewItem(t).text = t /\ NewItem(t) # None
<1>1. NewItem(t) \in Item
  BY DEF NewItem, Item, Statuses
<1>2. NewItem(t).text = t
  BY DEF NewItem
<1> QED BY <1>1, <1>2, NoneIsOther

\* enqueueOfflineMessage
LEMMA EnqueueKeeps ==
  ASSUME IInv, NEW s \in Submissions, Enqueue(s),
         UNCHANGED <<saves, copies, reading, rows, forgotten>>
  PROVE  QueueInv' /\ KeptInv' /\ DirectInv'
<1> DEFINE t == TextOf[s]
           same == {k \in Present(queue) : queue[k].text = t}
<1>1. t \in Texts /\ t # None
  BY MessagesAssumption, NoneIsOther
<1>2. direct' = [direct EXCEPT ![s] = "queued"]
  BY DEF Enqueue
<1>3. CASE /\ same # {} /\ WriteQueue(Marked(queue, same, "pending"), {}) /\ born' = born
  <2>1. Marked(queue, same, "pending") \in Queue
        /\ SameItems(queue, Marked(queue, same, "pending"))
    BY MarkedOK DEF IInv, QueueInv, Statuses
  <2>2. QueueInv' /\ KeptInv'
    BY <1>3, <2>1, WriteSameKeeps
  <2>3. \E k \in Keys : born[k] = TextOf[s]
    BY <1>3 DEF IInv, QueueInv, Texted, Present
  <2>4. DirectInv'
    BY <1>2, <1>3, <2>3, StepKeeps DEF Steps
  <2> QED BY <2>2, <2>4
<1>4. ASSUME NEW key \in Keys, born[key] = None,
             WriteQueue([queue EXCEPT ![key] = NewItem(t)], {}),
             born' = [born EXCEPT ![key] = t]
      PROVE  QueueInv' /\ KeptInv' /\ DirectInv'
  <2> DEFINE q == [queue EXCEPT ![key] = NewItem(t)]
  <2>1. NewItem(t) \in Item /\ NewItem(t).text = t /\ NewItem(t) # None
    BY <1>1, NewItemOK
  <2>2. q \in Queue
    BY <2>1 DEF IInv, QueueInv, Queue
  <2>3. born' \in [Keys -> Texts \cup {None}] /\ \A k \in Keys : born[k] # None => born'[k] = born[k]
    BY <1>1, <1>4 DEF IInv, QueueInv
  <2>4. \A p \in Queue : Texted(p, born) => Texted(p, born')
    <3>1. ASSUME NEW p \in Queue, Texted(p, born), NEW k \in Keys, p[k] # None
          PROVE  born'[k] = p[k].text
      <4>1. born[k] = p[k].text /\ p[k].text \in Texts
        BY <3>1 DEF Texted, Queue, Item
      <4> QED BY <2>3, <4>1, NoneIsOther
    <3> QED BY <3>1 DEF Texted
  <2>5. Texted(queue, born') /\ Texted(indexed, born') /\ (reading # None => Texted(reading, born'))
    BY <2>4 DEF IInv, QueueInv
  <2>6. Texted(q, born')
    BY <1>4, <2>1, <2>5 DEF Texted, IInv, QueueInv, Queue
  <2>7. /\ queue' \in Queue /\ indexed' \in Queue /\ discarded' \subseteq Keys
        /\ Fits(queue') /\ Fits(indexed')
        /\ Texted(queue', born') /\ Texted(indexed', born')
        /\ discarded \subseteq discarded'
        /\ \A k \in Keys : q[k] # None => queue'[k] # None \/ k \in discarded'
    BY <1>4, <2>2, <2>5, <2>6, WriteOK DEF IInv, QueueInv
  <2>8. QueueInv'
    BY <2>3, <2>5, <2>7 DEF IInv, QueueInv, Present, Texted, Fits
  <2>9. \A k \in Keys : Written(k)' <=> Written(k)
    BY DEF Written
  <2>10. KeptInv'
    <3>1. ASSUME NEW k \in Keys, born'[k] # None
          PROVE  queue'[k] # None \/ Written(k)' \/ k \in (discarded \cup forgotten)'
      <4>1. CASE k = key
        BY <2>1, <2>7, <4>1 DEF IInv, QueueInv, Queue
      <4>2. CASE k # key
        <5>1. born[k] # None /\ q[k] = queue[k]
          BY <1>4, <3>1, <4>2 DEF IInv, QueueInv, Queue
        <5> QED BY <2>7, <2>9, <5>1 DEF IInv, KeptInv
      <4> QED BY <4>1, <4>2
    <3> QED BY <3>1 DEF KeptInv
  <2>11. DirectInv'
    <3>1. born'[key] = TextOf[s]
      BY <1>4 DEF IInv, QueueInv
    <3>2. direct' \in [Submissions -> Steps]
      BY <1>2 DEF IInv, DirectInv, Steps
    <3>3. ASSUME NEW u \in Submissions PROVE DirectOK(u)'
      <4>1. \A k \in Keys : born[k] = TextOf[u] => born'[k] = TextOf[u]
        BY <2>3, MessagesAssumption, NoneIsOther
      <4>2. CASE u = s
        BY <1>2, <3>1, <4>2 DEF IInv, DirectInv, DirectOK
      <4>3. CASE u # s
        BY <1>2, <4>1, <4>3 DEF IInv, DirectInv, DirectOK
      <4> QED BY <4>2, <4>3
    <3> QED BY <3>2, <3>3 DEF IInv, DirectInv
  <2> QED BY <2>8, <2>10, <2>11
<1> QED BY <1>3, <1>4 DEF Enqueue

-----------------------------------------------------------------------------
(* The invariant holds at first and every step keeps it *)

LEMMA LeftoverOK ==
  ASSUME NEW t \in Texts \cup {None}
  PROVE  /\ Leftover(t) \in Queue
         /\ Texted(Leftover(t), [k \in Keys |-> IF k = 1 THEN t ELSE None])
         /\ \A k \in Keys : Leftover(t)[k] = None => k # 1 \/ t = None
         /\ Fits(Leftover(t))
<1>1. t # None => NewItem(t) \in Item /\ NewItem(t).text = t /\ NewItem(t) # None
  <2>1. t # None => t \in Texts
    OBVIOUS
  <2>2. NewItem(t).status \in Statuses
    BY DEF NewItem, Statuses
  <2>3. t # None => NewItem(t) \in Item
    BY <2>1, <2>2 DEF NewItem, Item
  <2> QED BY <2>3, NoneIsOther DEF NewItem
<1>2. Leftover(t) \in Queue
  BY <1>1 DEF Leftover, Queue
<1>3. Texted(Leftover(t), [k \in Keys |-> IF k = 1 THEN t ELSE None])
  BY <1>1 DEF Leftover, Texted
<1>4. \A k \in Keys : Leftover(t)[k] = None => k # 1 \/ t = None
  BY <1>1 DEF Leftover
<1>5. Fits(Leftover(t))
  <2>1. Present(Leftover(t)) \subseteq {1}
    BY DEF Leftover, Present
  <2>2. IsFiniteSet({1}) /\ Cardinality({1}) = 1
    BY FS_Singleton
  <2>3. Cardinality(Present(Leftover(t))) \in Nat /\ Cardinality(Present(Leftover(t))) <= 1
    BY <2>1, <2>2, FS_Subset, FS_CardinalityType
  <2> QED BY <2>3, BoundsAssumption DEF Fits
<1> QED BY <1>2, <1>3, <1>4, <1>5

LEMMA InitOK ==
  ASSUME Init PROVE IInv
<1>1. PICK t \in Left :
         /\ queue = Leftover(t) /\ indexed = Leftover(t) /\ reading = Leftover(t)
         /\ born = [k \in Keys |-> IF k = 1 THEN t ELSE None]
  BY DEF Init
<1>2. QueueInv
  <2>1. t \in Texts \cup {None}
    BY MessagesAssumption
  <2>2. born \in [Keys -> Texts \cup {None}]
    BY <1>1, <2>1
  <2>3. discarded \subseteq Keys
    BY DEF Init
  <2> QED BY <1>1, <2>1, <2>2, <2>3, LeftoverOK DEF QueueInv
<1>3. FlushInv
  <2>1. IdleRun \in Run /\ IdleRun.phase = "idle" /\ IdleRun.synced = {}
    BY DEF IdleRun, Run
  <2> QED BY <2>1 DEF Init, FlushInv, FlushOK
<1>4. DirectInv
  BY DEF Init, DirectInv, DirectOK, Steps
<1>5. PageInv
  <2>1. session \in Sessions \cup {None} /\ made \subseteq Sessions
    BY MessagesAssumption DEF Init
  <2>2. reloads \in 0 .. MaxReloads
    BY BoundsAssumption DEF Init
  <2>3. /\ sessionFailed \in BOOLEAN /\ online \in BOOLEAN /\ forgotten \subseteq Keys
        /\ boot = "flush"
    BY BoundsAssumption DEF Init
  <2> QED BY <2>1, <2>2, <2>3 DEF PageInv
<1>6. KeptInv
  BY <1>1, LeftoverOK, MessagesAssumption DEF KeptInv
<1> QED BY <1>2, <1>3, <1>4, <1>5, <1>6 DEF IInv

\* What persistMessageToCore does
LEMMA PersistingKeeps ==
  ASSUME IInv, NEW s \in Submissions, Persisting(s)
  PROVE  IInv'
<1>1. CASE Submit(s)
  <2>1. QueueInv' /\ KeptInv' /\ FlushInv'
    BY <1>1, QueueUntouched, KeptUntouched, FlushUntouched DEF Submit, storage, server
  <2>2. DirectInv'
    <3>1. CASE Sends(s, "first")
      BY <1>1, <3>1, SendsKeeps DEF Submit, server
    <3>2. CASE direct' = [direct EXCEPT ![s] = "fallback"] /\ UNCHANGED saves
      BY <1>1, <3>2, StepKeeps DEF Submit, server, Steps
    <3> QED BY <1>1, <3>1, <3>2 DEF Submit
  <2>3. PageInv'
    BY <1>1, EnsureOK, NoSessionOK DEF Submit, IInv, PageInv
  <2> QED BY <2>1, <2>2, <2>3 DEF IInv
<1>2. CASE DirectSaved(s)
  <2>1. QueueInv' /\ KeptInv' /\ FlushInv'
    BY <1>2, QueueUntouched, KeptUntouched, FlushUntouched DEF DirectSaved, storage, server
  <2>2. copies[s] > 0
    BY <1>2 DEF DirectSaved, IInv, DirectInv, DirectOK
  <2>3. DirectInv'
    BY <1>2, <2>2, StepKeeps DEF DirectSaved, server, Steps
  <2>4. PageInv'
    BY <1>2 DEF DirectSaved, IInv, PageInv
  <2> QED BY <2>1, <2>3, <2>4 DEF IInv
<1>3. CASE FirstFails(s)
  <2>1. QueueInv' /\ KeptInv' /\ FlushInv'
    BY <1>3, QueueUntouched, KeptUntouched, FlushUntouched DEF FirstFails, storage, server
  <2>2. DirectInv'
    BY <1>3, StepKeeps DEF FirstFails, server, Steps
  <2>3. PageInv'
    BY <1>3 DEF FirstFails, IInv, PageInv
  <2> QED BY <2>1, <2>2, <2>3 DEF IInv
<1>4. CASE SecondFails(s)
  <2>1. QueueInv' /\ KeptInv' /\ DirectInv'
    BY <1>4, EnqueueKeeps DEF SecondFails, server
  <2>2. FlushInv'
    BY <1>4, FlushUntouched DEF SecondFails, server
  <2>3. PageInv'
    BY <1>4 DEF SecondFails, IInv, PageInv
  <2> QED BY <2>1, <2>2, <2>3 DEF IInv
<1>5. CASE Fallback(s)
  <2>1. FlushInv'
    BY <1>5, FlushUntouched DEF Fallback, server
  <2>2. CASE CreateSession /\ Sends(s, "second") /\ UNCHANGED <<storage, born>>
    <3>1. QueueInv' /\ KeptInv'
      BY <1>5, <2>2, QueueUntouched, KeptUntouched DEF Fallback, storage, server
    <3>2. DirectInv'
      BY <1>5, <2>2, SendsKeeps DEF Fallback, server
    <3>3. PageInv'
      BY <1>5, <2>2, CreateOK DEF Fallback, IInv, PageInv
    <3> QED BY <2>1, <3>1, <3>2, <3>3 DEF IInv
  <2>3. CASE Enqueue(s) /\ UNCHANGED <<session, sessionFailed, made, saves>>
    <3>1. QueueInv' /\ KeptInv' /\ DirectInv'
      BY <1>5, <2>3, EnqueueKeeps DEF Fallback, server
    <3>2. PageInv'
      BY <1>5, <2>3 DEF Fallback, IInv, PageInv
    <3> QED BY <2>1, <3>1, <3>2 DEF IInv
  <2> QED BY <1>5, <2>2, <2>3 DEF Fallback
<1> QED BY <1>1, <1>2, <1>3, <1>4, <1>5 DEF Persisting

\* A flush in progress
LEMMA RunningKeeps ==
  ASSUME IInv, NEW f \in Flushes, Opened(f) \/ Replayed(f) \/ ReplayFails(f)
  PROVE  IInv'
<1>1. queue \in Queue /\ SameItems(queue, queue) /\ flush[f] \in Run /\ FlushOK(f)
  BY SameRefl DEF IInv, QueueInv, FlushInv
<1>2. DirectInv'
  BY DirectUntouched DEF Opened, Replayed, ReplayFails, server
<1>3. CASE Opened(f)
  <2>1. CASE EnsureSession /\ SendNext(f, flush[f], session', queue) /\ boot' = boot
    <3>1. session' \in Sessions /\ sessionFailed' \in BOOLEAN /\ made' \subseteq Sessions
      BY <2>1, EnsureOK
    <3>2. flush[f].todo # {} /\ \A k \in flush[f].synced : Written(k)
      BY <1>1, <1>3 DEF Opened, FlushOK
    <3>3. QueueInv' /\ KeptInv' /\ FlushInv'
      BY <1>1, <1>3, <2>1, <3>1, <3>2, SendNextKeeps DEF Opened, server
    <3>4. PageInv'
      BY <1>3, <2>1, <3>1 DEF Opened, IInv, PageInv
    <3> QED BY <1>2, <3>3, <3>4 DEF IInv
  <2>2. CASE /\ NoSession /\ flush' = [flush EXCEPT ![f] = IdleRun]
             /\ boot' = (IF flush[f].boot THEN "fallback" ELSE boot)
             /\ UNCHANGED <<storage, replays>>
    <3>1. QueueInv' /\ KeptInv'
      BY <1>3, <2>2, QueueUntouched, KeptUntouched DEF Opened, storage, server
    <3>2. FlushInv'
      BY <1>3, <2>2, IdleOK DEF Opened, server
    <3>3. PageInv'
      BY <1>3, <2>2, NoSessionOK DEF Opened, IInv, PageInv
    <3> QED BY <1>2, <3>1, <3>2, <3>3 DEF IInv
  <2> QED BY <1>3, <2>1, <2>2 DEF Opened
<1>4. CASE Replayed(f)
  <2> DEFINE k == First(flush[f].todo)
             rest == [flush[f] EXCEPT !.todo = @ \ {k}, !.synced = @ \cup {k}]
  <2>1. flush[f].session \in Sessions /\ k \in Keys /\ Written(k)
    <3>1. flush[f].todo # {} /\ flush[f].todo \subseteq Keys
      BY <1>1, <1>4 DEF Replayed, FlushOK, Run
    <3> QED BY <1>1, <1>4, <3>1, FirstIsLeast DEF Replayed, FlushOK, Written
  <2>2. rest \in Run /\ rest.session = flush[f].session /\ rest.synced = flush[f].synced \cup {k}
    BY <1>1, <2>1 DEF Run
  <2>3. \A j \in rest.synced : Written(j)
    BY <1>1, <2>1, <2>2 DEF FlushOK
  <2>4. rest.synced \in SUBSET Keys
    BY <2>2 DEF Run
  <2>5. QueueInv' /\ KeptInv' /\ FlushInv'
        /\ boot' \in {"flush", "flushing", "history", "fallback", "done"}
    <3>1. CASE rest.todo # {} /\ SendNext(f, rest, rest.session, queue) /\ boot' = boot
      <4>1. QueueInv' /\ KeptInv' /\ FlushInv'
        BY <1>1, <1>4, <2>1, <2>2, <2>3, <3>1, SendNextKeeps DEF Replayed, server
      <4> QED BY <3>1, <4>1 DEF IInv, PageInv
    <3>2. CASE Finish(f, rest.synced, queue)
      BY <1>1, <1>4, <2>3, <2>4, <3>2, FinishKeeps DEF Replayed, server
    <3> QED BY <1>4, <3>1, <3>2 DEF Replayed
  <2>6. PageInv'
    BY <1>4, <2>5 DEF Replayed, IInv, PageInv
  <2> QED BY <1>2, <2>5, <2>6 DEF IInv
<1>5. CASE ReplayFails(f)
  <2> DEFINE q == Attempted(queue, First(flush[f].todo), "failed")
  <2>1. q \in Queue /\ SameItems(queue, q)
    BY <1>1, AttemptedOK DEF Statuses
  <2>2. Acknowledged(f) \in SUBSET Keys /\ \A k \in Acknowledged(f) : Written(k)
    BY <1>1 DEF Acknowledged, FlushOK, Run
  <2>3. QueueInv' /\ KeptInv' /\ FlushInv'
        /\ boot' \in {"flush", "flushing", "history", "fallback", "done"}
    BY <1>5, <2>1, <2>2, FinishKeeps DEF ReplayFails, server
  <2>4. PageInv'
    BY <1>5, <2>3 DEF ReplayFails, IInv, PageInv
  <2> QED BY <1>2, <2>3, <2>4 DEF IInv
<1> QED BY <1>3, <1>4, <1>5

\* What starts a flush
LEMMA StartingKeeps ==
  ASSUME IInv, NEW f \in Flushes,
         AutoSync(f) \/ ForceSync(f) \/ BootFlush(f) \/ \E k \in Keys : RetryOne(f, k)
  PROVE  IInv'
<1> DEFINE Kept == /\ QueueInv' /\ KeptInv' /\ FlushInv'
                   /\ boot' \in {"flush", "flushing", "history", "fallback", "done"}
<1>1. queue \in Queue /\ SameItems(queue, queue)
  BY SameRefl DEF IInv, QueueInv
<1>2. CASE AutoSync(f)
  <2>1. Kept
    BY <1>1, <1>2, BeginKeeps DEF AutoSync, server
  <2>2. DirectInv' /\ PageInv'
    BY <1>2, <2>1, DirectUntouched DEF AutoSync, server, IInv, PageInv
  <2> QED BY <2>1, <2>2 DEF IInv
<1>3. CASE ForceSync(f)
  <2> DEFINE q == Marked(queue, Having(queue, "failed"), "pending")
  <2>1. q \in Queue /\ SameItems(queue, q)
    BY <1>1, MarkedOK DEF Statuses
  <2>2. Begin(f, q, FALSE) /\ UNCHANGED <<born, reading, rows, forgotten>>
    BY <1>3 DEF ForceSync, server
  <2>3. Kept
    BY <2>1, <2>2, BeginKeeps
  <2>4. DirectInv' /\ PageInv'
    BY <1>3, <2>3, DirectUntouched DEF ForceSync, server, IInv, PageInv
  <2> QED BY <2>3, <2>4 DEF IInv
<1>4. CASE BootFlush(f)
  <2>1. Kept
    BY <1>1, <1>4, BeginKeeps DEF BootFlush, server
  <2>2. DirectInv' /\ PageInv'
    BY <1>4, <2>1, DirectUntouched DEF BootFlush, server, IInv, PageInv
  <2> QED BY <2>1, <2>2 DEF IInv
<1>5. ASSUME NEW k \in Keys, RetryOne(f, k) PROVE IInv'
  <2> DEFINE q == Marked(queue, {k}, "pending")
  <2>1. q \in Queue /\ SameItems(queue, q)
    BY <1>1, MarkedOK DEF Statuses
  <2>2. UNCHANGED <<born, reading, rows, forgotten>>
    BY <1>5 DEF RetryOne, server
  <2>3. ASSUME Begin(f, q, FALSE) PROVE Kept
    BY <2>1, <2>2, <2>3, BeginKeeps
  <2>4. ASSUME WriteQueue(q, {}), UNCHANGED <<flush, replays, boot>> PROVE Kept
    <3>1. QueueInv' /\ KeptInv'
      BY <2>1, <2>2, <2>4, WriteSameKeeps
    <3>2. FlushInv'
      BY <2>2, <2>4, FlushUntouched
    <3> QED BY <2>4, <3>1, <3>2 DEF IInv, PageInv
  <2>5. Kept
    BY <1>5, <2>3, <2>4 DEF RetryOne
  <2>6. DirectInv' /\ PageInv'
    BY <1>5, <2>5, DirectUntouched DEF RetryOne, server, IInv, PageInv
  <2> QED BY <2>5, <2>6 DEF IInv
<1> QED BY <1>2, <1>3, <1>4, <1>5

\* What the owner does to the queue, time and the network
LEMMA OwnerKeeps ==
  ASSUME IInv, RetryFailed \/ Remove \/ Clear \/ Network \/ \E k \in Keys : Elapse(k)
  PROVE  IInv'
<1>1. queue \in Queue /\ Texted(queue, born)
  BY DEF IInv, QueueInv
<1>2. DirectInv' /\ FlushInv'
  BY DirectUntouched, FlushUntouched DEF RetryFailed, Remove, Clear, Network, Elapse, server
<1>3. PageInv'
  BY BoundsAssumption DEF RetryFailed, Remove, Clear, Network, Elapse, IInv, PageInv
<1>4. CASE RetryFailed
  <2> DEFINE q == Marked(queue, Having(queue, "failed"), "pending")
  <2>1. q \in Queue /\ SameItems(queue, q)
    BY <1>1, MarkedOK DEF Statuses
  <2>2. WriteQueue(q, {}) /\ UNCHANGED <<born, reading, rows, forgotten>>
    BY <1>4 DEF RetryFailed, server
  <2>3. QueueInv' /\ KeptInv'
    BY <2>1, <2>2, WriteSameKeeps
  <2> QED BY <1>2, <1>3, <2>3 DEF IInv
<1>5. CASE Remove
  <2>1. PICK ks \in {{k} : k \in Present(queue)} \cup {Having(queue, "failed")} :
          WriteQueue(Without(queue, ks), ks)
    BY <1>5 DEF Remove
  <2>2. ks \in SUBSET Keys
    BY DEF Having, Present
  <2>3. Without(queue, ks) \in Queue
        /\ \A k \in Keys : Without(queue, ks)[k] = IF k \in ks THEN None ELSE queue[k]
    BY <1>1, WithoutOK
  <2>4. Texted(Without(queue, ks), born)
    BY <1>1, <2>3 DEF Texted
  <2>5. \A k \in Keys : queue[k] # None => Without(queue, ks)[k] # None \/ Written(k) \/ k \in ks
    BY <2>3
  <2>6. QueueInv' /\ KeptInv'
    BY <1>5, <2>1, <2>2, <2>3, <2>4, <2>5, WriteKeeps DEF Remove, server
  <2> QED BY <1>2, <1>3, <2>6 DEF IInv
<1>6. CASE Clear
  <2>1. Empty \in Queue /\ Texted(Empty, born)
    BY DEF Empty, Queue, Texted
  <2>2. Present(queue) \in SUBSET Keys /\ \A k \in Keys : queue[k] # None => k \in Present(queue)
    BY DEF Present
  <2>3. QueueInv' /\ KeptInv'
    BY <1>6, <2>1, <2>2, WriteKeeps DEF Clear, server
  <2> QED BY <1>2, <1>3, <2>3 DEF IInv
<1>7. CASE Network
  BY <1>2, <1>3, <1>7, QueueUntouched, KeptUntouched DEF Network, storage, server, IInv
<1>8. ASSUME NEW k \in Keys, Elapse(k) PROVE IInv'
  <2>1. /\ queue' = [queue EXCEPT ![k].due = TRUE] /\ queue[k] # None
        /\ UNCHANGED <<indexed, discarded, reading, born, rows, forgotten>>
    BY <1>8 DEF Elapse, server
  <2>2. queue[k] \in Item
    BY <1>1, <2>1 DEF Queue
  <2>3. queue' \in Queue /\ SameItems(queue, queue')
    BY <1>1, <2>1, <2>2, NoneIsOther DEF Queue, Item, SameItems
  <2>4. Fits(queue')
    BY <2>3, SameFits DEF IInv, QueueInv
  <2>5. Texted(queue', born)
    BY <1>1, <2>3, SameTexts
  <2>6. QueueInv'
    BY <2>1, <2>3, <2>4, <2>5 DEF IInv, QueueInv, Texted, Present, Fits
  <2>7. KeptInv'
    BY <2>1, <2>3 DEF IInv, KeptInv, Written, SameItems
  <2> QED BY <1>2, <1>3, <2>6, <2>7 DEF IInv
<1> QED BY <1>4, <1>5, <1>6, <1>7, <1>8

\* The page opens
LEMMA PageKeeps ==
  ASSUME IInv, Reload \/ Hydrate \/ LoadHistory \/ BootFallback
  PROVE  IInv'
<1>1. CASE Reload
  <2>1. QueueInv'
    BY <1>1 DEF Reload, storage, IInv, QueueInv, Texted, Present, Fits
  <2>2. KeptInv'
    BY <1>1, KeptUntouched DEF Reload, storage, server
  <2>3. FlushInv'
    <3>1. IdleRun \in Run /\ IdleRun.phase = "idle" /\ IdleRun.synced = {}
      BY DEF IdleRun, Run
    <3> QED BY <1>1, <3>1 DEF Reload, server, IInv, FlushInv, FlushOK
  <2>4. DirectInv'
    BY <1>1 DEF Reload, server, IInv, DirectInv, DirectOK, Steps
  <2>5. PageInv'
    <3>1. reloads' \in 0 .. MaxReloads
      <4>1. reloads' = reloads + 1 /\ reloads < MaxReloads /\ reloads \in 0 .. MaxReloads
        BY <1>1 DEF Reload, IInv, PageInv
      <4> QED BY <4>1, BoundsAssumption
    <3>2. /\ sessionFailed' = FALSE /\ boot' = "flush"
          /\ UNCHANGED <<session, made, online, forgotten>>
      BY <1>1 DEF Reload
    <3> QED BY <3>1, <3>2 DEF IInv, PageInv
  <2> QED BY <2>1, <2>2, <2>3, <2>4, <2>5 DEF IInv
<1>2. CASE Hydrate
  <2>1. /\ queue \in Queue /\ reading \in Queue /\ reading # None
        /\ Texted(queue, born) /\ Fits(queue) /\ Texted(reading, born) /\ Fits(reading)
    BY <1>2 DEF Hydrate, IInv, QueueInv
  <2>2. Hydration \in Queue /\ Texted(Hydration, born) /\ Fits(Hydration)
    BY <2>1 DEF Hydration
  <2>3. Stored(queue) \in Queue /\ Texted(Stored(queue), born) /\ Fits(Stored(queue))
    BY <2>1, StoredOK, SameTexts, SameFits
  <2>4. /\ queue' = Hydration /\ reading' = None
        /\ indexed' = indexed \/ indexed' = Stored(queue)
        /\ forgotten' = forgotten \cup (Present(queue) \ Present(Hydration))
        /\ UNCHANGED <<born, discarded, rows>>
    BY <1>2 DEF Hydrate, server
  <2>5. QueueInv'
    BY <2>2, <2>3, <2>4 DEF IInv, QueueInv, Texted, Fits, Present
  <2>6. KeptInv'
    BY <2>4 DEF IInv, KeptInv, Written, Present
  <2>7. FlushInv' /\ DirectInv'
    BY <1>2, FlushUntouched, DirectUntouched DEF Hydrate, server
  <2>8. PageInv'
    BY <1>2, <2>4 DEF Hydrate, IInv, PageInv, Present
  <2> QED BY <2>5, <2>6, <2>7, <2>8 DEF IInv
<1>3. CASE LoadHistory
  <2>1. QueueInv' /\ KeptInv' /\ FlushInv' /\ DirectInv'
    BY <1>3, QueueUntouched, KeptUntouched, FlushUntouched, DirectUntouched
       DEF LoadHistory, storage, server
  <2>2. PageInv'
    BY <1>3, EnsureOK, NoSessionOK DEF LoadHistory, IInv, PageInv
  <2> QED BY <2>1, <2>2 DEF IInv
<1>4. CASE BootFallback
  <2>1. QueueInv' /\ KeptInv' /\ FlushInv' /\ DirectInv'
    BY <1>4, QueueUntouched, KeptUntouched, FlushUntouched, DirectUntouched
       DEF BootFallback, storage, server
  <2>2. PageInv'
    BY <1>4, CreateOK DEF BootFallback, IInv, PageInv
  <2> QED BY <2>1, <2>2 DEF IInv
<1> QED BY <1>1, <1>2, <1>3, <1>4

\* insertMessage
LEMMA ServerKeeps ==
  ASSUME IInv, StoreReplay \/ StoreSave
  PROVE  IInv'
<1>1. PageInv' /\ QueueInv'
  BY QueueUntouched DEF StoreReplay, StoreSave, storage, IInv, PageInv
<1>2. CASE StoreReplay
  <2>1. PICK r \in replays :
          /\ replays' = replays \ {r}
          /\ rows' = [rows EXCEPT ![r.session][r.key] = Inserted(@)]
    BY <1>2 DEF StoreReplay
  <2>2. r.session \in Sessions /\ r.key \in Keys /\ r = [flush |-> r.flush, session |-> r.session, key |-> r.key]
    BY DEF IInv, FlushInv, Replay
  <2>3. \A n \in Nat : Inserted(n) \in Nat /\ Inserted(n) > 0
    BY DEF Inserted
  <2>4. rows' \in [Sessions -> [Keys -> Nat]] /\ rows'[r.session][r.key] > 0
    BY <2>1, <2>2, <2>3 DEF IInv, FlushInv
  <2>5. \A s \in Sessions, k \in Keys : rows[s][k] > 0 => rows'[s][k] > 0
    BY <2>1, <2>2, <2>3 DEF IInv, FlushInv
  <2>6. \A k \in Keys : Written(k) => Written(k)'
    BY <2>5 DEF Written
  <2>7. /\ UNCHANGED <<queue, discarded, forgotten, born, flush>>
        /\ UNCHANGED <<direct, saves, copies, born>>
    BY <1>2 DEF StoreReplay, storage
  <2>8. KeptInv'
    BY <2>6, <2>7 DEF IInv, KeptInv
  <2>9. ASSUME NEW f \in Flushes PROVE FlushOK(f)'
    <3> DEFINE k == First(flush[f].todo)
               sent == [flush |-> f, session |-> flush[f].session, key |-> k]
    <3>1. flush[f] \in Run /\ FlushOK(f)
      BY DEF IInv, FlushInv
    <3>2. \A j \in flush[f].synced : Written(j)'
      BY <2>6, <3>1 DEF FlushOK, Run
    <3>3. ASSUME flush[f].phase = "sending"
          PROVE  flush[f].session \in Sessions /\ (sent \in replays' \/ rows'[flush[f].session][k] > 0)
      <4>1. flush[f].session \in Sessions /\ k \in Keys
        BY <3>1, <3>3, FirstIsLeast DEF FlushOK, Run
      <4>2. CASE sent = r
        BY <2>4, <4>1, <4>2
      <4>3. CASE sent # r
        BY <2>1, <2>5, <3>1, <3>3, <4>1, <4>3 DEF FlushOK
      <4> QED BY <4>1, <4>2, <4>3
    <3> QED BY <2>7, <3>1, <3>2, <3>3 DEF FlushOK
  <2>10. FlushInv'
    BY <2>1, <2>4, <2>7, <2>9 DEF IInv, FlushInv
  <2>11. DirectInv'
    BY <2>7, DirectUntouched
  <2> QED BY <1>1, <2>8, <2>10, <2>11 DEF IInv
<1>3. CASE StoreSave
  <2>1. PICK r \in saves : /\ saves' = saves \ {r}
                           /\ copies' = [copies EXCEPT ![r.of] = @ + 1]
    BY <1>3 DEF StoreSave
  <2>2. r.of \in Submissions /\ copies \in [Submissions -> Nat]
    BY DEF IInv, DirectInv, Save
  <2>3. /\ copies' \in [Submissions -> Nat] /\ copies'[r.of] > 0
        /\ \A s \in Submissions : copies[s] > 0 => copies'[s] > 0
    BY <2>1, <2>2
  <2>4. UNCHANGED <<direct, born>>
    BY <1>3 DEF StoreSave
  <2>5. ASSUME NEW s \in Submissions PROVE DirectOK(s)'
    <3>1. CASE [of |-> s, try |-> direct[s]] = r
      BY <2>3, <2>4, <3>1 DEF IInv, DirectInv, DirectOK
    <3>2. CASE [of |-> s, try |-> direct[s]] # r
      BY <2>1, <2>3, <2>4, <3>2 DEF IInv, DirectInv, DirectOK
    <3> QED BY <3>1, <3>2
  <2>6. DirectInv'
    BY <2>1, <2>3, <2>4, <2>5 DEF IInv, DirectInv
  <2>7. FlushInv' /\ KeptInv'
    BY <1>3, FlushUntouched, KeptUntouched DEF StoreSave, storage
  <2> QED BY <1>1, <2>6, <2>7 DEF IInv
<1> QED BY <1>2, <1>3

LEMMA StepKeepsAll ==
  ASSUME IInv, [Next]_vars PROVE IInv'
<1>1. CASE Next
  BY <1>1, PersistingKeeps, RunningKeeps, StartingKeeps, OwnerKeeps, PageKeeps, ServerKeeps
     DEF Next, Flushing
<1>2. CASE UNCHANGED vars
  <2>1. QueueInv' /\ KeptInv' /\ FlushInv' /\ DirectInv'
    BY <1>2, QueueUntouched, KeptUntouched, FlushUntouched, DirectUntouched
       DEF vars, storage, server
  <2>2. PageInv'
    BY <1>2 DEF vars, IInv, PageInv
  <2> QED BY <2>1, <2>2 DEF IInv
<1> QED BY <1>1, <1>2

-----------------------------------------------------------------------------
(* The theorems *)

\* IInv is an invariant of the queue: what a flush counts as synced is on the
\* server, what the hydration may bring back fits the budget and is what its keys
\* were made for.
THEOREM Inductive == Spec => []IInv
<1>1. Init => IInv
  BY InitOK
<1>2. IInv /\ [Next]_vars => IInv'
  BY StepKeepsAll
<1> QED BY <1>1, <1>2, PTL DEF Spec

\* The queue holds at most MAX_QUEUE_ITEMS well-formed items, in every state.
THEOREM Typing == Spec => []TypeOK
<1>1. IInv => TypeOK
  BY Implied
<1> QED BY <1>1, Inductive, PTL

\* Whatever the order of the steps of the hooks, the owner, the page's openings
\* and the server, a queued item is on the queue or on the server unless it was
\* removed, pushed out or dropped by a hydration, and a message the page is done
\* with was stored or queued.
THEOREM NeverVanishes == Spec => []NothingVanishes
<1>1. IInv => NothingVanishes
  BY Implied
<1> QED BY <1>1, Inductive, PTL

\* A session holds at most one row for each item, however often it is replayed.
THEOREM AtMostOneRow == Spec => []OneRowPerSession
<1>1. Init => OneRowPerSession
  BY DEF Init, OneRowPerSession
<1>2. IInv /\ OneRowPerSession /\ [Next]_vars => OneRowPerSession'
  <2> SUFFICES ASSUME IInv, OneRowPerSession, [Next]_vars PROVE OneRowPerSession'
    OBVIOUS
  <2>1. CASE StoreReplay
    <3>1. PICK r \in replays : rows' = [rows EXCEPT ![r.session][r.key] = Inserted(@)]
      BY <2>1 DEF StoreReplay
    <3>2. rows \in [Sessions -> [Keys -> Nat]] /\ \A n \in Nat : n <= 1 => Inserted(n) <= 1
      BY DEF IInv, FlushInv, Inserted
    <3>3. ASSUME NEW s \in Sessions, NEW k \in Keys PROVE rows'[s][k] <= 1
      <4>1. rows'[s][k] = rows[s][k] \/ rows'[s][k] = Inserted(rows[s][k])
        BY <3>1, <3>2
      <4> QED BY <3>2, <4>1 DEF OneRowPerSession
    <3> QED BY <3>3 DEF OneRowPerSession
  <2>2. CASE UNCHANGED rows
    BY <2>2 DEF OneRowPerSession
  <2>3. StoreReplay \/ UNCHANGED rows
    BY DEF Next, vars, server, Persisting, Submit, DirectSaved, FirstFails, SecondFails,
           Fallback, Flushing, Opened, Replayed, ReplayFails, AutoSync, ForceSync, BootFlush,
           RetryOne, RetryFailed, Remove, Clear, Elapse, Network, Reload, Hydrate,
           LoadHistory, BootFallback, StoreSave
  <2> QED BY <2>1, <2>2, <2>3
<1> QED BY <1>1, <1>2, Inductive, PTL DEF Spec
-----------------------------------------------------------------------------
(* MessageDelivery: what trimming drops *)

LEMMA KeysAreInts == \A k \in Keys : k \in Int
BY BoundsAssumption DEF Keys

LEMMA AboveSmaller ==
  ASSUME NEW q, NEW i \in Keys, NEW j \in Present(q), i < j
  PROVE  Cardinality({h \in Present(q) : h > j}) < Cardinality({h \in Present(q) : h > i})
<1> DEFINE A == {h \in Present(q) : h > i}
           B == {h \in Present(q) : h > j}
<1>1. A \subseteq Keys /\ B \subseteq Keys /\ j \in Keys
  BY DEF Present
<1>2. j \in A /\ B \subseteq A \ {j}
  BY KeysAreInts DEF Present
<1>3. IsFiniteSet(A) /\ Cardinality(A) \in Nat /\ Cardinality(B) \in Nat
  BY <1>1, KeysFinite
<1> HIDE DEF A, B
<1>4. IsFiniteSet(A \ {j}) /\ Cardinality(A \ {j}) = Cardinality(A) - 1
  BY <1>2, <1>3, FS_RemoveElement
<1>5. Cardinality(B) <= Cardinality(A \ {j})
  BY <1>2, <1>4, FS_Subset
<1> QED BY <1>3, <1>4, <1>5 DEF A, B

\* A queue within the budget is kept as it is.
LEMMA TrimmedSame ==
  ASSUME NEW q \in Queue, Fits(q)
  PROVE  Present(Trimmed(q)) = Present(q)
<1> DEFINE P == Present(q)
<1>1. ASSUME NEW k \in P PROVE Cardinality({h \in P : h > k}) < MaxItems
  <2> DEFINE A == {h \in P : h > k}
  <2>1. P \subseteq Keys /\ A \subseteq Keys
    BY DEF Present
  <2>2. A \subseteq P \ {k}
    BY KeysAreInts DEF Present
  <2>3. IsFiniteSet(P) /\ Cardinality(P) \in Nat /\ Cardinality(A) \in Nat
    BY <2>1, KeysFinite
  <2> HIDE DEF A, P
  <2>4. IsFiniteSet(P \ {k}) /\ Cardinality(P \ {k}) = Cardinality(P) - 1
    BY <2>3, <1>1, FS_RemoveElement
  <2>5. Cardinality(A) <= Cardinality(P \ {k})
    BY <2>2, <2>4, FS_Subset
  <2>6. Cardinality(P) <= MaxItems
    BY DEF Fits, P
  <2> QED BY <2>3, <2>4, <2>5, <2>6, BoundsAssumption DEF A
<1> QED BY <1>1 DEF Trimmed, Present

\* What is dropped is older than all that is kept, and the newest item is kept.
LEMMA TrimmedOldest ==
  ASSUME NEW q \in Queue
  PROVE  /\ Present(Trimmed(q)) \subseteq Present(q)
         /\ \A i \in Present(q) \ Present(Trimmed(q)), j \in Present(Trimmed(q)) : i < j
         /\ \A k \in Present(q) : (\A j \in Present(q) : j <= k) => k \in Present(Trimmed(q))
<1> DEFINE Above(k) == {h \in Present(q) : h > k}
<1>1. \A k \in Keys : k \in Present(Trimmed(q)) <=> k \in Present(q) /\ Cardinality(Above(k)) < MaxItems
  BY DEF Trimmed, Present
<1>2. Present(q) \subseteq Keys /\ Present(Trimmed(q)) \subseteq Keys
  BY DEF Present
<1>3. \A k \in Keys : Cardinality(Above(k)) \in Nat
  <2> SUFFICES ASSUME NEW k \in Keys PROVE Cardinality(Above(k)) \in Nat
    OBVIOUS
  <2>1. Above(k) \subseteq Keys
    BY <1>2
  <2> QED BY <2>1, KeysFinite
<1>4. \A i, j \in Present(q) : i < j => Cardinality(Above(j)) < Cardinality(Above(i))
  BY <1>2, AboveSmaller
<1>5. ASSUME NEW k \in Present(q), \A j \in Present(q) : j <= k PROVE Cardinality(Above(k)) < MaxItems
  <2>1. Above(k) = {}
    BY <1>2, <1>5, KeysAreInts
  <2> QED BY <2>1, FS_EmptySet, BoundsAssumption
<1> HIDE DEF Above
<1>6. ASSUME NEW i \in Present(q) \ Present(Trimmed(q)), NEW j \in Present(Trimmed(q))
      PROVE  i < j
  <2>1. /\ j \in Present(q) /\ Cardinality(Above(j)) < MaxItems
        /\ ~ (Cardinality(Above(i)) < MaxItems) /\ i # j
    BY <1>1, <1>2
  <2>2. i \in Int /\ j \in Int /\ Cardinality(Above(i)) \in Nat /\ Cardinality(Above(j)) \in Nat
    BY <1>2, <1>3, KeysAreInts
  <2>3. j < i => Cardinality(Above(i)) < Cardinality(Above(j))
    BY <1>4, <2>1
  <2> QED BY <2>1, <2>2, <2>3, BoundsAssumption
<1> QED BY <1>1, <1>2, <1>5, <1>6

\* A write within the budget drops what the user asked to remove, and no more.
LEMMA WriteFits ==
  ASSUME NEW q \in Queue, NEW gone, Fits(q), WriteQueue(q, gone)
  PROVE  Present(queue') = Present(q) /\ discarded' = discarded \cup gone
BY TrimmedSame DEF WriteQueue

LEMMA WriteSame ==
  ASSUME IInv, NEW q \in Queue, SameItems(queue, q), WriteQueue(q, {})
  PROVE  Present(queue') = Present(queue) /\ discarded' = discarded
<1>1. Fits(q) /\ Present(q) = Present(queue)
  BY SameFits DEF IInv, QueueInv, SameItems, Present
<1> QED BY <1>1, WriteFits

LEMMA WriteWithout ==
  ASSUME IInv, NEW q \in Queue, SameItems(queue, q), NEW ks, NEW gone,
         WriteQueue(Without(q, ks), gone)
  PROVE  Present(queue') = Present(queue) \ ks /\ discarded' = discarded \cup gone
<1>1. Fits(queue) /\ Present(q) = Present(queue) /\ Present(queue) \subseteq Keys
  BY DEF IInv, QueueInv, SameItems, Present
<1>2. Without(q, ks) \in Queue /\ Present(Without(q, ks)) = Present(q) \ ks
  BY WithoutOK DEF Present
<1>3. Cardinality(Present(queue) \ ks) <= Cardinality(Present(queue))
  BY <1>1, KeysFinite, FS_Subset
<1>4. Cardinality(Present(queue) \ ks) \in Nat /\ Cardinality(Present(queue)) \in Nat
  BY <1>1, KeysFinite
<1>5. Fits(Without(q, ks))
  BY <1>1, <1>2, <1>3, <1>4, BoundsAssumption DEF Fits
<1> QED BY <1>1, <1>2, <1>5, WriteFits

-----------------------------------------------------------------------------
(* MessageDelivery: each operation maps to a step or a stutter *)

\* Keys are made in order, and flushes replay those that were made.
Todos(F) == \A f \in Flushes : \A k \in F[f].todo : born[k] # None

InOrder == \A j, k \in Keys : j < k /\ born[k] # None => born[j] # None

DeliveryInv == Todos(flush) /\ InOrder

DirectSame == UNCHANGED <<direct, saves, copies>>
ServerSame == UNCHANGED <<copies, replays, rows>>
QueueSame  == UNCHANGED <<born, discarded, forgotten, reading>> /\ Present(queue') = Present(queue)

LEMMA StutterMaps ==
  ASSUME Fates' = Fates, saves' = saves, QueueSame, ServerSame
  PROVE  [Delivery!Next]_(Delivery!vars)
<1>1. Underway' = Underway
  BY DEF ServerSame, Underway
<1>2. Present(queue)' = Present(queue)
  BY DEF QueueSame, Present
<1> QED BY <1>1, <1>2 DEF QueueSame, ServerSame, Delivery!vars

LEMMA FatesAre ==
  ASSUME DirectInv
  PROVE  \A s \in Submissions : Fates[s] = FateOf(direct[s])
BY DEF Fates

LEMMA FateSet ==
  ASSUME DirectInv, NEW s \in Submissions, NEW step, direct' = [direct EXCEPT ![s] = step]
  PROVE  Fates' = [Fates EXCEPT ![s] = FateOf(step)]
BY DEF Fates, DirectInv

LEMMA FateSame ==
  ASSUME DirectInv, NEW s \in Submissions, NEW step, direct' = [direct EXCEPT ![s] = step],
         FateOf(step) = FateOf(direct[s])
  PROVE  Fates' = Fates
BY DEF Fates, DirectInv

LEMMA CardinalityIs == \A S : Delivery!Cardinality(S) = Cardinality(S)
BY Zenon DEF Delivery!Cardinality, Cardinality

LEMMA WrittenIsOn == \A k \in Keys : Delivery!On(k) <=> Written(k)
BY DEF Delivery!On, Written

\* persistMessageToCore gives up and queues the message.
LEMMA EnqueueMaps ==
  ASSUME IInv, InOrder, NEW s \in Submissions, direct[s] \in {"fallback", "second"}, Enqueue(s),
         ServerSame, UNCHANGED <<saves, reading, forgotten>>
  PROVE  Delivery!Queue(s)
<1> DEFINE t == TextOf[s]
           same == {k \in Present(queue) : queue[k].text = t}
<1>1. /\ t \in Texts /\ queue \in Queue /\ Texted(queue, born) /\ Fits(queue)
      /\ born \in [Keys -> Texts \cup {None}]
  BY MessagesAssumption DEF IInv, QueueInv
<1>2. Delivery!InHand(s) /\ Fates' = [Fates EXCEPT ![s] = "queued"]
  BY FatesAre, FateSet DEF IInv, Enqueue, FateOf, Delivery!InHand
<1>3. (\E k \in Present(queue) : born[k] = t) <=> same # {}
  BY <1>1 DEF Texted, Present
<1>4. Underway' = Underway /\ (reading # None)' = (reading # None)
  BY DEF ServerSame, Underway
<1>5. CASE /\ same # {} /\ WriteQueue(Marked(queue, same, "pending"), {}) /\ born' = born
  <2>1. Marked(queue, same, "pending") \in Queue
        /\ SameItems(queue, Marked(queue, same, "pending"))
    BY <1>1, MarkedOK DEF Statuses
  <2>2. Present(queue') = Present(queue) /\ discarded' = discarded
    BY <1>5, <2>1, WriteSame
  <2>3. Present(queue)' = Present(queue)
    BY <2>2 DEF Present
  <2> QED BY <1>2, <1>3, <1>4, <1>5, <2>2, <2>3
          DEF ServerSame, Delivery!Queue, Delivery!serverVars
<1>6. ASSUME same = {}, NEW key \in Keys, born[key] = None, \A k \in Keys : k < key => born[k] # None,
             WriteQueue([queue EXCEPT ![key] = NewItem(t)], {}),
             born' = [born EXCEPT ![key] = t]
      PROVE  Delivery!Queue(s)
  <2> DEFINE q == [queue EXCEPT ![key] = NewItem(t)]
             P == Present(queue)
  <2>1. NewItem(t) \in Item /\ NewItem(t) # None
    BY <1>1, NewItemOK
  <2>2. q \in Queue /\ Present(q) = P \cup {key}
    BY <1>1, <2>1 DEF Queue, Present
  <2>3. \A k \in P : born[k] # None
    BY <1>1, NoneIsOther DEF Texted, Present, Queue, Item
  <2>4. key \notin P /\ \A k \in P : k < key
    BY <1>6, <2>3, KeysAreInts DEF InOrder, Present
  <2>5. \A k \in Present(q) : k <= key
    BY <2>2, <2>4, KeysAreInts DEF Present
  <2>6. /\ queue' = Trimmed(q)
        /\ discarded' = discarded \cup (Present(q) \ Present(Trimmed(q)))
    BY <1>6 DEF WriteQueue
  <2>7. /\ Present(queue') \subseteq Present(q) /\ key \in Present(queue')
        /\ \A i \in Present(q) \ Present(queue'), j \in Present(queue') : i < j
    BY <2>2, <2>5, <2>6, TrimmedOldest
  <2>8. Cardinality(Present(queue')) <= MaxItems
    BY <2>2, <2>6, TrimmedOK DEF Fits
  <2>9. Cardinality(P) < MaxItems => P \subseteq Present(queue')
    <3>1. IsFiniteSet(P) /\ Cardinality(P) \in Nat
      BY KeysFinite DEF Present
    <3>2. Cardinality(P \cup {key}) = Cardinality(P) + 1
      BY <2>4, <3>1, FS_AddElement
    <3>3. Cardinality(P) < MaxItems => Cardinality(P \cup {key}) <= MaxItems
      BY <3>1, <3>2, BoundsAssumption
    <3>4. Cardinality(P) < MaxItems => Fits(q)
      BY <2>2, <3>3 DEF Fits
    <3> QED BY <2>2, <2>6, <3>4, TrimmedSame
  <2>10. discarded' = discarded \cup (P \ Present(queue'))
    BY <2>2, <2>6, <2>7
  <2>11. Present(queue)' = Present(queue')
    BY DEF Present
  <2>12. Delivery!PutOn(key)
    BY <2>2, <2>7, <2>8, <2>9, <2>10, <2>11, CardinalityIs DEF Delivery!PutOn
  <2>13. key \in Keys \ Delivery!Made /\ ~ \E k \in P : born[k] = t
    BY <1>3, <1>6 DEF Delivery!Made
  <2> QED BY <1>2, <1>4, <1>6, <2>12, <2>13
          DEF ServerSame, Delivery!Queue, Delivery!serverVars
<1> QED BY <1>5, <1>6 DEF Enqueue

LEMMA PersistingMaps ==
  ASSUME IInv, InOrder, NEW s \in Submissions, Persisting(s)
  PROVE  [Delivery!Next]_(Delivery!vars)
<1>1. DirectInv /\ Fates[s] = FateOf(direct[s])
  BY FatesAre DEF IInv
<1>2. ASSUME UNCHANGED storage, UNCHANGED server, UNCHANGED <<reading, replays, born, forgotten>>
      PROVE  /\ QueueSame /\ ServerSame /\ UNCHANGED <<copies, rows, born, reading>>
             /\ Underway' = Underway /\ Present(queue)' = Present(queue)
             /\ (discarded \cup forgotten)' = discarded \cup forgotten
  BY <1>2 DEF storage, server, QueueSame, ServerSame, Underway, Present
<1>3. CASE Submit(s)
  <2>1. /\ QueueSame /\ ServerSame /\ UNCHANGED <<copies, rows, born, reading>>
        /\ Underway' = Underway /\ Present(queue)' = Present(queue)
        /\ (discarded \cup forgotten)' = discarded \cup forgotten
    BY <1>2, <1>3 DEF Submit
  <2>2. direct[s] = "unsent"
        /\ \/ direct' = [direct EXCEPT ![s] = "first"]
              /\ saves' = saves \cup {[of |-> s, try |-> "first"]}
           \/ direct' = [direct EXCEPT ![s] = "fallback"] /\ saves' = saves
    BY <1>3 DEF Submit, Sends
  <2>3. FateOf("first") = "trying" /\ FateOf("fallback") = "trying" /\ FateOf("unsent") = "unsent"
    BY DEF FateOf
  <2>4. Fates' = [Fates EXCEPT ![s] = "trying"]
    BY <1>1, <2>2, <2>3, FateSet
  <2>5. Delivery!Try(s)
    BY <1>1, <2>1, <2>2, <2>3, <2>4 DEF Delivery!Try, Delivery!queueVars, Delivery!serverVars
  <2> QED BY <2>5 DEF Delivery!Next
<1>4. CASE DirectSaved(s)
  <2>1. /\ QueueSame /\ ServerSame /\ UNCHANGED <<copies, rows, born, reading>>
        /\ Underway' = Underway /\ Present(queue)' = Present(queue)
        /\ (discarded \cup forgotten)' = discarded \cup forgotten
    BY <1>2, <1>4 DEF DirectSaved
  <2>2. copies[s] > 0
    BY <1>1, <1>4 DEF DirectSaved, DirectInv, DirectOK
  <2>3. Delivery!InHand(s)
    BY <1>1, <1>4 DEF DirectSaved, FateOf, Delivery!InHand
  <2>4. Fates' = [Fates EXCEPT ![s] = "saved"] /\ saves' = saves
    BY <1>1, <1>4, FateSet DEF DirectSaved, FateOf
  <2>5. Delivery!Save(s)
    BY <2>1, <2>2, <2>3, <2>4 DEF Delivery!Save, Delivery!queueVars, Delivery!serverVars
  <2> QED BY <2>5 DEF Delivery!Next
<1>5. CASE FirstFails(s)
  <2>1. QueueSame /\ ServerSame /\ saves' = saves
    BY <1>2, <1>5 DEF FirstFails
  <2>2. Fates' = Fates
    BY <1>1, <1>5, FateSame DEF FirstFails, FateOf
  <2> QED BY <2>1, <2>2, StutterMaps
<1>6. CASE SecondFails(s)
  <2>1. Delivery!Queue(s)
    BY <1>6, EnqueueMaps DEF SecondFails, server, ServerSame
  <2> QED BY <2>1 DEF Delivery!Next
<1>7. CASE Fallback(s) /\ Enqueue(s) /\ UNCHANGED saves
  <2>1. Delivery!Queue(s)
    BY <1>7, EnqueueMaps DEF Fallback, server, ServerSame
  <2> QED BY <2>1 DEF Delivery!Next
<1>8. CASE Fallback(s) /\ Sends(s, "second") /\ UNCHANGED <<storage, born>>
  <2>1. /\ QueueSame /\ ServerSame /\ UNCHANGED <<copies, rows, born, reading>>
        /\ Underway' = Underway /\ Present(queue)' = Present(queue)
        /\ (discarded \cup forgotten)' = discarded \cup forgotten
    BY <1>2, <1>8 DEF Fallback
  <2>2. Fates' = [Fates EXCEPT ![s] = "again"] /\ Fates[s] = "trying"
    BY <1>1, <1>8, FateSet DEF Fallback, Sends, FateOf
  <2>3. Delivery!TryAgain(s)
    BY <1>8, <2>1, <2>2 DEF Sends, Delivery!TryAgain, Delivery!queueVars, Delivery!serverVars
  <2> QED BY <2>3 DEF Delivery!Next
<1> QED BY <1>3, <1>4, <1>5, <1>6, <1>7, <1>8 DEF Persisting, Fallback

\* A flush sends the next item, and the queue keeps its items.
LEMMA SendNextMaps ==
  ASSUME IInv, Todos(flush), NEW f \in Flushes, NEW run \in Run, NEW s \in Sessions,
         NEW q \in Queue, run.todo # {}, \A k \in run.todo : born[k] # None,
         SameItems(queue, q), SendNext(f, run, s, q),
         DirectSame, UNCHANGED <<born, reading, rows, forgotten>>
  PROVE  [Delivery!Next]_(Delivery!vars) /\ Todos(flush')
<1> DEFINE k == First(run.todo)
<1>1. k \in Keys /\ k \in run.todo
  BY FirstIsLeast DEF Run
<1>2. /\ WriteQueue(Attempted(q, k, "syncing"), {})
      /\ flush' = [flush EXCEPT ![f] = [run EXCEPT !.phase = "sending", !.session = s]]
      /\ replays' = replays \cup {[flush |-> f, session |-> s, key |-> k]}
  BY DEF SendNext
<1>3. Attempted(q, k, "syncing") \in Queue /\ SameItems(queue, Attempted(q, k, "syncing"))
  BY AttemptedOK, SameTrans DEF Statuses
<1>4. Present(queue') = Present(queue) /\ discarded' = discarded
  BY <1>2, <1>3, WriteSame
<1>5. Present(queue)' = Present(queue) /\ Fates' = Fates
  BY <1>4 DEF Present, Fates, DirectSame
<1>6. Underway' = Underway \cup {<<s, k>>}
  <2>1. PICK r : r = [flush |-> f, session |-> s, key |-> k]
    OBVIOUS
  <2>2. r.session = s /\ r.key = k /\ replays' = replays \cup {r}
    BY <1>2, <2>1
  <2> HIDE DEF k
  <2> QED BY <2>2 DEF Underway
<1>7. k \in Delivery!Made
  BY <1>1 DEF Delivery!Made
<1>8. Delivery!Send(s, k)
  BY <1>4, <1>5, <1>6, <1>7 DEF DirectSame, Delivery!Send, Delivery!queueVars
<1>9. Todos(flush')
  <2>1. ASSUME NEW g \in Flushes PROVE \A j \in flush'[g].todo : born[j] # None
    <3>1. flush'[g] = flush[g] \/ flush'[g].todo = run.todo
      BY <1>2 DEF IInv, FlushInv, Run
    <3> QED BY <3>1 DEF Todos
  <2> QED BY <2>1 DEF Todos
<1> QED BY <1>1, <1>8, <1>9 DEF Delivery!Next

LEMMA IdleTodos ==
  ASSUME IInv, Todos(flush), NEW f \in Flushes, flush' = [flush EXCEPT ![f] = IdleRun]
  PROVE  Todos(flush')
BY DEF Todos, IdleRun, IInv, FlushInv

\* A flush takes what the server has acknowledged off the queue.
LEMMA FinishMaps ==
  ASSUME IInv, Todos(flush), NEW f \in Flushes, NEW q \in Queue, NEW synced \in SUBSET Keys,
         SameItems(queue, q), \A k \in synced : Written(k), Finish(f, synced, q),
         DirectSame, UNCHANGED <<born, reading, rows, forgotten>>
  PROVE  [Delivery!Next]_(Delivery!vars) /\ Todos(flush')
<1>1. /\ WriteQueue(Without(q, synced), {}) /\ replays' = replays
      /\ flush' = [flush EXCEPT ![f] = IdleRun]
  BY DEF Finish
<1>2. Present(queue') = Present(queue) \ synced /\ discarded' = discarded
  BY <1>1, WriteWithout
<1>3. /\ Present(queue)' = Present(queue) \ synced /\ Fates' = Fates /\ Underway' = Underway
      /\ UNCHANGED <<copies, saves>>
  BY <1>1, <1>2 DEF Present, Fates, DirectSame, Underway
<1>4. Delivery!TakeOff
  BY <1>2, <1>3, WrittenIsOn DEF Delivery!TakeOff, Delivery!serverVars
<1>5. Todos(flush')
  BY <1>1, IdleTodos
<1> QED BY <1>4, <1>5 DEF Delivery!Next

\* The call of flushOfflineMessages
LEMMA BeginMaps ==
  ASSUME IInv, Todos(flush), NEW f \in Flushes, NEW q \in Queue, NEW isBoot \in BOOLEAN,
         SameItems(queue, q), Begin(f, q, isBoot),
         DirectSame, UNCHANGED <<born, reading, rows, forgotten>>
  PROVE  [Delivery!Next]_(Delivery!vars) /\ Todos(flush')
<1> DEFINE recovered == Recovered(q)
           todo == Ready(recovered)
           run == [IdleRun EXCEPT !.phase = "opening", !.boot = isBoot, !.todo = todo]
<1>1. recovered \in Queue /\ SameItems(queue, recovered)
  BY RecoveredOK, SameTrans
<1>2. run \in Run /\ run.todo = todo
  BY ReadyKeys DEF IdleRun, Run
<1>3. \A k \in todo : born[k] # None
  <2>1. todo \subseteq Present(recovered)
    BY DEF Ready, Having
  <2>2. Texted(recovered, born)
    BY <1>1, SameTexts DEF IInv, QueueInv
  <2> QED BY <1>1, <2>1, <2>2, NoneIsOther DEF Texted, Present, Queue, Item
<1>4. Fates' = Fates /\ UNCHANGED <<copies, saves>>
  BY DEF Fates, DirectSame
<1>5. ASSUME WriteQueue(recovered, {}), replays' = replays PROVE [Delivery!Next]_(Delivery!vars)
  <2>1. Present(queue') = Present(queue) /\ discarded' = discarded
    BY <1>1, <1>5, WriteSame
  <2> QED BY <1>4, <1>5, <2>1, StutterMaps DEF QueueSame, ServerSame
<1>6. CASE todo = {} /\ WriteQueue(recovered, {}) /\ UNCHANGED <<flush, replays>>
  BY <1>5, <1>6
<1>7. CASE todo # {} /\ session # None /\ SendNext(f, run, session, recovered)
  <2>1. session \in Sessions
    BY <1>7 DEF IInv, PageInv
  <2> QED BY <1>1, <1>2, <1>3, <1>7, <2>1, SendNextMaps
<1>8. CASE /\ WriteQueue(recovered, {})
           /\ flush' = [flush EXCEPT ![f] = run] /\ UNCHANGED replays
  <2>1. \A g \in Flushes : flush'[g] = run \/ flush'[g] = flush[g]
    BY <1>8 DEF IInv, FlushInv
  <2>2. Todos(flush')
    BY <1>2, <1>3, <2>1 DEF Todos
  <2> QED BY <1>5, <1>8, <2>2
<1> QED BY <1>6, <1>7, <1>8 DEF Begin

LEMMA RunningMaps ==
  ASSUME IInv, Todos(flush), NEW f \in Flushes, Opened(f) \/ Replayed(f) \/ ReplayFails(f)
  PROVE  [Delivery!Next]_(Delivery!vars) /\ Todos(flush')
<1>1. /\ queue \in Queue /\ SameItems(queue, queue) /\ flush[f] \in Run /\ FlushOK(f)
      /\ \A k \in flush[f].todo : born[k] # None
  BY SameRefl DEF IInv, QueueInv, FlushInv, Todos
<1>2. DirectSame /\ UNCHANGED <<copies, born, reading, rows, forgotten>>
  BY DEF Opened, Replayed, ReplayFails, server, DirectSame
<1>3. CASE Opened(f)
  <2>1. CASE EnsureSession /\ SendNext(f, flush[f], session', queue)
    <3>1. PICK s \in Sessions : s = session'
      BY <2>1, EnsureOK
    <3>2. flush[f].todo # {}
      BY <1>1, <1>3 DEF Opened, FlushOK
    <3> QED BY <1>1, <1>2, <2>1, <3>1, <3>2, SendNextMaps
  <2>2. CASE flush' = [flush EXCEPT ![f] = IdleRun] /\ UNCHANGED <<storage, replays>>
    <3>1. Fates' = Fates /\ QueueSame /\ ServerSame /\ saves' = saves
      BY <1>2, <2>2 DEF storage, Fates, DirectSame, QueueSame, ServerSame
    <3> QED BY <2>2, <3>1, StutterMaps, IdleTodos
  <2> QED BY <1>3, <2>1, <2>2 DEF Opened
<1>4. CASE Replayed(f)
  <2> DEFINE k == First(flush[f].todo)
             rest == [flush[f] EXCEPT !.todo = @ \ {k}, !.synced = @ \cup {k}]
  <2>1. flush[f].session \in Sessions /\ k \in Keys /\ Written(k)
    <3>1. flush[f].todo # {} /\ flush[f].todo \subseteq Keys
      BY <1>1, <1>4 DEF Replayed, FlushOK, Run
    <3> QED BY <1>1, <1>4, <3>1, FirstIsLeast DEF Replayed, FlushOK, Written
  <2>2. /\ rest \in Run /\ rest.session = flush[f].session
        /\ rest.synced = flush[f].synced \cup {k} /\ rest.todo = flush[f].todo \ {k}
    BY <1>1, <2>1 DEF Run
  <2>3. /\ rest.synced \in SUBSET Keys /\ \A j \in rest.synced : Written(j)
        /\ \A j \in rest.todo : born[j] # None
    BY <1>1, <2>1, <2>2 DEF FlushOK, Run
  <2>4. CASE rest.todo # {} /\ SendNext(f, rest, rest.session, queue)
    BY <1>1, <1>2, <2>1, <2>2, <2>3, <2>4, SendNextMaps
  <2>5. CASE Finish(f, rest.synced, queue)
    BY <1>1, <1>2, <2>3, <2>5, FinishMaps
  <2> QED BY <1>4, <2>4, <2>5 DEF Replayed
<1>5. CASE ReplayFails(f)
  <2> DEFINE q == Attempted(queue, First(flush[f].todo), "failed")
  <2>1. q \in Queue /\ SameItems(queue, q)
    BY <1>1, AttemptedOK DEF Statuses
  <2>2. Acknowledged(f) \in SUBSET Keys /\ \A k \in Acknowledged(f) : Written(k)
    BY <1>1 DEF Acknowledged, FlushOK, Run
  <2>3. Finish(f, Acknowledged(f), q)
    BY <1>5 DEF ReplayFails
  <2> QED BY <1>2, <2>1, <2>2, <2>3, FinishMaps
<1> QED BY <1>3, <1>4, <1>5

LEMMA StartingMaps ==
  ASSUME IInv, Todos(flush), NEW f \in Flushes,
         AutoSync(f) \/ ForceSync(f) \/ BootFlush(f) \/ \E k \in Keys : RetryOne(f, k)
  PROVE  [Delivery!Next]_(Delivery!vars) /\ Todos(flush')
<1>1. queue \in Queue /\ SameItems(queue, queue)
  BY SameRefl DEF IInv, QueueInv
<1>2. DirectSame /\ UNCHANGED <<copies, born, reading, rows, forgotten>>
  BY DEF AutoSync, ForceSync, BootFlush, RetryOne, server, DirectSame
<1>3. CASE AutoSync(f) \/ BootFlush(f)
  BY <1>1, <1>2, <1>3, BeginMaps DEF AutoSync, BootFlush
<1>4. CASE ForceSync(f)
  <2> DEFINE q == Marked(queue, Having(queue, "failed"), "pending")
  <2>1. q \in Queue /\ SameItems(queue, q)
    BY <1>1, MarkedOK DEF Statuses
  <2>2. Begin(f, q, FALSE)
    BY <1>4 DEF ForceSync
  <2> QED BY <1>2, <2>1, <2>2, BeginMaps
<1>5. ASSUME NEW k \in Keys, RetryOne(f, k)
      PROVE  [Delivery!Next]_(Delivery!vars) /\ Todos(flush')
  <2> DEFINE q == Marked(queue, {k}, "pending")
  <2>1. q \in Queue /\ SameItems(queue, q)
    BY <1>1, MarkedOK DEF Statuses
  <2>2. CASE Begin(f, q, FALSE)
    BY <1>2, <2>1, <2>2, BeginMaps
  <2>3. CASE WriteQueue(q, {}) /\ UNCHANGED <<flush, replays>>
    <3>1. Present(queue') = Present(queue) /\ discarded' = discarded
      BY <2>1, <2>3, WriteSame
    <3>2. Fates' = Fates /\ QueueSame /\ ServerSame /\ saves' = saves
      BY <1>2, <2>3, <3>1 DEF Fates, DirectSame, QueueSame, ServerSame
    <3> QED BY <2>3, <3>2, StutterMaps
  <2> QED BY <1>5, <2>2, <2>3 DEF RetryOne
<1> QED BY <1>3, <1>4, <1>5

LEMMA OwnerMaps ==
  ASSUME IInv, RetryFailed \/ Remove \/ Clear \/ Network \/ \E k \in Keys : Elapse(k)
  PROVE  [Delivery!Next]_(Delivery!vars) /\ flush' = flush
<1>1. /\ queue \in Queue /\ SameItems(queue, queue) /\ flush' = flush
      /\ Fates' = Fates /\ saves' = saves /\ ServerSame /\ UNCHANGED <<born, forgotten, reading>>
  BY SameRefl DEF RetryFailed, Remove, Clear, Network, Elapse, server, ServerSame, Fates, IInv, QueueInv
<1>2. Underway' = Underway /\ UNCHANGED <<copies, rows>>
  BY <1>1 DEF ServerSame, Underway
<1>3. ASSUME NEW ks \in SUBSET Present(queue), Present(queue') = Present(queue) \ ks,
             discarded' = discarded \cup ks
      PROVE  [Delivery!Next]_(Delivery!vars)
  <2>1. /\ Present(queue)' = Present(queue) \ ks
        /\ (discarded \cup forgotten)' = discarded \cup forgotten \cup (Present(queue) \ Present(queue)')
    BY <1>1, <1>3 DEF Present
  <2>2. Delivery!Remove
    BY <1>1, <1>2, <2>1 DEF Delivery!Remove, Delivery!serverVars
  <2> QED BY <2>2 DEF Delivery!Next
<1>4. CASE RetryFailed
  <2> DEFINE q == Marked(queue, Having(queue, "failed"), "pending")
  <2>1. q \in Queue /\ SameItems(queue, q) /\ WriteQueue(q, {})
    BY <1>1, <1>4, MarkedOK DEF RetryFailed, Statuses
  <2>2. Present(queue') = Present(queue) /\ discarded' = discarded
    BY <2>1, WriteSame
  <2> QED BY <1>1, <2>2, StutterMaps DEF QueueSame
<1>5. CASE Remove
  <2>1. PICK ks \in {{k} : k \in Present(queue)} \cup {Having(queue, "failed")} :
          WriteQueue(Without(queue, ks), ks)
    BY <1>5 DEF Remove
  <2>2. ks \in SUBSET Present(queue)
    BY DEF Having
  <2>3. Present(queue') = Present(queue) \ ks /\ discarded' = discarded \cup ks
    BY <1>1, <2>1, WriteWithout
  <2> QED BY <1>1, <1>3, <2>2, <2>3
<1>6. CASE Clear
  <2>1. WriteQueue(Empty, Present(queue)) /\ Empty \in Queue /\ Present(Empty) = {}
    BY <1>6 DEF Clear, Empty, Queue, Present
  <2>2. Fits(Empty)
    BY <2>1, FS_EmptySet, BoundsAssumption DEF Fits
  <2>3. Present(queue') = Present(queue) \ Present(queue) /\ discarded' = discarded \cup Present(queue)
    BY <2>1, <2>2, WriteFits
  <2> QED BY <1>1, <1>3, <2>3
<1>7. CASE Network
  BY <1>1, <1>7, StutterMaps DEF Network, storage, QueueSame
<1>8. ASSUME NEW k \in Keys, Elapse(k) PROVE [Delivery!Next]_(Delivery!vars)
  <2>1. /\ queue' = [queue EXCEPT ![k].due = TRUE] /\ queue[k] # None /\ discarded' = discarded
    BY <1>8 DEF Elapse
  <2>2. queue[k] \in Item
    BY <1>1, <2>1 DEF Queue
  <2>3. Present(queue') = Present(queue)
    BY <1>1, <2>1, <2>2, NoneIsOther DEF Queue, Item, Present
  <2> QED BY <1>1, <2>1, <2>3, StutterMaps DEF QueueSame
<1> QED BY <1>1, <1>4, <1>5, <1>6, <1>7, <1>8

LEMMA PageMaps ==
  ASSUME IInv, Todos(flush), Reload \/ Hydrate \/ LoadHistory \/ BootFallback
  PROVE  [Delivery!Next]_(Delivery!vars) /\ Todos(flush')
<1>1. ServerSame /\ Underway' = Underway /\ UNCHANGED <<copies, rows, born, saves>>
  BY DEF Reload, Hydrate, LoadHistory, BootFallback, server, ServerSame, Underway
<1>2. CASE Reload
  <2>1. ASSUME NEW s \in Submissions
        PROVE  Fates'[s] = IF Delivery!InHand(s) THEN "lost" ELSE Fates[s]
    <3>1. direct'[s] = IF direct[s] \in {"first", "fallback", "second"} THEN "lost" ELSE direct[s]
      BY <1>2 DEF Reload
    <3>2. direct[s] \in Steps /\ Fates'[s] = FateOf(direct'[s]) /\ Fates[s] = FateOf(direct[s])
      BY DEF Fates, IInv, DirectInv
    <3> QED BY <3>1, <3>2 DEF FateOf, Delivery!InHand, Steps
  <2>2. Fates' = [s \in Submissions |-> Fates'[s]]
    BY Zenon DEF Fates
  <2>3. Fates' = [s \in Submissions |-> IF Delivery!InHand(s) THEN "lost" ELSE Fates[s]]
    BY <2>1, <2>2, Zenon
  <2>4. (reading # None)' = TRUE /\ Present(queue)' = Present(queue)
        /\ (discarded \cup forgotten)' = discarded \cup forgotten
    BY <1>2, NoneIsOther DEF Reload, storage, Present, IInv, QueueInv
  <2>5. Delivery!Open
    BY <1>1, <2>3, <2>4 DEF Delivery!Open, Delivery!serverVars
  <2>6. Todos(flush')
    BY <1>2 DEF Reload, Todos, IdleRun
  <2> QED BY <2>5, <2>6 DEF Delivery!Next
<1>3. CASE Hydrate
  <2>1. /\ queue \in Queue /\ reading \in Queue /\ reading # None
        /\ Texted(queue, born) /\ Fits(queue) /\ Texted(reading, born) /\ Fits(reading)
    BY <1>3 DEF Hydrate, IInv, QueueInv
  <2>2. Hydration \in Queue /\ Texted(Hydration, born) /\ Fits(Hydration)
    BY <2>1 DEF Hydration
  <2>3. /\ queue' = Hydration /\ reading' = None /\ Fates' = Fates /\ flush' = flush
        /\ forgotten' = forgotten \cup (Present(queue) \ Present(Hydration))
        /\ UNCHANGED discarded
    BY <1>3 DEF Hydrate, Fates
  <2>4. Present(queue)' = Present(Hydration) /\ ~ (reading # None)'
    BY <2>3 DEF Present
  <2>5. Present(Hydration) \subseteq Delivery!Made
    BY <2>2, NoneIsOther DEF Delivery!Made, Texted, Present, Queue, Item
  <2>6. Delivery!Read
    BY <1>1, <2>1, <2>2, <2>3, <2>4, <2>5, CardinalityIs
       DEF Fits, Delivery!Read, Delivery!serverVars
  <2> QED BY <2>3, <2>6 DEF Delivery!Next
<1>4. CASE LoadHistory \/ BootFallback
  <2>1. Fates' = Fates /\ QueueSame /\ flush' = flush
    BY <1>4 DEF LoadHistory, BootFallback, storage, Fates, QueueSame
  <2> QED BY <1>1, <2>1, StutterMaps
<1> QED BY <1>2, <1>3, <1>4

LEMMA ServerMaps ==
  ASSUME IInv, OneRowPerSession, StoreReplay \/ StoreSave
  PROVE  [Delivery!Next]_(Delivery!vars) /\ flush' = flush
<1>1. /\ flush' = flush /\ Fates' = Fates /\ Present(queue)' = Present(queue)
      /\ (discarded \cup forgotten)' = discarded \cup forgotten /\ UNCHANGED <<born, reading>>
  BY DEF StoreReplay, StoreSave, storage, Fates, Present
<1>2. CASE StoreReplay
  <2>1. PICK r \in replays :
          /\ replays' = replays \ {r}
          /\ rows' = [rows EXCEPT ![r.session][r.key] = Inserted(@)]
    BY <1>2 DEF StoreReplay
  <2>2. r.session \in Sessions /\ r.key \in Keys /\ rows \in [Sessions -> [Keys -> Nat]]
    BY DEF IInv, FlushInv, Replay
  <2> DEFINE s == r.session
             k == r.key
  <2>3. Inserted(rows[s][k]) = 1
    <3>1. rows[s][k] \in Nat /\ rows[s][k] <= 1
      BY <2>2 DEF OneRowPerSession
    <3> QED BY <3>1 DEF Inserted
  <2>4. rows' = [rows EXCEPT ![s][k] = 1]
    BY <2>1, <2>2, <2>3
  <2>5. <<s, k>> \in Underway /\ Underway' \in {Underway, Underway \ {<<s, k>>}}
    <3>1. CASE \E o \in replays \ {r} : <<o.session, o.key>> = <<s, k>>
      BY <2>1, <3>1 DEF Underway
    <3>2. CASE ~ \E o \in replays \ {r} : <<o.session, o.key>> = <<s, k>>
      BY <2>1, <3>2 DEF Underway
    <3> QED BY <3>1, <3>2
  <2>6. UNCHANGED <<copies, saves>>
    BY <1>2 DEF StoreReplay
  <2>7. Delivery!Arrive(s, k)
    BY <1>1, <2>4, <2>5, <2>6 DEF Delivery!Arrive, Delivery!queueVars
  <2> QED BY <1>1, <2>2, <2>7 DEF Delivery!Next
<1>3. CASE StoreSave
  <2>1. PICK r \in saves : /\ saves' = saves \ {r}
                           /\ copies' = [copies EXCEPT ![r.of] = @ + 1]
    BY <1>3 DEF StoreSave
  <2>2. Underway' = Underway /\ rows' = rows
    BY <1>3 DEF StoreSave, Underway
  <2>3. Delivery!Land(r)
    BY <1>1, <2>1, <2>2 DEF Delivery!Land, Delivery!queueVars
  <2> QED BY <1>1, <2>3 DEF Delivery!Next
<1> QED BY <1>2, <1>3

-----------------------------------------------------------------------------
(* The refinement *)

\* Only a message that is queued makes a key.
LEMMA KeysMade ==
  ASSUME IInv, InOrder, [Next]_vars
  PROVE  InOrder' /\ \A k \in Keys : born[k] # None => born'[k] # None
<1>1. CASE UNCHANGED born
  BY <1>1 DEF InOrder
<1>2. ASSUME NEW s \in Submissions, Enqueue(s)
      PROVE  InOrder' /\ \A k \in Keys : born[k] # None => born'[k] # None
  <2>1. TextOf[s] # None /\ born \in [Keys -> Texts \cup {None}]
    BY MessagesAssumption, NoneIsOther DEF IInv, QueueInv
  <2>2. CASE born' = born
    BY <1>1, <2>2
  <2>3. ASSUME NEW key \in Keys, \A k \in Keys : k < key => born[k] # None,
               born' = [born EXCEPT ![key] = TextOf[s]]
        PROVE  InOrder' /\ \A k \in Keys : born[k] # None => born'[k] # None
    <3>1. \A k \in Keys : born'[k] # None <=> k = key \/ born[k] # None
      BY <2>1, <2>3
    <3> QED BY <2>3, <3>1 DEF InOrder
  <2> QED BY <1>2, <2>2, <2>3 DEF Enqueue
<1>3. UNCHANGED born \/ \E s \in Submissions : Enqueue(s)
  BY DEF Next, vars, Persisting, Submit, DirectSaved, FirstFails, SecondFails,
         Fallback, Flushing, Opened, Replayed, ReplayFails, AutoSync, ForceSync, BootFlush,
         RetryOne, RetryFailed, Remove, Clear, Elapse, Network, Reload, Hydrate,
         LoadHistory, BootFallback, StoreReplay, StoreSave
<1> QED BY <1>1, <1>2, <1>3

LEMMA DeliveryStep ==
  ASSUME IInv, DeliveryInv, OneRowPerSession, [Next]_vars
  PROVE  [Delivery!Next]_(Delivery!vars) /\ DeliveryInv'
<1>1. Todos(flush) /\ InOrder
  BY DEF DeliveryInv
<1>2. [Delivery!Next]_(Delivery!vars) /\ Todos(flush')
  <2>1. CASE UNCHANGED vars
    <3>1. /\ Fates' = Fates /\ QueueSame /\ ServerSame /\ saves' = saves /\ flush' = flush
      BY <2>1 DEF vars, storage, server, Fates, QueueSame, ServerSame
    <3> QED BY <1>1, <3>1, StutterMaps
  <2>2. ASSUME NEW s \in Submissions, Persisting(s)
        PROVE  [Delivery!Next]_(Delivery!vars) /\ Todos(flush')
    <3>1. flush' = flush
      BY <2>2 DEF Persisting, Submit, DirectSaved, FirstFails, SecondFails, Fallback
    <3> QED BY <1>1, <2>2, <3>1, PersistingMaps
  <2>3. ASSUME NEW f \in Flushes, Flushing(f)
        PROVE  [Delivery!Next]_(Delivery!vars) /\ Todos(flush')
    BY <1>1, <2>3, RunningMaps, StartingMaps DEF Flushing
  <2>4. CASE RetryFailed \/ Remove \/ Clear \/ Network \/ \E k \in Keys : Elapse(k)
    BY <1>1, <2>4, OwnerMaps
  <2>5. CASE Reload \/ Hydrate \/ LoadHistory \/ BootFallback
    BY <1>1, <2>5, PageMaps
  <2>6. CASE StoreReplay \/ StoreSave
    BY <1>1, <2>6, ServerMaps
  <2> QED BY <2>1, <2>2, <2>3, <2>4, <2>5, <2>6 DEF Next
<1>3. InOrder' /\ \A k \in Keys : born[k] # None => born'[k] # None
  BY <1>1, KeysMade
<1>4. Todos(flush)'
  <2>1. flush' \in [Flushes -> Run]
    BY StepKeepsAll DEF IInv, FlushInv
  <2>2. ASSUME NEW f \in Flushes, NEW k \in flush'[f].todo PROVE born'[k] # None
    <3>1. k \in Keys
      BY <2>1 DEF Run
    <3> QED BY <1>2, <1>3, <3>1 DEF Todos
  <2> QED BY <2>2 DEF Todos
<1> QED BY <1>2, <1>3, <1>4 DEF DeliveryInv

LEMMA DeliveryInit == Init => Delivery!Init /\ DeliveryInv
<1> SUFFICES ASSUME Init PROVE Delivery!Init /\ DeliveryInv
  OBVIOUS
<1>1. PICK t \in Left :
         /\ queue = Leftover(t) /\ reading = Leftover(t)
         /\ born = [k \in Keys |-> IF k = 1 THEN t ELSE None]
  BY DEF Init
<1>2. t \in Texts \cup {None} /\ IInv
  BY MessagesAssumption, InitOK
<1>3. /\ Leftover(t) \in Queue /\ Texted(Leftover(t), born) /\ Fits(Leftover(t))
      /\ \A k \in Keys : Leftover(t)[k] = None => k # 1 \/ t = None
  BY <1>1, <1>2, LeftoverOK
<1>4. Present(queue) = Delivery!Made
  <2>1. \A k \in Keys : queue[k] # None => born[k] # None
    BY <1>1, <1>3, NoneIsOther DEF Texted, Queue, Item
  <2>2. \A k \in Keys : born[k] # None => queue[k] # None
    BY <1>1, <1>3
  <2> QED BY <2>1, <2>2 DEF Delivery!Made, Present
<1>5. Fates = [s \in Submissions |-> "unsent"]
  BY DEF Fates, FateOf, Init
<1>6. Underway = {} /\ discarded \cup forgotten = {} /\ (reading # None) = TRUE
  BY <1>1, <1>3, NoneIsOther DEF Init, Underway
<1>7. Delivery!Cardinality(Present(queue)) <= MaxItems
  BY <1>1, <1>3, CardinalityIs DEF Fits
<1>8. born \in [Keys -> Texts \cup {None}]
  BY <1>1, <1>2
<1>9. Delivery!Init
  BY <1>4, <1>5, <1>6, <1>7, <1>8 DEF Init, Delivery!Init
<1>10. InOrder
  BY <1>1, BoundsAssumption DEF InOrder, Keys
<1>11. Todos(flush)
  BY DEF Init, Todos, IdleRun
<1> QED BY <1>9, <1>10, <1>11 DEF DeliveryInv

\* Whatever overlaps, is lost, arrives late or is left behind by a closed page, every
\* step of the hooks, the queue and the server is one that MessageDelivery allows: two
\* tries of a message, nothing taken off the queue before it is on the server or dropped
\* for any but the three reasons, the oldest pushed out first, and one row of an item in
\* a session.
THEOREM MessagesDelivered == Spec => DeliversMessages
<1>1. Init => Delivery!Init /\ DeliveryInv
  BY DeliveryInit
<1>2. IInv /\ DeliveryInv /\ OneRowPerSession /\ [Next]_vars
        => [Delivery!Next]_(Delivery!vars) /\ DeliveryInv'
  BY DeliveryStep
<1> QED BY <1>1, <1>2, Inductive, AtMostOneRow, PTL DEF Spec, DeliversMessages, Delivery!Spec
=============================================================================
