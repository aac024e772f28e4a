------------------------ MODULE PhoneCloudData_proofs ------------------------
(***************************************************************************)
(* Proofs about the iPhone's copy and outbox, for any number of accounts,  *)
(* actions, changes of the account and kills, and any limits.              *)
(***************************************************************************)
EXTENDS PhoneCloudData, FiniteSetTheorems, WellFoundedInduction, TLAPS

Outbox == [Actions -> Entry \cup {None}]

\* An entry in memory is of the account that its action was made for; so are the records
\* that were not sent after a change of the account.
EntryInv ==
  \A m \in Actions :
    /\ outbox[m] # None => outbox[m].account = made[m]
    /\ m \notin crossed => cloud[m] \cup keys[m] \subseteq {made[m]}

\* An entry in the file is of that account too.  The file has more than the memory has
\* only of actions that were not made or have expired, and less only of those that
\* are stored; what waits in memory may need a review there.
FileInv ==
  \A m \in Actions :
    /\ stored[m] # None /\ made[m] # None => stored[m].account = made[m]
    /\ stored[m] # None /\ made[m] = None => stored[m].state = "pending"
    /\ stored[m] # None /\ outbox[m] = None => m \in expired \/ made[m] = None
    /\ outbox[m] # None /\ stored[m] = None => cloud[m] # {} /\ outbox[m].state = "pending"
    /\ outbox[m] # None /\ stored[m] # None =>
         stored[m].state \in {outbox[m].state, "needsReview"}

\* A copy holds records of its account only, or is mixed.
Pure(copy) == copy.of \subseteq {copy.account} \/ copy.mixed

CopyInv == Pure(snapshot) /\ Pure(file) /\ Pure(run.copy)

\* What is uploaded are entries of the run's account that wait, or were removed
\* meanwhile, and the copy in memory is of that account or empty.  The record whose
\* answer is awaited is stored.
UploadInv ==
  Uploading =>
    /\ run.account \in Accounts /\ run.todo # {}
    /\ \A m \in run.todo : /\ made[m] = run.account
                           /\ outbox[m] # None => outbox[m].state = "pending"
    /\ snapshot.account \in {None, run.account}
    /\ run.sent # None /\ ~run.key => cloud[Current] # {}

\* As long as the account has not moved, it is the one that was read or checked.
MovedInv ==
  ~run.moved =>
    /\ Fetching /\ run.account # None => account = run.account
    /\ Uploading /\ run.checked /\ run.sent = None => account = run.account
    /\ Uploading /\ run.sent # None => run.sent = run.account

\* What a pass adds to is of the account it has read, and a run that waits for its next
\* pass has a copy.
FetchInv ==
  /\ Fetching /\ run.account # None => run.copy.account = run.account
  /\ run.phase = "pause" =>
       /\ run.account = None /\ run.copy.account \in Accounts
       /\ snapshot.account \in {None, run.copy.account}
  /\ run.phase \in {"fetch", "pause"} => run.pass \in 1 .. MaxPasses

Inv == /\ TypeOK /\ EntryInv /\ FileInv /\ CopyInv /\ UploadInv /\ MovedInv /\ FetchInv
       /\ ActionsKept

-----------------------------------------------------------------------------
(* Constants and the values of the operations *)

LEMMA NoneIsOther == None \notin Accounts /\ None \notin Entry
BY NoneAssumption

LEMMA ActionsFinite == IsFiniteSet(Actions) /\ Actions \subseteq Nat
<1>1. MaxActions \in Nat
  BY PhoneAssumption
<1>2. IsFiniteSet(1 .. MaxActions)
  BY <1>1, FS_Interval
<1> QED BY <1>1, <1>2 DEF Actions

\* A set of actions that is not empty has a first action.
LEMMA FirstIsIn ==
  ASSUME NEW S, S \subseteq Actions, S # {}
  PROVE  First(S) \in S
<1>1. S \subseteq Nat
  BY ActionsFinite
<1>2. PICK x \in S : \A y \in S : ~ (<<y, x>> \in OpToRel(<, Nat))
  BY <1>1, NatLessThanWellFounded, WFMin
<1>3. \A y \in S : x <= y
  <2>1. TAKE y \in S
  <2>2. <<y, x>> \in Nat \X Nat /\ ~ (y < x)
    BY <1>1, <1>2, <2>1 DEF OpToRel
  <2> QED BY <1>1, <2>2
<1> QED BY <1>3 DEF First

\* An outbox with entries for no other actions holds no more of them.
LEMMA FewerPresent ==
  ASSUME NEW q, NEW r, Present(q) \subseteq Present(r), Cardinality(Present(r)) <= MaxEntries
  PROVE  Cardinality(Present(q)) <= MaxEntries
<1>1. IsFiniteSet(Present(r)) /\ IsFiniteSet(Present(q))
  BY ActionsFinite, FS_Subset DEF Present
<1>2. /\ Cardinality(Present(q)) \in Nat /\ Cardinality(Present(r)) \in Nat
      /\ Cardinality(Present(q)) <= Cardinality(Present(r))
  BY <1>1, FS_Subset, FS_CardinalityType
<1>3. MaxEntries \in Nat
  BY PhoneAssumption
<1> QED BY <1>2, <1>3

\* r has the entries of q; those that wait may need a review now.
SameEntries(q, r) ==
  \A m \in Actions :
    /\ q[m] = None <=> r[m] = None
    /\ q[m] # None => r[m].account = q[m].account /\ r[m].state \in {q[m].state, "needsReview"}

\* An operation on the entry of one action
Changed(q, r, m) == \A n \in Actions \ {m} : r[n] = q[n]

LEMMA AttemptedOK ==
  ASSUME NEW q \in Outbox, NEW m \in Actions
  PROVE  /\ Attempted(q, m) \in Outbox /\ SameEntries(q, Attempted(q, m))
         /\ Changed(q, Attempted(q, m), m)
<1>1. CASE q[m] = None
  BY <1>1 DEF Attempted, SameEntries, Changed
<1>2. CASE q[m] # None
  <2> DEFINE tries == IF Spent(q[m].attempts) THEN q[m].attempts ELSE q[m].attempts + 1
             next == IF Spent(tries)
                     THEN [q[m] EXCEPT !.attempts = tries, !.state = "needsReview"]
                     ELSE [q[m] EXCEPT !.attempts = tries, !.due = FALSE]
  <2>1. q[m] \in Entry
    BY <1>2 DEF Outbox
  <2>2. tries \in 0 .. MaxAttempts
    BY <2>1, PhoneAssumption DEF Entry, Spent
  <2>3. /\ next \in Entry /\ next.account = q[m].account
        /\ next.state \in {q[m].state, "needsReview"}
    <3> HIDE DEF tries
    <3> QED BY <2>1, <2>2 DEF Entry
  <2>4. Attempted(q, m) = [q EXCEPT ![m] = next]
    BY <1>2 DEF Attempted
  <2> HIDE DEF next
  <2> QED BY <1>2, <2>3, <2>4, NoneIsOther DEF Outbox, SameEntries, Changed
<1> QED BY <1>1, <1>2

LEMMA ReviewedOK ==
  ASSUME NEW q \in Outbox, NEW m \in Actions
  PROVE  /\ Reviewed(q, m) \in Outbox /\ SameEntries(q, Reviewed(q, m))
         /\ Changed(q, Reviewed(q, m), m)
BY NoneIsOther DEF Reviewed, Outbox, Entry, SameEntries, Changed

LEMMA WithoutOK ==
  ASSUME NEW q \in Outbox, NEW m \in Actions
  PROVE  /\ Without(q, m) \in Outbox
         /\ \A n \in Actions : Without(q, m)[n] = IF n = m THEN None ELSE q[n]
BY DEF Without, Outbox

LEMMA MadeDueOK ==
  ASSUME NEW q \in Outbox, NEW a
  PROVE  /\ MadeDue(q, a) \in Outbox /\ SameEntries(q, MadeDue(q, a))
         /\ \A m \in Actions : q[m] # None => MadeDue(q, a)[m].state = q[m].state
<1>1. ASSUME NEW m \in Actions
      PROVE  /\ MadeDue(q, a)[m] \in Entry \cup {None}
             /\ q[m] = None <=> MadeDue(q, a)[m] = None
             /\ q[m] # None => /\ MadeDue(q, a)[m].account = q[m].account
                               /\ MadeDue(q, a)[m].state = q[m].state
  <2>1. MadeDue(q, a)[m] = IF q[m] # None /\ q[m].account = a /\ q[m].state = "pending"
                           THEN [q[m] EXCEPT !.due = TRUE] ELSE q[m]
    BY DEF MadeDue
  <2>2. q[m] # None => q[m] \in Entry /\ [q[m] EXCEPT !.due = TRUE] \in Entry
    BY DEF Outbox, Entry
  <2>3. q[m] # None => /\ [q[m] EXCEPT !.due = TRUE].account = q[m].account
                       /\ [q[m] EXCEPT !.due = TRUE].state = q[m].state
    BY <2>2 DEF Entry
  <2> QED BY <2>1, <2>2, <2>3, NoneIsOther DEF Outbox
<1>2. MadeDue(q, a) \in Outbox
  BY <1>1 DEF Outbox, MadeDue
<1> QED BY <1>1, <1>2 DEF SameEntries

LEMMA RipeOK ==
  ASSUME NEW q \in Outbox, NEW m \in Actions
  PROVE  /\ Ripe(q, m) \in Outbox /\ Changed(q, Ripe(q, m), m)
         /\ q[m] = None <=> Ripe(q, m)[m] = None
         /\ q[m] # None => /\ Ripe(q, m)[m].account = q[m].account
                           /\ Ripe(q, m)[m].state = q[m].state
BY NoneIsOther DEF Ripe, Outbox, Entry, Changed

LEMMA BatchOK ==
  ASSUME NEW q \in Outbox, NEW a
  PROVE  /\ Batch(q, a) \subseteq Actions
         /\ \A m \in Batch(q, a) : q[m] # None /\ q[m].account = a /\ q[m].state = "pending"
BY DEF Batch, Due, Present

LEMMA EmptyOK == Empty \in Copy /\ Pure(Empty) /\ Empty.account = None
BY DEF Copy, Empty, Pure

LEMMA ScopedOK ==
  ASSUME NEW copy \in Copy, Pure(copy), NEW a \in Accounts
  PROVE  Scoped(copy, a) \in Copy /\ Pure(Scoped(copy, a)) /\ Scoped(copy, a).account = a
BY DEF Copy, Empty, Scoped, Pure

\* A record of the account itself keeps a copy pure.
LEMMA MergedOK ==
  ASSUME run.moved \in BOOLEAN, NEW copy \in Copy, Pure(copy), NEW a \in Accounts, NEW b \in Accounts,
         copy.account \in {None, a}, ~run.moved => b = a
  PROVE  /\ Merged(copy, a, b) \in Copy /\ Pure(Merged(copy, a, b))
         /\ Merged(copy, a, b).account = a
<1>1. /\ Merged(copy, a, b) = [account |-> a, of |-> copy.of \cup {b},
                               mixed |-> copy.mixed \/ run.moved]
      /\ copy.of \subseteq Accounts /\ copy.mixed \in BOOLEAN
  BY DEF Merged, Copy
<1>2. (copy.mixed \/ run.moved) \in BOOLEAN
  BY <1>1
<1>3. Merged(copy, a, b) \in Copy
  BY <1>1, <1>2 DEF Copy
<1>4. ~copy.mixed => copy.of \subseteq {a}
  BY <1>1, NoneIsOther DEF Pure
<1>5. CASE copy.mixed \/ run.moved
  BY <1>1, <1>3, <1>5 DEF Pure
<1>6. CASE ~copy.mixed /\ ~run.moved
  <2>1. copy.of \cup {b} \subseteq {a}
    BY <1>4, <1>6
  <2> QED BY <1>1, <1>3, <2>1 DEF Pure
<1> QED BY <1>5, <1>6

-----------------------------------------------------------------------------
(* What runs become *)

LEMMA IdleOK ==
  /\ IdleRun \in Run /\ IdleRun.phase = "idle" /\ IdleRun.sent = None /\ ~IdleRun.moved
  /\ IdleRun.copy = Empty
<1>1. MaxPasses \in Nat \ {0}
  BY PhoneAssumption
<1> QED BY <1>1, EmptyOK DEF IdleRun, Run

LEMMA BeginSyncOK ==
  ASSUME NEW c \in Copy, BeginSync(c)
  PROVE  /\ run' \in Run /\ run'.phase = "fetch" /\ run'.account = None
         /\ run'.copy = c /\ run'.pass = 1 /\ timer' = FALSE
<1>1. MaxPasses \in Nat \ {0}
  BY PhoneAssumption
<1>2. /\ run' = [phase |-> "fetch", sync |-> TRUE, pass |-> 1, copy |-> c, account |-> None,
                todo |-> {}, key |-> FALSE, checked |-> FALSE, moved |-> FALSE, sent |-> None]
      /\ timer' = FALSE
  BY DEF BeginSync, IdleRun
<1> QED BY <1>1, <1>2 DEF Run

\* The first entry of todo is next; nothing of it is checked or sent yet.
LEMMA TurnOK ==
  ASSUME run \in Run, NEW a \in Accounts \cup {None}, NEW todo, todo \subseteq Actions
  PROVE  /\ Turn(todo, a) \in Run /\ Turn(todo, a).phase = "upload" /\ Turn(todo, a).sent = None
         /\ Turn(todo, a).copy = Empty /\ Turn(todo, a).todo = todo /\ Turn(todo, a).account = a
         /\ ~Turn(todo, a).checked
<1> DEFINE key == IsChat(First(todo))
<1>1. key \in BOOLEAN
  BY DEF IsChat
<1>2. MaxPasses \in Nat \ {0} /\ Empty \in Copy
  BY PhoneAssumption, EmptyOK
<1>3. Turn(todo, a) = [phase |-> "upload", sync |-> run.sync, pass |-> 0, copy |-> Empty,
                       account |-> a, todo |-> todo, key |-> key, checked |-> FALSE,
                       moved |-> FALSE, sent |-> None]
  <2>1. Turn(todo, a) = [IdleRun EXCEPT !.phase = "upload", !.sync = run.sync, !.account = a,
                                        !.todo = todo, !.key = key]
    BY DEF Turn
  <2> HIDE DEF key
  <2> QED BY <2>1 DEF IdleRun
<1> HIDE DEF key
<1> QED BY <1>1, <1>2, <1>3 DEF Run

\* A run that is new to what it does, if it does anything.
Fresh(r) == r.phase \in {"idle", "upload"} /\ r.sent = None /\ r.copy = Empty
            /\ (r.phase = "upload" => ~r.checked)

\* A run begins to upload: what it sends is of the account and waits in the outbox.
LEMMA BeginUploadsOK ==
  ASSUME run \in Run, NEW a \in Accounts, NEW q \in Outbox, BeginUploads(a, q)
  PROVE  /\ run' \in Run /\ Fresh(run')
         /\ run'.phase = "upload" =>
              /\ run'.account = a /\ run'.todo # {}
              /\ \A m \in run'.todo :
                   q[m] # None /\ q[m].account = a /\ q[m].state = "pending"
<1>1. CASE Batch(q, a) = {}
  BY <1>1, IdleOK DEF BeginUploads, Fresh
<1>2. CASE Batch(q, a) # {}
  <2>1. run' = Turn(Batch(q, a), a)
    BY <1>2 DEF BeginUploads
  <2> QED BY <1>2, <2>1, BatchOK, TurnOK DEF Fresh
<1> QED BY <1>1, <1>2

\* The current entry is one of those to send.
LEMMA CurrentOK ==
  ASSUME TypeOK, UploadInv, Uploading
  PROVE  Current \in run.todo /\ Current \in Actions
<1>1. run.todo \subseteq Actions /\ run.todo # {}
  BY DEF TypeOK, Run, UploadInv
<1> QED BY <1>1, FirstIsIn DEF Current

\* A run goes on with the entries after the current one, or ends.
LEMMA NextEntryOK ==
  ASSUME TypeOK, Uploading, NEW q, NextEntry(q)
  PROVE  /\ run' \in Run /\ Fresh(run') /\ timer' \in BOOLEAN
         /\ run'.phase = "upload" =>
              /\ run'.account = run.account /\ run'.todo # {}
              /\ run'.todo = run.todo \ {Current}
<1> DEFINE rest == run.todo \ {Current}
<1>1. /\ run \in Run /\ rest \subseteq Actions /\ timer \in BOOLEAN /\ enabled \in BOOLEAN
      /\ run.account \in Accounts \cup {None}
  BY DEF TypeOK, Run
<1>2. CASE rest = {}
  BY <1>1, <1>2, IdleOK DEF NextEntry, EndUploads, ScheduleRetry, Fresh
<1>3. CASE rest # {}
  BY <1>1, <1>3, TurnOK DEF NextEntry, Fresh
<1> QED BY <1>2, <1>3

-----------------------------------------------------------------------------
(* The invariant *)

LEMMA InitInv == Init => Inv
<1> SUFFICES ASSUME Init PROVE Inv
  OBVIOUS
<1>1. /\ Present(outbox) = {} /\ Present(stored) = {} /\ MaxEntries \in Nat /\ MaxUpsets \in Nat
  BY PhoneAssumption DEF Init, Present
<1>2. \A q \in {outbox, stored} : Cardinality(Present(q)) <= MaxEntries
  BY <1>1, FS_EmptySet
<1>3. TypeOK
  <2>1. account \in Accounts \cup {None} /\ run \in Run /\ snapshot \in Copy /\ file \in Copy
    BY IdleOK, EmptyOK, PhoneAssumption DEF Init
  <2>2. 0 \in 0 .. MaxUpsets
    BY <1>1
  <2> QED BY <1>2, <2>1, <2>2 DEF Init, TypeOK
<1>4. EntryInv /\ FileInv /\ ActionsKept
  BY DEF Init, EntryInv, FileInv, ActionsKept
<1>5. CopyInv /\ UploadInv /\ MovedInv /\ FetchInv
  BY IdleOK, EmptyOK DEF Init, CopyInv, UploadInv, MovedInv, FetchInv, Uploading, Fetching
<1> QED BY <1>3, <1>4, <1>5 DEF Inv

\* The types of what the steps read.
LEMMA Typed ==
  ASSUME TypeOK
  PROVE  /\ account \in Accounts \cup {None} /\ enabled \in BOOLEAN /\ timer \in BOOLEAN
         /\ snapshot \in Copy /\ file \in Copy /\ outbox \in Outbox /\ stored \in Outbox
         /\ run \in Run /\ run.copy \in Copy /\ run.account \in Accounts \cup {None}
         /\ run.moved \in BOOLEAN /\ run.sent \in Accounts \cup {None}
         /\ snapshot.account \in Accounts \cup {None} /\ run.todo \subseteq Actions
         /\ Cardinality(Present(outbox)) <= MaxEntries
         /\ Cardinality(Present(stored)) <= MaxEntries
BY DEF TypeOK, Run, Copy, Outbox

\* What holds of the outbox and its file
QueueOK == /\ outbox \in Outbox /\ stored \in Outbox
           /\ Cardinality(Present(outbox)) <= MaxEntries
           /\ Cardinality(Present(stored)) <= MaxEntries
           /\ EntryInv /\ FileInv /\ ActionsKept

LEMMA QueueHolds == Inv => QueueOK
BY Typed DEF Inv, QueueOK

\* Nothing is sent, made or removed.
Settled == UNCHANGED <<cloud, keys, crossed, made, gone, expired>>

\* q has the entries of the outbox, but perhaps none for a record that is stored.
EntriesOf(q) ==
  \A m \in Actions :
    /\ q[m] # None => /\ outbox[m] # None /\ q[m].account = outbox[m].account
                      /\ q[m].state \in {outbox[m].state, "needsReview"}
    /\ q[m] = None /\ outbox[m] # None => cloud[m] # {} /\ outbox[m].state = "pending"

\* However a commit of such a q ends, no entry is lost in memory or in the file.
LEMMA CommitOK ==
  ASSUME Inv, Settled, NEW q \in Outbox, EntriesOf(q), NEW end, Commit(q, end)
  PROVE  /\ QueueOK'
         /\ \A m \in Actions : outbox'[m] # None => outbox[m] # None
<1>1. Present(q) \subseteq Present(outbox)
  BY DEF Present, EntriesOf
<1>2. Cardinality(Present(q)) <= MaxEntries
  BY <1>1, FewerPresent, Typed DEF Inv
<1>3. \/ stored' = q /\ outbox' \in {outbox, q}
      \/ stored' = stored /\ outbox' = outbox
  BY DEF Commit
<1>4. /\ outbox' \in Outbox /\ stored' \in Outbox
      /\ Cardinality(Present(outbox')) <= MaxEntries /\ Cardinality(Present(stored')) <= MaxEntries
  BY <1>2, <1>3, Typed DEF Inv
<1>5. EntryInv'
  BY <1>3 DEF Settled, Inv, EntryInv, EntriesOf
<1>6. ActionsKept'
  BY <1>3 DEF Settled, Inv, ActionsKept, EntriesOf, Present
<1>7. \A m \in Actions : made[m] = None => outbox[m] = None
  BY NoneIsOther, Typed DEF Inv, EntryInv, Outbox, Entry
<1>8. ASSUME stored' = q PROVE FileInv'
  <2> SUFFICES ASSUME NEW m \in Actions
               PROVE  /\ q[m] # None /\ made[m] # None => q[m].account = made[m]
                      /\ q[m] # None => made[m] # None
                      /\ q[m] # None => outbox'[m] # None
                      /\ outbox'[m] # None /\ q[m] = None =>
                           cloud[m] # {} /\ outbox'[m].state = "pending"
                      /\ outbox'[m] # None /\ q[m] # None =>
                           q[m].state \in {outbox'[m].state, "needsReview"}
    BY <1>8 DEF Settled, FileInv
  <2>1. outbox' \in {outbox, q}
    BY <1>3, <1>8
  <2> QED BY <2>1, <1>7 DEF EntriesOf, Inv, EntryInv
<1>9. ASSUME stored' = stored /\ outbox' = outbox PROVE FileInv'
  BY <1>9 DEF Settled, Inv, FileInv
<1> QED BY <1>3, <1>4, <1>5, <1>6, <1>8, <1>9 DEF QueueOK, EntriesOf

LEMMA EntriesSame ==
  ASSUME NEW q, SameEntries(outbox, q)
  PROVE  EntriesOf(q)
BY DEF SameEntries, EntriesOf

LEMMA QueueKept ==
  ASSUME Inv, Settled, UNCHANGED queue
  PROVE  QueueOK'
BY QueueHolds DEF Settled, queue, QueueOK, EntryInv, FileInv, ActionsKept, Present

\* The outbox is emptied, and its file removed.
LEMMA ClearedOK ==
  ASSUME Inv, Cleared, UNCHANGED <<cloud, keys, crossed, made, expired>>
  PROVE  /\ QueueOK' /\ gone' \subseteq Actions
         /\ \A m \in Actions : outbox'[m] = None
<1>1. /\ outbox' \in Outbox /\ stored' \in Outbox
      /\ \A m \in Actions : outbox'[m] = None /\ stored'[m] = None
  BY DEF Cleared, Commit, Outbox
<1>2. Present(outbox') \subseteq Present(outbox) /\ Present(stored') \subseteq Present(outbox)
  BY <1>1 DEF Present
<1>3. Cardinality(Present(outbox')) <= MaxEntries /\ Cardinality(Present(stored')) <= MaxEntries
  BY <1>2, FewerPresent, Typed DEF Inv
<1>4. gone' \subseteq Actions /\ gone \subseteq gone' /\ Present(outbox) \subseteq gone'
  BY DEF Cleared, Inv, TypeOK, Present
<1>5. ActionsKept'
  BY <1>4 DEF Inv, ActionsKept
<1>6. EntryInv' /\ FileInv'
  BY <1>1 DEF Inv, EntryInv, FileInv
<1> QED BY <1>1, <1>3, <1>4, <1>5, <1>6 DEF QueueOK

-----------------------------------------------------------------------------
(* The parts of the invariant, and what keeps them *)

OthersOK ==
  /\ account \in Accounts \cup {None} /\ notice \in BOOLEAN /\ enabled \in BOOLEAN
  /\ timer \in BOOLEAN
  /\ cloud \in [Actions -> SUBSET Accounts] /\ keys \in [Actions -> SUBSET Accounts]
  /\ edited \subseteq Actions /\ expired \subseteq Actions
  /\ made \in [Actions -> Accounts \cup {None}] /\ signer \in [Actions -> Actions]
  /\ gone \subseteq Actions /\ crossed \subseteq Actions /\ upsets \in 0 .. MaxUpsets

CopiesOK == snapshot \in Copy /\ file \in Copy /\ Pure(snapshot) /\ Pure(file)

RunOK == run \in Run /\ Pure(run.copy) /\ UploadInv /\ MovedInv /\ FetchInv

LEMMA Parts ==
  ASSUME Inv
  PROVE  OthersOK /\ CopiesOK /\ RunOK /\ QueueOK
BY QueueHolds, Typed DEF Inv, TypeOK, CopyInv, OthersOK, CopiesOK, RunOK

LEMMA Whole ==
  ASSUME OthersOK', CopiesOK', RunOK', QueueOK'
  PROVE  Inv'
<1>1. TypeOK'
  BY DEF OthersOK, CopiesOK, RunOK, QueueOK, TypeOK, Outbox
<1>2. CopyInv'
  BY DEF CopiesOK, RunOK, CopyInv
<1> QED BY <1>1, <1>2 DEF RunOK, QueueOK, Inv

\* A run that is new to what it does
LEMMA FreshOK ==
  ASSUME run' \in Run, Fresh(run'), UploadInv'
  PROVE  RunOK'
<1>1. MovedInv'
  BY DEF Fresh, MovedInv, Fetching, Uploading
<1>2. FetchInv'
  BY DEF Fresh, FetchInv, Fetching
<1>3. Pure(run'.copy)
  BY EmptyOK DEF Fresh
<1>4. Pure(run.copy)'
  BY <1>3 DEF Pure
<1> QED BY <1>1, <1>2, <1>4 DEF RunOK

LEMMA IdleRunOK ==
  ASSUME run' = IdleRun
  PROVE  RunOK'
BY IdleOK, FreshOK DEF Fresh, UploadInv, Uploading

LEMMA SyncBegins ==
  ASSUME NEW c \in Copy, Pure(c), BeginSync(c)
  PROVE  RunOK' /\ timer' = FALSE
<1>1. MaxPasses \in Nat \ {0}
  BY PhoneAssumption
<1>2. /\ run' \in Run /\ run'.phase = "fetch" /\ run'.account = None
      /\ run'.copy = c /\ run'.pass = 1 /\ timer' = FALSE
  BY BeginSyncOK
<1>3. UploadInv' /\ MovedInv'
  BY <1>2 DEF UploadInv, MovedInv, Uploading, Fetching
<1>4. FetchInv'
  BY <1>1, <1>2 DEF FetchInv, Fetching
<1>5. Pure(run.copy)'
  BY <1>2 DEF Pure
<1> QED BY <1>2, <1>3, <1>4, <1>5 DEF RunOK

\* Uploads begin, for the account of the copy in memory or after it was cleared.
LEMMA UploadsBegin ==
  ASSUME run \in Run, NEW a \in Accounts, BeginUploads(a, outbox'), QueueOK',
         snapshot'.account \in {None, a}
  PROVE  RunOK'
<1> DEFINE q == outbox'
<1>1. q \in Outbox /\ BeginUploads(a, q)
  BY DEF QueueOK
<1> HIDE DEF q
<1>2. /\ run' \in Run /\ Fresh(run')
      /\ run'.phase = "upload" =>
           /\ run'.account = a /\ run'.todo # {}
           /\ \A m \in run'.todo : q[m] # None /\ q[m].account = a /\ q[m].state = "pending"
  BY <1>1, BeginUploadsOK
<1>3. UploadInv'
  <2>1. SUFFICES ASSUME run'.phase = "upload"
                 PROVE  /\ run'.account \in Accounts /\ run'.todo # {}
                        /\ \A m \in run'.todo :
                             /\ made'[m] = run'.account
                             /\ outbox'[m] # None => outbox'[m].state = "pending"
                        /\ snapshot'.account \in {None, run'.account}
                        /\ run'.sent = None
    BY DEF UploadInv, Uploading
  <2>2. \A m \in run'.todo : m \in Actions /\ outbox'[m] # None /\ outbox'[m].account = a
                             /\ outbox'[m].state = "pending"
    BY <1>2, <2>1 DEF q, Run
  <2>3. \A m \in run'.todo : made'[m] = a
    BY <2>2 DEF QueueOK, EntryInv
  <2> QED BY <1>2, <2>1, <2>2, <2>3 DEF Fresh
<1> QED BY <1>2, <1>3, FreshOK

\* What leaves the run alone keeps what holds of it, if the copy in memory is kept or
\* cleared and the entries wait, or are removed.
LEMMA RunKept ==
  ASSUME Inv, UNCHANGED <<run, made, cloud, account>>,
         snapshot' \in {snapshot, Empty},
         \A m \in Actions :
           outbox'[m] # None => outbox[m] # None /\ outbox'[m].state = outbox[m].state
  PROVE  RunOK'
<1>1. run.todo \subseteq Actions /\ run \in Run
  BY Typed DEF Inv
<1>2. UploadInv'
  BY <1>1, EmptyOK DEF Inv, UploadInv, Uploading, Current
<1>3. MovedInv' /\ FetchInv'
  BY EmptyOK DEF Inv, MovedInv, FetchInv, Uploading, Fetching
<1>4. Pure(run.copy)'
  BY DEF Inv, CopyInv, Pure
<1> QED BY <1>1, <1>2, <1>3, <1>4 DEF RunOK

-----------------------------------------------------------------------------
(* The steps *)

\* A sync or a timer starts.
LEMMA StartInv ==
  ASSUME Inv, \/ StartSync \/ TimerFires \/ Enable
              \/ \E end \in Ends \ {"failed"} : RetryPending(end)
  PROVE  Inv'
<1>1. snapshot \in Copy /\ Pure(snapshot)
  BY Typed DEF Inv, CopyInv
<1>2. /\ Settled /\ UNCHANGED <<signer, snapshot, file, account, notice, edited, upsets>>
      /\ enabled' \in BOOLEAN
      /\ BeginSync(snapshot) \/ (run' = run /\ timer' \in BOOLEAN)
  <2>1. enabled \in BOOLEAN /\ timer \in BOOLEAN
    BY Typed DEF Inv
  <2>2. ASSUME NEW end, RetryPending(end)
        PROVE  /\ Settled /\ UNCHANGED <<signer, snapshot, file, account, notice, edited, upsets>>
               /\ enabled' = enabled
               /\ BeginSync(snapshot) \/ (run' = run /\ timer' = timer)
    BY <2>2 DEF RetryPending, Settled, outside, ever, icloud, copies
  <2> QED BY <2>1, <2>2 DEF StartSync, TimerFires, Enable, Settled, outside, ever, icloud, copies
<1>3. QueueOK' /\ \A m \in Actions :
                    outbox'[m] # None => outbox[m] # None /\ outbox'[m].state = outbox[m].state
  <2>1. ASSUME NEW end, RetryPending(end)
        PROVE  QueueOK' /\ \A m \in Actions :
                 outbox'[m] # None => outbox[m] # None /\ outbox'[m].state = outbox[m].state
    <3> DEFINE q == MadeDue(outbox, snapshot.account)
    <3>1. /\ q \in Outbox /\ SameEntries(outbox, q)
          /\ \A m \in Actions : outbox[m] # None => q[m].state = outbox[m].state
      BY MadeDueOK, Typed DEF Inv
    <3>2. Commit(q, end)
      BY <2>1 DEF RetryPending
    <3>3. outbox' \in {outbox, q}
      BY <3>2 DEF Commit
    <3> HIDE DEF q
    <3>4. QueueOK'
      BY <1>2, <3>1, <3>2, CommitOK, EntriesSame
    <3> QED BY <3>1, <3>3, <3>4 DEF SameEntries
  <2>2. CASE UNCHANGED queue
    BY <1>2, <2>2, QueueKept DEF queue
  <2> QED BY <2>1, <2>2 DEF StartSync, TimerFires, Enable
<1>4. RunOK' /\ timer' \in BOOLEAN
  <2>1. CASE BeginSync(snapshot)
    BY <1>1, <2>1, SyncBegins
  <2>2. CASE run' = run /\ timer' \in BOOLEAN
    BY <1>2, <1>3, <2>2, RunKept DEF Settled
  <2> QED BY <1>2, <2>1, <2>2
<1>5. OthersOK'
  BY <1>2, <1>4, Parts DEF OthersOK, Settled
<1>6. CopiesOK'
  BY <1>2, Parts DEF CopiesOK, Pure
<1> QED BY <1>3, <1>4, <1>5, <1>6, Whole

\* A step of a sync changes the run and the copy only.
LEMMA SyncInv ==
  ASSUME Inv, SyncStep
  PROVE  Inv'
<1>1. /\ Settled /\ UNCHANGED <<signer, account, notice, edited, upsets, enabled, queue>>
  BY DEF SyncStep, ReadAccount, FetchPage, PauseEnds, SyncFails, SyncSignedOut, Fetched,
         Settled, outside, ever, icloud, device
<1>2. QueueOK' /\ outbox' = outbox
  BY <1>1, QueueKept DEF queue
<1>3. /\ run \in Run /\ run.copy \in Copy /\ Pure(run.copy) /\ run.moved \in BOOLEAN
      /\ snapshot \in Copy /\ Pure(snapshot) /\ file \in Copy /\ Pure(file)
      /\ account \in Accounts \cup {None} /\ run.account \in Accounts \cup {None}
      /\ enabled \in BOOLEAN /\ timer \in BOOLEAN
  BY Typed DEF Inv, CopyInv
<1>4. SUFFICES /\ RunOK' /\ timer' \in BOOLEAN
               /\ snapshot' \in {snapshot, run.copy, Empty} /\ file' \in {file, run.copy, Empty}
  <2>1. OthersOK'
    BY <1>1, <1>4, Parts DEF OthersOK, Settled
  <2>2. snapshot' \in Copy /\ file' \in Copy /\ Pure(snapshot') /\ Pure(file')
    BY <1>3, <1>4, EmptyOK
  <2>3. CopiesOK'
    BY <2>2 DEF CopiesOK, Pure
  <2> QED BY <1>2, <1>4, <2>1, <2>3, Whole
<1>5. CASE ReadAccount
  <2>1. /\ Fetching /\ account \in Accounts
        /\ run' = [run EXCEPT !.account = account, !.copy = Scoped(run.copy, account)]
        /\ UNCHANGED <<account, snapshot, file, timer>>
    BY <1>3, <1>5 DEF ReadAccount, device, copies, outside
  <2>2. /\ Scoped(run.copy, account) \in Copy /\ Pure(Scoped(run.copy, account))
        /\ Scoped(run.copy, account).account = account
    BY <1>3, <2>1, ScopedOK
  <2> DEFINE c == Scoped(run.copy, account)
  <2>3. run' = [run EXCEPT !.account = account, !.copy = c]
    BY <2>1
  <2> HIDE DEF c
  <2>4. /\ run' \in Run /\ run'.phase = "fetch" /\ run'.account = account /\ run'.copy = c
        /\ run'.pass = run.pass
    BY <1>3, <2>1, <2>2, <2>3 DEF Run, Fetching, c
  <2>5. UploadInv' /\ MovedInv'
    BY <2>1, <2>4 DEF UploadInv, MovedInv, Uploading, Fetching
  <2>6. FetchInv'
    BY <2>1, <2>2, <2>4 DEF FetchInv, Fetching, Inv, c
  <2>7. Pure(run.copy)'
    BY <2>2, <2>4 DEF Pure, c
  <2> QED BY <2>1, <2>4, <2>5, <2>6, <2>7, <1>3 DEF RunOK
<1>6. CASE FetchPage
  <2> DEFINE c == Merged(run.copy, run.account, account)
  <2>1. /\ Fetching /\ account \in Accounts /\ run.account \in Accounts
        /\ run' = [run EXCEPT !.copy = c]
        /\ UNCHANGED <<account, snapshot, file, timer>>
    BY <1>3, <1>6 DEF FetchPage, device, copies, outside
  <2>2. run.copy.account = run.account /\ (~run.moved => account = run.account)
    BY <2>1, NoneIsOther DEF Inv, FetchInv, MovedInv
  <2>3. c \in Copy /\ Pure(c) /\ c.account = run.account
    BY <1>3, <2>1, <2>2, MergedOK
  <2> HIDE DEF c
  <2>4. /\ run' \in Run /\ run'.phase = "fetch" /\ run'.account = run.account /\ run'.copy = c
        /\ run'.pass = run.pass /\ run'.moved = run.moved
    BY <1>3, <2>1, <2>3 DEF Run, Fetching
  <2>5. UploadInv' /\ MovedInv'
    BY <2>1, <2>2, <2>4 DEF UploadInv, MovedInv, Uploading, Fetching
  <2>6. FetchInv'
    BY <2>1, <2>3, <2>4 DEF FetchInv, Fetching, Inv
  <2>7. Pure(run.copy)'
    BY <2>3, <2>4 DEF Pure
  <2> QED BY <2>1, <2>4, <2>5, <2>6, <2>7, <1>3 DEF RunOK
<1>7. ASSUME NEW more \in BOOLEAN, Fetched(more)
      PROVE  /\ RunOK' /\ timer' \in BOOLEAN
             /\ snapshot' = run.copy /\ file' = run.copy
  <2>1. /\ Fetching /\ run.account \in Accounts /\ snapshot' = run.copy /\ file' = run.copy
        /\ timer' = timer /\ run.copy.account = run.account
    BY <1>3, <1>7 DEF Fetched, Inv, FetchInv
  <2>2. CASE more
    <3>1. run' = [run EXCEPT !.phase = "pause", !.account = None, !.moved = FALSE]
      BY <1>7, <2>2 DEF Fetched
    <3>2. /\ run' \in Run /\ run'.phase = "pause" /\ run'.copy = run.copy /\ run'.pass = run.pass
          /\ run'.account = None
      BY <1>3, <3>1 DEF Run
    <3>3. UploadInv' /\ MovedInv'
      BY <3>2 DEF UploadInv, MovedInv, Uploading, Fetching
    <3>4. FetchInv'
      BY <2>1, <3>2 DEF FetchInv, Fetching, Inv
    <3>5. Pure(run.copy)'
      BY <1>3, <3>2 DEF Pure
    <3> QED BY <1>3, <2>1, <3>2, <3>3, <3>4, <3>5 DEF RunOK
  <2>3. CASE ~more
    <3>1. BeginUploads(run.account, outbox')
      BY <1>2, <1>7, <2>3 DEF Fetched
    <3> QED BY <1>2, <1>3, <2>1, <3>1, UploadsBegin
  <2> QED BY <2>1, <2>2, <2>3
<1>8. CASE PauseEnds
  <2>1. /\ run.phase = "pause" /\ UNCHANGED <<snapshot, file>>
        /\ run.copy.account \in Accounts /\ snapshot.account \in {None, run.copy.account}
        /\ run.pass \in 1 .. MaxPasses /\ MaxPasses \in Nat
    BY <1>8, PhoneAssumption DEF PauseEnds, copies, Inv, FetchInv
  <2>2. CASE run.pass < MaxPasses /\ run' = [run EXCEPT !.phase = "fetch", !.pass = @ + 1]
             /\ timer' = timer
    <3> DEFINE p == run.pass + 1
    <3>1. p \in 1 .. MaxPasses /\ p \in 0 .. MaxPasses
      BY <2>1, <2>2
    <3> HIDE DEF p
    <3>7. run' = [run EXCEPT !.phase = "fetch", !.pass = p]
      BY <2>2 DEF p
    <3>2. /\ run' \in Run /\ run'.phase = "fetch" /\ run'.copy = run.copy
          /\ run'.pass \in 1 .. MaxPasses /\ run'.account = run.account /\ run'.moved = run.moved
      BY <1>3, <3>1, <3>7 DEF Run
    <3>3. UploadInv'
      BY <3>2 DEF UploadInv, Uploading
    <3>4. run.account = None
      BY <2>1 DEF Inv, FetchInv
    <3>5. FetchInv' /\ MovedInv'
      BY <3>2, <3>4 DEF FetchInv, MovedInv, Fetching, Uploading
    <3>6. Pure(run.copy)'
      BY <1>3, <3>2 DEF Pure
    <3> QED BY <1>3, <2>1, <2>2, <3>2, <3>3, <3>5, <3>6 DEF RunOK
  <2>3. CASE BeginUploads(run.copy.account, outbox) /\ ScheduleRetry
    BY <1>2, <1>3, <2>1, <2>3, UploadsBegin DEF ScheduleRetry
  <2> QED BY <1>8, <2>2, <2>3 DEF PauseEnds
<1>9. CASE SyncFails
  BY <1>3, <1>9, IdleRunOK DEF SyncFails, ScheduleRetry
<1>10. CASE SyncSignedOut
  BY <1>3, <1>10, IdleRunOK DEF SyncSignedOut
<1> QED BY <1>5, <1>6, <1>7, <1>8, <1>9, <1>10 DEF SyncStep

\* What an upload knows of its current entry.
LEMMA UploadKeeps ==
  ASSUME Inv, Uploading
  PROVE  /\ Current \in run.todo /\ Current \in Actions
         /\ run.account \in Accounts /\ made[Current] = run.account /\ made[Current] # None
         /\ outbox[Current] # None => outbox[Current].state = "pending"
         /\ snapshot.account \in {None, run.account}
BY CurrentOK, NoneIsOther DEF Inv, UploadInv

\* What it knows when the record is saved.
LEMMA SavedOK ==
  ASSUME Inv, NEW a \in Accounts, Saved(a)
  PROVE  /\ Uploading /\ UploadedCopy(a) \in Copy /\ Pure(UploadedCopy(a))
         /\ UploadedCopy(a).account = run.account
         /\ ~run.key => cloud[Current] # {}
<1>1. Uploading
  BY DEF Saved, Ready
<1>2. ~run.moved => a = run.account
  BY <1>1 DEF Saved, Ready, Inv, MovedInv
<1>3. /\ UploadedCopy(a) \in Copy /\ Pure(UploadedCopy(a))
      /\ UploadedCopy(a).account = run.account
  BY <1>1, <1>2, UploadKeeps, Parts, MergedOK, Typed DEF Inv, CopiesOK, UploadedCopy
<1>4. ~run.key => cloud[Current] # {}
  BY <1>1 DEF Saved, Inv, UploadInv
<1> QED BY <1>1, <1>3, <1>4

\* The upload goes on with the next entry, or ends.
LEMMA NextKeeps ==
  ASSUME Inv, Uploading, NextEntry(outbox'), made' = made,
         snapshot'.account \in {None, run.account},
         \A m \in Actions \ {Current} : outbox'[m] = outbox[m]
  PROVE  RunOK' /\ timer' \in BOOLEAN
<1> DEFINE q == outbox'
<1>1. NextEntry(q) /\ TypeOK
  BY DEF Inv
<1> HIDE DEF q
<1>2. /\ run' \in Run /\ Fresh(run') /\ timer' \in BOOLEAN
      /\ run'.phase = "upload" =>
           /\ run'.account = run.account /\ run'.todo # {}
           /\ run'.todo = run.todo \ {Current}
  BY <1>1, NextEntryOK
<1>3. UploadInv'
  <2>1. SUFFICES ASSUME run'.phase = "upload"
                 PROVE  /\ run'.account \in Accounts /\ run'.todo # {}
                        /\ \A m \in run'.todo :
                             /\ made'[m] = run'.account
                             /\ outbox'[m] # None => outbox'[m].state = "pending"
                        /\ snapshot'.account \in {None, run'.account}
                        /\ run'.sent = None
    BY DEF UploadInv, Uploading
  <2>2. run.todo \subseteq Actions /\ run.account \in Accounts
    BY UploadKeeps, Typed DEF Inv
  <2>3. \A m \in run.todo \ {Current} :
          /\ made[m] = run.account
          /\ outbox[m] # None => outbox[m].state = "pending"
    BY DEF Inv, UploadInv
  <2> QED BY <1>2, <2>1, <2>2, <2>3 DEF Fresh
<1> QED BY <1>2, <1>3, FreshOK

\* A record or a device key gets to an iCloud: everything but the records and the run
\* is kept.
LEMMA SentInv ==
  ASSUME Inv, Ready, Sends, UNCHANGED <<device, ever, outside>>,
         cloud' \in {cloud, [cloud EXCEPT ![Current] = @ \cup {account}]},
         keys' \in {keys, [keys EXCEPT ![Current] = @ \cup {account}]},
         run.key \/ cloud'[Current] # {}
  PROVE  Inv'
<1>1. /\ Uploading /\ run.checked /\ run.sent = None /\ account \in Accounts
      /\ run' = [run EXCEPT !.sent = account]
      /\ UNCHANGED <<enabled, snapshot, file, outbox, stored, timer, made, signer, gone,
                     account, notice, edited, expired, upsets>>
      /\ crossed' = IF run.moved THEN crossed \cup {Current} ELSE crossed
  BY Typed DEF Inv, Ready, Sends, device, copies, queue, ever, outside
<1>2. Current \in Actions /\ made[Current] = run.account /\ run \in Run
  BY <1>1, UploadKeeps, Typed DEF Inv
<1>3. /\ cloud' \in [Actions -> SUBSET Accounts] /\ keys' \in [Actions -> SUBSET Accounts]
      /\ \A m \in Actions : /\ cloud[m] \subseteq cloud'[m]
                            /\ cloud'[m] \cup keys'[m] \subseteq cloud[m] \cup keys[m] \cup {account}
                            /\ m # Current => cloud'[m] = cloud[m] /\ keys'[m] = keys[m]
  BY <1>1, <1>2 DEF Inv, TypeOK
<1>4. OthersOK' /\ CopiesOK'
  <2>1. crossed' \subseteq Actions
    BY <1>1, <1>2 DEF Inv, TypeOK
  <2>2. OthersOK'
    BY <1>1, <1>3, <2>1, Parts DEF OthersOK
  <2>3. CopiesOK'
    BY <1>1, Parts DEF CopiesOK, Pure
  <2> QED BY <2>2, <2>3
<1>5. QueueOK'
  <2>1. EntryInv'
    <3>1. SUFFICES ASSUME NEW m \in Actions
                   PROVE  /\ outbox[m] # None => outbox[m].account = made[m]
                          /\ m \notin crossed' => cloud'[m] \cup keys'[m] \subseteq {made[m]}
      BY <1>1 DEF EntryInv
    <3>2. outbox[m] # None => outbox[m].account = made[m]
      BY DEF Inv, EntryInv
    <3>3. CASE m # Current
      BY <1>1, <1>3, <3>2, <3>3 DEF Inv, EntryInv
    <3>4. CASE m = Current
      <4>1. ~run.moved => account = made[m]
        BY <1>1, <1>2, <3>4 DEF Inv, MovedInv
      <4> QED BY <1>1, <1>3, <3>2, <3>4, <4>1 DEF Inv, EntryInv
    <3> QED BY <3>3, <3>4
  <2>2. FileInv'
    BY <1>1, <1>3 DEF Inv, FileInv
  <2>3. ActionsKept'
    BY <1>1, <1>3 DEF Inv, ActionsKept, Present
  <2> QED BY <1>1, <2>1, <2>2, <2>3, QueueHolds DEF QueueOK, Present
<1>6. /\ run' \in Run /\ run'.phase = run.phase /\ run'.copy = run.copy /\ run'.key = run.key
      /\ run'.account = run.account /\ run'.todo = run.todo /\ run'.sent = account
      /\ run'.moved = run.moved /\ run'.checked = run.checked
  BY <1>1, <1>2 DEF Run
<1>7. UploadInv'
  BY <1>1, <1>6 DEF Inv, UploadInv, Uploading, Current
<1>8. MovedInv' /\ FetchInv'
  BY <1>1, <1>6, NoneIsOther DEF Inv, MovedInv, FetchInv, Uploading, Fetching
<1>9. Pure(run.copy)'
  BY <1>6 DEF Inv, CopyInv, Pure
<1> QED BY <1>4, <1>5, <1>6, <1>7, <1>8, <1>9, Whole DEF RunOK

\* A step of an upload
LEMMA UploadStepInv ==
  ASSUME Inv, UploadStep
  PROVE  Inv'
<1>1. CASE KeyStored
  BY <1>1, SentInv DEF KeyStored
<1>2. CASE Stored
  <2>1. /\ Ready /\ Sends /\ ~run.key /\ UNCHANGED <<device, keys, ever, outside>>
        /\ cloud' = [cloud EXCEPT ![Current] = @ \cup {account}]
    BY <1>2 DEF Stored
  <2>2. account \in Accounts /\ Current \in Actions
    BY <2>1, UploadKeeps, Typed DEF Inv, Ready
  <2>3. cloud'[Current] # {}
    BY <2>1, <2>2 DEF Inv, TypeOK
  <2> QED BY <2>1, <2>3, SentInv
<1>3. CASE ~KeyStored /\ ~Stored
  <2>1. Uploading
    BY <1>3, SavedOK DEF UploadStep, Check, KeySaved, Answered, UploadFails, UploadRefused, Ready
  <2>2. /\ Settled /\ UNCHANGED <<signer, account, notice, edited, upsets, enabled>>
    BY <1>3 DEF UploadStep, Check, KeySaved, Answered, UploadFails, UploadRefused,
               Settled, outside, ever, icloud, device
  <2>3. /\ Current \in Actions /\ outbox \in Outbox /\ run \in Run
        /\ snapshot.account \in {None, run.account}
        /\ enabled \in BOOLEAN /\ timer \in BOOLEAN
    BY <2>1, UploadKeeps, Typed DEF Inv
  <2>4. SUFFICES /\ RunOK' /\ timer' \in BOOLEAN /\ QueueOK'
                 /\ snapshot' = snapshot \/ \E a \in Accounts : Saved(a) /\ snapshot' = UploadedCopy(a)
                 /\ file' = file \/ \E a \in Accounts : Saved(a) /\ file' = UploadedCopy(a)
    <3>1. OthersOK'
      BY <2>2, <2>4, Parts DEF OthersOK, Settled
    <3>2. snapshot' \in Copy /\ file' \in Copy /\ Pure(snapshot') /\ Pure(file')
      BY <2>4, Parts, SavedOK DEF CopiesOK
    <3>3. CopiesOK'
      BY <3>2 DEF CopiesOK, Pure
    <3> QED BY <2>4, <3>1, <3>3, Whole
  <2>5. CASE Check
    <3>1. /\ run' = [run EXCEPT !.checked = TRUE] /\ SameAccount /\ ~run.checked
          /\ UNCHANGED <<snapshot, file, outbox, stored, timer>>
      BY <2>5 DEF Check, device, copies, queue
    <3>2. /\ run' \in Run /\ run'.phase = run.phase /\ run'.copy = run.copy /\ run'.key = run.key
          /\ run'.account = run.account /\ run'.todo = run.todo /\ run'.sent = run.sent
          /\ run'.moved = run.moved
      BY <2>3, <3>1 DEF Run
    <3>3. UploadInv'
      BY <2>2, <3>1, <3>2 DEF Inv, UploadInv, Uploading, Current, Settled
    <3>4. MovedInv' /\ FetchInv'
      BY <2>1, <2>2, <3>1, <3>2 DEF Inv, MovedInv, FetchInv, Uploading, Fetching, SameAccount
    <3>5. Pure(run.copy)'
      BY <3>2 DEF Inv, CopyInv, Pure
    <3> QED BY <2>2, <2>3, <3>1, <3>2, <3>3, <3>4, <3>5, QueueKept DEF RunOK, queue
  <2>6. ASSUME NEW a \in Accounts, KeySaved(a)
        PROVE  /\ RunOK' /\ timer' \in BOOLEAN /\ QueueOK'
               /\ Saved(a) /\ snapshot' = UploadedCopy(a) /\ file' = UploadedCopy(a)
    <3>1. /\ run' = [run EXCEPT !.key = FALSE, !.checked = FALSE, !.moved = FALSE, !.sent = None]
          /\ Saved(a) /\ snapshot' = UploadedCopy(a) /\ file' = UploadedCopy(a)
          /\ UNCHANGED <<outbox, stored, timer>>
      BY <2>6 DEF KeySaved, queue
    <3>2. /\ run' \in Run /\ run'.phase = run.phase /\ run'.copy = run.copy
          /\ run'.account = run.account /\ run'.todo = run.todo /\ run'.sent = None
          /\ ~run'.checked
      BY <2>3, <3>1 DEF Run
    <3>3. UploadInv'
      BY <2>1, <2>2, <3>1, <3>2, SavedOK DEF Inv, UploadInv, Uploading, Settled
    <3>4. MovedInv' /\ FetchInv'
      BY <2>1, <3>2 DEF MovedInv, FetchInv, Uploading, Fetching
    <3>5. Pure(run.copy)'
      BY <3>2 DEF Inv, CopyInv, Pure
    <3> QED BY <2>2, <2>3, <3>1, <3>2, <3>3, <3>4, <3>5, QueueKept DEF RunOK, queue
  <2>7. ASSUME NEW a \in Accounts, Answered(a)
        PROVE  /\ RunOK' /\ timer' \in BOOLEAN /\ QueueOK'
               /\ Saved(a) /\ snapshot' = UploadedCopy(a) /\ file' = UploadedCopy(a)
    <3> DEFINE q == Without(outbox, Current)
    <3>1. /\ Commit(q, "done") /\ NextEntry(outbox') /\ Saved(a) /\ ~run.key
          /\ snapshot' = UploadedCopy(a) /\ file' = UploadedCopy(a)
      BY <2>7 DEF Answered
    <3>2. /\ q \in Outbox
          /\ \A m \in Actions : q[m] = IF m = Current THEN None ELSE outbox[m]
      BY <2>3, WithoutOK
    <3>3. EntriesOf(q)
      BY <2>1, <3>1, <3>2, SavedOK, UploadKeeps DEF EntriesOf
    <3>4. outbox' = q
      BY <3>1 DEF Commit
    <3> HIDE DEF q
    <3>5. QueueOK'
      BY <2>2, <3>1, <3>2, <3>3, CommitOK
    <3>6. RunOK' /\ timer' \in BOOLEAN
      BY <2>1, <2>2, <3>1, <3>2, <3>4, SavedOK, NextKeeps DEF Settled
    <3> QED BY <3>1, <3>5, <3>6
  <2>8. ASSUME NEW end, UploadFails(end)
        PROVE  /\ RunOK' /\ timer' \in BOOLEAN /\ QueueOK' /\ snapshot' = snapshot
               /\ file' = file \/ \E a \in Accounts : Saved(a) /\ file' = UploadedCopy(a)
    <3>1. /\ run' = IdleRun /\ snapshot' = snapshot
          /\ file' = file \/ \E a \in Accounts : Saved(a) /\ file' = UploadedCopy(a)
          /\ timer' \in BOOLEAN
      BY <2>3, <2>8 DEF UploadFails, ScheduleRetry
    <3>2. CASE Commit(Attempted(outbox, Current), end)
      BY <2>2, <2>3, <3>2, AttemptedOK, EntriesSame, CommitOK, <3>1, IdleRunOK
    <3>3. ASSUME NEW a \in Accounts, Saved(a), ~run.key, Commit(Without(outbox, Current), "written")
          PROVE  QueueOK'
      <4> DEFINE q == Without(outbox, Current)
      <4>1. /\ q \in Outbox
            /\ \A m \in Actions : q[m] = IF m = Current THEN None ELSE outbox[m]
        BY <2>3, WithoutOK
      <4>2. EntriesOf(q)
        BY <2>1, <3>3, <4>1, SavedOK, UploadKeeps DEF EntriesOf
      <4>3. Commit(q, "written")
        BY <3>3
      <4> HIDE DEF q
      <4> QED BY <2>2, <4>1, <4>2, <4>3, CommitOK
    <3> QED BY <2>8, <3>1, <3>2, <3>3, IdleRunOK DEF UploadFails
  <2>9. ASSUME NEW end, UploadRefused(end)
        PROVE  /\ RunOK' /\ timer' \in BOOLEAN /\ QueueOK' /\ snapshot' = snapshot /\ file' = file
    <3> DEFINE q == Reviewed(outbox, Current)
    <3>1. Commit(q, end) /\ NextEntry(outbox') /\ UNCHANGED <<snapshot, file>>
      BY <2>9 DEF UploadRefused, copies
    <3>2. q \in Outbox /\ SameEntries(outbox, q) /\ Changed(outbox, q, Current)
      BY <2>3, ReviewedOK
    <3>3. outbox' \in {outbox, q}
      BY <3>1 DEF Commit
    <3> HIDE DEF q
    <3>4. QueueOK'
      BY <2>2, <3>1, <3>2, EntriesSame, CommitOK
    <3>5. RunOK' /\ timer' \in BOOLEAN
      BY <2>1, <2>2, <2>3, <3>1, <3>2, <3>3, NextKeeps DEF Settled, Changed
    <3> QED BY <3>1, <3>4, <3>5
  <2> QED BY <1>3, <2>5, <2>6, <2>7, <2>8, <2>9 DEF UploadStep
<1> QED BY <1>1, <1>2, <1>3

\* A new action is put on the outbox and uploaded with the others that are due, or only
\* its file has it.
LEMMA SubmitInv ==
  ASSUME Inv, NEW m \in Actions, NEW end \in Ends \ {"failed"}, Submit(m, end)
  PROVE  Inv'
<1> DEFINE e == [account |-> snapshot.account, attempts |-> 0, state |-> "pending", due |-> TRUE]
           q == [outbox EXCEPT ![m] = e]
<1>1. /\ snapshot.account \in Accounts /\ made[m] = None /\ stored' = q
      /\ Cardinality(Present(outbox)) < MaxEntries
      /\ UNCHANGED <<enabled, snapshot, file, timer, cloud, keys, crossed, gone, account, notice,
                     edited, expired, upsets>>
      /\ \E s \in Identities(m) : signer' = [signer EXCEPT ![m] = s]
      /\ \/ /\ outbox' = q /\ made' = [made EXCEPT ![m] = snapshot.account]
            /\ BeginUploads(snapshot.account, q)
         \/ outbox' = outbox /\ made' = made /\ run' = run
  BY Typed DEF Inv, Submit, Commit, Ends, outside, icloud, copies
<1>2. e \in Entry /\ e # None /\ e.account = snapshot.account /\ e.state = "pending"
  <2>1. 0 \in 0 .. MaxAttempts
    BY PhoneAssumption
  <2>2. e \in Entry
    BY <1>1, <2>1 DEF Entry
  <2> QED BY <2>2, NoneIsOther
<1> HIDE DEF e
<1>3. /\ q \in Outbox /\ q[m] = e /\ outbox \in Outbox /\ outbox[m] = None
      /\ \A n \in Actions : n # m => q[n] = outbox[n]
  <2>1. outbox \in Outbox
    BY Typed DEF Inv
  <2>2. outbox[m] = None
    BY <1>1, <2>1, NoneIsOther DEF Inv, EntryInv, Outbox, Entry
  <2> QED BY <1>2, <2>1, <2>2 DEF Outbox
<1>4. Cardinality(Present(q)) <= MaxEntries
  <2>1. Present(q) \subseteq Present(outbox) \cup {m}
    BY <1>3 DEF Present
  <2>2. IsFiniteSet(Present(outbox)) /\ IsFiniteSet(Present(outbox) \cup {m})
    BY ActionsFinite, FS_Subset, FS_AddElement DEF Present
  <2>3. Cardinality(Present(outbox) \cup {m}) <= Cardinality(Present(outbox)) + 1
    BY <2>2, FS_AddElement, FS_CardinalityType
  <2>4. Cardinality(Present(q)) <= Cardinality(Present(outbox) \cup {m})
    BY <2>1, <2>2, FS_Subset
  <2>5. /\ IsFiniteSet(Present(q)) /\ MaxEntries \in Nat
        /\ Cardinality(Present(q)) \in Nat /\ Cardinality(Present(outbox)) \in Nat
        /\ Cardinality(Present(outbox) \cup {m}) \in Nat
    BY <2>1, <2>2, FS_Subset, FS_CardinalityType, PhoneAssumption
  <2> QED BY <1>1, <2>3, <2>4, <2>5
<1> HIDE DEF q
<1>5. signer' \in [Actions -> Actions] /\ CopiesOK'
  <2>1. Identities(m) \subseteq Actions
    BY DEF Identities, ChatBefore, Inv, TypeOK
  <2>2. signer' \in [Actions -> Actions]
    BY <1>1, <2>1 DEF Inv, TypeOK
  <2>3. CopiesOK'
    BY <1>1, Parts DEF CopiesOK, Pure
  <2> QED BY <2>2, <2>3
<1>6. CASE outbox' = q /\ made' = [made EXCEPT ![m] = snapshot.account]
           /\ BeginUploads(snapshot.account, q)
  <2>1. /\ made' \in [Actions -> Accounts \cup {None}] /\ made'[m] = snapshot.account
        /\ \A n \in Actions : n # m => made'[n] = made[n]
    BY <1>1, <1>6 DEF Inv, TypeOK
  <2>2. OthersOK'
    BY <1>1, <1>5, <2>1, Parts DEF OthersOK
  <2>3. EntryInv'
    <3>1. cloud[m] \subseteq Accounts /\ keys[m] \subseteq Accounts
      BY DEF Inv, TypeOK
    <3>2. m \notin crossed => cloud[m] = {} /\ keys[m] = {}
      BY <1>1, <3>1, NoneIsOther DEF Inv, EntryInv
    <3>3. \A n \in Actions : outbox'[n] # None => outbox'[n].account = made'[n]
      BY <1>2, <1>3, <1>6, <2>1 DEF Inv, EntryInv
    <3>4. \A n \in Actions : n \notin crossed => cloud[n] \cup keys[n] \subseteq {made'[n]}
      BY <2>1, <3>2 DEF Inv, EntryInv
    <3> QED BY <1>1, <3>3, <3>4 DEF EntryInv
  <2>4. FileInv' /\ ActionsKept'
    <3>1. /\ stored' = q /\ outbox' = q /\ \A n \in Actions : q[n] # None => made'[n] # None
      BY <1>1, <1>3, <1>6, <2>1, NoneIsOther DEF Inv, EntryInv, Outbox, Entry
    <3>2. \A n \in Actions : q[n] # None => q[n].account = made'[n]
      BY <1>6, <2>3 DEF EntryInv
    <3>3. FileInv'
      BY <3>1, <3>2 DEF FileInv
    <3>4. \A n \in Actions : n \in Present(outbox) \/ n = m => n \in Present(outbox')
      BY <1>2, <1>3, <1>6 DEF Present
    <3>5. ActionsKept'
      BY <1>1, <2>1, <3>4 DEF Inv, ActionsKept
    <3> QED BY <3>3, <3>5
  <2>5. QueueOK'
    BY <1>1, <1>3, <1>4, <1>6, <2>3, <2>4 DEF QueueOK
  <2>6. RunOK'
    BY <1>1, <1>6, <2>5, UploadsBegin, Typed DEF Inv
  <2> QED BY <1>5, <2>2, <2>5, <2>6, Whole
<1>7. CASE outbox' = outbox /\ made' = made /\ run' = run
  <2>1. OthersOK'
    BY <1>1, <1>5, <1>7, Parts DEF OthersOK
  <2>2. EntryInv' /\ ActionsKept'
    BY <1>1, <1>7 DEF Inv, EntryInv, ActionsKept, Present
  <2>3. FileInv'
    <3>1. SUFFICES ASSUME NEW n \in Actions
                   PROVE  /\ q[n] # None /\ made[n] # None => q[n].account = made[n]
                          /\ q[n] # None /\ made[n] = None => q[n].state = "pending"
                          /\ q[n] # None /\ outbox[n] = None => n \in expired \/ made[n] = None
                          /\ ~(outbox[n] # None /\ q[n] = None)
                          /\ outbox[n] # None /\ q[n] # None =>
                               q[n].state \in {outbox[n].state, "needsReview"}
      BY <1>1, <1>7 DEF FileInv
    <3>2. outbox[n] # None => made[n] # None /\ outbox[n].account = made[n]
      BY <1>3, NoneIsOther DEF Inv, EntryInv, Outbox, Entry
    <3> QED BY <1>1, <1>2, <1>3, <3>2
  <2>4. QueueOK'
    BY <1>1, <1>3, <1>4, <1>7, <2>2, <2>3, QueueHolds DEF QueueOK
  <2>5. RunOK'
    BY <1>1, <1>7, RunKept
  <2> QED BY <1>5, <2>1, <2>4, <2>5, Whole
<1> QED BY <1>1, <1>6, <1>7

\* The owner turns the feature off or empties the outbox.
LEMMA ClearInv ==
  ASSUME Inv, ClearPending \/ \E cleared \in BOOLEAN : DisableAndClear(cleared)
  PROVE  Inv'
<1>1. /\ UNCHANGED <<run, cloud, keys, crossed, made, signer, account, notice, edited, expired,
                     upsets>>
      /\ snapshot' \in {snapshot, Empty} /\ file' \in {file, Empty}
      /\ enabled' \in BOOLEAN /\ timer' \in BOOLEAN
      /\ Cleared \/ UNCHANGED <<outbox, stored, gone>>
  BY Typed DEF Inv, ClearPending, DisableAndClear, outside, icloud, copies, queue
<1>2. /\ QueueOK' /\ gone' \subseteq Actions
      /\ \A m \in Actions :
           outbox'[m] # None => outbox[m] # None /\ outbox'[m].state = outbox[m].state
  <2>1. CASE Cleared
    BY <1>1, <2>1, ClearedOK
  <2>2. CASE UNCHANGED <<outbox, stored, gone>>
    BY <1>1, <2>2, QueueKept, Parts DEF queue, Settled, OthersOK
  <2> QED BY <1>1, <2>1, <2>2
<1>3. RunOK'
  BY <1>1, <1>2, RunKept
<1>4. OthersOK'
  BY <1>1, <1>2, Parts DEF OthersOK
<1>5. CopiesOK'
  BY <1>1, EmptyOK, Parts DEF CopiesOK, Pure
<1> QED BY <1>2, <1>3, <1>4, <1>5, Whole

\* What the store hears of the outside, and what changes there.
LEMMA OutsideInv ==
  ASSUME Inv, AccountNoticed \/ \E m \in Actions : Elapse(m) \/ Edit(m) \/ Expire(m)
  PROVE  Inv'
<1>1. /\ UNCHANGED <<cloud, keys, crossed, made, signer, gone, enabled, account, upsets>>
      /\ notice' \in BOOLEAN /\ edited' \subseteq Actions
      /\ expired' \subseteq Actions /\ expired \subseteq expired'
      /\ snapshot' \in {snapshot, Empty} /\ file' \in {file, Empty}
      /\ (run' = run /\ timer' \in BOOLEAN) \/ BeginSync(Empty)
  <2>1. CASE AccountNoticed
    BY <2>1, Parts DEF AccountNoticed, OthersOK, copies, queue, icloud, ever
  <2>2. ASSUME NEW m \in Actions, Elapse(m) \/ Edit(m) \/ Expire(m)
        PROVE  /\ UNCHANGED <<cloud, keys, crossed, made, signer, gone, enabled, account, upsets,
                              snapshot, file, run, timer>>
               /\ notice' \in BOOLEAN /\ edited' \subseteq Actions
               /\ expired' \subseteq Actions /\ expired \subseteq expired'
    BY <2>2, Parts DEF Elapse, Edit, Expire, OthersOK, device, copies, queue, outside, icloud, ever
  <2>3. timer \in BOOLEAN
    BY Typed DEF Inv
  <2> QED BY <2>1, <2>2, <2>3
<1>2. QueueOK' /\ \A m \in Actions :
                    outbox'[m] # None => outbox[m] # None /\ outbox'[m].state = outbox[m].state
  <2>1. ASSUME NEW m \in Actions, Elapse(m)
        PROVE  QueueOK' /\ \A n \in Actions :
                 outbox'[n] # None => outbox[n] # None /\ outbox'[n].state = outbox[n].state
    <3>1. outbox' = Ripe(outbox, m) /\ stored' = Ripe(stored, m) /\ expired' = expired
      BY <2>1 DEF Elapse, outside
    <3>2. outbox \in Outbox /\ stored \in Outbox
      BY Typed DEF Inv
    <3>3. /\ outbox' \in Outbox /\ stored' \in Outbox
          /\ \A n \in Actions :
               /\ outbox[n] = None <=> outbox'[n] = None
               /\ stored[n] = None <=> stored'[n] = None
               /\ outbox[n] # None => /\ outbox'[n].account = outbox[n].account
                                      /\ outbox'[n].state = outbox[n].state
               /\ stored[n] # None => /\ stored'[n].account = stored[n].account
                                      /\ stored'[n].state = stored[n].state
      BY <3>1, <3>2, RipeOK DEF Changed
    <3>4. Present(outbox') = Present(outbox) /\ Present(stored') = Present(stored)
      BY <3>3 DEF Present
    <3>5. EntryInv'
      BY <1>1, <3>3 DEF Inv, EntryInv
    <3>6. FileInv'
      <4> SUFFICES ASSUME NEW n \in Actions
                   PROVE  /\ stored'[n] # None /\ made[n] # None => stored'[n].account = made[n]
                          /\ stored'[n] # None /\ made[n] = None => stored'[n].state = "pending"
                          /\ stored'[n] # None /\ outbox'[n] = None => n \in expired \/ made[n] = None
                          /\ outbox'[n] # None /\ stored'[n] = None =>
                               cloud[n] # {} /\ outbox'[n].state = "pending"
                          /\ outbox'[n] # None /\ stored'[n] # None =>
                               stored'[n].state \in {outbox'[n].state, "needsReview"}
        BY <1>1, <3>1 DEF FileInv
      <4> QED BY <3>3 DEF Inv, FileInv
    <3>7. ActionsKept'
      BY <1>1, <3>4 DEF Inv, ActionsKept
    <3> QED BY <3>3, <3>4, <3>5, <3>6, <3>7, Typed DEF Inv, QueueOK
  <2>2. CASE UNCHANGED <<outbox, stored>>
    <3>1. EntryInv' /\ ActionsKept'
      BY <1>1, <2>2 DEF Inv, EntryInv, ActionsKept, Present
    <3>2. FileInv'
      BY <1>1, <2>2 DEF Inv, FileInv
    <3> QED BY <2>2, <3>1, <3>2, QueueHolds DEF QueueOK
  <2>3. UNCHANGED <<outbox, stored>> \/ \E m \in Actions : Elapse(m)
    BY DEF AccountNoticed, Edit, Expire, device, queue
  <2> QED BY <2>1, <2>2, <2>3
<1>3. RunOK' /\ timer' \in BOOLEAN
  <2>1. CASE run' = run /\ timer' \in BOOLEAN
    BY <1>1, <1>2, <2>1, RunKept
  <2>2. CASE BeginSync(Empty)
    BY <2>2, EmptyOK, SyncBegins
  <2> QED BY <1>1, <2>1, <2>2
<1>4. OthersOK'
  BY <1>1, <1>3, Parts DEF OthersOK
<1>5. CopiesOK'
  BY <1>1, EmptyOK, Parts DEF CopiesOK, Pure
<1> QED BY <1>2, <1>3, <1>4, <1>5, Whole

\* The account changes: the run has read or checked the one that was signed in.
LEMMA SwitchInv ==
  ASSUME Inv, SwitchAccount
  PROVE  Inv'
<1> DEFINE moved == run.moved \/ (run.checked /\ run.sent = None)
                      \/ (Fetching /\ run.account # None)
<1>1. /\ run' = [run EXCEPT !.moved = moved] /\ account' \in Accounts \cup {None}
      /\ notice' = TRUE /\ upsets' \in 0 .. MaxUpsets
      /\ Settled /\ UNCHANGED <<signer, edited, enabled, snapshot, file, queue, timer>>
  <2>1. upsets' \in 0 .. MaxUpsets
    BY PhoneAssumption DEF SwitchAccount, Inv, TypeOK
  <2> QED BY <2>1 DEF SwitchAccount, device, copies, ever, icloud, Settled
<1>2. moved \in BOOLEAN /\ run \in Run
  BY Typed DEF Inv, Fetching, Run
<1>3. ~moved => /\ ~run.moved /\ ~(Fetching /\ run.account # None)
                /\ ~(run.checked /\ run.sent = None)
  OBVIOUS
<1> HIDE DEF moved
<1>4. /\ run' \in Run /\ run'.phase = run.phase /\ run'.copy = run.copy /\ run'.key = run.key
      /\ run'.account = run.account /\ run'.todo = run.todo /\ run'.sent = run.sent
      /\ run'.moved = moved /\ run'.checked = run.checked /\ run'.pass = run.pass
  BY <1>1, <1>2 DEF Run
<1>5. QueueOK'
  BY <1>1, QueueKept
<1>6. UploadInv' /\ FetchInv'
  BY <1>1, <1>4 DEF Inv, UploadInv, FetchInv, Uploading, Fetching, Current, Settled, queue
<1>7. MovedInv'
  BY <1>3, <1>4 DEF Inv, MovedInv, Uploading, Fetching
<1>8. Pure(run.copy)'
  BY <1>4 DEF Inv, CopyInv, Pure
<1>9. OthersOK'
  BY <1>1, Parts DEF OthersOK, Settled
<1>10. CopiesOK'
  BY <1>1, Parts DEF CopiesOK, Pure
<1> QED BY <1>4, <1>5, <1>6, <1>7, <1>8, <1>9, <1>10, Whole DEF RunOK

\* What a start makes of the outbox: the file may have less of what is stored, and
\* more of what was not made.
LEMMA LoadedOK ==
  ASSUME Inv
  PROVE  /\ Loaded \in Outbox
         /\ \A m \in Actions : /\ Loaded[m] = IF m \in expired THEN None ELSE stored[m]
                               /\ Loaded[m] # None => Loaded[m].account \in Accounts
         /\ Present(Loaded) \subseteq Present(stored)
<1>1. stored \in Outbox
  BY Typed DEF Inv
<1>2. /\ Loaded \in Outbox
      /\ \A m \in Actions : Loaded[m] = IF m \in expired THEN None ELSE stored[m]
  BY <1>1 DEF Loaded, Outbox
<1> QED BY <1>2 DEF Outbox, Entry, Present

\* The app ends and starts from its files.
LEMMA KillInv ==
  ASSUME Inv, Kill
  PROVE  Inv'
<1>1. /\ run' = IdleRun /\ timer' = FALSE /\ notice' = FALSE /\ snapshot' = file
      /\ UNCHANGED <<file, account, enabled, cloud, keys, crossed, edited, expired, signer, stored>>
      /\ upsets' \in 0 .. MaxUpsets /\ outbox' = Loaded
      /\ gone' = gone \cup (Present(outbox) \cap Present(stored) \cap expired)
  <2>1. upsets' \in 0 .. MaxUpsets
    BY PhoneAssumption DEF Kill, Inv, TypeOK
  <2> QED BY <2>1 DEF Kill, icloud
<1>2. /\ made' \in [Actions -> Accounts \cup {None}]
      /\ \A m \in Actions : made'[m] = IF Loaded[m] # None THEN Loaded[m].account ELSE made[m]
  <2>1. made' = [m \in Actions |-> IF Loaded[m] # None THEN Loaded[m].account ELSE made[m]]
    BY DEF Kill
  <2>2. made \in [Actions -> Accounts \cup {None}]
    BY DEF Inv, TypeOK
  <2> QED BY <2>1, <2>2, LoadedOK
<1>3. /\ outbox' \in Outbox /\ stored' \in Outbox
      /\ Cardinality(Present(outbox')) <= MaxEntries /\ Cardinality(Present(stored')) <= MaxEntries
  BY <1>1, LoadedOK, FewerPresent, Typed DEF Inv
<1>4. \A m \in Actions : made[m] # None => made'[m] = made[m]
  BY <1>2, LoadedOK DEF Inv, FileInv
<1>5. EntryInv'
  <2>1. SUFFICES ASSUME NEW m \in Actions
                 PROVE  /\ Loaded[m] # None => Loaded[m].account = made'[m]
                        /\ m \notin crossed => cloud[m] \cup keys[m] \subseteq {made'[m]}
    BY <1>1 DEF EntryInv
  <2>2. cloud[m] \subseteq Accounts /\ keys[m] \subseteq Accounts
    BY DEF Inv, TypeOK
  <2>3. m \notin crossed => cloud[m] \cup keys[m] \subseteq {made'[m]}
    BY <1>4, <2>2, NoneIsOther DEF Inv, EntryInv
  <2> QED BY <1>2, <2>3
<1>6. FileInv'
  <2>1. SUFFICES ASSUME NEW m \in Actions
                 PROVE  /\ stored[m] # None /\ made'[m] # None => stored[m].account = made'[m]
                        /\ stored[m] # None /\ made'[m] = None => stored[m].state = "pending"
                        /\ stored[m] # None /\ Loaded[m] = None => m \in expired \/ made'[m] = None
                        /\ ~(Loaded[m] # None /\ stored[m] = None)
                        /\ Loaded[m] # None /\ stored[m] # None =>
                             stored[m].state \in {Loaded[m].state, "needsReview"}
    BY <1>1 DEF FileInv
  <2>2. Loaded[m] = IF m \in expired THEN None ELSE stored[m]
    BY LoadedOK
  <2> QED BY <1>2, <1>4, <2>2 DEF Inv, FileInv
<1>7. ActionsKept'
  <2>1. SUFFICES ASSUME NEW m \in Actions, made'[m] # None
                 PROVE  Loaded[m] # None \/ cloud[m] # {} \/ m \in gone'
    BY <1>1 DEF ActionsKept, Present
  <2>2. CASE made[m] = None
    BY <1>2, <2>1, <2>2
  <2>3. CASE made[m] # None
    BY <1>1, <2>3, LoadedOK DEF Inv, ActionsKept, FileInv, Present
  <2> QED BY <2>2, <2>3
<1>8. RunOK'
  BY <1>1, IdleRunOK
<1>9. OthersOK'
  <2>1. gone' \subseteq Actions
    BY <1>1 DEF Inv, TypeOK, Present
  <2> QED BY <1>1, <1>2, <2>1, Parts DEF OthersOK
<1>10. CopiesOK'
  BY <1>1, Parts DEF CopiesOK, Pure
<1>11. QueueOK'
  BY <1>3, <1>5, <1>6, <1>7 DEF QueueOK
<1> QED BY <1>8, <1>9, <1>10, <1>11, Whole

LEMMA StepInv == Inv /\ [Next]_vars => Inv'
<1> SUFFICES ASSUME Inv, [Next]_vars PROVE Inv'
  OBVIOUS
<1>1. CASE Next
  BY <1>1, StartInv, SyncInv, UploadStepInv, SubmitInv, ClearInv, OutsideInv, SwitchInv, KillInv
  DEF Next
<1>2. CASE UNCHANGED vars
  <2>1. QueueOK'
    BY <1>2, QueueKept DEF vars, Settled, queue
  <2>2. OthersOK'
    BY <1>2, Parts DEF vars, OthersOK
  <2>3. CopiesOK'
    BY <1>2, Parts DEF vars, CopiesOK, Pure
  <2>4. RunOK'
    BY <1>2, RunKept DEF vars
  <2> QED BY <2>1, <2>2, <2>3, <2>4, Whole
<1> QED BY <1>1, <1>2

LEMMA InvAlways == Spec => []Inv
BY InitInv, StepInv, PTL DEF Spec

-----------------------------------------------------------------------------
(* The theorems *)

\* Every variable has its type; the outbox never holds more entries than it may, and no
\* entry is tried more often than it may.
THEOREM PhoneTypeCorrect == Spec => []TypeOK
<1>1. Inv => TypeOK
  BY DEF Inv
<1> QED BY <1>1, InvAlways, PTL

\* An action of the owner is on the outbox or in iCloud, or was removed by the owner or
\* found expired at a start, also when a commit of the outbox (commit and remove in
\* LifeOSCloudMutationOutbox) fails after it has written the file.
THEOREM NoActionLost == Spec => []ActionsKept
<1>1. Inv => ActionsKept
  BY DEF Inv
<1> QED BY <1>1, InvAlways, PTL

\* An action whose account did not change between its check and its arrival reaches the
\* iCloud of that account only: the checks of expectedAccountFingerprint in
\* LifeOSCloudKitClient, before each of the awaits that end in modifyRecords.
THEOREM NoActionCrosses == Spec => []OwnAccountOnly
<1>1. Inv => OwnAccountOnly
  BY DEF Inv, EntryInv, OwnAccountOnly
<1> QED BY <1>1, InvAlways, PTL

\* The copy holds records of the account it is labelled with, unless the account changed
\* in the middle of a pass or an upload: scoped(to:), merging and
\* clearAccountScopedSnapshot, with the one fingerprint a pass reads.
THEOREM CopyOfOneAccount == Spec => []OneAccountInCopy
<1>1. Inv => OneAccountInCopy
  BY DEF Inv, CopyInv, Pure, OneAccountInCopy
<1> QED BY <1>1, InvAlways, PTL

LEMMA OnlyStoredSends ==
  ASSUME Next
  PROVE  Stored \/ cloud' = cloud
BY DEF Next, SyncStep, UploadStep, StartSync, RetryPending, TimerFires, ReadAccount, FetchPage,
       Fetched, PauseEnds, SyncFails, SyncSignedOut, Submit, Check, KeyStored, KeySaved, Answered,
       UploadFails, UploadRefused, Enable, DisableAndClear, ClearPending, Elapse, SwitchAccount,
       AccountNoticed, Edit, Expire, Kill, icloud

\* An entry that needs a review is not sent: due(accountFingerprint:now:) leaves it out,
\* and a batch that was read before cannot hold it.
THEOREM ReviewedNotSent == Spec => ReviewWaits
<1> DEFINE Waits == \A m \in Actions :
             outbox[m] # None /\ outbox[m].state = "needsReview" => cloud'[m] = cloud[m]
<1>1. ASSUME Inv, Next PROVE Waits
  <2>1. SUFFICES ASSUME NEW m \in Actions, outbox[m] # None, outbox[m].state = "needsReview"
                 PROVE  cloud'[m] = cloud[m]
    OBVIOUS
  <2>2. CASE Stored
    <3>1. Uploading /\ cloud' = [cloud EXCEPT ![Current] = @ \cup {account}]
      BY <2>2 DEF Stored, Ready
    <3>2. m # Current
      BY <1>1, <2>1, <3>1, UploadKeeps
    <3> QED BY <1>1, <3>1, <3>2 DEF Inv, TypeOK
  <2> QED BY <1>1, <2>2, OnlyStoredSends
<1>2. Inv /\ [Next]_vars => [Waits]_vars
  BY <1>1
<1> QED BY <1>2, InvAlways, PTL DEF Spec, ReviewWaits

-----------------------------------------------------------------------------
(* Actions on their way *)

\* What was removed stays off the outbox, and what an upload has taken up leaves it only
\* by being removed.
WayInv ==
  /\ \A m \in gone : made[m] # None /\ outbox[m] = None
  /\ Uploading => \A m \in run.todo : outbox[m] = None => m \in gone

LEMMA SeenAt ==
  ASSUME NEW m \in Actions
  PROVE  Seen[m] = Status(m) /\ Seen'[m] = Status(m)'
BY DEF Seen

LEMMA StatusIs ==
  ASSUME NEW m \in Actions
  PROVE  /\ made[m] = None => Status(m) = "unmade"
         /\ made[m] # None /\ outbox[m] # None /\ outbox[m].state = "pending" => Status(m) = "waiting"
         /\ made[m] # None /\ outbox[m] # None /\ outbox[m].state # "pending" => Status(m) = "held"
         /\ made[m] # None /\ outbox[m] = None /\ m \in gone => Status(m) = "removed"
         /\ made[m] # None /\ outbox[m] = None /\ m \notin gone => Status(m) = "done"
BY DEF Status

\* An operation that keeps the entries and their states.
LEMMA SeenSame ==
  ASSUME UNCHANGED <<made, gone>>,
         \A m \in Actions : /\ outbox[m] = None <=> outbox'[m] = None
                            /\ outbox[m] # None => outbox'[m].state = outbox[m].state
  PROVE  Seen' = Seen
<1>1. ASSUME NEW m \in Actions PROVE Status(m)' = Status(m)
  <2>1. CASE made[m] = None
    BY <2>1 DEF Status
  <2>2. CASE made[m] # None /\ outbox[m] # None
    BY <2>2 DEF Status
  <2>3. CASE made[m] # None /\ outbox[m] = None
    BY <2>3 DEF Status
  <2> QED BY <2>1, <2>2, <2>3
<1> QED BY <1>1 DEF Seen

LEMMA StatusSame ==
  ASSUME NEW m \in Actions, made'[m] = made[m], outbox'[m] = outbox[m], m \in gone' <=> m \in gone
  PROVE  Status(m)' = Status(m)
<1>1. CASE made[m] = None
  BY <1>1 DEF Status
<1>2. CASE made[m] # None /\ outbox[m] # None
  BY <1>2 DEF Status
<1>3. CASE made[m] # None /\ outbox[m] = None
  BY <1>3 DEF Status
<1> QED BY <1>1, <1>2, <1>3

\* The status of one action changes.
LEMMA SeenExcept ==
  ASSUME NEW m \in Actions, NEW what, Status(m)' = what,
         \A n \in Actions \ {m} : Status(n)' = Status(n)
  PROVE  Seen' = [Seen EXCEPT ![m] = what]
BY DEF Seen

LEMMA Unseen ==
  ASSUME UNCHANGED <<account, made, Seen, cloud, Taken, Checked>>
  PROVE  [Delivery!Next]_(Delivery!vars)
BY DEF Delivery!vars

LEMMA LetsGo ==
  ASSUME UNCHANGED <<account, made, Seen, cloud>>, Taken' \subseteq Taken, Checked' \subseteq Checked
  PROVE  [Delivery!Next]_(Delivery!vars)
BY DEF Delivery!Next, Delivery!LetGo

\* A run that is new to what it does has nothing checked, and one that does not upload
\* has nothing taken up either.
LEMMA NotChecked ==
  /\ Fresh(run') => Checked' = {}
  /\ run'.phase # "upload" => Taken' = {} /\ Checked' = {}
  /\ run.phase # "upload" => Taken = {} /\ Checked = {}
BY DEF Fresh, Taken, Checked, Uploading

\* The upload that begins takes up entries that wait.
LEMMA TakenUp ==
  ASSUME Inv, Inv', NEW a \in Accounts, BeginUploads(a, outbox')
  PROVE  Taken' \subseteq Delivery!WaitingFor(a)' /\ Checked' = {}
<1> DEFINE q == outbox'
<1>1. BeginUploads(a, q) /\ q \in Outbox /\ run \in Run
  BY Typed DEF Inv, TypeOK, Outbox
<1> HIDE DEF q
<1>2. /\ run' \in Run /\ Fresh(run')
      /\ run'.phase = "upload" =>
           \A m \in run'.todo : q[m] # None /\ q[m].account = a /\ q[m].state = "pending"
  BY <1>1, BeginUploadsOK
<1>3. ASSUME NEW m \in Taken' PROVE m \in Actions /\ Seen'[m] = "waiting" /\ made'[m] = a
  <2>1. m \in Actions /\ outbox'[m] # None /\ outbox'[m].account = a /\ outbox'[m].state = "pending"
    BY <1>2, <1>3 DEF Taken, Uploading, Run, q
  <2>2. made'[m] = a
    BY <2>1 DEF Inv, EntryInv
  <2>3. Status(m)' = "waiting"
    BY <2>1, <2>2, NoneIsOther DEF Status
  <2> QED BY <2>1, <2>2, <2>3, SeenAt
<1> QED BY <1>2, <1>3, NotChecked DEF Delivery!WaitingFor

LEMMA StartMaps ==
  ASSUME Inv, \/ StartSync \/ TimerFires \/ Enable
              \/ \E end \in Ends \ {"failed"} : RetryPending(end)
  PROVE  [Delivery!Next]_(Delivery!vars)
<1>1. UNCHANGED <<account, made, cloud, gone>>
  BY DEF StartSync, RetryPending, TimerFires, Enable, outside, ever, icloud
<1>2. Seen' = Seen
  <2>1. ASSUME NEW end, RetryPending(end)
        PROVE  Seen' = Seen
    <3>1. outbox' \in {outbox, MadeDue(outbox, snapshot.account)}
      BY <2>1 DEF RetryPending, Commit
    <3>2. \A m \in Actions : /\ outbox[m] = None <=> outbox'[m] = None
                             /\ outbox[m] # None => outbox'[m].state = outbox[m].state
      BY <3>1, MadeDueOK, Typed DEF Inv, SameEntries
    <3> QED BY <1>1, <3>2, SeenSame
  <2>2. CASE StartSync \/ TimerFires \/ Enable
    BY <1>1, <2>2, SeenSame DEF StartSync, TimerFires, Enable, queue
  <2> QED BY <2>1, <2>2
<1>3. Taken' = Taken /\ Checked' = Checked
  <2>1. CASE Idle /\ BeginSync(snapshot)
    BY <2>1, BeginSyncOK, NotChecked, Typed DEF Inv, Idle
  <2>2. CASE run' = run
    BY <2>2 DEF Taken, Checked, Uploading, Current
  <2> QED BY <2>1, <2>2 DEF StartSync, RetryPending, TimerFires, Enable
<1> QED BY <1>1, <1>2, <1>3, Unseen

\* A sync goes on, or ends and perhaps begins to upload.
LEMMA SyncEnds ==
  ASSUME Inv, SyncStep
  PROVE  \/ run'.phase \in {"idle", "fetch", "pause"}
         \/ \E a \in Accounts : BeginUploads(a, outbox)
<1>1. CASE PauseEnds
  BY <1>1 DEF PauseEnds, Inv, TypeOK, Run, FetchInv
<1>2. ASSUME NEW more \in BOOLEAN, Fetched(more)
      PROVE  \/ run'.phase \in {"idle", "fetch", "pause"}
             \/ \E a \in Accounts : BeginUploads(a, outbox)
  BY <1>2 DEF Fetched, Inv, TypeOK, Run
<1>3. CASE SyncFails \/ SyncSignedOut
  BY <1>3, IdleOK DEF SyncFails, SyncSignedOut
<1>4. CASE ReadAccount \/ FetchPage
  BY <1>4 DEF ReadAccount, FetchPage, Fetching, Inv, TypeOK, Run
<1> QED BY <1>1, <1>2, <1>3, <1>4 DEF SyncStep

\* A sync takes up what waits when it has got to its end.
LEMMA SyncMaps ==
  ASSUME Inv, Inv', SyncStep
  PROVE  [Delivery!Next]_(Delivery!vars)
<1>1. UNCHANGED <<account, made, cloud, gone, outbox>> /\ run.phase \in {"fetch", "pause"}
  BY DEF SyncStep, ReadAccount, FetchPage, Fetched, PauseEnds, SyncFails, SyncSignedOut, Fetching,
         outside, ever, icloud, queue, device
<1>2. Seen' = Seen /\ Taken = {} /\ Checked = {}
  BY <1>1, SeenSame, NotChecked
<1>3. ASSUME NEW a \in Accounts, BeginUploads(a, outbox)
      PROVE  [Delivery!Next]_(Delivery!vars)
  <2>1. BeginUploads(a, outbox')
    BY <1>1, <1>3
  <2>2. Taken' \subseteq Delivery!WaitingFor(a) /\ Checked' = {}
    BY <1>1, <1>2, <2>1, TakenUp DEF Delivery!WaitingFor
  <2>3. Delivery!Take(a)
    BY <1>1, <1>2, <2>2 DEF Delivery!Take
  <2> QED BY <2>3 DEF Delivery!Next
<1>4. CASE run'.phase \in {"idle", "fetch", "pause"}
  BY <1>1, <1>2, <1>4, Unseen, NotChecked
<1> QED BY <1>3, <1>4, SyncEnds

LEMMA SubmitMaps ==
  ASSUME Inv, Inv', NEW m \in Actions, NEW end \in Ends \ {"failed"}, Submit(m, end)
  PROVE  [Delivery!Next]_(Delivery!vars)
<1> PICK a \in Accounts : a = snapshot.account
  BY Typed DEF Inv, Submit
<1> DEFINE e == [account |-> a, attempts |-> 0, state |-> "pending", due |-> TRUE]
<1>1. /\ Idle /\ made[m] = None /\ UNCHANGED <<account, cloud, gone>>
      /\ \/ /\ outbox' = [outbox EXCEPT ![m] = e] /\ made' = [made EXCEPT ![m] = a]
            /\ BeginUploads(a, outbox')
         \/ UNCHANGED <<outbox, made, run>>
  BY DEF Submit, Commit, Ends, outside, icloud
<1>2. CASE UNCHANGED <<outbox, made, run>>
  BY <1>1, <1>2, SeenSame, Unseen DEF Taken, Checked, Uploading, Current
<1>3. CASE /\ outbox' = [outbox EXCEPT ![m] = e] /\ made' = [made EXCEPT ![m] = a]
           /\ BeginUploads(a, outbox')
  <2>1. /\ outbox'[m] = e /\ e # None /\ e.state = "pending"
        /\ made'[m] = a /\ made'[m] # None
        /\ \A n \in Actions \ {m} : outbox'[n] = outbox[n] /\ made'[n] = made[n]
    <3>1. e \in Entry /\ e.state = "pending" /\ e # None
      <4>1. e \in Entry
        BY PhoneAssumption DEF Entry
      <4> QED BY <4>1, NoneIsOther
    <3>2. outbox \in Outbox /\ made \in [Actions -> Accounts \cup {None}]
      BY Typed DEF Inv, TypeOK
    <3> HIDE DEF e
    <3> QED BY <1>3, <3>1, <3>2, NoneIsOther DEF Outbox
  <2> HIDE DEF e
  <2>2. Seen[m] = "unmade"
    BY <1>1, StatusIs, SeenAt
  <2>3. Seen' = [Seen EXCEPT ![m] = "waiting"]
    <3>1. Status(m)' = "waiting"
      BY <2>1 DEF Status
    <3>2. \A n \in Actions \ {m} : Status(n)' = Status(n)
      BY <1>1, <2>1, StatusSame
    <3> QED BY <3>1, <3>2, SeenExcept
  <2>4. /\ Taken = {} /\ Taken' \subseteq Delivery!WaitingFor(a)'
        /\ Checked = {} /\ Checked' = {}
    BY <1>1, <1>3, TakenUp, NotChecked DEF Idle
  <2>5. Delivery!Make(m, a)
    BY <1>1, <1>3, <2>2, <2>3, <2>4 DEF Delivery!Make
  <2> QED BY <2>5 DEF Delivery!Next
<1> QED BY <1>1, <1>2, <1>3

\* The upload is at the end of the current entry, which waits or was removed.
LEMMA Leaves ==
  ASSUME Inv, WayInv, Uploading, UNCHANGED <<account, made, cloud, gone>>,
         NEW m \in Actions, m = Current, Taken' \subseteq Taken \ {m}, Checked' = {}, NEW what,
         \A n \in Actions \ {m} : outbox'[n] = outbox[n],
         outbox[m] # None => Status(m)' = what,
         outbox[m] = None => outbox'[m] = None
  PROVE  Delivery!Leave(m, what)
<1>1. m \in run.todo /\ made[m] # None /\ m \in Taken
  BY UploadKeeps DEF Taken
<1>2. \A n \in Actions \ {m} : Status(n)' = Status(n)
  BY StatusSame
<1>3. CASE outbox[m] = None
  <2>1. m \in gone
    BY <1>1, <1>3 DEF WayInv
  <2>2. Seen[m] = "removed"
    BY <1>1, <1>3, <2>1, StatusIs, SeenAt
  <2>3. Status(m)' = Status(m)
    BY <1>3, StatusSame
  <2>4. Seen' = Seen
    BY <1>2, <2>3 DEF Seen
  <2> QED BY <1>1, <2>2, <2>4 DEF Delivery!Leave
<1>4. CASE outbox[m] # None
  <2>1. outbox[m].state = "pending"
    BY <1>1, <1>4 DEF Inv, UploadInv
  <2>2. Seen[m] = "waiting"
    BY <1>1, <1>4, <2>1, StatusIs, SeenAt
  <2>3. Seen' = [Seen EXCEPT ![m] = what]
    BY <1>2, <1>4, SeenExcept
  <2> QED BY <1>1, <2>2, <2>3 DEF Delivery!Leave
<1> QED BY <1>3, <1>4

LEMMA GoesOn ==
  ASSUME Inv, Uploading, NEW q, NextEntry(q)
  PROVE  Taken' \subseteq Taken \ {Current} /\ Checked' = {}
BY NextEntryOK, NotChecked DEF Inv, Taken, Uploading

\* The current entry is kept by an upload that ends or goes on, perhaps for a review.
LEMMA NotSentMaps ==
  ASSUME Inv, WayInv, Uploading, UNCHANGED <<account, made, cloud, gone>>,
         Checked' = {}, Taken' \subseteq Taken \ {Current},
         SameEntries(outbox, outbox'), Changed(outbox, outbox', Current)
  PROVE  [Delivery!Next]_(Delivery!vars)
<1> PICK m \in Actions : m = Current
  BY UploadKeeps
<1>1. /\ outbox[m] # None => made[m] # None
      /\ \A n \in Actions \ {m} : outbox'[n] = outbox[n]
  BY UploadKeeps DEF Changed
<1>2. CASE outbox[m] # None /\ outbox'[m].state = "needsReview"
  <2>1. Status(m)' = "held"
    BY <1>1, <1>2 DEF Status, SameEntries
  <2>2. Delivery!Leave(m, "held")
    BY <1>1, <1>2, <2>1, Leaves
  <2> QED BY <2>2 DEF Delivery!Next, Delivery!Hold
<1>3. CASE outbox[m] = None \/ outbox'[m].state = outbox[m].state
  <2>1. \A n \in Actions : /\ outbox[n] = None <=> outbox'[n] = None
                           /\ outbox[n] # None => outbox'[n].state = outbox[n].state
    BY <1>1, <1>3 DEF SameEntries
  <2>2. Seen' = Seen
    BY <2>1, SeenSame
  <2> QED BY <2>2, LetsGo
<1> QED BY <1>2, <1>3 DEF SameEntries

LEMMA UploadMaps ==
  ASSUME Inv, WayInv, UploadStep
  PROVE  [Delivery!Next]_(Delivery!vars)
<1>1. Uploading /\ UNCHANGED <<account, made, gone>>
  BY SavedOK DEF UploadStep, Check, KeyStored, KeySaved, Stored, Answered, UploadFails, UploadRefused,
         Ready, outside, ever
<1>2. /\ Current \in run.todo /\ Current \in Actions /\ made[Current] = run.account
      /\ run.account \in Accounts /\ made[Current] # None /\ Taken = run.todo
      /\ outbox \in Outbox /\ run \in Run
  BY <1>1, UploadKeeps, Typed DEF Inv, Taken
<1>3. CASE Check
  <2>1. /\ UNCHANGED <<outbox, cloud>> /\ run' = [run EXCEPT !.checked = TRUE]
        /\ ~run.checked /\ account = run.account
    BY <1>3 DEF Check, SameAccount, device, queue, icloud
  <2>2. Seen' = Seen /\ Taken' = Taken
    BY <1>1, <1>2, <2>1, SeenSame DEF Taken, Uploading, Run
  <2>3. CASE Checked' = {Current}
    <3>1. Delivery!Check(Current)
      BY <1>1, <1>2, <2>1, <2>2, <2>3 DEF Delivery!Check
    <3> QED BY <1>2, <3>1 DEF Delivery!Next
  <2>4. CASE Checked' = {}
    BY <1>1, <2>1, <2>2, <2>4, LetsGo
  <2>5. Checked' \in {{}, {Current}}
    <3>1. Current' = Current
      BY <1>2, <2>1 DEF Current, Run
    <3> QED BY <3>1 DEF Checked
  <2> QED BY <2>3, <2>4, <2>5
<1>4. CASE KeyStored
  <2>1. /\ UNCHANGED <<outbox, cloud>> /\ run.key /\ run' = [run EXCEPT !.sent = account]
    BY <1>4 DEF KeyStored, Sends, device, queue
  <2>2. Seen' = Seen /\ Taken' = Taken /\ Checked' = {}
    BY <1>1, <1>2, <2>1, SeenSame DEF Taken, Checked, Uploading, Run
  <2> QED BY <1>1, <2>1, <2>2, LetsGo
<1>5. CASE Stored
  <2>1. /\ outbox' = outbox /\ run' = [run EXCEPT !.sent = account] /\ account # None
        /\ account \notin cloud[Current] /\ cloud' = [cloud EXCEPT ![Current] = @ \cup {account}]
        /\ run.checked /\ ~run.key /\ run.sent = None
    BY <1>5 DEF Stored, Ready, Sends, device, queue
  <2>2. Seen' = Seen
    BY <1>1, <2>1, SeenSame
  <2>3. Taken' = Taken
    BY <1>2, <2>1 DEF Taken, Uploading, Run
  <2>4. Checked = {Current} /\ Checked' = {}
    BY <1>1, <1>2, <2>1 DEF Checked, Run
  <2>5. Seen[Current] \in {"waiting", "removed"}
    BY <1>1, <1>2, UploadKeeps, StatusIs, SeenAt DEF WayInv
  <2>6. Delivery!Store(Current)
    BY <1>1, <1>2, <2>1, <2>2, <2>3, <2>4, <2>5 DEF Delivery!Store
  <2> QED BY <1>2, <2>6 DEF Delivery!Next
<1>6. ASSUME NEW a \in Accounts, KeySaved(a)
      PROVE  [Delivery!Next]_(Delivery!vars)
  <2>1. /\ UNCHANGED <<outbox, cloud>>
        /\ run' = [run EXCEPT !.key = FALSE, !.checked = FALSE, !.moved = FALSE, !.sent = None]
    BY <1>6 DEF KeySaved, queue, icloud
  <2>2. Seen' = Seen /\ Taken' = Taken /\ Checked' = {}
    BY <1>1, <1>2, <2>1, SeenSame DEF Taken, Checked, Uploading, Run
  <2> QED BY <1>1, <2>1, <2>2, LetsGo
<1>7. ASSUME NEW a \in Accounts, Answered(a)
      PROVE  [Delivery!Next]_(Delivery!vars)
  <2>1. outbox' = Without(outbox, Current) /\ NextEntry(outbox') /\ cloud' = cloud
    BY <1>7 DEF Answered, Commit, icloud
  <2>2. \A n \in Actions : outbox'[n] = IF n = Current THEN None ELSE outbox[n]
    BY <1>2, <2>1, WithoutOK
  <2>3. cloud[Current] # {}
    BY <1>7, SavedOK DEF Answered
  <2> PICK m \in Actions : m = Current
    BY <1>2
  <2>4. outbox[m] # None => Status(m)' = "done"
    BY <1>1, <1>2, <2>2 DEF Status, WayInv
  <2>5. Taken' \subseteq Taken \ {m} /\ Checked' = {}
    BY <1>1, <2>1, GoesOn
  <2>6. Delivery!Leave(m, "done")
    BY <1>1, <2>1, <2>2, <2>4, <2>5, Leaves
  <2> QED BY <2>3, <2>6 DEF Delivery!Next, Delivery!Finish
<1>8. ASSUME NEW end, UploadFails(end)
      PROVE  [Delivery!Next]_(Delivery!vars)
  <2>1. /\ outbox' \in {outbox, Attempted(outbox, Current)} /\ run' = IdleRun /\ cloud' = cloud
    BY <1>8 DEF UploadFails, Commit, icloud
  <2>2. SameEntries(outbox, outbox') /\ Changed(outbox, outbox', Current)
    BY <1>2, <2>1, AttemptedOK DEF SameEntries, Changed
  <2>3. Taken' = {} /\ Checked' = {}
    BY <2>1, IdleOK, NotChecked
  <2> QED BY <1>1, <2>1, <2>2, <2>3, NotSentMaps
<1>9. ASSUME NEW end, UploadRefused(end)
      PROVE  [Delivery!Next]_(Delivery!vars)
  <2>1. outbox' \in {outbox, Reviewed(outbox, Current)} /\ NextEntry(outbox') /\ cloud' = cloud
    BY <1>9 DEF UploadRefused, Commit, icloud
  <2>2. SameEntries(outbox, outbox') /\ Changed(outbox, outbox', Current)
    BY <1>2, <2>1, ReviewedOK DEF SameEntries, Changed
  <2> QED BY <1>1, <2>1, <2>2, GoesOn, NotSentMaps
<1> QED BY <1>3, <1>4, <1>5, <1>6, <1>7, <1>8, <1>9 DEF UploadStep

\* The owner removes what is on the outbox.
LEMMA ClearMaps ==
  ASSUME Inv, ClearPending \/ \E cleared \in BOOLEAN : DisableAndClear(cleared)
  PROVE  [Delivery!Next]_(Delivery!vars)
<1>1. UNCHANGED <<account, made, cloud, run>>
  BY DEF ClearPending, DisableAndClear, outside, icloud
<1>2. Taken' = Taken /\ Checked' = Checked
  BY <1>1 DEF Taken, Checked, Uploading, Current
<1>3. CASE Cleared
  <2> DEFINE ms == Present(outbox)
  <2>1. /\ \A m \in Actions : outbox'[m] = None
        /\ gone' = gone \cup ms /\ ms \in SUBSET Actions
        /\ \A m \in Actions : m \in ms <=> outbox[m] # None
    BY <1>3 DEF Cleared, Commit, Present
  <2> HIDE DEF ms
  <2>2. \A m \in ms : Seen[m] \in {"waiting", "held"} /\ Status(m)' = "removed"
    <3>1. TAKE m \in ms
    <3>2. made[m] # None /\ outbox[m] # None
      BY <2>1, NoneIsOther DEF Inv, TypeOK, EntryInv, Entry
    <3>3. Seen[m] \in {"waiting", "held"}
      BY <2>1, <3>2, StatusIs, SeenAt
    <3>4. Status(m)' = "removed"
      BY <1>1, <2>1, <3>2 DEF Status
    <3> QED BY <3>3, <3>4
  <2>3. \A m \in Actions \ ms : Status(m)' = Status(m)
    BY <1>1, <2>1, StatusSame
  <2>4. Seen' = [m \in Actions |-> IF m \in ms THEN "removed" ELSE Seen[m]]
    BY <2>2, <2>3 DEF Seen
  <2>5. Delivery!Remove(ms)
    BY <1>1, <1>2, <2>2, <2>4 DEF Delivery!Remove
  <2> QED BY <2>1, <2>5 DEF Delivery!Next
<1>4. CASE UNCHANGED <<outbox, gone>>
  BY <1>1, <1>2, <1>4, SeenSame, Unseen
<1> QED BY <1>3, <1>4 DEF ClearPending, DisableAndClear, queue

\* A start brings back what a commit that failed had left in the file.
LEMMA KillMaps ==
  ASSUME Inv, WayInv, Kill
  PROVE  [Delivery!Next]_(Delivery!vars)
<1>1. /\ UNCHANGED <<account, cloud>> /\ run' = IdleRun /\ outbox' = Loaded
      /\ made' = [m \in Actions |-> IF Loaded[m] # None THEN Loaded[m].account ELSE made[m]]
      /\ gone' = gone \cup (Present(outbox) \cap Present(stored) \cap expired)
  BY DEF Kill, icloud
<1>2. Taken' = {} /\ Checked' = {}
  BY <1>1, IdleOK, NotChecked
<1>3. ASSUME NEW m \in Actions PROVE Delivery!ComesBack(m)
  <2>1. /\ Loaded[m] = IF m \in expired THEN None ELSE stored[m]
        /\ made'[m] = IF Loaded[m] # None THEN Loaded[m].account ELSE made[m]
        /\ Loaded[m] # None => Loaded[m].account \in Accounts
        /\ outbox'[m] = Loaded[m]
        /\ m \in gone' <=> m \in gone \/ (outbox[m] # None /\ stored[m] # None /\ m \in expired)
    BY <1>1, LoadedOK DEF Present
  <2>2. Seen[m] = Status(m) /\ Seen'[m] = Status(m)'
    BY SeenAt
  <2>3. CASE made[m] = None
    <3>1. Status(m) = "unmade" /\ m \notin gone
      BY <2>3 DEF Status, WayInv
    <3>2. CASE Loaded[m] = None
      <4>1. Status(m)' = "unmade" /\ made'[m] = made[m]
        BY <2>1, <2>3, <3>2 DEF Status
      <4> QED BY <2>2, <3>1, <4>1 DEF Delivery!ComesBack
    <3>3. CASE Loaded[m] # None
      <4>1. Loaded[m].state = "pending"
        BY <2>1, <2>3, <3>3 DEF Inv, FileInv
      <4>2. Status(m)' = "waiting" /\ made'[m] \in Accounts
        BY <2>1, <3>3, <4>1, NoneIsOther DEF Status
      <4> QED BY <2>2, <3>1, <4>2 DEF Delivery!ComesBack
    <3> QED BY <3>2, <3>3
  <2>4. CASE made[m] # None /\ outbox[m] = None
    <3>1. Loaded[m] = None
      BY <2>1, <2>4 DEF Inv, FileInv
    <3>2. made'[m] = made[m] /\ (m \in gone' <=> m \in gone) /\ outbox'[m] = outbox[m]
      BY <2>1, <2>4, <3>1
    <3>3. Status(m)' = Status(m)
      BY <3>2, StatusSame
    <3> QED BY <2>2, <3>2, <3>3 DEF Delivery!ComesBack
  <2>5. CASE made[m] # None /\ outbox[m] # None
    <3>1. made'[m] = made[m] /\ m \notin gone
      BY <2>1, <2>5 DEF Inv, FileInv, WayInv
    <3>2. CASE stored[m] = None
      <4>1. cloud[m] # {} /\ outbox[m].state = "pending"
        BY <2>5, <3>2 DEF Inv, FileInv
      <4>2. Status(m) = "waiting" /\ Status(m)' = "done"
        BY <2>1, <2>5, <3>1, <3>2, <4>1 DEF Status
      <4> QED BY <2>2, <3>1, <4>1, <4>2 DEF Delivery!ComesBack
    <3>3. CASE stored[m] # None /\ m \in expired
      <4>1. Status(m) \in {"waiting", "held"} /\ Status(m)' = "removed"
        BY <2>1, <2>5, <3>1, <3>3 DEF Status
      <4> QED BY <2>2, <3>1, <4>1 DEF Delivery!ComesBack
    <3>4. CASE stored[m] # None /\ m \notin expired
      <4>1. outbox'[m] = stored[m] /\ stored[m].state \in {outbox[m].state, "needsReview"}
        BY <2>1, <2>5, <3>4 DEF Inv, FileInv
      <4>2. \/ Status(m)' = Status(m)
            \/ Status(m) = "waiting" /\ Status(m)' = "held"
        BY <2>5, <3>1, <3>4, <4>1 DEF Status
      <4> QED BY <2>2, <3>1, <4>2 DEF Delivery!ComesBack
    <3> QED BY <3>2, <3>3, <3>4
  <2> QED BY <2>3, <2>4, <2>5
<1>4. Delivery!Restart
  BY <1>1, <1>2, <1>3 DEF Delivery!Restart
<1> QED BY <1>4 DEF Delivery!Next

LEMMA OutsideMaps ==
  ASSUME Inv, SwitchAccount \/ AccountNoticed \/ \E m \in Actions : Elapse(m) \/ Edit(m) \/ Expire(m)
  PROVE  [Delivery!Next]_(Delivery!vars)
<1>1. UNCHANGED <<made, cloud, gone>>
  BY DEF SwitchAccount, AccountNoticed, Elapse, Edit, Expire, ever, icloud
<1>2. Seen' = Seen
  <2>1. ASSUME NEW m \in Actions, Elapse(m)
        PROVE  \A n \in Actions : /\ outbox[n] = None <=> outbox'[n] = None
                                  /\ outbox[n] # None => outbox'[n].state = outbox[n].state
    BY <2>1, RipeOK, Typed DEF Inv, Elapse, Changed
  <2>2. outbox' = outbox \/ \E m \in Actions : Elapse(m)
    BY DEF SwitchAccount, AccountNoticed, Edit, Expire, device, queue
  <2> QED BY <1>1, <2>1, <2>2, SeenSame
<1>3. Taken' = Taken /\ Checked' = Checked
  <2>1. CASE run' = run
    BY <2>1 DEF Taken, Checked, Uploading, Current
  <2>2. CASE Idle /\ BeginSync(Empty)
    BY <2>2, BeginSyncOK, EmptyOK, NotChecked DEF Idle
  <2>3. CASE SwitchAccount
    <3> DEFINE moved == run.moved \/ (run.checked /\ run.sent = None)
                          \/ (Fetching /\ run.account # None)
    <3>1. run' = [run EXCEPT !.moved = moved] /\ run \in Run
      BY <2>3, Typed DEF Inv, SwitchAccount
    <3> HIDE DEF moved
    <3> QED BY <3>1 DEF Taken, Checked, Uploading, Current, Run
  <2> QED BY <2>1, <2>2, <2>3 DEF AccountNoticed, Elapse, Edit, Expire, device
<1>4. CASE SwitchAccount
  <2>1. account' \in Accounts \cup {None}
    BY <1>4 DEF SwitchAccount
  <2>2. Delivery!SwitchAccount
    BY <1>1, <1>2, <1>3, <2>1 DEF Delivery!SwitchAccount
  <2> QED BY <2>2 DEF Delivery!Next
<1>5. CASE UNCHANGED account
  BY <1>1, <1>2, <1>3, <1>5, Unseen
<1> QED BY <1>4, <1>5 DEF AccountNoticed, Elapse, Edit, Expire, outside

\* What was removed, and what is being sent, keeps to WayInv.
LEMMA WayStep ==
  ASSUME Inv, WayInv, [Next]_vars
  PROVE  WayInv'
<1>1. \A m \in Actions : outbox[m] # None => made[m] # None
  <2>1. \A m \in Actions : outbox[m] # None => outbox[m] \in Entry /\ outbox[m].account = made[m]
    BY DEF Inv, TypeOK, EntryInv
  <2> QED BY <2>1, NoneIsOther DEF Entry
<1>2. gone \subseteq Actions /\ run.todo \subseteq Actions /\ outbox \in Outbox /\ run \in Run
  BY Typed DEF Inv, TypeOK
<1>3. ASSUME UNCHANGED <<made, gone>>, run'.phase = run.phase, run'.todo = run.todo,
             \A m \in Actions : outbox'[m] = None <=> outbox[m] = None
      PROVE  WayInv'
  BY <1>2, <1>3 DEF WayInv, Uploading
<1>4. ASSUME UNCHANGED <<made, gone>>, \A m \in Actions : outbox'[m] = None <=> outbox[m] = None,
             run'.phase # "upload"
      PROVE  WayInv'
  BY <1>2, <1>4 DEF WayInv, Uploading
<1>5. ASSUME UNCHANGED <<made, gone, outbox>>, NEW a \in Accounts, BeginUploads(a, outbox)
      PROVE  WayInv'
  BY <1>2, <1>5, BeginUploadsOK DEF WayInv, Uploading
<1>6. ASSUME UNCHANGED <<made, gone>>, Uploading, NextEntry(outbox'),
             \A m \in Actions \ {Current} : outbox'[m] = outbox[m],
             outbox[Current] = None => outbox'[Current] = None
      PROVE  WayInv'
  <2>1. run'.phase = "upload" => run'.todo = run.todo \ {Current}
    BY <1>6, NextEntryOK DEF Inv
  <2> QED BY <1>2, <1>6, <2>1 DEF WayInv, Uploading
<1>7. CASE \/ StartSync \/ TimerFires \/ Enable
           \/ \E end \in Ends \ {"failed"} : RetryPending(end)
  <2>1. /\ UNCHANGED <<made, gone>> /\ (run' = run \/ BeginSync(snapshot))
        /\ \A m \in Actions : outbox'[m] = None <=> outbox[m] = None
    <3>1. ASSUME NEW end, RetryPending(end)
          PROVE  /\ UNCHANGED <<made, gone>> /\ (run' = run \/ BeginSync(snapshot))
                 /\ \A m \in Actions : outbox'[m] = None <=> outbox[m] = None
      <4>1. outbox' \in {outbox, MadeDue(outbox, snapshot.account)}
        BY <3>1 DEF RetryPending, Commit
      <4>2. \A m \in Actions : outbox'[m] = None <=> outbox[m] = None
        BY <1>2, <4>1, MadeDueOK DEF SameEntries
      <4> QED BY <3>1, <4>2 DEF RetryPending, ever
    <3> QED BY <1>7, <3>1 DEF StartSync, TimerFires, Enable, queue, ever
  <2>2. run' = run \/ run'.phase # "upload"
    BY <2>1, BeginSyncOK, Typed DEF Inv
  <2> QED BY <1>3, <1>4, <2>1, <2>2
<1>8. CASE SyncStep
  <2>1. UNCHANGED <<made, gone, outbox>>
    BY <1>8 DEF SyncStep, ReadAccount, FetchPage, Fetched, PauseEnds, SyncFails, SyncSignedOut,
                device, queue, ever
  <2>2. run'.phase # "upload" \/ \E a \in Accounts : BeginUploads(a, outbox)
    BY <1>8, SyncEnds
  <2> QED BY <1>4, <1>5, <2>1, <2>2
<1>9. CASE UploadStep
  <2>1. Uploading /\ UNCHANGED <<made, gone>>
    BY <1>9, SavedOK DEF UploadStep, Check, KeyStored, KeySaved, Stored, Answered, UploadFails,
         UploadRefused, Ready, ever
  <2> PICK m \in Actions : m = Current
    BY <2>1, UploadKeeps
  <2>2. CASE Check \/ KeyStored \/ Stored \/ \E a \in Accounts : KeySaved(a)
    <3>1. outbox' = outbox /\ run'.phase = run.phase /\ run'.todo = run.todo
      BY <1>2, <2>2 DEF Check, KeySaved, KeyStored, Stored, Sends, device, queue, Run
    <3> QED BY <1>3, <2>1, <3>1
  <2>3. ASSUME NEW a \in Accounts, Answered(a)
        PROVE  WayInv'
    <3>1. outbox' = Without(outbox, m) /\ NextEntry(outbox')
      BY <2>3 DEF Answered, Commit
    <3> QED BY <1>2, <1>6, <2>1, <3>1, WithoutOK
  <2>4. ASSUME NEW end, UploadFails(end) \/ UploadRefused(end)
        PROVE  WayInv'
    <3>1. /\ outbox' \in {outbox, Attempted(outbox, m), Reviewed(outbox, m)}
          /\ run' = IdleRun \/ NextEntry(outbox')
      BY <2>4 DEF UploadFails, UploadRefused, Commit
    <3>2. /\ \A n \in Actions : outbox'[n] = None <=> outbox[n] = None
          /\ \A n \in Actions \ {m} : outbox'[n] = outbox[n]
      <4>1. SameEntries(outbox, outbox') /\ Changed(outbox, outbox', m)
        <5>1. SameEntries(outbox, outbox) /\ Changed(outbox, outbox, m)
          BY DEF SameEntries, Changed
        <5> QED BY <1>2, <3>1, <5>1, AttemptedOK, ReviewedOK
      <4> QED BY <4>1 DEF SameEntries, Changed
    <3> QED BY <1>4, <1>6, <2>1, <3>1, <3>2, IdleOK
  <2> QED BY <1>9, <2>2, <2>3, <2>4 DEF UploadStep
<1>10. ASSUME NEW m \in Actions, NEW end \in Ends \ {"failed"}, Submit(m, end)
       PROVE  WayInv'
  <2> PICK a \in Accounts : a = snapshot.account
    BY <1>10, Typed DEF Inv, Submit
  <2> DEFINE e == [account |-> a, attempts |-> 0, state |-> "pending", due |-> TRUE]
             q == [outbox EXCEPT ![m] = e]
  <2>1. e \in Entry
    BY PhoneAssumption DEF Entry
  <2>2. /\ made[m] = None /\ gone' = gone
        /\ \/ outbox' = q /\ made' = [made EXCEPT ![m] = a] /\ BeginUploads(a, q)
           \/ UNCHANGED <<outbox, made, run>>
    BY <1>10 DEF Submit, Commit, Ends
  <2> HIDE DEF e
  <2>3. CASE outbox' = q /\ made' = [made EXCEPT ![m] = a] /\ BeginUploads(a, q)
    <3>1. \A n \in gone' : made'[n] # None /\ outbox'[n] = None
      BY <1>2, <2>2, <2>3 DEF WayInv, Inv, TypeOK, Outbox
    <3>2. q \in Outbox
      BY <1>2, <2>1 DEF Outbox
    <3> HIDE DEF q
    <3>3. run'.phase = "upload" => \A n \in run'.todo : q[n] # None
      BY <1>2, <2>3, <3>2, BeginUploadsOK
    <3> QED BY <2>3, <3>1, <3>3 DEF WayInv, Uploading
  <2>4. CASE UNCHANGED <<outbox, made, run>>
    BY <1>3, <2>2, <2>4
  <2> QED BY <2>2, <2>3, <2>4
<1>11. CASE ClearPending \/ \E cleared \in BOOLEAN : DisableAndClear(cleared)
  <2>1. /\ UNCHANGED <<made, run>>
        /\ Cleared \/ (outbox' = outbox /\ gone' = gone)
    BY <1>11 DEF ClearPending, DisableAndClear, queue
  <2>2. CASE Cleared
    <3>1. /\ \A m \in Actions : outbox'[m] = None
          /\ gone' = gone \cup {m \in Actions : outbox[m] # None}
      BY <2>2 DEF Cleared, Commit, Present
    <3> QED BY <1>1, <1>2, <2>1, <3>1 DEF WayInv, Uploading
  <2> QED BY <1>3, <2>1, <2>2
<1>12. CASE AccountNoticed \/ \E m \in Actions : Elapse(m) \/ Edit(m) \/ Expire(m)
  <2>1. UNCHANGED <<made, gone>> /\ (run' = run \/ BeginSync(Empty))
    BY <1>12 DEF AccountNoticed, Elapse, Edit, Expire, device, ever
  <2>2. \A n \in Actions : outbox'[n] = None <=> outbox[n] = None
    <3>1. ASSUME NEW m \in Actions, Elapse(m)
          PROVE  \A n \in Actions : outbox'[n] = None <=> outbox[n] = None
      BY <1>2, <3>1, RipeOK DEF Elapse, Changed
    <3>2. outbox' = outbox \/ \E m \in Actions : Elapse(m)
      BY <1>12 DEF AccountNoticed, Edit, Expire, device, queue
    <3> QED BY <3>1, <3>2
  <2>3. run' = run \/ run'.phase # "upload"
    BY <2>1, BeginSyncOK, EmptyOK
  <2> QED BY <1>3, <1>4, <2>1, <2>2, <2>3
<1>13. CASE SwitchAccount
  <2> DEFINE moved == run.moved \/ (run.checked /\ run.sent = None)
                        \/ (Fetching /\ run.account # None)
  <2>1. /\ run' = [run EXCEPT !.moved = moved] /\ UNCHANGED <<outbox, made, gone>>
    BY <1>13 DEF SwitchAccount, device, queue, ever
  <2> HIDE DEF moved
  <2>2. run'.phase = run.phase /\ run'.todo = run.todo
    BY <1>2, <2>1 DEF Run
  <2> QED BY <1>3, <2>1, <2>2
<1>14. CASE Kill
  <2>1. /\ run' = IdleRun /\ outbox' = Loaded
        /\ made' = [m \in Actions |-> IF Loaded[m] # None THEN Loaded[m].account ELSE made[m]]
        /\ gone' = gone \cup (Present(outbox) \cap Present(stored) \cap expired)
    BY <1>14 DEF Kill
  <2>2. ASSUME NEW m \in gone' PROVE made'[m] # None /\ outbox'[m] = None
    <3>1. m \in gone \/ (m \in Actions /\ outbox[m] # None /\ m \in expired)
      BY <2>1 DEF Present
    <3>3. m \in Actions /\ made[m] # None /\ ((m \in gone /\ outbox[m] = None) \/ m \in expired)
      BY <1>1, <1>2, <3>1 DEF WayInv
    <3>2. Loaded[m] = None
      BY <3>3, LoadedOK DEF Inv, FileInv
    <3> QED BY <2>1, <3>3, <3>2
  <2> QED BY <2>1, <2>2, IdleOK DEF WayInv, Uploading
<1>15. CASE UNCHANGED vars
  BY <1>3, <1>15 DEF vars
<1> QED BY <1>7, <1>8, <1>9, <1>10, <1>11, <1>12, <1>13, <1>14, <1>15 DEF Next

\* Every start of the app and every step of it is one that ActionDelivery allows.
LEMMA InitMaps == Init => Delivery!Init /\ WayInv
<1> SUFFICES ASSUME Init PROVE Delivery!Init /\ WayInv
  OBVIOUS
<1>1. account \in Accounts \cup {None}
  BY PhoneAssumption DEF Init
<1>2. Seen = [m \in Actions |-> "unmade"]
  BY StatusIs DEF Init, Seen
<1>3. ~Uploading
  BY IdleOK DEF Init, Uploading
<1> QED BY <1>1, <1>2, <1>3 DEF Init, WayInv, Delivery!Init, Taken, Checked

LEMMA StepMaps == Inv /\ Inv' /\ WayInv /\ [Next]_vars => [Delivery!Next]_(Delivery!vars)
<1> SUFFICES ASSUME Inv, Inv', WayInv, [Next]_vars PROVE [Delivery!Next]_(Delivery!vars)
  OBVIOUS
<1>1. CASE Next
  BY <1>1, StartMaps, SyncMaps, UploadMaps, SubmitMaps, ClearMaps, KillMaps, OutsideMaps DEF Next
<1>2. CASE UNCHANGED vars
  BY <1>2, SeenSame, Unseen DEF vars, Taken, Checked, Uploading, Current
<1> QED BY <1>1, <1>2

\* The syncs and uploads keep the promise of ActionDelivery, for every number of accounts,
\* actions, attempts and upsets.
THEOREM ActionsDelivered == Spec => DeliversActions
<1>1. Inv /\ WayInv /\ [Next]_vars => WayInv'
  BY WayStep
<1>2. Spec => []WayInv
  BY <1>1, InitMaps, InvAlways, PTL DEF Spec
<1> QED BY <1>2, InitMaps, StepMaps, InvAlways, PTL DEF Spec, DeliversActions, Delivery!Spec

=============================================================================
