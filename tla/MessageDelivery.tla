-------------------------- MODULE MessageDelivery --------------------------
(***************************************************************************)
(* What a user of the browser is promised about the messages of the chat   *)
(* page and the items of its offline queue, whatever becomes of requests,  *)
(* flushes that overlap, and the page (src/hooks/useChatPersistence.ts,    *)
(* src/services/offlineMessageQueue.ts, server/chat.ts).  A message is     *)
(* posted at most twice, and is saved only when it has been stored, or put *)
(* on the queue under a key of its own unless the queue has its text.  An  *)
(* item leaves the queue when it is on the server, when the user removes   *)
(* it, when newer ones push it out of a queue at its limit, or with the    *)
(* one reading of an older copy that an opening of the page makes.  It may *)
(* be sent any number of times and makes one row of a session.             *)
(***************************************************************************)
EXTENDS Integers, FiniteSets

CONSTANTS Submissions, Texts, TextOf, Sessions, Keys, Limit, None

VARIABLES
  fate,      \* what has become of each message
  posts,     \* direct requests on their way: of which message, and which try
  copies,    \* how often a message was stored by them
  items,     \* the text that each key stands for, or None
  waiting,   \* the keys on the queue
  dropped,   \* keys that left it without being on the server
  sent,      \* sessions and keys of the replays on their way
  rows,      \* [Sessions -> [Keys -> rows on the server]]
  unread     \* an older copy of the queue is still to be read

vars == <<fate, posts, copies, items, waiting, dropped, sent, rows, unread>>

queueVars  == <<items, waiting, dropped, unread>>
serverVars == <<copies, sent, rows>>

InHand(s) == fate[s] \in {"trying", "again"}
Made      == {k \in Keys : items[k] # None}
On(k)     == \E s \in Sessions : rows[s][k] > 0

Init ==
  /\ fate = [s \in Submissions |-> "unsent"] /\ posts = {}
  /\ copies = [s \in Submissions |-> 0]
  /\ items \in [Keys -> Texts \cup {None}]
  /\ waiting = Made /\ Cardinality(waiting) <= Limit /\ dropped = {}
  /\ sent = {} /\ rows = [s \in Sessions |-> [k \in Keys |-> 0]]
  /\ unread = TRUE

\* Without a session the first try is no request.
Try(s) ==
  /\ fate[s] = "unsent" /\ fate' = [fate EXCEPT ![s] = "trying"]
  /\ posts' \in {posts, posts \cup {[of |-> s, try |-> "first"]}}
  /\ UNCHANGED <<queueVars, serverVars>>

TryAgain(s) ==
  /\ fate[s] = "trying" /\ fate' = [fate EXCEPT ![s] = "again"]
  /\ posts' = posts \cup {[of |-> s, try |-> "second"]}
  /\ UNCHANGED <<queueVars, serverVars>>

Land(p) ==
  /\ p \in posts /\ posts' = posts \ {p}
  /\ copies' = [copies EXCEPT ![p.of] = @ + 1]
  /\ UNCHANGED <<fate, queueVars, sent, rows>>

Save(s) ==
  /\ InHand(s) /\ copies[s] > 0
  /\ fate' = [fate EXCEPT ![s] = "saved"]
  /\ UNCHANGED <<posts, queueVars, serverVars>>

\* The newest items stay.
PutOn(k) ==
  /\ k \in waiting' /\ waiting' \subseteq waiting \cup {k} /\ Cardinality(waiting') <= Limit
  /\ \A i \in waiting \ waiting', j \in waiting' : i < j
  /\ Cardinality(waiting) < Limit => waiting \subseteq waiting'
  /\ dropped' = dropped \cup (waiting \ waiting')

Queue(s) ==
  /\ InHand(s) /\ fate' = [fate EXCEPT ![s] = "queued"]
  /\ IF \E k \in waiting : items[k] = TextOf[s]
     THEN UNCHANGED <<items, waiting, dropped>>
     ELSE \E k \in Keys \ Made : PutOn(k) /\ items' = [items EXCEPT ![k] = TextOf[s]]
  /\ UNCHANGED <<posts, unread, serverVars>>

\* Also an item that has left the queue since it was read
Send(s, k) ==
  /\ k \in Made
  /\ sent' = sent \cup {<<s, k>>}
  /\ UNCHANGED <<fate, posts, queueVars, copies, rows>>

\* Several replays of an item may be on their way.
Arrive(s, k) ==
  /\ <<s, k>> \in sent /\ sent' \in {sent, sent \ {<<s, k>>}}
  /\ rows' = [rows EXCEPT ![s][k] = 1]
  /\ UNCHANGED <<fate, posts, queueVars, copies>>

TakeOff ==
  /\ waiting' \subseteq waiting /\ \A k \in waiting \ waiting' : On(k)
  /\ UNCHANGED <<fate, posts, items, dropped, unread, serverVars>>

Remove ==
  /\ waiting' \subseteq waiting
  /\ dropped' = dropped \cup (waiting \ waiting')
  /\ UNCHANGED <<fate, posts, items, unread, serverVars>>

\* The page is closed and opened again.
Open ==
  /\ fate' = [s \in Submissions |-> IF InHand(s) THEN "lost" ELSE fate[s]]
  /\ unread' = TRUE
  /\ UNCHANGED <<posts, items, waiting, dropped, serverVars>>

Read ==
  /\ unread /\ unread' = FALSE
  /\ waiting' \subseteq Made /\ Cardinality(waiting') <= Limit
  /\ dropped' = dropped \cup (waiting \ waiting')
  /\ UNCHANGED <<fate, posts, items, serverVars>>

Next ==
  \/ \E s \in Submissions : Try(s) \/ TryAgain(s) \/ Save(s) \/ Queue(s)
  \/ \E p \in posts : Land(p)
  \/ \E s \in Sessions, k \in Keys : Send(s, k) \/ Arrive(s, k)
  \/ TakeOff \/ Remove \/ Open \/ Read

Spec == Init /\ [][Next]_vars
=============================================================================
