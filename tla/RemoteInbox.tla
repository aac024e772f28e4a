---------------------------- MODULE RemoteInbox -----------------------------
(***************************************************************************)
(* What the owner of the Mac is promised about the changes that other      *)
(* devices make in iCloud, whatever the pulls, previews, imports, late     *)
(* answers, expired tokens and restarts of server/cloudKitSyncNow.ts do.   *)
(* A change enters the inbox once and is decided once.  The Mac itself     *)
(* accepts new records only: an edit or a deletion waits for the owner,    *)
(* and no deletion is ever applied.  A zone's mark, behind which nothing   *)
(* is fetched again, moves only when nothing of the zone is unresolved,    *)
(* and everything up to it is in the inbox, except in a zone that went on  *)
(* to a mark it had only had a look at.                                    *)
(***************************************************************************)
EXTENDS Naturals, Sequences

CONSTANTS Zones, Changes

VARIABLES
  posts,     \* the changes made so far: their zones and kinds
  replaced,  \* those that a later change of their record has replaced
  inbox,     \* those the Mac knows of
  status,    \* what has become of each
  mark,      \* how far each zone is fetched for good
  skipped    \* zones that went on to a mark that was only looked at

vars == <<posts, replaced, inbox, status, mark, skipped>>

Unresolved == {"pending-review", "conflict", "failed"}

\* What a change may be when it has arrived, and what may be decided of it
Arrival(kind) ==
  CASE kind = "new"    -> {"auto-ready", "pending-review", "applied", "conflict"}
    [] kind = "broken" -> {"failed"}
    [] OTHER           -> {"pending-review"}

Verdict(kind) == IF kind = "deleted" THEN {"conflict"} ELSE {"applied", "conflict"}

Init ==
  /\ posts = << >> /\ replaced = {} /\ inbox = {}
  /\ status = [i \in Changes |-> "absent"]
  /\ mark = [z \in Zones |-> 0] /\ skipped = {}

\* A change is made in zone z.  A deletion may be one that the Mac knows of.
Post(z, kind) ==
  /\ posts' = Append(posts, [zone |-> z, kind |-> kind])
  /\ replaced \subseteq replaced' /\ replaced' \subseteq DOMAIN posts
  /\ \A i \in replaced' \ replaced : posts[i].zone = z
  /\ \/ inbox' = inbox
     \/ kind = "deleted" /\ inbox' = inbox \cup {Len(posts')}
  /\ UNCHANGED <<status, mark, skipped>>

\* Marks that move pass over nothing.
MarksMove ==
  /\ skipped \subseteq skipped'
  /\ \A z \in Zones : mark'[z] # mark[z] =>
       \A i \in DOMAIN posts : posts[i].zone = z =>
         /\ status'[i] \notin Unresolved
         /\ z \in skipped' \/ i \in replaced \/ i > mark'[z] \/ i \in inbox'

\* The Mac takes what has arrived, and decides what needs no review.
Import ==
  /\ inbox \subseteq inbox' /\ inbox' \subseteq DOMAIN posts
  /\ \A i \in Changes :
       \/ status'[i] = status[i]
       \/ i \in inbox' /\ status[i] = "absent" /\ status'[i] \in Arrival(posts[i].kind)
       \/ i \in inbox /\ status[i] = "auto-ready" /\ status'[i] \in Verdict(posts[i].kind)
  /\ \A i \in inbox' : status'[i] = "absent" => posts[i].kind = "deleted"
  /\ MarksMove
  /\ UNCHANGED <<posts, replaced>>

\* The owner decides.
Review ==
  /\ \A i \in Changes :
       \/ status'[i] = status[i]
       \/ /\ i \in inbox /\ status[i] \in {"auto-ready", "pending-review"}
          /\ status'[i] \in Verdict(posts[i].kind)
  /\ MarksMove
  /\ UNCHANGED <<posts, replaced, inbox>>

Next ==
  \/ \E z \in Zones, kind \in {"new", "edit", "deleted", "broken"} : Post(z, kind)
  \/ Import
  \/ Review

Spec == Init /\ [][Next]_vars

=============================================================================
