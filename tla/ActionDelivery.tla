--------------------------- MODULE ActionDelivery ---------------------------
(***************************************************************************)
(* What the owner of the iPhone is promised about an action (a new memory, *)
(* a completed task, a chat request) that is to reach the iCloud of the    *)
(* account it was made for, whatever the syncs, uploads, retries and       *)
(* restarts of LifeOSCloudKitSync.swift do: it waits until it is stored,   *)
(* is put up for a review, or is removed; an upload that took it up while  *)
(* it was waiting finds its account signed in, and then stores it once, in *)
(* the account that is signed in by then; and it is done only when it is   *)
(* stored.  A restart may bring to light what a write of the outbox, that  *)
(* failed, had left in its file.  One upload is in progress at a time, of  *)
(* actions of one account.                                                 *)
(***************************************************************************)

CONSTANTS
  Actions,
  Accounts,
  None        \* nobody is signed in

VARIABLES
  account,    \* who is signed in
  for,        \* the account that an action was made for
  status,     \* what the owner sees of an action
  where,      \* the accounts in whose iCloud it is stored
  taken,      \* what the upload in progress still has to send
  checked     \* of that, what may be stored next

vars == <<account, for, status, where, taken, checked>>

WaitingFor(a) == {m \in Actions : status[m] = "waiting" /\ for[m] = a}

Init ==
  /\ account \in Accounts \cup {None}
  /\ for = [m \in Actions |-> None] /\ where = [m \in Actions |-> {}]
  /\ status = [m \in Actions |-> "unmade"]
  /\ taken = {} /\ checked = {}

\* A new action waits, and may be taken up at once with others of its account.
Make(m, a) ==
  /\ status[m] = "unmade" /\ status' = [status EXCEPT ![m] = "waiting"]
  /\ for' = [for EXCEPT ![m] = a]
  /\ taken = {} /\ taken' \subseteq WaitingFor(a)'
  /\ UNCHANGED <<account, where, checked>>

Take(a) ==
  /\ taken = {} /\ taken' \subseteq WaitingFor(a)
  /\ UNCHANGED <<account, for, status, where, checked>>

\* The account of an action is found signed in.
Check(m) ==
  /\ m \in taken /\ account = for[m]
  /\ checked' = {m}
  /\ UNCHANGED <<account, for, status, where, taken>>

\* It arrives wherever the owner is signed in by then, also when it was removed.
Store(m) ==
  /\ m \in checked /\ checked' = {} /\ status[m] \in {"waiting", "removed"}
  /\ account # None /\ account \notin where[m]
  /\ where' = [where EXCEPT ![m] = @ \cup {account}]
  /\ UNCHANGED <<account, for, status, taken>>

\* The upload has got to the end of an action, which is removed or becomes what.
Leave(m, what) ==
  /\ m \in taken /\ taken' \subseteq taken \ {m} /\ checked' = {}
  /\ status[m] \in {"waiting", "removed"}
  /\ status' = IF status[m] = "removed" THEN status ELSE [status EXCEPT ![m] = what]
  /\ UNCHANGED <<account, for, where>>

Finish(m) == where[m] # {} /\ Leave(m, "done")

Hold(m) == Leave(m, "held")

\* The upload stops, or goes on without some actions.
LetGo ==
  /\ taken' \subseteq taken /\ checked' \subseteq checked
  /\ UNCHANGED <<account, for, status, where>>

\* The owner removes actions.
Remove(ms) ==
  /\ \A m \in ms : status[m] \in {"waiting", "held"}
  /\ status' = [m \in Actions |-> IF m \in ms THEN "removed" ELSE status[m]]
  /\ UNCHANGED <<account, for, where, taken, checked>>

\* What may become of an action at a start: it is too old, or a write that failed
\* had put it up for a review, had taken it off after it was stored, or had added it.
ComesBack(m) ==
  \/ status'[m] = status[m] /\ for'[m] = for[m]
  \/ status[m] = "unmade" /\ status'[m] = "waiting" /\ for'[m] \in Accounts
  \/ /\ for'[m] = for[m]
     /\ \/ status[m] \in {"waiting", "held"} /\ status'[m] = "removed"
        \/ status[m] = "waiting" /\ status'[m] = "held"
        \/ status[m] = "waiting" /\ status'[m] = "done" /\ where[m] # {}

Restart ==
  /\ taken' = {} /\ checked' = {}
  /\ \A m \in Actions : ComesBack(m)
  /\ UNCHANGED <<account, where>>

SwitchAccount ==
  /\ account' \in Accounts \cup {None}
  /\ UNCHANGED <<for, status, where, taken, checked>>

Next ==
  \/ LetGo \/ SwitchAccount
  \/ \E m \in Actions, a \in Accounts : Make(m, a)
  \/ \E a \in Accounts : Take(a)
  \/ \E m \in Actions : Check(m) \/ Store(m) \/ Finish(m) \/ Hold(m)
  \/ \E ms \in SUBSET Actions : Remove(ms)
  \/ Restart

Spec == Init /\ [][Next]_vars

=============================================================================
