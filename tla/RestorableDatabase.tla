------------------------- MODULE RestorableDatabase -------------------------
(***************************************************************************)
(* What the owner is promised about the database and its backups, however  *)
(* many file operations a backup or a restore takes and wherever the end   *)
(* of the process cuts one off (server/db.ts): a backup is made at once    *)
(* and holds the database, or what was uploaded; a backup is removed only  *)
(* for a newer one that is whole; a restore puts the file the owner asked  *)
(* for in the database's place, at a start and before the server is up, if *)
(* it was not withdrawn.  What is cut off leaves a file that holds         *)
(* anything, or makes the restore one of a damaged copy; the database      *)
(* itself is never half of anything.                                       *)
(***************************************************************************)
EXTENDS Integers

CONSTANTS
  Files,      \* numbers of backups, in the order of their creation
  Contents,   \* what a file may hold: versions of the database, and Torn
  Torn,       \* the content of a damaged file
  None

VARIABLES
  serving,    \* the server is up
  db,         \* the content of the database
  last,       \* the newest version
  kept,       \* [Files -> content of the backup, or None]
  suspect,    \* backups whose making was cut off
  uploading,  \* a backup is being imported
  wanted      \* the content that the next start is to restore, or None

vars == <<serving, db, last, kept, suspect, uploading, wanted>>

Whole == {f \in Files \ suspect : kept[f] # None}

Fresh(f) == f \notin suspect /\ \A g \in Files : kept[g] # None => g < f

Init ==
  /\ serving = TRUE
  /\ db = 0 /\ last = 0
  /\ kept = [f \in Files |-> None] /\ suspect = {}
  /\ uploading = FALSE /\ wanted = None

Write ==
  /\ serving
  /\ last' = last + 1 /\ db' = last'
  /\ UNCHANGED <<serving, kept, suspect, uploading, wanted>>

BackUp(f) ==
  /\ serving /\ ~uploading /\ Fresh(f)
  /\ kept' = [kept EXCEPT ![f] = db]
  /\ UNCHANGED <<serving, db, last, suspect, uploading, wanted>>

Upload ==
  /\ serving
  /\ ~uploading /\ uploading' = TRUE
  /\ UNCHANGED <<serving, db, last, kept, suspect, wanted>>

Import(f) ==
  /\ serving /\ uploading /\ Fresh(f)
  /\ \E c \in Contents \ {Torn} : kept' = [kept EXCEPT ![f] = c]
  /\ UNCHANGED <<serving, db, last, suspect, uploading, wanted>>

Uploaded ==
  /\ serving
  /\ uploading /\ uploading' = FALSE
  /\ UNCHANGED <<serving, db, last, kept, suspect, wanted>>

\* The file of a backup or an import that was cut off.
LeftBehind(f) ==
  /\ Fresh(f)
  /\ \E c \in Contents : kept' = [kept EXCEPT ![f] = c]
  /\ suspect' = suspect \cup {f}

\* A backup or an import gives up and leaves its file.
Abandon(f) ==
  /\ serving /\ uploading' = FALSE
  /\ LeftBehind(f)
  /\ UNCHANGED <<serving, db, last, wanted>>

Remove(f) ==
  /\ serving
  /\ kept[f] # None /\ \E g \in Whole : g > f
  /\ kept' = [kept EXCEPT ![f] = None]
  /\ UNCHANGED <<serving, db, last, suspect, uploading, wanted>>

Ask(f) ==
  /\ serving
  /\ kept[f] # None
  /\ wanted' = kept[f]
  /\ UNCHANGED <<serving, db, last, kept, suspect, uploading>>

Withdraw ==
  /\ serving
  /\ wanted' = None
  /\ UNCHANGED <<serving, db, last, kept, suspect, uploading>>

\* The process ends, and may cut off a backup or the asking for a restore.
End ==
  /\ serving' = FALSE /\ uploading' = FALSE
  /\ \/ UNCHANGED <<kept, suspect, wanted>>
     \/ serving /\ wanted' = wanted /\ \E f \in Files : LeftBehind(f)
     \/ serving /\ wanted' = Torn /\ UNCHANGED <<kept, suspect>>
  /\ UNCHANGED <<db, last>>

Restore ==
  /\ ~serving
  /\ wanted # None /\ db' = wanted
  /\ UNCHANGED <<serving, last, kept, suspect, uploading, wanted>>

Restored ==
  /\ ~serving
  /\ wanted = db /\ wanted' = None
  /\ UNCHANGED <<serving, db, last, kept, suspect, uploading>>

ComeUp ==
  /\ ~serving
  /\ wanted = None /\ db # Torn
  /\ serving' = TRUE
  /\ UNCHANGED <<db, last, kept, suspect, uploading, wanted>>

Next ==
  \/ Write \/ Upload \/ Uploaded \/ Withdraw
  \/ \E f \in Files : BackUp(f) \/ Import(f) \/ Abandon(f) \/ Remove(f) \/ Ask(f)
  \/ End \/ Restore \/ Restored \/ ComeUp

Spec == Init /\ [][Next]_vars

=============================================================================
