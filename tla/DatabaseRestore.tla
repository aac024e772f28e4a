--------------------------- MODULE DatabaseRestore ---------------------------
(***************************************************************************)
(* Backups of the database, and its replacement by one of them at the next *)
(* start: server/db.ts, the routes that call it (server/routes/            *)
(* backupRoutes.ts), the clean-up of data (server/dataLifecycle.ts), the   *)
(* scheduled backups (server/backupSchedule.ts) and the import of          *)
(* encrypted backups (server/encryptedBackups.ts).                         *)
(*                                                                         *)
(* Every operation runs to its end without another in between: what can    *)
(* interrupt it is a failing file operation or the end of the process, so  *)
(* an operation is a sequence of steps with one file operation each.       *)
(*                                                                         *)
(* The content of the database is a version: each write makes a new one,   *)
(* and a copy that was not finished is Torn.  What was written last may be *)
(* in the write-ahead log only.  Backups are numbered in the order of      *)
(* their creation, by which listBackups sorts them.                        *)
(***************************************************************************)
EXTENDS Integers, FiniteSets

CONSTANTS
  Retention,    \* getBackupRetentionCount, 0 for no pruning
  MaxFiles,     \* bound of the backups ever made
  MaxWrites,    \* bound of the writes
  MaxStops,     \* bound of the ends of the process
  Torn,         \* the content of an unfinished copy, or of a damaged file
  None          \* no such file

ASSUME CountsAssumption ==
  /\ Retention \in Nat /\ MaxFiles \in Nat /\ MaxWrites \in Nat /\ MaxStops \in Nat

ASSUME ContentsAssumption == Torn \notin Int /\ None \notin Int /\ Torn # None

VARIABLES
  main,         \* lifeos.db
  wal,          \* the version that is in its write-ahead log only
  backups,      \* the backup directory
  made,         \* backups made so far
  pending,      \* restore-pending.db
  meta,         \* restore-pending.json
  op,           \* the operation in progress
  writes,       \* versions made so far
  stops,        \* ends of the process so far
  interrupted,  \* history: backups whose operation did not get to its end
  harmed,       \* history: an unfinished or damaged copy was to be restored
  asked         \* history: a restore was asked for and not cancelled or made since

vars == <<main, wal, backups, made, pending, meta, op, writes, stops,
          interrupted, harmed, asked>>

history == <<harmed, asked>>

Files    == 1 .. MaxFiles
Versions == 0 .. MaxWrites
Contents == Versions \cup {Torn}

\* A backup file.  raw: it may hold secrets.  own: the server made it, it was not
\* imported.  of: history, the content it is to have.
Copy == [data : Contents, raw : BOOLEAN, own : BOOLEAN, of : Contents]

ASSUME NoneAssumption == None \notin Copy

\* restore-pending.json; a file that was not finished is read as none.
Meta == [restoredFrom : Files, preRestoreBackup : Files]

Kinds == {"none", "backup", "unpruned", "restore", "cleanup", "import", "cancel", "start"}
Steps == {"idle", "copy", "redact", "check", "prune", "delete", "trim", "pend", "pending",
          "meta", "unmark", "look", "swap", "swapping", "swapped", "open"}

Operation == [kind : Kinds, step : Steps, file : Files \cup {None},
              source : Files \cup {None}, keep : 0 .. MaxFiles]

Idle     == [kind |-> "none", step |-> "idle", file |-> None, source |-> None, keep |-> 0]
Starting == [Idle EXCEPT !.kind = "start", !.step = "look"]

up   == op.kind # "start"
At(kind, step) == op.kind = kind /\ op.step = step
GoTo(step) == op' = [op EXCEPT !.step = step]

\* What a reader of the database finds.
Live == IF wal = None THEN main ELSE wal

Present == {f \in Files : backups[f] # None}
Newer(f, files) == {g \in files : g > f}
Highest(files) == CHOOSE f \in files : Newer(f, files) = {}

-----------------------------------------------------------------------------
(* Pruning *)

\* Mutant: the protected files are not counted.
DoomedBeside(protected) ==
  {f \in Present \ protected : Retention # 0 /\ Cardinality(Newer(f, Present \ protected)) > Retention}

Spared(protected) ==
  LET n == Retention - Cardinality(Present \cap protected) IN IF n > 0 THEN n ELSE 0

\* pruneBackups: what it still has to remove
Doomed(protected) ==
  IF Retention = 0 THEN {}
  ELSE {f \in Present \ protected :
          Cardinality(Newer(f, Present \ protected)) >= Spared(protected)}

\* The files that the pruning in progress protects.  The source is None unless a
\* restore is scheduled.
Protected == {op.file, op.source} \ {None}

\* What the owner's clean-up protects beside the newest files.
MetaFiles == IF meta = None THEN {} ELSE {meta.restoredFrom, meta.preRestoreBackup}

\* backupsToPrune
Surplus(keep) ==
  {f \in Present \ MetaFiles : Cardinality(Newer(f, Present)) >= keep}

AfterPruning == CASE op.kind = "restore" -> [op EXCEPT !.step = "meta"]
                  [] op.kind = "cleanup" -> [op EXCEPT !.step = "delete"]
                  [] OTHER               -> Idle

\* One file is removed, or none is left to remove.
Prune ==
  /\ op.step = "prune"
  /\ \/ /\ Doomed(Protected) # {}
        /\ backups' = [backups EXCEPT ![Highest(Doomed(Protected))] = None]
        /\ op' = op
     \/ /\ Doomed(Protected) = {}
        /\ backups' = backups
        /\ op' = AfterPruning
  /\ UNCHANGED <<main, wal, made, pending, meta, writes, stops, interrupted, history>>

-----------------------------------------------------------------------------
(* The database *)

\* Any route that writes
Write ==
  /\ op = Idle /\ writes < MaxWrites
  /\ writes' = writes + 1
  /\ wal' = writes'
  /\ UNCHANGED <<main, backups, made, pending, meta, op, stops, interrupted, history>>

\* SQLite moves the log to the file when it likes.
AutoCheckpoint ==
  /\ up /\ wal # None
  /\ main' = wal /\ wal' = None
  /\ UNCHANGED <<backups, made, pending, meta, op, writes, stops, interrupted, history>>

-----------------------------------------------------------------------------
(* createDatabaseBackup, and what each of its callers goes on with *)

\* Mutant: the copy is taken without the checkpoint.
NoCheckpoint == UNCHANGED <<main, wal>>

\* Mutant: the log is taken for the database.
LogForMain == main' = wal /\ wal' = None

\* PRAGMA wal_checkpoint(TRUNCATE)
Checkpoint == main' = Live /\ wal' = None

NewFile == made + 1

\* The new file is opened.
Opens(kind, step, source, keep) ==
  /\ op = Idle /\ made < MaxFiles
  /\ made' = NewFile
  /\ backups' = [backups EXCEPT ![NewFile] =
                   [data |-> Torn, raw |-> TRUE, own |-> kind # "import", of |-> Live]]
  /\ op' = [kind |-> kind, step |-> step, file |-> NewFile, source |-> source, keep |-> keep]
  /\ UNCHANGED <<pending, meta, writes, stops, interrupted, history>>

\* A backup by hand or by schedule, one before a synchronisation, which does not
\* prune, or the first part of a restore or of a clean-up.
BeginBackup ==
  /\ \/ \E kind \in {"backup", "unpruned"} : Opens(kind, "copy", None, 0)
     \/ \E source \in Present : Opens("restore", "copy", source, 0)
     \/ \E keep \in 0 .. MaxFiles : Opens("cleanup", "copy", None, keep)
  /\ Checkpoint

\* fs.copyFileSync is done; when it fails it removes what it made.
CopyDatabase ==
  /\ op.step = "copy" /\ op.kind # "import"
  /\ \/ backups' = [backups EXCEPT ![op.file].data = main] /\ GoTo("redact")
     \/ backups' = [backups EXCEPT ![op.file] = None] /\ op' = Idle
  /\ UNCHANGED <<main, wal, made, pending, meta, writes, stops, interrupted, history>>

AfterRedaction == CASE op.kind = "unpruned" -> Idle
                    [] op.kind = "restore"  -> [op EXCEPT !.step = "pend"]
                    [] OTHER                -> [op EXCEPT !.step = "prune"]

\* sanitizeBackupFile; when it throws the copy stays as it is.
Redact ==
  /\ op.step = "redact"
  /\ \/ /\ backups' = [backups EXCEPT ![op.file].raw = FALSE]
        /\ op' = AfterRedaction
        /\ UNCHANGED interrupted
     \/ /\ op' = Idle
        /\ interrupted' = interrupted \cup {op.file}
        /\ UNCHANGED backups
  /\ UNCHANGED <<main, wal, made, pending, meta, writes, stops, history>>

\* cleanupData: old rows are deleted, if there are any
DeleteOldRows ==
  /\ At("cleanup", "delete")
  /\ GoTo("trim")
  /\ \/ UNCHANGED <<wal, writes>>
     \/ writes < MaxWrites /\ writes' = writes + 1 /\ wal' = writes'
  /\ UNCHANGED <<main, backups, made, pending, meta, stops, interrupted, history>>

\* pruneBackupsToCount, unless no count was given
TrimBackups ==
  /\ At("cleanup", "trim")
  /\ LET surplus == IF op.keep = 0 THEN {} ELSE Surplus(op.keep)
     IN \/ /\ surplus # {}
           /\ backups' = [backups EXCEPT ![Highest(surplus)] = None]
           /\ op' = op
        \/ /\ surplus = {}
           /\ op' = Idle
           /\ backups' = backups
  /\ UNCHANGED <<main, wal, made, pending, meta, writes, stops, interrupted, history>>

-----------------------------------------------------------------------------
(* importDatabaseBackup *)

BeginImport == Opens("import", "copy", None, 0) /\ UNCHANGED <<main, wal>>

\* The uploaded content is in the file, with the secrets it may hold; writeFileSync
\* leaves what it wrote when it fails.
WriteImport ==
  /\ At("import", "copy")
  /\ \/ /\ \E data \in 0 .. writes \cup {Torn}, raw \in BOOLEAN :
             backups' = [backups EXCEPT ![op.file] =
                           [@ EXCEPT !.data = data, !.raw = raw, !.of = data]]
        /\ GoTo("check")
        /\ UNCHANGED interrupted
     \/ /\ op' = Idle
        /\ interrupted' = interrupted \cup {op.file}
        /\ UNCHANGED backups
  /\ UNCHANGED <<main, wal, made, pending, meta, writes, stops, history>>

\* Mutant: the integrity of the file is not checked.
AcceptedUnchecked(data) == TRUE

\* PRAGMA integrity_check
Accepted(data) == data # Torn

CheckImport ==
  /\ op.step = "check"
  /\ IF Accepted(backups[op.file].data)
     THEN backups' = backups /\ GoTo("prune")
     ELSE backups' = [backups EXCEPT ![op.file] = None] /\ op' = Idle
  /\ UNCHANGED <<main, wal, made, pending, meta, writes, stops, interrupted, history>>

-----------------------------------------------------------------------------
(* scheduleDatabaseRestore after its backup, and cancelPendingRestore *)

OpenPending ==
  /\ op.step = "pend"
  /\ pending' = Torn
  /\ GoTo("pending")
  /\ UNCHANGED <<main, wal, backups, made, meta, writes, stops, interrupted, history>>

\* The copy is done, or failed and was removed.
CopyPending ==
  /\ op.step = "pending"
  /\ \/ /\ pending' = backups[op.source].data
        /\ asked' = TRUE
        /\ harmed' = (harmed \/ pending' = Torn)
        /\ GoTo("prune")
     \/ /\ pending' = None
        /\ asked' = FALSE
        /\ op' = Idle
        /\ UNCHANGED harmed
  /\ UNCHANGED <<main, wal, backups, made, meta, writes, stops, interrupted>>

WriteMeta ==
  /\ At("restore", "meta")
  /\ meta' = [restoredFrom |-> op.source, preRestoreBackup |-> op.file]
  /\ op' = Idle
  /\ UNCHANGED <<main, wal, backups, made, pending, writes, stops, interrupted, history>>

\* Mutant: only the description of the restore is removed.
RemoveMetaOnly == UNCHANGED pending

RemovePending == pending' = None

Cancel ==
  /\ op = Idle
  /\ RemovePending
  /\ op' = [Idle EXCEPT !.kind = "cancel", !.step = "unmark"]
  /\ asked' = FALSE
  /\ UNCHANGED <<main, wal, backups, made, meta, writes, stops, interrupted, harmed>>

\* The last step of a cancellation and of a restore
RemoveMeta ==
  /\ op.step = "unmark"
  /\ meta' = None
  /\ op' = IF up THEN Idle ELSE [op EXCEPT !.step = "open"]
  /\ UNCHANGED <<main, wal, backups, made, pending, writes, stops, interrupted, history>>

-----------------------------------------------------------------------------
(* The process ends and starts: applyPendingRestoreBeforeOpen *)

\* The owner quits, or the process is killed, whatever it is doing.
Stop ==
  /\ stops < MaxStops
  /\ stops' = stops + 1
  /\ op' = Starting
  /\ interrupted' = IF op.step \in {"copy", "redact", "check"}
                    THEN interrupted \cup {op.file} ELSE interrupted
  /\ harmed' = (harmed \/ op.step = "pending")
  /\ asked' = (asked \/ op.step = "pending")
  /\ UNCHANGED <<main, wal, backups, made, pending, meta, writes>>

LookForPending ==
  /\ op.step = "look"
  /\ GoTo(IF pending = None THEN "open" ELSE "swap")
  /\ UNCHANGED <<main, wal, backups, made, pending, meta, writes, stops, interrupted, history>>

\* Mutant: the write-ahead log of the replaced database stays.
KeepSidecars == UNCHANGED wal

\* removeSqliteSidecars
RemoveSidecars == wal' = None

\* The database is opened for writing.
OpenMain ==
  /\ op.step = "swap"
  /\ RemoveSidecars /\ main' = Torn
  /\ GoTo("swapping")
  /\ UNCHANGED <<backups, made, pending, meta, writes, stops, interrupted, history>>

CopyToMain ==
  /\ op.step = "swapping"
  /\ main' = pending
  /\ GoTo("swapped")
  /\ UNCHANGED <<wal, backups, made, pending, meta, writes, stops, interrupted, history>>

Consume ==
  /\ op.step = "swapped"
  /\ pending' = None
  /\ asked' = FALSE
  /\ GoTo("unmark")
  /\ UNCHANGED <<main, wal, backups, made, meta, writes, stops, interrupted, harmed>>

\* A damaged database cannot be opened: the server does not come up.
Open ==
  /\ op.step = "open" /\ main # Torn
  /\ op' = Idle
  /\ UNCHANGED <<main, wal, backups, made, pending, meta, writes, stops, interrupted, history>>

-----------------------------------------------------------------------------

Init ==
  /\ main = 0 /\ wal = None
  /\ backups = [f \in Files |-> None] /\ made = 0
  /\ pending = None /\ meta = None
  /\ op = Idle
  /\ writes = 0 /\ stops = 0
  /\ interrupted = {} /\ harmed = FALSE /\ asked = FALSE

Start == LookForPending \/ OpenMain \/ CopyToMain \/ Consume \/ (~up /\ RemoveMeta) \/ Open

Next ==
  \/ Write \/ AutoCheckpoint
  \/ BeginBackup \/ CopyDatabase \/ Redact \/ Prune \/ DeleteOldRows \/ TrimBackups
  \/ BeginImport \/ WriteImport \/ CheckImport
  \/ OpenPending \/ CopyPending \/ WriteMeta \/ Cancel \/ RemoveMeta
  \/ Stop \/ LookForPending \/ OpenMain \/ CopyToMain \/ Consume \/ Open

Spec == Init /\ [][Next]_vars

\* A start is one synchronous piece of code: it goes on unless the process ends.
FairSpec == Spec /\ WF_vars(Start)

-----------------------------------------------------------------------------
(* Refinement *)

\* A file that is being written is not a backup yet.
Unfinished(f) == f = op.file /\ op.step \in {"copy", "redact", "check"}

\* The database is replaced at once, when the start opens it: from then on every start
\* goes on with the pending copy.
Content == IF main = Torn /\ pending # None THEN pending ELSE Live

Kept == [f \in Files |-> IF backups[f] = None \/ Unfinished(f) THEN None ELSE backups[f].data]

\* A restore is asked for when its copy is complete.
Wanted == IF asked /\ op.step # "pending" THEN pending ELSE None

Promise == INSTANCE RestorableDatabase WITH
  serving <- up, db <- Content, last <- writes, kept <- Kept, suspect <- interrupted,
  uploading <- op.kind = "import", wanted <- Wanted

-----------------------------------------------------------------------------
(* Properties *)

\* The files hold contents, and the operation in progress is well-formed.
TypeOK ==
  /\ main \in Contents /\ wal \in Versions \cup {None}
  /\ backups \in [Files -> Copy \cup {None}] /\ made \in 0 .. MaxFiles
  /\ pending \in Contents \cup {None} /\ meta \in Meta \cup {None}
  /\ op \in Operation
  /\ writes \in Versions /\ stops \in 0 .. MaxStops
  /\ interrupted \subseteq Files /\ harmed \in BOOLEAN
  /\ asked \in BOOLEAN

\* The database is damaged only by a copy that was itself interrupted or made from
\* an unfinished file: being stopped in the middle of a start does no harm.
NoOtherDamage ==
  /\ \A f \in Present : backups[f].data = Torn =>
       f \in interrupted \/ (f = op.file /\ op.step \in {"copy", "check"})
  /\ pending = Torn => harmed \/ op.step = "pending"
  /\ main = Torn => harmed \/ pending \in Versions

\* A backup that was finished holds everything that was written before it was asked
\* for, or what was uploaded, and one that the server made holds no secrets: a copy that
\* sanitizeBackupFile did not finish is not returned.  An imported one is kept as it
\* was uploaded.
BackupsCurrent ==
  \A f \in Present \ interrupted :
    f # op.file \/ op.step \in {"prune", "pend", "pending", "meta", "delete", "trim"} =>
      backups[f].data = backups[f].of /\ (backups[f].own => ~backups[f].raw)

\* What the database holds changes by a write, or by a start that makes a restore
\* that was asked for and was neither cancelled nor made before, and in no other way.
OnlyAskedRestored ==
  [][Live' # Live => writes' # writes \/ (~up /\ asked)]_vars

\* Pruning removes a backup only if there are Retention - 1 newer ones, never one that
\* it was told to protect, and it leaves no more than it has to.
RetentionKept ==
  [][op.step = "prune" =>
       /\ \A f \in Present : backups'[f] = None =>
            f \notin Protected /\ Cardinality(Newer(f, Present)) >= Retention - 1
       /\ op'.step \notin {"prune", "look"} /\ Retention # 0 =>
            Cardinality(Present) <= Retention \/ Present \subseteq Protected]_vars

\* The sequences of file operations keep the promise of RestorableDatabase: wherever
\* they fail or are cut off, backups and restores happen at once or not at all, what a
\* start restores is the file that was asked for last and not withdrawn, and removing
\* a backup leaves a newer one that is whole.
KeepsPromise == Promise!Spec

\* However often a start is interrupted, a restore that was scheduled is made before
\* the server is up again.
ScheduledRestoreMade ==
  \A v \in Versions : ~up /\ pending = v ~> up /\ pending = None /\ Live = v
=============================================================================
