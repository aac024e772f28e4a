----------------------- MODULE DatabaseRestore_proofs -----------------------
(***************************************************************************)
(* Proofs about backups and the restore at a start, for any retention and  *)
(* any number of backups, writes and ends of the process.                  *)
(***************************************************************************)
EXTENDS DatabaseRestore, FiniteSetTheorems, WellFoundedInduction, TLAPS

Filing     == {"copy", "redact", "check", "prune", "delete", "trim", "pend", "pending", "meta"}
StartSteps == {"look", "swap", "swapping", "swapped", "open"}
SwapSteps  == {"swap", "swapping", "swapped"}

\* Which operation is at which step, and the files it works with.
ShapeInv ==
  /\ op.step \in Filing => op.file \in Files /\ op.file = made
  /\ op.step \notin Filing => op.file = None
  /\ op.step \in Filing \ {"delete", "trim", "meta"} => backups[op.file] # None
  /\ op.step \in {"pend", "pending", "meta"} => op.kind = "restore"
  /\ op.kind = "restore" => op.source \in Files
  /\ op.kind = "restore" /\ op.step \notin {"prune", "meta"} => backups[op.source] # None
  /\ op.step \in StartSteps => op.kind = "start"
  /\ op.kind = "start" => op.step \in StartSteps \cup {"unmark"}
  /\ \A f \in Files : backups[f] # None => f <= made

\* A start that found a pending restore goes on with it, a pending restore was asked
\* for, and the database of a process that is up is whole.
SwapInv ==
  /\ op.step \in SwapSteps => pending # None
  /\ op.step = "swapped" => main = pending
  /\ pending # None => asked \/ op.step = "pending"
  /\ up => main # Torn

\* A copy in progress: what it is made from holds what it is to have.
CopyInv ==
  /\ op.step = "copy" /\ op.kind # "import" => wal = None /\ main = backups[op.file].of
  /\ op.step = "copy" /\ op.kind = "import" => ~backups[op.file].own
  /\ op.step \in {"redact", "check"} => backups[op.file].data = backups[op.file].of
  /\ op.step = "check" => ~backups[op.file].own

IInv == TypeOK /\ ShapeInv /\ SwapInv /\ CopyInv /\ NoOtherDamage /\ BackupsCurrent

-----------------------------------------------------------------------------
(* Records *)

LEMMA Others ==
  /\ None \notin Files /\ Torn \notin Versions /\ None \notin Versions /\ None # Torn
  /\ None \notin Contents /\ Versions \subseteq Contents /\ 0 \in Versions
BY CountsAssumption, ContentsAssumption DEF Files, Versions, Contents

LEMMA OpTyped ==
  ASSUME TypeOK
  PROVE  /\ op.kind \in Kinds /\ op.step \in Steps
         /\ op.file \in Files \cup {None} /\ op.source \in Files \cup {None}
         /\ op.keep \in 0 .. MaxFiles
BY DEF TypeOK, Operation

LEMMA IdleTyped ==
  /\ Idle \in Operation /\ Idle.kind = "none" /\ Idle.step = "idle"
  /\ Idle.file = None /\ Idle.source = None
  /\ Starting \in Operation /\ Starting.kind = "start" /\ Starting.step = "look"
  /\ Starting.file = None /\ Starting.source = None
<1>1. 0 \in 0 .. MaxFiles
  BY CountsAssumption
<1>2. /\ Idle \in Operation /\ Idle.kind = "none" /\ Idle.step = "idle"
      /\ Idle.file = None /\ Idle.source = None
  BY <1>1 DEF Idle, Operation, Kinds, Steps
<1>3. /\ Starting \in Operation /\ Starting.kind = "start" /\ Starting.step = "look"
      /\ Starting.file = None /\ Starting.source = None
  BY <1>2 DEF Starting, Operation, Kinds, Steps
<1> QED BY <1>2, <1>3

\* The operation in progress goes on to another step.
LEMMA StepTyped ==
  ASSUME TypeOK, NEW step \in Steps
  PROVE  LET next == [op EXCEPT !.step = step]
         IN /\ next \in Operation /\ next.step = step /\ next.kind = op.kind
            /\ next.file = op.file /\ next.source = op.source
BY DEF TypeOK, Operation

LEMMA CopyTyped ==
  ASSUME TypeOK, NEW f \in Files, backups[f] # None
  PROVE  /\ backups[f] \in Copy
         /\ backups[f].data \in Contents /\ backups[f].of \in Contents
         /\ backups[f].raw \in BOOLEAN /\ backups[f].own \in BOOLEAN
BY DEF TypeOK, Copy

\* One backup is replaced by another content.
LEMMA ReplacedTyped ==
  ASSUME TypeOK, NEW f \in Files, NEW copy \in Copy \cup {None},
         backups' = [backups EXCEPT ![f] = copy]
  PROVE  /\ backups' \in [Files -> Copy \cup {None}]
         /\ backups'[f] = copy
         /\ \A g \in Files \ {f} : backups'[g] = backups[g]
BY DEF TypeOK

\* The content of a process that is up is a version.
LEMMA MainTyped ==
  ASSUME IInv, up
  PROVE  main \in Versions /\ Live \in Versions
BY Others DEF IInv, TypeOK, SwapInv, Contents, Live

\* A set of files that is not empty has a newest one, and an oldest one.
LEMMA HighestIsNewest ==
  ASSUME NEW files, files \subseteq Files, files # {}
  PROVE  Highest(files) \in files /\ Newer(Highest(files), files) = {}
<1> DEFINE ages == {MaxFiles - f : f \in files}
<1>1. ages \subseteq Nat /\ ages # {} /\ files \subseteq Nat
  <2>1. \A f \in files : f \in Nat /\ MaxFiles - f \in Nat
    BY CountsAssumption DEF Files
  <2> QED BY <2>1
<1>2. PICK x \in ages : \A y \in ages : ~ (<<y, x>> \in OpToRel(<, Nat))
  BY <1>1, NatLessThanWellFounded, WFMin
<1>3. PICK f \in files : x = MaxFiles - f
  OBVIOUS
<1>4. \A g \in files : ~ (g > f)
  <2>1. TAKE g \in files
  <2>2. <<MaxFiles - g, x>> \in Nat \X Nat /\ ~ (MaxFiles - g < x)
    BY <1>1, <1>2 DEF OpToRel
  <2> QED BY <1>1, <1>3, <2>2, CountsAssumption
<1>5. Newer(f, files) = {}
  BY <1>4 DEF Newer
<1> QED BY <1>3, <1>5 DEF Highest

LEMMA OldestIsLeast ==
  ASSUME NEW files, files \subseteq Files, files # {}
  PROVE  \E f \in files : \A g \in files : f <= g
<1>1. files \subseteq Nat
  BY DEF Files
<1>2. PICK x \in files : \A y \in files : ~ (<<y, x>> \in OpToRel(<, Nat))
  BY <1>1, NatLessThanWellFounded, WFMin
<1>3. \A y \in files : x <= y
  <2>1. TAKE y \in files
  <2>2. <<y, x>> \in Nat \X Nat /\ ~ (y < x)
    BY <1>1, <1>2, <2>1 DEF OpToRel
  <2> QED BY <1>1, <2>2
<1> QED BY <1>3

-----------------------------------------------------------------------------
(* One lemma for each action *)

LEMMA InitInv == Init => IInv
<1> SUFFICES ASSUME Init PROVE IInv
  OBVIOUS
<1>1. /\ main = 0 /\ wal = None /\ backups = [f \in Files |-> None] /\ made = 0
      /\ pending = None /\ meta = None /\ op = Idle /\ writes = 0 /\ stops = 0
      /\ interrupted = {} /\ harmed = FALSE /\ asked = FALSE
  BY DEF Init
<1>2. TypeOK
  <2>1. main \in Contents /\ made \in 0 .. MaxFiles /\ writes \in Versions /\ stops \in 0 .. MaxStops
    BY <1>1, Others, CountsAssumption
  <2> QED BY <1>1, <2>1, IdleTyped DEF TypeOK
<1>3. ShapeInv
  BY <1>1, IdleTyped DEF ShapeInv, Filing, StartSteps
<1>4. SwapInv /\ CopyInv
  BY <1>1, IdleTyped, ContentsAssumption DEF SwapInv, CopyInv, SwapSteps
<1>5. NoOtherDamage /\ BackupsCurrent
  BY <1>1, Others, ContentsAssumption DEF NoOtherDamage, BackupsCurrent, Present
<1> QED BY <1>2, <1>3, <1>4, <1>5 DEF IInv

\* Neither a backup in progress nor the files are disturbed.
LEMMA WriteStep ==
  ASSUME IInv, Write
  PROVE  IInv'
<1>1. /\ op = Idle
      /\ UNCHANGED <<main, backups, made, pending, meta, op, stops, interrupted, harmed, asked>>
  BY DEF Write, history
<1>2. writes' \in Versions /\ wal' \in Versions
  BY CountsAssumption DEF IInv, TypeOK, Write, Versions
<1>3. TypeOK'
  BY <1>1, <1>2 DEF IInv, TypeOK
<1>4. ShapeInv' /\ SwapInv' /\ CopyInv'
  BY <1>1, IdleTyped DEF IInv, ShapeInv, SwapInv, CopyInv, up
<1>5. NoOtherDamage' /\ BackupsCurrent'
  BY <1>1 DEF IInv, NoOtherDamage, BackupsCurrent, Present
<1> QED BY <1>3, <1>4, <1>5 DEF IInv

LEMMA AutoCheckpointStep ==
  ASSUME IInv, AutoCheckpoint
  PROVE  IInv'
<1>1. /\ up /\ wal # None /\ main' = wal /\ wal' = None
      /\ UNCHANGED <<backups, made, pending, meta, op, writes, stops, interrupted, harmed, asked>>
  BY DEF AutoCheckpoint, history
<1>2. main' \in Versions
  BY <1>1 DEF IInv, TypeOK
<1>3. TypeOK'
  BY <1>1, <1>2, Others DEF IInv, TypeOK
<1>4. ShapeInv' /\ SwapInv' /\ CopyInv'
  BY <1>1, <1>2, Others DEF IInv, ShapeInv, SwapInv, CopyInv, SwapSteps, StartSteps, up
<1>5. NoOtherDamage' /\ BackupsCurrent'
  BY <1>1, <1>2, Others DEF IInv, NoOtherDamage, BackupsCurrent, Present
<1> QED BY <1>3, <1>4, <1>5 DEF IInv

\* A new file is opened, for a copy of the database or for an upload.
LEMMA OpensStep ==
  ASSUME IInv, NEW kind \in {"backup", "unpruned", "restore", "cleanup", "import"},
         NEW source \in Files \cup {None}, NEW keep \in 0 .. MaxFiles,
         kind = "restore" => source \in Present,
         Opens(kind, "copy", source, keep),
         IF kind = "import" THEN UNCHANGED <<main, wal>> ELSE Checkpoint
  PROVE  IInv'
<1> DEFINE copy == [data |-> Torn, raw |-> TRUE, own |-> kind # "import", of |-> Live]
<1>1. /\ op = Idle /\ made < MaxFiles /\ made' = made + 1
      /\ backups' = [backups EXCEPT ![made + 1] = copy]
      /\ op' = [kind |-> kind, step |-> "copy", file |-> made + 1, source |-> source, keep |-> keep]
      /\ UNCHANGED <<pending, meta, writes, stops, interrupted, harmed, asked>>
  BY DEF Opens, NewFile, history
<1>2. made + 1 \in Files /\ made' \in 0 .. MaxFiles /\ made \in Nat
  BY <1>1, CountsAssumption DEF IInv, TypeOK, Files
<1>3. up /\ Live \in Versions
  BY <1>1, IdleTyped, MainTyped DEF up
<1>4. copy \in Copy /\ copy # None /\ copy.of = Live /\ (kind = "import" => ~copy.own)
  <2>1. Torn \in Contents /\ Live \in Contents
    BY <1>3 DEF Contents
  <2>2. CASE kind = "import"
    <3>1. copy = [data |-> Torn, raw |-> TRUE, own |-> FALSE, of |-> Live]
      BY <2>2
    <3>2. copy \in Copy
      BY <2>1, <3>1 DEF Copy
    <3> HIDE DEF copy
    <3> QED BY <3>1, <3>2, NoneAssumption
  <2>3. CASE kind # "import"
    <3>1. copy = [data |-> Torn, raw |-> TRUE, own |-> TRUE, of |-> Live]
      BY <2>3
    <3>2. copy \in Copy
      BY <2>1, <3>1 DEF Copy
    <3> HIDE DEF copy
    <3> QED BY <2>3, <3>1, <3>2, NoneAssumption
  <2> QED BY <2>2, <2>3
<1> HIDE DEF copy
<1>5. /\ backups' \in [Files -> Copy \cup {None}] /\ backups'[made + 1] = copy
      /\ \A g \in Files \ {made + 1} : backups'[g] = backups[g]
  BY <1>1, <1>2, <1>4, ReplacedTyped DEF IInv
<1>6. /\ op' \in Operation /\ op'.kind = kind /\ op'.step = "copy" /\ op'.file = made + 1
      /\ op'.source = source
  BY <1>1, <1>2 DEF Operation, Kinds, Steps
<1>7. /\ main' \in Versions /\ wal' \in Versions \cup {None}
      /\ kind # "import" => main' = Live /\ wal' = None
  BY <1>3, MainTyped DEF IInv, TypeOK, Checkpoint
<1>8. TypeOK'
  BY <1>1, <1>2, <1>5, <1>6, <1>7, Others DEF IInv, TypeOK
<1>9. ShapeInv'
  <2>1. source \in Files => (source # made + 1 => backups'[source] = backups[source])
    BY <1>5
  <2>2. kind = "restore" => source \in Files /\ backups'[source] # None
    BY <1>4, <1>5, <2>1 DEF Present
  <2>3. \A f \in Files : backups'[f] # None => f <= made'
    BY <1>1, <1>2, <1>5 DEF IInv, ShapeInv, Files
  <2> QED BY <1>1, <1>2, <1>4, <1>5, <1>6, <2>2, <2>3 DEF ShapeInv, Filing, StartSteps
<1>10. SwapInv' /\ CopyInv'
  BY <1>1, <1>4, <1>5, <1>6, <1>7, IdleTyped, Others DEF IInv, SwapInv, CopyInv, SwapSteps, up
<1>11. NoOtherDamage'
  BY <1>1, <1>5, <1>6, <1>7, IdleTyped, Others DEF IInv, NoOtherDamage, Present
<1>12. BackupsCurrent'
  BY <1>1, <1>5, <1>6, IdleTyped, Others DEF IInv, BackupsCurrent, Present
<1> QED BY <1>8, <1>9, <1>10, <1>11, <1>12 DEF IInv

LEMMA BeginStep ==
  ASSUME IInv, BeginBackup \/ BeginImport
  PROVE  IInv'
<1>1. CASE BeginImport
  BY <1>1, OpensStep, CountsAssumption DEF BeginImport
<1>2. CASE Checkpoint /\ \E kind \in {"backup", "unpruned"} : Opens(kind, "copy", None, 0)
  BY <1>2, OpensStep, CountsAssumption
<1>3. CASE Checkpoint /\ \E source \in Present : Opens("restore", "copy", source, 0)
  BY <1>3, OpensStep, CountsAssumption DEF Present
<1>4. CASE Checkpoint /\ \E keep \in 0 .. MaxFiles : Opens("cleanup", "copy", None, keep)
  BY <1>4, OpensStep
<1> QED BY <1>1, <1>2, <1>3, <1>4 DEF BeginBackup

\* The copy of the database is done, or failed.
LEMMA CopyDatabaseStep ==
  ASSUME IInv, CopyDatabase
  PROVE  IInv'
<1> DEFINE f == op.file
<1>1. /\ op.step = "copy" /\ op.kind # "import" /\ f \in Files /\ backups[f] # None
      /\ UNCHANGED <<main, wal, made, pending, meta, writes, stops, interrupted, harmed, asked>>
      /\ wal = None /\ main = backups[f].of
  BY DEF CopyDatabase, IInv, ShapeInv, CopyInv, Filing, history
<1>2. up
  BY <1>1 DEF IInv, ShapeInv, up, StartSteps
<1>3. main \in Versions
  BY <1>2, MainTyped
<1>4. CASE backups' = [backups EXCEPT ![f].data = main] /\ op' = [op EXCEPT !.step = "redact"]
  <2> DEFINE copy == [backups[f] EXCEPT !.data = main]
  <2>1. copy \in Copy /\ copy.data = main /\ copy.of = main /\ backups' = [backups EXCEPT ![f] = copy]
    BY <1>1, <1>3, <1>4, CopyTyped DEF IInv, Copy, Contents
  <2>2. /\ backups' \in [Files -> Copy \cup {None}] /\ backups'[f] = copy /\ copy # None
        /\ \A g \in Files \ {f} : backups'[g] = backups[g]
    BY <1>1, <2>1, ReplacedTyped, NoneAssumption DEF IInv
  <2> HIDE DEF copy
  <2>3. /\ op' \in Operation /\ op'.step = "redact" /\ op'.kind = op.kind /\ op'.file = f
        /\ op'.source = op.source
    BY <1>4, StepTyped DEF IInv, Steps
  <2>4. TypeOK'
    BY <1>1, <2>2, <2>3 DEF IInv, TypeOK
  <2>5. ShapeInv'
    BY <1>1, <2>2, <2>3 DEF IInv, ShapeInv, Filing, StartSteps
  <2>6. SwapInv' /\ CopyInv'
    BY <1>1, <1>3, <2>1, <2>2, <2>3, Others DEF IInv, SwapInv, CopyInv, SwapSteps, up
  <2>7. NoOtherDamage'
    BY <1>1, <1>3, <2>1, <2>2, <2>3, Others DEF IInv, NoOtherDamage, Present
  <2>8. BackupsCurrent'
    BY <1>1, <2>2, <2>3 DEF IInv, BackupsCurrent, Present
  <2> QED BY <2>4, <2>5, <2>6, <2>7, <2>8 DEF IInv
<1>5. CASE backups' = [backups EXCEPT ![f] = None] /\ op' = Idle
  <2>1. /\ backups' \in [Files -> Copy \cup {None}] /\ backups'[f] = None
        /\ \A g \in Files \ {f} : backups'[g] = backups[g]
    BY <1>1, <1>5, ReplacedTyped DEF IInv
  <2>2. TypeOK'
    BY <1>1, <1>5, <2>1, IdleTyped DEF IInv, TypeOK
  <2>3. ShapeInv'
    BY <1>1, <1>5, <2>1, IdleTyped DEF IInv, ShapeInv, Filing, StartSteps
  <2>4. SwapInv' /\ CopyInv'
    BY <1>1, <1>2, <1>5, IdleTyped DEF IInv, SwapInv, CopyInv, SwapSteps
  <2>5. NoOtherDamage' /\ BackupsCurrent'
    BY <1>1, <1>5, <2>1, IdleTyped DEF IInv, NoOtherDamage, BackupsCurrent, Present
  <2> QED BY <2>2, <2>3, <2>4, <2>5 DEF IInv
<1> QED BY <1>4, <1>5 DEF CopyDatabase, GoTo

\* An operation that is over before it was finished leaves its file behind.
LEMMA LeftBehind ==
  ASSUME IInv, op.step \in {"copy", "redact"}, op' = Idle,
         interrupted' = interrupted \cup {op.file},
         UNCHANGED <<main, wal, backups, made, pending, meta, writes, stops, harmed, asked>>
  PROVE  IInv'
<1>1. op.file \in Files /\ up
  BY DEF IInv, ShapeInv, Filing, StartSteps, up
<1>2. TypeOK'
  BY <1>1, IdleTyped DEF IInv, TypeOK
<1>3. ShapeInv'
  BY IdleTyped DEF IInv, ShapeInv, Filing, StartSteps
<1>4. SwapInv' /\ CopyInv'
  BY <1>1, IdleTyped DEF IInv, SwapInv, CopyInv, SwapSteps
<1>5. NoOtherDamage'
  BY DEF IInv, NoOtherDamage, Present
<1>6. BackupsCurrent'
  BY DEF IInv, BackupsCurrent, Present
<1> QED BY <1>2, <1>3, <1>4, <1>5, <1>6 DEF IInv

\* A step after the copy or the upload: the operation goes on or ends, and files may be
\* removed.
LEMMA LateStep ==
  ASSUME IInv, op.step \in {"check", "prune", "delete", "trim"},
         backups' \in [Files -> Copy \cup {None}],
         \A f \in Files : backups'[f] = backups[f] \/ backups'[f] = None,
         op.step = "check" => backups'[op.file] = None \/ backups[op.file].data # Torn,
         op' \in Operation,
         \/ op' = Idle
         \/ /\ op'.kind = op.kind /\ op'.file = op.file /\ op'.source = op.source
            /\ op'.step \in {"prune", "delete", "trim", "meta"}
            /\ op'.step = "prune" => backups'[op.file] # None
            /\ op'.step = "meta" => op.kind = "restore"
            /\ op.kind = "restore" => op'.step \in {"prune", "meta"},
         wal' \in Versions \cup {None}, writes' \in Versions,
         UNCHANGED <<main, made, pending, meta, stops, interrupted, harmed, asked>>
  PROVE  IInv'
<1>1. /\ op.file \in Files /\ op.file = made /\ op.kind # "start"
      /\ op'.kind # "start"
  BY IdleTyped DEF IInv, ShapeInv, Filing, StartSteps
<1>2. TypeOK'
  BY DEF IInv, TypeOK
<1>3. ShapeInv'
  BY <1>1, IdleTyped DEF IInv, ShapeInv, Filing, StartSteps
<1>4. SwapInv' /\ CopyInv'
  BY <1>1, IdleTyped DEF IInv, SwapInv, CopyInv, SwapSteps, up
<1>5. NoOtherDamage'
  BY <1>1, IdleTyped DEF IInv, NoOtherDamage, Present
<1>6. BackupsCurrent'
  BY <1>1, IdleTyped DEF IInv, BackupsCurrent, CopyInv, Present
<1> QED BY <1>2, <1>3, <1>4, <1>5, <1>6 DEF IInv

LEMMA RedactStep ==
  ASSUME IInv, Redact
  PROVE  IInv'
<1> DEFINE f == op.file
<1>1. /\ op.step = "redact" /\ f \in Files /\ backups[f] # None /\ up
      /\ UNCHANGED <<main, wal, made, pending, meta, writes, stops, harmed, asked>>
      /\ backups[f].data = backups[f].of
  BY DEF Redact, IInv, ShapeInv, CopyInv, Filing, StartSteps, up, history
<1>2. CASE op' = Idle /\ interrupted' = interrupted \cup {f} /\ UNCHANGED backups
  BY <1>1, <1>2, LeftBehind
<1>3. CASE /\ backups' = [backups EXCEPT ![f].raw = FALSE]
           /\ op' = AfterRedaction /\ UNCHANGED interrupted
  <2> DEFINE copy == [backups[f] EXCEPT !.raw = FALSE]
  <2>1. /\ copy \in Copy /\ copy.data = backups[f].data /\ copy.of = backups[f].of /\ ~copy.raw
        /\ backups' = [backups EXCEPT ![f] = copy]
    BY <1>1, <1>3, CopyTyped DEF IInv, Copy
  <2>2. /\ backups' \in [Files -> Copy \cup {None}] /\ backups'[f] = copy /\ copy # None
        /\ \A g \in Files \ {f} : backups'[g] = backups[g]
    BY <1>1, <2>1, ReplacedTyped, NoneAssumption DEF IInv
  <2> HIDE DEF copy
  <2>3. /\ op' \in Operation
        /\ \/ op' = Idle
           \/ /\ op'.kind = op.kind /\ op'.file = f /\ op'.source = op.source
              /\ \/ op.kind = "restore" /\ op'.step = "pend"
                 \/ op.kind # "restore" /\ op'.step = "prune"
    BY <1>3, StepTyped, IdleTyped DEF AfterRedaction, IInv, Steps
  <2>4. op.kind # "start" /\ op'.kind # "start"
    BY <1>1, <2>3, IdleTyped DEF IInv, ShapeInv, StartSteps
  <2>5. TypeOK'
    BY <1>1, <1>3, <2>2, <2>3 DEF IInv, TypeOK
  <2>6. ShapeInv'
    BY <1>1, <2>2, <2>3, <2>4, IdleTyped DEF IInv, ShapeInv, Filing, StartSteps
  <2>7. SwapInv' /\ CopyInv'
    BY <1>1, <2>3, <2>4, IdleTyped DEF IInv, SwapInv, CopyInv, SwapSteps, up
  <2>8. NoOtherDamage'
    BY <1>1, <1>3, <2>1, <2>2, <2>3, IdleTyped DEF IInv, NoOtherDamage, Present
  <2>9. BackupsCurrent'
    BY <1>1, <1>3, <2>1, <2>2, <2>3, IdleTyped DEF IInv, BackupsCurrent, Present
  <2> QED BY <2>5, <2>6, <2>7, <2>8, <2>9 DEF IInv
<1> QED BY <1>2, <1>3 DEF Redact

LEMMA CheckImportStep ==
  ASSUME IInv, CheckImport
  PROVE  IInv'
<1>1. UNCHANGED <<main, wal, made, pending, meta, writes, stops, interrupted, harmed, asked>>
  BY DEF CheckImport, history
<1>2. op.step = "check" /\ op.file \in Files /\ backups[op.file] # None
  BY DEF CheckImport, IInv, ShapeInv, Filing
<1>3. CASE Accepted(backups[op.file].data)
  <2>1. backups' = backups /\ op' = [op EXCEPT !.step = "prune"] /\ backups[op.file].data # Torn
    BY <1>3 DEF CheckImport, GoTo, Accepted
  <2>2. /\ op' \in Operation /\ op'.step = "prune" /\ op'.kind = op.kind /\ op'.file = op.file
        /\ op'.source = op.source
    BY <2>1, StepTyped DEF IInv, Steps
  <2> QED BY <1>1, <1>2, <2>1, <2>2, LateStep DEF IInv, TypeOK
<1>4. CASE ~Accepted(backups[op.file].data)
  <2>1. backups' = [backups EXCEPT ![op.file] = None] /\ op' = Idle
    BY <1>4 DEF CheckImport
  <2>2. /\ backups' \in [Files -> Copy \cup {None}] /\ backups'[op.file] = None
        /\ \A g \in Files \ {op.file} : backups'[g] = backups[g]
    BY <1>2, <2>1, ReplacedTyped DEF IInv
  <2> QED BY <1>1, <1>2, <2>1, <2>2, IdleTyped, LateStep DEF IInv, TypeOK
<1> QED BY <1>3, <1>4

LEMMA WriteImportStep ==
  ASSUME IInv, WriteImport
  PROVE  IInv'
<1> DEFINE f == op.file
<1>1. /\ op.step = "copy" /\ op.kind = "import" /\ f \in Files /\ backups[f] # None /\ up
      /\ UNCHANGED <<main, wal, made, pending, meta, writes, stops, harmed, asked>>
      /\ ~backups[f].own
  BY DEF WriteImport, At, IInv, ShapeInv, CopyInv, Filing, up, history
<1>2. CASE op' = Idle /\ interrupted' = interrupted \cup {f} /\ UNCHANGED backups
  BY <1>1, <1>2, LeftBehind
<1>3. ASSUME NEW data \in 0 .. writes \cup {Torn}, NEW raw \in BOOLEAN,
             backups' = [backups EXCEPT ![f] = [@ EXCEPT !.data = data, !.raw = raw, !.of = data]],
             op' = [op EXCEPT !.step = "check"], UNCHANGED interrupted
      PROVE  IInv'
  <2> DEFINE copy == [backups[f] EXCEPT !.data = data, !.raw = raw, !.of = data]
  <2>1. data \in Contents
    BY CountsAssumption DEF IInv, TypeOK, Contents, Versions
  <2>2. /\ copy \in Copy /\ copy.data = data /\ copy.of = data /\ ~copy.own
        /\ backups' = [backups EXCEPT ![f] = copy]
    BY <1>1, <1>3, <2>1, CopyTyped DEF IInv, Copy
  <2>3. /\ backups' \in [Files -> Copy \cup {None}] /\ backups'[f] = copy /\ copy # None
        /\ \A g \in Files \ {f} : backups'[g] = backups[g]
    BY <1>1, <2>2, ReplacedTyped, NoneAssumption DEF IInv
  <2> HIDE DEF copy
  <2>4. /\ op' \in Operation /\ op'.step = "check" /\ op'.kind = "import" /\ op'.file = f
        /\ op'.source = op.source
    BY <1>1, <1>3, StepTyped DEF IInv, Steps
  <2>5. TypeOK'
    BY <1>1, <1>3, <2>3, <2>4 DEF IInv, TypeOK
  <2>6. ShapeInv'
    BY <1>1, <2>3, <2>4 DEF IInv, ShapeInv, Filing, StartSteps
  <2>7. SwapInv' /\ CopyInv'
    BY <1>1, <2>2, <2>3, <2>4 DEF IInv, SwapInv, CopyInv, SwapSteps, up
  <2>8. NoOtherDamage'
    BY <1>1, <1>3, <2>3, <2>4 DEF IInv, NoOtherDamage, Present
  <2>9. BackupsCurrent'
    BY <1>1, <1>3, <2>3, <2>4 DEF IInv, BackupsCurrent, Present
  <2> QED BY <2>5, <2>6, <2>7, <2>8, <2>9 DEF IInv
<1> QED BY <1>2, <1>3 DEF WriteImport, GoTo

LEMMA PruneStep ==
  ASSUME IInv, Prune
  PROVE  IInv'
<1>1. /\ op.step = "prune" /\ op.file \in Files /\ backups[op.file] # None
      /\ UNCHANGED <<main, wal, made, pending, meta, writes, stops, interrupted, harmed, asked>>
  BY DEF Prune, IInv, ShapeInv, Filing, history
<1>2. CASE /\ Doomed(Protected) # {} /\ op' = op
           /\ backups' = [backups EXCEPT ![Highest(Doomed(Protected))] = None]
  <2> DEFINE f == Highest(Doomed(Protected))
  <2>1. f \in Doomed(Protected)
    BY <1>2, HighestIsNewest DEF Doomed, Present
  <2>2. f \in Files /\ f # op.file
    BY <1>1, <2>1, Others DEF Doomed, Present, Protected
  <2> HIDE DEF f
  <2>3. /\ backups' \in [Files -> Copy \cup {None}] /\ backups'[f] = None
        /\ \A g \in Files \ {f} : backups'[g] = backups[g]
    BY <1>2, <2>2, ReplacedTyped DEF IInv, f
  <2> QED BY <1>1, <1>2, <2>2, <2>3, LateStep DEF IInv, TypeOK, ShapeInv
<1>3. CASE backups' = backups /\ op' = AfterPruning
  <2>1. /\ op' \in Operation
        /\ \/ op' = Idle
           \/ /\ op'.kind = op.kind /\ op'.file = op.file /\ op'.source = op.source
              /\ \/ op.kind = "restore" /\ op'.step = "meta"
                 \/ op.kind = "cleanup" /\ op'.step = "delete"
    BY <1>3, StepTyped, IdleTyped DEF AfterPruning, IInv, Steps
  <2> QED BY <1>1, <1>3, <2>1, LateStep DEF IInv, TypeOK
<1> QED BY <1>2, <1>3 DEF Prune

LEMMA DeleteOldRowsStep ==
  ASSUME IInv, DeleteOldRows
  PROVE  IInv'
<1>1. /\ op.step = "delete" /\ op.kind = "cleanup"
      /\ op' = [op EXCEPT !.step = "trim"]
      /\ UNCHANGED <<main, backups, made, pending, meta, stops, interrupted, harmed, asked>>
  BY DEF DeleteOldRows, At, GoTo, history
<1>2. /\ op' \in Operation /\ op'.step = "trim" /\ op'.kind = op.kind /\ op'.file = op.file
      /\ op'.source = op.source
  BY <1>1, StepTyped DEF IInv, Steps
<1>3. wal' \in Versions \cup {None} /\ writes' \in Versions
  BY CountsAssumption DEF IInv, TypeOK, DeleteOldRows, Versions
<1> QED BY <1>1, <1>2, <1>3, LateStep DEF IInv, TypeOK

LEMMA TrimBackupsStep ==
  ASSUME IInv, TrimBackups
  PROVE  IInv'
<1> DEFINE surplus == IF op.keep = 0 THEN {} ELSE Surplus(op.keep)
<1>1. /\ op.step = "trim" /\ op.kind = "cleanup"
      /\ UNCHANGED <<main, wal, made, pending, meta, writes, stops, interrupted, harmed, asked>>
  BY DEF TrimBackups, At, history
<1>2. CASE surplus # {} /\ op' = op /\ backups' = [backups EXCEPT ![Highest(surplus)] = None]
  <2>1. surplus \subseteq Files
    BY DEF Surplus, Present
  <2>2. Highest(surplus) \in Files
    BY <1>2, <2>1, HighestIsNewest
  <2> DEFINE f == Highest(surplus)
  <2> HIDE DEF surplus
  <2> HIDE DEF f
  <2>3. /\ backups' \in [Files -> Copy \cup {None}] /\ backups'[f] = None
        /\ \A g \in Files \ {f} : backups'[g] = backups[g]
    BY <1>2, <2>2, ReplacedTyped DEF IInv, f
  <2> QED BY <1>1, <1>2, <2>3, LateStep DEF IInv, TypeOK
<1>3. CASE op' = Idle /\ backups' = backups
  BY <1>1, <1>3, IdleTyped, LateStep DEF IInv, TypeOK
<1> QED BY <1>2, <1>3 DEF TrimBackups

\* The part of a restore after its backup.
LEMMA PendingStep ==
  ASSUME IInv, OpenPending \/ CopyPending \/ WriteMeta
  PROVE  IInv'
<1>1. /\ op.step \in {"pend", "pending", "meta"} /\ op.kind = "restore"
      /\ op.file \in Files /\ op.source \in Files /\ up
      /\ op.step # "meta" => backups[op.source] # None
      /\ UNCHANGED <<main, wal, backups, made, writes, stops, interrupted>>
  BY DEF OpenPending, CopyPending, WriteMeta, At, IInv, ShapeInv, Filing, up, history
<1>2. CASE OpenPending
  <2>1. /\ op.step = "pend" /\ pending' = Torn /\ op' = [op EXCEPT !.step = "pending"]
        /\ UNCHANGED <<meta, harmed, asked>>
    BY <1>2 DEF OpenPending, GoTo, history
  <2>2. /\ op' \in Operation /\ op'.step = "pending" /\ op'.kind = op.kind
        /\ op'.file = op.file /\ op'.source = op.source
    BY <2>1, StepTyped DEF IInv, Steps
  <2>3. TypeOK'
    BY <1>1, <2>1, <2>2 DEF IInv, TypeOK, Contents
  <2>4. ShapeInv'
    BY <1>1, <2>1, <2>2 DEF IInv, ShapeInv, Filing, StartSteps
  <2>5. SwapInv' /\ CopyInv'
    BY <1>1, <2>1, <2>2 DEF IInv, SwapInv, CopyInv, SwapSteps, up
  <2>6. NoOtherDamage'
    BY <1>1, <2>1, <2>2, MainTyped, Others DEF IInv, NoOtherDamage, Present
  <2>7. BackupsCurrent'
    BY <1>1, <2>1, <2>2 DEF IInv, BackupsCurrent, Present
  <2> QED BY <2>3, <2>4, <2>5, <2>6, <2>7 DEF IInv
<1>3. CASE CopyPending
  <2>1. op.step = "pending" /\ meta' = meta /\ backups[op.source].data \in Contents
    BY <1>1, <1>3, CopyTyped DEF CopyPending, IInv
  <2>2. CASE /\ pending' = backups[op.source].data /\ asked' = TRUE
             /\ harmed' = (harmed \/ pending' = Torn) /\ op' = [op EXCEPT !.step = "prune"]
    <3>1. /\ op' \in Operation /\ op'.step = "prune" /\ op'.kind = op.kind
          /\ op'.file = op.file /\ op'.source = op.source
      BY <2>2, StepTyped DEF IInv, Steps
    <3>2. harmed' \in BOOLEAN /\ (harmed => harmed') /\ (pending' = Torn => harmed')
      BY <2>2 DEF IInv, TypeOK
    <3>3. TypeOK'
      BY <1>1, <2>1, <2>2, <3>1, <3>2 DEF IInv, TypeOK
    <3>4. ShapeInv'
      BY <1>1, <2>1, <3>1 DEF IInv, ShapeInv, Filing, StartSteps
    <3>5. SwapInv' /\ CopyInv'
      BY <1>1, <2>1, <2>2, <3>1 DEF IInv, SwapInv, CopyInv, SwapSteps, up
    <3>6. NoOtherDamage'
      BY <1>1, <2>1, <3>1, <3>2, MainTyped, Others DEF IInv, NoOtherDamage, Present
    <3>7. BackupsCurrent'
      BY <1>1, <2>1, <3>1 DEF IInv, BackupsCurrent, Present
    <3> QED BY <3>3, <3>4, <3>5, <3>6, <3>7 DEF IInv
  <2>3. CASE pending' = None /\ asked' = FALSE /\ op' = Idle /\ UNCHANGED harmed
    <3>1. TypeOK'
      BY <1>1, <2>1, <2>3, IdleTyped DEF IInv, TypeOK
    <3>2. ShapeInv'
      BY <1>1, <2>3, IdleTyped DEF IInv, ShapeInv, Filing, StartSteps
    <3>3. SwapInv' /\ CopyInv'
      BY <1>1, <2>3, IdleTyped DEF IInv, SwapInv, CopyInv, SwapSteps
    <3>4. NoOtherDamage'
      BY <1>1, <2>1, <2>3, MainTyped, Others DEF IInv, NoOtherDamage, Present
    <3>5. BackupsCurrent'
      BY <1>1, <2>1, <2>3, IdleTyped, Others DEF IInv, BackupsCurrent, Present
    <3> QED BY <3>1, <3>2, <3>3, <3>4, <3>5 DEF IInv
  <2> QED BY <1>3, <2>2, <2>3 DEF CopyPending, GoTo
<1>4. CASE WriteMeta
  <2>1. /\ op.step = "meta" /\ op' = Idle /\ UNCHANGED <<pending, harmed, asked>>
        /\ meta' = [restoredFrom |-> op.source, preRestoreBackup |-> op.file]
    BY <1>4 DEF WriteMeta, At, history
  <2>2. TypeOK'
    BY <1>1, <2>1, IdleTyped DEF IInv, TypeOK, Meta
  <2>3. ShapeInv'
    BY <1>1, <2>1, IdleTyped DEF IInv, ShapeInv, Filing, StartSteps
  <2>4. SwapInv' /\ CopyInv'
    BY <1>1, <2>1, IdleTyped DEF IInv, SwapInv, CopyInv, SwapSteps
  <2>5. NoOtherDamage' /\ BackupsCurrent'
    BY <1>1, <2>1, IdleTyped DEF IInv, NoOtherDamage, BackupsCurrent, Present
  <2> QED BY <2>2, <2>3, <2>4, <2>5 DEF IInv
<1> QED BY <1>2, <1>3, <1>4

LEMMA CancelStep ==
  ASSUME IInv, Cancel
  PROVE  IInv'
<1>1. /\ op = Idle /\ pending' = None /\ asked' = FALSE
      /\ op' = [Idle EXCEPT !.kind = "cancel", !.step = "unmark"]
      /\ UNCHANGED <<main, wal, backups, made, meta, writes, stops, interrupted, harmed>>
  BY DEF Cancel, RemovePending
<1>2. /\ op' \in Operation /\ op'.kind = "cancel" /\ op'.step = "unmark" /\ op'.file = None
  BY <1>1, IdleTyped DEF Operation, Kinds, Steps
<1>3. up
  BY <1>1, IdleTyped DEF up
<1>4. TypeOK'
  BY <1>1, <1>2 DEF IInv, TypeOK
<1>5. ShapeInv'
  BY <1>1, <1>2 DEF IInv, ShapeInv, Filing, StartSteps
<1>6. SwapInv' /\ CopyInv'
  BY <1>1, <1>2, <1>3 DEF IInv, SwapInv, CopyInv, SwapSteps
<1>7. NoOtherDamage'
  BY <1>1, <1>2, <1>3, IdleTyped, MainTyped, Others DEF IInv, NoOtherDamage, Present
<1>8. BackupsCurrent'
  BY <1>1, <1>2, IdleTyped, Others DEF IInv, BackupsCurrent, Present
<1> QED BY <1>4, <1>5, <1>6, <1>7, <1>8 DEF IInv

LEMMA StopStep ==
  ASSUME IInv, Stop
  PROVE  IInv'
<1>1. /\ op' = Starting
      /\ interrupted' = IF op.step \in {"copy", "redact", "check"}
                        THEN interrupted \cup {op.file} ELSE interrupted
      /\ harmed' = (harmed \/ op.step = "pending") /\ asked' = (asked \/ op.step = "pending")
      /\ UNCHANGED <<main, wal, backups, made, pending, meta, writes>>
  BY DEF Stop
<1>2. stops' \in 0 .. MaxStops
  BY CountsAssumption DEF IInv, TypeOK, Stop
<1>3. op.step \in Filing => op.file \in Files
  BY DEF IInv, ShapeInv
<1>4. /\ harmed' \in BOOLEAN /\ asked' \in BOOLEAN
      /\ harmed \/ op.step = "pending" => harmed'
      /\ asked \/ op.step = "pending" => asked'
  BY <1>1 DEF IInv, TypeOK
<1>5. TypeOK'
  BY <1>1, <1>2, <1>3, <1>4, IdleTyped DEF IInv, TypeOK, Filing
<1>6. ShapeInv'
  BY <1>1, IdleTyped DEF IInv, ShapeInv, Filing, StartSteps
<1>7. SwapInv' /\ CopyInv'
  BY <1>1, <1>4, IdleTyped DEF IInv, SwapInv, CopyInv, SwapSteps, up
<1>8. NoOtherDamage'
  BY <1>1, <1>4, IdleTyped DEF IInv, NoOtherDamage, Present
<1>9. BackupsCurrent'
  BY <1>1, IdleTyped, OpTyped DEF IInv, BackupsCurrent, Present, ShapeInv, Filing, Steps
<1> QED BY <1>5, <1>6, <1>7, <1>8, <1>9 DEF IInv

\* The steps of a start, and the last one of a cancellation.
LEMMA StartStep ==
  ASSUME IInv, LookForPending \/ OpenMain \/ CopyToMain \/ Consume \/ RemoveMeta \/ Open
  PROVE  IInv'
<1>1. /\ op.step \in StartSteps \cup {"unmark"} /\ op.file = None
      /\ op.step # "unmark" => ~up
      /\ UNCHANGED <<backups, made, writes, stops, interrupted, harmed>>
  BY DEF LookForPending, OpenMain, CopyToMain, Consume, RemoveMeta, Open, IInv, ShapeInv, StartSteps,
         Filing, up, history
<1>2. /\ op' \in Operation /\ op'.file = None
      /\ \/ /\ op'.kind = op.kind /\ op'.source = op.source
            /\ op'.step \in StartSteps \cup {"unmark"}
            /\ op'.step # "unmark" => ~up
         \/ op' = Idle
  <2>1. CASE RemoveMeta \/ Open
    <3>1. \/ op' = Idle
          \/ op' = [op EXCEPT !.step = "open"] /\ ~up
      BY <2>1 DEF RemoveMeta, Open
    <3> QED BY <1>1, <3>1, StepTyped, IdleTyped DEF IInv, Steps, StartSteps
  <2>2. CASE LookForPending \/ OpenMain \/ CopyToMain \/ Consume
    <3>1. PICK step \in {"open", "swap", "swapping", "swapped", "unmark"} : op' = [op EXCEPT !.step = step]
      BY <2>2 DEF LookForPending, OpenMain, CopyToMain, Consume, GoTo
    <3> QED BY <1>1, <2>2, <3>1, StepTyped
           DEF IInv, Steps, StartSteps, LookForPending, OpenMain, CopyToMain, Consume
  <2> QED BY <2>1, <2>2
<1>3. /\ main' \in Contents /\ wal' \in Versions \cup {None}
      /\ pending' \in Contents \cup {None} /\ meta' \in Meta \cup {None} /\ asked' \in BOOLEAN
      /\ pending' = pending \/ pending' = None
  BY Others DEF LookForPending, OpenMain, CopyToMain, Consume, RemoveMeta, Open, RemoveSidecars, IInv,
         TypeOK, history, Contents, SwapInv, SwapSteps
<1>4. TypeOK'
  BY <1>1, <1>2, <1>3 DEF IInv, TypeOK
<1>5. ShapeInv'
  BY <1>1, <1>2, IdleTyped DEF IInv, ShapeInv, Filing, StartSteps, up
<1>6. CopyInv'
  BY <1>1, <1>2, IdleTyped DEF CopyInv, StartSteps
<1>7. BackupsCurrent'
  BY <1>1, <1>2, Others DEF IInv, BackupsCurrent, Present, StartSteps
<1>8. SwapInv' /\ NoOtherDamage'
  <2>1. CASE LookForPending
    <3>1. /\ ~up /\ UNCHANGED <<main, pending, asked>>
          /\ op' = [op EXCEPT !.step = IF pending = None THEN "open" ELSE "swap"]
      BY <1>1, <2>1 DEF LookForPending, GoTo, history
    <3>2. op'.step = (IF pending = None THEN "open" ELSE "swap") /\ op'.kind = op.kind
      BY <3>1, StepTyped DEF IInv, Steps
    <3> QED BY <1>1, <1>2, <2>1, <3>1, <3>2, Others
           DEF LookForPending, IInv, SwapInv, SwapSteps, NoOtherDamage, Present, up
  <2>2. CASE OpenMain
    <3>1. /\ op.step = "swap" /\ main' = Torn /\ UNCHANGED <<pending, asked>>
          /\ op' = [op EXCEPT !.step = "swapping"]
      BY <2>2 DEF OpenMain, GoTo, history
    <3>2. op'.step = "swapping" /\ op'.kind = op.kind
      BY <3>1, StepTyped DEF IInv, Steps
    <3> QED BY <1>1, <3>1, <3>2, Others
           DEF IInv, TypeOK, Contents, SwapInv, SwapSteps, NoOtherDamage, Present, up
  <2>3. CASE CopyToMain
    <3>1. /\ op.step = "swapping" /\ main' = pending /\ UNCHANGED <<pending, asked>>
          /\ op' = [op EXCEPT !.step = "swapped"]
      BY <2>3 DEF CopyToMain, GoTo, history
    <3>2. op'.step = "swapped" /\ op'.kind = op.kind
      BY <3>1, StepTyped DEF IInv, Steps
    <3> QED BY <1>1, <3>1, <3>2, Others
           DEF IInv, TypeOK, Contents, SwapInv, SwapSteps, NoOtherDamage, Present, up
  <2>4. CASE Consume
    <3>1. /\ op.step = "swapped" /\ main' = main /\ pending' = None
          /\ op' = [op EXCEPT !.step = "unmark"]
      BY <2>4 DEF Consume, GoTo
    <3>2. op'.step = "unmark" /\ op'.kind = op.kind
      BY <3>1, StepTyped DEF IInv, Steps
    <3> QED BY <1>1, <3>1, <3>2, Others
           DEF IInv, SwapInv, SwapSteps, NoOtherDamage, Present, up
  <2>5. CASE RemoveMeta
    <3>1. /\ op.step = "unmark" /\ UNCHANGED <<main, pending, asked>>
          /\ op' = IF up THEN Idle ELSE [op EXCEPT !.step = "open"]
      BY <2>5 DEF RemoveMeta, history
    <3>2. \/ op' = Idle /\ up
          \/ op'.step = "open" /\ op'.kind = op.kind /\ ~up
      BY <3>1, StepTyped DEF IInv, Steps
    <3> QED BY <1>1, <3>1, <3>2, IdleTyped, Others
           DEF IInv, SwapInv, SwapSteps, NoOtherDamage, Present, up
  <2>6. CASE Open
    <3>1. op.step = "open" /\ op' = Idle /\ main # Torn /\ UNCHANGED <<main, pending, asked>>
      BY <2>6 DEF Open, history
    <3> QED BY <1>1, <3>1, IdleTyped, Others
           DEF IInv, SwapInv, SwapSteps, NoOtherDamage, Present, up
  <2> QED BY <2>1, <2>2, <2>3, <2>4, <2>5, <2>6
<1> QED BY <1>4, <1>5, <1>6, <1>7, <1>8 DEF IInv

-----------------------------------------------------------------------------
(* The invariant *)

LEMMA StepInv == IInv /\ [Next]_vars => IInv'
<1> SUFFICES ASSUME IInv, [Next]_vars PROVE IInv'
  OBVIOUS
<1>1. CASE Write \/ AutoCheckpoint
  BY <1>1, WriteStep, AutoCheckpointStep
<1>2. CASE BeginBackup \/ BeginImport
  BY <1>2, BeginStep
<1>3. CASE CopyDatabase \/ Redact
  BY <1>3, CopyDatabaseStep, RedactStep
<1>4. CASE WriteImport \/ CheckImport
  BY <1>4, WriteImportStep, CheckImportStep
<1>5. CASE Prune \/ DeleteOldRows \/ TrimBackups
  BY <1>5, PruneStep, DeleteOldRowsStep, TrimBackupsStep
<1>6. CASE OpenPending \/ CopyPending \/ WriteMeta
  BY <1>6, PendingStep
<1>7. CASE Cancel \/ Stop
  BY <1>7, CancelStep, StopStep
<1>8. CASE LookForPending \/ OpenMain \/ CopyToMain \/ Consume \/ RemoveMeta \/ Open
  BY <1>8, StartStep
<1>9. CASE UNCHANGED vars
  BY <1>9 DEF vars, history, IInv, TypeOK, ShapeInv, SwapInv, CopyInv, NoOtherDamage, BackupsCurrent,
         Present, up
<1> QED BY <1>1, <1>2, <1>3, <1>4, <1>5, <1>6, <1>7, <1>8, <1>9 DEF Next

LEMMA Invariance == Spec => []IInv
BY InitInv, StepInv, PTL DEF Spec

\* The database, its backups and the operation in progress keep their types.
THEOREM RestoreTypeCorrect == Spec => []TypeOK
<1>1. IInv => TypeOK
  BY DEF IInv
<1> QED BY <1>1, Invariance, PTL

\* A start may be cut short anywhere and any number of times: the database that is
\* damaged by it is mended by the next one, unless the copy to restore was unfinished.
THEOREM NoOtherDamageHolds == Spec => []NoOtherDamage
<1>1. IInv => NoOtherDamage
  BY DEF IInv
<1> QED BY <1>1, Invariance, PTL

\* Every backup that createDatabaseBackup finished is the database as it was when the
\* backup was asked for, without secrets, and every finished import is what was uploaded.
THEOREM BackupsCurrentHolds == Spec => []BackupsCurrent
<1>1. IInv => BackupsCurrent
  BY DEF IInv
<1> QED BY <1>1, Invariance, PTL

\* A step replaces the content only if it writes, or makes a restore that was asked for.
LEMMA StepAsked ==
  ASSUME IInv, [Next]_vars
  PROVE  Live' # Live => writes' # writes \/ (~up /\ asked)
<1>1. CASE Write
  BY <1>1, CountsAssumption DEF Write, IInv, TypeOK, Versions
<1>2. CASE AutoCheckpoint
  BY <1>2 DEF AutoCheckpoint, Live
<1>3. CASE BeginBackup
  BY <1>3 DEF BeginBackup, Checkpoint, Live
<1>4. CASE DeleteOldRows
  BY <1>4, CountsAssumption DEF DeleteOldRows, IInv, TypeOK, Versions, Live
<1>5. CASE OpenMain \/ CopyToMain
  BY <1>5 DEF OpenMain, CopyToMain, IInv, SwapInv, SwapSteps, ShapeInv, StartSteps, up
<1>6. CASE \/ CopyDatabase \/ Redact \/ Prune \/ TrimBackups
           \/ BeginImport \/ WriteImport \/ CheckImport
           \/ OpenPending \/ CopyPending \/ WriteMeta \/ Cancel \/ RemoveMeta
           \/ Stop \/ LookForPending \/ Consume \/ Open \/ UNCHANGED vars
  BY <1>6 DEF CopyDatabase, Redact, Prune, TrimBackups, BeginImport, WriteImport, CheckImport,
         OpenPending, CopyPending, WriteMeta, Cancel, RemoveMeta, Stop, LookForPending, Consume, Open,
         vars, Live
<1> QED BY <1>1, <1>2, <1>3, <1>4, <1>5, <1>6 DEF Next

\* However operations, failures and ends of the process follow each other, no content
\* comes back that the owner did not ask to restore, or asked for and cancelled.
THEOREM OnlyAskedRestoredHolds == Spec => OnlyAskedRestored
<1>1. IInv /\ [Next]_vars => [Live' # Live => writes' # writes \/ (~up /\ asked)]_vars
  BY StepAsked
<1> QED BY <1>1, Invariance, PTL DEF Spec, OnlyAskedRestored

-----------------------------------------------------------------------------
(* Retention *)

LEMMA FilesFinite ==
  ASSUME NEW files, files \subseteq Files
  PROVE  IsFiniteSet(files) /\ Cardinality(files) \in Nat
<1>1. IsFiniteSet(Files)
  BY CountsAssumption, FS_Interval DEF Files
<1>2. IsFiniteSet(files)
  BY <1>1, FS_Subset
<1> QED BY <1>2, FS_CardinalityType

LEMMA SparedTyped ==
  ASSUME NEW protected
  PROVE  /\ Cardinality(Present \cap protected) \in Nat
         /\ Spared(protected) \in Nat
         /\ Spared(protected) >= Retention - Cardinality(Present \cap protected)
         /\ Spared(protected) > 0 => Spared(protected) = Retention - Cardinality(Present \cap protected)
<1>1. Cardinality(Present \cap protected) \in Nat
  BY FilesFinite DEF Present
<1> QED BY <1>1, CountsAssumption DEF Spared

\* The new file and the one to restore are all that pruning protects.
LEMMA ProtectedAreTwo ==
  Cardinality(Present \cap Protected) <= 2
<1>1. Cardinality({op.file}) = 1 /\ IsFiniteSet({op.file})
  BY FS_Singleton
<1>2. IsFiniteSet({op.file, op.source}) /\ Cardinality({op.file, op.source}) <= 2
  <2>1. {op.file, op.source} = {op.file} \cup {op.source}
    OBVIOUS
  <2> QED BY <1>1, <2>1, FS_AddElement
<1>3. Present \cap Protected \subseteq {op.file, op.source}
  BY DEF Protected
<1>4. /\ Cardinality(Present \cap Protected) <= Cardinality({op.file, op.source})
      /\ Cardinality(Present \cap Protected) \in Nat
      /\ Cardinality({op.file, op.source}) \in Nat
  BY <1>2, <1>3, FS_Subset, FS_CardinalityType
<1> QED BY <1>2, <1>4

\* A file that pruning removes has Retention - 1 newer ones, the new one among them.
LEMMA DoomedIsOld ==
  ASSUME IInv, op.step = "prune", NEW f \in Doomed(Protected)
  PROVE  f \in Present \ Protected /\ Cardinality(Newer(f, Present)) >= Retention - 1
<1> DEFINE beside == Newer(f, Present \ Protected)
<1>1. /\ f \in Present \ Protected /\ Cardinality(beside) >= Spared(Protected)
  BY DEF Doomed
<1>2. /\ op.file \in Present /\ op.file \in Protected /\ op.file > f
  BY <1>1, Others DEF IInv, ShapeInv, Filing, Present, Protected, Files
<1>3. beside \cup {op.file} \subseteq Newer(f, Present) /\ op.file \notin beside
  BY <1>2 DEF Newer
<1>4. /\ IsFiniteSet(beside) /\ Cardinality(beside) \in Nat
      /\ IsFiniteSet(Newer(f, Present)) /\ Cardinality(Newer(f, Present)) \in Nat
  BY FilesFinite DEF Newer, Present
<1>5. Cardinality(beside \cup {op.file}) = Cardinality(beside) + 1
  BY <1>3, <1>4, FS_AddElement
<1>6. Cardinality(beside \cup {op.file}) <= Cardinality(Newer(f, Present))
  BY <1>3, <1>4, FS_Subset
<1> HIDE DEF beside
<1> QED BY <1>1, <1>4, <1>5, <1>6, SparedTyped, ProtectedAreTwo, CountsAssumption

\* With nothing left to remove there are no more files than may be kept.
LEMMA NothingDoomed ==
  ASSUME Doomed(Protected) = {}, Retention # 0
  PROVE  Cardinality(Present) <= Retention \/ Present \subseteq Protected
<1> DEFINE others == Present \ Protected
<1> SUFFICES ASSUME others # {} PROVE Cardinality(Present) <= Retention
  OBVIOUS
<1>1. PICK f \in others : \A g \in others : f <= g
  BY OldestIsLeast DEF Present
<1>2. Newer(f, others) = others \ {f}
  <2>1. \A g \in others : g > f <=> g # f
    BY <1>1 DEF Present, Files
  <2> QED BY <2>1 DEF Newer
<1>3. /\ IsFiniteSet(others) /\ Cardinality(others) \in Nat
      /\ IsFiniteSet(Present) /\ Cardinality(Present) \in Nat
  BY FilesFinite DEF Present
<1>4. Cardinality(Newer(f, others)) = Cardinality(others) - 1
  <2> HIDE DEF others
  <2>1. Cardinality(others \ {f}) = Cardinality(others) - 1
    BY <1>1, <1>3, FS_RemoveElement
  <2> QED BY <1>2, <2>1
<1>5. ~ (Cardinality(Newer(f, others)) >= Spared(Protected))
  BY <1>1 DEF Doomed
<1>6. Cardinality(others) = Cardinality(Present) - Cardinality(Present \cap Protected)
  BY <1>3, FS_Difference
<1>7. Cardinality(others) # 0
  BY <1>3, FS_EmptySet
<1> HIDE DEF others
<1> QED BY <1>3, <1>4, <1>5, <1>6, <1>7, SparedTyped, CountsAssumption

LEMMA StepRetention ==
  ASSUME IInv, [Next]_vars, op.step = "prune"
  PROVE  /\ \A f \in Present : backups'[f] = None =>
              f \notin Protected /\ Cardinality(Newer(f, Present)) >= Retention - 1
         /\ op'.step \notin {"prune", "look"} /\ Retention # 0 =>
              Cardinality(Present) <= Retention \/ Present \subseteq Protected
<1>1. CASE Prune
  <2>1. CASE /\ Doomed(Protected) # {} /\ op' = op
             /\ backups' = [backups EXCEPT ![Highest(Doomed(Protected))] = None]
    <3> DEFINE d == Highest(Doomed(Protected))
    <3>1. d \in Doomed(Protected)
      BY <2>1, HighestIsNewest DEF Doomed, Present
    <3>2. d \notin Protected /\ Cardinality(Newer(d, Present)) >= Retention - 1
      BY <3>1, DoomedIsOld
    <3> HIDE DEF d
    <3>3. \A f \in Present : backups'[f] = None => f = d
      BY <2>1 DEF d, Present, IInv, TypeOK
    <3> QED BY <2>1, <3>2, <3>3
  <2>2. CASE Doomed(Protected) = {} /\ backups' = backups
    BY <2>2, NothingDoomed DEF Present
  <2> QED BY <1>1, <2>1, <2>2 DEF Prune
<1>2. CASE Stop \/ AutoCheckpoint \/ UNCHANGED vars
  <2>1. backups' = backups /\ op'.step \in {"prune", "look"}
    BY <1>2, IdleTyped DEF Stop, AutoCheckpoint, vars
  <2> QED BY <2>1 DEF Present
<1>3. op # Idle /\ op.kind # "start"
  BY IdleTyped DEF IInv, ShapeInv, StartSteps
<1> QED BY <1>1, <1>2, <1>3
       DEF Next, Write, BeginBackup, BeginImport, Opens, CopyDatabase, Redact, DeleteOldRows,
           TrimBackups, WriteImport, CheckImport, OpenPending, CopyPending, WriteMeta, Cancel,
           RemoveMeta, LookForPending, OpenMain, CopyToMain, Consume, Open, At

\* Pruning never removes what it was told to protect nor one of the newest files, and
\* when it is over it has removed what it had to.
THEOREM RetentionKeptHolds == Spec => RetentionKept
<1>1. IInv /\ [Next]_vars =>
        [op.step = "prune" =>
           /\ \A f \in Present : backups'[f] = None =>
                f \notin Protected /\ Cardinality(Newer(f, Present)) >= Retention - 1
           /\ op'.step \notin {"prune", "look"} /\ Retention # 0 =>
                Cardinality(Present) <= Retention \/ Present \subseteq Protected]_vars
  BY StepRetention
<1> QED BY <1>1, Invariance, PTL DEF Spec, RetentionKept

-----------------------------------------------------------------------------
(* What the steps before this one have left *)

PassedInv ==
  /\ op.step = "redact" => wal = None /\ main = backups[op.file].of
  /\ op.step \in Filing => op.file \notin interrupted
  /\ \A f \in interrupted : f <= made
  /\ op.step \in {"delete", "trim"} => backups[op.file] # None
  /\ op.step = "pending" => pending = Torn
  /\ op.step \in {"swapping", "swapped"} => wal = None
  /\ op.step = "swapping" => main = Torn
  /\ op.kind = "start" /\ op.step \in {"open", "unmark"} => pending = None
  /\ op.kind = "import" => op.step \in {"copy", "check", "prune"}
  /\ op.step = "check" => op.kind = "import"

LEMMA InitPassed == Init => PassedInv
BY IdleTyped DEF Init, PassedInv, Filing

\* What is common to the steps of an operation that is past the copy of its file.
LEMMA FilingPassed ==
  ASSUME IInv, PassedInv,
         op.step \in Filing, UNCHANGED <<made, main, wal>>,
         \/ op' = Idle
         \/ op'.file = op.file /\ op'.step \in Filing /\ op'.kind = op.kind,
         op'.step \in Filing => interrupted' = interrupted,
         interrupted' = interrupted \/ interrupted' = interrupted \cup {op.file},
         op'.step = "redact" => main = backups'[op.file].of,
         op'.step = "redact" => wal = None,
         op'.step \in {"delete", "trim"} => backups'[op.file] # None,
         op'.step = "pending" => pending' = Torn,
         op'.kind = "import" => op'.step \in {"copy", "check", "prune"},
         op'.step = "check" => op'.kind = "import"
  PROVE  PassedInv'
<1>1. op.file \in Files /\ op.file = made /\ made \in Nat /\ op.kind # "start"
  BY DEF IInv, TypeOK, ShapeInv, Filing, StartSteps
<1>2. \A f \in interrupted' : f <= made'
  BY <1>1 DEF PassedInv
<1>3. op'.step \in Filing => op'.file \notin interrupted'
  BY IdleTyped DEF PassedInv, Filing
<1>4. op'.kind # "start" /\ op'.step \notin {"swapping", "swapped"}
  BY <1>1, IdleTyped DEF Filing
<1> QED BY <1>2, <1>3, <1>4, IdleTyped DEF PassedInv

\* What a clean-up trims beside its count has a newer backup: its own.
LEMMA SurplusIsOlder ==
  ASSUME IInv, op.step = "trim", op.keep # 0, Surplus(op.keep) # {}
  PROVE  LET f == Highest(Surplus(op.keep)) IN f \in Present /\ f # op.file /\ f < op.file
<1> DEFINE f == Highest(Surplus(op.keep))
<1>1. f \in Present /\ Cardinality(Newer(f, Present)) >= op.keep
  <2>1. f \in Surplus(op.keep)
    BY HighestIsNewest DEF Surplus, Present
  <2> QED BY <2>1 DEF Surplus
<1> HIDE DEF f
<1>2. op.keep \in Nat \ {0}
  BY OpTyped DEF IInv
<1>3. op.file = made /\ op.file \in Files /\ f <= made
  BY <1>1 DEF IInv, ShapeInv, Filing, Present
<1>4. f # op.file
  <2>1. SUFFICES ASSUME f = op.file PROVE FALSE
    OBVIOUS
  <2>2. \A g \in Present : ~ (g > made)
    BY <1>3 DEF IInv, ShapeInv, Present, Files
  <2>3. Newer(f, Present) = {}
    BY <1>3, <2>1, <2>2 DEF Newer
  <2>4. Cardinality(Newer(f, Present)) = 0
    BY <2>3, FS_EmptySet
  <2> QED BY <1>1, <1>2, <2>4
<1> QED BY <1>1, <1>3, <1>4 DEF f, Present, Files

LEMMA StepPassed ==
  ASSUME IInv, PassedInv, [Next]_vars
  PROVE  PassedInv'
<1>0. op.file \in Files \cup {None} /\ made \in Nat
  BY OpTyped DEF IInv, TypeOK
<1>1. CASE Write
  BY <1>1, IdleTyped DEF Write, history, PassedInv, Filing
<1>2. CASE AutoCheckpoint
  <2>1. /\ up /\ wal # None /\ UNCHANGED <<op, backups, made, pending, interrupted>>
    BY <1>2 DEF AutoCheckpoint
  <2>2. op.step \notin {"redact", "swapping", "swapped"}
    BY <2>1 DEF PassedInv
  <2> QED BY <2>1, <2>2 DEF PassedInv
<1>3. CASE BeginBackup \/ BeginImport
  <2>1. /\ made' = made + 1 /\ interrupted' = interrupted /\ op = Idle
        /\ op'.step = "copy" /\ op'.file = made + 1 /\ op'.kind # "start"
    BY <1>3 DEF BeginBackup, BeginImport, Opens, NewFile
  <2>2. interrupted \subseteq Nat
    BY DEF IInv, TypeOK, Files
  <2> QED BY <1>0, <2>1, <2>2 DEF PassedInv
<1>4. CASE CopyDatabase
  <2>1. /\ op.step = "copy" /\ op.kind # "import" /\ wal = None /\ main = backups[op.file].of
        /\ op.file \in Files /\ backups[op.file] # None
        /\ UNCHANGED <<main, wal, made, pending, interrupted>>
    BY <1>4 DEF CopyDatabase, IInv, CopyInv, ShapeInv, Filing
  <2>2. CASE op' = Idle
    BY <2>1, <2>2, IdleTyped, FilingPassed DEF Filing
  <2>3. CASE /\ backups' = [backups EXCEPT ![op.file].data = main]
             /\ op' = [op EXCEPT !.step = "redact"]
    <3>1. backups'[op.file].of = backups[op.file].of
      <4>1. backups[op.file] \in Copy
        BY <2>1, CopyTyped DEF IInv
      <4> QED BY <2>1, <2>3, <4>1 DEF Copy, IInv, TypeOK
    <3>2. op'.step = "redact" /\ op'.kind = op.kind /\ op'.file = op.file
      BY <2>3, StepTyped DEF IInv, Steps
    <3> QED BY <2>1, <3>1, <3>2, FilingPassed DEF Filing
  <2> QED BY <1>4, <2>2, <2>3 DEF CopyDatabase, GoTo
<1>5. CASE Redact
  <2>1. op.step = "redact" /\ op.kind # "import" /\ UNCHANGED <<main, wal, made, pending>>
    BY <1>5 DEF Redact, PassedInv
  <2>2. CASE op' = Idle /\ interrupted' = interrupted \cup {op.file}
    BY <2>1, <2>2, IdleTyped, FilingPassed DEF Filing
  <2>3. CASE op' = AfterRedaction /\ interrupted' = interrupted
    <3>1. \/ op' = Idle
          \/ op'.step \in {"pend", "prune"} /\ op'.kind = op.kind /\ op'.file = op.file
      BY <2>3, StepTyped DEF AfterRedaction, IInv, Steps
    <3> QED BY <2>1, <2>3, <3>1, IdleTyped, FilingPassed DEF Filing
  <2> QED BY <1>5, <2>2, <2>3 DEF Redact
<1>6. CASE Prune
  <2>1. /\ op.step = "prune" /\ backups[op.file] # None
        /\ UNCHANGED <<main, wal, made, pending, interrupted>>
    BY <1>6 DEF Prune, IInv, ShapeInv, Filing
  <2>2. CASE op' = op
    BY <2>1, <2>2, FilingPassed DEF Filing
  <2>3. CASE op' = AfterPruning /\ backups' = backups
    <3>1. \/ op' = Idle
          \/ /\ op'.step \in {"meta", "delete"} /\ op'.kind = op.kind /\ op'.file = op.file
             /\ op.kind # "import"
      BY <2>3, StepTyped DEF AfterPruning, IInv, Steps
    <3> QED BY <2>1, <2>3, <3>1, IdleTyped, FilingPassed DEF Filing
  <2> QED BY <1>6, <2>2, <2>3 DEF Prune
<1>7. CASE DeleteOldRows
  <2>1. /\ op.step = "delete" /\ op.kind = "cleanup" /\ UNCHANGED <<main, made, pending, backups, interrupted>>
        /\ op' = [op EXCEPT !.step = "trim"]
    BY <1>7 DEF DeleteOldRows, At, GoTo
  <2>2. op'.step = "trim" /\ op'.kind = op.kind /\ op'.file = op.file
    BY <2>1, StepTyped DEF IInv, Steps
  <2> QED BY <2>1, <2>2 DEF PassedInv, Filing
<1>8. CASE TrimBackups
  <2>1. /\ op.step = "trim" /\ backups[op.file] # None /\ op.file \in Files /\ op.file = made
        /\ op.kind # "import"
        /\ UNCHANGED <<main, wal, made, pending, interrupted>>
    BY <1>8 DEF TrimBackups, At, IInv, ShapeInv, Filing, PassedInv
  <2>2. CASE op' = Idle
    BY <2>1, <2>2, IdleTyped, FilingPassed DEF Filing
  <2>3. CASE op' # Idle
    <3> DEFINE f == Highest(Surplus(op.keep))
    <3>1. /\ op' = op /\ op.keep # 0 /\ Surplus(op.keep) # {}
          /\ backups' = [backups EXCEPT ![f] = None]
      BY <1>8, <2>3 DEF TrimBackups
    <3>2. f \in Files /\ f # op.file
      BY <2>1, <3>1, SurplusIsOlder DEF Present
    <3> HIDE DEF f
    <3>3. backups'[op.file] # None
      BY <2>1, <3>1, <3>2 DEF IInv, TypeOK
    <3> QED BY <2>1, <3>1, <3>3, FilingPassed DEF Filing
  <2> QED BY <2>2, <2>3
<1>9. CASE WriteImport
  <2>1. op.step = "copy" /\ op.kind = "import" /\ UNCHANGED <<main, wal, made, pending>>
    BY <1>9 DEF WriteImport, At
  <2>2. CASE op' = Idle /\ interrupted' = interrupted \cup {op.file}
    BY <2>1, <2>2, IdleTyped, FilingPassed DEF Filing
  <2>3. CASE op' = [op EXCEPT !.step = "check"] /\ interrupted' = interrupted
    <3>1. op'.step = "check" /\ op'.kind = op.kind /\ op'.file = op.file
      BY <2>3, StepTyped DEF IInv, Steps
    <3> QED BY <2>1, <2>3, <3>1, FilingPassed DEF Filing
  <2> QED BY <1>9, <2>2, <2>3 DEF WriteImport, GoTo
<1>10. CASE CheckImport
  <2>1. op.step = "check" /\ UNCHANGED <<main, wal, made, pending, interrupted>>
    BY <1>10 DEF CheckImport
  <2>2. CASE op' = Idle
    BY <2>1, <2>2, IdleTyped, FilingPassed DEF Filing
  <2>3. CASE op' = [op EXCEPT !.step = "prune"]
    <3>1. op'.step = "prune" /\ op'.kind = op.kind /\ op'.file = op.file
      BY <2>3, StepTyped DEF IInv, Steps
    <3> QED BY <2>1, <3>1, FilingPassed DEF Filing
  <2> QED BY <1>10, <2>2, <2>3 DEF CheckImport, GoTo
<1>11. CASE OpenPending \/ CopyPending \/ WriteMeta
  <2>1. /\ op.step \in {"pend", "pending", "meta"} /\ op.kind # "import"
        /\ UNCHANGED <<main, wal, made, backups, interrupted>>
    BY <1>11 DEF OpenPending, CopyPending, WriteMeta, At, history, PassedInv
  <2>2. CASE op' = Idle
    BY <2>1, <2>2, IdleTyped, FilingPassed DEF Filing
  <2>3. ASSUME NEW step \in {"pending", "prune"}, op' = [op EXCEPT !.step = step],
               step = "pending" => pending' = Torn
        PROVE  PassedInv'
    <3>1. op'.step = step /\ op'.kind = op.kind /\ op'.file = op.file
      BY <2>3, StepTyped DEF IInv, Steps
    <3> QED BY <2>1, <2>3, <3>1, FilingPassed DEF Filing
  <2> QED BY <1>11, <2>2, <2>3 DEF OpenPending, CopyPending, WriteMeta, GoTo
<1>12. CASE Cancel
  <2>1. op'.kind = "cancel" /\ op'.step = "unmark" /\ UNCHANGED <<made, interrupted>>
    BY <1>12, IdleTyped DEF Cancel, Operation
  <2> QED BY <2>1 DEF PassedInv, Filing
<1>13. CASE Stop
  <2>1. /\ op'.step = "look" /\ op'.kind = "start" /\ made' = made
        /\ interrupted' = IF op.step \in {"copy", "redact", "check"}
                          THEN interrupted \cup {op.file} ELSE interrupted
    BY <1>13, IdleTyped DEF Stop
  <2>2. op.step \in {"copy", "redact", "check"} => op.file = made
    BY DEF IInv, ShapeInv, Filing
  <2>3. \A f \in interrupted' : f <= made'
    BY <1>0, <2>1, <2>2 DEF PassedInv
  <2> QED BY <2>1, <2>3 DEF PassedInv, Filing
<1>14. CASE RemoveMeta
  <2>1. op.step = "unmark" /\ UNCHANGED <<main, wal, made, pending, interrupted>>
    BY <1>14 DEF RemoveMeta
  <2>2. \/ op' = Idle
        \/ op'.step = "open" /\ op'.kind = "start" /\ op.kind = "start"
    BY <1>14, StepTyped DEF RemoveMeta, up, IInv, Steps
  <2> QED BY <2>1, <2>2, IdleTyped DEF PassedInv, Filing
<1>15. CASE LookForPending \/ OpenMain \/ CopyToMain \/ Consume \/ Open
  <2>1. UNCHANGED <<made, interrupted>> /\ op.kind = "start"
    BY <1>15 DEF LookForPending, OpenMain, CopyToMain, Consume, Open, IInv, ShapeInv, StartSteps
  <2>2. CASE LookForPending
    <3>1. /\ op' = [op EXCEPT !.step = IF pending = None THEN "open" ELSE "swap"]
          /\ pending' = pending
      BY <2>2 DEF LookForPending, GoTo
    <3>2. op'.kind = op.kind /\ op'.step = (IF pending = None THEN "open" ELSE "swap")
      BY <3>1, StepTyped DEF IInv, Steps
    <3> QED BY <2>1, <3>1, <3>2 DEF PassedInv, Filing
  <2>3. CASE OpenMain
    <3>1. op' = [op EXCEPT !.step = "swapping"] /\ wal' = None /\ main' = Torn
      BY <2>3 DEF OpenMain, GoTo, RemoveSidecars
    <3>2. op'.kind = op.kind /\ op'.step = "swapping"
      BY <3>1, StepTyped DEF IInv, Steps
    <3> QED BY <2>1, <3>1, <3>2 DEF PassedInv, Filing
  <2>4. CASE CopyToMain
    <3>1. op.step = "swapping" /\ op' = [op EXCEPT !.step = "swapped"] /\ wal' = wal
      BY <2>4 DEF CopyToMain, GoTo
    <3>2. op'.kind = op.kind /\ op'.step = "swapped"
      BY <3>1, StepTyped DEF IInv, Steps
    <3> QED BY <2>1, <3>1, <3>2 DEF PassedInv, Filing
  <2>5. CASE Consume
    <3>1. op' = [op EXCEPT !.step = "unmark"] /\ pending' = None
      BY <2>5 DEF Consume, GoTo
    <3>2. op'.kind = op.kind /\ op'.step = "unmark"
      BY <3>1, StepTyped DEF IInv, Steps
    <3> QED BY <2>1, <3>1, <3>2 DEF PassedInv, Filing
  <2>6. CASE Open
    BY <2>1, <2>6, IdleTyped DEF Open, PassedInv, Filing
  <2> QED BY <1>15, <2>2, <2>3, <2>4, <2>5, <2>6
<1>16. CASE UNCHANGED vars
  BY <1>16 DEF vars, PassedInv
<1> QED BY <1>1, <1>2, <1>3, <1>4, <1>5, <1>6, <1>7, <1>8, <1>9, <1>10, <1>11, <1>12, <1>13, <1>14,
           <1>15, <1>16 DEF Next

-----------------------------------------------------------------------------
(* The promise, step by step *)

Making == {"copy", "redact", "check"}

LEMMA KeptAt ==
  ASSUME NEW f \in Files
  PROVE  /\ Kept[f]  = IF backups[f] = None \/ Unfinished(f) THEN None ELSE backups[f].data
         /\ Kept'[f] = IF backups'[f] = None \/ Unfinished(f)' THEN None ELSE backups'[f].data
BY DEF Kept

LEMMA KeptSame ==
  ASSUME \A f \in Files : Kept'[f] = Kept[f]
  PROVE  Kept' = Kept
BY DEF Kept

LEMMA KeptExcept ==
  ASSUME NEW f \in Files, NEW c, Kept'[f] = c, \A g \in Files \ {f} : Kept'[g] = Kept[g]
  PROVE  Kept' = [Kept EXCEPT ![f] = c]
BY DEF Kept

\* No file is being written: backups are what the directory holds.
LEMMA KeptSettled ==
  ASSUME op.step \notin Making, op'.step \notin Making, backups' = backups
  PROVE  Kept' = Kept
BY KeptAt, KeptSame DEF Unfinished, Making

LEMMA ContentUp ==
  ASSUME IInv, up
  PROVE  Content = Live /\ Content \in Versions
BY MainTyped DEF IInv, SwapInv, Content

\* No write and no restore: what is served stays.
LEMMA ContentSame ==
  ASSUME IInv, IInv', up, up', Live' = Live
  PROVE  Content' = Content
BY DEF IInv, SwapInv, Content

LEMMA WantedSame ==
  ASSUME op.step # "pending", op'.step # "pending", UNCHANGED <<pending, asked>>
  PROVE  Wanted' = Wanted
BY DEF Wanted

LEMMA Stutters ==
  ASSUME UNCHANGED <<up, Content, writes, Kept, interrupted, op.kind = "import", Wanted>>
  PROVE  [Promise!Next]_(Promise!vars)
BY DEF Promise!vars

LEMMA WriteMaps ==
  ASSUME IInv, IInv', Write \/ (DeleteOldRows /\ writes' # writes)
  PROVE  [Promise!Next]_(Promise!vars)
<1>1. /\ writes' = writes + 1 /\ wal' = writes' /\ UNCHANGED <<main, backups, pending, asked, interrupted>>
  BY DEF Write, DeleteOldRows, history
<1>2. /\ op.kind # "import" /\ op'.kind # "import"
      /\ up /\ up' /\ op.step \notin Making \cup {"pending"} /\ op'.step \notin Making \cup {"pending"}
  <2>1. CASE Write
    BY <2>1, IdleTyped DEF Write, up, Making
  <2>2. CASE DeleteOldRows
    <3>1. op.kind = "cleanup" /\ op.step = "delete" /\ op' = [op EXCEPT !.step = "trim"]
      BY <2>2 DEF DeleteOldRows, At, GoTo
    <3>2. op'.kind = "cleanup" /\ op'.step = "trim"
      BY <3>1, StepTyped DEF IInv, Steps
    <3> QED BY <3>1, <3>2 DEF up, Making
  <2> QED BY <2>1, <2>2
<1>3. Kept' = Kept /\ Wanted' = Wanted
  BY <1>1, <1>2, KeptSettled, WantedSame
<1>4. Content' = writes'
  <2>1. Content' = Live'
    BY <1>2 DEF IInv, SwapInv, Content
  <2> QED BY <1>1, <2>1, Others DEF Live, IInv, TypeOK
<1>5. Promise!Write
  BY <1>1, <1>2, <1>3, <1>4 DEF Promise!Write
<1> QED BY <1>5 DEF Promise!Next

\* A new file is opened for a copy or an upload: nobody sees it yet.
LEMMA BeginMaps ==
  ASSUME IInv, IInv', BeginBackup \/ BeginImport
  PROVE  [Promise!Next]_(Promise!vars)
<1>1. /\ op = Idle /\ op'.step = "copy" /\ op'.file = made + 1 /\ op'.kind # "start"
      /\ made + 1 \in Files /\ made \in Nat
      /\ \E copy : backups' = [backups EXCEPT ![made + 1] = copy]
      /\ UNCHANGED <<pending, asked, writes, interrupted>>
  <2>1. made \in 0 .. MaxFiles /\ made < MaxFiles
    BY DEF BeginBackup, BeginImport, Opens, IInv, TypeOK
  <2> QED BY <2>1, CountsAssumption DEF BeginBackup, BeginImport, Opens, NewFile, history, Files
<1>2. Live' = Live
  BY DEF BeginBackup, BeginImport, Checkpoint, Live
<1>3. up /\ up'
  BY <1>1, IdleTyped DEF up
<1>4. Kept' = Kept
  <2>1. ASSUME NEW f \in Files PROVE Kept'[f] = Kept[f]
    <3>1. ~Unfinished(f)
      BY <1>1, IdleTyped DEF Unfinished
    <3>2. CASE f = made + 1
      <4>1. backups[f] = None /\ Unfinished(f)'
        BY <1>1, <3>2 DEF IInv, ShapeInv, Unfinished
      <4> QED BY <4>1, KeptAt
    <3>3. CASE f # made + 1
      <4>1. backups'[f] = backups[f] /\ ~Unfinished(f)'
        BY <1>1, <3>3 DEF IInv, TypeOK, Unfinished
      <4> QED BY <3>1, <4>1, KeptAt
    <3> QED BY <3>2, <3>3
  <2> QED BY <2>1, KeptSame
<1>5. Wanted' = Wanted
  BY <1>1, IdleTyped, WantedSame
<1>6. CASE BeginImport
  <2>1. op.kind # "import" /\ op'.kind = "import"
    BY <1>1, <1>6, IdleTyped DEF BeginImport, Opens
  <2>2. Promise!Upload
    BY <1>1, <1>2, <1>3, <1>4, <1>5, <2>1, ContentSame DEF Promise!Upload
  <2> QED BY <2>2 DEF Promise!Next
<1>7. CASE BeginBackup
  <2>1. op.kind # "import" /\ op'.kind # "import"
    BY <1>1, <1>7, IdleTyped DEF BeginBackup, Opens
  <2> QED BY <1>1, <1>2, <1>3, <1>4, <1>5, <2>1, ContentSame, Stutters
<1> QED BY <1>6, <1>7

\* The operation is over, or goes on, and nothing else changes for the owner.
LEMMA OverOrNot ==
  ASSUME \/ op' = Idle
         \/ op'.kind = op.kind,
         up, up', UNCHANGED <<Content, writes, Kept, interrupted, Wanted>>
  PROVE  [Promise!Next]_(Promise!vars)
<1>1. CASE op' = Idle /\ op.kind = "import"
  <2>1. Promise!Uploaded
    BY <1>1, IdleTyped DEF Promise!Uploaded
  <2> QED BY <2>1 DEF Promise!Next
<1>2. CASE ~ (op' = Idle /\ op.kind = "import")
  <2>1. (op'.kind = "import") = (op.kind = "import")
    BY <1>2, IdleTyped
  <2> QED BY <2>1, Stutters
<1> QED BY <1>1, <1>2

\* The file in progress, as long as it is written, is no backup.
LEMMA MakingMaps ==
  ASSUME IInv, IInv', op.step \in Making,
         \/ op'.step \in Making /\ op'.file = op.file /\ op'.kind = op.kind
         \/ op' = Idle /\ backups'[op.file] = None,
         \A g \in Files \ {op.file} : backups'[g] = backups[g],
         UNCHANGED <<main, wal, pending, asked, writes, interrupted>>
  PROVE  [Promise!Next]_(Promise!vars)
<1>1. up /\ up' /\ op.file \in Files
  BY IdleTyped DEF IInv, ShapeInv, Filing, StartSteps, Making, up
<1>2. Kept' = Kept
  <2>1. ASSUME NEW f \in Files PROVE Kept'[f] = Kept[f]
    <3>1. CASE f = op.file
      <4>1. Unfinished(f) /\ (Unfinished(f)' \/ backups'[f] = None)
        BY <3>1 DEF Unfinished, Making
      <4> QED BY <4>1, KeptAt
    <3>2. CASE f # op.file
      <4>1. ~Unfinished(f) /\ ~Unfinished(f)' /\ backups'[f] = backups[f]
        BY <3>2, IdleTyped, Others DEF Unfinished
      <4> QED BY <4>1, KeptAt
    <3> QED BY <3>1, <3>2
  <2> QED BY <2>1, KeptSame
<1>3. Live' = Live /\ Wanted' = Wanted
  BY IdleTyped, WantedSame DEF Live, Making
<1> QED BY <1>1, <1>2, <1>3, ContentSame, OverOrNot

LEMMA FileIsFresh ==
  ASSUME IInv, PassedInv, op.step \in Making
  PROVE  op.file \in Files /\ Promise!Fresh(op.file)
<1>1. op.file \in Files /\ op.file = made /\ op.file \notin interrupted
  BY DEF IInv, ShapeInv, PassedInv, Filing, Making
<1>2. ASSUME NEW g \in Files, Kept[g] # None PROVE g < op.file
  <2>1. backups[g] # None /\ ~Unfinished(g)
    BY <1>2, KeptAt
  <2> QED BY <1>1, <2>1 DEF IInv, ShapeInv, Unfinished, Making, Files
<1> QED BY <1>1, <1>2 DEF Promise!Fresh

\* The operation in progress leaves the file it was making in the directory.
LEMMA FileAppears ==
  ASSUME IInv, op.step \in Making, op'.step \notin Making,
         backups'[op.file] # None,
         \A g \in Files \ {op.file} : backups'[g] = backups[g]
  PROVE  Kept' = [Kept EXCEPT ![op.file] = backups'[op.file].data]
<1>1. op.file \in Files
  BY DEF IInv, ShapeInv, Filing, Making
<1>2. Kept'[op.file] = backups'[op.file].data
  BY <1>1, KeptAt DEF Unfinished, Making
<1>3. \A g \in Files \ {op.file} : Kept'[g] = Kept[g]
  BY KeptAt DEF Unfinished, Making
<1> QED BY <1>1, <1>2, <1>3, KeptExcept

LEMMA GivenUpMaps ==
  ASSUME IInv, IInv', PassedInv, op.step \in Making, op' = Idle,
         interrupted' = interrupted \cup {op.file},
         UNCHANGED <<main, wal, backups, pending, asked, writes>>
  PROVE  [Promise!Next]_(Promise!vars)
<1>1. up /\ up' /\ op.file \in Files /\ backups[op.file] # None
      /\ op'.step = "idle" /\ op'.kind = "none"
  BY IdleTyped DEF IInv, ShapeInv, Filing, StartSteps, Making, up
<1>2. Live' = Live /\ Wanted' = Wanted
  BY <1>1, WantedSame DEF Live, Making
<1>3. /\ Kept' = [Kept EXCEPT ![op.file] = backups'[op.file].data]
      /\ backups'[op.file].data \in Contents
  BY <1>1, FileAppears, CopyTyped DEF Making, IInv
<1>4. Promise!Abandon(op.file)
  BY <1>1, <1>2, <1>3, FileIsFresh, ContentSame DEF Promise!Abandon, Promise!LeftBehind
<1> QED BY <1>1, <1>4 DEF Promise!Next

LEMMA CopyDatabaseMaps ==
  ASSUME IInv, IInv', CopyDatabase
  PROVE  [Promise!Next]_(Promise!vars)
<1>1. /\ op.step = "copy" /\ op.file \in Files
      /\ UNCHANGED <<main, wal, pending, asked, writes, interrupted>>
      /\ \E copy : backups' = [backups EXCEPT ![op.file] = copy]
  BY DEF CopyDatabase, history, IInv, ShapeInv, Filing
<1>2. \A g \in Files \ {op.file} : backups'[g] = backups[g]
  BY <1>1 DEF IInv, TypeOK
<1>3. CASE op' = Idle /\ backups' = [backups EXCEPT ![op.file] = None]
  BY <1>1, <1>2, <1>3, MakingMaps DEF Making, IInv, TypeOK
<1>4. CASE op' = [op EXCEPT !.step = "redact"]
  <2>1. op'.step = "redact" /\ op'.file = op.file /\ op'.kind = op.kind
    BY <1>4, StepTyped DEF IInv, Steps
  <2> QED BY <1>1, <1>2, <2>1, MakingMaps DEF Making
<1> QED BY <1>3, <1>4 DEF CopyDatabase, GoTo

\* A redaction that is done makes the copy a backup of what is served.
LEMMA RedactMaps ==
  ASSUME IInv, IInv', PassedInv, Redact
  PROVE  [Promise!Next]_(Promise!vars)
<1>1. /\ op.step = "redact" /\ op.file \in Files /\ backups[op.file] # None /\ up
      /\ op.kind # "import"
      /\ UNCHANGED <<main, wal, pending, asked, writes>>
  BY DEF Redact, history, IInv, ShapeInv, PassedInv, Filing, StartSteps, up
<1>2. CASE op' = Idle /\ interrupted' = interrupted \cup {op.file} /\ UNCHANGED backups
  BY <1>1, <1>2, GivenUpMaps DEF Making
<1>3. CASE /\ backups' = [backups EXCEPT ![op.file].raw = FALSE]
           /\ op' = AfterRedaction /\ UNCHANGED interrupted
  <2>1. op'.step \notin Making \cup {"pending"} /\ up' /\ op'.kind # "import"
    <3>1. \/ op' = Idle
          \/ op'.step \in {"pend", "prune"} /\ op'.kind = op.kind
      BY <1>3, StepTyped DEF AfterRedaction, IInv, Steps
    <3> QED BY <1>1, <3>1, IdleTyped DEF Making, up
  <2>2. /\ backups'[op.file].data = backups[op.file].data /\ backups'[op.file] # None
        /\ \A g \in Files \ {op.file} : backups'[g] = backups[g]
    <3>1. backups[op.file] \in Copy
      BY <1>1, CopyTyped DEF IInv
    <3>2. [backups[op.file] EXCEPT !.raw = FALSE] \in Copy
      BY <3>1 DEF Copy
    <3>3. /\ backups'[op.file] = [backups[op.file] EXCEPT !.raw = FALSE]
          /\ \A g \in Files \ {op.file} : backups'[g] = backups[g]
      BY <1>1, <1>3 DEF IInv, TypeOK
    <3> QED BY <3>1, <3>2, <3>3, NoneAssumption DEF Copy
  <2>3. backups[op.file].data = main /\ wal = None
    BY <1>1 DEF IInv, CopyInv, PassedInv
  <2>4. Content = main /\ Live' = Live /\ Wanted' = Wanted
    BY <1>1, <2>1, <2>3, ContentUp, WantedSame DEF Live
  <2>5. Kept' = [Kept EXCEPT ![op.file] = Content]
    BY <1>1, <2>1, <2>2, <2>3, <2>4, FileAppears DEF Making
  <2>6. Promise!BackUp(op.file)
    BY <1>1, <1>3, <2>1, <2>4, <2>5, FileIsFresh, ContentSame DEF Promise!BackUp, Making
  <2> QED BY <1>1, <2>6 DEF Promise!Next
<1> QED BY <1>2, <1>3 DEF Redact

LEMMA WriteImportMaps ==
  ASSUME IInv, IInv', PassedInv, WriteImport
  PROVE  [Promise!Next]_(Promise!vars)
<1>1. /\ op.step = "copy" /\ op.file \in Files
      /\ UNCHANGED <<main, wal, pending, asked, writes>>
  BY DEF WriteImport, At, history, IInv, ShapeInv, Filing
<1>2. CASE op' = Idle /\ interrupted' = interrupted \cup {op.file} /\ UNCHANGED backups
  BY <1>1, <1>2, GivenUpMaps DEF Making
<1>3. CASE /\ op' = [op EXCEPT !.step = "check"] /\ UNCHANGED interrupted
           /\ \E copy : backups' = [backups EXCEPT ![op.file] = copy]
  <2>1. op'.step = "check" /\ op'.file = op.file /\ op'.kind = op.kind
    BY <1>3, StepTyped DEF IInv, Steps
  <2>2. \A g \in Files \ {op.file} : backups'[g] = backups[g]
    BY <1>3 DEF IInv, TypeOK
  <2> QED BY <1>1, <1>3, <2>1, <2>2, MakingMaps DEF Making
<1> QED BY <1>2, <1>3 DEF WriteImport, GoTo

\* An upload that was accepted is a backup, one that was refused was never there.
LEMMA CheckImportMaps ==
  ASSUME IInv, IInv', PassedInv, CheckImport
  PROVE  [Promise!Next]_(Promise!vars)
<1>1. /\ op.step = "check" /\ op.file \in Files /\ backups[op.file] # None /\ up
      /\ op.kind = "import"
      /\ UNCHANGED <<main, wal, pending, asked, writes, interrupted>>
  BY DEF CheckImport, history, IInv, ShapeInv, PassedInv, Filing, StartSteps, up
<1>2. CASE ~Accepted(backups[op.file].data)
  <2>1. op' = Idle /\ backups' = [backups EXCEPT ![op.file] = None]
    BY <1>2 DEF CheckImport
  <2> QED BY <1>1, <2>1, MakingMaps DEF Making, IInv, TypeOK
<1>3. CASE Accepted(backups[op.file].data)
  <2>1. backups' = backups /\ op' = [op EXCEPT !.step = "prune"] /\ backups[op.file].data # Torn
    BY <1>3 DEF CheckImport, GoTo, Accepted
  <2>2. op'.step = "prune" /\ up' /\ op'.kind = "import"
    BY <1>1, <2>1, StepTyped DEF IInv, Steps, up
  <2>3. /\ Kept' = [Kept EXCEPT ![op.file] = backups[op.file].data]
        /\ backups[op.file].data \in Contents \ {Torn}
    BY <1>1, <2>1, <2>2, FileAppears, CopyTyped DEF Making, IInv
  <2>4. Live' = Live /\ Wanted' = Wanted
    BY <1>1, <2>2, WantedSame DEF Live
  <2>5. Promise!Import(op.file)
    BY <1>1, <2>2, <2>3, <2>4, FileIsFresh, ContentSame DEF Promise!Import, Making
  <2> QED BY <1>1, <2>5 DEF Promise!Next
<1> QED BY <1>2, <1>3

\* What is common to the steps after the copy that leave the database and the restore
\* that was asked for alone.
LEMMA SettledSteps ==
  ASSUME IInv, IInv', op.step \in {"prune", "delete", "trim", "meta"},
         \/ op' = Idle
         \/ op'.kind = op.kind /\ op'.step \in {"prune", "delete", "trim", "meta"},
         UNCHANGED <<main, wal, pending, asked>>
  PROVE  /\ up /\ up' /\ op.step \notin Making /\ op'.step \notin Making
         /\ Content' = Content /\ Wanted' = Wanted
<1>1. up /\ up' /\ op'.step \notin Making \cup {"pending"}
  BY IdleTyped DEF IInv, ShapeInv, StartSteps, up, Making
<1>2. Live' = Live
  BY DEF Live
<1> QED BY <1>1, <1>2, ContentSame, WantedSame DEF Making

\* A backup is removed for a newer one that is whole: the operation's own.
LEMMA RemovalMaps ==
  ASSUME IInv, IInv', PassedInv, op.step \in {"prune", "trim"}, backups[op.file] # None,
         op' = op, NEW f \in Present, f # op.file,
         backups' = [backups EXCEPT ![f] = None],
         UNCHANGED <<main, wal, pending, asked, writes, interrupted>>
  PROVE  [Promise!Next]_(Promise!vars)
<1>1. /\ f \in Files /\ backups[f] # None /\ op.file \in Files /\ f < op.file
      /\ op.file \notin interrupted
  BY DEF IInv, ShapeInv, PassedInv, Filing, Present, Files
<1>2. /\ up /\ up' /\ op.step \notin Making /\ op'.step \notin Making
      /\ Content' = Content /\ Wanted' = Wanted
  BY SettledSteps
<1>3. Kept[f] # None /\ Kept[op.file] # None
  <2>1. backups[f].data # None /\ backups[op.file].data # None
    BY <1>1, CopyTyped, Others DEF IInv
  <2> QED BY <1>1, <1>2, <2>1, KeptAt DEF Unfinished, Making
<1>4. Kept' = [Kept EXCEPT ![f] = None]
  <2>1. backups'[f] = None /\ \A g \in Files \ {f} : backups'[g] = backups[g]
    BY <1>1 DEF IInv, TypeOK
  <2>2. Kept'[f] = None /\ \A g \in Files \ {f} : Kept'[g] = Kept[g]
    BY <1>1, <1>2, <2>1, KeptAt DEF Unfinished, Making
  <2> QED BY <1>1, <2>2, KeptExcept
<1>5. op.file \in Promise!Whole /\ op.file > f
  BY <1>1, <1>3 DEF Promise!Whole, Files
<1>6. Promise!Remove(f)
  BY <1>2, <1>3, <1>4, <1>5 DEF Promise!Remove
<1> QED BY <1>1, <1>6 DEF Promise!Next

LEMMA PruneMaps ==
  ASSUME IInv, IInv', PassedInv, Prune
  PROVE  [Promise!Next]_(Promise!vars)
<1>1. /\ op.step = "prune" /\ op.file \in Files /\ backups[op.file] # None
      /\ UNCHANGED <<main, wal, pending, asked, writes, interrupted>>
  BY DEF Prune, history, IInv, ShapeInv, Filing
<1>2. CASE /\ Doomed(Protected) # {} /\ op' = op
           /\ backups' = [backups EXCEPT ![Highest(Doomed(Protected))] = None]
  <2> DEFINE f == Highest(Doomed(Protected))
  <2>1. f \in Doomed(Protected)
    BY <1>2, HighestIsNewest DEF Doomed, Present
  <2>2. f \in Present /\ f # op.file
    BY <1>1, <2>1, Others DEF Doomed, Protected
  <2> HIDE DEF f
  <2> QED BY <1>1, <1>2, <2>2, RemovalMaps DEF f
<1>3. CASE backups' = backups /\ op' = AfterPruning
  <2>1. \/ op' = Idle
        \/ op'.step \in {"meta", "delete"} /\ op'.kind = op.kind
    BY <1>3, StepTyped DEF AfterPruning, IInv, Steps
  <2> QED BY <1>1, <1>3, <2>1, SettledSteps, KeptSettled, OverOrNot
<1> QED BY <1>2, <1>3 DEF Prune

LEMMA TrimMaps ==
  ASSUME IInv, IInv', PassedInv, TrimBackups
  PROVE  [Promise!Next]_(Promise!vars)
<1>1. /\ op.step = "trim" /\ backups[op.file] # None
      /\ UNCHANGED <<main, wal, pending, asked, writes, interrupted>>
  BY DEF TrimBackups, At, history, PassedInv
<1>2. CASE op' = Idle /\ backups' = backups
  BY <1>1, <1>2, SettledSteps, KeptSettled, OverOrNot
<1>3. CASE /\ op.keep # 0 /\ Surplus(op.keep) # {} /\ op' = op
           /\ backups' = [backups EXCEPT ![Highest(Surplus(op.keep))] = None]
  BY <1>1, <1>3, SurplusIsOlder, RemovalMaps
<1> QED BY <1>2, <1>3 DEF TrimBackups

LEMMA DeleteOldRowsMaps ==
  ASSUME IInv, IInv', DeleteOldRows
  PROVE  [Promise!Next]_(Promise!vars)
<1>1. CASE writes' # writes
  BY <1>1, WriteMaps
<1>2. CASE writes' = writes
  <2>1. /\ op.step = "delete" /\ op' = [op EXCEPT !.step = "trim"]
        /\ UNCHANGED <<main, wal, backups, pending, asked, writes, interrupted>>
    BY <1>2, CountsAssumption DEF DeleteOldRows, At, GoTo, history, IInv, TypeOK, Versions
  <2>2. op'.step = "trim" /\ op'.kind = op.kind
    BY <2>1, StepTyped DEF IInv, Steps
  <2> QED BY <2>1, <2>2, SettledSteps, KeptSettled, OverOrNot
<1> QED BY <1>1, <1>2

\* A restore is asked for when its copy is complete, with what the source holds; as
\* soon as its file is opened, or cannot be written, an older one is withdrawn.
LEMMA PendingMaps ==
  ASSUME IInv, IInv', PassedInv, OpenPending \/ CopyPending \/ WriteMeta
  PROVE  [Promise!Next]_(Promise!vars)
<1>1. /\ op.step \in {"pend", "pending", "meta"} /\ op.kind = "restore" /\ up
      /\ op.source \in Files /\ op.kind # "import"
      /\ UNCHANGED <<main, wal, backups, writes, interrupted>>
  BY DEF OpenPending, CopyPending, WriteMeta, At, IInv, ShapeInv, up, history
<1>2. /\ op' = Idle \/ op'.kind = op.kind
      /\ op'.step \notin Making
      /\ op'.step = "pending" <=> OpenPending
  <2>1. CASE OpenPending
    <3>1. op' = [op EXCEPT !.step = "pending"]
      BY <2>1 DEF OpenPending, GoTo
    <3> QED BY <2>1, <3>1, StepTyped DEF IInv, Steps, Making
  <2>2. CASE CopyPending
    <3>1. op' = Idle \/ op' = [op EXCEPT !.step = "prune"]
      BY <2>2 DEF CopyPending, GoTo
    <3>2. \/ op' = Idle
          \/ op'.step = "prune" /\ op'.kind = op.kind
      <4>1. CASE op' = [op EXCEPT !.step = "prune"]
        BY <4>1, StepTyped DEF IInv, Steps
      <4> QED BY <3>1, <4>1
    <3> QED BY <2>2, <3>2, IdleTyped DEF OpenPending, CopyPending, Making
  <2>3. CASE WriteMeta
    BY <2>3, IdleTyped DEF WriteMeta, OpenPending, At, Making
  <2> QED BY <2>1, <2>2, <2>3
<1>3. up' /\ op'.kind # "import" /\ Content' = Content /\ Kept' = Kept
  <2>1. up' /\ op'.kind # "import" /\ Live' = Live
    BY <1>1, <1>2, IdleTyped DEF up, Live
  <2> QED BY <1>1, <1>2, <2>1, ContentSame, KeptSettled DEF Making
<1>4. CASE OpenPending
  <2>1. Wanted' = None
    BY <1>2, <1>4 DEF Wanted
  <2>2. Promise!Withdraw
    BY <1>1, <1>3, <2>1 DEF Promise!Withdraw
  <2> QED BY <2>2 DEF Promise!Next
<1>5. CASE CopyPending
  <2>1. CASE pending' = backups[op.source].data /\ asked' = TRUE
    <3>1. op.step = "pending" /\ backups[op.source] # None
      BY <1>1, <1>5 DEF CopyPending, IInv, ShapeInv
    <3>2. Kept[op.source] = backups[op.source].data /\ Kept[op.source] # None
      BY <1>1, <3>1, KeptAt, CopyTyped, Others DEF IInv, Unfinished
    <3>3. ~OpenPending
      BY <3>1 DEF OpenPending
    <3>4. Wanted' = Kept[op.source]
      BY <1>2, <2>1, <3>2, <3>3 DEF Wanted
    <3>5. Promise!Ask(op.source)
      BY <1>1, <1>3, <3>2, <3>4 DEF Promise!Ask
    <3> QED BY <1>1, <3>5 DEF Promise!Next
  <2>2. CASE asked' = FALSE /\ op.step = "pending"
    <3>1. Wanted = None /\ Wanted' = None
      BY <2>2 DEF Wanted
    <3> QED BY <1>1, <1>3, <3>1, Stutters
  <2> QED BY <1>5, <2>1, <2>2 DEF CopyPending
<1>6. CASE WriteMeta
  <2>1. op.step = "meta" /\ UNCHANGED <<pending, asked>> /\ op'.step = "idle"
    BY <1>6, IdleTyped DEF WriteMeta, At, history
  <2> QED BY <1>1, <1>3, <2>1, WantedSame, Stutters
<1> QED BY <1>4, <1>5, <1>6

LEMMA CancelMaps ==
  ASSUME IInv, IInv', Cancel
  PROVE  [Promise!Next]_(Promise!vars)
<1>1. /\ op.step = "idle" /\ up /\ op'.step = "unmark" /\ up' /\ asked' = FALSE
      /\ op.kind # "import" /\ op'.kind # "import"
      /\ UNCHANGED <<main, wal, backups, writes, interrupted>>
  BY IdleTyped DEF Cancel, Operation, up
<1>2. Wanted' = None
  BY <1>1 DEF Wanted
<1>3. Live' = Live
  BY <1>1 DEF Live
<1>4. Promise!Withdraw
  BY <1>1, <1>2, <1>3, ContentSame, KeptSettled DEF Promise!Withdraw, Making
<1> QED BY <1>4 DEF Promise!Next

\* The process may end in the middle of a backup, whose file appears, of the copy of
\* the file to restore, which is damaged, or of a start, which changes nothing.
LEMMA StopMaps ==
  ASSUME IInv, IInv', PassedInv, Stop
  PROVE  [Promise!Next]_(Promise!vars)
<1>1. /\ op'.step = "look" /\ ~up' /\ op'.kind # "import"
      /\ interrupted' = IF op.step \in Making THEN interrupted \cup {op.file} ELSE interrupted
      /\ asked' = (asked \/ op.step = "pending")
      /\ UNCHANGED <<main, wal, backups, pending, writes>>
  BY IdleTyped DEF Stop, up, Making
<1>2. Content' = Content
  BY <1>1 DEF Content, Live
<1>3. CASE op.step \in Making
  <2>1. up /\ op.file \in Files /\ backups[op.file] # None
    BY <1>3, IdleTyped DEF IInv, ShapeInv, Filing, StartSteps, Making, up
  <2>2. /\ Kept' = [Kept EXCEPT ![op.file] = backups'[op.file].data]
        /\ backups'[op.file].data \in Contents
    BY <1>1, <1>3, <2>1, FileAppears, CopyTyped DEF Making, IInv
  <2>3. Wanted' = Wanted
    <3>1. asked' = asked
      BY <1>1, <1>3 DEF Making, IInv, TypeOK
    <3> QED BY <1>1, <1>3, <3>1, WantedSame DEF Making
  <2>4. Promise!LeftBehind(op.file)
    BY <1>1, <1>3, <2>1, <2>2, FileIsFresh DEF Promise!LeftBehind
  <2>5. Promise!End
    BY <1>1, <1>2, <2>1, <2>3, <2>4 DEF Promise!End
  <2> QED BY <2>5 DEF Promise!Next
<1>4. CASE op.step = "pending"
  <2>1. up /\ pending = Torn
    BY <1>4 DEF IInv, ShapeInv, StartSteps, PassedInv, up
  <2>2. Wanted' = Torn
    BY <1>1, <1>4, <2>1 DEF Wanted
  <2>3. Kept' = Kept
    BY <1>1, <1>4, KeptSettled DEF Making
  <2>4. Promise!End
    BY <1>1, <1>2, <1>4, <2>1, <2>2, <2>3 DEF Promise!End, Making
  <2> QED BY <2>4 DEF Promise!Next
<1>5. CASE op.step \notin Making \cup {"pending"}
  <2>1. Kept' = Kept
    BY <1>1, <1>5, KeptSettled DEF Making
  <2>2. Wanted' = Wanted
    <3>1. asked' = asked
      BY <1>1, <1>5 DEF IInv, TypeOK
    <3> QED BY <1>1, <1>5, <3>1, WantedSame DEF Making
  <2>3. Promise!End
    BY <1>1, <1>2, <1>5, <2>1, <2>2 DEF Promise!End
  <2> QED BY <2>3 DEF Promise!Next
<1> QED BY <1>3, <1>4, <1>5

\* The steps of a start, and the last one of a cancellation.
LEMMA StartMaps ==
  ASSUME IInv, IInv', PassedInv,
         LookForPending \/ OpenMain \/ CopyToMain \/ Consume \/ RemoveMeta \/ Open
  PROVE  [Promise!Next]_(Promise!vars)
<1>1. /\ UNCHANGED <<backups, writes, interrupted>>
      /\ op.step \in StartSteps \cup {"unmark"}
      /\ op.step # "unmark" => ~up
      /\ op.kind # "import"
  BY DEF LookForPending, OpenMain, CopyToMain, Consume, RemoveMeta, Open, IInv, ShapeInv, StartSteps,
         PassedInv, up, history
<1>2. ASSUME NEW step \in StartSteps \cup {"unmark"}, op' = [op EXCEPT !.step = step]
      PROVE  op'.step = step /\ up' = up /\ Kept' = Kept /\ op'.kind # "import"
  <2>1. op'.step = step /\ op'.kind = op.kind
    BY <1>2, StepTyped DEF IInv, Steps, StartSteps
  <2> QED BY <1>1, <2>1, KeptSettled DEF up, Making, StartSteps
<1>3. CASE LookForPending
  <2>1. PICK step \in {"open", "swap"} : op' = [op EXCEPT !.step = step]
    BY <1>3 DEF LookForPending, GoTo
  <2>2. op'.step = step /\ up' = up /\ Kept' = Kept /\ op'.kind # "import"
    BY <1>2, <2>1 DEF StartSteps
  <2>3. Content' = Content /\ Wanted' = Wanted
    BY <1>3, <2>1, <2>2, WantedSame DEF LookForPending, history, Content, Live
  <2> QED BY <1>1, <2>2, <2>3, Stutters
<1>4. CASE OpenMain
  <2>1. /\ op.step = "swap" /\ pending # None /\ asked
        /\ main' = Torn /\ UNCHANGED <<pending, asked>>
    BY <1>4 DEF OpenMain, history, IInv, SwapInv, SwapSteps
  <2>2. op'.step = "swapping" /\ up' = up /\ Kept' = Kept /\ op'.kind # "import"
    BY <1>2, <1>4 DEF OpenMain, GoTo, StartSteps
  <2>3. Wanted = pending /\ Wanted' = pending /\ Content' = pending
    BY <2>1, <2>2 DEF Wanted, Content
  <2>4. Promise!Restore
    BY <1>1, <2>1, <2>2, <2>3 DEF Promise!Restore
  <2> QED BY <2>4 DEF Promise!Next
<1>5. CASE CopyToMain
  <2>1. /\ op.step = "swapping" /\ main = Torn /\ wal = None /\ pending # None
        /\ main' = pending /\ UNCHANGED <<wal, pending, asked>>
    BY <1>5 DEF CopyToMain, history, IInv, SwapInv, SwapSteps, PassedInv
  <2>2. op'.step = "swapped" /\ up' = up /\ Kept' = Kept /\ op'.kind # "import"
    BY <1>2, <1>5 DEF CopyToMain, GoTo, StartSteps
  <2>3. Content' = Content /\ Wanted' = Wanted
    BY <2>1, <2>2, WantedSame DEF Content, Live
  <2> QED BY <1>1, <2>2, <2>3, Stutters
<1>6. CASE Consume
  <2>1. /\ op.step = "swapped" /\ main = pending /\ wal = None /\ pending # None /\ asked
        /\ pending' = None /\ UNCHANGED <<main, wal>>
    BY <1>6 DEF Consume, IInv, SwapInv, SwapSteps, PassedInv
  <2>2. op'.step = "unmark" /\ up' = up /\ Kept' = Kept /\ op'.kind # "import"
    BY <1>2, <1>6 DEF Consume, GoTo, StartSteps
  <2>3. /\ Content = pending /\ Content' = pending
        /\ Wanted = pending /\ Wanted' = None
    BY <2>1 DEF Content, Live, Wanted
  <2>4. Promise!Restored
    BY <1>1, <2>1, <2>2, <2>3 DEF Promise!Restored
  <2> QED BY <2>4 DEF Promise!Next
<1>7. CASE RemoveMeta
  <2>1. op.step = "unmark" /\ UNCHANGED <<main, wal, pending, asked>>
    BY <1>7 DEF RemoveMeta, history
  <2>2. up' = up /\ op'.step \in {"idle", "open"} /\ Kept' = Kept /\ op'.kind # "import"
    <3>1. CASE up
      BY <1>1, <1>7, <2>1, <3>1, IdleTyped, KeptSettled DEF RemoveMeta, up, Making
    <3>2. CASE ~up
      BY <1>2, <1>7, <3>2 DEF RemoveMeta, StartSteps
    <3> QED BY <3>1, <3>2
  <2>3. Content' = Content /\ Wanted' = Wanted
    BY <2>1, <2>2, WantedSame DEF Content, Live
  <2> QED BY <1>1, <2>2, <2>3, Stutters
<1>8. CASE Open
  <2>1. /\ op.step = "open" /\ op' = Idle /\ main # Torn /\ ~up /\ pending = None
        /\ UNCHANGED <<main, wal, pending, asked>>
    BY <1>1, <1>8 DEF Open, history, PassedInv, up
  <2>2. up' /\ Kept' = Kept /\ op'.kind # "import"
    BY <1>1, <2>1, IdleTyped, KeptSettled DEF up, Making
  <2>3. /\ Content = Live /\ Content' = Live /\ Live # Torn
        /\ Wanted = None /\ Wanted' = None
    BY <2>1, Others DEF Content, Live, Wanted, IInv, TypeOK
  <2>4. Promise!ComeUp
    BY <1>1, <2>1, <2>2, <2>3 DEF Promise!ComeUp
  <2> QED BY <2>4 DEF Promise!Next
<1> QED BY <1>3, <1>4, <1>5, <1>6, <1>7, <1>8

LEMMA AutoCheckpointMaps ==
  ASSUME IInv, IInv', AutoCheckpoint
  PROVE  [Promise!Next]_(Promise!vars)
<1>1. /\ up /\ main' = wal /\ wal' = None /\ wal # None
      /\ UNCHANGED <<op, backups, pending, asked, writes, interrupted>>
  BY DEF AutoCheckpoint, history
<1>2. up' /\ Live' = Live /\ Kept' = Kept /\ Wanted' = Wanted
  BY <1>1 DEF up, Live, Kept, Unfinished, Wanted
<1> QED BY <1>1, <1>2, ContentSame, Stutters

\* Whatever fails or is cut off, the owner sees backups that were made at once, pruning
\* that leaves a newer backup that is whole, and a restore, at a start, of the file that
\* was asked for and not withdrawn.
THEOREM PromiseKept == Spec => KeepsPromise
<1>1. Init => Promise!Init
  <2> SUFFICES ASSUME Init PROVE Promise!Init
    OBVIOUS
  <2>1. up /\ Content = 0 /\ Wanted = None /\ op.kind # "import"
    BY IdleTyped, Others, ContentsAssumption DEF Init, up, Content, Live, Wanted
  <2>2. Kept = [f \in Files |-> None]
    BY DEF Init, Kept
  <2> QED BY <2>1, <2>2 DEF Init, Promise!Init
<1>2. IInv /\ IInv' /\ PassedInv /\ [Next]_vars => [Promise!Next]_(Promise!vars)
  <2> SUFFICES ASSUME IInv, IInv', PassedInv, [Next]_vars PROVE [Promise!Next]_(Promise!vars)
    OBVIOUS
  <2>1. CASE Write \/ AutoCheckpoint
    BY <2>1, WriteMaps, AutoCheckpointMaps
  <2>2. CASE BeginBackup \/ BeginImport \/ CopyDatabase \/ Redact
    BY <2>2, BeginMaps, CopyDatabaseMaps, RedactMaps
  <2>3. CASE WriteImport \/ CheckImport
    BY <2>3, WriteImportMaps, CheckImportMaps
  <2>4. CASE Prune \/ DeleteOldRows \/ TrimBackups
    BY <2>4, PruneMaps, DeleteOldRowsMaps, TrimMaps
  <2>5. CASE OpenPending \/ CopyPending \/ WriteMeta
    BY <2>5, PendingMaps
  <2>6. CASE Cancel \/ Stop
    BY <2>6, CancelMaps, StopMaps
  <2>7. CASE LookForPending \/ OpenMain \/ CopyToMain \/ Consume \/ RemoveMeta \/ Open
    BY <2>7, StartMaps
  <2>8. CASE UNCHANGED vars
    BY <2>8, Stutters DEF vars, up, Content, Live, Kept, Unfinished, Wanted
  <2> QED BY <2>1, <2>2, <2>3, <2>4, <2>5, <2>6, <2>7, <2>8 DEF Next
<1> QED BY <1>1, <1>2, InitInv, StepInv, InitPassed, StepPassed, PTL
       DEF Spec, KeepsPromise, Promise!Spec
=============================================================================
