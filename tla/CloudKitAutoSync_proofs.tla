----------------------- MODULE CloudKitAutoSync_proofs -----------------------
(***************************************************************************)
(* Proofs about the schedule of synchronisation, for any intervals and     *)
(* delays and any number of cycles and uploads by hand.                    *)
(***************************************************************************)
EXTENDS CloudKitAutoSync, TLAPS

\* What an export says of the records as they are now: a record whose last change
\* was made before it is in its batch with that change or not at all.
Sound(export) ==
  /\ export.upTo <= local
  /\ \A r \in Records : changed[r] <= export.upTo => export.holds[r] \in {0, changed[r]}
  /\ \A r \in Records : export.holds[r] <= local

ExportInv ==
  /\ Sound(auto.export)
  /\ \A q \in Requests : Sound(request[q].export)

\* A run that started after a change was queued read that it was, and an export
\* in progress was taken after every change noted while nothing ran.
QuietInv ==
  /\ \A r \in Records : Waiting(r) => schedule.pending # None
  /\ auto.phase # "idle" => \A r \in Records : Waiting(r) => auto.read.pending # None
  /\ auto.phase = "uploading" => \A c \in quiet : c <= auto.export.upTo
  /\ \A q \in Requests :
       request[q].phase = "uploading" => \A c \in quiet : c <= request[q].export.upTo

IInv == TypeOK /\ ExportInv /\ QuietInv

-----------------------------------------------------------------------------
(* Exports *)

\* No record waits and no export changes its meaning when no data does.
LEMMA Untouched ==
  ASSUME UNCHANGED <<data, history>>
  PROVE  /\ UNCHANGED <<local, made, changed, uploaded, passed, quiet>>
         /\ \A r \in Records : Waiting(r)' <=> Waiting(r)
         /\ \A e \in Export : Sound(e)' <=> Sound(e)
BY DEF data, history, Waiting, Sound

LEMMA NoExportSound ==
  ASSUME TypeOK
  PROVE  NoExport \in Export /\ Sound(NoExport)
BY BoundsAssumption DEF TypeOK, NoExport, Export, Changes, Sound

LEMMA ExportedSound ==
  ASSUME TypeOK, NEW limit
  PROVE  /\ Exported(limit) \in Export
         /\ Sound(Exported(limit))
         /\ Exported(limit).upTo = local
<1> DEFINE holds == [r \in Records |-> IF r \in Batch(limit) THEN changed[r] ELSE 0]
<1>1. /\ local \in Nat /\ local <= MaxChanges /\ MaxChanges \in Nat
      /\ \A r \in Records : changed[r] \in Nat /\ changed[r] <= local
  BY BoundsAssumption DEF TypeOK
<1>2. \A r \in Records : holds[r] \in {0, changed[r]} /\ holds[r] \in Nat /\ holds[r] <= local
  BY <1>1
<1>3. holds \in [Records -> Changes]
  BY <1>1 DEF Changes
<1>4. Exported(limit) = [upTo |-> local, holds |-> holds]
  BY DEF Exported
<1> HIDE DEF holds
<1> QED BY <1>1, <1>2, <1>3, <1>4 DEF Export, Sound, Changes

\* After an upload that was taken after every change noted while nothing ran, no
\* record waits: its last change is in iCloud, or there was no room for it.
LEMMA UploadServes ==
  ASSUME TypeOK, NEW export \in Export, Sound(export), Upload(export), UNCHANGED data,
         \A c \in quiet : c <= export.upTo
  PROVE  /\ uploaded' \in [Records -> 0 .. local] /\ passed' \subseteq Records
         /\ quiet' = quiet
         /\ \A r \in Records : ~ Waiting(r)'
<1>1. /\ \A r \in Records : /\ uploaded[r] \in Nat /\ uploaded[r] <= local
                             /\ changed[r] \in Nat
                             /\ export.holds[r] \in Nat /\ export.holds[r] <= local
      /\ local \in Nat /\ export.upTo \in Nat
  BY DEF TypeOK, Export, Changes, Sound
<1>2. /\ uploaded' = [r \in Records |-> Later(uploaded[r], export.holds[r])]
      /\ passed' = {r \in Records : IF changed[r] <= export.upTo
                                    THEN export.holds[r] < changed[r]
                                    ELSE r \in passed}
      /\ quiet' = quiet
  BY DEF Upload
<1>3. \A r \in Records : /\ uploaded'[r] \in Nat /\ uploaded'[r] <= local
                         /\ export.holds[r] <= uploaded'[r]
  BY <1>1, <1>2 DEF Later
<1>4. uploaded' \in [Records -> 0 .. local]
  BY <1>1, <1>2 DEF Later
<1>5. ASSUME NEW r \in Records, changed[r] \in quiet, changed[r] > uploaded'[r]
      PROVE  r \in passed'
  <2>1. changed[r] <= export.upTo
    BY <1>5
  <2>2. export.holds[r] < changed[r]
    BY <1>1, <1>3, <1>5
  <2> QED BY <1>2, <2>1, <2>2
<1> QED BY <1>2, <1>4, <1>5 DEF Waiting, data

-----------------------------------------------------------------------------
(* Time stamps *)

LEMMA Timers ==
  ASSUME NEW interval \in Intervals, NEW lastRun \in 0 .. Longest \cup {None},
         NEW started \in 0 .. Longest
  PROVE  /\ NextRun(interval, lastRun) \in 0 .. Longest
         /\ Left(Delay - started) \in 0 .. Longest
         /\ Left(Retry - started) \in 0 .. Longest
BY TimesAssumption, BoundsAssumption DEF NextRun, Left, Intervals

LEMMA Sooner ==
  ASSUME NEW d \in 0 .. Longest, NEW e \in 0 .. Longest
  PROVE  Earlier(d, e) \in 0 .. Longest
BY TimesAssumption DEF Earlier

\* What a run keeps of a schedule, and what it writes back.
LEMMA KeptTyped ==
  ASSUME NEW s \in Schedule
  PROVE  Kept(s) \in Read /\ Kept(s).pending = s.pending
BY DEF Kept, Read, Schedule

LEMMA WrittenTyped ==
  ASSUME NEW read \in Read, NEW started \in 0 .. Longest, NEW outcome
  PROVE  /\ WrittenBack(read, started, outcome) \in Schedule
         /\ WrittenBack(read, started, outcome).enabled
              => WrittenBack(read, started, outcome).nextRun # None
         /\ outcome # "ok" => WrittenBack(read, started, outcome).pending = read.pending
<1>1. /\ read.enabled \in BOOLEAN /\ read.interval \in Intervals
      /\ read.pending \in 0 .. Delay \cup {None}
  BY DEF Read
<1>2. /\ NextRun(read.interval, started) \in 0 .. Longest
      /\ Left(Delay - started) \in 0 .. Longest /\ Left(Retry - started) \in 0 .. Longest
  BY <1>1, Timers
<1>3. /\ NextAfter(read, started, outcome) \in 0 .. Longest \cup {None}
      /\ read.enabled => NextAfter(read, started, outcome) \in 0 .. Longest
  BY <1>1, <1>2, Sooner DEF NextAfter
<1>4. None \notin 0 .. Longest
  BY BoundsAssumption
<1>5. /\ PendingAfter(read, outcome) \in 0 .. Delay \cup {None}
      /\ outcome # "ok" => PendingAfter(read, outcome) = read.pending
  BY <1>1 DEF PendingAfter
<1> QED BY <1>1, <1>3, <1>4, <1>5, TimesAssumption DEF WrittenBack, Schedule

LEMMA UpdatedTyped ==
  ASSUME TypeOK, NEW enabled \in BOOLEAN, NEW interval \in Intervals
  PROVE  /\ Updated(enabled, interval) \in Schedule
         /\ Updated(enabled, interval).enabled => Updated(enabled, interval).nextRun # None
         /\ Updated(enabled, interval).pending = schedule.pending
<1>1. /\ schedule \in Schedule
      /\ schedule.lastRun \in 0 .. Longest \cup {None}
      /\ schedule.pending \in 0 .. Delay \cup {None}
  BY DEF TypeOK, Schedule
<1>2. NextRun(interval, schedule.lastRun) \in 0 .. Longest
  BY <1>1, TimesAssumption, BoundsAssumption DEF NextRun, Left, Intervals
<1>3. schedule.pending # None => schedule.pending \in 0 .. Longest
  BY <1>1, TimesAssumption
<1>4. Prefer(NextRun(interval, schedule.lastRun), schedule.pending) \in 0 .. Longest
  BY <1>2, <1>3, Sooner DEF Prefer
<1>5. None \notin 0 .. Longest
  BY BoundsAssumption
<1> DEFINE next == IF enabled THEN Prefer(NextRun(interval, schedule.lastRun), schedule.pending)
                  ELSE None
<1>6. Updated(enabled, interval)
        = [schedule EXCEPT !.enabled = enabled, !.interval = interval, !.nextRun = next]
  BY DEF Updated
<1>7. next \in 0 .. Longest \cup {None} /\ (enabled => next # None)
  BY <1>4, <1>5
<1> HIDE DEF next
<1> QED BY <1>1, <1>6, <1>7 DEF Schedule

LEMMA ClearedTyped ==
  ASSUME TypeOK
  PROVE  /\ Cleared \in Schedule
         /\ Cleared.enabled => Cleared.nextRun # None
<1>1. /\ schedule \in Schedule
      /\ schedule.interval \in Intervals
      /\ schedule.lastRun \in 0 .. Longest \cup {None}
      /\ schedule.enabled => schedule.nextRun # None
  BY DEF TypeOK, Schedule
<1>2. NextRun(schedule.interval, schedule.lastRun) \in 0 .. Longest
  BY <1>1, TimesAssumption, BoundsAssumption DEF NextRun, Left, Intervals
<1>3. None \notin 0 .. Longest
  BY BoundsAssumption
<1>4. CASE schedule.pending = None
  BY <1>1, <1>4 DEF Cleared
<1>5. CASE schedule.pending # None
  <2> DEFINE next == IF schedule.enabled THEN NextRun(schedule.interval, schedule.lastRun)
                    ELSE schedule.nextRun
  <2>1. Cleared = [schedule EXCEPT !.pending = None, !.nextRun = next]
    BY <1>1, <1>5 DEF Cleared, Schedule
  <2>2. next \in 0 .. Longest \cup {None} /\ (schedule.enabled => next # None)
    BY <1>1, <1>2, <1>3 DEF Schedule
  <2> HIDE DEF next
  <2> QED BY <1>1, <2>1, <2>2 DEF Schedule
<1> QED BY <1>4, <1>5

-----------------------------------------------------------------------------
(* The invariant *)

LEMMA InitInv == Init => IInv
<1> SUFFICES ASSUME Init PROVE IInv
  OBVIOUS
<1>1. schedule \in Schedule /\ ~schedule.enabled
  BY TimesAssumption DEF Init, Schedule, Intervals
<1>2. auto \in AutoRun /\ auto.phase = "idle" /\ auto.export = NoExport
  BY TimesAssumption, BoundsAssumption
     DEF Init, IdleAuto, AutoRun, Phases, Read, Intervals, NoExport, Export, Changes
<1>3. /\ request \in [Requests -> Request]
      /\ \A q \in Requests : request[q].phase = "idle" /\ request[q].export = NoExport
  BY BoundsAssumption DEF Init, IdleRequest, Request, Phases, NoExport, Export, Changes
<1>4. /\ nudged \in BOOLEAN /\ starting \in BOOLEAN
      /\ local = 0 /\ passed = {} /\ quiet = {} /\ MaxChanges \in Nat
      /\ made = [r \in Records |-> 0] /\ changed = made /\ uploaded = made
  BY BoundsAssumption DEF Init
<1>5. TypeOK
  BY <1>1, <1>2, <1>3, <1>4 DEF TypeOK
<1>6. ExportInv
  BY <1>2, <1>3, <1>5, NoExportSound DEF ExportInv
<1>7. QuietInv
  BY <1>2, <1>3, <1>4 DEF QuietInv, Waiting
<1> QED BY <1>5, <1>6, <1>7 DEF IInv

\* What the invariant says of the parts that most steps leave alone.
LEMMA Parts ==
  ASSUME IInv
  PROVE  /\ schedule \in Schedule /\ schedule.enabled \in BOOLEAN
         /\ schedule.interval \in Intervals
         /\ schedule.pending \in 0 .. Delay \cup {None}
         /\ schedule.enabled => schedule.nextRun \in 0 .. Longest
         /\ auto \in AutoRun /\ auto.phase \in Phases /\ auto.read \in Read
         /\ auto.started \in 0 .. Longest /\ auto.export \in Export
         /\ \A q \in Requests : request[q].phase \in Phases /\ request[q].export \in Export
         /\ local \in Nat
         /\ \A c \in quiet : c \in Nat /\ c <= local
<1>1. /\ schedule \in Schedule /\ (schedule.enabled => schedule.nextRun # None)
      /\ auto \in AutoRun /\ request \in [Requests -> Request]
      /\ local \in 0 .. MaxChanges /\ quiet \subseteq 1 .. local
  BY DEF IInv, TypeOK
<1>2. /\ schedule.enabled \in BOOLEAN /\ schedule.interval \in Intervals
      /\ schedule.pending \in 0 .. Delay \cup {None}
      /\ schedule.nextRun \in 0 .. Longest \cup {None}
  BY <1>1 DEF Schedule
<1>3. /\ auto.phase \in Phases /\ auto.read \in Read
      /\ auto.started \in 0 .. Longest /\ auto.export \in Export
  BY <1>1 DEF AutoRun
<1>4. \A q \in Requests : request[q].phase \in Phases /\ request[q].export \in Export
  BY <1>1 DEF Request
<1> QED BY <1>1, <1>2, <1>3, <1>4, BoundsAssumption

\* A step that leaves alone what waits, the runs and their exports.
LEMMA UnmovedKeeps ==
  ASSUME IInv, UNCHANGED <<auto, request, data, history>>,
         schedule' \in Schedule, schedule'.enabled => schedule'.nextRun # None,
         schedule'.pending = schedule.pending,
         nudged' \in BOOLEAN, starting' \in BOOLEAN
  PROVE  IInv'
<1>1. /\ UNCHANGED <<local, made, changed, uploaded, passed, quiet>>
      /\ \A r \in Records : Waiting(r)' <=> Waiting(r)
      /\ \A e \in Export : Sound(e)' <=> Sound(e)
  BY Untouched
<1>2. TypeOK'
  BY <1>1 DEF IInv, TypeOK
<1>3. ExportInv'
  BY <1>1 DEF IInv, ExportInv, Sound
<1>4. QuietInv'
  BY <1>1 DEF IInv, QuietInv
<1> QED BY <1>2, <1>3, <1>4 DEF IInv

\* A run starts, does nothing, or finds CloudKit not ready: what waits for it
\* still does.
LEMMA RunNowKeeps ==
  ASSUME IInv, NEW s \in Schedule, s.enabled => s.nextRun # None,
         s.pending = schedule.pending, NEW ready \in BOOLEAN,
         RunNow(s, ready), UNCHANGED <<request, data, history>>,
         nudged' \in BOOLEAN, starting' \in BOOLEAN
  PROVE  IInv'
<1>0. /\ NoExport \in Export /\ Sound(NoExport)
      /\ UNCHANGED <<local, made, changed, uploaded, passed, quiet>>
      /\ \A r \in Records : Waiting(r)' <=> Waiting(r)
      /\ \A e \in Export : Sound(e)' <=> Sound(e)
  BY NoExportSound, Untouched DEF IInv
<1>1. Kept(s) \in Read /\ Kept(s).pending = s.pending
  BY KeptTyped
<1>2. /\ schedule' \in Schedule /\ (schedule'.enabled => schedule'.nextRun # None)
      /\ schedule'.pending = schedule.pending
  <2>1. CASE schedule' = s
    BY <2>1
  <2>2. CASE schedule' = WrittenBack(Kept(s), 0, "unready")
    <3>1. 0 \in 0 .. Longest
      BY TimesAssumption
    <3> QED BY <1>1, <2>2, <3>1, WrittenTyped
  <2> QED BY <2>1, <2>2 DEF RunNow
<1>3. \/ auto' = auto
      \/ /\ auto' \in AutoRun /\ auto'.phase = "pulling"
         /\ auto'.read.pending = schedule.pending /\ auto'.export = NoExport
  <2>1. CASE auto' = auto
    BY <2>1
  <2>2. CASE auto' = [IdleAuto EXCEPT !.phase = "pulling", !.read = Kept(s)]
    <3>1. auto' = [phase |-> "pulling", started |-> 0, export |-> NoExport, read |-> Kept(s)]
      BY <2>2 DEF IdleAuto
    <3> QED BY <1>1, <3>1, <1>0, TimesAssumption, BoundsAssumption DEF AutoRun, Phases
  <2> QED BY <2>1, <2>2 DEF RunNow
<1>4. TypeOK'
  BY <1>0, <1>2, <1>3 DEF IInv, TypeOK
<1>5. ExportInv'
  <2>1. \A e : e \in {auto.export, NoExport} => Sound(e)'
    BY <1>0, Parts DEF IInv, ExportInv
  <2>2. \A q \in Requests : Sound(request[q].export)'
    BY <1>0, Parts DEF IInv, ExportInv, Sound
  <2>3. Sound(auto.export)'
    BY <1>3, <2>1 DEF Sound
  <2> QED BY <2>2, <2>3 DEF ExportInv
<1>6. QuietInv'
  BY <1>0, <1>2, <1>3 DEF IInv, QuietInv
<1> QED BY <1>4, <1>5, <1>6 DEF IInv

LEMMA PollStep ==
  ASSUME IInv, NEW ready \in BOOLEAN, Poll(ready) \/ Startup(ready) \/ RunNudged(ready)
  PROVE  IInv'
<1>1. PICK s : s = schedule
  OBVIOUS
<1>2. s \in Schedule /\ (s.enabled => s.nextRun # None) /\ s.pending = schedule.pending
  BY <1>1 DEF IInv, TypeOK
<1>3. nudged \in BOOLEAN /\ starting \in BOOLEAN
  BY DEF IInv, TypeOK
<1>4. CASE Poll(ready)
  BY <1>1, <1>2, <1>3, <1>4, RunNowKeeps DEF Poll, RunNow
<1>5. CASE Startup(ready)
  <2>1. UNCHANGED <<request, nudged, data, history>> /\ starting' = FALSE
    BY <1>5 DEF Startup
  <2>2. CASE schedule.enabled
    BY <1>1, <1>2, <1>3, <1>5, <2>1, <2>2, RunNowKeeps DEF Startup, RunNow
  <2>3. CASE ~schedule.enabled
    <3>1. /\ UNCHANGED <<schedule, auto, request, data, history>>
          /\ schedule' \in Schedule /\ (schedule'.enabled => schedule'.nextRun # None)
          /\ nudged' \in BOOLEAN /\ starting' \in BOOLEAN
      BY <1>1, <1>2, <1>3, <1>5, <2>1, <2>3 DEF Startup
    <3> QED BY <3>1, UnmovedKeeps
  <2> QED BY <2>2, <2>3
<1>6. CASE RunNudged(ready)
  BY <1>1, <1>2, <1>3, <1>6, RunNowKeeps DEF RunNudged, RunNow
<1> QED BY <1>4, <1>5, <1>6

LEMMA OwnerRunsStep ==
  ASSUME IInv, NEW ready \in BOOLEAN, OwnerRuns(ready)
  PROVE  IInv'
<1>0. UNCHANGED <<request, nudged, starting, data, history>>
  BY DEF OwnerRuns
<1>1. nudged' \in BOOLEAN /\ starting' \in BOOLEAN
  BY <1>0 DEF IInv, TypeOK
<1>2. CASE RunNow(schedule, ready)
  <2>1. PICK s : s = schedule
    OBVIOUS
  <2>2. s \in Schedule /\ (s.enabled => s.nextRun # None) /\ s.pending = schedule.pending
    BY <2>1 DEF IInv, TypeOK
  <2>3. RunNow(s, ready)
    BY <1>2, <2>1 DEF RunNow
  <2> QED BY <1>0, <1>1, <2>2, <2>3, RunNowKeeps
<1>3. CASE RunNow(Updated(TRUE, Shortest), ready)
  <2>1. PICK s : s = Updated(TRUE, Shortest)
    OBVIOUS
  <2>2. Shortest \in Intervals /\ TypeOK
    BY TimesAssumption DEF Intervals, IInv
  <2>3. s \in Schedule /\ (s.enabled => s.nextRun # None) /\ s.pending = schedule.pending
    BY <2>1, <2>2, UpdatedTyped
  <2>4. RunNow(s, ready)
    BY <1>3, <2>1 DEF RunNow
  <2> QED BY <1>0, <1>1, <2>3, <2>4, RunNowKeeps
<1> QED BY <1>2, <1>3 DEF OwnerRuns

LEMMA OwnerUpdatesStep ==
  ASSUME IInv, NEW enabled \in BOOLEAN, NEW interval \in Intervals,
         OwnerUpdates(enabled, interval)
  PROVE  IInv'
<1>1. /\ schedule' \in Schedule /\ (schedule'.enabled => schedule'.nextRun # None)
      /\ schedule'.pending = schedule.pending
  BY UpdatedTyped DEF OwnerUpdates, IInv
<1>2. UNCHANGED <<auto, request, nudged, starting, data, history>>
  BY DEF OwnerUpdates
<1>3. nudged' \in BOOLEAN /\ starting' \in BOOLEAN
  BY <1>2 DEF IInv, TypeOK
<1> QED BY <1>1, <1>2, <1>3, UnmovedKeeps

LEMMA LocalChangeStep ==
  ASSUME IInv, NEW r \in Records, LocalChange(r)
  PROVE  IInv'
<1>0. /\ UNCHANGED <<auto, request, nudged, starting, uploaded>>
      /\ local < MaxChanges /\ local' = local + 1
      /\ changed' = [changed EXCEPT ![r] = local']
      /\ made' = [made EXCEPT ![r] = IF made[r] = 0 THEN local' ELSE @]
      /\ passed' = passed \ {r}
      /\ quiet' = IF NothingRuns THEN quiet \cup {local'} ELSE quiet
  BY DEF LocalChange
<1> DEFINE next == IF schedule.enabled THEN Earlier(schedule.nextRun, Delay) ELSE schedule.nextRun
<1>1. schedule' = [schedule EXCEPT !.pending = Delay, !.nextRun = next]
  BY DEF LocalChange
<1>2. Delay \in 0 .. Longest /\ Delay \in 0 .. Delay /\ None \notin 0 .. Longest /\ Delay # None
  BY TimesAssumption, BoundsAssumption
<1>3. next \in 0 .. Longest \cup {None} /\ (schedule.enabled => next # None)
  <2>1. CASE schedule.enabled
    BY <1>2, <2>1, Parts DEF Earlier
  <2>2. CASE ~schedule.enabled
    BY <2>2, Parts DEF Schedule
  <2> QED BY <2>1, <2>2
<1> HIDE DEF next
<1>4. /\ schedule' \in Schedule /\ (schedule'.enabled => schedule'.nextRun # None)
      /\ schedule'.pending # None
  BY <1>1, <1>2, <1>3, Parts DEF Schedule
<1>5. /\ local \in Nat /\ local' \in Nat /\ local' <= MaxChanges /\ MaxChanges \in Nat
      /\ local < local'
  BY <1>0, BoundsAssumption, Parts
<1>6. quiet' \subseteq 1 .. local' /\ quiet \subseteq 1 .. local
  BY <1>0, <1>5 DEF IInv, TypeOK
<1>7. /\ made' \in [Records -> 0 .. local'] /\ changed' \in [Records -> 0 .. local']
      /\ uploaded' \in [Records -> 0 .. local'] /\ passed' \subseteq Records
  BY <1>0, <1>5 DEF IInv, TypeOK
<1>8. TypeOK'
  BY <1>0, <1>4, <1>5, <1>6, <1>7 DEF IInv, TypeOK
<1>9. /\ \A s \in Records : s # r => changed'[s] = changed[s]
      /\ changed'[r] = local'
  BY <1>0 DEF IInv, TypeOK
<1>10. ASSUME NEW e \in Export, Sound(e) PROVE Sound(e)'
  <2>1. /\ e.upTo \in Nat /\ e.upTo <= local
        /\ \A s \in Records : e.holds[s] \in Nat /\ e.holds[s] <= local
    BY <1>10 DEF Export, Changes, Sound
  <2>2. \A s \in Records : changed'[s] <= e.upTo => e.holds[s] \in {0, changed'[s]}
    BY <1>5, <1>9, <1>10, <2>1 DEF Sound
  <2> QED BY <1>5, <2>1, <2>2 DEF Sound
<1>11. ExportInv'
  BY <1>0, <1>10, Parts DEF IInv, ExportInv, Sound
<1>12. \A s \in Records : s # r /\ Waiting(s)' => Waiting(s)
  <2> SUFFICES ASSUME NEW s \in Records, s # r, Waiting(s)' PROVE Waiting(s)
    OBVIOUS
  <2>1. changed'[s] = changed[s] /\ changed[s] \in Nat /\ changed[s] <= local
    BY <1>9 DEF IInv, TypeOK
  <2> QED BY <1>0, <1>5, <2>1 DEF Waiting
<1>13. QuietInv'
  <2>1. CASE NothingRuns
    BY <1>0, <1>4, <2>1 DEF QuietInv, NothingRuns
  <2>2. CASE ~NothingRuns
    <3>1. quiet' = quiet
      BY <1>0, <2>2
    <3>2. ~ Waiting(r)'
      BY <1>5, <1>6, <1>9, <3>1 DEF Waiting
    <3>3. \A s \in Records : Waiting(s)' => Waiting(s)
      BY <1>12, <3>2
    <3> QED BY <1>0, <1>4, <3>1, <3>3 DEF IInv, QuietInv
  <2> QED BY <2>1, <2>2
<1> QED BY <1>8, <1>11, <1>13 DEF IInv

LEMMA NudgeStep == IInv /\ Nudge => IInv'
<1> SUFFICES ASSUME IInv, Nudge PROVE IInv'
  OBVIOUS
<1>1. /\ UNCHANGED <<schedule, auto, request, starting, data, history>> /\ nudged' = TRUE
      /\ schedule' \in Schedule /\ (schedule'.enabled => schedule'.nextRun # None)
      /\ schedule'.pending = schedule.pending /\ starting' \in BOOLEAN
  BY DEF Nudge, IInv, TypeOK
<1> QED BY <1>1, UnmovedKeeps

LEMMA AutoUploadsStep ==
  ASSUME IInv, AutoUploads
  PROVE  IInv'
<1>1. PICK e : e = Exported(RunLimit)
  OBVIOUS
<1>2. e \in Export /\ Sound(e) /\ e.upTo = local
  BY <1>1, ExportedSound DEF IInv
<1>3. auto' = [auto EXCEPT !.phase = "uploading", !.export = e] /\ auto.phase = "pulling"
  BY <1>1 DEF AutoUploads
<1>4. /\ auto' \in AutoRun /\ auto'.export = e /\ auto'.read = auto.read
      /\ auto'.phase = "uploading"
  BY <1>2, <1>3, Parts DEF AutoRun, Phases
<1>5. UNCHANGED <<schedule, request, nudged, starting, data, history>>
  BY DEF AutoUploads
<1>6. /\ UNCHANGED <<local, made, changed, uploaded, passed, quiet>>
      /\ \A r \in Records : Waiting(r)' <=> Waiting(r)
      /\ \A x \in Export : Sound(x)' <=> Sound(x)
  BY <1>5, Untouched
<1>7. TypeOK'
  BY <1>4, <1>5, <1>6 DEF IInv, TypeOK
<1>8. ExportInv'
  BY <1>2, <1>4, <1>5, <1>6 DEF IInv, ExportInv, Sound
<1>9. QuietInv'
  BY <1>2, <1>3, <1>4, <1>5, <1>6, Parts DEF IInv, QuietInv
<1> QED BY <1>7, <1>8, <1>9 DEF IInv

\* A run that ends becomes idle and writes back a schedule of its type.
LEMMA RunOver ==
  ASSUME IInv, NEW outcome,
         schedule' = WrittenBack(auto.read, auto.started, outcome), auto' = Freed(outcome)
  PROVE  /\ schedule' \in Schedule /\ (schedule'.enabled => schedule'.nextRun # None)
         /\ outcome # "ok" => schedule'.pending = auto.read.pending
         /\ auto' \in AutoRun /\ auto'.phase = "idle" /\ auto'.export = NoExport
<1>1. auto' \in AutoRun /\ auto'.phase = "idle" /\ auto'.export = NoExport
  BY TimesAssumption, BoundsAssumption
     DEF Freed, IdleAuto, AutoRun, Phases, Read, Intervals, NoExport, Export, Changes
<1>2. PICK read, started : read = auto.read /\ started = auto.started
  OBVIOUS
<1>3. read \in Read /\ started \in 0 .. Longest
  BY <1>2, Parts
<1>4. schedule' = WrittenBack(read, started, outcome)
  BY <1>2 DEF WrittenBack, NextAfter, PendingAfter, NextRun, Left, Earlier
<1> QED BY <1>1, <1>2, <1>3, <1>4, WrittenTyped

LEMMA AutoEndsStep ==
  ASSUME IInv, NEW outcome \in {"page", "retry", "wait"}, AutoEnds(outcome)
  PROVE  IInv'
<1>1. UNCHANGED <<request, nudged, starting, data, history>> /\ auto.phase # "idle"
  BY DEF AutoEnds
<1>2. /\ schedule' \in Schedule /\ (schedule'.enabled => schedule'.nextRun # None)
      /\ schedule'.pending = auto.read.pending
      /\ auto' \in AutoRun /\ auto'.phase = "idle" /\ auto'.export = NoExport
  BY RunOver DEF AutoEnds
<1>3. /\ UNCHANGED <<local, made, changed, uploaded, passed, quiet>>
      /\ \A r \in Records : Waiting(r)' <=> Waiting(r)
      /\ Sound(NoExport)
  BY <1>1, Untouched, NoExportSound DEF IInv
<1>4. TypeOK'
  BY <1>1, <1>2, <1>3 DEF IInv, TypeOK
<1>5. ExportInv'
  BY <1>1, <1>2, <1>3 DEF IInv, ExportInv, Sound
<1>6. QuietInv'
  BY <1>1, <1>2, <1>3 DEF IInv, QuietInv
<1> QED BY <1>4, <1>5, <1>6 DEF IInv

LEMMA AutoSucceedsStep ==
  ASSUME IInv, AutoSucceeds
  PROVE  IInv'
<1>1. /\ UNCHANGED <<request, nudged, starting, data>>
      /\ auto.phase = "uploading" /\ Upload(auto.export)
  BY DEF AutoSucceeds
<1>2. /\ schedule' \in Schedule /\ (schedule'.enabled => schedule'.nextRun # None)
      /\ auto' \in AutoRun /\ auto'.phase = "idle" /\ auto'.export = NoExport
  BY RunOver DEF AutoSucceeds
<1>3. PICK e : e = auto.export
  OBVIOUS
<1>4. /\ e \in Export /\ Sound(e) /\ Upload(e) /\ \A c \in quiet : c <= e.upTo
  BY <1>1, <1>3, Parts DEF IInv, ExportInv, QuietInv
<1>5. /\ uploaded' \in [Records -> 0 .. local] /\ passed' \subseteq Records
      /\ quiet' = quiet /\ \A r \in Records : ~ Waiting(r)'
  BY <1>1, <1>4, UploadServes DEF IInv
<1>6. UNCHANGED <<local, made, changed>> /\ Sound(NoExport)
  BY <1>1, NoExportSound DEF data, IInv
<1>7. TypeOK'
  BY <1>1, <1>2, <1>5, <1>6 DEF IInv, TypeOK
<1>8. ExportInv'
  BY <1>1, <1>2, <1>6 DEF IInv, ExportInv, Sound
<1>9. QuietInv'
  BY <1>1, <1>2, <1>5 DEF IInv, QuietInv
<1> QED BY <1>7, <1>8, <1>9 DEF IInv

\* Requests that leave the schedule alone.
LEMMA RequestStep ==
  ASSUME IInv, NEW q \in Requests,
         \/ StartCycle(q)
         \/ \E limit \in HandLimits : StartUpload(q, limit)
         \/ RequestFails(q)
  PROVE  IInv'
<1>1. UNCHANGED <<schedule, auto, nudged, starting, data, history>>
  BY DEF StartCycle, StartUpload, RequestFails
<1>2. request \in [Requests -> Request] /\ request[q].export \in Export
  BY Parts DEF IInv, TypeOK
<1>3. PICK r \in Request :
        /\ request' = [request EXCEPT ![q] = r]
        /\ Sound(r.export) /\ (r.phase = "uploading" => r.export.upTo = local)
  <2>1. CASE StartCycle(q)
    <3> DEFINE r == [request[q] EXCEPT !.phase = "pulling"]
    <3>1. request' = [request EXCEPT ![q] = r]
      BY <2>1 DEF StartCycle
    <3>2. r \in Request /\ r.export = request[q].export /\ r.phase = "pulling"
      BY <1>2 DEF Request, Phases
    <3>3. Sound(r.export)
      BY <3>2 DEF IInv, ExportInv, Sound
    <3> HIDE DEF r
    <3> QED BY <3>1, <3>2, <3>3
  <2>2. ASSUME NEW limit \in HandLimits, StartUpload(q, limit)
        PROVE  \E r \in Request :
                 /\ request' = [request EXCEPT ![q] = r]
                 /\ Sound(r.export) /\ (r.phase = "uploading" => r.export.upTo = local)
    <3>1. PICK e : e = Exported(limit)
      OBVIOUS
    <3>2. e \in Export /\ Sound(e) /\ e.upTo = local
      BY <3>1, ExportedSound DEF IInv
    <3>3. PICK r : r = [phase |-> "uploading", export |-> e]
      OBVIOUS
    <3>4. r \in Request /\ r.export = e
      BY <3>2, <3>3 DEF Request, Phases
    <3>5. request' = [request EXCEPT ![q] = r]
      BY <2>2, <3>1, <3>3 DEF StartUpload
    <3> QED BY <3>2, <3>4, <3>5
  <2>3. CASE RequestFails(q)
    <3>1. IdleRequest \in Request /\ Sound(IdleRequest.export) /\ IdleRequest.phase = "idle"
      BY NoExportSound DEF IInv, IdleRequest, Request, Phases
    <3> QED BY <2>3, <3>1 DEF RequestFails
  <2> QED BY <2>1, <2>2, <2>3
<1>4. /\ request' \in [Requests -> Request] /\ request'[q] = r
      /\ \A p \in Requests : p # q => request'[p] = request[p]
  BY <1>2, <1>3
<1>5. /\ UNCHANGED <<local, made, changed, uploaded, passed, quiet>>
      /\ \A s \in Records : Waiting(s)' <=> Waiting(s)
  BY <1>1, Untouched
<1>6. TypeOK'
  BY <1>1, <1>4, <1>5 DEF IInv, TypeOK
<1>7. ExportInv'
  BY <1>1, <1>3, <1>4, <1>5 DEF IInv, ExportInv, Sound
<1>8. QuietInv'
  BY <1>1, <1>3, <1>4, <1>5, Parts DEF IInv, QuietInv
<1> QED BY <1>6, <1>7, <1>8 DEF IInv

LEMMA RequestSucceedsStep ==
  ASSUME IInv, NEW q \in Requests, RequestSucceeds(q)
  PROVE  IInv'
<1>1. /\ UNCHANGED <<auto, nudged, starting, data>>
      /\ request[q].phase = "uploading" /\ Upload(request[q].export)
      /\ request' = [request EXCEPT ![q] = IdleRequest]
  BY DEF RequestSucceeds
<1>2. schedule' \in Schedule /\ (schedule'.enabled => schedule'.nextRun # None)
  BY ClearedTyped DEF RequestSucceeds, IInv
<1>3. PICK e : e = request[q].export
  OBVIOUS
<1>4. /\ e \in Export /\ Sound(e) /\ Upload(e) /\ \A c \in quiet : c <= e.upTo
  BY <1>1, <1>3, Parts DEF IInv, ExportInv, QuietInv
<1>5. /\ uploaded' \in [Records -> 0 .. local] /\ passed' \subseteq Records
      /\ quiet' = quiet /\ \A r \in Records : ~ Waiting(r)'
  BY <1>1, <1>4, UploadServes DEF IInv
<1>6. UNCHANGED <<local, made, changed>>
  BY <1>1 DEF data
<1>7. IdleRequest \in Request /\ Sound(IdleRequest.export) /\ IdleRequest.phase = "idle"
  BY NoExportSound DEF IInv, IdleRequest, Request, Phases
<1>8. /\ request' \in [Requests -> Request] /\ request'[q] = IdleRequest
      /\ \A p \in Requests : p # q => request'[p] = request[p]
  BY <1>1, <1>7 DEF IInv, TypeOK
<1>9. TypeOK'
  BY <1>1, <1>2, <1>5, <1>6, <1>8 DEF IInv, TypeOK
<1>10. ExportInv'
  BY <1>1, <1>6, <1>7, <1>8 DEF IInv, ExportInv, Sound
<1>11. QuietInv'
  BY <1>1, <1>5, <1>7, <1>8 DEF IInv, QuietInv
<1> QED BY <1>9, <1>10, <1>11 DEF IInv

\* Time passes over a time stamp, never over the lack of one.
LEMMA LessTyped ==
  ASSUME NEW bound \in Nat, NEW d \in 0 .. bound \cup {None}
  PROVE  Less(d) \in 0 .. bound \cup {None} /\ (Less(d) = None <=> d = None)
BY BoundsAssumption DEF Less

LEMMA MoreTyped ==
  ASSUME NEW d \in 0 .. Longest \cup {None}
  PROVE  More(d) \in 0 .. Longest \cup {None} /\ (d # None => More(d) \in 0 .. Longest)
BY BoundsAssumption, TimesAssumption DEF More

LEMMA TickStep ==
  ASSUME IInv, Tick
  PROVE  IInv'
<1>0. UNCHANGED <<request, nudged, starting, data, history>>
  BY DEF Tick
<1>1. /\ schedule' \in Schedule /\ (schedule'.enabled => schedule'.nextRun # None)
      /\ (schedule'.pending = None <=> schedule.pending = None)
  <2>1. PICK lastRun, nextRun, pending :
          /\ lastRun = schedule.lastRun /\ nextRun = schedule.nextRun
          /\ pending = schedule.pending
    OBVIOUS
  <2>2. /\ lastRun \in 0 .. Longest \cup {None} /\ nextRun \in 0 .. Longest \cup {None}
        /\ pending \in 0 .. Delay \cup {None} /\ Longest \in Nat /\ Delay \in Nat
    BY <2>1, Parts, TimesAssumption DEF Schedule
  <2>3. /\ More(lastRun) \in 0 .. Longest \cup {None}
        /\ Less(nextRun) \in 0 .. Longest \cup {None} /\ (Less(nextRun) = None <=> nextRun = None)
        /\ Less(pending) \in 0 .. Delay \cup {None} /\ (Less(pending) = None <=> pending = None)
    BY <2>2, LessTyped, MoreTyped
  <2>4. PICK l, n, p : l = More(lastRun) /\ n = Less(nextRun) /\ p = Less(pending)
    OBVIOUS
  <2>5. schedule' = [schedule EXCEPT !.lastRun = l, !.nextRun = n, !.pending = p]
    BY <2>1, <2>4 DEF Tick, More, Less
  <2>6. schedule.enabled => nextRun # None
    BY <2>1 DEF IInv, TypeOK
  <2> QED BY <2>1, <2>3, <2>4, <2>5, <2>6, Parts DEF Schedule
<1>2. /\ auto' \in AutoRun /\ auto'.phase = auto.phase /\ auto'.export = auto.export
      /\ (auto'.read.pending = None <=> auto.read.pending = None)
  <2>1. CASE auto.phase = "idle"
    BY <2>1, Parts DEF Tick
  <2>2. CASE auto.phase # "idle"
    <3>1. PICK started, pending : started = auto.started /\ pending = auto.read.pending
      OBVIOUS
    <3>2. /\ started \in 0 .. Longest /\ pending \in 0 .. Delay \cup {None}
          /\ Delay \in Nat /\ started # None
      BY <3>1, Parts, TimesAssumption, BoundsAssumption DEF Read
    <3>3. /\ More(started) \in 0 .. Longest
          /\ Less(pending) \in 0 .. Delay \cup {None} /\ (Less(pending) = None <=> pending = None)
      BY <3>2, LessTyped, MoreTyped
    <3>4. PICK a, p : a = More(started) /\ p = Less(pending)
      OBVIOUS
    <3>5. auto' = [auto EXCEPT !.started = a, !.read = [auto.read EXCEPT !.pending = p]]
      BY <2>2, <3>1, <3>4, Parts DEF Tick, More, Less, AutoRun
    <3>6. PICK r : r = [auto.read EXCEPT !.pending = p]
      OBVIOUS
    <3>7. r \in Read /\ r.pending = p
      BY <3>3, <3>4, <3>6, Parts DEF Read
    <3> QED BY <3>1, <3>3, <3>4, <3>5, <3>6, <3>7, Parts DEF AutoRun
  <2> QED BY <2>1, <2>2
<1>3. /\ UNCHANGED <<local, made, changed, uploaded, passed, quiet>>
      /\ \A r \in Records : Waiting(r)' <=> Waiting(r)
  BY <1>0, Untouched
<1>4. TypeOK'
  BY <1>0, <1>1, <1>2, <1>3 DEF IInv, TypeOK
<1>5. ExportInv'
  BY <1>0, <1>2, <1>3 DEF IInv, ExportInv, Sound
<1>6. QuietInv'
  BY <1>0, <1>1, <1>2, <1>3 DEF IInv, QuietInv
<1> QED BY <1>4, <1>5, <1>6 DEF IInv

LEMMA RestartStep ==
  ASSUME IInv, Restart
  PROVE  IInv'
<1>1. UNCHANGED <<schedule, data, history>> /\ nudged' = FALSE /\ starting' = TRUE
  BY DEF Restart
<1>2. NoExport \in Export /\ Sound(NoExport)
  BY NoExportSound DEF IInv
<1>3. auto' \in AutoRun /\ auto'.phase = "idle" /\ auto'.export = NoExport
  BY <1>2, TimesAssumption, BoundsAssumption
     DEF Restart, IdleAuto, AutoRun, Phases, Read, Intervals
<1>4. /\ request' \in [Requests -> Request]
      /\ \A q \in Requests : request'[q].phase = "idle" /\ request'[q].export = NoExport
  BY <1>2 DEF Restart, IdleRequest, Request, Phases
<1>5. /\ UNCHANGED <<local, made, changed, uploaded, passed, quiet>>
      /\ \A r \in Records : Waiting(r)' <=> Waiting(r)
  BY <1>1, Untouched
<1>6. TypeOK'
  BY <1>1, <1>3, <1>4, <1>5 DEF IInv, TypeOK
<1>7. ExportInv'
  BY <1>2, <1>3, <1>4, <1>5 DEF ExportInv, Sound
<1>8. QuietInv'
  BY <1>1, <1>3, <1>4, <1>5 DEF IInv, QuietInv
<1> QED BY <1>6, <1>7, <1>8 DEF IInv

LEMMA StepInv == IInv /\ [Next]_vars => IInv'
<1> SUFFICES ASSUME IInv, [Next]_vars PROVE IInv'
  OBVIOUS
<1>1. CASE \E r \in Records : LocalChange(r)
  BY <1>1, LocalChangeStep
<1>2. CASE OwnerActs
  BY <1>2, OwnerUpdatesStep, OwnerRunsStep DEF OwnerActs
<1>3. CASE \E ready \in BOOLEAN : Poll(ready) \/ Startup(ready) \/ RunNudged(ready)
  BY <1>3, PollStep
<1>4. CASE Nudge
  BY <1>4, NudgeStep
<1>5. CASE AutoUploads
  BY <1>5, AutoUploadsStep
<1>6. CASE \E outcome \in {"page", "retry", "wait"} : AutoEnds(outcome)
  BY <1>6, AutoEndsStep
<1>7. CASE AutoSucceeds
  BY <1>7, AutoSucceedsStep
<1>8. CASE \E q \in Requests :
        \/ StartCycle(q)
        \/ \E limit \in HandLimits : StartUpload(q, limit)
        \/ RequestFails(q)
        \/ RequestSucceeds(q)
  BY <1>8, RequestStep, RequestSucceedsStep
<1>9. CASE Tick
  BY <1>9, TickStep
<1>10. CASE Restart
  BY <1>10, RestartStep
<1>11. CASE UNCHANGED vars
  <2>1. /\ UNCHANGED <<schedule, auto, request, data, history>>
        /\ schedule' \in Schedule /\ (schedule'.enabled => schedule'.nextRun # None)
        /\ nudged' \in BOOLEAN /\ starting' \in BOOLEAN
    BY <1>11 DEF vars, IInv, TypeOK
  <2> QED BY <2>1, UnmovedKeeps
<1> QED BY <1>1, <1>2, <1>3, <1>4, <1>5, <1>6, <1>7, <1>8, <1>9, <1>10, <1>11 DEF Next

LEMMA Invariance == Spec => []IInv
BY InitInv, StepInv, PTL DEF Spec

\* The schedule keeps its type: its intervals stay within the bounds and an
\* enabled schedule always says when it runs next.
THEOREM AutoSyncTypeCorrect == Spec => []TypeOK
<1>1. IInv => TypeOK
  BY DEF IInv
<1> QED BY <1>1, Invariance, PTL

\* A local change noted while nothing ran asks for a run until it is in iCloud, or
\* an upload that was taken after it had no room for it: a run that started since
\* read that it was asked for, and writes that back unless its upload succeeds.
THEOREM QuietChangeQueuedHolds == Spec => []QuietChangeQueued
<1>1. IInv => QuietChangeQueued
  BY DEF IInv, QuietInv, QuietChangeQueued
<1> QED BY <1>1, Invariance, PTL
=============================================================================
