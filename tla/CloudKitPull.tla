---------------------------- MODULE CloudKitPull ----------------------------
(***************************************************************************)
(* How the Mac pulls remote changes out of the private CloudKit database:  *)
(* server/cloudKitSyncNow.ts (one pull), server/cloudKitSyncState.ts (the  *)
(* checkpoint and quarantine tables), the apply and promote steps of       *)
(* server/cloudKitSyncApply.ts, and the single-step requests of the admin  *)
(* routes.                                                                 *)
(*                                                                         *)
(* iCloud keeps, for each zone, an ordered feed of changes; a change token *)
(* is a position in it.  A pull asks the native helper twice, each time    *)
(* from the applied token: a preview, which saves only the token it got    *)
(* to, and an import, which saves the records and that token.  A zone's    *)
(* pending token becomes its applied token when the zone's rows have been  *)
(* decided.  Every table operation is one SQLite transaction; runs         *)
(* interleave while the helper is at work, and nothing keeps two of them,  *)
(* or a run and a request of the owner, apart.                             *)
(*                                                                         *)
(* Contents are abstracted: each change has a content of its own, and      *)
(* whether the local database accepts a record is left open.               *)
(***************************************************************************)
EXTENDS Integers, Sequences, FiniteSets

CONSTANTS
  Zones,        \* CloudKit zones
  Records,      \* remote records
  Home,         \* [Records -> Zones]
  Kinds,        \* kinds of change other devices make
  Syncs,        \* pulls that can be in progress at once
  Probes,       \* single-step requests of the owner in progress at once
  ApplyLimit,   \* rows one apply takes at most
  MaxChanges,   \* bound of the number of remote changes
  MaxResets     \* bound of the number of times CloudKit expires a token

ChangeKinds == {"new", "edit", "deleted", "broken"}

ASSUME FeedAssumption ==
  /\ IsFiniteSet(Zones)
  /\ Home \in [Records -> Zones]
  /\ Kinds \subseteq ChangeKinds

ASSUME BoundsAssumption ==
  /\ ApplyLimit \in Nat \ {0}
  /\ MaxChanges \in Nat
  /\ MaxResets \in Nat

VARIABLES
  feed,         \* remote changes so far; a position is a change token
  applied,      \* applied_server_change_token of each zone (0: none)
  pending,      \* pending_server_change_token of each zone (0: none)
  rows,         \* quarantine: status of the row of each change
  markers,      \* quarantine: status of each checkpoint-reset row
  run,          \* the requests in progress
  resets,       \* expired tokens so far
  origin,       \* history: which step saved the pending token
  blind         \* history: zones that promoted a token a preview saved

vars == <<feed, applied, pending, rows, markers, run, resets, origin, blind>>

-----------------------------------------------------------------------------
(* Data *)

Runs      == Syncs \cup Probes
Positions == 1 .. MaxChanges
Tokens    == 0 .. MaxChanges

Change == [rec : Records, kind : ChangeKinds]

Statuses   == {"absent", "auto-ready", "pending-review", "applied", "conflict", "failed"}
Decided    == {"applied", "conflict", "failed"}
Phases     == {"idle", "previewing", "importing", "imported"}

\* A request: the tokens it asked from and, once the helper has read what is to
\* be imported, the tokens it got to, the zones whose token had expired and the
\* changes.
Run == [phase : Phases,
        from  : [Zones -> Tokens],
        to    : [Zones -> Tokens],
        reset : SUBSET Zones,
        got   : SUBSET Positions]

NoTokens == [z \in Zones |-> 0]

IdleRun == [phase |-> "idle", from |-> NoTokens, to |-> NoTokens,
            reset |-> {}, got |-> {}]

ZoneOf(i) == Home[feed[i].rec]

\* CloudKit reports a record once, at its last change.
Newest(i) == \A j \in i + 1 .. Len(feed) : feed[j].rec # feed[i].rec

-----------------------------------------------------------------------------
(* The checkpoint and quarantine tables *)

\* Mutant: the snapshot prefers the token that waits for promotion.
SnapshotOfPending == [z \in Zones |-> IF pending[z] # 0 THEN pending[z] ELSE applied[z]]

\* getCloudKitSyncStateSnapshot: only applied tokens reach the helper.
Snapshot == applied

\* The pending tokens after zones reported the tokens in to (0: none captured).
Captured(to) == [z \in Zones |-> IF to[z] # 0 THEN to[z] ELSE pending[z]]
CapturedBy(step, to) == [z \in Zones |-> IF to[z] # 0 THEN step ELSE origin[z]]

\* INSERT OR IGNORE finds a row for change i in the quarantine rs: a changed
\* record's id has its content, a deleted record's only its name.
Known(rs, i) ==
  \/ rs[i] # "absent"
  \/ /\ feed[i].kind = "deleted"
     /\ \E j \in DOMAIN feed : feed[j] = feed[i] /\ rs[j] # "absent"

\* Mutant: a record that fails validation is filed under a status of its own.
RejectedStatus(i, reset) ==
  CASE feed[i].kind = "broken"                           -> "rejected"
    [] feed[i].kind \in {"edit", "deleted"}              -> "pending-review"
    [] feed[i].kind = "new" /\ ZoneOf(i) \in reset       -> "pending-review"
    [] OTHER                                             -> "auto-ready"

\* The status a change is quarantined with.
FirstStatus(i, reset) ==
  CASE feed[i].kind = "broken"                           -> "failed"
    [] feed[i].kind \in {"edit", "deleted"}              -> "pending-review"
    [] feed[i].kind = "new" /\ ZoneOf(i) \in reset       -> "pending-review"
    [] OTHER                                             -> "auto-ready"

\* Mutant: INSERT OR REPLACE.
ImportedAnew(got, reset) ==
  [i \in Positions |-> IF i \in got THEN FirstStatus(i, reset) ELSE rows[i]]

\* saveCloudKitSyncImportQuarantine: the rows and the reset markers.
Imported(got, reset) ==
  [i \in Positions |-> IF i \in got /\ ~Known(rows, i) THEN FirstStatus(i, reset) ELSE rows[i]]

Marked(to, reset) ==
  [m \in Zones \X Tokens |->
     IF m[1] \in reset /\ m[2] = to[m[1]] /\ markers[m] = "absent"
     THEN "pending-review" ELSE markers[m]]

\* The statuses promoteReadyZones counts.
Unresolved == {"pending-review", "conflict", "failed"}

Smaller(m, n) == IF m < n THEN m ELSE n

\* promoteReadyZones: of the zones an apply touched, those whose rows are all
\* resolved now take their pending token ps, which step os saved.
Blocked ==
  {ZoneOf(i) : i \in {k \in DOMAIN feed : rows'[k] \in Unresolved}}
    \cup {m[1] : m \in {k \in Zones \X Tokens : markers'[k] \in Unresolved}}

Promote(ready, ps, os) ==
  /\ applied' = [z \in Zones |-> IF z \in ready THEN ps[z] ELSE applied[z]]
  /\ pending' = [z \in Zones |-> IF z \in ready THEN 0 ELSE ps[z]]
  /\ origin'  = [z \in Zones |-> IF z \in ready THEN "none" ELSE os[z]]
  /\ blind'   = blind \cup {z \in ready : os[z] = "preview"}

\* applyCloudKitSyncQuarantine, on tables that hold the rows rs, the markers
\* ms and the pending tokens ps saved by the steps os.  Up to ApplyLimit rows
\* with the given statuses are decided: a hard delete is a conflict, the local
\* database refuses the records in bad, a reset marker is accepted.
Apply(statuses, rs, ms, ps, os) ==
  LET found      == {i \in DOMAIN feed : rs[i] \in statuses}
      foundMarks == {m \in Zones \X Tokens : ms[m] \in statuses}
  IN \E batch \in SUBSET found, marks \in SUBSET foundMarks :
     \E bad \in SUBSET {i \in batch : feed[i].kind # "deleted"} :
       /\ Cardinality(batch) + Cardinality(marks)
            = Smaller(ApplyLimit, Cardinality(found) + Cardinality(foundMarks))
       /\ rows' = [i \in Positions |->
            IF i \notin batch THEN rs[i]
            ELSE IF i \in bad \/ feed[i].kind = "deleted" THEN "conflict" ELSE "applied"]
       /\ markers' = [m \in Zones \X Tokens |-> IF m \in marks THEN "applied" ELSE ms[m]]
       /\ LET touched == {ZoneOf(i) : i \in batch} \cup {m[1] : m \in marks}
          IN Promote({z \in touched \ Blocked : ps[z] # 0}, ps, os)

\* The end of a pull: rows that need no review are applied, if there are any;
\* the database backup taken first may throw.
ApplyReady(rs, ms, ps, os) ==
  \/ /\ \E i \in DOMAIN feed : rs[i] = "auto-ready"
     /\ Apply({"auto-ready"}, rs, ms, ps, os)
  \/ /\ rows' = rs
     /\ markers' = ms
     /\ pending' = ps
     /\ origin' = os
     /\ UNCHANGED <<applied, blind>>

-----------------------------------------------------------------------------
(* iCloud and the native helper *)

RemoteChange(r, k) ==
  /\ Len(feed) < MaxChanges
  /\ feed' = Append(feed, [rec |-> r, kind |-> k])
  /\ UNCHANGED <<applied, pending, rows, markers, run, resets, origin, blind>>

\* What the helper reads: each zone from its token, or from the start if the
\* token has expired, up to the end of a page.
Since(w, reset) == [z \in Zones |-> IF z \in reset THEN 0 ELSE run[w].from[z]]

Read(w, to, reset) ==
  {i \in DOMAIN feed :
     /\ Newest(i)
     /\ Since(w, reset)[ZoneOf(i)] < i
     /\ i <= to[ZoneOf(i)]}

MoreComing(to) == \E i \in DOMAIN feed : Newest(i) /\ i > to[ZoneOf(i)]

\* shouldRunNativeImport
WorthImporting(got, more, reset) == got # {} \/ more \/ reset # {}

\* Pages end anywhere: CloudKit and the helper's limits, which the zones share,
\* decide.
Pages(w, to, reset) ==
  /\ reset \subseteq {z \in Zones : run[w].from[z] # 0}
  /\ resets + Cardinality(reset) <= MaxResets
  /\ \A z \in Zones : to[z] >= Since(w, reset)[z]
  /\ resets' = resets + Cardinality(reset)

\* The helper has read the changes to import; its answer is on its way.
ReadImport(w, to, reset) ==
  /\ run[w].phase = "importing"
  /\ Pages(w, to, reset)
  /\ run' = [run EXCEPT ![w] =
       [IdleRun EXCEPT !.phase = "imported", !.to = to, !.reset = reset,
                       !.got = Read(w, to, reset)]]
  /\ UNCHANGED <<feed, applied, pending, rows, markers, origin, blind>>

\* The helper is refused, times out or reads a record it cannot validate.  A
\* pull saves nothing of a failed call and ends.  (The changes-preview route
\* saves the tokens of the zones that were read: that is a SavePreview.)
HelperFails(w) ==
  /\ run[w].phase # "idle"
  /\ run' = [run EXCEPT ![w] = IdleRun]
  /\ UNCHANGED <<feed, applied, pending, rows, markers, resets, origin, blind>>

-----------------------------------------------------------------------------
(* The requests *)

Asking(phase) == [IdleRun EXCEPT !.phase = phase, !.from = Snapshot]

\* runCloudKitSyncNow, from a sync cycle or from the sync-now route
StartSync(w) ==
  /\ w \in Syncs
  /\ run[w].phase = "idle"
  /\ run' = [run EXCEPT ![w] = Asking("previewing")]
  /\ UNCHANGED <<feed, applied, pending, rows, markers, resets, origin, blind>>

\* The changes-preview and import-quarantine routes
StartProbe(w) ==
  /\ w \in Probes
  /\ run[w].phase = "idle"
  /\ \E phase \in {"previewing", "importing"} : run' = [run EXCEPT ![w] = Asking(phase)]
  /\ UNCHANGED <<feed, applied, pending, rows, markers, resets, origin, blind>>

\* saveCloudKitSyncChangesPreview saves the tokens the helper got to, and only
\* the tokens.  (As a page may end anywhere, an answer that was read earlier is
\* one of these.)  A pull goes on to import if there is anything to import.
SavePreview(w, to, reset) ==
  /\ run[w].phase = "previewing"
  /\ Pages(w, to, reset)
  /\ LET ps == Captured(to)
         os == CapturedBy("preview", to)
         imports == w \in Syncs /\ WorthImporting(Read(w, to, reset), MoreComing(to), reset)
     IN /\ run' = [run EXCEPT ![w] = IF imports THEN Asking("importing") ELSE IdleRun]
        /\ IF w \in Syncs /\ ~imports
           THEN ApplyReady(rows, markers, ps, os)
           ELSE /\ pending' = ps
                /\ origin' = os
                /\ UNCHANGED <<applied, rows, markers, blind>>
  /\ UNCHANGED feed

\* saveCloudKitSyncImportQuarantine; a pull applies what is ready at once.
SaveImport(w) ==
  /\ run[w].phase = "imported"
  /\ run' = [run EXCEPT ![w] = IdleRun]
  /\ LET rs == Imported(run[w].got, run[w].reset)
         ms == Marked(run[w].to, run[w].reset)
         ps == Captured(run[w].to)
         os == CapturedBy("import", run[w].to)
     IN IF w \in Syncs
        THEN ApplyReady(rs, ms, ps, os)
        ELSE /\ rows' = rs
             /\ markers' = ms
             /\ pending' = ps
             /\ origin' = os
             /\ UNCHANGED <<applied, blind>>
  /\ UNCHANGED <<feed, resets>>

\* The apply-quarantine route: the owner reviewed what waits for review.
OwnerApplies ==
  /\ Apply({"auto-ready", "pending-review"}, rows, markers, pending, origin)
  /\ UNCHANGED <<feed, run, resets>>

\* The server stops: the tables survive, the requests do not.
Restart ==
  /\ \E w \in Runs : run[w].phase # "idle"
  /\ run' = [w \in Runs |-> IdleRun]
  /\ UNCHANGED <<feed, applied, pending, rows, markers, resets, origin, blind>>

-----------------------------------------------------------------------------

Init ==
  /\ feed = << >>
  /\ applied = NoTokens
  /\ pending = NoTokens
  /\ rows = [i \in Positions |-> "absent"]
  /\ markers = [m \in Zones \X Tokens |-> "absent"]
  /\ run = [w \in Runs |-> IdleRun]
  /\ resets = 0
  /\ origin = [z \in Zones |-> "none"]
  /\ blind = {}

Next ==
  \/ \E r \in Records, k \in Kinds : RemoteChange(r, k)
  \/ \E w \in Runs :
       \/ StartSync(w)
       \/ StartProbe(w)
       \/ \E to \in [Zones -> 0 .. Len(feed)], reset \in SUBSET Zones :
            SavePreview(w, to, reset) \/ ReadImport(w, to, reset)
       \/ HelperFails(w)
       \/ SaveImport(w)
  \/ OwnerApplies
  \/ Restart

Spec == Init /\ [][Next]_vars

-----------------------------------------------------------------------------
(* Refinement *)

\* What the quarantine knows of the changes
Posts    == [i \in DOMAIN feed |-> [zone |-> ZoneOf(i), kind |-> feed[i].kind]]
Replaced == {i \in DOMAIN feed : ~Newest(i)}
Arrived  == {i \in DOMAIN feed : Known(rows, i)}

Inbox == INSTANCE RemoteInbox WITH
  Changes <- Positions, posts <- Posts, replaced <- Replaced, inbox <- Arrived,
  status <- rows, mark <- applied, skipped <- blind

-----------------------------------------------------------------------------
(* Properties *)

\* Every variable has its type.
TypeOK ==
  /\ feed \in Seq(Change) /\ Len(feed) <= MaxChanges
  /\ applied \in [Zones -> Tokens]
  /\ pending \in [Zones -> Tokens]
  /\ rows \in [Positions -> Statuses]
  /\ markers \in [Zones \X Tokens -> Statuses]
  /\ run \in [Runs -> Run]
  /\ resets \in Nat
  /\ origin \in [Zones -> {"none", "preview", "import"}]
  /\ blind \in SUBSET Zones

\* All that happened in zone z up to token t is in the quarantine rs.
Covered(rs, z, t) ==
  \A i \in DOMAIN feed : (ZoneOf(i) = z /\ Newest(i) /\ i <= t) => Known(rs, i)

\* Some import in progress may still bring what is missing.
ImportInProgress == \E w \in Runs : run[w].phase \in {"importing", "imported"}

\* No remote change is lost: one that the applied token of its zone has passed,
\* so that no later fetch reports it, is in the quarantine or on its way there.
\* docs/icloud-data-sync-design.md promises it; saveCloudKitSyncChangesPreview
\* breaks it, because promoteReadyZones promotes the token it saves.
NoRemoteChangeLost ==
  \A i \in DOMAIN feed :
    Newest(i) /\ i <= applied[ZoneOf(i)] => Known(rows, i) \/ ImportInProgress

\* A token that an import saved covers only changes the quarantine holds, and
\* so does an applied token, however pulls, owner's requests, restarts, late
\* helper answers and expired tokens interleave: the only way to lose a change
\* is to promote a token that a preview saved.
CoveredUnlessBlind ==
  \A z \in Zones \ blind :
    /\ Covered(rows, z, applied[z])
    /\ origin[z] = "import" => Covered(rows, z, pending[z])

\* A fetch that repeats changes already imported (a late answer, a replay after
\* an expired token) never reopens a row that was decided.
DecidedStaysDecided ==
  [][\A i \in Positions : rows[i] \in Decided => rows'[i] = rows[i]]_vars

\* The pulls and requests keep the promise of RemoteInbox: each change is decided once,
\* edits and deletions only by the owner, and a checkpoint moves only over changes that
\* are in the quarantine and resolved.
KeepsInbox == Inbox!Spec

\* The applied token of a zone moves only when every row of the zone, those of
\* other pulls included, has been resolved.
UnresolvedHoldsCheckpoint ==
  [][\A z \in Zones : applied'[z] # applied[z] =>
       /\ \A i \in DOMAIN feed :
            ZoneOf(i) = z => rows'[i] \notin {"pending-review", "conflict", "failed"}
       /\ \A t \in Tokens : markers'[<<z, t>>] # "pending-review"]_vars
=============================================================================
