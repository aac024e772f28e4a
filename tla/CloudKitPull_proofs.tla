------------------------- MODULE CloudKitPull_proofs -------------------------
(***************************************************************************)
(* Proofs about the pull of remote changes, for any number of zones,       *)
(* records, pulls and requests of the owner in progress.                   *)
(***************************************************************************)
EXTENDS CloudKitPull, FiniteSetTheorems, SequenceTheorems, TLAPS

Steps == {"none", "preview", "import"}

-----------------------------------------------------------------------------
(* The inductive invariant *)

\* All that happened in zone z up to token t is in the quarantine or in X.
CoveredBut(X, rs, z, t) ==
  \A i \in DOMAIN feed : (ZoneOf(i) = z /\ Newest(i) /\ i <= t) => Known(rs, i) \/ i \in X

\* No token is ahead of the feed, a token that waits for promotion was saved by
\* some step, and tokens are covered.
TableInv ==
  /\ \A z \in Zones : applied[z] <= Len(feed) /\ pending[z] <= Len(feed)
  /\ \A z \in Zones : pending[z] # 0 => origin[z] # "none"
  /\ CoveredUnlessBlind

\* A call of the helper starts from a covered token, and what an import has read
\* up to is in the quarantine or in its answer.
RunInv(w) ==
  \A z \in Zones :
    /\ run[w].from[z] <= Len(feed) /\ run[w].to[z] <= Len(feed)
    /\ z \notin blind => CoveredBut({}, rows, z, run[w].from[z])
    /\ z \notin blind /\ run[w].phase = "imported"
         => CoveredBut(run[w].got, rows, z, run[w].to[z])

IInv == TypeOK /\ TableInv /\ \A w \in Runs : RunInv(w)

LEMMA CoveredButNone ==
  ASSUME NEW rs, NEW z, NEW t PROVE CoveredBut({}, rs, z, t) <=> Covered(rs, z, t)
BY DEF CoveredBut, Covered

-----------------------------------------------------------------------------
(* The feed *)

LEMMA FeedDomain ==
  ASSUME TypeOK
  PROVE  /\ DOMAIN feed = 1 .. Len(feed) /\ Len(feed) \in Nat
         /\ DOMAIN feed \subseteq Positions
         /\ \A i \in DOMAIN feed : feed[i] \in Change /\ ZoneOf(i) \in Zones
<1>1. DOMAIN feed = 1 .. Len(feed) /\ Len(feed) \in Nat
  BY DEF TypeOK
<1>2. DOMAIN feed \subseteq Positions
  BY <1>1, BoundsAssumption DEF TypeOK, Positions
<1>3. \A i \in DOMAIN feed : feed[i] \in Change
  BY <1>1 DEF TypeOK
<1>4. \A i \in DOMAIN feed : ZoneOf(i) \in Zones
  BY <1>3, FeedAssumption DEF ZoneOf, Change
<1> QED BY <1>1, <1>2, <1>3, <1>4

\* A new change is behind every token and makes no older change newest.
LEMMA Appended ==
  ASSUME TypeOK, NEW r \in Records, NEW k \in Kinds, RemoteChange(r, k)
  PROVE  /\ Len(feed') = Len(feed) + 1 /\ Len(feed') <= MaxChanges
         /\ feed' \in Seq(Change)
         /\ DOMAIN feed' = DOMAIN feed \cup {Len(feed) + 1}
         /\ \A i \in DOMAIN feed : feed'[i] = feed[i]
<1> k \in ChangeKinds
  BY FeedAssumption
<1> feed' = Append(feed, [rec |-> r, kind |-> k]) /\ Len(feed) < MaxChanges
  BY DEF RemoteChange
<1> [rec |-> r, kind |-> k] \in Change
  BY DEF Change
<1> feed \in Seq(Change) /\ Len(feed) \in Nat
  BY DEF TypeOK
<1>1. feed' \in Seq(Change) /\ Len(feed') = Len(feed) + 1 /\ \A i \in 1 .. Len(feed) : feed'[i] = feed[i]
  OBVIOUS
<1>2. DOMAIN feed' = 1 .. Len(feed) + 1 /\ DOMAIN feed = 1 .. Len(feed)
  BY <1>1
<1> QED BY <1>1, <1>2, BoundsAssumption

\* What was covered stays covered when the feed grows and rows are added.
LEMMA CoveredStays ==
  ASSUME TypeOK, NEW X, NEW z, NEW t \in Nat, t <= Len(feed),
         CoveredBut(X, rows, z, t),
         \A i \in DOMAIN feed : rows[i] # "absent" => rows'[i] # "absent",
         \/ UNCHANGED feed
         \/ \E r \in Records, k \in Kinds : RemoteChange(r, k)
  PROVE  \A i \in DOMAIN feed' :
           (ZoneOf(i)' = z /\ Newest(i)' /\ i <= t) => Known(rows, i)' \/ i \in X
<1>1. CASE UNCHANGED feed
  BY <1>1 DEF CoveredBut, Known, Newest, ZoneOf
<1>2. CASE \E r \in Records, k \in Kinds : RemoteChange(r, k)
  <2>1. /\ Len(feed') = Len(feed) + 1
        /\ DOMAIN feed' = DOMAIN feed \cup {Len(feed) + 1}
        /\ \A i \in DOMAIN feed : feed'[i] = feed[i]
    BY <1>2, Appended
  <2>2. DOMAIN feed = 1 .. Len(feed) /\ Len(feed) \in Nat
    BY FeedDomain
  <2> SUFFICES ASSUME NEW i \in DOMAIN feed', ZoneOf(i)' = z, Newest(i)', i <= t
               PROVE  Known(rows, i)' \/ i \in X
    OBVIOUS
  <2>3. i \in DOMAIN feed /\ feed'[i] = feed[i]
    BY <2>1, <2>2
  <2>4. Newest(i)
    <3> SUFFICES ASSUME NEW j \in i + 1 .. Len(feed) PROVE feed[j].rec # feed[i].rec
      BY DEF Newest
    <3>1. j \in DOMAIN feed /\ j \in i + 1 .. Len(feed')
      BY <2>1, <2>2, <2>3
    <3> QED BY <3>1, <2>1, <2>3 DEF Newest
  <2>5. Known(rows, i) \/ i \in X
    BY <2>3, <2>4 DEF CoveredBut, ZoneOf
  <2> QED BY <2>1, <2>3, <2>5 DEF Known
<1> QED BY <1>1, <1>2

\* What was covered stays covered when rows are added.
LEMMA CoveredGrows ==
  ASSUME NEW rs, NEW qs, NEW z, NEW t, Covered(rs, z, t),
         \A i \in DOMAIN feed : rs[i] # "absent" => qs[i] # "absent"
  PROVE  Covered(qs, z, t)
BY DEF Covered, Known

-----------------------------------------------------------------------------
(* The tables *)

\* What an apply does to the tables it finds: decided rows stay in the
\* quarantine, and a zone is promoted or left alone.
Outcome(rs, ps, os) ==
  /\ \A i \in Positions : rs[i] # "absent" => rows'[i] # "absent"
  /\ blind \subseteq blind'
  /\ \A z \in Zones :
       \/ applied'[z] = applied[z] /\ pending'[z] = ps[z] /\ origin'[z] = os[z]
       \/ /\ ps[z] # 0 /\ applied'[z] = ps[z]
          /\ pending'[z] = 0 /\ origin'[z] = "none"
          /\ os[z] = "preview" => z \in blind'

TablesOK ==
  /\ applied \in [Zones -> Tokens]
  /\ pending \in [Zones -> Tokens]
  /\ rows \in [Positions -> Statuses]
  /\ markers \in [Zones \X Tokens -> Statuses]
  /\ origin \in [Zones -> Steps]
  /\ blind \in SUBSET Zones

LEMMA ApplyOutcome ==
  ASSUME TypeOK, NEW S,
         NEW rs \in [Positions -> Statuses], NEW ms \in [Zones \X Tokens -> Statuses],
         NEW ps \in [Zones -> Tokens], NEW os \in [Zones -> Steps],
         Apply(S, rs, ms, ps, os)
  PROVE  Outcome(rs, ps, os) /\ TablesOK'
<1> DEFINE found      == {i \in DOMAIN feed : rs[i] \in S}
           foundMarks == {m \in Zones \X Tokens : ms[m] \in S}
<1>a. PICK batch \in SUBSET found, marks \in SUBSET foundMarks :
        \E bad \in SUBSET {i \in batch : feed[i].kind # "deleted"} :
          /\ rows' = [i \in Positions |->
               IF i \notin batch THEN rs[i]
               ELSE IF i \in bad \/ feed[i].kind = "deleted" THEN "conflict" ELSE "applied"]
          /\ markers' = [m \in Zones \X Tokens |-> IF m \in marks THEN "applied" ELSE ms[m]]
          /\ Promote({z \in ({ZoneOf(i) : i \in batch} \cup {m[1] : m \in marks}) \ Blocked :
                        ps[z] # 0}, ps, os)
  BY Zenon DEF Apply
<1>1. PICK bad :
        /\ rows' = [i \in Positions |->
             IF i \notin batch THEN rs[i]
             ELSE IF i \in bad \/ feed[i].kind = "deleted" THEN "conflict" ELSE "applied"]
        /\ markers' = [m \in Zones \X Tokens |-> IF m \in marks THEN "applied" ELSE ms[m]]
        /\ Promote({z \in ({ZoneOf(i) : i \in batch} \cup {m[1] : m \in marks}) \ Blocked :
                      ps[z] # 0}, ps, os)
  BY <1>a, Zenon
<1>b. batch \in SUBSET DOMAIN feed /\ marks \in SUBSET (Zones \X Tokens)
  OBVIOUS
<1> HIDE DEF found, foundMarks
<1> DEFINE promoted == {z \in ({ZoneOf(i) : i \in batch} \cup {m[1] : m \in marks}) \ Blocked :
                          ps[z] # 0}
<1>0. /\ \A z \in promoted : ps[z] # 0
      /\ applied' = [z \in Zones |-> IF z \in promoted THEN ps[z] ELSE applied[z]]
      /\ pending' = [z \in Zones |-> IF z \in promoted THEN 0 ELSE ps[z]]
      /\ origin'  = [z \in Zones |-> IF z \in promoted THEN "none" ELSE os[z]]
      /\ blind'   = blind \cup {z \in promoted : os[z] = "preview"}
      /\ promoted \subseteq {ZoneOf(i) : i \in batch} \cup {m[1] : m \in marks}
  BY <1>1 DEF Promote
<1> HIDE DEF promoted
<1>2. rows' \in [Positions -> Statuses] /\ \A i \in Positions : rs[i] # "absent" => rows'[i] # "absent"
  BY <1>1 DEF Statuses
<1>3. markers' \in [Zones \X Tokens -> Statuses]
  BY <1>1 DEF Statuses
<1>4. 0 \in Tokens
  BY BoundsAssumption DEF Tokens
<1>5. applied' \in [Zones -> Tokens] /\ pending' \in [Zones -> Tokens] /\ origin' \in [Zones -> Steps]
  BY <1>0, <1>4 DEF TypeOK, Steps
<1>6. promoted \subseteq Zones
  <2>1. \A i \in batch : ZoneOf(i) \in Zones
    BY FeedDomain, <1>b
  <2> QED BY <1>0, <1>b, <2>1
<1>7. blind' \in SUBSET Zones /\ blind \subseteq blind'
  BY <1>0, <1>6 DEF TypeOK
<1>8. \A z \in Zones :
       \/ applied'[z] = applied[z] /\ pending'[z] = ps[z] /\ origin'[z] = os[z]
       \/ /\ ps[z] # 0 /\ applied'[z] = ps[z]
          /\ pending'[z] = 0 /\ origin'[z] = "none"
          /\ os[z] = "preview" => z \in blind'
  BY <1>0
<1> QED BY <1>2, <1>3, <1>5, <1>7, <1>8 DEF Outcome, TablesOK

LEMMA ApplyReadyOutcome ==
  ASSUME TypeOK,
         NEW rs \in [Positions -> Statuses], NEW ms \in [Zones \X Tokens -> Statuses],
         NEW ps \in [Zones -> Tokens], NEW os \in [Zones -> Steps],
         ApplyReady(rs, ms, ps, os)
  PROVE  Outcome(rs, ps, os) /\ TablesOK'
<1>1. CASE Apply({"auto-ready"}, rs, ms, ps, os)
  BY <1>1, ApplyOutcome
<1>2. CASE /\ rows' = rs /\ markers' = ms /\ pending' = ps /\ origin' = os
           /\ UNCHANGED <<applied, blind>>
  BY <1>2 DEF Outcome, TablesOK, TypeOK, Steps
<1> QED BY <1>1, <1>2 DEF ApplyReady

\* What an import adds to the quarantine.
LEMMA ImportedRows ==
  ASSUME TypeOK, NEW got, NEW reset
  PROVE  /\ Imported(got, reset) \in [Positions -> Statuses]
         /\ \A i \in Positions : rows[i] # "absent" => Imported(got, reset)[i] # "absent"
         /\ \A i \in DOMAIN feed : i \in got => Known(Imported(got, reset), i)
<1>1. \A i \in Positions : FirstStatus(i, reset) \in Statuses \ {"absent"}
  BY DEF FirstStatus, Statuses
<1>2. Imported(got, reset) \in [Positions -> Statuses]
  BY <1>1 DEF Imported, TypeOK
<1>3. \A i \in Positions : rows[i] # "absent" => Imported(got, reset)[i] # "absent"
  BY <1>1 DEF Imported
<1>4. ASSUME NEW i \in DOMAIN feed, i \in got PROVE Known(Imported(got, reset), i)
  <2>1. i \in Positions /\ DOMAIN feed \subseteq Positions
    BY FeedDomain
  <2>2. CASE ~Known(rows, i)
    BY <2>1, <2>2, <1>1, <1>4 DEF Imported, Known
  <2>3. CASE Known(rows, i)
    BY <2>1, <2>3, <1>3 DEF Known
  <2> QED BY <2>2, <2>3
<1> QED BY <1>2, <1>3, <1>4

LEMMA CapturedTokens ==
  ASSUME TypeOK, NEW to \in [Zones -> Tokens], NEW step \in Steps, step # "none", NEW reset
  PROVE  /\ Captured(to) \in [Zones -> Tokens]
         /\ CapturedBy(step, to) \in [Zones -> Steps]
         /\ Marked(to, reset) \in [Zones \X Tokens -> Statuses]
         /\ \A z \in Zones :
              \/ to[z] # 0 /\ Captured(to)[z] = to[z] /\ CapturedBy(step, to)[z] = step
              \/ Captured(to)[z] = pending[z] /\ CapturedBy(step, to)[z] = origin[z]
BY DEF Captured, CapturedBy, Marked, TypeOK, Steps, Statuses

-----------------------------------------------------------------------------
(* What a step leaves of the invariant *)

RowsGrow == \A i \in DOMAIN feed : rows[i] # "absent" => rows'[i] # "absent"

FeedGrows ==
  \/ UNCHANGED feed
  \/ \E r \in Records, k \in Kinds : RemoteChange(r, k)

LEMMA LenGrows ==
  ASSUME TypeOK, FeedGrows PROVE Len(feed) \in Nat /\ Len(feed') \in Nat /\ Len(feed) <= Len(feed')
BY Appended, FeedDomain DEF FeedGrows

LEMMA RunTokens ==
  ASSUME TypeOK, NEW w \in Runs, NEW z \in Zones
  PROVE  run[w].from[z] \in Nat /\ run[w].to[z] \in Nat
BY DEF TypeOK, Run, Tokens

\* A run that does not move.
LEMMA RunKept ==
  ASSUME TypeOK, NEW w \in Runs, RunInv(w), run'[w] = run[w],
         blind \subseteq blind', RowsGrow, FeedGrows
  PROVE  RunInv(w)'
<1>0. Len(feed) \in Nat /\ Len(feed') \in Nat /\ Len(feed) <= Len(feed')
  BY LenGrows
<1> SUFFICES ASSUME NEW z \in Zones
             PROVE  (/\ run[w].from[z] <= Len(feed) /\ run[w].to[z] <= Len(feed)
                     /\ z \notin blind => CoveredBut({}, rows, z, run[w].from[z])
                     /\ z \notin blind /\ run[w].phase = "imported"
                          => CoveredBut(run[w].got, rows, z, run[w].to[z]))'
  BY DEF RunInv
<1>1. run[w].from[z] \in Nat /\ run[w].to[z] \in Nat
  BY RunTokens
<1>2. /\ run[w].from[z] <= Len(feed) /\ run[w].to[z] <= Len(feed)
      /\ z \notin blind => CoveredBut({}, rows, z, run[w].from[z])
      /\ z \notin blind /\ run[w].phase = "imported"
           => CoveredBut(run[w].got, rows, z, run[w].to[z])
  BY DEF RunInv
<1>3. (run[w].from[z] <= Len(feed) /\ run[w].to[z] <= Len(feed))'
  BY <1>0, <1>1, <1>2
<1>4. (z \notin blind => CoveredBut({}, rows, z, run[w].from[z]))'
  <2> SUFFICES ASSUME z \notin blind' PROVE CoveredBut({}, rows, z, run[w].from[z])'
    OBVIOUS
  <2>1. \A i \in DOMAIN feed' :
          (ZoneOf(i)' = z /\ Newest(i)' /\ i <= run[w].from[z]) => Known(rows, i)' \/ i \in {}
    BY <1>1, <1>2, CoveredStays DEF RowsGrow, FeedGrows
  <2> QED BY <2>1 DEF CoveredBut
<1>5. (z \notin blind /\ run[w].phase = "imported"
         => CoveredBut(run[w].got, rows, z, run[w].to[z]))'
  <2> SUFFICES ASSUME z \notin blind', run[w].phase = "imported"
               PROVE  CoveredBut(run[w].got, rows, z, run[w].to[z])'
    OBVIOUS
  <2>1. \A i \in DOMAIN feed' :
          (ZoneOf(i)' = z /\ Newest(i)' /\ i <= run[w].to[z]) => Known(rows, i)' \/ i \in run[w].got
    BY <1>1, <1>2, CoveredStays DEF RowsGrow, FeedGrows
  <2> QED BY <2>1 DEF CoveredBut
<1> QED BY <1>3, <1>4, <1>5

\* A run that ends or that has not started.
LEMMA RunIdle ==
  ASSUME TypeOK, NEW w \in Runs, run'[w] = IdleRun, UNCHANGED feed
  PROVE  RunInv(w)'
<1>1. DOMAIN feed = 1 .. Len(feed) /\ Len(feed) \in Nat
  BY FeedDomain
<1> QED BY <1>1 DEF RunInv, IdleRun, NoTokens, CoveredBut

\* A run that calls the helper.
LEMMA RunAsks ==
  ASSUME TypeOK, TableInv, NEW w \in Runs, NEW phase, phase # "imported",
         run'[w] = Asking(phase), UNCHANGED <<feed, rows, blind>>
  PROVE  RunInv(w)'
<1>1. run'[w].phase = phase /\ run'[w].from = applied /\ run'[w].to = NoTokens
  BY DEF Asking, IdleRun, Snapshot
<1>2. DOMAIN feed = 1 .. Len(feed) /\ Len(feed) \in Nat
  BY FeedDomain
<1>3. \A z \in Zones : applied[z] <= Len(feed) /\ (z \notin blind => CoveredBut({}, rows, z, applied[z]))
  BY CoveredButNone DEF TableInv, CoveredUnlessBlind
<1>4. \A z \in Zones : z \notin blind' => CoveredBut({}, rows, z, run[w].from[z])'
  BY <1>1, <1>3 DEF CoveredBut, Known, Newest, ZoneOf
<1>5. \A z \in Zones : (run[w].from[z] <= Len(feed) /\ run[w].to[z] <= Len(feed))'
  BY <1>1, <1>2, <1>3 DEF NoTokens
<1> QED BY <1>1, <1>4, <1>5 DEF RunInv

\* A step that leaves the checkpoints alone.
LEMMA TableKept ==
  ASSUME TypeOK, TableInv, UNCHANGED <<applied, pending, rows, origin, blind>>, FeedGrows
  PROVE  TableInv'
<1>0. Len(feed) \in Nat /\ Len(feed') \in Nat /\ Len(feed) <= Len(feed')
  BY LenGrows
<1>1. \A z \in Zones : applied[z] \in Nat /\ pending[z] \in Nat
  BY DEF TypeOK, Tokens
<1>2. \A z \in Zones : applied[z] <= Len(feed) /\ pending[z] <= Len(feed)
  BY DEF TableInv
<1>3. \A z \in Zones : (applied[z] <= Len(feed) /\ pending[z] <= Len(feed))'
  BY <1>0, <1>1, <1>2
<1>4. ASSUME NEW z \in Zones, NEW t \in Nat, t <= Len(feed), Covered(rows, z, t)
      PROVE  \A i \in DOMAIN feed' :
               (ZoneOf(i)' = z /\ Newest(i)' /\ i <= t) => Known(rows, i)'
  <2>1. CoveredBut({}, rows, z, t)
    BY <1>4, CoveredButNone
  <2>2. \A i \in DOMAIN feed' :
               (ZoneOf(i)' = z /\ Newest(i)' /\ i <= t) => Known(rows, i)' \/ i \in {}
    BY <1>4, <2>1, CoveredStays DEF FeedGrows
  <2> QED BY <2>2
<1>5. ASSUME NEW z \in Zones, z \notin blind'
      PROVE  (Covered(rows, z, applied[z]) /\ (origin[z] = "import" => Covered(rows, z, pending[z])))'
  <2>1. Covered(rows, z, applied[z]) /\ (origin[z] = "import" => Covered(rows, z, pending[z]))
    BY <1>5 DEF TableInv, CoveredUnlessBlind
  <2>2. Covered(rows, z, applied[z])'
    BY <1>1, <1>2, <1>4, <2>1 DEF Covered
  <2>3. (origin[z] = "import" => Covered(rows, z, pending[z]))'
    BY <1>1, <1>2, <1>4, <2>1 DEF Covered
  <2> QED BY <2>2, <2>3
<1> QED BY <1>3, <1>5 DEF TableInv, CoveredUnlessBlind

\* A step that saves tokens and rows and may promote zones.
LEMMA TableSaved ==
  ASSUME TypeOK, TableInv, UNCHANGED feed,
         NEW rs \in [Positions -> Statuses], NEW ps \in [Zones -> Tokens],
         NEW os \in [Zones -> Steps],
         Outcome(rs, ps, os), TablesOK',
         \A i \in Positions : rows[i] # "absent" => rs[i] # "absent",
         \A z \in Zones : ps[z] <= Len(feed) /\ (ps[z] # 0 => os[z] # "none"),
         \A z \in Zones \ blind : os[z] = "import" => Covered(rs, z, ps[z])
  PROVE  TableInv' /\ RowsGrow
<1>1. RowsGrow
  BY FeedDomain DEF Outcome, RowsGrow
<1>2. ASSUME NEW z \in Zones, NEW t, Covered(rs, z, t) PROVE Covered(rows, z, t)'
  <2>1. \A i \in DOMAIN feed : rs[i] # "absent" => rows'[i] # "absent"
    BY FeedDomain DEF Outcome
  <2> QED BY <1>2, <2>1 DEF Covered, Known, Newest, ZoneOf
<1>3. ASSUME NEW z \in Zones, z \notin blind PROVE Covered(rs, z, applied[z])
  <2>1. Covered(rows, z, applied[z])
    BY <1>3 DEF TableInv, CoveredUnlessBlind
  <2>2. \A i \in DOMAIN feed : rows[i] # "absent" => rs[i] # "absent"
    BY FeedDomain
  <2> QED BY <2>1, <2>2, CoveredGrows
<1>4. ASSUME NEW z \in Zones
      PROVE  /\ applied'[z] <= Len(feed) /\ pending'[z] <= Len(feed)
             /\ pending'[z] # 0 => origin'[z] # "none"
             /\ z \notin blind' => Covered(rows, z, applied[z])'
             /\ z \notin blind' /\ origin'[z] = "import" => Covered(rows, z, pending[z])'
  <2>0. blind \subseteq blind' /\ applied[z] <= Len(feed) /\ 0 <= Len(feed)
    BY FeedDomain DEF Outcome, TableInv
  <2>1. CASE applied'[z] = applied[z] /\ pending'[z] = ps[z] /\ origin'[z] = os[z]
    <3>1. z \notin blind' => Covered(rows, z, applied[z])'
      BY <2>0, <2>1, <1>2, <1>3
    <3>2. z \notin blind' /\ origin'[z] = "import" => Covered(rows, z, pending[z])'
      BY <2>0, <2>1, <1>2
    <3> QED BY <2>0, <2>1, <3>1, <3>2
  <2>2. CASE /\ ps[z] # 0 /\ applied'[z] = ps[z]
             /\ pending'[z] = 0 /\ origin'[z] = "none"
             /\ os[z] = "preview" => z \in blind'
    <3>1. z \notin blind' => os[z] = "import"
      BY <2>2 DEF Steps
    <3>2. z \notin blind' => Covered(rows, z, applied[z])'
      BY <2>0, <2>2, <3>1, <1>2
    <3> QED BY <2>0, <2>2, <3>2
  <2> QED BY <2>1, <2>2 DEF Outcome
<1> QED BY <1>1, <1>4 DEF TableInv, CoveredUnlessBlind

\* A run whose answer is on its way: it holds all that is new since a covered
\* token, or since the start.
LEMMA RunReads ==
  ASSUME TypeOK, NEW w \in Runs, RunInv(w),
         NEW to \in [Zones -> 0 .. Len(feed)], NEW reset \in SUBSET Zones,
         ReadImport(w, to, reset)
  PROVE  RunInv(w)'
<1>1. /\ run'[w].from = NoTokens /\ run'[w].to = to /\ run'[w].got = Read(w, to, reset)
      /\ UNCHANGED <<feed, rows, blind>>
  BY DEF ReadImport, IdleRun, TypeOK
<1>2. DOMAIN feed = 1 .. Len(feed) /\ Len(feed) \in Nat
  BY FeedDomain
<1> SUFFICES ASSUME NEW z \in Zones
             PROVE  (/\ run[w].from[z] <= Len(feed) /\ run[w].to[z] <= Len(feed)
                     /\ z \notin blind => CoveredBut({}, rows, z, run[w].from[z])
                     /\ z \notin blind /\ run[w].phase = "imported"
                          => CoveredBut(run[w].got, rows, z, run[w].to[z]))'
  BY DEF RunInv
<1>3. (run[w].from[z] <= Len(feed) /\ run[w].to[z] <= Len(feed))'
  BY <1>1, <1>2 DEF NoTokens
<1>4. CoveredBut({}, rows, z, run[w].from[z])'
  BY <1>1, <1>2 DEF CoveredBut, NoTokens
<1>5. ASSUME z \notin blind PROVE CoveredBut(Read(w, to, reset), rows, z, to[z])
  <2> SUFFICES ASSUME NEW i \in DOMAIN feed, ZoneOf(i) = z, Newest(i), i <= to[z]
               PROVE  Known(rows, i) \/ i \in Read(w, to, reset)
    BY DEF CoveredBut
  <2>1. run[w].from[z] \in Nat
    BY RunTokens
  <2>2. CASE Since(w, reset)[z] < i
    BY <2>2 DEF Read
  <2>3. CASE ~(Since(w, reset)[z] < i)
    <3>1. z \notin reset /\ i <= run[w].from[z]
      BY <2>1, <2>3, <1>2 DEF Since
    <3> QED BY <3>1, <1>5 DEF RunInv, CoveredBut
  <2> QED BY <2>2, <2>3
<1>6. (z \notin blind /\ run[w].phase = "imported"
         => CoveredBut(run[w].got, rows, z, run[w].to[z]))'
  BY <1>1, <1>5 DEF CoveredBut, Known, Newest, ZoneOf
<1> QED BY <1>3, <1>4, <1>6

-----------------------------------------------------------------------------
(* The steps *)

\* What a run becomes is a run.
LEMMA RunsTyped ==
  ASSUME TypeOK
  PROVE  /\ IdleRun \in Run
         /\ \A phase \in Phases : Asking(phase) \in Run
         /\ \A w \in Runs, to \in [Zones -> 0 .. Len(feed)], reset \in SUBSET Zones :
              /\ to \in [Zones -> Tokens]
              /\ [IdleRun EXCEPT !.phase = "imported", !.to = to, !.reset = reset,
                                 !.got = Read(w, to, reset)] \in Run
<1>1. NoTokens \in [Zones -> Tokens]
  BY BoundsAssumption DEF NoTokens, Tokens
<1>2. IdleRun \in Run
  BY <1>1 DEF IdleRun, Run, Phases
<1>3. \A phase \in Phases : Asking(phase) \in Run
  BY <1>1 DEF IdleRun, Asking, Run, Snapshot, TypeOK
<1>4. ASSUME NEW w \in Runs, NEW to \in [Zones -> 0 .. Len(feed)], NEW reset \in SUBSET Zones
      PROVE  /\ to \in [Zones -> Tokens]
             /\ [IdleRun EXCEPT !.phase = "imported", !.to = to, !.reset = reset,
                                !.got = Read(w, to, reset)] \in Run
  <2>1. Len(feed) \in Nat /\ Len(feed) <= MaxChanges
    BY FeedDomain DEF TypeOK
  <2>2. to \in [Zones -> Tokens]
    BY <2>1, BoundsAssumption DEF Tokens
  <2>3. Read(w, to, reset) \subseteq Positions
    BY FeedDomain DEF Read
  <2> QED BY <1>1, <2>2, <2>3 DEF IdleRun, Run, Phases
<1> QED BY <1>2, <1>3, <1>4

\* A step that moves the runs only.
LEMMA RunsOnly ==
  ASSUME IInv, run' \in [Runs -> Run], resets' \in Nat,
         UNCHANGED <<feed, applied, pending, rows, markers, origin, blind>>,
         \A w \in Runs : run'[w] = run[w] \/ RunInv(w)'
  PROVE  IInv'
<1>1. TypeOK'
  BY DEF IInv, TypeOK
<1>2. TableInv'
  BY TableKept DEF IInv, FeedGrows
<1>3. \A w \in Runs : RunInv(w)'
  BY RunKept DEF IInv, FeedGrows, RowsGrow
<1> QED BY <1>1, <1>2, <1>3 DEF IInv

\* A step that saves what run w got.
LEMMA Saved ==
  ASSUME IInv, NEW w \in Runs, UNCHANGED feed, resets' \in Nat,
         NEW rs \in [Positions -> Statuses], NEW ms \in [Zones \X Tokens -> Statuses],
         NEW ps \in [Zones -> Tokens], NEW os \in [Zones -> Steps],
         ApplyReady(rs, ms, ps, os),
         \A i \in Positions : rows[i] # "absent" => rs[i] # "absent",
         \A z \in Zones : ps[z] <= Len(feed) /\ (ps[z] # 0 => os[z] # "none"),
         \A z \in Zones \ blind : os[z] = "import" => Covered(rs, z, ps[z]),
         NEW r \in Run, run' = [run EXCEPT ![w] = r],
         RunInv(w)'
  PROVE  IInv'
<1>1. Outcome(rs, ps, os) /\ TablesOK'
  BY ApplyReadyOutcome DEF IInv
<1>2. TableInv' /\ RowsGrow
  BY <1>1, TableSaved DEF IInv
<1>3. TypeOK'
  BY <1>1 DEF IInv, TypeOK, TablesOK, Steps
<1>4. ASSUME NEW v \in Runs, v # w PROVE RunInv(v)'
  <2>1. run'[v] = run[v]
    BY <1>4 DEF IInv, TypeOK
  <2> QED BY <2>1, <1>1, <1>2, RunKept DEF IInv, Outcome, FeedGrows
<1> QED BY <1>2, <1>3, <1>4 DEF IInv

LEMMA RemoteChangeStep ==
  ASSUME IInv, NEW r \in Records, NEW k \in Kinds, RemoteChange(r, k)
  PROVE  IInv'
<1> USE DEF IInv
<1>1. UNCHANGED <<applied, pending, rows, markers, run, resets, origin, blind>>
  BY DEF RemoteChange
<1>2. FeedGrows
  BY DEF FeedGrows
<1>3. TypeOK'
  BY <1>1, Appended DEF TypeOK
<1>4. TableInv'
  BY <1>1, <1>2, TableKept
<1>5. \A w \in Runs : RunInv(w)'
  BY <1>1, <1>2, RunKept DEF RowsGrow
<1> QED BY <1>3, <1>4, <1>5

LEMMA PagesCounted ==
  ASSUME TypeOK, NEW w, NEW to, NEW reset \in SUBSET Zones, Pages(w, to, reset)
  PROVE  resets' \in Nat
<1>1. Cardinality(reset) \in Nat
  BY FeedAssumption, FS_Subset, FS_CardinalityType
<1> QED BY <1>1 DEF Pages, TypeOK

LEMMA SavePreviewStep ==
  ASSUME IInv, NEW w \in Runs, NEW to \in [Zones -> 0 .. Len(feed)], NEW reset \in SUBSET Zones,
         SavePreview(w, to, reset)
  PROVE  IInv'
<1> DEFINE ps == Captured(to)
           os == CapturedBy("preview", to)
           imports == w \in Syncs /\ WorthImporting(Read(w, to, reset), MoreComing(to), reset)
           r == IF imports THEN Asking("importing") ELSE IdleRun
<1>0. TypeOK /\ TableInv
  BY DEF IInv
<1>1. to \in [Zones -> Tokens] /\ r \in Run
  BY <1>0, RunsTyped DEF Phases
<1>2. /\ ps \in [Zones -> Tokens] /\ os \in [Zones -> Steps]
      /\ \A z \in Zones :
           \/ to[z] # 0 /\ ps[z] = to[z] /\ os[z] = "preview"
           \/ ps[z] = pending[z] /\ os[z] = origin[z]
  BY <1>0, <1>1, CapturedTokens DEF Steps
<1>3. ApplyReady(rows, markers, ps, os)
  <2>1. CASE w \in Syncs /\ ~imports
    BY <2>1 DEF SavePreview
  <2>2. CASE ~(w \in Syncs /\ ~imports)
    <3>1. pending' = ps /\ origin' = os /\ UNCHANGED <<applied, rows, markers, blind>>
      BY <2>2 DEF SavePreview
    <3> QED BY <3>1 DEF ApplyReady
  <2> QED BY <2>1, <2>2
<1>4. run' = [run EXCEPT ![w] = r] /\ UNCHANGED feed /\ run'[w] = r
  BY <1>0 DEF SavePreview, TypeOK
<1>5. RunInv(w)'
  <2>1. CASE imports
    <3>1. UNCHANGED <<feed, rows, blind>> /\ run'[w] = Asking("importing")
      BY <2>1, <1>4 DEF SavePreview
    <3> QED BY <3>1, <1>0, RunAsks
  <2>2. CASE ~imports
    BY <2>2, <1>0, <1>4, RunIdle
  <2> QED BY <2>1, <2>2
<1>6. resets' \in Nat
  BY <1>0, PagesCounted DEF SavePreview
<1>7. \A z \in Zones : ps[z] <= Len(feed) /\ (ps[z] # 0 => os[z] # "none")
  BY <1>0, <1>2, FeedDomain DEF TableInv
<1>8. \A z \in Zones \ blind : os[z] = "import" => Covered(rows, z, ps[z])
  BY <1>0, <1>2 DEF TableInv, CoveredUnlessBlind
<1>9. rows \in [Positions -> Statuses] /\ markers \in [Zones \X Tokens -> Statuses]
  BY <1>0 DEF TypeOK
<1>10. \A i \in Positions : rows[i] # "absent" => rows[i] # "absent"
  OBVIOUS
<1> HIDE DEF ps, os, r, imports
<1>11. \E qs, ns, s : qs = ps /\ ns = os /\ s = r
  OBVIOUS
<1>12. PICK qs, ns, s : qs = ps /\ ns = os /\ s = r
  BY <1>11
<1>13. /\ qs \in [Zones -> Tokens] /\ ns \in [Zones -> Steps] /\ s \in Run
       /\ ApplyReady(rows, markers, qs, ns)
       /\ run' = [run EXCEPT ![w] = s]
       /\ \A z \in Zones : qs[z] <= Len(feed) /\ (qs[z] # 0 => ns[z] # "none")
       /\ \A z \in Zones \ blind : ns[z] = "import" => Covered(rows, z, qs[z])
  BY <1>1, <1>2, <1>3, <1>4, <1>7, <1>8, <1>12
<1> QED BY <1>13, <1>4, <1>5, <1>6, <1>9, <1>10, Saved

LEMMA SaveImportStep ==
  ASSUME IInv, NEW w \in Runs, SaveImport(w)
  PROVE  IInv'
<1> DEFINE got == run[w].got
           to == run[w].to
           reset == run[w].reset
<1>0. TypeOK /\ TableInv /\ RunInv(w) /\ run[w].phase = "imported"
  BY DEF IInv, SaveImport
<1>1. /\ got \subseteq Positions /\ reset \subseteq Zones
      /\ to \in [Zones -> Tokens] /\ IdleRun \in Run
  BY <1>0, RunsTyped DEF TypeOK, Run
<1>2. PICK g, t, e : g = got /\ t = to /\ e = reset
  OBVIOUS
<1>3. PICK rs, ms, ps, os :
        rs = Imported(g, e) /\ ms = Marked(t, e) /\ ps = Captured(t) /\ os = CapturedBy("import", t)
  OBVIOUS
<1>4. /\ ps \in [Zones -> Tokens] /\ os \in [Zones -> Steps]
      /\ ms \in [Zones \X Tokens -> Statuses]
      /\ \A z \in Zones :
           \/ t[z] # 0 /\ ps[z] = t[z] /\ os[z] = "import"
           \/ ps[z] = pending[z] /\ os[z] = origin[z]
  BY <1>0, <1>1, <1>2, <1>3, CapturedTokens DEF Steps
<1>5. /\ rs \in [Positions -> Statuses]
      /\ \A i \in Positions : rows[i] # "absent" => rs[i] # "absent"
      /\ \A i \in DOMAIN feed : i \in g => Known(rs, i)
  BY <1>0, <1>3, ImportedRows
<1>6. ApplyReady(rs, ms, ps, os)
  <2>1. CASE w \in Syncs
    BY <2>1, <1>2, <1>3 DEF SaveImport
  <2>2. CASE w \notin Syncs
    <3>1. rows' = rs /\ markers' = ms /\ pending' = ps /\ origin' = os /\ UNCHANGED <<applied, blind>>
      BY <2>2, <1>2, <1>3 DEF SaveImport
    <3> QED BY <3>1 DEF ApplyReady
  <2> QED BY <2>1, <2>2
<1>7. run' = [run EXCEPT ![w] = IdleRun] /\ UNCHANGED feed /\ resets' \in Nat
  BY <1>0 DEF SaveImport, TypeOK
<1>8. RunInv(w)'
  <2>1. run'[w] = IdleRun
    BY <1>0, <1>7 DEF TypeOK
  <2> QED BY <2>1, <1>0, <1>7, RunIdle
<1>9. \A z \in Zones : ps[z] <= Len(feed) /\ (ps[z] # 0 => os[z] # "none")
  BY <1>0, <1>2, <1>4 DEF TableInv, RunInv
<1>10. ASSUME NEW z \in Zones \ blind, os[z] = "import" PROVE Covered(rs, z, ps[z])
  <2>1. \A i \in DOMAIN feed : rows[i] # "absent" => rs[i] # "absent"
    BY <1>0, <1>5, FeedDomain
  <2>2. CASE t[z] # 0 /\ ps[z] = t[z] /\ os[z] = "import"
    <3> SUFFICES ASSUME NEW i \in DOMAIN feed, ZoneOf(i) = z, Newest(i), i <= t[z]
                 PROVE  Known(rs, i)
      BY <2>2 DEF Covered
    <3>1. CoveredBut(got, rows, z, to[z])
      BY <1>0 DEF RunInv
    <3>2. Known(rows, i) \/ i \in g
      BY <3>1, <1>2 DEF CoveredBut
    <3> QED BY <3>2, <2>1, <1>5 DEF Known
  <2>3. CASE ps[z] = pending[z] /\ os[z] = origin[z]
    <3>1. Covered(rows, z, pending[z])
      BY <2>3, <1>0, <1>10 DEF TableInv, CoveredUnlessBlind
    <3> QED BY <3>1, <2>1, <2>3, CoveredGrows
  <2> QED BY <2>2, <2>3, <1>4
<1>11. PICK idle \in Run : run' = [run EXCEPT ![w] = idle]
  BY <1>1, <1>7
<1>12. \A z \in Zones \ blind : os[z] = "import" => Covered(rs, z, ps[z])
  BY <1>10
<1>13. UNCHANGED feed /\ resets' \in Nat
  BY <1>7
<1> HIDE DEF got, to, reset
<1> QED BY <1>4, <1>5, <1>6, <1>8, <1>9, <1>11, <1>12, <1>13, Saved

LEMMA OwnerAppliesStep ==
  ASSUME IInv, OwnerApplies
  PROVE  IInv'
<1>0. TypeOK /\ TableInv /\ UNCHANGED <<feed, run, resets>>
  BY DEF IInv, OwnerApplies
<1>1. /\ rows \in [Positions -> Statuses] /\ markers \in [Zones \X Tokens -> Statuses]
      /\ pending \in [Zones -> Tokens] /\ origin \in [Zones -> Steps]
  BY <1>0 DEF TypeOK, Steps
<1>2. PICK rs, ms, ps, os : rs = rows /\ ms = markers /\ ps = pending /\ os = origin
  OBVIOUS
<1>3. Apply({"auto-ready", "pending-review"}, rs, ms, ps, os)
  BY <1>2 DEF OwnerApplies
<1>4. Outcome(rs, ps, os) /\ TablesOK'
  BY <1>0, <1>1, <1>2, <1>3, ApplyOutcome
<1>5. \A z \in Zones : ps[z] <= Len(feed) /\ (ps[z] # 0 => os[z] # "none")
  BY <1>0, <1>2 DEF TableInv
<1>6. \A z \in Zones \ blind : os[z] = "import" => Covered(rs, z, ps[z])
  BY <1>0, <1>2 DEF TableInv, CoveredUnlessBlind
<1>7. TableInv' /\ RowsGrow
  BY <1>0, <1>1, <1>2, <1>4, <1>5, <1>6, TableSaved
<1>8. TypeOK'
  BY <1>0, <1>4 DEF TypeOK, TablesOK, Steps
<1>9. \A w \in Runs : RunInv(w)'
  BY <1>0, <1>4, <1>7, RunKept DEF IInv, Outcome, FeedGrows
<1> QED BY <1>7, <1>8, <1>9 DEF IInv

\* The invariant holds in every reachable state.
LEMMA InitInv == Init => IInv
<1> SUFFICES ASSUME Init PROVE IInv
  OBVIOUS
<1>1. NoTokens \in [Zones -> Tokens] /\ \A z \in Zones : NoTokens[z] = 0
  BY BoundsAssumption DEF NoTokens, Tokens
<1>2. IdleRun \in Run
  BY <1>1 DEF IdleRun, Run, Phases
<1>3. feed = << >> /\ feed \in Seq(Change) /\ Len(feed) = 0 /\ DOMAIN feed = {}
  BY DEF Init
<1>4. TypeOK
  BY <1>1, <1>2, <1>3, BoundsAssumption DEF Init, TypeOK, Statuses
<1>5. TableInv
  BY <1>1, <1>3 DEF Init, TableInv, CoveredUnlessBlind, Covered
<1>6. \A w \in Runs : RunInv(w)
  BY <1>1, <1>3 DEF Init, RunInv, IdleRun, CoveredBut
<1> QED BY <1>4, <1>5, <1>6 DEF IInv

LEMMA StepInv == IInv /\ [Next]_vars => IInv'
<1> SUFFICES ASSUME IInv, [Next]_vars PROVE IInv'
  OBVIOUS
<1>0. TypeOK /\ TableInv
  BY DEF IInv
<1>1. CASE \E r \in Records, k \in Kinds : RemoteChange(r, k)
  BY <1>1, RemoteChangeStep
<1>2. ASSUME NEW w \in Runs, StartSync(w) \/ StartProbe(w) PROVE IInv'
  <2>1. PICK phase \in {"previewing", "importing"} : run' = [run EXCEPT ![w] = Asking(phase)]
    BY <1>2 DEF StartSync, StartProbe
  <2>2. UNCHANGED <<feed, applied, pending, rows, markers, resets, origin, blind>>
    BY <1>2 DEF StartSync, StartProbe
  <2>3. run'[w] = Asking(phase) /\ \A v \in Runs : v # w => run'[v] = run[v]
    BY <1>0, <2>1 DEF TypeOK
  <2>4. run' \in [Runs -> Run]
    BY <1>0, <2>1, RunsTyped DEF TypeOK, Phases
  <2>5. RunInv(w)'
    BY <1>0, <2>2, <2>3, RunAsks
  <2> QED BY <1>0, <2>2, <2>3, <2>4, <2>5, RunsOnly DEF TypeOK
<1>3. ASSUME NEW w \in Runs, NEW to \in [Zones -> 0 .. Len(feed)], NEW reset \in SUBSET Zones,
             SavePreview(w, to, reset)
      PROVE  IInv'
  BY <1>3, SavePreviewStep
<1>4. ASSUME NEW w \in Runs, NEW to \in [Zones -> 0 .. Len(feed)], NEW reset \in SUBSET Zones,
             ReadImport(w, to, reset)
      PROVE  IInv'
  <2>1. UNCHANGED <<feed, applied, pending, rows, markers, origin, blind>> /\ resets' \in Nat
    BY <1>0, <1>4, PagesCounted DEF ReadImport
  <2>2. run' \in [Runs -> Run] /\ \A v \in Runs : v # w => run'[v] = run[v]
    BY <1>0, <1>4, RunsTyped DEF ReadImport, TypeOK
  <2>3. RunInv(w)'
    BY <1>0, <1>4, RunReads DEF IInv
  <2> QED BY <2>1, <2>2, <2>3, RunsOnly
<1>5. ASSUME NEW w \in Runs, HelperFails(w) PROVE IInv'
  <2>1. /\ UNCHANGED <<feed, applied, pending, rows, markers, resets, origin, blind>>
        /\ run' \in [Runs -> Run]
        /\ run'[w] = IdleRun /\ \A v \in Runs : v # w => run'[v] = run[v]
    BY <1>0, <1>5, RunsTyped DEF HelperFails, TypeOK
  <2>2. RunInv(w)'
    BY <1>0, <2>1, RunIdle
  <2> QED BY <1>0, <2>1, <2>2, RunsOnly DEF TypeOK
<1>6. ASSUME NEW w \in Runs, SaveImport(w) PROVE IInv'
  BY <1>6, SaveImportStep
<1>7. CASE OwnerApplies
  BY <1>7, OwnerAppliesStep
<1>8. CASE Restart
  <2>1. /\ UNCHANGED <<feed, applied, pending, rows, markers, resets, origin, blind>>
        /\ run' \in [Runs -> Run]
        /\ \A w \in Runs : run'[w] = IdleRun
    BY <1>8, <1>0, RunsTyped DEF Restart
  <2>2. \A w \in Runs : RunInv(w)'
    BY <1>0, <2>1, RunIdle
  <2> QED BY <1>0, <2>1, <2>2, RunsOnly DEF TypeOK
<1>9. CASE UNCHANGED vars
  BY <1>0, <1>9, RunsOnly DEF vars, TypeOK
<1> QED BY <1>1, <1>2, <1>3, <1>4, <1>5, <1>6, <1>7, <1>8, <1>9 DEF Next

LEMMA Invariance == Spec => []IInv
BY InitInv, StepInv, PTL DEF Spec

\* Type correctness of the checkpoint and quarantine tables and the requests.
THEOREM PullTypeCorrect == Spec => []TypeOK
<1>1. IInv => TypeOK
  BY DEF IInv
<1> QED BY <1>1, Invariance, PTL

\* The checkpoint covers only quarantined changes in every zone that never
\* promoted a token that a preview saved.
THEOREM CoveredUnlessBlindHolds == Spec => []CoveredUnlessBlind
<1>1. IInv => CoveredUnlessBlind
  BY DEF IInv, TableInv
<1> QED BY <1>1, Invariance, PTL

-----------------------------------------------------------------------------
(* What a step never does *)

\* What an apply does to the rows it finds, and when it moves a checkpoint.
Settles(rs) ==
  /\ \A i \in Positions : rs[i] \in Decided => rows'[i] = rs[i]
  /\ \A z \in Zones : applied'[z] # applied[z] =>
       /\ \A i \in DOMAIN feed : ZoneOf(i) = z => rows'[i] \notin Unresolved
       /\ \A t \in Tokens : markers'[<<z, t>>] \notin Unresolved

LEMMA ApplySettles ==
  ASSUME TypeOK, NEW S, S \cap Decided = {}, NEW rs, NEW ms, NEW ps, NEW os,
         Apply(S, rs, ms, ps, os)
  PROVE  Settles(rs)
<1>1. PICK batch, bad, ready :
        /\ \A i \in batch : rs[i] \in S
        /\ rows' = [i \in Positions |->
             IF i \notin batch THEN rs[i]
             ELSE IF i \in bad \/ feed[i].kind = "deleted" THEN "conflict" ELSE "applied"]
        /\ ready \cap Blocked = {}
        /\ applied' = [z \in Zones |-> IF z \in ready THEN ps[z] ELSE applied[z]]
  <2> DEFINE found      == {i \in DOMAIN feed : rs[i] \in S}
             foundMarks == {m \in Zones \X Tokens : ms[m] \in S}
             Ready(batch, marks) ==
               {z \in ({ZoneOf(i) : i \in batch} \cup {m[1] : m \in marks}) \ Blocked : ps[z] # 0}
  <2>1. PICK batch \in SUBSET found, marks \in SUBSET foundMarks :
        \E bad \in SUBSET {i \in batch : feed[i].kind # "deleted"} :
          /\ rows' = [i \in Positions |->
               IF i \notin batch THEN rs[i]
               ELSE IF i \in bad \/ feed[i].kind = "deleted" THEN "conflict" ELSE "applied"]
          /\ Promote(Ready(batch, marks), ps, os)
    BY Zenon DEF Apply
  <2>2. PICK ready : ready = Ready(batch, marks)
    OBVIOUS
  <2>3. applied' = [z \in Zones |-> IF z \in ready THEN ps[z] ELSE applied[z]]
    BY <2>1, <2>2, Zenon DEF Promote
  <2>4. ready \cap Blocked = {} /\ \A i \in batch : rs[i] \in S
    BY <2>2
  <2>5. PICK bad : rows' = [i \in Positions |->
               IF i \notin batch THEN rs[i]
               ELSE IF i \in bad \/ feed[i].kind = "deleted" THEN "conflict" ELSE "applied"]
    BY <2>1, Zenon
  <2> QED BY <2>3, <2>4, <2>5
<1>2. ASSUME NEW i \in Positions, rs[i] \in Decided PROVE rows'[i] = rs[i]
  BY <1>1, <1>2
<1>3. ASSUME NEW z \in Zones, applied'[z] # applied[z]
      PROVE  /\ \A i \in DOMAIN feed : ZoneOf(i) = z => rows'[i] \notin Unresolved
             /\ \A t \in Tokens : markers'[<<z, t>>] \notin Unresolved
  <2>1. z \notin Blocked
    BY <1>1, <1>3 DEF TypeOK
  <2>2. ASSUME NEW i \in DOMAIN feed, ZoneOf(i) = z PROVE rows'[i] \notin Unresolved
    BY <2>1, <2>2 DEF Blocked
  <2>3. ASSUME NEW t \in Tokens PROVE markers'[<<z, t>>] \notin Unresolved
    <3>1. <<z, t>> \in Zones \X Tokens /\ <<z, t>>[1] = z
      OBVIOUS
    <3> QED BY <2>1, <3>1 DEF Blocked
  <2> QED BY <2>2, <2>3
<1> QED BY <1>2, <1>3 DEF Settles

LEMMA ApplyReadySettles ==
  ASSUME TypeOK, NEW rs, NEW ms, NEW ps, NEW os, ApplyReady(rs, ms, ps, os)
  PROVE  Settles(rs)
<1>1. CASE Apply({"auto-ready"}, rs, ms, ps, os)
  <2>1. {"auto-ready"} \cap Decided = {}
    BY DEF Decided
  <2> QED BY <1>1, <2>1, ApplySettles
<1>2. CASE rows' = rs /\ UNCHANGED applied
  BY <1>2 DEF Settles
<1> QED BY <1>1, <1>2 DEF ApplyReady

\* Every step settles the rows it starts from.
LEMMA StepSettles == TypeOK /\ [Next]_vars => Settles(rows)
<1> SUFFICES ASSUME TypeOK, [Next]_vars PROVE Settles(rows)
  OBVIOUS
<1>1. CASE UNCHANGED <<applied, rows>>
  BY <1>1 DEF Settles
<1>2. ASSUME NEW w \in Runs, NEW to, NEW reset, SavePreview(w, to, reset)
      PROVE  Settles(rows)
  <2>1. CASE UNCHANGED <<applied, rows>>
    BY <2>1, <1>1
  <2>2. CASE ~UNCHANGED <<applied, rows>>
    <3>1. ApplyReady(rows, markers, Captured(to), CapturedBy("preview", to))
      BY <2>2, <1>2 DEF SavePreview
    <3>2. PICK rs, ms, ps, os :
            /\ rs = rows /\ ms = markers /\ ps = Captured(to) /\ os = CapturedBy("preview", to)
            /\ ApplyReady(rs, ms, ps, os)
      BY <3>1
    <3>3. Settles(rs)
      BY <3>2, ApplyReadySettles
    <3> QED BY <3>2, <3>3
  <2> QED BY <2>1, <2>2
<1>3. ASSUME NEW w \in Runs, SaveImport(w) PROVE Settles(rows)
  <2>1. PICK rs, ms, ps, os :
          /\ rs = Imported(run[w].got, run[w].reset)
          /\ ApplyReady(rs, ms, ps, os) \/ (rows' = rs /\ UNCHANGED applied)
    BY <1>3 DEF SaveImport
  <2>2. Settles(rs)
    BY <2>1, ApplyReadySettles DEF Settles
  <2>3. \A i \in Positions : rows[i] \in Decided => rs[i] = rows[i]
    BY <2>1 DEF Imported, Known, Decided
  <2> QED BY <2>2, <2>3 DEF Settles
<1>4. CASE OwnerApplies
  <2>1. {"auto-ready", "pending-review"} \cap Decided = {}
    BY DEF Decided
  <2>2. PICK rs, ms, ps, os :
          rs = rows /\ Apply({"auto-ready", "pending-review"}, rs, ms, ps, os)
    BY <1>4 DEF OwnerApplies
  <2>3. Settles(rs)
    BY <2>1, <2>2, ApplySettles
  <2> QED BY <2>2, <2>3
<1> QED
  BY <1>1, <1>2, <1>3, <1>4
  DEF Next, vars, RemoteChange, StartSync, StartProbe, ReadImport, HelperFails, Restart

\* A decided row is never reopened, whatever is fetched again.
THEOREM DecidedStaysDecidedHolds == Spec => DecidedStaysDecided
<1>1. IInv /\ [Next]_vars => [\A i \in Positions : rows[i] \in Decided => rows'[i] = rows[i]]_vars
  BY StepSettles DEF IInv, Settles
<1> QED BY <1>1, Invariance, PTL DEF Spec, DecidedStaysDecided

\* A checkpoint moves only over a zone with nothing unresolved.
THEOREM UnresolvedHoldsCheckpointHolds == Spec => UnresolvedHoldsCheckpoint
<1>1. IInv /\ [Next]_vars =>
        [\A z \in Zones : applied'[z] # applied[z] =>
           /\ \A i \in DOMAIN feed :
                ZoneOf(i) = z => rows'[i] \notin {"pending-review", "conflict", "failed"}
           /\ \A t \in Tokens : markers'[<<z, t>>] # "pending-review"]_vars
  BY StepSettles DEF IInv, Settles, Unresolved
<1> QED BY <1>1, Invariance, PTL DEF Spec, UnresolvedHoldsCheckpoint

-----------------------------------------------------------------------------
(* The promise of RemoteInbox *)

\* A row is of a change that was made, and so is what an import has read.
ArrivedInv ==
  /\ \A i \in Positions \ DOMAIN feed : rows[i] = "absent"
  /\ \A w \in Runs : run[w].got \subseteq DOMAIN feed

LEMMA PostsAre ==
  ASSUME TypeOK
  PROVE  /\ DOMAIN Posts = DOMAIN feed
         /\ \A i \in DOMAIN feed : Posts[i] = [zone |-> ZoneOf(i), kind |-> feed[i].kind]
BY DEF Posts

\* What an apply makes of the rows it finds.
Verdicts(S, rs) ==
  /\ blind \subseteq blind'
  /\ \A i \in Positions :
       \/ rows'[i] = rs[i]
       \/ i \in DOMAIN feed /\ rs[i] \in S /\ rows'[i] \in Inbox!Verdict(feed[i].kind)

LEMMA ApplyVerdicts ==
  ASSUME NEW S, NEW rs, NEW ms, NEW ps, NEW os, Apply(S, rs, ms, ps, os)
  PROVE  Verdicts(S, rs)
<1> DEFINE found      == {i \in DOMAIN feed : rs[i] \in S}
           foundMarks == {m \in Zones \X Tokens : ms[m] \in S}
           Ready(batch, marks) ==
             {z \in ({ZoneOf(i) : i \in batch} \cup {m[1] : m \in marks}) \ Blocked : ps[z] # 0}
<1>1. PICK batch \in SUBSET found, marks \in SUBSET foundMarks :
      \E bad \in SUBSET {i \in batch : feed[i].kind # "deleted"} :
        /\ rows' = [i \in Positions |->
             IF i \notin batch THEN rs[i]
             ELSE IF i \in bad \/ feed[i].kind = "deleted" THEN "conflict" ELSE "applied"]
        /\ Promote(Ready(batch, marks), ps, os)
  BY Zenon DEF Apply
<1>2. blind \subseteq blind'
  <2>1. PICK ready : Promote(ready, ps, os)
    BY <1>1
  <2> QED BY <2>1 DEF Promote
<1>3. PICK bad : rows' = [i \in Positions |->
             IF i \notin batch THEN rs[i]
             ELSE IF i \in bad \/ feed[i].kind = "deleted" THEN "conflict" ELSE "applied"]
  BY <1>1, Zenon
<1> QED BY <1>2, <1>3 DEF Verdicts, Inbox!Verdict

LEMMA ApplyReadyVerdicts ==
  ASSUME NEW rs, NEW ms, NEW ps, NEW os, ApplyReady(rs, ms, ps, os)
  PROVE  Verdicts({"auto-ready"}, rs)
<1>1. CASE Apply({"auto-ready"}, rs, ms, ps, os)
  BY <1>1, ApplyVerdicts
<1>2. CASE rows' = rs /\ UNCHANGED blind
  BY <1>2 DEF Verdicts
<1> QED BY <1>1, <1>2 DEF ApplyReady

\* What an import files, and the pull it belongs to decides at once.
LEMMA ImportedVerdicts ==
  ASSUME TypeOK, NEW got, NEW reset, got \subseteq DOMAIN feed,
         Verdicts({"auto-ready"}, Imported(got, reset))
  PROVE  \A i \in Positions :
           \/ rows'[i] = rows[i]
           \/ i \in DOMAIN feed /\ rows[i] = "absent" /\ rows'[i] \in Inbox!Arrival(feed[i].kind)
           \/ i \in DOMAIN feed /\ rows[i] = "auto-ready" /\ rows'[i] \in Inbox!Verdict(feed[i].kind)
<1> SUFFICES ASSUME NEW i \in Positions, rows'[i] # rows[i]
             PROVE  /\ i \in DOMAIN feed
                    /\ \/ rows[i] = "absent" /\ rows'[i] \in Inbox!Arrival(feed[i].kind)
                       \/ rows[i] = "auto-ready" /\ rows'[i] \in Inbox!Verdict(feed[i].kind)
  OBVIOUS
<1> DEFINE rs == Imported(got, reset)
<1>1. \/ rows'[i] = rs[i]
      \/ i \in DOMAIN feed /\ rs[i] = "auto-ready" /\ rows'[i] \in Inbox!Verdict(feed[i].kind)
  BY DEF Verdicts
<1>2. CASE i \in got /\ ~Known(rows, i)
  <2>1. i \in DOMAIN feed /\ rows[i] = "absent" /\ rs[i] = FirstStatus(i, reset)
    BY <1>2 DEF Imported, Known
  <2>2. CASE feed[i].kind = "new"
    BY <1>1, <2>1, <2>2 DEF FirstStatus, Inbox!Arrival, Inbox!Verdict
  <2>3. CASE feed[i].kind = "broken"
    BY <1>1, <2>1, <2>3 DEF FirstStatus, Inbox!Arrival
  <2>4. CASE feed[i].kind \in {"edit", "deleted"}
    BY <1>1, <2>1, <2>4 DEF FirstStatus, Inbox!Arrival
  <2>5. feed[i].kind \in ChangeKinds
    BY <2>1, FeedDomain DEF Change
  <2> QED BY <2>1, <2>2, <2>3, <2>4, <2>5 DEF ChangeKinds
<1>3. CASE ~(i \in got /\ ~Known(rows, i))
  <2>1. rs[i] = rows[i]
    BY <1>3 DEF Imported
  <2> QED BY <1>1, <2>1
<1> QED BY <1>2, <1>3

\* Marks move over what is in the inbox and resolved.
LEMMA MarksMoveOver ==
  ASSUME IInv, IInv', UNCHANGED feed, Settles(rows), blind \subseteq blind'
  PROVE  Inbox!MarksMove
<1> SUFFICES ASSUME NEW z \in Zones, applied'[z] # applied[z],
                    NEW i \in DOMAIN feed, ZoneOf(i) = z
             PROVE  /\ rows'[i] \notin Unresolved
                    /\ z \in blind' \/ i \in Replaced \/ i > applied'[z] \/ i \in Arrived'
  BY PostsAre DEF IInv, Inbox!MarksMove, Inbox!Unresolved, Unresolved
<1>1. rows'[i] \notin Unresolved
  BY DEF Settles
<1>2. ASSUME z \notin blind', Newest(i), i <= applied'[z] PROVE i \in Arrived'
  BY <1>2 DEF IInv, TableInv, CoveredUnlessBlind, Covered, Arrived, ZoneOf, Newest
<1>3. i \in Nat /\ applied'[z] \in Nat
  BY FeedDomain, BoundsAssumption DEF IInv, TypeOK, Tokens
<1> QED BY <1>1, <1>2, <1>3 DEF Replaced

LEMMA Imports ==
  ASSUME IInv, IInv', ArrivedInv, UNCHANGED feed, Settles(rows), blind \subseteq blind',
         \A i \in Positions :
           \/ rows'[i] = rows[i]
           \/ i \in DOMAIN feed /\ rows[i] = "absent" /\ rows'[i] \in Inbox!Arrival(feed[i].kind)
           \/ i \in DOMAIN feed /\ rows[i] = "auto-ready" /\ rows'[i] \in Inbox!Verdict(feed[i].kind)
  PROVE  Inbox!Import
<1>1. UNCHANGED <<Posts, Replaced>>
  BY DEF Posts, Replaced, ZoneOf, Newest
<1>2. /\ \A i \in Positions : rows[i] # "absent" => rows'[i] # "absent"
      /\ \A i \in Positions : rows'[i] # rows[i] => i \in DOMAIN feed /\ rows'[i] # "absent"
  BY DEF Inbox!Arrival, Inbox!Verdict
<1>3. Arrived \subseteq Arrived' /\ Arrived' \subseteq DOMAIN feed
  BY <1>2, FeedDomain DEF IInv, Arrived, Known
<1>4. \A i \in DOMAIN feed : (rows[i] # "absent" => i \in Arrived) /\ (rows'[i] # "absent" => i \in Arrived')
  BY DEF Arrived, Known
<1>5. \A i \in Arrived' : rows'[i] = "absent" => feed[i].kind = "deleted"
  BY DEF Arrived, Known
<1>6. Inbox!MarksMove
  BY MarksMoveOver
<1>7. \A i \in Positions :
       \/ rows'[i] = rows[i]
       \/ i \in Arrived' /\ rows[i] = "absent" /\ rows'[i] \in Inbox!Arrival(Posts[i].kind)
       \/ i \in Arrived /\ rows[i] = "auto-ready" /\ rows'[i] \in Inbox!Verdict(Posts[i].kind)
  BY <1>2, <1>4, PostsAre DEF IInv
<1> QED BY <1>1, <1>3, <1>5, <1>6, <1>7, PostsAre DEF IInv, Inbox!Import

LEMMA Reviews ==
  ASSUME IInv, IInv', ArrivedInv, OwnerApplies
  PROVE  Inbox!Review
<1>1. UNCHANGED feed /\ Verdicts({"auto-ready", "pending-review"}, rows)
  <2>1. PICK rs, ms, ps, os :
          rs = rows /\ Apply({"auto-ready", "pending-review"}, rs, ms, ps, os)
    BY DEF OwnerApplies
  <2>2. Verdicts({"auto-ready", "pending-review"}, rs)
    BY <2>1, ApplyVerdicts
  <2> QED BY <2>1, <2>2 DEF OwnerApplies
<1>2. Settles(rows)
  BY StepSettles DEF IInv, Next
<1>3. Inbox!MarksMove
  BY <1>1, <1>2, MarksMoveOver DEF Verdicts
<1>4. \A i \in Positions : rows[i] = "absent" <=> rows'[i] = "absent"
  BY <1>1 DEF Verdicts, Inbox!Verdict
<1>5. UNCHANGED <<Posts, Replaced, Arrived>>
  <2>1. \A i \in DOMAIN feed : Known(rows, i) <=> Known(rows, i)'
    BY <1>1, <1>4, FeedDomain DEF IInv, Known
  <2> QED BY <1>1, <2>1 DEF Posts, Replaced, Arrived, ZoneOf, Newest
<1>6. \A i \in Positions :
       \/ rows'[i] = rows[i]
       \/ /\ i \in Arrived /\ rows[i] \in {"auto-ready", "pending-review"}
          /\ rows'[i] \in Inbox!Verdict(Posts[i].kind)
  BY <1>1, PostsAre DEF IInv, Verdicts, Arrived, Known
<1> QED BY <1>3, <1>5, <1>6 DEF Inbox!Review

\* A change that is made replaces the older ones of its record.
LEMMA PostMaps ==
  ASSUME IInv, ArrivedInv, NEW r \in Records, NEW k \in Kinds, RemoteChange(r, k)
  PROVE  Inbox!Post(Home[r], k) /\ k \in ChangeKinds /\ Home[r] \in Zones
<1> DEFINE p == [zone |-> Home[r], kind |-> k]
<1> PICK n : n = Len(feed) + 1
  OBVIOUS
<1>0. /\ TypeOK /\ UNCHANGED <<rows, applied, blind>>
      /\ k \in ChangeKinds /\ Home[r] \in Zones
  BY FeedAssumption DEF IInv, RemoteChange
<1>1. /\ feed' = Append(feed, [rec |-> r, kind |-> k])
      /\ Len(feed') = n /\ n <= MaxChanges /\ DOMAIN feed' = DOMAIN feed \cup {n}
      /\ \A i \in DOMAIN feed : feed'[i] = feed[i]
  BY <1>0, Appended DEF RemoteChange
<1>2. DOMAIN feed = 1 .. Len(feed) /\ Len(feed) \in Nat
  BY <1>0, FeedDomain
<1>3. feed'[n] = [rec |-> r, kind |-> k]
  BY <1>0, <1>1, <1>2 DEF TypeOK
<1>4. Posts' = Append(Posts, p)
  <2> DEFINE S == [zone : Zones, kind : ChangeKinds]
  <2>1. Posts = [i \in 1 .. Len(feed) |-> [zone |-> ZoneOf(i), kind |-> feed[i].kind]]
    BY <1>2 DEF Posts
  <2>2. \A i \in 1 .. Len(feed) : [zone |-> ZoneOf(i), kind |-> feed[i].kind] \in S
    BY <1>0, <1>2, FeedDomain DEF Change
  <2>3. Posts \in Seq(S) /\ Len(Posts) = Len(feed)
    <3> HIDE DEF S
    <3> QED BY <1>2, <2>1, <2>2
  <2>4. p \in S
    BY <1>0
  <2>5. /\ Append(Posts, p) \in [1 .. n -> S]
        /\ \A i \in 1 .. n : Append(Posts, p)[i] = IF i = n THEN p ELSE Posts[i]
    <3> HIDE DEF S, p
    <3>1. Append(Posts, p) \in Seq(S) /\ Len(Append(Posts, p)) = n
      BY <1>2, <2>3, <2>4
    <3>2. \A i \in 1 .. n : Append(Posts, p)[i] = IF i = n THEN p ELSE Posts[i]
      BY <1>2, <2>3, <2>4
    <3> QED BY <3>1, <3>2, LenProperties
  <2>6. Posts' = [i \in 1 .. n |-> [zone |-> Home[feed'[i].rec], kind |-> feed'[i].kind]]
    BY <1>1, <1>2 DEF Posts, ZoneOf
  <2>7. \A i \in 1 .. n : [zone |-> Home[feed'[i].rec], kind |-> feed'[i].kind]
                            = IF i = n THEN p ELSE Posts[i]
    <3>1. \A i \in 1 .. Len(feed) : feed'[i] = feed[i] /\ i # n
      BY <1>1, <1>2
    <3>2. \A i \in 1 .. n : i = n \/ i \in 1 .. Len(feed)
      BY <1>2
    <3> QED BY <1>3, <2>1, <3>1, <3>2 DEF ZoneOf
  <2> HIDE DEF p
  <2> QED BY <2>5, <2>6, <2>7
<1>5. Replaced \subseteq Replaced' /\ Replaced' \subseteq DOMAIN feed
  <2>1. ASSUME NEW i \in Replaced PROVE i \in Replaced'
    <3>1. PICK j \in i + 1 .. Len(feed) : feed[j].rec = feed[i].rec
      BY <2>1 DEF Replaced, Newest
    <3>2. i \in DOMAIN feed /\ j \in DOMAIN feed /\ j \in i + 1 .. n
      BY <1>2, <2>1 DEF Replaced
    <3> QED BY <1>1, <3>1, <3>2 DEF Replaced, Newest
  <2>2. ASSUME NEW i \in Replaced' PROVE i \in DOMAIN feed
    <3>1. i \in DOMAIN feed' /\ i + 1 .. n # {}
      BY <1>1, <2>2 DEF Replaced, Newest
    <3> QED BY <1>1, <1>2, <3>1
  <2> QED BY <2>1, <2>2
<1>6. \A i \in Replaced' \ Replaced : Posts[i].zone = Home[r]
  <2> SUFFICES ASSUME NEW i \in Replaced' \ Replaced PROVE Posts[i].zone = Home[r]
    OBVIOUS
  <2>1. i \in DOMAIN feed /\ Newest(i)
    BY <1>5 DEF Replaced
  <2>2. PICK j \in i + 1 .. n : feed'[j].rec = feed'[i].rec
    BY <1>1 DEF Replaced, Newest
  <2>3. j = n
    <3>1. j \in i + 1 .. Len(feed) \/ j = n
      BY <1>2, <2>1
    <3>2. j \in i + 1 .. Len(feed) => feed'[j] = feed[j] /\ feed'[i] = feed[i]
      BY <1>1, <1>2, <2>1
    <3> QED BY <2>1, <2>2, <3>1, <3>2 DEF Newest
  <2>4. feed[i].rec = r
    BY <1>1, <1>3, <2>1, <2>2, <2>3
  <2> QED BY <1>0, <2>1, <2>4, PostsAre DEF ZoneOf
<1>7. Arrived' = Arrived \/ (k = "deleted" /\ Arrived' = Arrived \cup {n})
  <2>1. rows[n] = "absent" /\ n \notin DOMAIN feed
    BY <1>1, <1>2, BoundsAssumption DEF ArrivedInv, Positions
  <2>2. \A i \in DOMAIN feed : Known(rows, i)' <=> Known(rows, i)
    BY <1>0, <1>1, <2>1 DEF Known
  <2>3. Known(rows, n)' => k = "deleted"
    BY <1>0, <1>3, <2>1 DEF Known
  <2> QED BY <1>1, <2>1, <2>2, <2>3 DEF Arrived
<1>8. Len(Posts') = n /\ DOMAIN Posts = DOMAIN feed
  BY <1>0, <1>1, <1>2, PostsAre DEF Posts
<1> QED BY <1>0, <1>4, <1>5, <1>6, <1>7, <1>8 DEF Inbox!Post

LEMMA InboxSame ==
  ASSUME UNCHANGED <<feed, rows, applied, blind>>
  PROVE  [Inbox!Next]_(Inbox!vars)
BY DEF Inbox!vars, Posts, Replaced, Arrived, ZoneOf, Newest, Known

LEMMA StepMaps ==
  ASSUME IInv, IInv', ArrivedInv, [Next]_vars
  PROVE  [Inbox!Next]_(Inbox!vars)
<1>0. TypeOK /\ Settles(rows)
  BY StepSettles DEF IInv
<1>1. ASSUME NEW r \in Records, NEW k \in Kinds, RemoteChange(r, k)
      PROVE  [Inbox!Next]_(Inbox!vars)
  BY <1>1, PostMaps DEF Inbox!Next, ChangeKinds
<1>2. ASSUME UNCHANGED feed, Verdicts({"auto-ready"}, rows)
      PROVE  [Inbox!Next]_(Inbox!vars)
  <2>1. Inbox!Import
    BY <1>0, <1>2, Imports DEF Verdicts
  <2> QED BY <2>1 DEF Inbox!Next
<1>3. ASSUME NEW w \in Runs, NEW to, NEW reset, SavePreview(w, to, reset)
      PROVE  [Inbox!Next]_(Inbox!vars)
  <2>1. UNCHANGED feed
    BY <1>3 DEF SavePreview
  <2>2. CASE UNCHANGED <<applied, rows, blind>>
    BY <2>1, <2>2, InboxSame
  <2>3. CASE ~UNCHANGED <<applied, rows, blind>>
    <3>1. PICK rs, ms, ps, os : rs = rows /\ ApplyReady(rs, ms, ps, os)
      BY <1>3, <2>3 DEF SavePreview
    <3>2. Verdicts({"auto-ready"}, rows)
      BY <3>1, ApplyReadyVerdicts
    <3> QED BY <1>2, <2>1, <3>2
  <2> QED BY <2>2, <2>3
<1>4. ASSUME NEW w \in Runs, SaveImport(w)
      PROVE  [Inbox!Next]_(Inbox!vars)
  <2>1. UNCHANGED feed /\ run[w].got \subseteq DOMAIN feed
    BY <1>4 DEF SaveImport, ArrivedInv
  <2>2. PICK rs, ms, ps, os :
          /\ rs = Imported(run[w].got, run[w].reset)
          /\ ApplyReady(rs, ms, ps, os) \/ (rows' = rs /\ UNCHANGED blind)
    BY <1>4 DEF SaveImport
  <2>3. Verdicts({"auto-ready"}, rs)
    BY <2>2, ApplyReadyVerdicts DEF Verdicts
  <2>4. Inbox!Import
    BY <1>0, <2>1, <2>2, <2>3, ImportedVerdicts, Imports DEF Verdicts
  <2> QED BY <2>4 DEF Inbox!Next
<1>5. CASE OwnerApplies
  BY <1>5, Reviews DEF Inbox!Next
<1>6. CASE UNCHANGED <<feed, rows, applied, blind>>
  BY <1>6, InboxSame
<1> QED
  BY <1>1, <1>3, <1>4, <1>5, <1>6
  DEF Next, vars, StartSync, StartProbe, ReadImport, HelperFails, Restart

\* Only changes that were made are read and filed.
LEMMA ArrivedStep ==
  ASSUME IInv, ArrivedInv, [Next]_vars
  PROVE  ArrivedInv'
<1>0. TypeOK /\ DOMAIN feed \subseteq Positions
  BY FeedDomain DEF IInv
<1>1. ASSUME UNCHANGED feed,
             \A i \in Positions : rows'[i] = rows[i] \/ i \in DOMAIN feed,
             \A w \in Runs : run'[w].got \subseteq DOMAIN feed
      PROVE  ArrivedInv'
  BY <1>1 DEF ArrivedInv
<1>2. \A i \in Positions : rows'[i] = rows[i] \/ i \in DOMAIN feed
  <2>1. ASSUME NEW w \in Runs, NEW to, NEW reset, SavePreview(w, to, reset)
        PROVE  \A i \in Positions : rows'[i] = rows[i] \/ i \in DOMAIN feed
    <3>1. CASE UNCHANGED rows
      BY <3>1
    <3>2. CASE ~UNCHANGED rows
      <4>1. PICK rs, ms, ps, os : rs = rows /\ ApplyReady(rs, ms, ps, os)
        BY <2>1, <3>2 DEF SavePreview
      <4> QED BY <4>1, ApplyReadyVerdicts DEF Verdicts
    <3> QED BY <3>1, <3>2
  <2>2. ASSUME NEW w \in Runs, SaveImport(w)
        PROVE  \A i \in Positions : rows'[i] = rows[i] \/ i \in DOMAIN feed
    <3>1. PICK rs, ms, ps, os :
            /\ rs = Imported(run[w].got, run[w].reset)
            /\ ApplyReady(rs, ms, ps, os) \/ rows' = rs
      BY <2>2 DEF SaveImport
    <3>2. \A i \in Positions : rows'[i] = rs[i] \/ i \in DOMAIN feed
      BY <3>1, ApplyReadyVerdicts DEF Verdicts
    <3>3. \A i \in Positions : rs[i] = rows[i] \/ i \in DOMAIN feed
      BY <3>1 DEF Imported, ArrivedInv
    <3> QED BY <3>2, <3>3
  <2>3. CASE OwnerApplies
    <3>1. PICK rs, ms, ps, os :
            rs = rows /\ Apply({"auto-ready", "pending-review"}, rs, ms, ps, os)
      BY <2>3 DEF OwnerApplies
    <3> QED BY <3>1, ApplyVerdicts DEF Verdicts
  <2> QED BY <2>1, <2>2, <2>3
      DEF Next, vars, RemoteChange, StartSync, StartProbe, ReadImport, HelperFails, Restart
<1>3. IdleRun.got = {}
  BY DEF IdleRun
<1>4. ASSUME NEW r \in Records, NEW k \in Kinds, RemoteChange(r, k)
      PROVE  ArrivedInv'
  <2>1. DOMAIN feed \subseteq DOMAIN feed'
    BY <1>0, <1>4, Appended
  <2> QED BY <1>4, <2>1 DEF ArrivedInv, RemoteChange
<1>5. ASSUME NEW w \in Runs, NEW r, r.got \subseteq DOMAIN feed, run' = [run EXCEPT ![w] = r]
      PROVE  \A v \in Runs : run'[v].got \subseteq DOMAIN feed
  BY <1>0, <1>5 DEF ArrivedInv, TypeOK
<1>6. ASSUME NEW w \in Runs, NEW phase, run' = [run EXCEPT ![w] = Asking(phase)]
      PROVE  \A v \in Runs : run'[v].got \subseteq DOMAIN feed
  <2>1. Asking(phase).got = {}
    BY <1>3 DEF Asking, IdleRun
  <2> QED BY <1>5, <1>6, <2>1
<1>7. ASSUME NEW w \in Runs, StartSync(w) \/ StartProbe(w)
      PROVE  ArrivedInv'
  BY <1>1, <1>2, <1>6, <1>7 DEF StartSync, StartProbe
<1>8. ASSUME NEW w \in Runs, NEW to, NEW reset, SavePreview(w, to, reset)
      PROVE  ArrivedInv'
  <2>1. \/ run' = [run EXCEPT ![w] = Asking("importing")]
        \/ run' = [run EXCEPT ![w] = IdleRun]
    BY <1>8 DEF SavePreview
  <2>2. \A v \in Runs : run'[v].got \subseteq DOMAIN feed
    BY <1>3, <1>5, <1>6, <2>1
  <2>3. UNCHANGED feed
    BY <1>8 DEF SavePreview
  <2> QED BY <1>1, <1>2, <2>2, <2>3
<1>9. ASSUME NEW w \in Runs, NEW to, NEW reset, ReadImport(w, to, reset)
      PROVE  ArrivedInv'
  <2> DEFINE r == [IdleRun EXCEPT !.phase = "imported", !.to = to, !.reset = reset,
                                  !.got = Read(w, to, reset)]
  <2>1. run' = [run EXCEPT ![w] = r] /\ UNCHANGED feed
    BY <1>9 DEF ReadImport
  <2>2. r.got \subseteq DOMAIN feed
    BY DEF IdleRun, Read
  <2> HIDE DEF r
  <2> QED BY <1>1, <1>2, <1>5, <2>1, <2>2
<1>10. ASSUME NEW w \in Runs, HelperFails(w) \/ SaveImport(w)
       PROVE  ArrivedInv'
  <2>1. run' = [run EXCEPT ![w] = IdleRun] /\ UNCHANGED feed
    BY <1>10 DEF HelperFails, SaveImport
  <2> QED BY <1>1, <1>2, <1>3, <1>5, <2>1
<1>11. CASE OwnerApplies
  BY <1>1, <1>2, <1>11 DEF OwnerApplies, ArrivedInv
<1>12. CASE Restart
  BY <1>1, <1>2, <1>3, <1>12 DEF Restart
<1>13. CASE UNCHANGED vars
  BY <1>13 DEF vars, ArrivedInv
<1> QED BY <1>4, <1>7, <1>8, <1>9, <1>10, <1>11, <1>12, <1>13 DEF Next

LEMMA InitMaps == Init => Inbox!Init /\ ArrivedInv
<1> SUFFICES ASSUME Init PROVE Inbox!Init /\ ArrivedInv
  OBVIOUS
<1>1. feed = << >> /\ DOMAIN feed = {}
  BY DEF Init
<1>2. Posts = << >> /\ Replaced = {} /\ Arrived = {}
  BY <1>1 DEF Posts, Replaced, Arrived
<1>3. IdleRun.got = {}
  BY DEF IdleRun
<1> QED BY <1>1, <1>2, <1>3 DEF Init, Inbox!Init, ArrivedInv, NoTokens

\* The pulls and requests keep the promise of RemoteInbox, for every number of zones,
\* records, pulls in progress, changes and expired tokens.
THEOREM InboxKept == Spec => KeepsInbox
<1>1. Spec => []ArrivedInv
  BY InitMaps, ArrivedStep, Invariance, PTL DEF Spec
<1> QED BY <1>1, InitMaps, StepMaps, Invariance, PTL DEF Spec, KeepsInbox, Inbox!Spec

=============================================================================
