----------------------- MODULE CloudflareTunnel_proofs -----------------------
(***************************************************************************)
(* Proofs about the tunnel, for any number of children, ends, stops and    *)
(* removals of the credentials file.                                       *)
(***************************************************************************)
EXTENDS CloudflareTunnel, TLAPS

\* A check waits for the promise of this child's start.
Awaited(c) == children[c].for = "check" /\ ~children[c].settled

\* A check waits for one child at a time, and a child that could not be spawned has
\* not settled its promise.
ChildInv ==
  /\ \A c, d \in Children : Awaited(c) /\ Awaited(d) => c = d
  /\ \A c \in Children : children[c].phase = "failing" => ~children[c].settled

IInv == TypeOK /\ HandleAlive /\ NoReconnectWhenStopped /\ CheckHasChild /\ ChildInv

Starters == {"owner", "timer", "check", "startup"}

-----------------------------------------------------------------------------
(* Records *)

LEMMA NoChildTyped ==
  /\ NoChild \in Child
  /\ NoChild.phase = "none" /\ NoChild.settled /\ ~NoChild.killed /\ NoChild.for = "owner"
BY DEF NoChild, Child, Phases, Kinds

LEMMA ManagedTyped ==
  ASSUME TypeOK
  PROVE  /\ managed.process \in Children \cup {None}
         /\ managed.url \in Addresses \cup {None}
         /\ managed.heard \in Children \cup {None}
         /\ managed.kind \in Kinds \cup {None}
         /\ managed.stopping \in BOOLEAN /\ managed.timer \in BOOLEAN
BY DEF TypeOK, Managed

LEMMA ScheduledTyped ==
  ASSUME NEW m \in Managed, m.stopping => ~m.timer
  PROVE  /\ Scheduled(m) \in Managed
         /\ Scheduled(m).process = m.process
         /\ Scheduled(m).stopping => ~Scheduled(m).timer
BY DEF Scheduled, Managed

LEMMA RetriedTyped ==
  ASSUME NEW m \in Managed, m.stopping => ~m.timer, NEW c
  PROVE  /\ Retried(c, m) \in Managed
         /\ Retried(c, m).process = m.process
         /\ Retried(c, m).stopping => ~Retried(c, m).timer
BY ScheduledTyped DEF Retried

LEMMA HandleClearedTyped ==
  ASSUME TypeOK, NoReconnectWhenStopped
  PROVE  /\ HandleCleared(managed) \in Managed
         /\ HandleCleared(managed).process = None
         /\ HandleCleared(managed).stopping => ~HandleCleared(managed).timer
BY DEF TypeOK, Managed, HandleCleared, NoReconnectWhenStopped

LEMMA OutputTyped ==
  ASSUME TypeOK, NEW c \in Children
  PROVE  /\ Output(c) \in Managed
         /\ Output(c).process = managed.process
         /\ Output(c).stopping = managed.stopping /\ Output(c).timer = managed.timer
         /\ children[c].kind = "quick" => Output(c).url \in Addresses
<1> DEFINE heard == IF managed.heard = None /\ children[c].kind = "quick" THEN c ELSE managed.heard
<1> DEFINE url == IF heard = None THEN managed.url ELSE heard
<1>1. Output(c) = [managed EXCEPT !.heard = heard, !.url = url]
  BY DEF Output, TypeOK, Managed
<1>2. heard \in Children \cup {None} /\ (children[c].kind = "quick" => heard \in Children)
  BY ManagedTyped, NoneAssumption
<1> HIDE DEF heard
<1>3. url \in Addresses \cup {None} /\ (heard \in Children => url \in Addresses)
  BY <1>2, ManagedTyped, NoneAssumption DEF Addresses
<1> HIDE DEF url
<1> QED BY <1>1, <1>2, <1>3 DEF TypeOK, Managed

-----------------------------------------------------------------------------
(* What becomes of one child *)

\* A child that is spawned: only a check's start waits with the check.
LEMMA SpawnedTyped ==
  ASSUME IInv, NEW c \in Children, NEW kind \in Kinds, NEW who \in Starters,
         Spawned(c, kind, who)
  PROVE  /\ children' \in [Children -> Child] /\ ends' \in 0 .. MaxEnds
         /\ children'[c].phase # "none" /\ ~children'[c].killed
         /\ children'[c].for = who /\ ~children'[c].settled
         /\ ~Awaited(c)
         /\ \A d \in Children \ {c} : children'[d] = children[d]
<1>1. /\ children \in [Children -> Child] /\ ends \in 0 .. MaxEnds /\ MaxEnds \in Nat
      /\ children[c] = NoChild
  BY BoundsAssumption DEF IInv, TypeOK, Spawned
<1>2. ~Awaited(c)
  BY <1>1, NoChildTyped DEF Awaited
<1>3. PICK phase \in {"running", "failing"} :
        children' = [children EXCEPT ![c] = [phase |-> phase, kind |-> kind, killed |-> FALSE,
                                             settled |-> FALSE, for |-> who]]
  BY DEF Spawned
<1>4. children' \in [Children -> Child]
  BY <1>1, <1>3 DEF Child, Phases, Starters
<1>5. ends' \in 0 .. MaxEnds
  BY <1>1 DEF Spawned
<1> QED BY <1>1, <1>2, <1>3, <1>4, <1>5

\* A spawn for another reason than a check.
LEMMA SpawnKeeps ==
  ASSUME IInv, NEW c \in Children, NEW kind \in Kinds, NEW who \in Starters \ {"check"},
         Spawned(c, kind, who), check' = check
  PROVE  CheckHasChild' /\ ChildInv'
<1>1. /\ children'[c].for # "check" /\ ~children'[c].settled
      /\ \A d \in Children \ {c} : children'[d] = children[d]
      /\ ~Awaited(c)
  BY SpawnedTyped
<1>2. \A d \in Children : Awaited(d)' <=> Awaited(d)
  BY <1>1 DEF Awaited
<1>3. CheckHasChild'
  BY <1>2 DEF IInv, CheckHasChild, Awaited
<1>4. ChildInv'
  BY <1>1, <1>2 DEF IInv, ChildInv
<1> QED BY <1>3, <1>4

\* A child whose promise settles, or that goes: the check learns of it.
LEMMA SettleKeeps ==
  ASSUME IInv, NEW c \in Children,
         children'[c].settled,
         children'[c].phase # "failing",
         \A d \in Children \ {c} : children'[d] = children[d],
         \/ children[c].settled /\ check' = check
         \/ ~children[c].settled /\ IF children[c].for = "check" THEN check' # "restoring"
                                                              ELSE check' = check
  PROVE  CheckHasChild' /\ ChildInv'
<1>1. \A d \in Children : Awaited(d)' <=> Awaited(d) /\ d # c
  BY DEF Awaited
<1>2. ChildInv'
  BY <1>1 DEF IInv, ChildInv
<1>3. CASE Awaited(c)
  BY <1>1, <1>2, <1>3 DEF IInv, CheckHasChild, ChildInv, Awaited
<1>4. CASE ~Awaited(c)
  <2>1. check' = check
    BY <1>4 DEF Awaited
  <2> QED BY <1>1, <1>2, <1>4, <2>1 DEF IInv, CheckHasChild, Awaited
<1> QED BY <1>2, <1>3, <1>4

\* Nothing that the children's part speaks of changes.
LEMMA SameChildren ==
  ASSUME IInv, UNCHANGED <<children, check>>
  PROVE  CheckHasChild' /\ ChildInv'
BY DEF IInv, CheckHasChild, ChildInv, Awaited

LEMMA SpawnNamedStep ==
  ASSUME IInv, NEW c \in Children, NEW who \in Starters, SpawnNamed(c, who),
         UNCHANGED <<saved, ready, polling, down, stops, removals>>,
         check' \in {"idle", "testing", "restoring", "retesting"},
         \/ who # "check" /\ check' = check
         \/ who = "check" /\ check # "restoring" /\ check' = "restoring"
  PROVE  IInv'
<1>1. /\ children' \in [Children -> Child] /\ ends' \in 0 .. MaxEnds
      /\ children'[c].phase # "none" /\ ~children'[c].killed
      /\ children'[c].for = who /\ ~children'[c].settled
      /\ ~Awaited(c)
      /\ \A d \in Children \ {c} : children'[d] = children[d]
  BY SpawnedTyped DEF SpawnNamed, Kinds
<1>2. managed' \in Managed /\ managed'.process = c /\ ~managed'.stopping
  BY DEF SpawnNamed, Managed, Kinds, Addresses
<1>3. TypeOK' /\ HandleAlive' /\ NoReconnectWhenStopped'
  BY <1>1, <1>2 DEF IInv, TypeOK, HandleAlive, NoReconnectWhenStopped
<1>4. CheckHasChild' /\ ChildInv'
  <2>1. CASE who # "check"
    BY <2>1, SpawnKeeps DEF SpawnNamed, Kinds
  <2>2. CASE who = "check"
    <3>1. \A d \in Children : ~Awaited(d)
      BY <2>2 DEF IInv, CheckHasChild, Awaited
    <3>2. \A d \in Children : Awaited(d)' <=> d = c
      BY <1>1, <2>2, <3>1 DEF Awaited
    <3> QED BY <1>1, <2>2, <3>2 DEF IInv, CheckHasChild, ChildInv, Awaited
  <2> QED BY <2>1, <2>2
<1> QED BY <1>3, <1>4 DEF IInv

-----------------------------------------------------------------------------
(* One lemma for each action *)

LEMMA InitInv == Init => IInv
<1> SUFFICES ASSUME Init PROVE IInv
  OBVIOUS
<1>1. managed \in Managed /\ managed.process = None /\ ~managed.stopping
  BY DEF Init, Managed
<1>2. \A c \in Children : children[c] = NoChild
  BY DEF Init
<1>3. TypeOK
  <2>1. children \in [Children -> Child]
    BY NoChildTyped DEF Init
  <2>2. saved \in Addresses /\ ready \in BOOLEAN /\ polling \in BOOLEAN /\ down \in BOOLEAN
    BY DEF Init, Addresses
  <2>3. ends \in 0 .. MaxEnds /\ stops \in 0 .. MaxStops /\ removals \in 0 .. MaxRemovals
    BY BoundsAssumption DEF Init
  <2>4. check \in {"idle", "testing", "restoring", "retesting"}
    BY DEF Init
  <2> QED BY <1>1, <2>1, <2>2, <2>3, <2>4 DEF TypeOK
<1>4. HandleAlive /\ NoReconnectWhenStopped
  BY <1>1 DEF HandleAlive, NoReconnectWhenStopped
<1>5. CheckHasChild /\ ChildInv
  BY <1>2, NoChildTyped DEF Init, CheckHasChild, ChildInv, Awaited
<1> QED BY <1>3, <1>4, <1>5 DEF IInv

LEMMA StartStep ==
  ASSUME IInv, NEW c \in Children, StartNamed(c) \/ Autostart(c)
  PROVE  IInv'
<1>1. CASE StartNamed(c)
  BY <1>1, SpawnNamedStep DEF StartNamed, Starters, IInv, TypeOK
<1>2. CASE Autostart(c)
  BY <1>2, SpawnNamedStep DEF Autostart, Starters, IInv, TypeOK
<1> QED BY <1>1, <1>2

LEMMA StartQuickStep ==
  ASSUME IInv, NEW c \in Children, StartQuick(c)
  PROVE  IInv'
<1>1. Spawned(c, "quick", "owner") /\ check' = check
  BY DEF StartQuick
<1>2. /\ children' \in [Children -> Child] /\ ends' \in 0 .. MaxEnds
      /\ children'[c].phase # "none" /\ ~children'[c].killed
  BY <1>1, SpawnedTyped DEF Kinds, Starters
<1>3. managed' \in Managed /\ managed'.process = c /\ ~managed'.stopping
  BY DEF StartQuick, IInv, TypeOK, Managed, Kinds
<1>4. TypeOK' /\ HandleAlive' /\ NoReconnectWhenStopped'
  BY <1>2, <1>3 DEF StartQuick, IInv, TypeOK, HandleAlive, NoReconnectWhenStopped
<1>5. CheckHasChild' /\ ChildInv'
  BY <1>1, SpawnKeeps DEF Kinds, Starters
<1> QED BY <1>4, <1>5 DEF IInv

LEMMA SaysStep ==
  ASSUME IInv, NEW c \in Children, Says(c)
  PROVE  IInv'
<1>1. /\ children \in [Children -> Child] /\ children[c].phase = "running"
      /\ check \in {"idle", "testing", "restoring", "retesting"} /\ saved \in Addresses
  BY DEF IInv, TypeOK, Says, Alive
<1>2. /\ managed' \in Managed /\ managed'.process = managed.process
      /\ managed'.stopping = managed.stopping /\ managed'.timer = managed.timer
      /\ children[c].kind = "quick" => managed'.url \in Addresses
      /\ managed' = Output(c)
  BY OutputTyped DEF IInv, Says
<1>3. CASE children[c].settled
  <2>1. UNCHANGED <<children, saved, check, ready, polling, down, ends, stops, removals>>
    BY <1>3 DEF Says, counters
  <2> QED BY <1>2, <2>1, SameChildren DEF IInv, TypeOK, HandleAlive, NoReconnectWhenStopped
<1>4. CASE ~children[c].settled
  <2>1. /\ children' = [children EXCEPT ![c].settled = TRUE]
        /\ saved' \in Addresses
        /\ check' = IF children[c].for = "check" THEN "retesting" ELSE check
        /\ UNCHANGED <<ready, polling, down, ends, stops, removals>>
    BY <1>1, <1>2, <1>4 DEF Says, counters, Settled, Kept
  <2>2. /\ children' \in [Children -> Child]
        /\ \A d \in Children : /\ children'[d].phase = children[d].phase
                               /\ children'[d].killed = children[d].killed
        /\ children'[c].settled
        /\ \A d \in Children \ {c} : children'[d] = children[d]
    BY <1>1, <2>1 DEF Child
  <2>3. TypeOK' /\ HandleAlive' /\ NoReconnectWhenStopped'
    BY <1>1, <1>2, <2>1, <2>2, ManagedTyped, NoneAssumption
       DEF IInv, TypeOK, HandleAlive, NoReconnectWhenStopped
  <2>4. CheckHasChild' /\ ChildInv'
    BY <1>1, <1>4, <2>1, <2>2, SettleKeeps
  <2> QED BY <2>3, <2>4 DEF IInv
<1> QED BY <1>3, <1>4

LEMMA TimeoutStep ==
  ASSUME IInv, NEW c \in Children, Timeout(c)
  PROVE  IInv'
<1>1. /\ children \in [Children -> Child] /\ children[c].phase \in {"running", "ended"}
      /\ ~children[c].settled /\ managed \in Managed
      /\ managed.stopping => ~managed.timer
      /\ check \in {"idle", "testing", "restoring", "retesting"} /\ saved \in Addresses
  BY DEF IInv, TypeOK, Timeout, NoReconnectWhenStopped
<1>2. /\ children' = [children EXCEPT ![c].settled = TRUE]
      /\ UNCHANGED <<saved, ready, polling, down, ends, stops, removals>>
      /\ managed' = managed \/ managed' = Retried(c, managed)
      /\ check' = IF children[c].for = "check" THEN check' ELSE check
      /\ children[c].for = "check" => check' \in {"idle", "retesting"}
  BY <1>1 DEF Timeout, counters, Settled, Kept, Broken, Child, Kinds
<1>3. /\ managed' \in Managed /\ managed'.process = managed.process
      /\ managed'.stopping => ~managed'.timer
  BY <1>1, <1>2, RetriedTyped
<1>4. /\ children' \in [Children -> Child]
      /\ \A d \in Children : /\ children'[d].phase = children[d].phase
                             /\ children'[d].killed = children[d].killed
      /\ children'[c].settled
      /\ \A d \in Children \ {c} : children'[d] = children[d]
  BY <1>1, <1>2 DEF Child
<1>5. TypeOK' /\ HandleAlive' /\ NoReconnectWhenStopped'
  BY <1>1, <1>2, <1>3, <1>4, ManagedTyped, NoneAssumption
     DEF IInv, TypeOK, HandleAlive, NoReconnectWhenStopped
<1>6. CheckHasChild' /\ ChildInv'
  BY <1>1, <1>2, <1>4, SettleKeeps
<1> QED BY <1>5, <1>6 DEF IInv

\* A child whose record is freed, with managedTunnel's handle cleared.
LEMMA GoneStep ==
  ASSUME IInv, NEW c \in Children,
         children' = [children EXCEPT ![c] = NoChild],
         managed' \in Managed, managed'.process = None, managed'.stopping => ~managed'.timer,
         UNCHANGED <<saved, ready, polling, down, ends, stops, removals>>,
         \/ children[c].settled /\ check' = check
         \/ ~children[c].settled /\ check' = IF children[c].for = "check" THEN "idle" ELSE check
  PROVE  IInv'
<1>1. children \in [Children -> Child] /\ check \in {"idle", "testing", "restoring", "retesting"}
  BY DEF IInv, TypeOK
<1>2. /\ children' \in [Children -> Child] /\ children'[c].settled /\ children'[c].phase = "none"
      /\ \A d \in Children \ {c} : children'[d] = children[d]
  BY <1>1, NoChildTyped
<1>3. TypeOK' /\ HandleAlive' /\ NoReconnectWhenStopped'
  BY <1>1, <1>2 DEF IInv, TypeOK, HandleAlive, NoReconnectWhenStopped
<1>4. CheckHasChild' /\ ChildInv'
  BY <1>2, SettleKeeps
<1> QED BY <1>3, <1>4 DEF IInv

LEMMA SpawnFailsStep ==
  ASSUME IInv, NEW c \in Children, SpawnFails(c)
  PROVE  IInv'
<1> DEFINE m == [managed EXCEPT !.process = None]
<1>1. ~children[c].settled
  BY DEF IInv, ChildInv, SpawnFails
<1>2. m \in Managed /\ m.process = None /\ (m.stopping => ~m.timer)
  BY DEF IInv, TypeOK, Managed, NoReconnectWhenStopped
<1>3. /\ children' = [children EXCEPT ![c] = NoChild]
      /\ managed' = Retried(c, m)
      /\ check' = IF children[c].for = "check" THEN "idle" ELSE check
      /\ UNCHANGED <<saved, ready, polling, down, ends, stops, removals>>
  BY DEF SpawnFails, Broken, counters
<1> HIDE DEF m
<1>4. /\ managed' \in Managed /\ managed'.process = None /\ (managed'.stopping => ~managed'.timer)
  BY <1>2, <1>3, RetriedTyped
<1> QED BY <1>1, <1>3, <1>4, GoneStep

LEMMA ExitEventStep ==
  ASSUME IInv, NEW c \in Children, ExitEvent(c)
  PROVE  IInv'
<1> DEFINE m == HandleCleared(managed)
<1>1. m \in Managed /\ m.process = None /\ (m.stopping => ~m.timer)
  BY HandleClearedTyped DEF IInv
<1>2. /\ children' = [children EXCEPT ![c] = NoChild]
      /\ UNCHANGED <<ready, polling, down, ends, stops, removals>>
      /\ \/ /\ children[c].settled
            /\ managed' = m \/ managed' = Scheduled(m)
            /\ UNCHANGED <<saved, check>>
         \/ /\ ~children[c].settled
            /\ managed' = Retried(c, m) /\ saved' = saved
            /\ check' = IF children[c].for = "check" THEN "idle" ELSE check
  BY DEF ExitEvent, Broken, counters
<1> HIDE DEF m
<1>3. /\ managed' \in Managed /\ managed'.process = None /\ (managed'.stopping => ~managed'.timer)
  BY <1>1, <1>2, RetriedTyped, ScheduledTyped
<1> QED BY <1>2, <1>3, GoneStep

LEMMA EndsStep ==
  ASSUME IInv, NEW c \in Children, Ends(c)
  PROVE  IInv'
<1>1. children \in [Children -> Child] /\ children[c].phase = "running"
  BY DEF IInv, TypeOK, Ends, Alive
<1>2. /\ children' = [children EXCEPT ![c].phase = "ended"]
      /\ UNCHANGED <<managed, saved, ready, polling, check, down, stops, removals>>
      /\ ends' \in 0 .. MaxEnds
  BY BoundsAssumption DEF IInv, TypeOK, Ends
<1>3. /\ children' \in [Children -> Child]
      /\ children'[c].phase = "ended"
      /\ \A d \in Children \ {c} : children'[d] = children[d]
      /\ \A d \in Children : /\ children'[d].killed = children[d].killed
                             /\ children'[d].settled = children[d].settled
                             /\ children'[d].for = children[d].for
  BY <1>1, <1>2 DEF Child, Phases
<1>4. TypeOK' /\ NoReconnectWhenStopped'
  BY <1>2, <1>3 DEF IInv, TypeOK, NoReconnectWhenStopped
<1>5. HandleAlive'
  <2> SUFFICES ASSUME managed.process # None
               PROVE  children'[managed.process].phase # "none" /\ ~children'[managed.process].killed
    BY <1>2 DEF HandleAlive
  <2>1. managed.process \in Children
    BY ManagedTyped DEF IInv
  <2> QED BY <1>3, <2>1 DEF IInv, HandleAlive
<1>6. \A d \in Children : Awaited(d)' <=> Awaited(d)
  BY <1>3 DEF Awaited
<1>7. CheckHasChild'
  BY <1>2, <1>3 DEF IInv, CheckHasChild
<1>8. ChildInv'
  BY <1>3, <1>6 DEF IInv, ChildInv
<1> QED BY <1>4, <1>5, <1>7, <1>8 DEF IInv

LEMMA ReconnectStep ==
  ASSUME IInv, Reconnect
  PROVE  IInv'
<1>1. CASE \E c \in Children : SpawnNamed(c, "timer")
           /\ UNCHANGED <<saved, ready, polling, check, down, stops, removals>>
  BY <1>1, SpawnNamedStep DEF Starters, IInv, TypeOK
<1>2. CASE /\ managed' = [managed EXCEPT !.timer = FALSE] /\ down' \in BOOLEAN
           /\ UNCHANGED <<children, saved, ready, polling, check, ends, stops, removals>>
  <2>1. managed' \in Managed /\ managed'.process = managed.process /\ ~managed'.timer
    BY <1>2 DEF IInv, TypeOK, Managed
  <2> QED BY <1>2, <2>1, SameChildren
         DEF IInv, TypeOK, HandleAlive, NoReconnectWhenStopped
<1> QED BY <1>1, <1>2 DEF Reconnect, IInv, TypeOK

LEMMA StopStep ==
  ASSUME IInv, Stop
  PROVE  IInv'
<1>1. children \in [Children -> Child]
  BY DEF IInv, TypeOK
<1>2. /\ children' \in [Children -> Child]
      /\ \A d \in Children : /\ children'[d].phase = children[d].phase
                             /\ children'[d].settled = children[d].settled
                             /\ children'[d].for = children[d].for
  BY <1>1, ManagedTyped DEF Stop, IInv, IsRunning, Child
<1>3. managed' \in Managed /\ managed'.process = None /\ ~managed'.timer
  BY ManagedTyped DEF Stop, TimerCleared, IInv, Managed
<1>4. stops' \in 0 .. MaxStops
  BY BoundsAssumption DEF Stop, IInv, TypeOK
<1>5. TypeOK' /\ HandleAlive' /\ NoReconnectWhenStopped'
  BY <1>2, <1>3, <1>4 DEF Stop, IInv, TypeOK, HandleAlive, NoReconnectWhenStopped
<1>6. \A d \in Children : Awaited(d)' <=> Awaited(d)
  BY <1>2 DEF Awaited
<1>7. CheckHasChild' /\ ChildInv'
  BY <1>2, <1>6 DEF Stop, IInv, CheckHasChild, ChildInv
<1> QED BY <1>5, <1>7 DEF IInv

\* Steps that touch neither the children nor managedTunnel.
LEMMA OtherStep ==
  ASSUME IInv,
         \/ StartQuickAgain \/ Poll \/ Configure \/ Remove \/ PutBack \/ CheckStarts \/ CheckPasses
  PROVE  IInv'
<1>1. /\ UNCHANGED <<managed, children, ends, stops, down>>
      /\ ready' \in BOOLEAN /\ polling' \in BOOLEAN
      /\ saved' \in Addresses /\ removals' \in 0 .. MaxRemovals
  <2>1. CASE Remove
    <3>1. removals' \in 0 .. MaxRemovals
      BY <2>1, BoundsAssumption DEF IInv, TypeOK, Remove
    <3>2. UNCHANGED <<managed, children, ends, stops, down, saved, polling>> /\ ready' = FALSE
      BY <2>1 DEF Remove
    <3> QED BY <3>1, <3>2 DEF IInv, TypeOK
  <2>2. CASE StartQuickAgain \/ Poll
    <3>1. saved' = saved \/ (managed.url # None /\ saved' = managed.url)
      BY <2>2 DEF StartQuickAgain, Poll
    <3>2. saved' \in Addresses
      BY <3>1, ManagedTyped DEF IInv, TypeOK
    <3> QED BY <2>2, <3>2 DEF IInv, TypeOK, StartQuickAgain, Poll, counters
  <2>3. CASE Configure \/ PutBack \/ CheckStarts \/ CheckPasses
    BY <2>3 DEF IInv, TypeOK, Configure, PutBack, CheckStarts, CheckPasses, counters, Addresses
  <2> QED BY <2>1, <2>2, <2>3
<1>2. /\ check' \in {"idle", "testing", "restoring", "retesting"}
      /\ check' = "restoring" <=> check = "restoring"
  BY DEF IInv, TypeOK, StartQuickAgain, Poll, Configure, Remove, PutBack, CheckStarts, CheckPasses
<1>3. TypeOK' /\ HandleAlive' /\ NoReconnectWhenStopped'
  BY <1>1, <1>2 DEF IInv, TypeOK, HandleAlive, NoReconnectWhenStopped
<1>4. CheckHasChild' /\ ChildInv'
  BY <1>1, <1>2 DEF IInv, CheckHasChild, ChildInv, Awaited
<1> QED BY <1>3, <1>4 DEF IInv

LEMMA CheckFailsStep ==
  ASSUME IInv, CheckFails
  PROVE  IInv'
<1>1. CASE /\ \E c \in Children : SpawnNamed(c, "check")
           /\ check' = "restoring"
  BY <1>1, SpawnNamedStep DEF CheckFails, Starters
<1>2. CASE /\ check' \in {"idle", "retesting"}
           /\ UNCHANGED <<managed, children, ends>>
  <2>1. TypeOK' /\ HandleAlive' /\ NoReconnectWhenStopped'
    BY <1>2 DEF CheckFails, IInv, TypeOK, HandleAlive, NoReconnectWhenStopped
  <2>2. CheckHasChild' /\ ChildInv'
    BY <1>2 DEF CheckFails, IInv, CheckHasChild, ChildInv, Awaited
  <2> QED BY <2>1, <2>2 DEF IInv
<1> QED BY <1>1, <1>2 DEF CheckFails

-----------------------------------------------------------------------------
(* The invariant *)

LEMMA StepInv == IInv /\ [Next]_vars => IInv'
<1> SUFFICES ASSUME IInv, [Next]_vars PROVE IInv'
  OBVIOUS
<1>1. CASE \E c \in Children : StartNamed(c) \/ StartQuick(c) \/ Autostart(c)
  BY <1>1, StartStep, StartQuickStep
<1>2. CASE \E c \in Children : Says(c) \/ Ends(c) \/ Event(c)
  BY <1>2, SaysStep, EndsStep, TimeoutStep, SpawnFailsStep, ExitEventStep DEF Event
<1>3. CASE Reconnect
  BY <1>3, ReconnectStep
<1>4. CASE Stop
  BY <1>4, StopStep
<1>5. CASE \/ StartQuickAgain \/ Poll \/ Configure \/ Remove \/ PutBack \/ CheckStarts \/ CheckPasses
  BY <1>5, OtherStep
<1>6. CASE CheckFails
  BY <1>6, CheckFailsStep
<1>7. CASE UNCHANGED vars
  BY <1>7, SameChildren DEF vars, counters, IInv, TypeOK, HandleAlive, NoReconnectWhenStopped
<1> QED BY <1>1, <1>2, <1>3, <1>4, <1>5, <1>6, <1>7 DEF Next, Check

LEMMA Invariance == Spec => []IInv
BY InitInv, StepInv, PTL DEF Spec

\* managedTunnel, the children and the saved address keep their types: whatever a
\* child prints and when, the address that is saved is one.
THEOREM TunnelTypeCorrect == Spec => []TypeOK
<1>1. IInv => TypeOK
  BY DEF IInv
<1> QED BY <1>1, Invariance, PTL

\* However the events of older and newer children interleave, the handle is never
\* that of a child whose end was handled.
THEOREM HandleAliveHolds == Spec => []HandleAlive
<1>1. IInv => HandleAlive
  BY DEF IInv
<1> QED BY <1>1, Invariance, PTL

\* No event of a child schedules a reconnect after a stop.
THEOREM NoReconnectWhenStoppedHolds == Spec => []NoReconnectWhenStopped
<1>1. IInv => NoReconnectWhenStopped
  BY DEF IInv
<1> QED BY <1>1, Invariance, PTL

\* A health check that waits does so for exactly one child whose promise is open, so
\* it cannot wait for ever while that child's timer runs.
THEOREM CheckHasChildHolds == Spec => []CheckHasChild
<1>1. IInv => CheckHasChild
  BY DEF IInv
<1> QED BY <1>1, Invariance, PTL
=============================================================================
