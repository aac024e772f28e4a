-------------------------- MODULE CloudflareTunnel --------------------------
(***************************************************************************)
(* The server runs cloudflared so that phones reach it:                    *)
(* server/cloudflareTunnel.ts, the routes of server/routes/adminRoutes.ts, *)
(* the start in server.ts and server/remoteHealthMonitor.ts, which starts  *)
(* the tunnel again when the address it saved does not answer.             *)
(*                                                                         *)
(* A quick tunnel gets a new address each time and prints it; a named one  *)
(* has a fixed address and needs a credentials file.  A child lives on     *)
(* until it ends by itself or gets the signal, and the server learns of    *)
(* its end by a later event; the handlers of every child that was spawned  *)
(* write the one record managedTunnel.                                     *)
(***************************************************************************)
EXTENDS Integers, FiniteSets

CONSTANTS
  Children,    \* children that exist at one time
  MaxEnds,     \* bound of the children that end by themselves or cannot be spawned
  MaxStops,    \* bound of the stops
  MaxRemovals, \* bound of the removals of the credentials file
  None,
  Fixed        \* the address of the named tunnel

ASSUME BoundsAssumption ==
  MaxEnds \in Nat /\ MaxStops \in Nat /\ MaxRemovals \in Nat

ASSUME NoneAssumption == None \notin Children /\ Fixed \notin Children /\ None # Fixed

VARIABLES
  managed,    \* managedTunnel
  children,   \* the processes and the promise each start returned
  saved,      \* the address in the desktop's configuration
  ready,      \* the credentials file is there
  polling,    \* waitForManagedTunnelUrl is in progress
  check,      \* runRemoteHealthCheck
  down,       \* the server has ended by an exception that nothing caught
  ends, stops, removals

vars == <<managed, children, saved, ready, polling, check, down, ends, stops, removals>>

counters == <<ends, stops, removals>>

Kinds     == {"quick", "named"}
Addresses == Children \cup {Fixed}    \* a quick tunnel's address is known by its child

\* heard: the first quick address in lastOutput; timer: a reconnect is scheduled.
Managed == [process : Children \cup {None}, url : Addresses \cup {None}, heard : Children \cup {None},
            kind : Kinds \cup {None}, stopping : BOOLEAN, timer : BOOLEAN]

\* failing: it cannot be spawned, the event comes; ended: it is over, the event comes.
\* for: who waits for the promise; settled: the promise is.
Phases == {"none", "failing", "running", "ended"}
Child  == [phase : Phases, kind : Kinds, killed : BOOLEAN, settled : BOOLEAN,
           for : {"owner", "timer", "check", "startup"}]

NoChild == [phase |-> "none", kind |-> "quick", killed |-> FALSE, settled |-> TRUE, for |-> "owner"]

Alive(c) == children[c].phase = "running"
Named(c) == Alive(c) /\ children[c].kind = "named"

\* getManagedCloudflareTunnelStatus: a killed child is never the one managedTunnel holds.
IsRunning(m) == m.process # None

-----------------------------------------------------------------------------
(* Starting *)

\* scheduleNamedTunnelReconnect
Scheduled(m) ==
  IF m.stopping \/ m.kind # "named" \/ ~ready THEN m ELSE [m EXCEPT !.timer = TRUE]

\* Mutant: the address alone counts.
AddressIsFixed == managed.url = Fixed

NamedRuns == IsRunning(managed) /\ managed.url = Fixed

Spawned(c, kind, who) ==
  /\ children[c] = NoChild
  /\ \/ /\ children' = [children EXCEPT ![c] = [phase |-> "running", kind |-> kind, killed |-> FALSE,
                                                settled |-> FALSE, for |-> who]]
        /\ ends' = ends
     \/ /\ ends < MaxEnds /\ ends' = ends + 1
        /\ children' = [children EXCEPT ![c] = [phase |-> "failing", kind |-> kind, killed |-> FALSE,
                                                settled |-> FALSE, for |-> who]]

\* startConfiguredCloudflareNamedTunnel when the tunnel does not run.
SpawnNamed(c, who) ==
  /\ Spawned(c, "named", who)
  /\ managed' = [process |-> c, url |-> Fixed, heard |-> None, kind |-> "named",
                 stopping |-> FALSE, timer |-> FALSE]

\* The owner starts the named tunnel; one that runs is left alone.
StartNamed(c) ==
  /\ ~down /\ ready /\ ~NamedRuns
  /\ SpawnNamed(c, "owner")
  /\ UNCHANGED <<saved, ready, polling, check, down, stops, removals>>

\* startManagedCloudflareTunnel: a reconnect that is scheduled stays so.
StartQuick(c) ==
  /\ ~down /\ ~IsRunning(managed)
  /\ Spawned(c, "quick", "owner")
  /\ managed' = [managed EXCEPT !.process = c, !.url = None, !.heard = None, !.kind = "quick",
                                !.stopping = FALSE]
  /\ UNCHANGED <<saved, ready, polling, check, down, stops, removals>>

\* The same while the tunnel runs: its address is taken, or awaited.
StartQuickAgain ==
  /\ ~down /\ IsRunning(managed)
  /\ IF managed.url = None
     THEN polling' = TRUE /\ saved' = saved
     ELSE polling' = polling /\ saved' = managed.url
  /\ UNCHANGED <<managed, children, ready, check, down, counters>>

\* waitForManagedTunnelUrl: an address, no tunnel, or the time is over.
Poll ==
  /\ ~down /\ polling
  /\ \/ managed.url # None /\ saved' = managed.url
     \/ managed.url = None /\ saved' = saved
  /\ polling' = FALSE
  /\ UNCHANGED <<managed, children, ready, check, down, counters>>

\* maybeStartConfiguredCloudflareTunnel
Restorable == saved = Fixed /\ ready

Autostart(c) ==
  /\ ~down /\ Restorable /\ ~NamedRuns
  /\ SpawnNamed(c, "startup")
  /\ UNCHANGED <<saved, ready, polling, check, down, stops, removals>>

-----------------------------------------------------------------------------
(* The events of a child *)

Settled(c) == [children EXCEPT ![c].settled = TRUE]

\* The promise is kept: the owner's quick start saves the address, a check goes on.
Kept(c, m) ==
  /\ saved' = IF children[c].kind = "quick" THEN m.url ELSE saved
  /\ check' = IF children[c].for = "check" THEN "retesting" ELSE check

\* Mutant: a reconnect that fails is not tried again.
NotRetried(c, m) == m

\* The promise is broken: a reconnect is scheduled again.
Retried(c, m) == IF children[c].for = "timer" THEN Scheduled(m) ELSE m

Broken(c, m) ==
  /\ managed' = Retried(c, m)
  /\ check' = IF children[c].for = "check" THEN "idle" ELSE check
  /\ saved' = saved

\* Mutant: the address in the output is overlooked.
OutputIgnored(c) == managed

\* appendOutput: an address that was heard before counts.
Output(c) ==
  LET heard == IF managed.heard = None /\ children[c].kind = "quick" THEN c ELSE managed.heard
  IN [managed EXCEPT !.heard = heard, !.url = IF heard = None THEN @ ELSE heard]

\* handleOutput, once the child prints its address or that it is connected.
Says(c) ==
  /\ ~down /\ Alive(c)
  /\ managed' = Output(c)
  /\ IF children[c].settled
     THEN UNCHANGED <<children, saved, check>>
     ELSE children' = Settled(c) /\ Kept(c, Output(c))
  /\ UNCHANGED <<ready, polling, down, counters>>

\* The promise's timer: a named tunnel counts as started.
Timeout(c) ==
  /\ ~down /\ children[c].phase \in {"running", "ended"} /\ ~children[c].settled
  /\ children' = Settled(c)
  /\ IF children[c].kind = "named"
     THEN managed' = managed /\ Kept(c, managed)
     ELSE Broken(c, managed)
  /\ UNCHANGED <<ready, polling, down, counters>>

\* The event "error", at once.
SpawnFails(c) ==
  /\ ~down /\ children[c].phase = "failing"
  /\ children' = [children EXCEPT ![c] = NoChild]
  /\ Broken(c, [managed EXCEPT !.process = None])
  /\ UNCHANGED <<ready, polling, down, counters>>

Ends(c) ==
  /\ Alive(c)
  /\ \/ children[c].killed /\ ends' = ends
     \/ ends < MaxEnds /\ ends' = ends + 1
  /\ children' = [children EXCEPT ![c].phase = "ended"]
  /\ UNCHANGED <<managed, saved, ready, polling, check, down, stops, removals>>

\* Mutant: the handle of a child that is over stays.
HandleKept(m) == m

HandleCleared(m) == [m EXCEPT !.process = None]

\* The event "exit", whichever child managedTunnel holds by now.
ExitEvent(c) ==
  /\ ~down /\ children[c].phase = "ended"
  /\ children' = [children EXCEPT ![c] = NoChild]
  /\ LET m == HandleCleared(managed)
     IN IF ~children[c].settled THEN Broken(c, m)
        ELSE /\ managed' = IF children[c].kind = "named" THEN Scheduled(m) ELSE m
             /\ UNCHANGED <<saved, check>>
  /\ UNCHANGED <<ready, polling, down, counters>>

-----------------------------------------------------------------------------
(* Reconnecting and stopping *)

\* The timer.  Without the credentials file the start throws before it returns a promise.
Reconnect ==
  /\ ~down /\ managed.timer
  /\ \/ /\ managed.stopping \/ (ready /\ NamedRuns)
        /\ managed' = [managed EXCEPT !.timer = FALSE]
        /\ UNCHANGED <<children, ends, down>>
     \/ /\ ~managed.stopping /\ ready /\ ~NamedRuns
        /\ \E c \in Children : SpawnNamed(c, "timer")
        /\ down' = down
     \/ /\ ~managed.stopping /\ ~ready
        /\ managed' = [managed EXCEPT !.timer = FALSE]
        /\ down' = TRUE
        /\ UNCHANGED <<children, ends>>
  /\ UNCHANGED <<saved, ready, polling, check, stops, removals>>

\* Mutant: the scheduled reconnect stays.
TimerKept == managed.timer

TimerCleared == FALSE

\* stopManagedCloudflareTunnel
Stop ==
  /\ ~down /\ stops < MaxStops
  /\ stops' = stops + 1
  /\ children' = IF IsRunning(managed) THEN [children EXCEPT ![managed.process].killed = TRUE] ELSE children
  /\ managed' = [process |-> None, url |-> None, heard |-> managed.heard, kind |-> None,
                 stopping |-> TRUE, timer |-> TimerCleared]
  /\ UNCHANGED <<saved, ready, polling, check, down, ends, removals>>

\* generateCloudflareNamedTunnelConfig
Configure ==
  /\ ~down /\ ready /\ saved # Fixed
  /\ saved' = Fixed
  /\ UNCHANGED <<managed, children, ready, polling, check, down, counters>>

\* The credentials file is removed or put back.
Remove ==
  /\ ready /\ removals < MaxRemovals
  /\ ready' = FALSE /\ removals' = removals + 1
  /\ UNCHANGED <<managed, children, saved, polling, check, down, ends, stops>>

PutBack ==
  /\ ~ready
  /\ ready' = TRUE
  /\ UNCHANGED <<managed, children, saved, polling, check, down, counters>>

-----------------------------------------------------------------------------
(* runRemoteHealthCheck: one at a time *)

CheckStarts ==
  /\ ~down /\ check = "idle"
  /\ check' = "testing"
  /\ UNCHANGED <<managed, children, saved, ready, polling, down, counters>>

\* testConnectionUrl
Answers == \E c \in Children : Alive(c) /\ saved = IF children[c].kind = "named" THEN Fixed ELSE c

CheckPasses ==
  /\ ~down /\ check \in {"testing", "retesting"}
  /\ check = "testing" => Answers
  /\ check' = "idle"
  /\ UNCHANGED <<managed, children, saved, ready, polling, down, counters>>

\* restoreSavedRemoteEntry
CheckFails ==
  /\ ~down /\ check = "testing"
  /\ IF Restorable /\ ~NamedRuns
     THEN /\ \E c \in Children : SpawnNamed(c, "check")
          /\ check' = "restoring"
     ELSE /\ check' = IF Restorable THEN "retesting" ELSE "idle"
          /\ UNCHANGED <<managed, children, ends>>
  /\ UNCHANGED <<saved, ready, polling, down, stops, removals>>

-----------------------------------------------------------------------------
Init ==
  /\ managed = [process |-> None, url |-> None, heard |-> None, kind |-> None,
                stopping |-> FALSE, timer |-> FALSE]
  /\ children = [c \in Children |-> NoChild]
  /\ saved = Fixed /\ ready = TRUE
  /\ polling = FALSE /\ check = "idle" /\ down = FALSE
  /\ ends = 0 /\ stops = 0 /\ removals = 0

Event(c) == Timeout(c) \/ SpawnFails(c) \/ ExitEvent(c)

KilledEnds(c) == children[c].killed /\ Ends(c)

Check == CheckPasses \/ CheckFails

Next ==
  \/ \E c \in Children : StartNamed(c) \/ StartQuick(c) \/ Autostart(c) \/ Says(c) \/ Ends(c) \/ Event(c)
  \/ StartQuickAgain \/ Poll \/ Reconnect \/ Stop \/ Configure \/ Remove \/ PutBack
  \/ CheckStarts \/ Check

Spec == Init /\ [][Next]_vars

\* Timers fire, events are handled and a child that got the signal ends.
Fairness ==
  /\ \A c \in Children : WF_vars(Event(c)) /\ WF_vars(KilledEnds(c))
  /\ WF_vars(Reconnect) /\ WF_vars(Poll) /\ WF_vars(Check)

FairSpec == Spec /\ Fairness

-----------------------------------------------------------------------------
(* Properties *)

\* The variables have their types.
TypeOK ==
  /\ managed \in Managed
  /\ children \in [Children -> Child]
  /\ saved \in Addresses
  /\ ready \in BOOLEAN /\ polling \in BOOLEAN /\ down \in BOOLEAN
  /\ check \in {"idle", "testing", "restoring", "retesting"}
  /\ ends \in 0 .. MaxEnds /\ stops \in 0 .. MaxStops /\ removals \in 0 .. MaxRemovals

\* managedTunnel never holds a child whose end was handled: a start would take it for a
\* tunnel that runs and spawn none.
HandleAlive ==
  managed.process # None =>
    children[managed.process].phase # "none" /\ ~children[managed.process].killed

\* After a stop no reconnect is scheduled, whichever child's event comes later.
NoReconnectWhenStopped == managed.stopping => ~managed.timer

\* A check that waits for a tunnel has one to wait for, so the next check can run.
CheckHasChild ==
  check = "restoring" <=> \E c \in Children : children[c].for = "check" /\ ~children[c].settled

\* A named tunnel that was started and not by a reconnect.
Replaced ==
  \E c \in Children : children[c].phase # "none" /\ children[c].kind = "named" /\ children[c].for # "timer"

\* No child more can exist here: the bound.
Full == \A c \in Children : children[c].phase # "none"

\* A reconnect that was scheduled is repeated until the tunnel runs, unless the owner
\* stops it or starts a quick one, another start of the named one takes its place, or
\* the credentials file is missing.
ReconnectRepeats ==
  managed.timer ~> \/ \E c \in Children : Named(c)
                   \/ managed.kind # "named" \/ Replaced \/ ~ready \/ down \/ Full

\* With the health monitor at work the saved named tunnel runs again and again.
Restored ==
  WF_vars(CheckStarts) => []<>((\E c \in Children : Named(c)) \/ saved # Fixed \/ ~ready \/ down \/ Full)
=============================================================================
