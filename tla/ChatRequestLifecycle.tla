------------------------ MODULE ChatRequestLifecycle ------------------------
(***************************************************************************)
(* What the queue of phone requests promises, whatever workers, leases,    *)
(* retries, restarts and stale clocks do behind it: a request is answered  *)
(* at most once, it is given up as expired only after its deadline, a      *)
(* request that was declined may be taken up again before the deadline,    *)
(* and an answered or expired request is settled for good.  It abstracts   *)
(* the transition table of server/cloudKitChatProtocol.ts, with "queued"   *)
(* and "processing" as one state.                                          *)
(***************************************************************************)
EXTENDS Naturals

CONSTANTS
  Requests,     \* requests the phone may send
  ExpiresAt     \* [Requests -> deadline of the request]

VARIABLES
  time,         \* the time of day
  state,        \* [Requests -> States]
  answered      \* [Requests -> number of answers ever written]

vars == <<time, state, answered>>

States == {"unknown", "open", "declined", "answered", "expired"}

Settled == {"answered", "expired"}

Init ==
  /\ time = 0
  /\ state = [r \in Requests |-> "unknown"]
  /\ answered = [r \in Requests |-> 0]

\* The moves of one request, as <<from, to>>.
Receive == {<<"unknown", "open">>}
Answer  == {<<"open", "answered">>}
Decline == {<<"open", "declined">>}
Reopen  == {<<"declined", "open">>}
Expire  == {<<"unknown", "expired">>, <<"open", "expired">>, <<"declined", "expired">>}

\* What request r may do in one step of the system.
MayMove(r, from, to) ==
  \/ from = to
  \/ <<from, to>> \in Receive \cup Answer \cup Decline
  \/ <<from, to>> \in Reopen /\ time < ExpiresAt[r]
  \/ <<from, to>> \in Expire /\ time >= ExpiresAt[r]

\* A step of the queue: several requests may move at once (a sweep expires all
\* that are due), and an answer is written exactly when a request is answered.
Move ==
  /\ state' \in [Requests -> States]
  /\ \A r \in Requests : MayMove(r, state[r], state'[r])
  /\ answered' = [r \in Requests |->
       IF <<state[r], state'[r]>> \in Answer THEN answered[r] + 1 ELSE answered[r]]
  /\ UNCHANGED time

Pass ==
  /\ time' = time + 1
  /\ UNCHANGED <<state, answered>>

Next == Move \/ Pass

\* A stored request is settled in the end.
Progress ==
  \A r \in Requests : (state[r] # "unknown") ~> (state[r] \in Settled)

Spec == Init /\ [][Next]_vars

=============================================================================
