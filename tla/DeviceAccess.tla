---------------------------- MODULE DeviceAccess ----------------------------
(***************************************************************************)
(* A phone is paired with the desktop, keeps its credential fresh and      *)
(* holds a socket to it: server/routes/deviceRoutes.ts, server/devices.ts, *)
(* server/realtime.ts, the checks of server/auth.ts, and on the phone      *)
(* src/hooks/useLifeOSRealtime.ts, src/services/lifeosApi.ts,              *)
(* src/services/deviceCredentialStore.ts, src/pages/mobile/                *)
(* MobilePairPage.tsx and MobileDevicePage.tsx.                            *)
(*                                                                         *)
(* The server handles a message or a request to its end before the next.   *)
(* A socket has two ends that learn of its close at different times, and a *)
(* request may be handled after the phone stopped waiting for it.  Every   *)
(* change of page on the phone is a page load: it ends the page's socket   *)
(* and its requests, and the page reads the stored credential again.       *)
(*                                                                         *)
(* A device's token is numbered: each rotation makes the next one.  A      *)
(* device that gave a public key is known by signatures, and its phone     *)
(* keeps no token.  Tokens do not run out here.                            *)
(***************************************************************************)
EXTENDS Integers, FiniteSets

CONSTANTS
  Bindings,   \* binding sessions
  Devices,    \* devices that can be bound
  Signed,     \* those of them that give a public key
  Sockets,    \* sockets that exist at one time
  Calls,      \* requests of the phone that can be in progress at one time
  MaxToken,   \* bound of the token that the phone still rotates
  MaxDrops,   \* bound of the failures of the network and of the page loads
  MaxStops,   \* bound of the ends of the server
  None

ASSUME BoundsAssumption ==
  /\ Signed \subseteq Devices
  /\ MaxToken \in Nat /\ MaxDrops \in Nat /\ MaxStops \in Nat

ASSUME NoneAssumption ==
  /\ None \notin Bindings /\ None \notin Devices /\ None \notin Sockets
  /\ None \notin Calls /\ None \notin Nat

VARIABLES
  sessions,   \* binding_sessions
  devices,    \* devices
  clients,    \* wsClients
  sockets,    \* the server's ends of the sockets
  ends,       \* the phone's ends
  cache,      \* credentialCache
  stored,     \* the credential in IndexedDB
  hook,       \* useLifeOSRealtime
  calls,      \* the phone's requests
  drops,      \* failures and page loads so far
  stops,      \* ends of the server so far
  halves,     \* history: confirmations that the end of the server cut in half
  unsaid,     \* history: devices with a rotation whose answer the phone did not keep
  ghosts      \* history: devices that were online when the server ended

vars == <<sessions, devices, clients, sockets, ends, cache, stored, hook, calls,
          drops, stops, halves, unsaid, ghosts>>

server  == <<sessions, devices, clients, sockets>>
phone   == <<cache, stored, hook>>
history == <<halves, unsaid, ghosts>>

Credential == [device : Devices, token : Nat \cup {None}]

Device == [status : {"offline", "online", "revoked"}, token : Nat, from : Bindings]

ASSUME RecordsAssumption == None \notin Credential /\ None \notin Device

\* opened: not authenticated yet; closing: the server has closed it; gone: it
\* has seen the close event.  auth: the credential on its way.
Phases == {"none", "opened", "authed", "closing", "gone"}
Socket == [phase : Phases, device : Devices \cup {None}, auth : Credential \cup {None}]

NoSocket == [phase |-> "none", device |-> None, auth |-> None]

\* away: another page is open; offline: connect runs when its timer fires; rotated:
\* it goes on after the rotation it waited for.
Hook == [phase : {"away", "unbound", "offline", "rotating", "rotated", "connecting", "connected"},
         socket : Sockets \cup {None}, call : Calls \cup {None}]

Idle(phase) == [phase |-> phase, socket |-> None, call |-> None]

Kinds == {"none", "pair", "rotate", "forget"}

\* with: what authenticates the request; answer: the credential it brings, or
\* None if it was refused; awaited: the phone still waits for it.
Call == [kind : Kinds, binding : Bindings \cup {None}, with : Credential \cup {None},
         answered : BOOLEAN, answer : Credential \cup {None}, awaited : BOOLEAN]

NoCall == [kind |-> "none", binding |-> None, with |-> None,
           answered |-> FALSE, answer |-> None, awaited |-> FALSE]

Bound(d)  == devices[d] # None
Active(d) == Bound(d) /\ devices[d].status # "revoked"

\* getActiveDeviceByToken and getActiveDeviceBySignature
Valid(c) ==
  /\ c # None /\ Active(c.device)
  /\ IF c.token = None THEN c.device \in Signed ELSE c.token = devices[c.device].token

-----------------------------------------------------------------------------
(* Devices and sockets on the server *)

\* Mutant: the row of a revoked device is written too.
PresenceUnguarded(d, status) == [devices EXCEPT ![d].status = status]

\* updateDevicePresence
Presence(d, status) == IF Active(d) THEN [devices EXCEPT ![d].status = status] ELSE devices

\* The message "auth"; the socket of the device that was in the map is not closed.
Authenticate(s) ==
  /\ sockets[s].phase = "opened" /\ sockets[s].auth # None
  /\ LET c == sockets[s].auth
     IN IF Valid(c)
        THEN /\ sockets' = [sockets EXCEPT ![s] = [phase |-> "authed", device |-> c.device, auth |-> None]]
             /\ devices' = Presence(c.device, "online")
             /\ clients' = [clients EXCEPT ![c.device] = s]
             /\ ghosts' = ghosts \ {c.device}
        ELSE /\ sockets' = [sockets EXCEPT ![s] = [@ EXCEPT !.phase = "closing", !.auth = None]]
             /\ UNCHANGED <<devices, clients, ghosts>>
  /\ UNCHANGED <<sessions, ends, phone, calls, drops, stops, halves, unsaid>>

\* The five seconds are over: a failure of the network, the phone sends at once.
AuthTimeout(s) ==
  /\ sockets[s].phase = "opened" /\ drops < MaxDrops
  /\ drops' = drops + 1
  /\ sockets' = [sockets EXCEPT ![s].phase = "closing"]
  /\ UNCHANGED <<sessions, devices, clients, ends, phone, calls, stops, history>>

Accept(s) ==
  /\ ends[s] = "open" /\ sockets[s].phase = "none"
  /\ sockets' = [sockets EXCEPT ![s].phase = "opened"]
  /\ UNCHANGED <<sessions, devices, clients, ends, phone, calls, drops, stops, history>>

\* Mutant: the entry of the closed socket stays.
EntryKept(d) == clients

EntryDeleted(d) == [clients EXCEPT ![d] = None]

\* The close event, when the other end is closed or does not answer.
SocketCloses(s) ==
  /\ \/ sockets[s].phase \in {"opened", "authed"} /\ ends[s] = "closed"
     \/ sockets[s].phase = "closing"
  /\ sockets' = [sockets EXCEPT ![s] = [phase |-> "gone", device |-> None, auth |-> None]]
  /\ LET d == sockets[s].device
     IN IF d = None
        THEN UNCHANGED <<devices, clients, ghosts>>
        ELSE /\ clients' = EntryDeleted(d)
             /\ devices' = Presence(d, "offline")
             /\ ghosts' = ghosts \ {d}
  /\ UNCHANGED <<sessions, ends, phone, calls, drops, stops, halves, unsaid>>

\* closeDeviceConnection
ConnectionClosed(d) ==
  /\ sockets' = IF clients[d] = None THEN sockets ELSE [sockets EXCEPT ![clients[d]].phase = "closing"]
  /\ clients' = EntryDeleted(d)

\* revokeDevice
Revoked(d) ==
  /\ devices' = [devices EXCEPT ![d].status = "revoked"]
  /\ ConnectionClosed(d)
  /\ ghosts' = ghosts \ {d}

\* The owner revokes a device.
Revoke(d) ==
  /\ Bound(d)
  /\ Revoked(d)
  /\ UNCHANGED <<sessions, ends, phone, calls, drops, stops, halves, unsaid>>

\* sendRealtimeToDevice reaches the device.
Delivered(d) == clients[d] # None /\ sockets[clients[d]].phase = "authed"

-----------------------------------------------------------------------------
(* Binding sessions *)

\* pruneExpiredBindingSessions and insertBindingSession
StartBinding(b) ==
  /\ sessions[b] = "none"
  /\ sessions' = [c \in Bindings |-> IF c = b THEN "open"
                                     ELSE IF sessions[c] = "expired" THEN "pruned" ELSE sessions[c]]
  /\ UNCHANGED <<devices, clients, sockets, ends, phone, calls, drops, stops, history>>

\* The five minutes are over.
Expire(b) ==
  /\ sessions[b] = "open"
  /\ sessions' = [sessions EXCEPT ![b] = "expired"]
  /\ UNCHANGED <<devices, clients, sockets, ends, phone, calls, drops, stops, history>>

\* Mutant: the token of a device that signs is left empty.
InsertedWithoutToken(b, d) ==
  [devices EXCEPT ![d] = [status |-> "offline", token |-> IF d \in Signed THEN None ELSE 0, from |-> b]]

Inserted(b, d) == [devices EXCEPT ![d] = [status |-> "offline", token |-> 0, from |-> b]]

\* The answer of a request that the phone has given up goes nowhere.
Answered(c, credential) ==
  [calls EXCEPT ![c] = IF @.awaited THEN [@ EXCEPT !.answered = TRUE, !.answer = credential] ELSE NoCall]

Arrived(c, kind) == calls[c].kind = kind /\ ~calls[c].answered

\* Mutant: a session that was confirmed still counts as open.
OpenUntilExpired(b) == sessions[b] \in {"open", "confirmed"}

\* getOpenBindingSessionByToken
IsOpen(b) == sessions[b] = "open"

\* devices/bind/confirm
Confirm(c) ==
  /\ Arrived(c, "pair")
  /\ LET b == calls[c].binding
     IN \/ /\ ~IsOpen(b)
           /\ calls' = Answered(c, None)
           /\ UNCHANGED <<sessions, devices>>
        \/ /\ IsOpen(b)
           /\ \E d \in Devices :
                /\ ~Bound(d)
                /\ devices' = Inserted(b, d)
                /\ calls' = Answered(c, [device |-> d, token |-> IF d \in Signed THEN None ELSE 0])
           /\ sessions' = [sessions EXCEPT ![b] = "confirmed"]
  /\ UNCHANGED <<clients, sockets, ends, phone, drops, stops, history>>

-----------------------------------------------------------------------------
(* Rotation and forgetting on the server *)

\* Mutant: the request is accepted with a token that was replaced.
KnowsDevice(c) == c # None /\ Active(c.device)

\* getDeviceFromRequest
FromDevice(c) == Valid(c)

\* devices/token/rotate
Rotate(c) ==
  /\ Arrived(c, "rotate")
  /\ LET w == calls[c].with
     IN \/ /\ ~FromDevice(w)
           /\ calls' = Answered(c, None)
           /\ UNCHANGED <<devices, unsaid>>
        \/ /\ FromDevice(w)
           /\ devices' = [devices EXCEPT ![w.device].token = @ + 1]
           /\ calls' = Answered(c, [device |-> w.device, token |-> devices[w.device].token + 1])
           /\ unsaid' = IF calls[c].awaited THEN unsaid ELSE unsaid \cup {w.device}
  /\ UNCHANGED <<sessions, clients, sockets, ends, phone, drops, stops, halves, ghosts>>

\* DELETE devices/me
RevokeMe(c) ==
  /\ Arrived(c, "forget")
  /\ calls' = Answered(c, None)
  /\ IF FromDevice(calls[c].with)
     THEN Revoked(calls[c].with.device)
     ELSE UNCHANGED <<devices, clients, sockets, ghosts>>
  /\ UNCHANGED <<sessions, ends, phone, drops, stops, halves, unsaid>>

-----------------------------------------------------------------------------
(* The server ends and starts again *)

\* The sockets are gone without a close event.  A confirmation may have inserted its
\* device and not confirmed its session.  Requests that were not answered fail.
Stop ==
  /\ stops < MaxStops
  /\ stops' = stops + 1
  /\ clients' = [d \in Devices |-> None]
  /\ sockets' = [s \in Sockets |-> IF sockets[s].phase = "none" THEN NoSocket
                                   ELSE [NoSocket EXCEPT !.phase = "gone"]]
  /\ \/ devices' = devices /\ halves' = halves
     \/ \E c \in Calls, d \in Devices :
          /\ Arrived(c, "pair") /\ IsOpen(calls[c].binding) /\ ~Bound(d)
          /\ devices' = Inserted(calls[c].binding, d)
          /\ halves' = halves + 1
  /\ calls' = [c \in Calls |-> IF calls[c].awaited THEN [calls[c] EXCEPT !.answered = TRUE] ELSE NoCall]
  /\ ghosts' = {d \in Devices : Bound(d) /\ devices[d].status = "online"}
  /\ UNCHANGED <<sessions, ends, phone, unsaid, drops>>

-----------------------------------------------------------------------------
(* The phone's requests and its credential *)

Sent(c, kind, b) ==
  /\ calls[c].kind = "none"
  /\ calls' = [calls EXCEPT ![c] = [NoCall EXCEPT !.kind = kind, !.binding = b,
                                               !.with = IF kind = "pair" THEN None ELSE cache, !.awaited = TRUE]]

HasToken == cache # None /\ cache.token # None /\ cache.token < MaxToken

\* confirmBinding, on the page that the pairing link opens.
SendPair(c, b) ==
  /\ hook.phase = "away" /\ sessions[b] # "none"
  /\ \A e \in Calls : ~calls[e].awaited
  /\ Sent(c, "pair", b)
  /\ UNCHANGED <<server, ends, phone, drops, stops, history>>

\* handleRotate of the device page.
SendRotate(c) ==
  /\ hook.phase = "away" /\ HasToken
  /\ Sent(c, "rotate", None)
  /\ UNCHANGED <<server, ends, phone, drops, stops, history>>

\* The owner asks the phone for a rotation through its socket, and the phone starts it.
AskRotation(c) ==
  /\ hook.phase = "connected" /\ HasToken
  /\ \E d \in Devices : Delivered(d) /\ clients[d] = hook.socket
  /\ Sent(c, "rotate", None)
  /\ UNCHANGED <<server, ends, phone, drops, stops, history>>

\* handleForget
SendForget(c) ==
  /\ hook.phase = "away" /\ cache # None
  /\ Sent(c, "forget", None)
  /\ UNCHANGED <<server, ends, phone, drops, stops, history>>

\* The hook goes on after its own rotation.
Resumed(c) == IF hook.call = c THEN Idle("rotated") ELSE hook

\* saveDeviceCredential and clearDeviceCredential set the cache first; forgetting clears
\* it after a failure too.
Receive(c) ==
  /\ calls[c].awaited /\ calls[c].answered
  /\ calls' = [calls EXCEPT ![c] = NoCall]
  /\ cache' = CASE calls[c].kind = "forget" -> None
                 [] calls[c].answer # None   -> calls[c].answer
                 [] OTHER                    -> cache
  /\ hook' = Resumed(c)
  /\ UNCHANGED <<server, ends, stored, drops, stops, history>>

\* The transaction of IndexedDB.
Store ==
  /\ stored # cache
  /\ stored' = cache
  /\ UNCHANGED <<server, ends, cache, hook, calls, drops, stops, history>>

Dropped(c) == IF calls[c].answered THEN NoCall ELSE [calls[c] EXCEPT !.awaited = FALSE]

NotKept(c) ==
  IF calls[c].awaited /\ calls[c].kind = "rotate" /\ calls[c].answer # None THEN {calls[c].answer.device} ELSE {}

\* Fifteen seconds without an answer, or the connection fails.
GiveUp(c) ==
  /\ calls[c].awaited /\ drops < MaxDrops
  /\ drops' = drops + 1
  /\ calls' = [calls EXCEPT ![c] = Dropped(c)]
  /\ unsaid' = unsaid \cup NotKept(c)
  /\ cache' = IF calls[c].kind = "forget" THEN None ELSE cache
  /\ hook' = Resumed(c)
  /\ UNCHANGED <<server, ends, stored, stops, halves, ghosts>>

-----------------------------------------------------------------------------
(* useLifeOSRealtime *)

\* Mutant: nothing asks for the next connection.
ClosedForGood(s) == IF hook.socket = s THEN Idle("unbound") ELSE hook

\* onclose: the next connection is scheduled.
AfterClose(s) == IF hook.socket = s THEN Idle("offline") ELSE hook

Closed(s) == [ends EXCEPT ![s] = "closed"]

Free(s) == sockets[s].phase \in {"none", "gone"} /\ ends[s] # "open"

\* connect.  It is not run again on a page that found no credential: only another
\* page gets one.
Connect ==
  /\ hook.phase = "offline"
  /\ hook' = IF cache = None THEN Idle("unbound") ELSE Idle("rotated")
  /\ UNCHANGED <<server, ends, cache, stored, calls, drops, stops, history>>

\* The token runs out in less than seven days.
ConnectRotates(c) ==
  /\ hook.phase = "offline" /\ HasToken
  /\ Sent(c, "rotate", None)
  /\ hook' = [Idle("rotating") EXCEPT !.call = c]
  /\ UNCHANGED <<server, ends, cache, stored, drops, stops, history>>

OpenSocket(s) ==
  /\ hook.phase = "rotated" /\ Free(s)
  /\ sockets' = [sockets EXCEPT ![s] = NoSocket]
  /\ ends' = [ends EXCEPT ![s] = "open"]
  /\ hook' = [Idle("connecting") EXCEPT !.socket = s]
  /\ UNCHANGED <<sessions, devices, clients, cache, stored, calls, drops, stops, history>>

\* onopen
SendAuth(s) ==
  /\ hook.phase = "connecting" /\ hook.socket = s
  /\ sockets[s].phase = "opened" /\ sockets[s].auth = None
  /\ sockets' = [sockets EXCEPT ![s].auth = cache]
  /\ UNCHANGED <<sessions, devices, clients, ends, phone, calls, drops, stops, history>>

\* auth.ok
AuthOk(s) ==
  /\ hook.phase = "connecting" /\ hook.socket = s
  /\ sockets[s].phase = "authed"
  /\ hook' = [hook EXCEPT !.phase = "connected"]
  /\ UNCHANGED <<server, ends, cache, stored, calls, drops, stops, history>>

PhoneSeesClose(s) ==
  /\ ends[s] = "open" /\ sockets[s].phase \in {"closing", "gone"}
  /\ ends' = Closed(s)
  /\ hook' = AfterClose(s)
  /\ UNCHANGED <<server, cache, stored, calls, drops, stops, history>>

\* The connection fails: one end learns of it before the other.
Break(s) ==
  /\ ends[s] = "open" /\ drops < MaxDrops
  /\ drops' = drops + 1
  /\ \/ /\ ends' = Closed(s)
        /\ hook' = AfterClose(s)
        /\ UNCHANGED sockets
     \/ /\ sockets[s].phase \in {"opened", "authed"}
        /\ sockets' = [sockets EXCEPT ![s].phase = "closing"]
        /\ UNCHANGED <<ends, hook>>
  /\ UNCHANGED <<sessions, devices, clients, cache, stored, calls, stops, history>>

\* A page is loaded, the chat page or another one.
Load(phase) ==
  /\ drops < MaxDrops
  /\ drops' = drops + 1
  /\ cache' = stored
  /\ hook' = Idle(phase)
  /\ ends' = IF hook.socket = None THEN ends ELSE Closed(hook.socket)
  /\ calls' = [c \in Calls |-> Dropped(c)]
  /\ unsaid' = unsaid \cup (UNION {NotKept(c) : c \in Calls})
                     \cup (IF stored # cache THEN {w.device : w \in {cache, stored} \ {None}} ELSE {})
  /\ UNCHANGED <<server, stored, stops, halves, ghosts>>

-----------------------------------------------------------------------------
Init ==
  /\ sessions = [b \in Bindings |-> "none"]
  /\ devices = [d \in Devices |-> None]
  /\ clients = [d \in Devices |-> None]
  /\ sockets = [s \in Sockets |-> NoSocket]
  /\ ends = [s \in Sockets |-> "closed"]
  /\ cache = None /\ stored = None
  /\ hook = Idle("away")
  /\ calls = [c \in Calls |-> NoCall]
  /\ drops = 0 /\ stops = 0 /\ halves = 0
  /\ unsaid = {} /\ ghosts = {}

Socketwise(s) ==
  Accept(s) \/ Authenticate(s) \/ SocketCloses(s)
  \/ OpenSocket(s) \/ SendAuth(s) \/ AuthOk(s) \/ PhoneSeesClose(s)

Callwise(c) == Confirm(c) \/ Rotate(c) \/ RevokeMe(c) \/ Receive(c)

Owner ==
  \/ \E b \in Bindings : StartBinding(b) \/ Expire(b)
  \/ \E d \in Devices : Revoke(d)
  \/ \E c \in Calls : AskRotation(c)

User ==
  \/ \E c \in Calls : SendRotate(c) \/ SendForget(c)
  \/ \E c \in Calls, b \in Bindings : SendPair(c, b)
  \/ \E phase \in {"away", "offline"} : Load(phase)

Next ==
  \/ \E s \in Sockets : Socketwise(s) \/ AuthTimeout(s) \/ Break(s)
  \/ \E c \in Calls : Callwise(c) \/ GiveUp(c) \/ ConnectRotates(c)
  \/ Owner \/ User
  \/ Connect \/ Store \/ Stop

Spec == Init /\ [][Next]_vars

\* Each end of a socket gets what the other sent or learns of its end, a request that
\* arrived is answered, and a timer fires.
Fairness ==
  /\ \A s \in Sockets : WF_vars(Socketwise(s))
  /\ \A c \in Calls : WF_vars(Callwise(c))
  /\ WF_vars(Connect)

FairSpec == Spec /\ Fairness

-----------------------------------------------------------------------------
(* What the owner is promised: DeviceRegistry *)

Links == [b \in Bindings |-> CASE sessions[b] = "none"      -> "unmade"
                               [] sessions[b] = "open"      -> "open"
                               [] sessions[b] = "confirmed" -> "used"
                               [] OTHER                     -> "over"]

Access == [d \in Devices |->
  IF devices[d] = None THEN [state |-> "none", token |-> 0, link |-> None]
  ELSE [state |-> IF devices[d].status = "revoked" THEN "withdrawn" ELSE "granted",
        token |-> devices[d].token, link |-> devices[d].from]]

Asked == [c \in Calls |->
  IF calls[c].answered \/ calls[c].kind = "none"
  THEN [kind |-> "none", binding |-> None, with |-> None]
  ELSE [kind |-> calls[c].kind, binding |-> calls[c].binding, with |-> calls[c].with]]

Greeted == [s \in Sockets |-> sockets[s].auth]

Live == {d \in Devices : clients[d] # None}

Registry == INSTANCE DeviceRegistry WITH
  links <- Links, access <- Access, asked <- Asked, greeted <- Greeted, live <- Live

-----------------------------------------------------------------------------
(* Properties *)

\* The variables have their types.
TypeOK ==
  /\ sessions \in [Bindings -> {"none", "open", "confirmed", "expired", "pruned"}]
  /\ devices \in [Devices -> Device \cup {None}]
  /\ clients \in [Devices -> Sockets \cup {None}]
  /\ sockets \in [Sockets -> Socket]
  /\ ends \in [Sockets -> {"open", "closed"}]
  /\ cache \in Credential \cup {None} /\ stored \in Credential \cup {None}
  /\ hook \in Hook
  /\ calls \in [Calls -> Call]
  /\ drops \in 0 .. MaxDrops /\ stops \in 0 .. MaxStops /\ halves \in 0 .. MaxStops
  /\ unsaid \subseteq Devices /\ ghosts \subseteq Devices

\* A pairing link binds one device, however often it is confirmed; only an end of the
\* server between the two statements of devices/bind/confirm allows one more.
OneDevicePerBinding ==
  \A b \in Bindings :
    Cardinality({d \in Devices : Bound(d) /\ devices[d].from = b}) <= 1 + halves

\* The devices table says that a device is online exactly while wsClients has a socket
\* of it, a socket that was authenticated for it; after an end of the server the status
\* stays until the device's next socket.  A revoked device has no entry.
PresenceTrue ==
  \A d \in Devices :
    /\ Bound(d) => ((devices[d].status = "online") <=> (clients[d] # None \/ d \in ghosts))
    /\ clients[d] # None => /\ sockets[clients[d]].phase \in {"authed", "closing"}
                             /\ sockets[clients[d]].device = d

\* The token the phone uses is the one the server knows, whatever requests overlapped,
\* unless the answer of a rotation is on its way or got lost.
CredentialInStep ==
  \/ cache = None
  \/ cache.token = None
  \/ cache.device \in unsaid
  \/ \E c \in Calls : calls[c].awaited /\ calls[c].kind = "rotate" /\ calls[c].answer # None
  \/ cache.token = devices[cache.device].token

\* A revoked device stays revoked, and no late event of a socket or request of its
\* phone brings it back.
RevokedForGood ==
  [][\A d \in Devices : (Bound(d) /\ devices[d].status = "revoked") => devices'[d] = devices[d]]_vars

\* Requests, answers, sockets and restarts do to the access of the devices what
\* DeviceRegistry allows: a link grants it once, a request that is handled late, twice or
\* after a revocation changes nothing, and a request is refused only if its link is not
\* open or its credential is not the current one.
KeepsRegistry == Registry!Spec

\* A chat page whose credential the server accepts gets connected, after each close.
Reconnects ==
  (hook.phase # "away" /\ Valid(cache)) ~> (hook.phase \in {"away", "connected"} \/ ~Valid(cache))

\* The text of the dashboard for a rotation request that sendRealtimeToDevice did not
\* deliver: the device is offline, so none of its sockets is open and authenticated.
UndeliveredMeansOffline ==
  \A d \in Devices :
    ~Delivered(d) => \A s \in Sockets :
                       ~(ends[s] = "open" /\ sockets[s].phase = "authed" /\ sockets[s].device = d)
=============================================================================
