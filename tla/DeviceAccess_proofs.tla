------------------------- MODULE DeviceAccess_proofs -------------------------
(***************************************************************************)
(* Proofs about bindings, presence and credentials, for any number of      *)
(* devices, binding sessions, sockets, requests and failures.              *)
(***************************************************************************)
EXTENDS DeviceAccess, FiniteSetTheorems, TLAPS

\* What a request carries, and that only one that is awaited has an answer.
CallInv ==
  /\ halves <= stops
  /\ \A c \in Calls :
       /\ calls[c].kind = "pair" => calls[c].binding \in Bindings
       /\ calls[c].kind \in {"rotate", "forget"} => calls[c].with # None
       /\ calls[c].kind = "rotate" => calls[c].with.token # None
       /\ calls[c].answer # None =>
            calls[c].awaited /\ calls[c].answered /\ calls[c].kind \in {"pair", "rotate"}

DevicesOf(b) == {d \in Devices : Bound(d) /\ devices[d].from = b}

\* A session that was confirmed bound one device, any other one none but those of a
\* confirmation that was cut in half.
BindingInv ==
  \A b \in Bindings :
    /\ IsFiniteSet(DevicesOf(b))
    /\ Cardinality(DevicesOf(b)) <= halves + IF sessions[b] = "confirmed" THEN 1 ELSE 0

\* A device that has a socket or was online when the server ended is bound.
ClientInv ==
  \A d \in Devices : clients[d] # None \/ d \in ghosts => Bound(d)

\* A credential on its way or kept is of a bound device and not newer than the device's.
Known(x) ==
  x # None => /\ Bound(x.device)
              /\ x.token = None <=> x.device \in Signed
              /\ x.token # None => x.token <= devices[x.device].token

KnownInv ==
  /\ Known(cache) /\ Known(stored)
  /\ \A c \in Calls : Known(calls[c].with) /\ Known(calls[c].answer)

\* Two credentials of one device that differ.
Apart(x, y) == x # None /\ x.device = y.device => x.token # y.token

\* An answer that the phone has not seen holds its device's token, and the phone does
\* not know that token.
Unseen(c) ==
  LET a == calls[c].answer
  IN a # None /\ a.token # None /\ a.device \notin unsaid =>
       /\ a.token = devices[a.device].token
       /\ Apart(cache, a)
       /\ \A e \in Calls : calls[e].awaited => Apart(calls[e].with, a)
       /\ \A e \in Calls \ {c} : calls[e].answer # None => calls[e].answer.device # a.device

AnswerInv == \A c \in Calls : Unseen(c)

\* The token is the device's, or the device's is in an answer that is awaited.
InStep(x) ==
  \/ x.device \in unsaid
  \/ x.token = devices[x.device].token
  \/ \E c \in Calls : /\ calls[c].kind = "rotate" /\ calls[c].answer # None
                      /\ calls[c].answer.device = x.device

CacheInv == cache # None /\ cache.token # None => InStep(cache)

IInv ==
  /\ TypeOK /\ CallInv /\ BindingInv
  /\ PresenceTrue /\ ClientInv
  /\ KnownInv /\ AnswerInv /\ CacheInv

-----------------------------------------------------------------------------
(* Records *)

LEMMA NoSocketTyped ==
  NoSocket \in Socket /\ NoSocket.phase = "none" /\ NoSocket.device = None
BY DEF NoSocket, Socket, Phases

LEMMA NoCallTyped ==
  /\ NoCall \in Call /\ NoCall.kind = "none" /\ NoCall.with = None /\ NoCall.answer = None
  /\ ~NoCall.awaited /\ ~NoCall.answered
BY DEF NoCall, Call, Kinds

LEMMA IdleTyped ==
  ASSUME NEW phase \in {"away", "unbound", "offline", "rotating", "rotated", "connecting", "connected"}
  PROVE  /\ Idle(phase) \in Hook
         /\ \A c \in Calls : [Idle(phase) EXCEPT !.call = c] \in Hook
         /\ \A s \in Sockets : [Idle(phase) EXCEPT !.socket = s] \in Hook
BY DEF Idle, Hook

LEMMA CallTyped ==
  ASSUME TypeOK, NEW c \in Calls
  PROVE  /\ calls[c] \in Call /\ calls[c].kind \in Kinds
         /\ calls[c].binding \in Bindings \cup {None}
         /\ calls[c].with \in Credential \cup {None} /\ calls[c].answer \in Credential \cup {None}
         /\ calls[c].answered \in BOOLEAN /\ calls[c].awaited \in BOOLEAN
BY DEF TypeOK, Call

LEMMA CredentialTyped ==
  ASSUME NEW x \in Credential
  PROVE  x # None /\ x.device \in Devices /\ x.token \in Nat \cup {None}
BY RecordsAssumption DEF Credential

LEMMA DeviceTyped ==
  ASSUME TypeOK, NEW d \in Devices, Bound(d)
  PROVE  /\ devices[d] \in Device /\ devices[d].token \in Nat /\ devices[d].from \in Bindings
         /\ devices[d].status \in {"offline", "online", "revoked"}
BY DEF TypeOK, Bound, Device

\* The same devices are bound, with the same tokens.
SameTokens ==
  \A d \in Devices :
    /\ (devices'[d] # None) <=> (devices[d] # None)
    /\ devices[d] # None => /\ devices'[d].token = devices[d].token
                            /\ devices'[d].from = devices[d].from

\* The status of one device changes.
LEMMA StatusTyped ==
  ASSUME TypeOK, NEW d \in Devices, Bound(d), NEW status \in {"offline", "online", "revoked"},
         devices' = [devices EXCEPT ![d].status = status]
  PROVE  /\ devices' \in [Devices -> Device \cup {None}] /\ SameTokens
         /\ devices'[d].status = status
         /\ devices[d].status = status => devices'[d] = devices[d]
         /\ \A e \in Devices \ {d} : devices'[e] = devices[e]
<1> DEFINE row == [devices[d] EXCEPT !.status = status]
<1>1. devices[d] \in Device
  BY DeviceTyped
<1>2. /\ row \in Device /\ row.status = status /\ row.token = devices[d].token
      /\ row.from = devices[d].from
      /\ devices[d].status = status => row = devices[d]
  BY <1>1 DEF Device
<1>3. devices' = [devices EXCEPT ![d] = row] /\ devices \in [Devices -> Device \cup {None}]
  BY DEF TypeOK
<1> HIDE DEF row
<1>4. row # None
  BY <1>2, RecordsAssumption
<1>5. devices'[d] = row /\ \A e \in Devices \ {d} : devices'[e] = devices[e]
  BY <1>3
<1> QED BY <1>2, <1>3, <1>4, <1>5 DEF SameTokens, Bound

LEMMA PresenceTyped ==
  ASSUME TypeOK, NEW d \in Devices, NEW status \in {"offline", "online"},
         devices' = Presence(d, status)
  PROVE  /\ devices' \in [Devices -> Device \cup {None}] /\ SameTokens
         /\ Active(d) => devices'[d].status = status
         /\ ~Active(d) => devices'[d] = devices[d]
         /\ \A e \in Devices \ {d} : devices'[e] = devices[e]
<1>1. CASE Active(d)
  BY <1>1, StatusTyped DEF Presence, Active
<1>2. CASE ~Active(d)
  BY <1>2 DEF Presence, SameTokens, TypeOK
<1> QED BY <1>1, <1>2

\* A device is inserted.
LEMMA InsertedTyped ==
  ASSUME TypeOK, NEW b \in Bindings, NEW d \in Devices, devices' = Inserted(b, d)
  PROVE  /\ devices' \in [Devices -> Device \cup {None}]
         /\ devices'[d] # None /\ devices'[d].status = "offline"
         /\ devices'[d].token = 0 /\ devices'[d].from = b
         /\ \A e \in Devices \ {d} : devices'[e] = devices[e]
<1> DEFINE row == [status |-> "offline", token |-> 0, from |-> b]
<1>1. row \in Device /\ row.status = "offline" /\ row.token = 0 /\ row.from = b
  BY DEF Device
<1>2. devices' = [devices EXCEPT ![d] = row] /\ devices \in [Devices -> Device \cup {None}]
  BY DEF TypeOK, Inserted
<1> HIDE DEF row
<1> QED BY <1>1, <1>2, RecordsAssumption

\* One request is replaced.
LEMMA CallReplaced ==
  ASSUME TypeOK, NEW c \in Calls, NEW call \in Call, calls' = [calls EXCEPT ![c] = call]
  PROVE  /\ calls' \in [Calls -> Call] /\ calls'[c] = call
         /\ \A e \in Calls \ {c} : calls'[e] = calls[e]
BY DEF TypeOK

LEMMA AnsweredTyped ==
  ASSUME TypeOK, NEW c \in Calls, NEW x \in Credential \cup {None}, calls' = Answered(c, x)
  PROVE  /\ calls' \in [Calls -> Call]
         /\ \A e \in Calls \ {c} : calls'[e] = calls[e]
         /\ calls[c].awaited =>
              /\ calls'[c].kind = calls[c].kind /\ calls'[c].binding = calls[c].binding
              /\ calls'[c].with = calls[c].with /\ calls'[c].awaited
              /\ calls'[c].answered /\ calls'[c].answer = x
         /\ ~calls[c].awaited => calls'[c] = NoCall
<1>1. CASE calls[c].awaited
  <2> DEFINE call == [calls[c] EXCEPT !.answered = TRUE, !.answer = x]
  <2>1. /\ call \in Call /\ call.kind = calls[c].kind /\ call.binding = calls[c].binding
        /\ call.with = calls[c].with /\ call.awaited = calls[c].awaited
        /\ call.answered /\ call.answer = x
    BY CallTyped DEF Call
  <2>2. calls' = [calls EXCEPT ![c] = call]
    BY <1>1 DEF Answered, TypeOK
  <2> HIDE DEF call
  <2> QED BY <1>1, <2>1, <2>2, CallReplaced
<1>2. CASE ~calls[c].awaited
  <2>1. calls' = [calls EXCEPT ![c] = NoCall]
    BY <1>2 DEF Answered, TypeOK
  <2> QED BY <1>2, <2>1, CallReplaced, NoCallTyped
<1> QED BY <1>1, <1>2

LEMMA SentTyped ==
  ASSUME TypeOK, NEW c \in Calls, NEW kind \in {"pair", "rotate", "forget"},
         NEW b \in Bindings \cup {None}, Sent(c, kind, b)
  PROVE  /\ calls' \in [Calls -> Call]
         /\ \A e \in Calls \ {c} : calls'[e] = calls[e]
         /\ calls'[c].kind = kind /\ calls'[c].binding = b /\ calls'[c].awaited
         /\ calls'[c].with = IF kind = "pair" THEN None ELSE cache
         /\ calls'[c].answer = None /\ ~calls'[c].answered
<1> DEFINE call == [NoCall EXCEPT !.kind = kind, !.binding = b,
                                  !.with = IF kind = "pair" THEN None ELSE cache, !.awaited = TRUE]
<1>1. cache \in Credential \cup {None}
  BY DEF TypeOK
<1>2. /\ call \in Call /\ call.kind = kind /\ call.binding = b /\ call.awaited
      /\ call.with = IF kind = "pair" THEN None ELSE cache
      /\ call.answer = None /\ ~call.answered
  BY <1>1 DEF NoCall, Call, Kinds
<1>3. calls' = [calls EXCEPT ![c] = call]
  BY DEF Sent
<1> HIDE DEF call
<1> QED BY <1>2, <1>3, CallReplaced

LEMMA DroppedTyped ==
  ASSUME TypeOK, CallInv, NEW c \in Calls
  PROVE  /\ Dropped(c) \in Call
         /\ ~Dropped(c).awaited /\ Dropped(c).answer = None
         /\ \/ Dropped(c) = NoCall
            \/ /\ Dropped(c).kind = calls[c].kind /\ Dropped(c).with = calls[c].with
               /\ Dropped(c).binding = calls[c].binding
<1>1. CASE calls[c].answered
  BY <1>1, NoCallTyped DEF Dropped
<1>2. CASE ~calls[c].answered
  <2>1. calls[c].answer = None
    BY <1>2 DEF CallInv
  <2> QED BY <1>2, <2>1, CallTyped DEF Dropped, Call
<1> QED BY <1>1, <1>2

-----------------------------------------------------------------------------
(* What a step that leaves something alone keeps *)

LEMMA SameCredentials ==
  ASSUME IInv, SameTokens, UNCHANGED <<cache, stored, calls, unsaid>>
  PROVE  KnownInv' /\ AnswerInv' /\ CacheInv'
<1>1. \A x \in Credential \cup {None} : Known(x) => Known(x)'
  BY CredentialTyped DEF Known, Bound, SameTokens
<1>2. KnownInv'
  <2>1. /\ cache \in Credential \cup {None} /\ stored \in Credential \cup {None}
        /\ \A c \in Calls : /\ calls[c].with \in Credential \cup {None}
                            /\ calls[c].answer \in Credential \cup {None}
    BY CallTyped DEF IInv, TypeOK
  <2> QED BY <1>1, <2>1 DEF IInv, KnownInv, Known
<1>3. \A c \in Calls : calls[c].answer # None =>
        /\ calls[c].answer.device \in Devices
        /\ devices'[calls[c].answer.device].token = devices[calls[c].answer.device].token
  <2> SUFFICES ASSUME NEW c \in Calls, calls[c].answer # None
               PROVE  /\ calls[c].answer.device \in Devices
                      /\ devices'[calls[c].answer.device].token = devices[calls[c].answer.device].token
    OBVIOUS
  <2>1. calls[c].answer.device \in Devices /\ Bound(calls[c].answer.device)
    BY CallTyped, CredentialTyped DEF IInv, KnownInv, Known
  <2> QED BY <2>1 DEF SameTokens, Bound
<1>4. AnswerInv'
  BY <1>3 DEF IInv, AnswerInv, Unseen, Apart
<1>5. cache # None => devices'[cache.device].token = devices[cache.device].token
  BY CredentialTyped DEF IInv, TypeOK, KnownInv, Known, Bound, SameTokens
<1>6. CacheInv'
  BY <1>5 DEF IInv, CacheInv, InStep
<1> QED BY <1>2, <1>4, <1>6

LEMMA SameBindings ==
  ASSUME IInv, SameTokens, UNCHANGED <<sessions, halves>>
  PROVE  BindingInv'
<1>1. \A b \in Bindings : DevicesOf(b)' = DevicesOf(b)
  BY DEF SameTokens, DevicesOf, Bound
<1> QED BY <1>1 DEF IInv, BindingInv

\* The steps of sockets before and after they are in wsClients, and of the hook.
LEMMA SocketStep ==
  ASSUME IInv,
         UNCHANGED <<sessions, devices, clients, cache, stored, calls, stops, halves, unsaid, ghosts>>,
         drops' \in 0 .. MaxDrops, hook' \in Hook, ends' \in [Sockets -> {"open", "closed"}],
         sockets' \in [Sockets -> Socket],
         \A s \in Sockets : \/ sockets'[s] = sockets[s]
                            \/ sockets[s].phase \notin {"authed", "closing"}
                            \/ sockets'[s].phase = "closing" /\ sockets'[s].device = sockets[s].device
  PROVE  IInv'
<1>1. TypeOK' /\ CallInv' /\ ClientInv'
  BY DEF IInv, TypeOK, CallInv, ClientInv, Bound
<1>2. SameTokens
  BY DEF SameTokens
<1>3. PresenceTrue'
  <2>1. \A d \in Devices : clients[d] # None => clients[d] \in Sockets
    BY DEF IInv, TypeOK
  <2> QED BY <2>1 DEF IInv, PresenceTrue, Bound
<1> QED BY <1>1, <1>2, <1>3, SameCredentials, SameBindings DEF IInv

LEMMA SocketwiseStep ==
  ASSUME IInv, NEW s \in Sockets,
         Accept(s) \/ OpenSocket(s) \/ SendAuth(s) \/ AuthOk(s) \/ PhoneSeesClose(s)
         \/ AuthTimeout(s) \/ Break(s)
  PROVE  IInv'
<1>1. /\ UNCHANGED <<sessions, devices, clients, cache, stored, calls, stops, halves, unsaid, ghosts>>
      /\ drops' \in 0 .. MaxDrops
  BY BoundsAssumption
     DEF IInv, TypeOK, Accept, OpenSocket, SendAuth, AuthOk, PhoneSeesClose, AuthTimeout, Break,
         server, phone, history
<1>2. /\ sockets \in [Sockets -> Socket] /\ ends \in [Sockets -> {"open", "closed"}] /\ hook \in Hook
      /\ cache \in Credential \cup {None}
  BY DEF IInv, TypeOK
<1>3. ends' \in [Sockets -> {"open", "closed"}]
  BY <1>2 DEF Accept, OpenSocket, SendAuth, AuthOk, PhoneSeesClose, AuthTimeout, Break, Closed
<1>4. hook' \in Hook
  <2>1. hook' \in {hook, Idle("offline"), [Idle("connecting") EXCEPT !.socket = s],
                   [hook EXCEPT !.phase = "connected"]}
    BY DEF Accept, OpenSocket, SendAuth, AuthOk, PhoneSeesClose, AuthTimeout, Break, AfterClose, phone
  <2>2. [hook EXCEPT !.phase = "connected"] \in Hook
    BY <1>2 DEF Hook
  <2> QED BY <1>2, <2>1, <2>2, IdleTyped
<1>5. /\ sockets' \in [Sockets -> Socket]
      /\ \A r \in Sockets : \/ sockets'[r] = sockets[r]
                            \/ sockets[r].phase \notin {"authed", "closing"}
                            \/ sockets'[r].phase = "closing" /\ sockets'[r].device = sockets[r].device
  <2>1. CASE AuthOk(s) \/ PhoneSeesClose(s) \/ (Break(s) /\ UNCHANGED sockets)
    BY <1>2, <2>1 DEF AuthOk, PhoneSeesClose, server
  <2>2. CASE OpenSocket(s)
    BY <1>2, <2>2, NoSocketTyped DEF OpenSocket, Free
  <2>3. CASE Accept(s)
    BY <1>2, <2>3 DEF Accept, Socket, Phases
  <2>4. CASE SendAuth(s)
    BY <1>2, <2>4 DEF SendAuth, Socket, Phases
  <2>5. CASE AuthTimeout(s)
    BY <1>2, <2>5 DEF AuthTimeout, Socket, Phases
  <2>6. CASE sockets' = [sockets EXCEPT ![s].phase = "closing"]
    BY <1>2, <2>6 DEF Socket, Phases
  <2> QED BY <2>1, <2>2, <2>3, <2>4, <2>5, <2>6 DEF Break
<1> QED BY <1>1, <1>3, <1>4, <1>5, SocketStep

LEMMA ConnectStep ==
  ASSUME IInv, Connect
  PROVE  IInv'
<1>1. /\ UNCHANGED <<sessions, devices, clients, sockets, ends, cache, stored, calls, drops, stops,
                     halves, unsaid, ghosts>>
      /\ hook' \in {Idle("unbound"), Idle("rotated")}
  BY DEF Connect, server, history
<1> QED BY <1>1, IdleTyped, SocketStep DEF IInv, TypeOK

-----------------------------------------------------------------------------
(* Binding sessions and presence *)

LEMMA SessionStep ==
  ASSUME IInv, NEW b \in Bindings, StartBinding(b) \/ Expire(b)
  PROVE  IInv'
<1>1. UNCHANGED <<devices, clients, sockets, ends, cache, stored, hook, calls, drops, stops,
                  halves, unsaid, ghosts>>
  BY DEF StartBinding, Expire, phone, history
<1>2. /\ sessions' \in [Bindings -> {"none", "open", "confirmed", "expired", "pruned"}]
      /\ \A c \in Bindings : sessions[c] = "confirmed" => sessions'[c] = "confirmed"
  BY DEF StartBinding, Expire, IInv, TypeOK
<1>3. TypeOK' /\ CallInv' /\ ClientInv' /\ PresenceTrue'
  BY <1>1, <1>2 DEF IInv, TypeOK, CallInv, ClientInv, PresenceTrue, Bound
<1>4. BindingInv'
  <2>1. \A c \in Bindings : DevicesOf(c)' = DevicesOf(c)
    BY <1>1 DEF DevicesOf, Bound
  <2>2. \A c \in Bindings : /\ IsFiniteSet(DevicesOf(c)) /\ Cardinality(DevicesOf(c)) \in Nat
                            /\ Cardinality(DevicesOf(c)) <= halves + IF sessions[c] = "confirmed" THEN 1 ELSE 0
    BY FS_CardinalityType DEF IInv, BindingInv
  <2>3. halves \in Nat
    BY BoundsAssumption DEF IInv, TypeOK
  <2> QED BY <1>1, <1>2, <2>1, <2>2, <2>3 DEF BindingInv
<1>5. SameTokens
  BY <1>1 DEF SameTokens
<1> QED BY <1>1, <1>3, <1>4, <1>5, SameCredentials DEF IInv

\* Steps of the server that change the status of a device and its socket.
LEMMA PresenceStep ==
  ASSUME IInv, SameTokens, PresenceTrue', ClientInv',
         devices' \in [Devices -> Device \cup {None}],
         clients' \in [Devices -> Sockets \cup {None}], sockets' \in [Sockets -> Socket],
         ghosts' \subseteq Devices,
         UNCHANGED <<sessions, ends, cache, stored, hook, calls, drops, stops, halves, unsaid>>
  PROVE  IInv'
<1>1. TypeOK' /\ CallInv'
  BY DEF IInv, TypeOK, CallInv
<1> QED BY <1>1, SameCredentials, SameBindings DEF IInv

LEMMA AuthenticateStep ==
  ASSUME IInv, NEW s \in Sockets, Authenticate(s)
  PROVE  IInv'
<1> DEFINE c == sockets[s].auth
<1> DEFINE d == c.device
<1>1. /\ sockets \in [Sockets -> Socket] /\ clients \in [Devices -> Sockets \cup {None}]
      /\ sockets[s].phase = "opened" /\ c \in Credential /\ c # None
      /\ UNCHANGED <<sessions, ends, cache, stored, hook, calls, drops, stops, halves, unsaid>>
  BY DEF Authenticate, IInv, TypeOK, Socket, phone
<1>2. \A e \in Devices : clients[e] # s
  BY <1>1, NoneAssumption DEF IInv, PresenceTrue
<1>3. CASE Valid(c)
  <2>1. /\ sockets' = [sockets EXCEPT ![s] = [phase |-> "authed", device |-> d, auth |-> None]]
        /\ devices' = Presence(d, "online")
        /\ clients' = [clients EXCEPT ![d] = s]
        /\ ghosts' = ghosts \ {d}
        /\ d \in Devices /\ Active(d)
    BY <1>1, <1>3, CredentialTyped DEF Authenticate, Valid
  <2> HIDE DEF d
  <2>2. /\ devices' \in [Devices -> Device \cup {None}] /\ SameTokens
        /\ devices'[d].status = "online"
        /\ \A e \in Devices \ {d} : devices'[e] = devices[e]
    BY <2>1, PresenceTyped DEF IInv
  <2>3. [phase |-> "authed", device |-> d, auth |-> None] \in Socket
    BY <2>1 DEF Socket, Phases
  <2>4. /\ sockets' \in [Sockets -> Socket] /\ sockets'[s].phase = "authed" /\ sockets'[s].device = d
        /\ \A r \in Sockets \ {s} : sockets'[r] = sockets[r]
    BY <1>1, <2>1, <2>3
  <2>5. /\ clients' \in [Devices -> Sockets \cup {None}] /\ clients'[d] = s
        /\ \A e \in Devices \ {d} : clients'[e] = clients[e]
    BY <1>1, <2>1
  <2>6. ClientInv'
    BY <2>1, <2>2, <2>5 DEF IInv, ClientInv, Bound, Active, SameTokens
  <2>7. PresenceTrue'
    <3> SUFFICES ASSUME NEW e \in Devices
                 PROVE  /\ Bound(e)' => ((devices'[e].status = "online")
                                          <=> (clients'[e] # None \/ e \in ghosts'))
                        /\ clients'[e] # None =>
                             /\ sockets'[clients'[e]].phase \in {"authed", "closing"}
                             /\ sockets'[clients'[e]].device = e
      BY DEF PresenceTrue
    <3>1. CASE e = d
      BY <2>2, <2>4, <2>5, <3>1, NoneAssumption
    <3>2. CASE e # d
      <4>1. clients[e] # None => clients[e] \in Sockets \ {s}
        BY <1>1, <1>2
      <4> QED BY <2>1, <2>2, <2>4, <2>5, <3>2, <4>1 DEF IInv, PresenceTrue, Bound
    <3> QED BY <3>1, <3>2
  <2>8. ghosts' \subseteq Devices
    BY <2>1 DEF IInv, TypeOK
  <2> QED BY <1>1, <2>2, <2>4, <2>5, <2>6, <2>7, <2>8, PresenceStep
<1>4. CASE ~Valid(c)
  <2>1. /\ sockets' = [sockets EXCEPT ![s] = [sockets[s] EXCEPT !.phase = "closing", !.auth = None]]
        /\ UNCHANGED <<devices, clients, ghosts>>
    BY <1>1, <1>4 DEF Authenticate
  <2>2. /\ sockets' \in [Sockets -> Socket]
        /\ \A r \in Sockets \ {s} : sockets'[r] = sockets[r]
    BY <1>1, <2>1 DEF Socket, Phases
  <2> QED BY <1>1, <2>1, <2>2, SocketStep DEF IInv, TypeOK
<1> QED BY <1>3, <1>4

LEMMA SocketClosesStep ==
  ASSUME IInv, NEW s \in Sockets, SocketCloses(s)
  PROVE  IInv'
<1> DEFINE d == sockets[s].device
<1>1. /\ sockets \in [Sockets -> Socket] /\ clients \in [Devices -> Sockets \cup {None}]
      /\ d \in Devices \cup {None}
      /\ sockets' = [sockets EXCEPT ![s] = [phase |-> "gone", device |-> None, auth |-> None]]
      /\ UNCHANGED <<sessions, ends, cache, stored, hook, calls, drops, stops, halves, unsaid>>
  BY DEF SocketCloses, IInv, TypeOK, Socket, phone
<1>2. [phase |-> "gone", device |-> None, auth |-> None] \in Socket
  BY DEF Socket, Phases
<1>3. /\ sockets' \in [Sockets -> Socket]
      /\ \A r \in Sockets \ {s} : sockets'[r] = sockets[r]
  BY <1>1, <1>2
<1>4. \A e \in Devices : clients[e] = s => e = d
  BY NoneAssumption DEF IInv, PresenceTrue
<1>5. CASE d = None
  <2>1. \A e \in Devices : clients[e] # s
    BY <1>4, <1>5, NoneAssumption
  <2>2. UNCHANGED <<devices, clients, ghosts>>
    BY <1>5 DEF SocketCloses
  <2>3. SameTokens /\ ClientInv'
    BY <2>2 DEF SameTokens, IInv, ClientInv, Bound
  <2>4. PresenceTrue'
    BY <1>1, <1>3, <2>1, <2>2 DEF IInv, PresenceTrue, Bound
  <2> QED BY <1>1, <1>3, <2>2, <2>3, <2>4, PresenceStep DEF IInv, TypeOK
<1>6. CASE d # None
  <2>1. /\ clients' = [clients EXCEPT ![d] = None] /\ devices' = Presence(d, "offline")
        /\ ghosts' = ghosts \ {d} /\ d \in Devices
    BY <1>1, <1>6 DEF SocketCloses, EntryDeleted
  <2> HIDE DEF d
  <2>2. /\ devices' \in [Devices -> Device \cup {None}] /\ SameTokens
        /\ Active(d) => devices'[d].status = "offline"
        /\ ~Active(d) => devices'[d] = devices[d]
        /\ \A e \in Devices \ {d} : devices'[e] = devices[e]
    BY <2>1, PresenceTyped DEF IInv
  <2>3. /\ clients' \in [Devices -> Sockets \cup {None}] /\ clients'[d] = None
        /\ \A e \in Devices \ {d} : clients'[e] = clients[e]
    BY <1>1, <2>1
  <2>4. ClientInv'
    BY <2>1, <2>2, <2>3 DEF IInv, ClientInv, Bound, SameTokens
  <2>5. PresenceTrue'
    <3> SUFFICES ASSUME NEW e \in Devices
                 PROVE  /\ Bound(e)' => ((devices'[e].status = "online")
                                          <=> (clients'[e] # None \/ e \in ghosts'))
                        /\ clients'[e] # None =>
                             /\ sockets'[clients'[e]].phase \in {"authed", "closing"}
                             /\ sockets'[clients'[e]].device = e
      BY DEF PresenceTrue
    <3>1. CASE e = d
      BY <2>1, <2>2, <2>3, <3>1 DEF Active, Bound, SameTokens
    <3>2. CASE e # d
      <4>1. clients[e] # None => clients[e] \in Sockets \ {s}
        BY <1>1, <1>4, <3>2 DEF d
      <4> QED BY <1>3, <2>1, <2>2, <2>3, <3>2, <4>1 DEF IInv, PresenceTrue, Bound
    <3> QED BY <3>1, <3>2
  <2>6. ghosts' \subseteq Devices
    BY <2>1 DEF IInv, TypeOK
  <2> QED BY <1>1, <1>3, <2>2, <2>3, <2>4, <2>5, <2>6, PresenceStep
<1> QED BY <1>5, <1>6

\* What revokeDevice does.
LEMMA RevokedTyped ==
  ASSUME IInv, NEW d \in Devices, Bound(d), Revoked(d)
  PROVE  /\ SameTokens /\ PresenceTrue' /\ ClientInv'
         /\ devices' \in [Devices -> Device \cup {None}]
         /\ clients' \in [Devices -> Sockets \cup {None}] /\ sockets' \in [Sockets -> Socket]
         /\ ghosts' \subseteq Devices
<1>1. /\ sockets \in [Sockets -> Socket] /\ clients \in [Devices -> Sockets \cup {None}]
      /\ devices' = [devices EXCEPT ![d].status = "revoked"]
      /\ clients' = [clients EXCEPT ![d] = None] /\ ghosts' = ghosts \ {d}
      /\ sockets' = IF clients[d] = None THEN sockets ELSE [sockets EXCEPT ![clients[d]].phase = "closing"]
      /\ ghosts' \subseteq Devices
  BY DEF Revoked, ConnectionClosed, EntryDeleted, IInv, TypeOK
<1>2. /\ devices' \in [Devices -> Device \cup {None}] /\ SameTokens
      /\ devices'[d].status = "revoked"
      /\ \A e \in Devices \ {d} : devices'[e] = devices[e]
  BY <1>1, StatusTyped DEF IInv
<1>3. /\ sockets' \in [Sockets -> Socket]
      /\ \A r \in Sockets : sockets'[r] = sockets[r]
                            \/ (sockets'[r].phase = "closing" /\ sockets'[r].device = sockets[r].device)
  BY <1>1 DEF Socket, Phases
<1>4. /\ clients' \in [Devices -> Sockets \cup {None}] /\ clients'[d] = None
      /\ \A e \in Devices \ {d} : clients'[e] = clients[e]
  BY <1>1
<1>5. ClientInv'
  BY <1>1, <1>2, <1>4 DEF IInv, ClientInv, Bound, SameTokens
<1>6. PresenceTrue'
  <2> SUFFICES ASSUME NEW e \in Devices
               PROVE  /\ Bound(e)' => ((devices'[e].status = "online")
                                        <=> (clients'[e] # None \/ e \in ghosts'))
                      /\ clients'[e] # None =>
                           /\ sockets'[clients'[e]].phase \in {"authed", "closing"}
                           /\ sockets'[clients'[e]].device = e
    BY DEF PresenceTrue
  <2>1. CASE e = d
    BY <1>1, <1>2, <1>4, <2>1
  <2>2. CASE e # d
    <3>1. clients[e] # None => clients[e] \in Sockets
      BY <1>1
    <3> QED BY <1>1, <1>2, <1>3, <1>4, <2>2, <3>1 DEF IInv, PresenceTrue, Bound
  <2> QED BY <2>1, <2>2
<1> QED BY <1>1, <1>2, <1>3, <1>4, <1>5, <1>6

LEMMA RevokeStep ==
  ASSUME IInv, NEW d \in Devices, Revoke(d)
  PROVE  IInv'
<1>1. UNCHANGED <<sessions, ends, cache, stored, hook, calls, drops, stops, halves, unsaid>>
  BY DEF Revoke, phone
<1> QED BY <1>1, RevokedTyped, PresenceStep DEF Revoke

-----------------------------------------------------------------------------
(* Credentials *)

LEMMA CredentialsTyped ==
  ASSUME TypeOK
  PROVE  /\ cache \in Credential \cup {None} /\ stored \in Credential \cup {None}
         /\ \A c \in Calls : /\ calls[c].with \in Credential \cup {None}
                             /\ calls[c].answer \in Credential \cup {None}
BY CallTyped DEF TypeOK

\* The bound devices stay, with their tokens.
TokensKept ==
  \A d \in Devices : devices[d] # None => /\ devices'[d] # None
                                          /\ devices'[d].token = devices[d].token

LEMMA KnownKept ==
  ASSUME TokensKept, NEW x \in Credential \cup {None}, Known(x)
  PROVE  /\ Known(x)'
         /\ x # None => x.device \in Devices /\ devices'[x.device].token = devices[x.device].token
BY CredentialTyped DEF Known, Bound, TokensKept

\* Requests are sent, answered with nothing or given up; the phone may forget what it
\* knew or store it.
LEMMA CredentialsKept ==
  ASSUME IInv, TokensKept, unsaid \subseteq unsaid',
         cache' \in {cache, None}, stored' \in {stored, cache},
         \A e \in Calls :
           /\ \/ calls'[e].answer = calls[e].answer
              \/ /\ calls'[e].answer = None
                 /\ calls[e].kind = "rotate" /\ calls[e].answer # None =>
                      calls[e].answer.device \in unsaid'
           /\ calls'[e].answer # None => calls'[e].kind = calls[e].kind
           /\ \/ calls'[e].with \in {None, cache}
              \/ /\ calls'[e].with = calls[e].with
                 /\ calls'[e].awaited => calls[e].awaited
  PROVE  KnownInv' /\ AnswerInv' /\ CacheInv'
<1>1. /\ cache \in Credential \cup {None} /\ stored \in Credential \cup {None}
      /\ \A c \in Calls : /\ calls[c].with \in Credential \cup {None}
                          /\ calls[c].answer \in Credential \cup {None}
  BY CredentialsTyped DEF IInv
<1>2. /\ Known(cache)' /\ Known(stored)'
      /\ \A c \in Calls : Known(calls[c].with)' /\ Known(calls[c].answer)'
  <2>1. \A x \in Credential \cup {None} :
          Known(x) => (x # None => /\ devices'[x.device] # None
                                   /\ (x.token = None <=> x.device \in Signed)
                                   /\ (x.token # None => x.token <= devices'[x.device].token))
    BY KnownKept DEF Known, Bound
  <2>2. Known(cache) /\ Known(stored) /\ \A c \in Calls : Known(calls[c].with) /\ Known(calls[c].answer)
    BY DEF IInv, KnownInv
  <2> QED BY <1>1, <2>1, <2>2 DEF Known, Bound
<1>3. KnownInv'
  BY <1>2 DEF KnownInv, Known
<1>4. AnswerInv'
  <2> SUFFICES ASSUME NEW c \in Calls, calls'[c].answer # None, calls'[c].answer.token # None,
                      calls'[c].answer.device \notin unsaid'
               PROVE  /\ calls'[c].answer.token = devices'[calls'[c].answer.device].token
                      /\ Apart(cache', calls'[c].answer)
                      /\ \A e \in Calls : calls'[e].awaited => Apart(calls'[e].with, calls'[c].answer)
                      /\ \A e \in Calls \ {c} : calls'[e].answer # None =>
                           calls'[e].answer.device # calls'[c].answer.device
    BY DEF AnswerInv, Unseen, Apart
  <2>1. calls'[c].answer = calls[c].answer /\ calls[c].answer.device \notin unsaid
    OBVIOUS
  <2>2. /\ calls[c].answer.token = devices[calls[c].answer.device].token
        /\ Apart(cache, calls[c].answer)
        /\ \A e \in Calls : calls[e].awaited => Apart(calls[e].with, calls[c].answer)
        /\ \A e \in Calls \ {c} : calls[e].answer # None =>
             calls[e].answer.device # calls[c].answer.device
    BY <2>1 DEF IInv, AnswerInv, Unseen
  <2>3. devices'[calls[c].answer.device].token = devices[calls[c].answer.device].token
    BY <1>1, <2>1, KnownKept DEF IInv, KnownInv
  <2>4. Apart(cache', calls[c].answer)
    BY <2>2 DEF Apart
  <2>5. \A e \in Calls : calls'[e].awaited => Apart(calls'[e].with, calls[c].answer)
    BY <2>2 DEF Apart
  <2> QED BY <2>1, <2>2, <2>3, <2>4, <2>5
<1>5. CacheInv'
  <2> SUFFICES ASSUME cache # None, cache.token # None, cache' = cache
               PROVE  \/ cache.device \in unsaid'
                      \/ cache.token = devices'[cache.device].token
                      \/ \E c \in Calls : /\ calls'[c].kind = "rotate" /\ calls'[c].answer # None
                                          /\ calls'[c].answer.device = cache.device
    BY DEF CacheInv, InStep
  <2>1. InStep(cache)
    BY DEF IInv, CacheInv
  <2>2. devices'[cache.device].token = devices[cache.device].token
    BY <1>1, KnownKept DEF IInv, KnownInv
  <2> QED BY <2>1, <2>2 DEF InStep
<1> QED BY <1>3, <1>4, <1>5

LEMMA SendStep ==
  ASSUME IInv, NEW c \in Calls, NEW kind \in {"pair", "rotate", "forget"},
         NEW b \in Bindings \cup {None}, Sent(c, kind, b),
         kind = "pair" => b \in Bindings,
         kind # "pair" => cache # None,
         kind = "rotate" => cache.token # None,
         hook' \in Hook,
         UNCHANGED <<sessions, devices, clients, sockets, ends, cache, stored, drops, stops,
                     halves, unsaid, ghosts>>
  PROVE  IInv'
<1>1. /\ calls' \in [Calls -> Call]
      /\ \A e \in Calls \ {c} : calls'[e] = calls[e]
      /\ calls'[c].kind = kind /\ calls'[c].binding = b /\ calls'[c].awaited
      /\ calls'[c].with = IF kind = "pair" THEN None ELSE cache
      /\ calls'[c].answer = None /\ calls[c].kind = "none"
  BY SentTyped DEF IInv, Sent
<1>2. TypeOK' /\ ClientInv' /\ PresenceTrue'
  BY <1>1 DEF IInv, TypeOK, ClientInv, PresenceTrue, Bound
<1>3. CallInv'
  BY <1>1 DEF IInv, CallInv
<1>4. SameTokens /\ TokensKept
  BY DEF SameTokens, TokensKept
<1>5. KnownInv' /\ AnswerInv' /\ CacheInv'
  <2>1. calls[c].answer = None
    BY <1>1 DEF IInv, CallInv
  <2> QED BY <1>1, <1>4, <2>1, CredentialsKept
<1> QED BY <1>2, <1>3, <1>4, <1>5, SameBindings DEF IInv

LEMMA SendsStep ==
  ASSUME IInv, NEW c \in Calls,
         \/ \E b \in Bindings : SendPair(c, b)
         \/ SendRotate(c) \/ AskRotation(c) \/ SendForget(c) \/ ConnectRotates(c)
  PROVE  IInv'
<1>1. CASE \E b \in Bindings : SendPair(c, b)
  BY <1>1, SendStep DEF SendPair, server, phone, history, IInv, TypeOK
<1>2. CASE SendRotate(c) \/ AskRotation(c)
  BY <1>2, SendStep DEF SendRotate, AskRotation, HasToken, server, phone, history, IInv, TypeOK
<1>3. CASE SendForget(c)
  BY <1>3, SendStep DEF SendForget, server, phone, history, IInv, TypeOK
<1>4. CASE ConnectRotates(c)
  <2>1. hook' \in Hook
    BY <1>4, IdleTyped DEF ConnectRotates
  <2> QED BY <1>4, <2>1, SendStep DEF ConnectRotates, HasToken, server, history
<1> QED BY <1>1, <1>2, <1>3, <1>4

LEMMA StoreStep ==
  ASSUME IInv, Store
  PROVE  IInv'
<1>1. /\ stored' = cache
      /\ UNCHANGED <<sessions, devices, clients, sockets, ends, cache, hook, calls, drops, stops,
                     halves, unsaid, ghosts>>
  BY DEF Store, server, history
<1>2. TypeOK' /\ CallInv' /\ ClientInv' /\ PresenceTrue'
  BY <1>1 DEF IInv, TypeOK, CallInv, ClientInv, PresenceTrue, Bound
<1>3. SameTokens /\ TokensKept
  BY <1>1 DEF SameTokens, TokensKept
<1> QED BY <1>1, <1>2, <1>3, CredentialsKept, SameBindings DEF IInv

LEMMA ResumedTyped ==
  ASSUME TypeOK, NEW c
  PROVE  Resumed(c) \in Hook
BY IdleTyped DEF Resumed, TypeOK

LEMMA NotKeptTyped ==
  ASSUME TypeOK, NEW c \in Calls
  PROVE  /\ NotKept(c) \subseteq Devices
         /\ calls[c].awaited /\ calls[c].kind = "rotate" /\ calls[c].answer # None =>
              calls[c].answer.device \in NotKept(c)
BY CallTyped, CredentialTyped DEF NotKept

LEMMA GiveUpStep ==
  ASSUME IInv, NEW c \in Calls, GiveUp(c)
  PROVE  IInv'
<1>1. /\ calls[c].awaited
      /\ calls' = [calls EXCEPT ![c] = Dropped(c)]
      /\ unsaid' = unsaid \cup NotKept(c)
      /\ cache' \in {cache, None} /\ hook' = Resumed(c)
      /\ UNCHANGED <<sessions, devices, clients, sockets, ends, stored, stops, halves, ghosts>>
  BY DEF GiveUp, server
<1>2. drops' \in 0 .. MaxDrops
  BY BoundsAssumption DEF GiveUp, IInv, TypeOK
<1>3. /\ Dropped(c) \in Call /\ ~Dropped(c).awaited /\ Dropped(c).answer = None
      /\ \/ Dropped(c) = NoCall
         \/ /\ Dropped(c).kind = calls[c].kind /\ Dropped(c).with = calls[c].with
            /\ Dropped(c).binding = calls[c].binding
  BY DroppedTyped DEF IInv
<1>4. /\ calls' \in [Calls -> Call] /\ calls'[c] = Dropped(c)
      /\ \A e \in Calls \ {c} : calls'[e] = calls[e]
  BY <1>1, <1>3, CallReplaced DEF IInv
<1>5. TypeOK'
  BY <1>1, <1>2, <1>4, ResumedTyped, NotKeptTyped DEF IInv, TypeOK
<1>6. ClientInv' /\ PresenceTrue'
  BY <1>1 DEF IInv, ClientInv, PresenceTrue, Bound
<1>7. CallInv'
  BY <1>1, <1>3, <1>4, NoCallTyped DEF IInv, CallInv
<1>8. SameTokens /\ TokensKept
  BY <1>1 DEF SameTokens, TokensKept
<1>9. KnownInv' /\ AnswerInv' /\ CacheInv'
  <2>1. calls[c].kind = "rotate" /\ calls[c].answer # None => calls[c].answer.device \in unsaid'
    BY <1>1, NotKeptTyped DEF IInv
  <2>2. unsaid \subseteq unsaid'
    BY <1>1
  <2> QED BY <1>1, <1>3, <1>4, <1>8, <2>1, <2>2, NoCallTyped, CredentialsKept
<1> QED BY <1>1, <1>5, <1>6, <1>7, <1>8, <1>9, SameBindings DEF IInv

LEMMA ReceiveStep ==
  ASSUME IInv, NEW c \in Calls, Receive(c)
  PROVE  IInv'
<1> DEFINE a == calls[c].answer
<1>1. /\ calls[c].awaited /\ calls' = [calls EXCEPT ![c] = NoCall]
      /\ hook' = Resumed(c)
      /\ UNCHANGED <<sessions, devices, clients, sockets, ends, stored, drops, stops,
                     halves, unsaid, ghosts>>
  BY DEF Receive, server, history
<1>2. /\ calls' \in [Calls -> Call] /\ calls'[c] = NoCall
      /\ \A e \in Calls \ {c} : calls'[e] = calls[e]
  BY <1>1, CallReplaced, NoCallTyped DEF IInv
<1>3. /\ cache' \in {cache, None, a} /\ (cache' = a \/ a = None)
      /\ a \in Credential \cup {None}
  BY CallTyped DEF Receive, IInv, CallInv
<1>4. TypeOK'
  BY <1>1, <1>2, <1>3, ResumedTyped DEF IInv, TypeOK
<1>5. CallInv' /\ ClientInv' /\ PresenceTrue'
  BY <1>1, <1>2, NoCallTyped DEF IInv, CallInv, ClientInv, PresenceTrue, Bound
<1>6. SameTokens /\ TokensKept
  BY <1>1 DEF SameTokens, TokensKept
<1>7. KnownInv' /\ AnswerInv' /\ CacheInv'
  <2>1. CASE a = None
    BY <1>1, <1>2, <1>3, <1>6, <2>1, NoCallTyped, CredentialsKept
  <2>2. CASE a # None
    <3>1. cache' = a
      BY <1>3, <2>2
    <3>2. KnownInv'
      BY <1>1, <1>2, <3>1, NoCallTyped DEF IInv, KnownInv, Known, Bound
    <3>3. AnswerInv'
      <4> SUFFICES ASSUME NEW e \in Calls, calls'[e].answer # None, calls'[e].answer.token # None,
                          calls'[e].answer.device \notin unsaid
                   PROVE  Unseen(e)'
        BY <1>1 DEF AnswerInv, Unseen
      <4>1. e # c /\ calls'[e] = calls[e]
        BY <1>2, NoCallTyped
      <4>2. calls[e].answer.device # a.device
        BY <2>2, <4>1 DEF IInv, AnswerInv, Unseen
      <4>3. /\ calls[e].answer.token = devices[calls[e].answer.device].token
            /\ \A g \in Calls : calls[g].awaited => Apart(calls[g].with, calls[e].answer)
            /\ \A g \in Calls \ {e} : calls[g].answer # None =>
                 calls[g].answer.device # calls[e].answer.device
        BY <4>1 DEF IInv, AnswerInv, Unseen
      <4> QED BY <1>1, <1>2, <3>1, <4>1, <4>2, <4>3, NoCallTyped DEF Unseen, Apart
    <3>4. CacheInv'
      <4> SUFFICES ASSUME a.token # None, a.device \notin unsaid
                   PROVE  a.token = devices[a.device].token
        BY <1>1, <3>1 DEF CacheInv, InStep
      <4> QED BY <2>2 DEF IInv, AnswerInv, Unseen
    <3> QED BY <3>2, <3>3, <3>4
  <2> QED BY <2>1, <2>2
<1> QED BY <1>1, <1>4, <1>5, <1>6, <1>7, SameBindings DEF IInv

LEMMA LoadStep ==
  ASSUME IInv, NEW phase \in {"away", "offline"}, Load(phase)
  PROVE  IInv'
<1> DEFINE lost == IF stored # cache THEN {w.device : w \in {cache, stored} \ {None}} ELSE {}
<1>1. /\ cache' = stored /\ hook' = Idle(phase)
      /\ ends' = IF hook.socket = None THEN ends ELSE Closed(hook.socket)
      /\ calls' = [c \in Calls |-> Dropped(c)]
      /\ unsaid' = unsaid \cup (UNION {NotKept(c) : c \in Calls}) \cup lost
      /\ UNCHANGED <<sessions, devices, clients, sockets, stored, stops, halves, ghosts>>
  BY DEF Load, server
<1>2. drops' \in 0 .. MaxDrops /\ ends' \in [Sockets -> {"open", "closed"}]
  <2>1. drops' \in 0 .. MaxDrops
    BY BoundsAssumption DEF Load, IInv, TypeOK
  <2>2. hook.socket \in Sockets \cup {None}
    BY DEF IInv, TypeOK, Hook
  <2> QED BY <1>1, <2>1, <2>2 DEF IInv, TypeOK, Closed
<1>3. \A c \in Calls :
        /\ calls'[c] \in Call /\ ~calls'[c].awaited /\ calls'[c].answer = None
        /\ \/ calls'[c] = NoCall
           \/ /\ calls'[c].kind = calls[c].kind /\ calls'[c].with = calls[c].with
              /\ calls'[c].binding = calls[c].binding
  BY <1>1, DroppedTyped DEF IInv
<1>4. /\ unsaid \subseteq unsaid'
      /\ \A c \in Calls : NotKept(c) \subseteq unsaid'
      /\ lost \subseteq unsaid'
  BY <1>1
<1>5. unsaid' \subseteq Devices
  <2>1. lost \subseteq Devices
    BY CredentialsTyped, CredentialTyped DEF IInv
  <2> HIDE DEF lost
  <2>2. \A c \in Calls : NotKept(c) \subseteq Devices
    BY NotKeptTyped DEF IInv
  <2> QED BY <1>1, <2>1, <2>2 DEF IInv, TypeOK
<1>6. calls' \in [Calls -> Call]
  BY <1>1, <1>3
<1>7. TypeOK'
  BY <1>1, <1>2, <1>5, <1>6, IdleTyped DEF IInv, TypeOK
<1>8. ClientInv' /\ PresenceTrue'
  BY <1>1 DEF IInv, ClientInv, PresenceTrue, Bound
<1>9. CallInv'
  BY <1>1, <1>3, NoCallTyped DEF IInv, CallInv
<1>10. SameTokens /\ TokensKept
  BY <1>1 DEF SameTokens, TokensKept
<1>11. KnownInv' /\ AnswerInv' /\ CacheInv'
  <2>1. CASE stored = cache
    <3>1. \A e \in Calls :
            /\ calls'[e].answer = None
            /\ calls[e].kind = "rotate" /\ calls[e].answer # None => calls[e].answer.device \in unsaid'
            /\ \/ calls'[e].with = None
               \/ calls'[e].with = calls[e].with /\ ~calls'[e].awaited
      BY <1>3, <1>4, NotKeptTyped, NoCallTyped DEF IInv, CallInv
    <3> QED BY <1>1, <1>4, <1>10, <2>1, <3>1, CredentialsKept
  <2>2. CASE stored # cache
    <3>1. KnownInv'
      BY <1>1, <1>3, NoCallTyped DEF IInv, KnownInv, Known, Bound
    <3>2. AnswerInv'
      BY <1>3 DEF AnswerInv, Unseen
    <3>3. stored # None => stored.device \in unsaid'
      BY <1>4, <2>2
    <3>4. CacheInv'
      BY <1>1, <3>3 DEF CacheInv, InStep
    <3> QED BY <3>1, <3>2, <3>4
  <2> QED BY <2>1, <2>2
<1> QED BY <1>1, <1>7, <1>8, <1>9, <1>10, <1>11, SameBindings DEF IInv

-----------------------------------------------------------------------------
(* Confirmations, rotations and the end of the server *)

\* A device is inserted for a session.
LEMMA InsertedBinding ==
  ASSUME IInv, NEW b \in Bindings, NEW d \in Devices, ~Bound(d), devices' = Inserted(b, d)
  PROVE  /\ TokensKept
         /\ \A e \in Bindings :
              /\ IsFiniteSet(DevicesOf(e)) /\ Cardinality(DevicesOf(e)) \in Nat
              /\ IsFiniteSet(DevicesOf(e)')
              /\ e # b => DevicesOf(e)' = DevicesOf(e)
         /\ Cardinality(DevicesOf(b)') = Cardinality(DevicesOf(b)) + 1
<1>1. /\ devices'[d] # None /\ devices'[d].from = b
      /\ \A e \in Devices \ {d} : devices'[e] = devices[e]
      /\ devices[d] = None
  BY InsertedTyped DEF IInv, Bound
<1>2. TokensKept
  BY <1>1 DEF TokensKept
<1>3. \A e \in Bindings : IsFiniteSet(DevicesOf(e)) /\ Cardinality(DevicesOf(e)) \in Nat
  BY FS_CardinalityType DEF IInv, BindingInv
<1>4. \A e \in Bindings : e # b => DevicesOf(e)' = DevicesOf(e)
  BY <1>1 DEF DevicesOf, Bound
<1>5. DevicesOf(b)' = DevicesOf(b) \cup {d} /\ d \notin DevicesOf(b)
  BY <1>1 DEF DevicesOf, Bound
<1>6. IsFiniteSet(DevicesOf(b)') /\ Cardinality(DevicesOf(b)') = Cardinality(DevicesOf(b)) + 1
  BY <1>3, <1>5, FS_AddElement
<1> QED BY <1>2, <1>3, <1>4, <1>6

\* A device that is inserted is offline: nothing is said of it yet.
LEMMA InsertedPresence ==
  ASSUME IInv, NEW b \in Bindings, NEW d \in Devices, ~Bound(d), devices' = Inserted(b, d),
         UNCHANGED <<clients, sockets, ghosts>>
  PROVE  PresenceTrue' /\ ClientInv'
<1>1. /\ devices'[d] # None /\ devices'[d].status = "offline"
      /\ \A e \in Devices \ {d} : devices'[e] = devices[e]
  BY InsertedTyped DEF IInv
<1>2. clients[d] = None /\ d \notin ghosts
  BY DEF IInv, ClientInv
<1>3. ClientInv'
  BY <1>1, <1>2 DEF IInv, ClientInv, Bound
<1>4. PresenceTrue'
  BY <1>1, <1>2 DEF IInv, PresenceTrue, Bound
<1> QED BY <1>3, <1>4

LEMMA ConfirmStep ==
  ASSUME IInv, NEW c \in Calls, Confirm(c)
  PROVE  IInv'
<1> DEFINE b == calls[c].binding
<1>1. /\ calls[c].kind = "pair" /\ ~calls[c].answered /\ calls[c].answer = None /\ b \in Bindings
      /\ UNCHANGED <<clients, sockets, ends, cache, stored, hook, drops, stops, halves, unsaid, ghosts>>
  BY DEF Confirm, Arrived, IInv, CallInv, phone, history
<1>2. CASE calls' = Answered(c, None) /\ UNCHANGED <<sessions, devices>>
  <2>1. /\ calls' \in [Calls -> Call]
        /\ \A e \in Calls \ {c} : calls'[e] = calls[e]
        /\ \/ /\ calls[c].awaited /\ calls'[c].kind = "pair" /\ calls'[c].binding = b
              /\ calls'[c].with = calls[c].with /\ calls'[c].awaited /\ calls'[c].answer = None
           \/ calls'[c] = NoCall
    BY <1>1, <1>2, AnsweredTyped DEF IInv
  <2>2. TypeOK' /\ CallInv' /\ ClientInv' /\ PresenceTrue'
    BY <1>1, <1>2, <2>1, NoCallTyped DEF IInv, TypeOK, CallInv, ClientInv, PresenceTrue, Bound
  <2>3. SameTokens /\ TokensKept
    BY <1>2 DEF SameTokens, TokensKept
  <2>4. KnownInv' /\ AnswerInv' /\ CacheInv'
    BY <1>1, <2>1, <2>3, NoCallTyped, CredentialsKept
  <2> QED BY <1>1, <1>2, <2>2, <2>3, <2>4, SameBindings DEF IInv
<1>3. ASSUME NEW d \in Devices, ~Bound(d), devices' = Inserted(b, d), IsOpen(b),
             calls' = Answered(c, [device |-> d, token |-> IF d \in Signed THEN None ELSE 0]),
             sessions' = [sessions EXCEPT ![b] = "confirmed"]
      PROVE  IInv'
  <2> DEFINE x == [device |-> d, token |-> IF d \in Signed THEN None ELSE 0]
  <2>1. /\ x \in Credential /\ x # None /\ x.device = d
        /\ x.token = None <=> d \in Signed
        /\ x.token # None => x.token = 0
    BY RecordsAssumption, NoneAssumption DEF Credential
  <2> HIDE DEF x
  <2>2. /\ calls' \in [Calls -> Call]
        /\ \A e \in Calls \ {c} : calls'[e] = calls[e]
        /\ \/ /\ calls[c].awaited /\ calls'[c].kind = "pair" /\ calls'[c].binding = b
              /\ calls'[c].with = calls[c].with /\ calls'[c].awaited
              /\ calls'[c].answered /\ calls'[c].answer = x
           \/ calls'[c] = NoCall
    BY <1>1, <1>3, <2>1, AnsweredTyped DEF IInv, x
  <2>3. /\ devices' \in [Devices -> Device \cup {None}]
        /\ devices'[d] # None /\ devices'[d].token = 0
        /\ \A e \in Devices \ {d} : devices'[e] = devices[e]
    BY <1>1, <1>3, InsertedTyped DEF IInv
  <2>4. sessions' \in [Bindings -> {"none", "open", "confirmed", "expired", "pruned"}]
    BY <1>3 DEF IInv, TypeOK
  <2>5. TypeOK' /\ CallInv'
    BY <1>1, <2>2, <2>3, <2>4, NoCallTyped DEF IInv, TypeOK, CallInv
  <2>6. PresenceTrue' /\ ClientInv'
    BY <1>1, <1>3, InsertedPresence
  <2>7. BindingInv'
    <3>1. halves \in Nat /\ sessions[b] = "open" /\ sessions'[b] = "confirmed"
      BY <1>1, <1>3, BoundsAssumption DEF IInv, TypeOK, IsOpen
    <3>2. \A e \in Bindings : e # b => sessions'[e] = sessions[e]
      BY <1>3 DEF IInv, TypeOK
    <3>3. Cardinality(DevicesOf(b)) <= halves
      BY <1>1, <3>1 DEF IInv, BindingInv
    <3> QED BY <1>1, <1>3, <3>1, <3>2, <3>3, InsertedBinding DEF IInv, BindingInv
  <2>8. TokensKept
    BY <1>1, <1>3, InsertedBinding
  <2>9. KnownInv' /\ AnswerInv' /\ CacheInv'
    <3>1. CASE calls'[c] = NoCall
      BY <1>1, <2>2, <2>8, <3>1, NoCallTyped, CredentialsKept
    <3>2. CASE /\ calls[c].awaited /\ calls'[c].kind = "pair" /\ calls'[c].with = calls[c].with
               /\ calls'[c].awaited /\ calls'[c].answer = x
      <4>1. /\ cache \in Credential \cup {None} /\ stored \in Credential \cup {None}
            /\ \A e \in Calls : /\ calls[e].with \in Credential \cup {None}
                                /\ calls[e].answer \in Credential \cup {None}
        BY CredentialsTyped DEF IInv
      <4>2. /\ Known(cache) /\ Known(stored)
            /\ \A e \in Calls : Known(calls[e].with) /\ Known(calls[e].answer)
        BY DEF IInv, KnownInv
      <4>3. \A y \in Credential \cup {None} :
              Known(y) /\ y # None => /\ devices'[y.device] = devices[y.device]
                                      /\ y.device # d /\ y.device \in Devices
        BY <1>3, <2>3, CredentialTyped DEF Known
      <4>4. KnownInv'
        <5>1. Known(cache)' /\ Known(stored)'
          BY <1>1, <4>1, <4>2, <4>3 DEF Known, Bound
        <5>2. ASSUME NEW e \in Calls PROVE Known(calls[e].with)' /\ Known(calls[e].answer)'
          <6>1. calls'[e].with = calls[e].with
            BY <2>2, <3>2
          <6>2. calls'[e].answer = calls[e].answer \/ calls'[e].answer = x
            BY <2>2, <3>2
          <6>3. x.token # None => x.token <= devices'[d].token
            BY <2>1, <2>3
          <6> QED BY <2>1, <2>3, <4>1, <4>2, <4>3, <6>1, <6>2, <6>3 DEF Known, Bound
        <5> QED BY <5>1, <5>2 DEF KnownInv
      <4>5. AnswerInv'
        <5> SUFFICES ASSUME NEW e \in Calls, calls'[e].answer # None, calls'[e].answer.token # None,
                            calls'[e].answer.device \notin unsaid
                     PROVE  Unseen(e)'
          BY <1>1 DEF AnswerInv, Unseen
        <5>1. CASE e = c
          <6>1. \A g \in Calls : Apart(calls'[g].with, x)
            BY <2>1, <2>2, <3>2, <4>1, <4>2, <4>3 DEF Apart
          <6>2. Apart(cache, x)
            BY <2>1, <4>1, <4>2, <4>3 DEF Apart
          <6>3. \A g \in Calls \ {c} : calls'[g].answer # None => calls'[g].answer.device # d
            BY <2>2, <4>1, <4>2, <4>3
          <6> QED BY <1>1, <2>1, <2>3, <3>2, <5>1, <6>1, <6>2, <6>3 DEF Unseen, Apart
        <5>2. CASE e # c
          <6>1. calls'[e] = calls[e]
            BY <2>2, <5>2
          <6>2. /\ calls[e].answer.token = devices[calls[e].answer.device].token
                /\ Apart(cache, calls[e].answer)
                /\ \A g \in Calls : calls[g].awaited => Apart(calls[g].with, calls[e].answer)
                /\ \A g \in Calls \ {e} : calls[g].answer # None =>
                     calls[g].answer.device # calls[e].answer.device
            BY <6>1 DEF IInv, AnswerInv, Unseen
          <6>3. calls[e].answer.device # d /\ devices'[calls[e].answer.device] = devices[calls[e].answer.device]
            BY <4>1, <4>2, <4>3, <6>1
          <6>4. \A g \in Calls : calls'[g].awaited => Apart(calls'[g].with, calls[e].answer)
            BY <2>2, <3>2, <6>2
          <6>5. \A g \in Calls \ {e} : calls'[g].answer # None =>
                  calls'[g].answer.device # calls[e].answer.device
            BY <2>1, <2>2, <3>2, <6>2, <6>3
          <6> QED BY <1>1, <6>1, <6>2, <6>3, <6>4, <6>5 DEF Unseen, Apart
        <5> QED BY <5>1, <5>2
      <4>6. CacheInv'
        <5> SUFFICES ASSUME cache # None, cache.token # None
                     PROVE  InStep(cache)'
          BY <1>1 DEF CacheInv
        <5>1. InStep(cache)
          BY DEF IInv, CacheInv
        <5>2. devices'[cache.device] = devices[cache.device]
          BY <4>1, <4>2, <4>3
        <5>3. \A e \in Calls : calls[e].kind = "rotate" => calls'[e] = calls[e]
          BY <1>1, <2>2
        <5> QED BY <1>1, <5>1, <5>2, <5>3 DEF InStep
      <4> QED BY <4>4, <4>5, <4>6
    <3> QED BY <2>2, <3>1, <3>2
  <2> QED BY <2>5, <2>6, <2>7, <2>9 DEF IInv
<1> QED BY <1>2, <1>3 DEF Confirm

\* A request is refused, or answered without a credential.
LEMMA AnsweredWithNothing ==
  ASSUME IInv, TokensKept, NEW c \in Calls, ~calls[c].answered, calls' = Answered(c, None),
         UNCHANGED <<cache, stored, unsaid, halves, stops>>
  PROVE  calls' \in [Calls -> Call] /\ CallInv' /\ KnownInv' /\ AnswerInv' /\ CacheInv'
<1>1. calls[c].answer = None
  BY DEF IInv, CallInv
<1>2. /\ calls' \in [Calls -> Call]
      /\ \A e \in Calls \ {c} : calls'[e] = calls[e]
      /\ \/ /\ calls[c].awaited /\ calls'[c].kind = calls[c].kind
            /\ calls'[c].binding = calls[c].binding
            /\ calls'[c].with = calls[c].with /\ calls'[c].awaited /\ calls'[c].answer = None
         \/ calls'[c] = NoCall
  BY AnsweredTyped DEF IInv
<1>3. CallInv'
  BY <1>2, NoCallTyped DEF IInv, CallInv
<1> QED BY <1>1, <1>2, <1>3, NoCallTyped, CredentialsKept

\* The token of a device is replaced.
LEMMA TokenTyped ==
  ASSUME TypeOK, NEW d \in Devices, Bound(d),
         devices' = [devices EXCEPT ![d].token = @ + 1]
  PROVE  /\ devices' \in [Devices -> Device \cup {None}]
         /\ devices'[d] # None /\ devices'[d].token = devices[d].token + 1
         /\ devices'[d].status = devices[d].status /\ devices'[d].from = devices[d].from
         /\ \A e \in Devices \ {d} : devices'[e] = devices[e]
<1> DEFINE row == [devices[d] EXCEPT !.token = @ + 1]
<1>1. devices[d] \in Device /\ devices[d].token \in Nat
  BY DeviceTyped
<1>2. devices[d].token + 1 \in Nat
  BY <1>1
<1>3. /\ row \in Device /\ row.token = devices[d].token + 1
      /\ row.status = devices[d].status /\ row.from = devices[d].from
  BY <1>1, <1>2 DEF Device
<1>4. devices' = [devices EXCEPT ![d] = row] /\ devices \in [Devices -> Device \cup {None}]
  BY DEF TypeOK
<1> HIDE DEF row
<1> QED BY <1>3, <1>4, RecordsAssumption

LEMMA RotateStep ==
  ASSUME IInv, NEW c \in Calls, Rotate(c)
  PROVE  IInv'
<1> DEFINE w == calls[c].with
<1> DEFINE d == w.device
<1>1. /\ calls[c].kind = "rotate" /\ ~calls[c].answered /\ calls[c].answer = None
      /\ w \in Credential /\ w # None /\ w.token # None /\ Known(w) /\ d \in Devices
      /\ UNCHANGED <<sessions, clients, sockets, ends, cache, stored, hook, drops, stops, halves, ghosts>>
  BY CredentialsTyped, CredentialTyped DEF Rotate, Arrived, IInv, CallInv, KnownInv, phone
<1>2. CASE calls' = Answered(c, None) /\ UNCHANGED <<devices, unsaid>>
  <2>1. SameTokens /\ TokensKept
    BY <1>2 DEF SameTokens, TokensKept
  <2>2. calls' \in [Calls -> Call] /\ CallInv' /\ KnownInv' /\ AnswerInv' /\ CacheInv'
    BY <1>1, <1>2, <2>1, AnsweredWithNothing
  <2>3. TypeOK' /\ ClientInv' /\ PresenceTrue'
    BY <1>1, <1>2, <2>2 DEF IInv, TypeOK, ClientInv, PresenceTrue, Bound
  <2> QED BY <1>1, <2>1, <2>2, <2>3, SameBindings DEF IInv
<1>3. ASSUME Valid(w),
             devices' = [devices EXCEPT ![w.device].token = @ + 1],
             calls' = Answered(c, [device |-> w.device, token |-> devices[w.device].token + 1]),
             unsaid' = IF calls[c].awaited THEN unsaid ELSE unsaid \cup {w.device}
      PROVE  IInv'
  <2> DEFINE t == devices[d].token
  <2> DEFINE x == [device |-> w.device, token |-> devices[w.device].token + 1]
  <2>1. Bound(d) /\ w.token = t /\ t \in Nat /\ d \notin Signed
    BY <1>1, <1>3, DeviceTyped DEF Valid, Active, IInv, Known
  <2>2. t + 1 \in Nat
    BY <2>1
  <2>3. x \in Credential /\ x # None /\ x.device = d /\ x.token = t + 1 /\ x.token # None
    BY <1>1, <2>2, RecordsAssumption, NoneAssumption DEF Credential
  <2>4. calls' = Answered(c, x)
    BY <1>3
  <2>5. /\ devices' \in [Devices -> Device \cup {None}]
        /\ devices'[d] # None /\ devices'[d].token = t + 1
        /\ devices'[d].status = devices[d].status /\ devices'[d].from = devices[d].from
        /\ \A e \in Devices \ {d} : devices'[e] = devices[e]
    BY <1>1, <1>3, <2>1, TokenTyped DEF IInv
  <2> HIDE DEF x
  <2>6. /\ calls' \in [Calls -> Call]
        /\ \A e \in Calls \ {c} : calls'[e] = calls[e]
        /\ \/ /\ calls[c].awaited /\ calls'[c].kind = "rotate" /\ calls'[c].with = w
              /\ calls'[c].awaited /\ calls'[c].answered /\ calls'[c].answer = x
           \/ ~calls[c].awaited /\ calls'[c] = NoCall
    BY <1>1, <2>3, <2>4, AnsweredTyped DEF IInv
  <2>7. unsaid \subseteq unsaid' /\ unsaid' \subseteq Devices
        /\ (~calls[c].awaited => d \in unsaid')
    BY <1>1, <1>3 DEF IInv, TypeOK
  <2>8. TypeOK' /\ CallInv'
    BY <1>1, <2>5, <2>6, <2>7, NoCallTyped DEF IInv, TypeOK, CallInv
  <2>9. PresenceTrue' /\ ClientInv'
    BY <1>1, <2>1, <2>5 DEF IInv, PresenceTrue, ClientInv, Bound
  <2>10. BindingInv'
    <3>1. \A b \in Bindings : DevicesOf(b)' = DevicesOf(b)
      BY <2>1, <2>5 DEF DevicesOf, Bound
    <3> QED BY <1>1, <3>1 DEF IInv, BindingInv
  <2>11. /\ cache \in Credential \cup {None} /\ stored \in Credential \cup {None}
         /\ \A e \in Calls : /\ calls[e].with \in Credential \cup {None}
                             /\ calls[e].answer \in Credential \cup {None}
         /\ Known(cache) /\ Known(stored)
         /\ \A e \in Calls : Known(calls[e].with) /\ Known(calls[e].answer)
    BY CredentialsTyped DEF IInv, KnownInv
  \* What is known of the device is older than the new token.
  <2>12. ASSUME NEW y \in Credential \cup {None}, Known(y), y # None
         PROVE  /\ y.device = d => y.token \in Nat /\ y.token <= t /\ y.token # x.token
                /\ devices'[y.device] # None /\ devices[y.device] # None
                /\ y.device # d => devices'[y.device] = devices[y.device]
    <3>1. y.device \in Devices /\ y.token \in Nat \cup {None} /\ Bound(y.device)
      BY <2>12, CredentialTyped DEF Known
    <3>2. y.device = d => y.token \in Nat /\ y.token <= t
      BY <2>1, <2>12, <3>1 DEF Known
    <3>3. y.device = d => y.token # x.token
      BY <2>1, <2>3, <3>2
    <3> QED BY <2>5, <3>1, <3>2, <3>3 DEF Bound
  <2>13. KnownInv'
    <3>1. ASSUME NEW y \in Credential \cup {None}, Known(y), y # None
          PROVE  /\ devices'[y.device] # None
                 /\ y.token = None <=> y.device \in Signed
                 /\ y.token # None => y.token <= devices'[y.device].token
      <4>1. CASE y.device = d
        BY <2>1, <2>5, <2>12, <3>1, <4>1 DEF Known
      <4>2. CASE y.device # d
        BY <2>12, <3>1, <4>2 DEF Known
      <4> QED BY <4>1, <4>2
    <3>2. Known(cache)' /\ Known(stored)'
      BY <1>1, <2>11, <3>1 DEF Known, Bound
    <3>3. \A e \in Calls : Known(calls[e].with)'
      BY <2>6, <2>11, <3>1, NoCallTyped DEF Known, Bound
    <3>4. /\ devices'[x.device] # None /\ (x.token = None <=> x.device \in Signed)
          /\ x.token <= devices'[x.device].token
      BY <2>1, <2>2, <2>3, <2>5
    <3>5. \A e \in Calls : Known(calls[e].answer)'
      BY <2>6, <2>11, <3>1, <3>4, NoCallTyped DEF Known, Bound
    <3> QED BY <3>2, <3>3, <3>5 DEF KnownInv
  \* No other answer for the device is on its way.
  <2>14. ASSUME NEW e \in Calls, calls[e].answer # None, calls[e].answer.device \notin unsaid'
         PROVE  calls[e].answer.device # d
    <3> SUFFICES ASSUME calls[e].answer.device = d PROVE FALSE
      OBVIOUS
    <3>1. calls[c].awaited /\ d \notin unsaid
      BY <2>7, <2>14
    <3>2. calls[e].answer.token # None
      BY <2>1, <2>11, <2>14 DEF Known
    <3>3. calls[e].answer.token = t /\ Apart(w, calls[e].answer)
      BY <2>14, <3>1, <3>2 DEF IInv, AnswerInv, Unseen
    <3> QED BY <1>1, <2>1, <3>3 DEF Apart
  <2>15. AnswerInv'
    <3> SUFFICES ASSUME NEW e \in Calls, calls'[e].answer # None, calls'[e].answer.token # None,
                        calls'[e].answer.device \notin unsaid'
                 PROVE  Unseen(e)'
      BY DEF AnswerInv, Unseen
    <3>1. CASE e = c
      <4>1. calls[c].awaited /\ calls'[c].answer = x /\ d \notin unsaid'
        BY <2>3, <2>6, <3>1, NoCallTyped
      <4>2. Apart(cache, x)
        BY <2>3, <2>11, <2>12 DEF Apart
      <4>3. \A g \in Calls : Apart(calls'[g].with, x)
        BY <2>3, <2>6, <2>11, <2>12, NoCallTyped DEF Apart
      <4>4. \A g \in Calls \ {c} : calls'[g].answer # None => calls'[g].answer.device # d
        BY <2>6, <2>14, <4>1
      <4> QED BY <1>1, <2>3, <2>5, <3>1, <4>1, <4>2, <4>3, <4>4 DEF Unseen, Apart
    <3>2. CASE e # c
      <4>1. calls'[e] = calls[e] /\ calls[e].answer.device # d
        BY <2>6, <2>14, <3>2
      <4>2. /\ calls[e].answer.token = devices[calls[e].answer.device].token
            /\ Apart(cache, calls[e].answer)
            /\ \A g \in Calls : calls[g].awaited => Apart(calls[g].with, calls[e].answer)
            /\ \A g \in Calls \ {e} : calls[g].answer # None =>
                 calls[g].answer.device # calls[e].answer.device
        BY <2>7, <4>1 DEF IInv, AnswerInv, Unseen
      <4>3. devices'[calls[e].answer.device] = devices[calls[e].answer.device]
        BY <2>11, <2>12, <4>1
      <4>4. \A g \in Calls : calls'[g].awaited => Apart(calls'[g].with, calls[e].answer)
        BY <2>6, <4>2, NoCallTyped
      <4>5. \A g \in Calls \ {e} : calls'[g].answer # None =>
              calls'[g].answer.device # calls[e].answer.device
        BY <2>3, <2>6, <4>1, <4>2, NoCallTyped
      <4> QED BY <1>1, <4>1, <4>2, <4>3, <4>4, <4>5 DEF Unseen, Apart
    <3> QED BY <3>1, <3>2
  <2>16. CacheInv'
    <3> SUFFICES ASSUME cache # None, cache.token # None
                 PROVE  InStep(cache)'
      BY <1>1 DEF CacheInv
    <3>1. InStep(cache)
      BY DEF IInv, CacheInv
    <3>2. CASE cache.device = d
      BY <1>1, <2>3, <2>6, <2>7, <3>2 DEF InStep
    <3>3. CASE cache.device # d
      <4>1. devices'[cache.device] = devices[cache.device]
        BY <2>11, <2>12, <3>3
      <4>2. \A e \in Calls : calls[e].answer # None => calls'[e] = calls[e]
        BY <1>1, <2>6
      <4> QED BY <1>1, <2>7, <3>1, <4>1, <4>2 DEF InStep
    <3> QED BY <3>2, <3>3
  <2> QED BY <2>8, <2>9, <2>10, <2>13, <2>15, <2>16 DEF IInv
<1> QED BY <1>2, <1>3 DEF Rotate, FromDevice

LEMMA RevokeMeStep ==
  ASSUME IInv, NEW c \in Calls, RevokeMe(c)
  PROVE  IInv'
<1>1. /\ calls[c].kind = "forget" /\ ~calls[c].answered /\ calls' = Answered(c, None)
      /\ UNCHANGED <<sessions, ends, cache, stored, hook, drops, stops, halves, unsaid>>
  BY DEF RevokeMe, Arrived, phone
<1>2. /\ SameTokens /\ PresenceTrue' /\ ClientInv'
      /\ devices' \in [Devices -> Device \cup {None}]
      /\ clients' \in [Devices -> Sockets \cup {None}] /\ sockets' \in [Sockets -> Socket]
      /\ ghosts' \subseteq Devices
  <2>1. CASE FromDevice(calls[c].with)
    <3>1. calls[c].with.device \in Devices /\ Bound(calls[c].with.device)
      BY <2>1, CredentialsTyped, CredentialTyped DEF IInv, FromDevice, Valid, Active
    <3> QED BY <2>1, <3>1, RevokedTyped DEF RevokeMe
  <2>2. CASE ~FromDevice(calls[c].with)
    <3>1. UNCHANGED <<devices, clients, sockets, ghosts>>
      BY <2>2 DEF RevokeMe
    <3> QED BY <3>1 DEF IInv, TypeOK, SameTokens, PresenceTrue, ClientInv, Bound
  <2> QED BY <2>1, <2>2
<1>3. TokensKept
  BY <1>2 DEF SameTokens, TokensKept
<1>4. calls' \in [Calls -> Call] /\ CallInv' /\ KnownInv' /\ AnswerInv' /\ CacheInv'
  BY <1>1, <1>3, AnsweredWithNothing
<1>5. TypeOK'
  BY <1>1, <1>2, <1>4 DEF IInv, TypeOK
<1> QED BY <1>1, <1>2, <1>4, <1>5, SameBindings DEF IInv

LEMMA StopStep ==
  ASSUME IInv, Stop
  PROVE  IInv'
<1>1. /\ clients' = [d \in Devices |-> None]
      /\ sockets' = [s \in Sockets |-> IF sockets[s].phase = "none" THEN NoSocket
                                       ELSE [NoSocket EXCEPT !.phase = "gone"]]
      /\ calls' = [c \in Calls |-> IF calls[c].awaited THEN [calls[c] EXCEPT !.answered = TRUE] ELSE NoCall]
      /\ ghosts' = {d \in Devices : Bound(d) /\ devices[d].status = "online"}
      /\ UNCHANGED <<sessions, ends, cache, stored, hook, unsaid, drops>>
  BY DEF Stop, phone
<1>2. stops' = stops + 1 /\ stops' \in 0 .. MaxStops /\ stops \in Nat /\ halves \in Nat /\ halves <= stops
  BY BoundsAssumption DEF Stop, IInv, TypeOK, CallInv
<1>3. sockets' \in [Sockets -> Socket] /\ clients' \in [Devices -> Sockets \cup {None}]
      /\ ghosts' \subseteq Devices
  <2>1. [NoSocket EXCEPT !.phase = "gone"] \in Socket
    BY DEF NoSocket, Socket, Phases
  <2> QED BY <1>1, <2>1, NoSocketTyped
<1>4. \A c \in Calls :
        /\ calls'[c] \in Call /\ calls'[c].answer = calls[c].answer
        /\ \/ calls'[c] = NoCall
           \/ /\ calls[c].awaited /\ calls'[c].awaited /\ calls'[c].answered
              /\ calls'[c].kind = calls[c].kind /\ calls'[c].binding = calls[c].binding
              /\ calls'[c].with = calls[c].with
  <2> SUFFICES ASSUME NEW c \in Calls
               PROVE  /\ calls'[c] \in Call /\ calls'[c].answer = calls[c].answer
                      /\ \/ calls'[c] = NoCall
                         \/ /\ calls[c].awaited /\ calls'[c].awaited /\ calls'[c].answered
                            /\ calls'[c].kind = calls[c].kind /\ calls'[c].binding = calls[c].binding
                            /\ calls'[c].with = calls[c].with
    OBVIOUS
  <2>1. CASE calls[c].awaited
    BY <1>1, <2>1, CallTyped DEF IInv, Call
  <2>2. CASE ~calls[c].awaited
    BY <1>1, <2>2, NoCallTyped DEF IInv, CallInv
  <2> QED BY <2>1, <2>2
<1>5. calls' \in [Calls -> Call]
  BY <1>1, <1>4
<1>6. ASSUME halves' \in 0 .. MaxStops, halves' <= stops', TokensKept,
             devices' \in [Devices -> Device \cup {None}], BindingInv',
             \A d \in Devices : devices'[d] = devices[d]
                                \/ (devices[d] = None /\ devices'[d] # None /\ devices'[d].status = "offline")
      PROVE  IInv'
  <2>1. TypeOK'
    BY <1>1, <1>2, <1>3, <1>5, <1>6 DEF IInv, TypeOK
  <2>2. CallInv'
    BY <1>4, <1>6, NoCallTyped DEF IInv, CallInv
  <2>3. PresenceTrue' /\ ClientInv'
    BY <1>1, <1>6 DEF PresenceTrue, ClientInv, Bound
  <2>4. KnownInv' /\ AnswerInv' /\ CacheInv'
    BY <1>1, <1>4, <1>6, NoCallTyped, CredentialsKept
  <2> QED BY <1>6, <2>1, <2>2, <2>3, <2>4 DEF IInv
<1>7. CASE devices' = devices /\ halves' = halves
  <2>1. SameTokens /\ TokensKept
    BY <1>7 DEF SameTokens, TokensKept
  <2>2. halves' \in 0 .. MaxStops /\ halves' <= stops'
    BY <1>2, <1>7 DEF IInv, TypeOK
  <2> QED BY <1>1, <1>6, <1>7, <2>1, <2>2, SameBindings DEF IInv, TypeOK
<1>8. ASSUME NEW b \in Bindings, NEW d \in Devices, ~Bound(d), devices' = Inserted(b, d),
             halves' = halves + 1
      PROVE  IInv'
  <2>1. /\ devices' \in [Devices -> Device \cup {None}]
        /\ devices'[d] # None /\ devices'[d].status = "offline"
        /\ \A e \in Devices \ {d} : devices'[e] = devices[e]
    BY <1>8, InsertedTyped DEF IInv
  <2>2. halves' \in 0 .. MaxStops /\ halves' <= stops'
    <3>1. stops + 1 <= MaxStops /\ MaxStops \in Nat
      BY <1>2, BoundsAssumption
    <3> QED BY <1>2, <1>8, <3>1
  <2>3. TokensKept
    BY <1>8, InsertedBinding
  <2>4. BindingInv'
    <3>1. /\ \A e \in Bindings : /\ IsFiniteSet(DevicesOf(e)') /\ Cardinality(DevicesOf(e)) \in Nat
                                 /\ e # b => DevicesOf(e)' = DevicesOf(e)
          /\ Cardinality(DevicesOf(b)') = Cardinality(DevicesOf(b)) + 1
      BY <1>8, InsertedBinding
    <3>2. ASSUME NEW e \in Bindings
          PROVE  Cardinality(DevicesOf(e)') <= halves' + IF sessions[e] = "confirmed" THEN 1 ELSE 0
      <4>1. Cardinality(DevicesOf(e)) <= halves + IF sessions[e] = "confirmed" THEN 1 ELSE 0
        BY DEF IInv, BindingInv
      <4>2. \/ Cardinality(DevicesOf(e)') = Cardinality(DevicesOf(e)) + 1
            \/ Cardinality(DevicesOf(e)') = Cardinality(DevicesOf(e))
        BY <3>1
      <4>3. Cardinality(DevicesOf(e)) \in Nat
        BY <3>1
      <4> QED BY <1>2, <1>8, <4>1, <4>2, <4>3
    <3> QED BY <1>1, <3>1, <3>2 DEF BindingInv
  <2> QED BY <1>6, <1>8, <2>1, <2>2, <2>3, <2>4 DEF Bound
<1>9. \A c \in Calls : Arrived(c, "pair") => calls[c].binding \in Bindings
  BY DEF Arrived, IInv, CallInv
<1> QED BY <1>7, <1>8, <1>9 DEF Stop

-----------------------------------------------------------------------------
(* The theorems *)

LEMMA InitInv == Init => IInv
<1> SUFFICES ASSUME Init PROVE IInv
  OBVIOUS
<1>1. 0 \in 0 .. MaxDrops /\ 0 \in 0 .. MaxStops
  BY BoundsAssumption
<1>2. TypeOK
  BY <1>1, NoSocketTyped, NoCallTyped, IdleTyped DEF Init, TypeOK
<1>3. CallInv
  BY NoCallTyped DEF Init, CallInv
<1>4. BindingInv
  <2>1. \A b \in Bindings : DevicesOf(b) = {}
    BY DEF Init, DevicesOf, Bound
  <2> QED BY <2>1, FS_EmptySet DEF Init, BindingInv
<1>5. PresenceTrue /\ ClientInv
  BY DEF Init, PresenceTrue, ClientInv, Bound
<1>6. KnownInv /\ AnswerInv /\ CacheInv
  BY NoCallTyped DEF Init, KnownInv, Known, AnswerInv, Unseen, CacheInv
<1> QED BY <1>2, <1>3, <1>4, <1>5, <1>6 DEF IInv

LEMMA StepInv == IInv /\ [Next]_vars => IInv'
<1> SUFFICES ASSUME IInv, [Next]_vars PROVE IInv'
  OBVIOUS
<1>1. CASE UNCHANGED vars
  BY <1>1, SocketStep DEF vars, IInv, TypeOK
<1>2. ASSUME NEW s \in Sockets, Socketwise(s) \/ AuthTimeout(s) \/ Break(s) PROVE IInv'
  BY <1>2, SocketwiseStep, AuthenticateStep, SocketClosesStep DEF Socketwise
<1>3. ASSUME NEW c \in Calls, Callwise(c) \/ GiveUp(c) \/ ConnectRotates(c) PROVE IInv'
  BY <1>3, ConfirmStep, RotateStep, RevokeMeStep, ReceiveStep, GiveUpStep, SendsStep DEF Callwise
<1>4. CASE Owner
  BY <1>4, SessionStep, RevokeStep, SendsStep DEF Owner
<1>5. CASE User
  BY <1>5, SendsStep, LoadStep DEF User
<1>6. CASE Connect \/ Store \/ Stop
  BY <1>6, ConnectStep, StoreStep, StopStep
<1> QED BY <1>1, <1>2, <1>3, <1>4, <1>5, <1>6 DEF Next

LEMMA Invariance == Spec => []IInv
BY InitInv, StepInv, PTL DEF Spec

\* Every variable keeps its type.
THEOREM DeviceTypeCorrect == Spec => []TypeOK
<1>1. IInv => TypeOK
  BY DEF IInv
<1> QED BY <1>1, Invariance, PTL

\* A pairing link binds one device, and one more for each confirmation that an end of
\* the server cut in half: the device that is inserted finds its session open, and the
\* sessions that are open have none but such devices.
THEOREM OneDevicePerBindingHolds == Spec => []OneDevicePerBinding
<1>1. IInv => OneDevicePerBinding
  <2> SUFFICES ASSUME IInv, NEW b \in Bindings
               PROVE  Cardinality(DevicesOf(b)) <= 1 + halves
    BY DEF OneDevicePerBinding, DevicesOf
  <2>1. /\ Cardinality(DevicesOf(b)) \in Nat /\ halves \in Nat
        /\ Cardinality(DevicesOf(b)) <= halves + IF sessions[b] = "confirmed" THEN 1 ELSE 0
    BY FS_CardinalityType, BoundsAssumption DEF IInv, BindingInv, TypeOK
  <2> QED BY <2>1
<1> QED BY <1>1, Invariance, PTL

\* The status of a device is online exactly while wsClients has a socket of it.
THEOREM PresenceTrueHolds == Spec => []PresenceTrue
<1>1. IInv => PresenceTrue
  BY DEF IInv
<1> QED BY <1>1, Invariance, PTL

\* The token of the phone is the server's unless the answer of a rotation is on its way
\* or lost, whatever rotations overlap: only the answer of the last one that was
\* accepted can still be awaited.
THEOREM CredentialInStepHolds == Spec => []CredentialInStep
<1>1. IInv => CredentialInStep
  <2> SUFFICES ASSUME IInv, cache # None, cache.token # None PROVE CredentialInStep
    BY DEF CredentialInStep
  <2>1. InStep(cache)
    BY DEF IInv, CacheInv
  <2>2. \A c \in Calls : calls[c].answer # None => calls[c].awaited
    BY DEF IInv, CallInv
  <2> QED BY <2>1, <2>2 DEF InStep, CredentialInStep
<1> QED BY <1>1, Invariance, PTL

\* No event of a socket and no request writes the row of a revoked device.
THEOREM RevokedForGoodHolds == Spec => RevokedForGood
<1> DEFINE Kept == \A d \in Devices :
             (Bound(d) /\ devices[d].status = "revoked") => devices'[d] = devices[d]
<1>1. ASSUME TypeOK, Next PROVE Kept
  <2> SUFFICES ASSUME NEW d \in Devices, Bound(d), devices[d].status = "revoked"
               PROVE  devices'[d] = devices[d]
    OBVIOUS
  <2>1. ~Active(d)
    BY DEF Active
  <2>2. \A e \in Devices, status \in {"offline", "online"} :
          devices' = Presence(e, status) => devices'[d] = devices[d]
    BY <1>1, <2>1, PresenceTyped
  <2>3. ASSUME NEW e \in Devices, Bound(e), Revoked(e) PROVE devices'[d] = devices[d]
    BY <1>1, <2>3, StatusTyped DEF Revoked
  <2>4. ASSUME NEW b, NEW e \in Devices, ~Bound(e), devices' = Inserted(b, e)
        PROVE  devices'[d] = devices[d]
    BY <1>1, <2>4 DEF Inserted, TypeOK
  <2>5. ASSUME NEW s \in Sockets, Socketwise(s) \/ AuthTimeout(s) \/ Break(s)
        PROVE  devices'[d] = devices[d]
    <3>1. CASE Authenticate(s)
      <4>1. sockets[s].auth # None => sockets[s].auth.device \in Devices
        BY <1>1, CredentialTyped DEF TypeOK, Socket
      <4> QED BY <2>2, <3>1, <4>1 DEF Authenticate
    <3>2. CASE SocketCloses(s)
      <4>1. sockets[s].device \in Devices \cup {None}
        BY <1>1 DEF TypeOK, Socket
      <4> QED BY <2>2, <3>2, <4>1 DEF SocketCloses
    <3>3. CASE \/ Accept(s) \/ OpenSocket(s) \/ SendAuth(s) \/ AuthOk(s) \/ PhoneSeesClose(s)
               \/ AuthTimeout(s) \/ Break(s)
      BY <3>3 DEF Accept, OpenSocket, SendAuth, AuthOk, PhoneSeesClose, AuthTimeout, Break, server
    <3> QED BY <2>5, <3>1, <3>2, <3>3 DEF Socketwise
  <2>6. ASSUME NEW c \in Calls, Callwise(c) \/ GiveUp(c) \/ ConnectRotates(c)
        PROVE  devices'[d] = devices[d]
    <3>1. CASE Confirm(c)
      BY <2>4, <3>1 DEF Confirm
    <3>2. CASE Rotate(c)
      <4>1. devices' = devices
            \/ (Active(calls[c].with.device)
                /\ devices' = [devices EXCEPT ![calls[c].with.device].token = @ + 1])
        BY <3>2 DEF Rotate, FromDevice, Valid
      <4> QED BY <1>1, <2>1, <4>1 DEF TypeOK
    <3>3. CASE RevokeMe(c)
      <4>1. FromDevice(calls[c].with) => /\ calls[c].with.device \in Devices
                                         /\ Bound(calls[c].with.device)
        BY <1>1, CredentialsTyped, CredentialTyped DEF FromDevice, Valid, Active
      <4> QED BY <2>3, <3>3, <4>1 DEF RevokeMe
    <3>4. CASE Receive(c) \/ GiveUp(c) \/ ConnectRotates(c)
      BY <3>4 DEF Receive, GiveUp, ConnectRotates, server
    <3> QED BY <2>6, <3>1, <3>2, <3>3, <3>4 DEF Callwise
  <2>7. CASE Owner
    BY <2>3, <2>7 DEF Owner, StartBinding, Expire, Revoke, AskRotation, server
  <2>8. CASE User
    BY <2>8 DEF User, SendRotate, SendForget, SendPair, Load, server
  <2>9. CASE Connect \/ Store
    BY <2>9 DEF Connect, Store, server
  <2>10. CASE Stop
    BY <2>4, <2>10 DEF Stop
  <2> QED BY <1>1, <2>5, <2>6, <2>7, <2>8, <2>9, <2>10 DEF Next
<1>2. TypeOK /\ [Next]_vars => [Kept]_vars
  BY <1>1
<1> QED BY <1>2, DeviceTypeCorrect, PTL DEF Spec, RevokedForGood
-----------------------------------------------------------------------------
(* DeviceRegistry *)

LEMMA RegistrySame ==
  ASSUME UNCHANGED <<Links, Access, Asked, Greeted, Live>>
  PROVE  [Registry!Next]_(Registry!vars)
BY DEF Registry!vars

\* What the registry says of a device and of a credential.
LEMMA AccessSays ==
  ASSUME NEW d \in Devices
  PROVE  /\ Registry!Has(d) <=> Bound(d)
         /\ Registry!Granted(d) <=> Active(d)
         /\ Bound(d) => Access[d].token = devices[d].token
BY DEF Access, Registry!Has, Registry!Granted, Bound, Active

LEMMA FitsSays ==
  ASSUME NEW x \in Credential \cup {None}
  PROVE  Registry!Fits(x) <=> Valid(x)
<1>1. CASE x = None
  BY <1>1 DEF Registry!Fits, Valid
<1>2. CASE x # None
  <2>1. x.device \in Devices
    BY <1>2, CredentialTyped
  <2> QED BY <1>2, <2>1, AccessSays DEF Registry!Fits, Valid, Active
<1> QED BY <1>1, <1>2

LEMMA GivenSays ==
  ASSUME NEW x \in Credential, Known(x)
  PROVE  Registry!Given(x)
<1>1. x # None /\ x.device \in Devices /\ x.token \in Nat \cup {None}
  BY CredentialTyped
<1> QED BY <1>1, AccessSays DEF Registry!Given, Known

\* The access of one device changes.
LEMMA AccessOne ==
  ASSUME NEW d \in Devices, \A e \in Devices \ {d} : devices'[e] = devices[e],
         NEW row, Access'[d] = row
  PROVE  Access' = [Access EXCEPT ![d] = row]
<1>1. \A e \in Devices \ {d} : Access'[e] = Access[e]
  BY DEF Access
<1>2. Access' = [e \in Devices |-> Access'[e]] /\ Access = [e \in Devices |-> Access[e]]
  BY Zenon DEF Access
<1> QED BY <1>1, <1>2

\* The presence of a device is no part of its access.
LEMMA AccessKept ==
  ASSUME TypeOK, NEW d \in Devices, NEW status \in {"offline", "online"},
         devices' = Presence(d, status)
  PROVE  Access' = Access
<1>1. /\ SameTokens
      /\ Active(d) => devices'[d].status = status
      /\ ~Active(d) => devices'[d] = devices[d]
      /\ \A e \in Devices \ {d} : devices'[e] = devices[e]
  BY PresenceTyped
<1>2. \A e \in Devices :
        /\ (devices'[e] = None) <=> (devices[e] = None)
        /\ devices[e] # None => /\ devices'[e].token = devices[e].token
                                /\ devices'[e].from = devices[e].from
                                /\ (devices'[e].status = "revoked") <=> (devices[e].status = "revoked")
  BY <1>1 DEF SameTokens, Active, Bound
<1> QED BY <1>2 DEF Access

LEMMA AccessGranted ==
  ASSUME TypeOK, NEW b \in Bindings, NEW d \in Devices, ~Bound(d), devices' = Inserted(b, d)
  PROVE  Registry!GrantedBy(d, b)
<1> DEFINE row == [state |-> "granted", token |-> 0, link |-> b]
<1>1. /\ devices'[d] # None /\ devices'[d].status = "offline"
      /\ devices'[d].token = 0 /\ devices'[d].from = b
      /\ \A e \in Devices \ {d} : devices'[e] = devices[e]
  BY InsertedTyped
<1>2. Access'[d] = row
  BY <1>1 DEF Access
<1>3. Access' = [Access EXCEPT ![d] = row]
  BY <1>1, <1>2, AccessOne
<1> QED BY <1>3, AccessSays DEF Registry!GrantedBy

\* revokeDevice withdraws the access of an active device, and changes nothing of another.
LEMMA AccessWithdrawn ==
  ASSUME IInv, NEW d \in Devices, Bound(d), Revoked(d)
  PROVE  /\ Greeted' = Greeted
         /\ Active(d) => Registry!Withdrawn(d)
         /\ ~Active(d) => UNCHANGED <<Access, Live>>
<1> DEFINE row == [state |-> "withdrawn", token |-> devices[d].token, link |-> devices[d].from]
<1>1. /\ sockets \in [Sockets -> Socket] /\ clients \in [Devices -> Sockets \cup {None}]
      /\ devices' = [devices EXCEPT ![d].status = "revoked"]
      /\ clients' = [clients EXCEPT ![d] = None]
      /\ sockets' = IF clients[d] = None THEN sockets ELSE [sockets EXCEPT ![clients[d]].phase = "closing"]
  BY DEF Revoked, ConnectionClosed, EntryDeleted, IInv, TypeOK
<1>2. /\ SameTokens /\ devices'[d].status = "revoked"
      /\ devices[d].status = "revoked" => devices'[d] = devices[d]
      /\ \A e \in Devices \ {d} : devices'[e] = devices[e]
  BY <1>1, StatusTyped DEF IInv
<1>3. Greeted' = Greeted
  <2>1. \A s \in Sockets : sockets'[s].auth = sockets[s].auth
    BY <1>1 DEF Socket
  <2> QED BY <2>1 DEF Greeted
<1>4. Live' = Live \ {d}
  BY <1>1 DEF Live
<1>5. CASE Active(d)
  <2>1. Access'[d] = row /\ Access[d] = [row EXCEPT !.state = "granted"]
    BY <1>2, <1>5 DEF Access, SameTokens, Active, Bound
  <2>2. Access' = [Access EXCEPT ![d] = row]
    BY <1>2, <2>1, AccessOne
  <2>3. Access' = [Access EXCEPT ![d].state = "withdrawn"]
    BY <2>1, <2>2 DEF Access
  <2> QED BY <1>3, <1>4, <1>5, <2>3 DEF Registry!Withdrawn
<1>6. CASE ~Active(d)
  <2>1. devices[d].status = "revoked" /\ devices'[d] = devices[d]
    BY <1>2, <1>6 DEF Active
  <2>2. Access' = Access
    BY <1>2, <2>1 DEF Access
  <2>3. clients[d] = None
    BY <2>1 DEF IInv, PresenceTrue
  <2> QED BY <1>3, <1>4, <1>6, <2>2, <2>3 DEF Live
<1> QED BY <1>5, <1>6

\* What a request asks for, and what is left of it when it is answered.
LEMMA AskedSays ==
  ASSUME NEW c \in Calls, NEW kind \in {"pair", "rotate", "forget"}, Arrived(c, kind)
  PROVE  /\ Asked[c] = [kind |-> kind, binding |-> calls[c].binding, with |-> calls[c].with]
         /\ Asked[c].kind = kind
         /\ Asked[c].binding = calls[c].binding /\ Asked[c].with = calls[c].with
BY DEF Arrived, Asked

LEMMA AskedOne ==
  ASSUME NEW c \in Calls, \A e \in Calls \ {c} : calls'[e] = calls[e],
         NEW request, Asked'[c] = request
  PROVE  Asked' = [Asked EXCEPT ![c] = request]
<1>1. \A e \in Calls \ {c} : Asked'[e] = Asked[e]
  BY DEF Asked
<1> QED BY <1>1 DEF Asked

LEMMA AnsweredHandles ==
  ASSUME TypeOK, NEW c \in Calls, NEW x \in Credential \cup {None}, calls' = Answered(c, x)
  PROVE  Registry!Handled(c)
<1>1. /\ \A e \in Calls \ {c} : calls'[e] = calls[e]
      /\ calls'[c].answered \/ calls'[c].kind = "none"
  BY AnsweredTyped, NoCallTyped
<1>2. Asked'[c] = Registry!Silent
  BY <1>1 DEF Asked, Registry!Silent
<1> QED BY <1>1, <1>2, AskedOne DEF Registry!Handled

\* A request that is given up is still on its way, and an answer is no request.
LEMMA DroppedAsks ==
  ASSUME TypeOK, \A c \in Calls : \/ calls'[c] \in {calls[c], Dropped(c)}
                                  \/ calls[c].answered /\ calls'[c] = NoCall
  PROVE  Asked' = Asked
<1>1. \A c \in Calls :
        \/ /\ calls'[c].answered = calls[c].answered /\ calls'[c].kind = calls[c].kind
           /\ calls'[c].binding = calls[c].binding /\ calls'[c].with = calls[c].with
        \/ calls[c].answered /\ calls'[c] = NoCall
  BY CallTyped DEF Dropped, Call
<1> QED BY <1>1, NoCallTyped DEF Asked

LEMMA LinksSay ==
  ASSUME TypeOK, NEW b \in Bindings
  PROVE  /\ Links[b] = "open" <=> IsOpen(b)
         /\ Links[b] = "unmade" <=> sessions[b] = "none"
<1>1. sessions[b] \in {"none", "open", "confirmed", "expired", "pruned"}
  BY DEF TypeOK
<1> QED BY <1>1 DEF Links, IsOpen

LEMMA SessionMaps ==
  ASSUME IInv, IInv', NEW b \in Bindings, StartBinding(b) \/ Expire(b)
  PROVE  [Registry!Next]_(Registry!vars)
<1>1. UNCHANGED <<Access, Asked, Greeted, Live>>
  BY DEF StartBinding, Expire, Access, Asked, Greeted, Live
<1>2. \A c \in Bindings : /\ sessions[c] \in {"none", "open", "confirmed", "expired", "pruned"}
                          /\ sessions'[c] \in {"none", "open", "confirmed", "expired", "pruned"}
  BY DEF IInv, TypeOK
<1>3. CASE StartBinding(b)
  <2>1. /\ sessions[b] = "none" /\ sessions'[b] = "open"
        /\ \A c \in Bindings \ {b} : \/ sessions'[c] = sessions[c]
                                     \/ sessions[c] = "expired" /\ sessions'[c] = "pruned"
    BY <1>3 DEF StartBinding
  <2>2. Links[b] = "unmade" /\ Links' = [Links EXCEPT ![b] = "open"]
    BY <1>2, <2>1 DEF Links
  <2>3. Registry!Offer(b)
    BY <1>1, <2>2 DEF Registry!Offer
  <2> QED BY <2>3 DEF Registry!Next
<1>4. CASE Expire(b)
  <2>1. sessions[b] = "open" /\ sessions' = [sessions EXCEPT ![b] = "expired"]
    BY <1>4 DEF Expire
  <2>2. Links[b] = "open" /\ Links' = [Links EXCEPT ![b] = "over"]
    BY <1>2, <2>1 DEF Links, IInv, TypeOK
  <2>3. Registry!Lapse(b)
    BY <1>1, <2>2 DEF Registry!Lapse
  <2> QED BY <2>3 DEF Registry!Next
<1> QED BY <1>3, <1>4

-----------------------------------------------------------------------------
(* Sockets in the registry *)

LEMMA GreetedOne ==
  ASSUME TypeOK, NEW s \in Sockets, NEW x, sockets'[s].auth = x,
         \A r \in Sockets \ {s} : sockets'[r] = sockets[r]
  PROVE  Greeted' = [Greeted EXCEPT ![s] = x]
<1>1. \A r \in Sockets \ {s} : Greeted'[r] = Greeted[r]
  BY DEF Greeted
<1> QED BY <1>1 DEF Greeted

LEMMA SocketMaps ==
  ASSUME IInv, NEW s \in Sockets,
         Accept(s) \/ OpenSocket(s) \/ SendAuth(s) \/ AuthOk(s) \/ PhoneSeesClose(s)
         \/ AuthTimeout(s) \/ Break(s)
  PROVE  [Registry!Next]_(Registry!vars)
<1>1. UNCHANGED <<Links, Access, Asked, Live>>
  BY DEF Accept, OpenSocket, SendAuth, AuthOk, PhoneSeesClose, AuthTimeout, Break,
         server, phone, Links, Access, Asked, Live
<1>2. sockets \in [Sockets -> Socket]
  BY DEF IInv, TypeOK
<1>3. CASE UNCHANGED sockets \/ \E phase \in Phases : sockets' = [sockets EXCEPT ![s].phase = phase]
  <2>1. \A r \in Sockets : sockets'[r].auth = sockets[r].auth
    BY <1>2, <1>3 DEF Socket
  <2>2. Greeted' = Greeted
    BY <2>1 DEF Greeted
  <2> QED BY <1>1, <2>2, RegistrySame
<1>4. CASE OpenSocket(s)
  <2>1. sockets'[s] = NoSocket /\ \A r \in Sockets \ {s} : sockets'[r] = sockets[r]
    BY <1>2, <1>4 DEF OpenSocket
  <2>2. Greeted' = [Greeted EXCEPT ![s] = None]
    BY <2>1, GreetedOne DEF IInv, NoSocket
  <2>3. Registry!Part(s)
    BY <1>1, <2>2 DEF Registry!Part
  <2> QED BY <2>3 DEF Registry!Next
<1>5. CASE SendAuth(s)
  <2>1. /\ sockets[s].auth = None /\ sockets'[s].auth = cache
        /\ \A r \in Sockets \ {s} : sockets'[r] = sockets[r]
    BY <1>2, <1>5 DEF SendAuth, Socket
  <2>2. Greeted[s] = None /\ Greeted' = [Greeted EXCEPT ![s] = cache]
    BY <2>1, GreetedOne DEF IInv, Greeted
  <2>3. CASE cache = None
    <3>1. Greeted' = Greeted
      BY <2>2, <2>3 DEF Greeted
    <3> QED BY <1>1, <3>1, RegistrySame
  <2>4. CASE cache # None
    <3>1. Registry!Given(cache)
      BY <2>4, GivenSays DEF IInv, TypeOK, KnownInv
    <3>2. Greeted'[s] = cache
      BY <2>1 DEF Greeted
    <3>3. Registry!Greet(s)
      BY <1>1, <2>2, <3>1, <3>2 DEF Registry!Greet
    <3> QED BY <3>3 DEF Registry!Next
  <2> QED BY <2>3, <2>4
<1>6. Accept(s) \/ AuthOk(s) \/ PhoneSeesClose(s) \/ AuthTimeout(s) \/ Break(s)
      => UNCHANGED sockets \/ \E phase \in Phases : sockets' = [sockets EXCEPT ![s].phase = phase]
  BY DEF Accept, AuthOk, PhoneSeesClose, AuthTimeout, Break, server, Phases
<1> QED BY <1>3, <1>4, <1>5, <1>6

LEMMA AuthenticateMaps ==
  ASSUME IInv, NEW s \in Sockets, Authenticate(s)
  PROVE  [Registry!Next]_(Registry!vars)
<1> DEFINE x == sockets[s].auth
<1>1. /\ sockets \in [Sockets -> Socket] /\ clients \in [Devices -> Sockets \cup {None}]
      /\ x \in Credential /\ x # None /\ x.device \in Devices /\ Greeted[s] = x
      /\ UNCHANGED <<Links, Asked>>
  BY CredentialTyped DEF Authenticate, IInv, TypeOK, Socket, Greeted, Links, Asked
<1>2. CASE Valid(x)
  <2>1. /\ sockets' = [sockets EXCEPT ![s] = [phase |-> "authed", device |-> x.device, auth |-> None]]
        /\ devices' = Presence(x.device, "online")
        /\ clients' = [clients EXCEPT ![x.device] = s]
    BY <1>2 DEF Authenticate
  <2>2. Access' = Access
    BY <1>1, <2>1, AccessKept DEF IInv
  <2>3. Greeted' = [Greeted EXCEPT ![s] = None]
    <3>1. sockets'[s].auth = None /\ \A r \in Sockets \ {s} : sockets'[r] = sockets[r]
      BY <1>1, <2>1
    <3> QED BY <3>1, GreetedOne DEF IInv
  <2>4. Live' = Live \cup {x.device}
    BY <1>1, <2>1, NoneAssumption DEF Live
  <2>5. Registry!Fits(Greeted[s])
    BY <1>1, <1>2, FitsSays
  <2>6. Registry!Enter(s)
    BY <1>1, <2>2, <2>3, <2>4, <2>5 DEF Registry!Enter
  <2> QED BY <2>6 DEF Registry!Next
<1>3. CASE ~Valid(x)
  <2>1. /\ sockets' = [sockets EXCEPT ![s] = [@ EXCEPT !.phase = "closing", !.auth = None]]
        /\ UNCHANGED <<devices, clients>>
    BY <1>3 DEF Authenticate
  <2>2. sockets'[s].auth = None /\ \A r \in Sockets \ {s} : sockets'[r] = sockets[r]
    BY <1>1, <2>1 DEF Socket
  <2>3. Greeted' = [Greeted EXCEPT ![s] = None]
    BY <2>2, GreetedOne DEF IInv
  <2>4. UNCHANGED <<Access, Live>>
    BY <2>1 DEF Access, Live
  <2>5. Registry!Part(s)
    BY <1>1, <2>3, <2>4 DEF Registry!Part
  <2> QED BY <2>5 DEF Registry!Next
<1> QED BY <1>2, <1>3

LEMMA SocketClosesMaps ==
  ASSUME IInv, NEW s \in Sockets, SocketCloses(s)
  PROVE  [Registry!Next]_(Registry!vars)
<1> DEFINE d == sockets[s].device
<1>1. /\ sockets \in [Sockets -> Socket] /\ clients \in [Devices -> Sockets \cup {None}]
      /\ d \in Devices \cup {None}
      /\ sockets' = [sockets EXCEPT ![s] = [phase |-> "gone", device |-> None, auth |-> None]]
      /\ UNCHANGED <<Links, Asked>>
  BY DEF SocketCloses, IInv, TypeOK, Socket, Links, Asked
<1>2. Greeted' = [Greeted EXCEPT ![s] = None]
  <2>1. sockets'[s].auth = None /\ \A r \in Sockets \ {s} : sockets'[r] = sockets[r]
    BY <1>1
  <2> QED BY <2>1, GreetedOne DEF IInv
<1>3. CASE d = None
  <2>1. UNCHANGED <<Access, Live>>
    BY <1>3 DEF SocketCloses, Access, Live
  <2>2. Registry!Part(s)
    BY <1>1, <1>2, <2>1 DEF Registry!Part
  <2> QED BY <2>2 DEF Registry!Next
<1>4. CASE d # None
  <2>1. d \in Devices /\ clients' = [clients EXCEPT ![d] = None] /\ devices' = Presence(d, "offline")
    BY <1>1, <1>4 DEF SocketCloses, EntryDeleted
  <2>2. Access' = Access
    BY <2>1, AccessKept DEF IInv
  <2>3. Live' = Live \ {d}
    BY <1>1, <2>1 DEF Live
  <2>4. Registry!Part(s)
    BY <1>1, <1>2, <2>1, <2>2, <2>3 DEF Registry!Part
  <2> QED BY <2>4 DEF Registry!Next
<1> QED BY <1>3, <1>4

-----------------------------------------------------------------------------
(* Requests in the registry *)

LEMMA SentMaps ==
  ASSUME IInv, NEW c \in Calls, NEW kind \in {"pair", "rotate", "forget"},
         NEW b \in Bindings \cup {None}, Sent(c, kind, b),
         \/ kind = "pair" /\ b \in Bindings /\ sessions[b] # "none"
         \/ kind # "pair" /\ cache # None,
         UNCHANGED server
  PROVE  [Registry!Next]_(Registry!vars)
<1>1. UNCHANGED <<Links, Access, Greeted, Live>>
  BY DEF server, Links, Access, Greeted, Live
<1>2. /\ \A e \in Calls \ {c} : calls'[e] = calls[e]
      /\ calls'[c].kind = kind /\ calls'[c].binding = b
      /\ calls'[c].with = IF kind = "pair" THEN None ELSE cache
      /\ calls[c].kind = "none" /\ ~calls'[c].answered
  BY SentTyped DEF IInv, Sent
<1> DEFINE request == [kind |-> kind, binding |-> b,
                       with |-> IF kind = "pair" THEN None ELSE cache]
<1>3. Asked[c] = Registry!Silent /\ Asked'[c] = request
  BY <1>2 DEF Asked, Registry!Silent
<1>4. Asked' = [Asked EXCEPT ![c] = Asked'[c]]
  BY <1>2, <1>3, AskedOne
<1>5. CASE kind = "pair"
  <2>1. Links[b] # "unmade"
    BY <1>5, LinksSay DEF IInv
  <2>2. Registry!Ask(c)
    BY <1>1, <1>3, <1>4, <1>5, <2>1 DEF Registry!Ask
  <2> QED BY <2>2 DEF Registry!Next
<1>6. CASE kind # "pair"
  <2>1. cache \in Credential /\ Known(cache)
    BY <1>6 DEF IInv, TypeOK, KnownInv
  <2>2. Registry!Given(cache)
    BY <2>1, GivenSays
  <2>3. Asked'[c].kind \in {"rotate", "forget"} /\ Asked'[c].with = cache
    BY <1>3, <1>6
  <2>4. Registry!Ask(c)
    BY <1>1, <1>3, <1>4, <2>2, <2>3 DEF Registry!Ask
  <2> QED BY <2>4 DEF Registry!Next
<1> QED BY <1>5, <1>6

LEMMA ConfirmMaps ==
  ASSUME IInv, NEW c \in Calls, Confirm(c)
  PROVE  [Registry!Next]_(Registry!vars)
<1> DEFINE b == calls[c].binding
<1>1. /\ b \in Bindings /\ Asked[c].kind = "pair" /\ Asked[c].binding = b
      /\ UNCHANGED <<Greeted, Live>>
  BY AskedSays DEF Confirm, Arrived, IInv, CallInv, Greeted, Live
<1>2. CASE ~IsOpen(b) /\ calls' = Answered(c, None) /\ UNCHANGED <<sessions, devices>>
  <2>1. UNCHANGED <<Links, Access>>
    BY <1>2 DEF Links, Access
  <2>2. Registry!Handled(c)
    BY <1>2, AnsweredHandles DEF IInv
  <2>3. Links[b] # "open"
    BY <1>1, <1>2, LinksSay DEF IInv
  <2>4. Registry!Refuse(c)
    BY <1>1, <2>1, <2>2, <2>3 DEF Registry!Refuse
  <2> QED BY <2>4 DEF Registry!Next
<1>3. ASSUME NEW d \in Devices, ~Bound(d), IsOpen(b), devices' = Inserted(b, d),
             calls' = Answered(c, [device |-> d, token |-> IF d \in Signed THEN None ELSE 0]),
             sessions' = [sessions EXCEPT ![b] = "confirmed"]
      PROVE  [Registry!Next]_(Registry!vars)
  <2>1. Registry!GrantedBy(d, b)
    BY <1>1, <1>3, AccessGranted DEF IInv
  <2>2. Registry!Handled(c)
    <3>1. [device |-> d, token |-> IF d \in Signed THEN None ELSE 0] \in Credential
      BY DEF Credential
    <3> QED BY <1>3, <3>1, AnsweredHandles DEF IInv
  <2>3. Links[b] = "open" /\ Links' = [Links EXCEPT ![b] = "used"]
    BY <1>1, <1>3, LinksSay DEF IInv, TypeOK, Links
  <2>4. Registry!Grant(c, d)
    BY <1>1, <2>1, <2>2, <2>3 DEF Registry!Grant
  <2> QED BY <2>4 DEF Registry!Next
<1> QED BY <1>2, <1>3 DEF Confirm

LEMMA RotateMaps ==
  ASSUME IInv, NEW c \in Calls, Rotate(c)
  PROVE  [Registry!Next]_(Registry!vars)
<1> DEFINE w == calls[c].with
<1> DEFINE d == w.device
<1>1. /\ w \in Credential /\ w # None /\ d \in Devices /\ Asked[c].kind = "rotate" /\ Asked[c].with = w
      /\ UNCHANGED <<Links, Greeted, Live>>
  BY AskedSays, CredentialsTyped, CredentialTyped
     DEF Rotate, Arrived, IInv, CallInv, Links, Greeted, Live
<1>2. Registry!Fits(w) <=> Valid(w)
  BY <1>1, FitsSays
<1>3. CASE ~FromDevice(w) /\ calls' = Answered(c, None) /\ UNCHANGED <<devices, unsaid>>
  <2>1. Access' = Access
    BY <1>3 DEF Access
  <2>2. Registry!Handled(c)
    BY <1>3, AnsweredHandles DEF IInv
  <2>3. Registry!Refuse(c)
    BY <1>1, <1>2, <1>3, <2>1, <2>2 DEF Registry!Refuse, FromDevice
  <2> QED BY <2>3 DEF Registry!Next
<1>4. ASSUME FromDevice(w), devices' = [devices EXCEPT ![d].token = @ + 1],
             calls' = Answered(c, [device |-> d, token |-> devices[d].token + 1])
      PROVE  [Registry!Next]_(Registry!vars)
  <2>1. Bound(d) /\ Active(d) /\ devices[d].token \in Nat
    BY <1>1, <1>4, DeviceTyped DEF FromDevice, Valid, Active, IInv
  <2>2. /\ devices'[d] # None /\ devices'[d].token = devices[d].token + 1
        /\ devices'[d].status = devices[d].status /\ devices'[d].from = devices[d].from
        /\ \A e \in Devices \ {d} : devices'[e] = devices[e]
    BY <1>1, <1>4, <2>1, TokenTyped DEF IInv
  <2>3. /\ Access[d] = [state |-> "granted", token |-> devices[d].token, link |-> devices[d].from]
        /\ Access'[d] = [state |-> "granted", token |-> devices[d].token + 1, link |-> devices[d].from]
    BY <1>1, <2>1, <2>2 DEF Access, Active, Bound
  <2>4. Access' = [Access EXCEPT ![d] = [state |-> "granted", token |-> devices[d].token + 1,
                                         link |-> devices[d].from]]
    BY <1>1, <2>2, <2>3, AccessOne
  <2>5. Access' = [Access EXCEPT ![d].token = @ + 1]
    BY <2>3, <2>4 DEF Access
  <2>6. Registry!Handled(c)
    <3>1. devices[d].token + 1 \in Nat
      BY <2>1
    <3>2. [device |-> d, token |-> devices[d].token + 1] \in Credential
      BY <1>1, <3>1 DEF Credential
    <3> QED BY <1>4, <3>2, AnsweredHandles DEF IInv
  <2>7. Registry!Renew(c)
    BY <1>1, <1>2, <1>4, <2>5, <2>6 DEF Registry!Renew, FromDevice
  <2> QED BY <2>7 DEF Registry!Next
<1> QED BY <1>3, <1>4 DEF Rotate

LEMMA RevokeMeMaps ==
  ASSUME IInv, NEW c \in Calls, RevokeMe(c)
  PROVE  [Registry!Next]_(Registry!vars)
<1> DEFINE w == calls[c].with
<1>1. /\ w \in Credential /\ w # None /\ w.device \in Devices
      /\ Asked[c].kind = "forget" /\ Asked[c].with = w /\ Links' = Links
  BY AskedSays, CredentialsTyped, CredentialTyped DEF RevokeMe, Arrived, IInv, CallInv, Links
<1>2. Registry!Fits(w) <=> Valid(w)
  BY <1>1, FitsSays
<1>3. Registry!Handled(c)
  BY AnsweredHandles DEF RevokeMe, IInv
<1>4. CASE FromDevice(w)
  <2>1. Active(w.device) /\ Bound(w.device) /\ Revoked(w.device)
    BY <1>4 DEF RevokeMe, FromDevice, Valid, Active
  <2>2. Greeted' = Greeted /\ Registry!Withdrawn(w.device)
    BY <1>1, <2>1, AccessWithdrawn
  <2>3. Registry!GiveBack(c)
    BY <1>1, <1>2, <1>3, <1>4, <2>2 DEF Registry!GiveBack, FromDevice
  <2> QED BY <2>3 DEF Registry!Next
<1>5. CASE ~FromDevice(w)
  <2>1. UNCHANGED <<Access, Greeted, Live>>
    BY <1>5 DEF RevokeMe, Access, Greeted, Live
  <2>2. Registry!Refuse(c)
    BY <1>1, <1>2, <1>3, <1>5, <2>1 DEF Registry!Refuse, FromDevice
  <2> QED BY <2>2 DEF Registry!Next
<1> QED BY <1>4, <1>5

LEMMA RevokeMaps ==
  ASSUME IInv, NEW d \in Devices, Revoke(d)
  PROVE  [Registry!Next]_(Registry!vars)
<1>1. Bound(d) /\ Revoked(d) /\ UNCHANGED <<Links, Asked>>
  BY DEF Revoke, Links, Asked
<1>2. CASE Active(d)
  <2>1. Registry!Withdraw(d)
    BY <1>1, <1>2, AccessWithdrawn, AccessSays DEF Registry!Withdraw
  <2> QED BY <2>1 DEF Registry!Next
<1>3. CASE ~Active(d)
  BY <1>1, <1>3, AccessWithdrawn, RegistrySame
<1> QED BY <1>2, <1>3

\* What the phone does with answers and with requests it gives up is nothing to the registry.
LEMMA PhoneMaps ==
  ASSUME IInv,
         \/ \E c \in Calls : Receive(c) \/ GiveUp(c)
         \/ \E phase \in {"away", "offline"} : Load(phase)
         \/ Connect \/ Store
  PROVE  [Registry!Next]_(Registry!vars)
<1>1. UNCHANGED <<Links, Access, Greeted, Live>>
  BY DEF Receive, GiveUp, Load, Connect, Store, server, Links, Access, Greeted, Live
<1>2. \A c \in Calls : \/ calls'[c] \in {calls[c], Dropped(c)}
                       \/ calls[c].answered /\ calls'[c] = NoCall
  BY DEF Receive, GiveUp, Load, Connect, Store, IInv, TypeOK
<1>3. Asked' = Asked
  BY <1>2, DroppedAsks DEF IInv
<1> QED BY <1>1, <1>3, RegistrySame

LEMMA StopMaps ==
  ASSUME IInv, Stop
  PROVE  [Registry!Next]_(Registry!vars)
<1>1. /\ Live' = {} /\ Links' = Links
      /\ \A s \in Sockets : sockets'[s].auth = None
      /\ calls' = [c \in Calls |-> IF calls[c].awaited THEN [calls[c] EXCEPT !.answered = TRUE] ELSE NoCall]
  BY DEF Stop, Live, Links, NoSocket
<1>2. Greeted' = [s \in Sockets |-> None]
  BY <1>1 DEF Greeted
<1>3. Asked' = [c \in Calls |-> Registry!Silent]
  <2>1. \A c \in Calls : calls'[c].answered \/ calls'[c].kind = "none"
    BY <1>1, CallTyped, NoCallTyped DEF IInv, Call
  <2> QED BY <2>1 DEF Asked, Registry!Silent
<1>4. CASE devices' = devices
  <2>1. Access' = Access
    BY <1>4 DEF Access
  <2>2. Registry!End
    BY <1>1, <1>2, <1>3, <2>1 DEF Registry!End
  <2> QED BY <2>2 DEF Registry!Next
<1>5. ASSUME NEW c \in Calls, NEW d \in Devices, Arrived(c, "pair"), IsOpen(calls[c].binding),
             ~Bound(d), devices' = Inserted(calls[c].binding, d)
      PROVE  [Registry!Next]_(Registry!vars)
  <2>1. /\ calls[c].binding \in Bindings
        /\ Asked[c].kind = "pair" /\ Asked[c].binding = calls[c].binding
    BY <1>5, AskedSays DEF Arrived, IInv, CallInv
  <2>2. Links[Asked[c].binding] = "open" /\ Registry!GrantedBy(d, Asked[c].binding)
    BY <1>5, <2>1, LinksSay, AccessGranted DEF IInv
  <2>3. Registry!End
    BY <1>1, <1>2, <1>3, <2>1, <2>2 DEF Registry!End
  <2> QED BY <2>3 DEF Registry!Next
<1> QED BY <1>4, <1>5 DEF Stop

-----------------------------------------------------------------------------
(* The refinement *)

LEMMA RegistryStep ==
  ASSUME IInv, IInv', [Next]_vars
  PROVE  [Registry!Next]_(Registry!vars)
<1>1. CASE UNCHANGED vars
  <2>1. UNCHANGED <<Links, Access, Asked, Greeted, Live>>
    BY <1>1 DEF vars, Links, Access, Asked, Greeted, Live
  <2> QED BY <2>1, RegistrySame
<1>2. ASSUME NEW s \in Sockets, Socketwise(s) \/ AuthTimeout(s) \/ Break(s)
      PROVE  [Registry!Next]_(Registry!vars)
  BY <1>2, SocketMaps, AuthenticateMaps, SocketClosesMaps DEF Socketwise
<1>3. ASSUME NEW c \in Calls, Callwise(c) \/ GiveUp(c)
      PROVE  [Registry!Next]_(Registry!vars)
  BY <1>3, ConfirmMaps, RotateMaps, RevokeMeMaps, PhoneMaps DEF Callwise
<1>4. ASSUME NEW c \in Calls,
             \/ \E b \in Bindings : SendPair(c, b)
             \/ SendRotate(c) \/ AskRotation(c) \/ SendForget(c) \/ ConnectRotates(c)
      PROVE  [Registry!Next]_(Registry!vars)
  BY <1>4, SentMaps DEF SendPair, SendRotate, AskRotation, SendForget, ConnectRotates, HasToken
<1>5. CASE Owner
  BY <1>4, <1>5, SessionMaps, RevokeMaps DEF Owner
<1>6. CASE User
  BY <1>4, <1>6, PhoneMaps DEF User
<1>7. CASE Connect \/ Store \/ Stop
  BY <1>7, PhoneMaps, StopMaps
<1> QED BY <1>1, <1>2, <1>3, <1>4, <1>5, <1>6, <1>7 DEF Next

LEMMA RegistryInit == Init => Registry!Init
<1> SUFFICES ASSUME Init PROVE Registry!Init
  OBVIOUS
<1>1. Links = [b \in Bindings |-> "unmade"] /\ Access = [d \in Devices |-> Registry!NoAccess]
  BY DEF Init, Links, Access, Registry!NoAccess
<1>2. Asked = [c \in Calls |-> Registry!Silent]
  BY NoCallTyped DEF Init, Asked, Registry!Silent
<1>3. Greeted = [s \in Sockets |-> None] /\ Live = {}
  BY DEF Init, Greeted, Live, NoSocket
<1> QED BY <1>1, <1>2, <1>3 DEF Registry!Init

\* Whatever requests, answers, sockets and restarts do to the access of a device is
\* what DeviceRegistry allows: the invariant gives that each credential on its way was
\* given by the server, and that a revoked device has no socket left in wsClients.
THEOREM RegistryKept == Spec => KeepsRegistry
<1>1. IInv /\ IInv' /\ [Next]_vars => [Registry!Next]_(Registry!vars)
  BY RegistryStep
<1> QED BY <1>1, RegistryInit, Invariance, PTL DEF Spec, KeepsRegistry, Registry!Spec
=============================================================================
