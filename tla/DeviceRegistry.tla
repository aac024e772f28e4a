--------------------------- MODULE DeviceRegistry ---------------------------
(***************************************************************************)
(* What the owner is promised about the phones that may use the desktop,   *)
(* whatever order requests, answers, sockets and restarts come in          *)
(* (server/routes/deviceRoutes.ts, server/devices.ts, server/auth.ts,      *)
(* server/realtime.ts).  Access is granted by a link that is open,         *)
(* renewed, used and given back by a request or a socket that carries the  *)
(* current credential, and withdrawn for good.  A request is handled once, *)
(* and it is refused only if what it carries is not accepted.  The phone   *)
(* shows nothing that the desktop has not given it.                        *)
(***************************************************************************)
EXTENDS Naturals

CONSTANTS Bindings, Devices, Signed, Sockets, Calls, None

VARIABLES
  links,    \* what has become of each pairing link
  access,   \* the access of each device: its state, its token, the link it came by
  asked,    \* the requests on their way to the desktop
  greeted,  \* the credentials that sockets have sent and that are not looked at yet
  live      \* the devices that the desktop takes to be connected

vars == <<links, access, asked, greeted, live>>

NoAccess == [state |-> "none", token |-> 0, link |-> None]
Silent   == [kind |-> "none", binding |-> None, with |-> None]

Has(d)     == access[d].state # "none"
Granted(d) == access[d].state = "granted"

\* The desktop gave credential x to somebody, and would accept it now.
Given(x) ==
  /\ x # None /\ Has(x.device)
  /\ IF x.device \in Signed THEN x.token = None
     ELSE x.token \in Nat /\ x.token <= access[x.device].token

Fits(x) ==
  /\ x # None /\ Granted(x.device)
  /\ IF x.token = None THEN x.device \in Signed ELSE x.token = access[x.device].token

Handled(c)      == asked' = [asked EXCEPT ![c] = Silent]
GrantedBy(d, b) == /\ ~Has(d)
                   /\ access' = [access EXCEPT ![d] = [state |-> "granted", token |-> 0, link |-> b]]
Withdrawn(d)    == /\ access' = [access EXCEPT ![d].state = "withdrawn"]
                   /\ live' = live \ {d}

Init ==
  /\ links = [b \in Bindings |-> "unmade"]
  /\ access = [d \in Devices |-> NoAccess]
  /\ asked = [c \in Calls |-> Silent]
  /\ greeted = [s \in Sockets |-> None]
  /\ live = {}

Offer(b) ==
  /\ links[b] = "unmade"
  /\ links' = [links EXCEPT ![b] = "open"]
  /\ UNCHANGED <<access, asked, greeted, live>>

Lapse(b) ==
  /\ links[b] = "open"
  /\ links' = [links EXCEPT ![b] = "over"]
  /\ UNCHANGED <<access, asked, greeted, live>>

\* A phone asks: to be paired by a link that was made, or with a credential it got.
Ask(c) ==
  /\ asked[c] = Silent
  /\ asked' = [asked EXCEPT ![c] = asked'[c]]
  /\ LET request == asked'[c]
     IN \/ request.kind = "pair" /\ request.binding \in Bindings /\ links[request.binding] # "unmade"
        \/ request.kind \in {"rotate", "forget"} /\ Given(request.with)
  /\ UNCHANGED <<links, access, greeted, live>>

Grant(c, d) ==
  /\ asked[c].kind = "pair" /\ links[asked[c].binding] = "open"
  /\ GrantedBy(d, asked[c].binding)
  /\ links' = [links EXCEPT ![asked[c].binding] = "used"]
  /\ Handled(c)
  /\ UNCHANGED <<greeted, live>>

Renew(c) ==
  /\ asked[c].kind = "rotate" /\ Fits(asked[c].with)
  /\ access' = [access EXCEPT ![asked[c].with.device].token = @ + 1]
  /\ Handled(c)
  /\ UNCHANGED <<links, greeted, live>>

GiveBack(c) ==
  /\ asked[c].kind = "forget" /\ Fits(asked[c].with)
  /\ Withdrawn(asked[c].with.device)
  /\ Handled(c)
  /\ UNCHANGED <<links, greeted>>

Refuse(c) ==
  /\ \/ asked[c].kind = "pair" /\ links[asked[c].binding] # "open"
     \/ asked[c].kind \in {"rotate", "forget"} /\ ~Fits(asked[c].with)
  /\ Handled(c)
  /\ UNCHANGED <<links, access, greeted, live>>

\* The owner withdraws the access of a device.
Withdraw(d) ==
  /\ Granted(d)
  /\ Withdrawn(d)
  /\ UNCHANGED <<links, asked, greeted>>

\* A socket sends a credential that the phone got.
Greet(s) ==
  /\ greeted[s] = None
  /\ greeted' = [greeted EXCEPT ![s] = greeted'[s]]
  /\ Given(greeted'[s])
  /\ UNCHANGED <<links, access, asked, live>>

Enter(s) ==
  /\ Fits(greeted[s])
  /\ live' = live \cup {greeted[s].device}
  /\ greeted' = [greeted EXCEPT ![s] = None]
  /\ UNCHANGED <<links, access, asked>>

\* A socket ends, or what it sent is not accepted.
Part(s) ==
  /\ greeted' = [greeted EXCEPT ![s] = None]
  /\ \/ live' = live
     \/ \E d \in Devices : live' = live \ {d}
  /\ UNCHANGED <<links, access, asked>>

\* The desktop ends.  It may have granted what a request asked for and not noted that
\* the link is used.
End ==
  /\ asked' = [c \in Calls |-> Silent]
  /\ greeted' = [s \in Sockets |-> None]
  /\ live' = {}
  /\ \/ access' = access
     \/ \E c \in Calls, d \in Devices :
          /\ asked[c].kind = "pair" /\ links[asked[c].binding] = "open"
          /\ GrantedBy(d, asked[c].binding)
  /\ UNCHANGED links

Next ==
  \/ \E s \in Sockets : Part(s) \/ Enter(s) \/ Greet(s)
  \/ \E c \in Calls : \/ Ask(c) \/ Renew(c) \/ GiveBack(c) \/ Refuse(c)
                      \/ \E d \in Devices : Grant(c, d)
  \/ \E b \in Bindings : Offer(b) \/ Lapse(b)
  \/ \E d \in Devices : Withdraw(d)
  \/ End

Spec == Init /\ [][Next]_vars
=============================================================================
