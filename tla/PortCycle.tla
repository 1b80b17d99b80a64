----------------------------- MODULE PortCycle -----------------------------
(***************************************************************************)
(* What the link watch promises of the ports it looks after: the cycle of  *)
(* a port from service through repair back into service, and what the      *)
(* packets of its board meet meanwhile.  There is no register, no retry    *)
(* and no order of accesses here.                                          *)
(***************************************************************************)
CONSTANTS
  Boards, \* the boards, one at each port
  Nodes   \* board -> the nodes whose packets go to it

VARIABLES
  phase,     \* board -> "open", "shut", "maintenance" or "configured", of its port
  routes,    \* board -> the nodes whose packets are forwarded to it
  configured \* board -> it has routes and an ID since its last reset

cvars == <<phase, routes, configured>>

Init ==
  /\ phase = [b \in Boards |-> "open"]
  /\ routes = [b \in Boards |-> Nodes[b]]
  /\ configured = [b \in Boards |-> TRUE]

Moves(b, from, to) ==
  /\ phase[b] = from
  /\ phase' = [phase EXCEPT ![b] = to]

(* A board may be reset at any time.                                        *)
Reset(b) ==
  /\ configured' = [configured EXCEPT ![b] = FALSE]
  /\ UNCHANGED <<phase, routes>>

(* Only a board that has lost its configuration is taken out of service.    *)
Shut(b) ==
  /\ ~ configured[b]
  /\ Moves(b, "open", "shut")
  /\ UNCHANGED <<routes, configured>>

Withdraw(b, n) ==
  /\ phase[b] = "shut"
  /\ routes' = [routes EXCEPT ![b] = @ \ {n}]
  /\ UNCHANGED <<phase, configured>>

(* One board at a time, and none whose packets are still forwarded.         *)
Maintain(b) ==
  /\ routes[b] = {}
  /\ \A c \in Boards : phase[c] \in {"open", "shut"}
  /\ Moves(b, "shut", "maintenance")
  /\ UNCHANGED <<routes, configured>>

Configure(b) ==
  /\ Moves(b, "maintenance", "configured")
  /\ configured' = [configured EXCEPT ![b] = TRUE]
  /\ UNCHANGED routes

Readmit(b, n) ==
  /\ phase[b] = "configured"
  /\ routes' = [routes EXCEPT ![b] = @ \cup {n}]
  /\ UNCHANGED <<phase, configured>>

(* Back into service only with all routes.                                  *)
Open(b) ==
  /\ routes[b] = Nodes[b]
  /\ Moves(b, "configured", "open")
  /\ UNCHANGED <<routes, configured>>

Next ==
  \E b \in Boards :
    \/ Reset(b) \/ Shut(b) \/ Maintain(b) \/ Configure(b) \/ Open(b)
    \/ \E n \in Nodes[b] : Withdraw(b, n) \/ Readmit(b, n)

Spec == Init /\ [][Next]_cvars
=============================================================================
