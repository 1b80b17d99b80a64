----------------------------- MODULE HrRegistry -----------------------------
(***************************************************************************)
(* What the notification protocol promises to the boards and to the        *)
(* operator, without packets, threads or registers: a set of ready slices  *)
(* with its size, the boards that are stopped, the links that are up, and  *)
(* acknowledgements that are only given for work that is done.  HrNotify   *)
(* implements it.                                                          *)
(***************************************************************************)
EXTENDS Integers, FiniteSets

CONSTANTS
  Slots, Slices,
  Linked         \* slots with a link the switch board controls

VARIABLES
  ready,         \* the <<slot, slice>> that are ready
  count,         \* how many they are
  stopped,       \* slots stopped and not restored
  up,            \* slots of Linked whose link is up
  ack            \* the last acknowledgement: its flag and the slot it answers

vars == <<ready, count, stopped, up, ack>>

OfSlot(s) == {x \in ready : x[1] = s}

Init ==
  /\ ready = {} /\ count = 0 /\ stopped = {} /\ up = Linked
  /\ ack = [flag |-> "none", to |-> 0]

(* A slice becomes ready, and there is one more of them.                    *)
Announce(s, i) ==
  /\ count' = count + 1
  /\ ready' = ready \cup {<<s, i>>}
  /\ count' = Cardinality(ready')
  /\ UNCHANGED <<stopped, up, ack>>

(* A board is stopped: none of its slices is ready any more.                *)
Stop(s) ==
  /\ stopped' = stopped \cup {s}
  /\ ready' = ready \ OfSlot(s)
  /\ count' = Cardinality(ready')
  /\ UNCHANGED <<up, ack>>

(* A stopped board asks to come back.                                       *)
Resume(s) ==
  /\ s \in stopped
  /\ stopped' = stopped \ {s}
  /\ UNCHANGED <<ready, count, up, ack>>

(* Only the link of a stopped board goes down, only that of a board that is *)
(* not stopped comes up.                                                    *)
LinkDown(s) ==
  /\ s \in stopped \cap Linked
  /\ up' = up \ {s}
  /\ UNCHANGED <<ready, count, stopped, ack>>

LinkUp(s) ==
  /\ s \in Linked \ stopped
  /\ up' = up \cup {s}
  /\ UNCHANGED <<ready, count, stopped, ack>>

AckState(s) ==
  /\ ack' = [flag |-> "STATE_ACK", to |-> s]
  /\ UNCHANGED <<ready, count, stopped, up>>

(* A stop is acknowledged when the board is out: no slice, no link.         *)
AckStop(s) ==
  /\ s \in stopped \ up
  /\ OfSlot(s) = {}
  /\ ack' = [flag |-> "STOP_ACK", to |-> s]
  /\ UNCHANGED <<ready, count, stopped, up>>

(* A restore is acknowledged when the link of the board is back.            *)
AckRestore(s) ==
  /\ s \notin stopped
  /\ s \in Linked => s \in up
  /\ ack' = [flag |-> "RESTORE_ACK", to |-> s]
  /\ UNCHANGED <<ready, count, stopped, up>>

Next ==
  \/ \E s \in Slots, i \in Slices : Announce(s, i)
  \/ \E s \in Slots : Stop(s) \/ Resume(s) \/ LinkDown(s) \/ LinkUp(s)
  \/ \E s \in 0 .. 255 : AckState(s)
  \/ \E s \in Slots : AckStop(s) \/ AckRestore(s)

Spec == Init /\ [][Next]_vars
=============================================================================
