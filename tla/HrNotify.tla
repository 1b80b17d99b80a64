------------------------------ MODULE HrNotify ------------------------------
(***************************************************************************)
(* The notification protocol of the switch board: the receive thread of    *)
(* socket 6000 (udp_net.c, OnSocket, with the helpers of udp_fun.c) keeps  *)
(* a table of the processor slices that reported ready, stops and restores *)
(* the CPS1848 port of a board, and answers with an acknowledgement.       *)
(*                                                                         *)
(* Every register access of the handler is a step of its own: while the    *)
(* thread loops on a port-control register the link goes on working        *)
(* (Traffic), and an access to a chip may fail (the driver returns an      *)
(* error, set_1848_reg drops the write, get_1848_reg answers 0xffff).      *)
(*                                                                         *)
(* The packets come from UDP: any packet may arrive in any state, so loss, *)
(* duplication, reordering and retries of the boards are all included.     *)
(*                                                                         *)
(* STOP and RESTORE index registerArr and RebootArr with the slot byte     *)
(* unchecked; the model has them carry slots of the chassis (Boards), the  *)
(* slot byte of a STATE packet, which the code checks, takes any value.    *)
(***************************************************************************)
EXTENDS Integers, FiniteSets

CONSTANTS
  Boards,      \* slots whose boards send STOP and RESTORE packets
  SlotBytes,   \* values of the slot byte of STATE packets
  SliceBytes,  \* values of the slice byte of STATE and RESTORE packets
  Dead,        \* chips whose device could not be opened: every access fails
  Flaky,       \* chips whose accesses may fail now and then
  MaxReboot    \* bound on the reboots of a board that are counted

SLOTINDEXMAX == 12
SLICEIDMAX   == 4

Slots  == 1 .. SLOTINDEXMAX
Slices == 1 .. SLICEIDMAX
Chips  == 0 .. 1

ASSUME BoardsAssumption == Boards \subseteq Slots
ASSUME BytesAssumption  == SlotBytes \subseteq 0 .. 255 /\ SliceBytes \subseteq 0 .. 255
ASSUME ChipsAssumption  == Dead \subseteq Chips /\ Flaky \subseteq Chips
ASSUME BoundAssumption  == MaxReboot \in Nat

VARIABLES
  pc,             \* what the receive thread does next
  pkt,            \* NotifyPkt and the parsed fields of the packet being handled
  statusArr,      \* slot -> the slices whose ready bit is set
  registerArr,    \* slot -> TRUE while a STOP waits for its RESTORE
  RebootArr,      \* slot -> number of first STOPs
  hrReadynumbers, \* count of ready slices
  hrBackupIndex,  \* slot that last declared itself the backup, 0 for none
  rxtx,           \* port -> both bits 0x600000 of its register 0x15c are set
  ackid,          \* port -> 0 after a reset of register 0x148, 1 once it moved on
  ackPkt          \* Recv_Flag of the last acknowledgement sent, and the slot it answers

hrvars == <<statusArr, registerArr, RebootArr, hrReadynumbers, hrBackupIndex>>
hwvars == <<rxtx, ackid>>
vars   == <<pc, pkt, ackPkt, hrvars, hwvars>>

-----------------------------------------------------------------------------
(* The slots that have a port, and the <<chip, port>> of each of them.      *)
MappedSlots == {1, 2, 3, 4, 5, 8, 9, 10, 11, 12}

CheckSlotTable ==
  [s \in MappedSlots |->
     CASE s = 1  -> <<1, 1>>
       [] s = 2  -> <<0, 2>>
       [] s = 3  -> <<0, 5>>
       [] s = 4  -> <<0, 9>>
       [] s = 5  -> <<0, 4>>
       [] s = 8  -> <<0, 8>>
       [] s = 9  -> <<1, 2>>
       [] s = 10 -> <<1, 5>>
       [] s = 11 -> <<1, 9>>
       [] s = 12 -> <<1, 4>>]

Ports == {CheckSlotTable[s] : s \in MappedSlots \cap Boards}

(* Mutant: repetitions are not recognised.                                  *)
FreshRepeated(s, i)  == s \in Slots /\ i \in Slices

(* isRepeatPkt answers 1 for a slice seen for the first time.               *)
Fresh(s, i) == s \in Slots /\ i \in Slices /\ i \notin statusArr[s]

(* Its caller then counts the slice; a repeated or invalid one changes      *)
(* nothing.                                                                 *)
CountSlice(s, i) ==
  IF Fresh(s, i)
  THEN /\ statusArr' = [statusArr EXCEPT ![s] = @ \cup {i}]
       /\ hrReadynumbers' = hrReadynumbers + 1
  ELSE UNCHANGED <<statusArr, hrReadynumbers>>

PktTypes == {"STATE", "FAULT", "UPDATE", "REPLY_ACK", "STOP", "RESTORE", "UNKNOWN"}
Silent   == {"FAULT", "UPDATE", "REPLY_ACK", "UNKNOWN"}
AckTypes == {"none", "STATE_ACK", "STOP_ACK", "RESTORE_ACK"}
AckSwapped == [STATE |-> "STATE_ACK", STOP |-> "RESTORE_ACK", RESTORE |-> "STOP_ACK"]
AckOf    == [STATE |-> "STATE_ACK", STOP |-> "STOP_ACK", RESTORE |-> "RESTORE_ACK"]
Acks     == [flag : AckTypes, to : 0 .. 255]
Packet   == [type : PktTypes, slot : 0 .. 255, slice : 0 .. 255]

Init ==
  /\ pc = "recv"
  /\ pkt = [type |-> "UNKNOWN", slot |-> 0, slice |-> 0]
  /\ statusArr = [s \in Slots |-> {}]
  /\ registerArr = [s \in Slots |-> FALSE]
  /\ RebootArr = [s \in Slots |-> 0]
  /\ hrReadynumbers = 0
  /\ hrBackupIndex = 0
  /\ rxtx = [p \in Ports |-> TRUE]
  /\ ackid = [p \in Ports |-> 0]
  /\ ackPkt = [flag |-> "none", to |-> 0]

-----------------------------------------------------------------------------
(* The dispatch of OnSocket.                                                *)

(* STATE: count the slice; a fresh one may also name the backup slot, a     *)
(* repeated one returns before Back_Flag is read.  Always acknowledged.     *)
OnState(s, i, back) ==
  /\ pc = "recv"
  /\ pkt' = [type |-> "STATE", slot |-> s, slice |-> i]
  /\ CountSlice(s, i)
  /\ hrBackupIndex' = IF Fresh(s, i) /\ back THEN s ELSE hrBackupIndex
  /\ pc' = "reply"
  /\ UNCHANGED <<ackPkt, registerArr, RebootArr, hwvars>>

(* STOP: forget the slices of the slot, register it, count a first request. *)
(* A slot with a port has it stopped; one without is acknowledged at once.  *)
OnStop(s, first) ==
  /\ pc = "recv"
  /\ first => RebootArr[s] < MaxReboot
  /\ pkt' = [type |-> "STOP", slot |-> s, slice |-> 0]
  /\ hrReadynumbers' = hrReadynumbers - Cardinality(statusArr[s])
  /\ statusArr' = [statusArr EXCEPT ![s] = {}]
  /\ registerArr' = [registerArr EXCEPT ![s] = TRUE]
  /\ RebootArr' = [RebootArr EXCEPT ![s] = IF first THEN @ + 1 ELSE @]
  /\ pc' = IF s \in MappedSlots THEN "disableWrite" ELSE "reply"
  /\ UNCHANGED <<ackPkt, hrBackupIndex, hwvars>>

(* RESTORE of a slot that is not registered: its port is left alone.        *)
OnRestoreRunning(s, i) ==
  /\ pc = "recv"
  /\ ~ registerArr[s]
  /\ pkt' = [type |-> "RESTORE", slot |-> s, slice |-> i]
  /\ CountSlice(s, i)
  /\ pc' = "reply"
  /\ UNCHANGED <<ackPkt, registerArr, RebootArr, hrBackupIndex, hwvars>>

(* Mutant: the slot stays registered.                                       *)
OnRestoreStoppedKept(s, i) ==
  /\ pc = "recv"
  /\ registerArr[s]
  /\ pkt' = [type |-> "RESTORE", slot |-> s, slice |-> i]
  /\ pc' = IF s \in MappedSlots THEN "enableWrite" ELSE "recv"
  /\ UNCHANGED <<ackPkt, hrvars, hwvars>>

(* RESTORE of a registered slot: unregister it, then open its port.  A slot *)
(* without a port is dropped here: not counted and not acknowledged.        *)
OnRestoreStopped(s, i) ==
  /\ pc = "recv"
  /\ registerArr[s]
  /\ pkt' = [type |-> "RESTORE", slot |-> s, slice |-> i]
  /\ registerArr' = [registerArr EXCEPT ![s] = FALSE]
  /\ pc' = IF s \in MappedSlots THEN "enableWrite" ELSE "recv"
  /\ UNCHANGED <<ackPkt, statusArr, hrReadynumbers, RebootArr, hrBackupIndex, hwvars>>

(* The packets that change nothing but NotifyPkt.                           *)
OnSilent(t) ==
  /\ pc = "recv"
  /\ pkt' = [pkt EXCEPT !.type = t]
  /\ UNCHANGED <<pc, ackPkt, hrvars, hwvars>>

-----------------------------------------------------------------------------
(* Register accesses on the port of the packet's slot.                      *)
CurPort == CheckSlotTable[pkt.slot]
CurChip == CurPort[1]

(* The outcomes an access to the current chip may have.                     *)
Outcomes == {ok \in BOOLEAN : IF ok THEN CurChip \notin Dead
                                    ELSE CurChip \in Dead \cup Flaky}

(* disable_1848_port_rxtx: write the register with both bits clear ...      *)
DisableWrite(ok) ==
  /\ pc = "disableWrite"
  /\ ok \in Outcomes
  /\ rxtx' = IF ok THEN [rxtx EXCEPT ![CurPort] = FALSE] ELSE rxtx
  /\ pc' = "disableRead"
  /\ UNCHANGED <<pkt, ackPkt, hrvars, ackid>>

(* Mutants: the STOP ends without reset_1848_ackid; the loop does not take  *)
(* the value of a failed read for cleared bits.                             *)
DisableReadNoReset(ok) ==
  /\ pc = "disableRead"
  /\ ok \in Outcomes
  /\ pc' = IF ok /\ rxtx[CurPort] THEN "disableWrite" ELSE "reply"
  /\ UNCHANGED <<pkt, ackPkt, hrvars, hwvars>>

DisableReadInsists(ok) ==
  /\ pc = "disableRead"
  /\ ok \in Outcomes
  /\ pc' = IF ok /\ ~ rxtx[CurPort] THEN "resetAckid" ELSE "disableWrite"
  /\ UNCHANGED <<pkt, ackPkt, hrvars, hwvars>>

(* ... and repeat until it reads back with both clear, which the 0xffff of  *)
(* a failed read does too.                                                  *)
DisableRead(ok) ==
  /\ pc = "disableRead"
  /\ ok \in Outcomes
  /\ pc' = IF ok /\ rxtx[CurPort] THEN "disableWrite" ELSE "resetAckid"
  /\ UNCHANGED <<pkt, ackPkt, hrvars, hwvars>>

(* reset_1848_ackid.                                                        *)
ResetAckid(ok) ==
  /\ pc = "resetAckid"
  /\ ok \in Outcomes
  /\ ackid' = IF ok THEN [ackid EXCEPT ![CurPort] = 0] ELSE ackid
  /\ pc' = "reply"
  /\ UNCHANGED <<pkt, ackPkt, hrvars, rxtx>>

(* enable_1848_port_rxtx: write the register with both bits set ...         *)
EnableWrite(ok) ==
  /\ pc = "enableWrite"
  /\ ok \in Outcomes
  /\ rxtx' = IF ok THEN [rxtx EXCEPT ![CurPort] = TRUE] ELSE rxtx
  /\ pc' = "enableRead"
  /\ UNCHANGED <<pkt, ackPkt, hrvars, ackid>>

(* Mutants: one attempt only; the slice of the RESTORE is not counted.      *)
EnableReadOnce(ok) ==
  /\ pc = "enableRead"
  /\ ok \in Outcomes
  /\ CountSlice(pkt.slot, pkt.slice)
  /\ pc' = "reply"
  /\ UNCHANGED <<pkt, ackPkt, registerArr, RebootArr, hrBackupIndex, hwvars>>

EnableReadUncounted(ok) ==
  /\ pc = "enableRead"
  /\ ok \in Outcomes
  /\ pc' = IF ok /\ rxtx[CurPort] THEN "reply" ELSE "enableWrite"
  /\ UNCHANGED <<pkt, ackPkt, hrvars, hwvars>>

(* ... and repeat until it reads back with both set: the 0xffff of a failed *)
(* read has them clear.  Only then is the slice of the RESTORE counted.     *)
EnableRead(ok) ==
  /\ pc = "enableRead"
  /\ ok \in Outcomes
  /\ IF ok /\ rxtx[CurPort]
     THEN CountSlice(pkt.slot, pkt.slice) /\ pc' = "reply"
     ELSE UNCHANGED <<statusArr, hrReadynumbers>> /\ pc' = "enableWrite"
  /\ UNCHANGED <<pkt, ackPkt, registerArr, RebootArr, hrBackupIndex, hwvars>>

(* sendReplyAckPkt, to the sender of the packet.  A lost acknowledgement is *)
(* indistinguishable, here, from a board that ignores it.                   *)
Reply ==
  /\ pc = "reply"
  /\ ackPkt' = [flag |-> AckOf[pkt.type], to |-> pkt.slot]
  /\ pc' = "recv"
  /\ UNCHANGED <<pkt, hrvars, hwvars>>

(* The link of an enabled port carries packets: its ackid moves on.         *)
Traffic(p) ==
  /\ rxtx[p]
  /\ ackid' = [ackid EXCEPT ![p] = 1]
  /\ UNCHANGED <<pc, pkt, ackPkt, hrvars, rxtx>>

-----------------------------------------------------------------------------
Receive ==
  \/ \E s \in SlotBytes, i \in SliceBytes, back \in BOOLEAN : OnState(s, i, back)
  \/ \E s \in Boards, first \in BOOLEAN : OnStop(s, first)
  \/ \E s \in Boards, i \in SliceBytes : OnRestoreRunning(s, i)
  \/ \E s \in Boards, i \in SliceBytes : OnRestoreStopped(s, i)
  \/ \E t \in Silent : OnSilent(t)

Handle ==
  \/ \E ok \in BOOLEAN : DisableWrite(ok)
  \/ \E ok \in BOOLEAN : DisableRead(ok)
  \/ \E ok \in BOOLEAN : ResetAckid(ok)
  \/ \E ok \in BOOLEAN : EnableWrite(ok)
  \/ \E ok \in BOOLEAN : EnableRead(ok)
  \/ Reply

Next == Receive \/ Handle \/ \E p \in Ports : Traffic(p)

(* The thread keeps running once it has a packet, and a chip that works     *)
(* now and then answers in the end; nobody has to send packets.             *)
Fairness ==
  /\ WF_vars(Handle)
  /\ SF_vars(DisableWrite(TRUE))
  /\ SF_vars(EnableWrite(TRUE))
  /\ SF_vars(EnableRead(TRUE))

Spec     == Init /\ [][Next]_vars
FairSpec == Spec /\ Fairness

-----------------------------------------------------------------------------
(* Properties.                                                              *)

Steps == {"recv", "disableWrite", "disableRead", "resetAckid",
          "enableWrite", "enableRead", "reply"}

(* The state of the protocol is well formed.                                *)
TypeOK ==
  /\ pc \in Steps
  /\ pkt \in Packet
  /\ statusArr \in [Slots -> SUBSET Slices]
  /\ registerArr \in [Slots -> BOOLEAN]
  /\ RebootArr \in [Slots -> 0 .. MaxReboot]
  /\ hrReadynumbers \in Int
  /\ hrBackupIndex \in 0 .. SLOTINDEXMAX
  /\ rxtx \in [Ports -> BOOLEAN]
  /\ ackid \in [Ports -> 0 .. 1]
  /\ ackPkt \in Acks

ReadySlices == {x \in Slots \X Slices : x[2] \in statusArr[x[1]]}

(* hrReadynumbers, kept by increments in two handlers and decrements in a   *)
(* third (udp_fun.c:77, udp_net.c:103, 149), is at all times the number of  *)
(* slices marked in statusArr, whatever packets are lost, repeated or out   *)
(* of order.                                                                *)
ReadyCountExact == hrReadynumbers = Cardinality(ReadySlices)

(* The slot has a port on a chip whose accesses never fail.                 *)
Reliable(s) == /\ s \in MappedSlots \cap Boards
               /\ CheckSlotTable[s][1] \notin Dead \cup Flaky

PortUp(s) == rxtx[CheckSlotTable[s]]

(* The port of a slot lags its registration only while the thread is        *)
(* between registering it and writing the register.                         *)
Pending(s) == pkt.slot = s /\ pc \in {"disableWrite", "enableWrite"}

(* registerArr, which decides whether a RESTORE opens the port              *)
(* (udp_net.c:136), always agrees with what the hardware port is: a slot is *)
(* registered exactly when its port is closed, for chips that answer.       *)
PortFollowsRegister ==
  \A s \in MappedSlots \cap Boards :
    Reliable(s) /\ ~ Pending(s) => (PortUp(s) <=> ~ registerArr[s])

(* The retry loop of enable_1848_port_rxtx (iic_srio1848.c:928) makes it    *)
(* robust: even on a chip whose accesses fail, a board that is not          *)
(* registered has its port open whenever the thread waits for a packet.     *)
RestoredPortUp ==
  \A s \in MappedSlots \cap Boards :
    pc = "recv" /\ ~ registerArr[s] => PortUp(s)

(* The port is closed before its ackid is reset (udp_net.c:126-128): the    *)
(* ackid of a stopped link stays 0 until it is restored, although the link  *)
(* was carrying packets during the handling of the STOP.                    *)
StoppedLinkQuiet ==
  \A s \in MappedSlots \cap Boards :
    /\ Reliable(s) /\ registerArr[s]
    /\ ~ (pkt.slot = s /\ pc \in {"disableWrite", "disableRead", "resetAckid"})
    => ackid[CheckSlotTable[s]] = 0

(* What an acknowledgement means when it leaves: after a STOP no slice of   *)
(* the board is counted and its port is closed with its ackid reset; after  *)
(* a RESTORE the slice is counted and its port is open.                     *)
AckMeansDone ==
  pc = "reply" =>
    /\ pkt.type = "STOP" =>
         /\ registerArr[pkt.slot] /\ statusArr[pkt.slot] = {}
         /\ Reliable(pkt.slot) => ~ PortUp(pkt.slot) /\ ackid[CurPort] = 0
    /\ pkt.type = "RESTORE" =>
         /\ ~ registerArr[pkt.slot]
         /\ pkt.slice \in Slices => pkt.slice \in statusArr[pkt.slot]
         /\ pkt.slot \in MappedSlots => PortUp(pkt.slot)

(* The inductive invariant: what the thread knows of its packet at each     *)
(* step, and the port properties extended to the middle of the handlers.    *)
HandlerOK ==
  /\ pc \in {"disableWrite", "disableRead", "resetAckid"} =>
       /\ pkt.type = "STOP" /\ pkt.slot \in MappedSlots \cap Boards
       /\ registerArr[pkt.slot] /\ statusArr[pkt.slot] = {}
  /\ pc \in {"enableWrite", "enableRead"} =>
       /\ pkt.type = "RESTORE" /\ pkt.slot \in MappedSlots \cap Boards
       /\ ~ registerArr[pkt.slot]
  /\ pc = "reply" =>
       /\ pkt.type \in DOMAIN AckOf
       /\ pkt.type \in {"STOP", "RESTORE"} => pkt.slot \in Boards

OpenUnlessStopped ==
  \A s \in MappedSlots \cap Boards :
    /\ ~ registerArr[s]
    /\ ~ (pkt.slot = s /\ pc \in {"enableWrite", "enableRead"})
    => PortUp(s)

IInv ==
  /\ TypeOK /\ HandlerOK
  /\ ReadyCountExact
  /\ PortFollowsRegister /\ OpenUnlessStopped
  /\ StoppedLinkQuiet
  /\ AckMeansDone

(* A ready slice is forgotten only by a STOP of its board, and the step     *)
(* that forgets it registers the board.                                     *)
ForgetOnlyStopped ==
  [][\A x \in ReadySlices :
       x \notin ReadySlices' => registerArr'[x[1]] /\ pkt'.type = "STOP"]_vars

(* The thread always comes back for the next packet, unless it is in        *)
(* enable_1848_port_rxtx on a chip that does not answer: that loop has no   *)
(* bound, and the thread serves nobody any more.                            *)
ThreadServes ==
  \/ []<>(pc = "recv")
  \/ <>[](pc \in {"enableWrite", "enableRead"} /\ CurChip \in Dead)

(* The handler implements the registry of HrRegistry: a reliable port is a  *)
(* link, every step of the thread is a step of the registry or invisible to *)
(* it, and acknowledgements are only sent for work that is done.            *)
Registry ==
  INSTANCE HrRegistry WITH
    Linked  <- {s \in Slots : Reliable(s)},
    ready   <- ReadySlices,
    count   <- hrReadynumbers,
    stopped <- {s \in Slots : registerArr[s]},
    up      <- {s \in Slots : Reliable(s) /\ PortUp(s)},
    ack     <- ackPkt

ImplementsRegistry == Registry!Spec
=============================================================================
