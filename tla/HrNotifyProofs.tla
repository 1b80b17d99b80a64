--------------------------- MODULE HrNotifyProofs ---------------------------
(***************************************************************************)
(* Theorems about HrNotify, for every set of boards, every set of packet   *)
(* bytes and every set of dead and of flaky chips.                         *)
(***************************************************************************)
EXTENDS HrNotify, FiniteSetTheorems, TLAPS

-----------------------------------------------------------------------------
(* The slot table.                                                          *)

(* No two slots share a port (CheckSlotTable, udp_fun.c:172): stopping one  *)
(* board never closes the link of another.                                  *)
LEMMA SlotTableInjective ==
  ASSUME NEW s \in MappedSlots, NEW t \in MappedSlots,
         CheckSlotTable[s] = CheckSlotTable[t]
  PROVE  s = t
BY DEF MappedSlots, CheckSlotTable

(* The port of a slot is a port of the model, on one of the two chips.      *)
LEMMA SlotTableType ==
  ASSUME NEW s \in MappedSlots \cap Boards
  PROVE  /\ CheckSlotTable[s] \in Ports
         /\ CheckSlotTable[s][1] \in Chips
<1>1. CheckSlotTable[s] \in Ports
  BY DEF Ports
<1>2. \A t \in MappedSlots : CheckSlotTable[t][1] \in {0, 1}
  BY DEF MappedSlots, CheckSlotTable
<1> QED
  BY <1>1, <1>2 DEF Chips

-----------------------------------------------------------------------------
(* Counting.                                                                *)

(* The pairs a status table marks, and how their number changes when one    *)
(* slice is added and when a slot is cleared.                               *)
Marked(f) == {x \in Slots \X Slices : x[2] \in f[x[1]]}

LEMMA MarkedFinite ==
  ASSUME NEW f
  PROVE  IsFiniteSet(Marked(f)) /\ Cardinality(Marked(f)) \in Nat
<1>1. IsFiniteSet(Slots) /\ IsFiniteSet(Slices)
  <2>1. IsFiniteSet(1 .. 12) /\ IsFiniteSet(1 .. 4)
    BY FS_Interval, 1 \in Int, 4 \in Int, 12 \in Int
  <2> QED
    BY <2>1 DEF Slots, Slices, SLOTINDEXMAX, SLICEIDMAX
<1>2. IsFiniteSet(Slots \X Slices)
  BY <1>1, FS_Product
<1>3. Marked(f) \in SUBSET (Slots \X Slices)
  BY DEF Marked
<1>4. IsFiniteSet(Marked(f))
  BY <1>2, <1>3, FS_Subset
<1> QED
  BY <1>4, FS_CardinalityType

LEMMA MarkOne ==
  ASSUME NEW f \in [Slots -> SUBSET Slices],
         NEW s \in Slots, NEW i \in Slices, i \notin f[s]
  PROVE  Cardinality(Marked([f EXCEPT ![s] = @ \cup {i}]))
           = Cardinality(Marked(f)) + 1
<1> DEFINE g == [f EXCEPT ![s] = @ \cup {i}]
<1>1. Marked(g) = Marked(f) \cup {<<s, i>>}
  BY DEF Marked
<1>2. <<s, i>> \notin Marked(f)
  BY DEF Marked
<1> QED
  BY <1>1, <1>2, MarkedFinite, FS_AddElement

LEMMA ClearSlot ==
  ASSUME NEW f \in [Slots -> SUBSET Slices], NEW s \in Slots
  PROVE  Cardinality(Marked([f EXCEPT ![s] = {}]))
           = Cardinality(Marked(f)) - Cardinality(f[s])
<1> DEFINE g == [f EXCEPT ![s] = {}]
           P == {s} \X f[s]
<1>1. Marked(g) = Marked(f) \ P
  BY DEF Marked
<1>2. P \subseteq Marked(f)
  BY DEF Marked
<1>3. IsFiniteSet(f[s]) /\ Cardinality(f[s]) \in Nat
  <2>1. IsFiniteSet(Slices)
    BY FS_Interval, 1 \in Int, 4 \in Int DEF Slices, SLICEIDMAX
  <2> QED
    BY <2>1, FS_Subset, FS_CardinalityType
<1>4. Cardinality(P) = Cardinality(f[s])
  <2>1. IsFiniteSet({s}) /\ Cardinality({s}) = 1
    BY FS_Singleton
  <2>2. Cardinality(P) = 1 * Cardinality(f[s])
    BY <1>3, <2>1, FS_Product
  <2> QED
    BY <1>3, <2>2
<1>5. Cardinality(Marked(f) \ P) = Cardinality(Marked(f)) - Cardinality(Marked(f) \cap P)
  BY MarkedFinite, FS_Difference
<1>6. Marked(f) \cap P = P
  BY <1>2
<1> QED
  BY <1>1, <1>4, <1>5, <1>6

(* CountSlice keeps the types and the count.                                *)
LEMMA CountSliceKeeps ==
  ASSUME NEW s \in 0 .. 255, NEW i \in 0 .. 255, CountSlice(s, i),
         statusArr \in [Slots -> SUBSET Slices], hrReadynumbers \in Int
  PROVE  /\ statusArr' \in [Slots -> SUBSET Slices]
         /\ hrReadynumbers' \in Int
         /\ ReadyCountExact => ReadyCountExact'
         /\ \A t \in Slots : statusArr[t] \subseteq statusArr'[t]
         /\ s \in Slots /\ i \in Slices => i \in statusArr'[s]
<1>1. CASE Fresh(s, i)
  <2>1. statusArr' = [statusArr EXCEPT ![s] = @ \cup {i}]
    BY <1>1 DEF CountSlice
  <2>2. s \in Slots /\ i \in Slices /\ i \notin statusArr[s]
    BY <1>1 DEF Fresh
  <2>3. Cardinality(Marked(statusArr')) = Cardinality(Marked(statusArr)) + 1
    BY <2>1, <2>2, MarkOne
  <2> QED
    BY <1>1, <2>1, <2>2, <2>3 DEF CountSlice, Fresh, ReadyCountExact, ReadySlices, Marked
<1>2. CASE ~ Fresh(s, i)
  BY <1>2 DEF CountSlice, Fresh, ReadyCountExact, ReadySlices
<1> QED
  BY <1>1, <1>2

-----------------------------------------------------------------------------
(* The types.                                                               *)

(* Where the thread accesses a register, it is that of a port of the model. *)
LEMMA CurPortType ==
  ASSUME HandlerOK,
         pc \in {"disableWrite", "disableRead", "resetAckid",
                 "enableWrite", "enableRead"}
  PROVE  /\ pkt.slot \in MappedSlots \cap Boards
         /\ CurPort \in Ports
<1>1. pkt.slot \in MappedSlots \cap Boards
  BY DEF HandlerOK
<1> QED
  BY <1>1, SlotTableType DEF CurPort

LEMMA TypeInit ==
  ASSUME Init
  PROVE  TypeOK /\ HandlerOK
BY BoundAssumption
   DEF Init, TypeOK, HandlerOK, Steps, Packet, PktTypes, AckTypes, Acks, SLOTINDEXMAX

LEMMA TypeStep ==
  ASSUME TypeOK, HandlerOK, [Next]_vars
  PROVE  TypeOK' /\ HandlerOK'
<1> USE DEF TypeOK, Steps, Packet
<1>0. Boards \subseteq Slots /\ Slots \subseteq 0 .. 255 /\ MaxReboot \in Nat
  BY BoardsAssumption, BoundAssumption DEF Slots, SLOTINDEXMAX
<1>1. ASSUME NEW s \in SlotBytes, NEW i \in SliceBytes, NEW back \in BOOLEAN,
             OnState(s, i, back)
      PROVE  TypeOK' /\ HandlerOK'
  <2>1. s \in 0 .. 255 /\ i \in 0 .. 255
    BY BytesAssumption
  <2>2. statusArr' \in [Slots -> SUBSET Slices] /\ hrReadynumbers' \in Int
    BY <1>1, <2>1, CountSliceKeeps DEF OnState
  <2>3. hrBackupIndex' \in 0 .. SLOTINDEXMAX
    BY <1>1 DEF OnState, Fresh, Slots, SLOTINDEXMAX
  <2>4. pkt' = [type |-> "STATE", slot |-> s, slice |-> i] /\ pc' = "reply"
        /\ UNCHANGED <<ackPkt, registerArr, RebootArr, rxtx, ackid>>
    BY <1>1 DEF OnState, hwvars
  <2>5. pkt' \in Packet /\ pkt'.type = "STATE"
    BY <2>1, <2>4 DEF PktTypes
  <2>6. HandlerOK'
    BY <2>4, <2>5 DEF HandlerOK, AckOf
  <2> QED
    BY <2>2, <2>3, <2>4, <2>5, <2>6
<1>2. ASSUME NEW s \in Boards, NEW first \in BOOLEAN, OnStop(s, first)
      PROVE  TypeOK' /\ HandlerOK'
  <2>1. s \in Slots /\ s \in 0 .. 255
    BY <1>0
  <2>2. hrReadynumbers' \in Int
    <3>1. Cardinality(statusArr[s]) \in Nat
      <4>1. IsFiniteSet(Slices)
        BY FS_Interval, 1 \in Int, 4 \in Int DEF Slices, SLICEIDMAX
      <4> QED
        BY <2>1, <4>1, FS_Subset, FS_CardinalityType
    <3> QED
      BY <1>2, <3>1 DEF OnStop
  <2>3. RebootArr' \in [Slots -> 0 .. MaxReboot]
    BY <1>0, <1>2, <2>1 DEF OnStop
  <2>4. /\ statusArr' = [statusArr EXCEPT ![s] = {}]
        /\ registerArr' = [registerArr EXCEPT ![s] = TRUE]
        /\ pkt' = [type |-> "STOP", slot |-> s, slice |-> 0]
        /\ pc' = IF s \in MappedSlots THEN "disableWrite" ELSE "reply"
        /\ UNCHANGED <<ackPkt, hrBackupIndex, rxtx, ackid>>
    BY <1>2 DEF OnStop, hwvars
  <2>5. pkt' \in Packet /\ pkt'.type = "STOP" /\ pkt'.slot = s
    BY <2>1, <2>4 DEF PktTypes
  <2>6. HandlerOK'
    BY <2>1, <2>4, <2>5 DEF HandlerOK, AckOf
  <2> QED
    BY <2>1, <2>2, <2>3, <2>4, <2>5, <2>6
<1>3. ASSUME NEW s \in Boards, NEW i \in SliceBytes, OnRestoreRunning(s, i)
      PROVE  TypeOK' /\ HandlerOK'
  <2>1. s \in 0 .. 255 /\ i \in 0 .. 255
    BY <1>0, BytesAssumption
  <2>2. statusArr' \in [Slots -> SUBSET Slices] /\ hrReadynumbers' \in Int
    BY <1>3, <2>1, CountSliceKeeps DEF OnRestoreRunning
  <2>3. pkt' = [type |-> "RESTORE", slot |-> s, slice |-> i] /\ pc' = "reply"
        /\ UNCHANGED <<ackPkt, registerArr, RebootArr, hrBackupIndex, rxtx, ackid>>
    BY <1>3 DEF OnRestoreRunning, hwvars
  <2>4. pkt' \in Packet /\ pkt'.type = "RESTORE" /\ pkt'.slot = s
    BY <2>1, <2>3 DEF PktTypes
  <2>5. HandlerOK'
    BY <2>3, <2>4 DEF HandlerOK, AckOf
  <2> QED
    BY <2>2, <2>3, <2>4, <2>5
<1>4. ASSUME NEW s \in Boards, NEW i \in SliceBytes, OnRestoreStopped(s, i)
      PROVE  TypeOK' /\ HandlerOK'
  <2>1. s \in Slots /\ s \in 0 .. 255 /\ i \in 0 .. 255
    BY <1>0, BytesAssumption
  <2>2. /\ pkt' = [type |-> "RESTORE", slot |-> s, slice |-> i]
        /\ registerArr' = [registerArr EXCEPT ![s] = FALSE]
        /\ pc' = IF s \in MappedSlots THEN "enableWrite" ELSE "recv"
        /\ UNCHANGED <<ackPkt, statusArr, hrReadynumbers, RebootArr,
                       hrBackupIndex, rxtx, ackid>>
    BY <1>4 DEF OnRestoreStopped, hwvars
  <2>3. pkt' \in Packet /\ pkt'.type = "RESTORE" /\ pkt'.slot = s
    BY <2>1, <2>2 DEF PktTypes
  <2>4. HandlerOK'
    BY <2>1, <2>2, <2>3 DEF HandlerOK, AckOf
  <2> QED
    BY <2>1, <2>2, <2>3, <2>4
<1>5. ASSUME NEW t \in Silent, OnSilent(t)
      PROVE  TypeOK' /\ HandlerOK'
  <2>1. t \in PktTypes
    BY DEF Silent, PktTypes
  <2> QED
    BY <1>5, <2>1 DEF OnSilent, hrvars, hwvars, HandlerOK
<1>6. ASSUME NEW ok \in BOOLEAN, DisableWrite(ok)
      PROVE  TypeOK' /\ HandlerOK'
  <2>1. CurPort \in Ports
    BY <1>6, CurPortType DEF DisableWrite
  <2> QED
    BY <1>6, <2>1 DEF DisableWrite, hrvars, HandlerOK
<1>7. ASSUME NEW ok \in BOOLEAN, DisableRead(ok)
      PROVE  TypeOK' /\ HandlerOK'
  BY <1>7 DEF DisableRead, hrvars, hwvars, HandlerOK
<1>8. ASSUME NEW ok \in BOOLEAN, ResetAckid(ok)
      PROVE  TypeOK' /\ HandlerOK'
  <2>1. CurPort \in Ports
    BY <1>8, CurPortType DEF ResetAckid
  <2> QED
    BY <1>8, <2>1 DEF ResetAckid, hrvars, HandlerOK, AckOf
<1>9. ASSUME NEW ok \in BOOLEAN, EnableWrite(ok)
      PROVE  TypeOK' /\ HandlerOK'
  <2>1. CurPort \in Ports
    BY <1>9, CurPortType DEF EnableWrite
  <2> QED
    BY <1>9, <2>1 DEF EnableWrite, hrvars, HandlerOK
<1>10. ASSUME NEW ok \in BOOLEAN, EnableRead(ok)
       PROVE  TypeOK' /\ HandlerOK'
  <2>1. CASE ok /\ rxtx[CurPort]
    <3>1. CountSlice(pkt.slot, pkt.slice) /\ pc' = "reply"
      BY <1>10, <2>1 DEF EnableRead
    <3>2. statusArr' \in [Slots -> SUBSET Slices] /\ hrReadynumbers' \in Int
      BY <3>1, CountSliceKeeps
    <3>3. UNCHANGED <<pkt, ackPkt, registerArr, RebootArr, hrBackupIndex, rxtx, ackid>>
      BY <1>10 DEF EnableRead, hwvars
    <3>4. pkt.type = "RESTORE" /\ pkt.slot \in Boards
      BY <1>10 DEF EnableRead, HandlerOK
    <3>5. HandlerOK'
      BY <3>1, <3>3, <3>4 DEF HandlerOK, AckOf
    <3> QED
      BY <3>1, <3>2, <3>3, <3>5
  <2>2. CASE ~ (ok /\ rxtx[CurPort])
    BY <1>10, <2>2 DEF EnableRead, hwvars, HandlerOK
  <2> QED
    BY <2>1, <2>2
<1>11. ASSUME Reply
       PROVE  TypeOK' /\ HandlerOK'
  <2>1. ackPkt' \in Acks
    BY <1>11 DEF Reply, HandlerOK, AckOf, AckTypes, Acks, TypeOK, Packet
  <2> QED
    BY <1>11, <2>1 DEF Reply, hrvars, hwvars, HandlerOK
<1>12. ASSUME NEW p \in Ports, Traffic(p)
       PROVE  TypeOK' /\ HandlerOK'
  BY <1>12 DEF Traffic, hrvars, HandlerOK
<1>13. ASSUME UNCHANGED vars
       PROVE  TypeOK' /\ HandlerOK'
  BY <1>13 DEF vars, hrvars, hwvars, HandlerOK
<1> QED
  BY <1>1, <1>2, <1>3, <1>4, <1>5, <1>6, <1>7, <1>8, <1>9, <1>10, <1>11, <1>12, <1>13
     DEF Next, Receive, Handle

-----------------------------------------------------------------------------
(* The count.                                                               *)

LEMMA CountStep ==
  ASSUME TypeOK, HandlerOK, ReadyCountExact, [Next]_vars
  PROVE  ReadyCountExact'
<1> USE DEF TypeOK
<1>1. Boards \subseteq Slots /\ Slots \subseteq 0 .. 255
  BY BoardsAssumption DEF Slots, SLOTINDEXMAX
<1>2. ASSUME NEW s \in 0 .. 255, NEW i \in 0 .. 255, CountSlice(s, i)
      PROVE  ReadyCountExact'
  BY <1>2, CountSliceKeeps
<1>3. ASSUME NEW s \in Boards, NEW first \in BOOLEAN, OnStop(s, first)
      PROVE  ReadyCountExact'
  <2>1. Cardinality(Marked(statusArr')) = Cardinality(Marked(statusArr)) - Cardinality(statusArr[s])
    BY <1>1, <1>3, ClearSlot DEF OnStop
  <2>2. hrReadynumbers' = hrReadynumbers - Cardinality(statusArr[s])
    BY <1>3 DEF OnStop
  <2> QED
    BY <2>1, <2>2 DEF ReadyCountExact, ReadySlices, Marked
<1>4. CASE UNCHANGED <<statusArr, hrReadynumbers>>
  BY <1>4 DEF ReadyCountExact, ReadySlices
<1>5. ASSUME NEW s \in SlotBytes, NEW i \in SliceBytes, NEW back \in BOOLEAN,
             OnState(s, i, back)
      PROVE  ReadyCountExact'
  BY <1>2, <1>5, BytesAssumption DEF OnState
<1>6. ASSUME NEW s \in Boards, NEW i \in SliceBytes, OnRestoreRunning(s, i)
      PROVE  ReadyCountExact'
  BY <1>1, <1>2, <1>6, BytesAssumption DEF OnRestoreRunning
<1>7. ASSUME NEW ok \in BOOLEAN, EnableRead(ok)
      PROVE  ReadyCountExact'
  <2>1. pkt.slot \in 0 .. 255 /\ pkt.slice \in 0 .. 255
    BY DEF Packet
  <2> QED
    BY <1>2, <1>4, <1>7, <2>1 DEF EnableRead
<1> QED
  BY <1>3, <1>4, <1>5, <1>6, <1>7
     DEF Next, Receive, Handle, vars, hrvars, OnRestoreStopped, OnSilent,
         DisableWrite, DisableRead, ResetAckid, EnableWrite, Reply, Traffic

-----------------------------------------------------------------------------
(* The ports.                                                               *)

(* A chip that never fails lets every access succeed.                       *)
LEMMA ReliableAccess ==
  ASSUME Reliable(pkt.slot), NEW ok \in BOOLEAN, ok \in Outcomes
  PROVE  ok
BY DEF Reliable, Outcomes, CurChip, CurPort

LEMMA PortsStep ==
  ASSUME TypeOK, HandlerOK, PortFollowsRegister, OpenUnlessStopped, [Next]_vars
  PROVE  PortFollowsRegister' /\ OpenUnlessStopped'
<1> USE DEF PortFollowsRegister, OpenUnlessStopped, Pending, PortUp, Reliable
<1>1. MappedSlots \cap Boards \subseteq Slots
  BY BoardsAssumption
<1>2. \A s, t \in MappedSlots : CheckSlotTable[s] = CheckSlotTable[t] => s = t
  BY SlotTableInjective
<1>3. \A s \in MappedSlots \cap Boards : CheckSlotTable[s] \in Ports
  BY SlotTableType
<1>4. CASE /\ UNCHANGED <<registerArr, rxtx>>
           /\ pc = "recv" /\ pc' \in {"recv", "reply"}
  BY <1>4
<1>5. CASE UNCHANGED <<pc, pkt, registerArr, rxtx>>
  BY <1>5
<1>6. ASSUME NEW s \in Boards, NEW first \in BOOLEAN, OnStop(s, first)
      PROVE  PortFollowsRegister' /\ OpenUnlessStopped'
  <2>1. /\ pc = "recv" /\ pkt'.slot = s /\ rxtx' = rxtx
        /\ registerArr' = [registerArr EXCEPT ![s] = TRUE]
        /\ pc' = IF s \in MappedSlots THEN "disableWrite" ELSE "reply"
    BY <1>6 DEF OnStop, hwvars
  <2>2. s \in Slots /\ registerArr \in [Slots -> BOOLEAN]
    BY BoardsAssumption DEF TypeOK
  <2> QED
    BY <1>1, <2>1, <2>2
<1>7. ASSUME NEW s \in Boards, NEW i \in SliceBytes, OnRestoreStopped(s, i)
      PROVE  PortFollowsRegister' /\ OpenUnlessStopped'
  <2>1. /\ pc = "recv" /\ pkt'.slot = s /\ rxtx' = rxtx
        /\ registerArr' = [registerArr EXCEPT ![s] = FALSE]
        /\ pc' = IF s \in MappedSlots THEN "enableWrite" ELSE "recv"
    BY <1>7 DEF OnRestoreStopped, hwvars
  <2>2. s \in Slots /\ registerArr \in [Slots -> BOOLEAN]
    BY BoardsAssumption DEF TypeOK
  <2> QED
    BY <1>1, <2>1, <2>2
<1>8. ASSUME NEW ok \in BOOLEAN, DisableWrite(ok)
      PROVE  PortFollowsRegister' /\ OpenUnlessStopped'
  <2>1. /\ pc = "disableWrite" /\ pc' = "disableRead"
        /\ UNCHANGED <<pkt, registerArr>>
        /\ rxtx' = IF ok THEN [rxtx EXCEPT ![CurPort] = FALSE] ELSE rxtx
    BY <1>8 DEF DisableWrite, hrvars
  <2>2. pkt.slot \in MappedSlots \cap Boards /\ registerArr[pkt.slot]
    BY <2>1 DEF HandlerOK
  <2>3. CurPort = CheckSlotTable[pkt.slot] /\ CurPort \in Ports
    BY <1>3, <2>2 DEF CurPort
  <2>4. \A t \in MappedSlots \cap Boards :
          t # pkt.slot => rxtx'[CheckSlotTable[t]] = rxtx[CheckSlotTable[t]]
    BY <1>2, <1>3, <2>1, <2>2, <2>3 DEF TypeOK
  <2>5. Reliable(pkt.slot) => ~ rxtx'[CurPort]
    <3>1. Reliable(pkt.slot) => ok
      BY <1>8, ReliableAccess DEF DisableWrite
    <3> QED
      BY <2>1, <2>3, <3>1 DEF TypeOK
  <2> QED
    BY <2>1, <2>2, <2>3, <2>4, <2>5
<1>9. ASSUME NEW ok \in BOOLEAN, DisableRead(ok)
      PROVE  PortFollowsRegister' /\ OpenUnlessStopped'
  <2>1. /\ pc = "disableRead" /\ pc' \in {"disableWrite", "resetAckid"}
        /\ UNCHANGED <<pkt, registerArr, rxtx>>
    BY <1>9 DEF DisableRead, hrvars, hwvars
  <2> QED
    BY <2>1
<1>10. ASSUME NEW ok \in BOOLEAN, ResetAckid(ok)
       PROVE  PortFollowsRegister' /\ OpenUnlessStopped'
  <2>1. /\ pc = "resetAckid" /\ pc' = "reply"
        /\ UNCHANGED <<pkt, registerArr, rxtx>>
    BY <1>10 DEF ResetAckid, hrvars
  <2> QED
    BY <2>1
<1>11. ASSUME NEW ok \in BOOLEAN, EnableWrite(ok)
       PROVE  PortFollowsRegister' /\ OpenUnlessStopped'
  <2>1. /\ pc = "enableWrite" /\ pc' = "enableRead"
        /\ UNCHANGED <<pkt, registerArr>>
        /\ rxtx' = IF ok THEN [rxtx EXCEPT ![CurPort] = TRUE] ELSE rxtx
    BY <1>11 DEF EnableWrite, hrvars
  <2>2. pkt.slot \in MappedSlots \cap Boards /\ ~ registerArr[pkt.slot]
    BY <2>1 DEF HandlerOK
  <2>3. CurPort = CheckSlotTable[pkt.slot] /\ CurPort \in Ports
    BY <1>3, <2>2 DEF CurPort
  <2>4. \A t \in MappedSlots \cap Boards :
          t # pkt.slot => rxtx'[CheckSlotTable[t]] = rxtx[CheckSlotTable[t]]
    BY <1>2, <1>3, <2>1, <2>2, <2>3 DEF TypeOK
  <2>5. Reliable(pkt.slot) => rxtx'[CurPort]
    <3>1. Reliable(pkt.slot) => ok
      BY <1>11, ReliableAccess DEF EnableWrite
    <3> QED
      BY <2>1, <2>3, <3>1 DEF TypeOK
  <2> QED
    BY <2>1, <2>2, <2>3, <2>4, <2>5
<1>12. ASSUME NEW ok \in BOOLEAN, EnableRead(ok)
       PROVE  PortFollowsRegister' /\ OpenUnlessStopped'
  <2>1. /\ pc = "enableRead"
        /\ pc' = IF ok /\ rxtx[CurPort] THEN "reply" ELSE "enableWrite"
        /\ UNCHANGED <<pkt, registerArr, rxtx>>
    BY <1>12 DEF EnableRead, hwvars
  <2>2. CurPort = CheckSlotTable[pkt.slot]
    BY DEF CurPort
  <2> QED
    BY <2>1, <2>2
<1>13. ASSUME Reply
       PROVE  PortFollowsRegister' /\ OpenUnlessStopped'
  BY <1>13 DEF Reply, hrvars, hwvars
<1> QED
  BY <1>4, <1>5, <1>6, <1>7, <1>8, <1>9, <1>10, <1>11, <1>12, <1>13
     DEF Next, Receive, Handle, vars, hrvars, hwvars, OnState, OnRestoreRunning,
         OnSilent, Traffic

-----------------------------------------------------------------------------
(* The ackid of a stopped link.                                             *)

LEMMA QuietStep ==
  ASSUME TypeOK, HandlerOK, PortFollowsRegister, StoppedLinkQuiet, [Next]_vars
  PROVE  StoppedLinkQuiet'
<1> USE DEF StoppedLinkQuiet, Reliable
<1>1. MappedSlots \cap Boards \subseteq Slots
  BY BoardsAssumption
<1>2. \A s, t \in MappedSlots : CheckSlotTable[s] = CheckSlotTable[t] => s = t
  BY SlotTableInjective
<1>3. \A s \in MappedSlots \cap Boards : CheckSlotTable[s] \in Ports
  BY SlotTableType
<1>4. CASE /\ UNCHANGED <<registerArr, ackid>>
           /\ pc = "recv" /\ pc' \in {"recv", "reply"}
  BY <1>4
<1>5. CASE UNCHANGED <<pc, pkt, registerArr, ackid>>
  BY <1>5
<1>6. ASSUME NEW s \in Boards, NEW first \in BOOLEAN, OnStop(s, first)
      PROVE  StoppedLinkQuiet'
  <2>1. /\ pc = "recv" /\ pkt'.slot = s /\ ackid' = ackid
        /\ registerArr' = [registerArr EXCEPT ![s] = TRUE]
        /\ pc' = IF s \in MappedSlots THEN "disableWrite" ELSE "reply"
    BY <1>6 DEF OnStop, hwvars
  <2>2. s \in Slots /\ registerArr \in [Slots -> BOOLEAN]
    BY BoardsAssumption DEF TypeOK
  <2> QED
    BY <1>1, <2>1, <2>2
<1>7. ASSUME NEW s \in Boards, NEW i \in SliceBytes, OnRestoreStopped(s, i)
      PROVE  StoppedLinkQuiet'
  <2>1. /\ pc = "recv" /\ ackid' = ackid
        /\ registerArr' = [registerArr EXCEPT ![s] = FALSE]
        /\ pc' \in {"enableWrite", "recv"}
    BY <1>7 DEF OnRestoreStopped, hwvars
  <2>2. s \in Slots /\ registerArr \in [Slots -> BOOLEAN]
    BY BoardsAssumption DEF TypeOK
  <2> QED
    BY <1>1, <2>1, <2>2
<1>8. ASSUME NEW ok \in BOOLEAN, ResetAckid(ok)
      PROVE  StoppedLinkQuiet'
  <2>1. /\ pc = "resetAckid" /\ pc' = "reply"
        /\ UNCHANGED <<pkt, registerArr>>
        /\ ackid' = IF ok THEN [ackid EXCEPT ![CurPort] = 0] ELSE ackid
    BY <1>8 DEF ResetAckid, hrvars
  <2>2. pkt.slot \in MappedSlots \cap Boards
    BY <2>1 DEF HandlerOK
  <2>3. CurPort = CheckSlotTable[pkt.slot] /\ CurPort \in Ports
    BY <1>3, <2>2 DEF CurPort
  <2>4. \A t \in MappedSlots \cap Boards :
          t # pkt.slot => ackid'[CheckSlotTable[t]] = ackid[CheckSlotTable[t]]
    BY <1>2, <1>3, <2>1, <2>2, <2>3 DEF TypeOK
  <2>5. Reliable(pkt.slot) => ackid'[CurPort] = 0
    <3>1. Reliable(pkt.slot) => ok
      BY <1>8, ReliableAccess DEF ResetAckid
    <3> QED
      BY <2>1, <2>3, <3>1 DEF TypeOK
  <2> QED
    BY <2>1, <2>2, <2>3, <2>4, <2>5
<1>9. CASE /\ UNCHANGED <<pkt, registerArr, ackid>>
           /\ \/ pc = "disableWrite" /\ pc' = "disableRead"
              \/ pc = "disableRead" /\ pc' \in {"disableWrite", "resetAckid"}
              \/ pc = "enableWrite" /\ pc' = "enableRead"
              \/ pc = "enableRead" /\ pc' \in {"enableWrite", "reply"}
              \/ pc = "reply" /\ pc' = "recv"
  BY <1>9
<1>10. ASSUME NEW p \in Ports, Traffic(p)
       PROVE  StoppedLinkQuiet'
  (* Traffic moves the ackid of an open port, and a stopped one is closed.  *)
  <2>1. /\ rxtx[p] /\ ackid' = [ackid EXCEPT ![p] = 1]
        /\ UNCHANGED <<pc, pkt, registerArr>>
    BY <1>10 DEF Traffic, hrvars
  <2>2. ASSUME NEW s \in MappedSlots \cap Boards, Reliable(s), registerArr[s],
               ~ (pkt.slot = s /\ pc \in {"disableWrite", "disableRead", "resetAckid"})
        PROVE  ~ rxtx[CheckSlotTable[s]]
    <3>1. ~ Pending(s)
      BY <2>2 DEF Pending, HandlerOK
    <3> QED
      BY <2>2, <3>1 DEF PortFollowsRegister, PortUp
  <2>3. \A s \in MappedSlots \cap Boards :
          CheckSlotTable[s] # p => ackid'[CheckSlotTable[s]] = ackid[CheckSlotTable[s]]
    BY <1>3, <2>1 DEF TypeOK
  <2> QED
    BY <2>1, <2>2, <2>3
<1> QED
  BY <1>4, <1>5, <1>6, <1>7, <1>8, <1>9, <1>10
     DEF Next, Receive, Handle, vars, hrvars, hwvars, OnState, OnRestoreRunning,
         OnSilent, DisableWrite, DisableRead, EnableWrite, EnableRead, Reply

-----------------------------------------------------------------------------
(* The acknowledgements.                                                    *)

LEMMA AckStep ==
  ASSUME TypeOK, HandlerOK, PortFollowsRegister, OpenUnlessStopped,
         AckMeansDone, [Next]_vars
  PROVE  AckMeansDone'
<1>1. Boards \subseteq Slots /\ Slots \subseteq 0 .. 255 /\ SliceBytes \subseteq 0 .. 255
  BY BoardsAssumption, BytesAssumption DEF Slots, SLOTINDEXMAX
<1>2. CASE pc' # "reply"
  BY <1>2 DEF AckMeansDone
<1>3. ASSUME NEW s \in SlotBytes, NEW i \in SliceBytes, NEW back \in BOOLEAN,
             OnState(s, i, back)
      PROVE  AckMeansDone'
  BY <1>3 DEF OnState, AckMeansDone
<1>4. ASSUME NEW s \in Boards, NEW first \in BOOLEAN, OnStop(s, first),
             pc' = "reply"
      PROVE  AckMeansDone'
  <2>1. /\ s \notin MappedSlots /\ pkt'.slot = s /\ pkt'.type = "STOP"
        /\ registerArr' = [registerArr EXCEPT ![s] = TRUE]
        /\ statusArr' = [statusArr EXCEPT ![s] = {}]
    BY <1>4 DEF OnStop
  <2>2. registerArr'[s] /\ statusArr'[s] = {}
    BY <1>1, <2>1 DEF TypeOK
  <2> QED
    BY <2>1, <2>2 DEF AckMeansDone, Reliable
<1>5. ASSUME NEW s \in Boards, NEW i \in SliceBytes, OnRestoreRunning(s, i)
      PROVE  AckMeansDone'
  <2>1. /\ pc = "recv" /\ ~ registerArr[s] /\ CountSlice(s, i)
        /\ pkt'.type = "RESTORE" /\ pkt'.slot = s /\ pkt'.slice = i
        /\ UNCHANGED <<registerArr, rxtx>>
    BY <1>5 DEF OnRestoreRunning, hwvars
  <2>2. i \in Slices => i \in statusArr'[s]
    BY <1>1, <2>1, CountSliceKeeps DEF TypeOK
  <2>3. s \in MappedSlots => PortUp(s)
    BY <2>1 DEF OpenUnlessStopped
  <2> QED
    BY <2>1, <2>2, <2>3 DEF AckMeansDone, PortUp
<1>6. ASSUME NEW ok \in BOOLEAN, ResetAckid(ok)
      PROVE  AckMeansDone'
  <2>1. /\ pc = "resetAckid"
        /\ UNCHANGED <<pkt, registerArr, statusArr, rxtx>>
        /\ ackid' = IF ok THEN [ackid EXCEPT ![CurPort] = 0] ELSE ackid
    BY <1>6 DEF ResetAckid, hrvars
  <2>2. /\ pkt.type = "STOP" /\ registerArr[pkt.slot] /\ statusArr[pkt.slot] = {}
        /\ pkt.slot \in MappedSlots \cap Boards
    BY <2>1 DEF HandlerOK
  <2>3. ASSUME Reliable(pkt.slot)
        PROVE  ~ PortUp(pkt.slot) /\ ackid'[CurPort] = 0
    <3>1. ok
      BY <1>6, <2>3, ReliableAccess DEF ResetAckid
    <3>2. CurPort \in Ports
      BY <2>1, CurPortType
    <3>3. ~ PortUp(pkt.slot)
      BY <2>1, <2>2, <2>3 DEF PortFollowsRegister, Pending
    <3> QED
      BY <2>1, <3>1, <3>2, <3>3 DEF TypeOK
  <2> QED
    BY <2>1, <2>2, <2>3 DEF AckMeansDone, PortUp, Reliable, CurPort
<1>7. ASSUME NEW ok \in BOOLEAN, EnableRead(ok), pc' = "reply"
      PROVE  AckMeansDone'
  <2>1. /\ pc = "enableRead" /\ rxtx[CurPort] /\ CountSlice(pkt.slot, pkt.slice)
        /\ UNCHANGED <<pkt, registerArr, rxtx>>
    BY <1>7 DEF EnableRead, hwvars
  <2>2. /\ pkt.type = "RESTORE" /\ ~ registerArr[pkt.slot]
        /\ pkt.slot \in MappedSlots \cap Boards
    BY <2>1 DEF HandlerOK
  <2>3. pkt.slice \in Slices => pkt.slice \in statusArr'[pkt.slot]
    <3>1. pkt.slot \in Slots /\ pkt.slot \in 0 .. 255 /\ pkt.slice \in 0 .. 255
      BY <1>1, <2>2 DEF TypeOK, Packet
    <3> QED
      BY <2>1, <3>1, CountSliceKeeps DEF TypeOK
  <2> QED
    BY <2>1, <2>2, <2>3 DEF AckMeansDone, PortUp, CurPort
<1>8. ASSUME NEW p \in Ports, Traffic(p)
      PROVE  AckMeansDone'
  <2>1. /\ rxtx[p] /\ ackid' = [ackid EXCEPT ![p] = 1]
        /\ UNCHANGED <<pc, pkt, registerArr, statusArr, rxtx>>
    BY <1>8 DEF Traffic, hrvars
  <2>2. ASSUME pc = "reply", pkt.type = "STOP", Reliable(pkt.slot)
        PROVE  ackid'[CurPort] = 0
    <3>1. ~ rxtx[CurPort] /\ ackid[CurPort] = 0
      BY <2>2 DEF AckMeansDone, PortUp, CurPort
    <3>2. CurPort \in Ports
      BY <2>2, SlotTableType DEF Reliable, CurPort
    <3> QED
      BY <2>1, <3>1, <3>2 DEF TypeOK
  <2> QED
    BY <2>1, <2>2 DEF AckMeansDone, PortUp, Reliable, CurPort
<1>9. ASSUME UNCHANGED vars
      PROVE  AckMeansDone'
  BY <1>9 DEF vars, hrvars, hwvars, AckMeansDone, PortUp, Reliable, CurPort
<1> QED
  BY <1>2, <1>3, <1>4, <1>5, <1>6, <1>7, <1>8, <1>9
     DEF Next, Receive, Handle, OnRestoreStopped, OnSilent, DisableWrite,
         DisableRead, EnableWrite, Reply

-----------------------------------------------------------------------------
(* The inductive invariant and what follows from it.                        *)

LEMMA InvariantInit ==
  ASSUME Init
  PROVE  IInv
<1>1. TypeOK /\ HandlerOK
  BY TypeInit
<1>2. ReadyCountExact
  <2>1. ReadySlices = {}
    BY DEF Init, ReadySlices
  <2> QED
    BY <2>1, FS_EmptySet DEF Init, ReadyCountExact
<1>3. \A s \in MappedSlots \cap Boards :
        s \in Slots /\ CheckSlotTable[s] \in Ports
  BY SlotTableType, BoardsAssumption
<1>4. PortFollowsRegister /\ OpenUnlessStopped /\ StoppedLinkQuiet
  BY <1>3 DEF Init, PortFollowsRegister, OpenUnlessStopped, StoppedLinkQuiet, PortUp
<1>5. AckMeansDone
  BY DEF Init, AckMeansDone
<1> QED
  BY <1>1, <1>2, <1>4, <1>5 DEF IInv

LEMMA InvariantStep ==
  ASSUME IInv, [Next]_vars
  PROVE  IInv'
BY TypeStep, CountStep, PortsStep, QuietStep, AckStep DEF IInv

(* IInv holds in every reachable state.                                     *)
THEOREM Invariant == Spec => []IInv
<1>1. Init => IInv
  BY InvariantInit
<1>2. IInv /\ [Next]_vars => IInv'
  BY InvariantStep
<1> QED
  BY <1>1, <1>2, PTL DEF Spec

(* The state of the protocol is well formed, whatever packets arrive and    *)
(* whichever chips fail.                                                    *)
THEOREM TypeCorrect == Spec => []TypeOK
<1>1. IInv => TypeOK
  BY DEF IInv
<1> QED
  BY <1>1, Invariant, PTL

(* hrReadynumbers is the number of slices marked in statusArr (OnSocket,    *)
(* isRepeatPkt, clearArr), under any loss, repetition and order of packets. *)
THEOREM CountCorrect == Spec => []ReadyCountExact
<1>1. IInv => ReadyCountExact
  BY DEF IInv
<1> QED
  BY <1>1, Invariant, PTL

(* registerArr agrees with the port registers of the chips that answer.     *)
THEOREM PortsCorrect == Spec => []PortFollowsRegister
<1>1. IInv => PortFollowsRegister
  BY DEF IInv
<1> QED
  BY <1>1, Invariant, PTL

(* Even with failing accesses, a board that is not stopped has its port     *)
(* open whenever the thread waits for a packet.                             *)
THEOREM RestoreCorrect == Spec => []RestoredPortUp
<1>1. IInv => RestoredPortUp
  BY DEF IInv, OpenUnlessStopped, RestoredPortUp
<1> QED
  BY <1>1, Invariant, PTL

(* The ackid of a stopped link stays reset: disable_1848_port_rxtx comes    *)
(* before reset_1848_ackid.                                                 *)
THEOREM QuietCorrect == Spec => []StoppedLinkQuiet
<1>1. IInv => StoppedLinkQuiet
  BY DEF IInv
<1> QED
  BY <1>1, Invariant, PTL

(* An acknowledgement leaves only when the work it acknowledges is done.    *)
THEOREM AckCorrect == Spec => []AckMeansDone
<1>1. IInv => AckMeansDone
  BY DEF IInv
<1> QED
  BY <1>1, Invariant, PTL

(* A ready slice is forgotten only by the STOP of its board.                *)
THEOREM ForgetCorrect == Spec => ForgetOnlyStopped
<1> DEFINE Kept == \A x \in ReadySlices :
                     x \notin ReadySlices' => registerArr'[x[1]] /\ pkt'.type = "STOP"
<1>1. ASSUME TypeOK, [Next]_vars
      PROVE  Kept
  <2>1. CASE statusArr' = statusArr
    BY <2>1 DEF ReadySlices
  <2>2. ASSUME NEW s \in 0 .. 255, NEW i \in 0 .. 255, CountSlice(s, i)
        PROVE  Kept
    BY <1>1, <2>2, CountSliceKeeps DEF TypeOK, ReadySlices
  <2>3. ASSUME NEW s \in Boards, NEW first \in BOOLEAN, OnStop(s, first)
        PROVE  Kept
    BY <1>1, <2>3, BoardsAssumption DEF OnStop, TypeOK, ReadySlices
  <2>4. ASSUME NEW s \in SlotBytes, NEW i \in SliceBytes, NEW back \in BOOLEAN,
               OnState(s, i, back)
        PROVE  Kept
    BY <2>2, <2>4, BytesAssumption DEF OnState
  <2>5. ASSUME NEW s \in Boards, NEW i \in SliceBytes, OnRestoreRunning(s, i)
        PROVE  Kept
    <3>1. s \in 0 .. 255
      BY BoardsAssumption DEF Slots, SLOTINDEXMAX
    <3> QED
      BY <2>2, <2>5, <3>1, BytesAssumption DEF OnRestoreRunning
  <2>6. ASSUME NEW ok \in BOOLEAN, EnableRead(ok)
        PROVE  Kept
    <3>1. pkt.slot \in 0 .. 255 /\ pkt.slice \in 0 .. 255
      BY <1>1 DEF TypeOK, Packet
    <3> QED
      BY <2>1, <2>2, <2>6, <3>1 DEF EnableRead
  <2> QED
    BY <1>1, <2>1, <2>3, <2>4, <2>5, <2>6
       DEF Next, Receive, Handle, vars, hrvars, OnRestoreStopped, OnSilent,
           DisableWrite, DisableRead, ResetAckid, EnableWrite, Reply, Traffic
<1>2. TypeOK /\ [Next]_vars => [Kept]_vars
  BY <1>1
<1> QED
  BY <1>2, TypeCorrect, PTL DEF Spec, ForgetOnlyStopped

-----------------------------------------------------------------------------
(* How long the handling of a packet takes.                                 *)

(* The accesses and the acknowledgement still to come, if no loop repeats.  *)
StepsLeft ==
  CASE pc = "disableWrite" -> 4
    [] pc = "disableRead"  -> 3
    [] pc = "resetAckid"   -> 2
    [] pc = "enableWrite"  -> 3
    [] pc = "enableRead"   -> 2
    [] pc = "reply"        -> 1
    [] OTHER               -> 0

(* Handling a packet whose chip always answers, or closing a port on one    *)
(* that never does.                                                         *)
Straight ==
  \/ pc = "reply"
  \/ pc # "recv" /\ Reliable(pkt.slot)
  \/ pc \in {"disableWrite", "disableRead", "resetAckid"} /\ CurChip \in Dead

HandlerGoesOn == [][Straight /\ pc' # pc => StepsLeft' < StepsLeft]_vars

(* The loops of disable_1848_port_rxtx and enable_1848_port_rxtx run once   *)
(* on a chip that always answers, whatever traffic does to the port: every  *)
(* packet is handled within four steps.  So is a STOP on a chip that never  *)
(* answers, because 0xffff reads as closed (iic_srio1848.c:904); only the   *)
(* opening of a port may have to wait for its chip.                         *)
THEOREM HandlerEnds == Spec => HandlerGoesOn
<1>1. ASSUME IInv, Next, Straight, pc' # pc
      PROVE  StepsLeft' < StepsLeft
  <2>1. TypeOK /\ HandlerOK /\ PortFollowsRegister
    BY <1>1 DEF IInv
  <2>2. ASSUME NEW ok \in BOOLEAN, DisableWrite(ok)
        PROVE  StepsLeft' < StepsLeft
    BY <2>2 DEF DisableWrite, StepsLeft
  <2>3. ASSUME NEW ok \in BOOLEAN, DisableRead(ok)
        PROVE  StepsLeft' < StepsLeft
    <3>1. pc = "disableRead" /\ pkt.slot \in MappedSlots \cap Boards /\ registerArr[pkt.slot]
      BY <2>1, <2>3 DEF DisableRead, HandlerOK
    <3>2. Reliable(pkt.slot) => ~ rxtx[CurPort]
      BY <2>1, <3>1 DEF PortFollowsRegister, Pending, PortUp, CurPort
    <3>3. CurChip \in Dead => ~ ok
      BY <2>3 DEF DisableRead, Outcomes
    <3>4. Reliable(pkt.slot) \/ CurChip \in Dead
      BY <1>1, <3>1 DEF Straight
    <3>5. pc' = "resetAckid"
      BY <2>3, <3>2, <3>3, <3>4 DEF DisableRead
    <3> QED
      BY <3>1, <3>5 DEF StepsLeft
  <2>4. ASSUME NEW ok \in BOOLEAN, ResetAckid(ok)
        PROVE  StepsLeft' < StepsLeft
    BY <2>4 DEF ResetAckid, StepsLeft
  <2>5. ASSUME NEW ok \in BOOLEAN, EnableWrite(ok)
        PROVE  StepsLeft' < StepsLeft
    BY <2>5 DEF EnableWrite, StepsLeft
  <2>6. ASSUME NEW ok \in BOOLEAN, EnableRead(ok)
        PROVE  StepsLeft' < StepsLeft
    <3>1. /\ pc = "enableRead" /\ pkt.slot \in MappedSlots \cap Boards
          /\ ~ registerArr[pkt.slot]
      BY <2>1, <2>6 DEF EnableRead, HandlerOK
    <3>2. Reliable(pkt.slot)
      BY <1>1, <3>1 DEF Straight
    <3>3. ok
      BY <2>6, <3>2, ReliableAccess DEF EnableRead
    <3>4. rxtx[CurPort]
      BY <2>1, <3>1, <3>2 DEF PortFollowsRegister, Pending, PortUp, CurPort
    <3>5. pc' = "reply"
      BY <2>6, <3>3, <3>4 DEF EnableRead
    <3> QED
      BY <3>1, <3>5 DEF StepsLeft
  <2>7. CASE Reply
    BY <2>7 DEF Reply, StepsLeft
  <2>8. ~ Receive
    BY <1>1 DEF Receive, OnState, OnStop, OnRestoreRunning, OnRestoreStopped, OnSilent,
              Straight
  <2>9. \A p \in Ports : ~ Traffic(p)
    BY <1>1 DEF Traffic
  <2> QED
    BY <1>1, <2>2, <2>3, <2>4, <2>5, <2>6, <2>7, <2>8, <2>9 DEF Next, Handle
<1>2. IInv /\ [Next]_vars => [Straight /\ pc' # pc => StepsLeft' < StepsLeft]_vars
  BY <1>1
<1> QED
  BY <1>2, Invariant, PTL DEF Spec, HandlerGoesOn

-----------------------------------------------------------------------------
(* The handler implements the registry.                                     *)

RegStopped == {s \in Slots : registerArr[s]}
RegUp      == {s \in Slots : Reliable(s) /\ PortUp(s)}

LEMMA RegistryInit ==
  ASSUME Init
  PROVE  Registry!Init
<1>1. ReadySlices = {} /\ hrReadynumbers = 0 /\ ackPkt = [flag |-> "none", to |-> 0]
  BY DEF Init, ReadySlices
<1>2. RegStopped = {}
  BY DEF Init, RegStopped
<1>3. RegUp = {s \in Slots : Reliable(s)}
  BY SlotTableType DEF Init, RegUp, Reliable, PortUp
<1> QED
  BY <1>1, <1>2, <1>3 DEF Registry!Init, RegStopped, RegUp

(* Counting a slice announces it, or is invisible when it is a repetition.  *)
LEMMA CountAnnounces ==
  ASSUME NEW s, NEW i, CountSlice(s, i), TypeOK, ReadyCountExact',
         UNCHANGED <<registerArr, rxtx, ackPkt>>
  PROVE  [Registry!Next]_(Registry!vars)
<1>1. RegStopped' = RegStopped /\ RegUp' = RegUp
  BY DEF RegStopped, RegUp, PortUp
<1>2. CASE Fresh(s, i)
  <2>1. s \in Slots /\ i \in Slices
    BY <1>2 DEF Fresh
  <2>2. ReadySlices' = ReadySlices \cup {<<s, i>>}
    BY <1>2, <2>1 DEF CountSlice, TypeOK, ReadySlices
  <2>3. hrReadynumbers' = hrReadynumbers + 1
    BY <1>2 DEF CountSlice
  <2>4. Registry!Announce(s, i)
    BY <1>1, <2>2, <2>3 DEF Registry!Announce, ReadyCountExact, Cardinality, Registry!Cardinality, RegStopped, RegUp
  <2> QED
    BY <2>1, <2>4 DEF Registry!Next
<1>3. CASE ~ Fresh(s, i)
  <2>1. ReadySlices' = ReadySlices /\ hrReadynumbers' = hrReadynumbers
    BY <1>3 DEF CountSlice, ReadySlices
  <2> QED
    BY <1>1, <2>1 DEF Registry!vars, RegStopped, RegUp
<1> QED
  BY <1>2, <1>3

LEMMA RegistryStep ==
  ASSUME IInv, IInv', [Next]_vars
  PROVE  [Registry!Next]_(Registry!vars)
<1> USE DEF IInv
<1>1. MappedSlots \cap Boards \subseteq Slots /\ Boards \subseteq Slots
  BY BoardsAssumption
<1>2. CASE UNCHANGED <<statusArr, hrReadynumbers, registerArr, rxtx, ackPkt>>
  BY <1>2 DEF Registry!vars, ReadySlices, PortUp
<1>3. ASSUME NEW s, NEW i, CountSlice(s, i), UNCHANGED <<registerArr, rxtx, ackPkt>>
      PROVE  [Registry!Next]_(Registry!vars)
  BY <1>3, CountAnnounces
<1>4. ASSUME NEW s \in Boards, NEW first \in BOOLEAN, OnStop(s, first)
      PROVE  Registry!Next
  <2>1. s \in Slots
    BY <1>1
  <2>2. ReadySlices' = ReadySlices \ {x \in ReadySlices : x[1] = s}
    BY <1>4, <2>1 DEF OnStop, TypeOK, ReadySlices
  <2>3. RegStopped' = RegStopped \cup {s}
    BY <1>4, <2>1 DEF OnStop, TypeOK, RegStopped
  <2>4. RegUp' = RegUp /\ ackPkt' = ackPkt
    BY <1>4 DEF OnStop, hwvars, RegUp, PortUp
  <2>5. Registry!Stop(s)
    BY <2>2, <2>3, <2>4
       DEF Registry!Stop, Registry!OfSlot, ReadyCountExact, Cardinality, Registry!Cardinality, RegStopped, RegUp
  <2> QED
    BY <2>1, <2>5 DEF Registry!Next
<1>5. ASSUME NEW s \in Boards, NEW i \in SliceBytes, OnRestoreStopped(s, i)
      PROVE  Registry!Next
  <2>1. s \in Slots
    BY <1>1
  <2>2. s \in RegStopped /\ RegStopped' = RegStopped \ {s}
    BY <1>5, <2>1 DEF OnRestoreStopped, TypeOK, RegStopped
  <2>3. /\ RegUp' = RegUp /\ ReadySlices' = ReadySlices
        /\ hrReadynumbers' = hrReadynumbers /\ ackPkt' = ackPkt
    BY <1>5 DEF OnRestoreStopped, hwvars, RegUp, PortUp, ReadySlices
  <2>4. Registry!Resume(s)
    BY <2>2, <2>3 DEF Registry!Resume, RegStopped, RegUp
  <2> QED
    BY <2>1, <2>4 DEF Registry!Next
<1>6. ASSUME NEW q \in BOOLEAN,
             rxtx' = [rxtx EXCEPT ![CurPort] = q],
             pkt.slot \in MappedSlots \cap Boards,
             q = ~ registerArr[pkt.slot],
             UNCHANGED <<statusArr, hrReadynumbers, registerArr, ackPkt>>
      PROVE  [Registry!Next]_(Registry!vars)
  (* Writing the port register moves the link of the packet's slot, in the  *)
  (* direction its registration says, and no other.                         *)
  <2> DEFINE s == pkt.slot
  <2>1. s \in Slots /\ CurPort = CheckSlotTable[s] /\ CurPort \in Ports
    BY <1>1, <1>6, SlotTableType DEF CurPort
  <2>2. \A t \in MappedSlots \cap Boards :
          t # s => rxtx'[CheckSlotTable[t]] = rxtx[CheckSlotTable[t]]
    BY <1>6, <2>1, SlotTableInjective, SlotTableType DEF TypeOK
  <2>3. rxtx'[CheckSlotTable[s]] = q
    BY <1>6, <2>1 DEF TypeOK
  <2>4. \A t \in Slots : t # s => (t \in RegUp' <=> t \in RegUp)
    BY <2>2 DEF RegUp, Reliable, PortUp
  <2>5. s \in RegUp' <=> Reliable(s) /\ q
    BY <1>6, <2>1, <2>3 DEF RegUp, Reliable, PortUp
  <2>6. /\ ReadySlices' = ReadySlices /\ RegStopped' = RegStopped
        /\ hrReadynumbers' = hrReadynumbers /\ ackPkt' = ackPkt
    BY <1>6 DEF ReadySlices, RegStopped
  <2>7. CASE ~ Reliable(s)
    <3>1. RegUp' = RegUp
      BY <2>4, <2>5, <2>7 DEF RegUp
    <3> QED
      BY <2>6, <3>1 DEF Registry!vars, RegStopped, RegUp
  <2>8. CASE Reliable(s) /\ ~ q
    <3>1. RegUp' = RegUp \ {s}
      BY <2>4, <2>5, <2>8 DEF RegUp
    <3>2. s \in RegStopped \cap {t \in Slots : Reliable(t)}
      BY <1>6, <2>1, <2>8 DEF RegStopped
    <3>3. Registry!LinkDown(s)
      BY <2>6, <3>1, <3>2 DEF Registry!LinkDown, RegStopped, RegUp
    <3> QED
      BY <2>1, <3>3 DEF Registry!Next
  <2>9. CASE Reliable(s) /\ q
    <3>1. RegUp' = RegUp \cup {s}
      BY <2>1, <2>4, <2>5, <2>9 DEF RegUp
    <3>2. s \in {t \in Slots : Reliable(t)} \ RegStopped
      BY <1>6, <2>1, <2>9 DEF RegStopped
    <3>3. Registry!LinkUp(s)
      BY <2>6, <3>1, <3>2 DEF Registry!LinkUp, RegStopped, RegUp
    <3> QED
      BY <2>1, <3>3 DEF Registry!Next
  <2> QED
    BY <2>7, <2>8, <2>9
<1>7. ASSUME NEW ok \in BOOLEAN, DisableWrite(ok)
      PROVE  [Registry!Next]_(Registry!vars)
  <2>1. pkt.slot \in MappedSlots \cap Boards /\ registerArr[pkt.slot]
    BY <1>7 DEF DisableWrite, HandlerOK
  <2>2. UNCHANGED <<statusArr, hrReadynumbers, registerArr, ackPkt>>
    BY <1>7 DEF DisableWrite, hrvars
  <2>3. CASE ok
    <3>1. rxtx' = [rxtx EXCEPT ![CurPort] = FALSE]
      BY <1>7, <2>3 DEF DisableWrite
    <3> QED
      BY <1>6, <2>1, <2>2, <3>1, Zenon
  <2>4. CASE ~ ok
    BY <1>2, <1>7, <2>2, <2>4 DEF DisableWrite
  <2> QED
    BY <2>3, <2>4
<1>8. ASSUME NEW ok \in BOOLEAN, EnableWrite(ok)
      PROVE  [Registry!Next]_(Registry!vars)
  <2>1. pkt.slot \in MappedSlots \cap Boards /\ ~ registerArr[pkt.slot]
    BY <1>8 DEF EnableWrite, HandlerOK
  <2>2. UNCHANGED <<statusArr, hrReadynumbers, registerArr, ackPkt>>
    BY <1>8 DEF EnableWrite, hrvars
  <2>3. CASE ok
    <3>1. rxtx' = [rxtx EXCEPT ![CurPort] = TRUE]
      BY <1>8, <2>3 DEF EnableWrite
    <3> QED
      BY <1>6, <2>1, <2>2, <3>1, Zenon
  <2>4. CASE ~ ok
    BY <1>2, <1>8, <2>2, <2>4 DEF EnableWrite
  <2> QED
    BY <2>3, <2>4
<1>9. ASSUME Reply
      PROVE  Registry!Next
  <2>1. /\ pc = "reply" /\ ackPkt' = [flag |-> AckOf[pkt.type], to |-> pkt.slot]
        /\ UNCHANGED <<statusArr, hrReadynumbers, registerArr, rxtx>>
    BY <1>9 DEF Reply, hrvars, hwvars
  <2>2. /\ ReadySlices' = ReadySlices /\ RegStopped' = RegStopped
        /\ RegUp' = RegUp /\ hrReadynumbers' = hrReadynumbers
    BY <2>1 DEF ReadySlices, RegStopped, RegUp, PortUp
  <2>3. CASE pkt.type = "STATE"
    <3>1. Registry!AckState(pkt.slot)
      BY <2>1, <2>2, <2>3 DEF Registry!AckState, AckOf, RegStopped, RegUp
    <3>2. pkt.slot \in 0 .. 255
      BY DEF TypeOK, Packet
    <3> QED
      BY <3>1, <3>2 DEF Registry!Next
  <2>4. CASE pkt.type = "STOP"
    <3>1. /\ pkt.slot \in Slots /\ registerArr[pkt.slot] /\ statusArr[pkt.slot] = {}
          /\ Reliable(pkt.slot) => ~ PortUp(pkt.slot)
      BY <1>1, <2>1, <2>4 DEF HandlerOK, AckMeansDone
    <3>2. pkt.slot \in RegStopped \ RegUp
      BY <3>1 DEF RegStopped, RegUp
    <3>3. {x \in ReadySlices : x[1] = pkt.slot} = {}
      BY <3>1 DEF ReadySlices
    <3>4. Registry!AckStop(pkt.slot)
      BY <2>1, <2>2, <2>4, <3>2, <3>3
         DEF Registry!AckStop, Registry!OfSlot, AckOf, RegStopped, RegUp
    <3> QED
      BY <3>1, <3>4 DEF Registry!Next
  <2>5. CASE pkt.type = "RESTORE"
    <3>1. /\ pkt.slot \in Slots /\ ~ registerArr[pkt.slot]
          /\ pkt.slot \in MappedSlots => PortUp(pkt.slot)
      BY <1>1, <2>1, <2>5 DEF HandlerOK, AckMeansDone
    <3>2. pkt.slot \notin RegStopped
      BY <3>1 DEF RegStopped
    <3>3. Reliable(pkt.slot) => pkt.slot \in RegUp
      BY <3>1 DEF RegUp, Reliable
    <3>4. Registry!AckRestore(pkt.slot)
      BY <2>1, <2>2, <2>5, <3>1, <3>2, <3>3
         DEF Registry!AckRestore, AckOf, RegStopped, RegUp
    <3> QED
      BY <3>1, <3>4 DEF Registry!Next
  <2> QED
    BY <2>1, <2>3, <2>4, <2>5 DEF HandlerOK, AckOf
<1>10. ASSUME NEW ok \in BOOLEAN, EnableRead(ok)
       PROVE  [Registry!Next]_(Registry!vars)
  BY <1>2, <1>3, <1>10 DEF EnableRead, hwvars
<1> QED
  BY <1>2, <1>3, <1>4, <1>5, <1>7, <1>8, <1>9, <1>10
     DEF Next, Receive, Handle, vars, hrvars, hwvars, OnState, OnRestoreRunning,
         OnSilent, DisableRead, ResetAckid, Traffic

(* The receive thread keeps the promises of HrRegistry.                     *)
THEOREM RegistryCorrect == Spec => ImplementsRegistry
<1>1. Init => Registry!Init
  BY RegistryInit
<1>2. IInv /\ IInv' /\ [Next]_vars => [Registry!Next]_(Registry!vars)
  BY RegistryStep
<1> QED
  BY <1>1, <1>2, Invariant, PTL DEF Spec, ImplementsRegistry, Registry!Spec
=============================================================================
