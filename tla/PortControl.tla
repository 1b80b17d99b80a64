---------------------------- MODULE PortControl ----------------------------
(***************************************************************************)
(* The control register 0x15c of one port, which three flows of control    *)
(* change by reading it, changing some bits of the copy and writing it     *)
(* back (iic_srio1848.c): the receive thread (STOP and RESTORE), the child *)
(* process (RepairLinkPartner) and the menu (speed and repair; the boot    *)
(* does the same before the others exist).  A step is one register access. *)
(*                                                                         *)
(* Here every access succeeds; failing ones are in HrNotify and LinkRepair.*)
(***************************************************************************)
EXTENDS Integers

CONSTANT FlowSets   \* the flows that may run together

Flows == {"thread", "child", "menu"}

ASSUME FlowsAssumption == FlowSets \subseteq SUBSET Flows

Bits  == {"dis", "out", "in", "lock"}   \* 0x800000, 0x400000, 0x200000, 0x2
Gates == {"out", "in"}                  \* 0x600000
Rates == {"0xa", "0x14"}                \* lane rates
Lanes == 0 .. 3

(* Ports 1 and 9 of chip 2 are RapidIO end points, port 13 of chip 0 is     *)
(* that of the Zynq.  The boards that stop are behind chips 0 and 1, the    *)
(* child watches the end points too.                                        *)
PortKinds == {"endPoint", "chip2", "zynq", "other"}
ChipTwo   == {"endPoint", "chip2"}
PortsOf   == [thread |-> {"other"}, child |-> PortKinds \ {"zynq"}, menu |-> PortKinds]

VARIABLES
  flows,    \* the flows that run
  reg,      \* the bits of register 0x15c that are set
  pc,       \* flow -> its next access
  data,     \* flow -> its copy of the register
  stopped,  \* registerArr: a STOP waits for its RESTORE
  reopened, \* history: the child opened the port since that STOP
  overlap,  \* history: a flow wrote while another held an older copy
  givenUp,  \* the last repair was given up with the port closed
  speed,    \* speedIndex of the change under way, or of the last one
  pll,      \* bit 0 of register 0xff0000 of the port
  lane,     \* lane -> its rate
  next,     \* the lane to be changed next
  port,     \* which port it is
  pass,     \* the part of iic_1848PortRepair that recovers the port
  errStop   \* status 0x158 shows an input or output error stop

hist == <<stopped, reopened, givenUp>>
lvars == <<speed, pll, lane, next>>
link  == <<port, pass, errStop>>
vars  == <<flows, reg, pc, data, overlap, hist, lvars, link>>

GatePlaces == {"closeGet", "closeSet", "closeTest", "openGet", "openSet", "openTest"}
Places ==
  [thread |-> {"idle"} \cup GatePlaces,
   child  |-> {"idle", "down", "mode"} \cup GatePlaces,
   menu   |-> {"idle", "disGet", "disSet", "pll", "lanes", "resetPort", "enGet", "enSet",
               "endPoints", "others", "scan", "lockGet", "lockSet", "recover", "unlockGet", "unlockSet", "clear"}]

AllPlaces == Places["thread"] \cup Places["child"] \cup Places["menu"]

(* Here a flow has read the register and not yet written it.                *)
Changing == {"closeSet", "openSet", "disSet", "enSet", "lockSet", "unlockSet"}

(* The pll bit and lane rate of speedIndex 0 (3.125G), 1 (5.0G), 2 (6.25G). *)
PllOf(s)  == IF s = 1 THEN 0 ELSE 1
RateOf(s) == IF s = 0 THEN "0xa" ELSE "0x14"

Init ==
  /\ flows \in FlowSets
  /\ reg = Gates
  /\ pc = [f \in Flows |-> "idle"]
  /\ data = [f \in Flows |-> {}]
  /\ overlap = FALSE
  /\ stopped = FALSE /\ reopened = FALSE /\ givenUp = FALSE
  /\ speed = 0 /\ pll = PllOf(0) /\ lane = [l \in Lanes |-> RateOf(0)] /\ next = 0
  /\ port \in {kind \in PortKinds : \A f \in flows : kind \in PortsOf[f]}
  /\ pass = "scan" /\ errStop = FALSE

(* Flow f reads the register and goes on at there; writes it, after which   *)
(* its copy is not used any more, and goes on; goes on.                     *)
Get(f, here, there) ==
  /\ f \in flows /\ pc[f] = here
  /\ data' = [data EXCEPT ![f] = reg]
  /\ pc' = [pc EXCEPT ![f] = there]
  /\ UNCHANGED <<flows, reg, overlap>>

Set(f, here, there, bits) ==
  /\ f \in flows /\ pc[f] = here
  /\ reg' = bits
  /\ pc' = [pc EXCEPT ![f] = there]
  /\ data' = [data EXCEPT ![f] = {}]
  /\ overlap' = (overlap \/ \E g \in Flows \ {f} : pc[g] \in Changing)
  /\ UNCHANGED flows

Goes(f, here, there) ==
  /\ f \in flows /\ pc[f] = here
  /\ pc' = [pc EXCEPT ![f] = there]
  /\ UNCHANGED <<flows, reg, data, overlap>>

-----------------------------------------------------------------------------
(* disable_1848_port_rxtx and enable_1848_port_rxtx, for the thread and the *)
(* child: read, then write and read until the bits are as wanted.           *)
AfterClose(f) == IF f = "thread" THEN "idle" ELSE "down"

CloseGet(f) == Get(f, "closeGet", "closeSet") /\ UNCHANGED <<hist, lvars, link>>
(* Mutant: the mask clears the output bit only.                             *)
CloseSetOut(f) == Set(f, "closeSet", "closeTest", data[f] \ {"out"}) /\ UNCHANGED <<hist, lvars, link>>

CloseSet(f) == Set(f, "closeSet", "closeTest", data[f] \ Gates) /\ UNCHANGED <<hist, lvars, link>>
CloseLoop(f) ==
  /\ reg \cap Gates # {}
  /\ Get(f, "closeTest", "closeSet")
  /\ UNCHANGED <<hist, lvars, link>>

CloseDone(f) ==
  /\ reg \cap Gates = {}
  /\ Goes(f, "closeTest", AfterClose(f))
  /\ UNCHANGED <<hist, lvars, link>>

OpenGet(f) == Get(f, "openGet", "openSet") /\ UNCHANGED <<hist, lvars, link>>
OpenSet(f) ==
  /\ Set(f, "openSet", "openTest", data[f] \cup Gates)
  /\ reopened' = (reopened \/ f = "child")
  /\ UNCHANGED <<stopped, givenUp, lvars, link>>
OpenLoop(f) ==
  /\ ~(Gates \subseteq reg)
  /\ Get(f, "openTest", "openSet")
  /\ UNCHANGED <<hist, lvars, link>>

OpenDone(f) ==
  /\ Gates \subseteq reg
  /\ Goes(f, "openTest", "idle")
  /\ givenUp' = IF f = "child" THEN FALSE ELSE givenUp
  /\ UNCHANGED <<stopped, reopened, lvars, link>>

(* A STOP registers the board before it closes the port; a RESTORE of a     *)
(* registered board opens it.                                               *)
Stop ==
  /\ Goes("thread", "idle", "closeGet")
  /\ stopped' = TRUE /\ reopened' = FALSE
  /\ UNCHANGED <<givenUp, lvars, link>>

Restore ==
  /\ stopped
  /\ Goes("thread", "idle", "openGet")
  /\ stopped' = FALSE
  /\ UNCHANGED <<reopened, givenUp, lvars, link>>

(* RepairLinkPartner: close, wait for the partner, set the mode 0xd0400001  *)
(* of the port, open; or give up when the partner does not answer.          *)
RepairStarts ==
  /\ Goes("child", "idle", "closeGet")
  /\ UNCHANGED <<hist, lvars, link>>

(* Mutant: a repair that is given up opens the port again.                  *)
GiveUpOpens ==
  /\ Set("child", "down", "idle", reg \cup Gates)
  /\ givenUp' = TRUE
  /\ UNCHANGED <<stopped, reopened, lvars, link>>

GiveUp ==
  /\ Goes("child", "down", "idle")
  /\ givenUp' = TRUE
  /\ UNCHANGED <<stopped, reopened, lvars, link>>

PartnerAnswers ==
  /\ Goes("child", "down", "mode")
  /\ UNCHANGED <<hist, lvars, link>>

(* Mutant: the mode is taken to open the port.                              *)
PortModeLast ==
  /\ Set("child", "mode", "idle", {"out"})
  /\ reopened' = TRUE
  /\ UNCHANGED <<stopped, givenUp, lvars, link>>

PortMode ==
  /\ Set("child", "mode", "openGet", {"out"})
  /\ reopened' = TRUE
  /\ UNCHANGED <<stopped, givenUp, lvars, link>>

-----------------------------------------------------------------------------
(* iic_ChangePLL, as far as this port is concerned.                         *)
SpeedKey(s) ==
  /\ port # "zynq"
  /\ Goes("menu", "idle", "disGet")
  /\ speed' = s /\ next' = 0
  /\ UNCHANGED <<hist, pll, lane, link>>

DisGet == Get("menu", "disGet", "disSet") /\ UNCHANGED <<hist, lvars, link>>

(* Mutant: the port is not disabled before its PLL is changed.              *)
DisSetNot == Set("menu", "disSet", "pll", data["menu"]) /\ UNCHANGED <<hist, lvars, link>>
DisSet    == Set("menu", "disSet", "pll", data["menu"] \cup {"dis"}) /\ UNCHANGED <<hist, lvars, link>>

ChangePll ==
  /\ Goes("menu", "pll", "lanes")
  /\ pll' = PllOf(speed)
  /\ UNCHANGED <<hist, speed, lane, next, link>>

ChangeLane ==
  /\ Goes("menu", "lanes", IF next = 3 THEN "resetPort" ELSE "lanes")
  /\ lane' = [lane EXCEPT ![next] = RateOf(speed)]
  /\ next' = IF next = 3 THEN 0 ELSE next + 1
  /\ UNCHANGED <<hist, speed, pll, link>>

ResetPort == Goes("menu", "resetPort", "enGet") /\ UNCHANGED <<hist, lvars, link>>
EnGet     == Get("menu", "enGet", "enSet") /\ UNCHANGED <<hist, lvars, link>>

(* Mutant: 0xff9fffff, the mask of the gates, in place of 0xff7fffff.       *)
EnSetGates == Set("menu", "enSet", "idle", data["menu"] \ Gates) /\ UNCHANGED <<hist, lvars, link>>
EnSet      == Set("menu", "enSet", "idle", data["menu"] \ {"dis"}) /\ UNCHANGED <<hist, lvars, link>>

-----------------------------------------------------------------------------
(* Key 'r': iic_1848PortRepair of the three chips in turn.  That of chip 2  *)
(* first recovers both end points again and again until both are up and     *)
(* without an error stop; then it passes over all ports, as it does for the *)
(* other chips.  Where the repair goes on after each part:                  *)
AfterEndPoints == IF port \in ChipTwo THEN "scan" ELSE "idle"
AfterScan      == IF port \in ChipTwo THEN "idle" ELSE "endPoints"

RepairKey ==
  /\ Goes("menu", "idle", IF port \in ChipTwo THEN "endPoints" ELSE "scan")
  /\ UNCHANGED <<hist, lvars, link>>

(* An end point is down, or it has an error stop: both are recovered.       *)
EndPointsIll ==
  /\ Goes("menu", "endPoints", IF port = "endPoint" THEN "lockGet" ELSE "others")
  /\ pass' = "endPoints"
  /\ UNCHANGED <<hist, lvars, port, errStop>>

OthersRecovered == Goes("menu", "others", "endPoints") /\ UNCHANGED <<hist, lvars, link>>

EndPointsWell ==
  /\ ~(port = "endPoint" /\ errStop)
  /\ Goes("menu", "endPoints", AfterEndPoints)
  /\ UNCHANGED <<hist, lvars, link>>

(* The pass over the ports: an error stop is recovered, but the port of the *)
(* Zynq is reset in its place; any other status is cleared.                 *)
ScanStopped ==
  /\ errStop /\ port # "zynq"
  /\ Goes("menu", "scan", "lockGet")
  /\ pass' = "scan"
  /\ UNCHANGED <<hist, lvars, port, errStop>>

ScanWell ==
  /\ ~errStop \/ port = "zynq"
  /\ Goes("menu", "scan", "clear")
  /\ pass' = "scan" /\ errStop' \in {errStop, FALSE}
  /\ UNCHANGED <<hist, lvars, port>>

(* A recovery: lock the port, recover the link, unlock it, clear the status.*)
LockGet == Get("menu", "lockGet", "lockSet") /\ UNCHANGED <<hist, lvars, link>>
LockSet == Set("menu", "lockSet", "recover", data["menu"] \cup {"lock"}) /\ UNCHANGED <<hist, lvars, link>>

(* 0x148 with bit 31, then 0, then a link request: the partner may or may   *)
(* not come back in step.                                                   *)
Recover ==
  /\ Goes("menu", "recover", "unlockGet")
  /\ errStop' \in BOOLEAN
  /\ UNCHANGED <<hist, lvars, port, pass>>

UnlockGet == Get("menu", "unlockGet", "unlockSet") /\ UNCHANGED <<hist, lvars, link>>
UnlockSet == Set("menu", "unlockSet", "clear", data["menu"] \ {"lock"}) /\ UNCHANGED <<hist, lvars, link>>

Clear ==
  /\ Goes("menu", "clear", IF pass = "endPoints" THEN "endPoints" ELSE AfterScan)
  /\ UNCHANGED <<hist, lvars, link>>

LinkFails ==
  /\ "menu" \in flows
  /\ errStop' = TRUE
  /\ UNCHANGED <<flows, reg, pc, data, overlap, hist, lvars, port, pass>>

-----------------------------------------------------------------------------
GateLoop(f) ==
  \/ CloseGet(f) \/ CloseSet(f) \/ CloseLoop(f) \/ CloseDone(f)
  \/ OpenGet(f) \/ OpenSet(f) \/ OpenLoop(f) \/ OpenDone(f)
Thread == GateLoop("thread")
Child  == GateLoop("child") \/ GiveUp \/ PartnerAnswers \/ PortMode
Menu   == \/ DisGet \/ DisSet \/ ChangePll \/ ChangeLane \/ ResetPort \/ EnGet \/ EnSet
          \/ EndPointsIll \/ OthersRecovered \/ EndPointsWell \/ ScanStopped \/ ScanWell
          \/ LockGet \/ LockSet \/ Recover \/ UnlockGet \/ UnlockSet \/ Clear

Next ==
  \/ Thread \/ Stop \/ Restore
  \/ Child \/ RepairStarts
  \/ Menu \/ LinkFails \/ RepairKey \/ \E s \in 0 .. 2 : SpeedKey(s)

(* The flows go on.                                                         *)
Spec ==
  /\ Init /\ [][Next]_vars
  /\ WF_vars(Thread) /\ WF_vars(Child) /\ WF_vars(Menu)

-----------------------------------------------------------------------------
(* The register and the copies hold known bits, each flow is in its code.   *)
TypeOK ==
  /\ flows \subseteq Flows
  /\ reg \subseteq Bits
  /\ pc \in [Flows -> AllPlaces]
  /\ \A f \in Flows : pc[f] \in IF f \in flows THEN Places[f] ELSE {"idle"}
  /\ data \in [Flows -> SUBSET Bits]
  /\ stopped \in BOOLEAN /\ reopened \in BOOLEAN /\ givenUp \in BOOLEAN
  /\ overlap \in BOOLEAN
  /\ speed \in 0 .. 2 /\ pll \in {0, 1} /\ lane \in [Lanes -> Rates] /\ next \in Lanes
  /\ port \in PortKinds /\ pass \in {"endPoints", "scan"} /\ errStop \in BOOLEAN

AllIdle == \A f \in Flows : pc[f] = "idle"

(* Nothing was written over by the menu, or over what the menu wrote.       *)
Undisturbed == "menu" \in flows => ~overlap

(* When all are done the port is open, or its board is stopped, or its      *)
(* repair was given up; no interleaving of a STOP or RESTORE with a repair  *)
(* closes it for good (879-936, 997-1117).  Maintenance does not either,    *)
(* unless its accesses overlap with theirs.                                 *)
ClosedForAReason ==
  (AllIdle /\ Undisturbed) => Gates \subseteq reg \/ stopped \/ givenUp

(* A port that was closed by a STOP stays closed until the RESTORE, unless  *)
(* the child repairs it meanwhile (udp_net.c:126, iic_srio1848.c:1077);     *)
(* maintenance opens it only where its accesses overlap with others.        *)
StoppedUnlessRepaired ==
  (stopped /\ pc["thread"] = "idle" /\ ~reopened /\ Undisturbed) => reg \cap Gates = {}

(* Another flow opens or closes the port under flow f.                      *)
Undo(f) ==
  /\ reg' \cap Gates # reg \cap Gates
  /\ \E g \in Flows \ {f} : pc'[g] # pc[g]

(* Nothing but the others keeps a flow in the loops that repeat until the   *)
(* gates read back (898-904, 928-934): it is done again and again, or its   *)
(* work is undone again and again; and nothing but an end point that is ill *)
(* again and again keeps the menu in the loop of line 47.                   *)
FlowsReturn ==
  /\ \A f \in {"thread", "child"} : []<>(pc[f] = "idle") \/ []<><<Undo(f)>>_vars
  /\ []<>(pc["menu"] = "idle") \/ []<><<EndPointsIll>>_vars

(* The menu, or the boot, alone: a port that is not disabled has the pll    *)
(* and the four lanes of one speed, the one asked for last (592-722).       *)
OneSpeed ==
  (flows = {"menu"} /\ "dis" \notin reg) =>
    /\ \A l \in Lanes : lane[l] = lane[0]
    /\ pc["menu"] \notin {"disGet", "disSet"} => pll = PllOf(speed) /\ lane[0] = RateOf(speed)

(* Maintenance leaves the port unlocked and enabled, whatever the other     *)
(* flows do before and after, and meanwhile, as long as no two changes of   *)
(* the register overlap (113-191, 592-722, 879-936, 997-1117).              *)
MaintenanceLeavesNoTrace ==
  (pc["menu"] = "idle" /\ ~overlap) => reg \cap {"dis", "lock"} = {}
=============================================================================
