----------------------------- MODULE LinkRepair -----------------------------
(***************************************************************************)
(* The link watch of the child process (iic_srio1848.c, LinkDetect and     *)
(* RepairLinkPartner): it visits the ports to the boards one after the     *)
(* other, and when the registers of a port say that its link partner was   *)
(* reset, it closes the port, brings the link back in step, takes the      *)
(* routes of the board out, configures the board, puts the routes back and *)
(* opens the port.                                                         *)
(*                                                                         *)
(* Every register access that matters is a step; the boards reset and      *)
(* answer, and the operator clears error registers (key 'r'), between any  *)
(* two of them.  An access to a Dead chip fails, one to a Flaky chip may.  *)
(* The registers that have no effect on the rest are left out: 0xf2000c    *)
(* and 0xf20300 (reset_1848_port), 0xf40008 and 0x158 (iic_SwPortErrClear).*)
(***************************************************************************)
EXTENDS Integers, Sequences

CONSTANTS
  Watched,      \* the ports <<chip, port>> of m_swOut, in the order of LinkDetect
  LocalIDs,     \* port -> the IDs hlSrioGetSwLocalID gives for its board
  MaxRetry,     \* 50
  Dead, Flaky   \* chips that fail every access, and some accesses

Chips == 0 .. 2

(* m_swOut: the ports that lead to boards.                                  *)
SwOut ==
  ({0} \X {2, 4, 5, 8, 9}) \cup ({1} \X {1, 2, 4, 5, 8, 9})
    \cup ({2} \X {0, 1, 4, 5, 8, 9})

Elements(s) == {s[i] : i \in 1 .. Len(s)}

Ports == Elements(Watched)

HostID  == 255                     \* the ID maintenance packets of the board travel to
Discard == 223                     \* 0xDF: the packets of an ID are discarded
Uplink  == [c \in 1 .. 2 |-> IF c = 1 THEN 11 ELSE 10]   \* port of chip 0 to chip c

RxTx   == {"input", "output"}      \* the bits 0x600000 of register 0x15c
Errors == {"port", "lane"}         \* 0x1040 & 0x4, and the lane bits 0xff800c & 0x7

MaxIDs == 10                       \* places of _childID

ASSUME WatchedAssumption ==
  /\ Watched \in Seq(SwOut) /\ Watched # <<>>
  /\ LocalIDs \in [Ports -> Seq(0 .. HostID - 1)]

IDsOf(p) == Elements(LocalIDs[p])
IDs      == UNION {IDsOf(p) : p \in Ports}

ASSUME IDsAssumption ==            \* an ID belongs to one board
  \A p, q \in Ports : p # q => IDsOf(p) \cap IDsOf(q) = {}
(* hlSrioGetSwLocalID fills _childID before its count is looked at: a board *)
(* with more IDs than places has run over the stack by then, and the cut of *)
(* the list to ten (1062-1066) is not reached in a state that has a meaning.*)
ASSUME ArrayAssumption ==
  \A p \in Ports : Len(LocalIDs[p]) <= MaxIDs
ASSUME RetryAssumption == MaxRetry \in Nat \ {0}
ASSUME FaultAssumption == Dead \subseteq Chips /\ Flaky \subseteq Chips

VARIABLES
  step,        \* the next access of the child process
  link,        \* the port it is at, as an index of Watched
  errSeen,     \* _data[0] has its bit
  retry,       \* _retryCnt
  todo,        \* the routing entries to write before it goes on, <<chip, id, port>>
  after,       \* where it goes on
  rxtx,        \* port -> the bits that are set
  ackid,       \* port -> 0 after a reset of register 0x148, 1 once it moved on
  errs,        \* port -> the error registers that are set
  response,    \* port -> link request 0x140/0x144: "none", "asked" or "valid"
  lutIndex,    \* chip -> register 0x70
  lut,         \* chip -> id -> port, what was written by way of 0x74
  configured,  \* port -> its board has routes and an ID
  late,        \* history: ports whose board was reset late, see PartnerResets
  wiped        \* history: ports whose registers the operator cleared, see OperatorClears

child    == <<step, link, errSeen, retry, todo, after>>
routing  == <<lutIndex, lut>>
hardware == <<rxtx, ackid, errs, response, routing, configured>>
history  == <<late, wiped>>
vars     == <<child, hardware, history>>

Open(p)  == rxtx[p] = RxTx

Port == Watched[link]
Chip == Port[1]

(* The board at p is being repaired.                                        *)
Repairing(p) == p = Port /\ step \notin {"detect", "lane"}

(* The entries LinkDetect finds when enumeration has configured the board.  *)
Enumerated(c) ==
  [id \in IDs \cup {HostID} |->
     IF \E p \in Ports : p[1] = c /\ id \in IDsOf(p)
     THEN (CHOOSE p \in Ports : p[1] = c /\ id \in IDsOf(p))[2]
     ELSE 0]

Init ==
  /\ step = "detect" /\ link = 1 /\ errSeen = FALSE /\ retry = 0
  /\ todo = <<>> /\ after = "detect"
  /\ rxtx = [p \in Ports |-> RxTx] /\ ackid = [p \in Ports |-> 0]
  /\ errs = [p \in Ports |-> {}]
  /\ response = [p \in Ports |-> "none"]
  /\ lutIndex = [c \in Chips |-> 0] /\ lut = [c \in Chips |-> Enumerated(c)]
  /\ configured = [p \in Ports |-> TRUE]
  /\ late = {} /\ wiped = {}

-----------------------------------------------------------------------------
(* The outcomes an access to chip c may have.                               *)
Outcomes(c) == {ok \in BOOLEAN : IF ok THEN c \notin Dead ELSE c \in Dead \cup Flaky}

(* A write of the current port's entry of r: dropped if the access fails.   *)
Written(ok, r, value) == IF ok THEN [r EXCEPT ![Port] = value] ELSE r

(* A mutant: LinkDetect stays at the last port.                           *)
NextLinkNoWrap ==
  /\ step' = "detect"
  /\ link' = IF link = Len(Watched) THEN link ELSE link + 1

(* RepairLinkPartner returns, LinkDetect goes to the next port or round.    *)
NextLink ==
  /\ step' = "detect"
  /\ link' = IF link = Len(Watched) THEN 1 ELSE link + 1

(* The two registers that say that the partner was reset; a failed read     *)
(* (0xffff) says so too.                                                    *)
Detect(ok) ==
  /\ step = "detect" /\ ok \in Outcomes(Chip)
  /\ errSeen' = (~ ok \/ "port" \in errs[Port])
  /\ step' = "lane"
  /\ UNCHANGED <<link, retry, todo, after, hardware, history>>

WasReset(ok) == errSeen /\ (~ ok \/ "lane" \in errs[Port])

(* A mutant: without disable_1848_port_rxtx.                              *)
DetectLaneStaysOpen(ok) ==
  /\ step = "lane" /\ ok \in Outcomes(Chip)
  /\ IF WasReset(ok) THEN step' = "wait" /\ UNCHANGED link ELSE NextLink
  /\ UNCHANGED <<errSeen, retry, todo, after, hardware, history>>

(* A mutant: the registers are cleared when they are seen.                *)
DetectLaneClears(ok) ==
  /\ step = "lane" /\ ok \in Outcomes(Chip)
  /\ IF WasReset(ok) THEN step' = "closeWrite" /\ UNCHANGED link ELSE NextLink
  /\ errs' = IF WasReset(ok) THEN Written(ok, errs, {}) ELSE errs
  /\ UNCHANGED <<errSeen, retry, todo, after, rxtx, ackid, response, routing,
                 configured, history>>

DetectLane(ok) ==
  /\ step = "lane" /\ ok \in Outcomes(Chip)
  /\ IF WasReset(ok) THEN step' = "closeWrite" /\ UNCHANGED link ELSE NextLink
  /\ UNCHANGED <<errSeen, retry, todo, after, hardware, history>>

(* disable_1848_port_rxtx: write until both bits read back clear.           *)
CloseWrite(ok) ==
  /\ step = "closeWrite" /\ ok \in Outcomes(Chip)
  /\ rxtx' = Written(ok, rxtx, {})
  /\ step' = "closeRead"
  /\ UNCHANGED <<link, errSeen, retry, todo, after, ackid, errs, response, routing,
                 configured, history>>

CloseRead(ok) ==
  /\ step = "closeRead" /\ ok \in Outcomes(Chip)
  /\ step' = IF ok /\ rxtx[Port] # {} THEN "closeWrite" ELSE "wait"
  /\ UNCHANGED <<link, errSeen, retry, todo, after, hardware, history>>

(* Three seconds for a board that resets again.  Then reset_1848_ackid.     *)
Wait ==
  /\ step = "wait" /\ step' = "resetAckid"
  /\ UNCHANGED <<link, errSeen, retry, todo, after, hardware, history>>

ResetAckid(ok) ==
  /\ step = "resetAckid" /\ ok \in Outcomes(Chip)
  /\ ackid' = Written(ok, ackid, 0)
  /\ retry' = 0
  /\ step' = "request"
  /\ UNCHANGED <<link, errSeen, todo, after, rxtx, errs, response, routing,
                 configured, history>>

(* Ask the partner for its state, up to MaxRetry + 1 times; the valid bit   *)
(* is cleared by the read.  Two of the tries come too late for the test     *)
(* after the loop, and the repair is given up with the port closed.         *)
Request(ok) ==
  /\ step = "request" /\ ok \in Outcomes(Chip)
  /\ response' = IF response[Port] = "none" THEN Written(ok, response, "asked")
                                            ELSE response
  /\ step' = "response"
  /\ UNCHANGED <<link, errSeen, retry, todo, after, rxtx, ackid, errs, routing,
                 configured, history>>

Answered(ok) == ok /\ response[Port] = "valid"

Response(ok) ==
  /\ step = "response" /\ ok \in Outcomes(Chip)
  /\ response' = IF Answered(ok) THEN Written(ok, response, "none") ELSE response
  /\ retry' = retry + 1
  /\ \/ /\ ~ Answered(ok) /\ retry + 1 <= MaxRetry
        /\ step' = "request" /\ UNCHANGED link
     \/ /\ Answered(ok) \/ retry + 1 > MaxRetry
        /\ IF retry + 1 >= MaxRetry THEN NextLink
                                    ELSE step' = "resync" /\ UNCHANGED link
  /\ UNCHANGED <<errSeen, todo, after, rxtx, ackid, errs, routing, configured, history>>

(* Reset the partner's port, clear this one, and ask again: the answer to   *)
(* this request is not read.                                                *)
Resync(ok) ==
  /\ step = "resync" /\ ok \in Outcomes(Chip)
  /\ ackid' = Written(ok, ackid, 0)
  /\ step' = "announce"
  /\ UNCHANGED <<link, errSeen, retry, todo, after, rxtx, errs, response, routing,
                 configured, history>>

(* Routing entries are written one by one, index first.                     *)
Entries(ids, port) == [i \in 1 .. Len(ids) |-> <<Chip, ids[i], port>>]

WriteRoutes(entries, next) ==
  /\ todo' = entries /\ after' = next
  /\ step' = IF entries = <<>> THEN next ELSE "lutIndex"

(* A mutant: the routes stay.                                             *)
AnnounceRouted(ok) ==
  /\ step = "announce" /\ ok \in Outcomes(Chip)
  /\ response' = IF response[Port] = "none" THEN Written(ok, response, "asked")
                                            ELSE response
  /\ WriteRoutes(<<>>, "mode")
  /\ UNCHANGED <<link, errSeen, retry, rxtx, ackid, errs, routing, configured, history>>

Announce(ok) ==
  /\ step = "announce" /\ ok \in Outcomes(Chip)
  /\ response' = IF response[Port] = "none" THEN Written(ok, response, "asked")
                                            ELSE response
  /\ WriteRoutes(Entries(LocalIDs[Port], Discard), "mode")
  /\ UNCHANGED <<link, errSeen, retry, rxtx, ackid, errs, routing, configured, history>>

LutIndex(ok) ==
  LET e == Head(todo)
  IN  /\ step = "lutIndex" /\ ok \in Outcomes(e[1])
      /\ lutIndex' = IF ok THEN [lutIndex EXCEPT ![e[1]] = e[2]] ELSE lutIndex
      /\ step' = "lutData"
      /\ UNCHANGED <<link, errSeen, retry, todo, after, rxtx, ackid, errs, response,
                     lut, configured, history>>

LutData(ok) ==
  LET e == Head(todo)
  IN  /\ step = "lutData" /\ ok \in Outcomes(e[1])
      /\ lut' = IF ok THEN [lut EXCEPT ![e[1]][lutIndex[e[1]]] = e[3]] ELSE lut
      /\ WriteRoutes(Tail(todo), after)
      /\ UNCHANGED <<link, errSeen, retry, rxtx, ackid, errs, response, lutIndex,
                     configured, history>>

(* A mutant: no entry in chip 0.                                          *)
HostRoutesLocal == << <<Chip, HostID, Port[2]>> >>

(* The port mode 0xd0400001 lets packets out only, which maintenance needs; *)
(* then the routes of the host ID, over chip 0 to the board.                *)
HostRoutes ==
  IF Chip = 0 THEN << <<0, HostID, Port[2]>> >>
  ELSE << <<0, HostID, Uplink[Chip]>>, <<Chip, HostID, Port[2]>> >>

PortMode(ok) ==
  /\ step = "mode" /\ ok \in Outcomes(Chip)
  /\ rxtx' = Written(ok, rxtx, {"output"})
  /\ WriteRoutes(HostRoutes, "reconfig")
  /\ UNCHANGED <<link, errSeen, retry, ackid, errs, response, routing, configured,
                 history>>

(* A mutant: the routes are not put back.                                 *)
ReconfigLUTOnly ==
  /\ step = "reconfig"
  /\ configured' = [configured EXCEPT ![Port] = TRUE]
  /\ WriteRoutes(<<>>, "openWrite")
  /\ UNCHANGED <<link, errSeen, retry, rxtx, ackid, errs, response, routing, history>>

(* hlSrioReconfigLUT, then the routes of the board's nodes.                 *)
ReconfigLUT ==
  /\ step = "reconfig"
  /\ configured' = [configured EXCEPT ![Port] = TRUE]
  /\ WriteRoutes(Entries(LocalIDs[Port], Port[2]), "openWrite")
  /\ UNCHANGED <<link, errSeen, retry, rxtx, ackid, errs, response, routing, history>>

(* enable_1848_port_rxtx: write until both bits read back set.              *)
OpenWrite(ok) ==
  /\ step = "openWrite" /\ ok \in Outcomes(Chip)
  /\ rxtx' = Written(ok, rxtx, RxTx)
  /\ step' = "openRead"
  /\ UNCHANGED <<link, errSeen, retry, todo, after, ackid, errs, response, routing,
                 configured, history>>

OpenRead(ok) ==
  /\ step = "openRead" /\ ok \in Outcomes(Chip)
  /\ step' = IF ok /\ rxtx[Port] = RxTx THEN "clearLane" ELSE "openWrite"
  /\ UNCHANGED <<link, errSeen, retry, todo, after, hardware, history>>

(* iic_SwPortErrClear, repeated while both registers read back set.         *)
ClearLane(ok) ==
  /\ step = "clearLane" /\ ok \in Outcomes(Chip)
  /\ errs' = Written(ok, errs, errs[Port] \ {"lane"})
  /\ step' = "clearPort"
  /\ UNCHANGED <<link, errSeen, retry, todo, after, rxtx, ackid, response, routing,
                 configured, history>>

ClearPort(ok) ==
  /\ step = "clearPort" /\ ok \in Outcomes(Chip)
  /\ errs' = Written(ok, errs, errs[Port] \ {"port"})
  /\ step' = "recheck"
  /\ UNCHANGED <<link, errSeen, retry, todo, after, rxtx, ackid, response, routing,
                 configured, history>>

Recheck(ok) ==
  /\ step = "recheck" /\ ok \in Outcomes(Chip)
  /\ errSeen' = (~ ok \/ "port" \in errs[Port])
  /\ step' = "recheckLane"
  /\ UNCHANGED <<link, retry, todo, after, hardware, history>>

RecheckLane(ok) ==
  /\ step = "recheckLane" /\ ok \in Outcomes(Chip)
  /\ IF WasReset(ok) THEN step' = "clearLane" /\ UNCHANGED link ELSE NextLink
  /\ UNCHANGED <<errSeen, retry, todo, after, hardware, history>>

-----------------------------------------------------------------------------
(* The boards, the links, the operator.                                     *)

(* A board is reset: both registers are set, its routes are gone.  A reset  *)
(* after hlSrioReconfigLUT and before the registers are cleared is late:    *)
(* its trace is wiped out with that of the reset being repaired.            *)
Late(p) ==
  /\ Repairing(p)
  /\ \/ step \in {"openWrite", "openRead", "clearLane", "clearPort", "recheck", "recheckLane"}
     \/ step \in {"lutIndex", "lutData"} /\ after = "openWrite"

PartnerResets(p) ==
  /\ errs' = [errs EXCEPT ![p] = Errors]
  /\ configured' = [configured EXCEPT ![p] = FALSE]
  /\ late' = IF Late(p) THEN late \cup {p} ELSE late \ {p}
  /\ wiped' = wiped \ {p}
  /\ UNCHANGED <<child, rxtx, ackid, response, routing>>

PartnerAnswers(p) ==
  /\ response[p] = "asked"
  /\ response' = [response EXCEPT ![p] = "valid"]
  /\ UNCHANGED <<child, rxtx, ackid, errs, routing, configured, history>>

(* Key 'r': iic_1848PortClear clears the registers of all ports, one after  *)
(* the other, in the parent process.                                        *)
OperatorClears(p, register) ==
  /\ p[1] \notin Dead /\ register \in errs[p]
  /\ errs' = [errs EXCEPT ![p] = @ \ {register}]
  /\ wiped' = IF Open(p) /\ configured[p] THEN wiped ELSE wiped \cup {p}
  /\ UNCHANGED late
  /\ UNCHANGED <<child, rxtx, ackid, response, routing, configured>>

(* Packets move the ackid of a port that is not closed.                     *)
Traffic(p) ==
  /\ rxtx[p] # {}
  /\ ackid' = [ackid EXCEPT ![p] = 1]
  /\ UNCHANGED <<child, rxtx, errs, response, routing, configured, history>>

-----------------------------------------------------------------------------
Access(ok) ==
  \/ Detect(ok) \/ DetectLane(ok) \/ CloseWrite(ok) \/ CloseRead(ok) \/ ResetAckid(ok)
  \/ Request(ok) \/ Response(ok) \/ Resync(ok) \/ Announce(ok)
  \/ LutIndex(ok) \/ LutData(ok) \/ PortMode(ok) \/ OpenWrite(ok) \/ OpenRead(ok)
  \/ ClearLane(ok) \/ ClearPort(ok) \/ Recheck(ok) \/ RecheckLane(ok)

Child == (\E ok \in BOOLEAN : Access(ok)) \/ Wait \/ ReconfigLUT

Environment ==
  \E p \in Ports :
    \/ PartnerResets(p) \/ PartnerAnswers(p) \/ Traffic(p)
    \/ \E register \in Errors : OperatorClears(p, register)

Next == Child \/ Environment
Spec == Init /\ [][Next]_vars

(* The child process always runs.  A board that keeps being asked answers   *)
(* in time in the end.                                                      *)
AnswersInTime(p) ==
  /\ PartnerAnswers(p)
  /\ p = Port /\ step = "response" /\ retry + 1 < MaxRetry

(* A chip that works now and then does the accesses a loop waits for.       *)
Fairness ==
  /\ WF_vars(Child)
  /\ \A p \in Ports : SF_vars(AnswersInTime(p))
  /\ SF_vars(OpenWrite(TRUE)) /\ SF_vars(OpenRead(TRUE))
  /\ SF_vars(CloseWrite(TRUE))
  /\ SF_vars(ClearPort(TRUE)) /\ SF_vars(Recheck(TRUE))

FairSpec == Spec /\ Fairness

-----------------------------------------------------------------------------
(* Properties.                                                              *)

Steps == {"detect", "lane", "closeWrite", "closeRead", "wait", "resetAckid", "request",
          "response", "resync", "announce", "lutIndex", "lutData", "mode", "reconfig",
          "openWrite", "openRead", "clearLane", "clearPort", "recheck", "recheckLane"}

TypeOK ==
  /\ step \in Steps /\ link \in 1 .. Len(Watched) /\ errSeen \in BOOLEAN
  /\ retry \in 0 .. MaxRetry + 1
  /\ todo \in Seq(Chips \X (0 .. HostID) \X (0 .. 255))
  /\ after \in Steps
  /\ rxtx \in [Ports -> SUBSET RxTx] /\ ackid \in [Ports -> 0 .. 1]
  /\ errs \in [Ports -> SUBSET Errors]
  /\ response \in [Ports -> {"none", "asked", "valid"}]
  /\ lutIndex \in [Chips -> 0 .. HostID]
  /\ lut \in [Chips -> [IDs \cup {HostID} -> 0 .. 255]]
  /\ configured \in [Ports -> BOOLEAN]
  /\ late \subseteq Ports /\ wiped \subseteq Ports

Reliable(c) == c \notin Dead \cup Flaky
AllReliable == \A c \in Chips : Reliable(c)

(* The child process forgets no board: a port that is not open, or a board  *)
(* that lost its configuration, is being repaired or still has both error   *)
(* registers set, so that the next round of LinkDetect repairs it, whatever *)
(* the number of failed repairs.  Excused are the boards reset late, which  *)
(* the code asks not to happen (iic_srio1848.c:1093), and those whose       *)
(* registers the operator has cleared.                                      *)
NothingForgotten ==
  \A p \in Ports :
    Reliable(p[1]) /\ (~ Open(p) \/ ~ configured[p])
      => errs[p] = Errors \/ Repairing(p) \/ p \in late \cup wiped

(* "The routes are removed, or packets jam the configuration of the board"  *)
(* (iic_srio1848.c:1060): while hlSrioReconfigLUT works, no packet from     *)
(* outside enters through the port and none for the board is forwarded.     *)
NoPacketsWhileConfigured ==
  step = "reconfig" /\ Reliable(Chip) =>
    /\ rxtx[Port] = {"output"}
    /\ \A id \in IDsOf(Port) : lut[Chip][id] = Discard

(* Meanwhile maintenance packets reach the board: from chip 0, the routes   *)
(* of the host ID lead to its port, whichever chip was repaired before.     *)
MaintenanceReaches ==
  step = "reconfig" /\ Reliable(0) /\ Reliable(Chip) =>
    /\ lut[Chip][HostID] = Port[2]
    /\ Chip # 0 => lut[0][HostID] = Uplink[Chip]

(* A port is open only with the routes to its board: no order of repairs    *)
(* and give-ups leaves an open port whose packets are discarded.            *)
OpenMeansRouted ==
  \A p \in Ports :
    Open(p) /\ Reliable(p[1]) => \A id \in IDsOf(p) : lut[p[1]][id] = p[2]

(* From reset_1848_ackid until the port lets packets out again, its ackid   *)
(* stays reset: the partner answers from ackid 0.                           *)
AckidStaysReset ==
  step \in {"request", "response", "resync", "announce", "mode"} /\ Reliable(Chip)
    => ackid[Port] = 0

ResetsLate == \E p \in Ports : Late(p) /\ PartnerResets(p)

(* A board that was reset gets its configuration and its open port back,    *)
(* also when another one is behind a dead chip, whose failed reads look     *)
(* like a reset partner, unless the watch is held at one that is reset late *)
(* again and again in the loop that clears the registers.                   *)
ResetIsRepaired ==
  \/ \A p \in Ports :
       errs[p] = Errors /\ Reliable(p[1])
         ~> (Open(p) /\ configured[p]) \/ p \in late \cup wiped
  \/ []<><<ResetsLate>>_vars

(* "Repair failed" (iic_srio1848.c:1038).  Here: the repair is given up     *)
(* only if the partner has not answered the last request.                   *)
FailsOnlyUnanswered ==
  [][step = "response" /\ step' = "detect" => response[Port] # "valid"]_vars

(* The entries still to be written, and where the writing of them leads to. *)
Writing == {"lutIndex", "lutData"}
Pending == IF step \in Writing THEN Elements(todo) ELSE {}
At      == IF step \in Writing THEN after ELSE step

(* The watch takes the ports of the chips that always answer through the    *)
(* cycle of PortCycle: it closes only the port of a board that was reset,   *)
(* lets one board at a time be configured, with no packet going to it, and  *)
(* opens a port only after that and with all routes back, whatever is reset *)
(* meanwhile and whatever happens on the other chips                        *)
(* (iic_srio1848.c:1004-1113).                                              *)
Boards   == {p \in Ports : Reliable(p[1])}
Phase(p) ==
  CASE Open(p)      -> "open"
    [] rxtx[p] = {} -> "shut"
    [] OTHER        -> IF p = Port /\ At = "openWrite" THEN "configured" ELSE "maintenance"
RoutesTo(p) == {id \in IDsOf(p) : lut[p[1]][id] = p[2]}

Cycle == INSTANCE PortCycle WITH
  Nodes <- [p \in Boards |-> IDsOf(p)],
  phase <- [p \in Boards |-> Phase(p)],
  routes <- [p \in Boards |-> RoutesTo(p)],
  configured <- [p \in Boards |-> configured[p]]
ImplementsCycle == Cycle!Spec

-----------------------------------------------------------------------------
(* What makes the invariants inductive.                                     *)

Routed(c, id, port) == lut[c][id] = port \/ <<c, id, port>> \in Pending

HostEntries ==
  {<<Chip, HostID, Port[2]>>} \cup (IF Chip = 0 THEN {} ELSE {<<0, HostID, Uplink[Chip]>>})

EntriesFor(next) ==
  IF next = "reconfig" THEN HostEntries
  ELSE {<<Chip, id, IF next = "mode" THEN Discard ELSE Port[2]>> : id \in IDsOf(Port)}

RetryOK == step \in {"request", "response"} => retry <= MaxRetry

(* Only entries of the current port are written, each after its index.      *)
TodoOK ==
  /\ step \in Writing =>
       /\ todo # <<>> /\ after \in {"mode", "reconfig", "openWrite"}
       /\ Elements(todo) \subseteq EntriesFor(after)
  /\ step = "lutData" /\ Reliable(Head(todo)[1])
       => lutIndex[Head(todo)[1]] = Head(todo)[2]

BeforeMode == {"closeRead", "wait", "resetAckid", "request", "response", "resync",
               "announce", "mode"}
BeforeOpen == {"reconfig", "openWrite"}
Clearing   == {"openRead", "clearLane", "clearPort", "recheck", "recheckLane"}

(* The port is closed, lets packets out, is open.                           *)
PortOK ==
  Reliable(Chip) =>
    /\ At \in BeforeMode => rxtx[Port] = {}
    /\ At \in BeforeOpen => rxtx[Port] = {"output"}
    /\ At \in Clearing   => rxtx[Port] = RxTx

(* Every other port is closed or open.                                      *)
MaintainedOK ==
  \A p \in Boards : rxtx[p] \in {{}, RxTx} \/ (p = Port /\ At \in BeforeOpen)

(* The routes the repair has written or is writing.                         *)
RoutesOK ==
  Reliable(Chip) =>
    /\ At = "mode" => \A id \in IDsOf(Port) : Routed(Chip, id, Discard)
    /\ At = "reconfig" =>
         /\ \A id \in IDsOf(Port) : lut[Chip][id] = Discard
         /\ Routed(Chip, HostID, Port[2])
         /\ Chip # 0 /\ Reliable(0) => Routed(0, HostID, Uplink[Chip])
    /\ At = "openWrite" => \A id \in IDsOf(Port) : Routed(Chip, id, Port[2])

AckidOK ==
  Reliable(Chip) /\ At \in {"request", "response", "resync", "announce", "mode"}
    => ackid[Port] = 0

(* The trace of a reset: there until the board is configured, unless the    *)
(* operator took it; then gone with the registers, unless the reset is late.*)
Early     == BeforeMode \cup {"closeWrite", "reconfig"}
LateSteps == {"openWrite"} \cup Clearing

InOrder(p) == Open(p) /\ configured[p]

TraceIdle ==
  \A p \in Ports : Reliable(p[1]) /\ ~ Repairing(p) /\ InOrder(p) => errs[p] = {}

TraceCurrent ==
  Reliable(Chip) =>
    /\ step = "lane" /\ errSeen =>
         ~ InOrder(Port) /\ ("port" \in errs[Port] \/ Port \in wiped)
    /\ At \in Early => ~ InOrder(Port) /\ (errs[Port] = Errors \/ Port \in wiped)
    /\ At \in LateSteps => configured[Port] \/ Port \in late
    /\ step = "clearPort" /\ configured[Port] => "lane" \notin errs[Port]
    /\ step \in {"recheck", "recheckLane"} /\ configured[Port] => errs[Port] = {}

IInv ==
  /\ TypeOK /\ RetryOK /\ TodoOK /\ PortOK /\ MaintainedOK /\ RoutesOK /\ OpenMeansRouted
  /\ AckidOK /\ TraceIdle /\ TraceCurrent /\ NothingForgotten
=============================================================================
