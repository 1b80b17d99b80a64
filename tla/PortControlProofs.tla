-------------------------- MODULE PortControlProofs --------------------------
(***************************************************************************)
(* Proofs about PortControl, for any sets of flows that run together, all  *)
(* three included.                                                         *)
(***************************************************************************)
EXTENDS PortControl, TLAPS

ClosePlaces == {"closeGet", "closeSet", "closeTest"}
OpenPlaces  == {"openGet", "openSet", "openTest"}

(* Where the menu is when it has not yet disabled or locked the port, has   *)
(* disabled it, has locked it.                                              *)
Untouched == {"idle", "disGet", "disSet", "endPoints", "others", "scan", "lockGet", "lockSet",
              "clear"}
Disabled  == {"pll", "lanes", "resetPort", "enGet", "enSet"}
Locked    == {"recover", "unlockGet", "unlockSet"}

(* Without an overlap a flow writes back what is still in the register.     *)
Fresh == ~ overlap => \A f \in Flows : pc[f] \in Changing => data[f] = reg

(* The thread closes for a STOP and opens for a RESTORE.                    *)
ThreadKnows ==
  /\ pc["thread"] \in ClosePlaces => stopped
  /\ pc["thread"] \in OpenPlaces => ~ stopped

(* A closed port without a reason is still being worked on.                 *)
Owed ==
  Undisturbed =>
    \/ Gates \subseteq reg \/ stopped \/ givenUp
    \/ pc["thread"] # "idle" \/ pc["child"] # "idle"

(* What the menu has done to pll and lanes at each place.                   *)
SpeedSteps ==
  LET at == pc["menu"]
  IN  flows = {"menu"} =>
        /\ at \in Disabled => "dis" \in reg
        /\ at \in Untouched \cup Locked => \A l \in Lanes : lane[l] = lane[0]
        /\ at \in {"disGet", "disSet", "pll"} => next = 0
        /\ at \notin {"disGet", "disSet", "pll"} => pll = PllOf(speed)
        /\ at = "lanes" => \A l \in Lanes : l < next => lane[l] = RateOf(speed)
        /\ at \notin {"disGet", "disSet", "pll", "lanes"} => \A l \in Lanes : lane[l] = RateOf(speed)

(* What the menu leaves in the register at each place, without an overlap.  *)
Traces ==
  ~ overlap =>
    /\ pc["menu"] \in Untouched => reg \cap {"dis", "lock"} = {}
    /\ pc["menu"] \in Disabled => "lock" \notin reg
    /\ pc["menu"] \in Locked => "dis" \notin reg

-----------------------------------------------------------------------------
LEMMA PlacesOf ==
  /\ Places["thread"] = {"idle", "closeGet", "closeSet", "closeTest", "openGet", "openSet", "openTest"}
  /\ Places["child"] = {"idle", "down", "mode", "closeGet", "closeSet", "closeTest", "openGet",
                        "openSet", "openTest"}
  /\ Places["menu"] = {"idle", "disGet", "disSet", "pll", "lanes", "resetPort", "enGet", "enSet",
                       "endPoints", "others", "scan", "lockGet", "lockSet", "recover",
                       "unlockGet", "unlockSet", "clear"}
BY DEF Places, GatePlaces

(* The three kinds of step keep registers, copies and places well formed.   *)
RegType ==
  /\ flows \subseteq Flows
  /\ reg \subseteq Bits
  /\ pc \in [Flows -> AllPlaces]
  /\ \A f \in Flows : pc[f] \in IF f \in flows THEN Places[f] ELSE {"idle"}
  /\ data \in [Flows -> SUBSET Bits]
  /\ overlap \in BOOLEAN

HistType ==
  /\ stopped \in BOOLEAN /\ reopened \in BOOLEAN /\ givenUp \in BOOLEAN
  /\ speed \in 0 .. 2 /\ pll \in {0, 1} /\ lane \in [Lanes -> Rates] /\ next \in Lanes
  /\ port \in PortKinds /\ pass \in {"endPoints", "scan"} /\ errStop \in BOOLEAN

LEMMA TypeParts == TypeOK <=> RegType /\ HistType
BY DEF TypeOK, RegType, HistType

LEMMA Moved ==
  ASSUME RegType, NEW f \in Flows, f \in flows, NEW there \in Places[f],
         pc' = [pc EXCEPT ![f] = there], UNCHANGED flows
  PROVE  /\ pc' \in [Flows -> AllPlaces]
         /\ \A g \in Flows : pc'[g] \in IF g \in flows' THEN Places[g] ELSE {"idle"}
<1>1. there \in AllPlaces
  BY DEF AllPlaces, Flows
<1> QED
  BY <1>1 DEF RegType

LEMMA GetType ==
  ASSUME RegType, NEW f \in Flows, NEW here, NEW there \in Places[f], Get(f, here, there)
  PROVE  RegType'
<1>1. f \in flows /\ pc' = [pc EXCEPT ![f] = there] /\ UNCHANGED <<flows, reg, overlap>>
  BY DEF Get
<1>2. data' \in [Flows -> SUBSET Bits]
  BY DEF Get, RegType
<1> QED
  BY <1>1, <1>2, Moved DEF RegType

LEMMA SetType ==
  ASSUME RegType, NEW f \in Flows, NEW here, NEW there \in Places[f], NEW bits \in SUBSET Bits,
         Set(f, here, there, bits)
  PROVE  RegType'
<1>1. f \in flows /\ pc' = [pc EXCEPT ![f] = there] /\ UNCHANGED flows /\ reg' = bits
  BY DEF Set
<1>2. data' \in [Flows -> SUBSET Bits]
  BY DEF Set, RegType
<1>3. overlap' \in BOOLEAN
  BY Zenon DEF Set, RegType
<1> QED
  BY <1>1, <1>2, <1>3, Moved DEF RegType

LEMMA GoesType ==
  ASSUME RegType, NEW f \in Flows, NEW here, NEW there \in Places[f], Goes(f, here, there)
  PROVE  RegType'
<1>1. f \in flows /\ pc' = [pc EXCEPT ![f] = there] /\ UNCHANGED <<flows, reg, data, overlap>>
  BY DEF Goes
<1> QED
  BY <1>1, Moved DEF RegType

(* The copies and what is written from them are bits of the register.       *)
LEMMA BitTypes ==
  ASSUME RegType
  PROVE  /\ \A f \in Flows : data[f] \in SUBSET Bits
         /\ \A f \in Flows : data[f] \ Gates \in SUBSET Bits /\ data[f] \cup Gates \in SUBSET Bits
         /\ data["menu"] \cup {"dis"} \in SUBSET Bits /\ data["menu"] \ {"dis"} \in SUBSET Bits
         /\ data["menu"] \cup {"lock"} \in SUBSET Bits /\ data["menu"] \ {"lock"} \in SUBSET Bits
         /\ {"out"} \in SUBSET Bits
<1>1. \A f \in Flows : data[f] \in SUBSET Bits
  BY DEF RegType
<1>2. "menu" \in Flows /\ Gates \subseteq Bits /\ "dis" \in Bits /\ "lock" \in Bits /\ "out" \in Bits
  BY DEF Flows, Gates, Bits
<1> QED
  BY <1>1, <1>2

LEMMA GateType ==
  ASSUME RegType, NEW f \in {"thread", "child"}, GateLoop(f)
  PROVE  RegType'
<1>1. f \in Flows /\ GatePlaces \cup {"idle"} \subseteq Places[f] /\ AfterClose(f) \in Places[f]
  BY PlacesOf DEF Flows, GatePlaces, AfterClose
<1>2. \A there \in GatePlaces \cup {"idle"} : there \in Places[f]
  BY <1>1
<1>3. CASE CloseGet(f) \/ CloseLoop(f) \/ OpenGet(f) \/ OpenLoop(f)
  <2>1. "closeSet" \in Places[f] /\ "openSet" \in Places[f]
    BY <1>2 DEF GatePlaces
  <2> QED
    BY <1>1, <1>3, <2>1, GetType DEF CloseGet, CloseLoop, OpenGet, OpenLoop
<1>4. CASE CloseSet(f) \/ OpenSet(f)
  <2>1. "closeTest" \in Places[f] /\ "openTest" \in Places[f]
    BY <1>2 DEF GatePlaces
  <2> QED
    BY <1>1, <1>4, <2>1, BitTypes, SetType DEF CloseSet, OpenSet
<1>5. CASE CloseDone(f) \/ OpenDone(f)
  BY <1>1, <1>2, <1>5, GoesType DEF CloseDone, OpenDone
<1> QED
  BY <1>3, <1>4, <1>5 DEF GateLoop

(* The steps of the repair that go from one of its parts to the next.       *)
RepairPass ==
  \/ RepairKey \/ EndPointsIll \/ OthersRecovered \/ EndPointsWell
  \/ ScanStopped \/ ScanWell \/ Clear

LEMMA RepairGoes ==
  ASSUME RepairPass
  PROVE  \E here, there \in {"idle", "endPoints", "others", "scan", "lockGet", "clear"} :
           Goes("menu", here, there) /\ UNCHANGED <<hist, lvars>>
BY DEF RepairPass, RepairKey, EndPointsIll, OthersRecovered, EndPointsWell, ScanStopped, ScanWell,
       Clear, AfterEndPoints, AfterScan

LEMMA RegStep ==
  ASSUME RegType, Next
  PROVE  RegType'
<1>1. "thread" \in Flows /\ "child" \in Flows /\ "menu" \in Flows
  BY DEF Flows
<1>2. CASE Thread \/ Stop \/ Restore
  <2>1. "closeGet" \in Places["thread"] /\ "openGet" \in Places["thread"]
    BY PlacesOf
  <2> QED
    BY <1>1, <1>2, <2>1, GateType, GoesType DEF Thread, Stop, Restore
<1>3. CASE Child \/ RepairStarts
  <2>1. \A p \in {"idle", "closeGet", "mode", "openGet"} : p \in Places["child"]
    BY PlacesOf
  <2>2. CASE GateLoop("child")
    BY <2>2, GateType
  <2>3. CASE GiveUp \/ PartnerAnswers \/ RepairStarts
    BY <1>1, <2>1, <2>3, GoesType DEF GiveUp, PartnerAnswers, RepairStarts
  <2>4. CASE PortMode
    BY <1>1, <2>1, <2>4, BitTypes, SetType DEF PortMode
  <2> QED
    BY <1>3, <2>2, <2>3, <2>4 DEF Child
<1>4. CASE Menu \/ RepairKey \/ \E s \in 0 .. 2 : SpeedKey(s)
  <2>1. \A p \in {"idle", "disGet", "disSet", "pll", "lanes", "resetPort", "enGet", "enSet",
                  "endPoints", "others", "scan", "lockGet", "lockSet", "recover", "unlockGet",
                  "unlockSet", "clear"} :
          p \in Places["menu"]
    BY PlacesOf
  <2>2. CASE DisGet \/ EnGet \/ LockGet \/ UnlockGet
    BY <1>1, <2>1, <2>2, GetType DEF DisGet, EnGet, LockGet, UnlockGet
  <2>3. CASE DisSet \/ EnSet \/ LockSet \/ UnlockSet
    BY <1>1, <2>1, <2>3, BitTypes, SetType DEF DisSet, EnSet, LockSet, UnlockSet
  <2>4. CASE ChangePll \/ ResetPort \/ Recover \/ \E s \in 0 .. 2 : SpeedKey(s)
    BY <1>1, <2>1, <2>4, GoesType DEF ChangePll, ResetPort, Recover, SpeedKey
  <2>5. CASE ChangeLane
    <3>1. (IF next = 3 THEN "resetPort" ELSE "lanes") \in Places["menu"]
      BY <2>1
    <3> QED
      BY <1>1, <2>5, <3>1, GoesType DEF ChangeLane
  <2>6. CASE RepairPass
    BY <1>1, <2>1, <2>6, RepairGoes, GoesType
  <2> QED
    BY <1>4, <2>2, <2>3, <2>4, <2>5, <2>6 DEF Menu, RepairPass
<1>5. CASE LinkFails
  BY <1>5 DEF LinkFails, RegType
<1> QED
  BY <1>2, <1>3, <1>4, <1>5 DEF Next

LEMMA HistStep ==
  ASSUME HistType, Next
  PROVE  HistType'
<1> USE DEF HistType
<1>1. ASSUME NEW f \in {"thread", "child"}, GateLoop(f)
      PROVE  HistType'
  BY <1>1 DEF GateLoop, CloseGet, CloseSet, CloseLoop, CloseDone, OpenGet, OpenSet, OpenLoop,
              OpenDone, hist, lvars, link
<1>2. CASE Stop \/ Restore \/ RepairStarts \/ GiveUp \/ PartnerAnswers \/ PortMode
  BY <1>2 DEF Stop, Restore, RepairStarts, GiveUp, PartnerAnswers, PortMode, hist, lvars, link
<1>3. CASE \/ DisGet \/ DisSet \/ ResetPort \/ EnGet \/ EnSet \/ LockGet \/ LockSet
           \/ Recover \/ UnlockGet \/ UnlockSet \/ LinkFails
  BY <1>3 DEF DisGet, DisSet, ResetPort, EnGet, EnSet, LockGet, LockSet, Recover,
              UnlockGet, UnlockSet, LinkFails, hist, lvars, link
<1>7. CASE RepairPass
  BY <1>7 DEF RepairPass, RepairKey, EndPointsIll, OthersRecovered, EndPointsWell, ScanStopped,
              ScanWell, Clear, hist, lvars, link
<1>4. ASSUME NEW s \in 0 .. 2, SpeedKey(s)
      PROVE  HistType'
  BY <1>4 DEF SpeedKey, hist, Lanes, link
<1>5. CASE ChangePll
  BY <1>5 DEF ChangePll, PllOf, hist, link
<1>6. CASE ChangeLane
  <2>1. RateOf(speed) \in Rates
    BY DEF RateOf, Rates
  <2>2. next' \in Lanes /\ lane' \in [Lanes -> Rates]
    BY <1>6, <2>1 DEF ChangeLane, Lanes
  <2> QED
    BY <1>6, <2>2 DEF ChangeLane, hist, link
<1> QED
  BY <1>1, <1>2, <1>3, <1>4, <1>5, <1>6, <1>7 DEF Next, Thread, Child, Menu, RepairPass

LEMMA TypeStep ==
  ASSUME TypeOK, [Next]_vars
  PROVE  TypeOK'
<1>1. CASE Next
  <2>1. RegType' /\ HistType'
    BY <1>1, TypeParts, RegStep, HistStep
  <2> QED
    BY <2>1 DEF TypeOK, RegType, HistType
<1>2. CASE UNCHANGED vars
  BY <1>2 DEF TypeOK, vars, hist, lvars, link
<1> QED
  BY <1>1, <1>2

LEMMA TypeInit ==
  ASSUME Init
  PROVE  TypeOK
<1>1. RegType
  <2>1. \A f \in Flows : "idle" \in Places[f]
    BY PlacesOf DEF Flows
  <2>2. "idle" \in AllPlaces
    BY PlacesOf DEF AllPlaces
  <2>3. Gates \subseteq Bits
    BY DEF Gates, Bits
  <2> QED
    BY <2>1, <2>2, <2>3, FlowsAssumption DEF Init, RegType
<1>2. HistType
  <2>1. /\ stopped \in BOOLEAN /\ reopened \in BOOLEAN /\ givenUp \in BOOLEAN
        /\ port \in PortKinds /\ pass \in {"endPoints", "scan"} /\ errStop \in BOOLEAN
    BY DEF Init
  <2>2. PllOf(0) \in {0, 1} /\ RateOf(0) \in Rates
    BY DEF PllOf, RateOf, Rates
  <2>3. pll \in {0, 1} /\ lane \in [Lanes -> Rates]
    BY <2>2 DEF Init
  <2>4. speed \in 0 .. 2 /\ next \in Lanes
    BY DEF Init, Lanes
  <2> QED
    BY <2>1, <2>3, <2>4 DEF HistType
<1> QED
  BY <1>1, <1>2, TypeParts

-----------------------------------------------------------------------------
(* What the three kinds of step do to the places of the flows, and to the   *)
(* agreement of copies and register.                                        *)
LEMMA GetDoes ==
  ASSUME RegType, NEW f \in Flows, NEW here, NEW there, Get(f, here, there)
  PROVE  /\ f \in flows /\ pc[f] = here /\ pc'[f] = there
         /\ \A g \in Flows : g # f => pc'[g] = pc[g]
         /\ flows' = flows /\ reg' = reg /\ overlap' = overlap
         /\ Fresh => Fresh'
<1>1. /\ f \in flows /\ pc[f] = here /\ pc' = [pc EXCEPT ![f] = there]
      /\ data' = [data EXCEPT ![f] = reg]
      /\ flows' = flows /\ reg' = reg /\ overlap' = overlap
  BY DEF Get
<1>2. /\ pc'[f] = there /\ data'[f] = reg
      /\ \A g \in Flows : g # f => pc'[g] = pc[g] /\ data'[g] = data[g]
  BY <1>1 DEF RegType
<1> QED
  BY <1>1, <1>2 DEF Fresh

LEMMA SetDoes ==
  ASSUME RegType, NEW f \in Flows, NEW here, NEW there, NEW bits, Set(f, here, there, bits)
  PROVE  /\ f \in flows /\ pc[f] = here /\ pc'[f] = there
         /\ \A g \in Flows : g # f => pc'[g] = pc[g]
         /\ flows' = flows /\ reg' = bits
         /\ ~ overlap' => ~ overlap
         /\ there \notin Changing => Fresh'
<1>1. /\ f \in flows /\ pc[f] = here /\ pc' = [pc EXCEPT ![f] = there]
      /\ flows' = flows /\ reg' = bits
      /\ overlap' = (overlap \/ \E g \in Flows \ {f} : pc[g] \in Changing)
  BY DEF Set
<1>2. pc'[f] = there /\ \A g \in Flows : g # f => pc'[g] = pc[g]
  BY <1>1 DEF RegType
<1>3. ~ overlap' => ~ overlap /\ \A g \in Flows : g # f => pc[g] \notin Changing
  BY <1>1
<1> QED
  BY <1>1, <1>2, <1>3 DEF Fresh

LEMMA GoesDoes ==
  ASSUME RegType, NEW f \in Flows, NEW here, NEW there, Goes(f, here, there)
  PROVE  /\ f \in flows /\ pc[f] = here /\ pc'[f] = there
         /\ \A g \in Flows : g # f => pc'[g] = pc[g]
         /\ flows' = flows /\ reg' = reg /\ overlap' = overlap
         /\ Fresh /\ there \notin Changing => Fresh'
<1>1. /\ f \in flows /\ pc[f] = here /\ pc' = [pc EXCEPT ![f] = there]
      /\ flows' = flows /\ reg' = reg /\ data' = data /\ overlap' = overlap
  BY DEF Goes
<1>2. pc'[f] = there /\ \A g \in Flows : g # f => pc'[g] = pc[g]
  BY <1>1 DEF RegType
<1> QED
  BY <1>1, <1>2 DEF Fresh

(* Without an overlap the copy that is written is the register's.           *)
LEMMA FreshCopy ==
  ASSUME Fresh, NEW f \in Flows, pc[f] \in Changing, ~ overlap
  PROVE  data[f] = reg
BY DEF Fresh

-----------------------------------------------------------------------------
(* The parts of the invariant, for the steps of the gate loops and the      *)
(* other steps of thread and child.                                         *)
Parts == Fresh /\ ThreadKnows /\ Owed /\ StoppedUnlessRepaired /\ SpeedSteps /\ Traces

(* What concerns the menu only is left alone by a step that moves another   *)
(* flow and adds no bit of maintenance to the register.                     *)
LEMMA MenuKept ==
  ASSUME RegType, SpeedSteps, Traces, UNCHANGED lvars, flows' = flows,
         NEW f \in {"thread", "child"}, f \in flows, pc'["menu"] = pc["menu"],
         ~ overlap' => ~ overlap,
         ~ overlap => reg' \cap {"dis", "lock"} \subseteq reg
  PROVE  SpeedSteps' /\ Traces'
<1>1. flows' # {"menu"}
  OBVIOUS
<1>2. SpeedSteps'
  BY <1>1 DEF SpeedSteps
<1>3. Traces'
  BY DEF Traces
<1> QED
  BY <1>2, <1>3

LEMMA FlowNames ==
  /\ "thread" \in Flows /\ "child" \in Flows /\ "menu" \in Flows
  /\ "thread" # "child" /\ "thread" # "menu" /\ "child" # "menu"
  /\ \A f \in {"thread", "child"} : f \in Flows /\ f # "menu"
BY DEF Flows

LEMMA GateStep ==
  ASSUME RegType, Parts, NEW f \in {"thread", "child"}, GateLoop(f)
  PROVE  Parts'
<1> USE FlowNames DEF Parts
<1>1. CASE CloseGet(f) \/ CloseLoop(f) \/ OpenGet(f) \/ OpenLoop(f)
  <2>1. PICK here, there :
          /\ Get(f, here, there)
          /\ <<here, there>> \in {<<"closeGet", "closeSet">>, <<"closeTest", "closeSet">>,
                                  <<"openGet", "openSet">>, <<"openTest", "openSet">>}
          /\ UNCHANGED <<hist, lvars, link>>
    BY <1>1 DEF CloseGet, CloseLoop, OpenGet, OpenLoop
  <2>2. /\ pc[f] = here /\ pc'[f] = there /\ f \in flows
        /\ \A g \in Flows : g # f => pc'[g] = pc[g]
        /\ flows' = flows /\ reg' = reg /\ overlap' = overlap /\ Fresh'
    BY <2>1, GetDoes
  <2>3. /\ here # "idle" /\ there # "idle"
        /\ here \in ClosePlaces <=> there \in ClosePlaces
        /\ here \in OpenPlaces <=> there \in OpenPlaces
    BY <2>1 DEF ClosePlaces, OpenPlaces
  <2>4. SpeedSteps' /\ Traces'
    BY <2>1, <2>2, MenuKept
  <2>5. ThreadKnows'
    BY <2>1, <2>2, <2>3 DEF ThreadKnows, hist
  <2>6. Owed' /\ StoppedUnlessRepaired'
    BY <2>1, <2>2, <2>3 DEF Owed, StoppedUnlessRepaired, Undisturbed, hist
  <2> QED
    BY <2>2, <2>4, <2>5, <2>6
<1>2. CASE CloseSet(f)
  <2>1. /\ Set(f, "closeSet", "closeTest", data[f] \ Gates)
        /\ UNCHANGED <<hist, lvars, link>>
    BY <1>2 DEF CloseSet
  <2>2. /\ pc[f] = "closeSet" /\ pc'[f] = "closeTest" /\ f \in flows
        /\ \A g \in Flows : g # f => pc'[g] = pc[g]
        /\ flows' = flows /\ reg' = data[f] \ Gates /\ (~ overlap' => ~ overlap) /\ Fresh'
    BY <2>1, SetDoes DEF Changing
  <2>3. ~ overlap => data[f] = reg
    BY <2>2, FreshCopy DEF Changing
  <2>4. SpeedSteps' /\ Traces'
    BY <2>1, <2>2, <2>3, MenuKept
  <2>5. ThreadKnows'
    BY <2>1, <2>2 DEF ThreadKnows, ClosePlaces, OpenPlaces, hist
  <2>6. Owed'
    BY <2>2 DEF Owed
  <2>7. StoppedUnlessRepaired'
    BY <2>2 DEF StoppedUnlessRepaired
  <2> QED
    BY <2>2, <2>4, <2>5, <2>6, <2>7
<1>3. CASE OpenSet(f)
  <2>1. /\ Set(f, "openSet", "openTest", data[f] \cup Gates)
        /\ reopened' = (reopened \/ f = "child")
        /\ UNCHANGED <<stopped, givenUp, lvars, link>>
    BY <1>3 DEF OpenSet
  <2>2. /\ pc[f] = "openSet" /\ pc'[f] = "openTest" /\ f \in flows
        /\ \A g \in Flows : g # f => pc'[g] = pc[g]
        /\ flows' = flows /\ reg' = data[f] \cup Gates /\ (~ overlap' => ~ overlap) /\ Fresh'
    BY <2>1, SetDoes DEF Changing
  <2>3. ~ overlap => data[f] = reg
    BY <2>2, FreshCopy DEF Changing
  <2>4. SpeedSteps' /\ Traces'
    <3>1. ~ overlap => reg' \cap {"dis", "lock"} \subseteq reg
      BY <2>2, <2>3 DEF Gates
    <3> QED
      BY <2>1, <2>2, <3>1, MenuKept
  <2>5. ThreadKnows'
    BY <2>1, <2>2 DEF ThreadKnows, ClosePlaces, OpenPlaces
  <2>6. Owed'
    BY <2>2 DEF Owed
  <2>7. StoppedUnlessRepaired'
    <3>1. f = "child" => reopened'
      BY <2>1
    <3>2. f = "thread" => pc'["thread"] # "idle"
      BY <2>2
    <3> QED
      BY <3>1, <3>2 DEF StoppedUnlessRepaired
  <2> QED
    BY <2>2, <2>4, <2>5, <2>6, <2>7
<1>4. CASE CloseDone(f)
  <2>1. /\ Goes(f, "closeTest", AfterClose(f)) /\ reg \cap Gates = {}
        /\ UNCHANGED <<hist, lvars, link>>
    BY <1>4 DEF CloseDone
  <2>2. AfterClose(f) = IF f = "thread" THEN "idle" ELSE "down"
    BY DEF AfterClose
  <2>3. /\ pc[f] = "closeTest" /\ pc'[f] = AfterClose(f) /\ f \in flows
        /\ \A g \in Flows : g # f => pc'[g] = pc[g]
        /\ flows' = flows /\ reg' = reg /\ overlap' = overlap /\ Fresh'
    BY <2>1, <2>2, GoesDoes DEF Changing
  <2>4. SpeedSteps' /\ Traces'
    BY <2>1, <2>3, MenuKept
  <2>5. ThreadKnows'
    BY <2>1, <2>2, <2>3 DEF ThreadKnows, ClosePlaces, OpenPlaces, hist
  <2>6. Owed'
    <3>1. f = "thread" => stopped'
      BY <2>1, <2>3 DEF ThreadKnows, ClosePlaces, hist
    <3>2. f = "child" => pc'["child"] # "idle"
      BY <2>2, <2>3
    <3> QED
      BY <3>1, <3>2 DEF Owed
  <2>7. StoppedUnlessRepaired'
    BY <2>1, <2>3 DEF StoppedUnlessRepaired
  <2> QED
    BY <2>3, <2>4, <2>5, <2>6, <2>7
<1>5. CASE OpenDone(f)
  <2>1. /\ Goes(f, "openTest", "idle") /\ Gates \subseteq reg
        /\ UNCHANGED <<stopped, reopened, lvars, link>>
    BY <1>5 DEF OpenDone
  <2>2. /\ pc[f] = "openTest" /\ pc'[f] = "idle" /\ f \in flows
        /\ \A g \in Flows : g # f => pc'[g] = pc[g]
        /\ flows' = flows /\ reg' = reg /\ overlap' = overlap /\ Fresh'
    BY <2>1, GoesDoes DEF Changing
  <2>3. SpeedSteps' /\ Traces'
    BY <2>1, <2>2, MenuKept
  <2>4. ThreadKnows'
    BY <2>1, <2>2 DEF ThreadKnows, ClosePlaces, OpenPlaces
  <2>5. Owed'
    BY <2>1, <2>2 DEF Owed
  <2>6. StoppedUnlessRepaired'
    <3>1. f = "thread" => ~ stopped'
      BY <2>1, <2>2 DEF ThreadKnows, OpenPlaces
    <3> QED
      BY <2>1, <2>2, <3>1 DEF StoppedUnlessRepaired, Undisturbed
  <2> QED
    BY <2>2, <2>3, <2>4, <2>5, <2>6
<1> QED
  BY <1>1, <1>2, <1>3, <1>4, <1>5 DEF GateLoop

LEMMA ThreadChildStep ==
  ASSUME RegType, Parts, Stop \/ Restore \/ RepairStarts \/ GiveUp \/ PartnerAnswers \/ PortMode
  PROVE  Parts'
<1> USE FlowNames DEF Parts
<1>1. CASE Stop \/ Restore
  <2>1. PICK there \in {"closeGet", "openGet"} :
          /\ Goes("thread", "idle", there)
          /\ stopped' = (there = "closeGet")
          /\ UNCHANGED <<givenUp, lvars, link>>
    BY <1>1 DEF Stop, Restore
  <2>2. /\ pc["thread"] = "idle" /\ pc'["thread"] = there /\ "thread" \in flows
        /\ \A g \in Flows : g # "thread" => pc'[g] = pc[g]
        /\ flows' = flows /\ reg' = reg /\ overlap' = overlap /\ Fresh'
    BY <2>1, GoesDoes DEF Changing
  <2>3. SpeedSteps' /\ Traces'
    BY <2>1, <2>2, MenuKept
  <2>4. ThreadKnows'
    BY <2>1, <2>2 DEF ThreadKnows, ClosePlaces, OpenPlaces
  <2>5. Owed' /\ StoppedUnlessRepaired'
    BY <2>2 DEF Owed, StoppedUnlessRepaired
  <2> QED
    BY <2>2, <2>3, <2>4, <2>5
<1>2. CASE RepairStarts \/ GiveUp \/ PartnerAnswers
  <2>1. PICK here, there :
          /\ Goes("child", here, there)
          /\ there \in {"closeGet", "idle", "mode"}
          /\ there = "idle" => givenUp'
          /\ UNCHANGED <<stopped, reopened, lvars, link>>
    BY <1>2 DEF RepairStarts, GiveUp, PartnerAnswers, hist
  <2>2. /\ pc'["child"] = there /\ "child" \in flows
        /\ \A g \in Flows : g # "child" => pc'[g] = pc[g]
        /\ flows' = flows /\ reg' = reg /\ overlap' = overlap /\ Fresh'
    BY <2>1, GoesDoes DEF Changing
  <2>3. SpeedSteps' /\ Traces'
    BY <2>1, <2>2, MenuKept
  <2>4. ThreadKnows'
    BY <2>1, <2>2 DEF ThreadKnows
  <2>5. Owed' /\ StoppedUnlessRepaired'
    BY <2>1, <2>2 DEF Owed, StoppedUnlessRepaired, Undisturbed
  <2> QED
    BY <2>2, <2>3, <2>4, <2>5
<1>3. CASE PortMode
  <2>1. /\ Set("child", "mode", "openGet", {"out"})
        /\ reopened' = TRUE
        /\ UNCHANGED <<stopped, givenUp, lvars, link>>
    BY <1>3 DEF PortMode
  <2>2. /\ pc'["child"] = "openGet" /\ "child" \in flows
        /\ \A g \in Flows : g # "child" => pc'[g] = pc[g]
        /\ flows' = flows /\ reg' = {"out"} /\ (~ overlap' => ~ overlap) /\ Fresh'
    BY <2>1, SetDoes DEF Changing
  <2>3. SpeedSteps' /\ Traces'
    BY <2>1, <2>2, MenuKept
  <2>4. ThreadKnows'
    BY <2>1, <2>2 DEF ThreadKnows
  <2>5. Owed' /\ StoppedUnlessRepaired'
    BY <2>1, <2>2 DEF Owed, StoppedUnlessRepaired
  <2> QED
    BY <2>2, <2>3, <2>4, <2>5
<1> QED
  BY <1>1, <1>2, <1>3

-----------------------------------------------------------------------------
(* The steps of the menu.                                                   *)

(* A step of the menu that leaves the gates as they are, or overlaps.       *)
LEMMA GatesKept ==
  ASSUME ThreadKnows, Owed, StoppedUnlessRepaired, UNCHANGED hist, flows' = flows,
         "menu" \in flows, pc'["thread"] = pc["thread"], pc'["child"] = pc["child"],
         ~ overlap' => ~ overlap,
         ~ overlap => reg' \cap Gates = reg \cap Gates
  PROVE  ThreadKnows' /\ Owed' /\ StoppedUnlessRepaired'
<1>1. ThreadKnows'
  BY DEF ThreadKnows, hist
<1>2. Undisturbed' => Undisturbed /\ ~ overlap
  BY DEF Undisturbed
<1>3. Undisturbed' => (Gates \subseteq reg' <=> Gates \subseteq reg)
  BY <1>2
<1>4. Owed'
  BY <1>2, <1>3 DEF Owed, hist
<1>5. StoppedUnlessRepaired'
  BY <1>2 DEF StoppedUnlessRepaired, hist
<1> QED
  BY <1>1, <1>4, <1>5

LEMMA MenuPlaces ==
  /\ Untouched \cap Disabled = {} /\ Untouched \cap Locked = {} /\ Disabled \cap Locked = {}
  /\ "dis" # "lock" /\ {"dis", "lock"} \cap Gates = {}
BY DEF Untouched, Disabled, Locked, Gates

LEMMA MenuGets ==
  ASSUME RegType, Parts, DisGet \/ EnGet \/ LockGet \/ UnlockGet
  PROVE  Parts'
<1> USE FlowNames DEF Parts
<1>1. PICK here, there :
        /\ Get("menu", here, there)
        /\ <<here, there>> \in {<<"disGet", "disSet">>, <<"enGet", "enSet">>,
                                <<"lockGet", "lockSet">>, <<"unlockGet", "unlockSet">>}
        /\ UNCHANGED <<hist, lvars, link>>
  BY DEF DisGet, EnGet, LockGet, UnlockGet
<1>2. /\ pc["menu"] = here /\ pc'["menu"] = there /\ "menu" \in flows
      /\ \A g \in Flows : g # "menu" => pc'[g] = pc[g]
      /\ flows' = flows /\ reg' = reg /\ overlap' = overlap /\ Fresh'
  BY <1>1, GetDoes
<1>3. ThreadKnows' /\ Owed' /\ StoppedUnlessRepaired'
  BY <1>1, <1>2, GatesKept
<1>4. /\ here \in Untouched <=> there \in Untouched
      /\ here \in Disabled <=> there \in Disabled
      /\ here \in Locked <=> there \in Locked
      /\ here \in {"disGet", "disSet"} <=> there \in {"disGet", "disSet"}
      /\ here # "lanes" /\ there # "lanes" /\ here # "pll" /\ there # "pll"
  BY <1>1 DEF Untouched, Disabled, Locked
<1>5. SpeedSteps'
  BY <1>1, <1>2, <1>4 DEF SpeedSteps, lvars
<1>6. Traces'
  BY <1>2, <1>4 DEF Traces
<1> QED
  BY <1>2, <1>3, <1>5, <1>6

LEMMA MenuSets ==
  ASSUME RegType, Parts, DisSet \/ EnSet \/ LockSet \/ UnlockSet
  PROVE  Parts'
<1> USE FlowNames DEF Parts
<1>1. PICK here, there, bits :
        /\ Set("menu", here, there, bits)
        /\ \/ here = "disSet" /\ there = "pll" /\ bits = data["menu"] \cup {"dis"}
           \/ here = "enSet" /\ there = "idle" /\ bits = data["menu"] \ {"dis"}
           \/ here = "lockSet" /\ there = "recover" /\ bits = data["menu"] \cup {"lock"}
           \/ here = "unlockSet" /\ there = "clear" /\ bits = data["menu"] \ {"lock"}
        /\ UNCHANGED <<hist, lvars, link>>
  BY DEF DisSet, EnSet, LockSet, UnlockSet
<1>2. here \in Changing /\ there \notin Changing
  BY <1>1 DEF Changing
<1>3. /\ pc["menu"] = here /\ pc'["menu"] = there /\ "menu" \in flows
      /\ \A g \in Flows : g # "menu" => pc'[g] = pc[g]
      /\ flows' = flows /\ reg' = bits /\ (~ overlap' => ~ overlap) /\ Fresh'
  BY <1>1, <1>2, SetDoes
<1>4. ~ overlap => data["menu"] = reg
  BY <1>2, <1>3, FreshCopy
<1>5. ThreadKnows' /\ Owed' /\ StoppedUnlessRepaired'
  <2>1. ~ overlap => reg' \cap Gates = reg \cap Gates
    BY <1>1, <1>3, <1>4, MenuPlaces
  <2> QED
    BY <1>1, <1>3, <2>1, GatesKept
<1>6. SpeedSteps'
  <2>1. CASE here = "disSet"
    BY <1>1, <1>3, <2>1 DEF SpeedSteps, lvars, Untouched, Disabled, Locked
  <2>2. CASE here # "disSet"
    <3>1. there \in Untouched \cup Locked /\ there \notin Disabled
          /\ there \notin {"disGet", "disSet", "pll", "lanes"}
          /\ here \notin {"disGet", "disSet", "pll", "lanes"}
      BY <1>1, <2>2 DEF Untouched, Disabled, Locked
    <3>2. flows = {"menu"} => /\ pll = PllOf(speed)
                              /\ \A l \in Lanes : lane[l] = RateOf(speed)
      BY <1>3, <3>1 DEF SpeedSteps
    <3>3. 0 \in Lanes
      BY DEF Lanes
    <3> QED
      BY <1>1, <1>3, <3>1, <3>2, <3>3 DEF SpeedSteps, lvars
  <2> QED
    BY <2>1, <2>2
<1>7. Traces'
  <2> SUFFICES ASSUME ~ overlap'
               PROVE  Traces'
    BY DEF Traces
  <2>1. ~ overlap /\ data["menu"] = reg
    BY <1>3, <1>4
  <2>2. CASE here = "disSet"
    BY <1>1, <1>3, <2>1, <2>2 DEF Traces, Untouched, Disabled, Locked
  <2>3. CASE here = "enSet"
    BY <1>1, <1>3, <2>1, <2>3 DEF Traces, Untouched, Disabled, Locked
  <2>4. CASE here = "lockSet"
    BY <1>1, <1>3, <2>1, <2>4 DEF Traces, Untouched, Disabled, Locked
  <2>5. CASE here = "unlockSet"
    BY <1>1, <1>3, <2>1, <2>5 DEF Traces, Untouched, Disabled, Locked
  <2> QED
    BY <1>1, <2>2, <2>3, <2>4, <2>5
<1> QED
  BY <1>3, <1>5, <1>6, <1>7

LEMMA MenuGoes ==
  ASSUME RegType, HistType, Parts,
         \/ ChangePll \/ ChangeLane \/ ResetPort \/ Recover \/ RepairPass
         \/ \E s \in 0 .. 2 : SpeedKey(s)
  PROVE  Parts'
<1> USE FlowNames DEF Parts
<1>1. PICK here, there :
        /\ Goes("menu", here, there)
        /\ there \notin Changing
        /\ UNCHANGED hist
        /\ \/ here \in Untouched /\ there \in Untouched
           \/ here \in Disabled /\ there \in Disabled
           \/ here \in Locked /\ there \in Locked
        /\ \/ /\ ~ (here = "idle" /\ there = "disGet") /\ here \notin {"pll", "lanes"}
              /\ there \notin {"disGet", "disSet", "pll", "lanes"}
              /\ here \notin {"disGet", "disSet"}
              /\ UNCHANGED lvars
           \/ here = "idle" /\ there = "disGet" /\ next' = 0 /\ UNCHANGED <<pll, lane>>
           \/ here = "pll" /\ there = "lanes" /\ pll' = PllOf(speed) /\ UNCHANGED <<speed, lane, next>>
           \/ /\ here = "lanes" /\ there = IF next = 3 THEN "resetPort" ELSE "lanes"
              /\ lane' = [lane EXCEPT ![next] = RateOf(speed)]
              /\ next' = IF next = 3 THEN 0 ELSE next + 1
              /\ UNCHANGED <<speed, pll>>
  <2> USE DEF Changing, Untouched, Disabled, Locked
  <2>1. CASE ChangePll
    BY <2>1 DEF ChangePll
  <2>2. CASE ChangeLane
    BY <2>2 DEF ChangeLane
  <2>3. CASE ResetPort \/ Recover
    BY <2>3 DEF ResetPort, Recover
  <2>4. CASE RepairPass
    BY <2>4, RepairGoes
  <2>5. CASE \E s \in 0 .. 2 : SpeedKey(s)
    BY <2>5 DEF SpeedKey
  <2> QED
    BY <2>1, <2>2, <2>3, <2>4, <2>5
<1>2. /\ pc["menu"] = here /\ pc'["menu"] = there /\ "menu" \in flows
      /\ \A g \in Flows : g # "menu" => pc'[g] = pc[g]
      /\ flows' = flows /\ reg' = reg /\ overlap' = overlap /\ Fresh'
  BY <1>1, GoesDoes
<1>3. ThreadKnows' /\ Owed' /\ StoppedUnlessRepaired'
  BY <1>1, <1>2, GatesKept
<1>4. Traces'
  BY <1>1, <1>2, MenuPlaces DEF Traces
<1>5. SpeedSteps'
  <2>1. 0 \in Lanes /\ next \in 0 .. 3 /\ lane \in [Lanes -> Rates] /\ Lanes = 0 .. 3
    BY DEF HistType, Lanes
  <2>2. (there \in Disabled => here \in Disabled) /\ (there \in Disabled <=> there \notin Untouched \cup Locked)
    BY <1>1, MenuPlaces
  <2>3. flows = {"menu"} /\ there \in Disabled => "dis" \in reg
    BY <1>2, <2>2 DEF SpeedSteps
  <2>4. CASE here \notin {"idle", "pll", "lanes"} \/ (here = "idle" /\ there # "disGet")
    <3>1. /\ UNCHANGED lvars /\ there \notin {"disGet", "disSet", "pll", "lanes"}
          /\ here \notin {"disGet", "disSet", "pll", "lanes"}
      BY <1>1, <2>4
    <3>2. flows = {"menu"} => /\ pll = PllOf(speed)
                              /\ \A l \in Lanes : lane[l] = RateOf(speed)
      BY <1>2, <3>1 DEF SpeedSteps
    <3> QED
      BY <1>2, <2>1, <2>3, <3>1, <3>2 DEF SpeedSteps, lvars
  <2>5. CASE here = "idle" /\ there = "disGet"
    <3>1. next' = 0 /\ UNCHANGED <<pll, lane>>
      BY <1>1, <2>5
    <3>2. flows = {"menu"} => \A l \in Lanes : lane[l] = lane[0]
      BY <1>2, <2>5 DEF SpeedSteps, Untouched
    <3> QED
      BY <1>2, <2>3, <2>5, <3>1, <3>2 DEF SpeedSteps, Disabled
  <2>6. CASE here = "pll"
    <3>1. there = "lanes" /\ pll' = PllOf(speed) /\ UNCHANGED <<speed, lane, next>>
      BY <1>1, <2>6
    <3>2. flows = {"menu"} => next = 0
      BY <1>2, <2>6 DEF SpeedSteps
    <3> QED
      BY <1>2, <2>1, <2>3, <3>1, <3>2 DEF SpeedSteps, Untouched, Locked
  <2>7. CASE here = "lanes"
    <3>1. /\ there = IF next = 3 THEN "resetPort" ELSE "lanes"
          /\ lane' = [lane EXCEPT ![next] = RateOf(speed)]
          /\ next' = IF next = 3 THEN 0 ELSE next + 1
          /\ UNCHANGED <<speed, pll>>
      BY <1>1, <2>7
    <3>2. flows = {"menu"} =>
            pll = PllOf(speed) /\ \A l \in Lanes : l < next => lane[l] = RateOf(speed)
      BY <1>2, <2>7 DEF SpeedSteps
    <3>3. flows = {"menu"} => \A l \in Lanes : l < next + 1 => lane'[l] = RateOf(speed)
      BY <2>1, <3>1, <3>2
    <3>4. flows = {"menu"} /\ next = 3 => \A l \in Lanes : lane'[l] = RateOf(speed)
      BY <2>1, <3>3
    <3>5. there \in {"resetPort", "lanes"} /\ there \in Disabled
      BY <3>1 DEF Disabled
    <3> QED
      BY <1>2, <2>1, <2>2, <2>3, <3>1, <3>2, <3>3, <3>4, <3>5 DEF SpeedSteps
  <2> QED
    BY <1>1, <2>4, <2>5, <2>6, <2>7
<1> QED
  BY <1>2, <1>3, <1>4, <1>5

LEMMA PartsStep ==
  ASSUME TypeOK, Parts, [Next]_vars
  PROVE  Parts'
<1>1. RegType /\ HistType
  BY TypeParts
<1>2. CASE Thread \/ Child \/ Stop \/ Restore \/ RepairStarts
  BY <1>1, <1>2, GateStep, ThreadChildStep DEF Thread, Child
<1>3. CASE Menu \/ RepairKey \/ \E s \in 0 .. 2 : SpeedKey(s)
  BY <1>1, <1>3, MenuGets, MenuSets, MenuGoes DEF Menu, RepairPass
<1>4. CASE LinkFails
  BY <1>4 DEF LinkFails, Parts, Fresh, ThreadKnows, Owed, StoppedUnlessRepaired, Undisturbed,
              SpeedSteps, Traces, hist, lvars, link
<1>5. CASE UNCHANGED vars
  BY <1>5 DEF vars, Parts, Fresh, ThreadKnows, Owed, StoppedUnlessRepaired, Undisturbed,
              SpeedSteps, Traces, hist, lvars, link
<1> QED
  BY <1>2, <1>3, <1>4, <1>5 DEF Next

LEMMA PartsInit ==
  ASSUME Init
  PROVE  Parts
<1>1. pc["thread"] = "idle" /\ pc["child"] = "idle" /\ pc["menu"] = "idle" /\ 0 \in Lanes
  BY FlowNames DEF Init, Lanes
<1>2. \A f \in Flows : pc[f] \notin Changing
  BY DEF Init, Changing
<1>3. /\ pll = PllOf(speed) /\ \A l \in Lanes : lane[l] = RateOf(speed)
      /\ ~ stopped /\ reg = Gates
  BY DEF Init
<1>4. Fresh /\ ThreadKnows /\ Owed /\ StoppedUnlessRepaired
  BY <1>1, <1>2, <1>3 DEF Fresh, ThreadKnows, ClosePlaces, OpenPlaces, Owed, StoppedUnlessRepaired
<1>5. SpeedSteps
  BY <1>1, <1>3 DEF SpeedSteps, Disabled
<1>6. Traces
  BY <1>1, <1>3, MenuPlaces DEF Traces, Disabled, Locked
<1> QED
  BY <1>4, <1>5, <1>6 DEF Parts

-----------------------------------------------------------------------------
(* Register, copies and places are well formed, whatever runs together.     *)
THEOREM PortTypeCorrect == Spec => []TypeOK
<1>1. TypeOK /\ [Next]_vars => TypeOK'
  BY TypeStep
<1> QED
  BY TypeInit, <1>1, PTL DEF Spec

THEOREM PortInvariant == Spec => []Parts
<1>1. TypeOK /\ Parts /\ [Next]_vars => Parts'
  BY PartsStep
<1> QED
  BY PartsInit, <1>1, PortTypeCorrect, PTL DEF Spec

(* When all flows are done the port is open or closed for a reason.         *)
THEOREM ClosedCorrect == Spec => []ClosedForAReason
<1>1. Parts => ClosedForAReason
  BY FlowNames DEF Parts, Owed, ClosedForAReason, AllIdle
<1> QED
  BY <1>1, PortInvariant, PTL

(* A port that was closed by a STOP stays closed until it is restored or    *)
(* repaired.                                                                *)
THEOREM StoppedCorrect == Spec => []StoppedUnlessRepaired
<1>1. Parts => StoppedUnlessRepaired
  BY DEF Parts
<1> QED
  BY <1>1, PortInvariant, PTL

(* The menu alone: an enabled port has one speed, the one asked for.        *)
THEOREM SpeedCorrect == Spec => []OneSpeed
<1>1. TypeOK /\ Parts => OneSpeed
  <2> SUFFICES ASSUME TypeOK, SpeedSteps, flows = {"menu"}, "dis" \notin reg
               PROVE  /\ \A l \in Lanes : lane[l] = lane[0]
                      /\ pc["menu"] \notin {"disGet", "disSet"} =>
                           pll = PllOf(speed) /\ lane[0] = RateOf(speed)
    BY DEF Parts, OneSpeed
  <2>1. pc["menu"] \in Places["menu"] /\ 0 \in Lanes
    BY FlowNames DEF TypeOK, Lanes
  <2>2. pc["menu"] \in Untouched \cup Locked /\ pc["menu"] \notin {"pll", "lanes"}
    BY <2>1, PlacesOf DEF SpeedSteps, Untouched, Locked, Disabled
  <2> QED
    BY <2>1, <2>2 DEF SpeedSteps
<1> QED
  BY <1>1, PortTypeCorrect, PortInvariant, PTL

(* The port is neither disabled nor locked when maintenance is done.        *)
THEOREM TraceCorrect == Spec => []MaintenanceLeavesNoTrace
<1>1. Parts => MaintenanceLeavesNoTrace
  BY DEF Parts, Traces, MaintenanceLeavesNoTrace, Untouched
<1> QED
  BY <1>1, PortInvariant, PTL
=============================================================================
