-------------------------- MODULE LinkRepairProofs --------------------------
(***************************************************************************)
(* Theorems about LinkRepair, for any ports and boards, any retry bound,   *)
(* any resets, and chips that fail.                                        *)
(***************************************************************************)
EXTENDS LinkRepair, SequenceTheorems, TLAPS

-----------------------------------------------------------------------------
(* Sequences.                                                               *)

LEMMA ElementsOfTail ==
  ASSUME NEW S, NEW s \in Seq(S), s # <<>>
  PROVE  /\ Head(s) \in S /\ Tail(s) \in Seq(S)
         /\ Head(s) \in Elements(s)
         /\ Elements(s) = {Head(s)} \cup Elements(Tail(s))
<1>1. /\ Head(s) \in S /\ Tail(s) \in Seq(S) /\ Len(s) \in Nat \ {0}
      /\ Head(s) = s[1] /\ Len(Tail(s)) = Len(s) - 1
      /\ \A i \in 1 .. Len(Tail(s)) : Tail(s)[i] = s[i + 1]
  BY HeadTailProperties, LenProperties, EmptySeq
<1>2. Elements(s) \subseteq {Head(s)} \cup Elements(Tail(s))
  <2> SUFFICES ASSUME NEW i \in 1 .. Len(s), i # 1
               PROVE  s[i] \in Elements(Tail(s))
    BY <1>1 DEF Elements
  <2>1. i - 1 \in 1 .. Len(Tail(s)) /\ Tail(s)[i - 1] = s[i]
    BY <1>1
  <2> QED
    BY <2>1 DEF Elements
<1>3. Elements(Tail(s)) \subseteq Elements(s) /\ Head(s) \in Elements(s)
  BY <1>1 DEF Elements
<1> QED
  BY <1>1, <1>2, <1>3

LEMMA ElementsEmpty == Elements(<<>>) = {}
BY DEF Elements

-----------------------------------------------------------------------------
(* Ports, and the entries written for them.                                 *)

LEMMA PortFacts ==
  ASSUME NEW p \in Ports
  PROVE  /\ p[1] \in Chips /\ p[2] \in 0 .. 11
         /\ LocalIDs[p] \in Seq(0 .. HostID - 1)
         /\ IDsOf(p) \subseteq IDs
         /\ HostID \notin IDsOf(p)
<1>1. p \in SwOut
  BY WatchedAssumption, ElementOfSeq DEF Ports, Elements
<1>2. p[1] \in Chips /\ p[2] \in 0 .. 11
  BY <1>1 DEF SwOut, Chips
<1>3. LocalIDs[p] \in Seq(0 .. HostID - 1)
  BY WatchedAssumption
<1>4. IDsOf(p) \subseteq 0 .. HostID - 1
  BY <1>3, ElementOfSeq DEF IDsOf, Elements
<1>5. IDsOf(p) \subseteq IDs
  BY Zenon DEF IDs
<1>6. HostID \notin 0 .. HostID - 1
  BY DEF HostID
<1> QED
  BY <1>2, <1>3, <1>4, <1>5, <1>6

LEMMA CurrentPort ==
  ASSUME TypeOK
  PROVE  Port \in Ports /\ Chip \in Chips /\ Port[2] \in 0 .. 11
<1>1. Port \in Ports
  BY DEF TypeOK, Port, Ports, Elements
<1> QED
  BY <1>1, PortFacts DEF Chip

EntrySet == Chips \X (0 .. HostID) \X (0 .. 255)

(* The entries of a list of IDs.                                            *)
LEMMA EntriesFacts ==
  ASSUME TypeOK, NEW port \in 0 .. 255
  PROVE  /\ Entries(LocalIDs[Port], port) \in Seq(EntrySet)
         /\ Elements(Entries(LocalIDs[Port], port)) = {<<Chip, id, port>> : id \in IDsOf(Port)}
<1> DEFINE ids == LocalIDs[Port]
<1>1. ids \in Seq(0 .. HostID - 1) /\ Chip \in Chips /\ Port \in Ports
  BY CurrentPort, PortFacts
<1>2. Len(ids) \in Nat /\ \A i \in 1 .. Len(ids) : ids[i] \in 0 .. HostID
  <2>1. ids \in Seq(0 .. HostID)
    BY <1>1, SeqMonotonic DEF HostID
  <2> HIDE DEF ids
  <2> QED
    BY <2>1, ElementOfSeq, LenProperties
<1>3. Entries(ids, port) \in [1 .. Len(ids) -> EntrySet]
  BY <1>1, <1>2 DEF Entries, EntrySet
<1>4. Entries(ids, port) \in Seq(EntrySet) /\ Len(Entries(ids, port)) = Len(ids)
  BY <1>2, <1>3, SeqDef, LenProperties
<1>5. \A i \in 1 .. Len(ids) : Entries(ids, port)[i] = <<Chip, ids[i], port>>
  BY DEF Entries
<1> QED
  BY <1>4, <1>5 DEF Elements, IDsOf

LEMMA HostRoutesFacts ==
  ASSUME TypeOK
  PROVE  HostRoutes \in Seq(EntrySet) /\ Elements(HostRoutes) = HostEntries
<1>1. Chip \in Chips /\ Port[2] \in 0 .. 11
  BY CurrentPort
<1>2. CASE Chip = 0
  <2>1. HostRoutes = << <<0, HostID, Port[2]>> >>
    BY <1>2 DEF HostRoutes
  <2> QED
    BY <1>1, <1>2, <2>1 DEF Elements, HostEntries, EntrySet, HostID, Chips
<1>3. CASE Chip # 0
  <2>1. HostRoutes = << <<0, HostID, Uplink[Chip]>>, <<Chip, HostID, Port[2]>> >>
    BY <1>3 DEF HostRoutes
  <2>2. Uplink[Chip] \in {10, 11}
    BY <1>1, <1>3 DEF Uplink, Chips
  <2> QED
    BY <1>1, <1>3, <2>1, <2>2 DEF Elements, HostEntries, EntrySet, HostID, Chips
<1> QED
  BY <1>2, <1>3

-----------------------------------------------------------------------------
(* Steps of the child process.                                              *)

(* An access to a reliable chip succeeds.                                   *)
LEMMA ReliableSucceeds ==
  ASSUME NEW c, Reliable(c), NEW ok \in Outcomes(c)
  PROVE  ok
BY Zenon DEF Reliable, Outcomes

(* The writing of entries begins, or is over at once if there are none.     *)
LEMMA WriteRoutesFacts ==
  ASSUME NEW entries \in Seq(EntrySet), NEW next \in {"mode", "reconfig", "openWrite"},
         WriteRoutes(entries, next)
  PROVE  /\ todo' = entries /\ after' = next /\ step' \in {"lutIndex", next}
         /\ step' \in Writing => entries # <<>>
         /\ At' = next
         /\ Pending' = Elements(entries)
<1>1. CASE entries = <<>>
  <2>1. step' = next /\ step' \notin Writing
    BY <1>1 DEF WriteRoutes, Writing
  <2>2. Pending' = {}
    BY <2>1 DEF Pending
  <2> QED
    BY <1>1, <2>1, <2>2, ElementsEmpty DEF WriteRoutes, At
<1>2. CASE entries # <<>>
  <2>1. step' = "lutIndex" /\ step' \in Writing /\ todo' = entries /\ after' = next
    BY <1>2 DEF WriteRoutes, Writing
  <2> QED
    BY <1>2, <2>1 DEF Pending, At
<1> QED
  BY <1>1, <1>2

(* An entry is written, where its index says if its chip is reliable.       *)
LEMMA LutDataFacts ==
  ASSUME TypeOK, TodoOK, NEW ok \in BOOLEAN, LutData(ok), NEW e, e = Head(todo)
  PROVE  /\ e \in EntrySet /\ e \in EntriesFor(after)
         /\ after \in {"mode", "reconfig", "openWrite"}
         /\ Tail(todo) \in Seq(EntrySet) /\ WriteRoutes(Tail(todo), after)
         /\ Elements(Tail(todo)) \subseteq EntriesFor(after)
         /\ Pending = {e} \cup Pending'
         /\ At = after /\ At' = after /\ after' = after
         /\ Reliable(e[1]) => lut' = [lut EXCEPT ![e[1]][e[2]] = e[3]]
<1>1. step = "lutData" /\ step \in Writing /\ ok \in Outcomes(e[1])
      /\ WriteRoutes(Tail(todo), after)
  BY DEF LutData, Writing
<1>2. todo \in Seq(EntrySet) /\ todo # <<>>
      /\ after \in {"mode", "reconfig", "openWrite"}
      /\ Elements(todo) \subseteq EntriesFor(after)
  BY <1>1 DEF TypeOK, TodoOK, EntrySet
<1>3. e \in EntrySet /\ Tail(todo) \in Seq(EntrySet)
      /\ Elements(todo) = {e} \cup Elements(Tail(todo))
  BY <1>2, ElementsOfTail
<1>4. Pending = Elements(todo) /\ At = after
  BY <1>1 DEF Pending, At
<1>5. Pending' = Elements(Tail(todo)) /\ At' = after /\ after' = after
  BY <1>1, <1>2, <1>3, WriteRoutesFacts
<1>6. ASSUME Reliable(e[1])
      PROVE  lut' = [lut EXCEPT ![e[1]][e[2]] = e[3]]
  <2>1. ok
    BY <1>1, <1>6, ReliableSucceeds
  <2>2. lutIndex[e[1]] = e[2]
    BY <1>1, <1>6 DEF TodoOK
  <2> QED
    BY <2>1, <2>2 DEF LutData
<1> QED
  BY <1>1, <1>2, <1>3, <1>4, <1>5, <1>6

-----------------------------------------------------------------------------
(* Type correctness.                                                        *)

LEMMA TypeInit ==
  ASSUME Init
  PROVE  TypeOK
<1>1. Len(Watched) \in Nat \ {0}
  BY WatchedAssumption, EmptySeq
<1>2. lut \in [Chips -> [IDs \cup {HostID} -> 0 .. 255]]
  <2> SUFFICES ASSUME NEW c \in Chips
               PROVE  Enumerated(c) \in [IDs \cup {HostID} -> 0 .. 255]
    BY DEF Init
  <2> SUFFICES ASSUME NEW id \in IDs \cup {HostID}
               PROVE  Enumerated(c)[id] \in 0 .. 255
    BY DEF Enumerated
  <2>1. \A p \in Ports : p[2] \in 0 .. 255
    BY PortFacts
  <2>2. CASE \E p \in Ports : p[1] = c /\ id \in IDsOf(p)
    <3> DEFINE q == CHOOSE p \in Ports : p[1] = c /\ id \in IDsOf(p)
    <3>1. q \in Ports
      BY <2>2
    <3>2. Enumerated(c)[id] = q[2]
      BY <2>2 DEF Enumerated
    <3> QED
      BY <2>1, <3>1, <3>2
  <2>3. CASE ~ \E p \in Ports : p[1] = c /\ id \in IDsOf(p)
    BY <2>3 DEF Enumerated
  <2> QED
    BY <2>2, <2>3
<1>3. /\ step \in Steps /\ after \in Steps /\ todo \in Seq(EntrySet)
      /\ lutIndex \in [Chips -> 0 .. HostID]
  BY EmptySeq DEF Init, Steps, HostID
<1>4. link \in 1 .. Len(Watched) /\ retry \in 0 .. MaxRetry + 1
  BY <1>1, RetryAssumption DEF Init
<1>5. /\ rxtx \in [Ports -> SUBSET RxTx] /\ ackid \in [Ports -> 0 .. 1]
      /\ errs \in [Ports -> SUBSET Errors]
      /\ response \in [Ports -> {"none", "asked", "valid"}]
      /\ late \subseteq Ports /\ wiped \subseteq Ports
  BY DEF Init
<1>6. configured \in [Ports -> BOOLEAN] /\ errSeen \in BOOLEAN
  BY Zenon DEF Init
<1> QED
  BY <1>2, <1>3, <1>4, <1>5, <1>6 DEF TypeOK, EntrySet

(* A step that writes a register of the current port.                       *)
LEMMA WrittenTyped ==
  ASSUME TypeOK, NEW S, NEW r \in [Ports -> S], NEW value \in S, NEW ok \in BOOLEAN
  PROVE  Written(ok, r, value) \in [Ports -> S]
BY CurrentPort DEF Written

(* What NextLink leaves.                                                    *)
LEMMA NextLinkTyped ==
  ASSUME TypeOK, NextLink
  PROVE  step' = "detect" /\ link' \in 1 .. Len(Watched)
<1>1. Len(Watched) \in Nat \ {0}
  BY WatchedAssumption, EmptySeq
<1> QED
  BY <1>1 DEF TypeOK, NextLink

(* The accesses that change only the child process.                         *)
LEMMA LookTyped ==
  ASSUME TypeOK, NEW ok \in BOOLEAN,
         Detect(ok) \/ DetectLane(ok) \/ CloseRead(ok) \/ OpenRead(ok)
           \/ Recheck(ok) \/ RecheckLane(ok) \/ Wait
  PROVE  TypeOK'
<1>1. step' \in Steps
  BY DEF Detect, DetectLane, CloseRead, OpenRead, Recheck, RecheckLane, Wait, NextLink,
         Steps
<1>2. link' \in 1 .. Len(Watched)
  <2>1. link' = link \/ NextLink
    BY DEF Detect, DetectLane, CloseRead, OpenRead, Recheck, RecheckLane, Wait
  <2> QED
    BY <2>1, NextLinkTyped DEF TypeOK
<1>3. errSeen' \in BOOLEAN
  BY Zenon DEF TypeOK, Detect, DetectLane, CloseRead, OpenRead, Recheck, RecheckLane, Wait
<1>4. UNCHANGED <<retry, todo, after, hardware, history>>
  BY DEF Detect, DetectLane, CloseRead, OpenRead, Recheck, RecheckLane, Wait
<1> QED
  BY <1>1, <1>2, <1>3, <1>4 DEF TypeOK, hardware, routing, history

(* The accesses that write a register of the port.                          *)
LEMMA PortWriteTyped ==
  ASSUME TypeOK, NEW ok \in BOOLEAN,
         CloseWrite(ok) \/ ResetAckid(ok) \/ Request(ok) \/ Resync(ok)
           \/ OpenWrite(ok) \/ ClearLane(ok) \/ ClearPort(ok)
  PROVE  TypeOK'
<1> USE DEF CloseWrite, ResetAckid, Request, Resync, OpenWrite, ClearLane, ClearPort
<1>1. step' \in Steps
  BY DEF Steps
<1>2. rxtx' \in [Ports -> SUBSET RxTx]
  <2>1. \A v \in SUBSET RxTx : Written(ok, rxtx, v) \in [Ports -> SUBSET RxTx]
    BY WrittenTyped DEF TypeOK
  <2> QED
    BY <2>1 DEF TypeOK
<1>3. ackid' \in [Ports -> 0 .. 1]
  <2>1. Written(ok, ackid, 0) \in [Ports -> 0 .. 1]
    <3>1. 0 \in 0 .. 1 /\ ackid \in [Ports -> 0 .. 1]
      BY DEF TypeOK
    <3> QED
      BY <3>1, WrittenTyped
  <2> QED
    BY <2>1 DEF TypeOK
<1>4. errs' \in [Ports -> SUBSET Errors]
  <2>1. \A e \in Errors : errs[Port] \ {e} \in SUBSET Errors
    BY CurrentPort DEF TypeOK
  <2>2. \A e \in Errors : Written(ok, errs, errs[Port] \ {e}) \in [Ports -> SUBSET Errors]
    BY <2>1, WrittenTyped DEF TypeOK
  <2> QED
    BY <2>2 DEF TypeOK, Errors
<1>5. response' \in [Ports -> {"none", "asked", "valid"}]
  <2>1. Written(ok, response, "asked") \in [Ports -> {"none", "asked", "valid"}]
    BY WrittenTyped DEF TypeOK
  <2> QED
    BY <2>1 DEF TypeOK
<1>6. retry' \in 0 .. MaxRetry + 1
  BY RetryAssumption DEF TypeOK
<1>7. UNCHANGED <<link, errSeen, todo, after, routing, configured, history>>
  BY DEF hardware, routing, history
<1> QED
  BY <1>1, <1>2, <1>3, <1>4, <1>5, <1>6, <1>7 DEF TypeOK, routing, history

LEMMA ResponseTyped ==
  ASSUME TypeOK, RetryOK, NEW ok \in BOOLEAN, Response(ok)
  PROVE  TypeOK' /\ RetryOK'
<1>1. retry' = retry + 1 /\ retry' \in 0 .. MaxRetry + 1
  BY RetryAssumption DEF Response, TypeOK, RetryOK
<1>2. response' \in [Ports -> {"none", "asked", "valid"}]
  <2>1. Written(ok, response, "none") \in [Ports -> {"none", "asked", "valid"}]
    BY WrittenTyped DEF TypeOK
  <2> QED
    BY <2>1 DEF TypeOK, Response
<1>3. /\ step' \in {"request", "resync", "detect"} /\ link' \in 1 .. Len(Watched)
      /\ step' = "request" => retry + 1 <= MaxRetry
  <2>1. NextLink => step' = "detect" /\ link' \in 1 .. Len(Watched)
    BY NextLinkTyped
  <2> QED
    BY <2>1 DEF Response, TypeOK
<1>4. UNCHANGED <<errSeen, todo, after, rxtx, ackid, errs, routing, configured, history>>
  BY DEF Response
<1>5. TypeOK'
  BY <1>1, <1>2, <1>3, <1>4 DEF TypeOK, Steps, routing, history
<1> QED
  BY <1>1, <1>3, <1>5 DEF RetryOK

(* The steps that begin to write entries.                                   *)
LEMMA BeginRoutesTyped ==
  ASSUME TypeOK, NEW ok \in BOOLEAN, Announce(ok) \/ PortMode(ok) \/ ReconfigLUT
  PROVE  TypeOK'
<1>1. /\ Entries(LocalIDs[Port], Discard) \in Seq(EntrySet)
      /\ Entries(LocalIDs[Port], Port[2]) \in Seq(EntrySet)
      /\ HostRoutes \in Seq(EntrySet)
  <2>1. Discard \in 0 .. 255 /\ Port[2] \in 0 .. 255
    BY CurrentPort DEF Discard
  <2> QED
    BY <2>1, EntriesFacts, HostRoutesFacts
<1>2. /\ todo' \in Seq(EntrySet) /\ after' \in {"mode", "reconfig", "openWrite"}
      /\ step' \in {"lutIndex", "mode", "reconfig", "openWrite"}
  BY <1>1, WriteRoutesFacts DEF Announce, PortMode, ReconfigLUT
<1>3. response' \in [Ports -> {"none", "asked", "valid"}]
  <2>1. Written(ok, response, "asked") \in [Ports -> {"none", "asked", "valid"}]
    BY WrittenTyped DEF TypeOK
  <2> QED
    BY <2>1 DEF TypeOK, Announce, PortMode, ReconfigLUT
<1>4. rxtx' \in [Ports -> SUBSET RxTx]
  <2>1. Written(ok, rxtx, {"output"}) \in [Ports -> SUBSET RxTx]
    BY WrittenTyped DEF TypeOK, RxTx
  <2> QED
    BY <2>1 DEF TypeOK, Announce, PortMode, ReconfigLUT
<1>5. configured' \in [Ports -> BOOLEAN]
  BY DEF TypeOK, Announce, PortMode, ReconfigLUT
<1>6. UNCHANGED <<link, errSeen, retry, ackid, errs, routing, history>>
  BY DEF Announce, PortMode, ReconfigLUT
<1> QED
  BY <1>2, <1>3, <1>4, <1>5, <1>6 DEF TypeOK, EntrySet, Steps, routing, history

(* The two writes of an entry.                                              *)
LEMMA EntryTyped ==
  ASSUME TypeOK, TodoOK, NEW ok \in BOOLEAN, LutIndex(ok) \/ LutData(ok)
  PROVE  TypeOK'
<1>1. todo \in Seq(EntrySet) /\ todo # <<>>
  BY DEF TypeOK, TodoOK, EntrySet, LutIndex, LutData, Writing
<1>2. Head(todo) \in EntrySet
  BY <1>1, ElementsOfTail
<1>3. CASE LutIndex(ok)
  <2>1. lutIndex' \in [Chips -> 0 .. HostID]
    BY <1>2, <1>3 DEF TypeOK, LutIndex, EntrySet
  <2> QED
    BY <1>3, <2>1 DEF TypeOK, LutIndex, Steps, routing, history
<1>4. CASE LutData(ok)
  <2>1. /\ todo' \in Seq(EntrySet) /\ after' = after
        /\ step' \in {"lutIndex", "mode", "reconfig", "openWrite"}
    BY <1>4, LutDataFacts, WriteRoutesFacts
  <2>2. lut' \in [Chips -> [IDs \cup {HostID} -> 0 .. 255]]
    BY <1>2, <1>4 DEF TypeOK, LutData, EntrySet
  <2> QED
    BY <1>4, <2>1, <2>2 DEF TypeOK, LutData, EntrySet, Steps, routing, history
<1> QED
  BY <1>3, <1>4

(* The boards, the links and the operator.                                  *)
LEMMA EnvironmentTyped ==
  ASSUME TypeOK, Environment
  PROVE  TypeOK' /\ UNCHANGED <<child, routing>>
<1>1. PICK p \in Ports :
        \/ PartnerResets(p) \/ PartnerAnswers(p) \/ Traffic(p)
        \/ \E register \in Errors : OperatorClears(p, register)
  BY DEF Environment
<1> DEFINE Typed ==
      /\ errs' \in [Ports -> SUBSET Errors] /\ late' \subseteq Ports /\ wiped' \subseteq Ports
      /\ ackid' \in [Ports -> 0 .. 1]
      /\ response' \in [Ports -> {"none", "asked", "valid"}]
<1>2. Typed
  <2>1. CASE PartnerResets(p)
    BY <2>1 DEF TypeOK, PartnerResets
  <2>2. CASE PartnerAnswers(p) \/ Traffic(p)
    BY <2>2 DEF TypeOK, PartnerAnswers, Traffic, history
  <2>3. ASSUME NEW register \in Errors, OperatorClears(p, register)
        PROVE  Typed
    BY <2>3 DEF TypeOK, OperatorClears
  <2> QED
    BY <1>1, <2>1, <2>2, <2>3
<1>3. configured' \in [Ports -> BOOLEAN]
  BY <1>1 DEF TypeOK, PartnerResets, PartnerAnswers, Traffic, OperatorClears
<1>4. UNCHANGED <<child, rxtx, routing>>
  BY <1>1 DEF PartnerResets, PartnerAnswers, Traffic, OperatorClears
<1> QED
  BY <1>2, <1>3, <1>4 DEF TypeOK, child, routing

LEMMA TypeStep ==
  ASSUME TypeOK, RetryOK, TodoOK, [Next]_vars
  PROVE  TypeOK' /\ RetryOK'
<1>1. CASE Environment
  BY <1>1, EnvironmentTyped DEF RetryOK, child
<1>2. ASSUME NEW ok \in BOOLEAN, Access(ok)
      PROVE  TypeOK' /\ RetryOK'
  <2>1. TypeOK'
    BY <1>2, LookTyped, PortWriteTyped, ResponseTyped, BeginRoutesTyped, EntryTyped
       DEF Access
  <2>2. RetryOK'
    <3>1. CASE Response(ok)
      BY <3>1, ResponseTyped
    <3>2. CASE ResetAckid(ok) \/ Request(ok)
      BY <3>2, RetryAssumption DEF RetryOK, ResetAckid, Request
    <3>3. CASE ~ (Response(ok) \/ ResetAckid(ok) \/ Request(ok))
      <4>1. step' \notin {"request", "response"}
        <5>1. LutData(ok) => step' \in {"lutIndex", "mode", "reconfig", "openWrite"}
          BY LutDataFacts, WriteRoutesFacts
        <5> QED
          BY <1>2, <3>3, <5>1 DEF Access, Detect, DetectLane, CloseWrite, CloseRead,
             Resync, Announce, LutIndex, PortMode, OpenWrite, OpenRead, ClearLane,
             ClearPort, Recheck, RecheckLane, NextLink, WriteRoutes
      <4> QED
        BY <4>1 DEF RetryOK
    <3> QED
      BY <3>1, <3>2, <3>3
  <2> QED
    BY <2>1, <2>2
<1>3. CASE Wait
  BY <1>3, LookTyped DEF Wait, RetryOK
<1>4. CASE ReconfigLUT
  <2>1. step' \notin {"request", "response"}
    BY <1>4 DEF ReconfigLUT, WriteRoutes
  <2> QED
    BY <1>4, <2>1, BeginRoutesTyped DEF RetryOK
<1>5. CASE UNCHANGED vars
  BY <1>5 DEF vars, child, hardware, routing, history, TypeOK, RetryOK
<1> QED
  BY <1>1, <1>2, <1>3, <1>4, <1>5 DEF Next, Child

-----------------------------------------------------------------------------
(* Where the child process is.                                              *)

LEMMA SamePort ==
  ASSUME UNCHANGED link
  PROVE  Port' = Port /\ Chip' = Chip /\ \A next : EntriesFor(next)' = EntriesFor(next)
BY DEF Port, Chip, EntriesFor, HostEntries

(* The accesses that have nothing to do with routing entries.               *)
Plain(ok) ==
  \/ Detect(ok) \/ DetectLane(ok) \/ CloseWrite(ok) \/ CloseRead(ok) \/ Wait
  \/ ResetAckid(ok) \/ Request(ok) \/ Response(ok) \/ Resync(ok)
  \/ OpenWrite(ok) \/ OpenRead(ok) \/ ClearLane(ok) \/ ClearPort(ok)
  \/ Recheck(ok) \/ RecheckLane(ok)

LEMMA NextCases ==
  ASSUME Next
  PROVE  \/ Environment
         \/ \E ok \in BOOLEAN : Plain(ok) \/ Announce(ok) \/ PortMode(ok)
                                  \/ LutIndex(ok) \/ LutData(ok)
         \/ ReconfigLUT
<1>1. TRUE \in BOOLEAN
  OBVIOUS
<1> QED
  BY <1>1 DEF Next, Child, Access, Plain

LEMMA PlainFacts ==
  ASSUME NEW ok \in BOOLEAN, Plain(ok)
  PROVE  /\ step \notin Writing /\ step' \notin Writing
         /\ At = step /\ At' = step' /\ Pending = {} /\ Pending' = {}
         /\ UNCHANGED <<routing, configured, history>>
<1>1. step \notin Writing
  BY DEF Plain, Detect, DetectLane, CloseWrite, CloseRead, Wait, ResetAckid, Request,
     Response, Resync, OpenWrite, OpenRead, ClearLane, ClearPort, Recheck, RecheckLane,
     Writing
<1>2. step' \notin Writing
  BY DEF Plain, Detect, DetectLane, CloseWrite, CloseRead, Wait, ResetAckid, Request,
     Response, Resync, OpenWrite, OpenRead, ClearLane, ClearPort, Recheck, RecheckLane,
     NextLink, Writing
<1>3. UNCHANGED <<routing, configured, history>>
  BY DEF Plain, Detect, DetectLane, CloseWrite, CloseRead, Wait, ResetAckid, Request,
     Response, Resync, OpenWrite, OpenRead, ClearLane, ClearPort, Recheck, RecheckLane,
     hardware, history
<1> QED
  BY <1>1, <1>2, <1>3 DEF At, Pending

(* The steps that begin to write entries.                                   *)
Begins(entries, next) ==
  /\ step \notin Writing /\ step' \in {"lutIndex", next}
  /\ At = step /\ At' = next /\ Pending = {} /\ Pending' = entries
  /\ todo' \in Seq(EntrySet) /\ Elements(todo') = entries
  /\ step' \in Writing => todo' # <<>>
  /\ after' = next /\ UNCHANGED link /\ UNCHANGED routing

LEMMA BeginsFacts ==
  ASSUME TypeOK
  PROVE  /\ \A ok \in BOOLEAN : Announce(ok) => Begins(EntriesFor("mode"), "mode")
         /\ \A ok \in BOOLEAN : PortMode(ok) => Begins(EntriesFor("reconfig"), "reconfig")
         /\ ReconfigLUT => Begins(EntriesFor("openWrite"), "openWrite")
<1>1. Discard \in 0 .. 255 /\ Port[2] \in 0 .. 255
  BY CurrentPort DEF Discard
<1>2. /\ Entries(LocalIDs[Port], Discard) \in Seq(EntrySet)
      /\ Elements(Entries(LocalIDs[Port], Discard)) = EntriesFor("mode")
  BY <1>1, EntriesFacts DEF EntriesFor
<1>3. /\ Entries(LocalIDs[Port], Port[2]) \in Seq(EntrySet)
      /\ Elements(Entries(LocalIDs[Port], Port[2])) = EntriesFor("openWrite")
  BY <1>1, EntriesFacts DEF EntriesFor
<1>4. HostRoutes \in Seq(EntrySet) /\ Elements(HostRoutes) = EntriesFor("reconfig")
  BY HostRoutesFacts DEF EntriesFor
<1>5. ASSUME NEW ok \in BOOLEAN, Announce(ok)
      PROVE  Begins(EntriesFor("mode"), "mode")
  <2>1. step \notin Writing /\ WriteRoutes(Entries(LocalIDs[Port], Discard), "mode")
        /\ UNCHANGED <<link, routing>>
    BY <1>5 DEF Announce, Writing
  <2> QED
    BY <1>2, <2>1, WriteRoutesFacts DEF Begins, At, Pending
<1>6. ASSUME NEW ok \in BOOLEAN, PortMode(ok)
      PROVE  Begins(EntriesFor("reconfig"), "reconfig")
  <2>1. step \notin Writing /\ WriteRoutes(HostRoutes, "reconfig")
        /\ UNCHANGED <<link, routing>>
    BY <1>6 DEF PortMode, Writing
  <2> QED
    BY <1>4, <2>1, WriteRoutesFacts DEF Begins, At, Pending
<1>7. ASSUME ReconfigLUT
      PROVE  Begins(EntriesFor("openWrite"), "openWrite")
  <2>1. step \notin Writing /\ WriteRoutes(Entries(LocalIDs[Port], Port[2]), "openWrite")
        /\ UNCHANGED <<link, routing>>
    BY <1>7 DEF ReconfigLUT, Writing
  <2> QED
    BY <1>3, <2>1, WriteRoutesFacts DEF Begins, At, Pending
<1> QED
  BY <1>5, <1>6, <1>7

(* What the environment leaves.                                             *)
LEMMA EnvironmentFacts ==
  ASSUME TypeOK, Environment
  PROVE  /\ UNCHANGED <<step, link, errSeen, todo, after, rxtx, lutIndex, lut>>
         /\ Port' = Port /\ Chip' = Chip /\ At' = At /\ Pending' = Pending
<1>1. UNCHANGED <<step, link, errSeen, todo, after, lutIndex, lut>>
  BY EnvironmentTyped DEF child, routing
<1>2. UNCHANGED rxtx
  BY DEF Environment, PartnerResets, PartnerAnswers, Traffic, OperatorClears
<1> QED
  BY <1>1, <1>2, SamePort DEF At, Pending

-----------------------------------------------------------------------------
(* The entries still to be written.                                         *)
LEMMA TodoStep ==
  ASSUME TypeOK, TodoOK, [Next]_vars
  PROVE  TodoOK'
<1>1. CASE Environment
  BY <1>1, EnvironmentFacts, SamePort DEF TodoOK
<1>2. ASSUME NEW ok \in BOOLEAN, Plain(ok)
      PROVE  TodoOK'
  BY <1>2, PlainFacts DEF TodoOK, Writing
<1>3. ASSUME NEW next \in {"mode", "reconfig", "openWrite"}, Begins(EntriesFor(next), next)
      PROVE  TodoOK'
  <2>1. step' # "lutData"
    BY <1>3 DEF Begins
  <2>2. EntriesFor(next)' = EntriesFor(next)
    BY <1>3, SamePort DEF Begins
  <2> QED
    BY <1>3, <2>1, <2>2 DEF TodoOK, Begins
<1>4. ASSUME NEW ok \in BOOLEAN, LutIndex(ok)
      PROVE  TodoOK'
  <2> DEFINE e == Head(todo)
  <2>1. step \in Writing /\ step' = "lutData" /\ UNCHANGED <<link, todo, after>>
        /\ ok \in Outcomes(e[1])
    BY <1>4 DEF LutIndex, Writing
  <2>2. EntriesFor(after)' = EntriesFor(after)
    BY <2>1, SamePort DEF EntriesFor, HostEntries
  <2>3. todo # <<>> /\ after \in {"mode", "reconfig", "openWrite"}
        /\ Elements(todo) \subseteq EntriesFor(after)
    BY <2>1 DEF TodoOK
  <2>4. e \in EntrySet
    BY <2>3, ElementsOfTail DEF TypeOK, EntrySet
  <2>5. ASSUME Reliable(e[1])
        PROVE  lutIndex'[e[1]] = e[2]
    <3>1. ok
      BY <2>1, <2>5, ReliableSucceeds
    <3> QED
      BY <1>4, <2>4, <3>1 DEF LutIndex, TypeOK, EntrySet
  <2> QED
    BY <2>1, <2>2, <2>3, <2>5 DEF TodoOK, Writing
<1>5. ASSUME NEW ok \in BOOLEAN, LutData(ok)
      PROVE  TodoOK'
  <2>1. WriteRoutes(Tail(todo), after) /\ Tail(todo) \in Seq(EntrySet)
        /\ after \in {"mode", "reconfig", "openWrite"}
        /\ Elements(Tail(todo)) \subseteq EntriesFor(after)
    BY <1>5, LutDataFacts
  <2>2. UNCHANGED link
    BY <1>5 DEF LutData
  <2>3. /\ todo' = Tail(todo) /\ after' = after /\ step' # "lutData"
        /\ step' \in Writing => todo' # <<>>
    BY <2>1, WriteRoutesFacts
  <2>4. EntriesFor(after)' = EntriesFor(after)
    BY <2>2, <2>3, SamePort DEF EntriesFor, HostEntries
  <2> QED
    BY <2>1, <2>3, <2>4 DEF TodoOK
<1>6. CASE UNCHANGED vars
  BY <1>6, SamePort DEF vars, child, hardware, routing, TodoOK, EntriesFor, HostEntries
<1> QED
  BY <1>1, <1>2, <1>3, <1>4, <1>5, <1>6, NextCases, BeginsFacts

-----------------------------------------------------------------------------
(* The port control register.                                               *)
LEMMA PortStep ==
  ASSUME TypeOK, TodoOK, PortOK, [Next]_vars
  PROVE  PortOK'
<1> USE DEF BeforeMode, BeforeOpen, Clearing
<1>1. CASE Environment
  BY <1>1, EnvironmentFacts DEF PortOK
<1>2. ASSUME NEW ok \in BOOLEAN, Plain(ok)
      PROVE  PortOK'
  <2>1. At = step /\ At' = step'
    BY <1>2, PlainFacts
  <2>2. CASE Detect(ok) \/ DetectLane(ok)
    <3>1. step' \in {"lane", "closeWrite", "detect"}
      BY <2>2 DEF Detect, DetectLane, NextLink
    <3> QED
      BY <2>1, <3>1 DEF PortOK
  <2>3. CASE CloseWrite(ok)
    <3>1. Reliable(Chip) => ok
      BY <2>3, ReliableSucceeds DEF CloseWrite
    <3>2. Port' = Port /\ Chip' = Chip /\ step' = "closeRead"
      BY <2>3, SamePort DEF CloseWrite
    <3>3. Reliable(Chip) => rxtx'[Port] = {}
      BY <2>3, <3>1, CurrentPort DEF CloseWrite, Written, TypeOK
    <3> QED
      BY <2>1, <3>2, <3>3 DEF PortOK
  <2>4. CASE CloseRead(ok)
    <3>1. Reliable(Chip) => step' = "wait" /\ rxtx[Port] = {}
      BY <2>1, <2>4 DEF CloseRead, PortOK
    <3>2. Port' = Port /\ Chip' = Chip /\ UNCHANGED rxtx
      BY <2>4, SamePort DEF CloseRead, hardware
    <3> QED
      BY <2>1, <3>1, <3>2 DEF PortOK
  <2>5. CASE Wait \/ ResetAckid(ok) \/ Request(ok) \/ Resync(ok)
    <3>1. /\ Port' = Port /\ Chip' = Chip /\ UNCHANGED rxtx
          /\ step \in BeforeMode /\ step' \in BeforeMode
      BY <2>5, SamePort DEF Wait, ResetAckid, Request, Resync, hardware
    <3> QED
      BY <2>1, <3>1 DEF PortOK
  <2>6. CASE Response(ok)
    <3>1. \/ step' = "detect"
          \/ /\ Port' = Port /\ Chip' = Chip /\ UNCHANGED rxtx
             /\ step \in BeforeMode /\ step' \in BeforeMode
      BY <2>6, SamePort DEF Response, NextLink
    <3> QED
      BY <2>1, <3>1 DEF PortOK
  <2>7. CASE OpenWrite(ok)
    <3>1. Reliable(Chip) => ok
      BY <2>7, ReliableSucceeds DEF OpenWrite
    <3>2. Port' = Port /\ Chip' = Chip /\ step' = "openRead"
      BY <2>7, SamePort DEF OpenWrite
    <3>3. Reliable(Chip) => rxtx'[Port] = RxTx
      BY <2>7, <3>1, CurrentPort DEF OpenWrite, Written, TypeOK
    <3> QED
      BY <2>1, <3>2, <3>3 DEF PortOK
  <2>8. CASE OpenRead(ok)
    <3>1. Reliable(Chip) => ok
      BY <2>8, ReliableSucceeds DEF OpenRead
    <3>2. Reliable(Chip) => step' = "clearLane" /\ rxtx[Port] = RxTx
      BY <2>1, <2>8, <3>1 DEF OpenRead, PortOK
    <3>3. Port' = Port /\ Chip' = Chip /\ UNCHANGED rxtx
      BY <2>8, SamePort DEF OpenRead, hardware
    <3> QED
      BY <2>1, <3>2, <3>3 DEF PortOK
  <2>9. CASE ClearLane(ok) \/ ClearPort(ok) \/ Recheck(ok) \/ RecheckLane(ok)
    <3>1. \/ step' = "detect"
          \/ /\ Port' = Port /\ Chip' = Chip /\ UNCHANGED rxtx
             /\ step \in Clearing /\ step' \in Clearing
      BY <2>9, SamePort DEF ClearLane, ClearPort, Recheck, RecheckLane, NextLink, hardware
    <3> QED
      BY <2>1, <3>1 DEF PortOK
  <2> QED
    BY <1>2, <2>2, <2>3, <2>4, <2>5, <2>6, <2>7, <2>8, <2>9 DEF Plain
<1>3. ASSUME NEW ok \in BOOLEAN, Announce(ok)
      PROVE  PortOK'
  <2>1. Port' = Port /\ Chip' = Chip /\ UNCHANGED rxtx
    BY <1>3, SamePort DEF Announce
  <2>2. At = "announce" /\ At' = "mode"
    BY <1>3, BeginsFacts DEF Begins, Announce
  <2> QED
    BY <2>1, <2>2 DEF PortOK
<1>4. ASSUME NEW ok \in BOOLEAN, PortMode(ok)
      PROVE  PortOK'
  <2>1. Port' = Port /\ Chip' = Chip
    BY <1>4, SamePort DEF PortMode
  <2>2. At' = "reconfig"
    BY <1>4, BeginsFacts DEF Begins
  <2>3. Reliable(Chip) => ok
    BY <1>4, ReliableSucceeds DEF PortMode
  <2>4. Reliable(Chip) => rxtx'[Port] = {"output"}
    BY <1>4, <2>3, CurrentPort DEF PortMode, Written, TypeOK
  <2> QED
    BY <2>1, <2>2, <2>4 DEF PortOK
<1>5. ASSUME ReconfigLUT
      PROVE  PortOK'
  <2>1. Port' = Port /\ Chip' = Chip /\ UNCHANGED rxtx
    BY <1>5, SamePort DEF ReconfigLUT
  <2>2. At = "reconfig" /\ At' = "openWrite"
    BY <1>5, BeginsFacts DEF Begins, ReconfigLUT
  <2> QED
    BY <2>1, <2>2 DEF PortOK
<1>6. ASSUME NEW ok \in BOOLEAN, LutIndex(ok) \/ LutData(ok)
      PROVE  PortOK'
  <2>1. Port' = Port /\ Chip' = Chip /\ UNCHANGED rxtx
    BY <1>6, SamePort DEF LutIndex, LutData
  <2>2. CASE LutIndex(ok)
    <3>1. At' = At
      BY <2>2 DEF At, LutIndex, Writing
    <3> QED
      BY <2>1, <3>1 DEF PortOK
  <2>3. CASE LutData(ok)
    <3>1. At' = At
      BY <2>3, LutDataFacts
    <3> QED
      BY <2>1, <3>1 DEF PortOK
  <2> QED
    BY <1>6, <2>2, <2>3
<1>7. CASE UNCHANGED vars
  BY <1>7, SamePort DEF vars, child, hardware, PortOK, At
<1> QED
  BY <1>1, <1>2, <1>3, <1>4, <1>5, <1>6, <1>7, NextCases

-----------------------------------------------------------------------------
(* The ports besides the one that is maintained.                            *)

(* A plain step but the opening writes nothing else than a closed port.     *)
LEMMA PlainGates ==
  ASSUME TypeOK, MaintainedOK, NEW ok \in BOOLEAN, Plain(ok), ~ OpenWrite(ok)
  PROVE  /\ \A p \in Boards : rxtx[p] \in {{}, RxTx}
         /\ CloseWrite(ok) \/ UNCHANGED rxtx
<1>1. At \notin BeforeOpen
  <2>1. step \notin BeforeOpen
    BY DEF Plain, Detect, DetectLane, CloseWrite, CloseRead, Wait, ResetAckid, Request,
       Response, Resync, OpenWrite, OpenRead, ClearLane, ClearPort, Recheck, RecheckLane,
       BeforeOpen
  <2> QED
    BY <2>1, PlainFacts
<1>2. CloseWrite(ok) \/ UNCHANGED rxtx
  BY DEF Plain, Detect, DetectLane, CloseRead, Wait, ResetAckid, Request, Response, Resync,
     OpenWrite, OpenRead, ClearLane, ClearPort, Recheck, RecheckLane, hardware
<1> QED
  BY <1>1, <1>2 DEF MaintainedOK

LEMMA MaintainedStep ==
  ASSUME TypeOK, TodoOK, PortOK, MaintainedOK, [Next]_vars
  PROVE  MaintainedOK'
<1> SUFFICES ASSUME NEW p \in Boards
             PROVE  rxtx'[p] \in {{}, RxTx} \/ (p = Port' /\ At' \in BeforeOpen)
  BY DEF MaintainedOK
<1>1. /\ p \in Ports /\ Reliable(p[1]) /\ Port \in Ports
      /\ rxtx \in [Ports -> SUBSET RxTx]
      /\ rxtx[p] \in {{}, RxTx} \/ (p = Port /\ At \in BeforeOpen)
  BY CurrentPort DEF Boards, MaintainedOK, TypeOK
<1>2. CASE Environment
  BY <1>1, <1>2, EnvironmentFacts
<1>3. ASSUME NEW ok \in BOOLEAN, Plain(ok)
      PROVE  rxtx'[p] \in {{}, RxTx}
  <2>1. CASE OpenWrite(ok)
    <3>1. p = Port => ok
      BY <1>1, <2>1, ReliableSucceeds DEF OpenWrite, Chip
    <3>2. p = Port => rxtx'[p] = RxTx
      BY <1>1, <2>1, <3>1 DEF OpenWrite, Written
    <3>3. p # Port => rxtx'[p] = rxtx[p]
      BY <1>1, <2>1 DEF OpenWrite, Written
    <3> QED
      BY <1>1, <3>2, <3>3
  <2>2. CASE ~ OpenWrite(ok)
    <3>1. rxtx[p] \in {{}, RxTx} /\ (CloseWrite(ok) \/ UNCHANGED rxtx)
      BY <1>3, <2>2, PlainGates
    <3>2. CloseWrite(ok) => rxtx'[p] = rxtx[p] \/ rxtx'[p] = {}
      BY <1>1 DEF CloseWrite, Written
    <3> QED
      BY <3>1, <3>2
  <2> QED
    BY <2>1, <2>2
<1>4. ASSUME NEW ok \in BOOLEAN, Announce(ok)
      PROVE  rxtx'[p] \in {{}, RxTx}
  <2>1. At = "announce" /\ UNCHANGED rxtx
    BY <1>4 DEF Announce, At, Writing
  <2> QED
    BY <1>1, <2>1 DEF BeforeOpen
<1>5. ASSUME NEW ok \in BOOLEAN, PortMode(ok)
      PROVE  rxtx'[p] \in {{}, RxTx} \/ (p = Port' /\ At' \in BeforeOpen)
  <2>1. Port' = Port /\ At = "mode" /\ At' = "reconfig"
    BY <1>5, SamePort, BeginsFacts DEF PortMode, Begins
  <2>2. p # Port => rxtx'[p] = rxtx[p]
    BY <1>1, <1>5 DEF PortMode, Written
  <2> QED
    BY <1>1, <2>1, <2>2 DEF BeforeOpen
<1>6. CASE ReconfigLUT
  <2>1. Port' = Port /\ UNCHANGED rxtx /\ At' = "openWrite"
    BY <1>6, SamePort, BeginsFacts DEF ReconfigLUT, Begins
  <2> QED
    BY <1>1, <2>1 DEF BeforeOpen
<1>7. ASSUME NEW ok \in BOOLEAN, LutIndex(ok) \/ LutData(ok)
      PROVE  rxtx'[p] \in {{}, RxTx} \/ (p = Port' /\ At' \in BeforeOpen)
  <2>1. Port' = Port /\ UNCHANGED rxtx
    BY <1>7, SamePort DEF LutIndex, LutData
  <2>2. At' = At
    BY <1>7, LutDataFacts DEF LutIndex, At, Writing
  <2> QED
    BY <1>1, <2>1, <2>2
<1>8. CASE UNCHANGED vars
  BY <1>1, <1>8, SamePort DEF vars, child, hardware, At
<1> QED
  BY <1>2, <1>3, <1>4, <1>5, <1>6, <1>7, <1>8, NextCases

-----------------------------------------------------------------------------
(* The routing tables.                                                      *)

(* On a reliable chip, the write of an entry changes that entry only.       *)
LEMMA LutDataEffect ==
  ASSUME TypeOK, TodoOK, NEW ok \in BOOLEAN, LutData(ok), NEW e, e = Head(todo),
         NEW c \in Chips, Reliable(c), NEW id \in IDs \cup {HostID}
  PROVE  lut'[c][id] = IF e[1] = c /\ e[2] = id THEN e[3] ELSE lut[c][id]
<1>1. lut \in [Chips -> [IDs \cup {HostID} -> 0 .. 255]]
  BY DEF TypeOK
<1>2. CASE e[1] = c
  <2>1. lut' = [lut EXCEPT ![c][e[2]] = e[3]]
    BY <1>2, LutDataFacts
  <2> QED
    BY <1>1, <1>2, <2>1
<1>3. CASE e[1] # c
  BY <1>1, <1>3 DEF LutData
<1> QED
  BY <1>2, <1>3

LEMMA RoutedKept ==
  ASSUME TypeOK, TodoOK, NEW ok \in BOOLEAN, LutData(ok), NEW e, e = Head(todo),
         NEW c \in Chips, Reliable(c), NEW id \in IDs \cup {HostID}, NEW port,
         Routed(c, id, port),
         e[1] = c /\ e[2] = id => e[3] = port
  PROVE  lut'[c][id] = port \/ <<c, id, port>> \in Pending'
<1>1. lut'[c][id] = IF e[1] = c /\ e[2] = id THEN e[3] ELSE lut[c][id]
  BY LutDataEffect
<1>2. Pending = {e} \cup Pending'
  BY LutDataFacts
<1> QED
  BY <1>1, <1>2 DEF Routed

(* The entries of a repair: they are of its port, or of the host ID.        *)
LEMMA EntryShape ==
  ASSUME TypeOK, NEW next \in {"mode", "reconfig", "openWrite"}, NEW e \in EntriesFor(next)
  PROVE  /\ next = "mode" => e[1] = Chip /\ e[2] \in IDsOf(Port) /\ e[3] = Discard
         /\ next = "openWrite" => e[1] = Chip /\ e[2] \in IDsOf(Port) /\ e[3] = Port[2]
         /\ next = "reconfig" =>
              /\ e[2] = HostID
              /\ e[1] = Chip => e[3] = Port[2]
              /\ e[1] # Chip => e[1] = 0 /\ e[3] = Uplink[Chip]
BY DEF EntriesFor, HostEntries

LEMMA RoutesStep ==
  ASSUME TypeOK, TodoOK, PortOK, RoutesOK, [Next]_vars
  PROVE  RoutesOK'
<1>0. Port \in Ports /\ Chip \in Chips /\ IDsOf(Port) \subseteq IDs /\ HostID \notin IDsOf(Port)
  BY CurrentPort, PortFacts
<1>1. CASE Environment
  BY <1>1, EnvironmentFacts DEF RoutesOK, Routed
<1>2. ASSUME NEW ok \in BOOLEAN, Plain(ok)
      PROVE  RoutesOK'
  <2>1. At = step /\ At' = step'
    BY <1>2, PlainFacts
  <2>2. CASE OpenRead(ok)
    <3>1. Port' = Port /\ Chip' = Chip
      BY <2>2, SamePort DEF OpenRead
    <3>2. Reliable(Chip) => ok /\ rxtx[Port] = RxTx
      BY <2>1, <2>2, ReliableSucceeds DEF OpenRead, PortOK, BeforeMode, BeforeOpen, Clearing
    <3>3. Reliable(Chip) => step' = "clearLane"
      BY <2>2, <3>2 DEF OpenRead
    <3> QED
      BY <2>1, <3>1, <3>3 DEF RoutesOK
  <2>3. CASE ~ OpenRead(ok)
    <3>1. step' \notin {"mode", "reconfig", "openWrite"}
      BY <1>2, <2>3 DEF Plain, Detect, DetectLane, CloseWrite, CloseRead, Wait, ResetAckid,
         Request, Response, Resync, OpenWrite, ClearLane, ClearPort, Recheck, RecheckLane,
         NextLink
    <3> QED
      BY <2>1, <3>1 DEF RoutesOK
  <2> QED
    BY <2>2, <2>3
<1>3. ASSUME NEW ok \in BOOLEAN, Announce(ok)
      PROVE  RoutesOK'
  <2>1. Begins(EntriesFor("mode"), "mode")
    BY <1>3, BeginsFacts
  <2>2. Port' = Port /\ Chip' = Chip /\ At' = "mode"
        /\ Pending' = {<<Chip, id, Discard>> : id \in IDsOf(Port)}
    BY <2>1, SamePort DEF Begins, EntriesFor
  <2> QED
    BY <2>2 DEF RoutesOK, Routed
<1>4. ASSUME NEW ok \in BOOLEAN, PortMode(ok)
      PROVE  RoutesOK'
  <2>1. Begins(EntriesFor("reconfig"), "reconfig")
    BY <1>4, BeginsFacts
  <2>2. Port' = Port /\ Chip' = Chip /\ At' = "reconfig" /\ Pending' = HostEntries
        /\ Pending = {} /\ At = "mode" /\ UNCHANGED lut
    BY <1>4, <2>1, SamePort DEF Begins, EntriesFor, PortMode, routing
  <2>3. Reliable(Chip) => \A id \in IDsOf(Port) : lut[Chip][id] = Discard
    BY <2>2 DEF RoutesOK, Routed
  <2> QED
    BY <2>2, <2>3 DEF RoutesOK, Routed, HostEntries
<1>5. ASSUME ReconfigLUT
      PROVE  RoutesOK'
  <2>1. Begins(EntriesFor("openWrite"), "openWrite")
    BY <1>5, BeginsFacts
  <2>2. Port' = Port /\ Chip' = Chip /\ At' = "openWrite"
        /\ Pending' = {<<Chip, id, Port[2]>> : id \in IDsOf(Port)}
    BY <2>1, SamePort DEF Begins, EntriesFor
  <2> QED
    BY <2>2 DEF RoutesOK, Routed
<1>6. ASSUME NEW ok \in BOOLEAN, LutIndex(ok)
      PROVE  RoutesOK'
  <2>1. Port' = Port /\ Chip' = Chip /\ At' = At /\ Pending' = Pending /\ UNCHANGED lut
    BY <1>6, SamePort DEF LutIndex, At, Pending, Writing
  <2> QED
    BY <2>1 DEF RoutesOK, Routed
<1>7. ASSUME NEW ok \in BOOLEAN, LutData(ok)
      PROVE  RoutesOK'
  <2> DEFINE e == Head(todo)
  <2>1. Port' = Port /\ Chip' = Chip
    BY <1>7, SamePort DEF LutData
  <2>2. /\ At = after /\ At' = after /\ after \in {"mode", "reconfig", "openWrite"}
        /\ e \in EntriesFor(after)
    BY <1>7, LutDataFacts
  <2>3. SUFFICES ASSUME Reliable(Chip)
                 PROVE  RoutesOK'
    BY <2>1 DEF RoutesOK
  <2>4. CASE after = "mode"
    <3>1. ASSUME NEW id \in IDsOf(Port)
          PROVE  lut'[Chip][id] = Discard \/ <<Chip, id, Discard>> \in Pending'
      <4>1. Routed(Chip, id, Discard)
        BY <2>2, <2>3, <2>4 DEF RoutesOK
      <4>2. e[3] = Discard
        BY <2>2, <2>4, EntryShape
      <4> QED
        BY <1>0, <1>7, <2>3, <4>1, <4>2, RoutedKept
    <3> QED
      BY <2>1, <2>2, <2>4, <3>1 DEF RoutesOK, Routed
  <2>5. CASE after = "openWrite"
    <3>1. ASSUME NEW id \in IDsOf(Port)
          PROVE  lut'[Chip][id] = Port[2] \/ <<Chip, id, Port[2]>> \in Pending'
      <4>1. Routed(Chip, id, Port[2])
        BY <2>2, <2>3, <2>5 DEF RoutesOK
      <4>2. e[3] = Port[2]
        BY <2>2, <2>5, EntryShape
      <4> QED
        BY <1>0, <1>7, <2>3, <4>1, <4>2, RoutedKept
    <3> QED
      BY <2>1, <2>2, <2>5, <3>1 DEF RoutesOK, Routed
  <2>6. CASE after = "reconfig"
    <3>1. /\ e[2] = HostID
          /\ e[1] = Chip => e[3] = Port[2]
          /\ e[1] # Chip => e[1] = 0 /\ e[3] = Uplink[Chip]
      BY <2>2, <2>6, EntryShape
    <3>2. ASSUME NEW id \in IDsOf(Port)
          PROVE  lut'[Chip][id] = Discard
      <4>1. lut[Chip][id] = Discard
        BY <2>2, <2>3, <2>6 DEF RoutesOK
      <4> QED
        BY <1>0, <1>7, <2>3, <3>1, <4>1, LutDataEffect
    <3>3. lut'[Chip][HostID] = Port[2] \/ <<Chip, HostID, Port[2]>> \in Pending'
      <4>1. Routed(Chip, HostID, Port[2])
        BY <2>2, <2>3, <2>6 DEF RoutesOK
      <4> QED
        BY <1>0, <1>7, <2>3, <3>1, <4>1, RoutedKept
    <3>4. ASSUME Chip # 0, Reliable(0)
          PROVE  lut'[0][HostID] = Uplink[Chip] \/ <<0, HostID, Uplink[Chip]>> \in Pending'
      <4>1. Routed(0, HostID, Uplink[Chip])
        BY <2>2, <2>3, <2>6, <3>4 DEF RoutesOK
      <4>2. 0 \in Chips /\ (e[1] = 0 => e[3] = Uplink[Chip])
        BY <3>1, <3>4 DEF Chips
      <4> QED
        BY <1>7, <3>4, <4>1, <4>2, RoutedKept
    <3> QED
      BY <2>1, <2>2, <2>6, <3>2, <3>3, <3>4 DEF RoutesOK, Routed
  <2> QED
    BY <2>2, <2>4, <2>5, <2>6
<1>8. CASE UNCHANGED vars
  BY <1>8, SamePort DEF vars, child, hardware, routing, RoutesOK, Routed, At, Pending
<1> QED
  BY <1>1, <1>2, <1>3, <1>4, <1>5, <1>6, <1>7, <1>8, NextCases

LEMMA OpenStep ==
  ASSUME TypeOK, TodoOK, PortOK, RoutesOK, OpenMeansRouted, [Next]_vars
  PROVE  OpenMeansRouted'
<1>0. Port \in Ports /\ Chip = Port[1] /\ Chip \in Chips
  BY CurrentPort DEF Chip
<1>1. SUFFICES ASSUME NEW p \in Ports, rxtx'[p] = RxTx, Reliable(p[1]), NEW id \in IDsOf(p)
               PROVE  lut'[p[1]][id] = p[2]
  BY DEF OpenMeansRouted, Open
<1>2. p[1] \in Chips /\ id \in IDs /\ id # HostID
  BY PortFacts
<1>3. rxtx[p] = RxTx => lut[p[1]][id] = p[2]
  BY <1>1 DEF OpenMeansRouted, Open
<1>4. RxTx # {} /\ RxTx # {"output"}
  BY DEF RxTx
<1>5. CASE UNCHANGED <<rxtx, lut>>
  BY <1>1, <1>3, <1>5
<1>6. CASE Environment
  BY <1>5, <1>6, EnvironmentFacts
<1>7. ASSUME NEW ok \in BOOLEAN, Plain(ok)
      PROVE  lut'[p[1]][id] = p[2]
  <2>1. UNCHANGED lut /\ At = step /\ Pending = {}
    BY <1>7, PlainFacts DEF routing
  <2>2. CASE CloseWrite(ok)
    BY <1>0, <1>1, <1>3, <1>4, <2>1, <2>2 DEF CloseWrite, Written, TypeOK
  <2>3. CASE OpenWrite(ok)
    <3>1. CASE p = Port
      <4>1. lut[Chip][id] = Port[2]
        BY <1>0, <1>1, <2>1, <2>3, <3>1 DEF OpenWrite, RoutesOK, Routed
      <4> QED
        BY <1>0, <2>1, <3>1, <4>1
    <3>2. CASE p # Port
      BY <1>1, <1>3, <2>1, <2>3, <3>2 DEF OpenWrite, Written, TypeOK
    <3> QED
      BY <3>1, <3>2
  <2>4. CASE ~ (CloseWrite(ok) \/ OpenWrite(ok))
    <3>1. UNCHANGED rxtx
      BY <1>7, <2>4 DEF Plain, Detect, DetectLane, CloseRead, Wait, ResetAckid, Request,
         Response, Resync, OpenRead, ClearLane, ClearPort, Recheck, RecheckLane, hardware
    <3> QED
      BY <1>5, <2>1, <3>1
  <2> QED
    BY <2>2, <2>3, <2>4
<1>8. ASSUME NEW ok \in BOOLEAN, Announce(ok) \/ LutIndex(ok)
      PROVE  UNCHANGED <<rxtx, lut>>
  BY <1>8 DEF Announce, LutIndex, routing
<1>9. ASSUME NEW ok \in BOOLEAN, PortMode(ok)
      PROVE  lut'[p[1]][id] = p[2]
  BY <1>0, <1>1, <1>3, <1>4, <1>9 DEF PortMode, Written, TypeOK, routing
<1>10. ASSUME ReconfigLUT
       PROVE  UNCHANGED <<rxtx, lut>>
  BY <1>10 DEF ReconfigLUT, routing
<1>11. ASSUME NEW ok \in BOOLEAN, LutData(ok)
       PROVE  lut'[p[1]][id] = p[2]
  <2> DEFINE e == Head(todo)
  <2>1. UNCHANGED rxtx
    BY <1>11 DEF LutData
  <2>2. /\ At = after /\ after \in {"mode", "reconfig", "openWrite"}
        /\ e \in EntriesFor(after)
    BY <1>11, LutDataFacts
  <2>3. ~ (e[1] = p[1] /\ e[2] = id)
    <3>1. CASE after = "reconfig"
      BY <1>2, <2>2, <3>1, EntryShape
    <3>2. CASE after # "reconfig"
      <4>1. e[1] = Chip /\ e[2] \in IDsOf(Port)
        BY <2>2, <3>2, EntryShape
      <4>2. SUFFICES ASSUME p[1] = Chip
                     PROVE  e[2] # id
        BY <4>1
      <4>3. rxtx[Port] # RxTx
        BY <1>1, <1>4, <2>2, <4>2 DEF PortOK, BeforeMode, BeforeOpen
      <4>4. p # Port
        BY <1>1, <2>1, <4>3
      <4> QED
        BY <1>0, <4>1, <4>4, IDsAssumption
    <3> QED
      BY <3>1, <3>2
  <2> QED
    BY <1>1, <1>2, <1>3, <1>11, <2>1, <2>3, LutDataEffect
<1>12. CASE UNCHANGED vars
  BY <1>5, <1>12 DEF vars, hardware, routing
<1> QED
  BY <1>5, <1>6, <1>7, <1>8, <1>9, <1>10, <1>11, <1>12, NextCases

-----------------------------------------------------------------------------
(* The ackid.                                                               *)
LEMMA AckidStep ==
  ASSUME TypeOK, TodoOK, PortOK, AckidOK, [Next]_vars
  PROVE  AckidOK'
<1>0. Port \in Ports /\ ackid \in [Ports -> 0 .. 1]
  BY CurrentPort DEF TypeOK
<1>1. CASE Environment
  <2>1. ASSUME Reliable(Chip), At \in {"request", "response", "resync", "announce", "mode"}
        PROVE  ackid'[Port] = 0
    <3>1. rxtx[Port] = {}
      BY <2>1 DEF PortOK, BeforeMode
    <3> QED
      BY <1>0, <1>1, <2>1, <3>1 DEF AckidOK, Environment, PartnerResets, PartnerAnswers,
         OperatorClears, Traffic
  <2> QED
    BY <1>1, <2>1, EnvironmentFacts DEF AckidOK
<1>2. ASSUME NEW ok \in BOOLEAN, Plain(ok)
      PROVE  AckidOK'
  <2>1. At = step /\ At' = step'
    BY <1>2, PlainFacts
  <2>2. CASE ResetAckid(ok) \/ Resync(ok)
    <3>1. Port' = Port /\ Chip' = Chip
      BY <2>2, SamePort DEF ResetAckid, Resync
    <3>2. Reliable(Chip) => ok
      BY <2>2, ReliableSucceeds DEF ResetAckid, Resync
    <3>3. Reliable(Chip) => ackid'[Port] = 0
      BY <1>0, <2>2, <3>2 DEF ResetAckid, Resync, Written
    <3> QED
      BY <3>1, <3>3 DEF AckidOK
  <2>3. CASE Request(ok) \/ Response(ok)
    <3>1. \/ step' = "detect"
          \/ Port' = Port /\ Chip' = Chip /\ UNCHANGED ackid /\ step \in {"request", "response"}
      BY <2>3, SamePort DEF Request, Response, NextLink
    <3> QED
      BY <2>1, <3>1 DEF AckidOK
  <2>4. CASE ~ (ResetAckid(ok) \/ Resync(ok) \/ Request(ok) \/ Response(ok))
    <3>1. step' \notin {"request", "response", "resync", "announce", "mode"}
      BY <1>2, <2>4 DEF Plain, Detect, DetectLane, CloseWrite, CloseRead, Wait, OpenWrite,
         OpenRead, ClearLane, ClearPort, Recheck, RecheckLane, NextLink
    <3> QED
      BY <2>1, <3>1 DEF AckidOK
  <2> QED
    BY <2>2, <2>3, <2>4
<1>3. ASSUME NEW ok \in BOOLEAN, Announce(ok)
      PROVE  AckidOK'
  <2>1. Port' = Port /\ Chip' = Chip /\ UNCHANGED ackid /\ At = "announce"
    BY <1>3, SamePort, BeginsFacts DEF Announce, Begins
  <2> QED
    BY <2>1 DEF AckidOK
<1>4. ASSUME NEW ok \in BOOLEAN, PortMode(ok) \/ ReconfigLUT
      PROVE  AckidOK'
  <2>1. At' \in {"reconfig", "openWrite"}
    BY <1>4, BeginsFacts DEF Begins
  <2> QED
    BY <2>1 DEF AckidOK
<1>5. ASSUME NEW ok \in BOOLEAN, LutIndex(ok) \/ LutData(ok)
      PROVE  AckidOK'
  <2>1. Port' = Port /\ Chip' = Chip /\ UNCHANGED ackid
    BY <1>5, SamePort DEF LutIndex, LutData
  <2>2. LutIndex(ok) => At' = At
    BY DEF At, LutIndex, Writing
  <2>3. LutData(ok) => At' = At
    BY LutDataFacts
  <2> QED
    BY <1>5, <2>1, <2>2, <2>3 DEF AckidOK
<1>6. CASE UNCHANGED vars
  BY <1>6, SamePort DEF vars, child, hardware, AckidOK, At
<1>7. TRUE \in BOOLEAN
  OBVIOUS
<1> QED
  BY <1>1, <1>2, <1>3, <1>4, <1>5, <1>6, <1>7, NextCases

-----------------------------------------------------------------------------
(* The traces of the resets.                                                *)

(* A step inside a repair changes nothing for the other boards.             *)
LEMMA InsideRepair ==
  ASSUME TraceIdle, NothingForgotten, Port' = Port,
         step \notin {"detect", "lane"}, step' \notin {"detect", "lane"},
         \A p \in Ports : p # Port =>
           rxtx'[p] = rxtx[p] /\ errs'[p] = errs[p] /\ configured'[p] = configured[p],
         UNCHANGED history
  PROVE  TraceIdle' /\ NothingForgotten'
BY DEF TraceIdle, NothingForgotten, InOrder, Repairing, Open, history

(* The end of a repair, and of a look at a port that needs none.            *)
LEMMA LeavePort ==
  ASSUME TypeOK, TraceIdle, NothingForgotten, step' = "detect",
         UNCHANGED <<rxtx, errs, configured, history>>,
         Reliable(Chip) /\ Repairing(Port) =>
           /\ InOrder(Port) => errs[Port] = {}
           /\ InOrder(Port) \/ errs[Port] = Errors \/ Port \in late \cup wiped
  PROVE  TraceIdle' /\ NothingForgotten' /\ TraceCurrent'
<1>1. \A p \in Ports : Repairing(p) => p = Port
  BY DEF Repairing
<1>2. TraceIdle'
  BY <1>1, CurrentPort DEF TraceIdle, InOrder, Open, Repairing, Chip
<1>3. NothingForgotten'
  BY <1>1, CurrentPort DEF NothingForgotten, InOrder, Open, Repairing, history, Chip
<1>4. TraceCurrent'
  BY DEF TraceCurrent, At, Writing, Early, LateSteps, BeforeMode, Clearing
<1> QED
  BY <1>2, <1>3, <1>4

(* Until the board is configured.                                           *)
LEMMA EarlyStep ==
  ASSUME TypeOK, TraceIdle, TraceCurrent, NothingForgotten,
         At \in Early, At' \in Early, step \notin {"detect", "lane"},
         step' \notin {"detect", "lane"},
         UNCHANGED <<link, errs, configured, history>>,
         \A p \in Ports : p # Port => rxtx'[p] = rxtx[p],
         Reliable(Chip) => rxtx' = rxtx \/ rxtx'[Port] # RxTx
  PROVE  TraceIdle' /\ NothingForgotten' /\ TraceCurrent'
<1>1. Port' = Port /\ Chip' = Chip
  BY SamePort
<1>2. TraceIdle' /\ NothingForgotten'
  BY <1>1, InsideRepair
<1>3. Reliable(Chip) =>
        /\ ~ (rxtx'[Port] = RxTx /\ configured[Port])
        /\ errs[Port] = Errors \/ Port \in wiped
  BY DEF TraceCurrent, InOrder, Open
<1>4. At' \notin LateSteps /\ step' \notin {"clearPort", "recheck", "recheckLane"}
  BY DEF Early, LateSteps, BeforeMode, Clearing, At, Writing
<1>5. TraceCurrent'
  BY <1>1, <1>3, <1>4 DEF TraceCurrent, InOrder, Open, history
<1> QED
  BY <1>2, <1>5

(* From then on.                                                            *)
LEMMA LateStep ==
  ASSUME TypeOK, TraceIdle, TraceCurrent, NothingForgotten,
         At' \in LateSteps, step \notin {"detect", "lane"}, step' \notin {"detect", "lane"},
         UNCHANGED <<link, history>>,
         \A p \in Ports : p # Port =>
           rxtx'[p] = rxtx[p] /\ errs'[p] = errs[p] /\ configured'[p] = configured[p],
         Reliable(Chip) =>
           /\ configured'[Port] \/ Port \in late
           /\ step' = "clearPort" /\ configured'[Port] => "lane" \notin errs'[Port]
           /\ step' \in {"recheck", "recheckLane"} /\ configured'[Port] => errs'[Port] = {}
  PROVE  TraceIdle' /\ NothingForgotten' /\ TraceCurrent'
<1>1. Port' = Port /\ Chip' = Chip
  BY SamePort
<1>2. TraceIdle' /\ NothingForgotten'
  BY <1>1, InsideRepair
<1>3. At' \notin Early
  BY DEF Early, LateSteps, BeforeMode, Clearing
<1>4. TraceCurrent'
  BY <1>1, <1>3 DEF TraceCurrent, InOrder, Open, history
<1> QED
  BY <1>2, <1>4

(* The boards and the operator.                                             *)
LEMMA TraceEnvironment ==
  ASSUME TypeOK, TodoOK, TraceIdle, TraceCurrent, NothingForgotten, Environment
  PROVE  TraceIdle' /\ NothingForgotten' /\ TraceCurrent'
<1> USE DEF InOrder, Open
<1>0. /\ UNCHANGED <<step, link, errSeen, todo, after, rxtx>>
      /\ Port' = Port /\ Chip' = Chip /\ At' = At
      /\ Port \in Ports /\ Chip = Port[1]
      /\ \A p : Repairing(p)' = Repairing(p)
      /\ errs \in [Ports -> SUBSET Errors] /\ configured \in [Ports -> BOOLEAN]
  BY EnvironmentFacts, CurrentPort DEF Repairing, Chip, TypeOK
<1>1. PICK q \in Ports :
        \/ PartnerResets(q) \/ PartnerAnswers(q) \/ Traffic(q)
        \/ \E register \in Errors : OperatorClears(q, register)
  BY DEF Environment
<1>2. CASE PartnerAnswers(q) \/ Traffic(q)
  <2>1. UNCHANGED <<errs, configured, late, wiped>>
    BY <1>2 DEF PartnerAnswers, Traffic, history
  <2> QED
    BY <1>0, <2>1 DEF TraceIdle, TraceCurrent, NothingForgotten
<1>3. CASE PartnerResets(q)
  <2>1. /\ errs'[q] = Errors /\ ~ configured'[q] /\ q \notin wiped'
        /\ \A p \in Ports : p # q =>
             /\ errs'[p] = errs[p] /\ configured'[p] = configured[p]
             /\ p \in late' <=> p \in late
             /\ p \in wiped' <=> p \in wiped
    BY <1>0, <1>3 DEF PartnerResets
  <2>2. TraceIdle' /\ NothingForgotten'
    BY <1>0, <2>1 DEF TraceIdle, NothingForgotten
  <2>3. CASE q # Port
    <3>1. /\ errs'[Port] = errs[Port] /\ configured'[Port] = configured[Port]
          /\ Port \in late' <=> Port \in late
          /\ Port \in wiped' <=> Port \in wiped
      BY <1>0, <2>1, <2>3
    <3> QED
      BY <1>0, <2>2, <3>1 DEF TraceCurrent
  <2>4. CASE q = Port
    <3>1. At \in LateSteps => Late(q)
      BY <2>4 DEF Late, Repairing, At, Writing, LateSteps, Clearing, TodoOK
    <3>2. At \in LateSteps => q \in late'
      BY <1>3, <3>1 DEF PartnerResets
    <3>3. "port" \in Errors
      BY DEF Errors
    <3> QED
      BY <1>0, <2>1, <2>2, <2>4, <3>2, <3>3 DEF TraceCurrent
  <2> QED
    BY <2>2, <2>3, <2>4
<1>4. ASSUME NEW register \in Errors, OperatorClears(q, register)
      PROVE  TraceIdle' /\ NothingForgotten' /\ TraceCurrent'
  <2>1. /\ errs[q] # {} /\ errs'[q] \subseteq errs[q]
        /\ \A p \in Ports : p # q => errs'[p] = errs[p]
        /\ UNCHANGED <<configured, late>>
        /\ wiped \subseteq wiped' /\ (~ InOrder(q) => q \in wiped')
    BY <1>0, <1>4 DEF OperatorClears
  <2>2. TraceIdle' /\ NothingForgotten'
    BY <1>0, <2>1 DEF TraceIdle, NothingForgotten
  <2>3. CASE q # Port
    <3>1. /\ errs'[Port] = errs[Port] /\ configured'[Port] = configured[Port]
          /\ Port \in late' <=> Port \in late
          /\ Port \in wiped => Port \in wiped'
      BY <1>0, <2>1, <2>3
    <3> QED
      BY <1>0, <2>2, <3>1 DEF TraceCurrent
  <2>4. CASE q = Port
    <3>1. /\ configured'[Port] = configured[Port] /\ errs'[Port] \subseteq errs[Port]
          /\ errs[Port] # {}
          /\ Port \in late' <=> Port \in late
          /\ ~ InOrder(Port) => Port \in wiped'
      BY <1>0, <2>1, <2>4
    <3> QED
      BY <1>0, <2>2, <3>1 DEF TraceCurrent
  <2> QED
    BY <2>2, <2>3, <2>4
<1> QED
  BY <1>1, <1>2, <1>3, <1>4

LEMMA TraceStep ==
  ASSUME TypeOK, TodoOK, PortOK, TraceIdle, TraceCurrent, NothingForgotten, [Next]_vars
  PROVE  TraceIdle' /\ NothingForgotten' /\ TraceCurrent'
<1> DEFINE Kept == TraceIdle' /\ NothingForgotten' /\ TraceCurrent'
<1>0. /\ Port \in Ports /\ Chip = Port[1]
      /\ rxtx \in [Ports -> SUBSET RxTx] /\ errs \in [Ports -> SUBSET Errors]
      /\ configured \in [Ports -> BOOLEAN] /\ RxTx # {} /\ RxTx # {"output"}
  <2>1. RxTx # {} /\ RxTx # {"output"}
    BY DEF RxTx
  <2> QED
    BY <2>1, CurrentPort DEF Chip, TypeOK
<1>1. CASE Environment
  BY <1>1, TraceEnvironment
<1>2. ASSUME NEW ok \in BOOLEAN, Plain(ok)
      PROVE  Kept
  <2>0. At = step /\ At' = step' /\ UNCHANGED <<configured, history>>
    BY <1>2, PlainFacts
  <2>1. CASE Detect(ok)
    <3>1. /\ step = "detect" /\ step' = "lane" /\ Port' = Port /\ Chip' = Chip
          /\ UNCHANGED <<rxtx, errs, configured, late, wiped>>
          /\ \A p : ~ Repairing(p) /\ ~ Repairing(p)'
      BY <2>1, SamePort DEF Detect, hardware, history, Repairing
    <3>2. ASSUME Reliable(Chip), errSeen'
          PROVE  "port" \in errs[Port] /\ ~ InOrder(Port)
      <4>1. ok
        BY <2>1, <3>2, ReliableSucceeds DEF Detect
      <4>2. "port" \in errs[Port]
        BY <2>1, <3>2, <4>1 DEF Detect
      <4> QED
        BY <1>0, <3>1, <3>2, <4>2 DEF TraceIdle
    <3>3. TraceIdle' /\ NothingForgotten'
      BY <3>1 DEF TraceIdle, NothingForgotten, InOrder, Open
    <3>4. TraceCurrent'
      BY <2>0, <3>1, <3>2 DEF TraceCurrent, InOrder, Open, Early, LateSteps, BeforeMode,
         Clearing
    <3> QED
      BY <3>3, <3>4
  <2>2. CASE DetectLane(ok)
    <3>1. CASE WasReset(ok)
      <4>1. /\ step = "lane" /\ step' = "closeWrite" /\ Port' = Port /\ Chip' = Chip
            /\ UNCHANGED <<rxtx, errs, configured, late, wiped>>
            /\ \A p : ~ Repairing(p)
        BY <2>2, <3>1, SamePort DEF DetectLane, hardware, history, Repairing
      <4>2. ASSUME Reliable(Chip)
            PROVE  ~ InOrder(Port) /\ (errs[Port] = Errors \/ Port \in wiped)
        <5>1. errSeen /\ "lane" \in errs[Port]
          BY <2>2, <3>1, <4>2, ReliableSucceeds DEF DetectLane, WasReset
        <5> QED
          BY <1>0, <4>1, <4>2, <5>1 DEF TraceCurrent, Errors
      <4>3. TraceIdle' /\ NothingForgotten'
        BY <4>1 DEF TraceIdle, NothingForgotten, InOrder, Open
      <4>4. TraceCurrent'
        BY <2>0, <4>1, <4>2 DEF TraceCurrent, InOrder, Open, LateSteps, Clearing
      <4> QED
        BY <4>3, <4>4
    <3>2. CASE ~ WasReset(ok)
      <4>1. step' = "detect" /\ UNCHANGED <<hardware, history>> /\ ~ Repairing(Port)
        BY <2>2, <3>2 DEF DetectLane, NextLink, Repairing
      <4> QED
        BY <4>1, LeavePort DEF hardware
    <3> QED
      BY <3>1, <3>2
  <2>3. CASE CloseWrite(ok)
    <3>1. Reliable(Chip) => ok
      BY <2>3, ReliableSucceeds DEF CloseWrite
    <3>2. /\ \A p \in Ports : p # Port => rxtx'[p] = rxtx[p]
          /\ Reliable(Chip) => rxtx'[Port] # RxTx
      BY <1>0, <2>3, <3>1 DEF CloseWrite, Written
    <3> QED
      BY <2>0, <2>3, <3>2, EarlyStep DEF CloseWrite, Early, BeforeMode
  <2>4. CASE CloseRead(ok) \/ Wait \/ ResetAckid(ok) \/ Request(ok) \/ Resync(ok)
    BY <2>0, <2>4, EarlyStep DEF CloseRead, Wait, ResetAckid, Request, Resync, Early,
       BeforeMode, hardware
  <2>5. CASE Response(ok)
    <3>1. UNCHANGED <<rxtx, ackid, errs, routing, configured, history>> /\ step = "response"
      BY <2>5 DEF Response
    <3>2. CASE step' # "detect"
      <4>1. UNCHANGED link /\ step' \in {"request", "resync"}
        BY <2>5, <3>2 DEF Response, NextLink
      <4> QED
        BY <2>0, <3>1, <4>1, EarlyStep DEF Early, BeforeMode
    <3>3. CASE step' = "detect"
      <4>1. Reliable(Chip) => ~ InOrder(Port) /\ (errs[Port] = Errors \/ Port \in wiped)
        BY <2>0, <3>1 DEF TraceCurrent, Early, BeforeMode
      <4> QED
        BY <3>1, <3>3, <4>1, LeavePort
    <3> QED
      BY <3>2, <3>3
  <2>6. CASE OpenWrite(ok) \/ OpenRead(ok)
    <3>1. /\ step \in LateSteps /\ step' \in {"openRead", "clearLane", "openWrite"}
          /\ UNCHANGED <<link, errs>>
          /\ \A p \in Ports : p # Port => rxtx'[p] = rxtx[p]
      BY <1>0, <2>6 DEF OpenWrite, OpenRead, LateSteps, Clearing, Written, hardware
    <3>2. Reliable(Chip) => configured[Port] \/ Port \in late
      BY <2>0, <3>1 DEF TraceCurrent
    <3> QED
      BY <2>0, <3>1, <3>2, LateStep DEF LateSteps, Clearing
  <2>7. CASE ClearLane(ok) \/ ClearPort(ok)
    <3>1. /\ step \in {"clearLane", "clearPort"} /\ UNCHANGED <<link, rxtx>>
          /\ \A p \in Ports : p # Port => errs'[p] = errs[p]
      BY <1>0, <2>7 DEF ClearLane, ClearPort, Written
    <3>2. Reliable(Chip) => ok /\ (configured[Port] \/ Port \in late)
      BY <2>0, <2>7, <3>1, ReliableSucceeds
         DEF ClearLane, ClearPort, TraceCurrent, LateSteps, Clearing
    <3>3. CASE ClearLane(ok)
      <4>1. step' = "clearPort" /\ (Reliable(Chip) => "lane" \notin errs'[Port])
        BY <1>0, <3>2, <3>3 DEF ClearLane, Written
      <4> QED
        BY <2>0, <3>1, <3>2, <4>1, LateStep DEF LateSteps, Clearing
    <3>4. CASE ClearPort(ok)
      <4>1. step' = "recheck"
        BY <3>4 DEF ClearPort
      <4>2. ASSUME Reliable(Chip), configured[Port]
            PROVE  errs'[Port] = {}
        <5>1. "lane" \notin errs[Port]
          BY <3>4, <4>2 DEF ClearPort, TraceCurrent
        <5> QED
          BY <1>0, <3>2, <3>4, <4>2, <5>1 DEF ClearPort, Written, Errors
      <4> QED
        BY <2>0, <3>1, <3>2, <4>1, <4>2, LateStep DEF LateSteps, Clearing
    <3> QED
      BY <2>7, <3>3, <3>4
  <2>8. CASE Recheck(ok) \/ RecheckLane(ok)
    <3>1. step \in {"recheck", "recheckLane"} /\ UNCHANGED <<hardware, history>>
      BY <2>8 DEF Recheck, RecheckLane
    <3>2. Reliable(Chip) =>
            /\ configured[Port] \/ Port \in late
            /\ configured[Port] => errs[Port] = {}
      BY <2>0, <3>1 DEF TraceCurrent, LateSteps, Clearing
    <3>3. CASE step' # "detect"
      <4>1. UNCHANGED link /\ step' \in {"clearLane", "recheckLane"}
        BY <2>8, <3>3 DEF Recheck, RecheckLane, NextLink
      <4> QED
        BY <2>0, <3>1, <3>2, <4>1, LateStep DEF LateSteps, Clearing, hardware
    <3>4. CASE step' = "detect"
      <4>1. Reliable(Chip) => rxtx[Port] = RxTx
        BY <2>0, <3>1 DEF PortOK, Clearing
      <4> QED
        BY <3>1, <3>2, <3>4, <4>1, LeavePort DEF InOrder, Open, hardware
    <3> QED
      BY <3>3, <3>4
  <2> QED
    BY <1>2, <2>1, <2>2, <2>3, <2>4, <2>5, <2>6, <2>7, <2>8 DEF Plain
<1>3. ASSUME NEW ok \in BOOLEAN, Announce(ok)
      PROVE  Kept
  <2>1. At = step /\ At' = "mode" /\ step' \in {"lutIndex", "mode"}
    BY <1>3, BeginsFacts DEF Begins
  <2> QED
    BY <1>3, <2>1, EarlyStep DEF Announce, Early, BeforeMode
<1>4. ASSUME NEW ok \in BOOLEAN, PortMode(ok)
      PROVE  Kept
  <2>1. At = step /\ At' = "reconfig" /\ step' \in {"lutIndex", "reconfig"}
    BY <1>4, BeginsFacts DEF Begins
  <2>2. Reliable(Chip) => ok
    BY <1>4, ReliableSucceeds DEF PortMode
  <2>3. /\ \A p \in Ports : p # Port => rxtx'[p] = rxtx[p]
        /\ Reliable(Chip) => rxtx'[Port] # RxTx
    BY <1>0, <1>4, <2>2 DEF PortMode, Written
  <2> QED
    BY <1>4, <2>1, <2>3, EarlyStep DEF PortMode, Early, BeforeMode
<1>5. ASSUME ReconfigLUT
      PROVE  Kept
  <2>1. At' = "openWrite" /\ step' \in {"lutIndex", "openWrite"}
    BY <1>5, BeginsFacts DEF Begins
  <2>2. /\ step = "reconfig" /\ UNCHANGED <<link, rxtx, errs, history>>
        /\ configured'[Port] = TRUE
        /\ \A p \in Ports : p # Port => configured'[p] = configured[p]
    BY <1>0, <1>5 DEF ReconfigLUT
  <2> QED
    BY <2>1, <2>2, LateStep DEF LateSteps
<1>6. ASSUME NEW ok \in BOOLEAN, LutIndex(ok) \/ LutData(ok)
      PROVE  Kept
  <2>1. /\ step \in Writing /\ At = after /\ At' = after
        /\ after \in {"mode", "reconfig", "openWrite"}
        /\ step' \in {"lutIndex", "lutData", after}
        /\ UNCHANGED <<link, rxtx, errs, configured, history>>
    <3>1. CASE LutIndex(ok)
      BY <3>1 DEF LutIndex, At, Writing, TodoOK
    <3>2. CASE LutData(ok)
      BY <3>2, LutDataFacts, WriteRoutesFacts DEF LutData, Writing
    <3> QED
      BY <1>6, <3>1, <3>2
  <2>2. step \notin {"detect", "lane"} /\ step' \notin {"detect", "lane"}
    BY <2>1 DEF Writing
  <2>3. CASE after = "openWrite"
    <3>1. Reliable(Chip) => configured[Port] \/ Port \in late
      BY <2>1, <2>3 DEF TraceCurrent, LateSteps
    <3> QED
      BY <2>1, <2>2, <2>3, <3>1, LateStep DEF LateSteps
  <2>4. CASE after # "openWrite"
    BY <2>1, <2>2, <2>4, EarlyStep DEF Early, BeforeMode
  <2> QED
    BY <2>3, <2>4
<1>7. CASE UNCHANGED vars
  BY <1>7, SamePort DEF vars, child, hardware, history, TraceIdle, TraceCurrent,
     NothingForgotten, InOrder, Open, Repairing, At
<1> QED
  BY <1>1, <1>2, <1>3, <1>4, <1>5, <1>6, <1>7, NextCases

-----------------------------------------------------------------------------
(* The inductive invariant.                                                 *)

LEMMA LinkInit ==
  ASSUME Init
  PROVE  IInv
<1>1. TypeOK
  BY TypeInit
<1>2. step = "detect" /\ At = "detect" /\ \A p : ~ Repairing(p)
  BY DEF Init, At, Writing, Repairing
<1>3. OpenMeansRouted
  <2> SUFFICES ASSUME NEW p \in Ports, NEW id \in IDsOf(p)
               PROVE  lut[p[1]][id] = p[2]
    BY DEF OpenMeansRouted
  <2>1. p[1] \in Chips /\ id \in IDs \cup {HostID}
    BY PortFacts
  <2> DEFINE IsOwner(r) == r[1] = p[1] /\ id \in IDsOf(r)
  <2> DEFINE q == CHOOSE r \in Ports : IsOwner(r)
  <2>2. q \in Ports /\ IsOwner(q)
    <3>1. \E r \in Ports : IsOwner(r)
      OBVIOUS
    <3> QED
      BY <3>1
  <2>3. q = p
    BY <2>2, IDsAssumption
  <2>4. lut[p[1]][id] = q[2]
    BY <2>1 DEF Init, Enumerated
  <2> QED
    BY <2>3, <2>4
<1>4. TraceIdle
  BY DEF Init, TraceIdle
<1>5. NothingForgotten
  BY DEF Init, NothingForgotten, Open
<1>6. MaintainedOK
  BY DEF Init, MaintainedOK, Boards
<1>7. RetryOK /\ TodoOK /\ PortOK /\ RoutesOK /\ AckidOK /\ TraceCurrent
  BY <1>2 DEF RetryOK, TodoOK, PortOK, RoutesOK, AckidOK, TraceCurrent, Writing,
     BeforeMode, BeforeOpen, Clearing, Early, LateSteps
<1> QED
  BY <1>1, <1>3, <1>4, <1>5, <1>6, <1>7 DEF IInv

LEMMA LinkStep ==
  ASSUME IInv, [Next]_vars
  PROVE  IInv'
BY TypeStep, TodoStep, PortStep, MaintainedStep, RoutesStep, OpenStep, AckidStep, TraceStep DEF IInv

LEMMA LinkInvariant == Spec => []IInv
<1>1. Init => IInv
  BY LinkInit
<1>2. IInv /\ [Next]_vars => IInv'
  BY LinkStep
<1> QED
  BY <1>1, <1>2, PTL DEF Spec

-----------------------------------------------------------------------------
(* The child process is always at one of its accesses, its retry counter    *)
(* within the bound of the loop, and the registers hold values of theirs.   *)
THEOREM LinkTypeCorrect == Spec => []TypeOK
<1>1. IInv => TypeOK
  BY DEF IInv
<1> QED
  BY <1>1, LinkInvariant, PTL

(* A port is open only with the routes to its board, whatever repairs were  *)
(* given up and whichever other chips fail.                                 *)
THEOREM RoutesCorrect == Spec => []OpenMeansRouted
<1>1. IInv => OpenMeansRouted
  BY DEF IInv
<1> QED
  BY <1>1, LinkInvariant, PTL

(* The child process forgets no board.                                      *)
THEOREM RepairRemembered == Spec => []NothingForgotten
<1>1. IInv => NothingForgotten
  BY DEF IInv
<1> QED
  BY <1>1, LinkInvariant, PTL

(* While a board is configured, its port is closed to the outside and its   *)
(* packets are discarded.                                                   *)
THEOREM ConfigurationQuiet == Spec => []NoPacketsWhileConfigured
<1>1. ASSUME IInv
      PROVE  NoPacketsWhileConfigured
  <2> SUFFICES ASSUME step = "reconfig", Reliable(Chip)
               PROVE  /\ rxtx[Port] = {"output"}
                      /\ \A id \in IDsOf(Port) : lut[Chip][id] = Discard
    BY DEF NoPacketsWhileConfigured
  <2>1. At = "reconfig"
    BY DEF At, Writing
  <2> QED
    BY <1>1, <2>1 DEF IInv, PortOK, RoutesOK, BeforeOpen
<1> QED
  BY <1>1, LinkInvariant, PTL

(* Maintenance packets reach the board that is configured.                  *)
THEOREM MaintenanceCorrect == Spec => []MaintenanceReaches
<1>1. ASSUME IInv
      PROVE  MaintenanceReaches
  <2> SUFFICES ASSUME step = "reconfig", Reliable(0), Reliable(Chip)
               PROVE  /\ lut[Chip][HostID] = Port[2]
                      /\ Chip # 0 => lut[0][HostID] = Uplink[Chip]
    BY DEF MaintenanceReaches
  <2>1. At = "reconfig" /\ Pending = {}
    BY DEF At, Pending, Writing
  <2> QED
    BY <1>1, <2>1 DEF IInv, RoutesOK, Routed
<1> QED
  BY <1>1, LinkInvariant, PTL

(* The ackid of a port stays reset until the port lets packets out.         *)
THEOREM AckidCorrect == Spec => []AckidStaysReset
<1>1. ASSUME IInv
      PROVE  AckidStaysReset
  <2>1. step \in {"request", "response", "resync", "announce", "mode"} => At = step
    BY DEF At, Writing
  <2> QED
    BY <1>1, <2>1 DEF IInv, AckidOK, AckidStaysReset
<1> QED
  BY <1>1, LinkInvariant, PTL

-----------------------------------------------------------------------------
(* The cycle of a port.                                                     *)

phaseOf      == [p \in Boards |-> Phase(p)]
routesOf     == [p \in Boards |-> RoutesTo(p)]
configuredOf == [p \in Boards |-> configured[p]]
nodesOf      == [p \in Boards |-> IDsOf(p)]

(* Where a port of a reliable chip is, by its gates.                        *)
LEMMA PhaseFacts ==
  ASSUME NEW p
  PROVE  /\ rxtx[p] = RxTx => Phase(p) = "open"
         /\ rxtx[p] = {} => Phase(p) = "shut"
         /\ rxtx[p] \notin {{}, RxTx} =>
              Phase(p) = IF p = Port /\ At = "openWrite" THEN "configured" ELSE "maintenance"
<1>1. RxTx # {}
  BY DEF RxTx
<1> QED
  BY <1>1 DEF Phase, Open

LEMMA PhaseFactsNext ==
  ASSUME NEW p
  PROVE  /\ rxtx'[p] = RxTx => Phase(p)' = "open"
         /\ rxtx'[p] = {} => Phase(p)' = "shut"
         /\ rxtx'[p] \notin {{}, RxTx} =>
              Phase(p)' = IF p = Port' /\ At' = "openWrite" THEN "configured" ELSE "maintenance"
<1>1. RxTx # {}
  BY DEF RxTx
<1> QED
  BY <1>1 DEF Phase, Open

(* A board whose port stays as it is stays in its phase.                    *)
LEMMA PhaseKept ==
  ASSUME NEW p \in Boards, rxtx'[p] = rxtx[p],
         rxtx[p] \in {{}, RxTx} \/ (Port' = Port /\ At' = At)
  PROVE  Phase(p)' = Phase(p)
BY PhaseFacts, PhaseFactsNext

LEMMA RoutesKept ==
  ASSUME UNCHANGED lut
  PROVE  routesOf' = routesOf
BY DEF routesOf, RoutesTo

(* An open port has all routes, a mode is set only without any.             *)
LEMMA RoutesAt ==
  ASSUME IInv, Port \in Boards, Pending = {}
  PROVE  /\ At = "mode" => RoutesTo(Port) = {}
         /\ At = "openWrite" => RoutesTo(Port) = IDsOf(Port)
<1>1. Port[2] # Discard /\ Reliable(Chip) /\ RoutesOK /\ Chip = Port[1]
  BY CurrentPort DEF IInv, Discard, Boards, Chip
<1> QED
  BY <1>1 DEF RoutesOK, Routed, RoutesTo

(* What changes the phase of one board only.                                *)
LEMMA PhaseMoves ==
  ASSUME NEW q \in Boards, NEW from, NEW to, Phase(q) = from, Phase(q)' = to,
         \A p \in Boards : p # q => Phase(p)' = Phase(p)
  PROVE  phaseOf[q] = from /\ phaseOf' = [phaseOf EXCEPT ![q] = to]
BY DEF phaseOf

CycleStutters == UNCHANGED <<phaseOf, routesOf, configuredOf>>

LEMMA StutterStep ==
  ASSUME IInv, [Next]_vars, UNCHANGED <<rxtx, lut, configured>>,
         (\A p \in Boards : rxtx[p] \in {{}, RxTx}) \/ (Port' = Port /\ At' = At)
  PROVE  CycleStutters
<1>1. \A p \in Boards : Phase(p)' = Phase(p)
  BY PhaseKept
<1> QED
  BY <1>1, RoutesKept DEF CycleStutters, phaseOf, configuredOf

LEMMA CloseStep ==
  ASSUME IInv, NEW ok \in BOOLEAN, CloseWrite(ok)
  PROVE  Cycle!Next \/ CycleStutters
<1>0. /\ TypeOK /\ MaintainedOK /\ Port \in Ports /\ Chip = Port[1]
      /\ rxtx \in [Ports -> SUBSET RxTx]
  BY CurrentPort DEF IInv, TypeOK, Chip
<1>1. /\ At = "closeWrite" /\ UNCHANGED <<lut, configured>> /\ routesOf' = routesOf
      /\ configuredOf' = configuredOf
  BY RoutesKept DEF CloseWrite, At, Writing, routing, configuredOf
<1>2. \A p \in Boards : rxtx[p] \in {{}, RxTx}
  BY <1>0, <1>1 DEF MaintainedOK, BeforeOpen
<1>3. \A p \in Boards : p # Port => Phase(p)' = Phase(p)
  <2>1. \A p \in Boards : p # Port => rxtx'[p] = rxtx[p]
    BY <1>0 DEF CloseWrite, Written, Boards
  <2> QED
    BY <1>2, <2>1, PhaseKept
<1>4. CASE Port \notin Boards
  BY <1>1, <1>3, <1>4 DEF CycleStutters, phaseOf
<1>5. ASSUME NEW q \in Boards, q = Port
      PROVE  Cycle!Next \/ CycleStutters
  <2>1. Reliable(Chip) /\ ok
    BY <1>0, <1>5, ReliableSucceeds DEF CloseWrite, Boards
  <2>2. Phase(q)' = "shut"
    <3>1. rxtx'[q] = {}
      BY <1>0, <1>5, <2>1 DEF CloseWrite, Written
    <3> QED
      BY <3>1, PhaseFactsNext
  <2>3. CASE rxtx[q] = {}
    <3>1. Phase(q)' = Phase(q)
      BY <2>2, <2>3, PhaseFacts
    <3> QED
      BY <1>1, <1>3, <1>5, <3>1 DEF CycleStutters, phaseOf
  <2>4. CASE rxtx[q] = RxTx
    <3>1. ~ configured[q]
      BY <1>1, <1>5, <2>1, <2>4 DEF IInv, TraceCurrent, Early, InOrder, Open
    <3>2. phaseOf[q] = "open" /\ phaseOf' = [phaseOf EXCEPT ![q] = "shut"]
      BY <1>3, <1>5, <2>2, <2>4, PhaseFacts, PhaseMoves
    <3>3. Cycle!Shut(q)
      BY <1>1, <1>5, <3>1, <3>2
         DEF Cycle!Shut, Cycle!Moves, phaseOf, routesOf, configuredOf
    <3> QED
      BY <1>5, <3>3 DEF Cycle!Next
  <2> QED
    BY <1>2, <1>5, <2>3, <2>4
<1> QED
  BY <1>4, <1>5

LEMMA ModeStep ==
  ASSUME IInv, NEW ok \in BOOLEAN, PortMode(ok)
  PROVE  Cycle!Next \/ CycleStutters
<1>0. /\ TypeOK /\ MaintainedOK /\ PortOK /\ Port \in Ports /\ Chip = Port[1]
      /\ rxtx \in [Ports -> SUBSET RxTx]
  BY CurrentPort DEF IInv, TypeOK, Chip
<1>1. /\ At = "mode" /\ Pending = {} /\ At' = "reconfig"
      /\ UNCHANGED <<lut, configured>> /\ routesOf' = routesOf /\ configuredOf' = configuredOf
  BY <1>0, BeginsFacts, RoutesKept DEF PortMode, Begins, routing, configuredOf
<1>2. \A p \in Boards : rxtx[p] \in {{}, RxTx}
  BY <1>0, <1>1 DEF MaintainedOK, BeforeOpen
<1>3. \A p \in Boards : p # Port => Phase(p)' = Phase(p)
  <2>1. \A p \in Boards : p # Port => rxtx'[p] = rxtx[p]
    BY <1>0 DEF PortMode, Written, Boards
  <2> QED
    BY <1>2, <2>1, PhaseKept
<1>4. CASE Port \notin Boards
  BY <1>1, <1>3, <1>4 DEF CycleStutters, phaseOf
<1>5. ASSUME NEW q \in Boards, q = Port
      PROVE  Cycle!Next \/ CycleStutters
  <2>1. Reliable(Chip) /\ ok
    BY <1>0, <1>5, ReliableSucceeds DEF PortMode, Boards
  <2>2. rxtx[q] = {} /\ rxtx'[q] = {"output"} /\ {"output"} \notin {{}, RxTx}
    BY <1>0, <1>1, <1>5, <2>1 DEF PortMode, Written, PortOK, BeforeMode, RxTx
  <2>3. Phase(q) = "shut" /\ Phase(q)' = "maintenance"
    BY <1>1, <2>2, PhaseFacts, PhaseFactsNext
  <2>4. phaseOf[q] = "shut" /\ phaseOf' = [phaseOf EXCEPT ![q] = "maintenance"]
    BY <1>3, <1>5, <2>3, PhaseMoves
  <2>5. RoutesTo(q) = {}
    BY <1>1, <1>5, RoutesAt
  <2>6. \A p \in Boards : phaseOf[p] \in {"open", "shut"}
    BY <1>2, PhaseFacts DEF phaseOf
  <2>7. Cycle!Maintain(q)
    BY <1>1, <1>5, <2>4, <2>5, <2>6
       DEF Cycle!Maintain, Cycle!Moves, phaseOf, routesOf, configuredOf
  <2> QED
    BY <1>5, <2>7 DEF Cycle!Next
<1> QED
  BY <1>4, <1>5

LEMMA ConfigureStep ==
  ASSUME IInv, ReconfigLUT
  PROVE  Cycle!Next \/ CycleStutters
<1>0. /\ TypeOK /\ MaintainedOK /\ PortOK /\ Port \in Ports /\ Chip = Port[1]
      /\ configured \in [Ports -> BOOLEAN]
  BY CurrentPort DEF IInv, TypeOK, Chip
<1>1. /\ At = "reconfig" /\ At' = "openWrite" /\ Port' = Port
      /\ UNCHANGED <<rxtx, lut>> /\ routesOf' = routesOf
  BY <1>0, BeginsFacts, SamePort, RoutesKept DEF ReconfigLUT, Begins, routing
<1>2. \A p \in Boards : p # Port => rxtx[p] \in {{}, RxTx}
  BY <1>0 DEF MaintainedOK
<1>3. \A p \in Boards : p # Port => Phase(p)' = Phase(p)
  BY <1>1, <1>2, PhaseKept
<1>4. configured' = [configured EXCEPT ![Port] = TRUE]
  BY DEF ReconfigLUT
<1>5. CASE Port \notin Boards
  BY <1>0, <1>1, <1>3, <1>4, <1>5 DEF CycleStutters, phaseOf, configuredOf, Boards
<1>6. ASSUME NEW q \in Boards, q = Port
      PROVE  Cycle!Next \/ CycleStutters
  <2>1. rxtx[q] = {"output"} /\ {"output"} \notin {{}, RxTx}
    BY <1>0, <1>1, <1>6 DEF PortOK, BeforeOpen, Boards, RxTx
  <2>2. Phase(q) = "maintenance" /\ Phase(q)' = "configured"
    BY <1>1, <1>6, <2>1, PhaseFacts, PhaseFactsNext
  <2>3. phaseOf[q] = "maintenance" /\ phaseOf' = [phaseOf EXCEPT ![q] = "configured"]
    BY <1>3, <1>6, <2>2, PhaseMoves
  <2>4. configuredOf' = [configuredOf EXCEPT ![q] = TRUE]
    BY <1>0, <1>4, <1>6 DEF configuredOf, Boards
  <2>5. Cycle!Configure(q)
    BY <1>1, <1>6, <2>3, <2>4
       DEF Cycle!Configure, Cycle!Moves, phaseOf, routesOf, configuredOf
  <2> QED
    BY <1>6, <2>5 DEF Cycle!Next
<1> QED
  BY <1>5, <1>6

LEMMA ReopenStep ==
  ASSUME IInv, NEW ok \in BOOLEAN, OpenWrite(ok)
  PROVE  Cycle!Next \/ CycleStutters
<1>0. /\ TypeOK /\ MaintainedOK /\ PortOK /\ Port \in Ports /\ Chip = Port[1]
      /\ rxtx \in [Ports -> SUBSET RxTx]
  BY CurrentPort DEF IInv, TypeOK, Chip
<1>1. /\ At = "openWrite" /\ Pending = {} /\ UNCHANGED <<lut, configured>>
      /\ routesOf' = routesOf /\ configuredOf' = configuredOf
  BY RoutesKept DEF OpenWrite, At, Pending, Writing, routing, configuredOf
<1>2. \A p \in Boards : p # Port => Phase(p)' = Phase(p)
  <2>1. \A p \in Boards : p # Port => rxtx'[p] = rxtx[p]
    BY <1>0 DEF OpenWrite, Written, Boards
  <2>2. \A p \in Boards : p # Port => rxtx[p] \in {{}, RxTx}
    BY <1>0 DEF MaintainedOK
  <2> QED
    BY <2>1, <2>2, PhaseKept
<1>3. CASE Port \notin Boards
  BY <1>1, <1>2, <1>3 DEF CycleStutters, phaseOf
<1>4. ASSUME NEW q \in Boards, q = Port
      PROVE  Cycle!Next \/ CycleStutters
  <2>1. Reliable(Chip) /\ ok
    BY <1>0, <1>4, ReliableSucceeds DEF OpenWrite, Boards
  <2>2. rxtx[q] = {"output"} /\ rxtx'[q] = RxTx /\ {"output"} \notin {{}, RxTx}
    BY <1>0, <1>1, <1>4, <2>1 DEF OpenWrite, Written, PortOK, BeforeOpen, RxTx
  <2>3. Phase(q) = "configured" /\ Phase(q)' = "open"
    BY <1>1, <1>4, <2>2, PhaseFacts, PhaseFactsNext
  <2>4. phaseOf[q] = "configured" /\ phaseOf' = [phaseOf EXCEPT ![q] = "open"]
    BY <1>2, <1>4, <2>3, PhaseMoves
  <2>5. RoutesTo(q) = IDsOf(Port)
    BY <1>1, <1>4, RoutesAt
  <2>6. Cycle!Open(q)
    BY <1>1, <1>4, <2>4, <2>5
       DEF Cycle!Open, Cycle!Moves, phaseOf, routesOf, configuredOf
  <2> QED
    BY <1>4, <2>6 DEF Cycle!Next
<1> QED
  BY <1>3, <1>4

LEMMA EntryStep ==
  ASSUME IInv, NEW ok \in BOOLEAN, LutData(ok)
  PROVE  Cycle!Next \/ CycleStutters
<1> DEFINE e == Head(todo)
<1>0. /\ TypeOK /\ TodoOK /\ PortOK /\ Port \in Ports /\ Chip = Port[1]
  BY CurrentPort DEF IInv, Chip
<1>1. /\ e \in EntriesFor(after) /\ after \in {"mode", "reconfig", "openWrite"}
      /\ At = after /\ At' = after
  BY <1>0, LutDataFacts
<1>2. Port' = Port /\ UNCHANGED <<rxtx, configured>>
  BY SamePort DEF LutData
<1>3. phaseOf' = phaseOf /\ configuredOf' = configuredOf
  BY <1>1, <1>2, PhaseKept DEF phaseOf, configuredOf
<1>4. ASSUME NEW p \in Boards, NEW id \in IDsOf(p)
      PROVE  lut'[p[1]][id] = IF e[1] = p[1] /\ e[2] = id THEN e[3] ELSE lut[p[1]][id]
  <2>1. p[1] \in Chips /\ id \in IDs \cup {HostID} /\ Reliable(p[1])
    BY PortFacts DEF Boards
  <2> QED
    BY <1>0, <2>1, LutDataEffect
<1>5. CASE \A p \in Boards : e[1] = p[1] => e[2] \notin IDsOf(p)
  <2>1. ASSUME NEW p \in Boards
        PROVE  RoutesTo(p)' = RoutesTo(p)
    BY <1>4, <1>5 DEF RoutesTo
  <2> QED
    BY <1>3, <2>1 DEF CycleStutters, routesOf
<1>6. ASSUME NEW q \in Boards, e[1] = q[1], e[2] \in IDsOf(q)
      PROVE  Cycle!Next
  <2>1. q \in Ports /\ Reliable(q[1]) /\ HostID \notin IDsOf(q)
    BY PortFacts DEF Boards
  <2>2. after # "reconfig"
    BY <1>0, <1>1, <1>6, <2>1, EntryShape
  <2>3. e[1] = Chip /\ e[2] \in IDsOf(Port)
    BY <1>0, <1>1, <2>2, EntryShape
  <2>4. q = Port
    BY <1>0, <1>6, <2>1, <2>3, IDsAssumption
  <2>5. ASSUME NEW p \in Boards, p # q
        PROVE  RoutesTo(p)' = RoutesTo(p)
    <3>1. e[2] \notin IDsOf(p)
      BY <1>0, <2>3, <2>4, <2>5, IDsAssumption DEF Boards
    <3> QED
      BY <1>4, <3>1 DEF RoutesTo
  <2>6. Reliable(Chip)
    BY <1>0, <2>1, <2>4
  <2>7. CASE after = "mode"
    <3>1. e[3] = Discard /\ e[3] # Port[2]
      BY <1>0, <1>1, <2>7, EntryShape, CurrentPort DEF Discard
    <3>2. RoutesTo(q)' = RoutesTo(q) \ {e[2]}
      BY <1>2, <1>4, <1>6, <2>4, <3>1 DEF RoutesTo
    <3>3. routesOf' = [routesOf EXCEPT ![q] = @ \ {e[2]}]
      BY <1>6, <2>4, <2>5, <3>2 DEF routesOf
    <3>4. phaseOf[q] = "shut"
      BY <1>0, <1>1, <1>6, <2>4, <2>6, <2>7, PhaseFacts DEF PortOK, BeforeMode, phaseOf
    <3>5. Cycle!Withdraw(q, e[2])
      BY <1>3, <3>3, <3>4 DEF Cycle!Withdraw, phaseOf, routesOf, configuredOf
    <3> QED
      BY <1>6, <2>3, <2>4, <3>5 DEF Cycle!Next
  <2>8. CASE after = "openWrite"
    <3>1. e[3] = Port[2]
      BY <1>0, <1>1, <2>8, EntryShape
    <3>2. RoutesTo(q)' = RoutesTo(q) \cup {e[2]}
      BY <1>2, <1>4, <1>6, <2>4, <3>1 DEF RoutesTo
    <3>3. routesOf' = [routesOf EXCEPT ![q] = @ \cup {e[2]}]
      BY <1>6, <2>4, <2>5, <3>2 DEF routesOf
    <3>4. rxtx[q] = {"output"} /\ {"output"} \notin {{}, RxTx}
      BY <1>0, <1>1, <2>4, <2>6, <2>8 DEF PortOK, BeforeOpen, RxTx
    <3>5. phaseOf[q] = "configured"
      BY <1>1, <1>6, <2>4, <2>8, <3>4, PhaseFacts DEF phaseOf
    <3>6. Cycle!Readmit(q, e[2])
      BY <1>3, <3>3, <3>5 DEF Cycle!Readmit, phaseOf, routesOf, configuredOf
    <3> QED
      BY <1>6, <2>3, <2>4, <3>6 DEF Cycle!Next
  <2> QED
    BY <1>1, <2>2, <2>7, <2>8
<1> QED
  BY <1>5, <1>6

LEMMA ResetStep ==
  ASSUME IInv, Environment
  PROVE  Cycle!Next \/ CycleStutters
<1>1. TypeOK /\ Port' = Port /\ At' = At /\ UNCHANGED <<rxtx, lut>>
  BY EnvironmentFacts DEF IInv
<1>2. phaseOf' = phaseOf /\ routesOf' = routesOf
  BY <1>1, PhaseKept, RoutesKept DEF phaseOf
<1>3. ASSUME NEW p \in Ports, PartnerResets(p)
      PROVE  Cycle!Next \/ CycleStutters
  <2>1. configured' = [configured EXCEPT ![p] = FALSE] /\ configured \in [Ports -> BOOLEAN]
    BY <1>1, <1>3 DEF PartnerResets, TypeOK
  <2>2. CASE p \in Boards
    <3>1. configuredOf' = [configuredOf EXCEPT ![p] = FALSE]
      BY <2>1, <2>2 DEF configuredOf, Boards
    <3>2. Cycle!Reset(p)
      BY <1>2, <3>1 DEF Cycle!Reset, phaseOf, routesOf, configuredOf
    <3> QED
      BY <2>2, <3>2 DEF Cycle!Next
  <2>3. CASE p \notin Boards
    BY <1>2, <2>1, <2>3 DEF CycleStutters, configuredOf, Boards
  <2> QED
    BY <2>2, <2>3
<1>4. CASE ~ \E p \in Ports : PartnerResets(p)
  <2>1. UNCHANGED configured
    BY <1>4 DEF Environment, PartnerAnswers, Traffic, OperatorClears
  <2> QED
    BY <1>2, <2>1 DEF CycleStutters, configuredOf
<1> QED
  BY <1>3, <1>4

LEMMA CycleStep ==
  ASSUME IInv, [Next]_vars
  PROVE  Cycle!Next \/ CycleStutters
<1>0. TypeOK /\ TodoOK /\ MaintainedOK
  BY DEF IInv
<1>1. ASSUME NEW ok \in BOOLEAN, Plain(ok)
      PROVE  Cycle!Next \/ CycleStutters
  <2>1. CASE OpenWrite(ok)
    BY <2>1, ReopenStep
  <2>2. CASE CloseWrite(ok)
    BY <2>2, CloseStep
  <2>3. CASE ~ OpenWrite(ok) /\ ~ CloseWrite(ok)
    <3>1. UNCHANGED <<rxtx, lut, configured>> /\ \A p \in Boards : rxtx[p] \in {{}, RxTx}
      BY <1>0, <1>1, <2>3, PlainGates, PlainFacts DEF routing
    <3> QED
      BY <3>1, StutterStep
  <2> QED
    BY <2>1, <2>2, <2>3
<1>2. ASSUME NEW ok \in BOOLEAN, Announce(ok)
      PROVE  CycleStutters
  <2>1. At = "announce" /\ UNCHANGED <<rxtx, lut, configured>>
    BY <1>2 DEF Announce, At, Writing, routing
  <2>2. \A p \in Boards : rxtx[p] \in {{}, RxTx}
    BY <1>0, <2>1 DEF MaintainedOK, BeforeOpen
  <2> QED
    BY <2>1, <2>2, StutterStep
<1>3. ASSUME NEW ok \in BOOLEAN, LutIndex(ok)
      PROVE  CycleStutters
  <2>1. Port' = Port /\ At' = At /\ UNCHANGED <<rxtx, lut, configured>>
    BY <1>3, SamePort DEF LutIndex, At, Writing
  <2> QED
    BY <2>1, StutterStep
<1>4. CASE UNCHANGED vars
  <2>1. Port' = Port /\ At' = At /\ UNCHANGED <<rxtx, lut, configured>>
    BY <1>4, SamePort DEF vars, child, hardware, routing, At
  <2> QED
    BY <2>1, StutterStep
<1> QED
  BY <1>1, <1>2, <1>3, <1>4, ModeStep, ConfigureStep, EntryStep, ResetStep, NextCases

(* The watch is the cycle of PortCycle for the ports of reliable chips: it  *)
(* shuts only the port of a board that was reset, configures one board at a *)
(* time and with no packet going to it, and opens a port only with all its  *)
(* routes.                                                                  *)
THEOREM CycleCorrect == Spec => ImplementsCycle
<1>1. ASSUME Init, IInv
      PROVE  Cycle!Init
  <2>1. ASSUME NEW p \in Boards
        PROVE  Phase(p) = "open" /\ RoutesTo(p) = IDsOf(p) /\ configured[p] = TRUE
    <3>1. p \in Ports /\ rxtx[p] = RxTx /\ Reliable(p[1]) /\ configured[p] = TRUE
      BY <1>1 DEF Init, Boards
    <3> QED
      BY <1>1, <3>1, PhaseFacts DEF IInv, OpenMeansRouted, RoutesTo, Open
  <2> QED
    BY <2>1 DEF Cycle!Init
<1>2. IInv /\ [Next]_vars => [Cycle!Next]_Cycle!cvars
  BY CycleStep DEF Cycle!cvars, CycleStutters, phaseOf, routesOf, configuredOf
<1>3. Spec => Init /\ [][Next]_vars
  BY DEF Spec
<1> QED
  BY LinkInvariant, <1>1, <1>2, <1>3, PTL DEF ImplementsCycle, Cycle!Spec

-----------------------------------------------------------------------------
(* How long a repair takes.                                                 *)

(* An upper bound of the accesses from a place in RepairLinkPartner to its  *)
(* end, for a board with n nodes, when the partner was asked r times.       *)
AccessesFrom(place, n, r) ==
  CASE place = "closeWrite"  -> 4 * n + 2 * MaxRetry + 21
    [] place = "closeRead"   -> 4 * n + 2 * MaxRetry + 20
    [] place = "wait"        -> 4 * n + 2 * MaxRetry + 19
    [] place = "resetAckid"  -> 4 * n + 2 * MaxRetry + 18
    [] place = "request"     -> 4 * n + 2 * (MaxRetry - r) + 17
    [] place = "response"    -> 4 * n + 2 * (MaxRetry - r) + 16
    [] place = "resync"      -> 4 * n + 15
    [] place = "announce"    -> 4 * n + 14
    [] place = "mode"        -> 2 * n + 13
    [] place = "reconfig"    -> 2 * n + 8
    [] place = "openWrite"   -> 7
    [] place = "openRead"    -> 6
    [] place = "clearLane"   -> 5
    [] place = "clearPort"   -> 4
    [] place = "recheck"     -> 3
    [] place = "recheckLane" -> 2
    [] OTHER                 -> 0

(* Two accesses for each routing entry.                                     *)
EntriesLeft ==
  IF step = "lutIndex" THEN 2 * Len(todo)
  ELSE IF step = "lutData" THEN 2 * Len(todo) - 1 ELSE 0

AccessesLeft == AccessesFrom(At, Len(LocalIDs[Port]), retry) + EntriesLeft

(* The one way back: the registers were set again while they were cleared.  *)
ClearsAgain == step = "recheckLane" /\ step' = "clearLane" /\ Port \in late

RepairGoesOn ==
  [][Repairing(Port) /\ Reliable(Chip) /\ child' # child =>
       (AccessesLeft \in Nat /\ AccessesLeft' < AccessesLeft) \/ ClearsAgain]_vars

LEMMA AccessTable ==
  ASSUME NEW n, NEW r
  PROVE  /\ AccessesFrom("closeWrite", n, r) = 4 * n + 2 * MaxRetry + 21
         /\ AccessesFrom("closeRead", n, r) = 4 * n + 2 * MaxRetry + 20
         /\ AccessesFrom("wait", n, r) = 4 * n + 2 * MaxRetry + 19
         /\ AccessesFrom("resetAckid", n, r) = 4 * n + 2 * MaxRetry + 18
         /\ AccessesFrom("request", n, r) = 4 * n + 2 * (MaxRetry - r) + 17
         /\ AccessesFrom("response", n, r) = 4 * n + 2 * (MaxRetry - r) + 16
         /\ AccessesFrom("resync", n, r) = 4 * n + 15
         /\ AccessesFrom("announce", n, r) = 4 * n + 14
         /\ AccessesFrom("mode", n, r) = 2 * n + 13
         /\ AccessesFrom("reconfig", n, r) = 2 * n + 8
         /\ AccessesFrom("openWrite", n, r) = 7
         /\ AccessesFrom("openRead", n, r) = 6
         /\ AccessesFrom("clearLane", n, r) = 5
         /\ AccessesFrom("clearPort", n, r) = 4
         /\ AccessesFrom("recheck", n, r) = 3
         /\ AccessesFrom("recheckLane", n, r) = 2
         /\ AccessesFrom("detect", n, r) = 0
BY DEF AccessesFrom

RepairSteps ==
  {"closeWrite", "closeRead", "wait", "resetAckid", "request", "response", "resync",
   "announce", "mode", "reconfig", "openWrite", "openRead", "clearLane", "clearPort",
   "recheck", "recheckLane"}

LEMMA AccessesPositive ==
  ASSUME NEW place \in RepairSteps, NEW n \in Nat, NEW r \in Nat,
         place \in {"request", "response"} => r <= MaxRetry
  PROVE  AccessesFrom(place, n, r) \in Nat /\ AccessesFrom(place, n, r) > 0
<1>1. MaxRetry \in Nat
  BY RetryAssumption
<1>2. CASE place \in {"closeWrite", "closeRead", "wait", "resetAckid"}
  BY <1>1, <1>2, AccessTable
<1>3. CASE place \in {"request", "response"}
  BY <1>1, <1>3, AccessTable
<1>4. CASE place \in {"resync", "announce", "mode", "reconfig"}
  BY <1>4, AccessTable
<1>5. CASE place \in {"openWrite", "openRead", "clearLane", "clearPort", "recheck",
                     "recheckLane"}
  BY <1>5, AccessTable
<1> QED
  BY <1>2, <1>3, <1>4, <1>5 DEF RepairSteps

LEMMA RouteLengths ==
  ASSUME TypeOK
  PROVE  /\ Len(LocalIDs[Port]) \in Nat
         /\ \A v : Len(Entries(LocalIDs[Port], v)) = Len(LocalIDs[Port])
         /\ Len(HostRoutes) = 1 \/ Len(HostRoutes) = 2
<1>1. LocalIDs[Port] \in Seq(0 .. HostID - 1)
  BY CurrentPort, PortFacts
<1>2. Len(LocalIDs[Port]) \in Nat
  BY <1>1, LenProperties
<1>3. Len(HostRoutes) = 1 \/ Len(HostRoutes) = 2
  BY DEF HostRoutes
<1> HIDE DEF HostID
<1> QED
  BY <1>2, <1>3 DEF Entries

(* What it takes to write a list of entries and to go on.                   *)
LEMMA WritingTakes ==
  ASSUME NEW entries \in Seq(EntrySet), NEW next \in {"mode", "reconfig", "openWrite"},
         WriteRoutes(entries, next)
  PROVE  At' = next /\ EntriesLeft' = 2 * Len(entries)
<1>1. At' = next /\ todo' = entries
  BY WriteRoutesFacts
<1>2. CASE entries = <<>>
  BY <1>1, <1>2 DEF WriteRoutes, EntriesLeft
<1>3. CASE entries # <<>>
  BY <1>1, <1>3 DEF WriteRoutes, EntriesLeft
<1> QED
  BY <1>1, <1>2, <1>3

(* The accesses besides the routing entries.                                *)
LEMMA PlainAdvances ==
  ASSUME IInv, NEW ok \in BOOLEAN, Plain(ok), Repairing(Port), Reliable(Chip)
  PROVE  (AccessesLeft \in Nat /\ AccessesLeft' < AccessesLeft) \/ ClearsAgain
<1> DEFINE n == Len(LocalIDs[Port])
<1>1. /\ TypeOK /\ n \in Nat /\ MaxRetry \in Nat /\ retry \in Nat
      /\ step \in {"request", "response"} => retry <= MaxRetry
  <2>1. TypeOK /\ RetryOK
    BY DEF IInv
  <2>2. n \in Nat
    BY <2>1, RouteLengths
  <2>3. MaxRetry \in Nat /\ retry \in Nat
    BY <2>1, RetryAssumption DEF TypeOK
  <2> QED
    BY <2>1, <2>2, <2>3 DEF RetryOK
<1>2. /\ At = step /\ At' = step' /\ EntriesLeft = 0 /\ EntriesLeft' = 0
  BY PlainFacts DEF EntriesLeft, Writing
<1>3. step \in RepairSteps /\ (step' = "detect" \/ step' \in RepairSteps)
  <2>1. step \in RepairSteps
    BY DEF Repairing, RepairSteps, Plain, Detect, DetectLane, CloseWrite, CloseRead, Wait,
       ResetAckid, Request, Response, Resync, OpenWrite, OpenRead, ClearLane, ClearPort,
       Recheck, RecheckLane
  <2>2. step' = "detect" \/ step' \in RepairSteps
    BY DEF Repairing, RepairSteps, Plain, Detect, DetectLane, CloseWrite, CloseRead, Wait,
       ResetAckid, Request, Response, Resync, OpenWrite, OpenRead, ClearLane, ClearPort,
       Recheck, RecheckLane, NextLink
  <2> QED
    BY <2>1, <2>2
<1>4. AccessesLeft = AccessesFrom(step, n, retry) /\ AccessesLeft \in Nat /\ AccessesLeft > 0
  <2> HIDE DEF n
  <2>1. AccessesFrom(step, n, retry) \in Nat /\ AccessesFrom(step, n, retry) > 0
    BY <1>1, <1>3, AccessesPositive
  <2>2. AccessesLeft = AccessesFrom(step, n, retry) + 0
    BY <1>2 DEF AccessesLeft, n
  <2> QED
    BY <2>1, <2>2
<1>5. CASE step' = "detect"
  <2>1. AccessesLeft' = AccessesFrom("detect", Len(LocalIDs[Port]'), retry') + 0
    BY <1>2, <1>5 DEF AccessesLeft
  <2>2. AccessesFrom("detect", Len(LocalIDs[Port]'), retry') = 0
    BY AccessTable
  <2> QED
    BY <1>4, <2>1, <2>2
<1>6. CASE step' # "detect"
  <2>1. Port' = Port
    BY <1>6, SamePort
       DEF Plain, Detect, DetectLane, CloseWrite, CloseRead, Wait, ResetAckid, Request,
       Response, Resync, OpenWrite, OpenRead, ClearLane, ClearPort, Recheck, RecheckLane,
       NextLink
  <2>2. AccessesLeft' = AccessesFrom(step', n, retry')
    <3>1. AccessesLeft' = AccessesFrom(step', n, retry') + 0
      BY <1>2, <2>1 DEF AccessesLeft
    <3>2. retry' \in Nat /\ (step' \in {"request", "response"} => retry' <= MaxRetry)
      <4>1. /\ retry' = retry \/ retry' = retry + 1 \/ retry' = 0
            /\ step' = "request" => step \in {"resetAckid", "response"}
            /\ step = "resetAckid" => retry' = 0
            /\ step' = "request" /\ step = "response" => retry + 1 <= MaxRetry /\ retry' = retry + 1
            /\ step' = "response" => step = "request" /\ retry' = retry
        BY <1>6 DEF Plain, Detect, DetectLane, CloseWrite, CloseRead, Wait, ResetAckid,
           Request, Response, Resync, OpenWrite, OpenRead, ClearLane, ClearPort, Recheck,
           RecheckLane, NextLink
      <4> QED
        BY <1>1, <4>1
    <3>3. AccessesFrom(step', n, retry') \in Nat
      <4> HIDE DEF n
      <4> QED
        BY <1>1, <1>3, <1>6, <3>2, AccessesPositive
    <3> QED
      BY <3>1, <3>3
  <2> HIDE DEF n
  <2>3. CASE CloseRead(ok) \/ OpenRead(ok)
    <3>1. ok
      BY <2>3, ReliableSucceeds DEF CloseRead, OpenRead
    <3>2. /\ step = "closeRead" => rxtx[Port] = {}
          /\ step = "openRead" => rxtx[Port] = RxTx
      BY <1>2 DEF IInv, PortOK, BeforeMode, Clearing
    <3>3. \/ step = "closeRead" /\ step' = "wait"
          \/ step = "openRead" /\ step' = "clearLane"
      BY <2>3, <3>1, <3>2 DEF CloseRead, OpenRead
    <3> QED
      BY <1>1, <1>4, <2>2, <3>3, AccessTable
  <2>4. CASE CloseWrite(ok) \/ Wait \/ ResetAckid(ok)
    BY <1>1, <1>4, <2>2, <2>4, AccessTable DEF CloseWrite, Wait, ResetAckid
  <2>5. CASE Request(ok) \/ Resync(ok)
    BY <1>1, <1>4, <2>2, <2>5, AccessTable DEF Request, Resync
  <2>6. CASE Response(ok)
    <3>1. \/ step = "response" /\ step' = "request" /\ retry' = retry + 1
          \/ step = "response" /\ step' = "resync"
      BY <1>6, <2>6 DEF Response, NextLink
    <3> QED
      BY <1>1, <1>4, <2>2, <3>1, AccessTable
  <2>7. CASE OpenWrite(ok) \/ ClearLane(ok) \/ ClearPort(ok) \/ Recheck(ok)
    BY <1>1, <1>4, <2>2, <2>7, AccessTable
       DEF OpenWrite, ClearLane, ClearPort, Recheck
  <2>8. CASE RecheckLane(ok)
    <3>1. ok /\ WasReset(ok) /\ step = "recheckLane" /\ step' = "clearLane"
      BY <1>6, <2>8, ReliableSucceeds DEF RecheckLane, NextLink
    <3>2. errs[Port] # {}
      BY <3>1 DEF WasReset
    <3>3. Port \in late
      BY <1>2, <3>1, <3>2 DEF IInv, TraceCurrent, LateSteps, Clearing
    <3> QED
      BY <3>1, <3>3 DEF ClearsAgain
  <2>9. ~ Detect(ok) /\ ~ DetectLane(ok)
    BY DEF Repairing, Detect, DetectLane
  <2> QED
    BY <2>3, <2>4, <2>5, <2>6, <2>7, <2>8, <2>9 DEF Plain
<1> QED
  BY <1>5, <1>6

(* The routing entries.                                                     *)
LEMMA EntriesAdvance ==
  ASSUME IInv,
         \/ ReconfigLUT
         \/ \E ok \in BOOLEAN : Announce(ok) \/ PortMode(ok) \/ LutIndex(ok) \/ LutData(ok)
  PROVE  AccessesLeft \in Nat /\ AccessesLeft' < AccessesLeft
<1> DEFINE n == Len(LocalIDs[Port])
<1>1. TypeOK /\ TodoOK /\ n \in Nat /\ retry' = retry /\ Port' = Port
  BY RouteLengths, SamePort DEF IInv, ReconfigLUT, Announce, PortMode, LutIndex, LutData
<1>2. /\ AccessesLeft = AccessesFrom(At, n, retry) + EntriesLeft
      /\ AccessesLeft' = AccessesFrom(At', n, retry) + EntriesLeft'
  BY <1>1 DEF AccessesLeft
<1> HIDE DEF n
<1>3. ASSUME NEW ok \in BOOLEAN, Announce(ok)
      PROVE  AccessesLeft \in Nat /\ AccessesLeft' < AccessesLeft
  <2>1. /\ Entries(LocalIDs[Port], Discard) \in Seq(EntrySet)
        /\ Len(Entries(LocalIDs[Port], Discard)) = n
    <3>1. Discard \in 0 .. 255
      BY <1>1 DEF Discard
    <3>2. Entries(LocalIDs[Port], Discard) \in Seq(EntrySet)
      BY <1>1, <3>1, EntriesFacts
    <3>3. Len(Entries(LocalIDs[Port], Discard)) = n
      BY <1>1, RouteLengths DEF n
    <3> QED
      BY <3>2, <3>3
  <2>2. At' = "mode" /\ EntriesLeft' = 2 * n
    BY <1>3, <2>1, WritingTakes DEF Announce
  <2>3. At = "announce" /\ EntriesLeft = 0
    BY <1>3 DEF Announce, At, Writing, EntriesLeft
  <2> QED
    BY <1>1, <1>2, <2>2, <2>3, AccessTable
<1>4. ASSUME NEW ok \in BOOLEAN, PortMode(ok)
      PROVE  AccessesLeft \in Nat /\ AccessesLeft' < AccessesLeft
  <2>1. HostRoutes \in Seq(EntrySet) /\ (Len(HostRoutes) = 1 \/ Len(HostRoutes) = 2)
    BY <1>1, HostRoutesFacts, RouteLengths
  <2>2. At' = "reconfig" /\ EntriesLeft' = 2 * Len(HostRoutes)
    BY <1>4, <2>1, WritingTakes DEF PortMode
  <2>3. At = "mode" /\ EntriesLeft = 0
    BY <1>4 DEF PortMode, At, Writing, EntriesLeft
  <2>4. EntriesLeft' = 2 \/ EntriesLeft' = 4
    <3>1. CASE Len(HostRoutes) = 1
      BY <2>2, <3>1
    <3>2. CASE Len(HostRoutes) = 2
      BY <2>2, <3>2
    <3> QED
      BY <2>1, <3>1, <3>2
  <2>5. n \in Nat
    BY <1>1
  <2>6. AccessesFrom(At, n, retry) = 2 * n + 13 /\ AccessesFrom(At', n, retry) = 2 * n + 8
    BY <2>2, <2>3, AccessTable
  <2>7. AccessesLeft = 2 * n + 13
    BY <1>2, <2>3, <2>5, <2>6
  <2>8. AccessesLeft' = 2 * n + 10 \/ AccessesLeft' = 2 * n + 12
    BY <1>2, <2>4, <2>5, <2>6
  <2> QED
    BY <2>5, <2>7, <2>8
<1>5. CASE ReconfigLUT
  <2>1. /\ Entries(LocalIDs[Port], Port[2]) \in Seq(EntrySet)
        /\ Len(Entries(LocalIDs[Port], Port[2])) = n
    <3>1. Port[2] \in 0 .. 255
      BY <1>1, CurrentPort
    <3>2. Entries(LocalIDs[Port], Port[2]) \in Seq(EntrySet)
      BY <1>1, <3>1, EntriesFacts
    <3>3. Len(Entries(LocalIDs[Port], Port[2])) = n
      BY <1>1, RouteLengths DEF n
    <3> QED
      BY <3>2, <3>3
  <2>2. At' = "openWrite" /\ EntriesLeft' = 2 * n
    BY <1>5, <2>1, WritingTakes DEF ReconfigLUT
  <2>3. At = "reconfig" /\ EntriesLeft = 0
    BY <1>5 DEF ReconfigLUT, At, Writing, EntriesLeft
  <2> QED
    BY <1>1, <1>2, <2>2, <2>3, AccessTable
<1>6. step \in Writing =>
        /\ todo \in Seq(EntrySet) /\ Len(todo) \in Nat \ {0} /\ Len(Tail(todo)) = Len(todo) - 1
        /\ Tail(todo) \in Seq(EntrySet)
        /\ At = after /\ AccessesFrom(after, n, retry) \in Nat
  <2>1. step \in Writing => /\ todo \in Seq(EntrySet) /\ todo # <<>> /\ At = after
                            /\ after \in {"mode", "reconfig", "openWrite"}
    BY <1>1 DEF TodoOK, TypeOK, EntrySet, At
  <2>2. \A place \in {"mode", "reconfig", "openWrite"} : AccessesFrom(place, n, retry) \in Nat
    BY <1>1, AccessTable
  <2>3. step \in Writing =>
          Len(todo) \in Nat \ {0} /\ Len(Tail(todo)) = Len(todo) - 1 /\ Tail(todo) \in Seq(EntrySet)
    BY <2>1, HeadTailProperties, LenProperties, EmptySeq
  <2> QED
    BY <2>1, <2>2, <2>3
<1>7. ASSUME NEW ok \in BOOLEAN, LutIndex(ok)
      PROVE  AccessesLeft \in Nat /\ AccessesLeft' < AccessesLeft
  <2>1. step = "lutIndex" /\ step' = "lutData" /\ todo' = todo /\ At' = At /\ step \in Writing
    BY <1>7 DEF LutIndex, At, Writing
  <2> QED
    BY <1>1, <1>2, <1>6, <2>1 DEF EntriesLeft
<1>8. ASSUME NEW ok \in BOOLEAN, LutData(ok)
      PROVE  AccessesLeft \in Nat /\ AccessesLeft' < AccessesLeft
  <2>1. /\ step = "lutData" /\ step \in Writing /\ after \in {"mode", "reconfig", "openWrite"}
        /\ WriteRoutes(Tail(todo), after)
    BY <1>1, <1>8, LutDataFacts DEF LutData, Writing
  <2>2. At' = after /\ EntriesLeft' = 2 * Len(Tail(todo))
    BY <1>6, <2>1, WritingTakes
  <2> QED
    BY <1>1, <1>2, <1>6, <2>1, <2>2 DEF EntriesLeft
<1> QED
  BY <1>3, <1>4, <1>5, <1>7, <1>8

(* On a chip that answers, every access of a repair brings its end nearer,  *)
(* whatever the boards and the operator do meanwhile: it takes at most      *)
(* 4 * n + 2 * MaxRetry + 21 of them, and four more for every time the      *)
(* board is reset so late that the registers have to be cleared again: the  *)
(* safety half of ResetIsRepaired.                                          *)
THEOREM RepairEnds == Spec => RepairGoesOn
<1>1. ASSUME IInv, Next, Repairing(Port), Reliable(Chip), child' # child
      PROVE  (AccessesLeft \in Nat /\ AccessesLeft' < AccessesLeft) \/ ClearsAgain
  <2>1. ~ Environment
    BY <1>1, EnvironmentTyped DEF IInv
  <2> QED
    BY <1>1, <2>1, NextCases, PlainAdvances, EntriesAdvance
<1>2. IInv /\ [Next]_vars =>
        [Repairing(Port) /\ Reliable(Chip) /\ child' # child =>
           (AccessesLeft \in Nat /\ AccessesLeft' < AccessesLeft) \/ ClearsAgain]_vars
  BY <1>1
<1> QED
  BY LinkInvariant, <1>2, PTL DEF Spec, RepairGoesOn
=============================================================================
