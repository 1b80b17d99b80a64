---------------------------- MODULE DeviceProofs ----------------------------
(***************************************************************************)
(* Proofs about what the program does with its devices: SharedRegs, for    *)
(* any flows, chips, registers and failures, implements AtomicRegs; and    *)
(* SelfTest, for any period, turn-over of the counter and waiting time.    *)
(***************************************************************************)
EXTENDS SharedRegs, SelfTest, TLAPS

(* A flow seeks on its own chips only.                                      *)
OwnChip == \A f \in Flows : request[f] # NoCall => request[f].chip \in Use[f]

(* An access is disturbed only by a flow that uses the same chip.           *)
SharesItsChip ==
  \A f \in disturbed : \E g \in Flows : g # f /\ request[f].chip \in Use[g]

RegsInv == TypeOK /\ OwnChip /\ SharesItsChip /\ Positioned

(* What Gets and Sets are made of.                                          *)
LEMMA CallTypes ==
  ASSUME NEW f \in Flows, NEW r \in Gets(f) \cup Sets(f)
  PROVE  /\ r \in Calls /\ r.chip \in Use[f] /\ r.chip \in Chips /\ r.addr \in Addrs
         /\ r.addr \in Nat
         /\ r.op \in {"get", "set"} /\ (r.op = "set" => r.data \in Values)
BY UseAssumption, AddrsAssumption DEF Gets, Sets, Calls

LEMMA RequestTypes ==
  ASSUME TypeOK, NEW f \in Flows, request[f] # NoCall
  PROVE  /\ request[f] \in Calls
         /\ request[f].chip \in Chips /\ request[f].addr \in Addrs /\ request[f].addr \in Nat
         /\ request[f].op \in {"get", "set"}
         /\ request[f].op = "set" => request[f].data \in Values
<1>1. request[f] \in Calls
  BY DEF TypeOK
<1> QED
  BY <1>1, AddrsAssumption DEF Calls

(* Seek, read and write of a flow move the file of one of its chips on; the *)
(* accesses of that chip by others are disturbed, those of other chips not. *)
Moves(f, c) ==
  /\ f \in Flows /\ c \in Use[f] /\ c \in Chips
  /\ pos' \in [Chips -> Nat] /\ \A d \in Chips : d # c => pos'[d] = pos[d]
  /\ \A g \in Flows : g # f => request'[g] = request[g]
  /\ disturbed' \cup {f} = disturbed \cup Others(f, c) \cup {f}

LEMMA SeekMoves ==
  ASSUME TypeOK, NEW f \in Flows, NEW r \in Gets(f) \cup Sets(f), Seek(f, r)
  PROVE  /\ Moves(f, r.chip)
         /\ request'[f] = r /\ r \in Calls /\ pos'[r.chip] = r.addr
         /\ f \notin disturbed' /\ request' \in [Flows -> Calls \cup {NoCall}]
<1>1. r \in Calls /\ r.chip \in Use[f] /\ r.chip \in Chips /\ r.addr \in Nat
  BY CallTypes
<1>2. pos' \in [Chips -> Nat] /\ pos'[r.chip] = r.addr
      /\ \A d \in Chips : d # r.chip => pos'[d] = pos[d]
  BY <1>1 DEF Seek, TypeOK
<1>3. request' = [request EXCEPT ![f] = r] /\ request[f] = NoCall
      /\ disturbed' = disturbed \cup Others(f, r.chip)
  BY DEF Seek
<1>4. f \notin disturbed'
  BY <1>3 DEF TypeOK, Others
<1> QED
  BY <1>1, <1>2, <1>3, <1>4 DEF Moves, TypeOK

LEMMA AccessMoves ==
  ASSUME TypeOK, OwnChip, NEW f \in Flows, Read(f) \/ Write(f)
  PROVE  /\ Moves(f, request[f].chip)
         /\ request' = [request EXCEPT ![f] = NoCall]
         /\ disturbed' = (disturbed \ {f}) \cup Others(f, request[f].chip)
         /\ f \notin disturbed'
<1> DEFINE c == request[f].chip
<1>1. request[f] # NoCall /\ request' = [request EXCEPT ![f] = NoCall]
  BY DEF Read, Write
<1>2. c \in Chips /\ c \in Use[f]
  BY <1>1, RequestTypes DEF OwnChip
<1>3. /\ pos' = [pos EXCEPT ![c] = @ + 4]
      /\ disturbed' = (disturbed \ {f}) \cup Others(f, c)
  BY DEF Read, Write, Width
<1>4. pos' \in [Chips -> Nat] /\ \A d \in Chips : d # c => pos'[d] = pos[d]
  BY <1>2, <1>3 DEF TypeOK
<1>5. f \notin disturbed'
  BY <1>3 DEF Others
<1> QED
  BY <1>1, <1>2, <1>3, <1>4, <1>5 DEF Moves, TypeOK

(* So a move keeps what is to be kept of the other flows.                   *)
LEMMA MoveKeeps ==
  ASSUME RegsInv, NEW f, NEW c, Moves(f, c), f \notin disturbed'
  PROVE  /\ disturbed' \subseteq Flows
         /\ \A g \in disturbed' : request'[g] # NoCall
         /\ SharesItsChip'
         /\ \A g \in Flows : g # f /\ request'[g] # NoCall /\ g \notin disturbed' =>
                               pos'[request'[g].chip] = request'[g].addr
<1> USE DEF RegsInv, Moves
<1>1. ASSUME NEW g \in disturbed'
      PROVE  /\ g \in Flows /\ g # f /\ request'[g] = request[g] /\ request[g] # NoCall
             /\ g \in disturbed \/ request[g].chip = c
  <2>1. g # f /\ (g \in disturbed \/ g \in Others(f, c))
    OBVIOUS
  <2> QED
    BY <2>1 DEF Others, TypeOK
<1>2. SharesItsChip'
  BY <1>1 DEF SharesItsChip
<1>3. ASSUME NEW g \in Flows, g # f, request'[g] # NoCall, g \notin disturbed'
      PROVE  pos'[request'[g].chip] = request'[g].addr
  <2>1. request'[g] = request[g] /\ g \notin disturbed /\ g \notin Others(f, c)
    BY <1>3
  <2>2. request[g].chip # c /\ request[g].chip \in Chips
    BY <1>3, <2>1, RequestTypes DEF Others
  <2> QED
    BY <1>3, <2>1, <2>2 DEF Positioned
<1> QED
  BY <1>1, <1>2, <1>3

LEMMA RegsStarts == Init => RegsInv
BY DEF Init, RegsInv, TypeOK, OwnChip, SharesItsChip, Positioned

LEMMA RegsStep ==
  ASSUME RegsInv, [Next]_vars
  PROVE  RegsInv'
<1> USE DEF RegsInv
<1>1. ASSUME NEW f \in Flows, NEW r \in Gets(f) \cup Sets(f), Seek(f, r)
      PROVE  RegsInv'
  <2>1. /\ Moves(f, r.chip) /\ request'[f] = r /\ r \in Calls /\ f \notin disturbed'
        /\ pos'[r.chip] = r.addr
        /\ request' \in [Flows -> Calls \cup {NoCall}]
    BY <1>1, SeekMoves
  <2>2. /\ disturbed' \subseteq Flows
        /\ \A g \in disturbed' : request'[g] # NoCall
        /\ SharesItsChip'
        /\ \A g \in Flows : g # f /\ request'[g] # NoCall /\ g \notin disturbed' =>
                              pos'[request'[g].chip] = request'[g].addr
    BY <2>1, MoveKeeps
  <2>3. Positioned'
    BY <2>1, <2>2 DEF Positioned
  <2>4. TypeOK'
    BY <1>1, <2>1, <2>2 DEF TypeOK, Moves, Seek
  <2>5. OwnChip'
    BY <2>1 DEF OwnChip, Moves
  <2> QED
    BY <2>2, <2>3, <2>4, <2>5
<1>2. ASSUME NEW f \in Flows, SeekFails(f)
      PROVE  RegsInv'
  BY <1>2 DEF SeekFails, TypeOK, OwnChip, SharesItsChip, Positioned
<1>3. ASSUME NEW f \in Flows, Read(f) \/ Write(f)
      PROVE  RegsInv'
  <2> DEFINE c == request[f].chip
  <2>1. /\ Moves(f, c) /\ f \notin disturbed'
        /\ request' = [request EXCEPT ![f] = NoCall]
    BY <1>3, AccessMoves
  <2>2. /\ disturbed' \subseteq Flows
        /\ \A g \in disturbed' : request'[g] # NoCall
        /\ SharesItsChip'
        /\ \A g \in Flows : g # f /\ request'[g] # NoCall /\ g \notin disturbed' =>
                              pos'[request'[g].chip] = request'[g].addr
    BY <2>1, MoveKeeps
  <2>3. Positioned'
    BY <2>1, <2>2 DEF Positioned, TypeOK
  <2>4. regs' \in [Chips -> [Addrs -> Values]] /\ answer' \in [Flows -> Values \cup {Fail}]
    <3>1. request[f] # NoCall /\ c \in Chips
      BY <1>3, RequestTypes DEF Read, Write
    <3>2. CASE Read(f)
      <4>1. PICK v \in IF pos[c] \in Addrs THEN {regs[c][pos[c]]} ELSE Values :
              answer' = [answer EXCEPT ![f] = v]
        BY <3>2 DEF Read
      <4>2. v \in Values
        BY <3>1, <4>1 DEF TypeOK
      <4> QED
        BY <3>2, <4>1, <4>2 DEF Read, TypeOK
    <3>3. CASE Write(f)
      <4>1. request[f].data \in Values
        BY <3>1, <3>3, RequestTypes DEF Write
      <4> QED
        BY <3>1, <3>3, <4>1 DEF Write, TypeOK
    <3> QED
      BY <1>3, <3>2, <3>3
  <2>5. TypeOK'
    BY <2>1, <2>2, <2>4 DEF TypeOK, Moves
  <2>6. OwnChip'
    BY <2>1 DEF OwnChip, TypeOK
  <2> QED
    BY <2>2, <2>3, <2>5, <2>6
<1>4. ASSUME NEW f \in Flows, AccessFails(f)
      PROVE  RegsInv'
  BY <1>4 DEF AccessFails, TypeOK, OwnChip, SharesItsChip, Positioned
<1>5. CASE UNCHANGED vars
  BY <1>5 DEF vars, TypeOK, OwnChip, SharesItsChip, Positioned
<1> QED
  BY <1>1, <1>2, <1>3, <1>4, <1>5 DEF Next

LEMMA RegsInvHolds == Spec => []RegsInv
<1>1. RegsInv /\ [Next]_vars => RegsInv'
  BY RegsStep
<1> QED
  BY RegsStarts, <1>1, PTL DEF Spec

(* The files have a position each, the flows at most one access each,       *)
(* however many flows use a chip.                                           *)
THEOREM RegsTypeCorrect == Spec => []TypeOK
<1>1. RegsInv => TypeOK
  BY DEF RegsInv
<1> QED
  BY RegsInvHolds, <1>1, PTL

(* The seek of an access nobody disturbed holds until it is made.           *)
THEOREM PositionCorrect == Spec => []Positioned
<1>1. RegsInv => Positioned
  BY DEF RegsInv
<1> QED
  BY RegsInvHolds, <1>1, PTL

(* A flow that is alone on its chips, as every flow is until the program    *)
(* forks, is never disturbed: all its accesses are atomic.                  *)
THEOREM AloneUndisturbed ==
  ASSUME NEW f \in Flows, \A g \in Flows : g # f => Use[f] \cap Use[g] = {}
  PROVE  Spec => [](f \notin disturbed)
<1>1. RegsInv => f \notin disturbed
  BY DEF RegsInv, TypeOK, OwnChip, SharesItsChip
<1> QED
  BY RegsInvHolds, <1>1, PTL

-----------------------------------------------------------------------------
LEMMA RegsStepImplements ==
  ASSUME RegsInv, [Next]_vars
  PROVE  [Atomic!Next]_(Atomic!avars)
<1> USE DEF RegsInv
<1>0. Atomic!Calls = Calls /\ \A f \in Flows : \A c : Atomic!Others(f, c) = Others(f, c)
  BY DEF Calls, Atomic!Calls, Others, Atomic!Others
<1>1. ASSUME NEW f \in Flows, NEW r \in Gets(f) \cup Sets(f), Seek(f, r)
      PROVE  Atomic!Call(f, r) /\ r \in Atomic!Calls
  BY <1>0, <1>1, CallTypes DEF Seek, Atomic!Call
<1>2. ASSUME NEW f \in Flows, SeekFails(f)
      PROVE  Atomic!Refuse(f)
  BY <1>2 DEF SeekFails, Atomic!Refuse
<1>3. ASSUME NEW f \in Flows, Read(f)
      PROVE  Atomic!Perform(f) \/ Atomic!Misplace(f)
  <2>1. Atomic!Return(f) /\ request[f] # NoCall /\ request[f].op = "get"
    BY <1>0, <1>3 DEF Read, Atomic!Return
  <2>2. request[f].chip \in Chips /\ request[f].addr \in Addrs
    BY <2>1, RequestTypes
  <2>3. PICK v \in IF pos[request[f].chip] \in Addrs
                   THEN {regs[request[f].chip][pos[request[f].chip]]} ELSE Values :
          answer' = [answer EXCEPT ![f] = v]
    BY <1>3 DEF Read
  <2>4. Atomic!Get(f, v) /\ v \in Values
    BY <1>3, <2>1, <2>2, <2>3 DEF Read, Atomic!Get, TypeOK
  <2>5. CASE f \in disturbed
    BY <2>1, <2>4, <2>5 DEF Atomic!Misplace
  <2>6. CASE f \notin disturbed
    <3>1. v = regs[request[f].chip][request[f].addr]
      BY <2>1, <2>2, <2>3, <2>6 DEF Positioned
    <3> QED
      BY <2>1, <2>4, <2>6, <3>1 DEF Atomic!Perform
  <2> QED
    BY <2>5, <2>6
<1>4. ASSUME NEW f \in Flows, Write(f)
      PROVE  Atomic!Perform(f) \/ Atomic!Misplace(f)
  <2> DEFINE c == request[f].chip
  <2>1. Atomic!Return(f) /\ request[f] # NoCall /\ request[f].op = "set"
    BY <1>0, <1>4 DEF Write, Atomic!Return
  <2>2. c \in Chips /\ request[f].addr \in Addrs
    BY <2>1, RequestTypes
  <2>3. IF pos[c] \in Addrs THEN Atomic!Set(f, pos[c]) ELSE UNCHANGED <<regs, answer>>
    BY <1>4, <2>1 DEF Write, Atomic!Set
  <2>4. CASE f \in disturbed
    BY <2>1, <2>3, <2>4 DEF Atomic!Misplace
  <2>5. CASE f \notin disturbed
    <3>1. pos[c] = request[f].addr
      BY <2>1, <2>5 DEF Positioned
    <3> QED
      BY <2>1, <2>2, <2>3, <2>5, <3>1 DEF Atomic!Perform
  <2> QED
    BY <2>4, <2>5
<1>5. ASSUME NEW f \in Flows, AccessFails(f)
      PROVE  Atomic!Break(f)
  BY <1>5 DEF AccessFails, Atomic!Break
<1>6. CASE UNCHANGED vars
  BY <1>6 DEF vars, Atomic!avars
<1>7. CASE Next
  BY <1>1, <1>2, <1>3, <1>4, <1>5, <1>7 DEF Next, Atomic!Next
<1> QED
  BY <1>6, <1>7

(* get_1848_reg and set_1848_reg are accesses of the registers they name,   *)
(* one at a time, but for those that another flow on the same chip comes    *)
(* into; and those stay within the chip.                                    *)
THEOREM AtomicCorrect == Spec => ImplementsAtomic
<1>1. Init => Atomic!Init
  BY DEF Init, Atomic!Init
<1>2. RegsInv /\ [Next]_vars => [Atomic!Next]_(Atomic!avars)
  BY RegsStepImplements
<1> QED
  BY RegsInvHolds, <1>1, <1>2, PTL DEF Spec, ImplementsAtomic, Atomic!Spec

-----------------------------------------------------------------------------
(* SelfTest: the counter of the calls, the answer and the publication.      *)

(* What the variables of the self test range over.                          *)
SelfTestTypeOK ==
  /\ bI2cSelfTest \in 0 .. Top
  /\ at \in {"between", "sending", "receiving", "collecting", "writing"}
  /\ waitCount \in 0 .. MaxCount + 1
  /\ done \in BOOLEAN
  /\ up \in UpSets
  /\ round \in 0 .. 2
  /\ bram \in [Words -> 0 .. 2]
  /\ next \in Words
  /\ age \in Nat

(* Between two calls, age has grown with the counter since its last         *)
(* multiple of Period; in a call that publishes the counter has room.       *)
Counted ==
  IF at = "between" THEN age <= bI2cSelfTest % Period ELSE age = 0 /\ bI2cSelfTest < Top

(* What rio_data may hold without an answer.                                *)
NoAnswer == rio = Unanswered \/ (bI2cSelfTest = 0 /\ rio[1] = "zero")

(* Before Collect there is no answer in rio_data; the wait for one ended    *)
(* with it or was given up.                                                 *)
AnswerInTime ==
  /\ at \in {"sending", "receiving", "collecting"} => NoAnswer
  /\ at = "collecting" => done \/ waitCount > MaxCount

(* From the first call on, ports is what the links were at it.              *)
PortsSampled ==
  at # "between" \/ bI2cSelfTest # 0 =>
    ports = {k \in 0 .. 16 : PortBit[k + 1] \in Sw1848PortStatus}

SelfTestInv ==
  SelfTestTypeOK /\ Counted /\ AnswerInTime /\ AnswerOrZeros /\ PortsSampled /\ TornAtMostOnce

-----------------------------------------------------------------------------
(* Counting up, a number is a multiple of Period or its remainder is one    *)
(* more than before.                                                        *)
LEMMA CountModPeriod ==
  ASSUME NEW c \in Nat, (c + 1) % Period # 0
  PROVE  (c + 1) % Period = (c % Period) + 1
<1> DEFINE q == c \div Period
<1> DEFINE r == c % Period
<1>1. Period \in Nat /\ Period > 0
  BY PeriodAssumption
<1>2. q \in Nat /\ r \in 0 .. Period - 1 /\ c = Period * q + r
  BY <1>1
<1>3. CASE r + 1 = Period
  <2>1. c + 1 = Period * (q + 1)
    BY <1>1, <1>2, <1>3
  <2>2. (Period * (q + 1)) % Period = 0
    BY <1>1, <1>2
  <2> QED
    BY <2>1, <2>2
<1>4. CASE r + 1 < Period
  <2> HIDE DEF q, r
  <2>1. c + 1 = Period * q + (r + 1)
    BY <1>1, <1>2
  <2>2. r + 1 \in 0 .. Period - 1
    BY <1>1, <1>2, <1>4
  <2>3. (Period * q + (r + 1)) % Period = r + 1
    BY <1>1, <1>2, <2>2
  <2> QED
    BY <2>1, <2>3 DEF r
<1> QED
  BY <1>1, <1>2, <1>3, <1>4

(* Three rounds are told apart by the step from one to the next.            *)
LEMMA RoundStep ==
  ASSUME NEW n \in 0 .. 2
  PROVE  (n + 1) % 3 \in 0 .. 2 /\ (((n + 1) % 3) + 2) % 3 = n
<1>1. n = 0 \/ n = 1 \/ n = 2
  OBVIOUS
<1> QED
  BY <1>1

LEMMA RioFacts ==
  /\ Unanswered[1] = "zero" /\ Answered[1] = "answer" /\ Unanswered # Answered
  /\ [Unanswered EXCEPT ![0] = "stray"][1] = "zero"
BY DEF Unanswered, Answered, RioWords

LEMMA SelfTestStarts == SelfTestInit => SelfTestInv
<1> SUFFICES ASSUME SelfTestInit PROVE SelfTestInv
  OBVIOUS
<1> USE DEF SelfTestInit
<1>1. SelfTestTypeOK
  <2>1. done \in BOOLEAN
    BY Zenon
  <2>2. bram \in [Words -> 0 .. 2]
    OBVIOUS
  <2> QED
    BY <2>1, <2>2, TopAssumption, PeriodAssumption, CountAssumption DEF SelfTestTypeOK, Words
<1>2. Counted
  <2>1. 0 % Period = 0
    BY PeriodAssumption
  <2> QED
    BY <2>1 DEF Counted
<1>3. AnswerInTime /\ AnswerOrZeros /\ PortsSampled /\ TornAtMostOnce
  BY DEF AnswerInTime, AnswerOrZeros, PortsSampled, TornAtMostOnce, Words
<1> QED
  BY <1>1, <1>2, <1>3 DEF SelfTestInv

LEMMA SkipKeeps ==
  ASSUME SelfTestInv, Skip
  PROVE  SelfTestInv'
<1> USE DEF SelfTestInv, Skip
<1>1. /\ bI2cSelfTest \in Nat /\ bI2cSelfTest # 0 /\ bI2cSelfTest < Top
      /\ (bI2cSelfTest + 1) % Period # 0 /\ age \in Nat
  BY TopAssumption DEF Due, SelfTestTypeOK
<1>2. Counted'
  <2>1. (bI2cSelfTest + 1) % Period = (bI2cSelfTest % Period) + 1
    BY <1>1, CountModPeriod
  <2>2. age + 1 <= (bI2cSelfTest % Period) + 1
    BY <1>1, PeriodAssumption DEF Counted
  <2> QED
    BY <2>1, <2>2 DEF Counted
<1>3. SelfTestTypeOK'
  BY <1>1, TopAssumption DEF SelfTestTypeOK
<1>4. AnswerInTime' /\ AnswerOrZeros'
  BY DEF AnswerInTime, AnswerOrZeros
<1>5. PortsSampled'
  BY <1>1 DEF PortsSampled, Sw1848PortStatus
<1>6. TornAtMostOnce'
  BY DEF TornAtMostOnce
<1> QED
  BY <1>2, <1>3, <1>4, <1>5, <1>6

LEMMA StartKeeps ==
  ASSUME SelfTestInv, Start
  PROVE  SelfTestInv'
<1> USE DEF SelfTestInv
<1>1. /\ at = "between" /\ at' = "sending" /\ waitCount' = 0 /\ done' = FALSE
      /\ round' = (round + 1) % 3 /\ age' = 0 /\ UNCHANGED <<up, bram, next>>
      /\ bI2cSelfTest' = IF bI2cSelfTest >= Top THEN 1 ELSE bI2cSelfTest
  BY DEF Start
<1>2. round' \in 0 .. 2 /\ (round' + 2) % 3 = round
  BY <1>1, RoundStep DEF SelfTestTypeOK
<1>3. bI2cSelfTest' \in 0 .. Top /\ bI2cSelfTest' < Top
  BY <1>1, TopAssumption, PeriodAssumption DEF SelfTestTypeOK
<1>4. SelfTestTypeOK'
  <2>1. done' \in BOOLEAN
    BY <1>1, Zenon
  <2> QED
    BY <1>1, <1>2, <1>3, <2>1, CountAssumption DEF SelfTestTypeOK
<1>5. Counted'
  BY <1>1, <1>3 DEF Counted
<1>6. AnswerInTime' /\ AnswerOrZeros'
  <2>1. NoAnswer'
    <3>1. CASE bI2cSelfTest = 0
      <4>1. rio' = Unanswered \/ rio' = [Unanswered EXCEPT ![0] = "stray"]
        BY <3>1 DEF Start
      <4>2. bI2cSelfTest' = 0
        BY <1>1, <3>1, TopAssumption, PeriodAssumption
      <4> QED
        BY <4>1, <4>2, RioFacts DEF NoAnswer
    <3>2. CASE bI2cSelfTest # 0
      BY <3>2 DEF Start, NoAnswer
    <3> QED
      BY <3>1, <3>2
  <2> QED
    BY <1>1, <2>1 DEF AnswerInTime, AnswerOrZeros
<1>7. PortsSampled'
  <2>1. Sw1848PortStatus' = Sw1848PortStatus
    BY <1>1 DEF Sw1848PortStatus
  <2>2. ports' = {k \in 0 .. 16 : PortBit[k + 1] \in Sw1848PortStatus}
    BY <1>1 DEF Start, PortsSampled
  <2> QED
    BY <2>1, <2>2 DEF PortsSampled
<1>8. TornAtMostOnce'
  BY <1>1, <1>2 DEF TornAtMostOnce
<1> QED
  BY <1>4, <1>5, <1>6, <1>7, <1>8

(* The two waits and the end of the second.                                 *)
LEMMA WaitsKeep ==
  ASSUME SelfTestInv, PollSend \/ PollReceive \/ Collect
  PROVE  SelfTestInv'
<1> USE DEF SelfTestInv
<1>1. /\ UNCHANGED <<bI2cSelfTest, ports, up, round, bram, age>>
      /\ at \in {"sending", "receiving", "collecting"}
      /\ at' \in {"sending", "receiving", "collecting", "writing"}
      /\ next' \in Words /\ (at' = "writing" => next' = 0 /\ at = "collecting")
      /\ waitCount' \in 0 .. MaxCount + 1 /\ done' \in BOOLEAN
  <2>1. CASE PollSend
    BY <2>1, CountAssumption DEF PollSend, SelfTestTypeOK
  <2>2. CASE PollReceive
    BY <2>2, CountAssumption DEF PollReceive, SelfTestTypeOK
  <2>3. CASE Collect
    BY <2>3 DEF Collect, SelfTestTypeOK, Words
  <2> QED
    BY <2>1, <2>2, <2>3
<1>2. SelfTestTypeOK'
  BY <1>1 DEF SelfTestTypeOK
<1>3. Counted'
  BY <1>1 DEF Counted
<1>4. AnswerInTime' /\ AnswerOrZeros'
  <2>1. CASE PollSend
    BY <2>1 DEF PollSend, AnswerInTime, AnswerOrZeros, NoAnswer
  <2>2. CASE PollReceive
    <3>1. at' = "collecting" => done' \/ waitCount' > MaxCount
      BY <2>2, CountAssumption DEF PollReceive, SelfTestTypeOK
    <3> QED
      BY <2>2, <3>1 DEF PollReceive, AnswerInTime, AnswerOrZeros, NoAnswer
  <2>3. CASE Collect
    <3>1. NoAnswer /\ rio # Answered
      BY <2>3, RioFacts DEF Collect, AnswerInTime, NoAnswer
    <3>2. waitCount < MaxCount => done
      BY <2>3, CountAssumption DEF Collect, AnswerInTime, SelfTestTypeOK
    <3>3. (done' /\ waitCount' < MaxCount) <=> rio' = Answered
      BY <2>3, <3>1, <3>2 DEF Collect
    <3>4. rio' # Answered => NoAnswer'
      BY <2>3, <3>1 DEF Collect, NoAnswer
    <3> QED
      BY <2>3, <3>3, <3>4 DEF Collect, AnswerInTime, AnswerOrZeros, NoAnswer
  <2> QED
    BY <2>1, <2>2, <2>3
<1>5. PortsSampled'
  BY <1>1 DEF PortsSampled, Sw1848PortStatus
<1>6. TornAtMostOnce'
  BY <1>1 DEF TornAtMostOnce, Words
<1> QED
  BY <1>2, <1>3, <1>4, <1>5, <1>6

LEMMA IicWriteKeeps ==
  ASSUME SelfTestInv, IicWrite
  PROVE  SelfTestInv'
<1> USE DEF SelfTestInv
<1>1. /\ at = "writing" /\ bram' = [bram EXCEPT ![next] = round]
      /\ UNCHANGED <<waitCount, done, rio, ports, up, round, age>>
      /\ next \in 0 .. 7 /\ bI2cSelfTest \in Nat /\ bI2cSelfTest < Top /\ age = 0
  BY DEF IicWrite, SelfTestTypeOK, Counted, Words
<1>2. /\ next < 7 => /\ next' = next + 1 /\ at' = "writing"
                     /\ bI2cSelfTest' = bI2cSelfTest
      /\ next = 7 => next' = 0 /\ at' = "between" /\ bI2cSelfTest' = bI2cSelfTest + 1
  BY <1>1 DEF IicWrite
<1>3. SelfTestTypeOK'
  BY <1>1, <1>2, TopAssumption DEF SelfTestTypeOK, Words
<1>4. Counted'
  <2>1. (bI2cSelfTest + 1) % Period \in Nat
    BY <1>1, PeriodAssumption
  <2> QED
    BY <1>1, <1>2, <2>1 DEF Counted
<1>5. AnswerInTime' /\ AnswerOrZeros'
  BY <1>1, <1>2 DEF AnswerInTime, AnswerOrZeros
<1>6. PortsSampled'
  BY <1>1, <1>2 DEF PortsSampled, Sw1848PortStatus
<1>7. TornAtMostOnce'
  <2>1. \A w \in Words : bram'[w] = IF w = next THEN round ELSE bram[w]
    BY <1>1 DEF SelfTestTypeOK
  <2> QED
    BY <1>1, <1>2, <2>1 DEF TornAtMostOnce, Words
<1> QED
  BY <1>3, <1>4, <1>5, <1>6, <1>7

LEMMA SelfTestInvHolds == SelfTestSpec => []SelfTestInv
<1>1. SelfTestInv /\ [SelfTestNext]_selfTestVars => SelfTestInv'
  <2> SUFFICES ASSUME SelfTestInv, [SelfTestNext]_selfTestVars PROVE SelfTestInv'
    OBVIOUS
  <2>1. CASE UNCHANGED selfTestVars
    BY <2>1 DEF selfTestVars, SelfTestInv, SelfTestTypeOK, Counted, AnswerInTime,
                AnswerOrZeros, NoAnswer, PortsSampled, Sw1848PortStatus, TornAtMostOnce
  <2> QED
    BY <2>1, SkipKeeps, StartKeeps, WaitsKeep, IicWriteKeeps DEF SelfTestNext
<1> QED
  BY SelfTestStarts, <1>1, PTL DEF SelfTestSpec

(* The bits of the status bytes are those of the documented layout, and     *)
(* each stands for a link.                                                  *)
LEMMA PortBitLayout ==
  ASSUME NEW n \in 1 .. 17
  PROVE  PortBit[n] = StatusLayout[n] /\ PortBit[n] \in Links
<1>1. PortBit = StatusLayout
  BY DEF PortBit, StatusLayout
<1>2. \/ n = 1 \/ n = 2 \/ n = 3 \/ n = 4 \/ n = 5 \/ n = 6 \/ n = 7 \/ n = 8 \/ n = 9
      \/ n = 10 \/ n = 11 \/ n = 12 \/ n = 13 \/ n = 14 \/ n = 15 \/ n = 16 \/ n = 17
  OBVIOUS
<1>3. PortBit[n] \in Links
  BY <1>2 DEF PortBit, Links
<1> QED
  BY <1>1, <1>3

-----------------------------------------------------------------------------
(* The publications are never more than Period calls apart, wherever in a   *)
(* period the counter starts again.                                         *)
THEOREM PublicationsInTime == SelfTestSpec => []PublishedInTime
<1>1. SelfTestInv => PublishedInTime
  <2> SUFFICES ASSUME SelfTestInv PROVE PublishedInTime
    OBVIOUS
  <2>1. bI2cSelfTest % Period < Period /\ 0 < Period
    BY PeriodAssumption DEF SelfTestInv, SelfTestTypeOK
  <2> QED
    BY <2>1, PeriodAssumption, TopAssumption
       DEF SelfTestInv, SelfTestTypeOK, Counted, PublishedInTime
<1> QED
  BY SelfTestInvHolds, <1>1, PTL

(* What is published is this call's answer in time, or zeros, or at the     *)
(* first publication the stray bit: whatever bits the status reads show.    *)
THEOREM ReadingsCorrect == SelfTestSpec => []AnswerOrZeros
<1>1. SelfTestInv => AnswerOrZeros
  BY DEF SelfTestInv
<1> QED
  BY SelfTestInvHolds, <1>1, PTL

(* A reader of the block RAM sees two publications at most.                 *)
THEOREM TornCorrect == SelfTestSpec => []TornAtMostOnce
<1>1. SelfTestInv => TornAtMostOnce
  BY DEF SelfTestInv
<1> QED
  BY SelfTestInvHolds, <1>1, PTL

(* From the first call on, the status bytes are the links at the first call *)
(* in the documented layout.                                                *)
THEOREM LinksCorrect == SelfTestSpec => []LinksAsDocumented
<1>1. SelfTestInv => LinksAsDocumented
  <2> SUFFICES ASSUME SelfTestInv, bI2cSelfTest # 0, NEW k \in 0 .. 16
               PROVE  k \in ports <=>
                        StatusLayout[k + 1] \in up \/ StatusLayout[k + 1][1] \in Dead
    BY DEF LinksAsDocumented
  <2>1. k \in ports <=> PortBit[k + 1] \in Sw1848PortStatus
    BY DEF SelfTestInv, PortsSampled
  <2>2. PortBit[k + 1] = StatusLayout[k + 1] /\ PortBit[k + 1] \in Links
    BY PortBitLayout
  <2> QED
    BY <2>1, <2>2 DEF Sw1848PortStatus
<1> QED
  BY SelfTestInvHolds, <1>1, PTL

-----------------------------------------------------------------------------
(* An upper bound of the steps that are left of the call under way.         *)
StepsLeft ==
  CASE at = "sending"    -> 2 * MaxCount + 14 - waitCount
    [] at = "receiving"  -> MaxCount + 11 - waitCount
    [] at = "collecting" -> 9
    [] at = "writing"    -> 8 - next
    [] OTHER             -> 0

(* Whatever the UART shows, every step of a call that publishes brings its  *)
(* end nearer.                                                              *)
CallEnds == [][at # "between" => StepsLeft \in Nat /\ StepsLeft' < StepsLeft]_selfTestVars

(* So a call of IicSelfTest takes at most 2 * MaxCount + 15 steps: the      *)
(* safety half of PublishesAgain.                                           *)
THEOREM SelfTestEnds == SelfTestSpec => CallEnds
<1>1. ASSUME SelfTestInv, SelfTestNext, at # "between"
      PROVE  StepsLeft \in Nat /\ StepsLeft' < StepsLeft
  <2> USE <1>1 DEF SelfTestInv, SelfTestTypeOK, StepsLeft, Words
  <2>1. MaxCount \in Nat
    BY CountAssumption
  <2>2. CASE PollSend
    BY <2>1, <2>2 DEF PollSend
  <2>3. CASE PollReceive
    BY <2>1, <2>3 DEF PollReceive
  <2>4. CASE Collect
    BY <2>1, <2>4 DEF Collect
  <2>5. CASE IicWrite
    BY <2>1, <2>5 DEF IicWrite
  <2> QED
    BY <2>2, <2>3, <2>4, <2>5 DEF SelfTestNext, Skip, Start
<1>2. SelfTestInv /\ [SelfTestNext]_selfTestVars =>
        [at # "between" => StepsLeft \in Nat /\ StepsLeft' < StepsLeft]_selfTestVars
  BY <1>1
<1> QED
  BY SelfTestInvHolds, <1>2, PTL DEF SelfTestSpec, CallEnds
=============================================================================
