------------------------------ MODULE SelfTest ------------------------------
(***************************************************************************)
(* IicSelfTest (iic_slave.c), which the child process calls before every   *)
(* LinkDetect: now and then it asks the RapidIO interface board for its    *)
(* readings over a UART and publishes them, with the state the links had   *)
(* at the first call, as eight words of a block RAM that a management      *)
(* controller reads whenever it likes.                                     *)
(*                                                                         *)
(* The UART is outside the model: every read of its status may show any    *)
(* bits.  Readings and answers are told apart only by the call they        *)
(* belong to.                                                              *)
(***************************************************************************)
EXTENDS Integers

CONSTANTS
  Period,    \* 0x3AAAAAA, calls from one publication to the next
  Top,       \* 0xfffffff0, where the counter of the calls starts again
  MaxCount,  \* SWBACK_BOARD_MAX_COUNT, status reads before a wait is given up
  UpSets,    \* sets of links that may be up at the first call
  Dead       \* chips that do not answer: their registers read as 0xffff

Links == {0} \X {2, 4, 5, 8, 9} \cup {1} \X {1, 2, 4, 5, 8, 9} \cup {2} \X {0, 1, 4, 5, 8, 9}

ASSUME PeriodAssumption == Period \in Nat /\ Period >= 2
ASSUME TopAssumption    == Top \in Nat /\ Top > Period
ASSUME CountAssumption  == MaxCount \in Nat \ {0}
ASSUME LinksAssumption  == UpSets \subseteq SUBSET Links /\ Dead \subseteq 0 .. 2

Words    == 0 .. 7
RioWords == 0 .. 3

VARIABLES
  bI2cSelfTest, \* the static counter of the calls
  at,           \* where the call is, "between" two calls
  waitCount,    \* _waitCount
  done,         \* the last status read while waiting for the answer had bit 0
  rio,          \* rio_data: zero, this call's answer, or the stray bit of val[16]
  ports,        \* SendBuffer[4..6]: the bits that are set
  up,           \* the links that are up at the first call
  round,        \* number of the publication under way or last made, modulo 3
  bram,         \* word -> number of the publication it is from
  next,         \* the word iic_write writes next
  age           \* calls since the last publication

selfTestVars == <<bI2cSelfTest, at, waitCount, done, rio, ports, up, round, bram, next, age>>

(* rio_data at the start of a call, and when the answer was read.           *)
Unanswered == [w \in RioWords |-> "zero"]
Answered   == [w \in RioWords |-> "answer"]

(* The bits of SendBuffer[4..6] that the comparisons 386-469 set: bits 0 to *)
(* 7 of byte 4, then of byte 5, then bit 0 of byte 6.                       *)
PortBitSwapped ==
  <<<<0, 2>>, <<0, 5>>, <<0, 9>>, <<0, 8>>, <<0, 4>>, <<1, 2>>, <<1, 5>>, <<1, 9>>,
    <<1, 1>>, <<1, 4>>, <<1, 8>>, <<2, 5>>, <<2, 9>>, <<2, 1>>, <<2, 4>>, <<2, 8>>, <<2, 0>>>>

PortBit ==
  <<<<0, 2>>, <<0, 5>>, <<0, 9>>, <<0, 4>>, <<0, 8>>, <<1, 2>>, <<1, 5>>, <<1, 9>>,
    <<1, 1>>, <<1, 4>>, <<1, 8>>, <<2, 5>>, <<2, 9>>, <<2, 1>>, <<2, 4>>, <<2, 8>>, <<2, 0>>>>

(* g_sw1848PortStatus: the ports whose register 0x158 has bit 1, which      *)
(* 0xffff has too.                                                          *)
Sw1848PortStatus == up \cup {l \in Links : l[1] \in Dead}

SelfTestInit ==
  /\ bI2cSelfTest = 0
  /\ at = "between"
  /\ waitCount = 0 /\ done = FALSE
  /\ rio = Unanswered
  /\ ports = {}
  /\ up \in UpSets
  /\ round = 0
  /\ bram = [w \in Words |-> 0]
  /\ next = 0
  /\ age = 0

-----------------------------------------------------------------------------
(* Mutant: the period is one call longer.                                   *)
DueLonger  == bI2cSelfTest = 0 \/ bI2cSelfTest >= Top \/ (bI2cSelfTest + 1) % (Period + 1) = 0

(* The calls that publish: the first, one in Period, and the one at which   *)
(* the counter starts again.                                                *)
Due ==
  \/ bI2cSelfTest = 0
  \/ bI2cSelfTest >= Top
  \/ (bI2cSelfTest + 1) % Period = 0

Skip ==
  /\ at = "between" /\ ~Due
  /\ bI2cSelfTest' = bI2cSelfTest + 1
  /\ age' = age + 1
  /\ UNCHANGED <<at, waitCount, done, rio, ports, up, round, bram, next>>

(* Mutant: rio_data is not cleared.                                         *)
StartStale ==
  /\ at = "between" /\ Due
  /\ bI2cSelfTest' = IF bI2cSelfTest >= Top THEN 1 ELSE bI2cSelfTest
  /\ ports' = IF bI2cSelfTest = 0 THEN {k \in 0 .. 16 : PortBit[k + 1] \in Sw1848PortStatus}
              ELSE ports
  /\ rio' = IF bI2cSelfTest = 0 THEN Unanswered ELSE rio
  /\ at' = "sending" /\ waitCount' = 0 /\ done' = FALSE
  /\ round' = (round + 1) % 3
  /\ age' = 0
  /\ UNCHANGED <<up, bram, next>>

(* Clear rio_data, sample the links if this is the first call, and start    *)
(* the UART.  The first call also writes val[16], one past the end of val:  *)
(* in a build that puts rio_data there, port 0 of chip 2 ends up in it.     *)
Start ==
  /\ at = "between" /\ Due
  /\ bI2cSelfTest' = IF bI2cSelfTest >= Top THEN 1 ELSE bI2cSelfTest
  /\ IF bI2cSelfTest = 0
     THEN /\ ports' = {k \in 0 .. 16 : PortBit[k + 1] \in Sw1848PortStatus}
          /\ rio' \in {Unanswered} \cup
                      {[Unanswered EXCEPT ![0] = "stray"] : l \in Sw1848PortStatus \cap {<<2, 0>>}}
     ELSE /\ rio' = Unanswered
          /\ UNCHANGED ports
  /\ at' = "sending" /\ waitCount' = 0 /\ done' = FALSE
  /\ round' = (round + 1) % 3
  /\ age' = 0
  /\ UNCHANGED <<up, bram, next>>

(* Mutant: the count of the reads starts again when it is used up.          *)
PollSendRestarts ==
  /\ at = "sending"
  /\ \E busy \in BOOLEAN :
       IF busy
       THEN waitCount' = (IF waitCount <= MaxCount THEN waitCount + 1 ELSE 0) /\ UNCHANGED at
       ELSE at' = "receiving" /\ waitCount' = 0
  /\ UNCHANGED <<bI2cSelfTest, done, rio, ports, up, round, bram, next, age>>

(* One read of the status while the command goes out.                       *)
PollSend ==
  /\ at = "sending"
  /\ \E busy \in BOOLEAN :
       IF busy /\ waitCount <= MaxCount
       THEN waitCount' = waitCount + 1 /\ UNCHANGED at
       ELSE at' = "receiving" /\ waitCount' = 0
  /\ UNCHANGED <<bI2cSelfTest, done, rio, ports, up, round, bram, next, age>>

(* One read of the status while waiting for the answer.                     *)
PollReceive ==
  /\ at = "receiving"
  /\ \E d \in BOOLEAN :
       /\ done' = d
       /\ IF ~d /\ waitCount <= MaxCount
          THEN waitCount' = waitCount + 1 /\ UNCHANGED at
          ELSE at' = "collecting" /\ UNCHANGED waitCount
  /\ UNCHANGED <<bI2cSelfTest, rio, ports, up, round, bram, next, age>>

(* Fewer reads than MaxCount: the answer is there, and is read.             *)
Collect ==
  /\ at = "collecting"
  /\ rio' = IF waitCount < MaxCount THEN Answered ELSE rio
  /\ at' = "writing" /\ next' = 0
  /\ UNCHANGED <<bI2cSelfTest, waitCount, done, ports, up, round, bram, age>>

(* Mutant: the last word is forgotten.                                      *)
IicWriteSeven ==
  /\ at = "writing"
  /\ bram' = [bram EXCEPT ![next] = round]
  /\ IF next < 6
     THEN next' = next + 1 /\ UNCHANGED <<at, bI2cSelfTest>>
     ELSE at' = "between" /\ next' = 0 /\ bI2cSelfTest' = bI2cSelfTest + 1
  /\ UNCHANGED <<waitCount, done, rio, ports, up, round, age>>

(* iic_write writes SendBuffer word by word; then the call ends.            *)
IicWrite ==
  /\ at = "writing"
  /\ bram' = [bram EXCEPT ![next] = round]
  /\ IF next < 7
     THEN next' = next + 1 /\ UNCHANGED <<at, bI2cSelfTest>>
     ELSE at' = "between" /\ next' = 0 /\ bI2cSelfTest' = bI2cSelfTest + 1
  /\ UNCHANGED <<waitCount, done, rio, ports, up, round, age>>

SelfTestNext == Skip \/ Start \/ PollSend \/ PollReceive \/ Collect \/ IicWrite

(* The child process calls IicSelfTest again and again.                     *)
SelfTestSpec == SelfTestInit /\ [][SelfTestNext]_selfTestVars /\ WF_selfTestVars(SelfTestNext)

-----------------------------------------------------------------------------

(* The calls that publish are never more than Period apart, also where the  *)
(* counter starts again before it runs over (lines 326-332).                *)
PublishedInTime == age < Period /\ bI2cSelfTest <= Top

(* What is published as readings of the interface board is the answer to    *)
(* this call's command if it came within MaxCount status reads, and zeros   *)
(* otherwise, never an old answer; but for the first publication, where     *)
(* val[16] may show (lines 321-324, 384, 496-510).                          *)
AnswerOrZeros ==
  at = "writing" =>
    /\ (done /\ waitCount < MaxCount) <=> rio = Answered
    /\ rio # Answered => rio = Unanswered \/ (bI2cSelfTest = 0 /\ rio[1] = "zero")

(* Outside iic_write all words are from one publication; in it, the words   *)
(* before the next one are new and the others from the one before, so that  *)
(* a reader sees two publications at most (lines 292-312).                  *)
TornAtMostOnce ==
  \A w \in Words :
    bram[w] = IF at = "between" \/ (at = "writing" /\ w < next)
              THEN round ELSE (round + 2) % 3

(* The layout of the status bytes in the comment of lines 360-362, from     *)
(* bit 0 of ps0 on.                                                         *)
StatusLayout ==
  <<<<0, 2>>, <<0, 5>>, <<0, 9>>, <<0, 4>>, <<0, 8>>, <<1, 2>>, <<1, 5>>, <<1, 9>>,
    <<1, 1>>, <<1, 4>>, <<1, 8>>, <<2, 5>>, <<2, 9>>, <<2, 1>>, <<2, 4>>, <<2, 8>>, <<2, 0>>>>

(* What is published of the links is, bit by bit of that layout, whether    *)
(* the link was up at the first call; a dead chip has all its links up.     *)
LinksAsDocumented ==
  bI2cSelfTest # 0 =>
    \A k \in 0 .. 16 :
      k \in ports <=> StatusLayout[k + 1] \in up \/ StatusLayout[k + 1][1] \in Dead

(* Whatever the UART shows, publications go on (both waits are bounded).    *)
PublishesAgain == []<>(at = "writing")
=============================================================================
