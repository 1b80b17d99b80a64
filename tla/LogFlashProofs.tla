--------------------------- MODULE LogFlashProofs ---------------------------
(***************************************************************************)
(* Theorems about LogFlash, for every size of the sector, every message    *)
(* length and every outcome of the erases and writes.                      *)
(***************************************************************************)
EXTENDS LogFlash, TLAPS

-----------------------------------------------------------------------------
(* Words.                                                                   *)

LEMMA WordsSplit ==
  ASSUME NEW a \in Int, NEW b \in Int, NEW c \in Int, a <= b, b <= c
  PROVE  Words(a, c) = Words(a, b) \cup Words(b, c)
BY DEF Words, LogWords, HeadSize

(* A message that WriteLogFile accepts stays in the sector when its length  *)
(* is rounded up: offset and size are even.                                 *)
LEMMA AcceptedFits ==
  ASSUME TypeOK, NEW length \in LogLengths, Accepted(length)
  PROVE  /\ Rounded(length) \in Nat
         /\ length <= Rounded(length)
         /\ LogSectorOffset + Rounded(length) \in HeadSize .. SectorSize
         /\ (LogSectorOffset + Rounded(length)) % 2 = 0
<1>1. /\ length \in Nat /\ SectorSize \in Nat /\ SectorSize % 2 = 0
      /\ LogSectorOffset \in HeadSize .. SectorSize /\ LogSectorOffset % 2 = 0
      /\ LogSectorOffset + length < SectorSize
  BY LengthAssumption, SizeAssumption DEF TypeOK, Accepted
<1>2. CASE length % 2 = 0
  BY <1>1, <1>2 DEF Rounded, HeadSize
<1>3. CASE length % 2 # 0
  <2>1. /\ Rounded(length) = length + 1
        /\ LogSectorOffset + (length + 1) <= SectorSize
    BY <1>1, <1>3 DEF Rounded, HeadSize
  <2>2. (LogSectorOffset + (length + 1)) % 2 = 0
    BY <1>1, <1>3 DEF HeadSize
  <2> QED
    BY <1>1, <2>1, <2>2 DEF HeadSize
<1> QED
  BY <1>2, <1>3

-----------------------------------------------------------------------------
(* Parts of the flash.                                                      *)

(* An erase, completed or not, takes no word that is logged: it is there or *)
(* missing, or its header was erased too.                                   *)
LEMMA EraseKeeps ==
  ASSUME TypeOK, HeaderOfALog, NEW ok \in BOOLEAN, NEW rest \in SUBSET LogWords,
         Erase(ok, rest) \/ EraseParts(rest)
  PROVE  /\ head' \in {head, "blank"} /\ headLength' \in Nat
         /\ written' \subseteq written /\ missing' \subseteq LogWords
         /\ HeaderOfALog'
<1>1. Unwritten \in Nat
  BY LengthAssumption
<1>2. CASE /\ head' = "blank" /\ headLength' = Unwritten
           /\ written' = {} /\ missing' = {}
  BY <1>1, <1>2 DEF HeaderOfALog
<1>3. CASE EraseParts(rest)
  <2>1. /\ written' = written \cap rest /\ missing' = missing \cup (written \ rest)
        /\ head' \in {head, "blank"} /\ headLength' \in {headLength, Unwritten}
    BY <1>3 DEF EraseParts
  <2>2. written' \cup missing' = written \cup missing
    BY <2>1
  <2>3. HeaderOfALog'
    BY <2>1, <2>2 DEF HeaderOfALog, Logged
  <2> QED
    BY <1>1, <2>1, <2>3 DEF TypeOK
<1> QED
  BY <1>2, <1>3 DEF Erase

(* A header programmed wholly or in part holds a length it may have: that   *)
(* of the log, or of 'C', or what either leaves over the length of a log.   *)
LEMMA HeaderKeeps ==
  ASSUME TypeOK, HeaderOfALog, NEW ok \in BOOLEAN, NEW length \in Nat,
         length = OpenLength \/ (Logged(HeadSize + length) /\ headLength = Unwritten),
         ProgramHeader(ok, length) \/ HeaderPart(length),
         UNCHANGED <<written, missing>>
  PROVE  head' \in {head, "done"} /\ headLength' \in Nat /\ HeaderOfALog'
<1>1. /\ Unwritten \in Nat /\ OpenLength \in Nat /\ headLength \in Nat
      /\ HeadSize = 8 /\ head \in {"blank", "done"}
  BY LengthAssumption DEF TypeOK, HeadSize
<1>2. \/ head' = head /\ headLength' = headLength
      \/ head' = "done" /\ headLength' \in {headLength, length}
                        /\ headLength \in {Unwritten, length}
      \/ head' = "done" /\ headLength' \in 0 .. headLength
                        /\ headLength \notin {Unwritten, length}
  BY DEF ProgramHeader, HeaderPart, Over
<1>3. CASE headLength' \in {headLength, length}
  <2>1. CASE headLength' = headLength
    BY <1>1, <1>2, <2>1 DEF HeaderOfALog, Logged
  <2>2. CASE headLength' = length
    <3>1. HeaderOfALog'
      BY <2>2 DEF HeaderOfALog, Logged
    <3> QED
      BY <1>1, <1>2, <2>2, <3>1
  <2> QED
    BY <1>3, <2>1, <2>2
<1>4. CASE /\ head' = "done" /\ headLength' \in 0 .. headLength
           /\ headLength \notin {Unwritten, length}
  <2>1. length = OpenLength /\ Logged(HeadSize + headLength)
    BY <1>4 DEF HeaderOfALog
  <2>2. Words(HeadSize, HeadSize + headLength') \subseteq Words(HeadSize, HeadSize + headLength)
    BY <1>1, <1>4 DEF Words, LogWords
  <2>3. HeaderOfALog'
    BY <2>1, <2>2 DEF HeaderOfALog, Logged
  <2> QED
    BY <1>1, <1>4, <2>3
<1> QED
  BY <1>2, <1>3, <1>4

-----------------------------------------------------------------------------
LEMMA LogInit ==
  ASSUME Init
  PROVE  IInv
<1>1. LogFileSwitch \in BOOLEAN /\ pc \in Steps /\ head \in {"blank", "done"}
  BY Zenon DEF Init, Steps
<1>2. /\ headLength \in Nat /\ LogSectorLength \in Nat
      /\ LogSectorOffset \in HeadSize .. SectorSize /\ LogSectorOffset % 2 = 0
  BY SizeAssumption, LengthAssumption DEF Init, HeadSize
<1>3. TypeOK
  BY <1>1, <1>2 DEF Init, TypeOK
<1> QED
  BY <1>3 DEF Init, IInv, NeverProgrammedTwice, AbortedLogKept, HeaderOfALog,
              LogInProgress, AbortedUnderBlank, Running

(* Boot.                                                                    *)
LEMMA BootStep ==
  ASSUME IInv, Boot
  PROVE  IInv'
<1> USE DEF IInv
<1>1. SectorSize \in Nat /\ SectorSize > HeadSize /\ HeadSize = 8
  BY SizeAssumption DEF HeadSize
<1>2. ASSUME NEW auto \in BOOLEAN, PowerOn(auto)
      PROVE  IInv'
  <2>1. pc' \in Steps /\ LogFileSwitch' \in BOOLEAN
    BY <1>2, Zenon DEF PowerOn, Steps
  <2>2. LogSectorOffset' \in HeadSize .. SectorSize /\ LogSectorOffset' % 2 = 0
        /\ LogSectorLength' \in Nat
    BY <1>1, <1>2 DEF PowerOn
  <2>3. TypeOK'
    BY <1>2, <2>1, <2>2 DEF PowerOn, TypeOK, sector
  <2> QED
    BY <1>2, <2>3 DEF PowerOn, sector, NeverProgrammedTwice, AbortedLogKept,
       HeaderOfALog, Logged, LogInProgress, AbortedUnderBlank, Running
<1>3. ASSUME CheckHeader
      PROVE  IInv'
  <2>1. TypeOK'
    BY <1>3 DEF CheckHeader, TypeOK, Steps, sector
  <2> QED
    BY <1>3, <2>1 DEF CheckHeader, sector, NeverProgrammedTwice, AbortedLogKept,
       HeaderOfALog, Logged, LogInProgress, AbortedUnderBlank, Running
<1>4. ASSUME NEW ok \in BOOLEAN, NEW rest \in SUBSET LogWords, BootErase(ok, rest)
      PROVE  IInv'
  <2>1. /\ head' \in {head, "blank"} /\ headLength' \in Nat
        /\ written' \subseteq written /\ missing' \subseteq LogWords
        /\ HeaderOfALog'
    BY <1>4, EraseKeeps DEF BootErase
  <2>2. /\ pc = "bootErase" /\ pc' = "enum" /\ LogFileSwitch' = ok
        /\ aborted = {} /\ aborted' = {}
        /\ UNCHANGED <<LogSectorOffset, LogSectorLength>>
    BY <1>4 DEF BootErase, AbortedUnderBlank
  <2>3. TypeOK'
    BY <2>1, <2>2 DEF TypeOK, Steps
  <2>4. CASE ~ ok
    BY <2>1, <2>2, <2>3, <2>4 DEF NeverProgrammedTwice, AbortedLogKept,
       LogInProgress, AbortedUnderBlank
  <2>5. CASE ok
    <3>1. written' = {} /\ head' = "blank" /\ headLength' = Unwritten
      BY <1>4, <2>5 DEF BootErase, Erase
    <3>2. LogSectorOffset = HeadSize /\ LogSectorLength = 0
      BY <2>2 DEF LogInProgress
    <3>3. Words(HeadSize, HeadSize) = {}
      BY <1>1 DEF Words, LogWords
    <3> QED
      BY <1>1, <2>1, <2>2, <2>3, <3>1, <3>2, <3>3
         DEF NeverProgrammedTwice, AbortedLogKept, LogInProgress, Logged, AbortedUnderBlank
  <2> QED
    BY <2>4, <2>5
<1>5. ASSUME NEW length \in LogLengths, NEW done \in 0 .. Rounded(length),
             WriteLogFile(length, done)
      PROVE  IInv'
  <2> DEFINE r    == Rounded(length)
             new  == Words(LogSectorOffset, LogSectorOffset + done)
             lost == Words(LogSectorOffset + done, LogSectorOffset + r)
  <2>1. /\ pc \in {"enum", "manual"} /\ LogFileSwitch
        /\ written' = written \cup new /\ missing' = missing \cup lost
        /\ LogSectorOffset' = LogSectorOffset + r
        /\ LogSectorLength' = LogSectorLength + r
        /\ UNCHANGED <<pc, head, headLength, LogFileSwitch, aborted>>
    BY <1>5 DEF WriteLogFile, WriteData, Accepted
  <2>2. /\ r \in Nat
        /\ LogSectorOffset' \in HeadSize .. SectorSize /\ LogSectorOffset' % 2 = 0
    BY <1>5, <2>1, AcceptedFits DEF WriteLogFile
  <2>3. TypeOK'
    BY <2>1, <2>2 DEF TypeOK, Words
  <2>4. NeverProgrammedTwice'
    <3>1. \A w \in written : w < LogSectorOffset
      BY <2>1 DEF NeverProgrammedTwice, Running
    <3>2. \A w \in written \cup new : w < LogSectorOffset + r
      BY <1>1, <2>2, <3>1 DEF Words, LogWords, TypeOK
    <3>3. pc \in {"enum", "finish"} => head = "blank" /\ headLength = Unwritten
      BY <2>1 DEF NeverProgrammedTwice, Running
    <3>4. \A w \in written' : w < LogSectorOffset'
      BY <2>1, <3>2
    <3>5. pc' = pc /\ head' = head /\ headLength' = headLength
      BY <2>1
    <3>6. LogSectorOffset' <= SectorSize
      BY <2>2 DEF HeadSize
    <3> HIDE DEF r, new
    <3> QED
      BY <3>3, <3>4, <3>5, <3>6 DEF NeverProgrammedTwice
  <2>5. AbortedLogKept' /\ HeaderOfALog' /\ AbortedUnderBlank'
    BY <2>1 DEF AbortedLogKept, HeaderOfALog, Logged, AbortedUnderBlank, Running
  <2>6. LogInProgress'
    <3>1. Words(HeadSize, LogSectorOffset + r) =
            Words(HeadSize, LogSectorOffset) \cup (new \cup lost)
      <4>1. /\ HeadSize <= LogSectorOffset /\ LogSectorOffset <= LogSectorOffset + done
            /\ LogSectorOffset + done <= LogSectorOffset + r
            /\ HeadSize \in Int /\ LogSectorOffset \in Int /\ LogSectorOffset + done \in Int
        BY <1>1, <2>2 DEF TypeOK
      <4>2. LogSectorOffset + r \in Int
        BY <2>2, <4>1
      <4>3. Words(LogSectorOffset, LogSectorOffset + r) = new \cup lost
        BY <4>1, <4>2, WordsSplit
      <4>4. LogSectorOffset <= LogSectorOffset + r
        BY <2>2, <4>1
      <4>5. HeadSize <= LogSectorOffset
        BY <4>1
      <4>6. Words(HeadSize, LogSectorOffset + r) =
              Words(HeadSize, LogSectorOffset) \cup Words(LogSectorOffset, LogSectorOffset + r)
        <5> DEFINE to == LogSectorOffset + r
        <5>1. to \in Int /\ LogSectorOffset <= to /\ HeadSize \in Int /\ LogSectorOffset \in Int
          BY <4>1, <4>2, <4>4
        <5> HIDE DEF to
        <5>2. Words(HeadSize, to) = Words(HeadSize, LogSectorOffset) \cup Words(LogSectorOffset, to)
          BY <4>5, <5>1, WordsSplit
        <5> QED
          BY <5>2 DEF to
      <4> HIDE DEF r, new, lost
      <4> QED
        BY <4>3, <4>6
    <3>2. CASE pc = "enum"
      <4>1. /\ LogSectorLength = LogSectorOffset - HeadSize
            /\ Words(HeadSize, LogSectorOffset) \subseteq written \cup missing
        BY <2>1, <3>2 DEF LogInProgress, Logged
      <4>2. LogSectorLength' = LogSectorOffset' - HeadSize
        BY <1>1, <2>1, <2>2, <4>1 DEF TypeOK
      <4>3. Words(HeadSize, LogSectorOffset') \subseteq written' \cup missing'
        BY <2>1, <3>1, <4>1
      <4> HIDE DEF r, new, lost
      <4> QED
        BY <2>1, <3>2, <4>2, <4>3 DEF LogInProgress, Logged
    <3>3. CASE pc = "manual"
      BY <2>1, <3>3 DEF LogInProgress
    <3> QED
      BY <2>1, <3>2, <3>3
  <2> QED
    BY <2>3, <2>4, <2>5, <2>6
<1>6. ASSUME EnumerationEnds
      PROVE  IInv'
  BY <1>6 DEF EnumerationEnds, ram, sector, TypeOK, Steps, NeverProgrammedTwice,
     AbortedLogKept, HeaderOfALog, Logged, LogInProgress, AbortedUnderBlank, Running
<1>7. ASSUME NEW ok \in BOOLEAN, Finish(ok)
      PROVE  IInv'
  <2>1. /\ pc = "finish" /\ pc' = "menu" /\ LogFileSwitch
        /\ head = "blank" /\ headLength = Unwritten /\ aborted = {}
        /\ ProgramHeader(ok, LogSectorLength)
        /\ aborted' = IF head' = "done" THEN aborted ELSE written
        /\ UNCHANGED <<LogFileSwitch, LogSectorOffset, LogSectorLength, written, missing>>
    BY <1>7 DEF Finish, ram, AbortedUnderBlank, NeverProgrammedTwice, Running
  <2>2. LogSectorLength \in Nat /\ Logged(HeadSize + LogSectorLength)
    <3>1. LogSectorLength = LogSectorOffset - HeadSize /\ Logged(LogSectorOffset)
      BY <2>1 DEF LogInProgress
    <3>2. HeadSize + LogSectorLength = LogSectorOffset /\ LogSectorLength \in Nat
      BY <1>1, <3>1 DEF TypeOK
    <3> QED
      BY <3>1, <3>2
  <2>3. head' \in {head, "done"} /\ headLength' \in Nat /\ HeaderOfALog'
    BY <2>1, <2>2, HeaderKeeps
  <2>4. /\ aborted' \subseteq written' /\ aborted' \subseteq LogWords
        /\ aborted' # {} => head' = "blank"
    BY <2>1, <2>3 DEF TypeOK
  <2>5. TypeOK'
    BY <2>1, <2>3, <2>4 DEF TypeOK, Steps
  <2> QED
    BY <2>1, <2>3, <2>4, <2>5 DEF NeverProgrammedTwice, AbortedLogKept,
       LogInProgress, AbortedUnderBlank, Running
<1> QED
  BY <1>2, <1>3, <1>4, <1>5, <1>6, <1>7 DEF Boot

(* The menu.                                                                *)
LEMMA MenuStep ==
  ASSUME IInv, Menu
  PROVE  IInv'
<1> USE DEF IInv
<1>1. CASE ManualEnumeration \/ ManualEnds \/ ShowKey
  BY <1>1 DEF ManualEnumeration, ManualEnds, ShowKey, ram, sector, TypeOK, Steps,
     NeverProgrammedTwice, AbortedLogKept, HeaderOfALog, Logged, LogInProgress,
     AbortedUnderBlank, Running
<1>2. CASE OpenKey \/ CloseKey
  <2>1. /\ pc = "menu" /\ pc' \in {"openErase", "closeErase"}
        /\ aborted' = {}
        /\ UNCHANGED <<LogFileSwitch, LogSectorOffset, LogSectorLength, head, headLength,
                       written, missing>>
    BY <1>2 DEF OpenKey, CloseKey, ram, sector, TypeOK
  <2> QED
    BY <2>1 DEF TypeOK, Steps, NeverProgrammedTwice, AbortedLogKept, HeaderOfALog,
       Logged, LogInProgress, AbortedUnderBlank, Running
<1>3. ASSUME NEW ok \in BOOLEAN, NEW rest \in SUBSET LogWords, OpenErase(ok, rest)
      PROVE  IInv'
  <2>1. /\ pc = "openErase" /\ pc' = "openHeader" /\ LogSectorLength' = OpenLength
        /\ UNCHANGED <<LogFileSwitch, LogSectorOffset, aborted>>
        /\ aborted = {} /\ OpenLength \in Nat
    BY <1>3, LengthAssumption DEF OpenErase, AbortedUnderBlank
  <2>2. /\ head' \in {head, "blank"} /\ headLength' \in Nat
        /\ written' \subseteq written /\ missing' \subseteq LogWords
        /\ HeaderOfALog'
    BY <1>3, EraseKeeps DEF OpenErase
  <2> QED
    BY <2>1, <2>2 DEF TypeOK, Steps, NeverProgrammedTwice, AbortedLogKept,
       LogInProgress, AbortedUnderBlank, Running
<1>4. ASSUME NEW ok \in BOOLEAN, OpenHeader(ok)
      PROVE  IInv'
  <2>1. /\ pc = "openHeader" /\ pc' = "menu" /\ aborted = {}
        /\ ProgramHeader(ok, LogSectorLength) /\ LogSectorLength = OpenLength
        /\ UNCHANGED <<LogFileSwitch, LogSectorOffset, LogSectorLength, written, aborted,
                       missing>>
    BY <1>4 DEF OpenHeader, ram, AbortedUnderBlank
  <2>2. head' \in {head, "done"} /\ headLength' \in Nat /\ HeaderOfALog'
    BY <2>1, HeaderKeeps DEF TypeOK
  <2> QED
    BY <2>1, <2>2 DEF TypeOK, Steps, NeverProgrammedTwice, AbortedLogKept,
       LogInProgress, AbortedUnderBlank, Running
<1>5. ASSUME NEW ok \in BOOLEAN, NEW rest \in SUBSET LogWords, CloseErase(ok, rest)
      PROVE  IInv'
  <2>1. /\ pc = "closeErase" /\ pc' = "menu"
        /\ UNCHANGED <<LogFileSwitch, LogSectorOffset, LogSectorLength, aborted>>
        /\ aborted = {}
    BY <1>5, Zenon DEF CloseErase, ram, AbortedUnderBlank
  <2>2. /\ head' \in {head, "blank"} /\ headLength' \in Nat
        /\ written' \subseteq written /\ missing' \subseteq LogWords
        /\ HeaderOfALog'
    BY <1>5, EraseKeeps DEF CloseErase
  <2> QED
    BY <2>1, <2>2 DEF TypeOK, Steps, NeverProgrammedTwice, AbortedLogKept,
       LogInProgress, AbortedUnderBlank, Running
<1> QED
  BY <1>1, <1>2, <1>3, <1>4, <1>5 DEF Menu

(* Power failures.                                                          *)
LEMMA PowerStep ==
  ASSUME IInv, Power
  PROVE  IInv'
<1> USE DEF IInv
<1>1. ASSUME PowerFails
      PROVE  IInv'
  <2>1. /\ pc' = "off" /\ Cut(written)
        /\ UNCHANGED <<LogFileSwitch, LogSectorOffset, LogSectorLength, head, headLength,
                       written, missing>>
    BY <1>1 DEF PowerFails, ram, sector
  <2>2. /\ aborted' \subseteq written
        /\ aborted' # {} => head = "blank"
    BY <2>1 DEF Cut, AbortedLogKept, AbortedUnderBlank, NeverProgrammedTwice, Running
  <2> QED
    BY <2>1, <2>2 DEF TypeOK, Steps, NeverProgrammedTwice, AbortedLogKept,
       HeaderOfALog, Logged, LogInProgress, AbortedUnderBlank, Running
<1>2. ASSUME NEW length \in LogLengths, NEW done \in 0 .. length,
             PowerFailsInLog(length, done)
      PROVE  IInv'
  <2>1. /\ pc \in {"enum", "manual"} /\ pc' = "off"
        /\ written' = written \cup Words(LogSectorOffset, LogSectorOffset + done)
        /\ aborted' = IF pc \in {"enum", "finish"} /\ LogFileSwitch THEN written' ELSE aborted
        /\ UNCHANGED <<LogFileSwitch, LogSectorOffset, LogSectorLength, head, headLength,
                       missing>>
    BY <1>2 DEF PowerFailsInLog, Cut, ram
  <2>2. written' \subseteq LogWords
    BY <2>1 DEF TypeOK, Words
  <2>3. /\ aborted' \subseteq written'
        /\ aborted' # {} => head = "blank"
    BY <2>1 DEF AbortedLogKept, AbortedUnderBlank, NeverProgrammedTwice, Running
  <2>4. HeaderOfALog'
    BY <2>1 DEF HeaderOfALog, Logged
  <2> QED
    BY <2>1, <2>2, <2>3, <2>4 DEF TypeOK, Steps, NeverProgrammedTwice, AbortedLogKept,
       LogInProgress, AbortedUnderBlank, Running
<1>3. ASSUME NEW rest \in SUBSET LogWords, PowerFailsInErase(rest)
      PROVE  IInv'
  <2>1. /\ pc \in {"bootErase", "openErase", "closeErase"} /\ pc' = "off"
        /\ UNCHANGED <<LogFileSwitch, LogSectorOffset, LogSectorLength, aborted>>
        /\ aborted = {}
    BY <1>3 DEF PowerFailsInErase, ram, AbortedUnderBlank
  <2>2. /\ head' \in {head, "blank"} /\ headLength' \in Nat
        /\ written' \subseteq written /\ missing' \subseteq LogWords
        /\ HeaderOfALog'
    BY <1>3, EraseKeeps DEF PowerFailsInErase
  <2> QED
    BY <2>1, <2>2 DEF TypeOK, Steps, NeverProgrammedTwice, AbortedLogKept,
       LogInProgress, AbortedUnderBlank, Running
<1>4. ASSUME PowerFailsInHeader
      PROVE  IInv'
  <2>1. /\ pc \in {"finish", "openHeader"} /\ pc' = "off"
        /\ HeaderPart(LogSectorLength) /\ LogSectorLength \in Nat
        /\ UNCHANGED <<LogFileSwitch, LogSectorOffset, LogSectorLength, written, missing,
                       aborted>>
        /\ aborted = {}
    BY <1>4 DEF PowerFailsInHeader, ram, AbortedUnderBlank, TypeOK
  <2>2. \/ LogSectorLength = OpenLength
        \/ Logged(HeadSize + LogSectorLength) /\ headLength = Unwritten
    <3>1. CASE pc = "openHeader"
      BY <3>1 DEF AbortedUnderBlank
    <3>2. CASE pc = "finish"
      <4>1. /\ LogSectorLength = LogSectorOffset - HeadSize /\ Logged(LogSectorOffset)
            /\ headLength = Unwritten
        BY <3>2 DEF LogInProgress, AbortedUnderBlank, NeverProgrammedTwice, Running
      <4>2. HeadSize + LogSectorLength = LogSectorOffset
        BY <4>1 DEF TypeOK, HeadSize
      <4> QED
        BY <4>1, <4>2
    <3> QED
      BY <2>1, <3>1, <3>2
  <2>3. head' \in {head, "done"} /\ headLength' \in Nat /\ HeaderOfALog'
    BY <2>1, <2>2, HeaderKeeps
  <2> QED
    BY <2>1, <2>3 DEF TypeOK, Steps, NeverProgrammedTwice, AbortedLogKept,
       LogInProgress, AbortedUnderBlank, Running
<1> QED
  BY <1>1, <1>2, <1>3, <1>4 DEF Power

(* IInv holds in every reachable state.                                     *)
THEOREM LogInvariant == Spec => []IInv
<1>1. Init => IInv
  BY LogInit
<1>2. IInv /\ [Next]_vars => IInv'
  <2>1. IInv /\ Next => IInv'
    BY BootStep, MenuStep, PowerStep DEF Next
  <2>2. IInv /\ UNCHANGED vars => IInv'
    BY DEF vars, ram, sector, IInv, TypeOK, NeverProgrammedTwice, AbortedLogKept,
       HeaderOfALog, Logged, LogInProgress, AbortedUnderBlank, Running
  <2> QED
    BY <2>1, <2>2
<1> QED
  BY <1>1, <1>2, PTL DEF Spec

(* The log never leaves its sector: m_LogSectorOffset and every word        *)
(* programmed stay inside it, for messages of any length (WriteLogFile).    *)
THEOREM LogTypeCorrect == Spec => []TypeOK
<1>1. IInv => TypeOK
  BY DEF IInv
<1> QED
  BY <1>1, LogInvariant, PTL

(* No flash word is programmed twice between two erases, and none behind    *)
(* the sector.                                                              *)
THEOREM ProgramOnce == Spec => []NeverProgrammedTwice
<1>1. IInv => NeverProgrammedTwice
  BY DEF IInv
<1> QED
  BY <1>1, LogInvariant, PTL

(* The log of an enumeration that lost power survives until the operator    *)
(* opens or closes the log.                                                 *)
THEOREM AbortedLogCorrect == Spec => []AbortedLogKept
<1>1. IInv => AbortedLogKept
  BY DEF IInv
<1> QED
  BY <1>1, LogInvariant, PTL

(* What key 'c' shows under a finished header that fits its buffer was      *)
(* logged, over restarts, failed writes and erases and torn headers: the    *)
(* length is that of a log, for those of 'C' and of an erased header are    *)
(* longer than the buffer.                                                  *)
THEOREM ShownCorrect == Spec => []ShownIsLogged
<1>1. ASSUME IInv
      PROVE  ShownIsLogged
  <2>1. SUFFICES ASSUME head = "done", headLength < ReadBuffer
                 PROVE  ShownWords \subseteq written \cup missing
    BY DEF ShownIsLogged
  <2>2. headLength \notin {Unwritten, OpenLength}
    BY <1>1, <2>1, BufferAssumption, LengthAssumption DEF IInv, TypeOK
  <2>3. Logged(HeadSize + headLength)
    BY <1>1, <2>2 DEF IInv, HeaderOfALog
  <2> QED
    BY <2>1, <2>3 DEF ShownWords, ShownLength, Logged
<1> QED
  BY <1>1, LogInvariant, PTL
=============================================================================
