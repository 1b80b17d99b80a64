------------------------------ MODULE LogFlash ------------------------------
(***************************************************************************)
(* The enumeration log in NOR flash (flash.c), over restarts of the        *)
(* program: main logs the enumeration at boot if the header of the log     *)
(* sector says that the previous log was finished, the menu enumerates     *)
(* again ('5'), opens ('C') and closes ('D') the log.                      *)
(*                                                                         *)
(* Power may fail in any state, in the middle of an erase or of a write    *)
(* too, and both may time out; the program never looks at what writedata   *)
(* returns.  The sector is a header and the set of the words (by byte      *)
(* offset) that have been programmed since they were erased; what they     *)
(* hold is left out.  An erase that was not completed leaves each word as  *)
(* it was or erased.  The log is written by PrintLog of the vendor         *)
(* library, called by hlSrioInit with messages of any length in LogLengths.*)
(***************************************************************************)
EXTENDS Integers

CONSTANTS
  SectorSize,     \* bytes of the log sector, 65536 * 2
  OpenLength,     \* the length OpenLogFile puts in the header, 65536
  Unwritten,      \* a length with an erased word in it: longer than any log
  ReadBuffer,     \* bytes of the buffer of ReadLogInfo, 65535
  LogLengths,     \* lengths of the messages PrintLog passes on
  EraseResults,   \* whether Erase_Flash may succeed, and whether it may time out
  WriteResults    \* the same of writedata

HeadSize == 8     \* bytes of the header, and the first value of m_LogSectorOffset

ASSUME SizeAssumption   == SectorSize \in Nat /\ SectorSize % 2 = 0 /\ SectorSize > HeadSize
ASSUME LengthAssumption == OpenLength \in Nat /\ Unwritten \in Nat /\ LogLengths \subseteq Nat
ASSUME BufferAssumption == /\ ReadBuffer \in Nat
                           /\ ReadBuffer <= OpenLength /\ ReadBuffer <= Unwritten
ASSUME ResultAssumption == EraseResults \subseteq BOOLEAN /\ WriteResults \subseteq BOOLEAN

VARIABLES
  pc,              \* where the program is
  head,            \* first word of the header: "done" (0xABCD), or "blank" (it is not)
  headLength,      \* the next two: the length in the header
  written,         \* the log words programmed since they were last erased
  LogFileSwitch, LogSectorOffset, LogSectorLength,   \* g_ and m_ variables of flash.c
  aborted,         \* history: words of a log whose enumeration was not finished
  missing          \* history: words a failed write skipped, or an erase took that
                   \*   was not completed

ram     == <<LogFileSwitch, LogSectorOffset, LogSectorLength>>
sector  == <<head, headLength, written>>
vars    == <<pc, ram, sector, aborted, missing>>

LogWords == {w \in HeadSize .. SectorSize - 2 : w % 2 = 0}
Words(from, to) == {w \in LogWords : from <= w /\ w < to}

Init ==
  /\ pc = "off"
  /\ head = "blank" /\ headLength = Unwritten /\ written = {}
  /\ LogFileSwitch = FALSE /\ LogSectorOffset = HeadSize /\ LogSectorLength = 0
  /\ aborted = {} /\ missing = {}

-----------------------------------------------------------------------------
(* Boot.                                                                    *)

(* The program starts with its statics; without automatic enumeration       *)
(* (delayTime.txt, or a slot other than 6) it goes straight to the menu.    *)
PowerOn(auto) ==
  /\ pc = "off"
  /\ LogFileSwitch' = FALSE /\ LogSectorOffset' = HeadSize /\ LogSectorLength' = 0
  /\ pc' = IF auto THEN "check" ELSE "menu"
  /\ UNCHANGED <<sector, aborted, missing>>

(* Mutant: any log but a finished one is erased.                            *)
CheckHeaderInverted ==
  /\ pc = "check"
  /\ pc' = IF head = "done" THEN "enum" ELSE "bootErase"
  /\ LogFileSwitch' = FALSE
  /\ UNCHANGED <<LogSectorOffset, LogSectorLength, sector, aborted, missing>>

(* WriteLogFlash, up to its call of Erase_Flash: a header that is not       *)
(* 0xABCD means a log that was cut or is closed, and turns logging off.     *)
CheckHeader ==
  /\ pc = "check"
  /\ pc' = IF head = "blank" THEN "enum" ELSE "bootErase"
  /\ LogFileSwitch' = FALSE
  /\ UNCHANGED <<LogSectorOffset, LogSectorLength, sector, aborted, missing>>

(* What is left of the sector when only the words outside rest, and perhaps *)
(* some of the header, were erased.                                         *)
EraseParts(rest) ==
  /\ written' = written \cap rest
  /\ head' \in {head, "blank"} /\ headLength' \in {headLength, Unwritten}
  /\ missing' = missing \cup (written \ rest)

(* Erase_Flash to its end: it erases the sector or times out.               *)
Erase(ok, rest) ==
  /\ ok \in EraseResults
  /\ IF ok THEN /\ head' = "blank" /\ headLength' = Unwritten
                /\ written' = {} /\ missing' = {}
           ELSE EraseParts(rest)

BootErase(ok, rest) ==
  /\ pc = "bootErase"
  /\ Erase(ok, rest)
  /\ LogFileSwitch' = ok
  /\ pc' = "enum"
  /\ UNCHANGED <<LogSectorOffset, LogSectorLength, aborted>>

(* hlSrioInit, in main or for key '5', logs a message with WriteLogFile.    *)
(* An odd length is rounded up to whole words.                              *)
Rounded(length) == IF length % 2 = 0 THEN length ELSE length + 1

Accepted(length) ==
  LogFileSwitch /\ LogSectorOffset + length < SectorSize /\ length # 0

(* writedata of a message: its first done bytes are programmed, all of them *)
(* if it does not time out.  The word it fails at may be programmed in part,*)
(* and counts as missing like those behind it.                              *)
WriteData(length, done) ==
  /\ \/ done = Rounded(length) /\ TRUE \in WriteResults
     \/ done < Rounded(length) /\ FALSE \in WriteResults
  /\ written' = written \cup Words(LogSectorOffset, LogSectorOffset + done)
  /\ missing' = missing \cup Words(LogSectorOffset + done, LogSectorOffset + Rounded(length))

(* Mutant: an odd length moves the offset by itself, the word after it is   *)
(* programmed all the same.                                                 *)
WriteLogFileUnrounded(length, done) ==
  /\ pc \in {"enum", "manual"}
  /\ Accepted(length)
  /\ WriteData(length, done)
  /\ LogSectorOffset' = LogSectorOffset + 2 * (length \div 2)
  /\ LogSectorLength' = LogSectorLength + Rounded(length)
  /\ UNCHANGED <<pc, head, headLength, LogFileSwitch, aborted>>

(* The offset and the length advance whatever writedata returned.           *)
WriteLogFile(length, done) ==
  /\ pc \in {"enum", "manual"}
  /\ Accepted(length)
  /\ WriteData(length, done)
  /\ LogSectorOffset' = LogSectorOffset + Rounded(length)
  /\ LogSectorLength' = LogSectorLength + Rounded(length)
  /\ UNCHANGED <<pc, head, headLength, LogFileSwitch, aborted>>

(* WriteLogFlashFinish: nothing if the log is off, else the header.         *)
EnumerationEnds ==
  /\ pc = "enum"
  /\ pc' = IF LogFileSwitch THEN "finish" ELSE "menu"
  /\ UNCHANGED <<ram, sector, aborted, missing>>

(* Programming only clears bits.  The lengths that programming new over old,*)
(* wholly or in part, may give.                                             *)
Over(old, new) == IF old \in {Unwritten, new} THEN {old, new} ELSE 0 .. old

(* A header of which the first word is there and the length in part.        *)
HeaderPart(length) == head' = "done" /\ headLength' \in Over(headLength, length)

(* writedata of a header: it fails over the length of another log, and when *)
(* it times out.                                                            *)
ProgramHeader(ok, length) ==
  IF ok
  THEN /\ TRUE \in WriteResults /\ headLength \in {Unwritten, length}
       /\ head' = "done" /\ headLength' = length
  ELSE /\ FALSE \in WriteResults \/ headLength \notin {Unwritten, length}
       /\ HeaderPart(length) \/ UNCHANGED <<head, headLength>>

(* Mutant: the length counts the header too.                                *)
FinishWithHeader(ok) ==
  /\ pc = "finish"
  /\ ProgramHeader(ok, LogSectorLength + HeadSize)
  /\ aborted' = IF head' = "done" THEN aborted ELSE written
  /\ pc' = "menu"
  /\ UNCHANGED <<ram, written, missing>>

Finish(ok) ==
  /\ pc = "finish"
  /\ ProgramHeader(ok, LogSectorLength)
  /\ aborted' = IF head' = "done" THEN aborted ELSE written
  /\ pc' = "menu"
  /\ UNCHANGED <<ram, written, missing>>

-----------------------------------------------------------------------------
(* The menu.                                                                *)

ManualEnumeration ==
  /\ pc = "menu" /\ pc' = "manual"
  /\ UNCHANGED <<ram, sector, aborted, missing>>

ManualEnds ==
  /\ pc = "manual" /\ pc' = "menu"
  /\ UNCHANGED <<ram, sector, aborted, missing>>

(* OpenLogFile: erase, whatever comes of it, and a finished header of a log *)
(* of half the sector.  The switch and the offset stay.                     *)
OpenKey ==
  /\ pc = "menu" /\ pc' = "openErase"
  /\ aborted' = {}
  /\ UNCHANGED <<ram, sector, missing>>

OpenErase(ok, rest) ==
  /\ pc = "openErase"
  /\ Erase(ok, rest)
  /\ LogSectorLength' = OpenLength
  /\ pc' = "openHeader"
  /\ UNCHANGED <<LogFileSwitch, LogSectorOffset, aborted>>

OpenHeader(ok) ==
  /\ pc = "openHeader"
  /\ ProgramHeader(ok, LogSectorLength)
  /\ pc' = "menu"
  /\ UNCHANGED <<ram, written, aborted, missing>>

(* CloseLogFile: erase; then the menu says that the log is closed.          *)
CloseKey ==
  /\ pc = "menu" /\ pc' = "closeErase"
  /\ aborted' = {}
  /\ UNCHANGED <<ram, sector, missing>>

CloseErase(ok, rest) ==
  /\ pc = "closeErase"
  /\ Erase(ok, rest)
  /\ pc' = "menu"
  /\ UNCHANGED <<ram, aborted>>

(* ReadLogInfo (key 'c'): the bytes it shows are those of the header's      *)
(* length, 65536 without a finished header, and none of the variables       *)
(* changes.  A length that does not fit the buffer with its closing zero    *)
(* runs over the stack: the program goes on, or is lost.                    *)
ShownLength == IF head = "done" THEN headLength ELSE OpenLength

ShowKey ==
  /\ pc = "menu"
  /\ pc' \in IF ShownLength < ReadBuffer THEN {"menu"} ELSE {"menu", "off"}
  /\ UNCHANGED <<ram, sector, aborted, missing>>

-----------------------------------------------------------------------------
(* Power fails.                                                             *)

(* A log in progress at boot has no header yet: it is what the operator     *)
(* will want to read.                                                       *)
Cut(newWords) ==
  aborted' = IF pc \in {"enum", "finish"} /\ LogFileSwitch THEN newWords ELSE aborted

PowerFails ==
  /\ pc # "off" /\ pc' = "off"
  /\ Cut(written)
  /\ UNCHANGED <<ram, sector, missing>>

(* In WriteLogFile: only the first words of the message are programmed.     *)
PowerFailsInLog(length, done) ==
  /\ pc \in {"enum", "manual"} /\ pc' = "off"
  /\ Accepted(length) /\ done < Rounded(length)
  /\ written' = written \cup Words(LogSectorOffset, LogSectorOffset + done)
  /\ Cut(written')
  /\ UNCHANGED <<ram, head, headLength, missing>>

(* In an erase: any part of the sector may be erased.                       *)
PowerFailsInErase(rest) ==
  /\ pc \in {"bootErase", "openErase", "closeErase"} /\ pc' = "off"
  /\ EraseParts(rest)
  /\ UNCHANGED <<ram, aborted>>

(* In the header, behind its first word.                                    *)
PowerFailsInHeader ==
  /\ pc \in {"finish", "openHeader"} /\ pc' = "off"
  /\ HeaderPart(LogSectorLength)
  /\ UNCHANGED <<ram, written, aborted, missing>>

-----------------------------------------------------------------------------
Boot ==
  \/ \E auto \in BOOLEAN : PowerOn(auto)
  \/ CheckHeader
  \/ \E ok \in BOOLEAN, rest \in SUBSET LogWords : BootErase(ok, rest)
  \/ \E length \in LogLengths : \E done \in 0 .. Rounded(length) : WriteLogFile(length, done)
  \/ EnumerationEnds
  \/ \E ok \in BOOLEAN : Finish(ok)

Menu ==
  \/ ManualEnumeration
  \/ ManualEnds
  \/ OpenKey
  \/ \E ok \in BOOLEAN, rest \in SUBSET LogWords : OpenErase(ok, rest)
  \/ \E ok \in BOOLEAN : OpenHeader(ok)
  \/ CloseKey
  \/ \E ok \in BOOLEAN, rest \in SUBSET LogWords : CloseErase(ok, rest)
  \/ ShowKey

Power ==
  \/ PowerFails
  \/ \E length \in LogLengths : \E done \in 0 .. length : PowerFailsInLog(length, done)
  \/ \E rest \in SUBSET LogWords : PowerFailsInErase(rest)
  \/ PowerFailsInHeader

Next == Boot \/ Menu \/ Power
Spec == Init /\ [][Next]_vars

-----------------------------------------------------------------------------
(* The words ReadLogInfo prints.                                            *)
ShownWords == Words(HeadSize, HeadSize + ShownLength)

Steps == {"off", "check", "bootErase", "enum", "finish", "menu", "manual",
          "openErase", "openHeader", "closeErase"}

TypeOK ==
  /\ pc \in Steps
  /\ head \in {"blank", "done"} /\ headLength \in Nat
  /\ written \subseteq LogWords
  /\ LogFileSwitch \in BOOLEAN
  /\ LogSectorOffset \in HeadSize .. SectorSize /\ LogSectorOffset % 2 = 0
  /\ LogSectorLength \in Nat
  /\ aborted \subseteq LogWords /\ missing \subseteq LogWords

(* The program runs (its variables have a meaning).                         *)
Running == pc # "off"

(* NOR flash can only clear bits: a word is programmed once between two     *)
(* erases.  While the log is on, it ends within its sector, everything from *)
(* m_LogSectorOffset up is erased, and so are the words of the header that  *)
(* WriteLogFlashFinish is about to write, over any sequence of restarts,    *)
(* menu keys, failed writes and failed erases.                              *)
NeverProgrammedTwice ==
  Running /\ LogFileSwitch =>
    /\ LogSectorOffset <= SectorSize
    /\ \A w \in written : w < LogSectorOffset
    /\ pc \in {"enum", "finish"} => head = "blank" /\ headLength = Unwritten

(* The point of the header (flash.c:218, "the log was not finished"): the   *)
(* log of an enumeration that lost power, or whose header was not written,  *)
(* survives every restart, cut or not, until the operator opens or closes   *)
(* the log.                                                                 *)
AbortedLogKept == aborted \subseteq written

(* What 'c' shows under a finished header, with a length its buffer takes,  *)
(* was programmed as a part of the log, except the words that a failed      *)
(* write skipped (WriteLogFile counts them all the same) or an erase took   *)
(* that was not completed: after any restarts, menu keys and headers torn   *)
(* by a power failure, or programmed by 'C' over the header of a log that   *)
(* was not erased.                                                          *)
ShownIsLogged ==
  head = "done" /\ headLength < ReadBuffer => ShownWords \subseteq written \cup missing

(* The inductive invariant: a log in progress covers the words from the     *)
(* header to the offset and its length is theirs (the statics are as main   *)
(* found them until then), and so does any length in the header that is     *)
(* neither erased nor that of 'C'; an aborted log lies under a blank header,*)
(* which is never erased at boot.                                           *)
Logged(to) == Words(HeadSize, to) \subseteq written \cup missing

LogInProgress ==
  /\ pc \in {"check", "bootErase"} => LogSectorOffset = HeadSize /\ LogSectorLength = 0
  /\ pc \in {"enum", "finish"} /\ LogFileSwitch =>
       /\ LogSectorLength = LogSectorOffset - HeadSize
       /\ Logged(LogSectorOffset)

HeaderOfALog == headLength \in {Unwritten, OpenLength} \/ Logged(HeadSize + headLength)

AbortedUnderBlank ==
  /\ aborted # {} => head = "blank"
  /\ pc = "bootErase" => head # "blank"
  /\ pc \in {"openErase", "openHeader", "closeErase"} => aborted = {}
  /\ pc \in {"enum", "finish"} /\ LogFileSwitch => aborted = {}
  /\ pc = "finish" => LogFileSwitch
  /\ pc \in {"check", "bootErase"} => ~ LogFileSwitch
  /\ pc = "openHeader" => LogSectorLength = OpenLength

IInv ==
  /\ TypeOK
  /\ NeverProgrammedTwice
  /\ AbortedLogKept
  /\ LogInProgress
  /\ HeaderOfALog
  /\ AbortedUnderBlank
=============================================================================
