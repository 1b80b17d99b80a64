------------------------------ MODULE IpTable -------------------------------
(***************************************************************************)
(* FindFromIPFile and TokeIP (udp_net.c): the address of a board, from a   *)
(* file of lines <cabinet chassis slot address>, or by rule.               *)
(*                                                                         *)
(* A column is the sequence of the numbers between its dots: strtol takes  *)
(* the first one for a number, TokeIP takes them all.  A column that is    *)
(* not a number counts as 0.  A line is what one fgets returns, at most 49 *)
(* characters.                                                             *)
(***************************************************************************)
EXTENDS Integers, Sequences

CONSTANTS
  Files,  \* contents of the file: sequences of lines, or NoFile
  NoFile, \* there is no file
  Boards, \* <<cabinet, chassis, slot>> that are asked for
  Junk    \* what a byte may hold that was never written

ASSUME BoardsAssumption == Boards \subseteq (0 .. 255) \X (0 .. 255) \X (0 .. 255)
ASSUME JunkAssumption   == Junk \in 0 .. 255
ASSUME FilesAssumption  == Files \subseteq {NoFile} \cup Seq(Seq(Seq(Int) \ {<<>>}))

VARIABLES
  file,    \* the content of ipAddrFile.txt
  board,   \* cabinet, chassis and slot asked for
  line,    \* lines read so far
  _m,      \* _mcabinet, _mchassis, _mslot
  ipArray, \* the address, as far as it is written
  result   \* what FindFromIPFile returns, "reading" before

lookUpVars == <<file, board, line, _m, ipArray, result>>

Byte(n)   == n % 256
LineCount == IF file = NoFile THEN 0 ELSE Len(file)

LookUpInit ==
  /\ file \in Files
  /\ board \in Boards
  /\ line = 0
  /\ _m = [i \in 1 .. 3 |-> Junk]
  /\ ipArray = [i \in 1 .. 4 |-> Junk]
  /\ result = "reading"

(* Cabinet, chassis and slot that are accepted: slot 0 is one of them.      *)
Accepted(b) == b[1] < 16 /\ b[2] < 16 /\ b[3] < 17

(* Mutant: a cabinet has fifteen chassis.                                   *)
DefaultFifteen(b) == <<192, 168, b[1] * 15 + b[2], Byte(b[3] * 16 + 256 - 15)>>

(* The address by rule, in C arithmetic: 1 + (slot - 1) * 16 of an unsigned *)
(* char.                                                                    *)
Default(b) == <<192, 168, b[1] * 16 + b[2], Byte(b[3] * 16 + 256 - 15)>>

(* TokeIP stores as many bytes as the address has fields.  It does not stop *)
(* at four: a fifth is written past ipArray (udp_net.c:239-245), which is   *)
(* undefined, and left out here; WellFormed lines have four.                *)
TokeIP(column, array) ==
  [i \in 1 .. 4 |-> IF i <= Len(column) THEN Byte(column[i]) ELSE array[i]]

RefuseArguments ==
  /\ result = "reading" /\ line = 0
  /\ ~Accepted(board)
  /\ result' = "refused"
  /\ UNCHANGED <<file, board, line, _m, ipArray>>

(* The first line names the columns.                                        *)
ReadHeader ==
  /\ result = "reading" /\ Accepted(board)
  /\ line = 0 /\ line < LineCount
  /\ line' = 1
  /\ UNCHANGED <<file, board, _m, ipArray, result>>

(* Mutant: the comparison forgets the chassis.                              *)
ReadLineAnyChassis ==
  /\ result = "reading"
  /\ line > 0 /\ line < LineCount
  /\ line' = line + 1
  /\ LET l == file[line + 1]
         m == [i \in 1 .. 3 |-> IF i <= Len(l) THEN Byte(l[i][1]) ELSE _m[i]]
     IN  /\ _m' = m
         /\ ipArray' = IF Len(l) >= 4 THEN TokeIP(l[4], ipArray) ELSE ipArray
         /\ result' = IF Len(l) >= 4 /\ m[1] = board[1] /\ m[3] = board[3]
                      THEN "found" ELSE "reading"
  /\ UNCHANGED <<file, board>>

(* Columns 1 to 3 are numbers, column 4 is an address; there the board is   *)
(* compared.  strtok has only one position: TokeIP leaves it at the end of  *)
(* the fourth column, and the line is done.                                 *)
ReadLine ==
  /\ result = "reading"
  /\ line > 0 /\ line < LineCount
  /\ line' = line + 1
  /\ LET l == file[line + 1]
         m == [i \in 1 .. 3 |-> IF i <= Len(l) THEN Byte(l[i][1]) ELSE _m[i]]
     IN  /\ _m' = m
         /\ ipArray' = IF Len(l) >= 4 THEN TokeIP(l[4], ipArray) ELSE ipArray
         /\ result' = IF Len(l) >= 4 /\ \A i \in 1 .. 3 : m[i] = board[i]
                      THEN "found" ELSE "reading"
  /\ UNCHANGED <<file, board>>

(* No file, or its end: the default.                                        *)
UseDefault ==
  /\ result = "reading" /\ Accepted(board)
  /\ line >= LineCount
  /\ ipArray' = Default(board)
  /\ result' = "default"
  /\ UNCHANGED <<file, board, line, _m>>

LookUpNext == RefuseArguments \/ ReadHeader \/ ReadLine \/ UseDefault
LookUpSpec == LookUpInit /\ [][LookUpNext]_lookUpVars

-----------------------------------------------------------------------------

(* Line l, below the header, is an entry for board b.                       *)
Names(l, b) == Len(l) >= 4 /\ \A i \in 1 .. 3 : l[i][1] = b[i]
Entries(b)  == {k \in 2 .. LineCount : Names(file[k], b)}

(* All numbers of the file are bytes, and all addresses have four fields.   *)
WellFormed ==
  \A k \in 2 .. LineCount :
    /\ \A i \in 1 .. Len(file[k]) : \A j \in 1 .. Len(file[k][i]) : file[k][i][j] \in 0 .. 255
    /\ Len(file[k]) >= 4 => Len(file[k][4]) = 4

(* What the scan finds is the address of the first entry for the board,     *)
(* whole and untouched by other lines, lines that are too short or lines    *)
(* that share columns with it; without an entry it is the address by rule   *)
(* (udp_net.c:275-319).                                                     *)
LookUpCorrect ==
  WellFormed =>
    /\ result = "found" =>
         /\ line \in Entries(board) /\ \A k \in Entries(board) : line <= k
         /\ ipArray = file[line][4]
    /\ result = "default" => Entries(board) = {} /\ ipArray = Default(board)

(* A board that uses the address by rule shares it with no other board of   *)
(* the documented cabinets, chassis and slots (line 248).  Slot 0, which is *)
(* not documented and not refused either (line 262), always does: its       *)
(* address is that of slot 16.                                              *)
Documented == (0 .. 15) \X (0 .. 15) \X (1 .. 16)
Shared     == \E b \in Documented : b # board /\ Default(b) = ipArray

DefaultIsOwn == result = "default" => (Shared <=> board[3] = 0)
=============================================================================
