------------------------------ MODULE UartMenu ------------------------------
(***************************************************************************)
(* The serial menu (uartMenu.c): SlectUartMenu reads one character at a    *)
(* time, runs the viewing commands at once, and runs the configuration     *)
(* commands only in the configuration state, which isValidLabel opens when *)
(* the operator has typed 'enter'.                                         *)
(*                                                                         *)
(* The commands themselves are named, not modelled: they belong to the     *)
(* modules of the components they act on.                                  *)
(***************************************************************************)
EXTENDS Integers, Sequences

CONSTANT Keys     \* the characters the operator types

Star  == "*"
Label == <<"e", "n", "t", "e", "r">>

(* The keys SlectUartMenu dispatches on, and the function each one calls.   *)
ViewKeys   == {"1", "2", "3", "d", "CR", "LF"}
ConfigKeys == {"4", "5", "6", "7", "8", "9", "a", "0", "c", "C", "D", "B", "b",
               "r", "t", "f", "s", "w", "l", "p"}

VARIABLES
  precRecvData,   \* the five characters of _precRecvData
  curIndex,       \* where the next character goes
  flag,           \* TRUE in the configuration state
  viewed,         \* viewing key whose function the last character called, or "none"
  ran,            \* configuration key whose function it called, or "none"
  typed           \* history: the last five characters but stars that were typed in
                  \*   the viewing state

vars == <<precRecvData, curIndex, flag, viewed, ran, typed>>

Empty == [i \in 0 .. 4 |-> Star]

Init ==
  /\ precRecvData = Empty
  /\ curIndex = 0
  /\ flag = FALSE
  /\ viewed = "none" /\ ran = "none"
  /\ typed = Empty

-----------------------------------------------------------------------------
(* isValidLabel.                                                            *)

(* How many leading characters of the buffer agree with the label: the      *)
(* depth the nested conditions reach.                                       *)
Agrees(b, k) == \A j \in 0 .. 4 : j < k => b[j] = Label[j + 1]
Depth(b) ==
  CHOOSE k \in 0 .. 5 : Agrees(b, k) /\ (k < 5 => b[k] # Label[k + 1])

(* The buffer after the character is stored.                                *)
Stored(c) == [precRecvData EXCEPT ![curIndex] = c]

IsValidLabel(c) == Depth(Stored(c)) = 5

(* Mutant: a wrong character erases itself, not what came before it.        *)
MatchStepWaits(c) ==
  LET b == Stored(c)
      k == Depth(b)
  IN  /\ precRecvData' = IF k = 5 THEN Empty ELSE [b EXCEPT ![k] = Star]
      /\ curIndex' = IF k = 5 THEN 0 ELSE k

(* The whole label: start over.  A star where the label goes on: wait there *)
(* (at depth 0 curIndex is not assigned).  Anything else: start over, with  *)
(* the characters read so far erased.                                       *)
MatchStep(c) ==
  LET b == Stored(c)
      k == Depth(b)
  IN  \/ /\ k = 5
         /\ precRecvData' = Empty
         /\ curIndex' = 0
      \/ /\ k < 5 /\ b[k] = Star
         /\ precRecvData' = b
         /\ curIndex' = IF k = 0 THEN curIndex ELSE k
      \/ /\ k < 5 /\ b[k] # Star
         /\ precRecvData' = [i \in 0 .. 4 |-> IF i <= k THEN Star ELSE b[i]]
         /\ curIndex' = 0

-----------------------------------------------------------------------------
(* One round of the loop of SlectUartMenu.                                  *)

View(c) == viewed' = IF c \in ViewKeys THEN c ELSE "none"

Shifted(c) ==
  IF c = Star THEN typed ELSE [i \in 0 .. 4 |-> IF i < 4 THEN typed[i + 1] ELSE c]

(* Viewing state, label not complete.                                       *)
KeyLocked(c) ==
  /\ ~ flag /\ ~ IsValidLabel(c)
  /\ View(c)
  /\ MatchStep(c)
  /\ ran' = "none"
  /\ typed' = Shifted(c)
  /\ UNCHANGED flag

(* Mutant: without the continue the letter runs its command.                *)
KeyUnlocksAndRuns(c) ==
  /\ ~ flag /\ IsValidLabel(c)
  /\ View(c)
  /\ MatchStep(c)
  /\ flag' = TRUE
  /\ ran' = IF c \in ConfigKeys THEN c ELSE "none"
  /\ typed' = Shifted(c)

(* Viewing state, last letter of the label: the round ends with the         *)
(* continue, so the letter is not dispatched as a command.                  *)
KeyUnlocks(c) ==
  /\ ~ flag /\ IsValidLabel(c)
  /\ View(c)
  /\ MatchStep(c)
  /\ flag' = TRUE
  /\ ran' = "none"
  /\ typed' = Shifted(c)

(* Configuration state: 'Q' leaves it, the other keys are dispatched.       *)
KeyUnlocked(c) ==
  /\ flag
  /\ View(c)
  /\ flag' = (c # "Q")
  /\ ran' = IF c \in ConfigKeys THEN c ELSE "none"
  /\ typed' = IF c = "Q" THEN Empty ELSE typed
  /\ UNCHANGED <<precRecvData, curIndex>>

Next == \E c \in Keys : KeyLocked(c) \/ KeyUnlocks(c) \/ KeyUnlocked(c)

Spec == Init /\ [][Next]_vars

-----------------------------------------------------------------------------
(* Properties.                                                              *)

TypeOK ==
  /\ precRecvData \in [0 .. 4 -> Keys \cup {Star}]
  /\ curIndex \in 0 .. 4
  /\ flag \in BOOLEAN
  /\ viewed \in ViewKeys \cup {"none"}
  /\ ran \in ConfigKeys \cup {"none"}
  /\ typed \in [0 .. 4 -> Keys \cup {Star}]

(* The buffer is a prefix of the label followed by stars, and curIndex is   *)
(* where the stars begin: the partial erasures of isValidLabel (line 123    *)
(* clears four cells, 133 three, 142 two) leave nothing behind.             *)
BufferIsPrefix ==
  \A i \in 0 .. 4 : precRecvData[i] = IF i < curIndex THEN Label[i + 1] ELSE Star

(* Nobody is in the configuration state who has not typed the label, letter *)
(* after letter, since the viewing state was entered: the nested conditions *)
(* erase what came before a wrong character (lines 111 to 151), so letters  *)
(* on both sides of it never add up.  Stars alone may come in between: the  *)
(* matcher takes them for cells that are still empty (line 108).            *)
LabelWasTyped == flag => \A i \in 0 .. 4 : typed[i] = Label[i + 1]

(* The menu is the lock of MenuLock: the five cells and their nested        *)
(* conditions count letters, no configuration command runs unless the lock  *)
(* was open before its key was read, and the 'r' that ends the label never  *)
(* repairs ports (the continue of line 211).                                *)
Lock ==
  INSTANCE MenuLock WITH
    Word <- Label, Blank <- Star, pos <- curIndex, config <- flag

ImplementsLock == Lock!Spec
=============================================================================
