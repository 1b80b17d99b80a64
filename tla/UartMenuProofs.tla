--------------------------- MODULE UartMenuProofs ---------------------------
(***************************************************************************)
(* Theorems about UartMenu, for every set of characters.                   *)
(***************************************************************************)
EXTENDS UartMenu, TLAPS

(* The letters of the label, none of which is the star.                     *)
LEMMA LabelLetters ==
  /\ Label[1] = "e" /\ Label[2] = "n" /\ Label[3] = "t" /\ Label[4] = "e" /\ Label[5] = "r"
  /\ Len(Label) = 5
  /\ \A j \in 0 .. 4 : Label[j + 1] # Star
<1>1. /\ Label[1] = "e" /\ Label[2] = "n" /\ Label[3] = "t" /\ Label[4] = "e"
      /\ Label[5] = "r" /\ Len(Label) = 5
  BY DEF Label
<1>2. ASSUME NEW j \in 0 .. 4
      PROVE  Label[j + 1] # Star
  <2>1. j + 1 \in {1, 2, 3, 4, 5}
    OBVIOUS
  <2> QED
    BY <1>1, <2>1 DEF Star
<1> QED
  BY <1>1, <1>2

(* The depth of a buffer is the only number with its defining property.     *)
LEMMA DepthUnique ==
  ASSUME NEW b, NEW k \in 0 .. 5, Agrees(b, k), k < 5 => b[k] # Label[k + 1]
  PROVE  Depth(b) = k
<1>1. \A m \in 0 .. 5 : Agrees(b, m) /\ (m < 5 => b[m] # Label[m + 1]) => m = k
  <2> SUFFICES ASSUME NEW m \in 0 .. 5, Agrees(b, m), m < 5 => b[m] # Label[m + 1]
               PROVE  m = k
    OBVIOUS
  <2>1. ~ (m < k)
    BY DEF Agrees
  <2>2. ~ (k < m)
    BY DEF Agrees
  <2> QED
    BY <2>1, <2>2
<1> QED
  BY <1>1 DEF Depth

(* What isValidLabel finds when a character arrives at a prefix.            *)
LEMMA DepthStored ==
  ASSUME NEW c \in Keys, TypeOK, BufferIsPrefix
  PROVE  Depth(Stored(c)) = IF c = Label[curIndex + 1] THEN curIndex + 1 ELSE curIndex
<1> DEFINE b == Stored(c)
<1>1. b[curIndex] = c /\ \A j \in 0 .. 4 : j # curIndex => b[j] = precRecvData[j]
  BY DEF Stored, TypeOK
<1>2. curIndex \in 0 .. 4
  BY DEF TypeOK
<1>3. CASE c = Label[curIndex + 1]
  <2>1. Agrees(b, curIndex + 1)
    BY <1>1, <1>2, <1>3 DEF Agrees, BufferIsPrefix
  <2>2. curIndex + 1 < 5 => b[curIndex + 1] # Label[(curIndex + 1) + 1]
    <3> SUFFICES ASSUME curIndex + 1 < 5
                 PROVE  b[curIndex + 1] # Label[(curIndex + 1) + 1]
      OBVIOUS
    <3>1. curIndex + 1 \in 0 .. 4 /\ curIndex + 1 # curIndex /\ ~ (curIndex + 1 < curIndex)
      BY <1>2
    <3>2. b[curIndex + 1] = Star
      BY <1>1, <3>1 DEF BufferIsPrefix
    <3> QED
      BY <3>1, <3>2, LabelLetters
  <2>3. curIndex + 1 \in 0 .. 5
    BY <1>2
  <2>4. Depth(b) = curIndex + 1
    BY <2>1, <2>2, <2>3, DepthUnique
  <2> QED
    BY <1>3, <2>4
<1>4. CASE c # Label[curIndex + 1]
  <2>1. Agrees(b, curIndex)
    BY <1>1, <1>2 DEF Agrees, BufferIsPrefix
  <2>2. Depth(b) = curIndex
    BY <1>1, <1>2, <1>4, <2>1, DepthUnique
  <2> QED
    BY <1>4, <2>2
<1> QED
  BY <1>3, <1>4

(* So a step of the matcher moves curIndex as a counter of letters, and     *)
(* leaves a prefix behind.                                                  *)
LEMMA MatchCounts ==
  ASSUME NEW c \in Keys, TypeOK, BufferIsPrefix, MatchStep(c)
  PROVE  /\ curIndex' = IF c = Label[curIndex + 1] /\ curIndex < 4 THEN curIndex + 1
                         ELSE IF c = Star THEN curIndex ELSE 0
         /\ precRecvData' \in [0 .. 4 -> Keys \cup {Star}]
         /\ BufferIsPrefix'
<1> DEFINE b == Stored(c)
           k == Depth(b)
<1>1. curIndex \in 0 .. 4 /\ Label[curIndex + 1] # Star
  BY LabelLetters DEF TypeOK
<1>2. /\ b \in [0 .. 4 -> Keys \cup {Star}]
      /\ b[curIndex] = c
      /\ \A j \in 0 .. 4 : j # curIndex =>
           b[j] = IF j < curIndex THEN Label[j + 1] ELSE Star
  BY DEF Stored, TypeOK, BufferIsPrefix
<1>3. CASE c = Label[curIndex + 1] /\ curIndex < 4
  <2>1. k = curIndex + 1 /\ k < 5 /\ k \in 0 .. 4 /\ k # 0
    BY <1>1, <1>3, DepthStored
  <2>2. b[k] = Star
    BY <1>1, <1>2, <2>1
  <2>3. precRecvData' = b /\ curIndex' = k
    BY <2>1, <2>2 DEF MatchStep
  <2>4. BufferIsPrefix'
    BY <1>1, <1>2, <1>3, <2>1, <2>3 DEF BufferIsPrefix
  <2> QED
    BY <1>2, <1>3, <2>1, <2>3, <2>4
<1>4. CASE c = Label[curIndex + 1] /\ ~ (curIndex < 4)
  <2>1. k = 5 /\ curIndex = 4
    BY <1>1, <1>4, DepthStored
  <2>2. precRecvData' = Empty /\ curIndex' = 0
    BY <2>1 DEF MatchStep
  <2>3. BufferIsPrefix'
    BY <2>2 DEF BufferIsPrefix, Empty
  <2> QED
    BY <1>1, <1>4, <2>2, <2>3 DEF Empty
<1>5. CASE c # Label[curIndex + 1] /\ c = Star
  <2>1. k = curIndex /\ k < 5 /\ b[k] = Star
    BY <1>1, <1>2, <1>5, DepthStored
  <2>2. precRecvData' = b /\ curIndex' = curIndex
    BY <2>1 DEF MatchStep
  <2>3. BufferIsPrefix'
    BY <1>1, <1>2, <1>5, <2>2 DEF BufferIsPrefix
  <2> QED
    BY <1>2, <1>5, <2>2, <2>3
<1>6. CASE c # Label[curIndex + 1] /\ c # Star
  <2>1. k = curIndex /\ k < 5 /\ b[k] # Star
    BY <1>1, <1>2, <1>6, DepthStored
  <2>2. /\ precRecvData' = [i \in 0 .. 4 |-> IF i <= k THEN Star ELSE b[i]]
        /\ curIndex' = 0
    BY <2>1 DEF MatchStep
  <2>3. \A i \in 0 .. 4 : precRecvData'[i] = Star
    BY <1>1, <1>2, <2>1, <2>2
  <2>4. BufferIsPrefix'
    BY <2>2, <2>3 DEF BufferIsPrefix
  <2>5. precRecvData' \in [0 .. 4 -> Keys \cup {Star}]
    BY <1>2, <2>2
  <2> QED
    BY <1>6, <2>2, <2>4, <2>5
<1> QED
  BY <1>3, <1>4, <1>5, <1>6

LEMMA MenuInit ==
  ASSUME Init
  PROVE  TypeOK /\ BufferIsPrefix
<1>1. TypeOK
  <2>1. precRecvData \in [0 .. 4 -> Keys \cup {Star}]
    BY DEF Init, Empty
  <2>2. curIndex \in 0 .. 4
    BY DEF Init
  <2>3. flag \in BOOLEAN /\ viewed \in ViewKeys \cup {"none"} /\ ran \in ConfigKeys \cup {"none"}
    BY Zenon DEF Init
  <2>4. typed \in [0 .. 4 -> Keys \cup {Star}]
    BY DEF Init, Empty
  <2> QED
    BY <2>1, <2>2, <2>3, <2>4 DEF TypeOK
<1>2. \A i \in 0 .. 4 : ~ (i < 0) /\ Empty[i] = Star
  BY DEF Empty
<1>3. BufferIsPrefix
  BY <1>2 DEF Init, BufferIsPrefix
<1> QED
  BY <1>1, <1>3

(* The window of typed characters keeps its shape.                          *)
LEMMA TypedStays ==
  ASSUME TypeOK, NEW c \in Keys
  PROVE  Shifted(c) \in [0 .. 4 -> Keys \cup {Star}]
<1>1. typed \in [0 .. 4 -> Keys \cup {Star}] /\ \A i \in 0 .. 4 : i < 4 => i + 1 \in 0 .. 4
  BY DEF TypeOK
<1> QED
  BY <1>1 DEF Shifted

LEMMA MenuStep ==
  ASSUME TypeOK, BufferIsPrefix, [Next]_vars
  PROVE  TypeOK' /\ BufferIsPrefix'
<1>1. ASSUME NEW c \in Keys, MatchStep(c)
      PROVE  /\ curIndex' \in 0 .. 4
             /\ precRecvData' \in [0 .. 4 -> Keys \cup {Star}]
             /\ BufferIsPrefix'
  BY <1>1, MatchCounts DEF TypeOK
<1>2. ASSUME NEW c \in Keys, KeyLocked(c)
      PROVE  TypeOK' /\ BufferIsPrefix'
  BY <1>1, <1>2, TypedStays DEF KeyLocked, View, TypeOK
<1>3. ASSUME NEW c \in Keys, KeyUnlocks(c)
      PROVE  TypeOK' /\ BufferIsPrefix'
  BY <1>1, <1>3, TypedStays DEF KeyUnlocks, View, TypeOK
<1>4. ASSUME NEW c \in Keys, KeyUnlocked(c)
      PROVE  TypeOK' /\ BufferIsPrefix'
  <2>1. typed' \in [0 .. 4 -> Keys \cup {Star}]
    BY <1>4 DEF KeyUnlocked, TypeOK, Empty
  <2> QED
    BY <1>4, <2>1 DEF KeyUnlocked, View, TypeOK, BufferIsPrefix
<1>5. CASE UNCHANGED vars
  BY <1>5 DEF vars, TypeOK, BufferIsPrefix
<1> QED
  BY <1>2, <1>3, <1>4, <1>5 DEF Next

(* _precRecvData always holds a prefix of the label and curIndex its        *)
(* length, whatever is typed.                                               *)
THEOREM BufferCorrect == Spec => [](TypeOK /\ BufferIsPrefix)
<1>1. Init => TypeOK /\ BufferIsPrefix
  BY MenuInit
<1>2. (TypeOK /\ BufferIsPrefix) /\ [Next]_vars => (TypeOK /\ BufferIsPrefix)'
  BY MenuStep
<1> QED
  BY <1>1, <1>2, PTL DEF Spec

(* The type invariant by itself.                                            *)
THEOREM MenuTypeCorrect == Spec => []TypeOK
BY BufferCorrect, PTL

(* The letters counted by curIndex are the last that were typed, and the    *)
(* configuration state is entered with none.                                *)
Remembered ==
  /\ LabelWasTyped
  /\ flag => curIndex = 0
  /\ ~ flag => \A i \in 0 .. 4 : i < curIndex => typed[5 - curIndex + i] = Label[i + 1]

LEMMA RememberedInit ==
  ASSUME Init
  PROVE  Remembered
BY DEF Init, Remembered, LabelWasTyped

LEMMA RememberedStep ==
  ASSUME TypeOK, BufferIsPrefix, Remembered, [Next]_vars
  PROVE  Remembered'
<1>1. curIndex \in 0 .. 4 /\ Label[curIndex + 1] # Star
  BY LabelLetters DEF TypeOK
<1>2. ASSUME NEW c \in Keys
      PROVE  IsValidLabel(c) <=> (c = Label[curIndex + 1] /\ curIndex = 4)
  BY <1>1, DepthStored DEF IsValidLabel
<1>3. ASSUME NEW c \in Keys, c # Star
      PROVE  \A i \in 0 .. 4 : Shifted(c)[i] = IF i < 4 THEN typed[i + 1] ELSE c
  BY <1>3 DEF Shifted
<1>4. ASSUME NEW c \in Keys, KeyLocked(c)
      PROVE  Remembered'
  <2>1. /\ ~ flag /\ flag' = FALSE /\ typed' = Shifted(c) /\ MatchStep(c)
        /\ ~ (c = Label[curIndex + 1] /\ curIndex = 4)
    BY <1>2, <1>4 DEF KeyLocked, TypeOK
  <2>2. curIndex' = IF c = Label[curIndex + 1] /\ curIndex < 4 THEN curIndex + 1
                    ELSE IF c = Star THEN curIndex ELSE 0
    BY <2>1, MatchCounts
  <2>3. \A i \in 0 .. 4 : i < curIndex => typed[5 - curIndex + i] = Label[i + 1]
    BY <2>1 DEF Remembered
  <2>4. \A i \in 0 .. 4 : i < curIndex' => typed'[5 - curIndex' + i] = Label[i + 1]
    <3>1. CASE c = Label[curIndex + 1]
      <4>1. curIndex < 4 /\ curIndex' = curIndex + 1 /\ c # Star
        BY <1>1, <2>1, <2>2, <3>1
      <4>2. ASSUME NEW i \in 0 .. 4, i < curIndex + 1
            PROVE  Shifted(c)[5 - (curIndex + 1) + i] = Label[i + 1]
        <5>1. CASE i = curIndex
          BY <1>1, <1>3, <3>1, <4>1, <5>1
        <5>2. CASE i < curIndex
          <6>1. 5 - (curIndex + 1) + i \in 0 .. 4 /\ 5 - (curIndex + 1) + i < 4
                /\ (5 - (curIndex + 1) + i) + 1 = 5 - curIndex + i
            BY <1>1, <5>2
          <6> QED
            BY <1>3, <2>3, <4>1, <5>2, <6>1
        <5> QED
          BY <1>1, <4>2, <5>1, <5>2
      <4> QED
        BY <2>1, <4>1, <4>2
    <3>2. CASE c # Label[curIndex + 1] /\ c = Star
      BY <2>1, <2>2, <2>3, <3>2 DEF Shifted
    <3>3. CASE c # Label[curIndex + 1] /\ c # Star
      BY <2>2, <3>3
    <3> QED
      BY <3>1, <3>2, <3>3
  <2> QED
    BY <2>1, <2>4 DEF Remembered, LabelWasTyped
<1>5. ASSUME NEW c \in Keys, KeyUnlocks(c)
      PROVE  Remembered'
  <2>1. /\ ~ flag /\ flag' = TRUE /\ typed' = Shifted(c) /\ MatchStep(c)
        /\ c = Label[curIndex + 1] /\ curIndex = 4
    BY <1>2, <1>5 DEF KeyUnlocks
  <2>2. c # Star /\ curIndex' = 0
    BY <1>1, <2>1, MatchCounts
  <2>3. \A i \in 0 .. 4 : typed'[i] = Label[i + 1]
    <3>1. \A i \in 0 .. 4 : i < 4 => typed[i + 1] = Label[i + 1]
      BY <2>1 DEF Remembered
    <3> QED
      BY <1>3, <2>1, <2>2, <3>1
  <2> QED
    BY <2>1, <2>2, <2>3 DEF Remembered, LabelWasTyped
<1>6. ASSUME NEW c \in Keys, KeyUnlocked(c)
      PROVE  Remembered'
  <2>1. /\ flag /\ curIndex' = 0 /\ flag' = (c # "Q")
        /\ typed' = IF c = "Q" THEN Empty ELSE typed
    BY <1>6 DEF KeyUnlocked, Remembered
  <2>2. flag' => \A i \in 0 .. 4 : typed'[i] = Label[i + 1]
    BY <2>1 DEF Remembered, LabelWasTyped
  <2> QED
    BY <2>1, <2>2 DEF Remembered, LabelWasTyped
<1>7. CASE UNCHANGED vars
  BY <1>7 DEF vars, Remembered, LabelWasTyped
<1> QED
  BY <1>4, <1>5, <1>6, <1>7 DEF Next

(* The configuration state is open only to those who typed the label.       *)
THEOREM LabelCorrect == Spec => []LabelWasTyped
<1>1. Init => Remembered
  BY RememberedInit
<1>2. (TypeOK /\ BufferIsPrefix) /\ Remembered /\ [Next]_vars => Remembered'
  BY RememberedStep
<1>3. Remembered => LabelWasTyped
  BY DEF Remembered
<1> QED
  BY <1>1, <1>2, <1>3, BufferCorrect, PTL DEF Spec

(* Every round of the menu is a step of the lock.                           *)
LEMMA LockStep ==
  ASSUME TypeOK, BufferIsPrefix, [Next]_vars
  PROVE  [Lock!Next]_(Lock!vars)
<1>1. curIndex \in 0 .. 4 /\ Label[curIndex + 1] # Star /\ Len(Label) = 5
  BY LabelLetters DEF TypeOK
<1>2. ASSUME NEW c \in Keys
      PROVE  IsValidLabel(c) <=> (c = Label[curIndex + 1] /\ curIndex = 4)
  BY <1>1, DepthStored DEF IsValidLabel
<1>3. ASSUME NEW c \in Keys, KeyLocked(c)
      PROVE  Lock!Next
  <2>1. /\ ~ flag /\ flag' = flag /\ ran' = "none" /\ MatchStep(c)
        /\ ~ (c = Label[curIndex + 1] /\ curIndex = 4)
    BY <1>2, <1>3 DEF KeyLocked
  <2>2. curIndex' = IF c = Label[curIndex + 1] /\ curIndex < 4 THEN curIndex + 1
                    ELSE IF c = Star THEN curIndex ELSE 0
    BY <2>1, MatchCounts
  <2>3. CASE c = Label[curIndex + 1]
    <3>1. curIndex < 4 /\ curIndex' = curIndex + 1
      BY <1>1, <2>1, <2>2, <2>3
    <3>2. Lock!Advance(c)
      BY <1>1, <2>1, <2>3, <3>1 DEF Lock!Advance
    <3> QED
      BY <3>2 DEF Lock!Next
  <2>4. CASE c # Label[curIndex + 1] /\ c = Star
    <3>1. curIndex' = curIndex
      BY <2>2, <2>4
    <3>2. Lock!Skip(c)
      BY <2>1, <2>4, <3>1 DEF Lock!Skip
    <3> QED
      BY <3>2 DEF Lock!Next
  <2>5. CASE c # Label[curIndex + 1] /\ c # Star
    <3>1. curIndex' = 0
      BY <2>2, <2>5
    <3>2. Lock!Restart(c)
      BY <2>1, <2>5, <3>1 DEF Lock!Restart
    <3> QED
      BY <3>2 DEF Lock!Next
  <2> QED
    BY <2>3, <2>4, <2>5
<1>4. ASSUME NEW c \in Keys, KeyUnlocks(c)
      PROVE  Lock!Next
  <2>1. /\ ~ flag /\ flag' = TRUE /\ ran' = "none" /\ MatchStep(c)
        /\ c = Label[curIndex + 1] /\ curIndex = 4
    BY <1>2, <1>4 DEF KeyUnlocks
  <2>2. curIndex' = 0
    <3>1. c # Star /\ ~ (curIndex < 4)
      BY <1>1, <2>1
    <3> QED
      BY <2>1, <3>1, MatchCounts
  <2>3. Lock!Unlock(c)
    BY <1>1, <2>1, <2>2 DEF Lock!Unlock
  <2> QED
    BY <2>3 DEF Lock!Next
<1>5. ASSUME NEW c \in Keys, KeyUnlocked(c)
      PROVE  Lock!Next
  <2>1. /\ flag /\ flag' = (c # "Q") /\ curIndex' = curIndex
        /\ ran' = IF c \in ConfigKeys THEN c ELSE "none"
    BY <1>5 DEF KeyUnlocked
  <2>2. "Q" \notin ConfigKeys
    BY DEF ConfigKeys
  <2>3. CASE c \in ConfigKeys
    <3>1. Lock!Command(c)
      BY <2>1, <2>2, <2>3 DEF Lock!Command
    <3> QED
      BY <3>1 DEF Lock!Next
  <2>4. CASE c = "Q"
    <3>1. Lock!Lock(c)
      BY <2>1, <2>2, <2>4 DEF Lock!Lock
    <3> QED
      BY <3>1 DEF Lock!Next
  <2>5. CASE c \notin ConfigKeys /\ c # "Q"
    <3>1. Lock!Ignore(c)
      BY <2>1, <2>5 DEF Lock!Ignore
    <3> QED
      BY <3>1 DEF Lock!Next
  <2> QED
    BY <2>3, <2>4, <2>5
<1>6. CASE UNCHANGED vars
  BY <1>6 DEF vars, Lock!vars
<1> QED
  BY <1>3, <1>4, <1>5, <1>6 DEF Next

(* The menu implements the lock of MenuLock.                                *)
THEOREM LockCorrect == Spec => ImplementsLock
<1>1. Init => Lock!Init
  BY DEF Init, Lock!Init
<1>2. (TypeOK /\ BufferIsPrefix) /\ [Next]_vars => [Lock!Next]_(Lock!vars)
  BY LockStep
<1> QED
  BY <1>1, <1>2, BufferCorrect, PTL DEF Spec, ImplementsLock, Lock!Spec
=============================================================================
