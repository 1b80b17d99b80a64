------------------------------ MODULE MenuLock ------------------------------
(***************************************************************************)
(* What the configuration lock of the serial menu promises: a password     *)
(* matcher that counts how many letters of the word have come in order,    *)
(* forgetting them all at the first wrong key and skipping the blank key,  *)
(* and configuration commands that run only behind it.  UartMenu           *)
(* implements it with a buffer of five characters.                         *)
(***************************************************************************)
EXTENDS Integers, Sequences

CONSTANTS
  Keys,         \* what may be typed
  Word,         \* the word that unlocks
  Blank,        \* the key the matcher skips
  ConfigKeys    \* keys that run a configuration command

VARIABLES
  pos,          \* letters of Word matched so far
  config,       \* TRUE while unlocked
  ran           \* configuration key whose command the last key ran, or "none"

vars == <<pos, config, ran>>

Init == pos = 0 /\ config = FALSE /\ ran = "none"

(* Locked: the next letter of the word, the last one, the blank, a wrong    *)
(* key.                                                                     *)
Advance(c) ==
  /\ ~ config /\ c = Word[pos + 1] /\ pos + 1 < Len(Word)
  /\ pos' = pos + 1 /\ UNCHANGED config /\ ran' = "none"

Unlock(c) ==
  /\ ~ config /\ c = Word[pos + 1] /\ pos + 1 = Len(Word)
  /\ pos' = 0 /\ config' = TRUE /\ ran' = "none"

Skip(c) ==
  /\ ~ config /\ c = Blank
  /\ ran' = "none" /\ UNCHANGED <<pos, config>>

Restart(c) ==
  /\ ~ config /\ c # Word[pos + 1] /\ c # Blank
  /\ pos' = 0 /\ UNCHANGED config /\ ran' = "none"

(* Unlocked: a command, the key that locks again, any other key.            *)
Command(c) ==
  /\ config /\ c \in ConfigKeys
  /\ ran' = c /\ UNCHANGED <<pos, config>>

Lock(c) ==
  /\ config /\ c = "Q"
  /\ config' = FALSE /\ ran' = "none" /\ UNCHANGED pos

Ignore(c) ==
  /\ config /\ c \notin ConfigKeys /\ c # "Q"
  /\ ran' = "none" /\ UNCHANGED <<pos, config>>

Next ==
  \E c \in Keys :
    \/ Advance(c) \/ Unlock(c) \/ Skip(c) \/ Restart(c)
    \/ Command(c) \/ Lock(c) \/ Ignore(c)

Spec == Init /\ [][Next]_vars
=============================================================================
