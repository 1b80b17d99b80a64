----------------------------- MODULE SharedRegs -----------------------------
(***************************************************************************)
(* The register driver (cps1848.c): a register of a chip is four bytes of  *)
(* a file, which are sought with lseek and then read or written.  The      *)
(* files are opened before the program forks and starts threads, so the    *)
(* one position of a file is shared by all flows of control; every access  *)
(* moves it on by four bytes.  Nothing locks a file: between the seek of   *)
(* one flow and its read or write another flow may move the position.      *)
(*                                                                         *)
(* htonl makes the bytes of the file, most significant first, the number   *)
(* in the program, both ways: registers are those numbers.                 *)
(***************************************************************************)
EXTENDS Integers

CONSTANTS
  Flows,  \* "menu" and "thread" of the parent, "child"
  Chips,  \* the switch chips
  Addrs,  \* register offsets
  Values, \* register values
  Fail,   \* 0xffff, the value a failed get returns
  NoCall, \* no access under way
  Use,    \* flow -> chips it accesses
  Opened  \* chips whose file could be opened

ASSUME AddrsAssumption == Addrs \subseteq Nat /\ 0 \in Addrs
ASSUME UseAssumption   == Use \in [Flows -> SUBSET Chips] /\ Opened \subseteq Chips

Width == 4

VARIABLES
  regs,    \* chip -> register -> value
  pos,     \* chip -> position of its file
  request, \* flow -> the access whose seek was done
  answer,  \* flow -> what its last get returned, Fail if a set failed
  disturbed \* history: the flows whose chip another one moved since their seek

vars == <<regs, pos, request, answer, disturbed>>

Gets(f) == [chip : Use[f], addr : Addrs, op : {"get"}]
Sets(f) == [chip : Use[f], addr : Addrs, op : {"set"}, data : Values]
Calls   == [chip : Chips, addr : Addrs, op : {"get"}]
             \cup [chip : Chips, addr : Addrs, op : {"set"}, data : Values]

(* The flows besides f that are between seek and access of a chip.          *)
Others(f, c) == {g \in Flows \ {f} : request[g] # NoCall /\ request[g].chip = c}

(* Init_1848 opens the files, and main goes on whatever it answers.         *)
Init ==
  /\ regs \in [Chips -> [Addrs -> Values]]
  /\ pos = [c \in Chips |-> 0]
  /\ request = [f \in Flows |-> NoCall]
  /\ answer = [f \in Flows |-> Fail]
  /\ disturbed = {}

(* Mutant: the register of the last access is not sought again.             *)
SeekUnlessThere(f, r) ==
  /\ request[f] = NoCall /\ r.chip \in Opened
  /\ pos' = [pos EXCEPT ![r.chip] = IF @ = r.addr + Width THEN @ ELSE r.addr]
  /\ request' = [request EXCEPT ![f] = r]
  /\ disturbed' = disturbed \cup Others(f, r.chip)
  /\ UNCHANGED <<regs, answer>>

Seek(f, r) ==
  /\ request[f] = NoCall /\ r.chip \in Opened
  /\ pos' = [pos EXCEPT ![r.chip] = r.addr]
  /\ request' = [request EXCEPT ![f] = r]
  /\ disturbed' = disturbed \cup Others(f, r.chip)
  /\ UNCHANGED <<regs, answer>>

(* An invalid handle, or a seek that fails.                                 *)
SeekFails(f) ==
  /\ request[f] = NoCall
  /\ answer' = [answer EXCEPT ![f] = Fail]
  /\ UNCHANGED <<regs, pos, request, disturbed>>

(* read and write work where the position is by now, on whichever register  *)
(* that is; past the registers of the model a read returns anything.        *)
Read(f) ==
  /\ request[f] # NoCall /\ request[f].op = "get"
  /\ LET c == request[f].chip IN
       /\ \E v \in IF pos[c] \in Addrs THEN {regs[c][pos[c]]} ELSE Values :
            answer' = [answer EXCEPT ![f] = v]
       /\ pos' = [pos EXCEPT ![c] = @ + Width]
       /\ disturbed' = (disturbed \ {f}) \cup Others(f, c)
  /\ request' = [request EXCEPT ![f] = NoCall]
  /\ UNCHANGED regs

Write(f) ==
  /\ request[f] # NoCall /\ request[f].op = "set"
  /\ LET c == request[f].chip IN
       /\ regs' = IF pos[c] \in Addrs
                  THEN [regs EXCEPT ![c] = [@ EXCEPT ![pos[c]] = request[f].data]]
                  ELSE regs
       /\ pos' = [pos EXCEPT ![c] = @ + Width]
       /\ disturbed' = (disturbed \ {f}) \cup Others(f, c)
  /\ request' = [request EXCEPT ![f] = NoCall]
  /\ UNCHANGED answer

AccessFails(f) ==
  /\ request[f] # NoCall
  /\ answer' = [answer EXCEPT ![f] = Fail]
  /\ request' = [request EXCEPT ![f] = NoCall]
  /\ disturbed' = disturbed \ {f}
  /\ UNCHANGED <<regs, pos>>

Next ==
  \E f \in Flows :
    \/ \E r \in Gets(f) \cup Sets(f) : Seek(f, r)
    \/ SeekFails(f) \/ Read(f) \/ Write(f) \/ AccessFails(f)

Spec == Init /\ [][Next]_vars

-----------------------------------------------------------------------------
(* The files have a position each, the flows at most one access each.       *)
TypeOK ==
  /\ regs \in [Chips -> [Addrs -> Values]]
  /\ pos \in [Chips -> Nat]
  /\ request \in [Flows -> Calls \cup {NoCall}]
  /\ answer \in [Flows -> Values \cup {Fail}]
  /\ disturbed \subseteq {f \in Flows : request[f] # NoCall}

(* The driver is a set of registers that are accessed one at a time, but    *)
(* for an access during which another flow moved the file of its chip: that *)
(* one may read or write any register of the same chip, and no other        *)
(* (cps1848.c:120-198).                                                     *)
Atomic == INSTANCE AtomicRegs
ImplementsAtomic == Atomic!Spec

(* The seek of an access nobody disturbed holds until it is made.           *)
Positioned ==
  \A f \in Flows :
    request[f] # NoCall /\ f \notin disturbed => pos[request[f].chip] = request[f].addr
=============================================================================
