----------------------------- MODULE AtomicRegs -----------------------------
(***************************************************************************)
(* What get_1848_reg and set_1848_reg promise: the registers of the chips, *)
(* read and written one at a time.  An access takes effect, or fails, at   *)
(* one moment between call and return.  Only one during which another flow *)
(* calls or returns on the same chip is not to be relied on: it may read   *)
(* anything, and write another register of its chip or none.               *)
(***************************************************************************)
CONSTANTS
  Flows,  \* flows of control
  Chips,  \* switch chips
  Addrs,  \* register offsets
  Values, \* register values
  Fail,   \* 0xffff of a get that failed
  NoCall  \* no access under way

Calls == [chip : Chips, addr : Addrs, op : {"get"}]
           \cup [chip : Chips, addr : Addrs, op : {"set"}, data : Values]

VARIABLES
  regs,    \* chip -> register -> value
  request, \* flow -> the access under way
  answer,  \* flow -> what its last get returned, Fail if a set failed
  disturbed \* flows that saw another one call or return on their chip

avars == <<regs, request, answer, disturbed>>

(* The flows besides f that are in an access of chip c.                     *)
Others(f, c) == {g \in Flows \ {f} : request[g] # NoCall /\ request[g].chip = c}

Init ==
  /\ regs \in [Chips -> [Addrs -> Values]]
  /\ request = [f \in Flows |-> NoCall]
  /\ answer = [f \in Flows |-> Fail]
  /\ disturbed = {}

Call(f, r) ==
  /\ request[f] = NoCall
  /\ request' = [request EXCEPT ![f] = r]
  /\ disturbed' = disturbed \cup Others(f, r.chip)
  /\ UNCHANGED <<regs, answer>>

(* The chip is missing, or the seek is refused.                             *)
Refuse(f) ==
  /\ request[f] = NoCall
  /\ answer' = [answer EXCEPT ![f] = Fail]
  /\ UNCHANGED <<regs, request, disturbed>>

Return(f) ==
  /\ request' = [request EXCEPT ![f] = NoCall]
  /\ disturbed' = (disturbed \ {f}) \cup Others(f, request[f].chip)

Get(f, v) == /\ request[f].op = "get"
             /\ answer' = [answer EXCEPT ![f] = v]
             /\ UNCHANGED regs

Set(f, a) == /\ request[f].op = "set"
             /\ regs' = [regs EXCEPT ![request[f].chip] = [@ EXCEPT ![a] = request[f].data]]
             /\ UNCHANGED answer

Perform(f) ==
  /\ request[f] # NoCall /\ f \notin disturbed
  /\ Get(f, regs[request[f].chip][request[f].addr]) \/ Set(f, request[f].addr)
  /\ Return(f)

Misplace(f) ==
  /\ f \in disturbed
  /\ \/ \E v \in Values : Get(f, v)
     \/ \E a \in Addrs : Set(f, a)
     \/ request[f].op = "set" /\ UNCHANGED <<regs, answer>>
  /\ Return(f)

Break(f) ==
  /\ request[f] # NoCall
  /\ answer' = [answer EXCEPT ![f] = Fail]
  /\ request' = [request EXCEPT ![f] = NoCall]
  /\ disturbed' = disturbed \ {f}
  /\ UNCHANGED regs

Next == \E f \in Flows : \/ \E r \in Calls : Call(f, r)
                         \/ Refuse(f) \/ Perform(f) \/ Misplace(f) \/ Break(f)

Spec == Init /\ [][Next]_avars
=============================================================================
