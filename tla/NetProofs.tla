------------------------------ MODULE NetProofs ------------------------------
(***************************************************************************)
(* Proofs about the network side of the program: UdpSocket, for any number *)
(* of descriptors, any hosts, ports and arguments, and any resource        *)
(* refused; and IpTable, for any file, board and junk.                     *)
(***************************************************************************)
EXTENDS UdpSocket, IpTable, TLAPS

Addresses == (Hosts \cup {Bad}) \X Int

(* The descriptor udpCreateSocket is filling in is not handed out yet.      *)
CreatedApart == \A i \in IDs : call = <<"bind", i>> => i \notin useable

(* What a receive thread holds belongs to a packet that came to its socket. *)
PacketHeld ==
  \A i \in IDs :
    /\ thread[i] \in {"received", "looked"} => recvFrom[i] \in Senders
    /\ thread[i] = "looked" => i \in attached

(* With one callback, the shared text is that of the packet in hand.        *)
TextIsMine ==
  OneListener => \A i \in IDs : thread[i] = "looked" => s_udpSocketAddress = recvFrom[i][1]

IInv ==
  TypeOK /\ NoSocketLeaked /\ CreatedApart /\ BoundIsLastGood /\ PacketHeld /\ TextIsMine

-----------------------------------------------------------------------------
(* Typing facts.                                                            *)
LEMMA SenderTypes ==
  /\ Senders \subseteq Addresses
  /\ NoPeer \in Addresses /\ NoPeer[1] = Bad
  /\ \A p \in Senders : p[1] \in Hosts /\ p[2] \in Int /\ p = <<p[1], p[2]>>
<1>1. SenderPorts \subseteq Int
  BY PortsAssumption
<1>2. NoPeer \in Addresses /\ NoPeer[1] = Bad
  BY DEF NoPeer, Addresses
<1>3. ASSUME NEW p \in Senders
      PROVE  p[1] \in Hosts /\ p[2] \in Int /\ p = <<p[1], p[2]>> /\ p \in Addresses
  <2>1. PICK h \in Hosts, q \in SenderPorts : p = <<h, q>>
    BY DEF Senders
  <2>2. p[1] = h /\ p[2] = q
    BY <2>1
  <2>3. q \in Int
    BY <1>1
  <2> QED
    BY <2>1, <2>2, <2>3 DEF Addresses
<1> QED
  BY <1>2, <1>3

LEMMA CallSteps ==
  ASSUME NEW i, NEW j
  PROVE  /\ Idle # <<"bind", i>> /\ Idle # <<"thread", i>> /\ Idle # <<"group", i>>
         /\ <<"thread", i>> # <<"bind", j>> /\ <<"group", i>> # <<"bind", j>>
         /\ <<"bind", i>> = <<"bind", j>> => i = j
BY DEF Idle

LEMMA BindTypes ==
  ASSUME NEW p \in BindArgs
  PROVE  /\ p \in Addresses /\ p[1] \in Hosts \cup {Bad} /\ p[2] \in Int
         /\ p = <<p[1], p[2]>>
         /\ Good(p) => p # NoPeer
BY ArgsAssumption DEF Addresses, Good, NoPeer

-----------------------------------------------------------------------------
(* The initial states.                                                      *)
LEMMA InvInit ==
  ASSUME Init
  PROVE  IInv
<1>1. TypeOK
  <2>1. NoPeer \in Addresses
    BY SenderTypes
  <2>2. sent \in Datagrams
    BY <2>1 DEF Init, Datagrams, Addresses
  <2> QED
    BY <2>1, <2>2 DEF Init, TypeOK, Addresses, Places
<1>2. NoSocketLeaked /\ CreatedApart
  BY CallSteps DEF Init, NoSocketLeaked, CreatedApart
<1>3. BoundIsLastGood /\ PacketHeld /\ TextIsMine
  BY DEF Init, BoundIsLastGood, PacketHeld, TextIsMine
<1> QED
  BY <1>1, <1>2, <1>3 DEF IInv

-----------------------------------------------------------------------------
(* The steps of udpCreateSocket touch the descriptor being made and, at     *)
(* most, its thread.                                                        *)
LEMMA CreateStep ==
  ASSUME IInv, NEW i \in IDs,
         Create(i) \/ CreateFails(i) \/ MakeUseable(i) \/ StartThread(i) \/ CreateEnds(i)
  PROVE  IInv'
<1> USE DEF IInv
<1>1. CASE Create(i)
  <2>1. /\ call = Idle /\ call' = <<"bind", i>> /\ i \notin useable
        /\ open' = [open EXCEPT ![i] = @ + 1]
        /\ UNCHANGED <<useable, attached, bound, sendTo, groups, broadcast, goodBind, netvars>>
    BY <1>1 DEF Create
  <2>2. TypeOK'
    BY <2>1 DEF TypeOK, Steps, netvars
  <2>3. NoSocketLeaked' /\ CreatedApart'
    <3>1. \A j \in IDs : call # <<"bind", j>> /\ (call' = <<"bind", j>> <=> j = i)
      BY <2>1, CallSteps
    <3> QED
      BY <2>1, <3>1 DEF NoSocketLeaked, CreatedApart, TypeOK
  <2>4. BoundIsLastGood' /\ PacketHeld' /\ TextIsMine'
    BY <2>1 DEF BoundIsLastGood, PacketHeld, TextIsMine, OneListener, netvars
  <2> QED
    BY <2>2, <2>3, <2>4
<1>2. CASE CreateFails(i)
  <2>1. /\ call = <<"bind", i>> /\ call' = Idle
        /\ open' = [open EXCEPT ![i] = @ - 1]
        /\ UNCHANGED <<useable, attached, bound, sendTo, groups, broadcast, goodBind, netvars>>
    BY <1>2 DEF CreateFails
  <2>2. TypeOK'
    BY <2>1 DEF TypeOK, netvars
  <2>3. NoSocketLeaked' /\ CreatedApart'
    <3>1. \A j \in IDs : call' # <<"bind", j>> /\ (call = <<"bind", j>> <=> j = i)
      BY <2>1, CallSteps
    <3>2. i \notin useable
      BY <2>1 DEF CreatedApart
    <3> QED
      BY <2>1, <3>1, <3>2 DEF NoSocketLeaked, CreatedApart, TypeOK
  <2>4. BoundIsLastGood' /\ PacketHeld' /\ TextIsMine'
    BY <2>1 DEF BoundIsLastGood, PacketHeld, TextIsMine, OneListener, netvars
  <2> QED
    BY <2>2, <2>3, <2>4
<1>3. CASE MakeUseable(i)
  <2>1. /\ call = <<"bind", i>> /\ call' = <<"thread", i>>
        /\ useable' = useable \cup {i}
        /\ UNCHANGED <<open, attached, bound, sendTo, groups, broadcast, goodBind, netvars>>
    BY <1>3 DEF MakeUseable
  <2>2. TypeOK'
    BY <2>1 DEF TypeOK, Steps, netvars
  <2>3. NoSocketLeaked' /\ CreatedApart'
    <3>1. \A j \in IDs : call' # <<"bind", j>> /\ (call = <<"bind", j>> <=> j = i)
      BY <2>1, CallSteps
    <3> QED
      BY <2>1, <3>1 DEF NoSocketLeaked, CreatedApart
  <2>4. BoundIsLastGood' /\ PacketHeld' /\ TextIsMine'
    BY <2>1 DEF BoundIsLastGood, PacketHeld, TextIsMine, OneListener, netvars
  <2> QED
    BY <2>2, <2>3, <2>4
<1>4. CASE StartThread(i)
  <2>1. /\ call = <<"thread", i>> /\ call' = <<"group", i>>
        /\ UNCHANGED <<useable, open, attached, bound, sendTo, groups, broadcast, goodBind,
                       recvFrom, s_udpSocketAddress, sent>>
    BY <1>4 DEF StartThread, desvars
  <2>2. PICK place \in {"start", thread[i]} : thread' = [thread EXCEPT ![i] = place]
    BY <1>4 DEF StartThread
  <2>3. TypeOK'
    <3>1. place \in Places
      BY <2>2 DEF TypeOK, Places
    <3> QED
      BY <2>1, <2>2, <3>1 DEF TypeOK, Steps
  <2>4. NoSocketLeaked' /\ CreatedApart'
    <3>1. \A j \in IDs : call' # <<"bind", j>> /\ call # <<"bind", j>>
      BY <2>1, CallSteps
    <3> QED
      BY <2>1, <3>1 DEF NoSocketLeaked, CreatedApart
  <2>5. \A j \in IDs : thread'[j] \in {"received", "looked"} => thread'[j] = thread[j]
    BY <2>2 DEF TypeOK
  <2>6. BoundIsLastGood' /\ PacketHeld' /\ TextIsMine'
    BY <2>1, <2>5 DEF BoundIsLastGood, PacketHeld, TextIsMine, OneListener
  <2> QED
    BY <2>3, <2>4, <2>6
<1>5. CASE CreateEnds(i)
  <2>1. /\ call = <<"group", i>> /\ call' = Idle
        /\ UNCHANGED <<useable, open, attached, bound, sendTo, broadcast, goodBind, netvars>>
    BY <1>5 DEF CreateEnds
  <2>2. groups' \in [IDs -> SUBSET Hosts]
    BY <1>5, ArgsAssumption DEF CreateEnds, MayJoin, TypeOK
  <2>3. TypeOK'
    BY <2>1, <2>2 DEF TypeOK, netvars
  <2>4. NoSocketLeaked' /\ CreatedApart'
    <3>1. \A j \in IDs : call' # <<"bind", j>> /\ call # <<"bind", j>>
      BY <2>1, CallSteps
    <3> QED
      BY <2>1, <3>1 DEF NoSocketLeaked, CreatedApart
  <2>5. BoundIsLastGood' /\ PacketHeld' /\ TextIsMine'
    BY <2>1 DEF BoundIsLastGood, PacketHeld, TextIsMine, OneListener, netvars
  <2> QED
    BY <2>3, <2>4, <2>5
<1> QED
  BY <1>1, <1>2, <1>3, <1>4, <1>5

-----------------------------------------------------------------------------
(* The other calls open and close nothing and leave the threads alone.      *)
LEMMA CallStep ==
  ASSUME IInv, NEW i \in IDs,
         \/ \E g \in GroupArgs : JoinGroup(i, g)
         \/ \E p \in BindArgs : BindPeer(i, p)
         \/ Unbind(i) \/ SendPeer(i) \/ AttachRecv(i)
         \/ \E on \in BOOLEAN : SetBroadCast(i, on)
  PROVE  IInv'
<1> USE DEF IInv, UdpGetDes
<1>1. ASSUME NEW g \in GroupArgs, JoinGroup(i, g)
      PROVE  IInv'
  <2>1. groups' \in [IDs -> SUBSET Hosts]
    BY <1>1, ArgsAssumption DEF JoinGroup, MayJoin, TypeOK
  <2> QED
    BY <1>1, <2>1 DEF JoinGroup, TypeOK, NoSocketLeaked, CreatedApart, BoundIsLastGood,
                      PacketHeld, TextIsMine, OneListener, netvars
<1>2. ASSUME NEW p \in BindArgs, BindPeer(i, p)
      PROVE  IInv'
  <2>1. /\ p[1] \in Hosts \cup {Bad} /\ p[2] \in Int /\ p = <<p[1], p[2]>> /\ p \in Addresses
        /\ Good(p) => p # NoPeer
    BY BindTypes
  <2>2. /\ i \in useable
        /\ bound' = IF Good(p) THEN bound \cup {i} ELSE bound \ {i}
        /\ goodBind' = [goodBind EXCEPT ![i] = IF Good(p) THEN p ELSE NoPeer]
        /\ UNCHANGED <<call, useable, open, attached, groups, broadcast, netvars>>
    BY <1>2 DEF BindPeer
  <2>3. goodBind' \in [IDs -> Addresses]
    BY <2>1, <2>2, SenderTypes DEF TypeOK, Addresses
  <2>4. /\ sendTo' \in [IDs -> Addresses]
        /\ \A j \in IDs : j # i => sendTo'[j] = sendTo[j]
        /\ Good(p) => sendTo'[i] = p
    <3>1. CASE p[2] \notin ValidPorts
      <4>1. sendTo' = sendTo /\ ~ Good(p)
        BY <1>2, <3>1 DEF BindPeer, Good
      <4> QED
        BY <4>1 DEF TypeOK, Addresses
    <3>2. CASE p[2] \in ValidPorts /\ p[1] = Bad
      <4>1. sendTo' = [sendTo EXCEPT ![i] = <<Bad, @[2]>>] /\ ~ Good(p)
        BY <1>2, <3>2 DEF BindPeer, Good
      <4>2. <<Bad, sendTo[i][2]>> \in Addresses
        BY DEF TypeOK, Addresses
      <4> QED
        BY <4>1, <4>2 DEF TypeOK, Addresses
    <3>3. CASE p[2] \in ValidPorts /\ p[1] # Bad
      <4>1. sendTo' = [sendTo EXCEPT ![i] = p]
        BY <1>2, <3>3 DEF BindPeer
      <4> QED
        BY <2>1, <4>1 DEF TypeOK, Addresses
    <3> QED
      BY <3>1, <3>2, <3>3
  <2>5. TypeOK'
    BY <2>2, <2>3, <2>4 DEF TypeOK, Addresses, netvars
  <2>6. BoundIsLastGood'
    <3>1. i \in bound' <=> goodBind'[i] # NoPeer
      BY <2>1, <2>2 DEF TypeOK
    <3>2. i \in bound' => sendTo'[i] = goodBind'[i] /\ sendTo'[i][1] # Bad
      BY <2>1, <2>2, <2>4 DEF TypeOK, Good
    <3>3. ASSUME NEW j \in IDs, j # i
          PROVE  /\ j \in bound' <=> goodBind'[j] # NoPeer
                 /\ j \in bound' => sendTo'[j] = goodBind'[j] /\ sendTo'[j][1] # Bad
      <4>1. (j \in bound' <=> j \in bound) /\ goodBind'[j] = goodBind[j]
        BY <2>2, <3>3 DEF TypeOK
      <4> QED
        BY <2>4, <3>3, <4>1 DEF BoundIsLastGood
    <3> QED
      BY <3>1, <3>2, <3>3 DEF BoundIsLastGood
  <2>7. NoSocketLeaked' /\ CreatedApart' /\ PacketHeld' /\ TextIsMine'
    BY <2>2 DEF NoSocketLeaked, CreatedApart, PacketHeld, TextIsMine, OneListener, netvars
  <2> QED
    BY <2>5, <2>6, <2>7
<1>3. CASE Unbind(i)
  <2>1. TypeOK'
    BY <1>3, SenderTypes DEF Unbind, TypeOK, Addresses, netvars
  <2>2. BoundIsLastGood'
    BY <1>3 DEF Unbind, TypeOK, BoundIsLastGood
  <2>3. NoSocketLeaked' /\ CreatedApart' /\ PacketHeld' /\ TextIsMine'
    BY <1>3 DEF Unbind, NoSocketLeaked, CreatedApart, PacketHeld, TextIsMine, OneListener, netvars
  <2> QED
    BY <2>1, <2>2, <2>3
<1>4. CASE SendPeer(i)
  <2>1. sent' \in Datagrams
    BY <1>4 DEF SendPeer, TypeOK, Datagrams
  <2>2. TypeOK'
    BY <1>4, <2>1 DEF SendPeer, TypeOK, desvars
  <2>3. NoSocketLeaked' /\ CreatedApart' /\ BoundIsLastGood' /\ PacketHeld' /\ TextIsMine'
    BY <1>4 DEF SendPeer, NoSocketLeaked, CreatedApart, BoundIsLastGood, PacketHeld, TextIsMine,
                OneListener, desvars
  <2> QED
    BY <2>2, <2>3
<1>5. CASE AttachRecv(i)
  <2>1. TypeOK'
    BY <1>5 DEF AttachRecv, TypeOK, netvars
  <2>2. OneListener' => OneListener
    BY <1>5 DEF AttachRecv, OneListener
  <2>3. NoSocketLeaked' /\ CreatedApart' /\ BoundIsLastGood' /\ PacketHeld' /\ TextIsMine'
    BY <1>5, <2>2 DEF AttachRecv, NoSocketLeaked, CreatedApart, BoundIsLastGood, PacketHeld,
                      TextIsMine, netvars
  <2> QED
    BY <2>1, <2>3
<1>6. ASSUME NEW on \in BOOLEAN, SetBroadCast(i, on)
      PROVE  IInv'
  <2>1. TypeOK'
    BY <1>6 DEF SetBroadCast, TypeOK, netvars
  <2>2. NoSocketLeaked' /\ CreatedApart' /\ BoundIsLastGood' /\ PacketHeld' /\ TextIsMine'
    BY <1>6 DEF SetBroadCast, NoSocketLeaked, CreatedApart, BoundIsLastGood, PacketHeld,
                TextIsMine, OneListener, netvars
  <2> QED
    BY <2>1, <2>2
<1> QED
  BY <1>1, <1>2, <1>3, <1>4, <1>5, <1>6

-----------------------------------------------------------------------------
(* A receive thread changes its own place and packet, the shared text and   *)
(* what was sent last.                                                      *)
LEMMA ReceiveStep ==
  ASSUME IInv, NEW i \in IDs, ThreadStep(i) \/ \E p \in Senders : Receive(i, p)
  PROVE  IInv'
<1> USE DEF IInv
<1>1. UNCHANGED <<call, desvars>>
  BY DEF ThreadStep, ThreadStarts, Drop, LookUp, Answer, Receive
<1>2. NoSocketLeaked' /\ CreatedApart' /\ BoundIsLastGood' /\ (OneListener' <=> OneListener)
  BY <1>1 DEF desvars, NoSocketLeaked, CreatedApart, BoundIsLastGood, OneListener
<1>3. ASSUME thread' \in [IDs -> Places], recvFrom' \in [IDs -> Senders \cup {NoPeer}],
             s_udpSocketAddress' \in Hosts \cup {Bad}, sent' \in Datagrams
      PROVE  TypeOK'
  BY <1>1, <1>3 DEF TypeOK, desvars
<1>4. CASE ThreadStarts(i)
  <2>1. PICK place \in {"recv", "ended"} : thread' = [thread EXCEPT ![i] = place]
    BY <1>4 DEF ThreadStarts
  <2>2. TypeOK'
    BY <1>3, <1>4, <2>1 DEF ThreadStarts, TypeOK, Places
  <2>3. \A j \in IDs : thread'[j] \in {"received", "looked"} => thread'[j] = thread[j]
    BY <2>1 DEF TypeOK
  <2>4. PacketHeld' /\ TextIsMine'
    BY <1>1, <1>2, <1>4, <2>3 DEF ThreadStarts, PacketHeld, TextIsMine, desvars
  <2> QED
    BY <1>2, <2>2, <2>4
<1>5. CASE Drop(i)
  <2>1. TypeOK'
    BY <1>3, <1>5 DEF Drop, TypeOK, Places
  <2>2. \A j \in IDs : thread'[j] \in {"received", "looked"} => thread'[j] = thread[j]
    BY <1>5 DEF Drop, TypeOK
  <2>3. PacketHeld' /\ TextIsMine'
    BY <1>1, <1>2, <1>5, <2>2 DEF Drop, PacketHeld, TextIsMine, desvars
  <2> QED
    BY <1>2, <2>1, <2>3
<1>6. CASE LookUp(i)
  <2>1. recvFrom[i] \in Senders /\ recvFrom[i][1] \in Hosts
    BY <1>6, SenderTypes DEF LookUp, PacketHeld
  <2>2. TypeOK'
    BY <1>3, <1>6, <2>1 DEF LookUp, TypeOK, Places
  <2>3. PacketHeld'
    BY <1>1, <1>6, <2>1 DEF LookUp, PacketHeld, TypeOK, desvars
  <2>4. ASSUME OneListener', NEW j \in IDs, thread'[j] = "looked"
        PROVE  s_udpSocketAddress' = recvFrom'[j][1]
    <3>1. i \in attached /\ j \in attached
      BY <1>1, <1>6, <2>3, <2>4 DEF LookUp, PacketHeld, desvars
    <3>2. i = j
      BY <1>2, <2>4, <3>1 DEF OneListener
    <3> QED
      BY <1>6, <3>2 DEF LookUp
  <2> QED
    BY <1>2, <2>2, <2>3, <2>4 DEF TextIsMine
<1>7. CASE Answer(i)
  <2>1. recvFrom[i] \in Addresses /\ s_udpSocketAddress \in Hosts \cup {Bad}
    BY SenderTypes DEF TypeOK
  <2>2. sent' \in Datagrams
    <3>1. CASE UNCHANGED sent
      BY <3>1 DEF TypeOK
    <3>2. CASE sent' = [to |-> <<s_udpSocketAddress, recvFrom[i][2]>>, for |-> recvFrom[i]]
      <4>1. <<s_udpSocketAddress, recvFrom[i][2]>> \in Addresses
        BY <2>1 DEF Addresses
      <4> QED
        BY <2>1, <3>2, <4>1 DEF Datagrams, Addresses
    <3> QED
      BY <1>7, <3>1, <3>2 DEF Answer
  <2>3. TypeOK'
    BY <1>3, <1>7, <2>2 DEF Answer, TypeOK, Places
  <2>4. \A j \in IDs : thread'[j] \in {"received", "looked"} => thread'[j] = thread[j]
    BY <1>7 DEF Answer, TypeOK
  <2>5. PacketHeld' /\ TextIsMine'
    BY <1>1, <1>2, <1>7, <2>4 DEF Answer, PacketHeld, TextIsMine, desvars
  <2> QED
    BY <1>2, <2>3, <2>5
<1>8. ASSUME NEW p \in Senders, Receive(i, p)
      PROVE  IInv'
  <2>1. TypeOK'
    BY <1>3, <1>8 DEF Receive, TypeOK, Places
  <2>2. PacketHeld'
    BY <1>1, <1>8 DEF Receive, PacketHeld, TypeOK, desvars
  <2>3. \A j \in IDs : thread'[j] = "looked" =>
          j # i /\ thread[j] = "looked" /\ recvFrom'[j] = recvFrom[j]
    BY <1>8 DEF Receive, TypeOK
  <2>4. TextIsMine'
    BY <1>2, <1>8, <2>3 DEF Receive, TextIsMine
  <2> QED
    BY <1>2, <2>1, <2>2, <2>4
<1> QED
  BY <1>4, <1>5, <1>6, <1>7, <1>8 DEF ThreadStep

LEMMA InvStep ==
  ASSUME IInv, [Next]_vars
  PROVE  IInv'
<1>1. ASSUME NEW i \in IDs, Calls(i)
      PROVE  IInv'
  BY <1>1, CreateStep, CallStep DEF Calls
<1>2. ASSUME NEW i \in IDs, ThreadStep(i) \/ \E p \in Senders : Receive(i, p)
      PROVE  IInv'
  BY <1>2, ReceiveStep
<1>3. CASE UNCHANGED vars
  BY <1>3 DEF vars, desvars, netvars, IInv, TypeOK, NoSocketLeaked, CreatedApart,
              BoundIsLastGood, PacketHeld, TextIsMine, OneListener
<1> QED
  BY <1>1, <1>2, <1>3 DEF Next

THEOREM UdpInvariant == Spec => []IInv
<1>1. IInv /\ [Next]_vars => IInv'
  BY InvStep
<1> QED
  BY InvInit, <1>1, PTL DEF Spec

-----------------------------------------------------------------------------
(* Descriptors, sockets and threads stay well formed.                       *)
THEOREM UdpTypeCorrect == Spec => []TypeOK
<1>1. IInv => TypeOK
  BY DEF IInv
<1> QED
  BY UdpInvariant, <1>1, PTL

(* A creation that fails gives its socket back.                             *)
THEOREM NoLeak == Spec => []NoSocketLeaked
<1>1. IInv => NoSocketLeaked
  BY DEF IInv
<1> QED
  BY UdpInvariant, <1>1, PTL

(* A bound socket sends to the peer of the last call that bound it.         *)
THEOREM BindCorrect == Spec => []BoundIsLastGood
<1>1. IInv => BoundIsLastGood
  BY DEF IInv
<1> QED
  BY UdpInvariant, <1>1, PTL

(* Only a send of the application and an answer of a thread send.           *)
LEMMA AnswerStep ==
  ASSUME IInv, [Next]_vars, sent' # sent
  PROVE  /\ sent'.to[2] = sent'.for[2]
         /\ OneListener => sent'.to = sent'.for
<1> USE DEF IInv
<1>1. ASSUME NEW i \in IDs, SendPeer(i)
      PROVE  sent'.to = sent'.for
  <2>1. sendTo[i] = goodBind[i]
    BY <1>1 DEF SendPeer, BoundIsLastGood
  <2> QED
    BY <1>1, <2>1 DEF SendPeer
<1>2. ASSUME NEW i \in IDs, Answer(i)
      PROVE  /\ sent'.to[2] = sent'.for[2]
             /\ OneListener => sent'.to = sent'.for
  <2>1. /\ sent'.to = <<s_udpSocketAddress, recvFrom[i][2]>> /\ sent'.for = recvFrom[i]
        /\ thread[i] = "looked"
    BY <1>2 DEF Answer
  <2>2. recvFrom[i] = <<recvFrom[i][1], recvFrom[i][2]>>
    BY <2>1, SenderTypes DEF PacketHeld
  <2>3. OneListener => s_udpSocketAddress = recvFrom[i][1]
    BY <2>1 DEF TextIsMine
  <2> QED
    BY <2>1, <2>2, <2>3
<1>3. ASSUME NEW i \in IDs, Calls(i), ~ SendPeer(i)
      PROVE  FALSE
  BY <1>3 DEF Calls, Create, CreateFails, MakeUseable, StartThread, CreateEnds, JoinGroup,
              BindPeer, Unbind, AttachRecv, SetBroadCast, netvars
<1>4. ASSUME NEW i \in IDs, ThreadStep(i) \/ \E p \in Senders : Receive(i, p), ~ Answer(i)
      PROVE  FALSE
  BY <1>4 DEF ThreadStep, ThreadStarts, Drop, LookUp, Receive
<1>5. ~ UNCHANGED vars
  BY DEF vars, netvars
<1> QED
  BY <1>1, <1>2, <1>3, <1>4, <1>5 DEF Next

(* An answer goes back to whoever sent the packet.                          *)
THEOREM AnswersCorrect == Spec => AnswersItsSender
<1>1. IInv /\ [Next]_vars =>
        [sent' # sent => /\ sent'.to[2] = sent'.for[2]
                         /\ OneListener => sent'.to = sent'.for]_vars
  BY AnswerStep
<1> QED
  BY <1>1, UdpInvariant, PTL DEF Spec, AnswersItsSender

-----------------------------------------------------------------------------
(* IpTable: the look-up of a board's address.                               *)

Results == {"reading", "found", "default", "refused"}

(* The lines of the file that were compared and are no entry for the board. *)
ScannedInVain == \A k \in 2 .. line : ~Names(file[k], board)

(* What an address made by rule is, whatever the file holds.                *)
ByRule == result = "default" => Accepted(board) /\ ipArray = Default(board)

LookUpTypeOK ==
  /\ file \in Files /\ board \in Boards
  /\ line \in 0 .. LineCount
  /\ _m \in [1 .. 3 -> 0 .. 255]
  /\ ipArray \in [1 .. 4 -> 0 .. 255]
  /\ result \in Results

LookUpInv ==
  /\ LookUpTypeOK
  /\ line > 0 => Accepted(board)
  /\ WellFormed /\ result = "reading" => ScannedInVain
  /\ LookUpCorrect
  /\ ByRule

-----------------------------------------------------------------------------
LEMMA BoardTypes ==
  ASSUME NEW b \in Boards
  PROVE  /\ b = <<b[1], b[2], b[3]>>
         /\ b[1] \in 0 .. 255 /\ b[2] \in 0 .. 255 /\ b[3] \in 0 .. 255
BY BoardsAssumption

LEMMA LineTypes ==
  ASSUME file \in Files, NEW k \in 1 .. LineCount
  PROVE  /\ file[k] \in Seq(Seq(Int) \ {<<>>})
         /\ \A i \in 1 .. Len(file[k]) :
              file[k][i] \in Seq(Int) /\ Len(file[k][i]) > 0 /\ file[k][i][1] \in Int
<1>1. file \in Seq(Seq(Seq(Int) \ {<<>>})) /\ k \in 1 .. Len(file)
  BY FilesAssumption DEF LineCount
<1>2. file[k] \in Seq(Seq(Int) \ {<<>>})
  BY <1>1
<1>3. ASSUME NEW i \in 1 .. Len(file[k])
      PROVE  file[k][i] \in Seq(Int) /\ Len(file[k][i]) > 0 /\ file[k][i][1] \in Int
  <2>1. file[k][i] \in Seq(Int) /\ file[k][i] # <<>>
    BY <1>2
  <2> QED
    BY <2>1
<1> QED
  BY <1>2, <1>3

LEMMA CountTypes == file \in Files => LineCount \in Nat
BY FilesAssumption DEF LineCount

LEMMA ByteRange ==
  /\ \A n \in Int : Byte(n) \in 0 .. 255
  /\ \A n \in 0 .. 255 : Byte(n) = n
BY DEF Byte

(* The address by rule of an accepted board is four bytes, and the slot can *)
(* be read off it, but for slot 0.                                          *)
LEMMA RuleBytes ==
  ASSUME NEW b, b[1] \in 0 .. 255, b[2] \in 0 .. 255, b[3] \in 0 .. 255, Accepted(b)
  PROVE  /\ Default(b) \in [1 .. 4 -> 0 .. 255]
         /\ Default(b)[3] = b[1] * 16 + b[2]
         /\ b[3] = 0 => Default(b)[4] = 241
         /\ b[3] # 0 => Default(b)[4] = b[3] * 16 - 15
<1>1. b[1] \in 0 .. 15 /\ b[2] \in 0 .. 15 /\ b[3] \in 0 .. 16
  BY DEF Accepted
<1>2. b[1] * 16 + b[2] \in 0 .. 255
  BY <1>1
<1>3. Byte(b[3] * 16 + 256 - 15) = IF b[3] = 0 THEN 241 ELSE b[3] * 16 - 15
  BY <1>1 DEF Byte
<1>4. Byte(b[3] * 16 + 256 - 15) \in 0 .. 255
  BY <1>1, ByteRange
<1>5. /\ Default(b)[1] = 192 /\ Default(b)[2] = 168
      /\ Default(b)[3] = b[1] * 16 + b[2] /\ Default(b)[4] = Byte(b[3] * 16 + 256 - 15)
  BY DEF Default
<1>6. Default(b) \in [1 .. 4 -> 0 .. 255]
  <2>1. \A i, j \in 0 .. 255 : <<192, 168, i, j>> \in [1 .. 4 -> 0 .. 255]
    OBVIOUS
  <2> QED
    BY <1>2, <1>4, <2>1 DEF Default
<1> QED
  BY <1>3, <1>5, <1>6

(* TokeIP of a four-byte column gives that column, and bytes in any case.   *)
LEMMA TokeIPWhole ==
  ASSUME NEW column \in Seq(Int), NEW array \in [1 .. 4 -> 0 .. 255]
  PROVE  /\ TokeIP(column, array) \in [1 .. 4 -> 0 .. 255]
         /\ (Len(column) = 4 /\ \A j \in 1 .. 4 : column[j] \in 0 .. 255) =>
              TokeIP(column, array) = column
<1>1. TokeIP(column, array) \in [1 .. 4 -> 0 .. 255]
  <2> SUFFICES ASSUME NEW i \in 1 .. 4
               PROVE  (IF i <= Len(column) THEN Byte(column[i]) ELSE array[i]) \in 0 .. 255
    BY DEF TokeIP
  <2>1. i <= Len(column) => column[i] \in Int
    OBVIOUS
  <2> QED
    BY <2>1, ByteRange
<1>2. ASSUME Len(column) = 4, \A j \in 1 .. 4 : column[j] \in 0 .. 255
      PROVE  TokeIP(column, array) = column
  <2>1. column = [j \in 1 .. 4 |-> column[j]]
    BY <1>2
  <2>2. ASSUME NEW j \in 1 .. 4
        PROVE  TokeIP(column, array)[j] = column[j]
    <3>1. column[j] \in 0 .. 255
      BY <1>2
    <3>2. TokeIP(column, array)[j] = Byte(column[j])
      BY <1>2 DEF TokeIP
    <3> QED
      BY <3>1, <3>2, ByteRange
  <2> QED
    BY <2>1, <2>2 DEF TokeIP
<1> QED
  BY <1>1, <1>2

-----------------------------------------------------------------------------
LEMMA LookUpStarts == LookUpInit => LookUpInv
<1> SUFFICES ASSUME LookUpInit PROVE LookUpInv
  OBVIOUS
<1>1. LookUpTypeOK
  BY CountTypes, JunkAssumption DEF LookUpInit, LookUpTypeOK, Results
<1> QED
  BY <1>1 DEF LookUpInit, LookUpInv, ScannedInVain, LookUpCorrect, ByRule

(* Everything but the scan and its results only changes with the step.      *)
LEMMA ReadLineKeeps ==
  ASSUME LookUpInv, ReadLine
  PROVE  LookUpInv'
<1> DEFINE l == file[line + 1]
<1> DEFINE m == [i \in 1 .. 3 |-> IF i <= Len(l) THEN Byte(l[i][1]) ELSE _m[i]]
<1> USE DEF LookUpInv, LookUpTypeOK
<1>1. /\ result = "reading" /\ line > 0 /\ line < LineCount /\ line' = line + 1
      /\ _m' = m
      /\ ipArray' = IF Len(l) >= 4 THEN TokeIP(l[4], ipArray) ELSE ipArray
      /\ result' = IF Len(l) >= 4 /\ \A i \in 1 .. 3 : m[i] = board[i]
                   THEN "found" ELSE "reading"
      /\ file' = file /\ board' = board
  BY DEF ReadLine
<1>2. /\ LineCount \in Nat /\ line \in Nat /\ line + 1 \in 2 .. LineCount
      /\ LineCount' = LineCount
  BY <1>1, CountTypes DEF LineCount
<1>3. /\ l \in Seq(Seq(Int) \ {<<>>}) /\ Len(l) \in Nat
      /\ \A i \in 1 .. Len(l) : l[i] \in Seq(Int) /\ Len(l[i]) > 0 /\ l[i][1] \in Int
  <2>1. line + 1 \in 1 .. LineCount /\ file \in Files
    BY <1>2
  <2>2. \A i \in 1 .. Len(l) : l[i] \in Seq(Int) /\ Len(l[i]) > 0 /\ l[i][1] \in Int
    BY <2>1, LineTypes, Zenon
  <2>3. l \in Seq(Seq(Int) \ {<<>>})
    BY <2>1, LineTypes, Zenon
  <2>4. Len(l) \in Nat
    BY <2>3
  <2> QED
    BY <2>2, <2>3, <2>4
<1> HIDE DEF l
<1>4. /\ m \in [1 .. 3 -> 0 .. 255]
      /\ \A i \in 1 .. 3 : i <= Len(l) => m[i] = Byte(l[i][1])
  <2>1. ASSUME NEW i \in 1 .. 3
        PROVE  (IF i <= Len(l) THEN Byte(l[i][1]) ELSE _m[i]) \in 0 .. 255
    <3>1. CASE i <= Len(l)
      <4>0. i \in 1 .. Len(l)
        BY <1>3, <3>1
      <4>1. l[i][1] \in Int
        BY <1>3, <4>0, Zenon
      <4> QED
        BY <3>1, <4>1, ByteRange
    <3>2. CASE ~(i <= Len(l))
      BY <3>2
    <3> QED
      BY <3>1, <3>2
  <2> QED
    BY <2>1
<1> HIDE DEF m
<1>5. LookUpTypeOK'
  <2>1. ipArray' \in [1 .. 4 -> 0 .. 255]
    <3>1. Len(l) >= 4 => l[4] \in Seq(Int)
      BY <1>3
    <3> QED
      BY <1>1, <3>1, TokeIPWhole
  <2>2. line' \in 0 .. LineCount'
    BY <1>1, <1>2
  <2>3. _m' \in [1 .. 3 -> 0 .. 255]
    BY <1>1, <1>4
  <2> QED
    BY <1>1, <2>1, <2>2, <2>3 DEF Results
<1>6. ASSUME WellFormed
      PROVE  /\ result' = IF Names(l, board) THEN "found" ELSE "reading"
             /\ Names(l, board) => ipArray' = l[4]
  <2>1. \A i \in 1 .. Len(l) : \A j \in 1 .. Len(l[i]) : l[i][j] \in 0 .. 255
    BY <1>2, <1>6 DEF WellFormed, l
  <2>2. Len(l) >= 4 => Len(l[4]) = 4
    BY <1>2, <1>6 DEF WellFormed, l
  <2>3. ASSUME Len(l) >= 4, NEW i \in 1 .. 3
        PROVE  m[i] = l[i][1]
    <3>1. i \in 1 .. Len(l)
      BY <1>3, <2>3
    <3>2. 1 \in 1 .. Len(l[i])
      BY <1>3, <3>1
    <3>3. l[i][1] \in 0 .. 255
      BY <2>1, <3>1, <3>2
    <3>4. m[i] = Byte(l[i][1])
      <4>1. i <= Len(l)
        BY <1>3, <2>3
      <4> QED
        BY <1>4, <4>1, Zenon
    <3> QED
      BY <3>3, <3>4, ByteRange
  <2>4. result' = IF Names(l, board) THEN "found" ELSE "reading"
    BY <1>1, <2>3 DEF Names
  <2>5. ASSUME Len(l) >= 4
        PROVE  ipArray' = l[4]
    <3>1. 4 \in 1 .. Len(l)
      BY <1>3, <2>5
    <3>2. l[4] \in Seq(Int) /\ Len(l[4]) = 4 /\ \A j \in 1 .. 4 : l[4][j] \in 0 .. 255
      BY <1>3, <2>1, <2>2, <2>5, <3>1
    <3> QED
      BY <1>1, <2>5, <3>2, TokeIPWhole
  <2> QED
    BY <2>4, <2>5 DEF Names
<1>7. WellFormed' = WellFormed /\ Entries(board)' = Entries(board)
  BY <1>1, <1>2 DEF WellFormed, Entries
<1>8. WellFormed' /\ result' = "reading" => ScannedInVain'
  <2> SUFFICES ASSUME WellFormed, result' = "reading", NEW k \in 2 .. line + 1
               PROVE  ~Names(file[k], board)
    BY <1>1, <1>7 DEF ScannedInVain, Names
  <2>1. CASE k = line + 1
    BY <1>6, <2>1 DEF l
  <2>2. CASE k # line + 1
    BY <1>1, <1>2, <2>2 DEF ScannedInVain
  <2> QED
    BY <2>1, <2>2
<1>9. LookUpCorrect'
  <2> SUFFICES ASSUME WellFormed, result' = "found"
               PROVE  /\ line' \in Entries(board) /\ \A k \in Entries(board) : line' <= k
                      /\ ipArray' = file[line'][4]
    BY <1>1, <1>7 DEF LookUpCorrect
  <2>1. Names(l, board) /\ ipArray' = l[4]
    BY <1>6
  <2>2. line' \in Entries(board)
    BY <1>1, <1>2, <2>1 DEF Entries, l
  <2>3. ASSUME NEW k \in Entries(board)
        PROVE  line' <= k
    BY <1>1, <1>2 DEF Entries, ScannedInVain
  <2> QED
    BY <1>1, <2>1, <2>2, <2>3 DEF l
<1>10. ByRule'
  BY <1>1 DEF ByRule
<1> QED
  BY <1>1, <1>5, <1>8, <1>9, <1>10 DEF Accepted

LEMMA UseDefaultKeeps ==
  ASSUME LookUpInv, UseDefault
  PROVE  LookUpInv'
<1> USE DEF LookUpInv, LookUpTypeOK
<1>1. /\ result = "reading" /\ Accepted(board) /\ line >= LineCount
      /\ ipArray' = Default(board) /\ result' = "default"
      /\ file' = file /\ board' = board /\ line' = line /\ _m' = _m
  BY DEF UseDefault
<1>2. LineCount \in Nat /\ line = LineCount /\ LineCount' = LineCount
  BY <1>1, CountTypes DEF LineCount
<1>3. ipArray' \in [1 .. 4 -> 0 .. 255]
  BY <1>1, BoardTypes, RuleBytes
<1>4. LookUpTypeOK'
  BY <1>1, <1>2, <1>3 DEF Results
<1>5. LookUpCorrect'
  <2>1. WellFormed => Entries(board) = {}
    BY <1>1, <1>2 DEF Entries, ScannedInVain
  <2>2. WellFormed' = WellFormed /\ Entries(board)' = Entries(board)
    BY <1>1, <1>2 DEF WellFormed, Entries
  <2> QED
    BY <1>1, <2>1, <2>2 DEF LookUpCorrect, Default
<1>6. ByRule'
  BY <1>1 DEF ByRule, Accepted, Default
<1> QED
  BY <1>1, <1>4, <1>5, <1>6 DEF Accepted

LEMMA LookUpInvHolds == LookUpSpec => []LookUpInv
<1>1. LookUpInv /\ [LookUpNext]_lookUpVars => LookUpInv'
  <2> SUFFICES ASSUME LookUpInv, [LookUpNext]_lookUpVars PROVE LookUpInv'
    OBVIOUS
  <2> USE DEF LookUpInv, LookUpTypeOK
  <2>1. CASE RefuseArguments
    BY <2>1 DEF RefuseArguments, LineCount, Results, LookUpCorrect, WellFormed, ByRule
  <2>2. CASE ReadHeader
    <3>1. line' = 1 /\ line' \in 0 .. LineCount' /\ Accepted(board')
      BY <2>2, CountTypes DEF ReadHeader, LineCount
    <3> QED
      BY <2>2, <3>1 DEF ReadHeader, ScannedInVain, LookUpCorrect, ByRule
  <2>3. CASE UNCHANGED lookUpVars
    <3>1. /\ file' = file /\ board' = board /\ line' = line /\ _m' = _m
          /\ ipArray' = ipArray /\ result' = result /\ LineCount' = LineCount
      BY <2>3 DEF lookUpVars, LineCount
    <3>2. WellFormed' = WellFormed /\ Entries(board)' = Entries(board)
      BY <3>1 DEF WellFormed, Entries
    <3>3. LookUpCorrect'
      BY <3>1, <3>2 DEF LookUpCorrect
    <3>4. (line > 0 => Accepted(board))' /\ (WellFormed /\ result = "reading" => ScannedInVain)'
      BY <3>1, <3>2 DEF Accepted, ScannedInVain, Names
    <3>5. ByRule'
      BY <3>1 DEF ByRule, Accepted, Default
    <3> QED
      BY <3>1, <3>3, <3>4, <3>5
  <2> QED
    BY <2>1, <2>2, <2>3, ReadLineKeeps, UseDefaultKeeps DEF LookUpNext
<1> QED
  BY LookUpStarts, <1>1, PTL DEF LookUpSpec

(* What the scan finds is the first entry for the board, whole; without an  *)
(* entry it is the address by rule.                                         *)
THEOREM LookUpRight == LookUpSpec => []LookUpCorrect
<1>1. LookUpInv => LookUpCorrect
  BY DEF LookUpInv
<1> QED
  BY LookUpInvHolds, <1>1, PTL

(* Two accepted boards by rule: same address means same cabinet and         *)
(* chassis, and same slot but for slots 0 and 16.                           *)
THEOREM DefaultOwned == LookUpSpec => []DefaultIsOwn
<1>1. LookUpInv => DefaultIsOwn
  <2> SUFFICES ASSUME LookUpInv, result = "default"
               PROVE  Shared <=> board[3] = 0
    BY DEF DefaultIsOwn
  <2>1. /\ ipArray = Default(board) /\ Accepted(board)
        /\ board = <<board[1], board[2], board[3]>>
        /\ board[1] \in 0 .. 15 /\ board[2] \in 0 .. 15 /\ board[3] \in 0 .. 16
    BY BoardTypes DEF LookUpInv, LookUpTypeOK, ByRule, Accepted
  <2>2. /\ Default(board)[3] = board[1] * 16 + board[2]
        /\ board[3] = 0 => Default(board)[4] = 241
        /\ board[3] # 0 => Default(board)[4] = board[3] * 16 - 15
    BY <2>1, RuleBytes
  <2>3. ASSUME NEW b \in Documented
        PROVE  /\ b = <<b[1], b[2], b[3]>>
               /\ b[1] \in 0 .. 15 /\ b[2] \in 0 .. 15 /\ b[3] \in 1 .. 16
               /\ Default(b)[3] = b[1] * 16 + b[2]
               /\ Default(b)[4] = b[3] * 16 - 15
    <3>1. /\ b = <<b[1], b[2], b[3]>>
          /\ b[1] \in 0 .. 15 /\ b[2] \in 0 .. 15 /\ b[3] \in 1 .. 16
      BY DEF Documented
    <3>2. Accepted(b)
      BY <3>1 DEF Accepted
    <3> QED
      BY <3>1, <3>2, RuleBytes
  <2>4. CASE board[3] = 0
    <3> DEFINE b == <<board[1], board[2], 16>>
    <3>1. b \in Documented /\ b # board
      BY <2>1, <2>4 DEF Documented
    <3>2. Byte(16 * 16 + 256 - 15) = Byte(0 * 16 + 256 - 15)
      BY DEF Byte
    <3>3. Default(b) = Default(board)
      BY <2>1, <2>4, <3>2 DEF Default
    <3> QED
      BY <2>1, <2>4, <3>1, <3>3 DEF Shared
  <2>5. CASE board[3] # 0
    <3> SUFFICES ASSUME NEW b \in Documented, Default(b) = Default(board)
                 PROVE  b = board
      BY <2>1, <2>5 DEF Shared
    <3>1. b[1] * 16 + b[2] = board[1] * 16 + board[2] /\ b[3] * 16 - 15 = board[3] * 16 - 15
      BY <2>2, <2>3, <2>5
    <3>2. b[1] = board[1] /\ b[2] = board[2] /\ b[3] = board[3]
      BY <2>1, <2>3, <3>1
    <3> QED
      BY <2>1, <2>3, <3>2
  <2> QED
    BY <2>4, <2>5
<1> QED
  BY LookUpInvHolds, <1>1, PTL

(* Lines left to read, and the end of the file.                             *)
LinesLeft == IF result = "reading" THEN 1 + LineCount - line ELSE 0

(* Every step of a look-up brings its end nearer.                           *)
LookUpGoesOn == [][LinesLeft' < LinesLeft /\ LinesLeft \in Nat]_lookUpVars

(* So a look-up ends after one step per line and one more, for any file.    *)
THEOREM LookUpEnds == LookUpSpec => LookUpGoesOn
<1>1. ASSUME LookUpInv, LookUpNext
      PROVE  LinesLeft \in Nat /\ LinesLeft' < LinesLeft
  <2> USE <1>1 DEF LookUpInv, LookUpTypeOK, LinesLeft
  <2>1. LineCount \in Nat
    BY CountTypes
  <2>2. result = "reading" /\ (result' = "reading" => line' = line + 1 /\ LineCount' = LineCount)
    BY DEF LookUpNext, RefuseArguments, ReadHeader, ReadLine, UseDefault, LineCount
  <2> QED
    BY <2>1, <2>2
<1>2. LookUpInv /\ [LookUpNext]_lookUpVars =>
        [LinesLeft' < LinesLeft /\ LinesLeft \in Nat]_lookUpVars
  BY <1>1
<1> QED
  BY LookUpInvHolds, <1>2, PTL DEF LookUpSpec, LookUpGoesOn
=============================================================================
