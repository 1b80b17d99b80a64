------------------------------ MODULE UdpSocket ------------------------------
(***************************************************************************)
(* The UDP library (udpSocketLib.c): a table of descriptors, one receive   *)
(* thread per socket, and one text buffer, s_udpSocketAddress, in which    *)
(* udpGetRecvAddress hands out the address of a sender to all of them.     *)
(*                                                                         *)
(* One thread of the application makes the calls, as NetInit does; the     *)
(* receive threads run beside it, udpCreateSocket included.  Any resource  *)
(* the library asks for (socket, bind, malloc, pthread_create) may be      *)
(* refused.  A call that is refused and a failed recvfrom change nothing   *)
(* and are no steps; what the calls answer is left out, because only       *)
(* NetInit looks at an answer, that of udpCreateSocket.                    *)
(***************************************************************************)
EXTENDS Integers

CONSTANTS
  MaxSockets,  \* MAX_SOCKET_COUNT
  Hosts,       \* addresses that inet_addr can read
  Bad,         \* the address inet_addr answers for a text it cannot read
  SenderPorts, \* source ports of packets, 0 is one
  BindArgs,    \* <<address, port>> arguments of udpBindPeer
  GroupArgs    \* group arguments of udpCreateSocket and udpJoinGroup

IDs        == 0 .. MaxSockets - 1
ValidPorts == 1 .. 65535
Senders    == Hosts \X SenderPorts
NoPeer     == <<Bad, 0>>

ASSUME SocketsAssumption == MaxSockets \in Nat \ {0}
ASSUME HostsAssumption   == Bad \notin Hosts
ASSUME PortsAssumption   == SenderPorts \subseteq 0 .. 65535
ASSUME ArgsAssumption    == /\ BindArgs \subseteq (Hosts \cup {Bad}) \X Int
                            /\ GroupArgs \subseteq Hosts \cup {Bad}

VARIABLES
  call,      \* <<step, descriptor>> of the application inside udpCreateSocket
  useable,   \* descriptors whose nUseable is set
  open,      \* id -> sockets of the descriptor that are open
  attached,  \* descriptors with a callbackRecv
  bound,     \* descriptors whose nPeerBinded is set
  sendTo,    \* id -> peeraddr_send
  groups,    \* id -> groups the socket is a member of
  broadcast, \* descriptors with SO_BROADCAST
  thread,    \* id -> where its receive thread is
  recvFrom,  \* id -> peeraddr_recv, the sender of the packet in pRecvBuffer
  s_udpSocketAddress, \* the text of the last address looked up, Bad for none
  sent,      \* the last datagram: whom it goes to, whom it is meant for
  goodBind   \* history: id -> the peer of the last udpBindPeer, if it succeeded

desvars  == <<useable, open, attached, bound, sendTo, groups, broadcast, goodBind>>
netvars  == <<thread, recvFrom, s_udpSocketAddress, sent>>
vars     == <<call, desvars, netvars>>

Idle    == <<"idle", 0>>
Steps   == {"bind", "thread", "group"}
Places  == {"none", "start", "recv", "received", "looked", "ended"}
Datagrams == [to : (Hosts \cup {Bad}) \X Int, for : (Hosts \cup {Bad}) \X Int]

Init ==
  /\ call = Idle
  /\ useable = {} /\ attached = {} /\ bound = {} /\ broadcast = {}
  /\ open = [i \in IDs |-> 0]
  /\ sendTo = [i \in IDs |-> NoPeer]
  /\ groups = [i \in IDs |-> {}]
  /\ thread = [i \in IDs |-> "none"]
  /\ recvFrom = [i \in IDs |-> NoPeer]
  /\ s_udpSocketAddress = Bad
  /\ sent = [to |-> NoPeer, for |-> NoPeer]
  /\ goodBind = [i \in IDs |-> NoPeer]

-----------------------------------------------------------------------------
(* udpCreateSocket, in the steps the new thread can tell apart.             *)

(* The first empty entry gets a socket.  Without an empty entry, a readable *)
(* address or a socket the call ends here and changes nothing.              *)
Create(i) ==
  /\ call = Idle
  /\ i \notin useable /\ 0 .. i - 1 \subseteq useable
  /\ open' = [open EXCEPT ![i] = @ + 1]
  /\ call' = <<"bind", i>>
  /\ UNCHANGED <<useable, attached, bound, sendTo, groups, broadcast, goodBind, netvars>>

(* Mutant: the socket of a creation that failed is not closed.              *)
CreateFailsOpen(i) ==
  /\ call = <<"bind", i>>
  /\ call' = Idle
  /\ UNCHANGED <<desvars, netvars>>

(* bind or malloc fails: the socket is closed again.                        *)
CreateFails(i) ==
  /\ call = <<"bind", i>>
  /\ open' = [open EXCEPT ![i] = @ - 1]
  /\ call' = Idle
  /\ UNCHANGED <<useable, attached, bound, sendTo, groups, broadcast, goodBind, netvars>>

MakeUseable(i) ==
  /\ call = <<"bind", i>>
  /\ useable' = useable \cup {i}
  /\ call' = <<"thread", i>>
  /\ UNCHANGED <<open, attached, bound, sendTo, groups, broadcast, goodBind, netvars>>

(* Whether pthread_create succeeded is not noticed: nRecvThreadID, which is *)
(* compared with ERROR, is never assigned.                                  *)
StartThread(i) ==
  /\ call = <<"thread", i>>
  /\ \E created \in BOOLEAN :
       thread' = [thread EXCEPT ![i] = IF created THEN "start" ELSE @]
  /\ call' = <<"group", i>>
  /\ UNCHANGED <<desvars, recvFrom, s_udpSocketAddress, sent>>

(* A group that cannot be joined is only reported.                          *)
MayJoin(i, g) == groups' \in {groups} \cup {[groups EXCEPT ![i] = @ \cup ({g} \ {Bad})]}

CreateEnds(i) ==
  /\ call = <<"group", i>>
  /\ \/ UNCHANGED groups
     \/ \E g \in GroupArgs : MayJoin(i, g)
  /\ call' = Idle
  /\ UNCHANGED <<useable, open, attached, bound, sendTo, broadcast, goodBind, netvars>>

-----------------------------------------------------------------------------
(* The other calls of the application.                                      *)

(* A call with descriptor i gets past udpGetDes; a descriptor that was not  *)
(* created is refused and nothing changes.                                  *)
UdpGetDes(i) == call = Idle /\ i \in useable

JoinGroup(i, g) ==
  /\ UdpGetDes(i)
  /\ MayJoin(i, g)
  /\ UNCHANGED <<call, useable, open, attached, bound, sendTo, broadcast, goodBind, netvars>>

Unbind(i) ==
  /\ UdpGetDes(i)
  /\ bound' = bound \ {i}
  /\ goodBind' = [goodBind EXCEPT ![i] = NoPeer]
  /\ UNCHANGED <<call, useable, open, attached, sendTo, groups, broadcast, netvars>>

(* An address and a port that udpBindPeer accepts.                          *)
Good(p) == p[1] # Bad /\ p[2] \in ValidPorts

(* Mutant: an address that cannot be read leaves the old binding.           *)
BindPeerStale(i, p) ==
  /\ UdpGetDes(i)
  /\ sendTo' = IF p[2] \notin ValidPorts THEN sendTo
               ELSE [sendTo EXCEPT ![i] = IF p[1] = Bad THEN <<Bad, @[2]>> ELSE p]
  /\ bound' = IF Good(p) THEN bound \cup {i}
              ELSE IF p[1] = Bad THEN bound ELSE bound \ {i}
  /\ goodBind' = [goodBind EXCEPT ![i] = IF Good(p) THEN p ELSE NoPeer]
  /\ UNCHANGED <<call, useable, open, attached, groups, broadcast, netvars>>

(* A bad port is refused before, a bad address after it is stored; both     *)
(* unbind.                                                                  *)
BindPeer(i, p) ==
  /\ UdpGetDes(i)
  /\ sendTo' = IF p[2] \notin ValidPorts THEN sendTo
               ELSE [sendTo EXCEPT ![i] = IF p[1] = Bad THEN <<Bad, @[2]>> ELSE p]
  /\ bound' = IF Good(p) THEN bound \cup {i} ELSE bound \ {i}
  /\ goodBind' = [goodBind EXCEPT ![i] = IF Good(p) THEN p ELSE NoPeer]
  /\ UNCHANGED <<call, useable, open, attached, groups, broadcast, netvars>>

(* Only a bound socket sends; sendto may fail, which changes nothing.       *)
SendPeer(i) ==
  /\ UdpGetDes(i) /\ i \in bound
  /\ sent' = [to |-> sendTo[i], for |-> goodBind[i]]
  /\ UNCHANGED <<call, desvars, thread, recvFrom, s_udpSocketAddress>>

AttachRecv(i) ==
  /\ UdpGetDes(i)
  /\ attached' = attached \cup {i}
  /\ UNCHANGED <<call, useable, open, bound, sendTo, groups, broadcast, goodBind, netvars>>

(* udpEnableBroadCast and udpDisableBroadCast; setsockopt may fail.         *)
SetBroadCast(i, on) ==
  /\ UdpGetDes(i)
  /\ broadcast' = IF on THEN broadcast \cup {i} ELSE broadcast \ {i}
  /\ UNCHANGED <<call, useable, open, attached, bound, sendTo, groups, goodBind, netvars>>

-----------------------------------------------------------------------------
(* The receive thread of socket i, with OnSocket as its callback.           *)

ThreadStarts(i) ==
  /\ thread[i] = "start"
  /\ thread' = [thread EXCEPT ![i] = IF i \in useable THEN "recv" ELSE "ended"]
  /\ UNCHANGED <<call, desvars, recvFrom, s_udpSocketAddress, sent>>

(* recvfrom fills in the packet and its sender.                             *)
Receive(i, p) ==
  /\ thread[i] = "recv"
  /\ recvFrom' = [recvFrom EXCEPT ![i] = p]
  /\ thread' = [thread EXCEPT ![i] = "received"]
  /\ UNCHANGED <<call, desvars, s_udpSocketAddress, sent>>

(* Mutant: the thread ends when nothing is attached yet.                    *)
DropEnds(i) ==
  /\ thread[i] = "received" /\ i \notin attached
  /\ thread' = [thread EXCEPT ![i] = "ended"]
  /\ UNCHANGED <<call, desvars, recvFrom, s_udpSocketAddress, sent>>

(* A packet that comes before udpAttachRecv is lost.                        *)
Drop(i) ==
  /\ thread[i] = "received" /\ i \notin attached
  /\ thread' = [thread EXCEPT ![i] = "recv"]
  /\ UNCHANGED <<call, desvars, recvFrom, s_udpSocketAddress, sent>>

(* Mutant: the text is kept while it holds an address.                      *)
LookUpOnce(i) ==
  /\ thread[i] = "received" /\ i \in attached
  /\ s_udpSocketAddress' = IF s_udpSocketAddress = Bad THEN recvFrom[i][1]
                           ELSE s_udpSocketAddress
  /\ thread' = [thread EXCEPT ![i] = "looked"]
  /\ UNCHANGED <<call, desvars, recvFrom, sent>>

(* OnSocket looks up the address, of which it gets a pointer to the shared  *)
(* text, and the port, which it keeps.                                      *)
LookUp(i) ==
  /\ thread[i] = "received" /\ i \in attached
  /\ s_udpSocketAddress' = recvFrom[i][1]
  /\ thread' = [thread EXCEPT ![i] = "looked"]
  /\ UNCHANGED <<call, desvars, recvFrom, sent>>

(* udpSendPeerEx reads the text when the packet has been handled; it        *)
(* refuses port 0, and sendto may fail.  A packet of a type that is not     *)
(* acknowledged has no answer.                                              *)
Answer(i) ==
  /\ thread[i] = "looked"
  /\ \/ UNCHANGED sent
     \/ /\ recvFrom[i][2] \in ValidPorts
        /\ sent' = [to |-> <<s_udpSocketAddress, recvFrom[i][2]>>, for |-> recvFrom[i]]
  /\ thread' = [thread EXCEPT ![i] = "recv"]
  /\ UNCHANGED <<call, desvars, recvFrom, s_udpSocketAddress>>

ThreadStep(i) == ThreadStarts(i) \/ Drop(i) \/ LookUp(i) \/ Answer(i)

Calls(i) ==
  \/ Create(i) \/ CreateFails(i) \/ MakeUseable(i) \/ StartThread(i) \/ CreateEnds(i)
  \/ \E g \in GroupArgs : JoinGroup(i, g)
  \/ \E p \in BindArgs : BindPeer(i, p)
  \/ Unbind(i) \/ SendPeer(i) \/ AttachRecv(i)
  \/ \E on \in BOOLEAN : SetBroadCast(i, on)

Next ==
  \E i \in IDs :
       \/ Calls(i)
       \/ ThreadStep(i)
       \/ \E p \in Senders : Receive(i, p)

(* The receive threads are threads of a process that nobody stops; nothing  *)
(* makes packets arrive or the application call.                            *)
Spec == Init /\ [][Next]_vars /\ \A i \in IDs : WF_vars(ThreadStep(i))

-----------------------------------------------------------------------------
(* The descriptors, the sockets and the threads are well formed.            *)
TypeOK ==
  /\ call \in {Idle} \cup (Steps \X IDs)
  /\ useable \subseteq IDs /\ attached \subseteq useable
  /\ bound \subseteq useable /\ broadcast \subseteq useable
  /\ open \in [IDs -> Int]
  /\ sendTo \in [IDs -> (Hosts \cup {Bad}) \X Int]
  /\ groups \in [IDs -> SUBSET Hosts]
  /\ thread \in [IDs -> Places]
  /\ recvFrom \in [IDs -> Senders \cup {NoPeer}]
  /\ s_udpSocketAddress \in Hosts \cup {Bad}
  /\ sent \in Datagrams
  /\ goodBind \in [IDs -> (Hosts \cup {Bad}) \X Int]

(* Whatever udpCreateSocket fails at, it leaves no socket open that has no  *)
(* descriptor: creation can be tried again and again (lines 216-243).       *)
NoSocketLeaked ==
  \A i \in IDs :
    open[i] = IF i \in useable \/ call = <<"bind", i>> THEN 1 ELSE 0

(* A bound socket sends to the peer of the last udpBindPeer, and that call  *)
(* succeeded: half of a refused peer is never sent to (lines 325-354).      *)
BoundIsLastGood ==
  \A i \in IDs :
    /\ i \in bound <=> goodBind[i] # NoPeer
    /\ i \in bound => sendTo[i] = goodBind[i] /\ sendTo[i][1] # Bad

(* As in this program, at most one socket has a callback.                   *)
OneListener == \A i, j \in attached : i = j

(* An answer goes to the port of the packet's sender, and, as long as only  *)
(* one socket has a callback, as in this program, to its address too: with  *)
(* two, one thread may overwrite the text the other is about to send to.    *)
AnswersItsSender ==
  [][sent' # sent =>
       /\ sent'.to[2] = sent'.for[2]
       /\ OneListener => sent'.to = sent'.for]_vars

(* A receive thread always comes back to its socket: it does not end, and   *)
(* no packet, dropped or handled, is its last (lines 106-119).              *)
ThreadServes ==
  \A i \in IDs : thread[i] # "none" ~> thread[i] = "recv"
=============================================================================
