# Verification of the switch board application

`src/` is `Linux_switchApp`, the program of the switch board of a RapidIO
chassis (a Zynq with three CPS1848 switch chips). This directory holds a TLA+
model of it, the TLC configurations that check it and the TLAPS proofs about it.
Source lines are given as `file:line` of `src/src/`; the sources are in GBK.

## 1. The system

`main` (main.c:61-207) opens the three chips, reads the configuration files,
sets the link speed, waits, repairs the ports, enumerates the network (slot 6
only, logging into flash), opens the UDP socket (slot 6 only) and forks. From
then on there are three flows of control:

```
  parent process                                child process
  ------------------------------------------    --------------------------
  serial menu          receive thread           IicSelfTest; LinkDetect
  (SlectUartMenu)      (OnSocket, port 6000)    (for ever, one after the other)
        |                    |                          |
        +---- get_1848_reg / set_1848_reg --------------+
              (lseek + read/write on descriptors opened before the fork)
```

The processes share no memory, but they share the open files of the chips (and
so their offsets), the registers behind them and the flash.

| component | state | operations | interacts with | what makes it correct |
|---|---|---|---|---|
| notification protocol (udp_net.c, udp_fun.c) | `statusArr`, `registerArr`, `RebootArr`, `hrReadynumbers`, `hrBackupIndex`, `NotifyPkt`, `ackPkt` | STATE, STOP, RESTORE and other packets, acknowledgements | UDP library, port registers | the counter is what it counts; registration agrees with the port; an acknowledgement means the work is done; the thread comes back |
| register driver (cps1848.c) | three descriptors and their file offsets | open, get, set | every component that touches a chip | an access reaches the register it names; a failed one is noticed |
| link repair (iic_srio1848.c:997-1163) | port control 0x15c, ackid 0x148, link request 0x140/0x144, routing 0x70/0x74 | `RepairLinkPartner`, `LinkDetect` | vendor library, notification protocol (same registers) | a partner that reset comes back; the port is open only with its routes; a failed repair is retried |
| port maintenance (iic_srio1848.c) | status registers of ports and lanes, PLLs | port repair, clear, error detection, statistics, speed | menu, boot | errors are found and cleared; the ports of one PLL change together |
| self test (iic_slave.c) | `SendBuffer`, a call counter, the RIO UART | `IicSelfTest` | child process, block RAM read by a management controller | what is published is one consistent reading |
| serial menu (uartMenu.c) | five characters, an index, the configuration flag | viewing and configuration keys | everything it calls | configuration commands run only behind `enter` |
| log flash (flash.c) | the sector and its header, switch, offset, length | log at boot, finish, open, close, show | boot, menu, vendor library | NOR flash is programmed only where it is erased; the log of a failed boot survives |
| UDP library (udpSocketLib.c) | descriptor table, one thread per socket, address of the last sender | create, bind, attach, send, receive | notification protocol | a packet is handled once, its answer goes to its sender |
| boot and configuration (main.c, uartApp.c) | delayTime.txt, speed.txt, sysResetFile.txt | read at boot, rewritten by the menu | everything | what the operator set is what the next boot does |
| IP configuration (udp_net.c:230-348) | ipAddrFile.txt | look up, default | UDP library | the address of the board it is asked for (`NetInit` always asks for cabinet 0, chassis 1, slot 1) |
| memory mapped I/O (xil_io.c) | | loads and stores | flash, self test | |
| vendor library (lib/) | a binary | enumeration, routing, topology | boot, menu, link repair | |

What is hard about it: the three flows interleave on the same chips; packets
are lost, repeated and late; accesses fail, and the failure looks like data
(0xffff); several loops have no bound; the flash is rewritten by a program that
may lose power anywhere. `PROJECT.json` lists the hazards at their lines, each
with the properties that cover it or a note that says why none does.

## 2. The modules

| module | what it models |
|---|---|
| `HrNotify` | the receive thread, one action per packet type and per register access |
| `HrRegistry` | what it promises: a registry of boards, without packets, threads or registers |
| `UartMenu` | the label matcher and the dispatch of the menu |
| `MenuLock` | what it promises: a lock in front of the configuration commands |
| `LinkRepair` | the link watch of the child process, one action per register access, with the boards and the operator |
| `PortCycle` | what it promises: the cycle of a port out of service, through repair and back, without registers or retries |
| `LogFlash` | the log sector over restarts, power failures and menu keys |
| `PortControl` | one port's control register under receive thread, child process and menu together |
| `SharedRegs` | the register driver: seek and access with one position per chip |
| `AtomicRegs` | what it promises: registers that are accessed one at a time |
| `UdpSocket` | the UDP library: descriptors, receive threads, the shared address text |
| `BootConfig` | the boot and the three configuration files over restarts and power failures |
| `SelfTest` | the self test of the child process and what it publishes |
| `IpTable` | the look-up of a board's address |

`MC<module>` and `<module>_<run>.cfg` are the instances for TLC,
`<module>Proofs` the theorems; `DeviceProofs` has those of `SharedRegs` and
`SelfTest`, `NetProofs` those of `UdpSocket` and `IpTable`.

How they fit together. `SharedRegs` says when `get_1848_reg` and `set_1848_reg`
may be taken for one step: while no other flow is in an access of the same chip
(`AtomicRegs`). `HrNotify`, `LinkRepair` and `PortControl` take them so. `HrNotify` and `LinkRepair` are one flow each, with everything it does and
with accesses that fail; `PortControl` is the composition of these flows and the
menu at the one register they all change, with accesses that succeed. `UdpSocket`
is what carries the packets of `HrNotify` and takes its answers. `UartMenu` lets
keys through to the commands, which are actions of `LogFlash`, `LinkRepair`,
`PortControl` and `BootConfig`. The boot of `LogFlash` is the step between the
waits and the check for a reset of `BootConfig`.

Operators that are described as mutants (`FreshRepeated`, ...) are plausible
bugs of the definition that follows them. They are not part of the
specification: replacing the definition by its mutant makes a property fail,
which shows that the property depends on that code.

### HrNotify

The variables have the names of the C globals. `rxtx` and `ackid` are the two
registers the handler changes, per port. `pc` is where the thread is: waiting
for a packet (`recv`), before each register access of
`disable_1848_port_rxtx`, `reset_1848_ackid` and `enable_1848_port_rxtx`, or
before `sendReplyAckPkt`. What the handler does between two register accesses
touches only variables of the thread, so it is one action with the packet.

The network is not a variable: any packet of `Boards` may arrive whenever the
thread waits, which includes every loss, repetition, delay and reordering.
`Traffic` is the link partner: while a port is open its ackid moves on.
`Dead` chips fail every access (`Init_1848` found no device and `main` goes on),
`Flaky` ones may fail any.

Left out: the branches under `doorBellFlag` (nothing sets it); the slot bytes of
STOP and RESTORE outside the chassis, which index the arrays unchecked
(udp_net.c:101-108, 136); the suffix bytes that `parseNotifyPktStruct` stores
beyond the structure for packets longer than it; the low bits of 0x15c. The
child process may repair the port of the same board at the same time, which is
`PortControl`: the port properties of `HrNotify` speak of boards that are not
being repaired.

### LinkRepair

`step` is where the child process is in `RepairLinkPartner`, `link` the port of
`LinkDetect`. A step is one register access with what the code does up to the
next one; the two writes of a routing entry (0x70, then 0x74) are two steps, and
`todo` holds the entries still to be written. `PartnerResets`, `PartnerAnswers`
and `Traffic` are the board at the other end, at any moment; `OperatorClears` is
key `r` in the parent process, register by register. `configured` says that the
board has routes and an ID: `hlSrioReconfigLUT` gives them, a reset takes them.

Two histories say why a board may stay unrepaired. `late`: it was reset after it
had been configured and before its error registers were cleared, so that they
are cleared for both resets; the code asks the boards not to do that
(iic_srio1848.c:1093). `wiped`: the operator cleared the registers by which
`LinkDetect` would have found it.

`PortCycle` is what the watch promises of the ports on chips that always answer:
only a port whose board lost its configuration is closed, one board at a time is
configured and only when no packet goes to it, and a port opens after that with
all its routes. `Phase` and `RoutesTo` are the refinement mapping: a port is
`open` or `shut` by its gates, and in between by how far the repair is.

Left out: registers that nothing here reads (0xf2000c, 0xf20300, 0xf40008,
0x158); the delays, except that others may act between any two accesses; routes
of an enumeration that the menu starts at the same time; boards with more than ten
IDs (`ArrayAssumption`: `hlSrioGetSwLocalID` fills the ten places of `_childID`
before line 1062 looks at the count and cuts the list). The bits of 0x15c are those the mode
0xd0400001 tells apart: the output bit is in it, the input bit is not.

### UartMenu

One action per character: `KeyLocked` and `KeyUnlocks` are the two ways through
the viewing state, `KeyUnlocked` the configuration state. `MatchStep` is
`isValidLabel`: `Depth` is how deep its nested conditions go. Commands are
named by their key and belong to the modules of their components. The history
`typed` is what the operator typed since the viewing state was entered: the
last five characters that are not stars, which the matcher does not see.

### LogFlash

`written` is the set of words programmed since they were erased, `head` and
`headLength` the first words of the header: 0xABCD or not, and the length. An
erase or a write has a beginning and an end, power may fail in between with any
part done. Both may time out, too, with any part done: `Erase_Flash` is looked at
by `WriteLogFlash` only, `writedata` by nobody. `WriteLogFile` advances offset and
length for words that were not programmed (flash.c:307-310), and a header is
programmed over what a failed erase left: `Over` says which lengths that may
give, knowing that programming only clears bits. `ManualEnumeration` is key `5`,
with whatever messages the vendor library logs; `ShowKey` is key `c`.

`Unwritten` stands for every length with an erased word in it: the two words are
programmed low half first, so that such a length is above 65535, longer than the
buffer of `ReadLogInfo`. `missing` (history) holds the words a failed write
skipped and those an erase took that was not completed, `aborted` (history) the
log of a boot that did not get its header.

Left out: what the words hold, and with it bits of a word that an interrupted
write or erase leaves half changed: a word is as it was, programmed or erased. The
word a write fails at counts as missing.

### PortControl

`reg` is register 0x15c of one port: the disable bit, the two gates and the
lock; `data[f]` is the copy flow `f` made of it before it changes some bits and
writes it back. A step is one access. `Thread` is
`disable_1848_port_rxtx` and `enable_1848_port_rxtx` for a STOP and a RESTORE,
`Child` the same two and the mode write of `RepairLinkPartner`, `Menu` the five
stages of `iic_ChangePLL` and the repair of key `r` (and of the boot):
`iic_1848PortRepair` of the three chips in turn. For chip 2 that begins with a loop
over its two end points, ports 1 and 9, that ends only when both are up and show no
error stop (iic_srio1848.c:47-101): `EndPointsIll` is a turn of it, for whatever
reason, `EndPointsWell` its end. The single pass over the ports follows
(`ScanStopped`, `ScanWell`), in which the port of the Zynq is reset in place of
the recovery. `port` says which port the register belongs to, `pass` which of the
two parts the recovery under way belongs to. `Get`, `Set`
and `Goes` are the three kinds of step. `flows` says which of them run: the boot
is the menu alone.

Histories: `stopped` is `registerArr`, `reopened` a repair since the STOP,
`givenUp` a repair that left the port closed, `overlap` a write while another
flow held an older copy. Overlaps happen, and what they can do is stated:
between thread and child nothing is lost, because both loop until the gates
read back as they want them (`ClosedForAReason` holds with overlaps); the menu
does not look at what it wrote, so that `MaintenanceLeavesNoTrace` is for runs
without an overlap, and with the menu in it so are the other two.

Left out: registers that are only written, or read and shown (TTL, the counters,
the error rate registers, lane statistics), those `iic_SwPortClear` clears after
the repair (they are in `LinkRepair`), and the lane registers of the Zynq's port; the
cause of an ill end point other than an error stop of this port; the other ports of the PLL, which
`iic_ChangePLL` treats one after the other in the same way; failing accesses,
which are in `HrNotify` and `LinkRepair`.

### SharedRegs

`pos[c]` is the position of the file of chip `c`, `request[f]` the access whose
`lseek` flow `f` has made. `Read` and `Write` work wherever the position is by
then. `Use` says which chips a flow accesses; flows may share chips, as the
parent and the child do after the fork. `disturbed` (history) holds the flows
whose chip another flow has sought, read or written since their own seek.
`AtomicRegs` is what is left of the promise: an access nobody disturbed is one
step on the register it names, a disturbed one may read anything and write any
register of its chip or none, and no access reaches another chip or touches
another flow's answer.

### UdpSocket

One thread of the application calls, as `NetInit` does; `udpCreateSocket` is cut
where the new receive thread can see a difference. A receive thread goes from
`recvfrom` to the callback, for which the look-up of the address and the sending
of the answer are two steps, because the text between them is shared by all
threads. Any resource may be refused. `goodBind` (history) is the peer of the
last successful `udpBindPeer`.

Left out: what the calls answer (nothing but `NetInit` looks, at the descriptor),
so that a refused call is no step; `udpSetParentData`, `udpGetParentData` and
`udpGetSocketFD`, which copy one field; the `udpTest` functions, which nothing
calls; contents of packets.

### SelfTest

`Due` is the test of the static counter with its wrap, `PollSend` and
`PollReceive` the two bounded waits on the UART, whose status may show anything,
`IicWrite` one word of `iic_write`. `bram` holds the number of the publication each
word comes from, `rio` whether the readings are zeros or this call's answer.
`val[16]`, one past the end of `val`, may or may not be a word of `rio_data`:
that depends on the build, and is a choice in `Start`. Left out: the conversions
of voltages and temperatures, and `GpioReset`.

### BootConfig

`at` is the place in `main` up to the menu, `save` the file being written. Each
file has a content the program sees and a set of contents that may be found
after a power failure (`disk`): nothing is flushed, the operating system writes
it back when it likes (`Sync`). `PowerFails` is possible at every step, also
between the truncation and the write. `chosen` and `lost` are histories: what
the operator last set, and whether power failed too early for it.
`errorsPersist` says whether some port's error register never reads zero.

### IpTable

A line is the sequence of its columns, a column the sequence of its numbers.
`ReadLine` is one turn of the loop: `strtol` into three bytes, `TokeIP`, and the
comparison after the fourth column. Bytes that were never written hold `Junk`.
An address of more than four numbers, which `TokeIP` writes past the end of
`ipArray` (udp_net.c:239-245), is cut in the model; `WellFormed`, the condition of
`LookUpCorrect`, excludes it.

## 3. The runs

| run | constants | shows |
|---|---|---|
| `HrNotify_packets` | slot 2 (on chip 0), slot 1 (on chip 1, which fails now and then) and slot 6 (no port), slot bytes 2 and 13, slice bytes 0, 4 and 5 | `ReadyCountExact`, `PortFollowsRegister`, `StoppedLinkQuiet`, `AckMeansDone`, `RestoredPortUp`, `ThreadServes`; `HrNotify` implements `HrRegistry` |
| `UartMenu_lock` | the letters, star, one key of each kind | `LabelWasTyped`; `UartMenu` implements `MenuLock` |
| `LogFlash_power` | room for five words, messages of 0, 1, 3 and 4 bytes, a read buffer of 9, erases and writes that may fail | `NeverProgrammedTwice`, `AbortedLogKept`, `ShownIsLogged` |
| `LinkRepair_safety` | a board on chip 0 and one with two IDs on chip 1, three tries | `NothingForgotten`, `NoPacketsWhileConfigured`, `MaintenanceReaches`, `OpenMeansRouted`, `AckidStaysReset`; `LinkRepair` implements `PortCycle` |
| `LinkRepair_live` | the same, chip 1 dead | `ResetIsRepaired` |
| `LinkRepair_failed` | a board on chip 1 | violation, see below |
| `PortControl_share` | the menu alone, and every two of the three flows, at every kind of port they meet at | `ClosedForAReason`, `StoppedUnlessRepaired`, `OneSpeed`, `MaintenanceLeavesNoTrace`, `FlowsReturn` |
| `SharedRegs_shared` | parent at chips 0 and 1, child at chip 1, two neighbouring registers | `SharedRegs` implements `AtomicRegs` |
| `UdpSocket_calls` | two descriptors, two hosts, a good peer, a bad port, a bad address | `NoSocketLeaked`, `BoundIsLastGood`, `AnswersItsSender`, `ThreadServes` |
| `BootConfig_files` | one delay setting besides the default, three speeds, resets on and off | `SpeedAsSaved`, `SettingsKept`, `EnumeratedAsAsked`, `MenuReached` |
| `SelfTest_cycle` | period 4, wrap at 10, two status reads, chip 1 dead, no link up, all, or one | `PublishedInTime`, `AnswerOrZeros`, `TornAtMostOnce`, `LinksAsDocumented`, `PublishesAgain` |
| `IpTable_lookup` | files of a header and up to three of eight lines, six boards | `LookUpCorrect`, `DefaultIsOwn` |

The type invariants are proved for all constants (section 4) and in no run. The
same holds for `ForgetOnlyStopped`, `BufferIsPrefix` and `Positioned`, which the
refinements of their modules rest on.

The bounds. Slots differ only in whether they have a port and on which chip:
one of each kind meets every branch, and the handler never relates two slots
except through the counter, for which 0, 4 and 5 of the slice byte are the end of
the table from inside and the two neighbours outside. `MaxReboot` bounds a
counter nothing reads. Ports of one chip differ only in their number, and those
of chips 1 and 2 in the number of the uplink: a port on chip 0 and one behind an
uplink meet every branch of `RepairLinkPartner`, and two of them every order of
repairs. With three tries (`MaxRetry` = 2) there is an answer that comes in time,
one that comes too late and none. In the log, a sector of five words is filled
exactly and not exactly by messages of odd and even length, and the header of `C`
shows more than half of it. Logs of up to eight bytes fit the read buffer, one of
ten and the length of `C` do not. In `SelfTest` the wrap of the counter falls inside a
period, as 0xfffffff0 does. Two descriptors are one that the other overwrites the
address of; more add nothing to that, and the table is full with them. In
`IpTable` three lines are two entries for one board and a line between them.
The theorems hold for all values of these constants.

Deadlock is checked in every run but `IpTable_lookup`, where the function
returns.

One run ends in a violation, of something the program says of itself:
`FailsOnlyUnanswered`. The program says "repair failed" (iic_srio1848.c:1038) of
a partner that has answered, if it answered the 50th or 51st request: the loop
asks 51 times, the test after it looks at the counter only.

### What the models say about the code, and the properties excuse

The following is behaviour of the code that a reader may not expect. Each is a
behaviour of a model, and a property names it as the exception to what it
promises; none has a run of its own.

* The menu says that typing `enter` opens the configuration state
  (uartMenu.c:31). After a stray `e` it does not: `isValidLabel` erases the
  second `e` with the first instead of starting again with it. (`LabelWasTyped`
  and `MenuLock` say what opens the lock, not that every `enter` does.)
* Key `r`, a repair in the menu's words (uartMenu.c:57), clears the registers
  `LinkDetect` goes by: while a port is closed, because its repair is under way
  or was given up, that leaves it closed (`wiped` in `NothingForgotten`).
* After `D` the log function is said to be closed (uartMenu.c:307), but
  `g_LogFileSwitch` stays set and key `5` logs again.
* `ReadLogInfo` has a buffer of 65535 bytes and takes lengths of 65536 (without a
  finished header, and after `C`) and more (flash.c:318, 329-334): it writes behind
  the buffer. Under a header whose length was not written, the length is whatever
  the erased words make it. `ShowKey` may end the program then, and `ShownIsLogged`
  speaks of lengths that fit.
* A message that the flash did not take counts in the length of the log all the same
  (flash.c:307-310), and `C` programs its header over a log that could not be erased
  (`missing` in `ShownIsLogged`).
* The child process and the parent share the position of each chip's file. After
  the fork, an access may reach a register that the other flow has sought, and
  nobody notices (`Misplace` of `AtomicRegs`).
* A STOP or a repair during a speed change writes back a copy with the disable
  bit; the port stays disabled after stage 5 (iic_srio1848.c:706). This is the
  `overlap` of `MaintenanceLeavesNoTrace`.
* The result of `pthread_create` is compared through a variable that is never
  assigned (udpSocketLib.c:247): a socket without a thread goes unnoticed
  (`thread[i] = "none"` in `ThreadServes`). `udpSendPeer` returns the number of
  bytes, where its comment says 0 (udpSocketLib.c:360).
* The self test is due every 0x3AAAAAA calls, "about every 4 seconds"
  (iic_slave.c:328); but `LinkDetect` sleeps three seconds in between.
  `PublishedInTime` counts calls, not seconds.
* Key `r`, and the boot, stay in the loop over the end points of chip 2 as long as
  one of them is down (`EndPointsIll` in `FlowsReturn`).
* Two loops that open and close the same port may undo each other's write again
  and again (`Undo` in `FlowsReturn`): nothing but their timing ends that.
* With resets switched on and an error that stays, the board resets at every
  boot before the menu that could switch them off (last case of `MenuReached`).
* A speed that cannot be saved has been set all the same, and `fclose(NULL)`
  ends the program (`crashed` in `MenuReached`).
* Slot 0 is not refused by `FindFromIPFile` (udp_net.c:262) and gets the address
  of slot 16 (`DefaultIsOwn`).

### Fairness

Liveness is checked under what the code's scheduling gives, and no more.

`HrNotify` (`FairSpec`): the thread goes on while it has something to do
(`WF_vars(Handle)`: it is a POSIX thread of a process that nobody stops; the
wait for a packet is not part of it). An access that can succeed again and
again succeeds in the end (`SF` on the three accesses the loops wait for): that
is what "works now and then" means. Nothing is assumed of dead chips, of the
senders, or of the link. `ThreadServes` needs both: without the second, a chip
could fail at every turn of the loop.

`LinkRepair` (`FairSpec`): the child process goes on (`WF_vars(Child)`), and
accesses that a loop repeats succeed in the end on a chip that is not dead, as
above. A partner that is asked again and again answers one of the requests in
time (`SF` on `AnswersInTime`): otherwise its link is down, and the repair is
rightly given up every round. No fairness is assumed of resets, of traffic or of
the operator. `ResetIsRepaired` excepts a board that is reset late again
and again, which holds the child process in the loop of lines 1107-1113 and the
other links unwatched: that is what the code does.

`PortControl`: the three flows go on (`WF` of each), and nothing more: that a loop
over the gates ends is not assumed, neither is that the end points become well.
`FlowsReturn` names what may keep a flow away: the writes of another one, and an end
point that is ill again and again.

`UdpSocket`: the receive threads go on (`WF` of each); nothing makes packets
arrive or the application call. `SelfTest`: the child process calls again and
again (`WF_selfTestVars(SelfTestNext)`); nothing is assumed of the UART.

`BootConfig`: the program goes on (`WF_vars(Boot)`). The links it waits for at
boot come up in the end (`WF` of `PortsRecover`, `LinkRecovers`): the waits have
no bound, and a link that never comes up keeps the boot there for good. Errors
that come and go are found absent in the end (`SF_vars(NoReset)`). Power may
fail for ever, which `MenuReached` excepts.

## 4. The proofs

All theorems are checked by `tlapm` without any assumption but the named ones
on the constants.

* `HrNotifyProofs`. `IInv` adds to the properties what makes them inductive:
  `HandlerOK`, what the thread knows of its packet at each step (a STOP whose
  port is being closed is registered and has no slice left), and
  `OpenUnlessStopped`, which holds on unreliable chips too and needs the test of
  the loop of `enable_1848_port_rxtx`. The counter rests on three lemmas on the
  cardinality of the marked slices (one marked, one slot cleared, finite). The
  ackid argument is that `ResetAckid` runs with the port closed and traffic
  needs an open one; that the port is closed there is `PortFollowsRegister`.
  `RegistryCorrect` maps each action to a step of `HrRegistry` or to a stutter.
  `HandlerEnds` is the safety half of `ThreadServes`: on a chip that always answers
  the retry loops run once, which is `PortFollowsRegister` between the write and
  the read, and a packet takes at most four steps.
  Dead chips are covered here only; TLC's run has chips that recover.
* `UartMenuProofs`. `BufferIsPrefix` is inductive with the type invariant. It
  gives the depth the conditions reach in terms of `curIndex`, from which the
  menu is shown to implement `MenuLock`. `LabelCorrect` strengthens it by what
  the buffer says about `typed`: its `curIndex` letters are the last ones typed.
* `LogFlashProofs`, for every even sector size, every set of message lengths and
  every outcome of writes and erases. `IInv` adds `LogInProgress` (during a logged
  boot the length is the offset less the header, and the words between are written
  or missing), `HeaderOfALog` (a length in the header, finished or not, is erased,
  that of `C`, or covers words that are written or missing) and
  `AbortedUnderBlank` (the log of a boot that was cut lies under a blank header,
  which `WriteLogFlash` does not erase). `HeaderOfALog` is what carries
  `ShownIsLogged` over an erase that was not completed and a header programmed
  over it (`EraseKeeps`, `HeaderKeeps`: clearing bits only makes the length
  shorter). It rests on `BufferAssumption`: the length of `C` and an unwritten
  one do not fit the buffer.
* `LinkRepairProofs`, for every list of watched ports, every board's IDs, every
  retry bound, and any dead and flaky chips; the properties speak of the chips
  that never fail. `IInv` adds `TodoOK` (the route entries still to be written are
  the current port's own), `PortOK` (the bits of 0x15c each phase of the repair
  leaves behind), `RoutesOK` (an entry is written or still in `todo`), `AckidOK`,
  and `TraceIdle` and `TraceCurrent`, which say where the evidence of a reset is
  kept: in both error registers while the watch is elsewhere, and partly in the
  process's own state (`errSeen`, the step) while it is at the port. Without them
  `NothingForgotten` is not inductive: the watch clears one register, then the
  other, then looks at both again, and a reset may fall between any two of these.
  The routes need `IDsAssumption` (an ID belongs to one board): otherwise the
  repair of one port would redirect the packets of another that is open.
  `CycleCorrect` maps every step to one of `PortCycle` or to a stutter. What it
  needs besides the properties is `MaintainedOK`: a port with one gate open is the
  one under repair, which is why no two boards are configured at once; that the
  port is closed only for a board without configuration is `TraceCurrent`, and
  that a routing entry takes a node out of, or back into, the right board's routes
  rests on `IDsAssumption` again. `RepairEnds` bounds a repair on a chip that
  answers: `AccessesLeft`, at most 4n + 2·`MaxRetry` + 21 for a board with n IDs,
  falls with every access, whatever others do in between, and the only step that
  raises it is the return of lines 1107-1113 for a board that was reset late.
* `DeviceProofs`, `SharedRegs`: for any flows, chips and registers, however the
  flows share the chips. `RegsInv` adds to `Positioned` that a flow's access is
  to a chip of its own (`OwnChip`) and that a disturbed flow has another one on
  its chip (`SharesItsChip`). A step of another flow either moves the position of
  another file or disturbs (`SeekMoves`, `AccessMoves`), so an undisturbed access
  is made where it was sought: `AtomicCorrect`. `AloneUndisturbed` is the contract
  the other modules use: a flow alone on its chips is never disturbed.
* `DeviceProofs`, `SelfTest`: for every period, every value at which the counter
  starts again, every bound on the waits and every set of links. `Counted` ties the counter to
  the calls since the last publication across the wrap; it rests on
  `CountModPeriod`, which says what one more call does to the remainder.
  `AnswerInTime` says that `rio` holds no answer before `Collect`, and that the wait
  for one ended with it or was given up,
  `PortsSampled` that the status bytes come from the first call's links; that the
  17 places of `PortBit` are the documented layout is a lemma (`PortBitLayout`).
  `SelfTestEnds` gives a measure that every step of a publishing call lowers.
* `NetProofs`, `UdpSocket`: for any number of descriptors, hosts, ports and arguments.
  `IInv` adds `CreatedApart` (a descriptor is handed out after it was filled in),
  `PacketHeld` (a thread that handles a packet has a sender and a callback) and
  `TextIsMine`: with one callback the shared text is that of the packet in hand,
  because no other thread gets past the test of its callback. From these an
  answer goes to its sender.
* `NetProofs`, `IpTable`: for every file whose columns hold numbers
  (`FilesAssumption`) and every board. `ScannedInVain` says that no line before
  the current one is an entry of the board, `ByRule` that the address is still the
  one by rule as long as no line was taken. `TokeIPWhole` says that `TokeIP` fills
  all four bytes from a column of four numbers, whatever it found there;
  `RuleBytes` that the rule's bytes do not wrap for a documented board, so that
  slot and chassis can be recovered from them: only slots 0 and 16 coincide.
  `LookUpEnds` says that a look-up ends on every file.
* `PortControlProofs`, for any sets of flows, all three together included, which
  TLC's run leaves out. `Fresh` says that without an overlap a copy is still what
  the register holds; `ThreadKnows` ties the thread's place to `stopped`; `Owed`
  says that a port closed without a reason is still being worked on; `SpeedSteps`
  and `Traces` say what the menu has done at each place. `ClosedForAReason` needs
  `Owed` because the last flow to leave its loop has seen the gates as it wants
  them, and the other one may change them only while it is itself in its code.
  The steps between the parts of key `r` all stay among the places where the port
  is neither disabled nor locked (`RepairGoes`).
* `BootConfigProofs`, for any delays and any slot. `SpeedSet` is `SpeedAsSaved`
  during the boot and while a file is written, `SaveForBoot` says that the boot
  writes back what the operator chose, `DelayAsked` that it works with the delay
  and the flag the operator chose.

Model-checked only: liveness (`ThreadServes` of both modules, `ResetIsRepaired`,
`FlowsReturn`, `MenuReached`, `PublishesAgain`), which the prover cannot do. Of
`ThreadServes`, `ResetIsRepaired`, `PublishesAgain` and the look-up, the theorems on
measures (`HandlerEnds`, `RepairEnds`, `SelfTestEnds`, `LookUpEnds`) prove the part
that does not depend on fairness.

## 5. Not modelled

* `xil_io.c`, the voltages and temperatures of `iic_slave.c` and `GpioReset`:
  single loads and stores, and arithmetic for display.
* The vendor library: a binary. What main and the menu need of it is in
  `LogFlash` (it logs), `LinkRepair` (it configures a board) and external to both.
* Registers that are only written or only shown (iic_srio1848.c:170-556 and
  772-841 in the main): there is no state of the program behind them.
* The first-call flag of `SrioErrorDetect`, a static for all chips, so that the
  error reporting of chips 1 and 2 stays as the chips come up: `LinkRepair`
  assumes that a reset shows in their error registers.
* The second link request of a repair, which is never read: which request an
  answer belongs to is not in `LinkRepair`.
* Two enumerations at once, by the menu and by a repair: the first is in the
  vendor library.
* The generated build files.

What could be added: the receive thread and the child process together over
`SharedRegs` with retries that read back what they wrote.
