# XBH: specifications, model checks and proofs

The eXternal Benchmark Harness (XBH) is the firmware of a Tiva TM4C129 board
that sits between a PC, which talks to it over TCP, and a device under test (the
XBD), which it programs, starts and resets over I2C and a few pins, and whose
run time and power it measures.  This directory holds TLA+ specifications of the
firmware, written from its source, TLC configurations for small instances, and
TLAPS proofs for all instances.  Paths below are relative to `src/`.

## 1. The system

| Component | State | Operations | Talks to |
|---|---|---|---|
| Server task (`xbh_server.c`) | `state`, `clnt_sock`, `last_sent`, `xbh_cmd`, `wait_buf` | probe, accept, `recv_cmd`, enqueue, wait, reply, keepalive, reset | lwIP sockets; two queues to and from the handler task |
| Handler task (`xbh_server.c`, `xbh.c`) | `XBDCommandBuf`, `XBDResponseBuf`, `reply_buf` | `XBH_handle` and one function per command | queues; XBD transport; measurement |
| Framing (`util.c`) | none | `recv_waitall`, `sendall`, `len2hex`, `hex2len` | lwIP sockets |
| XBD transport (`xbh_xbdcomm.c`, `hal/i2c_comm.c`, `hal/crc.c`) | `xbd_comm`, `g_inI2C` | `xbdSend`, `xbdReceive`, `xbdCommInit`, `i2c_write`, `i2c_read`, checksum | the XBD |
| Multi-packet transfer (`xbd_multipacket.c`) | `struct xbd_multipkt_state` | generate and receive first and successive packets | called by the handlers |
| Measurement (`hal/measure.c`) | `wrap_cnt`, `wrap_cap_cnt`, `t_start`, `t_stop`, `cap_cnt`, `avgcnt` | `exec_timer_start`, getters; capture, wrap and ADC interrupts | timers 0 and 1, ADC; started and read by handlers |
| Watchdog (`hal/watchdog.c`) | `wd_count` | `watchdog_isr`, `watchdog_setinterval` | `g_inI2C`; resets the board |
| Ethernet driver (`deps/lwip_port/.../tiva-tm4c129.c`, `hal/lwip_eth.c`) | two descriptor rings, their indices, a queue of one status, the MAC's speed | `tivaif_transmit`, `tivaif_process_transmit`, `tivaif_receive`, `tivaif_process_phy_interrupt`, `lwIP_eth_isr`, `eth_int_task`; start-up | DMA engine, PHY, lwIP |
| lwIP port (`.../sys_arch.c`) | FreeRTOS queues | mailboxes, semaphores, threads, clock | lwIP, FreeRTOS |
| Start-up (`main.c`, `hal/hal.c`, `hal/startup_gcc.c`) | vector table, initial memory, pins | `ResetISR`, `HAL_setup`, `xbd_reset`, `xbh_reset` | everything |

What is hard in it, and what makes each part correct:

- *Server and handler.*  Two tasks of equal priority share two buffers without a
  lock; PCs come and go while a command is worked on; the board may reset.  Each
  reply must go to the PC that asked and answer its command, buffers must not
  change hands early, connections must be closed.
- *Framing.*  TCP cuts the stream anywhere.  A command must arrive whole, a reply
  must leave whole.
- *Transport and handlers.*  Packets get lost or garbled, errors are only logged,
  buffers keep what an earlier answer left, the XBD may fall silent, the board
  may restart in the middle.  A good answer to the PC must be true of the XBD, and
  only a transfer that lasts may cost a reset.
- *Measurement.*  Three interrupt routines preempt each other, and the report,
  over shared counters without a lock.  The reported time must be the device's, to
  what accuracy should be known.
- *Ethernet frames.*  The DMA engine, an interrupt and two tasks work on the same
  rings.  Frames must leave and arrive whole and in order, memory the DMA engine
  uses must not be in other hands, none may be lost for good, and no event may be
  forgotten while interrupts are disabled.
- *Ethernet link.*  Interrupts are enabled in the middle of a start-up that also
  makes the queue and the task they need.  The cable may be pulled at any
  moment; lwIP and the MAC must end up with what the PHY has.  The Ethernet task,
  lwIP's thread and the server meet at one bounded mailbox and must not wait for
  each other.

`PROJECT.json` lists the hazards line by line with the properties that watch
them.

## 2. Modules

| Module | Models | Role |
|---|---|---|
| `XbhService` | — | What a PC may rely on: commands are taken one at a time, answered in order to the one who asked, or given up when it is gone |
| `XbhServer`, `MCXbhServer` | `xbh_server.c` | Both tasks, both queues, the shared buffers; implements `XbhService` |
| `Codec` | `util.c`, `util.h`, `hal/crc.c`, arithmetic of `xbh.c`, `hal/watchdog.c`, `hal/hal.c` | The pure conversions, as operators |
| `SocketIO`, `MCSocketIO` | `util.c`, `recv_cmd` | One connection, byte by byte; reads lengths with `Codec` |
| `MultiPacket` | `xbd_multipacket.c` | Its four functions as operators |
| `Board` | `hal/startup_gcc.c`, `hal/isr_prio.h` | Which routine serves which interrupt, and which goes first; extended by every module with an interrupt routine |
| `XbdLink`, `MCXbdLink` | `xbh.c`, `xbh_xbdcomm.c`, `hal/i2c_comm.c`, `hal/watchdog.c`, `ResetISR`, `HAL_setup` | Every command, known or not, the transport, the watchdog, resets and restarts, and an external XBD that uses `MultiPacket` too |
| `Measure` | `hal/measure.c` | Timers, ADC, their interrupt routines, and the two reports |
| `EthInt` | `hal/lwip_eth.c` | The hand-over from `lwIP_eth_isr` to `eth_int_task`; extended by the next and by `EthLink` |
| `EthTx` | `tiva-tm4c129.c` (transmit) | Transmit ring and the tasks at it |
| `EthRx` | `tiva-tm4c129.c` (receive) | Receive ring and pbuf pool |
| `EthLink` | `hal/lwip_eth.c`, `tiva-tm4c129.c` (start-up, PHY), `sys_arch.c` (mailboxes) | Start-up of the interface, the cable, lwIP's mailbox |
| `XbhServerProofs`, `SocketIOProofs`, `XbdLinkProofs`, `MeasureProofs`, `EthTxProofs`, `EthRxProofs`, `EthLinkProofs`, `CodecProofs` | | Theorems about the module each is named after |

**How the models correspond to the code.**

- `XbhServer`: `pc` is the place in `xbh_srv_task` and `hpc` that in
  `xbh_hndlr_task`; a step ends where the task reads or writes something the
  other one, or a PC, may touch.  A buffer's content is the pair (connection,
  number of the command) it belongs to, or `Torn` when it is no one's.
  `XBH_handle` reads `xbh_cmd` while it runs, so its result is torn if the buffer
  changed meanwhile.  `silence` is `xTaskGetTickCount() - last_sent`.
- `SocketIO`: a byte carries its character and the command and offset it comes
  from; `recv` and `send` return any length the interface allows.
- `Codec`: a byte or a checksum is the set of its bits that are one, so that
  exclusive or is the symmetric difference and a shift renames the bits.
- `XbdLink`: a receive buffer holds a code, a number, data and a checksum named by
  the packet it was computed from, so that "the checksum is right" is equality
  without collisions; what the real one can miss is the subject of `CodecProofs`.
  A read leaves the answer, a prefix of it over the old content, or garbage, or
  waits for a byte for ever, also when the XBD runs but does not acknowledge its
  address (`ReadStalls`).  One
  step is one `xbdSend` or `xbdReceive` together with the handler's code up to the
  next one: only this task touches these buffers, and what may come between, the
  watchdog's interrupt and a reset, is an action.  A reset leaves memory as it is;
  `ResetISR` then gives the variables their initial values and `HAL_setup` resets
  the XBD.
- `Measure`: time is counted in clocks; an interrupt routine is cut where another
  could preempt it.  `Ready`, `CanEnter` and `Running` are the interrupt
  controller, with the priorities that the three set-up functions leave.
  `Critical` stands for any task's critical section.  A report reads two
  variables in two steps.  A conversion is two steps, `Trigger` and `Convert`, as
  timer 1 may be stopped while it goes on; `Command` assumes that it, a
  microsecond, is over before the PC's next command comes in.
- `EthInt`, `EthTx`: the routine is cut between reading, clearing and queueing the
  status, as the MAC goes on meanwhile.  The critical section of `tivaif_transmit`
  masks the interrupt but not the DMA engine, hence one step per descriptor;
  `LwipRuns` is the effect of the task priorities: lwIP's thread runs while the
  Ethernet task waits for a status, or in `tcpip_callback` for room in lwIP's
  mailbox (`post`, `postOnly`), which it does before it looks at the ring.  `EthRx` cuts `tivaif_receive`
  at each descriptor, because the DMA engine may give back another one in between.
- `EthLink` begins when `main` starts the scheduler.  `Stages` is the order in
  which `tcpip_init_cb`, `tivaif_init` and `tivaif_hwinit` do what interrupts
  depend on; `made` are the stages behind us.  The PHY holds its interrupt up until
  its status register is read, and the two reads of
  `tivaif_process_phy_interrupt` are two steps.  A post to the mailbox waits for
  room (`tcpip_callback`, socket calls), a trypost gives up (`tcpip_input`).

Outside the source, and therefore models of what the source assumes: the PCs,
TCP and lwIP's sockets, pools and reference counts, FreeRTOS queues and
scheduling, the interrupt controller, the DMA engine, the PHY, and the XBD.

## 3. Runs

`tlc -config <cfg> <module>`; sizes are distinct states.

| Run | Instance | Shows |
|---|---|---|
| `server` (`XbhServer.cfg`, 63 000) | 2 connections, 2 commands each, reply queue 1, keepalive after 1 tick | Replies match commands; buffers are stable; one descriptor; clean handover; the service is implemented; commands are answered and descriptors released |
| `measure` (`Measure.cfg`, 8 550 000) | wrap every 3 clocks, 7 clocks, 3 edges, 2 measurements, 2 samples, one report on each | A measured time is off by one wrap at most, and exact if no edge came over a pending wrap; at most one sample is outside the run; a report begun after the run is of that run |
| `socketio` (`SocketIO.cfg`, 32 000) | buffer of 5, 2 commands of several lengths, good and bad; replies up to 3 bytes | Commands arrive intact; all commands of a PC that stays are taken |
| `link` (`XbdLink.cfg`, 470 000) | 3 commands, 2 faults, payload of 1 per packet, watchdog on, XBD may hang | Good answers are true of the XBD, also after restarts; the handler always comes back; resets are earned |
| `eth_tx` (`EthTx.cfg`, 277 000) | ring of 3, 4 frames of 1 or 2 pbufs | Segments in order; memory held exactly as long as needed; no status lost; every frame released |
| `eth_rx` (`EthRx.cfg`, 1 050 000) | ring of 3, pool of 5, 4 frames of 1 or 2 pbufs, damaged or not | Frames whole and in order; ring pbufs in no other hands; no pbuf lost |
| `eth_link` (`EthLink.cfg`, 560 000) | mailbox of 1, 3 changes of the PHY, 1 frame, 1 socket call | No interrupt before it can be served; lwIP and the MAC get to know the link; socket calls return |

**Why the bounds are enough.**  Two connections are needed for one's leftovers to
meet the other, and two commands for a stale message to meet the next; a reply
queue of one instead of 15 makes its limit reachable.  A wrap period of 3 lets an
edge fall before, on and after a wrap, 7 clocks hold two wraps, and three edges
reach the branch that ignores the third; the second measurement starts with what
the first left behind, and one report on each is enough, as a report changes
nothing.  Two faults can hit the two packets of a transfer, a write and the
read after it, or a packet and then the board; three commands let an abandoned
transfer precede one that reuses its buffers.  Three descriptors and four frames
of two segments wrap each ring twice and fill it; a pool of five can run out.  A
mailbox of one instead of 16 is full with every message, so a frame meets a full
one and the Ethernet task waits in it behind a socket call; three changes are
link lost, negotiated anew and found, or two of them while the first is being
reported.  The bounds on commands, faults, frames, calls, changes, clocks, edges,
measurements, reports and samples are guards of the environment's actions only.

**Deadlock** is not checked in these runs: PCs need not send, frames need not
come, environments stop at their bounds, and the server task can end in
`LOOP_ERRMSG`.  That tasks do not wait for each other for ever is checked by the
liveness properties instead.

**Fairness.**  `XbhServer`: each task that can always step does (both have
priority 1, the scheduler is preemptive and time sliced), and the tick does not
stop.  `SocketIO`: TCP delivers and the server task runs.  `XbdLink`: the handler
runs when it can, a restart goes on and the watchdog timer does not stop; an
answering XBD is a property of the state (`up`), not an assumption.  `EthTx`:
interrupts, the Ethernet task, the DMA engine and a critical section that was
entered go on; that a call of `tcpip_callback` returns is shown by `EthLink`, not
here.  `EthLink`: the same for the start-up, the interrupt, the Ethernet
task, lwIP's thread, and the server inside a call.  Nothing is assumed of PCs, of
lwIP's wish to send, of the cable or of the network.

### Runs that find a violation

Each checks one statement of a comment, see `findings`.

| Run | Statement | What happens |
|---|---|---|
| `measure_priority` | "wrap must always happen before capture" | `power_measure_setup` overwrites the wrap interrupt's priority |
| `socketio_sendall` | "Sends entire buffer" | After a short send the start is sent again |
| `link_upload` | "@return -1 if fail, 0 if success" | The announcement of a result is read in part, over the announcement of an earlier one: the checksum is right, and an upload is good with the earlier length |
| `link_unknown` | "@return Length of reply containing return data" | A command of more than 255 bytes that `XBH_handle` does not know is never answered: the loop that prints it has a counter of 8 bits.  `makedefs` sets `DEBUG=1`, so the loop is in the build |
| `eth_rx_bad` | "This is a bad frame so discard it" | The next pbuf is linked to the freed frame |

Two things depend on how the firmware is built or on a library outside the
repository and are parameters instead.  `ProbeSeesPeer` says whether lwIP's
zero-length send reports a lost PC; where it does, a computed reply can go to the
next PC, and the properties of `XbhServer` marked `[*]` are about the other
case.  `Watchdog` says whether the watchdog is compiled in; the `Makefile` sets
`DISABLE_WATCHDOG`, and without it a silent XBD holds the handler for ever.

### What the properties do not claim

Some hold only with a condition, which names a thing the code really does:

- `DownloadArrived`, `ExecutedOnce`, `ModeReached`, `AnswerFresh` are about
  commands none of whose packets got lost without trace.  `xbdSend` ignores the
  I2C error, and an XBD that missed a packet still offers its last answer, which
  may be the one expected.  `UploadExact` needs no such condition: the sequence
  numbers reveal it.  They also except the time after a PC selected a transport
  that is not implemented (`xbd_comm`): nothing is sent then, and what the buffer
  holds from before is taken for the answer.
- `UploadExact` is about uploads none of whose answers was read in part (`cut`).
  A read that fails after the command code leaves the rest of an earlier answer,
  checksum included; if that was an announcement, its length counts.  It takes
  four commands and three faults, more than the run `link` has: the statement
  without the condition passed there, was found not to be inductive by the proof,
  and is refuted by `link_upload`.
- `ResetEarned` counts interrupts that came during transfers, as the code does:
  two short transfers that both happen to meet one cost a reset too.
- `ExactUnlessOwed`: with the wrap pending at an edge the time is off by one wrap.
- `SamplesInRun` excepts a measurement started over an unfinished one.
- `ReportExact` is about reports begun with the timer disabled.  No handler asks
  `measure_isrunning`, so a PC may ask for one earlier and gets what is there.
- `HeldOnlyInRing` and `FramesReleased` except frames that could not be copied:
  `tivaif_transmit` keeps the reference it took (line 531).
- `DeliveredWhole` and `NoPbufLost` except histories in which a walk ended inside
  a frame: `pBuf` is local to `tivaif_receive` and forgotten.  `EthRx` ends where a
  freed frame is used, as what lwIP's lists are from there on is undefined.
- `LinkKnown` excepts histories in which `tcpip_callback` found no memory: its
  result is not looked at, and lwIP then does not learn of the change.
- `MacFollowsPhy` holds because the end of a negotiation is looked at; the test
  of the duplex event, which is missing, is not needed for it.

## 4. Proofs

`tlapm <module>` checks, for all values of the constants that satisfy the named
assumptions of the component's module:

| Module | Theorem | Statement |
|---|---|---|
| `XbhServerProofs` | `TypeCorrect` | `Spec => []TypeOK` |
| | `RepliesAlwaysMatch`, `BuffersAlwaysStable`, `OneDescriptorAlways`, `HandoverAlwaysClean` | the invariants of the run `server`, if `~ProbeSeesPeer` |
| | `Refinement` | `Spec => ServiceRefined`, if `~ProbeSeesPeer` |
| `SocketIOProofs` | `TypeCorrect`, `CommandsIntact` | `Spec => []TypeOK`, `Spec => []CommandIntact` |
| `XbdLinkProofs` | `TypeCorrect`, `DownloadsArrive`, `UploadsExact`, `ExecutedExactlyOnce`, `ModesReached`, `AnswersFresh` | the invariants of the run `link` |
| | `ResetsEarned` | `Spec => ResetEarned` |
| `MeasureProofs` | `TypeCorrect`, `TimeWithinOneWrap`, `TimeExactUnlessOwed`, `SamplesAlwaysInRun`, `ReportsAlwaysExact` | the invariants of the run `measure` |
| `EthTxProofs` | `StatusKept` | `Spec => []NoStatusLost` |
| | `TypeCorrect`, `SegmentsStayInOrder`, `FramesHeldWhileSent`, `FramesHeldOnlyInRing` | the other invariants of `eth_tx`, if `EthPrio > LwipPrio` |
| `EthRxProofs` | `TypeCorrect`, `RingStaysExclusive`, `PbufsKept`, `FramesDeliveredWhole` | the invariants of the run `eth_rx` |
| | `FramesInOrder` | `Spec => DeliveredInOrder` |
| `EthLinkProofs` | `TypeCorrect`, `InterruptsReady` | `Spec => []TypeOK`, `Spec => []IsrReady` |
| `CodecProofs` | `HexRoundTrip`, `HexBounded` | `hex2len` undoes `len2hex`, and is bounded whatever it reads |
| | `AddressReadable` | The Ethernet address can be read back from a revision reply |
| | `CrcSeesByte`, `CrcKeepsDifference` | A change of one byte changes the checksum, and a difference never goes away by the same byte |
| | `TimeRecovered`, `WatchdogInterval`, `GainsDistinct` | The reported time is the measured one below 2^32 s; the "180 seconds" are 1.04; the gains differ |

**The server.**  None of the invariants is inductive: that a reply matches depends
on what was in the queues when the command was enqueued, which depends on how the
connection before ended.  The inductive invariant `IInv` has four further parts:

- `TypeInv`, which adds to the types that the state agrees with the place in the
  loop (`StateOfPc`);
- `PhaseInv`: a command is in exactly one of the phases *none*, *queued*, *with
  the handler*, *answered and waiting*, and in each of them the two queues, the
  handler's place and both buffers hold what belongs to it.  `BuffersStable`,
  `OneDescriptor` and `CleanHandover` are consequences;
- `BacklogInv`: connections waiting to be accepted have had nothing read or
  answered, and none waits twice;
- `ReplyInv`: as many replies have left as commands were read, but for the one in
  progress, unless the PC is gone.

With `IInv` each step maps to a step or a stutter of `XbhService`: `SrvRecvBody`
to `Take`, `SrvReply` to `Answer` when the PC is there and to `GiveUp` otherwise,
`SrvReset` to `GiveUp`, and what the PCs do to `Ask` and `Leave`.

**The framing.**  That the handler gets the right bytes depends on all that was
read before.  `Streamed` says where in the stream the server is: behind the
commands it has taken, plus what the current `recv_waitall` has read; `AtLen`,
`AtBody` and `AtHandle` say what the buffer holds there.  The step from the length
to the body is where `HexRoundTrip` comes in: the length read is the one the PC
wrote.

**The XBD.**  `IInv` of `XbdLinkProofs` ties the handler's state to the XBD's,
which are related only by packets that may be lost, garbled or read in part, in
buffers that keep earlier ones.  Besides the types and the handler's place
(`Places`) it has a part for each kind of command:

- `Loading`: while a download goes on and no packet was lost without trace, what
  the XBD has put together is what was sent before the packet in hand; if its
  answer is the good one, the packet in hand too;
- `Announced` and `Collected`: while an upload goes on, what the handler has is
  the start of the result up to the packet it asks for, and the XBD is either
  `Behind` it, with an answer the handler will not accept, or `Ahead` by exactly the
  packet asked for;
- `Awaited`: the answer an execution, a change of mode or a query waits for is
  offered only after the XBD did it; a query starts from an empty buffer, or an
  earlier answer could be taken for it;
- `Counted`: the watchdog's count is that of its interrupts in transfers since the
  board started, and a transfer is over between two steps of the handler.

The lemmas before it say what the operators of `MultiPacket` return, for packets
of any length.

**The measured time.**  `wrap_cnt`, with the wrap that is pending or being counted,
runs ahead of or behind `now \div Period` by a number, `Base`, that only
`exec_timer_start` changes.  An edge's time is hence known but for one wrap,
which it misses only if it came over a pending one (`owed`); the invariant says
so of the edge that is pending, of `t_start` and of the difference.  It also says
`wrap_cap_cnt = 0`: with the priorities as they finally are, a capture goes
before a pending wrap, so `exec_timer_wrap_isr` never finds a capture flag set and
its branch that lets a capture catch up is dead (assuming that the interrupt
controller starts a routine as soon as it may run).  For samples and reports: after
the second edge timer 1 is stopped, with at most one conversion under way.

**The rings.**  Both invariants look at the ring from the read index on.  When
sending, there come descriptors to be freed, then those the DMA engine owns, then
free ones, enough for the rest of the frame being filled in (`Laid`), and the
frames in them ascend (`Chained`).  While a buffer was freed and the index not yet
moved on, a full ring looks empty to `tivaif_transmit`; only the priority of the
Ethernet task keeps lwIP's thread from looking, hence the hypothesis
`EthPrio > LwipPrio`, which is what `task_prio.h` defines.

When receiving, each pbuf has one owner (`Exclusive`, `Complete`), which proves
`RingExclusive` and `NoPbufLost`.  That frames are whole and in order needs what is
*in* the pbufs: the chain being put together, the descriptors to be looked at and
what is coming in are one line of segments (`InOrder`, `Assembling`, `Follows`),
all of them later than what lwIP was handed last (`Later`).

**The interrupt status.**  `IInv` of `EthTxProofs` says that a queued status means
interrupts are disabled, that the routine handles a status that is not empty only
while they are enabled, and that the task works alone.

**The start-up.**  `IsrReady` follows from `Started`: nothing of the interrupt
routine or the task is at work before the fifth stage, which enables the
interrupts, and by then the queue, the task and the interface exist.

**The checksum.**  Each of the eight shift steps is undone by bit 15 of its result,
which is one exactly if the polynomial was added; hence `crc16_update` is one to
one in both arguments.  What this says of whole messages takes an induction over
their length, which the installed provers cannot do.

*Only model-checked* is liveness, which is beyond the prover: `CommandAnswered`,
`DescriptorReleased`, `AllTaken`, `AlwaysReady`, `FramesReleased`, `LinkKnown`,
`MacFollowsPhy` and `CallsReturn`.  The other properties of the passing runs are
proved.  The environments are part of the specifications, so the theorems
rest on what section 2 lists as outside the source.

## 5. Not modelled

- *lwIP port:* timeouts of `sys_arch_mbox_fetch` and `sys_arch_sem_wait`, and the
  clock.  `sys_now` counts ticks of 4 ms where lwIP expects milliseconds; what that
  does to TCP is lwIP's code.
- *Addresses:* DHCP is lwIP's, the IPv6 callbacks are compiled out.
- *Set-up* of registers and pins, apart from their order where something depends
  on it; formatting and printing, but for the loop of `link_unknown`.
- *The UART and UDP transports*, disabled with `#if 0`, and `i2c_comm.nofifo.c`,
  not part of the build.
- *Interleavings without effect:* `exec_timer_start` zeroes its counters in one
  step (`measure.c:90-97`).  An interrupt of an earlier measurement in the middle of
  it would store what the next edge overwrites, or count a wrap that shifts both
  times alike.
- *Data:* the bytes of a power reply; types and addresses inside a download;
  commands shorter than their fixed fields; the length correction of a received
  frame's last pbuf; 32-bit overflow of `avgcnt` and `wrap_cnt`.

`components` gives the reason for each.

## 6. Plan

The order follows what matters to a PC: its commands and replies first, then the
truth of the replies, then the network below.

1. `XbhService`, `XbhServer` and their proofs — done.
2. `Measure`, `SocketIO`, `MultiPacket`, `XbdLink`, `EthTx`, `EthRx` — done.
3. `Codec`, `Board`, restarts in `XbdLink`, reports in `Measure`, `EthInt` and
   `EthLink` — done.
4. Proofs of every invariant and action property of the passing runs — done.
5. An abstract FIFO that `EthTx` and `EthRx` implement, and an abstract command
   service for `XbdLink` (a command is done, or reported as failed), with the
   refinements proved from the inductive invariants there are.
6. Commands shorter than their fixed fields, and the arithmetic of lengths at
   32 bits, in `XbdLink` and `MultiPacket`; timeouts of `sys_arch.c`.
