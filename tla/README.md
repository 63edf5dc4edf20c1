# A TLA+ model of the ENC28J60 bare-metal firmware

The repository is firmware for an STM32F401RE that drives an ENC28J60 Ethernet
controller over SPI, runs lwIP without an operating system (`NO_SYS`), gets an address
by DHCP, looks a broker's name up and keeps an MQTT session with it.  This directory
models its own logic, the driver (`enc28j60_driver/Src/enc28j60_hwd.c`) and the main
loop with its interrupt handlers (`Core/Src/main.c`), and the parts of lwIP whose state
machines that logic depends on: the timeouts (`core/timeouts.c`), the DHCP client
(`core/ipv4/dhcp.c`), the resolver (`core/dns.c`) and the MQTT client
(`apps/mqtt/mqtt.c`), each in the configuration of `Core/Inc/lwipopts.h`.

## The system and its parts

| part | state | operations | module |
|---|---|---|---|
| register access, start-up | `dev->bnBank`; the chip's `ECON1.BSEL`, registers, PHY | `writeReg`, `readEtherReg`, `readMacMIIReg`, `BitFieldSet/Clear`, `bankChange`, `readPhyReg`, `writePhyReg`, `strtDr` and every call main() makes | `EncBank` |
| interrupt service | `enc28j60intCounter`, main's copy of EIR; the chip's EIR, EIE, EPKTCNT | EXTI handler, the service loop of main() | `EncIrq` |
| transmit path | `bTxBusy`, `txPkt.data`; ETXST, ETXND, TXRTS, TXIF | `enc28j60_translate`, `enc28j60_etherTransmit` | `EncIrq` (the protocol), `TxPath` (the bytes) |
| receive path | `rxPkt.ptrAddr`, `rxPktLen`, `data`; the ring, ERXWRPT, ERXRDPT | `enc28j60_etherReceive`, `clear_interrupt(PKTIF)` | `RxRing`, implementing `PacketFifo` |
| timers | `sys_now`, tick counters; `next_timeout`, its pool | `HAL_TIM_PeriodElapsedCallback`, the polls of main(), `sys_timeout`, `sys_untimeout`, `sys_check_timeouts` and the cyclic handlers | `Timeouts` |
| DHCP client | `dhcp->state`, `tries`, `xid`, lease timers | fine and coarse timer, OFFER, ACK, NAK | `Dhcp` |
| DNS resolver | `dns_servers`, the query's entry | `dns_gethostbyname`, `dns_tmr`, answers | `Dns`, implementing `Lookup` |
| MQTT client | `conn_state`, output ring, request list, `cyclic_tick`, `server_watchdog` | connect, publish, subscribe, TCP callbacks, cyclic timer | `MqttClient`; `AppConn` as the application sees it |
| application | `myConn`, `bSubscribed`, `mqttBroker.ip`, `lastReconnectAttempt` | the `switch(myConn)`, `ipObtained`, `myMqttClientCallBack` | `AppConn`, using `Lookup` |

How they interact.  The chip pulls its INT pin low; the falling edge makes the EXTI
handler count; main() sees the count, reads EIR once, and serves bit after bit through
SPI commands.  Serving PKTIF hands a frame to lwIP, which may send one from inside
(`enc28j60_translate` is `netif->linkoutput`).  lwIP's timers and the connection state
machine run in the same loop and may send as well.  lwIP calls the application back
(DNS, MQTT) from that loop only.  TIM2 advances the clock and the tick counters from
its interrupt.  The stack's cyclic timers, the TCP timer and the MQTT client's timer
share one pool of timeouts.

What is hard: the three actors of the interrupt core (chip, handler, main) with an
edge-triggered line and a counter that is decremented without protection; a memory of
the selected bank that the code does not keep up to date; a ring the chip writes while
the driver reads; callbacks that move the state machine from outside; clocks that wrap;
lengths and times at the limits of their types; messages that are lost, late or
repeated; memory that is short at any call; timers of one lease or session that go on
into the next.  `PROJECT.json` lists each under `hazards`, at its line.

## The modules

**EncBank.**  `bnBank` is what the driver believes, `bsel` what the chip shows.  A
driver function is the sequence of its register accesses (`readPhyReg`, `strtDr`,
`etherTransmit`, ...); one step, `Access`, makes one access, with the bank switch of
`SwitchFor` before it, and the access hits the register of the bank the chip shows
(`Hit`).  `McuReset` can interrupt any sequence; the chip keeps its state.  Register
contents are sets of tokens, OR is union and AND NOT difference; a register's reset
contents is its own address, so a value that was read from the wrong register is
recognised.  Waits on a busy bit are their last read; `BusyWaitLands` says that they
look at the register they mean.

**EncIrq.**  One step per SPI command that another actor can observe.  The chip:
`ChipReceive`, `ChipRaise`, `ChipTxDone`, `ChipPktif`.  By issue 6 of the chip's errata
(`Documentation/Errata.pdf`) EIR.PKTIF does not reliably report pending packets; `pktif`
is therefore a variable of its own that may stay down, come up late or go down while
EPKTCNT is not zero (`PktifAfter`).  It is never up without a packet, and the INT pin
follows the flag.  Were the pin to follow EPKTCNT while a read of EIR misses the flag,
main's scan would find nothing to serve and the pin stay low, which is no better than
what `EncIrqErratum.cfg` shows.  The handler: `ExtiIsr`, one step since it
preempts main.  Main: `Check`/`Store` (the load and the store of the decrement),
`ReadEir`, `Scan` and one action per case of the dispatch, `Translate` and the steps of
`etherTransmit`.  `LatchEdge` is the EXTI line: it latches the step from INT high to
INT low.  The bank memory appears as `bnBank` with the two values `EncBank!RestState`
allows between calls.

**TxPath.**  A byte is its frame and its place in it.  `Translate`, `Copy` and `Check`
are `enc28j60_translate`, one step per pbuf; `Load`, `SetEnd`, `Start` are
`etherTransmit`; `ChipSend` sends what lies between ETXST and ETXND and writes the status
vector behind it.

**RxRing.**  The cells of the chip's receive memory hold places in frames; a cell the
chip is free to write holds `Junk`, so a read of it is always wrong.  `ChipReceive` may
happen between any two steps of the driver (`SetReadPointer`, `ReadHeader`, `ReadData`,
`FreeSpace`, `PktDec`).  A copy longer than `data` makes `ptrAddr`, the member behind it,
arbitrary.  `starts` is a ghost, the addresses of the frames the driver has not taken.

**PacketFifo.**  The abstract specification of the receive path: a queue of whole
frames.  `RxRing!Fifo` maps the chain of next pointers to the queue and the copied frame
to its output.

**Timeouts.**  `Tick` is TIM2.  Main polls its counters (`Test`, and `Reset` as a step of
its own, so that ticks fall between), then `sys_check_timeouts` takes what is due from
the list (`CheckStart`, `Expire`, `CheckEnd`) and runs its handler: `CyclicTimer`,
`TcpTimer`, `MqttTimer`.  The rest of a pass connects and closes the MQTT client in any
order.  `TimeoutAbs` drops a timeout when the pool is empty, as the code does with the
assertion compiled out.  Each entry carries the real time left as a ghost beside its
wrapping due time.  One pass may take `MaxLag` periods of TIM2.  The cyclic timers
start in the order of their due times, equal ones in any order.

**Dhcp.**  `dhcp->state` with its tries and timers.  `FineTmr` is the expiry of
`dhcp_fine_tmr` at any time (how long it was set for is left open), `CoarseTmr` one call
of `dhcp_coarse_tmr` with its else-if chain of lease, rebinding and renewal; the constant
`CallsPerPeriod` says how many calls fall into the period the code takes one for: 2 in the
firmware, where main() (main.c:218) and lwIP's own timer (timeouts.c:91) both call it.
`Offer`,
`Ack`, `Nak` the cases of `dhcp_recv`.  A reply exists once the request it answers was
sent and may come any number of times at any later time, also for the last transaction.
Memory for each message may be short.  `Ticks`, `OfferedT1`, `OfferedT2` keep the
roundings and the width of the code.  INIT, REBOOTING and CHECKING are not reached: the
firmware never reports a link change to lwIP, and conflict detection is off.

**Lookup, Dns.**  `Lookup` is what the application relies on: it asks once, is told
once, and is told.  `Dns` is the resolver with retries, backing off, the change to the
second server, errors, and a renewed lease that rewrites `dns_servers` under the query;
it implements `Lookup` (`RefinesLookup`) although no message need arrive.

**MqttClient.**  The output ring as the positions `put` and `get` beside `held`, the true
number of bytes; requests as a queue of `timeout_diff` with the true age; TCP that takes
all, nothing or any part of what it is given; a timer that may not find an entry when it is
started; the last session's connection, whose FIN may find no memory and which TCP then
still polls with the client as argument (`old`, `Poll`).

**AppConn.**  `Loop` is one pass through the switch; callbacks and the client's TCP and
timer events are steps between passes, which is exact because everything runs in the one
loop; `Tick` is the TIM2 interrupt.  The client's timer may not start (`TcpConnected`), as
`timeouts_pool` shows of the firmware.  `elapsed` is a history variable, the true time since
the last attempt.  The firmware's `while(1)` is `halted`.  The resolver is what `Lookup`
promises (`UsesLookup`), the MQTT client the counts of what `MqttClient` holds.

The modules `MC...` give instances for TLC.  Definitions named as mutants in their comments
are deliberate errors; they are not part of any specification and exist to show that each
property can fail.

## Runs

| run | checks | result |
|---|---|---|
| `bank` (`EncBank.cfg`) | type invariant, `CacheSound`, `DataPathLands`, `BusyWaitLands`, `StartConfigured`, `RestState` | hold |
| `phcon1` (`EncBankPhcon1.cfg`) | `Phcon1Configured` | violated |
| `irq` (`EncIrq.cfg`) | type invariant, `NoLostWakeup`, `TxExclusive`, `CompletionKept`, `ReadsArrivedPacket`, `EnabledLinkClearable`; live: `FlagsServiced`, `TxReleased` | hold |
| `ring` (`RxRing.cfg`) | type invariant (with the errata's odd ERXRDPT), `ChainMeetsWritePointer`, the refinement `RefinesFifo` | hold |
| `ring_long` (`RxRingLong.cfg`) | `NextPointerSaved` | violated |
| `tx_full` (`TxPathFull.cfg`) | `BufferHoldsFrame` | violated |
| `timeouts` (`Timeouts.cfg`) | type invariant, `TimersKept`, `ExpiresOnTime`, `PolledOnTime`; live: `CyclicKeepsRunning` | hold |
| `timeouts_pool` (`TimeoutsPool.cfg`) | `MqttTimerRuns` | violated |
| `dhcp` (`Dhcp.cfg`) | type invariant, `LeaseRespected`; live: `KeepsTrying` | hold |
| `dns` (`Dns.cfg`) | type invariant, `GivesUp`, the refinement `RefinesLookup` | hold |
| `mqtt` (`MqttRequests.cfg`) | type invariant, `RequestTime`, `SendsWhatWasPut`, `LengthLostOnlyWhenFull` | hold |
| `app` (`AppConn.cfg`) | type invariant, `InStep`, `SubscriptionMade`, `ReconnectPaced`, `UsesLookup`; live: `Reconnects`, `AttemptFate` | hold |

What the passing properties leave open, the further configurations show: `FlagsServiced` is
about packets that PKTIF reports, not about those it is silent on (`EncIrqErratum.cfg`);
`AttemptFate` lets an attempt wait for CONNACK without a timer (`AppConnNoTimer.cfg`) and
stop in `while(1)` (`AppConnHang.cfg`); `LengthLostOnlyWhenFull` allows the step that fills
the ring exactly (`MqttRing.cfg`); `LeaseRespected` says that a lease is not overrun, not
that it is used to its end (`DhcpEarly.cfg`, `DhcpEndless.cfg`).

The four violations are findings, each quoted with its line in `PROJECT.json`:

* `enc28j60_bankChange` does not record a switch to bank 0.  `CacheSound` and
  `DataPathLands` say why the firmware works nevertheless: the only staleness is "chip in
  bank 0, memory elsewhere", and accesses to bank 0 are right in that state.  An access
  to the remembered bank is not, and `phyInit` makes one: PHCON1 is written with contents
  that are not its own.  `StartConfigured` shows nothing else at start-up is affected.
* The length check of `etherReceive` accepts frames that `data[1500]` does not hold, and
  the member behind it is the pointer to the next frame.
* `enc28j60_translate` copies a frame of up to 1514 bytes into `txPkt.data[1500]`.
* `MEMP_NUM_SYS_TIMEOUT` was not increased for MQTT, so while TCP has a connection the
  client's timer never finds an entry: no keep-alive, no request timeouts, no CONNECT
  timeout.

### Further configurations

These ask the same models narrower questions.

| configuration | of | shows |
|---|---|---|
| `TxPath.cfg` | `MCTxPath` | `SendsFrame`, `StaysInTxBuffer` hold: however a frame is cut into pbufs, and whatever the buffers held, the chip sends exactly it and stays in its transmit buffer |
| `TimeoutsTight.cfg` | `MCTimeouts` | with the firmware's five timers and its pool of six, the stack's own timers are never lost to the MQTT client's |
| `EncIrqErratum.cfg` | `EncIrq` | `PacketsTaken` is violated: a packet that PKTIF does not report stays in the chip until a report comes; the errata's workaround is to read EPKTCNT, and main() dispatches on PKTIF alone (main.c:338) |
| `MqttRing.cfg` | `MqttClient` | `RingLenCorrect` is violated with the firmware's lengths (34, 82, 17, 2 of 256): after TCP took a part of the ring it can become exactly full, `mqtt_ringbuf_len` ("Return number of bytes in ring buffer", mqtt.c:211) is then 0, and what it holds is lost |
| `MqttStalePoll.cfg` | `MqttClient` | `SessionsApart` is violated: when `tcp_close` finds no memory for the FIN, `mqtt_close` leaves the poll callback, and the old connection takes the next session's bytes |
| `AppConnHang.cfg` | `AppConn` | `NeverHangs` is violated: every MQTT status but two ends in `while(1)` (main.c:704), where mqtt_client.txt:75 says "so try to reconnect" |
| `AppConnDns.cfg` | `AppConn` | `AddressObtained` is violated: `ipObtained` takes the NULL of a failed lookup (dns.h:99) for an address |
| `AppConnNoTimer.cfg` | `AppConn` | `ConnectSettles` is violated: where the client's timer was not started, which is what `timeouts_pool` shows of the firmware, an attempt whose CONNECT is ignored never ends |
| `DhcpXid.cfg` | `MCDhcp` | `OwnTransaction` holds while memory suffices |
| `DhcpXidNoMem.cfg` | `MCDhcp` | `OwnTransaction` is violated otherwise: `dhcp_discover` counts a try although `dhcp_create_msg` failed, and the new transaction keeps the old identifier (dhcp.c:1919) |
| `DhcpSupplied.cfg` | `MCDhcp` | `SuppliedAddress` is violated: a NAK leaves the old lease's timers running, which turn REQUESTING into RENEWING without an address (dhcp.c:1985) |
| `DhcpEarly.cfg` | `MCDhcp` | `LeaseUsedFully` is violated by one ordinary lease: `dhcp_coarse_tmr` is called twice a minute where dhcp.c:507 asks for once, and the address goes at half of its lease; with `CallsPerPeriod = 1` it holds |
| `DhcpEndless.cfg` | `MCDhcp` | `LeaseUsedFully` is violated also with one call a minute, by a lease without end after a limited one: `dhcp_bind` leaves `t0_timeout` |
| `DhcpStuck.cfg` | `MCDhcp` | `KeepsTrying` is violated there too: REBINDING with no timer left |
| `DhcpOverflow.cfg` | `MCDhcp` | `SafePeriods` is violated: `offered_t0_lease * 7U` overflows for leases above 19.4 years |

Like `dhcp_coarse_tmr`, the functions `dhcp_fine_tmr`, `dns_tmr` and `etharp_tmr` are called
both by main() (main.c:212-231) and by lwIP's cyclic timers, twice as often as their
comments say.  `Dns` counts calls, not time; `Dhcp` leaves the fine timer's duration open.

### Bounds

* `EncBank` has no bounds; its state space is finite.  The wire-level values are
  abstracted to tokens.
* `EncIrq`: `MaxPkt` bounds the chip's packet counter (2: "one more packet arrives while
  one is served" and "the counter is still not zero afterwards" both happen).
  `MaxCounter` bounds `enc28j60intCounter`, a `uint32_t`, by delaying the handler (2: the
  count lost between load and store needs 2).  The theorems hold for every bound.
* `RxRing`: 16 cells stand for the 6 KiB of `0x0000..0x17FF`, the 2-cell header for the 6
  bytes, lengths 1, 2 for odd and even frames and 4 for frames that are refused.  Wraps
  fall before, inside and behind frames.  `ring` leaves out the lengths between `DataLen`
  and `RejectLen`; `ring_long` has one.  EPKTCNT needs no bound: the ring is full before.
* `TxPath`: `tx_full` has the firmware's sizes; `TxPath.cfg` up to three pbufs of up to
  three bytes in a memory of 12.
* `Timeouts`: the unit is 250 ms (`TCP_TMR_INTERVAL`), a tick is 2; the long intervals (60
  s, 5 s, 1 s) are shortened to 4 and 3, the clock wraps at 26 and starts anywhere.  Only
  the order and the distance of due times matter, and `ClockAssumption` keeps every
  distance below half the clock, as 2^31 ms does in the code.  A pass may take two
  periods (`MaxLag` 2), so a timer is served when its next due time is already over.  Two
  cyclic timers stand for five, with room for the MQTT timer so that every order of the
  four occurs; `TimeoutsTight.cfg` and `timeouts_pool` have all five and the firmware's
  pool.  The polled counter is `dns`, which is gated, and wraps at 8 for 256.
* `Dhcp`: a period of 4 s for 60, a 9-period maximum for 65535, words of 8 bits for 32.  The
  leases are shorter than a period, ordinary, with renewal after rebinding, longer than
  the timer's type so that they are cut (seven times which is more than a word, so the
  rebinding time overflows too), and one that rounds up to a word and so to nothing.
  `MaxTries` is 6, the last number the code tells apart.
* `Dns`: `DNS_MAX_SERVERS` and `DNS_MAX_RETRIES` are the firmware's (2 and 4).
* `MqttClient`: a ring of 5 with lengths 1, 3, 2, 1, where the ring gets exactly full and is
  then overfilled; `MqttRing.cfg` has the firmware's lengths.  Timeouts of 2 and 3 timer
  calls keep requests of different age in the list.  `MaxHeld` bounds the ghost `held`,
  which grows by a ring's size whenever the ring is overwritten (two rings: once full and
  once more).
* `AppConn`: one unit of the output ring is 17 bytes (SUBSCRIBE), lengths are rounded up to
  units, so the ring is 15 of the 256 bytes' units, CONNECT 2, PUBLISH 5, PINGREQ 1.  Time:
  a tick of 2, a wait of 4, wrap at 9, so the clock wraps at every phase of a wait.
  `mqttCounter` and `elapsed` saturate where their comparison is decided.

### Fairness

`EncIrq`: weak fairness of main (the loop never blocks), of the EXTI handler (the NVIC
takes a pending, enabled interrupt) and of the end of a transmission (the chip ends every
one, sent or aborted; issue 12 of the errata, a transmission that does not end in half
duplex and whose workaround is commented out at enc28j60_hwd.c:339-342, is left out).
Frames, link changes and the rise of PKTIF are not owed.  `Timeouts`: the loop and
TIM2; the network owes nothing.  `Dhcp` and `Dns`: their timers, which both main() and
lwIP call; nothing is promised of servers.  `AppConn`: the loop and the timer; that TCP
gives up a SYN (`TCP_SYNMAXRTX`); the client's timer if it was started; and the answer of
the resolver, which `RefinesLookup` establishes.

## Proofs

Eight modules hold theorems, all checked by TLAPS to the last leaf: `EncBankProofs`,
`EncIrqProofs`, `RxRingProofs`, `AppConnProofs`, `TimeoutsProofs`, `DhcpProofs`,
`DnsProofs`, `MqttProofs`.  Each has the same shape: an inductive invariant, defined at the
end of the component's module and checked by TLC on the component's instance first; a lemma
for the initial states, one for each action; `Invariance`; and the properties as its
consequences.  The constants are arbitrary, restricted only by the named assumptions of
the component's module, which TLC evaluates on every run.

*EncBank*: all its invariants, for every sequence of calls, link changes and MCU resets.
The inductive invariant has five parts. `BankInv` is the type invariant with `CacheSound`;
`SwitchSound` is its argument: a switch to banks 1 to 3 makes memory and selection equal, a
switch to bank 0 leaves the chip in bank 0, and no switch changes nothing. The other four
speak about what is left of the running function, so that each access consumes what is
known of it. `LandInv`: an access outside bank 0 that must not go astray comes directly
behind one that selects another bank, or behind one that landed in the same bank; only
the MII registers are exempt, and what their offsets hit in bank 0 is in nobody's way
(`AccessHits`). `RestInv`: every function ends in bank 0, and bank 3 is never the last
bank selected before it. `FileInv`: a static register has its value or is about to get
it, and a read-modify-write has read what it modifies. `PhyInv` follows the places of
`strtDr` at which PHIE is read and written back: both come behind a poll of MISTAT in bank
3, so the driver switches to bank 2, and MIREGADR names PHIE when PHIE is fetched and
when it is stored. The reading of PHCON1 comes behind accesses in bank 0 with bank 2
remembered, where the argument fails; that is the finding `phcon1`, and the store to
PHCON1 must be shown not to hit PHIE. That the functions have these shapes is shown part by part, for
`strtDr` by naming its 89 accesses (`StrtDrAt`), for the calls of main() once
(`RunCallsHarmless`).

*EncIrq*: all the safety invariants of `irq`, for every `MaxPkt` and `MaxCounter`.  The
inductive invariant `IInv` adds three parts to the type invariant and
`EnabledLinkClearable`.  `ServiceInv`: a bit main has copied and not yet served is still
up, because nobody else clears it (this is what keeps `PKTDEC` from counting below zero).
`TxInv`: the buffer is taken exactly while the chip owes a completion, except between
TXRTS and the assignment to `bTxBusy`.  `WakeInv`: while INT is low its edge is latched or
counted, or main is about to read EIR, or about to serve a bit of its copy, whereby INTIE
falls and rises again and gives a new edge.  The last part is why the lost count of
`enc28j60intCounter--` does no harm: the loss happens before EIR is read.

*RxRing*: type correctness, `ChainMeetsWritePointer` and the whole refinement
`RefinesFifo` (it has no fairness), for every ring of even size, even header and set of
lengths. The ghost `starts` lists the frames in the ring, so that the queue of
`PacketFifo` is a map of a sequence and not a recursion along the pointers. Everything is
measured from ERXRDPT, the one cell the chip never writes: `Behind(a)` is how far a cell
is behind it, and with it "before" on the ring is `<`. `OrderInv` says that the frames lie
there in order and without gaps, `CellInv` that each cell still holds what the chip put
there, `DriverInv` what `etherReceive` has read so far. That the frames cannot reach
around to ERXRDPT rests on their even starts and its odd value, the errata's rule. All
four theorems assume `NoGap`: no frame has a length that overflows `data` and is not
refused either. Without it the driver loses the chain, as `ring_long` shows.

*AppConn*: type correctness, `InStep`, `SubscriptionMade`, `ReconnectPaced`, the safety
part of `UsesLookup`, and that there is no session before the lookup's answer.
`FreshInv` carries `SubscriptionMade`: until main() gets to subscribe, a new session has no
requests and at most two pings in its ring, since `mqtt_cyclic_timer` waits for a tick and
a tick for a pass.  `FirstPassAssumption` states the room this needs; the firmware's
lengths (two pings, a publication and the subscription: 103 of 256 bytes, 4 requests) meet
it.  `ClockInv` ties the difference on the wrapping clock to the true time.

*Timeouts*: type correctness, `TimersKept`, `ExpiresOnTime` and `PolledOnTime`, for every
set of timers and intervals, width of the clock, pool and sequence of counters.
`StartedInv`: each timer of the stack is in the list once or is running; a timer that runs
has left its entry, and nobody takes one before it is restarted. `PoolAssumption` is
`opt.h`'s rule that the pool counts the stack's own timers; the MQTT client's may find
none left (`timeouts_pool`), the stack's never. `ClockInv`: an entry's time is that of the
wrapping clock, its true time left lies between its interval and the lag, and the list is
in the order of true times; with `ClockAssumption` all differences are below half the
clock, where `TIME_LESS_THAN` is the comparison of true times (`TimeLessFacts`).
`PollInv`: a counter is behind the true time by no more than one pass, and is found due
before it wraps; a counter that was just enabled may hold anything until main first tests
it. Timers that are due at the same time start in any order, so the proof does not depend
on how `lwip_cyclic_timers` is written.

*Dhcp*: type correctness and `LeaseRespected`, for every set of ACKs, every period and every
width of times and timers.  `LeaseInv`: the timer `used` is below `t0`, which it is only
compared with for equality, and while there is an address both are those of the last ACK.
It holds across the else-if chain, because every branch that does not reach the lease's
timer has counted it before.  `TicksShort` turns periods into seconds: a timer of more than
one period exceeds the offered time by half a period at most, and what overflows or is cut
only shortens it.

*Dns*: type correctness, `GivesUp` and the safety part of `RefinesLookup`, for every number
of servers and up to 255 retries (`retries` is a `u8_t`).  `WaitInv` bounds what a query
has waited by the servers before this one, `PerServer` calls each, and what this one has
had, `Used`; the waits of one server back off as 1, 2, 3, ..., so they sum to `Tri`.
`AskInv`: the application waits exactly while the entry is ASKING, so a late or repeated
answer finds no entry.

*MqttClient*: type correctness, `RequestTime`, `SendsWhatWasPut` and `LengthLostOnlyWhenFull`
without further assumptions, and that `RingLenCorrect` holds in every behaviour whose ring
is never filled to its last byte (`LengthWrongOnlyWhenFull`; `MqttRing.cfg` fills it).
`RequestTime` is about sums over the queue; `QueueInv` states it between neighbours
instead: a difference is how much older the request before it is, and the first one's
is what is left of its time. Taking a request out adds two neighbouring differences, a
new request's difference is the age of the last one, and an interval moves all ages and
the first difference only. The sums are recursive functions of the place; that they are
what the invariant says, that requests in front without time left are all as old as can
be, and that the loop of `mqtt_tcp_sent_cb` keeps the invariant, is shown by taking the
first place where it fails (`Least`). `HeldInv` is what is left of `RingLenCorrect` when
the ring may be overfilled: the computed length is short by whole laps, hence never too
large, and no more is sent than was put. `TimerInv` gives the two uses of `cyclic_tick`
their own limits.

`Lookup` is split into `SafeSpec` and its fairness; `AppConn` uses and `Dns` implements the
same `SafeSpec`, which is how the two proofs meet.

Model-checked only:

* the liveness properties `FlagsServiced`, `TxReleased`, `CyclicKeepsRunning`,
  `KeepsTrying`, `Reconnects`, `AttemptFate` and the fair parts of `UsesLookup` and
  `RefinesLookup`: fairness is outside the prover's reach;
* `SendsFrame` and `StaysInTxBuffer` of `TxPath`, which ask about the bytes of one frame
  and are checked on `TxPath.cfg` only.

Every safety invariant and action property of the passing runs has a theorem.

## Not modelled

Most of the repository's lines are vendored and not part of the firmware's logic: the STM32
HAL and CMSIS headers for every device of the family, and those parts of lwIP that are not
built or not used (sockets, PPP, SNMP, IPv6, other applications).  They are left aside, so
the map covers a small share of the repository while it covers the driver and `main.c`
nearly whole.

Of what runs: the SPI functions (a transfer is taken to succeed; the driver ignores its
result), `log.c` (formatting), board initialisation (generated; runs once before), the PHY
status getters (not called), and lwIP's TCP, IP, ARP, UDP and pbufs, which are the
environment of the modules above, with the failures their interfaces report.  The waits on
busy bits are not given a chance to wait for ever.

## Plan

1. A composition of `EncIrq` and `RxRing`: frames from the wire to lwIP under the real
   interrupt protocol.
2. Proofs for `TxPath`: the length of a pbuf chain is a sum along it, for which the
   argument of `TotalDiffIs` is a pattern.
