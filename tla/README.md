# A TLA+ verification of beaglebone-experiments

The repository holds two programs for the PRU coprocessors of a BeagleBone, the
library both are built on, and the Linux side of one of them. This directory models
them in TLA+, checks the models with TLC and proves most of their invariants, and that the
transport implements two FIFO channels, with TLAPS. All paths below are relative to `src/`.

## 1. Inventory

| component | state | operations | talks to |
|---|---|---|---|
| **rpmsg transport** `lib/rpmsg` | two virtqueues: `last_avail_idx`; the avail and used rings and buffers shared with Linux | `virtqueue_init`, `_get_avail_buf`, `_add_used_buf`, `_kick`; `rpmsg_init`, `_channel`, `_send`, `_send_gather`, `_receive` | the Linux virtio driver, through shared memory and one interrupt |
| **clock** `lib/time` | `time_now`, the hardware cycle counter | `time_get`, comparisons of overflowing times | every timer of both programs |
| **DHT22 firmware** `thermo/DHT22/main.c` | per sensor `state`, `rx_bit`, `timer`; the reply `payload` | main loop, `do_measurements`, `store_next_bit` | four sensors on open-drain lines; the host through rpmsg |
| **one-wire UART** `elco/main.c` | `owuart`: 17 states, `timer`, `tx_bit`, `rx_bit`, both buffers | `process_tick` | other nodes on a wired-or line; the host through rpmsg |
| **boot** `*/resource_table.h`, start of both `main`s | the resource table: device status, vring addresses and sizes, event routes | wait for DRIVER_OK, `rpmsg_init`, announce channels and retry | remoteproc and the virtio driver, which fill the table in |
| **start script** `thermo/start_webserver.sh`, `thermo-webserver.service` | where it is, tries left | load the overlay, wait for the PRU, stop and start it, wait, become the web service | remoteproc, through sysfs |
| **web service** `thermo/www/{dht22,webserver}.py` | one future, one file descriptor | `current_measurement`, `_new_measurement_ready`, the `/` handler | the rpmsg device, HTTP clients |
| **decoding, formulas, scripts** `decode.pl`, `util.py`, `ds18b20.py`, `read_influx.py` | none | pure functions and one-shot output | |
| headers, overlays, makefiles | none | declarations | |

What is hard here:

* the PRU and Linux share rings without locks: every memory access of one side can fall
  between any two of the other, and the order of plain stores is the compiler's;
* 16- and 32-bit counters wrap, in rings and in the clock;
* four sensors share one polling loop, and each may be absent, stuck or noisy;
* nodes on one wire start together, at slightly different moments, and must agree bit by
  bit on a winner;
* the PRU, Linux and the service start at their own pace, fixed sleeps stand for waiting,
  and a restart finds the PRU running and messages under way;
* interrupts are suppressed by a flag, so that a wake-up can be lost;
* the web service shares one answer between requests that can be cancelled at any moment,
  replies come late or get lost, and nothing on the path retries or times out.

What makes each component correct: *transport*: messages are neither lost, duplicated,
reordered nor altered, each descriptor has one owner, sleepers are woken. *Clock*: timers
are neither early nor missed. *DHT22*: good sensors are read right, bad ones do no harm,
measurements end. *UART*: arbitration destroys nothing, messages stay apart and arrive
whole, a loser's message is sent in the end, every host is told the same. *Boot*: the
PRU uses the rings of this start, every channel appears, a service that finds no device
was too impatient and not unlucky, and reads nothing meant for its predecessor. *Web service*: every request is
answered, simultaneous ones alike, and nobody's by another's fault. `PROJECT.json` lists the hazards by line.

## 2. Modules

| module | what it is |
|---|---|
| `Rpmsg` | the transport: one PRU, two vrings, the Linux host |
| `RpmsgChannel` | what the transport promises: two bounded FIFO channels |
| `RpmsgImplements` | the refinement mapping from the first to the second |
| `Time` | the clock and the life of a timer |
| `Vring` | the memory layout of a vring |
| `Boot` | the start script, Linux and the start of the PRU, over several starts of the service; uses `Vring` |
| `Dht22` | the DHT22 firmware and its sensors |
| `FirmwareLoop` | what that firmware promises: one answer to each command, in a finite time; `Dht22` implements it (at its end) |
| `OwUart` | nodes running `process_tick` on one line |
| `Line` | what they promise the hosts: one order of whole messages for all |
| `OwUartImplements` | the refinement mapping from `OwUart` to `Line`, with history variables |
| `Measurement` | the web service composed with `RpmsgChannel` and `FirmwareLoop`, from request to answer |
| `Lemmas` | lemmas about remainders, about sequences that grow and are used up, induction on the numbers, partial sums |
| `Rpmsg_proofs` (with those of `RpmsgImplements`), `Time_proofs`, `Boot_proofs` (with those of `Vring`), `Dht22_proofs`, `OwUart_proofs`, `OwUartIntact_proofs`, `Measurement_proofs` | the theorems |
| `MCRpmsg`, `MCDht22`, `MCOwUart` | values for TLC |

Definitions that begin with a comment "Mutant" are plausible mistakes. They belong to no
specification; substituted for the definition they follow or precede, they must break the property
named in `PROJECT.json`.

### Rpmsg

`pc`, `vq`, `head` are where a call of `rpmsg_send` or `rpmsg_receive` stands, on which
virtqueue and with which descriptor. A call is the sequence

    Send / Receive -> GetAvailIdx -> GetAvailHead -> Copy -> StoreUsedIdx, StoreUsedElem -> Kick

in which each step makes one access to memory the host also uses, so the host can act
between any two. The two stores of `virtqueue_add_used_buf` (`rpmsg.c:66-68`) are plain C
without barrier: `IndexFirst` says which order the build chose, and `HostRaces` whether
the host can be fast enough to look in between. Error returns end the call with the code
in `ret`. The payload is one value per message; its copy and the header fields are one
step (the host does not look at a buffer the PRU owns). A message in `Oversized` is longer
than `RPMSG_BUF_SIZE - sizeof(struct rpmsg_hdr)`.

The host is external. It is modelled as far as the virtio header fixes its behaviour and
the firmware depends on it: it posts free descriptors, receives on interrupt until the
used ring is empty, looks for returned transmit buffers when it runs out of them, and, if
there are none, clears `VRING_AVAIL_F_NO_INTERRUPT`, looks once more and sleeps.

`posted` counts what the host posted without wrapping; it is what the properties compare
the wrapping indices with. `DescAt(q, n)` follows the n-th buffer of a queue through the
avail ring, the PRU and the used ring.

### Time

`GetTime` is `time_get`. `Work(d)` lets d cycles pass: at most `MaxGap` between two calls
while a timer is armed, and any number while none is, where the counter saturates (the
comment at `DHT22/main.c:253-257`). `cycles`, `last_read` and `deadline` are real times
the firmware cannot see.

### Vring and Boot

`vring_init` and `vring_size` of `virtio_ring.h:139-154`, each with the arithmetic of its own
source; addresses are integers. `PartsApart` compares the two: what the PRU takes for its rings
lies in the space `vring_size` asks for. That Linux, too, looks for the used ring where
`vring_init` puts it is taken from the header both share.

`Boot` follows three actors. `script` is the line `start_webserver.sh` has come to
(`LoadOverlay`, `wait_for`, `Check`, `Stop`, `Start`, `Sleep`, `Open`), then `serving` or,
if `/dev/rpmsg_pru0` is not there, `dead` (`webserver.py:23` catches only `IndexError`,
and the unit has no `Restart=`). `Restart` kills and starts it at any moment. `pru` is
where `main` is: `wait_ok` for DRIVER_OK, `init`, `announce`, then its loop (`receive`,
`serve`), or `halted`. Linux is external: it probes the PRU some time after the overlay is
loaded, may or may not start it by itself (`autoboot`), and after a start allocates the
vrings, fills their addresses into the table, sets DRIVER_OK and posts receive buffers,
before or after that. A load puts the table back to its image (`Unfilled`) but leaves the
PRU's data memory, `vq` among it, as it was. Stopping the PRU takes the rings, the devices
and what is queued in them away. `channels` is 1 for the DHT22 firmware and 2 for `elco`,
whose start differs in nothing else; `elco` has no script of its own.

A message is sent in one step here (`Rpmsg` has the steps). `EventRaised` and `ReachesArm`
say whether a kick gets to Linux: by the event in R31, the channel the resource table
gives it and the host interrupt of that channel.

`late` remembers that a fixed wait of this run ended too soon: `wait_for` after its five
tries without the PRU there, or the two seconds' sleep while something of the start was
still to come by itself. `StillComing` lists what that can be: the guards of the steps of
Linux and of `main` up to its loop. (TLC finds it equal to `ENABLED` of those steps in
every reachable state of the run `boot`; spelt out, it can be proved about.)

### Dht22

A poll of one sensor is one case of the switch of `do_measurements`; `cur` and `done` are
the variables of its loops. Time is in units of 5 us and a poll takes one unit, so with two sensors each is
polled every 10 us; the program polls more often. `left` is the timer
relative to now. A good sensor follows its data sheet from the end of its start pulse with
any delay, any data and any of the bit lengths given. A noisy one reads as anything at any
time, which covers absent, stuck and dying sensors. `failed` is bit 0x80 of `state`; as in
the code it is set before the line is read, and lost if the line answers in that poll.
`rx_bit` is byte number times eight plus bit number. A record in `payload` is the bits received or the five
bytes of a failure (`FailureBytes`); `Accepted` is the checksum test of both readers
(`dht22.py:33-35`, `decode.pl:23-24`). `FailuresRejected` relates the two. The comment at
`main.c:207` gives `rx_bit>>8` at most 4, but it can be 5 for a sensor that is lost after
its last bit; the checksum is wrong all the same.

`TimesFit` says which times make the protocol work: the sensor is no slower than the
firmware waits, and each of its pulses is long enough for the polls of one sensor, which
are `NumSensors` polls apart, to find it. It is sufficient and not the weakest such
condition. With the times of the program and of the data sheet (a decision 50 us after the
edge, a 1 of 70 us, four sensors) it holds if a poll takes no more than about 2.5 us; in the
run it holds for two sensors and 5 us.

`FirmwareLoop` is `main` seen from outside (wait, measure, rest). Measuring and replying
are one step of it, as only the reply is visible.

### OwUart

`owuart[n]` is `struct owuart_state` of node n and what it drives. One action per case of
`process_tick` (the case `Idle` is three actions for its three outcomes; `TxStart` falls
through into the work of `TxBit`). `rx_bits` is the shift register and its bit counter;
`rx_buffer` is as long as the byte counter says. Time passes in rounds: each node runs once per round,
in any order, so two nodes can be up to a round apart and each edge can be seen before or after.
The second stop bit is sent (`TxNextBit` counts to 11) but not received. `rpmsg_send` may
lose a report for want of a buffer, as its callers ignore the result. The model takes the
evident intent of `elco/main.c`, which does not compile as it stands (a stray comma in an
asm statement at line 277, undeclared names at 443 and 447-448). The `default` case, which
no state reaches, is left out, and so are the counters that are only reported.

`dark` are the nodes that are off at first; those in `Late` are started between two rounds
at any moment (`PowerOn`), in the middle of anything. A host writes `MaxWrites` times at
most.

Three properties of the run `owuart` hold under conditions that its messages meet.
`BuffersBounded` wants no more than two contenders (`MCOwUartCrowd.cfg`, section 3, has three).
`TransmissionIntact` and `ImplementsLine` want, besides, that no message is the beginning of
another: the arbitration has no mark for the end of a message, so the sender of the shorter
one would finish, and then receive the rest of the longer one as a message. And they want
that a node started in the middle of a message is alone with its sender, as in the run:
`HoldOff` counts from the start of the node, a listener's from the last stop bit. A node
started right after the start bit of a last byte of zeros (whose parity and stop bits are
0, too) sees the line at 0 for its 11 bit times and begins when the sender ends, which is
where a listener's gap begins, so the listener adds the second message to the first one.
`MCOwUartLate.cfg` (a configuration of `MCOwUart`, beside the runs) shows this: `TransmissionIntact`
is violated. `NoBreakIn` and `SameBitsSoFar` need none of these conditions, as section 4 shows.

`Line` is what all of this is for: a log of whole messages, each put there by a sender
that has dealt with all before it (`Transmit`, or `Join` when two nodes send the same at the
same time), and each told to every host once, unchanged and in that order (`Hear`), or lost for want of a
buffer. Two exceptions are stated, not hidden: what a node tells for a message it lost the
line to is open (`Mishear`, see the run `owuart_arbitration`), and so is what a node tells
that may have heard only a part (`HearNoise`). `OwUartImplements` records the order of
completed transmissions and how far each node has come in them, and maps `OwUart` to `Line`.

### Measurement

An action is what one callback does between two awaits of the single thread. `req[r]` is
how far the handler `index` is with request r, `on[r]` the future it awaits; `futures`
keeps every future `self.measurement` has been. A measurement is its number. `Cancel` is
external: sanic cancels a handler whose client hangs up or whose response takes too long,
and asyncio then cancels the future the handler awaits (`webserver.py:41`); the other
handlers that await it get a `CancelledError`. The channel is an instance of
`RpmsgChannel`, which `Rpmsg` implements; the firmware is `FirmwareLoop`, which `Dht22`
implements. A reply that finds no free buffer
is lost, as the result of `rpmsg_send` is ignored (`DHT22/main.c:250`). `os.write` waits
for room; that it blocks the event loop meanwhile removes interleavings only.

## 3. Runs

| run | bounds | shows |
|---|---|---|
| `rpmsg_safety` | 2 descriptors, 3 buffers per direction, 2 messages and an oversized one | ownership, index agreement, no unadvertised buffer, refinement of the FIFO channels, in source order with a host that is never between the stores |
| `rpmsg_live` | the same with one message | the same ownership and refinement for *any* host if the element is stored first; every returned buffer is read (`Delivery`), a sleeping sender wakes (`SenderWakes`) |
| `time` | modulus 48, 110 cycles | timers through several wraps and saturated gaps |
| `boot` | both firmwares, 3 starts of the service, a command in each, 2 receive buffers, vrings of 16 in 3 pages | the right rings, their layout, no stale reply, a device for every channel, no death but by impatience |
| `dht22` | 2 sensors, 2 bits each | good readings beside bad sensors, complete or marked records, rejected failures, released lines, refinement of `FirmwareLoop` |
| `owuart` | 2 contenders, a listener, bytes of 2 bits, messages of 2 bytes, 8 rounds per bit, each host writes once; all nodes on, or one contender and the listener off and the contender started at any moment | arbitration, separation of messages, room in the buffers, retries, refinement of `Line` |
| `measurement` | 4 requests, 2 buffers per direction | every request ends, shared answers, bounded commands, a pending future is always served |

Why the bounds are enough: three buffers on a ring of two reuse every slot and let the
host wait for a buffer; the ring modulus is not reached here, wrapping is `wrap_16bit`'s
subject. Two sensors suffice for one to disturb the other; two bits for a record with a
first and a last bit (the byte boundary inside a record is a matter of `rx_bit`'s
arithmetic). The start pulse of 500 us is shortened, as nothing looks at the line during
it. Four rounds per half bit leave the two or three ticks of latency of a node well inside
half a bit, as the 200 or so polls of the real half bit do. Each host of `owuart` writes once, so
`EventuallySent` shows that a loser starts over and sends; a node that loses again and again to
one whose host never stops writing is not in it (the arbitration promises such a node nothing). Two-byte messages that differ
in the first bit, only in the second byte, or not at all cover losing at once, losing
late and not losing; a message too long for the buffer and a request on the AUX channel
are refused. Three starts let the rings of one run be replaced and a page be used again by
the third; two buffers are enough for both channels to be announced at once or, since they
may be posted late, one at a time with retries. `Num`, `Align` and `Page` are the real ones. Four requests on two buffers let a reply be lost with two others
unread, a late reply resolve a newer future, and a fourth request come in after each.

`CHECK_DEADLOCK FALSE` is set for `time`, which stops at `MaxCycles`, for `boot`, which
stops when the last run of the service is dead or idle, and for the runs of
`Measurement`, which stop when all requests have been made and served.

`PendingIsServed` is worth a word: nothing ties a reply to the future its command was sent
for, so a late reply resolves a newer future and the newer one's own reply is ignored.
This is also why a lost reply does no harm: it is lost only when the channel is full of
others.

`DiesOnlyIfLate` needs reading too. That the service dies when a fixed wait was too short is plain
from the script. The property says that this is the *only* way: with waits long enough no
order of events leaves it without its device, as it would if an announcement that found no
buffer were not repeated, or a kick went to the wrong interrupt (then nothing is still to
come when the sleep ends).

Runs that are expected to fail state what a comment of the repository says:

* **`wrap_16bit`** `last_avail_idx` is 32 bits wide, `avail->idx` 16 (`rpmsg.c:34`). After 65536
  buffers on a vring they are never equal again, and the PRU takes buffers that were not
  advertised. The moduli are scaled to 4 and 32.
* **`used_race`** `used->idx` is incremented before the element is stored (`rpmsg.c:66-68`). A host
  that reads in between takes a stale descriptor number. A build that sinks the increment
  is safe (`rpmsg_live`).
* **`pru1_kick`** `arm_to_pru` has `sys_event` 0 (`rpmsg.c:97`). The kick after a receive raises
  event 16, which is PRU0's; on PRU1 a sender waiting for a buffer is never woken.
* **`owuart_arbitration`** after losing the line the timer stands at the end of the
  current bit and `RxBit` adds a whole one (`elco/main.c:389`): the rest of the byte is
  sampled at bit edges. The loser drops or misreads a byte and reports a message nobody
  sent. The listener and the winner are not affected (`owuart`).

  The same late timer has a second effect, which `MCOwUartCrowd.cfg` (a configuration of
  `MCOwUart`, beside the runs) shows in seconds: a node that lost in the last byte of a
  message ends that byte late, so its gap ends up to a bit after that of the others. With
  three contenders (messages of one byte that differ in the last bits) the second message begins
  before the loser has reported the first: `HoldOff` sees the line at 1, the byte counter
  is not reset, and the byte is stored behind a message of `MAX_MSG_SIZE` (`elco/main.c:433`
  against `:60`), though the gap is there to tell messages apart (`:99`): `BuffersBounded`
  is violated.
* **`shared_future`** simultaneous requests do not get the same measurement (`dht22.py:63`) if one of
  their clients hangs up: its handler cancels the future all of them await.

### Fairness

`Rpmsg`: weak fairness of the PRU's steps (it runs alone on its core) and of the host's
interrupt and wake-up handling; strong fairness of `Receive`, since both programs come back to
`rpmsg_receive` again and again while other calls may come in between. No fairness of
sending or posting: nobody has to. `Dht22`: weak fairness of `Poll`, `Reply` and `Rest`, the
firmware's own loop; none of `Request`. `Boot`: weak fairness of the script, of the PRU and
of each thing Linux does; none of `Command` and `Restart`. `OwUart`: weak fairness of the rounds; hosts need
not write. `Measurement`: weak fairness of the event loop's callbacks and the firmware's
loop; nobody has to make a request or give one up. Sensors, in particular, owe nothing.

## 4. Proofs

| theorem | of | assumptions |
|---|---|---|
| `TypeCorrect` | `TypeOK` of `Rpmsg` | those on the constants |
| `IndicesCorrect`, `NeverTakesUnadvertised`, `OwnershipExclusive` | `IndicesAgree`, `TakesAdvertised`, `ExclusiveOwnership` | `Lifetime`: fewer than `IdxMod` buffers are posted; `NoRace`: not both `IndexFirst` and `HostRaces` |
| `TransportIsFifo` | `ImplementsChannel`: `Rpmsg` implements `RpmsgChannel` | `Lifetime`, `NoRace` |
| `TimeTypes`, `TimersTrack`, `TimersNeverEarly`, `TimersNeverMissed` | the invariants of `Time` | `TimeAssumption` |
| `LayoutTheorem` | `vring_init` against `vring_size` | an aligned address |
| `BootTypes`, `AttachedTheorem`, `PartsTheorem`, `FreshTheorem`, `DiesTheorem` | `TypeOK`, `AttachedToRings`, `PartsApart`, `FreshReply`, `DiesOnlyIfLate` of `Boot` | `BootAssumption` |
| `DhtTypes`, `StoreTheorem`, `CompleteTheorem`, `RejectedTheorem` | `TypeOK`, `StoresInOwnRecord`, `RecordsComplete`, `FailuresRejected` of `Dht22` | `DhtAssumption` |
| `LinesTheorem` | `LinesReleased` of `Dht22` | `DhtAssumption`, `SensorAssumption` |
| `GoodTheorem` | `GoodSensorsRead` of `Dht22` | those, and `TimingAssumption` |
| `LoopTheorem` | every step of `Dht22` is one of `FirmwareLoop` or changes nothing there | none |
| `UartTypes`, `BreakInTheorem`, `SameBitsTheorem` | `TypeOK`, `NoBreakIn`, `SameBitsSoFar` of `OwUart` | `OwUartAssumption` |
| `IntactTheorem` | `TransmissionIntact` of `OwUart` | `OwUartAssumption`, `PrefixFree`: no message is the beginning of another; no node is started while the others run |
| `BuffersTheorem` | `BuffersBounded` of `OwUart` | those, and `TwoContenders`: at most two nodes have something to send |
| `MeasurementTypes`, `ServedTheorem`, `OutstandingTheorem`, `SameAnswerTheorem` | the invariants of `Measurement` | `MeasurementAssumption` |

They hold for every ring size, message set and bound, every modulus and delay, every number
of restarts, sensors, nodes, writes and requests.
`Lifetime` and `NoRace` cannot be dropped: the runs `wrap_16bit` and `used_race` violate
the same properties where they fail. Nor can the hypotheses of `IntactTheorem`: section 2 says
what happens to a message that begins another, and `MCOwUartLate.cfg` shows what a node
started late can do. Of those of `BuffersTheorem`, `TwoContenders` cannot: all else holds in
`MCOwUartCrowd.cfg`. The other two it has from the timing it rests on; whether the
buffers need them is open.

*Transport.* None of the three invariants is inductive alone. `IndicesAgree` needs
`TakesAdvertised`, or `last_avail_idx` overtakes `posted`; `TakesAdvertised` needs
`IndicesAgree`, as the code compares indices and not counts; ownership needs both, and
`TypeOK` for the widths. `TransportInv` is their conjunction. Ownership is proved per
queue: `SameQueue` for the steps that leave a queue alone, and one lemma for each move of
a descriptor: posted (`PostOwners`), taken (`TakeOwners`), stored (`StoreOwners`), read
back (`ReadOwners`). That a ring slot is not overwritten while it is in use rests on
`AtMostNum` (at most `Num` buffers in flight) and `ModDistinct` (positions less than `Num`
apart have different slots).

*Refinement of the channels.* A channel holds what lies at a window of positions: of the
transmit direction those between the host's reading and the second store of the PRU, of
the other those between the PRU's copy and the host's posting. `DescFixed` says that a position
in flight keeps its descriptor, whoever holds it; so what it carries changes only when its
buffer is written, which `Copy` and `HostSend` do to a descriptor that, by
`ExclusiveOwnership`, no position of the window has. With that every step leaves a window
alone (`OtherSteps`), adds a position (`StorePuts`, `HostPuts`) or drops the oldest
(`CopyGets`, `ReceiveGets`), and `WindowGrows` and `WindowShrinks` turn this into `Append`,
`Head` and `Tail`. Two things do not follow from `TransportInv`: that the PRU puts only
messages that fit (`MessageFits`: `rpmsg_send`'s check of the length, two steps
and a copy before the store), and that a read comes after *both* stores; of the latter
`NoRace` takes care if the index is stored first, the index itself if the element is.

*Clock.* `TimeInv` says that the counter holds the cycles since the last reading, that the
modular distance of timer and clock is that of the real times, and that the real distance
stays within half the modulus: at most half ahead when armed, at most `MaxGap + Stopped`
behind when seen to expire. `TimeLt` turns the sign bit into a comparison from there.
`TimeAssumption` asks that polls come within half the range less the reading time (10
seconds; the loops take microseconds) and that an extension is at least as long as a
polling gap (27 us and half a bit, about 100 us).

*Boot.* `BootInv` adds four parts to the properties. `TableFilled`: DRIVER_OK implies that
the table holds the addresses of the vrings allocated this time, and `main` is past its
wait only after DRIVER_OK; this makes `AttachedToRings` inductive, across restarts
because a load empties the table before the PRU runs. `NothingLeft`: while the PRU does
not run, rings, queues and devices are empty. `Traffic`: only announcements and data are
sent, only data received, so what the service reads has a run. `OfThisRun`: once the script
is past its check for a running PRU, everything under way is of this run; it holds there
because of `NothingLeft`, and `FreshReply` follows from it. `PartsApart` needs no induction of
its own: `AttachedToRings` gives the address, a multiple of the page and so of the
alignment, and `LayoutTheorem` does the rest, with the remainders of `Lemmas`
(rounding up commutes with adding a multiple of the alignment, `AlignUpShift`).

`DiesTheorem` adds two invariants. `Started`: the first message of a PRU is the
announcement of its first channel, one that is past its announcements has made all of
them, `last_avail_idx` counts the messages sent, the interrupt is up as long as Linux has
not read them all, and an announcement that was read has its device. The interrupt is the
point where the resource table comes in: `Sending` shows that event `PruVring` reaches
the ARM. `InTime`: how far the script gets in a run none of whose waits was too short. The
link between them is `AllCame`: when the sleep ends and nothing is still to come, the PRU
cannot be stuck in its announcements, as Linux has posted more buffers than it has read
messages; so it has sent the first one, and Linux has read it. This needs `Buffers` not to
be 0, and two different pages for the two vrings.

*DHT22.* `DhtInv` adds `Recording` (a sensor that is not done has a record of bits and not
a failure, room for the bit it reads, and a full record or a failure when it is done) and
`PolledDone`: while `done` is set, the sensors polled so far in this pass are done. Without
the latter nothing says that all sensors are done when `done` survives a pass and the
reply is sent. `RejectedTheorem` computes that the sum of a failure's first four bytes,
for every state number, bit number below 8 and byte number up to 5, is never 254 modulo 256.
`LoopTheorem` takes each action to its counterpart: `Poll` changes nothing the loop shows,
and a reply ends what a request began.
None of these assumes anything of the sensors.

`GoodTheorem` does, of the good ones: they follow the data sheet (`SensorAssumption`), with
times that fit (`TimingAssumption`, see section 2). What the others do remains open, and they are
polled in between. `OnlyStartPulse` (a line is held low only in the start pulse, before the sensor
answers) gives `LinesReleased`. `GoodInv` says of a good sensor that its record is the bits it
sent so far (`Received`) and that the firmware is `InStep` with its answer: the last poll was in
the part of the answer that the state stands for, and the time since the start pulse
(`age`) plus what is left on the timer (`left`) comes to at least the time-out counted
from the beginning of that part. A sensor is polled every `NumSensors` polls; each part
is longer than that, so none is skipped, and shorter than the time-out, so none is given
up, and in a 1 there is a poll after the decision point and before its end. Where a pulse
begins is a sum over the pulses before it. `Lemmas` proves the facts about such partial
sums that are needed, by induction on the natural numbers: the principle itself follows
from the well-foundedness of `<` for sets of numbers, so that no operator has to be passed.

*UART.* Time is what makes these invariants hard: the nodes are only related by when each
looks at its clock. `UartInv` counts in rounds. The phase of a sender is the number of
rounds since the nominal start of its bit; timers are extended from the deadline and not
from the poll, so a phase does not depend on how late a node was, and two senders that
started within a round of each other stay within a round (`InStep`). `Waits` relates a
sender to a node that is about to send: in `HoldOff` its timer exceeds what the sender
has left of its byte, with a margin of a round that is used up by `EndOfMessage`, `Idle`
and `TxStart`, each of which is a tick of its own. A byte after its start bit takes
exactly the eleven bits of the hold-off, and the start bit is a 1 that everybody hears:
the length of the gap cannot be shortened. From this a node in `TxStart` meets other
senders only in the first round of their first start bit (`NoBreakIn`). `AgreeTo` says
that senders have sent the same so far; a bit both went on after was the same, as one
that drove a 0 had read the line at 0 in the middle of that bit, when the other, within a round of it,
was driving (`Held`). `AboveInv` keeps, for a node that lost, the one that beat it: it
stays at that bit until the loser has left it. The start of a node at any moment
costs nothing, as it holds off first.

`IntactTheorem` needs the same for those who listen (`IntactInv` in `OwUartIntact_proofs`, about
half of all the proofs). A node that receives expects a number of rounds
until the end of the byte (`Expects`), a sender has a number left (`Remaining`); both are
counted from deadlines, so their difference, the `Lag`, is fixed by the poll that hears the start bit and stays as it is
until the end of the byte. `TimeInv` says what it can be: two to five rounds for who
heard the start bit (`Heard`; a loser is late by up to half a bit more, the flaw
of the run `owuart_arbitration`), or else the node is still to hear it (`Unheard`), has
heard it from another sender that is a little earlier (`Ahead`), or has just sent the same itself (`Finished`). So a
sample is taken in the second half of the bit it is for, when those that were beaten are
silent. At the end of a message `Gap` and `Before` keep
the order: whoever listens has reported before anyone begins again; that needs
`Sync`, as two that heard the same start bit are within two rounds only through a sender. A late
start breaks `Gap`. `DataInv` says what a listener has: the bytes before
the current one and the bits sampled of it, for every sender that is not `Doomed`. A doomed sender drives a 0 while
another node drives a 1, and has not looked yet; the listeners follow the other one, and
it stops within the bit (`StaysDoomed`, `DoomedStays`). Who has completed its message is not
doomed. `PrefixFree` is for the end of a message: senders that are still equal there have the same
message (`NotTheEnd`), so nobody goes on when the first of them stops.

`BuffersTheorem` counts bytes, of listeners and losers alike, and rests on `TimeInv` too. `Room`:
who has heard the start bit of a sender's byte has no more bytes than the sender had sent
before it, and one more once it has stored that byte; the length of the sender's own message
was checked in `Idle`. A loser takes over as many bytes as the one that beat it (`RoomLoses`).
What is left is that a buffer is empty when a message begins. `Due` says so of a node with a
report beside one in `TxStart`: its hold-off has run out, or it reports in this very round.
`OnTime` gives this in the gap: a report is at most two rounds after a contender could
start. A contender that has just completed its message is three half bits behind
all who heard it (`AfterLast`), so a loser, half a bit late at most, is on time for it. Beside a
third node that contends it need not be: that is the first place where `TwoContenders` is used, and the
other one is a node that hears a start bit, with its report still to come, while yet another is in
`TxStart`.

*Measurement.* `PendingIsServed` is not inductive: a reply may be lost, or be taken by a
future other than the one it was sent for. `MeasurementInv` adds `NoneInVain` (commands
outstanding are at most one, if the current future is pending, and one for each future
given up), `FromItsFuture` (who has an answer has it from its future, which keeps it for
good) and `Underway` (the channel holds measurements that were taken). A lost reply is the
step of interest: the channel is full then, so one is still outstanding, as `Capacity` is
not 0.

Each `...Inv` was checked by TLC on the instance of its run before it was proved.

Only model-checked:

* all liveness (`Delivery`, `SenderWakes`, `EventuallySent`, `RequestsEnd`,
  `DeviceAppears`), which is out of the prover's reach;
* the refinement `ImplementsLine` of `OwUart`. It puts the reports of all nodes, those that
  contended and those that were lost included, in the order of one log;
* `TransmissionIntact` and `BuffersBounded` with a node that is started while its only partner sends;
* that `Dht22` meets the fairness of `FirmwareLoop`.

## 5. Not modelled

* `util.py`, `ds18b20.py`, `read_influx.py`, and the conversion of a record to degrees and per
  cent in `decode.pl` and `dht22.py`: pure formulas or one-shot scripts.
* Device headers, overlays, makefiles: declarations. The fields of the resource table
  that Linux alone reads (versions, offsets, features) are among them.
* In `Rpmsg`: addresses of endpoints, name service contents, `len` of used elements (the
  code stores the buffer's length, not the message's; Linux ignores it). The destination of a
  report of `elco` is the last host that wrote, 0 before: such a report is one that is lost.
* In `Measurement`: the DS18B20 readings, and an `os.write` that raises. A write is refused
  only when the device is gone; the file descriptor is then of no use until the service is
  restarted, and that is in `Boot`. Requests hang meanwhile instead of failing
  (`dht22.py:18-20`), until sanic's time-out cancels one and with it the future.
* In `Boot`: somebody else stopping the PRU under a running service, and the second of
  sleep after the stop, which nothing waits for.
* In `OwUart`: drift between clocks and ticks of unequal length (every node ticks once in each
  round, in any order), nodes that do not follow the protocol, and a PRU that is stopped in
  the middle of a bit, which leaves the line as it was driven.
* `GPIO2.OE`, which the DHT22 firmware changes by reading and writing it back
  (`main.c:58,63`) while Linux may do the same for other pins.

## 6. What could come next

* `ImplementsLine` proved, from `IntactInv` and `RoomInv`.
* `Boot` with somebody stopping the PRU under the service, composed with `Measurement`.
