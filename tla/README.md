# Specifications of the ESXP1302 gateway

TLA+ specifications of the firmware in `src/main`: a LoRa gateway on an ESP32 with an
SX1302 concentrator, a port of Semtech's packet forwarder. They are checked on small
instances by TLC and, for the properties that matter most, proved for every instance
by TLAPS. Paths below are relative to the repository; `fwd` stands for
`src/main/packet_forwarder/lora_pkt_fwd.c`, `jitqueue.c` for
`src/main/packet_forwarder/jitqueue.c`, and HAL files are those of `src/main/libloragw`.

Contents: 1 the system, 2 what is modelled and how, 3 the runs, 4 the proofs,
5 findings, 6 what is not modelled, 7 plan, 8 how to run.

## 1. The system

### 1.1 Tasks and what they share

`app_main` (fwd 4243) chooses a boot mode. As a soft access point only the console and
the web server run. As a station, the first time an IP address is obtained it starts
`pkt_fwd_main` (fwd 1538), which starts the concentrator and these tasks, on two cores:

| Task | Code | Does | Waits for |
|---|---|---|---|
| thread_up | fwd 2125-2700 | fetches packets, sends PUSH_DATA, waits for PUSH_ACK | 10 ms sleep, socket timeout |
| thread_down | fwd 2710-3401 | PULL_DATA keepalive, PULL_RESP to the queue, TX_ACK | socket timeout |
| thread_jit | fwd 3428-3523 | takes packets from the queues to the radio | 10 ms sleep |
| main loop | fwd 1866-2062 | statistics every `stat_interval` | sleep |
| LED task | led_indication.c 33-101 | blinks | event counts |
| Wi-Fi events, timers, console, httpd | fwd 3892-4221, http_server.c | connect, reboot, configure | events |

`thread_gps`, `thread_valid` and `thread_spectral_scan` are in the source but not
started in this build (`#if 0`, or no call), and `gps_enabled` is never set.

Shared state and its lock: the concentrator (`mx_concent`), each just-in-time queue
(`mx_jit_queue`, a mutex per call), counters of the report (`mx_meas_up`, `mx_meas_dw`),
the report itself (`mx_stat_rep`). With no lock: `dest_addr`, the `config` table,
`reboot_flag`, `wifi_ready`, `exit_sig`.

### 1.2 Components

For each: state, operations, interactions, what is hard, what makes it correct.

**Just-in-time queue** (`jitqueue.c`, `jitqueue.h`). State: an array of up to 32 nodes
sorted by departure, `num_pkt`, `num_beacon`. Operations: `jit_enqueue` (tests for room,
too late, too early, collision; searches a slot for class C), `jit_peek` (drops missed
nodes, returns the index of the next one if it is due within TX_JIT_DELAY),
`jit_dequeue` (removes by index). Hard: each call locks by itself, so an index goes
stale between peek and dequeue, and room between the test and the append; the clock is
a 32-bit counter that rolls over, and every test is a difference modulo 2^32; the array
is re-sorted after each removal, in the middle of scanning it. Correct when no two
queued transmissions overlap, the array keeps departure order and its counts, what is
accepted departs in the future and leaves once.

**thread_jit and the transmit path** (fwd 3428, `lgw_send`, `sx1302_send`). State: the
packet in hand, the TX state machine of the chain, the timestamp trigger. Hard: the
status is read and the packet is programmed under two separate locks of `mx_concent`,
and the radio goes on in between; a trigger armed too late waits for a roll-over. Correct
when a programmed packet is radiated whole and on time and an accepted one is not given
up on the way.

**thread_down**. State: token and time of the last PULL_DATA, `autoquit` count, beacon
allocation. Interactions: the server's datagrams, the queue, TX_ACK. Hard: lost, late
and duplicated datagrams, the counter read long before it is used. Correct when each
PULL_RESP has one TX_ACK whose error says what became of it.

**thread_up and the report**. State: the packets fetched, the tokens, the report. Hard:
`report_ready` read without its lock, an acknowledgement that arrives with the next
datagram, `mx_meas_up` held while waiting on the network, two tasks that receive into one
`dest_addr`. Correct when each packet is sent once, and counters add up.

**Reception in the HAL** (`lgw_receive`, `sx1302_fetch`, `sx1302_parse`,
`loragw_sx1302_rx.c`). State: the RX FIFO, `rx_buffer` with its index and count.
Hard: packets half-written when fetched, batches larger than the caller's array,
errors in the middle of a batch. Correct when packets come out once, in order, dated
by the time of their reception, and are lost only with a damaged one.

**Timestamp counter** (`loragw_sx1302_timestamp.c`). State: the last 27-bit value and the
number of turns. Operations: read and count, expand a packet's stamp. Hard: the counter
is read by four tasks, each reading may be the one that counts the turn; a packet may
be older than the turn. Correct when the 32-bit time is the true one.

**Boot mode, Wi-Fi and reboot timers** (fwd 3892-4337). State: `reboot_flag`, one-shot
timers, retries, the mode in flash. Hard: timers race with events and commands;
progress is made across reboots, through a value in flash. Correct when the gateway
ends up serving, or reachable by its user.

**Settings** (`web_config.c`, `http_server.c`). State: the `config` table, and flash.
Hard: three tasks save it item by item with no lock; power cuts. Correct when no setting
is lost and a half-saved table is recovered from.

**HAL start, send and stop** (`loragw_hal.c` 832-1183, 1337-1420, `loragw_sx1302.c`,
`loragw_cal.c`, `loragw_lbt.c`). State: `CONTEXT_STARTED`, the radios, two micro-controllers
with firmware of their own and mailboxes between them and the host, the TX state machine,
the sx1261. Hard: some hundred accesses in a row, of which the errors of the mailbox writes
are ignored; waits without a timeout; statuses left from the round before; five exits of
`lgw_send`. Correct when success means that the micro-controllers took what they were meant
to, and what `lgw_send` answers is what happened to the packet.

**Register and bus access** (`loragw_spi.c`, `loragw_com.c`, `loragw_reg.c`). State: the
bytes of the chip, who holds the bus. Hard: read, mask, shift and write of a byte that holds
neighbours; chunks; failures half way. Correct when success means done, and the bus is free
for the next access.

**Configuration** (`global_json.h`, the parsers of fwd 330-1400, `lgw_*_setconf`) and the
**radio drivers** (`loragw_sx1250.c`, `loragw_sx125x.c`, `loragw_sx1261.c`). Hard: integer
arithmetic of bands, channels and powers made at several places; errors gathered and looked
at once. Correct when a setting that is accepted takes effect as asked.

**Modem parameters and time on air** (`loragw_aux.c`, `sx1302_lora_modem_configure`,
`sx1302_send`, `legacy_timestamp_correction`), **duplicates** (`merge_packets`), **frames**
(`loragw_sx1302_rx.c`), **fine timestamps** (`precise_timestamp_calculate`): algorithms over
arrays and counters that roll over.

**Spectral scan and listen-before-talk** (`thread_spectral_scan`, which nothing starts in this
build, `loragw_sx1261.c`). State: the one sx1261 both use. Hard: `mx_concent` is held for a
call, not for a scan. Correct when neither takes the other's state of the radio for its own.

**LED indication**: counters of blinks shared without a lock. **Display, sensors, board
I/O**: output. **GPS**: never started in this build.

`PROJECT.json` lists every component with its status, and the hazards, each at its line.

## 2. The modules

```
JitTiming            arithmetic of the counter, criteria of jit_enqueue    (constants)
  JitSchedule        abstract: a set of reservations that never meet
  JitQueue           the queue, thread_down's enqueue, thread_jit           --> JitQueueProofs
    TxPath           + status, send, trigger, the radio                     --> JitQueueProofs
Txpk                 a PULL_RESP's request to a packet or a refusal         (constants)
  Downlink           thread_down, its counters, keepalive and autoquit      --> DownlinkProofs
Rxpk                 a packet to a PUSH_DATA's fields                       (constants)
  Uplink             thread_up, PUSH_ACK, main loop, report                 --> UplinkProofs
Reception            FIFO, rx_buffer, counter, lgw_receive                  --> ReceptionProofs
BootMode             boots, timers, Wi-Fi events, settings in flash         --> BootModeProofs
Firmware             lgw_start as a script, the rounds of the AGC firmware  (constants)
  Concentrator       lgw_start, lgw_send, lgw_stop, AGC, arbiter, sx1261    --> ConcentratorProofs
Bus                  register fields, memories, radios over the SPI bus     --> DriverProofs
Scan                 spectral scan against listen-before-talk               --> RadioProofs
SetUp                the set-up of a radio, access by access                --> RadioProofs
Pps                  fine timestamps                                        --> DriverProofs
Merging, Modem, Settings, Frequencies, Parsing                              algorithms
  Computing          an input of one of them, and what must hold of it      --> DriverProofs
Frames                                                                      algorithm
MCJitQueue, MCTxPath, MCReception, MCDownlink, MCUplink, MCConcentrator, MCParts       instances
```

`MCParts` puts Bus, Pps, Scan, SetUp and the algorithms into one model whose first step chooses
the part, and of an algorithm the input. Definitions called "Mutant" are plausible bugs, used to
see that a property would notice.

### 2.1 JitTiming, JitQueue, JitSchedule

`JitTiming` holds what `jitqueue.c` computes: `Minus` and `Plus` are the `uint32_t`
operations modulo `Wrap` (2^32 in the code), `CollisionTest` is `jit_collision_test`,
`TooLate`, `TooEarly`, `Blockers` are the three criteria of `jit_enqueue` (216-290),
`AsapTimes` its search for class C (163-214), `Outdated` and `Due` the tests of
`jit_peek` (376-383, 414-418). `Arrangements` is the sort: `qsort` is not stable, so any
order of equal nodes is a result; and as `compare` (a signed difference) is not
transitive over the whole counter, what `qsort` does with a set of nodes it does not
order is any arrangement.

`JitQueue` has one action per critical section, or per iteration of `jit_peek`'s loop:

| Action | Code |
|---|---|
| `DownReadCounter` | `lgw_get_instcnt` before the enqueue, fwd 3379-3383 |
| `EnqueueFull`, `EnqueueNotFull` | `jit_queue_is_full`, under a lock of its own, jitqueue.c 139-142 |
| `EnqueueLocked` | the rest of `jit_enqueue`: one of three refusals, or `Accept` |
| `JitReadCounter` | thread_jit's reading, fwd 3439-3447 |
| `PeekEmpty`, `PeekBegin`, `PeekDrop`, `PeekKeep`, `PeekEnd` | `jit_peek` |
| `Dequeue`, `JitRelease` | `jit_dequeue`, and the end of the round |
| `Tick` | the counter |

While `jit.pc = "scan"` thread_jit holds the mutex. `jit.i` resumes at the *second* node
after a drop, as the code does (`i = 0; continue;` in a `for`). With no candidate the code
reads `nodes[-1]` and returns -1 whatever it finds: no choice results. Of a packet only
departure, kind and time on air are kept; "index -1" is 0. The environment is bounded by
the age of the counter reading that `jit_enqueue` uses (`MaxDownLag`) and the time
between two readings of thread_jit (`MaxPeekGap`); thread_jit sleeps `PeekPeriod` in
between. Beacons are enqueued one at a time with a departure of their own; the block of
thread_down that computes it is idle in this build.

`JitSchedule` is what the queue promises: a set of reservations, to which one is added at
a time and only on free air, and from which each leaves once, to the radio or dropped,
unchanged. `JitQueue!ImplementsSchedule` maps the array to its range.

### 2.2 TxPath

Adds to `JitQueue` the radio chain (`free`, `scheduled`, `emitting`) and thread_jit's two
critical sections: `SkipEmitting` or `PassStatus` for `lgw_status` (fwd 3467-3485; a chain
that is only scheduled is overwritten), then `Send` or `SendFails` for `lgw_send`
(3487-3509). `RadioStart` and `RadioDone` are the hardware: a programmed packet starts
when the counter *equals* its trigger. TxPath implements JitQueue, see section 4.

### 2.3 Reception

`UpFetch` is `sx1302_fetch`: it reads the FIFO only when nothing is left in `rx_buffer`.
`UpUpdate` is `sx1302_update`, `UpdateFails` the same when the reading fails (its result
is ignored); `UpParse` takes one packet, `UpDiscard` is a truncated or corrupted packet
(the buffer is cleared, 0 is returned, the packets already parsed are lost with it),
`UpAbort` one with metadata out of range (lgw_receive fails, thread_up ends the program,
fwd 2184-2187). `ReadCounter` is any other task. The lock `mx_concent` is held during
all of `lgw_receive`: `ReadCounter` waits for `up.pc = "idle"`; packets and time do not.
Time is a pair (turn, raw count): `RawMax + 1` stands for 2^27 and `Wraps` for 32.
`Tick` assumes what `loragw_hal.c:1209` asks of the upper layer, that the counter is read,
and each packet parsed, within a turn of 134 s; the loops do so every 10 ms. With failing
readings this assumption is about the readings that succeed.

`UpMiscount` is a fetch in which a reading of the number of bytes fails: `rx_buffer_fetch`
looks at the error of neither (loragw_sx1302_rx.c:141, 145) and goes on with what its
uninitialised buffer held. Too few bytes (`TooFew`) cut the FIFO between two packets or inside
one; with too many (`TooMany`) something follows the packets, in which the search for a syncword
finds nothing, and discards the whole buffer, or by chance something that looks like a
packet, which is numbered like one that arrived. That what lies beyond the FIFO is never a sound
packet is an assumption; a count above the 4096 bytes of the buffer overruns it, which is
undefined and not modelled. `LostOnlyWithDamage` leaves such a fetch out, as sound packets
are lost in it (section 5); the other properties, and the calls after it, do not.

### 2.4 BootMode

Of the settings the SSID and the password are kept, each the router's ("home") or not,
and the mode of the next boot. `PowerOn` and `Prepare` are `app_main`; `TimerFires` the
timer callback; `Connected` and `Disconnected` the two Wi-Fi events, handled one at a
time by the event task; `Apply`, `WebReboot` the HTTP handlers, handled one at a time by
httpd; `Command` the console. `WriteItem(s)` is one iteration of `save_config` in task `s`:
the three savers interleave, and `PowerCut` may fall between two items. A console command
saves twice and restarts. The timers of 3, 5 and 10 minutes are one-shot and may fire in
any order and at any time after they were started: the model has no clock.

### 2.5 Txpk and Downlink

`Txpk` is what thread_down makes of the JSON of a PULL_RESP (fwd 3060-3378): `Malformed` are
its early exits, `FreqRefused`, `Preamble` and the search of the gain table its checks; of the
text only the fields present, out of format, and the values computed with are kept.

In `Downlink` the loop of thread_down is the actions `Autoquit`, `SendPull`, `KeepaliveOver`,
`ReceiveAck`, `IgnoreResp`, `RefuseGps`, `TakeResp`, `Enqueue`, `CountRequest`, `Answer`: one per
critical section or datagram, so that thread_jit (`JitTake`, `JitMiss`, `JitGivesUp`, `JitSend`,
`JitCount`) and the main loop (`Report`: copies the counters and resets them) come in between.
The queue is a number of packets here, and refuses with any of its verdicts: which one is
`JitQueue`'s matter, what the server is then told this one's. The network loses, delays and
repeats PULL_ACK and PULL_RESP; tokens repeat. `answered`, `accepted`, `missed`, `reported` and
`silence` are histories that no action of the code reads.

### 2.6 Rxpk and Uplink

`Rxpk` is the serialisation of one packet: what passes the filter, what thread_up cannot
serialise and exits on, which fields the object has. In `Uplink` thread_up is `Fetch`, `Look`
(report_ready, read without its lock), `Serialise` and `Skip` for one packet each, `CopyReport`,
`Complete`, `Send`, `CountSent` (takes `mx_meas_up`, which is then held over the wait),
`ReceiveAck` or `AwaitInVain` twice, `UpEnds`; the main loop is `IntervalOver`, `CopyCounters`,
`WriteReport`. A malformed packet makes thread_up exit with the program (`Serialise` to "exit").

### 2.7 Firmware and Concentrator

`Firmware!StartScript(conf)` is what `lgw_start` does to the chip, as a sequence of elementary
operations: functions it gives up on when they fail, mailbox writes whose error is ignored,
waits for a status, mailbox reads that must have a value (or, for LBT, be zero or not as it is:
`Same`), reading and judging the results of a calibration. The AGC's and the arbiter's firmware are binaries: external, modelled by the codes
and statuses the host uses (`AgcRounds`, `CalTakes`, `ArbTakes`).

In `Concentrator` the host interprets the script, with up to `MaxFaults` failing accesses
anywhere; `mishaps` records which ignored failures happened, and no action reads it. `lgw_send`
is `SendRefused`, `SendStarts`, `SendTriggers`, `PollInitiated`, `PollCleared`, `SendAborts`,
`SendStops`; the AGC decides (`Departs`) while it is polled. `Stop` is `lgw_stop`.

### 2.8 The parts

* `Bus`: one action per SPI transaction. `lgw_reg_w` is a read, `Mixed`, and a write; memories go
  in chunks (`Acquire`, `Transfer`); a radio is reached through the concentrator.
* `Frames`: the bytes of the FIFO. `rx_buffer_fetch` looks for the packets, after a cut too, and
  `rx_buffer_pop` takes one out. `FramesRecovered` has two
  conditions, that a cut is not just behind the first byte of a syncword, and that the rest of
  the packet cut holds no syncword; without them packets are lost (section 5).
* `Pps`: the register of the last pulse per second, the ring of earlier values, and the fine
  timestamp of a packet. Pulses are lost, readings late and packets left waiting for as long as you
  like. A failing reading of `timestamp_counter_get` changes nothing; one of
  `precise_timestamp_calculate` (`Unreadable`) returns 0, which `sx1302_parse` takes for success, and the
  packet has a fine time of 0. `known` and `sure`, which no action reads for anything else, tell
  whether the ring was filled within the bounds `Outage` and `Stall`, and the packet parsed
  within `Wait`: `FineIsTrue` is about those packets, and the code gives a wrong time to others
  (section 5). `PpsAssumption` relates the bounds: the ring is younger than a turn, with
  the values of the code at 7 pulses lost in a row, and holds at least three values (section 4.2).
* `Scan`: commands to the sx1261 as they follow each other in `loragw_sx1261.c`, with failures
  that leave out the rest of a sequence, and who holds `mx_concent`. Of the two tasks only
  thread_jit is started in this build; thread_spectral_scan is modelled as the source has it.
* `SetUp`: the set-up and calibration of an sx1250, sx1261 or sx125x is a script of accesses, each with
  what the function makes of its failure: `err |=`, an early return, or nothing. `RegW`, `RegR` and
  `CheckStatus` are one access each, `LockPll` one attempt of `sx125x_setup`; up to `MaxFailures` of them
  fail, and a write that fails may have reached the radio. The registers begin with anything
  of `Leftovers`: a radio that was set up before is not reset in between.
* `Merging` (`merge_packets`), `Modem` (receiver and transmitter parameters, time on air, symbol
  counts), `Settings` (plans, parsers, `lgw_*_setconf`, channelizer, power), `Frequencies` (registers of
  the radios and bands of calibration), `Parsing` (what `sx1302_parse` makes of metadata): operators,
  checked on all inputs of a set.
* `Computing` has one step, which takes a packet, a channel, a gain table, a frequency, a plan,
  metadata or a batch from sets that are constants: `ParametersAgree` and `MergedOnce` say of it what
  must hold. Of a plan patched from the web page it says that no check of the parsers or of
  `lgw_*_setconf` refuses it, and that `sx1302_radio_calibrate` (`Calibrates`) succeeds exactly if
  the frequencies patched are in the bands of the sx1250; with others the program exits (section 5). `MCParts` gives the sets values and adds the inputs of `Frames`.
* In `Merging` the searches of `merge_packets` are the function `merged` of `Deduplicated`, one removal
  each. What `qsort_r` leaves is any arrangement in which no packet stands right after a later one
  (`Sorted`): which one depends on the library, and that there is one is part of the property.
  `compare_pkt_tmst` subtracts two `int`s and relies, as its authors do, on the difference
  wrapping around. A batch was received within half a turn of the counter (36 minutes; the FIFO is read
  every 10 ms): `Batch`.

## 3. The runs

Delays are scaled to a few ticks; the relations between them that decide the outcome are
kept or varied. In the code TX_START_DELAY is 1.5 ms, TX_MARGIN_DELAY 1 ms, TX_JIT_DELAY
40 ms, TX_MAX_ADVANCE_DELAY 512 s, the sleep of thread_jit 10 ms. Several
times on air, up to the advance, make collisions of every shape.

`VIEW Relative` (and `RelativeTx`, and that of `Parts`, for `Pps` only) identifies states that differ by a rotation of the
counter. That is sound for these modules: every guard and every assignment is in terms
of differences modulo `Wrap`, so rotated states have rotated successors, and the
properties of those runs are themselves about differences. `JitRollOver` uses no view and
shows the same on a counter that rolls over within the run.

| Run | Bounds | Shows |
|---|---|---|
| `JitTimely` | 3 nodes, all kinds, thread_jit within TX_JIT_DELAY | `TypeOK`; `NothingMissed`: nothing due is left behind; `AcceptedInFuture`; `ImplementsSchedule` |
| `JitStalled` | 3 downlinks, thread_jit late by up to twice TX_JIT_DELAY, enqueues 9 ticks old | `DepartureOrder`, `ClassCNeverCollides` even when packets are missed and dropped; `PeekedStillDue`: the index of a peek is still good at the dequeue |
| `JitRollOver` | 2 nodes, counter of 34 ticks, no view, fairness | `NoOverlap`; `QueuedLeaves`: no packet stays |
| `TxTimely` | departures at least 2*TX_JIT_DELAY + airtime + lag ahead | `NoneSkipped`, `RadiatedWhole` |
| `TxAhead` | two rounds of thread_jit within TX_JIT_DELAY - TX_START_DELAY | `TriggerAhead`: every packet is programmed before its trigger |
| `Reception` | 9 instants of a 27-bit counter of 3 values, 4 packets of any kind, array of 2, failing accesses | `TimesTrue`: the counter and the stamps; `InOrder`; `LostOnlyWithDamage`, or in a fetch with a misread count |
| `Boot` | 1 retry, 3 interventions or power cuts, fairness | `SavedWhenQuiet`, `UnservedReturns`, `ServingKept`; `LeftAlone`: serves or reboots in the end |
| `Downlink` | 2 PULL_RESP of 5 kinds, 2 chains, queue of 1, 2 tokens, threshold 2, 1 report, fairness | `AnswersTrue`: TX_ACK says what happened; `DownlinksAddUp`; `QuitOnlyInSilence`; `QuitsInSilence` |
| `Uplink` | 2 packets of 3 kinds, 2 tokens, 2 reports, fairness | `PacketsInOrder`, `ReportsOnce`, `CountersKept`; `EverybodyGoesOn` |
| `Concentrator` | 5 boards, 2 failing accesses, 2 packets, fairness | `McusTookParameters`, `RoundsInStep`, `SendIsHonest`; `StartEnds` |
| `Parts` | see below | `BusSound`, `MergedOnce`, `ParametersAgree`, `SetUpSound`, `FramesRecovered`, `FineIsTrue`, `Sx1261Shared`, `NoScanOverDownlink` |
| `BootLoss` | 1 retry, 1 intervention, fairness | a statement of the user guide that the code does not keep, section 5 |

Why the bounds are enough. Queue: three nodes are the least for which the last node that
moves into a gap, the sort, and a slot between two others all differ; the full queue is
reached; the code treats pairs of nodes, one at a time. `PeekedStillDue` depends on the
age of the enqueue's counter: it holds up to about 2*(START+MARGIN)+JIT plus the time on
air, and `JitStalled` is at that boundary. `TriggerAhead` needs JIT >= 2 rounds + START,
`TxAhead` is at that boundary. Reception: packets outnumber the array, the FIFO outlives
a turn, and the counter takes every value relative to a packet's stamp. Boot: three
interventions allow a wrong setting, its repair, and a power cut in the middle of it; the
number of retries only delays the flag. Downlink: two requests and a queue of one place meet
at every step of each other, and a report in between; two tokens are confused and told apart;
a threshold of two tells a count that is reset from one that is not. Uplink: two reports
replace each other, two packets make a batch that is cut in the middle. Concentrator: one
failure hides another (a lost write is hidden by a failing read back), so two; the boards have
both families of radios, calibrated or not, with and without listen-before-talk. `Wrap` is 256
where a theorem states the property too: its hypothesis wants the counter not to roll over within
twice the horizon of a full queue. The view makes the size of a turn cost nothing.

Parts: bytes of 3 bits with fields of every position and sign, a memory of 2 bytes in chunks
of 1, one failure; batches of up to three packets around the roll-over; all LoRa parameters
with payloads at the edges of symbols and blocks; channels at, just inside and just outside
the edges of the bands, gain tables of both radio families, the three shipped plans with
frequencies from the web page; three packets with payloads that hold the syncword, cut at
every byte; set-up scripts with any two failing accesses (one hides another where an ignored write
is followed by a reading back), from zeroed registers and from those of a radio set up before;
frequencies at the edges of the registers and the calibration bands; metadata at the edges of each
field; pulses two counts apart on a counter of 17 (not a multiple: a value a turn old is wrong), in every phase, any of them lost and any reading late
or failing, with one pulse lost in a row, one count between readings and two of waiting as the bounds within
which the time has to be right;
two frequencies to scan, two chains, one failing command.

Deadlock is not checked in `Reception`, `Downlink`, `Uplink` and `Concentrator`, where the
program ends (an error, autoquit, a malformed packet, a failed start), nor in `Parts`, where an
algorithm is done after its one step. It is checked in all others.

Fairness. `JitQueue!FairSpec`: thread_jit and thread_down run at one priority, and every
mutex is given back, so neither starves; thread_down need not receive anything, so its
first step is not fair. `BootMode!FairSpec`: tasks run, timers expire, a
failed attempt to connect is reported; and strong fairness of `Connected`: with a router
that can be reached time after time, some attempt succeeds. `Serves` assumes that router
and fitting settings from some time on, in its own statement. The interventions of the
user and the power cuts are finitely many in a run: the liveness properties say what
happens once the gateway is left alone. `Downlink!FairSpec`: tasks run, and each keepalive
interval ends some time, which is strong fairness as datagrams come in between.
`Uplink!FairSpec`: tasks run, no datagram is promised; strong fairness of `CopyCounters`, for
thread_up gives `mx_meas_up` back and then waits for the bus, while the main loop, of the same
priority, takes it. `Concentrator!Spec`: the host and the two micro-controllers run; that a
transmission is decided or ends is not assumed.

## 4. The proofs

All leaves are checked by tlapm; nothing is assumed but the named assumptions on the
constants (`TimingAssumption`: delays and times on air are far below a turn;
`QueueAssumption`, `ReceptionAssumption`, `BootAssumption`, `DownlinkAssumption`,
`TxpkAssumption`, `UplinkAssumption`, `BoundsAssumption`, `ConfigurationAssumption`, `BusAssumption`,
`ScanAssumption`, `SetUpAssumption`, `PpsAssumption`, `ComputingAssumption`), which TLC evaluates too, and the hypotheses on the delays that 4.2 names and justifies.

### 4.1 The theorems

| Theorem | States, for every value of the constants | Invariant it rests on |
|---|---|---|
| `JitQueueProofs!TypeCorrect` | `TypeOK`, room for the append | itself |
| `!QueueNeverOverlaps` | `NoOverlap` | itself, on top of the types |
| `!QueueInDepartureOrder` | `DepartureOrder` | `Known` |
| `!EnqueuedInFuture` | `AcceptedInFuture` | `Known` |
| `!QueueImplementsSchedule` | `ImplementsSchedule` | `Known` |
| `!PeekedIsStillDue` | `PeekedStillDue` | `Known`, `PeekedDue` |
| `!QueueMissesNothing` | `NothingMissed` | `Known`, `OnTime` |
| `!ClassCFindsFreeAir` | `ClassCNeverCollides` | `Known`, `PostOfKind` |
| `!TxImplementsQueue`, `!TxNeverOverlaps` (of `TxPath`) | the transmit path implements the queue; `NoOverlap` | |
| `!ProgrammedAhead` | `TriggerAhead` | `Handed`, `OnAir` |
| `!NeverSkipped`, `!NeverCutShort` | `NoneSkipped`, `RadiatedWhole` | `OneAtATime` |
| `ReceptionProofs!TimesAlwaysTrue` (from `CounterAlwaysTrue`, `StampsTrueIfRead`; `StampsTrue` without failures) | `TimesTrue` | `NowClose`, `Recent`, `BeforeRead` |
| `!AlwaysInOrder` | `InOrder` | `Ordered` |
| `!GoodPacketsNeverLost` | `LostOnlyWithDamage`, fetches with a misread count left out | `LossStep`, an action property |
| `BootModeProofs!SettingsSaved` | `SavedWhenQuiet` | `Pending` |
| `!UnservedAlwaysReturns`, `!ServingAlwaysKept` | `UnservedReturns`, `ServingKept` | |
| `DownlinkProofs!AnswersAreTrue`, `!DownlinksAccounted` | `AnswersTrue`, `DownlinksAddUp` | the sums, `Shape` |
| `!QuitsOnlyInSilence` | `QuitOnlyInSilence` | `CountIsSilence` |
| `UplinkProofs!ReportsAgree`, `!CountersAlwaysKept` | `CountersKept` | `Agree` |
| `!ReportsAlwaysOnce` | `ReportsOnce` | `Reports`, `Shape` |
| `!PacketsAlwaysInOrder` | `PacketsInOrder` | all packets in one sequence |
| `ConcentratorProofs!StartScriptLeads` | the script of every configuration can be annotated | by its structure |
| `!StartIsAnnotated`, `!ConcentratorTypeCorrect` | the firmwares are where the notes say; `TypeOK` | `Founded` |
| `!CalibrationInStep` | `RoundsInStep` | `Founded`, itself |
| `!StartedMeansTold` | `McusTookParameters`, of LBT as a flag | `Informed` |
| `!SendingIsHonest` | `SendIsHonest` | `Listens`, `Silent`, `Attended` |
| `DriverProofs!BusAlwaysSound` | `BusSound` | `SoundInv` |
| `!FineTimestampsAreTrue` | `FineIsTrue`, of a packet within the bounds | `PpsInv` |
| `!ParametersAlwaysAgree` | `ParametersAgree` | `ProbeOf` |
| `!BatchesMergeWell` | `MergedOnce` | `ProbeOf`, `Remain` |
| `RadioProofs!ScanNeverOverDownlink` | `NoScanOverDownlink` | `Holding`, `Seen` |
| `!SharingIsSafe` | `Sx1261Shared` | `SharedInv` |
| `!SetUpsAreSound` | `SetUpSound` | `SoFar`, `WellMade` |

### 4.2 The hypotheses on the delays

How far the queue can be trusted depends on how its delays relate to the pace of the tasks,
so these theorems carry hypotheses, of which each is stated once and met by the run that checks the
same property (the runs' `Wrap` of 256 leaves room for it). With the values of the code:

* `Steady(longest)`, for all but the first two: `longest` bounds what a packet reserves; beacons
  are asked for within TX_MAX_ADVANCE_DELAY; thread_jit reads the counter at least every
  TX_START_DELAY + 2 TX_JIT_DELAY + TX_MARGIN_DELAY (82.5 ms; its period is 10 ms); and the counter,
  a turn of 2^32 us, does not roll over within twice the horizon of a full queue of 32. The
  last holds for times on air up to some 20 s; the longest LoRa packet at 125 kHz takes 14 s. Without the bound on the pace, class C packets that were accepted
  one behind the other, the first already missed, drift into the past without end, and there
  is no horizon.
* `EnqueuedInFuture` wants thrice thread_jit's gap, and what the lag of `jit_enqueue` exceeds
  criteria 1 by, within that 82.5 ms: the slot behind a missed packet must not be missed as well.
* `PeekedIsStillDue` wants the counter `jit_enqueue` uses to be at most 42.5 ms old (TX_START_DELAY +
  TX_MARGIN_DELAY + TX_JIT_DELAY), which it reads just before. `JitStalled` checks the property
  with a counter older than that: the hypothesis is sufficient, not necessary.
* `QueueMissesNothing` wants `Timely(0)`: lag and gap together within the 42.5 ms, and the gap within
  TX_JIT_DELAY and within the air one packet keeps free. `Timely(s)` says that s is left over.
* The three theorems of the transmit path want `Timely(TX_START_DELAY + gap)`: two rounds of
  thread_jit and the start delay fit into TX_JIT_DELAY, a round of at most 19.25 ms.
  `TxAhead` is at that boundary.
* `NeverSkipped` and `NeverCutShort` want `WellPlaced`: downlinks whose departure the server
  chooses, ahead by their time on air, 2 TX_JIT_DELAY and the lag: class A downlinks in RX1 after one
  second with up to 0.9 s on air. Class C and beacons are excluded for a reason: a packet in the
  radio no longer blocks its air time, and their departures may come before it ends (section 5).
* `ClassCFindsFreeAir` wants TX_JIT_DELAY positive and not above TX_START_DELAY + TX_BEACON_RESERVED_DELAY
  + TX_MARGIN_DELAY: the search steps over a beacon's guard.

`FineTimestampsAreTrue` carries its condition in `FineIsTrue`: the register could be read for the packet, the
ring has been filled by values saved in succession, with at most `Outage` pulses lost in a row and
`Stall` counts between two readings, and the packet was parsed within `Wait`. What went on before does not
matter, and nothing keeps the code within these bounds: they say how much it tolerates.
`PpsAssumption` is what they have to fulfil: such a ring is younger than a turn, and remembers
longer than a packet waits. With the ring of 16 and 32 million counts to a second that is 7 pulses lost in a row,
readings 0.38 s apart and packets parsed within 14 s. That the ring holds at least three values
was found by the proof: with two, a packet that arrives with the first pulse after an outage is
given the fraction of a second that is over.

`ComputingAssumption` says what the inputs are: packets as thread_down hands them over (preambles of at
least 6 symbols and 16 bits, sizes of 8 bits), any channel with a bandwidth the parser knows or none,
any frequency and rate, gain tables with any integers in any of their fields, any frequency for a radio, any region
with any two numbers from the web page, metadata with any bytes, batches within half a turn. It asks of
the counter only that the 24 us two demodulations may differ by are far from a quarter of a turn.
`ParametersAgree` allows the register of a channel's frequency an error of 489 Hz, a step being 976.5625 Hz:
the bound checked at first was 488, which held for all frequencies tried and which the
proof refuted (a channel at 12207 Hz). `SetUpAssumption` asks nothing but types.

### 4.3 The arguments

* The array (`TypeCorrect`, `RoomLeft`): the test of fullness and the append are under two
  locks, so the bound rests on the fact that only thread_down adds; between the two
  (`down.pc = "room"`) the array has room.
* `QueueNeverOverlaps`: the array after a sort or a removal is an injective image of the old one
  (`ArrangementOf`, `WithoutNodeOf`), so pairs stay apart; a newcomer is apart from every node
  because criteria 3 tests both differences against both leads (`CriteriaThree`), also for the
  reduced lead of a beacon and across the roll-over.
* `Known`. Differences modulo the counter order nothing as such. The invariant therefore measures each
  departure by its signed distance from the counter thread_jit read last (`Until`), bounds the
  distances from below by how late the tasks are (`Lows`) and from above by the horizon
  (`Highs`: each of the queue's packets is at most a stride behind another one or within the
  advance), and says that in terms of these numbers the array is sorted and apart. A reading of the
  counter shifts them all. Then the sort has exactly one result, a peek's candidate is what
  it takes it for, and each step is one of the abstract schedule. That a chain of packets of class C
  cannot grow beyond the horizon is a counting argument, on the number of nodes above a departure.
* `OnTime(s)`: after a round the soonest packet is `s` and a gap ahead, for packets keep more than a
  gap between them and a round takes one. `Handed(s)` carries it to the packet dequeued,
  `OnAir` to the trigger; `OneAtATime`: what is in the radio or on the way to it is over before any
  packet of the queue becomes due.
* `TxImplementsQueue`: every step of the transmit path is a step of the queue or leaves it alone.
* Reception. The true time is within a turn of the last reading (`NowClose`) and of the stamps in FIFO
  and buffer (`Recent`); when no access fails, what is parsed came before the last reading
  (`BeforeRead`). `UpdateTrue`: a reading within a turn counts it; `ExpandTrue`: a stamp within a turn
  of the reference gets its turn. `Ordered`: what was found comes before what is in the buffer, and
  that before the FIFO. `GoodPacketsNeverLost`: a step that clears the buffer or the array has
  found a packet in it that is not good, or is a fetch that misread its count (`LossStep`).
* Boot (`Pending`): an item that differs between flash and memory is still to be written by some
  task in `save_config` (`ToWrite`). A save covers every item (`AllToWrite`), one write leaves
  the rest (`RestToWrite`).
* Downlink: each of the sums is disturbed at two steps, the one that does a thing and the one that
  counts it; what is in between is told by where thread_down is and the result it holds there
  (`Shape`). `SumsKept` is the lemma for all steps that touch none. `CountIsSilence`: the
  count of thread_down is the number of its PULL_DATA unanswered in a row.
* Uplink: `mx_meas_up` is held exactly from the datagram's counter to the acknowledgement's (`Agree`).
  Reports: the ones sent, the one in hand and the one ready are in order, and
  `report_ready` stays set until thread_up clears it. Packets: what was sent, is in the batch, and
  waits in the concentrator form one increasing sequence, of which a step moves a border.
* Bus (`SoundInv`, `Underway`). What an operation has done so far is a function of what the memory held
  when it began: a write of n bytes has stored the first chunks of them (`Stored`, `StoredMore`), a
  read has loaded them (`Loaded`, `LoadedMore`), a field is still to be written. A byte is
  its bits above a field, in it and below (`Bytes`); `MixedBytes` shows that a write replaces the
  middle one, `FieldAbove` and `FieldBelow` that no field beside it notices. 2^(a+b) = 2^a 2^b, which
  the provers do not know, comes from counting subsets (`PowerCounts`, `TwoAdds`).
* Fine timestamps (`PpsInv`). Each of the newest values of the ring, as many as are `known` since the bounds were
  exceeded last, is a pulse seen, by its age (`Dated`), the first one perhaps read before there was
  any; nothing is said of older ones, and a packet is sure only when all are known. A value r places from the newest is at least r seconds and at
  most r outages older, the newest is no older than an outage (`Recent`); hence all differ by less
  than a turn, two neighbours that pass the test of sanity are exactly one second apart, and the
  fraction computed from them is that of the packet. The value read before any pulse serves
  only a packet that came with the first one, whose fraction is zero either way.
* Scan: a task in the library holds `mx_concent` (`Holding`), so the chains seen free stay so until the
  last is looked at (`Seen`). `SharedInv` follows the state of the radio through both command
  sequences, cut short by a failure anywhere: from the start of a scan to its results, the status
  register says "completed" only of a scan nobody disturbed (`Measured`), for whoever ends it leaves
  the status at "aborted". The chip after the first writes of a sequence is a recursive
  function; that it exists is proved by hand (`RunExists`).
* Set-ups. `WellMade` says what a script must be like to cope with failures: a write whose error is
  ignored is followed by a check of its register, a check by a write of the same value with none in
  between, and before a PLL is locked nothing was written to the mode; each of the scripts is
  (`ScriptsMade`), at any frequency. Then the accesses so far left their registers as asked (`SoFar`), but
  for one that is in doubt and checked next (`Doubtful`), as long as nothing is noted. A check
  without any failure finds what was written (`CheckHolds`), so an error has a reason.
* Start (`Founded`). What the AGC has taken depends on the place of the host in the script, and there is
  a script for each configuration. A note therefore stands between any two operations: the
  concentrator is off, the calibration firmware has settled in round i of a mode, the AGC was told
  of round i, and so on. `Leads(c, s, a, b)`: sequence s can be given notes from a to b such
  that each operation fits between its two (`OpLeads`); it is shown of the elementary sequences and
  passes to their concatenation (`Join`), which makes a proof of `StartScriptLeads` that follows
  the functions of the source. `Holds` says what each note means for the firmwares, the mailboxes and the
  mishaps; that the operation of the host keeps it, or the firmware's own step, is one lemma
  per kind of operation, for whatever script it stands in. The jumps of the calibration (back to the lock of
  a PLL, over the reading of a result) lead to a note equal to the one they leave (`Annotates`).
* Send. At the end of lgw_start the notes give `Informed`, that the AGC has all parameters and is past
  the last round, which nothing but a restart undoes. `Attended` then follows a packet through lgw_send,
  the AGC's decision and the clearing of its status; `Listens` and `Silent` the sx1261 and the
  TX state machine, failures included.

* Numbers (`ParametersAgree`). The time on air counts the symbols of the payload as the modem does, rounded to
  milliseconds, so it covers all but one (`AirtimeAlwaysCovers`); the blocks are a
  quotient rounded up, hence at least the nibbles (`BlocksOfNibbles`). A frequency that is accepted lies
  within half a band, so its quotient fits the thirteen bits of its register and the sign
  survives (`ThirteenBits`, `QuotientOf`), and what is received is half a step off at most. thread_down and
  sx1302_send search the gain table each in its own way: as it is sorted, they end at entries of the same power
  (`SearchesAgree`), and each gain that passed its range check fits its field (`RegisterHolds`).
* Frequencies. Quotient and remainder by 15625 are scaled apart, as the model does for the 64-bit
  product of the code, and lose less than a step together (`ScaledCut`); so do the three bytes of an sx125x, which overflow
  nowhere in its range (`PartsCut`). `CutIsNear` turns that into Hz.
* Plans. What the section of a radio, of a multi-SF channel, of the service and the FSK channel must
  be like to be accepted is said once (`RadioFits`, `MultiFits`, `StdFits`, `FskFits`), with a lemma for what
  the parser and `lgw_*_setconf` then leave in the context. They compose to `PlanAccepted`: no setting of
  a plan that fits is refused, and each takes its place. That does not depend on the frequencies of the
  web page, which are in the range of the HAL or dropped (`PatchedFits`); whether the radios can then be calibrated
  does, and depends on nothing else, for those of the plans can (`FittingServes`). That the plans of China, Europe and the
  United States fit, and that their channels are apart, is what remains for each (`CNServes`, `EUServes`,
  `USServes`).
* Metadata (`AlwaysSerialisable`): what `sx1302_parse` does not refuse, of packets from a modem on a
  channel that is wired to it (`Wired`), becomes values for which thread_up has a name.
* Merging (`Remain`). Time since the origin of the batch orders its packets and is what a difference of counters
  measures (`SignedAfter`), so to be the same packet is symmetric, although not transitive, and the sort
  compares numbers (`SameEitherWay`). A packet removed has a twin that stands for it, and standing for
  passes on (`StandsForAll`): no removal loses anything, whatever the order. Each search removes one packet or finds
  no pair, so none is left after as many searches as packets (`DeduplicatedRemains`). An arrangement
  for the sort exists, by putting a last packet at the end of the others (`OrderExists`), and
  in any, neighbours in order means all in order (`NeverFalls`).

Induction. The library's theorems of induction take an operator as a parameter, which the provers
cannot instantiate. Where a proof needs one, it takes the least counterexample of a set
(`Least`, from `WFMin` and `NatLessThanWellFounded`): the sorted array, the chains of class C,
the scan's loop, the powers of two, the searches of `merge_packets`. That a recursive function of the
model exists is shown in the same way (`RunExists`, `SearchedExists`).

### 4.4 Only model-checked

* Liveness under fairness (`QueuedLeaves`, `LeftAlone`, `QuitsInSilence`, `EverybodyGoesOn`,
  `StartEnds`), which TLAPS does not reach.
* `FramesRecovered`: `rx_buffer_fetch` is a recursion over the bytes of the FIFO, beyond the provers.

## 5. Findings

`BootLoss`: after its one-shot timers have expired without effect, a station that loses its
router for good never reboots, against `src/doc/user_guide.md:34`. The run's counterexample
shows it. Where the documented "reboots to Soft AP" works it takes two boots: flash says
station, and only that boot's 5 minutes lead to the soft access point.

Seen while modelling, without a run:

* Queue. The slot search for class C may start behind a missed packet and accept a departure in
  the past (jitqueue.c:194). After a drop the scan resumes at the second node (401). A packet
  in the radio no longer blocks its air time (254): a downlink accepted over it is given up.
  `jit_enqueue` accepts at exactly TX_MAX_ADVANCE_DELAY what `jit_peek` drops (242 is `>`, 383 is
  `>=`). A beacon whose time has passed is accepted (224), and a downlink in the reduced guard
  of a beacon may still be emitting when it is due (256); no beacon is queued in this build. A
  departure just passed is reported TOO_EARLY, not TOO_LATE as `PROTOCOL.md:433-434` has it, and
  a full queue COLLISION_PACKET (fwd 1442-1444).
* Tasks. A malformed PULL_RESP gets no TX_ACK. `thread_up` and `thread_down` return from their
  task functions without `vTaskDelete`. The temperature of a report is uninitialised when its
  reading fails (fwd 2040). `get_tx_gain_lut_index` falls back to the first entry, whatever its
  power, though its comment says "closest lower power supported" (fwd 3371). thread_spectral_scan
  carries `tx_status` over from one round to the next. thread_gps is never started (fwd 1685).
* Reception. `rx_buffer_fetch` ignores the errors of its readings of the number of bytes
  (loragw_sx1302_rx.c:141, 145) and fetches as many as an uninitialised buffer says: packets are cut and
  lost, or the buffer of 4096 bytes is overrun. `sx1302_update` ignores a failed reading (loragw_sx1302.c:357): packets are dated by
  a turn that is over, 134 s off. A fetch that ends behind the first byte of a syncword
  discards every packet fetched. An error of `rx_buffer_pop` leaves the packet in the buffer.
* Fine timestamps. After an outage of a turn or more the stale register is taken for current; a ring with
  values of longer outages or pauses holds some that are a turn old, and dates packets by them; when
  the register cannot be read for a packet, success is returned (loragw_sx1302_timestamp.c:555) and the packet
  forwarded with a fine time of 0. Without `answer.sure`, `FineIsTrue` is violated.
  A packet exactly one second after a lost pulse is stamped 1 s.
* Start. With LBT on, what the AGC took is compared through a cast to bool (loragw_sx1302.c:1612): when the write
  of the 1 is lost, the AGC takes the 8 left in the mailbox, and `lgw_start` succeeds. Compared exactly,
  `McusTookParameters` is violated by that one failure. What the firmware makes of an 8 is not in the source. A lost mailbox write and a failed reading back go unnoticed together, for the variable
  still holds the value compared before; the first such reading compares an uninitialised one.
  The arbiter's parameters are not read back. A status of calibration (0x20) equals one of the
  AGC. An iteration with an unlocked PLL leaves its results uninitialised, and they are judged.
  An sx1250 with full duplex never starts (loragw_sx1302.c:1333). `lgw_start` on the sx1261 opens
  the SPI bus a second time, which aborts. A failing restart leaves `started` set. The error of
  `lgw_stop` is overwritten by that of the I2C bus (loragw_hal.c:1172).
* Send. After a failed reading of the AGC's status or a timeout, its status bits remain, and the
  next `lgw_send` is answered by them. A failing `lgw_lbt_start` leaves the sx1261 receiving.
* Bus and radios. The bus is not given back after a failed burst, and the errors of chunks
  overwrite each other. A failed reading before a write zeroes the neighbours of the field.
  `sx1261_spectral_scan_start` writes nine bytes from a buffer of four (loragw_sx1261.c:553).
  `sx125x_setup` ignores the errors of its writes.
* Settings. No check before `lgw_start` refuses a frequency of the web page from 100 MHz on; when the sx1250 has no
  band for it (loragw_sx1250.c:116), `lgw_start` fails and the program exits at every boot. `lgw_txgain_setconf` and `lgw_sx1261_setconf` leave part of what they refuse. The band
  check of a channel takes an undefined bandwidth for 125 kHz before it becomes 250. An FSK
  bandwidth above 500 kHz is silently 250. A radio without "type" is compared as NULL. A
  frequency of nine characters that are no digits makes the configuration unparsable at every
  boot. The American plan's beacon frequency is outside its transmission range. Low data rate
  optimisation follows the bandwidth in the modem and not in the time on air. Times on air are
  rounded to a millisecond, up to half of one short, which the margin of the queue covers.

## 6. Not modelled, and why

The payloads, the formatting and parsing of datagrams, logging, the display: wording and
layout, no property is about them. Vendored code (`parson.c`, `tinymt32.c`, `base64.c`). Sensors,
the DAC, the display and the board's pins: output. GPS: the serial parser and `thread_gps` are
not compiled into a running task. The allocation of beacons: `gps_enabled` is never set. The LED
task: a lost event costs a blink. The parsing of the gateway's own settings: value by value into
globals. The use of a freed setting by a concurrent save is undefined behaviour whose outcomes
the model does not enumerate: an item is read and written in one step. A failed counter reading
returns an uninitialised time to thread_jit and thread_down (loragw_sx1302.c:1147-1151): with
any time no property of the queue holds, so the models of the queue take it as true. The order
in which tasks, queues and mutexes come to exist, with a `jit_queue_init` that runs twice.
The hardware test programs.

## 7. Plan

1. Theorems: that `NoneSkipped` holds for
   class C downlinks whose slot the server leaves alone; `Downlink`'s queue as an abstraction
   of `JitQueue`.
2. `TaskStart`: the order in which tasks, queues and mutexes come to exist.
3. `Downlink` composed with `TxPath`: acknowledged downlinks are radiated.
4. Failing counter readings in `JitQueue`, with what is left to be promised.
5. The gateway's own settings, and the allocation of beacons as the source has it.

## 8. Running

In `tla/`: `tlc -config JitTimely.cfg MCJitQueue` (likewise the other configurations, with
the module `PROJECT.json` names), `tlapm JitQueueProofs.tla`. Each run takes under two
minutes on two cores, each proof module a few, `DriverProofs` ten.
