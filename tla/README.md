# Verification of the MCPHA acquisition chain and of the servers

TLA+ models of the acquisition chain of `rtl/` (trigger, combiner, scope, RAM
writer) and of three of the servers that drive such hardware from Linux
(`mcpha-server.c`, `sdr-transceiver.c`, `sdr-transceiver-hpsdr.c`), the
properties that make them correct, the TLC runs that check them on small
instances, and TLAPS proofs of all the safety properties among them for every
value of the parameters. Paths are relative to the repository.

## 1. Inventory

The repository collects Red Pitaya projects. Most of it is build scripts,
generated Vivado output and about fifty small Verilog cores with one C server
per application. Its own logic under development is the redesign of the MCPHA
acquisition chain in `rtl/`, with a document (`docs/capitulo_modulos_mcpha.md`),
a verification plan, assertions (`rtl_enhanced/`), benches (`tb/`) and reference
models (`models/`). This project starts there.

| Component | State | Operations | What is hard | What makes it correct |
|---|---|---|---|---|
| `rtl/axis_trigger.sv` | delay line of samples with valid bits, `trigger_armed`, `trigger_out` | a clock edge; host writes threshold, mode, enable; reset | the comparator runs on every edge, the delay line only on a handshake; re-arming after each event | one pulse per crossing, none lost, none repeated |
| `rtl/trigger_combiner.sv` | `trigger_out`, `trigger_source` | a clock edge | pulses of two channels, one register more on the trigger path than on the data path | the trigger of the mode chosen, at a fixed distance from the sample |
| `rtl/axis_scope.sv` | FSM, circular buffer, three pointers, three counters, read register | edge in each of five states; host arms, disables, sets the window; reset | wrap-around, counters that count from a compensated trigger, a buffer read one cycle late, stalls | the window around the trigger, in order, once, with `tlast` at its end; captures end |
| `rtl/axis_ram_writer.sv` | FIFO, accumulator, `last_seen`, FSM, burst registers, statistics | edge of four concurrent processes; host enables and places the buffer; reset | processes that read each other's registers in the same cycle; flushes; wrapping offset; a memory that stalls or fails | no word lost or repeated; bursts covered by the FIFO; addresses in the buffer; everything flushed |
| the chain (`tb/integration/tb_acquisition_chain.sv`) | the above, and the AXI4 memory | one edge of all modules | backpressure from memory to source, delays of two paths that must agree | the crossing sits right after the pre-trigger samples, in memory |
| `projects/mcpha/server/mcpha-server.c` | spectrum, cumulative histogram, flags `enable_thread` and `active_thread`, the generator's FIFO | commands of one client at a time; the pulser thread writes pairs of words | the histogram is rebuilt and the FIFO reset by a loop that the pulser runs next to; lost clients; half commands | pulses follow the spectrum they were started with; no pulser without a reason; stops end |
| `projects/sdr_transceiver/server/sdr-transceiver.c` | four slots of descriptors, tuning, push-to-talk pin, two FIFOs | `accept`, two control handlers, two data handlers | threads that end while the next client comes, numbers of descriptors used again | no descriptor shared, settings are those of the client served, no transmitter left keyed |
| `projects/sdr_transceiver_hpsdr/server/sdr-transceiver-hpsdr.c` | transmitter lines `tx_rst`, `cw_ptt`, `tx_mux_data`; paddle memory; FIFO; relays; receiver frequencies; I2C devices | the keyer thread; `main()` handling datagrams; the thread that sends samples | the keyer takes the transmitter away between any two steps of `main()`, without locks; settings change under all threads | order of switching; no paddle forgotten; no word lost in a full FIFO; one sending thread; receivers in phase |
| `cores/axi_hub.v`, `axis_fifo.v`, `axis_packetizer.v`, ..., `modules/*_buffer.v` | skid buffers, counters | clock edges | handshakes under stall | see *Not modelled* |
| the rest | | | | see *Not modelled* |

How they interact: samples of channel 0 enter `axis_trigger` and leave it two
accepted samples later for the scope (AXI-Stream with backpressure). The pulses
of both channels meet in `trigger_combiner`, whose registered output is the
scope's `trigger_in`. The scope sends the captured window, paced at one sample
every second cycle, to the RAM writer, which packs four samples into a word,
queues words in a FIFO and bursts them to memory over AXI4. The host writes
configuration registers, which reach the modules without synchronisation.

The servers meet the hardware in memory-mapped registers and FIFOs with a
counter, and their clients on sockets. Inside, threads share plain variables:
flags, settings and the registers themselves, without locks. In the HPSDR server
the keyer, at the highest priority, and `main()` share the transmitter: the keyer
turns the multiplexer to itself (`tx_rst` bit 4, `tx_mux_data`), and `main()`
looks at `tx_mux_data` before it writes a datagram to the FIFO.

## 2. Plan

In this order, the most important behaviour first:

1. (done) `AxisTrigger`, `AxisScope`, `RamWriter`, one per module of `rtl/`, each
   closed by a history module with its environment; the abstract specifications
   `CaptureWindow` and `PackedStream`; proofs about all three.
2. (done) `TriggerCombiner` and `AcquisitionChain`, the composition.
3. (done) The servers: `McphaServer`; `SdrTransceiver`; the keyer `HpsdrKeyer`, its
   abstract specification `KeyedCarrier`, and `HpsdrTransmit`, the rest of the
   transmitter composed with that specification instead of with the keyer; and
   `HpsdrSession`. `JoinedWorker` says what the pulser and the receiver thread
   have in common. Proofs about all of them.
4. (done) Proof that `HpsdrKeyer` takes only steps of `KeyedCarrier`, which closes
   the argument from the keyer to `NeverOverflows` and `HandsLittleBack`.
5. (done) Proofs that `ScopeHistory` implements `CaptureWindow`, and
   `WriterHistory` `PackedStream`, step by step; of the chain, from source to
   memory; of `McphaServer` and of what the keyer sends for its paddles.
6. Two real detectors in front of the combiner, for the modes AND and BLOCK; the
   I2C devices of the HPSDR server with their cached contents.

## 3. Modules and the code

In the modules of `rtl/`, a step of `Clock` in a component module is one rising edge of `aclk`. The
registers of the `always_ff` blocks are the variables, the wires (`assign`,
`always_comb`) are operators with the names of the source, and the values of the
input wires in that cycle are parameters of `Clock`. All right-hand sides read
the old registers, as non-blocking assignments do. `Configure` is a host write
between two edges, and `Reset` is `aresetn` low.

| Module | Models |
|---|---|
| `AxisTrigger` | `rtl/axis_trigger.sv`: `proc_sample_pipeline`, `proc_threshold_detection`, `proc_trigger_output` |
| `TriggerHistory` | `AxisTrigger` with a free source, sink and host, and three history variables: `own` (a newest sample accepted under this configuration), `reported` (this pair has pulsed), `taken` (hand-overs of the sample on the port) |
| `TriggerCombiner` | `rtl/trigger_combiner.sv`; a vector of bits is the set of channels whose bit is 1 |
| `AxisScope` | `rtl/axis_scope.sv`; the action of a state gathers what all `always_ff` blocks do in it |
| `CaptureWindow` | abstract: what a capture promises, without buffer, pointers or counters |
| `ScopeHistory` | `AxisScope` with its environment; samples are numbered as they are accepted; the refinement mapping to `CaptureWindow` |
| `RamWriter` | `rtl/axis_ram_writer.sv`: FIFO, accumulator, statistics and FSM, concurrently |
| `WriterSession` | `RamWriter` with source, memory and host; the control properties |
| `PackedStream` | abstract: the samples of the stream, by number, packed in order, each closed word sent once |
| `WriterHistory` | `WriterSession` with samples numbered at their handshake on `s_axis`; the refinement mapping to `PackedStream` |
| `WriterFrame` | `WriterSession` in its simplest use, one frame |
| `AcquisitionChain` | the instances and the AXI4 slave of `tb/integration/tb_acquisition_chain.sv` |
| `McphaServer` | `mcpha-server.c`: `main()` from `accept` on, and `pulser_handler` |
| `JoinedWorker` | abstract: a thread that is started and stopped with two flags |
| `SdrTransceiver` | `sdr-transceiver.c`: `main()` and the four handlers |
| `KeyedCarrier` | abstract: what the keyer promises `main()` about the transmitter |
| `HpsdrKeyer` | `sdr-transceiver-hpsdr.c`: `handler_keyer`, `cw_on`, `cw_off`, `cw_ptt_off`, the delays |
| `HpsdrTransmit` | `main()` of the same program, transmitter FIFO and relays, with any keyer of `KeyedCarrier` |
| `HpsdrSession` | its commands start and stop, the frequencies, and `handler_ep6` |
| `TriggerProofs`, `ScopeProofs`, `WriterProofs`, `ChainProofs`, `McphaProofs`, `TransceiverProofs`, `KeyerProofs`, `HpsdrProofs` | theorems; `HpsdrProofs` is about both `HpsdrTransmit` and `HpsdrSession`, whose names therefore differ |
| `MC*` | instances for TLC |

Data is abstracted to what the properties tell apart: samples are numbers of
order, or a few values around a threshold; a beat of AXI4 carries a word of the
FIFO; `awsize`, `awcache`, `wstrb` and the like, which are constants in the code,
are left out. Widths stay where they matter: 8-bit burst lengths (`LEN_MOD`),
16-bit counts (`COUNT_MOD`), 32-bit addresses and offsets (`ADDR_MOD`) and the
32-bit `total_samples - 1` (`INT_MOD`) wrap.

In the servers an action is what a thread does between two accesses to shared
state that another thread, the client or the hardware could tell apart; the
place in the program is a variable (`pc`, `thread[t].pc`, `ep6`). Writes to
`tx_rst`, `cw_ptt` and `tx_mux_data` are a step each, since their order is what
`main()` depends on. `usleep(1000)` is a step that counts a millisecond; the
lengths of elements and pauses are numbers of such steps. Frequencies, rates and
payloads are members of small sets. An operation of the register file
(`*rst &= ~1; *rst |= 1`) that empties a FIFO is one step, except in the keyer,
where `main()` may write between its two halves.

What the models of the servers leave out: the values of registers nothing
depends on (`"register"` stands for 21 commands of `mcpha-server.c`); the contents
of replies; in `HpsdrTransmit` the codec's FIFO (`:781`) and the choice between
samples and zeros (`:763`), which do not change the number of words; in
`HpsdrKeyer` changes of `cw_speed` and `cw_weight`, so that `DOT` and `DASH` are
constants. `process_ep2` runs twice per datagram; `frame` is the last control
frame of the two, since nothing looks in between.

A definition whose comment starts with `Bug:` is a plausible mistake in the
definition that follows it. It is not part of any specification: with it in
place of the original, TLC finds the property violated that `PROJECT.json` pairs
it with, so no property holds for want of a way to break.

## 4. Runs

Every run checks deadlock too: the clock can always tick, and a server always has
a client or datagram that may come.

| Run | Shows |
|---|---|
| `trigger` | `NoRetrigger`: a pair of samples that stays in the delay line pulses once. `EveryEdgeReported`: in the modes RISING and FALLING a crossing has pulsed by the edge that shifts it out. `ReportedIsDisarmed` is why. |
| `trigger_once` (violation) | With a pausing source the last sample is handed over again on every edge: `valid_pipe` is never cleared. |
| `scope` | `WindowInOrder`, `TlastEndsWindow`: the sample presented is the right one of the window, and `tlast` comes with the sample accepted `post_samples - 1` after the trigger sample. `ImplementsWindow`: the scope implements `CaptureWindow`. `CaptureCompletes`: a triggered capture ends, whatever the host does with enable and arm. |
| `writer` | `BurstCovered`: the words of a burst are in the FIFO before its address is sent. `NoWordDropped`: a completed word finds room. `StartsInBuffer`: the offset stays in the buffer and names the address. `BurstCompletes`, `FullBurstStarts`: a burst decided on reaches its response, and enough words for one do not stay. |
| `writer_data` | `ImplementsPackedStream`: the words memory takes are the samples of the handshakes on `s_axis`, packed in order, none lost, repeated or replaced between the two interfaces, also across error responses, disables and resets. |
| `writer_flush` (violation) | The tail of a frame stays in the FIFO for ever when a response comes while its last word is in the accumulator: the FIFO looks empty, and `last_seen` is cleared. |
| `chain` | `CrossingAfterPre`: the crossing comes right after the pre-trigger samples, so the two paths' delays agree. `WindowInMemory`: memory holds the window, as `verify_memory` expects. `CaptureReachesMemory`: a triggered capture gets there. |
| `mcpha` | `PulsesFollowSpectrum`: an amplitude in the FIFO or just taken is a bin that is not empty in the spectrum of the last start, and an interval is never taken for one. `UnattendedIsKept`: a pulser without a client is there because the last start asked for it. `ImplementsWorker`: the histogram stands still while a pulser runs, and there is one at most. `StopCompletes`: the wait for the pulser ends. `TypeInvariant` bounds the FIFO by the pulser's limit and one pair. |
| `sdr_transceiver` | `SocketsAreOwned`: nobody works on a descriptor that is closed or another's, although numbers are used again at once. `TunedAsAsked`: a thread that ends does not reset what the next client asked for. `PttHasOwner`, `GoneIsReleased`: a client that disappears leaves the transmitter silent and its slot free. |
| `keyer` | `ImplementsCarrier`: the keyer implements `KeyedCarrier`. `NothingForgotten`: a paddle seen during the other element gets its own next. `ElementLength`: elements last as long as they should, whatever the ramps take. `KeyUpEndsTransmission`: with the paddles released the transmitter goes back to the host. |
| `transmit` | `FifoNeverOverflows`: no word of the host meets a full FIFO, although the test for room and the writes are apart and the keyer stops or resets the FIFO in between. `HandsBackLittle`: when the multiplexer turns back to the FIFO, what the keyer found in it is gone and `main()` has added one datagram at most. `MainGoesOn`: the wait for room ends. `RelaysRelease`: the keyer's push-to-talk leaves the relays. |
| `session` | `ImplementsWorker` for the receiver thread and its address. `BlockFits`: indices of a block stay in the fixed buffers, for every number of receivers and rate. `InPhase`: synchronised receivers are equal and in phase, but for the frequency 0 before any other (section 6). |

### Bounds, and why they are enough

- `trigger`: two pipeline stages as in the code, three values around the
  thresholds 0 and 1, every mode. The comparator sees two samples and a
  threshold, so three values give every order of the three.
- `scope`: a buffer of 8 with windows (pre, post) of (2,0), (2,4) and (4,3), the
  last one the longest the buffer holds safely; `post_samples` on both sides of
  the constant 2 in the code. Samples are numbered modulo 12 and the history
  keeps 11, more than the buffer, so a stale sample is told from the right one.
  All pointers wrap many times.
- `writer`: words of 2 samples, FIFO of 4, bursts of 2 and a buffer of two full
  bursts: partial words, partial bursts, a full FIFO and the wrap of the
  offset all occur. `writer_data` has a FIFO of 2, the smallest that holds a
  burst, and numbers samples modulo 5, more than the samples in a FIFO word and
  the accumulator.
- `chain`: a source of 7 samples, a window of 5 (two full words and a partial
  one) in a buffer of 8, bursts of 2 words of 2 samples, a FIFO of 4, which
  holds the whole scope buffer as the real one does (1024 words of 4 samples
  against 4096). `LAST` bounds the samples sent; afterwards the last one is
  repeated, as the code does when the source pauses. The combiner is in the
  modes OR and BLOCK, and channel 1 pulses when it likes until the trigger.

- `mcpha`: three bins with counts 0 and 1, so that empty bins lie before, between
  and after others; `RAND_MAX` 3 and every value drawn; two threads, one more
  than may ever run, so that a second one would be seen; a FIFO limit of 1, so
  that the pulser waits again and again.
- `sdr_transceiver`: two clients, two threads, two descriptors: every number is
  used again while the other is held. Blocks of one sample, FIFOs of two.
- `keyer`: dots of 1 and dashes of 2 milliseconds (see `MCKeyer.cfg`), a ramp of 0,
  1 or 2 and pauses from 1 on, so that ramps are shorter than, as long as and
  longer than a dot (the theorems cover all lengths, dashes shorter than dots among
  them); four settings, one per mode and one with the keyer off.
  `MAX_QUIET` only bounds the history `quiet`.
- `transmit`: blocks of 2 words, a prefill of 2, a FIFO of 7 and batches of up to
  two datagrams: a datagram fits, does not fit, or finds the FIFO empty, and the
  FIFO holds more than the `PREFILL + BLOCK` words that `HandsBackLittle` allows,
  so a keyer that did not empty it would be seen. The theorems drop these numbers.
- `session`: two clients, 1, 5 and 8 receivers with the real sizes of the buffers, which
  are the numbers at which blocks are largest and smallest, two rates, and
  the frequencies 0 and 2 next to the initial 1. `BlocksFit` is proved for all eight numbers and four rates.

### Environment and fairness

The environment is as free as the code's own surroundings allow, with these
exceptions, each stated at the action that makes it:

- `HostWrite` of the scope leaves the window alone during a capture;
  `HostWrite` of the writer moves the buffer only while it is switched off and
  the FSM has seen it. The drivers of the benches do so.
- `SteadyEdge`: a trigger finds enough samples in the buffer and a sample in its
  cycle.
- `ScopeEdge`: a sample in every other cycle at most, as `wait_for_data` of the
  scope makes it.
- Memory responds after the last beat of a burst; error responses occur.
- `Follow` of the chain knows the crossing of a pulse only when the pair was
  judged in a cycle in which the scope was armed and the source had a sample.
  Otherwise the delay line stands still while the trigger travels, and the two
  paths disagree by the length of the pause; that is the limit of
  `CrossingAfterPre`.
- The MCPHA client does not send command 3, the reset of the generator, while a
  pulser is at work (no client of the repository does).
- `pthread_create` succeeds in the runs. The constants `CREATE_FAILS` of
  `McphaServer` and `HpsdrSession` allow it to fail; the safety theorems hold
  either way, liveness does not (section 6).
- `InPhase` leaves out the frequency 0 as long as no other was set (section 6).
- `ElementLength` speaks of settings that stay, and of a delay no longer than a
  dot and than the element (`DelayFits`, section 6).
- `BlockFits` looks at the microphone's samples only while the rate is that of
  the last look at them (`refilled`).

Liveness needs that the clock runs, and: for the scope, that again and again an
edge finds source and sink ready (`Spec` of `ScopeHistory`); for the writer, that
again and again memory is ready and answers OKAY on an edge on which the FSM or
the FIFO would move (`ServedEdge`), with nothing assumed of the source, which may
stay silent for ever; for the chain, the same of memory only. An AXI slave that
never answers stops any master.

The servers' threads are scheduled (weak fairness of what a thread can do by
itself); nothing is assumed of clients and operators. The hardware goes on:
the generator takes pulses, the receivers deliver blocks, the transmitter takes
samples while it has them. In `SdrTransceiver` a connection whose client is gone
may still take a few sends, but fails in the end (strong fairness of `End`), as
TCP does. `MainGoesOn` assumes in its text that the keyer gives the transmitter
back again and again, and `KeyUpEndsTransmission` that paddles and settings
come to rest. `RelaysRelease` assumes control frames with push-to-talk off,
which the host sends in turn with the others.

## 5. Proofs

Every safety property of every passing run is a theorem: the invariants, the
action properties and the step-by-step half of each refinement. `tlapm` proves
them with no restriction on samples, thresholds, depths or lengths other than
the assumptions named in the modules (`TriggerAssumption`, `ScopeAssumption`,
`HistoryAssumption`, `WriterAssumption`, `SessionAssumption`, `TagAssumption`,
`ChainAssumption`, `McphaAssumption`, `KeyerAssumption`, `TransmitAssumption`,
`TransceiverAssumption`) and the hypotheses stated with a theorem.

**Trigger** (`TriggerProofs`): `TypeCorrect`, `ReportedStaysDisarmed`,
`TriggersOnce` (`NoRetrigger`) and `ReportsEveryEdge` (`EveryEdgeReported`).
The inductive invariant adds to the types that a reported pair still holds its
event and finds the detector disarmed, that a report belongs to an enabled
configuration, and `CrossingFindsArmed`: a crossing that has not pulsed finds
the detector armed. That last one is the heart of the matter. When a rising
crossing moves under the comparator, its older sample was the newer one of the
pair before, and it lies below the threshold; so the pair before was no rising
crossing, and the edge that judged it armed the detector. In the mode BOTH the
pair before may be a falling crossing, and there the argument, like the
property, fails.

**Scope** (`ScopeProofs`): `TypeCorrect`, `WindowsAreInOrder` (`WindowInOrder`),
`TlastIsLast` (`TlastEndsWindow`) and `SendsTheWindow`, under the hypothesis
`WindowsFit`: a window is not empty, leaves a cell free, and has at most
`BUFFER_DEPTH - 3` pre-trigger samples, because up to two samples are written
between the trigger sample and the transfer even when no post-trigger samples
are asked for. Section 6 says what happens without it. The invariant speaks of
addresses modulo the depth: the cell j places before the write pointer holds the
j-th newest sample (`Mirrored`); while capturing, the trigger pointer lies as
many places back as samples were accepted since (`TriggerMarked`), which is
where the compensated `post_count` and the pointer agree; while sending, the
read pointer is `transfer_count` places into the window, no cell of which has
been overwritten (`ReaderInWindow`). `AddressSum` carries all the pointer
arithmetic. As in the run `scope`, a trigger finds enough samples and comes with
a sample. `SendsTheWindow` is the refinement `ImplementsWindow`: the edge that
starts the transfer is the abstract step that cuts the window out of the
samples accepted. What it has to show is that the cells from the read pointer
on (`Cells`) are that stretch of the history (`Around`), which `HoldsWindow`
reduces to `MirrorOf` and the distance of the trigger from the newest sample.
`TlastIsLast` says which accepted sample `tlast` comes with: `transfer_count`,
the read register and the configured window agree on it (`OfferedIsNext`), and
since the samples in the history have different numbers (`NumberedAlways`) no
other one does.

**Writer** (`WriterProofs`): `TypeCorrect`, `BurstsAreCovered`, `WordsFindRoom`
(`NoWordDropped`), `BurstsStartInBuffer` (`StartsInBuffer`) and `PacksTheStream`.
`BurstCovered` is not inductive alone: a flush starts a burst from IDLE on
`last_seen` without looking at the FIFO, and an empty FIFO would make
`fifo_count - 1` wrap to 255. `FlushHasWord` says why that does not happen:
while `last_seen` is set in IDLE a word is in the FIFO or in the accumulator, on
its way into it. `NoWordDropped` needs `WordIsRecent`: a complete accumulator
means the last edge took a sample, so a paced source cannot complete another
word in the cycle in which the last place is taken. The proof goes process by
process (`FifoStep`, `AccumulatorStep`, `OffsetStep`, `CoverStep`, ...), because
the processes of the module run concurrently. `PacksTheStream` is the refinement
`ImplementsPackedStream`. The input of `PackedStream` is fixed by the mapping: its
`next` is the number of the next sample on `s_axis`, its `ended` the `tlast` of the
last handshake, and a step that takes a sample puts that very one into the open
word. `DataInv` adds that the words between the two pointers
are those in use (`RingInUse`), one for each size in the history (`SizesKept`),
and that a closed word is not filled on (`ClosedWordRests`); then one edge does
to the abstract state what its three processes did to it: the head word goes to
memory, the closed word joins the queue, a sample joins the open word.

**The chain** (`ChainProofs`): `CrossingComesAfterPre` (`CrossingAfterPre`),
`WindowReachesMemory` (`WindowInMemory`), and two statements about the modules
together that no single module could make: `ScopePausesEnough`, the scope keeps
the pace that `WordsFindRoom` has to assume of a source, and `BeatsStayInBuffer`,
no beat of a capture is written outside the buffer. The hypotheses are
`WindowsFit`, as for the scope alone; from the second theorem on
`WindowsFitMemory`, the window is not longer than the buffer in memory; and for
the last one that this buffer is a whole number of words, as its size in bytes
is in every use. The invariant follows a sample from one end to the other:

- `CaptureInv` is about the two paths. A crossing that the detector is reporting
  is in the last stage of its delay (`CrossingLeaves`); one register later, when
  the pulse has passed the combiner, it is the newest sample of the scope
  (`CauseIsNewest`); and the edge that sees the trigger points at it
  (`MarkKept`), a cell that the few samples still to come do not reach
  (`FewBehind`). So the paths have equally many registers, which is all of
  `CrossingAfterPre`, for any `PIPE_STAGES`. `Sending` leads the read pointer
  through the window from there.
- `SourceInv` counts. Unless the source has paused, c samples have come for some
  c, each once: the buffer holds the newest of them (`Newest`), and the trigger
  sample lies as many places back as came after it (`MarkedAmong`). Hence the
  cells of the window hold consecutive numbers around the crossing.
- `MemoryInv` says where these are. For some r, r words are in memory
  (`Stored`), the following ones in the FIFO and the accumulator (`Queued`),
  together as many as the scope has sent (`Counted`), and the next beat goes to
  word r of the buffer in every state of the machine (`Located`). For that the
  FIFO must not overflow (`Paused`) and a burst must not run dry (`Covered`).
  The offset wraps only where nothing of the window is left, which is why a
  capture does not run into the disagreement of section 6 about the end of the
  buffer.

**mcpha-server** (`McphaProofs`): `TypeCorrect`, `PulsesAreOfTheSpectrum`
(`PulsesFollowSpectrum`), `UnattendedWasAsked` (`UnattendedIsKept`) and
`OnePulser`, the safety half of `ImplementsWorker`; also when `pthread_create`
may fail. The proof has two parts. One is about threads: there is one pulser at
most, none while `active_thread` is 0 or the histogram is being built (`Single`),
and pairs follow one another in the FIFO (`Paired`), so that the generator,
emptied while no pulser runs, cannot take a half pair. The other is about data:
that an amplitude drawn is a bin that is not empty (`DrawnIsSolid`). It needs
what the search of `lower_bound` returns (`LowerBound`) for the histogram of
rounded shares that `Complete` describes: the bin found is the first whose share
reaches the number drawn, and where the spectrum is empty the share does not
rise. The sums of a spectrum and the search are recursive functions; that they
exist and what they yield is proved by induction over a set of numbers (`Least`,
`Induction`, from the library's theorem on well-founded relations), which needs
no operator for a parameter.

**sdr-transceiver** (`TransceiverProofs`): `TypeCorrect`, `DescriptorsAreOwned`,
`TuningIsTheClients` and `PttIsServed`. `SocketsAreOwned` is not inductive: a
slot holds the number of a closed descriptor between `close` and
`sock_thread = -1`. The strengthening says that each slot belongs to one thread,
that a thread that has not begun finds its own descriptor there, and that live
descriptors are open. From it follows that a control thread is the only one that
writes its registers.

**The keyer** (`KeyerProofs`): `KeepsOrder` (`ImplementsCarrier`), that it
implements `KeyedCarrier`, for every length of dots, dashes, gaps and pauses and
every set of settings that `main()` may change in between. The invariant says,
for each place in the two sequences of writes (`ChangingOn`, `ChangingOff`),
which bits are set and what `main()` has been told; between changes (`Between`)
the transmitter is all the keyer's or not told to be. `Timed` carries the pause:
what `cw_ptt_delay` still counts is at least what is left of it, although the
settings may have changed since it was chosen. `KeepsLength` (`ElementLength`)
and `ForgetsNothing` (`NothingForgotten`) rest on `ElementInv`: the element on
the air is the one begun last (`Current`), carrier heard and delay left add up
to its length while the settings stay and `DelayFits` (`Paced`; nothing is assumed of
which of dot and dash is longer), and the other paddle, once seen, stays in the memory that the next
decision reads (`Recalled`).

**The rest of the HPSDR server** (`HpsdrProofs`):

- `NeverOverflows` and `HandsLittleBack`, about `HpsdrTransmit`. The heart of
  the first is that `tx_cntr + left` stays within `DEPTH` from the test for room
  on: the keyer may stop the FIFO from draining, which only keeps the count, or
  empty it. But an emptied FIFO changes what `Fill` decides, so the invariant
  also covers the prefill, which is why `DEPTH > PREFILL + BLOCK` is assumed. The
  second needs the keyer's promise: the multiplexer turns back only after the
  FIFO was emptied. From its reset on `main()` passes samples by (`tx_mux_data` is
  1), so all that can still come is the rest of a datagram that had passed the
  test, and its prefill (`LittleInv`, with `KeyerStep` for what the keyer's writes
  do to it).
  With `KeepsOrder` both hold of the real keyer.
- `StaysInPhase`, `BlocksFit` and `OneThread`, about `HpsdrSession`. In the first,
  `tuned` remembers that a frequency was set; from then on the frequency that is
  remembered is that of the first receiver, so one that is not new needs no
  reset. The last is
  the safety half of `ImplementsWorker`: `active_thread = 0` means that there is
  no thread, and after a start's flag is set the next thing `main()` does is to
  create it.

Only model-checked: liveness, since fairness and ENABLED are out of the
prover's reach (`CaptureCompletes`, `BurstCompletes`, `FullBurstStarts`,
`CaptureReachesMemory`, `StopCompletes`, `GoneIsReleased`,
`KeyUpEndsTransmission`, `MainGoesOn`, `RelaysRelease`, and the part of
`ImplementsWorker` that a thread told to stop does), and the two violations.

## 6. Where code and documents disagree

Two violation runs are listed with the quoted lines under `findings` in
`PROJECT.json`. The tail of `writer_flush` needs a source that pauses about as
long as a burst lasts, which the scope does not do within one capture. Other
disagreements seen while modelling, without a run:

- Mode BOTH is documented as any crossing (`docs/capitulo_modulos_mcpha.md:112`);
  the detector re-arms only on an edge without an event, so of two crossings on
  consecutive samples the second raises no pulse.
- `rtl/axis_scope.sv:106-109` says two samples of the window's post part are
  written while the state is still ARMED; without a sample in the cycle of
  `trigger_in` only one is, and the transfer starts before the last one. Behind
  `axis_trigger`, whose `tvalid` stays up, the gap does not occur.
- `docs/verification_plan.md:82-83` allows windows of `BUFFER_DEPTH` samples; the
  edge that leaves TRIGGERED still writes a sample, over the oldest one.
- `docs/capitulo_modulos_mcpha.md:343` promises backpressure when the writer's FIFO
  is full; `tready` looks at the FIFO and not at the accumulator, so a source
  with a sample in every cycle (not the scope) can lose a word.
- `rtl/axi_stream_pkg.sv:161` calls the buffer circular; the offset wraps after the
  burst that passes its end, so after a flush a full burst runs past it.
- Mode LEVEL is documented as firing while the level holds
  (`docs/capitulo_modulos_mcpha.md:167`); it fires once until the level falls.
- `rtl_enhanced/trigger/axis_trigger_sva.sv:145` asserts that a trigger comes
  with valid data; the older sample of the first pair after reset is the zero of
  the reset, so a first sample over the threshold counts as a crossing.
- `p_tvalid_stable` (`rtl/axis_trigger.sv:299`) fails when the host disables the
  detector during a stall, because `tvalid` is gated by enable.
- BLOCK compares pulses: a crossing of channel 0 passes while channel 1 is over
  its threshold, unlike the comment at
  `tb/integration/tb_acquisition_chain.sv:707` says.
- With every channel masked, the AND of no channels triggers in every cycle.
- A trigger before `pre_samples` samples have come
  (`docs/capitulo_modulos_mcpha.md:257`) sends cells that were not written.
- `rtl_enhanced/scope/axis_scope_sva.sv:165` has no transition from DONE to ARMED;
  the code re-arms from DONE.
- `docs/capitulo_modulos_mcpha.md:341` and
  `rtl_enhanced/ram_writer/axis_ram_writer_sva.sv:196` rule out bursts across 4 KB
  boundaries; the length of a burst does not look at its address.
- `mcpha-server.c:528`, `sdr-transceiver.c:147` and `sdr-transceiver-hpsdr.c:816`
  test `pthread_create` for a negative result; it returns a positive error number.
  In the first and third, `active_thread` stays 1 without a thread and the next
  stop (in the third, the next start too) never ends (`CREATE_FAILS` in
  `McphaServer` and `HpsdrSession`); in the second the slot stays taken.
- `mcpha-server.c:430-438` uses `0x007FFFFF` as mask and as size of the ring, so a
  read across its end skips the last cell.
- `mcpha-server.c:174` takes any part of a command for the whole; the sum of a
  spectrum times `RAND_MAX` (`:505`) and a rate of 0 (`:578`) are not guarded.
- `sdr-transceiver.c:339` sends the rest of the block before when `recv` returns less
  than a block, and `:138` lets one silent client keep all others out.
- `sdr-transceiver-hpsdr.c:1502` divides by `cw_speed`, which the host may set to 0;
  a delay longer than a dot also shortens dashes (`:1557`). The weight is any 7-bit
  value (`:1280`): below 17 a dash is shorter than a dot, and a delay longer than
  the dash and no longer than the dot makes that dash last as long as the delay.
- `sdr-transceiver-hpsdr.c:753-779`: datagrams of the same `recvmmsg` batch as the
  one in hand, and those waiting in the socket, may have been sent before the
  keyer took over. They are passed by while `tx_mux_data` is 1, but those that
  `main()` comes to after the keyer's pause are written like any other, so
  samples older than the keyed carrier are transmitted after it: with batches of
  8 up to seven further datagrams of 252 words besides the one that
  `HandsBackLittle` bounds, and what the socket holds.
- `sdr-transceiver-hpsdr.c:52,172,1030-1042`: the frequency 0 is accepted, and
  `freq_data[1]` is 0 before any was set. If 0 is the first frequency a host sets
  for receivers it has synchronised, both phase increments change from those of
  600 kHz (`:610-611`) without the reset of the oscillators that every other new
  frequency brings; they are reset with the next one.
- With both paddles pressed during the gap between words (`:1637`), the dot comes
  first, and the dash only if its paddle is held.
- `sdr-transceiver-hpsdr.c:1479`: a rate lowered between two looks at the microphone
  reads past `audio`.
- `sdr-transceiver-hpsdr.c:533` starts the Nucleo board with `0x02100000` while the
  cache says 0, and a failed I2C write leaves the cache updated.

## 7. Not modelled

Listed with reasons under `components` in `PROJECT.json`. In short: the remaining
servers have the structure of the modelled ones (a thread next to a command loop
and a FIFO), and some are the same text for another board; the hub, the FIFO and
histogram cores are upstream cores that the redesign in `rtl/` does not use;
arithmetic cores are better compared with a reference bit by bit; pin-level and
clock-crossing cores lie below the level of one step per edge; build scripts,
generated designs, the system image and the reference models are not part of
the running system.

Of the modelled modules of `rtl/`, the constant AXI4 outputs and the status
outputs that merely decode the state are left out. Of the HPSDR server, the I2C
devices: `main()` is the only thread that writes them, each write follows the
comparison with a cached value, and what they get is bit packing.

Measured in lines of C, the models cover little of the repository, and could not
cover much: of about 52000 lines half are the two generated files `ps7_init.c` and
`ps7_init_gpl.c`, tables of register values; then come a vendor's kernel driver
(`patches/xilinx_devcfg.c`), generated simulation wrappers, a copy of the HPSDR
server for another board, clients and test programs that are a straight sequence
of register writes. The SystemVerilog modules, with which the project starts, are
not C at all.
