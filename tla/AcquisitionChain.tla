---------------------------- MODULE AcquisitionChain ----------------------------
(***************************************************************************)
(* The acquisition chain as tb/integration/tb_acquisition_chain.sv wires   *)
(* it: the samples of channel 0 pass through its detector into the scope,  *)
(* the pulses of both channels meet in the combiner, whose output triggers *)
(* the scope, and the scope's window goes through the RAM writer to an     *)
(* AXI4 memory.  Backpressure runs the other way, from memory to source.   *)
(*                                                                         *)
(* Edge is one rising edge of aclk: the Clock of every module, with the    *)
(* wires between them as arguments, and the registers of the memory.  The  *)
(* detector of channel 1, whose samples nobody stores, is present as its   *)
(* pulse, which may come in any cycle.                                     *)
(***************************************************************************)
EXTENDS Integers

CONSTANTS
  LAST,           \* how many samples the source of channel 0 sends
  Windows,        \* the windows the host asks for, records [pre, post]
  CombineSetups,  \* the settings of the combiner, records [mode, mask]
  PIPE_STAGES, BUFFER_DEPTH, SAMPLES_PER_WORD, FIFO_DEPTH, MAX_BURST_LEN,
  COUNT_MOD, INT_MOD, LEN_MOD, ADDR_MOD,
  BASE_ADDR, BUFFER_SIZE   \* an address counts samples

(* The widths are those of the modules; a window fits the host's register. *)
ASSUME ChainAssumption ==
  /\ LAST \in Nat /\ PIPE_STAGES \in Nat \ {0, 1}
  /\ BUFFER_DEPTH \in Nat \ {0} /\ COUNT_MOD \in Nat \ {0} /\ INT_MOD \in Nat
  /\ INT_MOD > COUNT_MOD /\ BUFFER_DEPTH <= COUNT_MOD
  /\ Windows \subseteq [pre : 0 .. COUNT_MOD - 1, post : 0 .. COUNT_MOD - 1]
  /\ SAMPLES_PER_WORD \in Nat \ {0, 1}
  /\ MAX_BURST_LEN \in Nat \ {0} /\ FIFO_DEPTH \in Nat /\ FIFO_DEPTH >= MAX_BURST_LEN
  /\ LEN_MOD \in Nat /\ LEN_MOD > MAX_BURST_LEN
  /\ ADDR_MOD \in Nat /\ BASE_ADDR \in Nat /\ BUFFER_SIZE \in Nat \ {0}
  /\ BASE_ADDR + BUFFER_SIZE <= ADDR_MOD

Unwritten == -1
Numbers == Unwritten .. LAST - 1

(* A sample is its number and whether it is over the threshold.  The scope *)
(* and the writer never look at the value, and carry the number.           *)
Samples == [number : Numbers, high : {0, 1}]
Level(sample) == sample.high

VARIABLES
  trig0_config, sample_pipe, valid_pipe, trigger_armed, trig0_out,
  trig1_out,
  combine, scope_trigger, trigger_source,
  scope_config, scope_state, sample_buffer, write_ptr, read_ptr, trigger_ptr,
  post_count, transfer_count, total_samples, read_data_reg, wait_for_data,
  transfer_active,
  rw_config, writer_state, fifo_mem, fifo_wr_ptr, fifo_rd_ptr, fifo_level,
  sample_accumulator, sample_idx, accumulator_valid, last_seen,
  current_addr, burst_len, write_offset, beat_count,
  total_bytes_written, overflow_flag,
  axi_memory, aw_addr, w_beat_count,
  sent,      \* how many samples the source has sent
  repeated,  \* the scope has taken a sample twice, because the source paused
  crossing,  \* the sample the detector's pulse is about, or Unwritten
  cause,     \* the same, one register later
  mark       \* the sample that triggered the capture, or Unwritten

Ch0 == INSTANCE AxisTrigger
  WITH Zero <- [number |-> Unwritten, high |-> 0], Value <- Level,
       Configs <- {[enable |-> TRUE, mode |-> "RISING", threshold |-> 1]},
       config_i <- trig0_config, trigger_out <- trig0_out

Combiner == INSTANCE TriggerCombiner
  WITH NUM_CHANNELS <- 2, trigger_out <- scope_trigger

Scope == INSTANCE AxisScope
  WITH Samples <- Numbers,
       ScopeConfigs <- {[enable |-> TRUE, arm |-> a,
                         pre_samples |-> w.pre, post_samples |-> w.post] :
                          a \in BOOLEAN, w \in Windows},
       config_i <- scope_config, state <- scope_state

Writer == INSTANCE RamWriter
  WITH Samples <- Numbers, Zero <- Unwritten,
       BYTES_PER_BEAT <- SAMPLES_PER_WORD,
       RamConfigs <- {[enable |-> TRUE, base_addr |-> BASE_ADDR,
                       buffer_size |-> BUFFER_SIZE]},
       config_i <- rw_config, state <- writer_state

ch0Vars == <<trig0_config, sample_pipe, valid_pipe, trigger_armed, trig0_out>>
combinerVars == <<trig1_out, combine, scope_trigger, trigger_source>>
scopeRegisters ==
  <<scope_state, sample_buffer, write_ptr, read_ptr, trigger_ptr, post_count,
    transfer_count, total_samples, read_data_reg, wait_for_data, transfer_active>>
writerRegisters ==
  <<writer_state, fifo_mem, fifo_wr_ptr, fifo_rd_ptr, fifo_level,
    sample_accumulator, sample_idx, accumulator_valid, last_seen, current_addr,
    burst_len, write_offset, beat_count, total_bytes_written, overflow_flag>>
memoryVars == <<axi_memory, aw_addr, w_beat_count>>
history == <<sent, repeated, crossing, cause, mark>>
vars == <<ch0Vars, combinerVars, scope_config, scopeRegisters, rw_config,
          writerRegisters, memoryVars, history>>

-----------------------------------------------------------------------------
(* The wires between the modules.                                          *)

trig0_m_tvalid == Ch0!m_axis_tvalid

(* Bug: the scope stores the samples before the delay of the detector.     *)
UndelayedData == sample_pipe[0].number

trig0_m_tdata == Ch0!m_axis_tdata.number

trig0_m_tready == Scope!s_axis_tready

ch0_tready == Ch0!s_axis_tready(trig0_m_tready)

triggers_in ==
  {c \in {0, 1} : (c = 0 /\ trig0_out) \/ (c = 1 /\ trig1_out)}

-----------------------------------------------------------------------------

(* The AXI4 slave of the testbench, except that it may stall.              *)
SlaveEdge(awready, wready) ==
  LET beat == Writer!fifo_rd_en(wready)
      address == aw_addr + w_beat_count * SAMPLES_PER_WORD
  IN  /\ axi_memory' =
           [a \in DOMAIN axi_memory |->
              IF beat /\ a - address \in 0 .. SAMPLES_PER_WORD - 1
              THEN Writer!fifo_dout[a - address] ELSE axi_memory[a]]
      /\ IF Writer!m_axi_awvalid /\ awready
         THEN aw_addr' = Writer!m_axi_awaddr /\ w_beat_count' = 0
         ELSE /\ UNCHANGED aw_addr
              /\ w_beat_count' = w_beat_count + (IF beat THEN 1 ELSE 0)

(* The pair under the comparator moves on as it is judged, into a scope    *)
(* that stores it.                                                         *)
Follow(tvalid) ==
  /\ sent' = IF tvalid /\ ch0_tready THEN sent + 1 ELSE sent
  /\ repeated' = (\/ repeated
                  \/ /\ trig0_m_tvalid /\ trig0_m_tready
                     /\ trig0_m_tdata = sample_buffer[Scope!Address(write_ptr - 1)])
  /\ crossing' = IF trig0_out' /\ scope_state = "ARMED" /\ tvalid
                 THEN sample_pipe[PIPE_STAGES - 2].number ELSE Unwritten
  /\ cause' = IF trig0_out THEN crossing ELSE Unwritten
  /\ mark' = IF scope_state = "ARMED" /\ scope_trigger THEN cause ELSE mark

(* A detector does not pulse on two consecutive edges.                     *)
(* Memory answers a burst with OKAY, in whatever cycle it likes.           *)
Edge(tvalid, high, pulse, awready, wready, bvalid) ==
  /\ tvalid => sent < LAST
  /\ pulse => ~trig1_out
  /\ bvalid => Writer!m_axi_bready
  /\ Ch0!Clock(tvalid, [number |-> sent, high |-> high], trig0_m_tready)
  /\ trig1_out' = pulse
  /\ Combiner!Clock(triggers_in, combine.mode, combine.mask)
  /\ Scope!Clock(scope_trigger, trig0_m_tvalid, trig0_m_tdata, Writer!s_axis_tready)
  /\ Writer!Clock(Scope!m_axis_tvalid, Scope!m_axis_tdata, Scope!m_axis_tlast,
                  awready, wready, bvalid, bvalid)
  /\ SlaveEdge(awready, wready)
  /\ Follow(tvalid)
  /\ scope_config' = [scope_config EXCEPT !.arm = FALSE]
  /\ UNCHANGED <<trig0_config, combine, rw_config>>

(* arm is up for one cycle.                                                *)
ArmScope ==
  /\ scope_state = "IDLE" /\ ~scope_config.arm
  /\ scope_config' = [scope_config EXCEPT !.arm = TRUE]
  /\ UNCHANGED <<ch0Vars, combinerVars, scopeRegisters, rw_config, writerRegisters,
                 memoryVars, history>>

Init ==
  /\ Ch0!Init /\ Combiner!Init /\ Scope!Init /\ Writer!Init
  /\ trig1_out = FALSE
  /\ combine \in CombineSetups
  /\ ~scope_config.arm
  /\ axi_memory = [a \in BASE_ADDR .. BASE_ADDR + BUFFER_SIZE - 1 |-> Unwritten]
  /\ aw_addr = 0 /\ w_beat_count = 0
  /\ sent = 0 /\ repeated = FALSE
  /\ crossing = Unwritten /\ cause = Unwritten /\ mark = Unwritten

(* An input nobody looks at in a cycle is taken to be low.                 *)
Input(looked_at) == {b \in BOOLEAN : b => looked_at}

AnyEdge ==
  \E tvalid \in Input(ch0_tready), awready \in Input(Writer!m_axi_awvalid),
     wready \in Input(Writer!m_axi_wvalid), bvalid \in Input(Writer!m_axi_bready),
     pulse \in Input(scope_state \in {"IDLE", "ARMED"}) :
    \E high \in IF tvalid THEN {0, 1} ELSE {0} :
      Edge(tvalid, high, pulse, awready, wready, bvalid)

Next == AnyEdge \/ ArmScope

(* The clock runs, and again and again memory is ready on every channel.   *)
Spec ==
  /\ Init
  /\ [][Next]_vars
  /\ WF_vars(\E tvalid \in Input(ch0_tready),
                pulse \in Input(scope_state \in {"IDLE", "ARMED"}) :
               \E high \in IF tvalid THEN {0, 1} ELSE {0} :
                 Edge(tvalid, high, pulse, Writer!m_axi_awvalid,
                      Writer!m_axi_wvalid, Writer!m_axi_bready))

-----------------------------------------------------------------------------
(* Nothing of the frame is on its way any more.                            *)
Delivered ==
  /\ scope_state = "DONE"
  /\ writer_state = "IDLE" /\ fifo_level = 0
  /\ ~accumulator_valid /\ ~last_seen

(* The sample that crossed the threshold comes right after the pre_samples *)
(* samples before it: the two registers of the trigger path and the delay  *)
(* of the sample path meet, whichever mode combines the channels.          *)
CrossingAfterPre ==
  Scope!m_axis_tvalid /\ transfer_count = scope_config.pre_samples /\ mark # Unwritten
    => Scope!m_axis_tdata = mark

(* What verify_memory of the testbench reads: without a pause of the       *)
(* source, memory holds from its base on the samples of the window, each   *)
(* once and in order, however memory stalled meanwhile.                    *)
WindowInMemory ==
  Delivered /\ ~repeated /\ mark >= scope_config.pre_samples =>
    \A k \in 0 .. scope_config.pre_samples + scope_config.post_samples - 1 :
      axi_memory[BASE_ADDR + k] = mark - scope_config.pre_samples + k

(* A capture that was triggered ends in memory: backpressure from memory   *)
(* through FIFO and scope to the source never stops the chain for good.    *)
CaptureReachesMemory == scope_state = "TRIGGERED" ~> Delivered
=============================================================================
