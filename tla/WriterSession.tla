------------------------------ MODULE WriterSession ------------------------------
(***************************************************************************)
(* RamWriter with the source, the memory and the host around it, and what  *)
(* its control promises: bursts, addresses and room in the FIFO.           *)
(***************************************************************************)
EXTENDS RamWriter

ASSUME SessionAssumption == \A c \in RamConfigs : c.buffer_size > 0

VARIABLE recent   \* the last edge accepted a sample

sessionVars == <<writerVars, recent>>

-----------------------------------------------------------------------------

(* Memory responds to a burst after its last beat, which is when bready is *)
(* up, and okay says something of a response only.                         *)
Edge(tvalid, tdata, tlast, awready, wready, bvalid, okay) ==
  /\ Clock(tvalid, tdata, tlast, awready, wready, bvalid, okay)
  /\ UNCHANGED config_i
  /\ bvalid => m_axi_bready
  /\ okay => bvalid
  /\ recent' = (tvalid /\ s_axis_tready)

(* The scope presents a sample every other cycle at most, because it waits *)
(* one cycle for its buffer after each handshake.                          *)
ScopeEdge(tvalid, tdata, tlast, awready, wready, bvalid, okay) ==
  /\ tvalid => ~recent
  /\ Edge(tvalid, tdata, tlast, awready, wready, bvalid, okay)

(* The driver moves the buffer only while the writer is switched off and   *)
(* has seen it: an enable within the cycle of the disable does not count.  *)
HostWrite(c) ==
  /\ \/ c.base_addr = config_i.base_addr /\ c.buffer_size = config_i.buffer_size
     \/ ~config_i.enable /\ ~c.enable /\ state = "IDLE" /\ write_offset = 0
  /\ Configure(c)
  /\ UNCHANGED recent

AssertReset == Reset /\ recent' = FALSE

SessionInit == Init /\ recent = FALSE

Environment == \E c \in RamConfigs : HostWrite(c)

AnyScopeEdge ==
  \E tvalid, tlast, awready, wready, bvalid, okay \in BOOLEAN, tdata \in Samples :
    ScopeEdge(tvalid, tdata, tlast, awready, wready, bvalid, okay)

SessionNext == AnyScopeEdge \/ Environment \/ AssertReset

(* An edge on which memory is ready and answers OKAY, and the FSM or the   *)
(* FIFO moves.  Neither move needs anything of the source.                 *)
ServedEdge ==
  \E tvalid, tlast \in BOOLEAN, tdata \in Samples :
    /\ ScopeEdge(tvalid, tdata, tlast, TRUE, TRUE, m_axi_bready, m_axi_bready)
    /\ <<state, fifo_wr_ptr, fifo_rd_ptr>>' # <<state, fifo_wr_ptr, fifo_rd_ptr>>

(* The clock runs, and again and again memory is ready and answers OKAY.   *)
(* Nothing is assumed of the source: it may fall silent for ever.          *)
Spec == SessionInit /\ [][SessionNext]_sessionVars /\ WF_sessionVars(ServedEdge)

-----------------------------------------------------------------------------
(* Types of the registers and of the history.                              *)
TypeInvariant == TypeOK /\ recent \in BOOLEAN

(* The words a burst has announced are in the FIFO before its address is   *)
(* sent, and stay there: the write channel never waits for the source in   *)
(* the middle of a burst, and the length computed from an empty FIFO,      *)
(* which would wrap to 255 beats, never happens.                           *)
BurstCovered ==
  /\ state = "CALC" => fifo_level >= 1
  /\ state = "ADDR" => burst_len < MAX_BURST_LEN /\ fifo_level >= burst_len + 1
  /\ state = "DATA" => /\ burst_len < MAX_BURST_LEN
                       /\ beat_count <= burst_len
                       /\ fifo_level >= burst_len + 1 - beat_count

(* A word the accumulator has completed finds room in the FIFO.            *)
NoWordDropped == accumulator_valid => ~fifo_full

(* A burst starts at the current offset, and the offset stays within the   *)
(* buffer, although it moves by bursts of every length.                    *)
StartsInBuffer ==
  /\ write_offset < config_i.buffer_size
  /\ state \in {"ADDR", "DATA", "RESP"} =>
       current_addr = (config_i.base_addr + write_offset) % ADDR_MOD

(* A burst that was decided on reaches its response, even when the source  *)
(* falls silent or the host disables the writer: only a reset takes it     *)
(* back to IDLE before.                                                    *)
BurstCompletes == state = "CALC" ~> state \in {"RESP", "IDLE"}

(* Enough words for a full burst do not stay in the FIFO of an enabled     *)
(* writer.                                                                 *)
FullBurstStarts ==
  fifo_level >= MAX_BURST_LEN /\ state # "ERROR"
    ~> state = "RESP" \/ ~config_i.enable \/ fifo_empty
=============================================================================
