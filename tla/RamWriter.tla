------------------------------- MODULE RamWriter -------------------------------
(***************************************************************************)
(* rtl/axis_ram_writer.sv: packs samples into AXI words, queues the words  *)
(* in a FIFO and writes them to memory in bursts.  A burst starts when the *)
(* FIFO holds MAX_BURST_LEN words, or as soon as a tlast was seen, to      *)
(* flush what is left of the frame.                                        *)
(*                                                                         *)
(* Clock is one rising edge of aclk.  It is the conjunction of the clocked *)
(* processes: the FIFO, the accumulator, the statistics, and the action of *)
(* the current state of the FSM, which also updates the burst registers    *)
(* that are written only in that state.                                    *)
(***************************************************************************)
EXTENDS Integers

CONSTANTS
  Samples,            \* the values s_axis_tdata can take
  Zero,               \* the sample reset loads into the accumulator
  SAMPLES_PER_WORD,   \* AXI_DATA_W / DATA_WIDTH, 4 in the code
  FIFO_DEPTH,         \* 1024 in the code, a power of two
  MAX_BURST_LEN,      \* 16 in the code
  BYTES_PER_BEAT,     \* AXI_DATA_W / 8, 8 in the code
  LEN_MOD,            \* 2^8: burst_len and beat_count are logic [7:0]
  ADDR_MOD,           \* 2^32: addresses, offsets and byte counts
  RamConfigs          \* the ram_writer_config_t values the host writes

States == {"IDLE", "CALC", "ADDR", "DATA", "RESP", "ERROR"}

Lanes == 0 .. SAMPLES_PER_WORD - 1
Slots == 0 .. FIFO_DEPTH - 1
Lengths == 0 .. LEN_MOD - 1
Bytes == 0 .. ADDR_MOD - 1
Words == [Lanes -> Samples]

ASSUME WriterAssumption ==
  /\ Zero \in Samples
  /\ SAMPLES_PER_WORD \in Nat \ {0, 1}
  /\ MAX_BURST_LEN \in Nat \ {0}
  /\ FIFO_DEPTH \in Nat /\ FIFO_DEPTH >= MAX_BURST_LEN
  /\ LEN_MOD \in Nat /\ LEN_MOD > MAX_BURST_LEN
  /\ BYTES_PER_BEAT \in Nat \ {0}
  /\ ADDR_MOD \in Nat \ {0}
  /\ RamConfigs \subseteq [enable : BOOLEAN, base_addr : Bytes, buffer_size : Bytes]

VARIABLES
  config_i,
  state,
  fifo_mem, fifo_wr_ptr, fifo_rd_ptr, fifo_level,
  sample_accumulator, sample_idx, accumulator_valid, last_seen,
  current_addr, burst_len, write_offset, beat_count,
  total_bytes_written, overflow_flag

fifoVars == <<fifo_mem, fifo_wr_ptr, fifo_rd_ptr, fifo_level>>
accumulatorVars == <<sample_accumulator, sample_idx, accumulator_valid, last_seen>>
burstVars == <<current_addr, burst_len, write_offset, beat_count>>
statVars == <<total_bytes_written, overflow_flag>>
writerRegisters == <<state, fifoVars, accumulatorVars, burstVars, statVars>>
writerVars == <<config_i, writerRegisters>>

TypeOK ==
  /\ config_i \in RamConfigs
  /\ state \in States
  /\ fifo_mem \in [Slots -> Words]
  /\ fifo_wr_ptr \in Slots /\ fifo_rd_ptr \in Slots
  /\ fifo_level \in 0 .. FIFO_DEPTH
  /\ sample_accumulator \in Words
  /\ sample_idx \in Lanes
  /\ accumulator_valid \in BOOLEAN /\ last_seen \in BOOLEAN
  /\ current_addr \in Bytes /\ write_offset \in Bytes
  /\ burst_len \in Lengths /\ beat_count \in Lengths
  /\ total_bytes_written \in Bytes
  /\ overflow_flag \in BOOLEAN

-----------------------------------------------------------------------------
(* The wires.                                                              *)

fifo_full == fifo_level = FIFO_DEPTH
fifo_empty == fifo_level = 0
fifo_dout == fifo_mem[fifo_rd_ptr]
fifo_wr_en == accumulator_valid /\ ~fifo_full

(* Bug: no backpressure.                                                   *)
ReadyWhenEnabled == config_i.enable

s_axis_tready == config_i.enable /\ ~fifo_full

m_axi_awvalid == state = "ADDR"
m_axi_awaddr == current_addr
m_axi_awlen == burst_len

m_axi_wvalid == state = "DATA" /\ ~fifo_empty
m_axi_wlast == beat_count = burst_len

m_axi_bready == state = "RESP"

fifo_rd_en(wready) == m_axi_wvalid /\ wready

(* The response that ends the current burst, and whether it is OKAY.       *)
Acknowledged(bvalid, okay) == m_axi_bready /\ bvalid /\ okay

(* Bug: one word more than a burst.                                        *)
BurstOverdue == fifo_level > MAX_BURST_LEN \/ last_seen

BurstDue == fifo_level >= MAX_BURST_LEN \/ last_seen

BurstBytes == (burst_len + 1) * BYTES_PER_BEAT

-----------------------------------------------------------------------------
(* The clocked processes.                                                  *)

(* Bug: the write pointer does not wrap.                                   *)
WidePointer(wready) ==
  /\ IF fifo_wr_en
     THEN /\ fifo_mem' = [fifo_mem EXCEPT ![fifo_wr_ptr % FIFO_DEPTH] = sample_accumulator]
          /\ fifo_wr_ptr' = fifo_wr_ptr + 1
     ELSE UNCHANGED <<fifo_mem, fifo_wr_ptr>>
  /\ fifo_rd_ptr' = IF fifo_rd_en(wready) THEN (fifo_rd_ptr + 1) % FIFO_DEPTH
                    ELSE fifo_rd_ptr
  /\ fifo_level' = fifo_level + (IF fifo_wr_en THEN 1 ELSE 0)
                              - (IF fifo_rd_en(wready) THEN 1 ELSE 0)

(* A completed word that meets a full FIFO is not written, and             *)
(* accumulator_valid lasts one cycle only.                                 *)
proc_fifo(wready) ==
  /\ IF fifo_wr_en
     THEN /\ fifo_mem' = [fifo_mem EXCEPT ![fifo_wr_ptr] = sample_accumulator]
          /\ fifo_wr_ptr' = (fifo_wr_ptr + 1) % FIFO_DEPTH
     ELSE UNCHANGED <<fifo_mem, fifo_wr_ptr>>
  /\ fifo_rd_ptr' = IF fifo_rd_en(wready) THEN (fifo_rd_ptr + 1) % FIFO_DEPTH
                    ELSE fifo_rd_ptr
  /\ fifo_level' = fifo_level + (IF fifo_wr_en THEN 1 ELSE 0)
                              - (IF fifo_rd_en(wready) THEN 1 ELSE 0)

(* The flush of the frame is over: the FIFO is empty when a burst is       *)
(* acknowledged.                                                           *)
FlushOver(bvalid, okay) == Acknowledged(bvalid, okay) /\ fifo_empty /\ last_seen

(* Bug: a sample that is handed over during the data of a burst is lost.   *)
LosesInBurst(tvalid, tdata, tlast, bvalid, okay) ==
  LET takes == tvalid /\ s_axis_tready /\ state # "DATA"
      completes == takes /\ (tlast \/ sample_idx = SAMPLES_PER_WORD - 1)
  IN  /\ accumulator_valid' = completes
      /\ sample_accumulator' =
           IF takes THEN [sample_accumulator EXCEPT ![sample_idx] = tdata]
           ELSE sample_accumulator
      /\ sample_idx' = IF completes THEN 0
                       ELSE IF takes THEN sample_idx + 1 ELSE sample_idx
      /\ last_seen' = (/\ config_i.enable
                       /\ ~FlushOver(bvalid, okay)
                       /\ last_seen \/ (takes /\ tlast))

proc_accumulator(tvalid, tdata, tlast, bvalid, okay) ==
  LET takes == tvalid /\ s_axis_tready
      completes == takes /\ (tlast \/ sample_idx = SAMPLES_PER_WORD - 1)
  IN  /\ accumulator_valid' = completes
      /\ sample_accumulator' =
           IF takes THEN [sample_accumulator EXCEPT ![sample_idx] = tdata]
           ELSE sample_accumulator
      /\ sample_idx' = IF completes THEN 0
                       ELSE IF takes THEN sample_idx + 1 ELSE sample_idx
      /\ last_seen' = (/\ config_i.enable
                       /\ ~FlushOver(bvalid, okay)
                       /\ last_seen \/ (takes /\ tlast))

proc_stats(tvalid, bvalid, okay) ==
  IF ~config_i.enable
  THEN total_bytes_written' = 0 /\ overflow_flag' = FALSE
  ELSE /\ total_bytes_written' =
            IF Acknowledged(bvalid, okay)
            THEN (total_bytes_written + BurstBytes) % ADDR_MOD
            ELSE total_bytes_written
       /\ overflow_flag' = (overflow_flag \/ (fifo_full /\ tvalid))

IdleEdge ==
  /\ state = "IDLE"
  /\ state' = IF config_i.enable /\ BurstDue THEN "CALC" ELSE "IDLE"
  /\ IF config_i.enable
     THEN UNCHANGED <<write_offset, current_addr>>
     ELSE write_offset' = 0 /\ current_addr' = config_i.base_addr
  /\ UNCHANGED <<burst_len, beat_count>>

(* Bug: a flush announces a full burst.                                    *)
FullBursts ==
  /\ state = "CALC"
  /\ state' = "ADDR"
  /\ current_addr' = (config_i.base_addr + write_offset) % ADDR_MOD
  /\ burst_len' = MAX_BURST_LEN - 1
  /\ UNCHANGED <<write_offset, beat_count>>

CalcEdge ==
  /\ state = "CALC"
  /\ state' = "ADDR"
  /\ current_addr' = (config_i.base_addr + write_offset) % ADDR_MOD
  /\ burst_len' = IF fifo_level >= MAX_BURST_LEN THEN MAX_BURST_LEN - 1
                  ELSE (fifo_level - 1) % LEN_MOD
  /\ UNCHANGED <<write_offset, beat_count>>

AddrEdge(awready) ==
  /\ state = "ADDR"
  /\ IF awready THEN state' = "DATA" /\ beat_count' = 0
     ELSE UNCHANGED <<state, beat_count>>
  /\ UNCHANGED <<current_addr, burst_len, write_offset>>

DataEdge(wready) ==
  /\ state = "DATA"
  /\ IF fifo_rd_en(wready)
     THEN /\ beat_count' = (beat_count + 1) % LEN_MOD
          /\ state' = IF m_axi_wlast THEN "RESP" ELSE "DATA"
     ELSE UNCHANGED <<state, beat_count>>
  /\ UNCHANGED <<current_addr, burst_len, write_offset>>

(* Bug: the end of the buffer is taken for a place in it.                  *)
OffsetToTheEnd ==
  LET next == (write_offset + BurstBytes) % ADDR_MOD
  IN  write_offset' = IF next > config_i.buffer_size THEN 0 ELSE next

AdvanceOffset ==
  LET next == (write_offset + BurstBytes) % ADDR_MOD
  IN  write_offset' = IF next >= config_i.buffer_size THEN 0 ELSE next

(* Bug: the flush goes on when nothing is left.                            *)
FlushGoesOn(bvalid, okay) ==
  /\ state = "RESP"
  /\ \/ /\ ~bvalid
        /\ UNCHANGED <<state, write_offset>>
     \/ /\ bvalid /\ ~okay
        /\ state' = "ERROR"
        /\ UNCHANGED write_offset
     \/ /\ bvalid /\ okay
        /\ state' = IF BurstDue THEN "CALC" ELSE "IDLE"
        /\ AdvanceOffset
  /\ UNCHANGED <<current_addr, burst_len, beat_count>>

RespEdge(bvalid, okay) ==
  /\ state = "RESP"
  /\ \/ /\ ~bvalid
        /\ UNCHANGED <<state, write_offset>>
     \/ /\ bvalid /\ ~okay
        /\ state' = "ERROR"
        /\ UNCHANGED write_offset
     \/ /\ bvalid /\ okay
        /\ state' = IF BurstDue /\ ~(fifo_empty /\ last_seen) THEN "CALC" ELSE "IDLE"
        /\ AdvanceOffset
  /\ UNCHANGED <<current_addr, burst_len, beat_count>>

ErrorEdge ==
  /\ state = "ERROR"
  /\ state' = IF config_i.enable THEN "ERROR" ELSE "IDLE"
  /\ UNCHANGED burstVars

Clock(tvalid, tdata, tlast, awready, wready, bvalid, okay) ==
  /\ proc_fifo(wready)
  /\ proc_accumulator(tvalid, tdata, tlast, bvalid, okay)
  /\ proc_stats(tvalid, bvalid, okay)
  /\ \/ IdleEdge \/ CalcEdge \/ AddrEdge(awready) \/ DataEdge(wready)
     \/ RespEdge(bvalid, okay) \/ ErrorEdge

-----------------------------------------------------------------------------

Init ==
  /\ config_i \in RamConfigs
  /\ state = "IDLE"
  /\ fifo_mem = [s \in Slots |-> [l \in Lanes |-> Zero]]
  /\ fifo_wr_ptr = 0 /\ fifo_rd_ptr = 0 /\ fifo_level = 0
  /\ sample_accumulator = [l \in Lanes |-> Zero]
  /\ sample_idx = 0 /\ accumulator_valid = FALSE /\ last_seen = FALSE
  /\ current_addr = 0 /\ burst_len = 0 /\ write_offset = 0 /\ beat_count = 0
  /\ total_bytes_written = 0 /\ overflow_flag = FALSE

(* The host rewrites the configuration registers between two edges.        *)
Configure(c) ==
  /\ config_i' = c
  /\ UNCHANGED writerRegisters

(* aresetn goes low.  The FIFO memory has no reset.                        *)
Reset ==
  /\ state' = "IDLE"
  /\ fifo_wr_ptr' = 0 /\ fifo_rd_ptr' = 0 /\ fifo_level' = 0
  /\ sample_accumulator' = [l \in Lanes |-> Zero]
  /\ sample_idx' = 0 /\ accumulator_valid' = FALSE /\ last_seen' = FALSE
  /\ current_addr' = 0 /\ burst_len' = 0 /\ write_offset' = 0 /\ beat_count' = 0
  /\ total_bytes_written' = 0 /\ overflow_flag' = FALSE
  /\ UNCHANGED <<config_i, fifo_mem>>
=============================================================================
