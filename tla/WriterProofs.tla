------------------------------ MODULE WriterProofs ------------------------------
(***************************************************************************)
(* Theorems about WriterSession and WriterHistory for every word width,    *)
(* FIFO depth, burst length, buffer and address width.                     *)
(***************************************************************************)
EXTENDS WriterHistory, SequenceTheorems, TLAPS

(* A flush that waits in IDLE has a word to flush, or is about to.         *)
FlushHasWord == state = "IDLE" /\ last_seen => fifo_level > 0 \/ accumulator_valid

(* accumulator_valid follows the sample that completed the word.           *)
WordIsRecent == accumulator_valid => recent

IInv ==
  /\ TypeInvariant
  /\ BurstCovered
  /\ NoWordDropped
  /\ StartsInBuffer
  /\ FlushHasWord
  /\ WordIsRecent

-----------------------------------------------------------------------------
(* Arithmetic and constants.                                               *)

LEMMA ModRange ==
  ASSUME NEW a \in Int, NEW n \in Nat \ {0}
  PROVE  a % n \in 0 .. n - 1
OBVIOUS

LEMMA ConstantFacts ==
  /\ FIFO_DEPTH \in Nat \ {0}
  /\ LEN_MOD \in Nat \ {0} /\ MAX_BURST_LEN \in Nat \ {0}
  /\ MAX_BURST_LEN < LEN_MOD /\ MAX_BURST_LEN <= FIFO_DEPTH
  /\ ADDR_MOD \in Nat \ {0}
  /\ SAMPLES_PER_WORD \in Nat \ {0}
  /\ BYTES_PER_BEAT \in Int
BY WriterAssumption

LEMMA BytesRange == ASSUME NEW a \in Int PROVE a % ADDR_MOD \in Bytes
BY ModRange, ConstantFacts DEF Bytes

LEMMA LengthsRange == ASSUME NEW a \in Int PROVE a % LEN_MOD \in Lengths
BY ModRange, ConstantFacts DEF Lengths

LEMMA SlotsRange == ASSUME NEW a \in Int PROVE a % FIFO_DEPTH \in Slots
BY ModRange, ConstantFacts DEF Slots

LEMMA ConfigFacts ==
  ASSUME NEW c \in RamConfigs
  PROVE  /\ c.enable \in BOOLEAN
         /\ c.base_addr \in Bytes /\ c.buffer_size \in Bytes
         /\ c.buffer_size > 0
BY WriterAssumption, SessionAssumption

LEMMA ZeroWord == [l \in Lanes |-> Zero] \in Words
BY WriterAssumption DEF Words

(* The edges at which one process runs.                                    *)
StateEdge(awready, wready, bvalid, okay) ==
  \/ IdleEdge \/ CalcEdge \/ AddrEdge(awready) \/ DataEdge(wready)
  \/ RespEdge(bvalid, okay) \/ ErrorEdge

-----------------------------------------------------------------------------

LEMMA InitInvariant == SessionInit => IInv
<1> SUFFICES ASSUME SessionInit
             PROVE  IInv
  OBVIOUS
<1> USE DEF SessionInit, Init
<1>1. config_i \in RamConfigs /\ state \in States
  BY DEF States
<1>2. fifo_mem \in [Slots -> Words] /\ sample_accumulator \in Words
  BY ZeroWord, Zenon
<1>3. /\ fifo_wr_ptr \in Slots /\ fifo_rd_ptr \in Slots /\ fifo_level \in 0 .. FIFO_DEPTH
      /\ sample_idx \in Lanes
  BY ConstantFacts DEF Slots, Lanes
<1>4. accumulator_valid \in BOOLEAN /\ last_seen \in BOOLEAN
  OBVIOUS
<1>5. /\ current_addr \in Bytes /\ write_offset \in Bytes
      /\ burst_len \in Lengths /\ beat_count \in Lengths /\ total_bytes_written \in Bytes
  BY ConstantFacts DEF Bytes, Lengths
<1>6. overflow_flag \in BOOLEAN /\ recent \in BOOLEAN
  OBVIOUS
<1>7. TypeInvariant
  BY <1>1, <1>2, <1>3, <1>4, <1>5, <1>6 DEF TypeInvariant, TypeOK
<1>8. BurstCovered /\ NoWordDropped /\ FlushHasWord /\ WordIsRecent
  BY DEF BurstCovered, NoWordDropped, FlushHasWord, WordIsRecent
<1>9. StartsInBuffer
  BY <1>1, ConfigFacts DEF StartsInBuffer
<1>10. QED
  BY <1>7, <1>8, <1>9 DEF IInv

-----------------------------------------------------------------------------
(* One edge of the clock, process by process.                              *)

(* The FIFO gains the accumulator's word and loses the word that was read. *)
LEMMA FifoStep ==
  ASSUME TypeInvariant, NEW wready \in BOOLEAN, proc_fifo(wready)
  PROVE  /\ fifo_mem' \in [Slots -> Words]
         /\ fifo_wr_ptr' \in Slots /\ fifo_rd_ptr' \in Slots
         /\ fifo_level' \in 0 .. FIFO_DEPTH
         /\ ~fifo_rd_en(wready) => fifo_level' >= fifo_level
         /\ ~fifo_rd_en(wready) /\ accumulator_valid => fifo_level' >= 1
         /\ fifo_level' >= fifo_level - 1
         /\ ~accumulator_valid => fifo_level' <= fifo_level
<1> USE ConstantFacts DEF TypeInvariant, TypeOK
<1>1. fifo_mem' \in [Slots -> Words]
  BY DEF proc_fifo
<1>2. fifo_wr_ptr' \in Slots
  <2>1. fifo_wr_ptr + 1 \in Int
    BY DEF Slots
  <2>2. (fifo_wr_ptr + 1) % FIFO_DEPTH \in Slots
    BY <2>1, SlotsRange
  <2>3. QED
    BY <2>2 DEF proc_fifo
<1>3. fifo_rd_ptr' \in Slots
  <2>1. fifo_rd_ptr + 1 \in Int
    BY DEF Slots
  <2>2. (fifo_rd_ptr + 1) % FIFO_DEPTH \in Slots
    BY <2>1, SlotsRange
  <2>3. QED
    BY <2>2 DEF proc_fifo
<1>4. fifo_rd_en(wready) => fifo_level > 0
  BY DEF fifo_rd_en, m_axi_wvalid, fifo_empty
<1>5. fifo_wr_en <=> accumulator_valid /\ fifo_level < FIFO_DEPTH
  BY DEF fifo_wr_en, fifo_full
<1>6. fifo_level' = fifo_level + (IF fifo_wr_en THEN 1 ELSE 0)
                              - (IF fifo_rd_en(wready) THEN 1 ELSE 0)
  BY DEF proc_fifo
<1>7. fifo_level \in Int /\ 0 <= fifo_level /\ fifo_level <= FIFO_DEPTH
  OBVIOUS
<1>8. CASE fifo_wr_en /\ fifo_rd_en(wready)
  BY <1>1, <1>2, <1>3, <1>4, <1>5, <1>6, <1>7, <1>8
<1>9. CASE fifo_wr_en /\ ~fifo_rd_en(wready)
  BY <1>1, <1>2, <1>3, <1>4, <1>5, <1>6, <1>7, <1>9
<1>10. CASE ~fifo_wr_en /\ fifo_rd_en(wready)
  BY <1>1, <1>2, <1>3, <1>4, <1>5, <1>6, <1>7, <1>10
<1>11. CASE ~fifo_wr_en /\ ~fifo_rd_en(wready)
  BY <1>1, <1>2, <1>3, <1>4, <1>5, <1>6, <1>7, <1>11
<1>12. QED
  BY <1>8, <1>9, <1>10, <1>11

LEMMA AccumulatorStep ==
  ASSUME TypeInvariant,
         NEW tvalid \in BOOLEAN, NEW tdata \in Samples, NEW tlast \in BOOLEAN,
         NEW bvalid \in BOOLEAN, NEW okay \in BOOLEAN,
         proc_accumulator(tvalid, tdata, tlast, bvalid, okay)
  PROVE  /\ sample_accumulator' \in Words
         /\ sample_idx' \in Lanes
         /\ accumulator_valid' \in BOOLEAN /\ last_seen' \in BOOLEAN
         /\ accumulator_valid' => tvalid /\ s_axis_tready
         /\ last_seen' => last_seen \/ accumulator_valid'
         /\ last_seen' => config_i.enable /\ ~FlushOver(bvalid, okay)
<1>1. sample_accumulator' \in Words
  BY DEF proc_accumulator, TypeInvariant, TypeOK, Words
<1>2. sample_idx' \in Lanes
  BY ConstantFacts DEF proc_accumulator, TypeInvariant, TypeOK, Lanes
<1>3. accumulator_valid' \in BOOLEAN /\ last_seen' \in BOOLEAN
  BY Zenon DEF proc_accumulator
<1>4. /\ accumulator_valid' => tvalid /\ s_axis_tready
      /\ last_seen' => last_seen \/ accumulator_valid'
      /\ last_seen' => config_i.enable /\ ~FlushOver(bvalid, okay)
  BY Zenon DEF proc_accumulator
<1>5. QED
  BY <1>1, <1>2, <1>3, <1>4

LEMMA StatsStep ==
  ASSUME TypeInvariant,
         NEW tvalid \in BOOLEAN, NEW bvalid \in BOOLEAN, NEW okay \in BOOLEAN,
         proc_stats(tvalid, bvalid, okay)
  PROVE  total_bytes_written' \in Bytes /\ overflow_flag' \in BOOLEAN
<1>1. total_bytes_written + BurstBytes \in Int
  BY ConstantFacts DEF BurstBytes, TypeInvariant, TypeOK, Bytes, Lengths
<1>2. (total_bytes_written + BurstBytes) % ADDR_MOD \in Bytes /\ 0 \in Bytes
  BY <1>1, BytesRange, ConstantFacts DEF Bytes
<1>2a. total_bytes_written' \in Bytes
  BY <1>2 DEF proc_stats, TypeInvariant, TypeOK
<1>3. overflow_flag' \in BOOLEAN
  BY Zenon DEF proc_stats, TypeInvariant, TypeOK
<1>4. QED
  BY <1>2a, <1>3

(* The offset after a burst is a place in the buffer.                      *)
LEMMA OffsetStep ==
  ASSUME TypeInvariant, AdvanceOffset
  PROVE  write_offset' \in Bytes /\ write_offset' < config_i.buffer_size
<1>1. config_i \in RamConfigs
  BY DEF TypeInvariant, TypeOK
<1>2. config_i.buffer_size \in Int /\ config_i.buffer_size > 0
  BY <1>1, ConfigFacts DEF Bytes
<1>3. write_offset + BurstBytes \in Int
  BY ConstantFacts DEF BurstBytes, TypeInvariant, TypeOK, Bytes, Lengths
<1>4. (write_offset + BurstBytes) % ADDR_MOD \in Bytes
  BY <1>3, BytesRange
<1>5. QED
  BY <1>2, <1>4, ConstantFacts DEF AdvanceOffset, Bytes

LEMMA StateStep ==
  ASSUME IInv,
         NEW awready \in BOOLEAN, NEW wready \in BOOLEAN,
         NEW bvalid \in BOOLEAN, NEW okay \in BOOLEAN,
         StateEdge(awready, wready, bvalid, okay)
  PROVE  /\ state' \in States
         /\ current_addr' \in Bytes /\ write_offset' \in Bytes
         /\ burst_len' \in Lengths /\ beat_count' \in Lengths
         /\ write_offset' < config_i.buffer_size
         /\ state' \in {"ADDR", "DATA", "RESP"} =>
              current_addr' = (config_i.base_addr + write_offset') % ADDR_MOD
<1> USE ConstantFacts DEF IInv, TypeInvariant, TypeOK, States, StartsInBuffer
<1>1. config_i.base_addr \in Bytes /\ config_i.buffer_size \in Bytes /\ config_i.buffer_size > 0
  BY ConfigFacts
<1>2. CASE IdleEdge
  BY <1>1, <1>2 DEF IdleEdge, Bytes
<1>3. CASE CalcEdge
  <2>1. config_i.base_addr + write_offset \in Int /\ fifo_level - 1 \in Int
    BY <1>1 DEF Bytes
  <2>2. (config_i.base_addr + write_offset) % ADDR_MOD \in Bytes
    BY <2>1, BytesRange
  <2>3. (fifo_level - 1) % LEN_MOD \in Lengths
    BY <2>1, LengthsRange
  <2>4. burst_len' \in Lengths
    BY <1>3, <2>3 DEF CalcEdge, Lengths
  <2>5. QED
    BY <1>3, <2>2, <2>4 DEF CalcEdge
<1>4. CASE AddrEdge(awready)
  BY <1>4 DEF AddrEdge, Lengths
<1>5. CASE DataEdge(wready)
  <2>1. (beat_count + 1) % LEN_MOD \in Lengths
    BY LengthsRange DEF Lengths
  <2>2. QED
    BY <1>5, <2>1 DEF DataEdge
<1>6. CASE RespEdge(bvalid, okay)
  BY <1>6, OffsetStep DEF RespEdge
<1>7. CASE ErrorEdge
  BY <1>7 DEF ErrorEdge, burstVars
<1>8. QED
  BY <1>2, <1>3, <1>4, <1>5, <1>6, <1>7 DEF StateEdge

(* A level that covers a burst still does when it grows.                   *)
LEMMA LevelGrows ==
  ASSUME NEW before \in Int, NEW after \in Int, NEW length \in Int,
         before >= length + 1, after >= before
  PROVE  after >= length + 1
OBVIOUS

(* The words a burst needs, across every edge of the FSM.                  *)
LEMMA CoverStep ==
  ASSUME IInv,
         NEW awready \in BOOLEAN, NEW wready \in BOOLEAN,
         NEW bvalid \in BOOLEAN, NEW okay \in BOOLEAN,
         proc_fifo(wready), StateEdge(awready, wready, bvalid, okay)
  PROVE  BurstCovered'
<1> USE DEF IInv, BurstCovered
<1>1. /\ fifo_level \in 0 .. FIFO_DEPTH /\ burst_len \in Lengths /\ beat_count \in Lengths
      /\ state \in States
  BY DEF TypeInvariant, TypeOK
<1>2. /\ fifo_level' \in Int
      /\ state # "DATA" => fifo_level' >= fifo_level
      /\ state # "DATA" /\ accumulator_valid => fifo_level' >= 1
      /\ ~fifo_rd_en(wready) => fifo_level' >= fifo_level
      /\ fifo_level' >= fifo_level - 1
  BY FifoStep DEF fifo_rd_en, m_axi_wvalid
<1>3. BurstDue => fifo_level >= 1 \/ last_seen
  BY <1>1, ConstantFacts DEF BurstDue
<1>4. CASE IdleEdge
  <2>1. state' # "CALC" => state' = "IDLE"
    BY <1>4 DEF IdleEdge
  <2>2. ASSUME state' = "CALC"
        PROVE  fifo_level' >= 1
    <3>1. state = "IDLE" /\ BurstDue
      BY <1>4, <2>2 DEF IdleEdge
    <3>2. fifo_level >= 1 \/ accumulator_valid
      BY <1>1, <1>3, <3>1 DEF FlushHasWord
    <3>3. QED
      BY <1>1, <1>2, <3>1, <3>2
  <2>3. QED
    BY <2>1, <2>2
<1>5. CASE CalcEdge
  <2>1. state = "CALC" /\ state' = "ADDR" /\ fifo_level >= 1
    BY <1>5 DEF CalcEdge
  <2>2. burst_len' < MAX_BURST_LEN /\ fifo_level >= burst_len' + 1
    <3>1. CASE fifo_level >= MAX_BURST_LEN
      BY <1>5, <3>1, ConstantFacts DEF CalcEdge
    <3>2. CASE ~(fifo_level >= MAX_BURST_LEN)
      <4>1. fifo_level - 1 \in 0 .. LEN_MOD - 1
        BY <1>1, <2>1, <3>2, ConstantFacts
      <4>2. (fifo_level - 1) % LEN_MOD = fifo_level - 1
        BY <4>1, ConstantFacts
      <4>3. burst_len' = fifo_level - 1
        BY <1>5, <3>2, <4>2 DEF CalcEdge
      <4>4. QED
        BY <1>1, <3>2, <4>3, ConstantFacts
    <3>3. QED
      BY <3>1, <3>2
  <2>3. burst_len' \in Int
    BY <1>1, <1>5, LengthsRange, ConstantFacts DEF CalcEdge, Lengths
  <2>4. fifo_level' >= fifo_level /\ fifo_level' \in Int
    BY <1>2, <2>1
  <2>5. fifo_level \in Int
    BY <1>1, ConstantFacts
  <2>6. fifo_level' >= burst_len' + 1
    BY <2>2, <2>3, <2>4, <2>5, LevelGrows
  <2>7. state' # "CALC" /\ state' # "DATA"
    BY <2>1
  <2>8. QED
    BY <2>2, <2>6, <2>7 DEF BurstCovered
<1>6. CASE AddrEdge(awready)
  BY <1>1, <1>2, <1>6 DEF AddrEdge, Lengths
<1>7. CASE DataEdge(wready)
  <2>1. state = "DATA" /\ burst_len' = burst_len
    BY <1>7 DEF DataEdge
  <2>2. CASE ~fifo_rd_en(wready)
    BY <1>1, <1>2, <1>7, <2>1, <2>2 DEF DataEdge, Lengths
  <2>3. CASE fifo_rd_en(wready)
    <3>1. CASE m_axi_wlast
      BY <1>7, <2>3, <3>1 DEF DataEdge
    <3>2. CASE ~m_axi_wlast
      <4>1. beat_count < burst_len
        BY <1>1, <2>1, <3>2 DEF m_axi_wlast, Lengths
      <4>2. (beat_count + 1) % LEN_MOD = beat_count + 1
        BY <1>1, <4>1, ConstantFacts DEF Lengths
      <4>3. state' = "DATA" /\ beat_count' = beat_count + 1
        BY <1>7, <2>3, <3>2, <4>2 DEF DataEdge
      <4>4. QED
        BY <1>1, <1>2, <2>1, <4>1, <4>3 DEF Lengths
    <3>3. QED
      BY <3>1, <3>2
  <2>4. QED
    BY <2>2, <2>3
<1>8. CASE RespEdge(bvalid, okay)
  <2>1. ASSUME state' = "CALC"
        PROVE  fifo_level' >= 1
    <3>1. state = "RESP" /\ BurstDue /\ ~(fifo_empty /\ last_seen)
      BY <1>8, <2>1 DEF RespEdge
    <3>2. fifo_level >= 1
      BY <1>1, <1>3, <3>1 DEF fifo_empty
    <3>3. QED
      BY <1>1, <1>2, <3>1, <3>2
  <2>2. state' \in {"RESP", "ERROR", "CALC", "IDLE"}
    BY <1>8 DEF RespEdge
  <2>3. QED
    BY <2>1, <2>2
<1>9. CASE ErrorEdge
  BY <1>9 DEF ErrorEdge
<1>10. QED
  BY <1>4, <1>5, <1>6, <1>7, <1>8, <1>9 DEF StateEdge

(* The flag of a flush never outlives the words it is for.                 *)
LEMMA FlushStep ==
  ASSUME IInv,
         NEW tvalid \in BOOLEAN, NEW tdata \in Samples, NEW tlast \in BOOLEAN,
         NEW awready \in BOOLEAN, NEW wready \in BOOLEAN,
         NEW bvalid \in BOOLEAN, NEW okay \in BOOLEAN,
         proc_fifo(wready),
         proc_accumulator(tvalid, tdata, tlast, bvalid, okay),
         StateEdge(awready, wready, bvalid, okay)
  PROVE  FlushHasWord'
<1> SUFFICES ASSUME state' = "IDLE", last_seen', ~accumulator_valid'
             PROVE  FALSE
  BY DEF FlushHasWord
<1>1. last_seen /\ config_i.enable /\ ~FlushOver(bvalid, okay)
  BY AccumulatorStep DEF IInv
<1>2. BurstDue
  BY <1>1 DEF BurstDue
<1>3. ~IdleEdge /\ ~ErrorEdge
  BY <1>1, <1>2 DEF IdleEdge, ErrorEdge
<1>4. ~CalcEdge /\ ~AddrEdge(awready) /\ ~DataEdge(wready)
  BY DEF CalcEdge, AddrEdge, DataEdge
<1>5. ~RespEdge(bvalid, okay)
  BY <1>1, <1>2 DEF RespEdge, FlushOver, Acknowledged, m_axi_bready
<1>6. QED
  BY <1>3, <1>4, <1>5 DEF StateEdge

(* A source that pauses after each sample never closes a word while        *)
(* another enters the FIFO.                                                *)
LEMMA RoomStep ==
  ASSUME IInv,
         NEW tvalid \in BOOLEAN, NEW tdata \in Samples, NEW tlast \in BOOLEAN,
         NEW wready \in BOOLEAN, NEW bvalid \in BOOLEAN, NEW okay \in BOOLEAN,
         proc_fifo(wready),
         proc_accumulator(tvalid, tdata, tlast, bvalid, okay),
         tvalid => ~recent
  PROVE  NoWordDropped'
<1> SUFFICES ASSUME accumulator_valid'
             PROVE  ~fifo_full'
  BY DEF NoWordDropped
<1>1. tvalid /\ s_axis_tready
  BY AccumulatorStep DEF IInv
<1>2. ~accumulator_valid
  BY <1>1 DEF IInv, WordIsRecent
<1>3. fifo_level' <= fifo_level /\ fifo_level' \in Int
  BY <1>2, FifoStep DEF IInv
<1>4. fifo_level # FIFO_DEPTH
  BY <1>1 DEF s_axis_tready, fifo_full
<1>5. fifo_level \in 0 .. FIFO_DEPTH
  BY DEF IInv, TypeInvariant, TypeOK
<1>6. QED
  BY <1>3, <1>4, <1>5, ConstantFacts DEF fifo_full

LEMMA EdgeInvariant ==
  ASSUME IInv,
         NEW tvalid \in BOOLEAN, NEW tdata \in Samples, NEW tlast \in BOOLEAN,
         NEW awready \in BOOLEAN, NEW wready \in BOOLEAN,
         NEW bvalid \in BOOLEAN, NEW okay \in BOOLEAN,
         ScopeEdge(tvalid, tdata, tlast, awready, wready, bvalid, okay)
  PROVE  IInv'
<1>1. /\ proc_fifo(wready)
      /\ proc_accumulator(tvalid, tdata, tlast, bvalid, okay)
      /\ proc_stats(tvalid, bvalid, okay)
      /\ StateEdge(awready, wready, bvalid, okay)
      /\ config_i' = config_i
      /\ recent' = (tvalid /\ s_axis_tready)
      /\ tvalid => ~recent
  BY Zenon DEF ScopeEdge, Edge, Clock, StateEdge
<1>2. TypeInvariant
  BY DEF IInv
<1>3. TypeInvariant'
  <2>1. recent' \in BOOLEAN
    BY <1>1, Zenon
  <2>2. config_i' \in RamConfigs
    BY <1>1, <1>2 DEF TypeInvariant, TypeOK
  <2>3. /\ fifo_mem' \in [Slots -> Words]
        /\ fifo_wr_ptr' \in Slots /\ fifo_rd_ptr' \in Slots
        /\ fifo_level' \in 0 .. FIFO_DEPTH
    BY <1>1, <1>2, FifoStep
  <2>4. /\ sample_accumulator' \in Words
        /\ sample_idx' \in Lanes
        /\ accumulator_valid' \in BOOLEAN /\ last_seen' \in BOOLEAN
    BY <1>1, <1>2, AccumulatorStep
  <2>5. total_bytes_written' \in Bytes /\ overflow_flag' \in BOOLEAN
    BY <1>1, <1>2, StatsStep
  <2>6. /\ state' \in States
        /\ current_addr' \in Bytes /\ write_offset' \in Bytes
        /\ burst_len' \in Lengths /\ beat_count' \in Lengths
    BY <1>1, StateStep
  <2>7. QED
    BY <2>1, <2>2, <2>3, <2>4, <2>5, <2>6 DEF TypeInvariant, TypeOK
<1>4. BurstCovered'
  BY <1>1, CoverStep
<1>5. NoWordDropped'
  BY <1>1, RoomStep
<1>6. StartsInBuffer'
  BY <1>1, StateStep DEF StartsInBuffer
<1>7. FlushHasWord'
  BY <1>1, FlushStep
<1>8. WordIsRecent'
  BY <1>1, <1>2, AccumulatorStep DEF WordIsRecent
<1>9. QED
  BY <1>3, <1>4, <1>5, <1>6, <1>7, <1>8 DEF IInv

-----------------------------------------------------------------------------

(* The host.                                                               *)
LEMMA HostInvariant ==
  ASSUME IInv, NEW c \in RamConfigs, HostWrite(c)
  PROVE  IInv'
<1>1. config_i' = c /\ UNCHANGED writerRegisters /\ recent' = recent
  BY DEF HostWrite, Configure
<1>2. TypeInvariant'
  BY <1>1 DEF IInv, TypeInvariant, TypeOK, writerRegisters, fifoVars,
              accumulatorVars, burstVars, statVars
<1>3. BurstCovered' /\ NoWordDropped' /\ FlushHasWord' /\ WordIsRecent'
  BY <1>1 DEF IInv, BurstCovered, NoWordDropped, FlushHasWord, WordIsRecent, fifo_full,
              writerRegisters, fifoVars, accumulatorVars, burstVars, statVars
<1>4. StartsInBuffer'
  <2>1. state' = state /\ current_addr' = current_addr /\ write_offset' = write_offset
    BY <1>1 DEF writerRegisters, burstVars
  <2>2. CASE c.base_addr = config_i.base_addr /\ c.buffer_size = config_i.buffer_size
    BY <1>1, <2>1, <2>2 DEF IInv, StartsInBuffer
  <2>3. CASE state = "IDLE" /\ write_offset = 0
    BY <1>1, <2>1, <2>3, ConfigFacts DEF StartsInBuffer
  <2>4. QED
    BY <2>2, <2>3 DEF HostWrite
<1>5. QED
  BY <1>2, <1>3, <1>4 DEF IInv

LEMMA ResetInvariant ==
  ASSUME IInv, AssertReset
  PROVE  IInv'
<1> USE DEF AssertReset, Reset, IInv, TypeInvariant, TypeOK
<1>1. config_i' \in RamConfigs /\ state' \in States
  BY DEF States
<1>2. fifo_mem' \in [Slots -> Words] /\ sample_accumulator' \in Words
  BY ZeroWord, Zenon
<1>3. /\ fifo_wr_ptr' \in Slots /\ fifo_rd_ptr' \in Slots /\ fifo_level' \in 0 .. FIFO_DEPTH
      /\ sample_idx' \in Lanes
  BY ConstantFacts DEF Slots, Lanes
<1>4. /\ current_addr' \in Bytes /\ write_offset' \in Bytes
      /\ burst_len' \in Lengths /\ beat_count' \in Lengths /\ total_bytes_written' \in Bytes
  BY ConstantFacts DEF Bytes, Lengths
<1>5. /\ accumulator_valid' = FALSE /\ last_seen' = FALSE
      /\ overflow_flag' = FALSE /\ recent' = FALSE
  OBVIOUS
<1>6. TypeInvariant'
  BY <1>1, <1>2, <1>3, <1>4, <1>5
<1>7. BurstCovered' /\ NoWordDropped' /\ FlushHasWord' /\ WordIsRecent'
  BY DEF BurstCovered, NoWordDropped, FlushHasWord, WordIsRecent
<1>8. StartsInBuffer'
  BY <1>1, ConfigFacts DEF StartsInBuffer
<1>9. QED
  BY <1>6, <1>7, <1>8

LEMMA NextInvariant == IInv /\ [SessionNext]_sessionVars => IInv'
<1> SUFFICES ASSUME IInv, [SessionNext]_sessionVars
             PROVE  IInv'
  OBVIOUS
<1>1. CASE AnyScopeEdge
  BY <1>1, EdgeInvariant DEF AnyScopeEdge
<1>2. CASE Environment
  BY <1>2, HostInvariant DEF Environment
<1>3. CASE AssertReset
  BY <1>3, ResetInvariant
<1>4. CASE UNCHANGED sessionVars
  BY <1>4 DEF sessionVars, writerVars, writerRegisters, fifoVars, accumulatorVars,
              burstVars, statVars, IInv, TypeInvariant, TypeOK, BurstCovered,
              NoWordDropped, fifo_full, StartsInBuffer, FlushHasWord, WordIsRecent
<1>5. QED
  BY <1>1, <1>2, <1>3, <1>4 DEF SessionNext

LEMMA Invariance == Spec => []IInv
BY InitInvariant, NextInvariant, PTL DEF Spec

(* The registers keep their types: no pointer, level or count leaves the   *)
(* range of its bits.                                                      *)
THEOREM TypeCorrect == Spec => []TypeInvariant
<1>1. IInv => TypeInvariant
  BY DEF IInv
<1>2. QED
  BY <1>1, Invariance, PTL

(* A burst never announces more words than the FIFO holds.                 *)
THEOREM BurstsAreCovered == Spec => []BurstCovered
<1>1. IInv => BurstCovered
  BY DEF IInv
<1>2. QED
  BY <1>1, Invariance, PTL

(* With a source that pauses after each sample no word is dropped.         *)
THEOREM WordsFindRoom == Spec => []NoWordDropped
<1>1. IInv => NoWordDropped
  BY DEF IInv
<1>2. QED
  BY <1>1, Invariance, PTL

(* Every burst starts inside the buffer.                                   *)
THEOREM BurstsStartInBuffer == Spec => []StartsInBuffer
<1>1. IInv => StartsInBuffer
  BY DEF IInv
<1>2. QED
  BY <1>1, Invariance, PTL

-----------------------------------------------------------------------------
(* The data.  The FIFO memory is a ring of which the words between the     *)
(* read and the write pointer are in use, and sizes has an entry for each  *)
(* of them and for a complete accumulator.                                 *)

RingInUse == fifo_wr_ptr = (fifo_rd_ptr + fifo_level) % FIFO_DEPTH

SizesKept ==
  /\ offered \in Samples
  /\ sizes \in Seq(1 .. SAMPLES_PER_WORD)
  /\ Len(sizes) = fifo_level + (IF accumulator_valid THEN 1 ELSE 0)

(* A complete accumulator is not filled on.                                *)
ClosedWordRests == accumulator_valid => sample_idx = 0

DataInv == IInv /\ RingInUse /\ SizesKept /\ ClosedWordRests

Filling == Prefix(sample_accumulator, sample_idx)
Waiting == [i \in 1 .. Len(sizes) |-> Prefix(QueuedWord(i), sizes[i])]

-----------------------------------------------------------------------------
(* Places in a ring of d slots.                                            *)

LEMMA RingCases ==
  ASSUME NEW d \in Nat \ {0}, NEW a \in 0 .. d - 1, NEW k \in 0 .. d
  PROVE  /\ a + k < d => (a + k) % d = a + k
         /\ a + k >= d => (a + k) % d = a + k - d
<1>1. a + k < d => (a + k) % d = a + k
  OBVIOUS
<1>2. a + k >= d => (a + k) % d = a + k - d
  OBVIOUS
<1>3. QED
  BY <1>1, <1>2

LEMMA RingNext ==
  ASSUME NEW d \in Nat \ {0}, NEW a \in 0 .. d - 1, NEW k \in 0 .. d - 1
  PROVE  /\ (((a + 1) % d) + k) % d = (a + (k + 1)) % d
         /\ (((a + k) % d) + 1) % d = (a + (k + 1)) % d
<1> DEFINE b == (a + 1) % d
           c == (a + k) % d
<1>1. 1 \in 0 .. d /\ k \in 0 .. d /\ k + 1 \in 0 .. d
  OBVIOUS
<1>2. a + 1 < d => b = a + 1
  BY <1>1, RingCases
<1>3. a + 1 >= d => b = a + 1 - d
  BY <1>1, RingCases
<1>4. a + k < d => c = a + k
  BY <1>1, RingCases
<1>5. a + k >= d => c = a + k - d
  BY <1>1, RingCases
<1>6. /\ a + (k + 1) < d => (a + (k + 1)) % d = a + (k + 1)
      /\ a + (k + 1) >= d => (a + (k + 1)) % d = a + (k + 1) - d
  BY <1>1, RingCases
<1>7. b \in 0 .. d - 1 /\ c \in 0 .. d - 1
  BY <1>2, <1>3, <1>4, <1>5
<1> HIDE DEF b, c
<1>8. /\ b + k < d => (b + k) % d = b + k
      /\ b + k >= d => (b + k) % d = b + k - d
  BY <1>1, <1>7, RingCases
<1>9. /\ c + 1 < d => (c + 1) % d = c + 1
      /\ c + 1 >= d => (c + 1) % d = c + 1 - d
  BY <1>1, <1>7, RingCases
<1>10. (b + k) % d = (a + (k + 1)) % d
  BY <1>2, <1>3, <1>6, <1>7, <1>8
<1>11. (c + 1) % d = (a + (k + 1)) % d
  BY <1>4, <1>5, <1>6, <1>7, <1>9
<1>12. QED
  BY <1>10, <1>11 DEF b, c

LEMMA RingApart ==
  ASSUME NEW d \in Nat \ {0}, NEW a \in 0 .. d - 1,
         NEW n \in 0 .. d - 1, NEW k \in 0 .. n - 1
  PROVE  (a + k) % d # (a + n) % d
<1>1. k \in 0 .. d /\ n \in 0 .. d
  OBVIOUS
<1>2. /\ a + k < d => (a + k) % d = a + k
      /\ a + k >= d => (a + k) % d = a + k - d
  BY <1>1, RingCases
<1>3. /\ a + n < d => (a + n) % d = a + n
      /\ a + n >= d => (a + n) % d = a + n - d
  BY <1>1, RingCases
<1>4. QED
  BY <1>1, <1>2, <1>3

-----------------------------------------------------------------------------
(* Words and their samples.                                                *)

LEMMA PrefixFacts ==
  ASSUME NEW word \in Words, NEW size \in 0 .. SAMPLES_PER_WORD
  PROVE  /\ Prefix(word, size) \in Seq(Samples)
         /\ Len(Prefix(word, size)) = size
         /\ \A k \in 1 .. size : Prefix(word, size)[k] = word[k - 1]
<1>1. ASSUME NEW k \in 1 .. size
      PROVE  word[k - 1] \in Samples
  <2>1. k - 1 \in Lanes
    BY ConstantFacts DEF Lanes
  <2>2. QED
    BY <2>1 DEF Words
<1>2. Prefix(word, size) \in [1 .. size -> Samples] /\ size \in Nat
  BY <1>1, ConstantFacts DEF Prefix
<1>3. QED
  BY <1>2 DEF Prefix

LEMMA PrefixEmpty == ASSUME NEW word PROVE Prefix(word, 0) = <<>>
BY DEF Prefix

(* A sample put into its lane is appended to the samples of the word.      *)
LEMMA PrefixGrows ==
  ASSUME NEW word \in Words, NEW size \in Lanes, NEW x \in Samples
  PROVE  Prefix([word EXCEPT ![size] = x], size + 1) = Append(Prefix(word, size), x)
<1> DEFINE after == [word EXCEPT ![size] = x]
           s == Prefix(after, size + 1)
           t == Prefix(word, size)
           u == Append(t, x)
<1>1. after \in Words
  BY DEF Words
<1>2. size \in 0 .. SAMPLES_PER_WORD /\ size + 1 \in 0 .. SAMPLES_PER_WORD /\ size \in Nat
  BY ConstantFacts DEF Lanes
<1>3. after[size] = x /\ \A l \in Lanes : l # size => after[l] = word[l]
  BY DEF Words
<1> HIDE DEF after
<1>4. /\ s \in Seq(Samples) /\ Len(s) = size + 1
      /\ \A k \in 1 .. size + 1 : s[k] = after[k - 1]
  BY <1>1, <1>2, PrefixFacts
<1>5. /\ t \in Seq(Samples) /\ Len(t) = size
      /\ \A k \in 1 .. size : t[k] = word[k - 1]
  BY <1>2, PrefixFacts
<1> HIDE DEF s, t
<1>6. /\ u \in Seq(Samples) /\ Len(u) = size + 1
      /\ \A k \in 1 .. size : u[k] = t[k]
      /\ u[size + 1] = x
  BY <1>2, <1>5
<1> HIDE DEF u
<1>7. ASSUME NEW k \in 1 .. Len(s)
      PROVE  s[k] = u[k]
  <2>1. CASE k = size + 1
    <3>1. s[k] = after[size]
      BY <1>2, <1>4, <2>1
    <3>2. QED
      BY <1>3, <1>6, <2>1, <3>1
  <2>2. CASE k # size + 1
    <3>1. k \in 1 .. size /\ k \in 1 .. size + 1
      BY <1>2, <1>4, <2>2
    <3>2. k - 1 \in Lanes /\ k - 1 # size
      BY <1>2, <3>1, ConstantFacts DEF Lanes
    <3>3. QED
      BY <1>3, <1>4, <1>5, <1>6, <3>1, <3>2
  <2>3. QED
    BY <2>1, <2>2
<1>8. s = u
  BY <1>4, <1>6, <1>7, SeqEqual
<1>9. QED
  BY <1>8 DEF s, t, u, after

LEMMA DataFacts ==
  ASSUME DataInv
  PROVE  /\ fifo_mem \in [Slots -> Words] /\ sample_accumulator \in Words
         /\ fifo_rd_ptr \in 0 .. FIFO_DEPTH - 1 /\ fifo_wr_ptr \in 0 .. FIFO_DEPTH - 1
         /\ fifo_level \in 0 .. FIFO_DEPTH /\ FIFO_DEPTH \in Nat \ {0}
         /\ sample_idx \in Lanes /\ offered \in Samples
         /\ sizes \in Seq(1 .. SAMPLES_PER_WORD) /\ Len(sizes) \in Nat
         /\ accumulator_valid => Len(sizes) = fifo_level + 1
         /\ ~accumulator_valid => Len(sizes) = fifo_level
BY ConstantFacts DEF DataInv, IInv, TypeInvariant, TypeOK, Slots, SizesKept

LEMMA QueuedType ==
  ASSUME DataInv, NEW i \in Nat \ {0}
  PROVE  QueuedWord(i) \in Words
<1>1. (fifo_rd_ptr + i - 1) % FIFO_DEPTH \in Slots
  <2>1. fifo_rd_ptr + i - 1 \in Int
    BY DataFacts
  <2>2. QED
    BY <2>1, SlotsRange
<1>2. QED
  BY <1>1, DataFacts DEF QueuedWord

(* The closed words are sequences of samples.                              *)
LEMMA WaitingFacts ==
  ASSUME DataInv
  PROVE  /\ Waiting \in Seq(Seq(Samples))
         /\ Len(Waiting) = Len(sizes)
         /\ \A i \in 1 .. Len(sizes) : Waiting[i] = Prefix(QueuedWord(i), sizes[i])
<1>1. ASSUME NEW i \in 1 .. Len(sizes)
      PROVE  Prefix(QueuedWord(i), sizes[i]) \in Seq(Samples)
  <2>1. i \in Nat \ {0} /\ sizes[i] \in 0 .. SAMPLES_PER_WORD
    <3>1. sizes[i] \in 1 .. SAMPLES_PER_WORD
      BY DataFacts, ElementOfSeq
    <3>2. QED
      BY <3>1, DataFacts, ConstantFacts
  <2>2. QED
    BY <2>1, QueuedType, PrefixFacts
<1>2. Waiting \in [1 .. Len(sizes) -> Seq(Samples)] /\ Len(sizes) \in Nat
  BY <1>1, DataFacts DEF Waiting
<1>3. QED
  BY <1>2 DEF Waiting

-----------------------------------------------------------------------------
(* One edge of the FIFO.                                                   *)

(* What is left of sizes and of the closed words when the write channel    *)
(* has taken one or not.                                                   *)
RestSizes(wready) == IF fifo_rd_en(wready) THEN Tail(sizes) ELSE sizes
RestWaiting(wready) == IF fifo_rd_en(wready) THEN Tail(Waiting) ELSE Waiting

LEMMA LevelStep ==
  ASSUME DataInv, NEW wready \in BOOLEAN, proc_fifo(wready)
  PROVE  /\ fifo_wr_en <=> accumulator_valid
         /\ accumulator_valid => fifo_level \in 0 .. FIFO_DEPTH - 1
         /\ fifo_rd_en(wready) => /\ fifo_level >= 1 /\ Len(sizes) >= 1
                                  /\ fifo_level' = Len(sizes) - 1
         /\ ~fifo_rd_en(wready) => fifo_level' = Len(sizes)
         /\ fifo_level' \in 0 .. FIFO_DEPTH
<1>1. fifo_level \in 0 .. FIFO_DEPTH /\ FIFO_DEPTH \in Nat \ {0}
  BY DataFacts
<1>2. accumulator_valid => fifo_level # FIFO_DEPTH
  BY DEF DataInv, IInv, NoWordDropped, fifo_full
<1>3. fifo_wr_en <=> accumulator_valid
  BY <1>2 DEF fifo_wr_en, fifo_full
<1>4. fifo_rd_en(wready) => fifo_level >= 1
  BY <1>1 DEF fifo_rd_en, m_axi_wvalid, fifo_empty
<1>5. fifo_level' = fifo_level + (IF fifo_wr_en THEN 1 ELSE 0)
                              - (IF fifo_rd_en(wready) THEN 1 ELSE 0)
  BY DEF proc_fifo
<1>6. fifo_level' \in 0 .. FIFO_DEPTH
  BY FifoStep DEF DataInv, IInv
<1>7. /\ accumulator_valid => Len(sizes) = fifo_level + 1
      /\ ~accumulator_valid => Len(sizes) = fifo_level
  BY DataFacts
<1>8. CASE accumulator_valid
  BY <1>1, <1>2, <1>3, <1>4, <1>5, <1>6, <1>7, <1>8
<1>9. CASE ~accumulator_valid
  BY <1>1, <1>3, <1>4, <1>5, <1>6, <1>7, <1>9
<1>10. QED
  BY <1>8, <1>9

(* The pointers stay fifo_level slots apart.                               *)
LEMMA RingStep ==
  ASSUME DataInv, NEW wready \in BOOLEAN, proc_fifo(wready)
  PROVE  RingInUse'
<1> DEFINE d == FIFO_DEPTH
           rd == fifo_rd_ptr
           n == fifo_level
<1>1. d \in Nat \ {0} /\ rd \in 0 .. d - 1 /\ n \in 0 .. d
  BY DataFacts
<1>2. fifo_wr_ptr = (rd + n) % d
  BY DEF DataInv, RingInUse
<1>3. /\ fifo_wr_ptr' = IF accumulator_valid THEN (fifo_wr_ptr + 1) % d ELSE fifo_wr_ptr
      /\ fifo_rd_ptr' = IF fifo_rd_en(wready) THEN (rd + 1) % d ELSE rd
  <2>1. fifo_wr_en <=> accumulator_valid
    BY LevelStep
  <2>2. QED
    BY <2>1 DEF proc_fifo
<1>4. /\ accumulator_valid => n \in 0 .. d - 1 /\ Len(sizes) = n + 1
      /\ ~accumulator_valid => Len(sizes) = n
      /\ fifo_rd_en(wready) => n >= 1 /\ fifo_level' = Len(sizes) - 1
      /\ ~fifo_rd_en(wready) => fifo_level' = Len(sizes)
  BY LevelStep, DataFacts
<1>5. SUFFICES fifo_wr_ptr' = (fifo_rd_ptr' + fifo_level') % d
  BY DEF RingInUse
<1> HIDE DEF d, rd, n
<1>6. CASE accumulator_valid
  <2>1. n \in 0 .. d - 1 /\ Len(sizes) = n + 1
    BY <1>4, <1>6
  <2>2. fifo_wr_ptr' = (rd + (n + 1)) % d
    BY <1>1, <1>2, <1>3, <1>6, <2>1, RingNext
  <2>3. CASE fifo_rd_en(wready)
    <3>1. fifo_level' = n /\ fifo_rd_ptr' = (rd + 1) % d
      BY <1>3, <1>4, <2>1, <2>3
    <3>2. (((rd + 1) % d) + n) % d = (rd + (n + 1)) % d
      BY <1>1, <2>1, RingNext
    <3>3. QED
      BY <2>2, <3>1, <3>2
  <2>4. CASE ~fifo_rd_en(wready)
    BY <1>3, <1>4, <2>1, <2>2, <2>4
  <2>5. QED
    BY <2>3, <2>4
<1>7. CASE ~accumulator_valid
  <2>1. fifo_wr_ptr' = (rd + n) % d /\ Len(sizes) = n
    BY <1>2, <1>3, <1>4, <1>7
  <2>2. CASE fifo_rd_en(wready)
    <3> DEFINE k == n - 1
    <3>1. k \in 0 .. d - 1 /\ n = k + 1 /\ fifo_level' = k /\ fifo_rd_ptr' = (rd + 1) % d
      BY <1>1, <1>3, <1>4, <2>1, <2>2
    <3> HIDE DEF k
    <3>2. (((rd + 1) % d) + k) % d = (rd + (k + 1)) % d
      BY <1>1, <3>1, RingNext
    <3>3. QED
      BY <2>1, <3>1, <3>2
  <2>3. CASE ~fifo_rd_en(wready)
    BY <1>3, <1>4, <2>1, <2>3
  <2>4. QED
    BY <2>2, <2>3
<1>8. QED
  BY <1>6, <1>7

(* A word stays what it is until it is read: the word of a complete        *)
(* accumulator enters the ring at the write pointer, and the read pointer  *)
(* moves the others up.                                                    *)
LEMMA QueueStep ==
  ASSUME DataInv, NEW wready \in BOOLEAN, proc_fifo(wready),
         NEW i \in 1 .. fifo_level',
         NEW j \in Nat, j = IF fifo_rd_en(wready) THEN i + 1 ELSE i
  PROVE  QueuedWord(i)' = QueuedWord(j) /\ j \in 1 .. Len(sizes)
<1> DEFINE d == FIFO_DEPTH
           rd == fifo_rd_ptr
           n == fifo_level
<1>1. d \in Nat \ {0} /\ rd \in 0 .. d - 1 /\ n \in 0 .. d
  BY DataFacts
<1>2. fifo_wr_ptr = (rd + n) % d
  BY DEF DataInv, RingInUse
<1>3. /\ accumulator_valid => n \in 0 .. d - 1 /\ Len(sizes) = n + 1
      /\ ~accumulator_valid => Len(sizes) = n
      /\ fifo_rd_en(wready) => n >= 1 /\ fifo_level' = Len(sizes) - 1
      /\ ~fifo_rd_en(wready) => fifo_level' = Len(sizes)
      /\ fifo_level' \in 0 .. d
  BY LevelStep, DataFacts
<1>4. /\ fifo_mem' = IF accumulator_valid
                     THEN [fifo_mem EXCEPT ![fifo_wr_ptr] = sample_accumulator]
                     ELSE fifo_mem
      /\ fifo_rd_ptr' = IF fifo_rd_en(wready) THEN (rd + 1) % d ELSE rd
  <2>1. fifo_wr_en <=> accumulator_valid
    BY LevelStep
  <2>2. QED
    BY <2>1 DEF proc_fifo
<1>5. QueuedWord(i)' = fifo_mem'[(fifo_rd_ptr' + i - 1) % d]
  BY DEF QueuedWord
<1>6. QueuedWord(j) = IF j <= n THEN fifo_mem[(rd + j - 1) % d] ELSE sample_accumulator
  BY DEF QueuedWord
<1>7. fifo_mem \in [Slots -> Words] /\ Slots = 0 .. d - 1
  BY DataFacts DEF Slots
<1> HIDE DEF d, rd, n
<1>8. j \in 1 .. Len(sizes) /\ i \in 1 .. d /\ i \in Nat
  <2>1. Len(sizes) \in Nat
    BY DataFacts
  <2>2. QED
    BY <1>1, <1>3, <2>1
<1>9. (fifo_rd_ptr' + i - 1) % d = (rd + j - 1) % d
  <2>1. CASE fifo_rd_en(wready)
    <3> DEFINE k == i - 1
    <3>1. k \in 0 .. d - 1 /\ j = k + 2
      BY <1>1, <1>8, <2>1
    <3>2. rd + j - 1 = rd + (k + 1)
      BY <1>1, <3>1
    <3>3. fifo_rd_ptr' = (rd + 1) % d /\ (rd + 1) % d \in Int
      BY <1>1, <1>4, <2>1
    <3>4. fifo_rd_ptr' + i - 1 = ((rd + 1) % d) + k
      BY <1>8, <3>3
    <3> HIDE DEF k
    <3>5. (((rd + 1) % d) + k) % d = (rd + (k + 1)) % d
      BY <1>1, <3>1, RingNext
    <3>6. QED
      BY <3>2, <3>4, <3>5
  <2>2. CASE ~fifo_rd_en(wready)
    BY <1>4, <2>2
  <2>3. QED
    BY <2>1, <2>2
<1>10. CASE accumulator_valid
  <2>1. n \in 0 .. d - 1 /\ j \in 1 .. n + 1
    BY <1>3, <1>8, <1>10
  <2>2. fifo_mem' = [fifo_mem EXCEPT ![(rd + n) % d] = sample_accumulator]
    BY <1>2, <1>4, <1>10
  <2>3. (rd + n) % d \in Slots
    BY <1>1, <1>7, ModRange
  <2>4. CASE j = n + 1
    <3>1. rd + j - 1 = rd + n
      BY <1>1, <2>1, <2>4
    <3>2. QueuedWord(j) = sample_accumulator
      BY <1>6, <2>1, <2>4
    <3>3. fifo_mem'[(rd + n) % d] = sample_accumulator
      BY <1>7, <2>2, <2>3
    <3>4. QED
      BY <1>5, <1>8, <1>9, <3>1, <3>2, <3>3
  <2>5. CASE j # n + 1
    <3> DEFINE k == j - 1
    <3>1. k \in 0 .. n - 1 /\ j <= n /\ rd + j - 1 = rd + k
      BY <1>1, <2>1, <2>5
    <3> HIDE DEF k
    <3>2. (rd + k) % d # (rd + n) % d
      BY <1>1, <2>1, <3>1, RingApart
    <3>3. rd + k \in Int
      BY <1>1, <3>1
    <3>4. (rd + k) % d \in Slots
      BY <1>1, <1>7, <3>3, ModRange
    <3>5. fifo_mem'[(rd + k) % d] = fifo_mem[(rd + k) % d]
      BY <1>7, <2>2, <3>2, <3>4
    <3>6. QueuedWord(j) = fifo_mem[(rd + k) % d]
      BY <1>6, <3>1
    <3>7. QED
      BY <1>5, <1>8, <1>9, <3>1, <3>5, <3>6
  <2>6. QED
    BY <2>4, <2>5
<1>11. CASE ~accumulator_valid
  <2>1. fifo_mem' = fifo_mem /\ j <= n
    BY <1>3, <1>4, <1>8, <1>11
  <2>2. QED
    BY <1>5, <1>6, <1>8, <1>9, <2>1
<1>12. QED
  BY <1>10, <1>11

LEMMA RestFacts ==
  ASSUME DataInv, NEW wready \in BOOLEAN, proc_fifo(wready)
  PROVE  /\ RestSizes(wready) \in Seq(1 .. SAMPLES_PER_WORD)
         /\ Len(RestSizes(wready)) = fifo_level'
         /\ RestWaiting(wready) \in Seq(Seq(Samples))
         /\ Len(RestWaiting(wready)) = fifo_level'
         /\ \A i \in 1 .. fifo_level' :
              RestWaiting(wready)[i] = Prefix(QueuedWord(i)', RestSizes(wready)[i])
<1>1. /\ Waiting \in Seq(Seq(Samples)) /\ Len(Waiting) = Len(sizes)
      /\ \A i \in 1 .. Len(sizes) : Waiting[i] = Prefix(QueuedWord(i), sizes[i])
  BY WaitingFacts
<1>2. /\ sizes \in Seq(1 .. SAMPLES_PER_WORD) /\ Len(sizes) \in Nat
  BY DataFacts
<1>3. /\ fifo_rd_en(wready) => Len(sizes) >= 1 /\ fifo_level' = Len(sizes) - 1
      /\ ~fifo_rd_en(wready) => fifo_level' = Len(sizes)
  BY LevelStep
<1> HIDE DEF Waiting
<1>4. CASE fifo_rd_en(wready)
  <2>1. RestSizes(wready) = Tail(sizes) /\ RestWaiting(wready) = Tail(Waiting)
    BY <1>4 DEF RestSizes, RestWaiting
  <2>2. sizes # <<>> /\ Waiting # <<>>
    BY <1>1, <1>2, <1>3, <1>4
  <2>3. /\ Tail(sizes) \in Seq(1 .. SAMPLES_PER_WORD) /\ Len(Tail(sizes)) = fifo_level'
        /\ \A i \in 1 .. fifo_level' : Tail(sizes)[i] = sizes[i + 1]
    BY <1>2, <1>3, <1>4, <2>2, HeadTailProperties
  <2>4. /\ Tail(Waiting) \in Seq(Seq(Samples)) /\ Len(Tail(Waiting)) = fifo_level'
        /\ \A i \in 1 .. fifo_level' : Tail(Waiting)[i] = Waiting[i + 1]
    BY <1>1, <1>2, <1>3, <1>4, <2>2, HeadTailProperties
  <2>5. ASSUME NEW i \in 1 .. fifo_level'
        PROVE  Tail(Waiting)[i] = Prefix(QueuedWord(i)', Tail(sizes)[i])
    <3>1. i + 1 \in Nat
      BY <1>2, <1>3, <1>4
    <3>2. QueuedWord(i)' = QueuedWord(i + 1) /\ i + 1 \in 1 .. Len(sizes)
      BY <1>4, <3>1, QueueStep
    <3>3. Waiting[i + 1] = Prefix(QueuedWord(i + 1), sizes[i + 1])
      BY <1>1, <3>2
    <3>4. QED
      BY <2>3, <2>4, <3>2, <3>3
  <2>6. QED
    BY <2>1, <2>3, <2>4, <2>5
<1>5. CASE ~fifo_rd_en(wready)
  <2>1. RestSizes(wready) = sizes /\ RestWaiting(wready) = Waiting
    BY <1>5 DEF RestSizes, RestWaiting
  <2>2. ASSUME NEW i \in 1 .. fifo_level'
        PROVE  Waiting[i] = Prefix(QueuedWord(i)', sizes[i])
    <3>1. i \in Nat
      BY <1>2, <1>3, <1>5
    <3>2. QueuedWord(i)' = QueuedWord(i) /\ i \in 1 .. Len(sizes)
      BY <1>5, <3>1, QueueStep
    <3>3. QED
      BY <1>1, <3>2
  <2>3. QED
    BY <1>1, <1>2, <1>3, <1>5, <2>1, <2>2
<1>6. QED
  BY <1>4, <1>5

(* The closed words after the edge: those left over, and the one an input  *)
(* may have closed.                                                        *)
LEMMA WaitingKept ==
  ASSUME DataInv, NEW wready \in BOOLEAN, proc_fifo(wready),
         sizes' = RestSizes(wready)
  PROVE  Waiting' = RestWaiting(wready)
<1> DEFINE n == fifo_level'
           r == RestSizes(wready)
           u == RestWaiting(wready)
<1>1. /\ Len(r) = n /\ u \in Seq(Seq(Samples)) /\ Len(u) = n
      /\ \A i \in 1 .. n : u[i] = Prefix(QueuedWord(i)', r[i])
  BY RestFacts
<1>2. Waiting' = [i \in 1 .. Len(r) |-> Prefix(QueuedWord(i)', r[i])]
  BY Zenon DEF Waiting
<1> HIDE DEF n, r, u
<1>3. u = [i \in 1 .. n |-> u[i]]
  BY <1>1, LenProperties
<1>4. Waiting' = [i \in 1 .. n |-> u[i]]
  BY <1>1, <1>2, Zenon
<1>5. QED
  BY <1>3, <1>4 DEF u

LEMMA WaitingGrows ==
  ASSUME DataInv, NEW wready \in BOOLEAN, proc_fifo(wready),
         NEW size \in 1 .. SAMPLES_PER_WORD,
         sizes' = Append(RestSizes(wready), size),
         sample_accumulator' \in Words
  PROVE  Waiting' = Append(RestWaiting(wready), Prefix(sample_accumulator', size))
<1> DEFINE n == fifo_level'
           r == RestSizes(wready)
           u == RestWaiting(wready)
           w == Prefix(sample_accumulator', size)
           v == Append(u, w)
           s == Append(r, size)
<1>1. /\ r \in Seq(1 .. SAMPLES_PER_WORD)
      /\ Len(r) = n /\ u \in Seq(Seq(Samples)) /\ Len(u) = n
      /\ \A i \in 1 .. n : u[i] = Prefix(QueuedWord(i)', r[i])
  BY RestFacts
<1>2. w \in Seq(Samples)
  <2>1. size \in 0 .. SAMPLES_PER_WORD
    BY ConstantFacts
  <2>2. QED
    BY <2>1, PrefixFacts
<1>3. Waiting' = [i \in 1 .. Len(s) |-> Prefix(QueuedWord(i)', s[i])]
  BY Zenon DEF Waiting
<1>4. n \in Nat
  BY <1>1
<1>5. ASSUME NEW i, ~(i <= n)
      PROVE  QueuedWord(i)' = sample_accumulator'
  BY <1>5 DEF QueuedWord
<1> HIDE DEF n, r, u, w
<1>6. /\ s \in Seq(1 .. SAMPLES_PER_WORD) /\ Len(s) = n + 1
      /\ \A i \in 1 .. n : s[i] = r[i]
      /\ s[n + 1] = size
  BY <1>1, <1>4
<1>7. /\ v \in Seq(Seq(Samples)) /\ Len(v) = n + 1
      /\ \A i \in 1 .. n : v[i] = u[i]
      /\ v[n + 1] = w
  BY <1>1, <1>2, <1>4
<1> HIDE DEF s, v
<1>8. ASSUME NEW i \in 1 .. n + 1
      PROVE  v[i] = Prefix(QueuedWord(i)', s[i])
  <2>1. CASE i = n + 1
    <3>1. ~(i <= n)
      BY <1>4, <2>1
    <3>2. QueuedWord(i)' = sample_accumulator'
      BY <1>5, <3>1
    <3>3. QED
      BY <1>6, <1>7, <2>1, <3>2 DEF w
  <2>2. CASE i # n + 1
    <3>1. i \in 1 .. n
      BY <1>4, <2>2
    <3>2. QED
      BY <1>1, <1>6, <1>7, <3>1
  <2>3. QED
    BY <2>1, <2>2
<1>9. v = [i \in 1 .. n + 1 |-> v[i]]
  BY <1>7, LenProperties
<1>10. Waiting' = [i \in 1 .. n + 1 |-> v[i]]
  BY <1>3, <1>6, <1>8, Zenon
<1>11. QED
  BY <1>9, <1>10 DEF u, v, w

-----------------------------------------------------------------------------
(* The invariant of the data.                                              *)

(* What a tagged edge does, process by process.                            *)
LEMMA TaggedFacts ==
  ASSUME DataInv,
         NEW tvalid \in BOOLEAN, NEW tlast \in BOOLEAN, NEW awready \in BOOLEAN,
         NEW wready \in BOOLEAN, NEW bvalid \in BOOLEAN, NEW okay \in BOOLEAN,
         TaggedEdge(tvalid, tlast, awready, wready, bvalid, okay)
  PROVE  /\ SessionNext
         /\ proc_fifo(wready)
         /\ proc_accumulator(tvalid, offered, tlast, bvalid, okay)
         /\ accumulator_valid => ~tvalid
         /\ written' = IF fifo_rd_en(wready) THEN <<Prefix(fifo_dout, sizes[1])>> ELSE written
         /\ tvalid /\ s_axis_tready => offered' = (offered + 1) % TAGS /\ ended' = tlast
         /\ ~(tvalid /\ s_axis_tready) =>
              offered' = offered /\ ended' = ended /\ sizes' = RestSizes(wready)
<1>1. ScopeEdge(tvalid, offered, tlast, awready, wready, bvalid, okay)
  BY DEF TaggedEdge
<1>2. offered \in Samples
  BY DataFacts
<1>3. SessionNext
  BY <1>1, <1>2 DEF SessionNext, AnyScopeEdge
<1>4. /\ proc_fifo(wready)
      /\ proc_accumulator(tvalid, offered, tlast, bvalid, okay)
      /\ tvalid => ~recent
  BY <1>1, Zenon DEF ScopeEdge, Edge, Clock
<1>5. accumulator_valid => recent
  BY DEF DataInv, IInv, WordIsRecent
<1>6. /\ tvalid /\ s_axis_tready => offered' = (offered + 1) % TAGS /\ ended' = tlast
      /\ ~(tvalid /\ s_axis_tready) =>
           offered' = offered /\ ended' = ended /\ sizes' = RestSizes(wready)
  BY DEF TaggedEdge, RestSizes
<1>7. written' = IF fifo_rd_en(wready) THEN <<Prefix(fifo_dout, sizes[1])>> ELSE written
  BY DEF TaggedEdge
<1>8. QED
  BY <1>3, <1>4, <1>5, <1>6, <1>7, Zenon

LEMMA PlusZero == ASSUME NEW n \in Nat PROVE n + 0 = n
OBVIOUS

(* An input sample closes the word or opens the next lane of it.           *)
Closes(tlast) == tlast \/ sample_idx = SAMPLES_PER_WORD - 1

LEMMA TakenFacts ==
  ASSUME DataInv,
         NEW tvalid \in BOOLEAN, NEW tlast \in BOOLEAN, NEW awready \in BOOLEAN,
         NEW wready \in BOOLEAN, NEW bvalid \in BOOLEAN, NEW okay \in BOOLEAN,
         TaggedEdge(tvalid, tlast, awready, wready, bvalid, okay)
  PROVE  /\ ~(tvalid /\ s_axis_tready) =>
              /\ ~accumulator_valid'
              /\ sample_accumulator' = sample_accumulator /\ sample_idx' = sample_idx
         /\ tvalid /\ s_axis_tready =>
              sample_accumulator' = [sample_accumulator EXCEPT ![sample_idx] = offered]
         /\ tvalid /\ s_axis_tready /\ ~Closes(tlast) =>
              /\ ~accumulator_valid' /\ sample_idx' = sample_idx + 1
              /\ sizes' = RestSizes(wready)
         /\ tvalid /\ s_axis_tready /\ Closes(tlast) =>
              /\ accumulator_valid' /\ sample_idx' = 0
              /\ sizes' = Append(RestSizes(wready), sample_idx + 1)
<1> DEFINE takes == tvalid /\ s_axis_tready
<1>0. proc_accumulator(tvalid, offered, tlast, bvalid, okay)
  BY TaggedFacts
<1>1. /\ accumulator_valid' = (takes /\ Closes(tlast))
      /\ sample_accumulator' = IF takes THEN [sample_accumulator EXCEPT ![sample_idx] = offered]
                               ELSE sample_accumulator
      /\ sample_idx' = IF takes /\ Closes(tlast) THEN 0
                       ELSE IF takes THEN sample_idx + 1 ELSE sample_idx
  BY <1>0, Zenon DEF proc_accumulator, Closes
<1>2. sizes' = IF takes /\ Closes(tlast) THEN Append(RestSizes(wready), sample_idx + 1)
               ELSE RestSizes(wready)
  BY Zenon DEF TaggedEdge, RestSizes, Closes
<1> HIDE DEF takes
<1>3. ~takes => ~accumulator_valid'
  BY <1>1, Zenon
<1>4. takes /\ ~Closes(tlast) => ~accumulator_valid'
  BY <1>1, Zenon
<1>5. takes /\ Closes(tlast) => accumulator_valid'
  BY <1>1, Zenon
<1>6. /\ ~takes => sample_accumulator' = sample_accumulator /\ sample_idx' = sample_idx
      /\ takes => sample_accumulator' = [sample_accumulator EXCEPT ![sample_idx] = offered]
      /\ takes /\ ~Closes(tlast) => sample_idx' = sample_idx + 1
      /\ takes /\ Closes(tlast) => sample_idx' = 0
  BY <1>1, Zenon
<1>7. /\ takes /\ ~Closes(tlast) => sizes' = RestSizes(wready)
      /\ takes /\ Closes(tlast) => sizes' = Append(RestSizes(wready), sample_idx + 1)
  BY <1>2, Zenon
<1>8. QED
  BY <1>3, <1>4, <1>5, <1>6, <1>7, Zenon DEF takes

LEMMA SizesStep ==
  ASSUME DataInv,
         NEW tvalid \in BOOLEAN, NEW tlast \in BOOLEAN, NEW awready \in BOOLEAN,
         NEW wready \in BOOLEAN, NEW bvalid \in BOOLEAN, NEW okay \in BOOLEAN,
         TaggedEdge(tvalid, tlast, awready, wready, bvalid, okay)
  PROVE  SizesKept' /\ ClosedWordRests'
<1>1. /\ RestSizes(wready) \in Seq(1 .. SAMPLES_PER_WORD)
      /\ Len(RestSizes(wready)) = fifo_level'
  BY TaggedFacts, RestFacts
<1>2. offered' \in Samples
  <2>1. (offered + 1) % TAGS \in Samples
    <3>1. offered + 1 \in Int /\ TAGS \in Nat \ {0} /\ Samples = 0 .. TAGS - 1
      BY DataFacts, TagAssumption
    <3>2. QED
      BY <3>1, ModRange
  <2>2. QED
    BY <2>1, TaggedFacts, DataFacts
<1>3. fifo_level' \in Nat
  BY <1>1
<1>4. CASE ~accumulator_valid'
  <2>1. sizes' = RestSizes(wready)
    BY <1>4, TakenFacts, TaggedFacts
  <2>2. Len(sizes') = fifo_level' /\ fifo_level' + 0 = fifo_level'
    <3>1. Len(sizes') = fifo_level'
      BY <1>1, <2>1
    <3>2. fifo_level' + 0 = fifo_level'
      BY <1>3, PlusZero
    <3>3. QED
      BY <3>1, <3>2
  <2>3. QED
    BY <1>1, <1>2, <1>4, <2>1, <2>2 DEF SizesKept, ClosedWordRests
<1>5. CASE accumulator_valid'
  <2>1. tvalid /\ s_axis_tready /\ Closes(tlast)
    BY <1>5, TakenFacts, Zenon
  <2>2. sample_idx' = 0 /\ sizes' = Append(RestSizes(wready), sample_idx + 1)
    BY <2>1, TakenFacts
  <2>3. sample_idx + 1 \in 1 .. SAMPLES_PER_WORD
    BY DataFacts, ConstantFacts DEF Lanes
  <2>4. sizes' \in Seq(1 .. SAMPLES_PER_WORD) /\ Len(sizes') = fifo_level' + 1
    BY <1>1, <2>2, <2>3
  <2>5. QED
    BY <1>2, <1>5, <2>2, <2>4 DEF SizesKept, ClosedWordRests
<1>6. QED
  BY <1>4, <1>5

LEMMA DataInit == HistoryInit => DataInv
<1> SUFFICES ASSUME HistoryInit
             PROVE  DataInv
  OBVIOUS
<1>1. IInv
  BY InitInvariant DEF HistoryInit
<1>2. /\ fifo_wr_ptr = 0 /\ fifo_rd_ptr = 0 /\ fifo_level = 0
      /\ sample_idx = 0 /\ accumulator_valid = FALSE
      /\ offered = 0 /\ sizes = <<>>
  BY DEF HistoryInit, SessionInit, Init
<1>3. RingInUse
  BY <1>2, ConstantFacts DEF RingInUse
<1>4. SizesKept
  BY <1>2, TagAssumption DEF SizesKept
<1>5. QED
  BY <1>1, <1>2, <1>3, <1>4 DEF DataInv, ClosedWordRests

LEMMA SameRegisters ==
  ASSUME UNCHANGED <<writerRegisters, history>>
  PROVE  /\ UNCHANGED <<fifo_mem, fifo_wr_ptr, fifo_rd_ptr, fifo_level,
                        sample_accumulator, sample_idx, accumulator_valid>>
         /\ UNCHANGED <<offered, ended, sizes, written>>
BY DEF writerRegisters, fifoVars, accumulatorVars, history

LEMMA DataNext == DataInv /\ [HistoryNext]_vars => DataInv'
<1> SUFFICES ASSUME DataInv, [HistoryNext]_vars
             PROVE  DataInv'
  OBVIOUS
<1>1. ASSUME NEW tvalid \in BOOLEAN, NEW tlast \in BOOLEAN, NEW awready \in BOOLEAN,
             NEW wready \in BOOLEAN, NEW bvalid \in BOOLEAN, NEW okay \in BOOLEAN,
             TaggedEdge(tvalid, tlast, awready, wready, bvalid, okay)
      PROVE  DataInv'
  <2>1. SessionNext /\ proc_fifo(wready)
    BY <1>1, TaggedFacts
  <2>2. IInv'
    BY <2>1, NextInvariant DEF DataInv
  <2>3. RingInUse'
    BY <2>1, RingStep
  <2>4. SizesKept' /\ ClosedWordRests'
    BY <1>1, SizesStep
  <2>5. QED
    BY <2>2, <2>3, <2>4 DEF DataInv
<1>2. CASE UNCHANGED <<writerRegisters, history>> /\ [SessionNext]_sessionVars
  <2>1. IInv'
    BY <1>2, NextInvariant DEF DataInv
  <2>2. RingInUse' /\ SizesKept' /\ ClosedWordRests'
    BY <1>2, SameRegisters DEF DataInv, RingInUse, SizesKept, ClosedWordRests
  <2>3. QED
    BY <2>1, <2>2 DEF DataInv
<1>3. CASE Environment /\ UNCHANGED history
  <2>1. UNCHANGED writerRegisters /\ SessionNext
    BY <1>3 DEF Environment, HostWrite, Configure, SessionNext
  <2>2. QED
    BY <1>2, <1>3, <2>1
<1>4. CASE AssertReset /\ offered' = 0 /\ ended' = FALSE /\ sizes' = <<>> /\ written' = <<>>
  <2>1. IInv'
    BY <1>4, NextInvariant DEF DataInv, SessionNext
  <2>2. /\ fifo_wr_ptr' = 0 /\ fifo_rd_ptr' = 0 /\ fifo_level' = 0
        /\ sample_idx' = 0 /\ accumulator_valid' = FALSE
    BY <1>4 DEF AssertReset, Reset
  <2>3. RingInUse'
    BY <2>2, ConstantFacts DEF RingInUse
  <2>4. SizesKept'
    BY <1>4, <2>2, TagAssumption DEF SizesKept
  <2>5. QED
    BY <2>1, <2>2, <2>3, <2>4 DEF DataInv, ClosedWordRests
<1>5. CASE UNCHANGED vars
  BY <1>2, <1>5 DEF vars, sessionVars, writerVars
<1>6. QED
  BY <1>1, <1>3, <1>4, <1>5 DEF HistoryNext

LEMMA DataInvariance == HistorySpec => []DataInv
BY DataInit, DataNext, PTL DEF HistorySpec

-----------------------------------------------------------------------------
(* Each edge is a step of the promise.                                     *)

LEMMA RefineInput ==
  ASSUME DataInv,
         NEW tvalid \in BOOLEAN, NEW tlast \in BOOLEAN, NEW awready \in BOOLEAN,
         NEW wready \in BOOLEAN, NEW bvalid \in BOOLEAN, NEW okay \in BOOLEAN,
         TaggedEdge(tvalid, tlast, awready, wready, bvalid, okay)
  PROVE  Promise!Input(RestWaiting(wready))
<1>1. proc_fifo(wready)
  BY TaggedFacts
<1>2. sample_accumulator \in Words /\ sample_idx \in Lanes /\ offered \in Samples
  BY DataFacts
<1>3. Lanes = 0 .. SAMPLES_PER_WORD - 1 /\ SAMPLES_PER_WORD \in Nat
  BY ConstantFacts DEF Lanes
<1>4. Len(Filling) = sample_idx
  BY <1>2, <1>3, PrefixFacts DEF Filling
<1>5. CASE ~(tvalid /\ s_axis_tready)
  <2>1. Waiting' = RestWaiting(wready)
    BY <1>1, <1>5, TaggedFacts, WaitingKept
  <2>2. Filling' = Filling
    BY <1>5, TakenFacts DEF Filling, Prefix
  <2>3. UNCHANGED <<offered, ended>>
    BY <1>5, TaggedFacts
  <2>4. Promise!TakeNothing(RestWaiting(wready))
    BY <2>1, <2>2, <2>3 DEF Promise!TakeNothing, Filling, Waiting
  <2>5. QED
    BY <2>4 DEF Promise!Input
<1>6. CASE tvalid /\ s_axis_tready
  <2>1. sample_accumulator' = [sample_accumulator EXCEPT ![sample_idx] = offered]
    BY <1>6, TakenFacts
  <2>2. Prefix(sample_accumulator', sample_idx + 1) = Append(Filling, offered)
    BY <1>2, <2>1, PrefixGrows DEF Filling
  <2>3. offered' = (offered + 1) % TAGS /\ ended' = tlast /\ ended' \in BOOLEAN
    BY <1>6, TaggedFacts
  <2>4. Closes(tlast) <=> ended' \/ Len(Filling) = SAMPLES_PER_WORD - 1
    BY <1>4, <2>3 DEF Closes
  <2>5. CASE ~Closes(tlast)
    <3>1. sample_idx' = sample_idx + 1 /\ sizes' = RestSizes(wready)
      BY <1>6, <2>5, TakenFacts
    <3>2. Filling' = Append(Filling, offered)
      BY <2>2, <3>1 DEF Filling, Prefix
    <3>3. Waiting' = RestWaiting(wready)
      BY <1>1, <3>1, WaitingKept
    <3>4. Promise!Fill(RestWaiting(wready))
      BY <3>2, <3>3 DEF Promise!Fill, Filling, Waiting
    <3>5. Promise!Take(RestWaiting(wready))
      BY <2>5, <2>3, <2>4, <3>4 DEF Promise!Take, Filling
    <3>6. QED
      BY <3>5 DEF Promise!Input
  <2>6. CASE Closes(tlast)
    <3>1. sample_idx' = 0 /\ sizes' = Append(RestSizes(wready), sample_idx + 1)
      BY <1>6, <2>6, TakenFacts
    <3>2. Filling' = <<>>
      BY <3>1 DEF Filling, Prefix
    <3>3. sample_idx + 1 \in 1 .. SAMPLES_PER_WORD
      BY <1>2, <1>3
    <3>4. sample_accumulator' \in Words
      BY <1>2, <2>1 DEF Words
    <3>5. Waiting' = Append(RestWaiting(wready), Append(Filling, offered))
      BY <1>1, <2>2, <3>1, <3>3, <3>4, WaitingGrows
    <3>6. Len(RestWaiting(wready)) < FIFO_DEPTH
      <4>1. Len(RestWaiting(wready)) = fifo_level'
        BY <1>1, RestFacts
      <4>2. ~accumulator_valid
        BY <1>6, TaggedFacts
      <4>3. fifo_level' <= fifo_level /\ fifo_level' \in 0 .. FIFO_DEPTH
        BY <1>1, <4>2, FifoStep DEF DataInv, IInv
      <4>4. fifo_level \in 0 .. FIFO_DEPTH /\ fifo_level # FIFO_DEPTH
        BY <1>6, DataFacts DEF s_axis_tready, fifo_full
      <4>5. QED
        BY <4>1, <4>3, <4>4, ConstantFacts
    <3>7. Promise!Close(RestWaiting(wready))
      BY <3>2, <3>5, <3>6 DEF Promise!Close, Filling, Waiting
    <3>8. Promise!Take(RestWaiting(wready))
      BY <2>6, <2>3, <2>4, <3>7 DEF Promise!Take, Filling
    <3>9. QED
      BY <3>8 DEF Promise!Input
  <2>7. QED
    BY <2>5, <2>6
<1>7. QED
  BY <1>5, <1>6

LEMMA RefineTagged ==
  ASSUME DataInv,
         NEW tvalid \in BOOLEAN, NEW tlast \in BOOLEAN, NEW awready \in BOOLEAN,
         NEW wready \in BOOLEAN, NEW bvalid \in BOOLEAN, NEW okay \in BOOLEAN,
         TaggedEdge(tvalid, tlast, awready, wready, bvalid, okay)
  PROVE  Promise!Step
<1>1. Promise!Input(RestWaiting(wready))
  BY RefineInput
<1>2. CASE ~fifo_rd_en(wready)
  <2>1. RestWaiting(wready) = Waiting /\ written' = written
    BY <1>2, TaggedFacts DEF RestWaiting
  <2>2. Promise!Input(Waiting)
    BY <1>1, <2>1
  <2>3. QED
    BY <2>1, <2>2 DEF Promise!Step, Waiting
<1>3. CASE fifo_rd_en(wready)
  <2>1. RestWaiting(wready) = Tail(Waiting)
    BY <1>3 DEF RestWaiting
  <2>2. Promise!Input(Tail(Waiting))
    BY <1>1, <2>1
  <2>3. fifo_level >= 1 /\ Len(sizes) >= 1
    BY <1>3, TaggedFacts, LevelStep
  <2>4. /\ Waiting \in Seq(Seq(Samples)) /\ Len(Waiting) = Len(sizes)
        /\ \A i \in 1 .. Len(sizes) : Waiting[i] = Prefix(QueuedWord(i), sizes[i])
    BY WaitingFacts
  <2> HIDE DEF Waiting
  <2>5. Waiting # <<>> /\ Head(Waiting) = Prefix(QueuedWord(1), sizes[1])
    <3>1. Waiting # <<>> /\ 1 \in 1 .. Len(sizes)
      BY <2>3, <2>4, DataFacts
    <3>2. Head(Waiting) = Waiting[1]
      BY <2>4, <3>1
    <3>3. QED
      BY <2>4, <3>1, <3>2
  <2>6. QueuedWord(1) = fifo_dout
    <3>1. fifo_rd_ptr + 1 - 1 = fifo_rd_ptr /\ fifo_rd_ptr % FIFO_DEPTH = fifo_rd_ptr
      BY DataFacts
    <3>2. QED
      BY <2>3, <3>1 DEF QueuedWord, fifo_dout
  <2>7. written' = <<Head(Waiting)>>
    BY <1>3, <2>5, <2>6, TaggedFacts
  <2>8. QED
    BY <2>2, <2>5, <2>7 DEF Promise!Step, Waiting
<1>4. QED
  BY <1>2, <1>3

LEMMA RefineStill ==
  ASSUME UNCHANGED <<writerRegisters, history>>
  PROVE  UNCHANGED Promise!streamVars
<1>1. /\ UNCHANGED <<fifo_mem, fifo_rd_ptr, fifo_level, sample_accumulator, sample_idx>>
      /\ UNCHANGED <<offered, ended, sizes, written>>
  BY SameRegisters
<1>2. Filling' = Filling
  BY <1>1 DEF Filling, Prefix
<1>3. \A i : QueuedWord(i)' = QueuedWord(i)
  BY <1>1 DEF QueuedWord
<1>4. Waiting' = Waiting
  BY <1>1, <1>3 DEF Waiting, Prefix
<1>5. QED
  BY <1>1, <1>2, <1>4 DEF Promise!streamVars, Filling, Waiting

LEMMA RefineDrop ==
  ASSUME AssertReset, offered' = 0, ended' = FALSE, sizes' = <<>>, written' = <<>>
  PROVE  Promise!Drop
<1>1. sample_idx' = 0
  BY DEF AssertReset, Reset
<1>2. Filling' = <<>>
  BY <1>1 DEF Filling, Prefix
<1>3. Waiting' = <<>>
  BY DEF Waiting
<1>4. QED
  BY <1>2, <1>3 DEF Promise!Drop, Filling, Waiting

LEMMA RefineInit == HistoryInit => Promise!Init
<1> SUFFICES ASSUME HistoryInit
             PROVE  Promise!Init
  OBVIOUS
<1>1. /\ sample_idx = 0 /\ sizes = <<>> /\ written = <<>>
      /\ offered = 0 /\ ended = FALSE
  BY DEF HistoryInit, SessionInit, Init
<1>2. Filling = <<>> /\ Waiting = <<>>
  BY <1>1 DEF Filling, Waiting, Prefix
<1>3. QED
  BY <1>1, <1>2 DEF Promise!Init, Filling, Waiting

LEMMA RefineNext ==
  DataInv /\ [HistoryNext]_vars => [Promise!Step \/ Promise!Drop]_(Promise!streamVars)
<1> SUFFICES ASSUME DataInv, [HistoryNext]_vars
             PROVE  [Promise!Step \/ Promise!Drop]_(Promise!streamVars)
  OBVIOUS
<1>1. ASSUME NEW tvalid \in BOOLEAN, NEW tlast \in BOOLEAN, NEW awready \in BOOLEAN,
             NEW wready \in BOOLEAN, NEW bvalid \in BOOLEAN, NEW okay \in BOOLEAN,
             TaggedEdge(tvalid, tlast, awready, wready, bvalid, okay)
      PROVE  Promise!Step
  BY <1>1, RefineTagged
<1>2. CASE Environment /\ UNCHANGED history
  <2>1. UNCHANGED <<writerRegisters, history>>
    BY <1>2 DEF Environment, HostWrite, Configure
  <2>2. QED
    BY <2>1, RefineStill
<1>3. CASE AssertReset /\ offered' = 0 /\ ended' = FALSE /\ sizes' = <<>> /\ written' = <<>>
  BY <1>3, RefineDrop
<1>4. CASE UNCHANGED vars
  BY <1>4, RefineStill DEF vars, sessionVars, writerVars
<1>5. QED
  BY <1>1, <1>2, <1>3, <1>4 DEF HistoryNext

(* The writer implements PackedStream: each sample of a handshake on       *)
(* s_axis takes the next lane of a word memory is given, none twice and    *)
(* none out of order, and a word is closed by its last lane or by tlast.   *)
THEOREM PacksTheStream == HistorySpec => ImplementsPackedStream
BY RefineInit, RefineNext, DataInvariance, PTL
   DEF HistorySpec, ImplementsPackedStream, Promise!Spec
=============================================================================
