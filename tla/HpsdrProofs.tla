------------------------------- MODULE HpsdrProofs -------------------------------
(***************************************************************************)
(* Proofs about main() and the receiver thread of sdr-transceiver-hpsdr.c: *)
(* about HpsdrTransmit, for every size of the datagrams, of the zeros      *)
(* before them and of the FIFO, and about HpsdrSession, for every set of   *)
(* clients, of numbers of receivers, of rates and of frequencies.          *)
(***************************************************************************)
EXTENDS HpsdrTransmit, HpsdrSession, TLAPS

-----------------------------------------------------------------------------
(* HpsdrTransmit: the samples of the host.                                 *)

Places == {"recv", "datagram", "room", "fill", "write", "frames"}

(* What the test for room has granted is still there when it is used: only *)
(* main() writes, and all the others make room.                            *)
Granted ==
  /\ main_pc \in Places /\ left \in Nat /\ tx_cntr \in Nat
  /\ main_pc = "fill" => tx_cntr <= LIMIT
  /\ main_pc = "write" => tx_cntr + left <= DEPTH
  /\ tx_cntr <= DEPTH

USE DEF Places

LEMMA GrantedInit == TransmitInit => Granted
  BY TransmitAssumption DEF TransmitInit, Granted, LIMIT

LEMMA GrantedStep == Granted /\ [TransmitNext]_transmitVars => Granted'
<1> SUFFICES ASSUME Granted, [TransmitNext]_transmitVars PROVE Granted'
  OBVIOUS
<1>1. CASE Drain
  BY <1>1, TransmitAssumption DEF Drain, Granted, LIMIT, loopVars
<1>2. CASE keyer
  BY <1>2, TransmitAssumption DEF keyer, Granted, LIMIT, loopVars
<1>3. ASSUME NEW size, recvmmsg(size) PROVE Granted'
  BY <1>3, TransmitAssumption DEF recvmmsg, Granted, LIMIT
<1>4. ASSUME NEW f, Datagram(f) PROVE Granted'
  BY <1>4, TransmitAssumption DEF Datagram, Granted, LIMIT
<1>5. CASE OtherDatagram
  BY <1>5, TransmitAssumption DEF OtherDatagram, Granted, LIMIT
<1>6. CASE Room
  BY <1>6, TransmitAssumption DEF Room, Granted, LIMIT
<1>7. CASE Fill
  BY <1>7, TransmitAssumption DEF Fill, Granted, LIMIT
<1>8. CASE WriteWord
  BY <1>8, TransmitAssumption DEF WriteWord, Granted, LIMIT
<1>9. CASE Written
  BY <1>9, TransmitAssumption DEF Written, Granted, LIMIT
<1>10. CASE process_ep2
  BY <1>10, TransmitAssumption DEF process_ep2, Granted, LIMIT
<1>11. CASE Relays
  BY <1>11, TransmitAssumption DEF Relays, Granted, LIMIT
<1>12. CASE UNCHANGED transmitVars
  BY <1>12 DEF transmitVars, Granted, loopVars
<1> QED
  BY <1>1, <1>2, <1>3, <1>4, <1>5, <1>6, <1>7, <1>8, <1>9, <1>10, <1>11, <1>12 DEF TransmitNext, main

(* No sample of the host meets a full FIFO, whatever the keyer does between*)
(* the test for room and the writes, and however large the datagrams are.  *)
THEOREM NeverOverflows == TransmitSpec => []FifoNeverOverflows
<1>1. Granted => FifoNeverOverflows
  BY DEF Granted, FifoNeverOverflows
<1> QED
  BY <1>1, GrantedInit, GrantedStep, PTL DEF TransmitSpec

-----------------------------------------------------------------------------
(* The FIFO is being emptied, or has been since the keyer took over.       *)
Emptied == "fifo" \notin tx_rst \/ cleared

Few == PREFILL + BLOCK

(* From then on until it is handed back, main() passes samples by: all     *)
(* that comes is the rest of the datagram it has in hand.                  *)
LittleInv ==
  /\ Granted /\ cleared \in BOOLEAN
  /\ main_pc = "write" => left <= Few
  /\ "fifo" \notin tx_rst => tx_cntr = 0 /\ "mux" \in tx_rst /\ ~cleared
  /\ "mux" \in tx_rst /\ Emptied =>
       /\ tx_mux_data = 1 /\ tx_cntr <= Few
       /\ main_pc \in {"room", "fill"} => tx_cntr = 0
       /\ main_pc = "write" => tx_cntr + left <= Few

LEMMA LittleInit == TransmitInit => LittleInv
<1> SUFFICES ASSUME TransmitInit PROVE LittleInv
  OBVIOUS
<1>1. /\ Granted /\ cleared = FALSE /\ main_pc = "recv" /\ tx_rst = {"fifo"}
  BY GrantedInit DEF TransmitInit, Keyer!Init
<1> QED
  BY <1>1 DEF LittleInv, Emptied

(* What the keyer does to the registers that matter here.                  *)
KeepsLittle ==
  /\ cleared' \in BOOLEAN
  /\ "fifo" \notin tx_rst' => "mux" \in tx_rst' /\ ~cleared'
  /\ "mux" \in tx_rst /\ "mux" \notin tx_rst' => cleared
  /\ "mux" \in tx_rst' /\ Emptied' => tx_mux_data' = 1
  /\ "mux" \in tx_rst' /\ Emptied' =>
       \/ "mux" \in tx_rst /\ Emptied
       \/ "fifo" \notin tx_rst'

LEMMA KeyerStep == ASSUME Keyer!Next, LittleInv PROVE KeepsLittle
<1> USE DEF KeepsLittle, LittleInv, Emptied, Keyer!Set, Keyer!Clear
<1>1. CASE Keyer!PttOn \/ Keyer!SidetoneOn \/ Keyer!RfOn
  BY <1>1 DEF Keyer!PttOn, Keyer!SidetoneOn, Keyer!RfOn
<1>2. CASE Keyer!SidetoneOff \/ Keyer!RfOff \/ Keyer!PttOff
  BY <1>2 DEF Keyer!SidetoneOff, Keyer!RfOff, Keyer!PttOff
<1>3. CASE \/ Keyer!TellPttOn \/ Keyer!TellMuxOn \/ Keyer!Pause
            \/ Keyer!TellPttOff \/ Keyer!TellMuxOff
  BY <1>3 DEF Keyer!TellPttOn, Keyer!TellMuxOn, Keyer!Pause, Keyer!TellPttOff, Keyer!TellMuxOff
<1>4. CASE Keyer!MuxOn
  BY <1>4 DEF Keyer!MuxOn
<1>5. CASE Keyer!FifoReset
  BY <1>5 DEF Keyer!FifoReset
<1>6. CASE Keyer!FifoOn
  BY <1>6 DEF Keyer!FifoOn
<1>7. CASE Keyer!MuxOff
  BY <1>7 DEF Keyer!MuxOff
<1> QED
  BY <1>1, <1>2, <1>3, <1>4, <1>5, <1>6, <1>7 DEF Keyer!Next

LEMMA LittleStep == LittleInv /\ [TransmitNext]_transmitVars => LittleInv'
<1> SUFFICES ASSUME LittleInv, [TransmitNext]_transmitVars PROVE LittleInv'
  OBVIOUS
<1>0. Granted'
  BY GrantedStep DEF LittleInv
<1> USE TransmitAssumption DEF LittleInv, Granted, Few
<1>1. CASE Drain
  BY <1>0, <1>1 DEF Drain, Emptied, loopVars, keyerVars
<1>2. CASE keyer
  <2>1. UNCHANGED <<main_pc, left>> /\ KeepsLittle
    BY <1>2, KeyerStep DEF keyer, loopVars
  <2>2. CASE "fifo" \in tx_rst'
    <3>1. tx_cntr' = tx_cntr
      BY <1>2, <2>2 DEF keyer
    <3> QED
      BY <1>0, <2>1, <2>2, <3>1 DEF KeepsLittle
  <2>3. CASE "fifo" \notin tx_rst'
    <3>1. tx_cntr' = 0
      BY <1>2, <2>3 DEF keyer
    <3> QED
      BY <1>0, <2>1, <2>3, <3>1 DEF KeepsLittle
  <2> QED
    BY <2>2, <2>3
<1>3. ASSUME NEW size, recvmmsg(size) PROVE LittleInv'
  BY <1>0, <1>3 DEF recvmmsg, Emptied, keyerVars
<1>4. ASSUME NEW f, Datagram(f) PROVE LittleInv'
  BY <1>0, <1>4 DEF Datagram, Emptied, keyerVars
<1>5. CASE OtherDatagram
  BY <1>0, <1>5 DEF OtherDatagram, Emptied, keyerVars
<1>6. CASE Room
  BY <1>0, <1>6 DEF Room, Emptied, keyerVars
<1>7. CASE Fill
  BY <1>0, <1>7 DEF Fill, Emptied, keyerVars
<1>8. CASE WriteWord
  BY <1>0, <1>8 DEF WriteWord, Emptied, keyerVars
<1>9. CASE Written
  BY <1>0, <1>9 DEF Written, Emptied, keyerVars
<1>10. CASE process_ep2
  BY <1>0, <1>10 DEF process_ep2, Emptied, keyerVars
<1>11. CASE Relays
  BY <1>0, <1>11 DEF Relays, Emptied, keyerVars
<1>12. CASE UNCHANGED transmitVars
  BY <1>0, <1>12 DEF transmitVars, Emptied, keyerVars, loopVars
<1> QED
  BY <1>1, <1>2, <1>3, <1>4, <1>5, <1>6, <1>7, <1>8, <1>9, <1>10, <1>11, <1>12 DEF TransmitNext, main

(* Whatever main() does meanwhile, the keyer hands back a FIFO that holds  *)
(* one datagram and its zeros at most.                                     *)
THEOREM HandsLittleBack == TransmitSpec => HandsBackLittle
<1>1. ASSUME LittleInv, [TransmitNext]_transmitVars, "mux" \in tx_rst, "mux" \notin tx_rst'
      PROVE  tx_cntr' <= Few
  <2>1. keyer
    <3>1. ~UNCHANGED tx_rst
      BY <1>1
    <3> QED
      BY <1>1, <3>1 DEF TransmitNext, Drain, main, recvmmsg, Datagram, OtherDatagram, Room, Fill,
           WriteWord, Written, process_ep2, Relays, keyerVars, transmitVars
  <2>2. cleared /\ (tx_cntr' = tx_cntr \/ tx_cntr' = 0)
    BY <1>1, <2>1, KeyerStep DEF keyer, KeepsLittle
  <2>3. tx_cntr <= Few
    BY <1>1, <2>2 DEF LittleInv, Emptied
  <2> QED
    BY <2>2, <2>3, TransmitAssumption DEF Few
<1>2. LittleInv /\ [TransmitNext]_transmitVars =>
        [ "mux" \in tx_rst /\ "mux" \notin tx_rst' => tx_cntr' <= PREFILL + BLOCK ]_transmitVars
  BY <1>1 DEF Few
<1> QED
  BY <1>2, LittleInit, LittleStep, PTL DEF TransmitSpec, HandsBackLittle

-----------------------------------------------------------------------------
(* HpsdrSession: receivers and microphone.                                 *)

(* Once a frequency has been set, the first receiver has the one that is   *)
(* remembered; until then 0 is remembered.                                 *)
PhaseInv ==
  /\ rx_freq = <<rx_freq[1], rx_freq[2]>> /\ rx_sync_data \in {0, 1}
  /\ tuned \in BOOLEAN
  /\ tuned => rx_freq[1] = freq_data
  /\ ~tuned => freq_data = 0
  /\ InPhase

LEMMA PhaseInit == Init => PhaseInv
<1> SUFFICES ASSUME Init PROVE PhaseInv
  OBVIOUS
<1>1. /\ rx_sync_data = 0 /\ rx_freq = <<DEFAULT_FREQ, DEFAULT_FREQ>>
      /\ freq_data = 0 /\ tuned = FALSE
  BY DEF Init
<1>2. rx_freq = <<rx_freq[1], rx_freq[2]>>
  BY <1>1
<1>3. InPhase
  <2>1. rx_sync_data # 1
    BY <1>1
  <2> QED
    BY ONLY <2>1 DEF InPhase
<1> QED
  BY <1>1, <1>2, <1>3, ZenonT(30) DEF PhaseInv

LEMMA PhaseFirst == ASSUME PhaseInv, NEW freq \in Freqs, FirstReceiver(freq) PROVE PhaseInv'
<1> USE DEF PhaseInv, InPhase
<1>1. /\ rx_freq' = <<freq, IF rx_sync_data = 1 THEN freq ELSE rx_freq[2]>>
      /\ freq_data' = freq /\ rx_sync_data' = rx_sync_data
  BY DEF FirstReceiver
<1>2. tuned' = (tuned \/ freq # freq_data)
  BY DEF FirstReceiver
<1>3. tuned' \in BOOLEAN /\ (~tuned' => ~tuned /\ freq = 0)
  BY <1>2
<1>4. ASSUME rx_sync_data = 1 PROVE aligned' \/ (~tuned' /\ freq = 0)
  <2>1. CASE freq # freq_data
    BY <1>4, <2>1 DEF FirstReceiver, ResetLos
  <2>2. CASE freq = freq_data /\ ~tuned
    BY <1>2, <2>2
  <2>3. CASE freq = freq_data /\ tuned
    <3>1. aligned /\ rx_freq' = rx_freq
      BY <1>1, <1>4, <2>3
    <3>2. aligned' = (aligned /\ rx_freq' = rx_freq)
      BY <2>3 DEF FirstReceiver
    <3> QED
      BY <3>1, <3>2, Zenon
  <2> QED
    BY <2>1, <2>2, <2>3
<1>5. rx_freq' = <<rx_freq'[1], rx_freq'[2]>> /\ rx_freq'[1] = freq_data'
  BY <1>1
<1>6. rx_sync_data' = 1 => rx_freq'[1] = rx_freq'[2]
  BY <1>1
<1> QED
  BY <1>1, <1>3, <1>4, <1>5, <1>6

LEMMA PhaseStep == PhaseInv /\ [Next]_vars => PhaseInv'
<1> SUFFICES ASSUME PhaseInv, [Next]_vars PROVE PhaseInv'
  OBVIOUS
<1> USE DEF PhaseInv, InPhase
<1>1. ASSUME NEW number \in Receivers, NEW code \in RateCodes, NEW sync \in {0, 1},
             Control(number, code, sync)
      PROVE PhaseInv'
  <2>1. CASE sync = 1 /\ rx_sync_data = 0
    BY <1>1, <2>1 DEF Control, ResetLos
  <2>2. CASE ~(sync = 1 /\ rx_sync_data = 0)
    <3>1. UNCHANGED <<rx_freq, aligned, freq_data, tuned>> /\ rx_sync_data' = sync
      BY <1>1, <2>2 DEF Control
    <3>2. sync = 1 => rx_sync_data # 0
      BY <2>2
    <3>3. CASE sync = 0
      BY <3>1, <3>3
    <3>4. CASE sync = 1 /\ rx_sync_data = 1
      BY <3>1, <3>4
    <3> QED
      BY <3>2, <3>3, <3>4
  <2> QED
    BY <2>1, <2>2
<1>2. ASSUME NEW freq \in Freqs, FirstReceiver(freq) PROVE PhaseInv'
  BY <1>2, PhaseFirst
<1>3. ASSUME NEW freq \in Freqs, SecondReceiver(freq) PROVE PhaseInv'
  BY <1>3 DEF SecondReceiver
<1>4. CASE Start
  BY <1>4 DEF Start, ResetLos
<1>5. CASE UNCHANGED freqVars
  BY <1>5 DEF freqVars
<1>6. CASE \/ \E c \in Clients, command \in {"start", "stop"} : Command(c, command)
           \/ Stopped \/ Create \/ RxBlock \/ handler_ep6
  BY <1>5, <1>6 DEF Command, Stopped, Create, RxBlock, handler_ep6, BeginEp6, TestEp6, WaitEp6,
                    FillEp6, SendEp6, EndEp6
<1>7. CASE UNCHANGED vars
  BY <1>5, <1>7 DEF vars
<1> QED
  BY <1>1, <1>2, <1>3, <1>4, <1>6, <1>7 DEF Next

(* However the host sets frequencies and synchronises the receivers, two   *)
(* synchronous receivers have one frequency, and run in phase unless 0 is  *)
(* the only frequency that has been set.                                   *)
THEOREM StaysInPhase == Spec => []InPhase
<1>1. PhaseInv => InPhase
  BY DEF PhaseInv
<1> QED
  BY <1>1, PhaseInit, PhaseStep, PTL DEF Spec

-----------------------------------------------------------------------------
(* Half a datagram, and the datagrams of a block, for r receivers.         *)
LEMMA Sizes ==
  ASSUME NEW r \in 1 .. 8, NEW h, h = 504 \div (r * 6 + 2), NEW d, d = 256 \div h
  PROVE  h \in 10 .. 63 /\ d \in 4 .. 25 /\ d * h <= 256
  BY SMT

LEMMA Powers ==
  ASSUME NEW r \in 0 .. 3
  PROVE  2 ^ r \in {1, 2, 4, 8}
<1>1. 2 ^ 0 = 1 /\ 2 ^ 1 = 2 /\ 2 ^ 2 = 4 /\ 2 ^ 3 = 8
  BY SMT
<1>2. r = 0 \/ r = 1 \/ r = 2 \/ r = 3
  OBVIOUS
<1> QED
  BY <1>1, <1>2, Zenon

LEMMA Place ==
  ASSUME NEW p \in {1, 2, 4, 8}, NEW x \in Nat, x < 512 * p
  PROVE  x \div p < 512
<1>1. CASE p = 1
  BY <1>1, SMT
<1>2. CASE p = 2
  BY <1>2, SMT
<1>3. CASE p = 4
  BY <1>3, SMT
<1>4. CASE p = 8
  BY <1>4, SMT
<1> QED
  BY <1>1, <1>2, <1>3, <1>4

(* Where the thread has a block in hand, its sizes are those of some       *)
(* number of receivers; and each block takes as many places of the         *)
(* microphone's samples as it may, until the next look at it.              *)
BlockInv ==
  /\ receivers \in 1 .. 8 /\ rate \in 0 .. 3 /\ refilled \in BOOLEAN
  /\ ep6 \in {"none", "begin", "test", "wait", "fill", "send"}
  /\ ep6 \in {"wait", "fill"} => n \in 10 .. 63 /\ m \in 4 .. 25 /\ m * n <= 256
  /\ ep6 \in {"test", "wait", "fill", "send"} /\ refilled =>
       /\ rate_counter \in 1 .. 2 ^ rate /\ k \in Nat
       /\ ep6 # "fill" => k <= 512 * (2 ^ rate - rate_counter + 1)
       /\ ep6 = "fill" => k <= 512 * (2 ^ rate - rate_counter)

LEMMA BlockInit == Init => BlockInv
  BY SessionAssumption DEF Init, BlockInv

LEMMA BlockStep == BlockInv /\ [Next]_vars => BlockInv'
<1> SUFFICES ASSUME BlockInv, [Next]_vars PROVE BlockInv'
  OBVIOUS
<1> USE SessionAssumption, Powers DEF BlockInv
<1>1. ASSUME NEW number \in Receivers, NEW code \in RateCodes, NEW sync \in {0, 1},
             Control(number, code, sync)
      PROVE BlockInv'
  <2>1. receivers' \in 1 .. 8 /\ rate' \in 0 .. 3 /\ refilled' = (refilled /\ code = rate)
        /\ rate' = code /\ UNCHANGED ep6Vars
    BY <1>1 DEF Control
  <2>2. refilled' => refilled /\ rate' = rate
    BY <2>1
  <2>3. refilled' \in BOOLEAN
    BY <2>1, Zenon
  <2> QED
    BY <2>1, <2>2, <2>3 DEF ep6Vars, blockVars
<1>2. CASE UNCHANGED <<receivers, rate, refilled, ep6Vars>>
  BY <1>2 DEF ep6Vars, blockVars
<1>3. CASE \/ \E freq \in Freqs : FirstReceiver(freq) \/ SecondReceiver(freq)
           \/ \E c \in Clients, command \in {"start", "stop"} : Command(c, command)
           \/ Stopped \/ Start \/ RxBlock
  BY <1>2, <1>3 DEF FirstReceiver, SecondReceiver, Command, Stopped, Start, RxBlock, rateVars
<1>4. CASE Create
  BY <1>4 DEF Create, rateVars, blockVars
<1>5. CASE BeginEp6
  <2>1. ep6' = "test" /\ rate_counter' = 2 ^ rate /\ k' = 0 /\ UNCHANGED <<receivers, rate>>
        /\ refilled' \in BOOLEAN
    BY <1>5 DEF BeginEp6
  <2>2. 2 ^ rate \in {1, 2, 4, 8} /\ 2 ^ rate' = 2 ^ rate
    BY <2>1, Powers
  <2> QED
    BY <2>1, <2>2
<1>6. CASE TestEp6
  <2> DEFINE half == 504 \div (receivers * 6 + 2)
  <2>1. half \in 10 .. 63 /\ 256 \div half \in 4 .. 25 /\ (256 \div half) * half <= 256
    BY Sizes
  <2>2. n' = half /\ m' = 256 \div half /\ ep6 = "test" /\ ep6' = "wait"
        /\ UNCHANGED <<receivers, rate, refilled, rate_counter, k>>
    BY <1>6 DEF TestEp6, rateVars
  <2> HIDE DEF half
  <2>3. n' \in 10 .. 63 /\ m' \in 4 .. 25 /\ m' * n' <= 256
    BY <2>1, <2>2
  <2> QED
    BY <2>2, <2>3
<1>7. CASE WaitEp6
  <2>1. ep6 = "wait" /\ ep6' = "fill" /\ UNCHANGED <<receivers, rate, m, n>>
    BY <1>7 DEF WaitEp6
  <2>2. 2 ^ rate \in {1, 2, 4, 8} /\ 2 ^ rate' = 2 ^ rate
    BY <2>1, Powers
  <2>3. CASE rate_counter = 1
    BY <1>7, <2>1, <2>2, <2>3 DEF WaitEp6, Microphone
  <2>4. CASE rate_counter # 1
    BY <1>7, <2>1, <2>2, <2>4 DEF WaitEp6, Microphone
  <2> QED
    BY <2>3, <2>4
<1>8. CASE FillEp6
  <2>1. m * n \in Nat /\ m * 2 * n = 2 * (m * n) /\ m * n <= 256
    BY <1>8, SMT DEF FillEp6
  <2>2. k' = k + 2 * (m * n) /\ ep6 = "fill" /\ ep6' = "send"
        /\ UNCHANGED <<receivers, rate, refilled, m, n, rate_counter>>
    BY <1>8, <2>1 DEF FillEp6, rateVars
  <2>3. refilled => k' \in Nat /\ k' <= 512 * (2 ^ rate - rate_counter + 1)
    BY <2>1, <2>2
  <2> QED
    BY <2>2, <2>3
<1>9. CASE SendEp6
  BY <1>9 DEF SendEp6, rateVars, blockVars
<1>10. CASE EndEp6
  BY <1>10 DEF EndEp6, rateVars, blockVars
<1>11. CASE UNCHANGED vars
  BY <1>2, <1>11 DEF vars, rateVars
<1> QED
  BY <1>1, <1>3, <1>4, <1>5, <1>6, <1>7, <1>8, <1>9, <1>10, <1>11 DEF Next, handler_ep6

(* For 1 to 8 receivers and every rate, a block fits into the buffer of    *)
(* the thread and its part of the microphone's samples is there.           *)
THEOREM BlocksFit == Spec => []BlockFits
<1>1. ASSUME BlockInv PROVE BlockFits
  <2> SUFFICES ASSUME ep6 = "fill"
               PROVE  /\ m <= 25 /\ m * n * 64 <= 4 * 4096
                      /\ refilled => (k + m * 2 * n - 1) \div 2 ^ rate < AUDIO
    BY DEF BlockFits
  <2>1. n \in 10 .. 63 /\ m \in 4 .. 25 /\ m * n <= 256
    BY <1>1 DEF BlockInv
  <2>2. m * n \in 1 .. 256 /\ m * 2 * n = 2 * (m * n) /\ m * n * 64 <= 4 * 4096
    BY <2>1, SMT
  <2>3. m * 2 * n \in 1 .. 512
    BY <2>2
  <2>4. ASSUME refilled PROVE (k + m * 2 * n - 1) \div 2 ^ rate < 512
    <3> DEFINE p == 2 ^ rate
               b == m * 2 * n
               x == k + b - 1
    <3>1. /\ p \in {1, 2, 4, 8} /\ rate_counter \in 1 .. p /\ k \in Nat
          /\ k <= 512 * (p - rate_counter) /\ b \in 1 .. 512
      BY <1>1, <2>3, <2>4, Powers DEF BlockInv
    <3> HIDE DEF p, b
    <3>2. x \in Nat /\ x < 512 * p
      BY ONLY <3>1
    <3> HIDE DEF x
    <3>3. x \div p < 512
      BY ONLY <3>1, <3>2, Place
    <3> QED
      BY <3>3 DEF p, b, x
  <2> QED
    BY <2>1, <2>2, <2>4 DEF AUDIO
<1> QED
  BY <1>1, BlockInit, BlockStep, PTL DEF Spec

-----------------------------------------------------------------------------
(* The flag main() waits for says that there is no thread, also between    *)
(* the moment it is set for a new one and the moment that one exists.      *)
ThreadInv ==
  /\ active_thread = 0 => ep6 = "none"
  /\ pc = "create" => ep6 = "none" /\ enable_thread = 1 /\ active_thread = 1

LEMMA ThreadInit == Init => ThreadInv
  BY DEF Init, ThreadInv

LEMMA ThreadStep == ThreadInv /\ [Next]_vars => ThreadInv'
<1> SUFFICES ASSUME ThreadInv, [Next]_vars PROVE ThreadInv'
  OBVIOUS
<1> USE DEF ThreadInv
<1>1. CASE \/ \E number \in Receivers, code \in RateCodes, sync \in {0, 1} :
                Control(number, code, sync)
           \/ \E freq \in Freqs : FirstReceiver(freq) \/ SecondReceiver(freq)
           \/ \E c \in Clients, command \in {"start", "stop"} : Command(c, command)
  BY <1>1 DEF Control, FirstReceiver, SecondReceiver, Command, mainVars, flagVars, ep6Vars
<1>2. CASE Stopped \/ Start \/ Create \/ RxBlock
  BY <1>2 DEF Stopped, Start, Create, RxBlock, mainVars, flagVars, ep6Vars
<1>3. CASE BeginEp6 \/ TestEp6 \/ WaitEp6 \/ FillEp6 \/ SendEp6 \/ EndEp6
  BY <1>3 DEF BeginEp6, TestEp6, WaitEp6, FillEp6, SendEp6, EndEp6, mainVars, flagVars
<1>4. CASE UNCHANGED vars
  BY <1>4 DEF vars, mainVars, flagVars, ep6Vars
<1> QED
  BY <1>1, <1>2, <1>3, <1>4 DEF Next, handler_ep6

LEMMA WorkerStep ==
  ASSUME ThreadInv, [Next]_vars PROVE [Worker!Next]_(Worker!workerVars)
<1> USE DEF Worker!Next, Worker!workerVars, Worker!Prepare, Worker!Stop, Worker!End, ThreadInv
<1>1. CASE UNCHANGED <<flagVars, ep6>>
  BY <1>1 DEF flagVars
<1>2. CASE \/ \E number \in Receivers, code \in RateCodes, sync \in {0, 1} :
                Control(number, code, sync)
           \/ \E freq \in Freqs : FirstReceiver(freq) \/ SecondReceiver(freq)
           \/ Stopped \/ RxBlock
  BY <1>1, <1>2 DEF Control, FirstReceiver, SecondReceiver, Stopped, RxBlock, ep6Vars
<1>3. CASE \E c \in Clients, command \in {"start", "stop"} : Command(c, command)
  BY <1>3 DEF Command, ep6Vars
<1>4. CASE Start
  BY <1>4 DEF Start, ep6Vars
<1>5. CASE Create
  BY <1>5 DEF Create, flagVars
<1>6. CASE BeginEp6 \/ TestEp6 \/ WaitEp6 \/ FillEp6 \/ SendEp6
  BY <1>6 DEF BeginEp6, TestEp6, WaitEp6, FillEp6, SendEp6, flagVars
<1>7. CASE EndEp6
  BY <1>7 DEF EndEp6
<1>8. CASE UNCHANGED vars
  BY <1>1, <1>8 DEF vars, ep6Vars
<1> QED
  BY <1>2, <1>3, <1>4, <1>5, <1>6, <1>7, <1>8 DEF Next, handler_ep6

(* main() never has two threads, and the address a thread sends to stays   *)
(* as it is from its first step to its last: the session implements what   *)
(* JoinedWorker allows.                                                    *)
THEOREM OneThread == Spec => Worker!Init /\ [][Worker!Next]_(Worker!workerVars)
<1>1. Init => Worker!Init
  BY DEF Init, Worker!Init
<1>2. Spec => []ThreadInv
  BY ThreadInit, ThreadStep, PTL DEF Spec
<1>3. ThreadInv /\ [Next]_vars => [Worker!Next]_(Worker!workerVars)
  BY WorkerStep
<1> QED
  BY <1>1, <1>2, <1>3, PTL DEF Spec
=============================================================================
