------------------------------ MODULE HpsdrSession ------------------------------
(***************************************************************************)
(* projects/sdr_transceiver_hpsdr/server/sdr-transceiver-hpsdr.c: main()   *)
(* starts and stops the thread handler_ep6, which sends what the receivers *)
(* hear, and takes control frames, which change the number of receivers,   *)
(* their rate and their frequencies while that thread runs.                *)
(***************************************************************************)
EXTENDS Integers

CONSTANTS
  Clients,          \* addresses that send commands
  Receivers,        \* numbers of receivers a host asks for, of 1 .. 8
  RateCodes,        \* codes of sample rates, of 0 .. 3
  Freqs,            \* frequencies a host asks for: freq_min is 0
  DEFAULT_FREQ,
  RX_FULL,          \* blocks of samples that make the thread empty the FIFO
  CREATE_FAILS      \* whether pthread_create may return an error

ASSUME SessionAssumption ==
  /\ Receivers \subseteq 1 .. 8 /\ RateCodes \subseteq 0 .. 3
  /\ RX_FULL \in Nat \ {0} /\ CREATE_FAILS \in BOOLEAN

AUDIO == 512        \* samples of the microphone that are kept

VARIABLES
  pc, from,                     \* place of main(), and who sent what it is at
  enable_thread, active_thread,
  addr_ep6,                     \* where the thread sends to
  receivers, rate,
  rx_sync_data, rx_freq, freq_data,
  tuned,                        \* history: freq_data has been changed
  aligned,                      \* history: the two oscillators run in phase
  ep6,                          \* place of the thread
  m, n,                         \* datagrams, and samples in half of one
  rate_counter, k,              \* blocks until the microphone is read, place in what was read
  rx_cntr,                      \* blocks of samples in the FIFO
  refilled                      \* history: the rate is that of the last look at the microphone

mainVars == <<pc, from>>
flagVars == <<enable_thread, active_thread, addr_ep6>>
rateVars == <<receivers, rate, refilled>>
freqVars == <<rx_sync_data, rx_freq, freq_data, tuned, aligned>>
blockVars == <<m, n, rate_counter, k>>
ep6Vars == <<ep6, blockVars>>
vars == <<mainVars, flagVars, rateVars, freqVars, ep6Vars, rx_cntr>>

Init ==
  /\ pc = "recv" /\ from \in Clients
  /\ enable_thread = 0 /\ active_thread = 0 /\ addr_ep6 \in Clients
  /\ receivers = 1 /\ rate = 0 /\ refilled = TRUE
  /\ rx_sync_data = 0 /\ rx_freq = <<DEFAULT_FREQ, DEFAULT_FREQ>> /\ freq_data = 0
  /\ tuned = FALSE /\ aligned = FALSE
  /\ ep6 = "none" /\ m = 0 /\ n = 0 /\ rate_counter = 0 /\ k = 0
  /\ rx_cntr = 0

-----------------------------------------------------------------------------
ResetLos == aligned' = TRUE

(* process_ep2, cases 0 and 1. *)
Control(number, code, sync) ==
  /\ pc = "recv"
  /\ receivers' = number /\ rate' = code
  /\ refilled' = (refilled /\ code = rate)
  /\ rx_sync_data' = sync
  /\ IF sync = 1 /\ rx_sync_data = 0
     THEN rx_freq' = <<rx_freq[1], rx_freq[1]>> /\ ResetLos
     ELSE UNCHANGED <<rx_freq, aligned>>
  /\ UNCHANGED <<mainVars, flagVars, freq_data, tuned, ep6Vars, rx_cntr>>

(* Cases 4 and 5.  A frequency that is set anew changes the phase.         *)
FirstReceiver(freq) ==
  /\ pc = "recv" /\ freq_data' = freq /\ tuned' = (tuned \/ freq # freq_data)
  /\ rx_freq' = <<freq, IF rx_sync_data = 1 THEN freq ELSE rx_freq[2]>>
  /\ IF rx_sync_data = 1 /\ freq # freq_data THEN ResetLos
     ELSE aligned' = (aligned /\ rx_freq' = rx_freq)
  /\ UNCHANGED <<mainVars, flagVars, rateVars, rx_sync_data, ep6Vars, rx_cntr>>

(* Bug: the second receiver is tuned alone, synchronous or not. *)
SecondAlways(freq) ==
  /\ pc = "recv"
  /\ rx_freq' = <<rx_freq[1], freq>> /\ aligned' = (aligned /\ rx_freq' = rx_freq)
  /\ UNCHANGED <<mainVars, flagVars, rateVars, rx_sync_data, freq_data, tuned, ep6Vars, rx_cntr>>

(* Cases 6 and 7. *)
SecondReceiver(freq) ==
  /\ pc = "recv" /\ rx_sync_data = 0
  /\ rx_freq' = <<rx_freq[1], freq>> /\ aligned' = (aligned /\ rx_freq' = rx_freq)
  /\ UNCHANGED <<mainVars, flagVars, rateVars, rx_sync_data, freq_data, tuned, ep6Vars, rx_cntr>>

-----------------------------------------------------------------------------
(* Start and stop both wait until the thread is gone.                      *)
Command(c, command) ==
  /\ pc = "recv" /\ pc' = command /\ from' = c /\ enable_thread' = 0
  /\ UNCHANGED <<active_thread, addr_ep6, rateVars, freqVars, ep6Vars, rx_cntr>>

Stopped ==
  /\ pc = "stop" /\ active_thread = 0 /\ pc' = "recv"
  /\ UNCHANGED <<from, flagVars, rateVars, freqVars, ep6Vars, rx_cntr>>

(* Bug: a start does not wait. *)
StartAtOnce ==
  /\ pc = "start" /\ pc' = "create"
  /\ addr_ep6' = from /\ enable_thread' = 1 /\ active_thread' = 1
  /\ rx_sync_data' = 0 /\ ResetLos
  /\ UNCHANGED <<from, rateVars, rx_freq, freq_data, tuned, ep6Vars, rx_cntr>>

Start ==
  /\ pc = "start" /\ active_thread = 0 /\ pc' = "create"
  /\ addr_ep6' = from /\ enable_thread' = 1 /\ active_thread' = 1
  /\ rx_sync_data' = 0 /\ ResetLos
  /\ UNCHANGED <<from, rateVars, rx_freq, freq_data, tuned, ep6Vars, rx_cntr>>

(* A thread that could not be created is taken for one that runs: the      *)
(* error is a positive number, and the test is for a negative one.         *)
Create ==
  /\ pc = "create" /\ pc' = "recv"
  /\ \/ ep6' = "begin"
     \/ CREATE_FAILS /\ UNCHANGED ep6
  /\ UNCHANGED <<from, flagVars, rateVars, freqVars, blockVars, rx_cntr>>

-----------------------------------------------------------------------------
(* handler_ep6. *)
RxBlock ==
  /\ rx_cntr < RX_FULL /\ rx_cntr' = rx_cntr + 1
  /\ UNCHANGED <<mainVars, flagVars, rateVars, freqVars, ep6Vars>>

BeginEp6 ==
  /\ ep6 = "begin" /\ ep6' = "test"
  /\ rate_counter' = 2 ^ rate /\ k' = 0 /\ refilled' = TRUE
  /\ rx_cntr' = 0
  /\ UNCHANGED <<mainVars, flagVars, receivers, rate, freqVars, m, n>>

(* The number of receivers is read once for all the datagrams of a block.  *)
TestEp6 ==
  LET half == 504 \div (receivers * 6 + 2) IN
  /\ ep6 = "test" /\ enable_thread = 1 /\ ep6' = "wait"
  /\ n' = half /\ m' = 256 \div half
  /\ rx_cntr' = IF rx_cntr = RX_FULL THEN 0 ELSE rx_cntr
  /\ UNCHANGED <<mainVars, flagVars, rateVars, freqVars, rate_counter, k>>

(* Bug: one block more than the rate asks for. *)
MicrophoneLate ==
  IF rate_counter = 0
  THEN rate_counter' = 2 ^ rate /\ k' = 0 /\ refilled' = TRUE
  ELSE rate_counter' = rate_counter - 1 /\ UNCHANGED <<k, refilled>>

(* The microphone is read once in so many blocks.                          *)
Microphone ==
  IF rate_counter = 1
  THEN rate_counter' = 2 ^ rate /\ k' = 0 /\ refilled' = TRUE
  ELSE rate_counter' = rate_counter - 1 /\ UNCHANGED <<k, refilled>>

WaitEp6 ==
  /\ ep6 = "wait" /\ rx_cntr > 0 /\ rx_cntr' = rx_cntr - 1 /\ ep6' = "fill"
  /\ Microphone
  /\ UNCHANGED <<mainVars, flagVars, receivers, rate, freqVars, m, n>>

FillEp6 ==
  /\ ep6 = "fill" /\ ep6' = "send" /\ k' = k + m * 2 * n
  /\ UNCHANGED <<mainVars, flagVars, rateVars, freqVars, m, n, rate_counter, rx_cntr>>

SendEp6 ==
  /\ ep6 = "send" /\ ep6' = "test"
  /\ UNCHANGED <<mainVars, flagVars, rateVars, freqVars, blockVars, rx_cntr>>

EndEp6 ==
  /\ ep6 = "test" /\ enable_thread = 0 /\ ep6' = "none" /\ active_thread' = 0
  /\ UNCHANGED <<mainVars, enable_thread, addr_ep6, rateVars, freqVars, blockVars, rx_cntr>>

handler_ep6 == BeginEp6 \/ TestEp6 \/ WaitEp6 \/ FillEp6 \/ SendEp6 \/ EndEp6

Next ==
  \/ \E number \in Receivers, code \in RateCodes, sync \in {0, 1} : Control(number, code, sync)
  \/ \E freq \in Freqs : FirstReceiver(freq) \/ SecondReceiver(freq)
  \/ \E c \in Clients, command \in {"start", "stop"} : Command(c, command)
  \/ Stopped \/ Start \/ Create \/ RxBlock \/ handler_ep6

Spec ==
  /\ Init /\ [][Next]_vars
  /\ WF_vars(RxBlock) /\ WF_vars(handler_ep6) /\ WF_vars(Create)

-----------------------------------------------------------------------------
(* There is one thread at most, the address it sends to stays as it is     *)
(* while it runs, and a stop or another start gets rid of it, whatever it  *)
(* waits for.                                                              *)
Worker == INSTANCE JoinedWorker WITH
  phase <- IF ep6 = "none" THEN "idle"
           ELSE IF enable_thread = 1 THEN "running" ELSE "stopping",
  settings <- addr_ep6

ImplementsWorker == Worker!Spec

(* The block fits into the thread's buffers for every number of receivers, *)
(* and so do the places in the microphone's samples, also when that number *)
(* changes between two looks at it.  (Not when the rate is lowered there.) *)
BlockFits ==
  ep6 = "fill" =>
    /\ m <= 25 /\ m * n * 64 <= 4 * 4096
    /\ refilled => (k + m * 2 * n - 1) \div 2 ^ rate < AUDIO

(* Synchronous receivers have one frequency and are in phase, whatever the *)
(* host has set before it synchronised them, and whatever it sets since.   *)
(* (But for the frequency 0 before any other was set: freq_data is 0 then, *)
(* and the oscillators are changed and not reset.)                         *)
InPhase ==
  rx_sync_data = 1 =>
    /\ rx_freq[1] = rx_freq[2]
    /\ aligned \/ (~tuned /\ rx_freq[1] = 0)
=============================================================================
