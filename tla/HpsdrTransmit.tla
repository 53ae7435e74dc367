------------------------------ MODULE HpsdrTransmit ------------------------------
(***************************************************************************)
(* The loop of main() in                                                   *)
(* projects/sdr_transceiver_hpsdr/server/sdr-transceiver-hpsdr.c as far as *)
(* it moves the host's samples to the transmitter and switches the relays, *)
(* next to a keyer that takes the transmitter away at any time.  Of the    *)
(* keyer it knows what KeyedCarrier promises.                              *)
(***************************************************************************)
EXTENDS Integers

CONSTANTS
  BLOCK,            \* words of samples in a datagram
  PREFILL,          \* zeros that start an empty FIFO
  DEPTH,            \* words the FIFO holds
  BATCH,            \* datagrams recvmmsg returns at most
  MAX_QUIET         \* bound of the keyer's pause

ASSUME TransmitAssumption ==
  /\ BLOCK \in Nat \ {0} /\ PREFILL \in Nat \ {0} /\ BATCH \in Nat \ {0}
  /\ DEPTH \in Nat /\ DEPTH > PREFILL + BLOCK

LIMIT == DEPTH - BLOCK

VARIABLES
  tx_rst, cw_ptt, tx_mux_data, quiet, hang, cleared,     \* see KeyedCarrier
  main_pc, batch,   \* place of main(), and datagrams it still has to look at
  frame,            \* push-to-talk in its last control frame, or NoFrame
  left,             \* words still to be written of a datagram
  tx_cntr,
  gpio_out,         \* the push-to-talk pin
  alex_data_0,      \* push-to-talk for the relays, and
  relay             \* as they have it

keyerVars == <<tx_rst, cw_ptt, tx_mux_data, quiet, hang, cleared>>
relayVars == <<gpio_out, alex_data_0, relay>>
loopVars == <<main_pc, batch, frame, left>>
transmitVars == <<keyerVars, tx_cntr, relayVars, loopVars>>

NoFrame == -1

Keyer == INSTANCE KeyedCarrier WITH Hangs <- 1 .. MAX_QUIET

TransmitInit ==
  /\ Keyer!Init
  /\ main_pc = "recv" /\ batch = 0 /\ frame = NoFrame /\ left = 0
  /\ tx_cntr = 0
  /\ gpio_out = 0 /\ alex_data_0 = 0 /\ relay = 0

-----------------------------------------------------------------------------
(* Samples leave the FIFO unless the multiplexer has turned away from it.  *)
Drain ==
  /\ tx_cntr > 0 /\ "mux" \notin tx_rst
  /\ tx_cntr' = tx_cntr - 1
  /\ UNCHANGED <<keyerVars, relayVars, loopVars>>

(* Held in reset, the FIFO is empty. *)
keyer ==
  /\ Keyer!Next /\ quiet' <= MAX_QUIET
  /\ tx_cntr' = IF "fifo" \in tx_rst' THEN tx_cntr ELSE 0
  /\ UNCHANGED <<relayVars, loopVars>>

-----------------------------------------------------------------------------
(* The batch is empty when the wait for it runs out. *)
recvmmsg(size) ==
  /\ main_pc = "recv" /\ batch' = size /\ main_pc' = "datagram"
  /\ UNCHANGED <<keyerVars, tx_cntr, relayVars, frame, left>>

(* The keyer may take over between this test and the writes.               *)
Datagram(f) ==
  /\ main_pc = "datagram" /\ batch > 0
  /\ batch' = batch - 1 /\ frame' = f
  /\ main_pc' = IF tx_mux_data = 0 THEN "room" ELSE "frames"
  /\ UNCHANGED <<keyerVars, tx_cntr, relayVars, left>>

(* Discovery, start and stop have nothing to do with the transmitter.      *)
OtherDatagram ==
  /\ main_pc = "datagram" /\ batch > 0 /\ batch' = batch - 1
  /\ UNCHANGED <<keyerVars, tx_cntr, relayVars, main_pc, frame, left>>

(* Bug: any room will do. *)
RoomForOne ==
  /\ main_pc = "room" /\ tx_cntr < DEPTH /\ main_pc' = "fill"
  /\ UNCHANGED <<keyerVars, tx_cntr, relayVars, batch, frame, left>>

Room ==
  /\ main_pc = "room" /\ tx_cntr <= LIMIT /\ main_pc' = "fill"
  /\ UNCHANGED <<keyerVars, tx_cntr, relayVars, batch, frame, left>>

Fill ==
  /\ main_pc = "fill" /\ main_pc' = "write"
  /\ left' = (IF tx_cntr = 0 THEN PREFILL ELSE 0) + BLOCK
  /\ UNCHANGED <<keyerVars, tx_cntr, relayVars, batch, frame>>

(* A word is lost while the FIFO is held in reset.                         *)
WriteWord ==
  /\ main_pc = "write" /\ left > 0 /\ left' = left - 1
  /\ tx_cntr' = IF "fifo" \in tx_rst THEN tx_cntr + 1 ELSE 0
  /\ UNCHANGED <<keyerVars, relayVars, main_pc, batch, frame>>

Written ==
  /\ main_pc = "write" /\ left = 0 /\ main_pc' = "frames"
  /\ UNCHANGED <<keyerVars, tx_cntr, relayVars, batch, frame, left>>

(* Bug: what the keyer has added to the host's push-to-talk is kept. *)
process_ep2_keeps ==
  /\ main_pc = "frames" /\ main_pc' = "datagram" /\ frame' = NoFrame
  /\ gpio_out' = IF frame = NoFrame THEN gpio_out ELSE frame
  /\ alex_data_0' = IF frame = 1 THEN 1 ELSE alex_data_0
  /\ UNCHANGED <<keyerVars, tx_cntr, relay, batch, left>>

(* process_ep2 for both frames of the datagram, cases 0 and 1; the other   *)
(* cases leave pin and relays alone.                                       *)
process_ep2 ==
  /\ main_pc = "frames" /\ main_pc' = "datagram" /\ frame' = NoFrame
  /\ IF frame = NoFrame THEN UNCHANGED <<gpio_out, alex_data_0>>
     ELSE gpio_out' = frame /\ alex_data_0' = frame
  /\ UNCHANGED <<keyerVars, tx_cntr, relay, batch, left>>

(* The keyer's push-to-talk stays in alex_data_0 until the host's next     *)
(* control frame.                                                          *)
Relays ==
  /\ main_pc = "datagram" /\ batch = 0 /\ main_pc' = "recv"
  /\ alex_data_0' = IF cw_ptt = 1 THEN 1 ELSE alex_data_0
  /\ relay' = alex_data_0'
  /\ UNCHANGED <<keyerVars, tx_cntr, gpio_out, batch, frame, left>>

main ==
  \/ \E n \in 0 .. BATCH : recvmmsg(n)
  \/ \E f \in {NoFrame, 0, 1} : Datagram(f)
  \/ OtherDatagram \/ Room \/ Fill \/ WriteWord \/ Written \/ process_ep2 \/ Relays

TransmitNext == Drain \/ keyer \/ main

TransmitSpec ==
  /\ TransmitInit /\ [][TransmitNext]_transmitVars
  /\ WF_transmitVars(Drain) /\ WF_transmitVars(main)

-----------------------------------------------------------------------------
(* The test for room holds until the last word is written: no sample of    *)
(* the host is ever lost in a full FIFO.                                   *)
FifoNeverOverflows == tx_cntr <= DEPTH

(* When the multiplexer turns back to the FIFO, what the keyer found there *)
(* is gone, and main() has not filled it up again meanwhile: one datagram  *)
(* and the zeros before it are all it can hold, the one that had passed    *)
(* the test of tx_mux_data before the keyer set that.                      *)
HandsBackLittle ==
  [][ "mux" \in tx_rst /\ "mux" \notin tx_rst' => tx_cntr' <= PREFILL + BLOCK ]_transmitVars

(* A datagram that waits for room while the keyer holds the FIFO is not    *)
(* kept waiting for good, as long as the keyer comes to an end every time. *)
MainGoesOn == []<>("mux" \notin tx_rst) => (main_pc = "room" ~> main_pc = "recv")

(* When nobody wants to transmit any more, the relays fall back with one   *)
(* of the host's next control frames.                                      *)
RelaysRelease ==
  <>[](cw_ptt = 0 /\ gpio_out = 0) /\ []<>(main_pc = "frames" /\ frame = 0)
    => <>[](relay = 0)
=============================================================================
