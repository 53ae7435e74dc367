------------------------------ MODULE KeyedCarrier ------------------------------
(***************************************************************************)
(* What the keyer of sdr-transceiver-hpsdr.c promises the rest of the      *)
(* program about the transmitter, whatever the operator does with the      *)
(* paddles: the carrier is there only between a complete change to         *)
(* transmission and a complete change back, and the change back comes      *)
(* after a pause and with an empty FIFO.                                   *)
(***************************************************************************)
EXTENDS Naturals

CONSTANT Hangs          \* lengths of the pause, in milliseconds

VARIABLES
  tx_rst,               \* the bits that are set: see Bits
  cw_ptt, tx_mux_data,  \* what main() sees of the change
  quiet,                \* milliseconds since the carrier went off
  hang,                 \* the pause that was chosen then
  cleared               \* whether the FIFO has been emptied since

carrierVars == <<tx_rst, cw_ptt, tx_mux_data, quiet, hang, cleared>>

Bits == {"fifo", "rf", "sidetone", "mux", "ptt"}     \* bits 0, 2, 3, 4 and 5

Sending == {"fifo", "mux", "ptt"}

Init ==
  /\ tx_rst = {"fifo"} /\ cw_ptt = 0 /\ tx_mux_data = 0
  /\ quiet = 0 /\ hang = 0 /\ cleared = FALSE

Set(bit) == tx_rst' = tx_rst \union {bit}
Clear(bit) == tx_rst' = tx_rst \ {bit}

(* The change to transmission, in this order.                              *)
PttOn == Set("ptt") /\ UNCHANGED <<cw_ptt, tx_mux_data, quiet, hang, cleared>>

TellPttOn ==
  /\ "ptt" \in tx_rst /\ cw_ptt' = 1
  /\ UNCHANGED <<tx_rst, tx_mux_data, quiet, hang, cleared>>

MuxOn ==
  /\ cw_ptt = 1 /\ Set("mux")
  /\ cleared' = FALSE /\ UNCHANGED <<cw_ptt, tx_mux_data, quiet, hang>>

TellMuxOn ==
  /\ "mux" \in tx_rst /\ tx_mux_data' = 1
  /\ UNCHANGED <<tx_rst, cw_ptt, quiet, hang, cleared>>

SidetoneOn ==
  /\ tx_mux_data = 1 /\ Set("sidetone")
  /\ UNCHANGED <<cw_ptt, tx_mux_data, quiet, hang, cleared>>

RfOn ==
  /\ Sending \subseteq tx_rst /\ cw_ptt = 1 /\ tx_mux_data = 1 /\ Set("rf")
  /\ UNCHANGED <<cw_ptt, tx_mux_data, quiet, hang, cleared>>

SidetoneOff ==
  Clear("sidetone") /\ UNCHANGED <<cw_ptt, tx_mux_data, quiet, hang, cleared>>

RfOff ==
  /\ "rf" \in tx_rst /\ "sidetone" \notin tx_rst /\ Clear("rf")
  /\ quiet' = 0 /\ hang' \in Hangs
  /\ UNCHANGED <<cw_ptt, tx_mux_data, cleared>>

Pause ==
  /\ quiet' = quiet + 1 /\ UNCHANGED <<tx_rst, cw_ptt, tx_mux_data, hang, cleared>>

(* The change back, in this order.                                         *)
PttOff ==
  /\ Sending \subseteq tx_rst /\ "rf" \notin tx_rst /\ quiet >= hang /\ Clear("ptt")
  /\ UNCHANGED <<cw_ptt, tx_mux_data, quiet, hang, cleared>>

TellPttOff ==
  /\ "ptt" \notin tx_rst /\ cw_ptt' = 0
  /\ UNCHANGED <<tx_rst, tx_mux_data, quiet, hang, cleared>>

FifoReset ==
  /\ cw_ptt = 0 /\ "mux" \in tx_rst /\ tx_mux_data = 1 /\ ~cleared /\ Clear("fifo")
  /\ UNCHANGED <<cw_ptt, tx_mux_data, quiet, hang, cleared>>

FifoOn ==
  /\ "fifo" \notin tx_rst /\ Set("fifo") /\ cleared' = TRUE
  /\ UNCHANGED <<cw_ptt, tx_mux_data, quiet, hang>>

(* Bug: the FIFO is given back as it is. *)
MuxOffFull ==
  /\ cw_ptt = 0 /\ "mux" \in tx_rst /\ Clear("mux")
  /\ UNCHANGED <<cw_ptt, tx_mux_data, quiet, hang, cleared>>

MuxOff ==
  /\ cw_ptt = 0 /\ "mux" \in tx_rst /\ cleared /\ Clear("mux")
  /\ UNCHANGED <<cw_ptt, tx_mux_data, quiet, hang, cleared>>

TellMuxOff ==
  /\ "mux" \notin tx_rst /\ tx_mux_data' = 0
  /\ UNCHANGED <<tx_rst, cw_ptt, quiet, hang, cleared>>

Next ==
  \/ PttOn \/ TellPttOn \/ MuxOn \/ TellMuxOn \/ SidetoneOn \/ RfOn
  \/ SidetoneOff \/ RfOff \/ Pause
  \/ PttOff \/ TellPttOff \/ FifoReset \/ FifoOn \/ MuxOff \/ TellMuxOff

Spec == Init /\ [][Next]_carrierVars
=============================================================================
