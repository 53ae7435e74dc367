-------------------------------- MODULE MCKeyer --------------------------------
EXTENDS HpsdrKeyer

(* A straight key, the two iambic modes, and the keyer switched off.       *)
MCSettings ==
  { [int |-> TRUE, reversed |-> FALSE, mode |-> 0, spacing |-> FALSE, sidetone |-> TRUE,
     hang |-> 0, delay |-> 1],
    [int |-> TRUE, reversed |-> TRUE, mode |-> 1, spacing |-> FALSE, sidetone |-> FALSE,
     hang |-> 1, delay |-> 0],
    [int |-> TRUE, reversed |-> FALSE, mode |-> 2, spacing |-> TRUE, sidetone |-> FALSE,
     hang |-> 2, delay |-> 1],
    [int |-> FALSE, reversed |-> FALSE, mode |-> 2, spacing |-> FALSE, sidetone |-> FALSE,
     hang |-> 1, delay |-> 2] }
=============================================================================
