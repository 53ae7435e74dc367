-------------------------------- MODULE MCChain --------------------------------
(* An instance of AcquisitionChain with a window of two full words and one *)
(* sample, in which either channel triggers, or channel 1 blocks.          *)
EXTENDS AcquisitionChain

MCWindows == {[pre |-> 1, post |-> 4]}

MCSetups ==
  {[mode |-> m, mask |-> {0, 1}] : m \in {"OR", "BLOCK"}}
=============================================================================
