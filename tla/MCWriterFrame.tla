-------------------------------- MODULE MCWriterFrame --------------------------------
(* An instance of WriterFrame with one buffer in memory.                   *)
EXTENDS WriterFrame

CONSTANTS BASE, SIZE

MCConfigs ==
  {[enable |-> e, base_addr |-> BASE, buffer_size |-> SIZE] : e \in BOOLEAN}
=============================================================================
