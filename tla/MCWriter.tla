-------------------------------- MODULE MCWriter --------------------------------
(* An instance of WriterSession with one buffer in memory, which the host  *)
(* switches on and off at will.                                            *)
EXTENDS WriterSession

CONSTANTS BASE, SIZE

MCConfigs ==
  {[enable |-> e, base_addr |-> BASE, buffer_size |-> SIZE] : e \in BOOLEAN}
=============================================================================
