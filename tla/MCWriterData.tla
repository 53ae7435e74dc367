------------------------------ MODULE MCWriterData ------------------------------
(* An instance of WriterHistory with a buffer of one burst: where the data *)
(* goes is the subject of MCWriter.                                        *)
EXTENDS WriterHistory

MCSamples == 0 .. TAGS - 1

MCConfigs ==
  {[enable |-> e, base_addr |-> 0, buffer_size |-> 2] : e \in BOOLEAN}
=============================================================================
