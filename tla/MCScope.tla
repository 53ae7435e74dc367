--------------------------------- MODULE MCScope ---------------------------------
(* An instance of ScopeHistory.  Window gives the pre and post samples the *)
(* host asks for; enable and arm are free.                                 *)
EXTENDS ScopeHistory

CONSTANT Windows

MCSamples == 0 .. TAGS - 1

MCConfigs ==
  {[enable |-> e, arm |-> a, pre_samples |-> w[1], post_samples |-> w[2]] :
     e \in BOOLEAN, a \in BOOLEAN, w \in Windows}

(* Windows that leave room for the sample written on the last edge before  *)
(* the transfer, one of them without a post-trigger part.                  *)
LargeWindows == {<<2, 0>>, <<2, 4>>, <<4, 3>>}
=============================================================================
