-------------------------------- MODULE MCTrigger --------------------------------
(* An instance of TriggerHistory with three sample values around two       *)
(* thresholds, every mode, and every order of enable, disable, reset,      *)
(* stall and idle cycle.                                                   *)
EXTENDS TriggerHistory

MCSamples == {-1, 0, 1}

MCValue(s) == s

MCConfigs == [enable : BOOLEAN, mode : Modes, threshold : {0, 1}]
=============================================================================
