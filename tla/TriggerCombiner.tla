----------------------------- MODULE TriggerCombiner -----------------------------
(***************************************************************************)
(* rtl/trigger_combiner.sv: combines the pulses of the channels into the   *)
(* trigger of the scope, through one register.  A vector with one bit per  *)
(* channel is the set of the channels whose bit is 1.                      *)
(***************************************************************************)
EXTENDS Integers

CONSTANT NUM_CHANNELS   \* 2 in the code

VARIABLES trigger_out, trigger_source

combinerVars == <<trigger_out, trigger_source>>

Channels == 0 .. NUM_CHANNELS - 1

(* A mode has three bits: RESERVED is either of the two values without a   *)
(* name, which the default branch combines like OR.                        *)
CombineModes == {"OR", "AND", "CH0", "CH1", "BLOCK", "BLOCK_R", "RESERVED"}

TypeOK == trigger_out \in BOOLEAN /\ trigger_source \subseteq Channels

masked_triggers(triggers_in, channel_mask) == triggers_in \cap channel_mask

(* With every channel masked out, AND is true of nothing and BLOCK false.  *)
(* The channel that blocks is looked at before the mask.                   *)
combined(triggers_in, combine_mode, channel_mask) ==
  LET masked == masked_triggers(triggers_in, channel_mask)
  IN  \/ combine_mode \in {"OR", "RESERVED"} /\ masked # {}
      \/ combine_mode = "AND" /\ channel_mask \subseteq triggers_in
      \/ combine_mode \in {"CH0", "BLOCK"} /\ 0 \in masked
           /\ (combine_mode = "BLOCK" => 1 \notin triggers_in)
      \/ combine_mode \in {"CH1", "BLOCK_R"} /\ 1 \in masked
           /\ (combine_mode = "BLOCK_R" => 0 \notin triggers_in)

Clock(triggers_in, combine_mode, channel_mask) ==
  /\ trigger_out' = combined(triggers_in, combine_mode, channel_mask)
  /\ trigger_source' = masked_triggers(triggers_in, channel_mask)

Init == trigger_out = FALSE /\ trigger_source = {}

Reset == trigger_out' = FALSE /\ trigger_source' = {}
=============================================================================
