------------------------------ MODULE AxisTrigger ------------------------------
(***************************************************************************)
(* rtl/axis_trigger.sv: the threshold detector in front of the scope.  An  *)
(* AXI-Stream register pipeline delays the samples by PIPE_STAGES accepted *)
(* samples and a comparator on its last two stages raises a one-cycle      *)
(* pulse trigger_out.                                                      *)
(*                                                                         *)
(* One step of Clock is one rising edge of aclk.  The values of the input  *)
(* wires in that cycle are the parameters of Clock, the registers of the   *)
(* always_ff blocks are the variables, and the assign and always_comb      *)
(* wires are operators.  TriggerHistory drives every input freely, and     *)
(* AcquisitionChain wires Clock to the modules that really drive them.     *)
(***************************************************************************)
EXTENDS Integers

CONSTANTS
  Samples,      \* the values s_axis_tdata can take
  Zero,         \* the sample whose bits are all 0, which reset loads
  Value(_),     \* the signed number a sample stands for
  Configs,      \* the trigger_config_t values the host writes
  PIPE_STAGES   \* 2 in the code

Modes == {"RISING", "FALLING", "BOTH", "LEVEL"}

ASSUME TriggerAssumption ==
  /\ Zero \in Samples
  /\ Value(Zero) = 0
  /\ \A s \in Samples : Value(s) \in Int
  /\ Configs \subseteq [enable : BOOLEAN, mode : Modes, threshold : Int]
  /\ PIPE_STAGES \in Nat \ {0, 1}

VARIABLES
  config_i,       \* the configuration port, written by the host
  sample_pipe,    \* the delay line, stage 0 is the newest
  valid_pipe,
  trigger_armed,
  trigger_out

registers == <<sample_pipe, valid_pipe, trigger_armed, trigger_out>>
triggerVars == <<config_i, registers>>

Stages == 0 .. PIPE_STAGES - 1

TypeOK ==
  /\ config_i \in Configs
  /\ sample_pipe \in [Stages -> Samples]
  /\ valid_pipe \in [Stages -> BOOLEAN]
  /\ trigger_armed \in BOOLEAN
  /\ trigger_out \in BOOLEAN

-----------------------------------------------------------------------------
(* The wires.                                                              *)

prev_sample == Value(sample_pipe[PIPE_STAGES - 1])
curr_sample == Value(sample_pipe[PIPE_STAGES - 2])

rising_edge ==
  prev_sample < config_i.threshold /\ curr_sample >= config_i.threshold

falling_edge ==
  prev_sample >= config_i.threshold /\ curr_sample < config_i.threshold

threshold_event ==
  \/ config_i.mode \in {"RISING", "BOTH"} /\ rising_edge
  \/ config_i.mode \in {"FALLING", "BOTH"} /\ falling_edge
  \/ config_i.mode = "LEVEL" /\ curr_sample >= config_i.threshold

m_axis_tdata == sample_pipe[PIPE_STAGES - 1]

m_axis_tvalid == valid_pipe[PIPE_STAGES - 1] /\ config_i.enable

s_axis_tready(m_axis_tready) == m_axis_tready \/ ~m_axis_tvalid

-----------------------------------------------------------------------------
(* The clocked processes.                                                  *)

(* Bug: one stage too many.                                                *)
LongPipeline(axis_handshake, s_axis_tdata) ==
  IF axis_handshake
  THEN /\ sample_pipe' = [i \in Stages \cup {PIPE_STAGES} |->
                            IF i = 0 THEN s_axis_tdata ELSE sample_pipe[i - 1]]
       /\ valid_pipe' = [i \in Stages |->
                            IF i = 0 THEN TRUE ELSE valid_pipe[i - 1]]
  ELSE UNCHANGED <<sample_pipe, valid_pipe>>

proc_sample_pipeline(axis_handshake, s_axis_tdata) ==
  IF axis_handshake
  THEN /\ sample_pipe' = [i \in Stages |->
                            IF i = 0 THEN s_axis_tdata ELSE sample_pipe[i - 1]]
       /\ valid_pipe' = [i \in Stages |->
                            IF i = 0 THEN TRUE ELSE valid_pipe[i - 1]]
  ELSE UNCHANGED <<sample_pipe, valid_pipe>>

(* The evaluation is not gated by the handshake: it runs on every edge,    *)
(* also while the pipeline stands still.                                   *)
Detecting == config_i.enable /\ valid_pipe[PIPE_STAGES - 2] /\ trigger_armed

(* Bug: the pulse does not disarm the detector.                            *)
AlwaysArmed ==
  /\ trigger_out' = (Detecting /\ threshold_event)
  /\ trigger_armed' = TRUE

(* Bug: the edge after the pulse re-arms, whatever the samples show.       *)
RearmsAtOnce ==
  /\ trigger_out' = (Detecting /\ threshold_event)
  /\ trigger_armed' = (config_i.enable /\ Detecting => ~threshold_event)

(* Bug: only a disable re-arms.                                            *)
RearmsOnDisable ==
  /\ trigger_out' = (Detecting /\ threshold_event)
  /\ trigger_armed' = IF ~config_i.enable THEN TRUE
                      ELSE trigger_armed /\ ~(Detecting /\ threshold_event)

proc_trigger_output ==
  /\ trigger_out' = (Detecting /\ threshold_event)
  /\ trigger_armed' =
       IF ~config_i.enable THEN TRUE
       ELSE IF Detecting THEN ~threshold_event
       ELSE trigger_armed \/ ~threshold_event

Clock(s_axis_tvalid, s_axis_tdata, m_axis_tready) ==
  /\ proc_sample_pipeline(s_axis_tvalid /\ s_axis_tready(m_axis_tready),
                          s_axis_tdata)
  /\ proc_trigger_output

EmptyPipe == [i \in Stages |-> Zero]

Init ==
  /\ config_i \in Configs
  /\ sample_pipe = EmptyPipe
  /\ valid_pipe = [i \in Stages |-> FALSE]
  /\ trigger_armed = FALSE
  /\ trigger_out = FALSE

(* The host rewrites the configuration registers between two edges.        *)
Configure(c) ==
  /\ config_i' = c
  /\ UNCHANGED registers

(* aresetn goes low: an asynchronous reset of all registers.               *)
Reset ==
  /\ sample_pipe' = EmptyPipe
  /\ valid_pipe' = [i \in Stages |-> FALSE]
  /\ trigger_armed' = FALSE
  /\ trigger_out' = FALSE
  /\ UNCHANGED config_i

=============================================================================
