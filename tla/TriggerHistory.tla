----------------------------- MODULE TriggerHistory -----------------------------
(***************************************************************************)
(* AxisTrigger under a free environment, with history variables that say   *)
(* what happened to the pair of samples now under the comparator and to    *)
(* the sample now on the output port.  The correctness of the detector is  *)
(* stated over them.                                                       *)
(***************************************************************************)
EXTENDS AxisTrigger

VARIABLES
  own,       \* the newest compared sample was accepted under this config_i
  reported,  \* this pair has raised a pulse under this config_i
  taken      \* how often the sample on m_axis was handed over, up to 2

history == <<own, reported, taken>>
vars == <<triggerVars, history>>

shifts(tvalid, tready) == tvalid /\ s_axis_tready(tready)

hands_over(tready) == m_axis_tvalid /\ tready

Edge(tvalid, tdata, tready) ==
  /\ Clock(tvalid, tdata, tready)
  /\ UNCHANGED config_i
  /\ own' = (own \/ shifts(tvalid, tready))
  /\ reported' = (~shifts(tvalid, tready) /\ (reported \/ trigger_out'))
  /\ taken' = IF shifts(tvalid, tready) THEN 0
              ELSE IF hands_over(tready) /\ taken < 2 THEN taken + 1 ELSE taken

HostWrite(c) ==
  /\ Configure(c)
  /\ own' = FALSE /\ reported' = FALSE
  /\ UNCHANGED taken

HistoryInit ==
  /\ Init
  /\ own = FALSE /\ reported = FALSE /\ taken = 0

AssertReset ==
  /\ Reset
  /\ own' = FALSE /\ reported' = FALSE /\ taken' = 0

Next ==
  \/ \E tvalid, tready \in BOOLEAN, tdata \in Samples : Edge(tvalid, tdata, tready)
  \/ \E c \in Configs : HostWrite(c)
  \/ AssertReset

Spec == HistoryInit /\ [][Next]_vars

-----------------------------------------------------------------------------
(* Types of the registers, the configuration and the history.              *)
TypeInvariant ==
  /\ TypeOK
  /\ own \in BOOLEAN /\ reported \in BOOLEAN
  /\ taken \in 0 .. 2

(* What the pulse logic maintains: once a pair has been reported it still  *)
(* holds the event and the detector is disarmed, however long the pipeline *)
(* stands still.                                                           *)
ReportedIsDisarmed == reported => ~trigger_armed /\ threshold_event

(* A pair of samples that stays in the pipeline, because the downstream    *)
(* module stalls or the source is idle, triggers once and not on every     *)
(* edge: the "retriggering" that trigger_armed is there to prevent.        *)
NoRetrigger ==
  [][\A tvalid, tready \in BOOLEAN, tdata \in Samples :
        Edge(tvalid, tdata, tready) /\ trigger_out' => ~reported]_vars

CrossingLeaves(tvalid, tdata, tready) ==
  /\ Edge(tvalid, tdata, tready)
  /\ shifts(tvalid, tready)
  /\ own /\ config_i.enable
  /\ valid_pipe[PIPE_STAGES - 2]
  /\ threshold_event

(* In the modes RISING and FALLING no crossing is lost: a crossing whose   *)
(* sample was accepted under the present configuration has raised its      *)
(* pulse by the edge that shifts it out, whatever the detector was doing   *)
(* when it came.                                                           *)
EveryEdgeReported ==
  [][\A tvalid, tready \in BOOLEAN, tdata \in Samples :
        /\ CrossingLeaves(tvalid, tdata, tready)
        /\ config_i.mode \in {"RISING", "FALLING"}
        => reported \/ trigger_out']_vars

(* m_axis is documented as the input passed through with a delay: each     *)
(* accepted sample is handed to the next module once.  valid_pipe never    *)
(* falls, so an idle source makes the last sample repeat.                  *)
EachSampleOnce == taken <= 1
=============================================================================
