------------------------------ MODULE TriggerProofs ------------------------------
(***************************************************************************)
(* Theorems about TriggerHistory for every set of samples, every           *)
(* threshold and every number of pipeline stages.                          *)
(***************************************************************************)
EXTENDS TriggerHistory, TLAPS

(* A report belongs to a configuration that enables the trigger.           *)
ReportedIsEnabled == reported => config_i.enable

(* A crossing under the comparator finds the detector armed, unless it was *)
(* reported: the pair before it, which ends where the crossing begins,     *)
(* held no event and re-armed the detector.                                *)
CrossingFindsArmed ==
  /\ own /\ config_i.enable
  /\ config_i.mode \in {"RISING", "FALLING"}
  /\ threshold_event
  /\ ~reported
  => trigger_armed

IInv ==
  /\ TypeInvariant
  /\ ReportedIsDisarmed
  /\ ReportedIsEnabled
  /\ CrossingFindsArmed

-----------------------------------------------------------------------------

LEMMA StagesFacts ==
  /\ 0 \in Stages
  /\ PIPE_STAGES - 1 \in Stages
  /\ PIPE_STAGES - 2 \in Stages
  /\ \A i \in Stages : i # 0 => i - 1 \in Stages
  /\ \A i \in Stages : i \in Int
BY TriggerAssumption DEF Stages

(* The two compared numbers are integers.                                  *)
LEMMA Compared ==
  ASSUME TypeInvariant
  PROVE  prev_sample \in Int /\ curr_sample \in Int /\ config_i.threshold \in Int
<1>1. config_i.threshold \in Int
  BY TriggerAssumption DEF TypeInvariant, TypeOK
<1>2. sample_pipe[PIPE_STAGES - 1] \in Samples /\ sample_pipe[PIPE_STAGES - 2] \in Samples
  BY StagesFacts DEF TypeInvariant, TypeOK
<1>3. QED
  BY <1>1, <1>2, TriggerAssumption DEF prev_sample, curr_sample

LEMMA EmptyPipeType ==
  /\ EmptyPipe \in [Stages -> Samples]
  /\ [i \in Stages |-> FALSE] \in [Stages -> BOOLEAN]
BY TriggerAssumption DEF EmptyPipe

LEMMA InitInvariant == HistoryInit => IInv
<1>1. HistoryInit => TypeInvariant
  <2> SUFFICES ASSUME HistoryInit
               PROVE  TypeInvariant
    OBVIOUS
  <2>1. config_i \in Configs /\ trigger_armed = FALSE /\ trigger_out = FALSE
    BY DEF HistoryInit, Init
  <2>2. sample_pipe \in [Stages -> Samples] /\ valid_pipe \in [Stages -> BOOLEAN]
    BY EmptyPipeType, Zenon DEF HistoryInit, Init
  <2>3. own = FALSE /\ reported = FALSE /\ taken \in 0 .. 2
    BY DEF HistoryInit
  <2>4. QED
    BY <2>1, <2>2, <2>3 DEF TypeInvariant, TypeOK
<1>2. HistoryInit => ReportedIsDisarmed /\ ReportedIsEnabled /\ CrossingFindsArmed
  BY DEF HistoryInit, ReportedIsDisarmed, ReportedIsEnabled, CrossingFindsArmed
<1>3. QED
  BY <1>1, <1>2 DEF IInv

-----------------------------------------------------------------------------
(* The edge of the clock.                                                  *)

LEMMA EdgeType ==
  ASSUME TypeInvariant,
         NEW tvalid \in BOOLEAN, NEW tready \in BOOLEAN, NEW tdata \in Samples,
         Edge(tvalid, tdata, tready)
  PROVE  TypeInvariant'
<1>1. sample_pipe' \in [Stages -> Samples] /\ valid_pipe' \in [Stages -> BOOLEAN]
  <2>1. CASE shifts(tvalid, tready)
    <3>1. /\ sample_pipe' = [i \in Stages |-> IF i = 0 THEN tdata ELSE sample_pipe[i - 1]]
          /\ valid_pipe' = [i \in Stages |-> IF i = 0 THEN TRUE ELSE valid_pipe[i - 1]]
      BY <2>1 DEF Edge, Clock, proc_sample_pipeline, shifts
    <3>2. \A i \in Stages : i # 0 => sample_pipe[i - 1] \in Samples /\ valid_pipe[i - 1] \in BOOLEAN
      BY StagesFacts DEF TypeInvariant, TypeOK
    <3>3. QED
      BY <3>1, <3>2
  <2>2. CASE ~shifts(tvalid, tready)
    BY <2>2 DEF Edge, Clock, proc_sample_pipeline, shifts, TypeInvariant, TypeOK
  <2>3. QED
    BY <2>1, <2>2
<1>2. trigger_out' \in BOOLEAN /\ trigger_armed' \in BOOLEAN
  BY Zenon DEF Edge, Clock, proc_trigger_output
<1>3. own' \in BOOLEAN /\ reported' \in BOOLEAN
  BY Zenon DEF Edge
<1>4. taken' \in 0 .. 2
  BY DEF Edge, TypeInvariant
<1>5. config_i' \in Configs
  BY DEF Edge, TypeInvariant, TypeOK
<1>6. QED
  BY <1>1, <1>2, <1>3, <1>4, <1>5 DEF TypeInvariant, TypeOK

(* A pipeline that stands still keeps the verdict of the comparator.       *)
LEMMA StillEvent ==
  ASSUME NEW tvalid \in BOOLEAN, NEW tready \in BOOLEAN, NEW tdata \in Samples,
         Edge(tvalid, tdata, tready), ~shifts(tvalid, tready)
  PROVE  threshold_event' <=> threshold_event
BY DEF Edge, Clock, proc_sample_pipeline, shifts, threshold_event,
       rising_edge, falling_edge, prev_sample, curr_sample

(* In one direction, the pair before a crossing is no crossing.            *)
LEMMA BeforeCrossing ==
  ASSUME TypeInvariant,
         NEW tvalid \in BOOLEAN, NEW tready \in BOOLEAN, NEW tdata \in Samples,
         Edge(tvalid, tdata, tready), shifts(tvalid, tready),
         config_i.mode \in {"RISING", "FALLING"},
         threshold_event'
  PROVE  ~threshold_event
<1>1. TypeInvariant'
  BY EdgeType
<1>2. /\ prev_sample \in Int /\ curr_sample \in Int /\ config_i.threshold \in Int
      /\ curr_sample' \in Int
  BY <1>1, Compared, StagesFacts, TriggerAssumption DEF TypeInvariant, TypeOK, curr_sample
<1>3. sample_pipe' = [i \in Stages |-> IF i = 0 THEN tdata ELSE sample_pipe[i - 1]]
  BY DEF Edge, Clock, proc_sample_pipeline, shifts
<1>4. sample_pipe'[PIPE_STAGES - 1] = sample_pipe[PIPE_STAGES - 2]
  BY <1>3, StagesFacts, TriggerAssumption DEF Stages
<1>5. prev_sample' = curr_sample
  BY <1>4 DEF prev_sample, curr_sample
<1>6. config_i' = config_i
  BY DEF Edge
<1>7. QED
  BY <1>2, <1>5, <1>6 DEF threshold_event, rising_edge, falling_edge

LEMMA EdgeInvariant ==
  ASSUME IInv,
         NEW tvalid \in BOOLEAN, NEW tready \in BOOLEAN, NEW tdata \in Samples,
         Edge(tvalid, tdata, tready)
  PROVE  IInv'
<1>1. TypeInvariant'
  BY EdgeType DEF IInv
<1>2. ReportedIsDisarmed' /\ ReportedIsEnabled'
  <2> SUFFICES ASSUME reported'
               PROVE  ~trigger_armed' /\ threshold_event' /\ config_i'.enable
    BY DEF ReportedIsDisarmed, ReportedIsEnabled
  <2>1. ~shifts(tvalid, tready) /\ (reported \/ trigger_out')
    BY DEF Edge
  <2>2. threshold_event' <=> threshold_event
    BY <2>1, StillEvent
  <2>3. config_i' = config_i
    BY DEF Edge
  <2>4. CASE reported
    BY <2>2, <2>3, <2>4
    DEF Edge, Clock, proc_trigger_output, Detecting, IInv, ReportedIsDisarmed, ReportedIsEnabled
  <2>5. CASE trigger_out'
    BY <2>2, <2>3, <2>5 DEF Edge, Clock, proc_trigger_output, Detecting
  <2>6. QED
    BY <2>1, <2>4, <2>5
<1>3. CrossingFindsArmed'
  <2> SUFFICES ASSUME own', config_i'.enable, config_i'.mode \in {"RISING", "FALLING"},
                      threshold_event', ~reported'
               PROVE  trigger_armed'
    BY DEF CrossingFindsArmed
  <2>1. config_i' = config_i
    BY DEF Edge
  <2>2. CASE shifts(tvalid, tready)
    <3>1. ~threshold_event
      BY <2>1, <2>2, BeforeCrossing DEF IInv
    <3>2. QED
      BY <2>1, <3>1 DEF Edge, Clock, proc_trigger_output
  <2>3. CASE ~shifts(tvalid, tready)
    <3>1. threshold_event
      BY <2>3, StillEvent
    <3>2. own /\ ~reported /\ ~trigger_out'
      BY <2>3 DEF Edge
    <3>3. trigger_armed
      BY <2>1, <3>1, <3>2 DEF IInv, CrossingFindsArmed
    <3>4. QED
      BY <2>1, <3>1, <3>2, <3>3 DEF Edge, Clock, proc_trigger_output
  <2>4. QED
    BY <2>2, <2>3
<1>4. QED
  BY <1>1, <1>2, <1>3 DEF IInv

-----------------------------------------------------------------------------

LEMMA NextInvariant == IInv /\ [Next]_vars => IInv'
<1> SUFFICES ASSUME IInv, [Next]_vars
             PROVE  IInv'
  OBVIOUS
<1>1. ASSUME NEW tvalid \in BOOLEAN, NEW tready \in BOOLEAN, NEW tdata \in Samples,
             Edge(tvalid, tdata, tready)
      PROVE  IInv'
  BY <1>1, EdgeInvariant
<1>2. ASSUME NEW c \in Configs, HostWrite(c)
      PROVE  IInv'
  BY <1>2 DEF HostWrite, Configure, registers, IInv, TypeInvariant, TypeOK,
              ReportedIsDisarmed, ReportedIsEnabled, CrossingFindsArmed
<1>3. CASE AssertReset
  <2>1. TypeInvariant'
    <3>1. config_i' \in Configs /\ trigger_armed' = FALSE /\ trigger_out' = FALSE
      BY <1>3 DEF AssertReset, Reset, IInv, TypeInvariant, TypeOK
    <3>2. sample_pipe' \in [Stages -> Samples] /\ valid_pipe' \in [Stages -> BOOLEAN]
      BY <1>3, EmptyPipeType, Zenon DEF AssertReset, Reset
    <3>3. own' = FALSE /\ reported' = FALSE /\ taken' \in 0 .. 2
      BY <1>3 DEF AssertReset
    <3>4. QED
      BY <3>1, <3>2, <3>3 DEF TypeInvariant, TypeOK
  <2>2. QED
    BY <1>3, <2>1 DEF AssertReset, IInv, ReportedIsDisarmed, ReportedIsEnabled, CrossingFindsArmed
<1>4. CASE UNCHANGED vars
  BY <1>4 DEF vars, triggerVars, registers, history, IInv, TypeInvariant, TypeOK,
              ReportedIsDisarmed, ReportedIsEnabled, CrossingFindsArmed, threshold_event,
              rising_edge, falling_edge, prev_sample, curr_sample
<1>5. QED
  BY <1>1, <1>2, <1>3, <1>4 DEF Next

LEMMA Invariance == Spec => []IInv
BY InitInvariant, NextInvariant, PTL DEF Spec

(* The registers keep their types, and a pair that was reported stays      *)
(* disarmed until it leaves.                                               *)
THEOREM TypeCorrect == Spec => []TypeInvariant
<1>1. IInv => TypeInvariant
  BY DEF IInv
<1>2. QED
  BY <1>1, Invariance, PTL

THEOREM ReportedStaysDisarmed == Spec => []ReportedIsDisarmed
<1>1. IInv => ReportedIsDisarmed
  BY DEF IInv
<1>2. QED
  BY <1>1, Invariance, PTL

(* A pair of samples raises at most one pulse, however long it stays.      *)
THEOREM TriggersOnce == Spec => NoRetrigger
<1>1. ASSUME IInv
      PROVE  \A tvalid, tready \in BOOLEAN, tdata \in Samples :
               Edge(tvalid, tdata, tready) /\ trigger_out' => ~reported
  BY <1>1 DEF IInv, ReportedIsDisarmed, Edge, Clock, proc_trigger_output, Detecting
<1>2. QED
  BY <1>1, Invariance, PTL DEF NoRetrigger

(* In the modes RISING and FALLING every crossing raises its pulse.        *)
THEOREM ReportsEveryEdge == Spec => EveryEdgeReported
<1>1. ASSUME IInv
      PROVE  \A tvalid, tready \in BOOLEAN, tdata \in Samples :
               /\ CrossingLeaves(tvalid, tdata, tready)
               /\ config_i.mode \in {"RISING", "FALLING"}
               => reported \/ trigger_out'
  BY <1>1 DEF IInv, CrossingFindsArmed, CrossingLeaves, Edge, Clock,
              proc_trigger_output, Detecting
<1>2. QED
  BY <1>1, Invariance, PTL DEF EveryEdgeReported
=============================================================================
