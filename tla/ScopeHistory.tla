------------------------------ MODULE ScopeHistory ------------------------------
(***************************************************************************)
(* AxisScope with the source, the sink and the host around it.  The        *)
(* samples are numbered as they are accepted (modulo TAGS), so a history   *)
(* of the accepted numbers tells which samples a window should hold.       *)
(***************************************************************************)
EXTENDS AxisScope, Sequences

CONSTANTS
  TAGS,     \* the numbers of the samples wrap at TAGS
  Memory    \* how many accepted samples the history keeps

ASSUME HistoryAssumption ==
  /\ Samples = 0 .. TAGS - 1
  /\ Memory \in Nat /\ Memory >= BUFFER_DEPTH
  /\ TAGS \in Nat /\ TAGS > Memory

VARIABLES
  accepted,   \* the last Memory samples handed to the scope since reset
  behind,     \* how many were accepted after the sample the trigger marks
  last_sent   \* the sample handed to the sink last, as a sequence

vars == <<scopeVars, accepted, behind, last_sent>>

-----------------------------------------------------------------------------
(* The promise, in terms of the registers.                                 *)

Phase ==
  CASE state = "IDLE"      -> "idle"
    [] state = "ARMED"     -> "armed"
    [] state = "TRIGGERED" -> "capturing"
    [] state = "TRANSFER"  -> "sending"
    [] state = "DONE"      -> "done"

Remaining ==
  IF state = "TRANSFER"
  THEN [i \in 1 .. total_samples - transfer_count |->
          sample_buffer[Address(read_ptr + i - 1)]]
  ELSE <<>>

Promise == INSTANCE CaptureWindow
  WITH Windows <- {[pre |-> c.pre_samples, post |-> c.post_samples] : c \in ScopeConfigs},
       phase <- Phase, stream <- accepted, after <- behind,
       pending <- Remaining, out <- last_sent

-----------------------------------------------------------------------------

Offered == IF accepted = <<>> THEN 0 ELSE (accepted[Len(accepted)] + 1) % TAGS

Edge(trigger_in, tvalid, tready) ==
  LET takes == tvalid /\ s_axis_tready
  IN  /\ Clock(trigger_in, tvalid, Offered, tready)
      /\ UNCHANGED config_i
      /\ accepted' = IF takes THEN Promise!Recent(Append(accepted, Offered))
                     ELSE accepted
      /\ behind' = IF state = "ARMED" /\ ~trigger_in THEN behind
                   ELSE (IF state = "ARMED" THEN 0 ELSE behind)
                        + (IF takes THEN 1 ELSE 0)
      /\ last_sent' = IF m_axis_tvalid /\ tready THEN <<m_axis_tdata>> ELSE last_sent

(* The driver sets the window before the trigger: pre_samples and          *)
(* post_samples stay put during a capture, enable and arm do not.          *)
HostWrite(c) ==
  /\ state \in {"TRIGGERED", "TRANSFER"} =>
       /\ c.pre_samples = config_i.pre_samples
       /\ c.post_samples = config_i.post_samples
  /\ Configure(c)
  /\ UNCHANGED <<accepted, behind, last_sent>>

AssertReset ==
  /\ Reset
  /\ accepted' = <<>> /\ behind' = 0 /\ last_sent' = <<>>

HistoryInit == Init /\ accepted = <<>> /\ behind = 0 /\ last_sent = <<>>

Environment == \E c \in ScopeConfigs : HostWrite(c)

(* The trigger finds the pre-trigger samples in the buffer.                *)
Primed == Len(accepted) > config_i.pre_samples

(* A trigger in a cycle in which the source has a sample: what the comment *)
(* on proc_next_state takes for granted.                                   *)
SteadyEdge(trigger_in, tvalid, tready) ==
  /\ trigger_in /\ state = "ARMED" => Primed /\ tvalid
  /\ Edge(trigger_in, tvalid, tready)

SteadyNext ==
  \/ \E trigger_in, tvalid, tready \in BOOLEAN : SteadyEdge(trigger_in, tvalid, tready)
  \/ Environment
  \/ AssertReset

(* The clock runs, and again and again source and sink are ready.          *)
Spec ==
  /\ HistoryInit
  /\ [][SteadyNext]_vars
  /\ WF_vars(\E trigger_in \in BOOLEAN : SteadyEdge(trigger_in, TRUE, TRUE))

-----------------------------------------------------------------------------
(* Types of the registers and of the history.                              *)
TypeInvariant ==
  /\ TypeOK
  /\ Len(accepted) <= Memory
  /\ \A i \in 1 .. Len(accepted) : accepted[i] \in Samples
  /\ behind \in 0 .. COUNT_MOD

(* The samples the scope presents are the window around the trigger: the   *)
(* k-th one is the k-th sample of pre_samples before the trigger sample    *)
(* and onwards, as accepted, although the buffer is circular, is read      *)
(* through a register one cycle late, and the sink stalls at will.         *)
WindowInOrder ==
  m_axis_tvalid =>
    LET i == Len(accepted) - behind - config_i.pre_samples + transfer_count
    IN  i \in 1 .. Len(accepted) /\ m_axis_tdata = accepted[i]

(* tlast comes with the sample post_samples - 1 after the trigger sample,  *)
(* as accepted, and with no other, whatever the read register presents     *)
(* under it: what ends the frame is the end of the configured window.      *)
TlastEndsWindow ==
  m_axis_tvalid =>
    LET final == Len(accepted) - behind + config_i.post_samples - 1
    IN  /\ final \in 1 .. Len(accepted)
        /\ m_axis_tlast <=> m_axis_tdata = accepted[final]

(* The scope implements the promise, for every interleaving of stalls,     *)
(* gaps, host writes and resets.                                           *)
ImplementsWindow == Promise!Spec

(* A started capture is delivered to the end, whatever the host does to    *)
(* enable and arm: only a reset takes the scope back to IDLE.              *)
CaptureCompletes == state = "TRIGGERED" ~> state \in {"DONE", "IDLE"}
=============================================================================
