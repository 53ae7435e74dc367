------------------------------- MODULE WriterFrame -------------------------------
(***************************************************************************)
(* WriterSession with a source that sends one frame, a host that leaves    *)
(* the writer on, and a memory without errors: the simplest use there is,  *)
(* and the one the assertion p_tlast_causes_flush is about.                *)
(***************************************************************************)
EXTENDS WriterSession

VARIABLE ended   \* the tlast of the frame was accepted

frameVars == <<sessionVars, ended>>

FrameEdge(tvalid, tdata, tlast, awready, wready, bvalid) ==
  /\ tvalid => ~ended
  /\ ScopeEdge(tvalid, tdata, tlast, awready, wready, bvalid, bvalid)
  /\ ended' = (ended \/ (tvalid /\ s_axis_tready /\ tlast))

(* The clock runs, and again and again memory is ready and answers.        *)
FrameSpec ==
  /\ SessionInit /\ ended = FALSE /\ config_i.enable
  /\ [][\E tvalid, tlast, awready, wready, bvalid \in BOOLEAN, tdata \in Samples :
         FrameEdge(tvalid, tdata, tlast, awready, wready, bvalid)]_frameVars
  /\ WF_frameVars(\E tvalid, tlast \in BOOLEAN, tdata \in Samples :
       FrameEdge(tvalid, tdata, tlast, TRUE, TRUE, m_axi_bready))

-----------------------------------------------------------------------------
(* The assertion p_tlast_causes_flush of axis_ram_writer_sva.sv: after a   *)
(* tlast all that is pending gets written.  A response that arrives while  *)
(* the last word is still in the accumulator finds the FIFO empty, clears  *)
(* last_seen, and leaves the word behind.                                  *)
TlastCausesFlush == ended ~> fifo_empty /\ ~accumulator_valid
=============================================================================
