------------------------------ MODULE WriterHistory ------------------------------
(***************************************************************************)
(* WriterSession with the data in view.  The samples are numbered (modulo  *)
(* TAGS) as s_axis hands them over, and the history remembers whether the  *)
(* last one ended a frame and how many lanes of each queued word are       *)
(* samples.                                                                *)
(***************************************************************************)
EXTENDS WriterSession, Sequences

CONSTANT TAGS   \* the numbers of the samples wrap at TAGS

ASSUME TagAssumption ==
  /\ TAGS \in Nat \ {0}
  /\ Samples = 0 .. TAGS - 1

VARIABLES
  offered,   \* the number of the next sample
  ended,     \* the sample handed over last came with tlast
  sizes,     \* the samples in each queued word, and in a complete accumulator
  written    \* the word memory took last, as a sequence of samples

history == <<offered, ended, sizes, written>>
vars == <<sessionVars, history>>

-----------------------------------------------------------------------------
(* The promise, in terms of the registers.                                 *)

QueuedWord(i) ==
  IF i <= fifo_level THEN fifo_mem[(fifo_rd_ptr + i - 1) % FIFO_DEPTH]
  ELSE sample_accumulator

Prefix(word, size) == [lane \in 1 .. size |-> word[lane - 1]]

Promise == INSTANCE PackedStream
  WITH Tags <- TAGS, Width <- SAMPLES_PER_WORD, Capacity <- FIFO_DEPTH,
       next <- offered, ended <- ended,
       filling <- Prefix(sample_accumulator, sample_idx),
       waiting <- [i \in 1 .. Len(sizes) |-> Prefix(QueuedWord(i), sizes[i])],
       sent <- written

-----------------------------------------------------------------------------

TaggedEdge(tvalid, tlast, awready, wready, bvalid, okay) ==
  LET takes == tvalid /\ s_axis_tready
      closes == takes /\ (tlast \/ sample_idx = SAMPLES_PER_WORD - 1)
      reads == fifo_rd_en(wready)
      rest == IF reads THEN Tail(sizes) ELSE sizes
  IN  /\ ScopeEdge(tvalid, offered, tlast, awready, wready, bvalid, okay)
      /\ offered' = IF takes THEN (offered + 1) % TAGS ELSE offered
      /\ ended' = IF takes THEN tlast ELSE ended
      /\ sizes' = IF closes THEN Append(rest, sample_idx + 1) ELSE rest
      /\ written' = IF reads THEN <<Prefix(fifo_dout, sizes[1])>> ELSE written

HistoryInit ==
  /\ SessionInit
  /\ offered = 0 /\ ended = FALSE /\ sizes = <<>> /\ written = <<>>

HistoryNext ==
  \/ \E tvalid, tlast, awready, wready, bvalid, okay \in BOOLEAN :
       TaggedEdge(tvalid, tlast, awready, wready, bvalid, okay)
  \/ Environment /\ UNCHANGED history
  \/ AssertReset /\ offered' = 0 /\ ended' = FALSE /\ sizes' = <<>> /\ written' = <<>>

HistorySpec == HistoryInit /\ [][HistoryNext]_vars

-----------------------------------------------------------------------------
(* The writer implements the promise, of which offered and ended are the   *)
(* input: every sample of a handshake on s_axis, in the order of the       *)
(* handshakes, takes the next lane of a word memory is given, and none     *)
(* twice, whatever the stalls of either side; tlast closes its word.       *)
ImplementsPackedStream == Promise!Spec
=============================================================================
