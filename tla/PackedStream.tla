------------------------------ MODULE PackedStream ------------------------------
(***************************************************************************)
(* What the RAM writer promises about the data, without a FIFO memory, an  *)
(* accumulator or bursts: every sample taken from the stream joins the     *)
(* open word, in order; a word is closed by its Width-th sample and by the *)
(* last sample of a frame, and by nothing else; and every closed word is   *)
(* sent once, in the order of closing.  The samples are known by their     *)
(* place in the stream, modulo Tags.                                       *)
(*                                                                         *)
(* RamWriter implements this specification (see WriterHistory).            *)
(***************************************************************************)
EXTENDS Integers, Sequences

CONSTANTS
  Tags,      \* the numbers of the samples wrap at Tags
  Width,     \* how many samples fill a word
  Capacity   \* how many closed words may wait

VARIABLES
  next,      \* the number of the next sample of the stream
  ended,     \* the sample taken last was the last one of its frame
  filling,   \* the samples of the open word
  waiting,   \* the closed words not sent yet, the oldest first
  sent       \* the word sent last

streamVars == <<next, ended, filling, waiting, sent>>

Init ==
  /\ next = 0 /\ ended = FALSE
  /\ filling = <<>> /\ waiting = <<>> /\ sent = <<>>

(* What a sample taken does to the words that wait, rest of which remain.  *)
Fill(rest) ==
  /\ filling' = Append(filling, next)
  /\ waiting' = rest

Close(rest) ==
  /\ Len(rest) < Capacity
  /\ filling' = <<>>
  /\ waiting' = Append(rest, Append(filling, next))

Take(rest) ==
  /\ next' = (next + 1) % Tags
  /\ ended' \in BOOLEAN
  /\ IF ended' \/ Len(filling) = Width - 1 THEN Close(rest) ELSE Fill(rest)

TakeNothing(rest) == waiting' = rest /\ UNCHANGED <<next, ended, filling>>

Input(rest) == TakeNothing(rest) \/ Take(rest)

Step ==
  \/ Input(waiting) /\ UNCHANGED sent
  \/ waiting # <<>> /\ sent' = <<Head(waiting)>> /\ Input(Tail(waiting))

(* A reset drops everything, and the stream starts over.                   *)
Drop ==
  /\ next' = 0 /\ ended' = FALSE
  /\ filling' = <<>> /\ waiting' = <<>> /\ sent' = <<>>

Spec == Init /\ [][Step \/ Drop]_streamVars
=============================================================================
