------------------------------ MODULE CaptureWindow ------------------------------
(***************************************************************************)
(* What a capture promises, without buffers, pointers or counters: once    *)
(* triggered, the consumer receives, once and in order, the pre samples    *)
(* before the trigger sample, the trigger sample, and the samples after    *)
(* it, post in all from the trigger sample on, as they were accepted.      *)
(*                                                                         *)
(* AxisScope implements this specification (see ScopeHistory).             *)
(***************************************************************************)
EXTENDS Integers, Sequences

CONSTANTS
  Samples,   \* the samples of the stream
  Windows,   \* the windows asked for, records [pre, post]
  Memory     \* how many recent samples the stream is remembered for

VARIABLES
  phase,     \* "idle", "armed", "capturing", "sending", "done"
  stream,    \* the last Memory accepted samples, the newest last
  after,     \* how many of them were accepted after the trigger sample
  pending,   \* the rest of the window still to be sent
  out        \* the sample handed over last

windowVars == <<phase, stream, after, pending, out>>

Recent(s) ==
  IF Len(s) <= Memory THEN s ELSE SubSeq(s, Len(s) - Memory + 1, Len(s))

Accept == \E x \in Samples : stream' = Recent(Append(stream, x))

Init ==
  /\ phase = "idle"
  /\ stream = <<>> /\ after = 0
  /\ pending = <<>> /\ out = <<>>

Arm ==
  /\ phase \in {"idle", "done"}
  /\ phase' = "armed"
  /\ UNCHANGED <<stream, after, pending, out>>

Disarm ==
  /\ phase \in {"armed", "done"}
  /\ phase' = "idle"
  /\ \/ phase = "armed" /\ Accept
     \/ UNCHANGED stream
  /\ UNCHANGED <<after, pending, out>>

Watch ==
  /\ phase = "armed"
  /\ Accept
  /\ UNCHANGED <<phase, after, pending, out>>

(* The trigger sample is the newest one before this step.                  *)
Trigger ==
  /\ phase = "armed" /\ stream # <<>>
  /\ phase' = "capturing"
  /\ \/ Accept /\ after' = 1
     \/ UNCHANGED stream /\ after' = 0
  /\ UNCHANGED <<pending, out>>

Collect ==
  /\ phase = "capturing"
  /\ Accept /\ after' = after + 1
  /\ UNCHANGED <<phase, pending, out>>

Freeze(w) ==
  /\ phase = "capturing"
  /\ phase' = "sending"
  /\ \/ Accept /\ after' = after + 1
     \/ UNCHANGED <<stream, after>>
  /\ LET trigger == Len(stream') - after'
     IN  /\ trigger > w.pre
         /\ after' >= w.post - 1
         /\ pending' = SubSeq(stream', trigger - w.pre, trigger + w.post - 1)
  /\ UNCHANGED out

Send ==
  /\ phase = "sending" /\ pending # <<>>
  /\ <<out', pending'>> = <<<<Head(pending)>>, Tail(pending)>>
  /\ phase' = IF Len(pending) = 1 THEN "done" ELSE "sending"
  /\ UNCHANGED <<stream, after>>

(* A reset forgets the stream and the window.                              *)
Abandon ==
  /\ phase' = "idle"
  /\ stream' = <<>> /\ after' = 0
  /\ pending' = <<>> /\ out' = <<>>

Next ==
  \/ Arm \/ Disarm \/ Watch \/ Trigger \/ Collect
  \/ \E w \in Windows : Freeze(w)
  \/ Send \/ Abandon

Spec == Init /\ [][Next]_windowVars
=============================================================================
