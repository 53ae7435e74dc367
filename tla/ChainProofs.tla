------------------------------- MODULE ChainProofs -------------------------------
(***************************************************************************)
(* Theorems about AcquisitionChain for every pipeline, buffer, word, FIFO, *)
(* burst and window, and every behaviour of source, memory and channel 1.  *)
(***************************************************************************)
EXTENDS AcquisitionChain, TLAPS

(* A window is not empty and leaves room for the samples written between   *)
(* the last one it asks for and the transfer.                              *)
WindowsFit ==
  \A w \in Windows :
    /\ w.pre + w.post >= 1
    /\ w.pre + w.post + 1 <= BUFFER_DEPTH
    /\ w.pre + 3 <= BUFFER_DEPTH

Pre == scope_config.pre_samples
Post == scope_config.post_samples
Total == Pre + Post

Out == PIPE_STAGES - 1   \* the last stage of the detector's delay
Address(i) == i % BUFFER_DEPTH

Configured ==
  /\ trig0_config = [enable |-> TRUE, mode |-> "RISING", threshold |-> 1]
  /\ \E a \in BOOLEAN, w \in Windows :
       scope_config = [enable |-> TRUE, arm |-> a, pre_samples |-> w.pre, post_samples |-> w.post]

ScopeTypes ==
  /\ scope_state \in Scope!States
  /\ DOMAIN sample_buffer = 0 .. BUFFER_DEPTH - 1
  /\ write_ptr \in 0 .. BUFFER_DEPTH - 1 /\ trigger_ptr \in 0 .. BUFFER_DEPTH - 1
  /\ post_count \in 0 .. COUNT_MOD - 1 /\ transfer_count \in 0 .. COUNT_MOD - 1
  /\ scope_state = "TRIGGERED" => post_count = 0 \/ post_count + 2 <= Post

PipeTypes ==
  /\ DOMAIN valid_pipe = 0 .. Out /\ DOMAIN sample_pipe = 0 .. Out

(* The sample that crossed leaves the pipeline with the detector's pulse.  *)
CrossingLeaves ==
  crossing # Unwritten =>
    /\ scope_state \in {"ARMED", "TRIGGERED"}
    /\ valid_pipe[Out] /\ crossing = sample_pipe[Out].number

(* One register later it is the newest sample of the scope.                *)
CauseIsNewest ==
  cause # Unwritten /\ scope_state = "ARMED" =>
    cause = sample_buffer[Address(write_ptr - 1)]

(* The trigger sample stays in the buffer: too few samples come after it   *)
(* to get there.                                                           *)
MarkKept ==
  scope_state \in {"TRIGGERED", "TRANSFER"} /\ mark # Unwritten =>
    mark = sample_buffer[trigger_ptr]

FewBehind ==
  scope_state = "TRIGGERED" =>
    \E b \in 0 .. post_count + 1 : write_ptr = Address(trigger_ptr + 1 + b)

(* The sender is transfer_count samples into the window.                   *)
Sending ==
  scope_state = "TRANSFER" =>
    /\ transfer_active /\ total_samples = Total /\ transfer_count < Total
    /\ read_ptr = Address(trigger_ptr - Pre + transfer_count)
    /\ ~wait_for_data => read_data_reg = sample_buffer[read_ptr]

TypeInv == Configured /\ ScopeTypes /\ PipeTypes
ScopeInv == CrossingLeaves /\ CauseIsNewest /\ MarkKept /\ FewBehind /\ Sending
CaptureInv == TypeInv /\ ScopeInv

-----------------------------------------------------------------------------
(* Constants, addresses and settings.                                      *)
LEMMA Constants ==
  /\ PIPE_STAGES \in Nat \ {0, 1} /\ BUFFER_DEPTH \in Nat \ {0}
  /\ COUNT_MOD \in Nat \ {0} /\ INT_MOD \in Nat /\ INT_MOD > COUNT_MOD
  /\ BUFFER_DEPTH <= COUNT_MOD
  BY ChainAssumption

LEMMA Settings ==
  ASSUME WindowsFit, Configured
  PROVE  /\ Pre \in Nat /\ Post \in Nat /\ Total \in Nat \ {0}
         /\ Total + 1 <= BUFFER_DEPTH /\ Pre + 3 <= BUFFER_DEPTH
         /\ scope_config.enable = TRUE /\ trig0_config.enable = TRUE
  BY ChainAssumption DEF WindowsFit, Configured, Pre, Post, Total

LEMMA SettingsKept ==
  ASSUME Configured, trig0_config' = trig0_config,
         \E a \in BOOLEAN : scope_config' = [scope_config EXCEPT !.arm = a]
  PROVE  Configured' /\ Pre' = Pre /\ Post' = Post /\ Total' = Total
<1>1. PICK a \in BOOLEAN, w \in Windows :
        scope_config = [enable |-> TRUE, arm |-> a, pre_samples |-> w.pre, post_samples |-> w.post]
  BY DEF Configured
<1>2. PICK c \in BOOLEAN : scope_config' = [scope_config EXCEPT !.arm = c]
  OBVIOUS
<1>3. scope_config' = [enable |-> TRUE, arm |-> c, pre_samples |-> w.pre, post_samples |-> w.post]
  BY <1>1, <1>2
<1>4. Configured' BY <1>3 DEF Configured
<1> QED BY <1>1, <1>3, <1>4 DEF Pre, Post, Total

(* Places of a ring of d cells, from one turn before its start to one turn *)
(* after its end; and how steps along it add up.                           *)
LEMMA RingCases ==
  ASSUME NEW d \in Nat \ {0}, NEW i \in Int, -d <= i, i < 2 * d
  PROVE  /\ i % d \in 0 .. d - 1
         /\ i % d = IF i < 0 THEN i + d ELSE IF i < d THEN i ELSE i - d
<1>1. i < 0 => i % d = i + d OBVIOUS
<1>2. 0 <= i /\ i < d => i % d = i OBVIOUS
<1>3. d <= i => i % d = i - d OBVIOUS
<1> QED BY <1>1, <1>2, <1>3

LEMMA RingTurn ==
  ASSUME NEW d \in Nat \ {0}, NEW i \in Int, -d <= i, i < 2 * d
  PROVE  \E t \in {i, i + d, i - d} : t \in 0 .. d - 1 /\ i % d = t
<1>1. i % d \in 0 .. d - 1 BY RingCases
<1>2. i % d = IF i < 0 THEN i + d ELSE IF i < d THEN i ELSE i - d
  BY RingCases
<1>3. i % d = i \/ i % d = i + d \/ i % d = i - d
  BY <1>2, Zenon
<1> QED BY <1>1, <1>3, Zenon

LEMMA RingSum ==
  ASSUME NEW d \in Nat \ {0}, NEW i \in Int, -d <= i, i < 2 * d,
         NEW k \in Int, -d <= k, k <= d, -d <= i + k, i + k < 2 * d
  PROVE  ((i % d) + k) % d = (i + k) % d
<1>1. PICK m \in {i, i + d, i - d} : m \in 0 .. d - 1 /\ i % d = m
  BY RingTurn
<1>2. m + k \in Int /\ -d <= m + k /\ m + k < 2 * d
  BY <1>1
<1>3. PICK n \in {m + k, m + k + d, m + k - d} : n \in 0 .. d - 1 /\ (m + k) % d = n
  <2>1. PICK j \in Int : j = m + k BY <1>2
  <2>2. \E n \in {j, j + d, j - d} : n \in 0 .. d - 1 /\ j % d = n
    BY <1>2, <2>1, RingTurn
  <2> QED BY <2>1, <2>2
<1>4. PICK o \in {i + k, i + k + d, i + k - d} : o \in 0 .. d - 1 /\ (i + k) % d = o
  <2>1. PICK j \in Int : j = i + k OBVIOUS
  <2>2. \E o \in {j, j + d, j - d} : o \in 0 .. d - 1 /\ j % d = o
    BY <2>1, RingTurn
  <2> QED BY <2>1, <2>2
<1>5. n = o
  BY <1>1, <1>3, <1>4
<1> QED BY <1>1, <1>3, <1>4, <1>5

LEMMA AddressCases ==
  ASSUME NEW i \in Int, -BUFFER_DEPTH <= i, i < 2 * BUFFER_DEPTH
  PROVE  /\ Address(i) \in 0 .. BUFFER_DEPTH - 1
         /\ Address(i) = IF i < 0 THEN i + BUFFER_DEPTH
                         ELSE IF i < BUFFER_DEPTH THEN i ELSE i - BUFFER_DEPTH
BY RingCases, Constants DEF Address

LEMMA AddressSum ==
  ASSUME NEW i \in Int, -BUFFER_DEPTH <= i, i < 2 * BUFFER_DEPTH,
         NEW k \in Int, -BUFFER_DEPTH <= k, k <= BUFFER_DEPTH,
         -BUFFER_DEPTH <= i + k, i + k < 2 * BUFFER_DEPTH
  PROVE  Address(Address(i) + k) = Address(i + k)
BY RingSum, Constants DEF Address

(* One step along the buffer, and back.                                    *)
LEMMA AddressNext ==
  ASSUME NEW i \in Int, -BUFFER_DEPTH <= i, i + 1 < 2 * BUFFER_DEPTH
  PROVE  Address(Address(i) + 1) = Address(i + 1)
<1>1. i < 2 * BUFFER_DEPTH /\ -BUFFER_DEPTH <= 1 /\ 1 <= BUFFER_DEPTH /\ -BUFFER_DEPTH <= i + 1
  BY Constants
<1> QED BY <1>1, AddressSum

LEMMA AddressBack ==
  ASSUME NEW p \in 0 .. BUFFER_DEPTH - 1
  PROVE  Address(Address(p + 1) - 1) = p
<1>1. Address(p + 1) = IF p + 1 < BUFFER_DEPTH THEN p + 1 ELSE 0
  BY AddressCases, Constants
<1>2. CASE p + 1 < BUFFER_DEPTH
  BY <1>1, <1>2, AddressCases, Constants
<1>3. CASE p + 1 = BUFFER_DEPTH
  <2>1. Address(-1) = BUFFER_DEPTH - 1 BY AddressCases, Constants
  <2> QED BY <1>1, <1>3, <2>1, Constants
<1> QED BY <1>2, <1>3, Constants

(* Less than a turn away is elsewhere.                                     *)
LEMMA AddressApart ==
  ASSUME NEW p \in 0 .. BUFFER_DEPTH - 1, NEW d \in 1 .. BUFFER_DEPTH - 1
  PROVE  Address(p + d) # p
  BY AddressCases, Constants

-----------------------------------------------------------------------------
(* The detector's pulse and what follows it.                               *)
LEMMA PipeStep ==
  ASSUME PipeTypes, NEW tvalid, NEW sample, NEW tready, Ch0!Clock(tvalid, sample, tready)
  PROVE  /\ PipeTypes'
         /\ tvalid /\ Ch0!s_axis_tready(tready) =>
              /\ sample_pipe'[Out] = sample_pipe[PIPE_STAGES - 2]
              /\ valid_pipe'[Out] = valid_pipe[PIPE_STAGES - 2]
         /\ trig0_out' => valid_pipe[PIPE_STAGES - 2]
<1>1. Ch0!proc_sample_pipeline(tvalid /\ Ch0!s_axis_tready(tready), sample)
  BY DEF Ch0!Clock
<1>2. trig0_out' => valid_pipe[PIPE_STAGES - 2]
  BY DEF Ch0!Clock, Ch0!proc_trigger_output, Ch0!Detecting
<1>3. Ch0!Stages = 0 .. Out /\ Out \in Nat /\ Out # 0 /\ Out - 1 = PIPE_STAGES - 2
      /\ Out \in 0 .. Out
  BY Constants DEF Ch0!Stages, Out
<1>4. CASE tvalid /\ Ch0!s_axis_tready(tready)
  <2>1. /\ sample_pipe' = [i \in 0 .. Out |-> IF i = 0 THEN sample ELSE sample_pipe[i - 1]]
        /\ valid_pipe' = [i \in 0 .. Out |-> IF i = 0 THEN TRUE ELSE valid_pipe[i - 1]]
    BY <1>1, <1>3, <1>4 DEF Ch0!proc_sample_pipeline
  <2> QED BY <1>2, <1>3, <2>1 DEF PipeTypes
<1>5. CASE ~(tvalid /\ Ch0!s_axis_tready(tready))
  <2>1. UNCHANGED <<sample_pipe, valid_pipe>> BY <1>1, <1>5 DEF Ch0!proc_sample_pipeline
  <2> QED BY <1>2, <1>5, <2>1 DEF PipeTypes
<1> QED BY <1>4, <1>5
-----------------------------------------------------------------------------
(* The edges of the scope.                                                 *)
ScopeEdge(tready) == Scope!Clock(scope_trigger, trig0_m_tvalid, trig0_m_tdata, tready)

LEMMA StateStep ==
  ASSUME WindowsFit, TypeInv, NEW tready, ScopeEdge(tready)
  PROVE  /\ scope_state = "ARMED" => scope_state' \in {"ARMED", "TRIGGERED"}
         /\ scope_state = "TRIGGERED" => scope_state' \in {"TRIGGERED", "TRANSFER"}
         /\ scope_state' = "TRIGGERED" => scope_state \in {"ARMED", "TRIGGERED"}
         /\ scope_state' = "TRANSFER" => scope_state \in {"TRIGGERED", "TRANSFER"}
         /\ scope_state' \in Scope!States
  BY Settings DEF TypeInv, ScopeTypes, ScopeEdge, Scope!Clock, Scope!IdleEdge, Scope!ArmedEdge,
       Scope!TriggeredEdge, Scope!StartTransfer, Scope!TransferEdge, Scope!DoneEdge, Scope!States

(* What a write does.                                                      *)
LEMMA WriteStep ==
  ASSUME TypeInv, WindowsFit, scope_state \in {"ARMED", "TRIGGERED"},
         Scope!WriteSample(trig0_m_tvalid, trig0_m_tdata)
  PROVE  /\ valid_pipe[Out] =>
              /\ sample_buffer' = [sample_buffer EXCEPT ![write_ptr] = sample_pipe[Out].number]
              /\ write_ptr' = Address(write_ptr + 1)
         /\ ~valid_pipe[Out] => UNCHANGED <<sample_buffer, write_ptr>>
         /\ DOMAIN sample_buffer' = 0 .. BUFFER_DEPTH - 1
         /\ write_ptr' \in 0 .. BUFFER_DEPTH - 1
<1>1. trig0_m_tvalid <=> valid_pipe[Out]
  BY Settings DEF TypeInv, trig0_m_tvalid, Ch0!m_axis_tvalid, Out
<1>2. trig0_m_tdata = sample_pipe[Out].number
  BY DEF trig0_m_tdata, Ch0!m_axis_tdata, Out
<1>3. Scope!s_axis_tready BY DEF Scope!s_axis_tready
<1>4. Address(write_ptr + 1) \in 0 .. BUFFER_DEPTH - 1
  BY AddressCases, Constants DEF TypeInv, ScopeTypes
<1> QED BY <1>1, <1>2, <1>3, <1>4 DEF Scope!WriteSample, Scope!Address, Address, TypeInv, ScopeTypes
CaptureParts == ScopeTypes /\ MarkKept /\ FewBehind /\ Sending

Marks == mark' = IF scope_state = "ARMED" /\ scope_trigger THEN cause ELSE mark

LEMMA ArmedStep ==
  ASSUME WindowsFit, CaptureInv, NEW tready, ScopeEdge(tready), Marks, scope_state = "ARMED"
  PROVE  CaptureParts'
<1> USE DEF CaptureInv
<1>1. /\ Scope!WriteSample(trig0_m_tvalid, trig0_m_tdata) /\ post_count' = 0
      /\ UNCHANGED transfer_count
      /\ \/ scope_trigger /\ scope_state' = "TRIGGERED" /\ trigger_ptr' = Address(write_ptr - 1)
         \/ ~scope_trigger /\ scope_state' = "ARMED" /\ UNCHANGED trigger_ptr
  BY Settings DEF TypeInv, ScopeEdge, Scope!Clock, Scope!IdleEdge, Scope!ArmedEdge,
       Scope!TriggeredEdge, Scope!TransferEdge, Scope!DoneEdge, Scope!Address, Address
<1>2. /\ valid_pipe[Out] =>
           /\ sample_buffer' = [sample_buffer EXCEPT ![write_ptr] = sample_pipe[Out].number]
           /\ write_ptr' = Address(write_ptr + 1)
      /\ ~valid_pipe[Out] => UNCHANGED <<sample_buffer, write_ptr>>
      /\ DOMAIN sample_buffer' = 0 .. BUFFER_DEPTH - 1
      /\ write_ptr' \in 0 .. BUFFER_DEPTH - 1
  BY <1>1, WriteStep
<1>3. write_ptr \in 0 .. BUFFER_DEPTH - 1 /\ BUFFER_DEPTH >= 3
  BY Settings, Constants DEF TypeInv, ScopeTypes
<1>4. CASE scope_trigger
  <2>1. /\ scope_state' = "TRIGGERED" /\ trigger_ptr' = Address(write_ptr - 1) /\ mark' = cause
    BY <1>1, <1>4 DEF Marks
  <2>2. /\ Address(write_ptr - 1) \in 0 .. BUFFER_DEPTH - 1
        /\ Address(write_ptr - 1) # write_ptr
        /\ Address(write_ptr - 1) = IF write_ptr = 0 THEN BUFFER_DEPTH - 1 ELSE write_ptr - 1
    BY <1>3, AddressCases, Constants
  <2>3. ScopeTypes'
    BY <1>1, <1>2, <2>1, <2>2, Constants DEF TypeInv, ScopeTypes, Scope!States
  <2>4. sample_buffer'[Address(write_ptr - 1)] = sample_buffer[Address(write_ptr - 1)]
    BY <1>2, <2>2, Zenon
  <2>5. MarkKept' BY <2>1, <2>4 DEF MarkKept, ScopeInv, CauseIsNewest
  <2>6. Address(Address(write_ptr - 1) + 1) = Address(write_ptr)
    <3>1. Address((write_ptr - 1) + 1) = Address(write_ptr) BY <1>3, Constants DEF Address
    <3> QED BY <1>3, <3>1, AddressNext, Constants
  <2>7. Address(Address(write_ptr - 1) + 2) = Address(write_ptr + 1)
    BY <1>3, <2>2, AddressCases, Constants
  <2>8. Address(write_ptr) = write_ptr BY <1>3, AddressCases, Constants
  <2>9. FewBehind'
    <3>1. CASE valid_pipe[Out]
      <4>1. write_ptr' = Address(trigger_ptr' + 1 + 1)
        BY <1>2, <2>1, <2>2, <2>7, <3>1, Constants
      <4> QED BY <1>1, <4>1 DEF FewBehind
    <3>2. CASE ~valid_pipe[Out]
      <4>1. write_ptr' = Address(trigger_ptr' + 1 + 0)
        BY <1>2, <2>1, <2>2, <2>6, <2>8, <3>2, Constants
      <4> QED BY <1>1, <4>1 DEF FewBehind
    <3> QED BY <3>1, <3>2
  <2>10. Sending' BY <2>1 DEF Sending
  <2> QED BY <2>3, <2>5, <2>9, <2>10 DEF CaptureParts
<1>5. CASE ~scope_trigger
  <2>1. scope_state' = "ARMED" /\ UNCHANGED trigger_ptr BY <1>1, <1>5
  <2>2. ScopeTypes' BY <1>1, <1>2, <2>1, Constants DEF TypeInv, ScopeTypes, Scope!States
  <2> QED BY <2>1, <2>2 DEF CaptureParts, MarkKept, FewBehind, Sending
<1> QED BY <1>4, <1>5

LEMMA StillWithin ==
  ASSUME NEW i \in Nat, NEW n \in Int, NEW m \in Int, i <= n + 1, m >= n
  PROVE  i \in 0 .. m + 1
OBVIOUS

LEMMA TriggeredStep ==
  ASSUME WindowsFit, CaptureInv, NEW tready, ScopeEdge(tready), Marks,
         scope_state = "TRIGGERED", Pre' = Pre, Post' = Post, Total' = Total
  PROVE  CaptureParts'
<1> USE DEF CaptureInv
<1>1. /\ Scope!WriteSample(trig0_m_tvalid, trig0_m_tdata) /\ UNCHANGED trigger_ptr
      /\ post_count' = IF trig0_m_tvalid THEN (post_count + 1) % COUNT_MOD ELSE post_count
      /\ \/ /\ post_count + 2 >= Post /\ scope_state' = "TRANSFER"
            /\ read_ptr' = Address(trigger_ptr - Pre) /\ transfer_count' = 0
            /\ total_samples' = Total % COUNT_MOD /\ transfer_active' = TRUE
            /\ wait_for_data' = TRUE
         \/ /\ ~(post_count + 2 >= Post) /\ scope_state' = "TRIGGERED"
            /\ UNCHANGED transfer_count
  BY DEF TypeInv, ScopeEdge, Scope!Clock, Scope!IdleEdge, Scope!ArmedEdge, Scope!StartTransfer,
       Scope!TriggeredEdge, Scope!TransferEdge, Scope!DoneEdge, Scope!Address, Address, Pre, Post,
       Scope!PostComplete, Total
<1>2. /\ valid_pipe[Out] =>
           /\ sample_buffer' = [sample_buffer EXCEPT ![write_ptr] = sample_pipe[Out].number]
           /\ write_ptr' = Address(write_ptr + 1)
      /\ ~valid_pipe[Out] => UNCHANGED <<sample_buffer, write_ptr>>
      /\ DOMAIN sample_buffer' = 0 .. BUFFER_DEPTH - 1
      /\ write_ptr' \in 0 .. BUFFER_DEPTH - 1
  BY <1>1, WriteStep
<1>3. /\ Pre \in Nat /\ Post \in Nat /\ Total = Pre + Post /\ Total \in Nat \ {0}
      /\ Total + 1 <= BUFFER_DEPTH /\ Pre + 3 <= BUFFER_DEPTH
  BY Settings DEF TypeInv, Total
<1>4. /\ write_ptr \in 0 .. BUFFER_DEPTH - 1 /\ trigger_ptr \in 0 .. BUFFER_DEPTH - 1
      /\ post_count \in 0 .. COUNT_MOD - 1 /\ (post_count = 0 \/ post_count + 2 <= Post)
      /\ DOMAIN sample_buffer = 0 .. BUFFER_DEPTH - 1
  BY DEF TypeInv, ScopeTypes
<1>5. PICK b \in 0 .. post_count + 1 : write_ptr = Address(trigger_ptr + 1 + b)
  BY DEF ScopeInv, FewBehind
<1>6. b \in Nat /\ b + 2 <= BUFFER_DEPTH
  BY <1>3, <1>4, Constants
<1>7. write_ptr # trigger_ptr
  <2>1. 1 + b \in 1 .. BUFFER_DEPTH - 1 BY <1>6, Constants
  <2>2. Address(trigger_ptr + (1 + b)) # trigger_ptr BY <1>4, <2>1, AddressApart
  <2>3. trigger_ptr + (1 + b) = trigger_ptr + 1 + b BY <1>4, <1>6, Constants
  <2> QED BY <1>5, <2>2, <2>3
<1>8. sample_buffer'[trigger_ptr] = sample_buffer[trigger_ptr]
  BY <1>2, <1>4, <1>7
<1>9. mark' = mark BY DEF Marks
<1>10. MarkKept' BY <1>1, <1>8, <1>9 DEF MarkKept, ScopeInv
<1>11. trig0_m_tvalid <=> valid_pipe[Out]
  BY Settings DEF TypeInv, trig0_m_tvalid, Ch0!m_axis_tvalid, Out
<1>12. (post_count + 1) % COUNT_MOD \in 0 .. COUNT_MOD - 1
  BY <1>4, Constants
<1>13. CASE post_count + 2 >= Post
  <2>1. Total % COUNT_MOD = Total BY <1>3, Constants
  <2>2. ScopeTypes'
    BY <1>1, <1>2, <1>4, <1>12, <1>13, Constants DEF ScopeTypes, Scope!States
  <2>3. FewBehind' BY <1>1, <1>3, <1>4, <1>13, Constants DEF FewBehind
  <2>4. trigger_ptr' - Pre' + 0 = trigger_ptr - Pre BY <1>1, <1>3, <1>4, Constants
  <2>5. Sending' BY <1>1, <1>3, <1>4, <1>13, <2>1, <2>4, Constants DEF Sending
  <2> QED BY <1>10, <2>2, <2>3, <2>5 DEF CaptureParts
<1>14. CASE ~(post_count + 2 >= Post)
  <2>1. scope_state' = "TRIGGERED" /\ UNCHANGED transfer_count
    BY <1>1, <1>3, <1>4, <1>14, Constants
  <2>2. (post_count + 1) % COUNT_MOD = post_count + 1
    BY <1>3, <1>4, <1>14, Constants
  <2>3. post_count' \in {post_count, post_count + 1} /\ (valid_pipe[Out] => post_count' = post_count + 1)
    BY <1>1, <1>11, <2>2
  <2>4. ScopeTypes'
    BY <1>1, <1>2, <1>3, <1>4, <1>14, <2>1, <2>3, Constants
    DEF TypeInv, ScopeTypes, Scope!States
  <2>5. Address(write_ptr + 1) = Address(trigger_ptr + 1 + (b + 1))
    <3>1. trigger_ptr + 1 + b + 1 = trigger_ptr + 1 + (b + 1) BY <1>4, <1>6, Constants
    <3>2. /\ trigger_ptr + 1 + b \in Int /\ -BUFFER_DEPTH <= trigger_ptr + 1 + b
          /\ trigger_ptr + 1 + b + 1 < 2 * BUFFER_DEPTH
      BY <1>4, <1>6, Constants
    <3> QED BY <1>5, <3>1, <3>2, AddressNext
  <2>6. FewBehind'
    <3>1. CASE valid_pipe[Out]
      <4>1. write_ptr' = Address(trigger_ptr' + 1 + (b + 1)) BY <1>1, <1>2, <2>5, <3>1
      <4>2. b + 1 \in 0 .. post_count' + 1 BY <1>4, <1>6, <2>3, <3>1, Constants
      <4> QED BY <4>1, <4>2 DEF FewBehind
    <3>2. CASE ~valid_pipe[Out]
      <4>1. write_ptr' = Address(trigger_ptr' + 1 + b) BY <1>1, <1>2, <1>5, <3>2
      <4>2. post_count \in Int /\ post_count' \in Int /\ post_count' >= post_count
        BY <1>4, <2>3, Constants
      <4>3. b <= post_count + 1 BY <1>5, <4>2
      <4>4. b \in 0 .. post_count' + 1 BY <1>6, <4>2, <4>3, StillWithin
      <4> QED BY <4>1, <4>4 DEF FewBehind
    <3> QED BY <3>1, <3>2
  <2>7. Sending' BY <2>1 DEF Sending
  <2> QED BY <1>10, <2>4, <2>6, <2>7 DEF CaptureParts
<1> QED BY <1>13, <1>14
LEMMA TransferStep ==
  ASSUME WindowsFit, CaptureInv, NEW tready, ScopeEdge(tready), Marks,
         scope_state = "TRANSFER", Pre' = Pre, Post' = Post, Total' = Total
  PROVE  CaptureParts'
<1> USE DEF CaptureInv
<1> DEFINE handshake == Scope!m_axis_tvalid /\ tready
           more == transfer_count < Scope!last_index
<1>1. /\ UNCHANGED <<sample_buffer, write_ptr, trigger_ptr, post_count, total_samples>>
      /\ read_data_reg' = sample_buffer[read_ptr]
      /\ \/ /\ handshake /\ transfer_count' = (transfer_count + 1) % COUNT_MOD
            /\ scope_state' = IF transfer_count = Scope!last_index THEN "DONE" ELSE "TRANSFER"
            /\ read_ptr' = IF more THEN Address(read_ptr + 1) ELSE read_ptr
            /\ transfer_active' = more /\ wait_for_data' = more
         \/ /\ ~handshake /\ wait_for_data' = FALSE
            /\ UNCHANGED <<scope_state, transfer_count, read_ptr, transfer_active>>
  BY DEF ScopeEdge, Scope!Clock, Scope!IdleEdge, Scope!ArmedEdge,
       Scope!TriggeredEdge, Scope!TransferEdge, Scope!DoneEdge, Scope!Address, Address
<1>2. /\ Pre \in Nat /\ Post \in Nat /\ Total = Pre + Post /\ Total \in Nat \ {0}
      /\ Total + 1 <= BUFFER_DEPTH /\ Pre + 3 <= BUFFER_DEPTH
  BY Settings DEF TypeInv, Total
<1>3. /\ transfer_active /\ total_samples = Total /\ transfer_count < Total
      /\ read_ptr = Address(trigger_ptr - Pre + transfer_count)
  BY DEF ScopeInv, Sending
<1>4. /\ trigger_ptr \in 0 .. BUFFER_DEPTH - 1 /\ transfer_count \in 0 .. COUNT_MOD - 1
  BY DEF TypeInv, ScopeTypes
<1>5. Scope!last_index = Total - 1
  BY <1>2, <1>3, Constants DEF Scope!last_index
<1>6. mark' = mark BY DEF Marks
<1>7. MarkKept' BY <1>1, <1>6 DEF MarkKept, ScopeInv
<1>8. (transfer_count + 1) % COUNT_MOD = transfer_count + 1
  BY <1>2, <1>3, <1>4, Constants
<1> HIDE DEF handshake, more
<1>9. CASE ~handshake
  <2>1. ScopeTypes' BY <1>1, <1>9 DEF TypeInv, ScopeTypes
  <2>2. Sending' BY <1>1, <1>3, <1>9 DEF Sending
  <2>3. FewBehind' BY <1>1, <1>9 DEF FewBehind
  <2> QED BY <1>7, <2>1, <2>2, <2>3 DEF CaptureParts
<1>10. CASE handshake
  <2>1. /\ transfer_count' = transfer_count + 1 /\ scope_state' \in {"DONE", "TRANSFER"}
        /\ more <=> transfer_count < Total - 1
    BY <1>1, <1>5, <1>8, <1>10 DEF more
  <2>2. ScopeTypes'
    BY <1>1, <1>2, <1>3, <1>4, <2>1, Constants DEF TypeInv, ScopeTypes, Scope!States
  <2>3. FewBehind' BY <2>1 DEF FewBehind
  <2>4. CASE more
    <3>1. /\ transfer_count' < Total /\ read_ptr' = Address(read_ptr + 1)
          /\ wait_for_data' /\ transfer_active'
      BY <1>1, <1>2, <1>3, <1>4, <1>10, <2>1, <2>4
    <3>2. /\ trigger_ptr - Pre + transfer_count \in Int
          /\ -BUFFER_DEPTH <= trigger_ptr - Pre + transfer_count
          /\ trigger_ptr - Pre + transfer_count + 1 < 2 * BUFFER_DEPTH
      BY <1>2, <1>3, <1>4, Constants
    <3>3. trigger_ptr - Pre + transfer_count + 1 = trigger_ptr - Pre + (transfer_count + 1)
      BY <1>2, <1>4, Constants
    <3>4. read_ptr' = Address(trigger_ptr - Pre + (transfer_count + 1))
      BY <1>3, <3>1, <3>2, <3>3, AddressNext
    <3>5. Sending' BY <1>1, <1>3, <2>1, <3>1, <3>4 DEF Sending
    <3> QED BY <1>7, <2>2, <2>3, <3>5 DEF CaptureParts
  <2>5. CASE ~more
    <3>1. transfer_count = Scope!last_index BY <1>2, <1>3, <1>4, <1>5, <2>1, <2>5
    <3>2. scope_state' = "DONE" BY <1>1, <1>10, <3>1
    <3>3. Sending' BY <3>2 DEF Sending
    <3> QED BY <1>7, <2>2, <2>3, <3>3 DEF CaptureParts
  <2> QED BY <2>4, <2>5
<1> QED BY <1>9, <1>10

LEMMA RestStep ==
  ASSUME WindowsFit, CaptureInv, NEW tready, ScopeEdge(tready), scope_state \in {"IDLE", "DONE"}
  PROVE  CaptureParts'
<1>1. /\ scope_state' \in {"IDLE", "ARMED", "DONE"}
      /\ UNCHANGED <<sample_buffer, write_ptr, trigger_ptr, post_count, transfer_count>>
  BY DEF ScopeEdge, Scope!Clock, Scope!IdleEdge, Scope!ArmedEdge,
       Scope!TriggeredEdge, Scope!TransferEdge, Scope!DoneEdge
<1>2. ScopeTypes' BY <1>1 DEF CaptureInv, TypeInv, ScopeTypes, Scope!States
<1> QED BY <1>1, <1>2 DEF CaptureParts, MarkKept, FewBehind, Sending

LEMMA CaptureStep ==
  ASSUME WindowsFit, CaptureInv, NEW tready, ScopeEdge(tready), Marks,
         Pre' = Pre, Post' = Post, Total' = Total
  PROVE  CaptureParts'
<1>1. scope_state \in {"IDLE", "ARMED", "TRIGGERED", "TRANSFER", "DONE"}
  BY DEF CaptureInv, TypeInv, ScopeTypes, Scope!States
<1> QED BY <1>1, ArmedStep, TriggeredStep, TransferStep, RestStep

-----------------------------------------------------------------------------
LEMMA CrossingStep ==
  ASSUME WindowsFit, CaptureInv, NEW tready, ScopeEdge(tready), NEW tvalid, NEW sample,
         Ch0!Clock(tvalid, sample, trig0_m_tready),
         crossing' = IF trig0_out' /\ scope_state = "ARMED" /\ tvalid
                     THEN sample_pipe[PIPE_STAGES - 2].number ELSE Unwritten
  PROVE  PipeTypes' /\ CrossingLeaves'
<1>1. PipeTypes' BY PipeStep DEF CaptureInv, TypeInv
<1>2. ASSUME crossing' # Unwritten
      PROVE  /\ scope_state' \in {"ARMED", "TRIGGERED"}
             /\ valid_pipe'[Out] /\ crossing' = sample_pipe'[Out].number
  <2>1. /\ trig0_out' /\ scope_state = "ARMED" /\ tvalid
        /\ crossing' = sample_pipe[PIPE_STAGES - 2].number
    BY <1>2
  <2>2. Ch0!s_axis_tready(trig0_m_tready)
    BY <2>1 DEF Ch0!s_axis_tready, trig0_m_tready, Scope!s_axis_tready
  <2>3. /\ sample_pipe'[Out] = sample_pipe[PIPE_STAGES - 2]
        /\ valid_pipe'[Out] = valid_pipe[PIPE_STAGES - 2] /\ valid_pipe[PIPE_STAGES - 2]
    BY <2>1, <2>2, PipeStep DEF CaptureInv, TypeInv
  <2>4. scope_state' \in {"ARMED", "TRIGGERED"} BY <2>1, StateStep DEF CaptureInv
  <2> QED BY <2>1, <2>3, <2>4
<1> QED BY <1>1, <1>2 DEF CrossingLeaves

LEMMA CauseStep ==
  ASSUME WindowsFit, CaptureInv, NEW tready, ScopeEdge(tready),
         cause' = IF trig0_out THEN crossing ELSE Unwritten
  PROVE  CauseIsNewest'
<1> SUFFICES ASSUME cause' # Unwritten, scope_state' = "ARMED"
             PROVE  cause' = sample_buffer'[Address(write_ptr' - 1)]
  BY DEF CauseIsNewest, Address
<1>1. cause' = crossing /\ crossing # Unwritten OBVIOUS
<1>2. /\ scope_state \in {"ARMED", "TRIGGERED"}
      /\ valid_pipe[Out] /\ crossing = sample_pipe[Out].number
  BY <1>1 DEF CaptureInv, ScopeInv, CrossingLeaves
<1>3. scope_state = "ARMED" BY <1>2, StateStep DEF CaptureInv
<1>4. Scope!WriteSample(trig0_m_tvalid, trig0_m_tdata)
  BY <1>3 DEF ScopeEdge, Scope!Clock, Scope!IdleEdge, Scope!ArmedEdge,
       Scope!TriggeredEdge, Scope!TransferEdge, Scope!DoneEdge
<1>5. /\ sample_buffer' = [sample_buffer EXCEPT ![write_ptr] = sample_pipe[Out].number]
      /\ write_ptr' = Address(write_ptr + 1)
  BY <1>2, <1>4, WriteStep DEF CaptureInv
<1>6. write_ptr \in 0 .. BUFFER_DEPTH - 1 /\ DOMAIN sample_buffer = 0 .. BUFFER_DEPTH - 1
  BY DEF CaptureInv, TypeInv, ScopeTypes
<1>7. Address(write_ptr' - 1) = write_ptr BY <1>5, <1>6, AddressBack
<1> QED BY <1>1, <1>2, <1>5, <1>6, <1>7

-----------------------------------------------------------------------------
LEMMA CaptureInit == ASSUME WindowsFit, Init PROVE CaptureInv
<1>1. Configured
  BY DEF Init, Ch0!Init, Scope!Init, Configured
<1>2. ScopeTypes
  BY Constants DEF Init, Scope!Init, Scope!Addresses, ScopeTypes, Scope!States
<1>3. PipeTypes
  BY DEF Init, Ch0!Init, Ch0!EmptyPipe, Ch0!Stages, PipeTypes, Out
<1>4. ScopeInv
  BY DEF Init, Scope!Init, ScopeInv, CrossingLeaves, CauseIsNewest, MarkKept, FewBehind, Sending
<1> QED BY <1>1, <1>2, <1>3, <1>4 DEF CaptureInv, TypeInv

LEMMA CaptureEdge ==
  ASSUME WindowsFit, CaptureInv, NEW tvalid, NEW high, NEW pulse, NEW awready, NEW wready,
         NEW bvalid, Edge(tvalid, high, pulse, awready, wready, bvalid)
  PROVE  CaptureInv'
<1>1. /\ Ch0!Clock(tvalid, [number |-> sent, high |-> high], trig0_m_tready)
      /\ ScopeEdge(Writer!s_axis_tready) /\ Marks
      /\ crossing' = (IF trig0_out' /\ scope_state = "ARMED" /\ tvalid
                      THEN sample_pipe[PIPE_STAGES - 2].number ELSE Unwritten)
      /\ cause' = (IF trig0_out THEN crossing ELSE Unwritten)
      /\ scope_config' = [scope_config EXCEPT !.arm = FALSE] /\ trig0_config' = trig0_config
  BY DEF Edge, Follow, ScopeEdge, Marks
<1>2. Configured' /\ Pre' = Pre /\ Post' = Post /\ Total' = Total
  BY <1>1, SettingsKept DEF CaptureInv, TypeInv
<1>3. CaptureParts' BY <1>1, <1>2, CaptureStep
<1>4. PipeTypes' /\ CrossingLeaves' BY <1>1, CrossingStep
<1>5. CauseIsNewest' BY <1>1, CauseStep
<1> QED BY <1>2, <1>3, <1>4, <1>5 DEF CaptureInv, TypeInv, ScopeInv, CaptureParts

(* Arming touches one bit of the settings.                                 *)
LEMMA CaptureStill ==
  ASSUME WindowsFit, CaptureInv, ArmScope \/ UNCHANGED vars
  PROVE  CaptureInv'
<1>1. UNCHANGED <<ch0Vars, scopeRegisters, history>>
  BY DEF ArmScope, vars
<1>2. Configured' /\ Pre' = Pre /\ Post' = Post /\ Total' = Total
  <2>1. CASE ArmScope
    BY <2>1, SettingsKept DEF CaptureInv, TypeInv, ArmScope, ch0Vars
  <2>2. CASE UNCHANGED vars
    BY <2>2 DEF CaptureInv, TypeInv, vars, ch0Vars, Configured, Pre, Post, Total
  <2> QED BY <2>1, <2>2
<1>3. ScopeTypes' /\ PipeTypes'
  BY <1>1, <1>2 DEF CaptureInv, TypeInv, ScopeTypes, PipeTypes, ch0Vars, scopeRegisters
<1>4. ScopeInv'
  BY <1>1, <1>2 DEF CaptureInv, ScopeInv, CrossingLeaves, CauseIsNewest, MarkKept, FewBehind,
     Sending, ch0Vars, scopeRegisters, history, Address
<1> QED BY <1>2, <1>3, <1>4 DEF CaptureInv, TypeInv

LEMMA CaptureNext == ASSUME WindowsFit, CaptureInv, [Next]_vars PROVE CaptureInv'
  BY CaptureEdge, CaptureStill DEF Next, AnyEdge

(* The sample that crossed the threshold comes right after the pre_samples *)
(* samples before it, for every length of the delay, size of the buffer,   *)
(* mode of the combiner and window that fits: the sample path and the      *)
(* trigger path take equally many registers.                               *)
THEOREM CrossingComesAfterPre == ASSUME WindowsFit PROVE Spec => []CrossingAfterPre
<1>1. CaptureInv => CrossingAfterPre
  <2> SUFFICES ASSUME CaptureInv, Scope!m_axis_tvalid, transfer_count = Pre, mark # Unwritten
               PROVE  read_data_reg = mark
    BY DEF CrossingAfterPre, Scope!m_axis_tdata, Pre
  <2>1. scope_state = "TRANSFER" /\ ~wait_for_data BY DEF Scope!m_axis_tvalid
  <2>2. read_data_reg = sample_buffer[Address(trigger_ptr - Pre + Pre)]
    BY <2>1 DEF CaptureInv, ScopeInv, Sending
  <2>3. trigger_ptr \in 0 .. BUFFER_DEPTH - 1 /\ Pre \in Nat
    BY Settings DEF CaptureInv, TypeInv, ScopeTypes
  <2>4. trigger_ptr - Pre + Pre = trigger_ptr BY <2>3, Constants
  <2>5. Address(trigger_ptr) = trigger_ptr BY <2>3, AddressCases, Constants
  <2>6. mark = sample_buffer[trigger_ptr] BY <2>1 DEF CaptureInv, ScopeInv, MarkKept
  <2> QED BY <2>2, <2>4, <2>5, <2>6
<1>2. Init => CaptureInv BY CaptureInit
<1>3. CaptureInv /\ [Next]_vars => CaptureInv' BY CaptureNext
<1> QED BY <1>1, <1>2, <1>3, PTL DEF Spec
-----------------------------------------------------------------------------
(* From the scope to memory.                                               *)
Lanes == 0 .. SAMPLES_PER_WORD - 1
Slots == 0 .. FIFO_DEPTH - 1
Width == SAMPLES_PER_WORD

(* What is read from the buffer for place k of the window.                 *)
Window(k) == sample_buffer[Address(trigger_ptr - Pre + k)]

(* The word has what was sent of the samples q * Width and up.             *)
Holds(word, q) ==
  \A l \in Lanes : q * Width + l < transfer_count => word[l] = Window(q * Width + l)

WriterTypes ==
  /\ rw_config = [enable |-> TRUE, base_addr |-> BASE_ADDR, buffer_size |-> BUFFER_SIZE]
  /\ writer_state \in {"IDLE", "CALC", "ADDR", "DATA", "RESP"}
  /\ DOMAIN fifo_mem = Slots /\ fifo_rd_ptr \in Slots /\ fifo_level \in 0 .. FIFO_DEPTH
  /\ fifo_wr_ptr = (fifo_rd_ptr + fifo_level) % FIFO_DEPTH
  /\ DOMAIN sample_accumulator = Lanes /\ sample_idx \in Lanes
  /\ accumulator_valid \in BOOLEAN /\ last_seen \in BOOLEAN
  /\ burst_len \in Nat /\ beat_count \in Nat /\ write_offset \in Nat
  /\ DOMAIN axi_memory = BASE_ADDR .. BASE_ADDR + BUFFER_SIZE - 1

(* Nobody arms the scope again: one window is sent.                        *)
OneWindow ==
  /\ scope_config.arm => scope_state = "IDLE"
  /\ scope_state \in {"IDLE", "ARMED", "TRIGGERED"} => transfer_count = 0
  /\ scope_state = "DONE" => transfer_count = Total

(* The scope pauses after each sample, so that a closed word finds room.   *)
Paused ==
  accumulator_valid => ~Scope!m_axis_tvalid /\ fifo_level < FIFO_DEPTH /\ sample_idx = 0

(* The words of a burst are in the FIFO before it is announced.            *)
Covered ==
  /\ writer_state = "IDLE" /\ last_seen => fifo_level > 0 \/ accumulator_valid
  /\ writer_state = "CALC" => fifo_level >= 1
  /\ writer_state \in {"ADDR", "DATA", "RESP"} => burst_len < MAX_BURST_LEN
  /\ writer_state = "ADDR" => fifo_level >= burst_len + 1
  /\ writer_state = "DATA" =>
       beat_count <= burst_len /\ fifo_level >= burst_len + 1 - beat_count

(* Words closed and not yet in memory.                                     *)
InFlight == fifo_level + (IF accumulator_valid THEN 1 ELSE 0)

(* r words are in memory: how many samples that leaves,                    *)
Counted(r) ==
  /\ transfer_count < Total => transfer_count = (r + InFlight) * Width + sample_idx
  /\ transfer_count >= Total =>
       /\ sample_idx = 0
       /\ Total <= (r + InFlight) * Width /\ (r + InFlight) * Width < Total + Width

(* where they are,                                                         *)
Queued(r) ==
  /\ \A i \in 0 .. fifo_level - 1 : Holds(fifo_mem[(fifo_rd_ptr + i) % FIFO_DEPTH], r + i)
  /\ Holds(sample_accumulator, r + fifo_level)

Stored(r) ==
  \A k \in 0 .. transfer_count - 1 : k < r * Width => axi_memory[BASE_ADDR + k] = Window(k)

(* and where the next word goes.                                           *)
Located(r) ==
  /\ writer_state \in {"IDLE", "CALC"} /\ r * Width < Total => write_offset = r * Width
  /\ writer_state = "ADDR" => write_offset = r * Width /\ current_addr = BASE_ADDR + r * Width
  /\ writer_state = "DATA" =>
       /\ write_offset + beat_count * Width = r * Width
       /\ aw_addr = BASE_ADDR + write_offset /\ w_beat_count = beat_count
  /\ writer_state = "RESP" => write_offset + (burst_len + 1) * Width = r * Width

Sent(r) == Counted(r) /\ Queued(r) /\ Stored(r) /\ Located(r)

MemoryInv == WriterTypes /\ OneWindow /\ Paused /\ Covered /\ \E r \in Nat : Sent(r)

-----------------------------------------------------------------------------
(* From the source to the scope.                                           *)
Numbered ==
  /\ sent \in Nat
  /\ \A i \in 0 .. Out :
       /\ valid_pipe[i] <=> i < sent
       /\ valid_pipe[i] => sample_pipe[i].number = sent - 1 - i

(* c samples have come, each once: the buffer has the newest of them, and  *)
(* the last one may still be at the end of the pipeline.                   *)
Newest(c) ==
  /\ \A j \in 1 .. BUFFER_DEPTH :
       sample_buffer[Address(write_ptr - j)] = IF j <= c THEN c - j ELSE Unwritten
  /\ IF valid_pipe[Out] THEN c \in {sent - Out - 1, sent - Out} ELSE c = 0

(* The trigger sample among them, and how many came after it.              *)
MarkedAmong(c) ==
  /\ scope_state = "TRIGGERED" /\ mark # Unwritten =>
       /\ c = mark + post_count + 2 /\ mark \in Nat
       /\ trigger_ptr = Address(write_ptr - (post_count + 2))
  /\ scope_state \in {"TRANSFER", "DONE"} /\ mark # Unwritten =>
       /\ c >= mark + Post /\ c - mark + Pre <= BUFFER_DEPTH /\ mark \in Nat
       /\ trigger_ptr = Address(write_ptr - (c - mark))

SourceInv == Numbered /\ (~repeated => \E c \in Nat : Newest(c) /\ MarkedAmong(c))

(* The j-th newest sample is the next newest one after a write.            *)
LEMMA AddressAges ==
  ASSUME NEW p \in 0 .. BUFFER_DEPTH - 1, NEW j \in 2 .. BUFFER_DEPTH
  PROVE  /\ Address(Address(p + 1) - j) = Address(p - (j - 1))
         /\ Address(p - (j - 1)) # p /\ Address(p - (j - 1)) \in 0 .. BUFFER_DEPTH - 1
<1>1. Address(Address(p + 1) + (-j)) = Address((p + 1) + (-j))
  <2>1. /\ p + 1 \in Int /\ -BUFFER_DEPTH <= p + 1 /\ p + 1 < 2 * BUFFER_DEPTH
        /\ -j \in Int /\ -BUFFER_DEPTH <= -j /\ -j <= BUFFER_DEPTH
        /\ -BUFFER_DEPTH <= (p + 1) + (-j) /\ (p + 1) + (-j) < 2 * BUFFER_DEPTH
    BY Constants
  <2>2. ASSUME NEW i \in Int, NEW k \in Int, i = p + 1, k = -j
        PROVE  Address(Address(i) + k) = Address(i + k)
    BY <2>1, <2>2, AddressSum
  <2> QED BY <2>1, <2>2
<1>2. Address(p + 1) \in Int BY AddressCases, Constants
<1>3. Address(p + 1) + (-j) = Address(p + 1) - j /\ (p + 1) + (-j) = p - (j - 1)
  BY <1>2, Constants
<1>4. Address(p - (j - 1)) # p /\ Address(p - (j - 1)) \in 0 .. BUFFER_DEPTH - 1
  BY AddressCases, Constants
<1> QED BY <1>1, <1>3, <1>4

-----------------------------------------------------------------------------
(* What an edge does to the buffer and to the place of the capture.        *)
Takes == valid_pipe[Out] /\ scope_state \in {"ARMED", "TRIGGERED"}

LEMMA BufferStep ==
  ASSUME WindowsFit, CaptureInv, NEW tready, ScopeEdge(tready)
  PROVE  /\ Takes =>
              /\ sample_buffer' = [sample_buffer EXCEPT ![write_ptr] = sample_pipe[Out].number]
              /\ write_ptr' = Address(write_ptr + 1)
         /\ ~Takes => UNCHANGED <<sample_buffer, write_ptr>>
<1> USE DEF ScopeEdge, Scope!Clock, Scope!IdleEdge, Scope!ArmedEdge, Scope!TriggeredEdge,
            Scope!TransferEdge, Scope!DoneEdge, CaptureInv
<1>1. CASE scope_state \in {"ARMED", "TRIGGERED"}
  <2>1. Scope!WriteSample(trig0_m_tvalid, trig0_m_tdata) BY <1>1
  <2> QED BY <1>1, <2>1, WriteStep DEF Takes
<1>2. CASE scope_state \notin {"ARMED", "TRIGGERED"}
  <2>1. UNCHANGED <<sample_buffer, write_ptr>> BY <1>2
  <2> QED BY <1>2, <2>1 DEF Takes
<1> QED BY <1>1, <1>2

LEMMA PlaceStep ==
  ASSUME WindowsFit, CaptureInv, NEW tready, ScopeEdge(tready)
  PROVE  /\ scope_state = "ARMED" /\ scope_trigger =>
              /\ scope_state' = "TRIGGERED" /\ post_count' = 0
              /\ trigger_ptr' = Address(write_ptr - 1)
         /\ scope_state = "ARMED" /\ ~scope_trigger => scope_state' = "ARMED"
         /\ scope_state = "TRIGGERED" =>
              /\ UNCHANGED trigger_ptr
              /\ \/ scope_state' = "TRANSFER" /\ post_count + 2 >= Post
                 \/ /\ scope_state' = "TRIGGERED" /\ post_count + 2 < Post
                    /\ valid_pipe[Out] => post_count' = post_count + 1
         /\ scope_state \in {"IDLE", "TRANSFER", "DONE"} =>
              /\ UNCHANGED trigger_ptr /\ scope_state' # "TRIGGERED"
              /\ scope_state' \in {"TRANSFER", "DONE"} => scope_state \in {"TRANSFER", "DONE"}
<1> USE DEF ScopeEdge, Scope!Clock, Scope!IdleEdge, Scope!ArmedEdge, Scope!TriggeredEdge,
            Scope!TransferEdge, Scope!DoneEdge, CaptureInv
<1>1. Pre \in Nat /\ Post \in Nat /\ Total + 1 <= BUFFER_DEPTH /\ Total = Pre + Post
      /\ scope_config.enable = TRUE
  BY Settings DEF TypeInv, Total
<1>2. CASE scope_state = "ARMED"
  BY <1>1, <1>2 DEF Scope!Address, Address
<1>3. CASE scope_state = "TRIGGERED"
  <2>1. /\ UNCHANGED trigger_ptr
        /\ post_count' = IF trig0_m_tvalid THEN (post_count + 1) % COUNT_MOD ELSE post_count
        /\ \/ post_count + 2 >= Post /\ scope_state' = "TRANSFER"
           \/ ~(post_count + 2 >= Post) /\ scope_state' = "TRIGGERED"
    BY <1>3 DEF Scope!StartTransfer, Scope!PostComplete, Post
  <2>2. post_count \in 0 .. COUNT_MOD - 1 BY DEF TypeInv, ScopeTypes
  <2>3. post_count + 2 < Post => (post_count + 1) % COUNT_MOD = post_count + 1
    BY <1>1, <2>2, Constants
  <2>4. trig0_m_tvalid <=> valid_pipe[Out]
    BY Settings DEF TypeInv, trig0_m_tvalid, Ch0!m_axis_tvalid, Out
  <2> QED BY <1>1, <1>3, <2>1, <2>2, <2>3, <2>4, Constants
<1>4. CASE scope_state \in {"IDLE", "TRANSFER", "DONE"}
  BY <1>4
<1> QED BY <1>2, <1>3, <1>4

-----------------------------------------------------------------------------
(* The numbers of the samples.                                             *)
Follows(tvalid) ==
  /\ sent' = (IF tvalid /\ Ch0!s_axis_tready(trig0_m_tready) THEN sent + 1 ELSE sent)
  /\ ~repeated' =>
       /\ ~repeated
       /\ Takes => sample_pipe[Out].number # sample_buffer[Address(write_ptr - 1)]

LEMMA NumberStep ==
  ASSUME Numbered, PipeTypes, NEW tvalid, NEW high,
         Ch0!Clock(tvalid, [number |-> sent, high |-> high], trig0_m_tready), Follows(tvalid)
  PROVE  Numbered' /\ sent' \in {sent, sent + 1}
<1>1. Out \in Nat /\ Ch0!Stages = 0 .. Out BY Constants DEF Out, Ch0!Stages
<1>2. Ch0!proc_sample_pipeline(tvalid /\ Ch0!s_axis_tready(trig0_m_tready),
                               [number |-> sent, high |-> high])
  BY DEF Ch0!Clock
<1>3. CASE tvalid /\ Ch0!s_axis_tready(trig0_m_tready)
  <2>1. /\ sample_pipe' = [i \in 0 .. Out |-> IF i = 0 THEN [number |-> sent, high |-> high]
                                              ELSE sample_pipe[i - 1]]
        /\ valid_pipe' = [i \in 0 .. Out |-> IF i = 0 THEN TRUE ELSE valid_pipe[i - 1]]
        /\ sent' = sent + 1
    BY <1>1, <1>2, <1>3 DEF Ch0!proc_sample_pipeline, Follows
  <2>2. ASSUME NEW i \in 0 .. Out
        PROVE  /\ valid_pipe'[i] <=> i < sent'
               /\ valid_pipe'[i] => sample_pipe'[i].number = sent' - 1 - i
    <3>1. CASE i = 0 BY <1>1, <2>1, <3>1 DEF Numbered
    <3>2. CASE i # 0
      <4>1. /\ i - 1 \in 0 .. Out /\ valid_pipe'[i] = valid_pipe[i - 1]
            /\ sample_pipe'[i] = sample_pipe[i - 1]
        BY <1>1, <2>1, <3>2
      <4>2. sent \in Nat BY DEF Numbered
      <4>3. /\ valid_pipe[i - 1] <=> i - 1 < sent
            /\ valid_pipe[i - 1] => sample_pipe[i - 1].number = sent - 1 - (i - 1)
        BY <4>1 DEF Numbered
      <4> QED BY <1>1, <2>1, <4>1, <4>2, <4>3
    <3> QED BY <3>1, <3>2
  <2> QED BY <2>1, <2>2 DEF Numbered
<1>4. CASE ~(tvalid /\ Ch0!s_axis_tready(trig0_m_tready))
  <2>1. UNCHANGED <<sample_pipe, valid_pipe, sent>>
    BY <1>2, <1>4 DEF Ch0!proc_sample_pipeline, Follows
  <2> QED BY <2>1 DEF Numbered
<1> QED BY <1>3, <1>4

(* The scope takes the sample at the end of the pipeline: its number is    *)
(* the next one, because the sample before it is not taken twice.          *)
LEMMA NextNumber ==
  ASSUME CaptureInv, Numbered, NEW tvalid, Follows(tvalid), ~repeated',
         NEW c \in Nat, Newest(c), Takes
  PROVE  c = sent - Out - 1 /\ sample_pipe[Out].number = c
<1>1. Out \in Nat /\ Out \in 0 .. Out /\ sent \in Nat BY Constants DEF Out, Numbered
<1>2. sample_pipe[Out].number = sent - 1 - Out /\ Out < sent
  BY <1>1 DEF Takes, Numbered
<1>3. c \in {sent - Out - 1, sent - Out} BY DEF Newest, Takes
<1>4. c # sent - Out
  <2> SUFFICES ASSUME c = sent - Out PROVE FALSE
    OBVIOUS
  <2>1. 1 \in 1 .. BUFFER_DEPTH BY Constants
  <2>2. sample_buffer[Address(write_ptr - 1)] = IF 1 <= c THEN c - 1 ELSE Unwritten
    BY <2>1 DEF Newest
  <2>3. 1 <= c /\ c - 1 = sent - 1 - Out BY <1>1, <1>2
  <2>4. sample_pipe[Out].number # sample_buffer[Address(write_ptr - 1)] BY DEF Follows
  <2> QED BY <1>2, <2>2, <2>3, <2>4
<1> QED BY <1>1, <1>2, <1>3, <1>4

LEMMA OneMore ==
  ASSUME NEW o \in Nat, NEW n \in Nat, NEW m, m \in {n, n + 1}, NEW d, d = n - o
  PROVE  d \in {m - o - 1, m - o}
<1>1. CASE m = n BY <1>1
<1>2. CASE m = n + 1
  <2>1. m - o - 1 = n - o BY <1>2
  <2> QED BY <2>1
<1> QED BY <1>1, <1>2

LEMMA TakenStep ==
  ASSUME WindowsFit, CaptureInv, Numbered, NEW tvalid, Follows(tvalid), ~repeated',
         NEW tready, ScopeEdge(tready), Numbered', sent' \in {sent, sent + 1},
         NEW c \in Nat, Newest(c), Takes, NEW d \in Nat, d = c + 1
  PROVE  Newest(d)'
<1>1. /\ c = sent - Out - 1 /\ sample_pipe[Out].number = c
  BY NextNumber
<1>2. /\ sample_buffer' = [sample_buffer EXCEPT ![write_ptr] = c]
      /\ write_ptr' = Address(write_ptr + 1)
  BY <1>1, BufferStep
<1>3. write_ptr \in 0 .. BUFFER_DEPTH - 1 /\ DOMAIN sample_buffer = 0 .. BUFFER_DEPTH - 1
  BY DEF CaptureInv, TypeInv, ScopeTypes
<1>4. ASSUME NEW j \in 1 .. BUFFER_DEPTH
      PROVE  sample_buffer'[Address(write_ptr' - j)] = IF j <= d THEN d - j ELSE Unwritten
  <2>1. CASE j = 1
    <3>1. Address(write_ptr' - 1) = write_ptr BY <1>2, <1>3, AddressBack
    <3>2. sample_buffer'[write_ptr] = c BY <1>2, <1>3
    <3> QED BY <2>1, <3>1, <3>2
  <2>2. CASE j # 1
    <3>1. j \in 2 .. BUFFER_DEPTH /\ j - 1 \in 1 .. BUFFER_DEPTH BY <2>2, Constants
    <3>2. /\ Address(write_ptr' - j) = Address(write_ptr - (j - 1))
          /\ Address(write_ptr - (j - 1)) # write_ptr
          /\ Address(write_ptr - (j - 1)) \in 0 .. BUFFER_DEPTH - 1
      BY <1>2, <1>3, <3>1, AddressAges
    <3>3. sample_buffer'[Address(write_ptr' - j)] = sample_buffer[Address(write_ptr - (j - 1))]
      BY <1>2, <1>3, <3>2
    <3>4. sample_buffer[Address(write_ptr - (j - 1))]
            = IF j - 1 <= c THEN c - (j - 1) ELSE Unwritten
      BY <3>1 DEF Newest
    <3> QED BY <3>1, <3>3, <3>4
  <2> QED BY <2>1, <2>2
<1>5. IF valid_pipe'[Out] THEN d \in {sent' - Out - 1, sent' - Out} ELSE d = 0
  <2>1. Out \in Nat /\ Out \in 0 .. Out /\ sent \in Nat BY Constants DEF Out, Numbered
  <2>2. Out < sent BY <2>1 DEF Takes, Numbered
  <2>3. valid_pipe'[Out]
    <3>1. valid_pipe'[Out] <=> Out < sent' BY <2>1 DEF Numbered
    <3> QED BY <2>1, <2>2, <3>1
  <2>4. d = sent - Out BY <1>1, <2>1
  <2>5. d \in {sent' - Out - 1, sent' - Out} BY <2>1, <2>4, OneMore
  <2> QED BY <2>3, <2>5
<1> QED BY <1>4, <1>5 DEF Newest, Address, Out

LEMMA Reaches ==
  ASSUME NEW o \in Nat, NEW n \in Nat, NEW m, m \in {n, n + 1}, ~(o < n), o < m
  PROVE  0 = m - o - 1
OBVIOUS

(* An edge at which the scope takes nothing: the pipeline is still filling *)
(* up, or the scope holds it back.                                         *)
LEMMA WaitingStep ==
  ASSUME WindowsFit, CaptureInv, Numbered, NEW tvalid, NEW high, Follows(tvalid),
         Ch0!Clock(tvalid, [number |-> sent, high |-> high], trig0_m_tready),
         NEW tready, ScopeEdge(tready), Numbered', sent' \in {sent, sent + 1},
         NEW c \in Nat, Newest(c), ~Takes
  PROVE  Newest(c)'
<1>1. UNCHANGED <<sample_buffer, write_ptr>> BY BufferStep
<1>2. Out \in Nat /\ Out \in 0 .. Out /\ sent \in Nat BY Constants DEF Out, Numbered
<1>3. /\ valid_pipe[Out] <=> Out < sent
      /\ valid_pipe'[Out] <=> Out < sent'
  BY <1>2 DEF Numbered
<1>4. CASE valid_pipe[Out]
  <2>1. ~Ch0!s_axis_tready(trig0_m_tready)
    BY <1>4, Settings DEF Takes, CaptureInv, TypeInv, trig0_m_tready, Scope!s_axis_tready,
         Ch0!s_axis_tready, Ch0!m_axis_tvalid, Out
  <2>2. UNCHANGED <<valid_pipe, sent>>
    BY <2>1 DEF Ch0!Clock, Ch0!proc_sample_pipeline, Follows
  <2> QED BY <1>1, <2>2 DEF Newest, Address
<1>5. CASE ~valid_pipe[Out]
  <2>1. c = 0 BY <1>5 DEF Newest
  <2>2. IF valid_pipe'[Out] THEN c \in {sent' - Out - 1, sent' - Out} ELSE c = 0
    <3>1. ~(Out < sent) BY <1>3, <1>5
    <3>2. Out < sent' => 0 = sent' - Out - 1 BY <1>2, <3>1, Reaches
    <3> QED BY <1>3, <2>1, <3>2
  <2>3. \A j \in 1 .. BUFFER_DEPTH :
          sample_buffer'[Address(write_ptr' - j)] = IF j <= c THEN c - j ELSE Unwritten
    BY <1>1 DEF Newest
  <2> QED BY <2>2, <2>3 DEF Newest, Address, Out
<1> QED BY <1>4, <1>5

(* The trigger sample keeps its place among them.                          *)
LEMMA MarkArmed ==
  ASSUME WindowsFit, CaptureInv, Marks, NEW tready, ScopeEdge(tready), scope_state = "ARMED",
         NEW c \in Nat, Newest(c), NEW d \in Nat, d = IF Takes THEN c + 1 ELSE c
  PROVE  MarkedAmong(d)'
<1>1. CASE ~scope_trigger
  BY <1>1, PlaceStep DEF MarkedAmong
<1>2. CASE scope_trigger
  <2>1. /\ scope_state' = "TRIGGERED" /\ post_count' = 0 /\ mark' = cause
        /\ trigger_ptr' = Address(write_ptr - 1)
    BY <1>2, PlaceStep DEF Marks
  <2> SUFFICES ASSUME cause # Unwritten
               PROVE  /\ d = cause + 0 + 2 /\ cause \in Nat
                      /\ trigger_ptr' = Address(write_ptr' - (0 + 2))
    BY <2>1 DEF MarkedAmong, Address
  <2>2. 1 \in 1 .. BUFFER_DEPTH BY Constants
  <2>3. cause = sample_buffer[Address(write_ptr - 1)]
    BY DEF CaptureInv, ScopeInv, CauseIsNewest
  <2>4. 1 <= c /\ cause = c - 1 BY <2>2, <2>3 DEF Newest
  <2>5. Takes BY <2>4 DEF Newest, Takes
  <2>6. write_ptr' = Address(write_ptr + 1) BY <2>5, BufferStep
  <2>7. write_ptr \in 0 .. BUFFER_DEPTH - 1 /\ 2 \in 2 .. BUFFER_DEPTH
    BY Settings, Constants DEF CaptureInv, TypeInv, ScopeTypes
  <2>8. Address(Address(write_ptr + 1) - 2) = Address(write_ptr - (2 - 1))
    BY <2>7, AddressAges
  <2> QED BY <2>1, <2>4, <2>5, <2>6, <2>8
<1> QED BY <1>1, <1>2

LEMMA MarkTriggered ==
  ASSUME WindowsFit, CaptureInv, Marks, NEW tready, ScopeEdge(tready),
         Pre' = Pre, Post' = Post, scope_state = "TRIGGERED",
         NEW c \in Nat, Newest(c), MarkedAmong(c), NEW d \in Nat, d = IF Takes THEN c + 1 ELSE c
  PROVE  MarkedAmong(d)'
<1>1. CASE mark = Unwritten
  BY <1>1 DEF Marks, MarkedAmong
<1>2. CASE mark # Unwritten
  <2>1. /\ c = mark + post_count + 2 /\ mark \in Nat /\ mark' = mark
        /\ trigger_ptr = Address(write_ptr - (post_count + 2))
    BY <1>2 DEF MarkedAmong, Marks
  <2>2. /\ write_ptr \in 0 .. BUFFER_DEPTH - 1 /\ post_count \in Nat
        /\ post_count = 0 \/ post_count + 2 <= Post
        /\ Pre \in Nat /\ Post \in Nat /\ Pre + Post + 1 <= BUFFER_DEPTH
        /\ Pre + 3 <= BUFFER_DEPTH
    BY Settings, Constants DEF CaptureInv, TypeInv, ScopeTypes, Total
  <2>3. valid_pipe[Out] /\ Takes BY <2>1, <2>2 DEF Newest, Takes
  <2>4. /\ d = mark + post_count + 3 /\ write_ptr' = Address(write_ptr + 1)
    BY <2>1, <2>2, <2>3, BufferStep
  <2>5. post_count + 3 \in 2 .. BUFFER_DEPTH BY <2>2, Constants
  <2>6. Address(Address(write_ptr + 1) - (post_count + 3))
          = Address(write_ptr - ((post_count + 3) - 1))
    BY <2>2, <2>5, AddressAges
  <2>7. write_ptr - ((post_count + 3) - 1) = write_ptr - (post_count + 2)
    BY <2>2, Constants
  <2>8. trigger_ptr = Address(write_ptr' - (post_count + 3))
    BY <2>1, <2>4, <2>6, <2>7
  <2>9. trigger_ptr' = trigger_ptr BY PlaceStep
  <2>10. CASE scope_state' = "TRANSFER" /\ post_count + 2 >= Post
    <3>1. d - mark = post_count + 3 BY <2>1, <2>2, <2>4
    <3>2. d >= mark + Post /\ d - mark + Pre <= BUFFER_DEPTH
      BY <2>1, <2>2, <2>4, <2>10, Constants
    <3> QED BY <2>1, <2>8, <2>9, <2>10, <3>1, <3>2 DEF MarkedAmong, Address
  <2>11. CASE scope_state' = "TRIGGERED" /\ post_count' = post_count + 1
    <3>1. post_count' + 2 = post_count + 3 /\ d = mark + post_count' + 2
      BY <2>1, <2>2, <2>4, <2>11
    <3> QED BY <2>1, <2>8, <2>9, <2>11, <3>1 DEF MarkedAmong, Address
  <2> QED BY <2>3, <2>10, <2>11, PlaceStep
<1> QED BY <1>1, <1>2

LEMMA MarkStep ==
  ASSUME WindowsFit, CaptureInv, Marks, NEW tready, ScopeEdge(tready),
         Pre' = Pre, Post' = Post,
         NEW c \in Nat, Newest(c), MarkedAmong(c), NEW d \in Nat, d = IF Takes THEN c + 1 ELSE c
  PROVE  MarkedAmong(d)'
<1>1. CASE scope_state \in {"IDLE", "TRANSFER", "DONE"}
  <2>1. /\ UNCHANGED trigger_ptr /\ scope_state' # "TRIGGERED" /\ mark' = mark
        /\ scope_state' \in {"TRANSFER", "DONE"} => scope_state \in {"TRANSFER", "DONE"}
    BY <1>1, PlaceStep DEF Marks
  <2>2. d = c /\ UNCHANGED write_ptr BY <1>1, BufferStep DEF Takes
  <2> QED BY <2>1, <2>2 DEF MarkedAmong, Address
<1>2. scope_state \in {"IDLE", "ARMED", "TRIGGERED", "TRANSFER", "DONE"}
  BY DEF CaptureInv, TypeInv, ScopeTypes, Scope!States
<1> QED BY <1>1, <1>2, MarkArmed, MarkTriggered

LEMMA SourceStep ==
  ASSUME WindowsFit, CaptureInv, SourceInv, NEW tvalid, NEW high, NEW pulse, NEW awready,
         NEW wready, NEW bvalid, Edge(tvalid, high, pulse, awready, wready, bvalid)
  PROVE  SourceInv'
<1>1. /\ Ch0!Clock(tvalid, [number |-> sent, high |-> high], trig0_m_tready)
      /\ ScopeEdge(Writer!s_axis_tready) /\ Marks
      /\ scope_config' = [scope_config EXCEPT !.arm = FALSE] /\ trig0_config' = trig0_config
  BY DEF Edge, Follow, ScopeEdge, Marks
<1>2. Pre' = Pre /\ Post' = Post
  BY <1>1, SettingsKept DEF CaptureInv, TypeInv
<1>3. Follows(tvalid)
  <2>1. /\ sent' = (IF tvalid /\ ch0_tready THEN sent + 1 ELSE sent)
        /\ repeated' = (\/ repeated
                        \/ /\ trig0_m_tvalid /\ trig0_m_tready
                           /\ trig0_m_tdata = sample_buffer[Scope!Address(write_ptr - 1)])
    BY DEF Edge, Follow
  <2>2. Takes => trig0_m_tvalid /\ trig0_m_tready
    BY Settings DEF Takes, CaptureInv, TypeInv, trig0_m_tvalid, Ch0!m_axis_tvalid, Out,
         trig0_m_tready, Scope!s_axis_tready
  <2>3. trig0_m_tdata = sample_pipe[Out].number
    BY DEF trig0_m_tdata, Ch0!m_axis_tdata, Out
  <2>4. Scope!Address(write_ptr - 1) = Address(write_ptr - 1) BY DEF Scope!Address, Address
  <2> QED BY <2>1, <2>2, <2>3, <2>4 DEF Follows, ch0_tready
<1>4. Numbered' /\ sent' \in {sent, sent + 1}
  BY <1>1, <1>3, NumberStep DEF SourceInv, CaptureInv, TypeInv
<1>5. ASSUME ~repeated'
      PROVE  \E c \in Nat : (Newest(c) /\ MarkedAmong(c))'
  <2>1. ~repeated BY <1>3, <1>5 DEF Follows
  <2>2. PICK c \in Nat : Newest(c) /\ MarkedAmong(c) BY <2>1 DEF SourceInv
  <2>3. CASE Takes
    <3>1. PICK d \in Nat : d = c + 1 OBVIOUS
    <3>2. Newest(d)'
      BY <1>1, <1>3, <1>4, <1>5, <2>2, <2>3, <3>1, TakenStep DEF SourceInv
    <3>3. MarkedAmong(d)' BY <1>1, <1>2, <2>2, <2>3, <3>1, MarkStep
    <3> QED BY <3>2, <3>3
  <2>4. CASE ~Takes
    <3>1. Newest(c)'
      BY <1>1, <1>3, <1>4, <2>2, <2>4, WaitingStep DEF SourceInv
    <3>2. MarkedAmong(c)' BY <1>1, <1>2, <2>2, <2>4, MarkStep
    <3> QED BY <3>1, <3>2
  <2> QED BY <2>3, <2>4
<1> QED BY <1>4, <1>5 DEF SourceInv

LEMMA SourceStill ==
  ASSUME WindowsFit, CaptureInv, SourceInv, ArmScope \/ UNCHANGED vars
  PROVE  SourceInv'
<1>1. UNCHANGED <<ch0Vars, scopeRegisters, history>>
  BY DEF ArmScope, vars
<1>2. Pre' = Pre /\ Post' = Post
  <2>1. CASE ArmScope
    BY <2>1, SettingsKept DEF CaptureInv, TypeInv, ArmScope, ch0Vars
  <2>2. CASE UNCHANGED vars BY <2>2 DEF vars, Pre, Post
  <2> QED BY <2>1, <2>2
<1>3. Numbered' BY <1>1 DEF SourceInv, Numbered, ch0Vars, history, Out
<1>4. ASSUME NEW c \in Nat, Newest(c), MarkedAmong(c)
      PROVE  (Newest(c) /\ MarkedAmong(c))'
  BY <1>1, <1>2, <1>4 DEF Newest, MarkedAmong, ch0Vars, scopeRegisters, history, Address, Out
<1>5. repeated' = repeated BY <1>1 DEF history
<1> QED BY <1>3, <1>4, <1>5 DEF SourceInv

LEMMA SourceInit == ASSUME WindowsFit, Init PROVE SourceInv
<1>1. /\ \A i \in 0 .. Out : valid_pipe[i] = FALSE
      /\ sent = 0 /\ scope_state = "IDLE" /\ write_ptr = 0
      /\ sample_buffer = [a \in 0 .. BUFFER_DEPTH - 1 |-> Unwritten]
  BY DEF Init, Ch0!Init, Scope!Init, Ch0!Stages, Scope!Addresses, Out
<1>2. Numbered BY <1>1 DEF Numbered
<1>3. Newest(0)
  <2>1. ASSUME NEW j \in 1 .. BUFFER_DEPTH
        PROVE  sample_buffer[Address(write_ptr - j)] = Unwritten
    <3>1. Address(0 - j) \in 0 .. BUFFER_DEPTH - 1 BY AddressCases, Constants
    <3> QED BY <1>1, <3>1
  <2>2. ~valid_pipe[Out]
    <3>1. Out \in 0 .. Out BY Constants DEF Out
    <3> QED BY <1>1, <3>1
  <2>3. \A j \in 1 .. BUFFER_DEPTH : ~(j <= 0) BY Constants
  <2> QED BY <2>1, <2>2, <2>3 DEF Newest
<1>4. MarkedAmong(0) BY <1>1 DEF MarkedAmong
<1> QED BY <1>2, <1>3, <1>4 DEF SourceInv

(* The window the scope reads is the one around the trigger sample.        *)
LEMMA WindowNumbers ==
  ASSUME WindowsFit, CaptureInv, SourceInv, ~repeated, mark >= Pre,
         scope_state \in {"TRANSFER", "DONE"}, NEW k \in 0 .. Total - 1
  PROVE  Window(k) = mark - Pre + k
<1>1. PICK c \in Nat : Newest(c) /\ MarkedAmong(c) BY DEF SourceInv
<1>2. Pre \in Nat /\ Post \in Nat /\ Total = Pre + Post /\ Pre + Post + 1 <= BUFFER_DEPTH
  BY Settings DEF CaptureInv, TypeInv, Total
<1>3. mark # Unwritten BY <1>2 DEF Unwritten
<1>4. /\ c >= mark + Post /\ c - mark + Pre <= BUFFER_DEPTH /\ mark \in Nat
      /\ trigger_ptr = Address(write_ptr - (c - mark))
  BY <1>1, <1>3 DEF MarkedAmong
<1>5. write_ptr \in 0 .. BUFFER_DEPTH - 1 BY DEF CaptureInv, TypeInv, ScopeTypes
<1>6. PICK i \in Int : i = write_ptr - (c - mark) BY <1>4, <1>5
<1>7. PICK s \in Int : s = k - Pre BY <1>2
<1>8. PICK j \in Int : j = c - mark + Pre - k BY <1>2, <1>4
<1>9. j \in 1 .. BUFFER_DEPTH /\ j <= c /\ c - j = mark - Pre + k
  BY <1>2, <1>4, <1>8, Constants
<1>10. /\ -BUFFER_DEPTH <= i /\ i < 2 * BUFFER_DEPTH /\ -BUFFER_DEPTH <= s /\ s <= BUFFER_DEPTH
       /\ i + s = write_ptr - j /\ -BUFFER_DEPTH <= i + s /\ i + s < 2 * BUFFER_DEPTH
  BY <1>2, <1>4, <1>5, <1>6, <1>7, <1>8, <1>9, Constants
<1>11. Address(trigger_ptr + s) = Address(write_ptr - j)
  BY <1>4, <1>6, <1>10, AddressSum
<1>12. trigger_ptr - Pre + k = trigger_ptr + s
  BY <1>2, <1>7, Constants DEF CaptureInv, TypeInv, ScopeTypes
<1>13. sample_buffer[Address(write_ptr - j)] = c - j BY <1>1, <1>9 DEF Newest
<1> QED BY <1>9, <1>11, <1>12, <1>13 DEF Window

-----------------------------------------------------------------------------
(* Words and slots.                                                        *)
Slot(i) == i % FIFO_DEPTH

(* The buffer in memory has room for a window.                             *)
WindowsFitMemory == \A w \in Windows : w.pre + w.post <= BUFFER_SIZE

LEMMA WriterConstants ==
  /\ Width \in Nat \ {0} /\ FIFO_DEPTH \in Nat \ {0} /\ MAX_BURST_LEN \in Nat \ {0}
  /\ MAX_BURST_LEN <= FIFO_DEPTH /\ LEN_MOD \in Nat \ {0} /\ MAX_BURST_LEN < LEN_MOD
  /\ ADDR_MOD \in Nat /\ BASE_ADDR \in Nat /\ BUFFER_SIZE \in Nat \ {0}
  /\ BASE_ADDR + BUFFER_SIZE <= ADDR_MOD
  BY ChainAssumption DEF Width

LEMMA WindowInBuffer ==
  ASSUME WindowsFit, WindowsFitMemory, Configured
  PROVE  Total \in Nat \ {0} /\ Total <= BUFFER_SIZE
  BY ChainAssumption DEF WindowsFit, WindowsFitMemory, Configured, Pre, Post, Total

LEMMA NextWord ==
  ASSUME NEW a \in Nat
  PROVE  a * Width \in Nat /\ (a + 1) * Width \in Nat /\ (a + 1) * Width = a * Width + Width
  BY WriterConstants

LEMMA MoreWords ==
  ASSUME NEW a \in Nat, NEW b \in Nat, a <= b
  PROVE  a * Width <= b * Width
  BY WriterConstants

LEMMA SlotSum ==
  ASSUME NEW a \in Slots, NEW m \in 0 .. FIFO_DEPTH, NEW n \in 0 .. FIFO_DEPTH,
         m + n <= FIFO_DEPTH
  PROVE  Slot(Slot(a + m) + n) = Slot(a + (m + n)) /\ Slot(a + m) \in Slots
<1>1. PICK i \in Int : i = a + m BY WriterConstants DEF Slots
<1>2. -FIFO_DEPTH <= i /\ i < 2 * FIFO_DEPTH /\ -FIFO_DEPTH <= n /\ n <= FIFO_DEPTH
      /\ n \in Int /\ -FIFO_DEPTH <= i + n /\ i + n < 2 * FIFO_DEPTH /\ i + n = a + (m + n)
  BY <1>1, WriterConstants DEF Slots
<1>3. ((i % FIFO_DEPTH) + n) % FIFO_DEPTH = (i + n) % FIFO_DEPTH
  BY <1>2, RingSum, WriterConstants
<1>4. i % FIFO_DEPTH \in Slots
  BY <1>2, RingCases, WriterConstants DEF Slots
<1> QED BY <1>1, <1>2, <1>3, <1>4 DEF Slot

LEMMA SlotApart ==
  ASSUME NEW a \in Slots, NEW n \in 0 .. FIFO_DEPTH - 1, NEW m \in 0 .. n - 1
  PROVE  Slot(a + m) # Slot(a + n)
<1>1. PICK i \in Int : i = a + m BY WriterConstants DEF Slots
<1>2. PICK j \in Int : j = a + n BY WriterConstants DEF Slots
<1>3. /\ -FIFO_DEPTH <= i /\ i < 2 * FIFO_DEPTH /\ -FIFO_DEPTH <= j /\ j < 2 * FIFO_DEPTH
      /\ i < j /\ j < i + FIFO_DEPTH
  BY <1>1, <1>2, WriterConstants DEF Slots
<1>4. PICK s \in {i, i + FIFO_DEPTH, i - FIFO_DEPTH} : s \in 0 .. FIFO_DEPTH - 1 /\ i % FIFO_DEPTH = s
  BY <1>3, RingTurn, WriterConstants
<1>5. PICK t \in {j, j + FIFO_DEPTH, j - FIFO_DEPTH} : t \in 0 .. FIFO_DEPTH - 1 /\ j % FIFO_DEPTH = t
  BY <1>3, RingTurn, WriterConstants
<1>6. s # t BY <1>3, <1>4, <1>5, WriterConstants
<1> QED BY <1>1, <1>2, <1>4, <1>5, <1>6 DEF Slot

-----------------------------------------------------------------------------
(* The sender during an edge.                                              *)
Handshake == Scope!m_axis_tvalid /\ fifo_level # FIFO_DEPTH

WriterReady ==
  rw_config = [enable |-> TRUE, base_addr |-> BASE_ADDR, buffer_size |-> BUFFER_SIZE]

SendStep ==
  /\ OneWindow' /\ transfer_count \in Nat /\ transfer_count <= Total
  /\ Handshake =>
       /\ transfer_count < Total /\ transfer_count' = transfer_count + 1
       /\ Scope!m_axis_tdata = Window(transfer_count)
       /\ Scope!m_axis_tlast <=> transfer_count + 1 = Total
       /\ ~Scope!m_axis_tvalid'
  /\ ~Handshake => transfer_count' = transfer_count
  /\ Handshake \/ transfer_count > 0 => UNCHANGED <<sample_buffer, trigger_ptr>>

LEMMA SendTransfer ==
  ASSUME WindowsFit, CaptureInv, OneWindow, WriterReady, ScopeEdge(Writer!s_axis_tready),
         scope_config'.arm = FALSE, Total' = Total, scope_state = "TRANSFER"
  PROVE  SendStep
<1>1. Writer!s_axis_tready <=> fifo_level # FIFO_DEPTH
  BY DEF Writer!s_axis_tready, Writer!fifo_full, WriterReady
<1>2. /\ UNCHANGED <<sample_buffer, trigger_ptr>>
      /\ \/ /\ Handshake /\ transfer_count' = (transfer_count + 1) % COUNT_MOD
            /\ scope_state' = IF transfer_count = Scope!last_index THEN "DONE" ELSE "TRANSFER"
            /\ transfer_active' = (transfer_count < Scope!last_index)
            /\ wait_for_data' = (transfer_count < Scope!last_index)
         \/ /\ ~Handshake /\ UNCHANGED <<scope_state, transfer_count>>
  BY <1>1 DEF ScopeEdge, Scope!Clock, Scope!IdleEdge, Scope!ArmedEdge,
       Scope!TriggeredEdge, Scope!TransferEdge, Scope!DoneEdge, Handshake
<1>3. /\ total_samples = Total /\ transfer_count < Total /\ transfer_count \in Nat
      /\ read_ptr = Address(trigger_ptr - Pre + transfer_count)
      /\ ~wait_for_data => read_data_reg = sample_buffer[read_ptr]
      /\ Total \in Nat \ {0} /\ Total + 1 <= BUFFER_DEPTH
  BY Settings, Constants DEF CaptureInv, TypeInv, ScopeTypes, ScopeInv, Sending
<1>4. Scope!last_index = Total - 1
  BY <1>3, Constants DEF Scope!last_index
<1>5. (transfer_count + 1) % COUNT_MOD = transfer_count + 1
  BY <1>3, Constants
<1>6. CASE ~Handshake
  <2>1. OneWindow' BY <1>2, <1>6 DEF OneWindow
  <2> QED BY <1>2, <1>3, <1>6, <2>1, Constants DEF SendStep
<1>7. CASE Handshake
  <2>1. /\ transfer_count' = transfer_count + 1 /\ UNCHANGED <<sample_buffer, trigger_ptr>>
        /\ scope_state' = IF transfer_count + 1 = Total THEN "DONE" ELSE "TRANSFER"
        /\ ~(transfer_count < Total - 1) => scope_state' = "DONE"
        /\ transfer_count < Total - 1 => wait_for_data'
    <3>1. /\ transfer_count' = transfer_count + 1 /\ UNCHANGED <<sample_buffer, trigger_ptr>>
          /\ scope_state' = IF transfer_count = Total - 1 THEN "DONE" ELSE "TRANSFER"
      BY <1>2, <1>4, <1>5, <1>7
    <3>2. wait_for_data' = (transfer_count < Total - 1)
      BY <1>2, <1>4, <1>7, Zenon
    <3>3. /\ transfer_count = Total - 1 <=> transfer_count + 1 = Total
          /\ ~(transfer_count < Total - 1) => transfer_count + 1 = Total
      BY <1>3
    <3> QED BY <3>1, <3>2, <3>3
  <2>2. ~Scope!m_axis_tvalid' BY <2>1 DEF Scope!m_axis_tvalid
  <2>3. Scope!m_axis_tdata = Window(transfer_count)
    BY <1>3, <1>7 DEF Handshake, Scope!m_axis_tvalid, Scope!m_axis_tdata, Window
  <2>4. Scope!m_axis_tlast <=> transfer_count + 1 = Total
    BY <1>3, <1>4, <1>7 DEF Scope!m_axis_tlast, Handshake
  <2>5. OneWindow' BY <1>3, <2>1 DEF OneWindow
  <2> QED BY <1>3, <1>7, <2>1, <2>2, <2>3, <2>4, <2>5, Constants DEF SendStep
<1> QED BY <1>6, <1>7

LEMMA SendOther ==
  ASSUME WindowsFit, CaptureInv, OneWindow, WriterReady, ScopeEdge(Writer!s_axis_tready),
         scope_config'.arm = FALSE, Total' = Total, scope_state # "TRANSFER"
  PROVE  SendStep
<1>1. ~Handshake BY DEF Handshake, Scope!m_axis_tvalid
<1>2. Total \in Nat \ {0} /\ scope_state \in {"IDLE", "ARMED", "TRIGGERED", "DONE"}
      /\ scope_config.enable = TRUE
  BY Settings DEF CaptureInv, TypeInv, ScopeTypes, Scope!States
<1>3. CASE scope_state = "DONE"
  <2>1. transfer_count = Total /\ ~scope_config.arm BY <1>3 DEF OneWindow
  <2>2. UNCHANGED <<sample_buffer, trigger_ptr, transfer_count, scope_state>>
    BY <1>2, <1>3, <2>1 DEF ScopeEdge, Scope!Clock, Scope!IdleEdge, Scope!ArmedEdge,
       Scope!TriggeredEdge, Scope!TransferEdge, Scope!DoneEdge
  <2>3. OneWindow' BY <1>3, <2>1, <2>2 DEF OneWindow
  <2> QED BY <1>1, <1>2, <2>1, <2>2, <2>3 DEF SendStep
<1>4. CASE scope_state # "DONE"
  <2>1. transfer_count = 0 BY <1>2, <1>4 DEF OneWindow
  <2>2. transfer_count' = 0 /\ scope_state' \in {"IDLE", "ARMED", "TRIGGERED", "TRANSFER"}
    BY <1>2, <1>4, <2>1 DEF ScopeEdge, Scope!Clock, Scope!IdleEdge, Scope!ArmedEdge,
       Scope!TriggeredEdge, Scope!StartTransfer, Scope!TransferEdge, Scope!DoneEdge
  <2>3. OneWindow' BY <2>2 DEF OneWindow
  <2> QED BY <1>1, <1>2, <2>1, <2>2, <2>3 DEF SendStep
<1> QED BY <1>3, <1>4

-----------------------------------------------------------------------------
(* The accumulator and the FIFO during an edge.                            *)
FifoStep(reads) ==
  /\ IF accumulator_valid
     THEN fifo_mem' = [fifo_mem EXCEPT ![Slot(fifo_rd_ptr + fifo_level)] = sample_accumulator]
     ELSE fifo_mem' = fifo_mem
  /\ reads => /\ fifo_level >= 1 /\ fifo_rd_ptr' = Slot(fifo_rd_ptr + 1)
              /\ fifo_level' = InFlight - 1
  /\ ~reads => fifo_rd_ptr' = fifo_rd_ptr /\ fifo_level' = InFlight
  /\ fifo_level \in 0 .. FIFO_DEPTH /\ (accumulator_valid => fifo_level < FIFO_DEPTH)
  /\ DOMAIN fifo_mem' = Slots /\ fifo_rd_ptr' \in Slots /\ fifo_level' \in 0 .. FIFO_DEPTH
  /\ fifo_wr_ptr' = Slot(fifo_rd_ptr' + fifo_level')

LEMMA FifoMoves ==
  ASSUME WriterTypes, Paused, NEW wready, Writer!proc_fifo(wready)
  PROVE  FifoStep(Writer!fifo_rd_en(wready))
<1> DEFINE reads == Writer!fifo_rd_en(wready)
<1>1. /\ fifo_level \in 0 .. FIFO_DEPTH /\ fifo_rd_ptr \in Slots /\ DOMAIN fifo_mem = Slots
      /\ fifo_wr_ptr = Slot(fifo_rd_ptr + fifo_level)
      /\ accumulator_valid => fifo_level < FIFO_DEPTH
  BY DEF WriterTypes, Slot, Paused
<1>2. reads => fifo_level >= 1
  BY <1>1 DEF Writer!fifo_rd_en, Writer!m_axi_wvalid, Writer!fifo_empty
<1>3. Writer!fifo_wr_en <=> accumulator_valid
  BY <1>1, WriterConstants DEF Writer!fifo_wr_en, Writer!fifo_full
<1>4. /\ accumulator_valid =>
           /\ fifo_mem' = [fifo_mem EXCEPT ![fifo_wr_ptr] = sample_accumulator]
           /\ fifo_wr_ptr' = Slot(fifo_wr_ptr + 1)
      /\ ~accumulator_valid => UNCHANGED <<fifo_mem, fifo_wr_ptr>>
      /\ fifo_rd_ptr' = IF reads THEN Slot(fifo_rd_ptr + 1) ELSE fifo_rd_ptr
      /\ fifo_level' = fifo_level + (IF accumulator_valid THEN 1 ELSE 0) - (IF reads THEN 1 ELSE 0)
  BY <1>3 DEF Writer!proc_fifo, Slot
<1> HIDE DEF reads
<1>5. /\ InFlight \in 0 .. FIFO_DEPTH /\ (reads => InFlight >= 1)
      /\ fifo_level' = IF reads THEN InFlight - 1 ELSE InFlight
      /\ fifo_level' \in 0 .. FIFO_DEPTH
  BY <1>1, <1>2, <1>4, WriterConstants DEF InFlight
<1>6. fifo_wr_ptr' = Slot(fifo_rd_ptr + InFlight)
  <2>1. CASE accumulator_valid
    <3>1. Slot(Slot(fifo_rd_ptr + fifo_level) + 1) = Slot(fifo_rd_ptr + (fifo_level + 1))
      BY <1>1, <2>1, SlotSum, WriterConstants
    <3> QED BY <1>1, <1>4, <2>1, <3>1 DEF InFlight
  <2>2. CASE ~accumulator_valid
    <3>1. InFlight = fifo_level BY <1>1, <2>2 DEF InFlight
    <3> QED BY <1>1, <1>4, <2>2, <3>1
  <2> QED BY <2>1, <2>2
<1>7. fifo_wr_ptr' = Slot(fifo_rd_ptr' + fifo_level') /\ fifo_rd_ptr' \in Slots
  <2>1. CASE reads
    <3>1. /\ 1 \in 0 .. FIFO_DEPTH /\ InFlight - 1 \in 0 .. FIFO_DEPTH
          /\ 1 + (InFlight - 1) = InFlight /\ InFlight <= FIFO_DEPTH
      BY <1>5, <2>1, WriterConstants
    <3>2. PICK m \in 0 .. FIFO_DEPTH : m = InFlight - 1 BY <3>1
    <3>3. Slot(Slot(fifo_rd_ptr + 1) + m) = Slot(fifo_rd_ptr + (1 + m)) /\ Slot(fifo_rd_ptr + 1) \in Slots
      BY <1>1, <3>1, <3>2, SlotSum
    <3> QED BY <1>4, <1>5, <1>6, <2>1, <3>1, <3>2, <3>3
  <2>2. CASE ~reads
    BY <1>1, <1>4, <1>5, <1>6, <2>2
  <2> QED BY <2>1, <2>2
<1>8. DOMAIN fifo_mem' = Slots BY <1>1, <1>4
<1>9. /\ IF accumulator_valid
         THEN fifo_mem' = [fifo_mem EXCEPT ![Slot(fifo_rd_ptr + fifo_level)] = sample_accumulator]
         ELSE fifo_mem' = fifo_mem
      /\ fifo_level \in 0 .. FIFO_DEPTH /\ (accumulator_valid => fifo_level < FIFO_DEPTH)
  BY <1>1, <1>4, WriterConstants
<1>10. FifoStep(reads) BY <1>2, <1>4, <1>5, <1>7, <1>8, <1>9 DEF FifoStep
<1> QED BY <1>10 DEF reads

AccumulatorStep ==
  /\ Handshake =>
       /\ ~accumulator_valid
       /\ sample_accumulator' = [sample_accumulator EXCEPT ![sample_idx] = Window(transfer_count)]
       /\ IF transfer_count + 1 = Total \/ sample_idx = Width - 1
          THEN accumulator_valid' /\ sample_idx' = 0
          ELSE ~accumulator_valid' /\ sample_idx' = sample_idx + 1
  /\ ~Handshake => ~accumulator_valid' /\ UNCHANGED <<sample_accumulator, sample_idx>>
  /\ DOMAIN sample_accumulator' = Lanes /\ sample_idx' \in Lanes
  /\ accumulator_valid' \in BOOLEAN /\ last_seen' \in BOOLEAN

LEMMA AccumulatorMoves ==
  ASSUME WriterTypes, Paused, SendStep, NEW bvalid,
         Writer!proc_accumulator(Scope!m_axis_tvalid, Scope!m_axis_tdata, Scope!m_axis_tlast,
                                 bvalid, bvalid)
  PROVE  AccumulatorStep
<1>1. Writer!s_axis_tready <=> fifo_level # FIFO_DEPTH
  BY DEF Writer!s_axis_tready, Writer!fifo_full, WriterTypes
<1> DEFINE completes == Handshake /\ (Scope!m_axis_tlast \/ sample_idx = SAMPLES_PER_WORD - 1)
<1>2. /\ accumulator_valid' = completes
      /\ sample_accumulator' =
            IF Handshake THEN [sample_accumulator EXCEPT ![sample_idx] = Scope!m_axis_tdata]
            ELSE sample_accumulator
      /\ sample_idx' = IF completes THEN 0 ELSE IF Handshake THEN sample_idx + 1 ELSE sample_idx
  <2>1. Scope!m_axis_tvalid /\ Writer!s_axis_tready <=> Handshake BY <1>1 DEF Handshake
  <2>2. (Scope!m_axis_tvalid /\ Writer!s_axis_tready) = Handshake BY <1>1, Zenon DEF Handshake
  <2> QED BY <2>1, <2>2, Zenon DEF Writer!proc_accumulator
<1>3. last_seen' \in BOOLEAN /\ accumulator_valid' \in BOOLEAN
  BY Zenon DEF Writer!proc_accumulator
<1>4. Handshake => ~accumulator_valid BY DEF Handshake, Paused
<1>5. DOMAIN sample_accumulator = Lanes /\ sample_idx \in Lanes BY DEF WriterTypes
<1>6. /\ Handshake => Scope!m_axis_tdata = Window(transfer_count)
      /\ Handshake => (Scope!m_axis_tlast <=> transfer_count + 1 = Total)
  BY DEF SendStep
<1>7. accumulator_valid' <=> completes BY <1>2
<1>8. CASE ~Handshake
  <2>1. ~completes BY <1>8
  <2> QED BY <1>2, <1>3, <1>5, <1>7, <1>8, <2>1 DEF AccumulatorStep
<1>9. CASE Handshake
  <2>1. completes <=> transfer_count + 1 = Total \/ sample_idx = Width - 1
    BY <1>6, <1>9 DEF Width
  <2>2. sample_accumulator' = [sample_accumulator EXCEPT ![sample_idx] = Window(transfer_count)]
    BY <1>2, <1>6, <1>9
  <2>3. DOMAIN sample_accumulator' = Lanes BY <1>5, <2>2
  <2>4. sample_idx' \in Lanes
    BY <1>2, <1>5, <1>9, <2>1, WriterConstants DEF Lanes, Width
  <2> HIDE DEF completes
  <2>5. IF transfer_count + 1 = Total \/ sample_idx = Width - 1
        THEN accumulator_valid' /\ sample_idx' = 0
        ELSE ~accumulator_valid' /\ sample_idx' = sample_idx + 1
    BY <1>2, <1>7, <1>9, <2>1
  <2> QED BY <1>3, <1>4, <1>9, <2>2, <2>3, <2>4, <2>5 DEF AccumulatorStep
<1> QED BY <1>8, <1>9

-----------------------------------------------------------------------------
(* Where the samples are after an edge, at which the FIFO loses `out`      *)
(* words, none or one.                                                     *)
Edges(reads) ==
  /\ SendStep /\ FifoStep(reads) /\ AccumulatorStep
  /\ Paused /\ WriterTypes /\ Total' = Total /\ Pre' = Pre /\ Total \in Nat \ {0}

HoldsNext(word, q) ==
  \A l \in Lanes :
    q * Width + l < transfer_count' =>
      word[l] = sample_buffer'[Address(trigger_ptr' - Pre' + (q * Width + l))]

LEMMA InFlightFacts ==
  ASSUME NEW reads, Edges(reads)
  PROVE  /\ InFlight \in 0 .. FIFO_DEPTH /\ fifo_level \in 0 .. FIFO_DEPTH
         /\ InFlight = IF accumulator_valid THEN fifo_level + 1 ELSE fifo_level
         /\ transfer_count \in Nat /\ transfer_count <= Total
         /\ sample_idx \in 0 .. Width - 1
  BY WriterConstants DEF Edges, FifoStep, InFlight, SendStep, WriterTypes, Lanes, Width

(* What a word has of the window it keeps, unless a sample comes that      *)
(* belongs there.                                                          *)
LEMMA HoldsStep ==
  ASSUME NEW reads, Edges(reads), NEW word, NEW q \in Nat, Holds(word, q),
         Handshake => (q + 1) * Width <= transfer_count
  PROVE  HoldsNext(word, q)
<1> SUFFICES ASSUME NEW l \in Lanes, q * Width + l < transfer_count'
             PROVE  word[l] = sample_buffer'[Address(trigger_ptr' - Pre' + (q * Width + l))]
  BY DEF HoldsNext
<1>1. q * Width \in Nat /\ (q + 1) * Width = q * Width + Width /\ l \in 0 .. Width - 1
  BY NextWord DEF Lanes, Width
<1>2. transfer_count \in Nat BY InFlightFacts
<1>3. q * Width + l < transfer_count
  <2>1. CASE Handshake
    BY <1>1, <1>2, <2>1, WriterConstants
  <2>2. CASE ~Handshake
    BY <2>2 DEF Edges, SendStep
  <2> QED BY <2>1, <2>2
<1>4. word[l] = sample_buffer[Address(trigger_ptr - Pre + (q * Width + l))]
  BY <1>3 DEF Holds, Window
<1>5. transfer_count > 0 BY <1>1, <1>2, <1>3
<1>6. UNCHANGED <<sample_buffer, trigger_ptr>> /\ Pre' = Pre
  BY <1>5 DEF Edges, SendStep
<1> QED BY <1>4, <1>6

(* The words that wait were closed before the samples that come now.       *)
LEMMA ClosedBefore ==
  ASSUME NEW reads, Edges(reads), NEW r \in Nat, Counted(r), Handshake,
         NEW q \in Nat, q < r + InFlight
  PROVE  (q + 1) * Width <= transfer_count
<1>1. transfer_count < Total /\ transfer_count = (r + InFlight) * Width + sample_idx
  BY DEF Counted, Edges, SendStep
<1>2. r + InFlight \in Nat /\ q + 1 \in Nat /\ q + 1 <= r + InFlight /\ sample_idx \in Nat
  BY InFlightFacts, WriterConstants
<1>3. PICK n \in Nat : n = r + InFlight BY <1>2
<1>4. (q + 1) * Width <= n * Width BY <1>2, <1>3, MoreWords
<1>5. n * Width \in Nat /\ (q + 1) * Width \in Nat BY <1>3, NextWord
<1> QED BY <1>1, <1>2, <1>3, <1>4, <1>5

(* Word i of the FIFO and the accumulator's word behind them.              *)
LEMMA QueueStep ==
  ASSUME NEW reads, Edges(reads), NEW r \in Nat, Counted(r), Queued(r),
         NEW i \in 0 .. InFlight - 1
  PROVE  HoldsNext(fifo_mem'[Slot(fifo_rd_ptr + i)], r + i)
<1>1. /\ InFlight \in 0 .. FIFO_DEPTH /\ fifo_level \in 0 .. FIFO_DEPTH
      /\ InFlight = IF accumulator_valid THEN fifo_level + 1 ELSE fifo_level
      /\ DOMAIN fifo_mem = Slots /\ fifo_rd_ptr \in Slots
      /\ r + i \in Nat /\ r + i < r + InFlight
  BY InFlightFacts DEF Edges, WriterTypes
<1>2. Handshake => ((r + i) + 1) * Width <= transfer_count
  BY <1>1, ClosedBefore
<1>3. CASE i < fifo_level
  <2>1. Holds(fifo_mem[Slot(fifo_rd_ptr + i)], r + i)
    BY <1>1, <1>3 DEF Queued, Slot
  <2>2. fifo_mem'[Slot(fifo_rd_ptr + i)] = fifo_mem[Slot(fifo_rd_ptr + i)]
    <3>1. CASE accumulator_valid
      <4>1. fifo_level \in 0 .. FIFO_DEPTH - 1 /\ i \in 0 .. fifo_level - 1
        BY <1>1, <1>3, <3>1, WriterConstants
      <4>2. Slot(fifo_rd_ptr + i) # Slot(fifo_rd_ptr + fifo_level)
        BY <1>1, <4>1, SlotApart
      <4>3. Slot(fifo_rd_ptr + i) \in Slots
        <5>1. i \in 0 .. FIFO_DEPTH /\ 0 \in 0 .. FIFO_DEPTH /\ i + 0 <= FIFO_DEPTH
          BY <1>1, <4>1, WriterConstants
        <5> QED BY <1>1, <5>1, SlotSum
      <4> QED BY <1>1, <3>1, <4>2, <4>3 DEF Edges, FifoStep
    <3>2. CASE ~accumulator_valid
      BY <3>2 DEF Edges, FifoStep
    <3> QED BY <3>1, <3>2
  <2> QED BY <1>1, <1>2, <2>1, <2>2, HoldsStep
<1>4. CASE ~(i < fifo_level)
  <2>1. accumulator_valid /\ i = fifo_level BY <1>1, <1>4
  <2>2. Holds(sample_accumulator, r + i) BY <2>1 DEF Queued
  <2>3. Slot(fifo_rd_ptr + fifo_level) \in Slots
    <3>1. 0 \in 0 .. FIFO_DEPTH /\ fifo_level + 0 <= FIFO_DEPTH BY <1>1, WriterConstants
    <3> QED BY <1>1, <3>1, SlotSum
  <2>4. fifo_mem'[Slot(fifo_rd_ptr + i)] = sample_accumulator
    BY <1>1, <2>1, <2>3 DEF Edges, FifoStep
  <2> QED BY <1>1, <1>2, <2>2, <2>4, HoldsStep
<1> QED BY <1>3, <1>4

LEMMA OpenStep ==
  ASSUME NEW reads, Edges(reads), NEW r \in Nat, Counted(r), Queued(r)
  PROVE  HoldsNext(sample_accumulator', r + InFlight)
<1>1. /\ InFlight \in 0 .. FIFO_DEPTH /\ fifo_level \in 0 .. FIFO_DEPTH
      /\ InFlight = IF accumulator_valid THEN fifo_level + 1 ELSE fifo_level
      /\ transfer_count \in Nat /\ transfer_count <= Total /\ sample_idx \in 0 .. Width - 1
  BY InFlightFacts
<1>2. PICK q \in Nat : q = r + InFlight BY <1>1, WriterConstants
<1>3. q * Width \in Nat BY <1>2, NextWord
<1>4. Holds(sample_accumulator, r + fifo_level) BY DEF Queued
<1>5. CASE Handshake
  <2>1. /\ transfer_count < Total /\ transfer_count' = transfer_count + 1 /\ ~accumulator_valid
        /\ UNCHANGED <<sample_buffer, trigger_ptr>> /\ Pre' = Pre
        /\ sample_accumulator' = [sample_accumulator EXCEPT ![sample_idx] = Window(transfer_count)]
    BY <1>5 DEF Edges, SendStep, AccumulatorStep
  <2>2. transfer_count = q * Width + sample_idx /\ q = r + fifo_level
    BY <1>1, <1>2, <2>1 DEF Counted
  <2>3. DOMAIN sample_accumulator = Lanes /\ sample_idx \in Lanes
    BY DEF Edges, WriterTypes
  <2>4. ASSUME NEW l \in Lanes, q * Width + l < transfer_count'
        PROVE  sample_accumulator'[l]
                 = sample_buffer'[Address(trigger_ptr' - Pre' + (q * Width + l))]
    <3>1. l \in 0 .. Width - 1 BY DEF Lanes, Width
    <3>2. CASE l = sample_idx
      <4>1. sample_accumulator'[l] = Window(transfer_count) BY <2>1, <2>3, <3>2
      <4> QED BY <2>1, <2>2, <3>2, <4>1 DEF Window
    <3>3. CASE l # sample_idx
      <4>1. q * Width + l < transfer_count BY <1>1, <1>3, <2>1, <2>2, <2>4, <3>1, <3>3
      <4>2. sample_accumulator[l] = Window(q * Width + l) BY <1>4, <2>2, <4>1 DEF Holds
      <4>3. sample_accumulator'[l] = sample_accumulator[l] BY <2>1, <2>3, <3>3
      <4> QED BY <2>1, <4>2, <4>3 DEF Window
    <3> QED BY <3>2, <3>3
  <2> QED BY <1>2, <2>4 DEF HoldsNext
<1>6. CASE ~Handshake /\ accumulator_valid
  <2>1. sample_idx = 0 /\ transfer_count' = transfer_count
    BY <1>6 DEF Edges, Paused, SendStep
  <2>2. transfer_count <= q * Width
    <3>1. CASE transfer_count < Total BY <1>2, <1>3, <2>1, <3>1 DEF Counted
    <3>2. CASE ~(transfer_count < Total)
      <4>1. Total \in Nat /\ transfer_count = Total BY <1>1, <3>2 DEF Edges
      <4> QED BY <1>2, <1>3, <4>1 DEF Counted
    <3> QED BY <3>1, <3>2
  <2>3. ASSUME NEW l \in Lanes PROVE ~(q * Width + l < transfer_count')
    <3>1. l \in Nat BY WriterConstants DEF Lanes
    <3> QED BY <1>1, <1>3, <2>1, <2>2, <3>1
  <2> QED BY <1>2, <2>3 DEF HoldsNext
<1>7. CASE ~Handshake /\ ~accumulator_valid
  <2>1. sample_accumulator' = sample_accumulator BY <1>7 DEF Edges, AccumulatorStep
  <2>2. Holds(sample_accumulator, q) BY <1>1, <1>2, <1>4, <1>7
  <2> QED BY <1>2, <1>7, <2>1, <2>2, HoldsStep
<1> QED BY <1>5, <1>6, <1>7

LEMMA InFlightStep ==
  ASSUME NEW reads, Edges(reads), NEW r \in Nat, NEW s \in Nat, s = IF reads THEN r + 1 ELSE r
  PROVE  s + fifo_level' = r + InFlight
         /\ s + InFlight' = IF accumulator_valid' THEN r + InFlight + 1 ELSE r + InFlight
<1>1. InFlight \in Nat /\ fifo_level' \in Nat
  BY InFlightFacts, WriterConstants DEF Edges, FifoStep
<1>2. fifo_level' = IF reads THEN InFlight - 1 ELSE InFlight
  BY DEF Edges, FifoStep
<1>3. InFlight' = IF accumulator_valid' THEN fifo_level' + 1 ELSE fifo_level'
  <2>1. PICK level \in Nat : level = fifo_level' BY <1>1
  <2>2. InFlight' = level + (IF accumulator_valid' THEN 1 ELSE 0) BY <2>1 DEF InFlight
  <2>3. level + 0 = level OBVIOUS
  <2> QED BY <2>1, <2>2, <2>3
<1> QED BY <1>1, <1>2, <1>3

LEMMA CountStep ==
  ASSUME NEW reads, Edges(reads), NEW r \in Nat, Counted(r),
         NEW s \in Nat, s = IF reads THEN r + 1 ELSE r
  PROVE  Counted(s)'
<1>1. /\ transfer_count \in Nat /\ transfer_count <= Total /\ sample_idx \in 0 .. Width - 1
      /\ InFlight \in Nat /\ Total \in Nat \ {0} /\ Total' = Total /\ Width \in Nat \ {0}
  BY InFlightFacts, WriterConstants DEF Edges
<1>2. PICK n \in Nat : n = r + InFlight BY <1>1
<1>3. PICK m \in Nat : m = IF accumulator_valid' THEN n + 1 ELSE n OBVIOUS
<1>4. s + InFlight' = m BY <1>2, <1>3, InFlightStep
<1>5. n * Width \in Nat /\ (n + 1) * Width = n * Width + Width BY NextWord
<1>6. /\ transfer_count < Total => transfer_count = n * Width + sample_idx
      /\ transfer_count >= Total =>
           sample_idx = 0 /\ Total <= n * Width /\ n * Width < Total + Width
  BY <1>2 DEF Counted
<1> SUFFICES
      /\ transfer_count' < Total => transfer_count' = m * Width + sample_idx'
      /\ transfer_count' >= Total =>
           sample_idx' = 0 /\ Total <= m * Width /\ m * Width < Total + Width
  BY <1>1, <1>4 DEF Counted, Width
<1>7. CASE ~Handshake
  <2>1. transfer_count' = transfer_count /\ sample_idx' = sample_idx /\ m = n
    BY <1>3, <1>7 DEF Edges, SendStep, AccumulatorStep
  <2> QED BY <1>6, <2>1
<1>8. CASE Handshake /\ (transfer_count + 1 = Total \/ sample_idx = Width - 1)
  <2>1. transfer_count < Total /\ transfer_count' = transfer_count + 1 /\ sample_idx' = 0 /\ m = n + 1
    BY <1>3, <1>8 DEF Edges, SendStep, AccumulatorStep
  <2>2. m * Width = n * Width + Width BY <1>5, <2>1
  <2> HIDE DEF Width
  <2> QED BY <1>1, <1>5, <1>6, <1>8, <2>1, <2>2
<1>9. CASE Handshake /\ ~(transfer_count + 1 = Total \/ sample_idx = Width - 1)
  <2>1. /\ transfer_count < Total /\ transfer_count' = transfer_count + 1
        /\ sample_idx' = sample_idx + 1 /\ m = n
    BY <1>3, <1>9 DEF Edges, SendStep, AccumulatorStep
  <2> QED BY <1>1, <1>5, <1>6, <1>9, <2>1
<1> QED BY <1>7, <1>8, <1>9

LEMMA QueuedStep ==
  ASSUME NEW reads, Edges(reads), NEW r \in Nat, Counted(r), Queued(r),
         NEW s \in Nat, s = IF reads THEN r + 1 ELSE r
  PROVE  Queued(s)'
<1>1. HoldsNext(sample_accumulator', s + fifo_level') BY OpenStep, InFlightStep
<1>2. ASSUME NEW i \in 0 .. fifo_level' - 1
      PROVE  HoldsNext(fifo_mem'[Slot(fifo_rd_ptr' + i)], s + i)
  <2>1. InFlight \in 0 .. FIFO_DEPTH /\ fifo_level' \in 0 .. FIFO_DEPTH /\ fifo_rd_ptr \in Slots
    BY InFlightFacts DEF Edges, FifoStep, WriterTypes
  <2>2. CASE reads
    <3>1. fifo_rd_ptr' = Slot(fifo_rd_ptr + 1) /\ fifo_level' = InFlight - 1
      BY <2>2 DEF Edges, FifoStep
    <3>2. /\ i + 1 \in 0 .. InFlight - 1 /\ s + i = r + (i + 1) /\ i \in 0 .. FIFO_DEPTH
          /\ 1 + i <= FIFO_DEPTH /\ 1 + i = i + 1 /\ 1 \in 0 .. FIFO_DEPTH
      BY <2>1, <2>2, <3>1, WriterConstants
    <3>3. Slot(fifo_rd_ptr' + i) = Slot(fifo_rd_ptr + (i + 1))
      <4>1. Slot(Slot(fifo_rd_ptr + 1) + i) = Slot(fifo_rd_ptr + (1 + i))
        BY <2>1, <3>2, SlotSum
      <4> QED BY <3>1, <3>2, <4>1
    <3>4. PICK j \in 0 .. InFlight - 1 : j = i + 1 BY <3>2
    <3>5. HoldsNext(fifo_mem'[Slot(fifo_rd_ptr + j)], r + j) BY QueueStep
    <3> QED BY <3>2, <3>3, <3>4, <3>5
  <2>3. CASE ~reads
    <3>1. fifo_rd_ptr' = fifo_rd_ptr /\ fifo_level' = InFlight /\ s = r
      BY <2>3 DEF Edges, FifoStep
    <3> QED BY <3>1, QueueStep
  <2> QED BY <2>2, <2>3
<1> QED BY <1>1, <1>2 DEF Queued, HoldsNext, Holds, Window, Slot, Address, Width, Lanes

-----------------------------------------------------------------------------
(* The words in memory.                                                    *)

(* A word that waits begins inside the window.                             *)
LEMMA WaitsInside ==
  ASSUME WriterTypes, Paused, Total \in Nat \ {0}, transfer_count \in Nat,
         NEW r \in Nat, Counted(r), fifo_level >= 1
  PROVE  r * Width < Total
<1>1. /\ sample_idx \in 0 .. Width - 1 /\ InFlight \in Nat /\ InFlight >= 1
      /\ Total \in Nat \ {0} /\ Width \in Nat \ {0}
  BY WriterConstants DEF WriterTypes, InFlight, Lanes, Width
<1>2. PICK n \in Nat : n = r + InFlight BY <1>1
<1>3. (r + 1) * Width <= n * Width
  <2>1. r + 1 \in Nat /\ r + 1 <= n BY <1>1, <1>2
  <2> QED BY <2>1, MoreWords
<1>4. r * Width \in Nat /\ (r + 1) * Width = r * Width + Width /\ n * Width \in Nat
  BY NextWord
<1> HIDE DEF Width
<1>5. CASE transfer_count < Total
  <2>1. transfer_count = n * Width + sample_idx BY <1>2, <1>5 DEF Counted
  <2> QED BY <1>1, <1>3, <1>4, <1>5, <2>1
<1>6. CASE ~(transfer_count < Total)
  <2>1. n * Width < Total + Width BY <1>1, <1>2, <1>6 DEF Counted
  <2> QED BY <1>1, <1>3, <1>4, <2>1
<1> QED BY <1>5, <1>6

(* The head of the FIFO goes to the place of its samples, and of nothing   *)
(* else.                                                                   *)
LEMMA BeatStep ==
  ASSUME NEW wready, NEW awready, WriterTypes, SlaveEdge(awready, wready), NEW r \in Nat, Located(r),
         NEW k \in Nat, k < BUFFER_SIZE
  PROVE  /\ ~Writer!fifo_rd_en(wready) => axi_memory'[BASE_ADDR + k] = axi_memory[BASE_ADDR + k]
         /\ Writer!fifo_rd_en(wready) =>
              axi_memory'[BASE_ADDR + k] =
                IF k - r * Width \in Lanes THEN fifo_mem[fifo_rd_ptr][k - r * Width]
                ELSE axi_memory[BASE_ADDR + k]
<1> DEFINE beat == Writer!fifo_rd_en(wready)
           address == aw_addr + w_beat_count * SAMPLES_PER_WORD
<1>1. axi_memory' = [a \in DOMAIN axi_memory |->
                       IF beat /\ a - address \in 0 .. SAMPLES_PER_WORD - 1
                       THEN fifo_mem[fifo_rd_ptr][a - address] ELSE axi_memory[a]]
  BY DEF SlaveEdge, Writer!fifo_dout
<1>2. PICK x \in Nat : x = BASE_ADDR + k BY WriterConstants
<1>3. x \in DOMAIN axi_memory BY <1>2, WriterConstants DEF WriterTypes
<1>4. beat => writer_state = "DATA" BY DEF Writer!fifo_rd_en, Writer!m_axi_wvalid
<1>5. beat => x - address = k - r * Width
  <2> SUFFICES ASSUME beat PROVE x - address = k - r * Width
    OBVIOUS
  <2>1. /\ write_offset + beat_count * Width = r * Width
        /\ address = BASE_ADDR + write_offset + beat_count * Width
    BY <1>4 DEF Located, Width
  <2>2. write_offset \in Nat /\ beat_count * Width \in Nat /\ r * Width \in Nat
    BY NextWord DEF WriterTypes
  <2> QED BY <1>2, <2>1, <2>2, WriterConstants
<1> HIDE DEF beat, address
<1>6. axi_memory'[x] = IF beat /\ x - address \in 0 .. SAMPLES_PER_WORD - 1
                       THEN fifo_mem[fifo_rd_ptr][x - address] ELSE axi_memory[x]
  BY <1>1, <1>3
<1>7. /\ ~beat => axi_memory'[x] = axi_memory[x]
      /\ beat => axi_memory'[x] =
                   IF k - r * Width \in Lanes THEN fifo_mem[fifo_rd_ptr][k - r * Width]
                   ELSE axi_memory[x]
  BY <1>5, <1>6 DEF Lanes
<1> QED BY <1>2, <1>7, Zenon DEF beat

LEMMA StoredStep ==
  ASSUME NEW reads, Edges(reads), NEW wready, reads <=> Writer!fifo_rd_en(wready),
         NEW awready, SlaveEdge(awready, wready), Total <= BUFFER_SIZE,
         NEW r \in Nat, Counted(r), Queued(r), Stored(r), Located(r),
         NEW s \in Nat, s = IF reads THEN r + 1 ELSE r
  PROVE  Stored(s)'
<1>1. /\ transfer_count \in Nat /\ transfer_count <= Total
      /\ InFlight \in Nat /\ Total \in Nat \ {0} /\ Width \in Nat \ {0} /\ Pre' = Pre
      /\ fifo_level \in Nat /\ fifo_level <= InFlight /\ fifo_rd_ptr \in Slots
  BY InFlightFacts, WriterConstants DEF Edges, WriterTypes
<1>2. reads => fifo_level >= 1 BY DEF Edges, FifoStep
<1> SUFFICES ASSUME NEW k \in 0 .. transfer_count' - 1, k < s * Width
             PROVE  axi_memory'[BASE_ADDR + k] = sample_buffer'[Address(trigger_ptr' - Pre' + k)]
  BY DEF Stored, Window, Address, Width
<1>3. k < transfer_count
  <2>1. CASE Handshake
    <3>1. CASE s = 0 BY <3>1, WriterConstants
    <3>2. CASE s # 0
      <4>1. PICK q \in Nat : s = q + 1 BY <3>2
      <4>2. q < r + InFlight BY <1>1, <1>2, <4>1
      <4>3. s * Width <= transfer_count BY <2>1, <4>1, <4>2, ClosedBefore
      <4>4. s * Width \in Nat BY NextWord
      <4> QED BY <1>1, <4>3, <4>4
    <3> QED BY <3>1, <3>2
  <2>2. CASE ~Handshake BY <2>2 DEF Edges, SendStep
  <2> QED BY <2>1, <2>2
<1>4. k \in 0 .. transfer_count - 1 /\ k \in Nat /\ k < BUFFER_SIZE /\ transfer_count > 0
  BY <1>1, <1>3, WriterConstants
<1>5. UNCHANGED <<sample_buffer, trigger_ptr>> BY <1>4 DEF Edges, SendStep
<1> SUFFICES axi_memory'[BASE_ADDR + k] = Window(k)
  BY <1>1, <1>5 DEF Window
<1>6. CASE k < r * Width
  <2>1. axi_memory[BASE_ADDR + k] = Window(k) BY <1>4, <1>6 DEF Stored
  <2>2. k - r * Width \notin Lanes
    <3>1. r * Width \in Nat BY NextWord
    <3> QED BY <1>4, <1>6, <3>1 DEF Lanes
  <2> QED BY <1>4, <2>1, <2>2, BeatStep DEF Edges
<1>7. CASE ~(k < r * Width)
  <2>1. reads BY <1>7
  <2>2. r * Width \in Nat /\ s * Width = r * Width + Width BY <2>1, NextWord
  <2>3. PICK l \in Lanes : l = k - r * Width
    <3>1. k - r * Width \in 0 .. Width - 1 BY <1>1, <1>4, <1>7, <2>2
    <3> QED BY <3>1 DEF Lanes, Width
  <2>4. r * Width + l = k BY <1>4, <2>2, <2>3
  <2>5. Holds(fifo_mem[fifo_rd_ptr], r)
    <3>1. 0 \in 0 .. fifo_level - 1 BY <1>1, <1>2, <2>1
    <3>2. Holds(fifo_mem[(fifo_rd_ptr + 0) % FIFO_DEPTH], r + 0) BY <3>1 DEF Queued
    <3>3. (fifo_rd_ptr + 0) % FIFO_DEPTH = fifo_rd_ptr
      <4>1. PICK d \in Nat \ {0} : d = FIFO_DEPTH BY WriterConstants
      <4>2. PICK i \in 0 .. d - 1 : i = fifo_rd_ptr /\ fifo_rd_ptr + 0 = i
        BY <1>1, <4>1 DEF Slots
      <4>3. i \in Int /\ -d <= i /\ i < 2 * d /\ ~(i < 0) /\ i < d OBVIOUS
      <4>4. i % d = i BY <4>3, RingCases
      <4> QED BY <4>1, <4>2, <4>4
    <3> QED BY <3>2, <3>3
  <2>6. fifo_mem[fifo_rd_ptr][l] = Window(k) BY <1>3, <2>4, <2>5 DEF Holds
  <2> QED BY <1>4, <2>1, <2>3, <2>6, BeatStep DEF Edges
<1> QED BY <1>6, <1>7

-----------------------------------------------------------------------------
(* The burst machine.                                                      *)
Machine(awready, wready, bvalid) ==
  \/ Writer!IdleEdge \/ Writer!CalcEdge \/ Writer!AddrEdge(awready) \/ Writer!DataEdge(wready)
  \/ Writer!RespEdge(bvalid, bvalid) \/ Writer!ErrorEdge

LEMMA SmallMod == ASSUME NEW d \in Nat \ {0}, NEW a \in 0 .. d - 1 PROVE a % d = a
OBVIOUS

LEMMA ReadsInData ==
  ASSUME NEW wready, Writer!fifo_rd_en(wready)
  PROVE  writer_state = "DATA" /\ wready
BY DEF Writer!fifo_rd_en, Writer!m_axi_wvalid

LEMMA BeatCount ==
  ASSUME WriterTypes, Covered, writer_state = "DATA"
  PROVE  /\ beat_count \in Nat /\ burst_len \in Nat /\ beat_count <= burst_len
         /\ (beat_count + 1) % LEN_MOD = beat_count + 1
<1>1. beat_count \in Nat /\ burst_len \in Nat /\ beat_count <= burst_len /\ burst_len < MAX_BURST_LEN
  BY DEF WriterTypes, Covered
<1>2. beat_count + 1 \in 0 .. LEN_MOD - 1 BY <1>1, WriterConstants
<1> QED BY <1>1, <1>2, SmallMod, WriterConstants

(* What the edges do to the registers of the burst.                        *)
LEMMA IdleMoves ==
  ASSUME WriterTypes, Writer!IdleEdge
  PROVE  /\ writer_state = "IDLE" /\ UNCHANGED <<write_offset, burst_len, beat_count>>
         /\ \/ writer_state' = "CALC" /\ (fifo_level >= MAX_BURST_LEN \/ last_seen)
            \/ writer_state' = "IDLE" /\ ~last_seen
  BY DEF Writer!IdleEdge, WriterTypes, Writer!BurstDue

LEMMA CalcMoves ==
  ASSUME WriterTypes, Covered, Writer!CalcEdge
  PROVE  /\ writer_state = "CALC" /\ writer_state' = "ADDR" /\ UNCHANGED <<write_offset, beat_count>>
         /\ current_addr' = (BASE_ADDR + write_offset) % ADDR_MOD
         /\ burst_len' \in Nat /\ burst_len' < MAX_BURST_LEN /\ fifo_level >= burst_len' + 1
<1>1. /\ writer_state = "CALC" /\ writer_state' = "ADDR" /\ UNCHANGED <<write_offset, beat_count>>
      /\ current_addr' = (BASE_ADDR + write_offset) % ADDR_MOD
      /\ burst_len' = IF fifo_level >= MAX_BURST_LEN THEN MAX_BURST_LEN - 1
                      ELSE (fifo_level - 1) % LEN_MOD
  BY DEF Writer!CalcEdge, WriterTypes
<1>2. fifo_level \in Nat /\ fifo_level >= 1 BY <1>1, WriterConstants DEF WriterTypes, Covered
<1>3. CASE fifo_level >= MAX_BURST_LEN BY <1>1, <1>2, <1>3, WriterConstants
<1>4. CASE ~(fifo_level >= MAX_BURST_LEN)
  <2>1. fifo_level - 1 \in 0 .. LEN_MOD - 1 BY <1>2, <1>4, WriterConstants
  <2>2. (fifo_level - 1) % LEN_MOD = fifo_level - 1 BY <2>1, SmallMod, WriterConstants
  <2> QED BY <1>1, <1>2, <1>4, <2>2, WriterConstants
<1> QED BY <1>3, <1>4

LEMMA DataMoves ==
  ASSUME WriterTypes, Covered, NEW wready, Writer!DataEdge(wready)
  PROVE  /\ writer_state = "DATA" /\ UNCHANGED <<write_offset, burst_len>>
         /\ ~Writer!fifo_rd_en(wready) => writer_state' = "DATA" /\ beat_count' = beat_count
         /\ Writer!fifo_rd_en(wready) =>
              /\ beat_count' = beat_count + 1
              /\ writer_state' = IF beat_count = burst_len THEN "RESP" ELSE "DATA"
  BY BeatCount DEF Writer!DataEdge, Writer!m_axi_wlast

LEMMA RespMoves ==
  ASSUME WriterTypes, NEW bvalid, Writer!RespEdge(bvalid, bvalid)
  PROVE  /\ writer_state = "RESP" /\ UNCHANGED <<burst_len, beat_count>>
         /\ ~bvalid => writer_state' = "RESP" /\ UNCHANGED write_offset
         /\ bvalid =>
              /\ write_offset' =
                   IF (write_offset + (burst_len + 1) * Width) % ADDR_MOD >= BUFFER_SIZE THEN 0
                   ELSE (write_offset + (burst_len + 1) * Width) % ADDR_MOD
              /\ \/ /\ writer_state' = "CALC" /\ (last_seen => fifo_level # 0)
                    /\ fifo_level >= MAX_BURST_LEN \/ last_seen
                 \/ writer_state' = "IDLE" /\ (last_seen => fifo_level = 0)
  BY DEF Writer!RespEdge, Writer!AdvanceOffset, Writer!BurstBytes, WriterTypes, Writer!BurstDue,
         Writer!fifo_empty, Width

LEMMA MachineTypes ==
  ASSUME WriterTypes, Covered, NEW awready, NEW wready, NEW bvalid, Machine(awready, wready, bvalid)
  PROVE  /\ writer_state' \in {"IDLE", "CALC", "ADDR", "DATA", "RESP"}
         /\ burst_len' \in Nat /\ beat_count' \in Nat /\ write_offset' \in Nat
<1>1. burst_len \in Nat /\ beat_count \in Nat /\ write_offset \in Nat BY DEF WriterTypes
<1>2. CASE Writer!IdleEdge BY <1>1, <1>2, IdleMoves
<1>3. CASE Writer!CalcEdge BY <1>1, <1>3, CalcMoves
<1>4. CASE Writer!AddrEdge(awready) BY <1>1, <1>4 DEF Writer!AddrEdge
<1>5. CASE Writer!DataEdge(wready) BY <1>1, <1>5, DataMoves
<1>6. CASE Writer!RespEdge(bvalid, bvalid)
  <2>1. (burst_len + 1) * Width \in Nat BY <1>1, NextWord
  <2>2. ADDR_MOD \in Nat \ {0} BY WriterConstants
  <2>3. PICK n \in Nat : n = write_offset + (burst_len + 1) * Width BY <1>1, <2>1
  <2>4. n % ADDR_MOD \in Nat BY <2>2
  <2>5. PICK next \in Nat : next = (write_offset + (burst_len + 1) * Width) % ADDR_MOD
    BY <2>3, <2>4
  <2>6. write_offset' = write_offset \/ write_offset' = 0 \/ write_offset' = next
    BY <1>6, <2>5, RespMoves
  <2>7. /\ writer_state' \in {"RESP", "CALC", "IDLE"} /\ UNCHANGED <<burst_len, beat_count>>
    BY <1>6, RespMoves
  <2> QED BY <1>1, <2>5, <2>6, <2>7
<1>7. CASE Writer!ErrorEdge BY <1>7 DEF Writer!ErrorEdge, WriterTypes
<1> QED BY <1>2, <1>3, <1>4, <1>5, <1>6, <1>7 DEF Machine

LEMMA TypesStep ==
  ASSUME NEW reads, Edges(reads), Covered, NEW awready, NEW wready, NEW bvalid,
         Machine(awready, wready, bvalid), SlaveEdge(awready, wready), rw_config' = rw_config
  PROVE  WriterTypes'
<1>1. /\ DOMAIN fifo_mem' = Slots /\ fifo_rd_ptr' \in Slots /\ fifo_level' \in 0 .. FIFO_DEPTH
      /\ fifo_wr_ptr' = (fifo_rd_ptr' + fifo_level') % FIFO_DEPTH
  BY DEF Edges, FifoStep, Slot
<1>2. /\ DOMAIN sample_accumulator' = Lanes /\ sample_idx' \in Lanes
      /\ accumulator_valid' \in BOOLEAN /\ last_seen' \in BOOLEAN
  BY DEF Edges, AccumulatorStep
<1>3. WriterTypes BY DEF Edges
<1>4. DOMAIN axi_memory' = DOMAIN axi_memory BY DEF SlaveEdge
<1>5. /\ writer_state' \in {"IDLE", "CALC", "ADDR", "DATA", "RESP"}
      /\ burst_len' \in Nat /\ beat_count' \in Nat /\ write_offset' \in Nat
  BY <1>3, MachineTypes
<1>6. /\ DOMAIN axi_memory' = BASE_ADDR .. BASE_ADDR + BUFFER_SIZE - 1
      /\ rw_config' = [enable |-> TRUE, base_addr |-> BASE_ADDR, buffer_size |-> BUFFER_SIZE]
  BY <1>3, <1>4 DEF WriterTypes
<1> QED BY <1>1, <1>2, <1>5, <1>6 DEF WriterTypes, Lanes, Slots

LEMMA LevelStep ==
  ASSUME NEW reads, Edges(reads)
  PROVE  /\ fifo_level \in Nat /\ fifo_level' \in Nat /\ fifo_level' >= fifo_level - 1
         /\ reads => fifo_level >= 1
         /\ ~reads => fifo_level' >= fifo_level
         /\ ~reads /\ accumulator_valid => fifo_level' >= 1
         /\ ~accumulator_valid => fifo_level' <= fifo_level
<1>1. /\ InFlight \in Nat /\ fifo_level \in Nat
      /\ InFlight = IF accumulator_valid THEN fifo_level + 1 ELSE fifo_level
  BY InFlightFacts, WriterConstants
<1>2. /\ reads => fifo_level >= 1 /\ fifo_level' = InFlight - 1
      /\ ~reads => fifo_level' = InFlight
  BY DEF Edges, FifoStep
<1> QED BY <1>1, <1>2

LEMMA PausedStep ==
  ASSUME NEW reads, Edges(reads)
  PROVE  Paused'
<1> SUFFICES ASSUME accumulator_valid'
             PROVE  ~Scope!m_axis_tvalid' /\ fifo_level' < FIFO_DEPTH /\ sample_idx' = 0
  BY DEF Paused
<1>1. Handshake /\ ~accumulator_valid /\ sample_idx' = 0
  BY DEF Edges, AccumulatorStep
<1>2. ~Scope!m_axis_tvalid' BY <1>1 DEF Edges, SendStep
<1>3. fifo_level \in 0 .. FIFO_DEPTH /\ fifo_level # FIFO_DEPTH
  BY <1>1, InFlightFacts DEF Handshake
<1>4. fifo_level' < FIFO_DEPTH BY <1>1, <1>3, LevelStep, WriterConstants
<1> QED BY <1>1, <1>2, <1>4

LEMMA LevelGrows ==
  ASSUME NEW before \in Nat, NEW after \in Nat, NEW length \in Nat,
         before >= length + 1, after >= before
  PROVE  after >= length + 1
OBVIOUS

(* What becomes of tlast.                                                  *)
FlushStep(bvalid) ==
  last_seen' =>
    /\ last_seen \/ accumulator_valid'
    /\ ~(writer_state = "RESP" /\ bvalid /\ fifo_level = 0 /\ last_seen)

LEMMA FlushMoves ==
  ASSUME WriterTypes, NEW bvalid,
         Writer!proc_accumulator(Scope!m_axis_tvalid, Scope!m_axis_tdata, Scope!m_axis_tlast,
                                 bvalid, bvalid)
  PROVE  FlushStep(bvalid)
  BY Zenon DEF Writer!proc_accumulator, FlushStep, Writer!FlushOver, Writer!Acknowledged,
       Writer!m_axi_bready, Writer!fifo_empty

LEMMA CoverFlush ==
  ASSUME WriterTypes, Covered, NEW awready, NEW wready, NEW bvalid,
         Machine(awready, wready, bvalid), FlushStep(bvalid)
  PROVE  writer_state' = "IDLE" /\ last_seen' => accumulator_valid'
<1> SUFFICES ASSUME writer_state' = "IDLE", last_seen', ~accumulator_valid'
             PROVE  FALSE
  OBVIOUS
<1>1. last_seen /\ ~(writer_state = "RESP" /\ bvalid /\ fifo_level = 0) BY DEF FlushStep
<1>2. ~Writer!IdleEdge BY <1>1, IdleMoves
<1>3. ~Writer!CalcEdge BY CalcMoves
<1>4. ~Writer!AddrEdge(awready) BY DEF Writer!AddrEdge
<1>5. ~Writer!DataEdge(wready)
  <2> SUFFICES ASSUME Writer!DataEdge(wready) PROVE FALSE
    OBVIOUS
  <2>1. writer_state' \in {"DATA", "RESP"} BY DataMoves
  <2> QED BY <2>1
<1>6. ~Writer!RespEdge(bvalid, bvalid) BY <1>1, RespMoves
<1>7. ~Writer!ErrorEdge BY DEF Writer!ErrorEdge, WriterTypes
<1> QED BY <1>2, <1>3, <1>4, <1>5, <1>6, <1>7 DEF Machine

LEMMA CoverStep ==
  ASSUME NEW reads, Edges(reads), Covered, NEW awready, NEW wready, NEW bvalid,
         reads <=> Writer!fifo_rd_en(wready),
         Machine(awready, wready, bvalid), FlushStep(bvalid)
  PROVE  Covered'
<1>1. WriterTypes /\ MAX_BURST_LEN \in Nat \ {0} BY WriterConstants DEF Edges
<1>2. writer_state' = "IDLE" /\ last_seen' => accumulator_valid' BY <1>1, CoverFlush
<1>3. reads => writer_state = "DATA" BY ReadsInData
<1>4. burst_len \in Nat /\ beat_count \in Nat BY <1>1 DEF WriterTypes
<1> SUFFICES /\ writer_state' = "CALC" => fifo_level' >= 1
             /\ writer_state' \in {"ADDR", "DATA", "RESP"} => burst_len' < MAX_BURST_LEN
             /\ writer_state' = "ADDR" => fifo_level' >= burst_len' + 1
             /\ writer_state' = "DATA" =>
                  beat_count' <= burst_len' /\ fifo_level' >= burst_len' + 1 - beat_count'
  BY <1>2 DEF Covered
<1>5. CASE Writer!IdleEdge
  <2>1. /\ writer_state = "IDLE" /\ ~reads /\ writer_state' \in {"IDLE", "CALC"}
        /\ writer_state' = "CALC" => fifo_level >= MAX_BURST_LEN \/ last_seen
    BY <1>1, <1>3, <1>5, IdleMoves
  <2>2. writer_state' = "CALC" => fifo_level >= 1 \/ accumulator_valid
    BY <1>1, <2>1, LevelStep DEF Covered
  <2> QED BY <2>1, <2>2, LevelStep
<1>6. CASE Writer!CalcEdge
  <2>1. /\ writer_state' = "ADDR" /\ ~reads /\ burst_len' \in Nat /\ burst_len' < MAX_BURST_LEN
        /\ fifo_level >= burst_len' + 1
    BY <1>1, <1>3, <1>6, CalcMoves
  <2>2. fifo_level \in Nat /\ fifo_level' \in Nat /\ fifo_level' >= fifo_level
    BY <2>1, LevelStep
  <2>3. fifo_level' >= burst_len' + 1 BY <2>1, <2>2, LevelGrows
  <2> QED BY <2>1, <2>3
<1>7. CASE Writer!AddrEdge(awready)
  <2>1. /\ writer_state = "ADDR" /\ ~reads /\ burst_len' = burst_len
        /\ writer_state' = "ADDR" \/ (writer_state' = "DATA" /\ beat_count' = 0)
    BY <1>3, <1>7 DEF Writer!AddrEdge
  <2>2. /\ burst_len < MAX_BURST_LEN /\ fifo_level >= burst_len + 1
        /\ fifo_level \in Nat /\ fifo_level' \in Nat /\ fifo_level' >= fifo_level
    BY <2>1, LevelStep DEF Covered
  <2>3. fifo_level' >= burst_len + 1 BY <1>4, <2>2
  <2> QED BY <1>4, <2>1, <2>2, <2>3
<1>8. CASE Writer!DataEdge(wready)
  <2>1. /\ writer_state = "DATA" /\ burst_len' = burst_len
        /\ ~reads => writer_state' = "DATA" /\ beat_count' = beat_count
        /\ reads => /\ beat_count' = beat_count + 1
                    /\ writer_state' = IF beat_count = burst_len THEN "RESP" ELSE "DATA"
    BY <1>1, <1>8, DataMoves
  <2>2. /\ burst_len < MAX_BURST_LEN /\ beat_count <= burst_len
        /\ fifo_level >= burst_len + 1 - beat_count
        /\ fifo_level \in Nat /\ fifo_level' \in Nat /\ fifo_level' >= fifo_level - 1
    BY <2>1, LevelStep DEF Covered
  <2>3. CASE reads
    <3>1. writer_state' = "DATA" => beat_count' <= burst_len BY <1>4, <2>1, <2>2, <2>3
    <3>2. fifo_level' >= burst_len + 1 - beat_count' BY <1>4, <2>1, <2>2, <2>3
    <3> QED BY <2>1, <2>2, <2>3, <3>1, <3>2
  <2>4. CASE ~reads
    <3>1. fifo_level' >= fifo_level BY <2>4, LevelStep
    <3>2. fifo_level' >= burst_len + 1 - beat_count BY <1>4, <2>2, <3>1
    <3> QED BY <2>1, <2>2, <2>4, <3>2
  <2> QED BY <2>3, <2>4
<1>9. CASE Writer!RespEdge(bvalid, bvalid)
  <2>1. /\ writer_state = "RESP" /\ ~reads /\ burst_len' = burst_len
        /\ writer_state' \in {"RESP", "CALC", "IDLE"}
        /\ writer_state' = "CALC" =>
             (last_seen => fifo_level # 0) /\ (fifo_level >= MAX_BURST_LEN \/ last_seen)
    BY <1>1, <1>3, <1>9, RespMoves
  <2>2. writer_state' = "CALC" => fifo_level >= 1
    BY <1>1, <2>1, LevelStep
  <2> QED BY <2>1, <2>2, LevelStep DEF Covered
<1>10. CASE Writer!ErrorEdge BY <1>1, <1>10 DEF Writer!ErrorEdge, WriterTypes
<1> QED BY <1>5, <1>6, <1>7, <1>8, <1>9, <1>10 DEF Machine

-----------------------------------------------------------------------------
(* Where the next word goes.                                               *)
LEMMA LocateResp ==
  ASSUME WriterTypes, NEW bvalid, Writer!RespEdge(bvalid, bvalid), Total \in Nat, Total <= BUFFER_SIZE,
         NEW r \in Nat, Located(r), r * Width < Total
  PROVE  /\ writer_state' = "RESP" => write_offset' + (burst_len' + 1) * Width = r * Width
         /\ writer_state' # "RESP" => writer_state' \in {"IDLE", "CALC"} /\ write_offset' = r * Width
<1>1. /\ writer_state = "RESP" /\ burst_len' = burst_len
      /\ ~bvalid => writer_state' = "RESP" /\ write_offset' = write_offset
      /\ bvalid =>
           /\ writer_state' \in {"IDLE", "CALC"}
           /\ write_offset' =
                IF (write_offset + (burst_len + 1) * Width) % ADDR_MOD >= BUFFER_SIZE THEN 0
                ELSE (write_offset + (burst_len + 1) * Width) % ADDR_MOD
  BY RespMoves
<1>2. write_offset + (burst_len + 1) * Width = r * Width BY <1>1 DEF Located
<1>3. PICK a \in Nat : a = r * Width BY NextWord
<1>4. a \in 0 .. ADDR_MOD - 1 /\ a < BUFFER_SIZE /\ ADDR_MOD \in Nat \ {0}
  BY <1>3, WriterConstants
<1>5. a % ADDR_MOD = a BY <1>4, SmallMod
<1>6. bvalid => write_offset' = a BY <1>1, <1>2, <1>3, <1>4, <1>5, WriterConstants
<1> QED BY <1>1, <1>2, <1>3, <1>6

LEMMA LocateStep ==
  ASSUME NEW reads, Edges(reads), Covered, NEW awready, NEW wready, NEW bvalid,
         reads <=> Writer!fifo_rd_en(wready), Machine(awready, wready, bvalid),
         SlaveEdge(awready, wready), Total <= BUFFER_SIZE,
         NEW r \in Nat, Counted(r), Located(r), NEW s \in Nat, s = IF reads THEN r + 1 ELSE r
  PROVE  Located(s)'
<1>1. /\ WriterTypes /\ Total' = Total /\ Total \in Nat \ {0}
      /\ write_offset \in Nat /\ burst_len \in Nat /\ beat_count \in Nat
      /\ reads => writer_state = "DATA"
  BY ReadsInData DEF Edges, WriterTypes
<1>2. r * Width \in Nat /\ (r + 1) * Width = r * Width + Width /\ Width \in Nat \ {0}
  BY NextWord, WriterConstants
<1>3. /\ writer_state # "ADDR" => aw_addr' = aw_addr
      /\ writer_state # "ADDR" /\ reads => w_beat_count' = w_beat_count + 1
      /\ writer_state # "ADDR" /\ ~reads => w_beat_count' = w_beat_count + 0
      /\ writer_state = "ADDR" /\ awready => aw_addr' = current_addr /\ w_beat_count' = 0
  BY DEF SlaveEdge, Writer!m_axi_awvalid, Writer!m_axi_awaddr
<1> SUFFICES
      /\ writer_state' \in {"IDLE", "CALC"} /\ s * Width < Total => write_offset' = s * Width
      /\ writer_state' = "ADDR" =>
           write_offset' = s * Width /\ current_addr' = BASE_ADDR + s * Width
      /\ writer_state' = "DATA" =>
           /\ write_offset' + beat_count' * Width = s * Width
           /\ aw_addr' = BASE_ADDR + write_offset' /\ w_beat_count' = beat_count'
      /\ writer_state' = "RESP" => write_offset' + (burst_len' + 1) * Width = s * Width
  BY <1>1 DEF Located, Width
<1>4. CASE Writer!IdleEdge
  <2>1. s = r /\ writer_state = "IDLE" /\ write_offset' = write_offset
        /\ writer_state' \in {"IDLE", "CALC"}
    BY <1>1, <1>4, IdleMoves
  <2> QED BY <2>1 DEF Located
<1>5. CASE Writer!CalcEdge
  <2>1. /\ s = r /\ writer_state = "CALC" /\ writer_state' = "ADDR" /\ write_offset' = write_offset
        /\ current_addr' = (BASE_ADDR + write_offset) % ADDR_MOD
    BY <1>1, <1>5, CalcMoves
  <2>2. fifo_level >= 1 BY <2>1 DEF Covered
  <2>3. r * Width < Total BY <1>1, <2>2, InFlightFacts, WaitsInside DEF Edges
  <2>4. write_offset = r * Width BY <2>1, <2>3 DEF Located
  <2>5. BASE_ADDR + write_offset \in 0 .. ADDR_MOD - 1 /\ ADDR_MOD \in Nat \ {0}
    BY <1>1, <1>2, <2>3, <2>4, WriterConstants
  <2>6. current_addr' = BASE_ADDR + write_offset BY <2>1, <2>5, SmallMod
  <2> QED BY <2>1, <2>4, <2>6
<1>6. CASE Writer!AddrEdge(awready)
  <2>1. /\ s = r /\ writer_state = "ADDR" /\ UNCHANGED <<write_offset, current_addr>>
        /\ \/ awready /\ writer_state' = "DATA" /\ beat_count' = 0
           \/ writer_state' = "ADDR"
    BY <1>1, <1>6 DEF Writer!AddrEdge
  <2>2. write_offset = r * Width /\ current_addr = BASE_ADDR + r * Width
    BY <2>1 DEF Located
  <2>3. 0 * Width = 0 BY <1>2
  <2> QED BY <1>1, <1>3, <2>1, <2>2, <2>3
<1>7. CASE Writer!DataEdge(wready)
  <2>1. /\ writer_state = "DATA" /\ UNCHANGED <<write_offset, burst_len>>
        /\ ~reads => writer_state' = "DATA" /\ beat_count' = beat_count
        /\ reads => /\ beat_count' = beat_count + 1
                    /\ writer_state' = IF beat_count = burst_len THEN "RESP" ELSE "DATA"
    BY <1>1, <1>7, DataMoves
  <2>2. /\ write_offset + beat_count * Width = r * Width
        /\ aw_addr = BASE_ADDR + write_offset /\ w_beat_count = beat_count
    BY <2>1 DEF Located
  <2>3. beat_count * Width \in Nat /\ (beat_count + 1) * Width = beat_count * Width + Width
    BY <1>1, NextWord
  <2>4. CASE reads
    <3>1. s = r + 1 /\ beat_count' = beat_count + 1 /\ write_offset' = write_offset BY <2>1, <2>4
    <3>2. s * Width = r * Width + Width BY <1>2, <3>1
    <3>3. write_offset + (beat_count + 1) * Width = s * Width
      BY <1>1, <1>2, <2>2, <2>3, <3>2
    <3> QED BY <1>3, <2>1, <2>2, <2>4, <3>1, <3>3
  <2>5. CASE ~reads
    <3>1. s = r /\ beat_count' = beat_count /\ write_offset' = write_offset /\ writer_state' = "DATA"
      BY <2>1, <2>5
    <3>2. w_beat_count' = w_beat_count
      <4>1. w_beat_count' = beat_count + 0 BY <1>3, <2>1, <2>2, <2>5
      <4> QED BY <1>1, <2>2, <4>1
    <3> QED BY <1>3, <2>1, <2>2, <3>1, <3>2
  <2> QED BY <2>4, <2>5
<1>8. CASE Writer!RespEdge(bvalid, bvalid)
  <2>1. writer_state = "RESP" /\ s = r /\ writer_state' \in {"RESP", "IDLE", "CALC"}
        /\ burst_len' = burst_len /\ (writer_state' = "RESP" => write_offset' = write_offset)
    BY <1>1, <1>8, RespMoves
  <2>2. CASE r * Width < Total
    BY <1>1, <1>8, <2>1, <2>2, LocateResp
  <2>3. CASE ~(r * Width < Total)
    BY <2>1, <2>3 DEF Located
  <2> QED BY <2>2, <2>3
<1>9. CASE Writer!ErrorEdge BY <1>1, <1>9 DEF Writer!ErrorEdge, WriterTypes
<1> QED BY <1>4, <1>5, <1>6, <1>7, <1>8, <1>9 DEF Machine

-----------------------------------------------------------------------------
LEMMA MemoryStep ==
  ASSUME WindowsFit, WindowsFitMemory, CaptureInv, MemoryInv, NEW tvalid, NEW high, NEW pulse,
         NEW awready, NEW wready, NEW bvalid, Edge(tvalid, high, pulse, awready, wready, bvalid)
  PROVE  MemoryInv'
<1> DEFINE reads == Writer!fifo_rd_en(wready)
<1>1. /\ ScopeEdge(Writer!s_axis_tready) /\ Writer!proc_fifo(wready)
      /\ Writer!proc_accumulator(Scope!m_axis_tvalid, Scope!m_axis_tdata, Scope!m_axis_tlast,
                                 bvalid, bvalid)
      /\ Machine(awready, wready, bvalid) /\ SlaveEdge(awready, wready)
      /\ scope_config' = [scope_config EXCEPT !.arm = FALSE]
      /\ trig0_config' = trig0_config /\ rw_config' = rw_config
  BY DEF Edge, ScopeEdge, Writer!Clock, Machine
<1>2. Pre' = Pre /\ Total' = Total /\ scope_config'.arm = FALSE
  <2>1. Pre' = Pre /\ Total' = Total BY <1>1, SettingsKept DEF CaptureInv, TypeInv
  <2>2. scope_config'.arm = FALSE BY <1>1 DEF CaptureInv, TypeInv, Configured
  <2> QED BY <2>1, <2>2
<1>3. WriterTypes /\ OneWindow /\ Paused /\ Covered /\ WriterReady
  BY DEF MemoryInv, WriterTypes, WriterReady
<1>4. SendStep
  BY <1>1, <1>2, <1>3, SendTransfer, SendOther
<1>5. FifoStep(reads) BY <1>1, <1>3, FifoMoves
<1>6. AccumulatorStep BY <1>1, <1>3, <1>4, AccumulatorMoves
<1>7. FlushStep(bvalid) BY <1>1, <1>3, FlushMoves
<1>8. Total \in Nat \ {0} /\ Total <= BUFFER_SIZE
  BY WindowInBuffer DEF CaptureInv, TypeInv
<1>9. Edges(reads) BY <1>2, <1>3, <1>4, <1>5, <1>6, <1>8 DEF Edges
<1>10. PICK r \in Nat : Sent(r) BY DEF MemoryInv
<1>11. Counted(r) /\ Queued(r) /\ Stored(r) /\ Located(r) BY <1>10 DEF Sent
<1>12. PICK s \in Nat : s = IF reads THEN r + 1 ELSE r OBVIOUS
<1>13. reads <=> Writer!fifo_rd_en(wready) OBVIOUS
<1> HIDE DEF reads
<1>14. Counted(s)' BY <1>9, <1>11, <1>12, CountStep
<1>15. Queued(s)' BY <1>9, <1>11, <1>12, QueuedStep
<1>16. Stored(s)' BY <1>1, <1>8, <1>9, <1>11, <1>12, <1>13, StoredStep
<1>17. Located(s)' BY <1>1, <1>3, <1>8, <1>9, <1>11, <1>12, <1>13, LocateStep
<1>18. Sent(s)' BY <1>14, <1>15, <1>16, <1>17 DEF Sent
<1>19. WriterTypes' BY <1>1, <1>3, <1>9, TypesStep
<1>20. Covered' BY <1>1, <1>3, <1>7, <1>9, <1>13, CoverStep
<1>21. Paused' BY <1>9, PausedStep
<1>22. OneWindow' BY <1>4 DEF SendStep
<1> QED BY <1>18, <1>19, <1>20, <1>21, <1>22 DEF MemoryInv

LEMMA MemoryStill ==
  ASSUME WindowsFit, CaptureInv, MemoryInv, ArmScope \/ UNCHANGED vars
  PROVE  MemoryInv'
<1>1. UNCHANGED <<scopeRegisters, rw_config, writerRegisters, memoryVars>>
  BY DEF ArmScope, vars
<1>2. Pre' = Pre /\ Total' = Total /\ (scope_config'.arm => scope_state = "IDLE")
  <2>1. CASE ArmScope
    <3>1. Pre' = Pre /\ Total' = Total /\ scope_state = "IDLE"
      BY <2>1, SettingsKept DEF CaptureInv, TypeInv, ArmScope, ch0Vars
    <3> QED BY <3>1
  <2>2. CASE UNCHANGED vars
    BY <2>2 DEF vars, Pre, Post, Total, MemoryInv, OneWindow
  <2> QED BY <2>1, <2>2
<1>3. WriterTypes'
  BY <1>1 DEF MemoryInv, WriterTypes, writerRegisters, memoryVars, Lanes, Slots
<1>4. OneWindow'
  BY <1>1, <1>2 DEF MemoryInv, OneWindow, scopeRegisters
<1>5. Paused' /\ Covered'
  BY <1>1 DEF MemoryInv, Paused, Covered, Scope!m_axis_tvalid, scopeRegisters, writerRegisters
<1>6. ASSUME NEW r \in Nat, Sent(r)
      PROVE  Sent(r)'
  <2>1. Counted(r)'
    BY <1>1, <1>2, <1>6 DEF Sent, Counted, InFlight, scopeRegisters, writerRegisters, Width
  <2>2. Queued(r)'
    BY <1>1, <1>2, <1>6 DEF Sent, Queued, Holds, Window, Address, scopeRegisters, writerRegisters,
       Width, Lanes
  <2>3. Stored(r)'
    BY <1>1, <1>2, <1>6 DEF Sent, Stored, Window, Address, scopeRegisters, memoryVars, Width
  <2>4. Located(r)'
    BY <1>1, <1>2, <1>6 DEF Sent, Located, writerRegisters, memoryVars, Width
  <2> QED BY <2>1, <2>2, <2>3, <2>4 DEF Sent
<1> QED BY <1>3, <1>4, <1>5, <1>6 DEF MemoryInv

LEMMA MemoryInit == ASSUME WindowsFit, Init PROVE MemoryInv
<1>1. /\ writer_state = "IDLE" /\ fifo_mem = [s \in Slots |-> [l \in Lanes |-> Unwritten]]
      /\ fifo_wr_ptr = 0 /\ fifo_rd_ptr = 0 /\ fifo_level = 0
      /\ sample_accumulator = [l \in Lanes |-> Unwritten]
      /\ sample_idx = 0 /\ accumulator_valid = FALSE /\ last_seen = FALSE
      /\ burst_len = 0 /\ write_offset = 0 /\ beat_count = 0
      /\ rw_config \in {[enable |-> TRUE, base_addr |-> BASE_ADDR, buffer_size |-> BUFFER_SIZE]}
  BY DEF Init, Writer!Init, Writer!Slots, Writer!Lanes, Slots, Lanes
<1>2. /\ scope_state = "IDLE" /\ transfer_count = 0
      /\ DOMAIN axi_memory = BASE_ADDR .. BASE_ADDR + BUFFER_SIZE - 1
  BY DEF Init, Scope!Init
<1>3. 0 % FIFO_DEPTH = 0 /\ 0 \in 0 .. FIFO_DEPTH - 1
  BY WriterConstants
<1>4. WriterTypes
  <2>1. DOMAIN fifo_mem = Slots /\ DOMAIN sample_accumulator = Lanes BY <1>1
  <2>2. fifo_rd_ptr \in Slots /\ fifo_level \in 0 .. FIFO_DEPTH /\ sample_idx \in Lanes
    BY <1>1, <1>3, WriterConstants DEF Slots, Lanes, Width
  <2>3. fifo_wr_ptr = (fifo_rd_ptr + fifo_level) % FIFO_DEPTH
    <3>1. 0 + 0 = 0 OBVIOUS
    <3> QED BY <1>1, <1>3, <3>1
  <2> QED BY <1>1, <1>2, <2>1, <2>2, <2>3 DEF WriterTypes
<1>5. OneWindow /\ Paused /\ Covered
  BY <1>1, <1>2 DEF OneWindow, Paused, Covered
<1>6. Total \in Nat \ {0}
  <2>1. Configured BY CaptureInit DEF CaptureInv, TypeInv
  <2> QED BY <2>1, Settings
<1>7. 0 * Width = 0 /\ Width \in Nat \ {0} BY WriterConstants
<1>8. Counted(0)
  <2>1. InFlight = 0 BY <1>1 DEF InFlight
  <2> QED BY <1>1, <1>2, <1>6, <1>7, <2>1 DEF Counted
<1>9. Queued(0)
  <2>1. ASSUME NEW word PROVE Holds(word, 0)
    <3>1. \A l \in Lanes : l \in Nat BY WriterConstants DEF Lanes
    <3> QED BY <1>2, <1>7, <3>1 DEF Holds
  <2> QED BY <1>1, <2>1 DEF Queued
<1>10. Stored(0) /\ Located(0)
  BY <1>1, <1>2, <1>7 DEF Stored, Located
<1> QED BY <1>4, <1>5, <1>8, <1>9, <1>10 DEF MemoryInv, Sent

ChainInv == CaptureInv /\ SourceInv /\ MemoryInv

LEMMA ChainInvariant ==
  ASSUME WindowsFit, WindowsFitMemory PROVE Spec => []ChainInv
<1>1. Init => ChainInv BY CaptureInit, SourceInit, MemoryInit DEF ChainInv
<1>2. ChainInv /\ [Next]_vars => ChainInv'
  <2> SUFFICES ASSUME CaptureInv, SourceInv, MemoryInv, [Next]_vars
               PROVE  ChainInv'
    BY DEF ChainInv
  <2>1. CaptureInv' BY CaptureNext
  <2>2. SourceInv' BY SourceStep, SourceStill DEF Next, AnyEdge
  <2>3. MemoryInv' BY MemoryStep, MemoryStill DEF Next, AnyEdge
  <2> QED BY <2>1, <2>2, <2>3 DEF ChainInv
<1> QED BY <1>1, <1>2, PTL DEF Spec

(* What verify_memory of the testbench looks for in one window it finds    *)
(* for every window that fits the scope's buffer and the buffer in memory: *)
(* unless the source paused, memory ends up with the samples around the    *)
(* one that triggered, each once and in order, in whatever cycles memory   *)
(* took the words.                                                         *)
THEOREM WindowReachesMemory ==
  ASSUME WindowsFit, WindowsFitMemory PROVE Spec => []WindowInMemory
<1>1. ChainInv => WindowInMemory
  <2> SUFFICES ASSUME ChainInv, Delivered, ~repeated,
                      mark >= scope_config.pre_samples,
                      NEW k \in 0 .. scope_config.pre_samples + scope_config.post_samples - 1
               PROVE  axi_memory[BASE_ADDR + k] = mark - scope_config.pre_samples + k
    BY DEF WindowInMemory
  <2> USE DEF ChainInv
  <2>1. /\ scope_state = "DONE" /\ fifo_level = 0 /\ ~accumulator_valid
    BY DEF Delivered
  <2>2. Pre \in Nat /\ Post \in Nat /\ Total = Pre + Post /\ Total \in Nat \ {0}
    BY Settings DEF CaptureInv, TypeInv, Total
  <2>3. k \in 0 .. Total - 1
    <3>1. k \in 0 .. Pre + Post - 1 BY DEF Pre, Post
    <3> QED BY <2>2, <3>1
  <2>4. Window(k) = mark - Pre + k
    <3>1. mark >= Pre BY DEF Pre
    <3> QED BY <2>1, <2>3, <3>1, WindowNumbers
  <2>5. transfer_count = Total BY <2>1 DEF MemoryInv, OneWindow
  <2>6. PICK r \in Nat : Counted(r) /\ Stored(r) BY DEF MemoryInv, Sent
  <2>7. Total <= r * Width
    <3>1. Total <= (r + InFlight) * Width BY <2>2, <2>5, <2>6 DEF Counted
    <3>2. InFlight = 0 BY <2>1 DEF InFlight
    <3> QED BY <3>1, <3>2
  <2>8. r * Width \in Nat BY NextWord
  <2>9. k \in 0 .. transfer_count - 1 /\ k < r * Width BY <2>2, <2>3, <2>5, <2>7, <2>8
  <2>10. axi_memory[BASE_ADDR + k] = Window(k) BY <2>6, <2>9 DEF Stored
  <2> QED BY <2>4, <2>10 DEF Pre
<1> QED BY <1>1, ChainInvariant, PTL

(* The writer has no way to hold back a word that is closed, and relies on *)
(* its source to pause: with the scope as its source, every word finds     *)
(* room in the FIFO (axis_ram_writer.sv:308).                              *)
WordsFindRoom == accumulator_valid => fifo_level < FIFO_DEPTH

THEOREM ScopePausesEnough ==
  ASSUME WindowsFit, WindowsFitMemory PROVE Spec => []WordsFindRoom
<1>1. ChainInv => WordsFindRoom BY DEF ChainInv, MemoryInv, Paused, WordsFindRoom
<1> QED BY <1>1, ChainInvariant, PTL

(* In one capture a beat that is written, the unused lanes of the last     *)
(* word included, stays in the buffer when that is a whole number of       *)
(* words: write_offset is never used after the burst that would have       *)
(* wrapped it (axis_ram_writer.sv:433).                                    *)
BeatInBuffer ==
  writer_state = "DATA" =>
    LET address == aw_addr + w_beat_count * Width
    IN  BASE_ADDR <= address /\ address + Width <= BASE_ADDR + BUFFER_SIZE

THEOREM BeatsStayInBuffer ==
  ASSUME WindowsFit, WindowsFitMemory, NEW words \in Nat, BUFFER_SIZE = words * Width
  PROVE  Spec => []BeatInBuffer
<1>1. ChainInv => BeatInBuffer
  <2> SUFFICES ASSUME ChainInv, writer_state = "DATA"
               PROVE  /\ BASE_ADDR <= aw_addr + w_beat_count * Width
                      /\ aw_addr + w_beat_count * Width + Width <= BASE_ADDR + BUFFER_SIZE
    BY DEF BeatInBuffer
  <2> USE DEF ChainInv
  <2>1. PICK r \in Nat : Counted(r) /\ Located(r) BY DEF MemoryInv, Sent
  <2>2. /\ write_offset + beat_count * Width = r * Width /\ write_offset \in Nat
        /\ aw_addr = BASE_ADDR + write_offset /\ w_beat_count = beat_count /\ beat_count \in Nat
    BY <2>1 DEF Located, MemoryInv, WriterTypes
  <2>3. beat_count * Width \in Nat /\ r * Width \in Nat BY <2>2, NextWord
  <2>4. aw_addr + w_beat_count * Width = BASE_ADDR + r * Width BY <2>2, <2>3, WriterConstants
  <2>5. r * Width < Total /\ Total \in Nat /\ Total <= BUFFER_SIZE
    <3>1. /\ beat_count <= burst_len /\ fifo_level >= burst_len + 1 - beat_count
          /\ burst_len \in Nat /\ fifo_level \in Nat
      BY WriterConstants DEF MemoryInv, Covered, WriterTypes
    <3>2. fifo_level >= 1 BY <2>2, <3>1
    <3>3. Total \in Nat \ {0} /\ Total <= BUFFER_SIZE BY WindowInBuffer DEF CaptureInv, TypeInv
    <3>4. transfer_count \in Nat BY Constants DEF CaptureInv, TypeInv, ScopeTypes
    <3> QED BY <2>1, <3>1, <3>2, <3>3, <3>4, WaitsInside DEF MemoryInv
  <2>6. r < words
    <3>1. words * Width \in Nat BY NextWord
    <3>2. words <= r => words * Width <= r * Width BY <2>1, MoreWords
    <3> QED BY <2>1, <2>3, <2>5, <3>1, <3>2
  <2>7. (r + 1) * Width <= words * Width
    <3>1. r + 1 \in Nat /\ r + 1 <= words BY <2>1, <2>6
    <3> QED BY <3>1, MoreWords
  <2>8. (r + 1) * Width = r * Width + Width /\ words * Width \in Nat BY <2>1, NextWord
  <2> QED BY <2>3, <2>4, <2>7, <2>8, WriterConstants
<1> QED BY <1>1, ChainInvariant, PTL
=============================================================================
