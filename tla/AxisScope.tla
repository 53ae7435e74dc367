------------------------------- MODULE AxisScope -------------------------------
(***************************************************************************)
(* rtl/axis_scope.sv: the capture module.  While armed it writes every     *)
(* accepted sample into a circular buffer; after the trigger it collects   *)
(* the post-trigger samples and then sends the window of pre_samples +     *)
(* post_samples around the trigger, with tlast on the final one.           *)
(*                                                                         *)
(* Clock is one rising edge of aclk: the update of read_data_reg, which    *)
(* happens in every state, together with the action of the current state   *)
(* of the FSM.  Each of those actions gathers what all the always_ff       *)
(* blocks do in that state.                                                *)
(***************************************************************************)
EXTENDS Integers

CONSTANTS
  Samples,        \* the values s_axis_tdata can take
  Unwritten,      \* the content of a buffer cell nothing was written to
  ScopeConfigs,   \* the scope_config_t values the host writes
  BUFFER_DEPTH,   \* 4096 in the code, a power of two
  COUNT_MOD,      \* 2^16: the counters are logic [15:0]
  INT_MOD         \* 2^32: the width total_samples - 1 is computed in

States == {"IDLE", "ARMED", "TRIGGERED", "TRANSFER", "DONE"}

ASSUME ScopeAssumption ==
  /\ BUFFER_DEPTH \in Nat \ {0}
  /\ COUNT_MOD \in Nat \ {0}
  /\ INT_MOD \in Nat
  /\ INT_MOD > COUNT_MOD
  /\ BUFFER_DEPTH <= COUNT_MOD
  /\ ScopeConfigs \subseteq [enable : BOOLEAN, arm : BOOLEAN,
                             pre_samples : 0 .. COUNT_MOD - 1,
                             post_samples : 0 .. COUNT_MOD - 1]

VARIABLES
  config_i,
  state,
  sample_buffer, write_ptr, read_ptr, trigger_ptr,
  post_count, transfer_count, total_samples,
  read_data_reg, wait_for_data, transfer_active

scopeRegisters ==
  <<state, sample_buffer, write_ptr, read_ptr, trigger_ptr, post_count,
    transfer_count, total_samples, read_data_reg, wait_for_data, transfer_active>>

scopeVars == <<config_i, scopeRegisters>>

Addresses == 0 .. BUFFER_DEPTH - 1
Counts == 0 .. COUNT_MOD - 1
Words == Samples \cup {Unwritten}

TypeOK ==
  /\ config_i \in ScopeConfigs
  /\ state \in States
  /\ sample_buffer \in [Addresses -> Words]
  /\ write_ptr \in Addresses /\ read_ptr \in Addresses /\ trigger_ptr \in Addresses
  /\ post_count \in Counts /\ transfer_count \in Counts /\ total_samples \in Counts
  /\ read_data_reg \in Words
  /\ wait_for_data \in BOOLEAN /\ transfer_active \in BOOLEAN

-----------------------------------------------------------------------------
(* The wires.                                                              *)

s_axis_tready == state \in {"ARMED", "TRIGGERED"}

m_axis_tdata == read_data_reg

m_axis_tvalid == state = "TRANSFER" /\ transfer_active /\ ~wait_for_data

(* Bug: one sample too many.                                               *)
LateLastIndex == total_samples % INT_MOD

(* total_samples - 1 wraps in 32 bits when the window is empty, and no     *)
(* 16-bit transfer_count reaches it.                                       *)
last_index == (total_samples - 1) % INT_MOD

m_axis_tlast == m_axis_tvalid /\ transfer_count = last_index

Address(i) == i % BUFFER_DEPTH

-----------------------------------------------------------------------------
(* The edges of the FSM.                                                   *)

(* Bug: the pointer does not wrap.                                         *)
WriteUnwrapped(tvalid, tdata) ==
  IF tvalid /\ s_axis_tready
  THEN /\ sample_buffer' = [sample_buffer EXCEPT ![Address(write_ptr)] = tdata]
       /\ write_ptr' = write_ptr + 1
  ELSE UNCHANGED <<sample_buffer, write_ptr>>

(* Shared by the states that accept input.                                 *)
WriteSample(tvalid, tdata) ==
  IF tvalid /\ s_axis_tready
  THEN /\ sample_buffer' = [sample_buffer EXCEPT ![write_ptr] = tdata]
       /\ write_ptr' = Address(write_ptr + 1)
  ELSE UNCHANGED <<sample_buffer, write_ptr>>

NoTransfer == transfer_active' = FALSE /\ wait_for_data' = FALSE

IdleEdge ==
  /\ state = "IDLE"
  /\ state' = IF config_i.enable /\ config_i.arm THEN "ARMED" ELSE "IDLE"
  /\ NoTransfer
  /\ UNCHANGED <<sample_buffer, write_ptr, read_ptr, trigger_ptr, post_count,
                 transfer_count, total_samples>>

(* Bug: the sample after the trigger sample is marked.                     *)
MarksNextSample(trigger_in, tvalid, tdata) ==
  /\ state = "ARMED"
  /\ WriteSample(tvalid, tdata)
  /\ \/ /\ trigger_in
        /\ state' = "TRIGGERED"
        /\ trigger_ptr' = write_ptr
     \/ /\ ~trigger_in
        /\ state' = IF config_i.enable THEN "ARMED" ELSE "IDLE"
        /\ UNCHANGED trigger_ptr
  /\ post_count' = 0
  /\ NoTransfer
  /\ UNCHANGED <<read_ptr, transfer_count, total_samples>>

ArmedEdge(trigger_in, tvalid, tdata) ==
  /\ state = "ARMED"
  /\ WriteSample(tvalid, tdata)
  /\ \/ /\ trigger_in
        /\ state' = "TRIGGERED"
        /\ trigger_ptr' = Address(write_ptr - 1)
     \/ /\ ~trigger_in
        /\ state' = IF config_i.enable THEN "ARMED" ELSE "IDLE"
        /\ UNCHANGED trigger_ptr
  /\ post_count' = 0
  /\ NoTransfer
  /\ UNCHANGED <<read_ptr, transfer_count, total_samples>>

(* Neither enable nor a handshake is asked for to leave this state.        *)
PostComplete == post_count + 2 >= config_i.post_samples

(* Bug: the sender is not started.                                         *)
WaitsForStart ==
  /\ state' = "TRANSFER"
  /\ read_ptr' = Address(trigger_ptr - config_i.pre_samples)
  /\ transfer_count' = 0
  /\ total_samples' = (config_i.pre_samples + config_i.post_samples) % COUNT_MOD
  /\ UNCHANGED transfer_active
  /\ wait_for_data' = TRUE

StartTransfer ==
  /\ state' = "TRANSFER"
  /\ read_ptr' = Address(trigger_ptr - config_i.pre_samples)
  /\ transfer_count' = 0
  /\ total_samples' = (config_i.pre_samples + config_i.post_samples) % COUNT_MOD
  /\ transfer_active' = TRUE
  /\ wait_for_data' = TRUE

TriggeredEdge(tvalid, tdata) ==
  /\ state = "TRIGGERED"
  /\ WriteSample(tvalid, tdata)
  /\ post_count' = IF tvalid THEN (post_count + 1) % COUNT_MOD ELSE post_count
  /\ \/ PostComplete /\ StartTransfer
     \/ /\ ~PostComplete
        /\ wait_for_data' = FALSE
        /\ UNCHANGED <<state, read_ptr, transfer_count, total_samples, transfer_active>>
  /\ UNCHANGED trigger_ptr

(* Bug: the sender does not wait for the buffer's read register.           *)
TransferNoWait(tready) ==
  LET output_handshake == m_axis_tvalid /\ tready
      more == transfer_count < last_index
  IN  /\ state = "TRANSFER"
      /\ \/ /\ output_handshake
            /\ transfer_count' = (transfer_count + 1) % COUNT_MOD
            /\ state' = IF transfer_count = last_index THEN "DONE" ELSE "TRANSFER"
            /\ read_ptr' = IF more THEN Address(read_ptr + 1) ELSE read_ptr
            /\ transfer_active' = more
            /\ wait_for_data' = FALSE
         \/ /\ ~output_handshake
            /\ wait_for_data' = FALSE
            /\ UNCHANGED <<state, transfer_count, read_ptr, transfer_active>>
      /\ UNCHANGED <<sample_buffer, write_ptr, trigger_ptr, post_count, total_samples>>

TransferEdge(tready) ==
  LET output_handshake == m_axis_tvalid /\ tready
      more == transfer_count < last_index
  IN  /\ state = "TRANSFER"
      /\ \/ /\ output_handshake
            /\ transfer_count' = (transfer_count + 1) % COUNT_MOD
            /\ state' = IF transfer_count = last_index THEN "DONE" ELSE "TRANSFER"
            /\ read_ptr' = IF more THEN Address(read_ptr + 1) ELSE read_ptr
            /\ transfer_active' = more
            /\ wait_for_data' = more
         \/ /\ ~output_handshake
            /\ wait_for_data' = FALSE
            /\ UNCHANGED <<state, transfer_count, read_ptr, transfer_active>>
      /\ UNCHANGED <<sample_buffer, write_ptr, trigger_ptr, post_count, total_samples>>

DoneEdge ==
  /\ state = "DONE"
  /\ state' = IF ~config_i.enable THEN "IDLE"
              ELSE IF config_i.arm THEN "ARMED" ELSE "DONE"
  /\ NoTransfer
  /\ UNCHANGED <<sample_buffer, write_ptr, read_ptr, trigger_ptr, post_count,
                 transfer_count, total_samples>>

Clock(trigger_in, s_axis_tvalid, s_axis_tdata, m_axis_tready) ==
  /\ read_data_reg' = sample_buffer[read_ptr]
  /\ \/ IdleEdge
     \/ ArmedEdge(trigger_in, s_axis_tvalid, s_axis_tdata)
     \/ TriggeredEdge(s_axis_tvalid, s_axis_tdata)
     \/ TransferEdge(m_axis_tready)
     \/ DoneEdge

Init ==
  /\ config_i \in ScopeConfigs
  /\ state = "IDLE"
  /\ sample_buffer = [a \in Addresses |-> Unwritten]
  /\ write_ptr = 0 /\ read_ptr = 0 /\ trigger_ptr = 0
  /\ post_count = 0 /\ transfer_count = 0 /\ total_samples = 0
  /\ read_data_reg = Unwritten
  /\ wait_for_data = FALSE /\ transfer_active = FALSE

(* The host rewrites the configuration registers between two edges.        *)
Configure(c) ==
  /\ config_i' = c
  /\ UNCHANGED scopeRegisters

(* aresetn goes low.  The buffer and its read register have no reset.      *)
Reset ==
  /\ state' = "IDLE"
  /\ write_ptr' = 0 /\ read_ptr' = 0 /\ trigger_ptr' = 0
  /\ post_count' = 0 /\ transfer_count' = 0 /\ total_samples' = 0
  /\ wait_for_data' = FALSE /\ transfer_active' = FALSE
  /\ UNCHANGED <<config_i, sample_buffer, read_data_reg>>
=============================================================================
