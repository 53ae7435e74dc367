------------------------------- MODULE ScopeProofs -------------------------------
(***************************************************************************)
(* Theorems about ScopeHistory for every buffer depth and every set of     *)
(* windows that fit the buffer.                                            *)
(***************************************************************************)
EXTENDS ScopeHistory, SequenceTheorems, TLAPS

(* A window is not empty and leaves room for the samples written between   *)
(* the last one it asks for and the transfer.                              *)
WindowsFit ==
  \A c \in ScopeConfigs :
    /\ c.pre_samples + c.post_samples >= 1
    /\ c.pre_samples + c.post_samples + 1 <= BUFFER_DEPTH
    /\ c.pre_samples + 3 <= BUFFER_DEPTH

(* The buffer holds the newest samples: the cell j places before the write *)
(* pointer holds the j-th newest one.                                      *)
Mirrored ==
  \A j \in 1 .. BUFFER_DEPTH :
    j <= Len(accepted) =>
      sample_buffer[Address(write_ptr - j)] = accepted[Len(accepted) - j + 1]

(* While capturing, the trigger sample is behind samples before the newest *)
(* one, and the samples before it are in the history.                      *)
TriggerMarked ==
  state = "TRIGGERED" =>
    /\ behind = post_count + 1
    /\ post_count = 0 \/ post_count + 2 <= config_i.post_samples
    /\ trigger_ptr = Address(write_ptr - behind - 1)
    /\ Len(accepted) >= behind + config_i.pre_samples + 1

(* While sending, the read pointer is transfer_count samples into a window *)
(* of which nothing was overwritten, and the read register holds its cell  *)
(* once it was waited for.                                                 *)
ReaderInWindow ==
  state = "TRANSFER" =>
    /\ transfer_active
    /\ total_samples = config_i.pre_samples + config_i.post_samples
    /\ transfer_count < total_samples
    /\ behind + 1 >= config_i.post_samples
    /\ behind + config_i.pre_samples + 1 <= BUFFER_DEPTH
    /\ Len(accepted) >= behind + config_i.pre_samples + 1
    /\ read_ptr = Address(write_ptr - behind - 1 - config_i.pre_samples + transfer_count)
    /\ ~wait_for_data => read_data_reg = sample_buffer[read_ptr]

IInv ==
  /\ TypeInvariant
  /\ accepted \in Seq(Samples)
  /\ behind <= BUFFER_DEPTH
  /\ Mirrored
  /\ TriggerMarked
  /\ ReaderInWindow

-----------------------------------------------------------------------------
(* Arithmetic of addresses.                                                *)

LEMMA DepthFacts ==
  /\ BUFFER_DEPTH \in Nat \ {0} /\ COUNT_MOD \in Nat \ {0} /\ INT_MOD \in Nat
  /\ INT_MOD > COUNT_MOD /\ BUFFER_DEPTH <= COUNT_MOD
  /\ Memory \in Nat /\ Memory >= BUFFER_DEPTH
  /\ TAGS \in Nat /\ TAGS > Memory
  /\ Samples = 0 .. TAGS - 1
BY ScopeAssumption, HistoryAssumption

LEMMA ModSmall ==
  ASSUME NEW n \in Nat \ {0}, NEW i \in 0 .. n - 1
  PROVE  i % n = i
OBVIOUS

LEMMA ModRange ==
  ASSUME NEW n \in Nat \ {0}, NEW i \in Int
  PROVE  i % n \in 0 .. n - 1
OBVIOUS

(* An address at most one turn out of the buffer.                          *)
LEMMA AddressCases ==
  ASSUME NEW i \in Int, -BUFFER_DEPTH <= i, i < 2 * BUFFER_DEPTH
  PROVE  /\ Address(i) \in Addresses
         /\ i < 0 => Address(i) = i + BUFFER_DEPTH
         /\ 0 <= i /\ i < BUFFER_DEPTH => Address(i) = i
         /\ BUFFER_DEPTH <= i => Address(i) = i - BUFFER_DEPTH
<1>1. i < 0 => i % BUFFER_DEPTH = i + BUFFER_DEPTH
  BY DepthFacts
<1>2. 0 <= i /\ i < BUFFER_DEPTH => i % BUFFER_DEPTH = i
  BY DepthFacts
<1>3. BUFFER_DEPTH <= i => i % BUFFER_DEPTH = i - BUFFER_DEPTH
  BY DepthFacts
<1>4. i % BUFFER_DEPTH \in 0 .. BUFFER_DEPTH - 1
  BY ModRange, DepthFacts
<1>5. QED
  BY <1>1, <1>2, <1>3, <1>4 DEF Address, Addresses

(* Steps along the buffer add up.                                          *)
LEMMA AddressSum ==
  ASSUME NEW i \in Int, -BUFFER_DEPTH <= i, i < 2 * BUFFER_DEPTH,
         NEW k \in Int, -BUFFER_DEPTH <= k, k <= BUFFER_DEPTH,
         -BUFFER_DEPTH <= i + k, i + k < 2 * BUFFER_DEPTH
  PROVE  Address(Address(i) + k) = Address(i + k)
<1> DEFINE m == Address(i)
<1>1. m \in 0 .. BUFFER_DEPTH - 1
  BY AddressCases DEF Addresses
<1>2. m = i \/ m = i + BUFFER_DEPTH \/ m = i - BUFFER_DEPTH
  BY AddressCases, DepthFacts
<1>3. m + k \in Int /\ -BUFFER_DEPTH <= m + k /\ m + k < 2 * BUFFER_DEPTH
  BY <1>1, DepthFacts
<1>4. /\ Address(m + k) \in 0 .. BUFFER_DEPTH - 1
      /\ \/ Address(m + k) = m + k
         \/ Address(m + k) = m + k + BUFFER_DEPTH
         \/ Address(m + k) = m + k - BUFFER_DEPTH
  BY <1>3, AddressCases, DepthFacts DEF Addresses
<1>5. /\ Address(i + k) \in 0 .. BUFFER_DEPTH - 1
      /\ \/ Address(i + k) = i + k
         \/ Address(i + k) = i + k + BUFFER_DEPTH
         \/ Address(i + k) = i + k - BUFFER_DEPTH
  BY AddressCases, DepthFacts DEF Addresses
<1> HIDE DEF m
<1>6. Address(m + k) = Address(i + k)
  <2>1. m + k \in Int /\ i + k \in Int
    BY <1>3
  <2>2. QED
    BY <1>1, <1>2, <1>4, <1>5, <2>1, DepthFacts
<1>7. QED
  BY <1>6 DEF m

-----------------------------------------------------------------------------
(* The history keeps the newest samples.                                   *)

(* t is s with x behind it, without the oldest sample if s was full.       *)
Grown(t, s, x) ==
  /\ t \in Seq(Samples)
  /\ Len(t) \in Nat /\ Len(t) <= Memory /\ Len(t) <= Len(s) + 1
  /\ Len(t) >= Len(s) + 1 \/ Len(t) >= Memory
  /\ t[Len(t)] = x
  /\ \A j \in Int : 2 <= j /\ j <= Len(t) =>
       t[Len(t) - j + 1] = s[Len(s) - (j - 1) + 1]

LEMMA RecentFacts ==
  ASSUME NEW s \in Seq(Samples), Len(s) <= Memory, NEW x \in Samples
  PROVE  Grown(Promise!Recent(Append(s, x)), s, x)
<1> DEFINE t == Promise!Recent(Append(s, x))
<1> DEFINE a == Append(s, x)
<1>1. a \in Seq(Samples) /\ Len(a) = Len(s) + 1 /\ Len(s) \in Nat
  OBVIOUS
<1>2. a[Len(s) + 1] = x /\ \A i \in 1 .. Len(s) : a[i] = s[i]
  OBVIOUS
<1>3. CASE Len(a) <= Memory
  <2>1. t = a
    BY <1>3 DEF Promise!Recent
  <2>2. t[Len(t)] = x /\ Len(t) = Len(s) + 1
    BY <1>1, <1>2, <2>1
  <2>3. ASSUME NEW j \in Int, 2 <= j, j <= Len(t)
        PROVE  t[Len(t) - j + 1] = s[Len(s) - (j - 1) + 1]
    BY ONLY <1>1, <1>2, <2>1, <2>3
  <2>4. QED
    BY <1>1, <1>3, <2>1, <2>2, <2>3 DEF Grown
<1>4. CASE ~(Len(a) <= Memory)
  <2>1. Len(s) = Memory /\ Len(a) = Memory + 1
    BY <1>1, <1>4, DepthFacts
  <2>2. t = SubSeq(a, 2, Memory + 1)
    BY <1>4, <2>1, DepthFacts DEF Promise!Recent
  <2>3. t \in Seq(Samples) /\ Len(t) = Memory /\ \A i \in 1 .. Memory : t[i] = a[i + 1]
    BY SMTT(30), <1>1, <2>1, <2>2, DepthFacts
  <2>4. t[Len(t)] = x
    BY <1>2, <2>1, <2>3, DepthFacts
  <2>5. ASSUME NEW j \in Int, 2 <= j, j <= Len(t)
        PROVE  t[Len(t) - j + 1] = s[Len(s) - (j - 1) + 1]
    BY ONLY <1>1, <1>2, <2>1, <2>3, <2>5, DepthFacts
  <2>6. QED
    BY <1>1, <2>1, <2>3, <2>4, <2>5, DepthFacts DEF Grown
<1>5. QED
  BY <1>3, <1>4

-----------------------------------------------------------------------------

LEMMA Ranges ==
  ASSUME IInv
  PROVE  /\ config_i \in ScopeConfigs /\ state \in States
         /\ sample_buffer \in [Addresses -> Words]
         /\ write_ptr \in 0 .. BUFFER_DEPTH - 1 /\ read_ptr \in 0 .. BUFFER_DEPTH - 1
         /\ trigger_ptr \in 0 .. BUFFER_DEPTH - 1
         /\ post_count \in 0 .. COUNT_MOD - 1 /\ transfer_count \in 0 .. COUNT_MOD - 1
         /\ total_samples \in 0 .. COUNT_MOD - 1
         /\ behind \in 0 .. BUFFER_DEPTH
         /\ accepted \in Seq(Samples) /\ Len(accepted) \in 0 .. Memory
<1>1. behind \in Nat /\ behind <= BUFFER_DEPTH
  BY DepthFacts DEF IInv, TypeInvariant
<1>2. Len(accepted) \in Nat /\ Len(accepted) <= Memory
  BY DEF IInv, TypeInvariant
<1>3. QED
  BY <1>1, <1>2, DepthFacts DEF IInv, TypeInvariant, TypeOK, Addresses, Counts

(* The window of a configuration, under WindowsFit.                        *)
LEMMA WindowFacts ==
  ASSUME WindowsFit, NEW c \in ScopeConfigs
  PROVE  /\ c.pre_samples \in Nat /\ c.post_samples \in Nat
         /\ c.pre_samples + c.post_samples >= 1
         /\ c.pre_samples + c.post_samples + 1 <= BUFFER_DEPTH
         /\ c.pre_samples + 3 <= BUFFER_DEPTH
         /\ c.enable \in BOOLEAN /\ c.arm \in BOOLEAN
BY ScopeAssumption, DepthFacts DEF WindowsFit

LEMMA OfferedType == ASSUME IInv PROVE Offered \in Samples
<1>1. CASE accepted = <<>>
  BY <1>1, DepthFacts DEF Offered
<1>2. CASE accepted # <<>>
  <2>1. Len(accepted) \in 1 .. Len(accepted)
    BY <1>2, Ranges
  <2>2. accepted[Len(accepted)] \in 0 .. TAGS - 1
    BY SMTT(30), <2>1, Ranges, DepthFacts
  <2>3. accepted[Len(accepted)] + 1 \in Int /\ TAGS \in Nat \ {0}
    BY <2>2, DepthFacts
  <2>4. (accepted[Len(accepted)] + 1) % TAGS \in 0 .. TAGS - 1
    BY <2>3, ModRange
  <2>5. QED
    BY <1>2, <2>4, DepthFacts DEF Offered
<1>3. QED
  BY <1>1, <1>2

LEMMA InitInvariant == HistoryInit => IInv
<1> SUFFICES ASSUME HistoryInit
             PROVE  IInv
  OBVIOUS
<1> USE DEF HistoryInit, Init
<1>1. config_i \in ScopeConfigs /\ state \in States
  BY DEF States
<1>2. sample_buffer \in [Addresses -> Words] /\ read_data_reg \in Words
  BY DEF Words
<1>3. write_ptr \in Addresses /\ read_ptr \in Addresses /\ trigger_ptr \in Addresses
  BY DepthFacts DEF Addresses
<1>4. post_count \in Counts /\ transfer_count \in Counts /\ total_samples \in Counts
  BY DepthFacts DEF Counts
<1>5. TypeOK
  BY <1>1, <1>2, <1>3, <1>4 DEF TypeOK
<1>6. accepted = <<>> /\ accepted \in Seq(Samples) /\ Len(accepted) = 0 /\ behind = 0
  OBVIOUS
<1>7. TypeInvariant /\ behind <= BUFFER_DEPTH
  BY <1>5, <1>6, DepthFacts DEF TypeInvariant
<1>8. Mirrored
  BY <1>6, DepthFacts DEF Mirrored
<1>9. TriggerMarked /\ ReaderInWindow
  BY DEF TriggerMarked, ReaderInWindow
<1>10. QED
  BY <1>6, <1>7, <1>8, <1>9 DEF IInv

(* A write keeps the mirror and moves the pointer along with the history.  *)
LEMMA WriteStep ==
  ASSUME IInv, state \in {"ARMED", "TRIGGERED"}, NEW tvalid \in BOOLEAN,
         WriteSample(tvalid, Offered),
         accepted' = IF tvalid /\ s_axis_tready
                     THEN Promise!Recent(Append(accepted, Offered)) ELSE accepted
  PROVE  /\ sample_buffer' \in [Addresses -> Words] /\ write_ptr' \in Addresses
         /\ accepted' \in Seq(Samples)
         /\ Len(accepted') \in Nat /\ Len(accepted') <= Memory
         /\ Mirrored'
         /\ tvalid => /\ write_ptr' = Address(write_ptr + 1)
                      /\ Len(accepted') >= Len(accepted) + 1 \/ Len(accepted') >= Memory
         /\ ~tvalid => write_ptr' = write_ptr /\ accepted' = accepted
<1>1. CASE ~tvalid
  <2>1. UNCHANGED <<sample_buffer, write_ptr, accepted>>
    BY <1>1 DEF WriteSample
  <2>2. Mirrored'
    BY <2>1 DEF IInv, Mirrored, Address
  <2>3. QED
    BY <1>1, <2>1, <2>2, Ranges, DepthFacts DEF Addresses
<1>2. CASE tvalid
  <2>1. /\ sample_buffer' = [sample_buffer EXCEPT ![write_ptr] = Offered]
        /\ write_ptr' = Address(write_ptr + 1)
        /\ accepted' = Promise!Recent(Append(accepted, Offered))
    BY <1>2 DEF WriteSample, s_axis_tready
  <2>2. write_ptr \in Addresses /\ Offered \in Words
    BY Ranges, OfferedType DEF Addresses, Words
  <2>3. sample_buffer' \in [Addresses -> Words]
    BY <2>1, <2>2, Ranges
  <2>4. /\ accepted' \in Seq(Samples) /\ Len(accepted') \in Nat
        /\ Len(accepted') <= Memory /\ Len(accepted') <= Len(accepted) + 1
        /\ Len(accepted') >= Len(accepted) + 1 \/ Len(accepted') >= Memory
        /\ accepted'[Len(accepted')] = Offered
        /\ \A j \in Int : 2 <= j /\ j <= Len(accepted') =>
             accepted'[Len(accepted') - j + 1] = accepted[Len(accepted) - (j - 1) + 1]
    <3>1. Grown(accepted', accepted, Offered)
      BY <2>1, RecentFacts, OfferedType, Ranges
    <3>2. QED
      BY <3>1 DEF Grown
  <2>5. write_ptr' \in Addresses
    BY <2>1, Ranges, AddressCases, DepthFacts
  <2>6. ASSUME NEW j \in 1 .. BUFFER_DEPTH, j <= Len(accepted')
        PROVE  sample_buffer'[Address(write_ptr' - j)] = accepted'[Len(accepted') - j + 1]
    <3>0. /\ BUFFER_DEPTH \in Nat \ {0}
          /\ write_ptr \in 0 .. BUFFER_DEPTH - 1 /\ j \in 1 .. BUFFER_DEPTH
      BY <2>2, DepthFacts DEF Addresses
    <3>1. Address(write_ptr' - j) = Address(write_ptr - (j - 1))
      <4> DEFINE i == write_ptr + 1
                 k == -j
      <4>1. /\ i \in Int /\ -BUFFER_DEPTH <= i /\ i < 2 * BUFFER_DEPTH
            /\ k \in Int /\ -BUFFER_DEPTH <= k /\ k <= BUFFER_DEPTH
            /\ -BUFFER_DEPTH <= i + k /\ i + k < 2 * BUFFER_DEPTH
        BY ONLY <3>0
      <4> HIDE DEF i, k
      <4>2. Address(Address(i) + k) = Address(i + k)
        BY <4>1, AddressSum
      <4>3. Address(Address(write_ptr + 1) + (-j)) = Address(write_ptr + 1 + (-j))
        BY <4>2 DEF i, k
      <4>4. write_ptr' - j = Address(write_ptr + 1) + (-j)
        BY <2>1, <2>5, DepthFacts DEF Addresses
      <4>5. write_ptr + 1 + (-j) = write_ptr - (j - 1)
        BY Ranges, DepthFacts
      <4>6. QED
        BY <4>3, <4>4, <4>5
    <3>2. CASE j = 1
      <4>1. Address(write_ptr - 0) = write_ptr
        BY Ranges, AddressCases, DepthFacts
      <4>2. QED
        BY <2>1, <2>2, <2>4, <3>1, <3>2, <4>1, Ranges
    <3>3. CASE j # 1
      <4> DEFINE k == j - 1
      <4>1. k \in 1 .. BUFFER_DEPTH - 1 /\ k <= Len(accepted) /\ j \in Int /\ 2 <= j
        BY SMTT(30), <2>4, <2>6, <3>3, Ranges, DepthFacts
      <4>2. Address(write_ptr - k) \in Addresses /\ Address(write_ptr - k) # write_ptr
        <5> HIDE DEF k
        <5> DEFINE i == write_ptr - k
        <5>1. i \in Int /\ -BUFFER_DEPTH <= i /\ i < 2 * BUFFER_DEPTH
          BY ONLY <3>0, <4>1
        <5>2. /\ Address(i) \in Addresses
              /\ i < 0 => Address(i) = i + BUFFER_DEPTH
              /\ 0 <= i /\ i < BUFFER_DEPTH => Address(i) = i
          <6> HIDE DEF i
          <6>1. QED
            BY <5>1, AddressCases
        <5>3. CASE i < 0
          BY ONLY <3>0, <4>1, <5>1, <5>2, <5>3
        <5>4. CASE 0 <= i
          BY ONLY <3>0, <4>1, <5>1, <5>2, <5>4
        <5>5. QED
          BY <5>1, <5>3, <5>4, DepthFacts
      <4>3. sample_buffer'[Address(write_ptr - k)] = sample_buffer[Address(write_ptr - k)]
        BY <2>1, <4>2, Ranges
      <4>4. sample_buffer[Address(write_ptr - k)] = accepted[Len(accepted) - k + 1]
        <5>1. k \in 1 .. BUFFER_DEPTH
          BY <4>1, DepthFacts
        <5> HIDE DEF k
        <5>2. QED
          BY <4>1, <5>1 DEF IInv, Mirrored
      <4>5. accepted'[Len(accepted') - j + 1] = accepted[Len(accepted) - k + 1]
        BY <2>4, <2>6, <4>1
      <4>6. QED
        BY <3>1, <4>3, <4>4, <4>5
    <3>4. QED
      BY <3>2, <3>3
  <2>7. Mirrored'
    BY <2>6 DEF Mirrored, Address
  <2>8. QED
    BY <1>2, <2>1, <2>3, <2>4, <2>5, <2>7
<1>3. QED
  BY <1>1, <1>2

(* What every edge does to the configuration and to the read register.     *)
LEMMA EdgeFacts ==
  ASSUME IInv, NEW trigger_in \in BOOLEAN, NEW tvalid \in BOOLEAN, NEW tready \in BOOLEAN,
         Edge(trigger_in, tvalid, tready)
  PROVE  /\ config_i' = config_i /\ config_i \in ScopeConfigs
         /\ read_data_reg' = sample_buffer[read_ptr] /\ read_data_reg' \in Words
<1>1. sample_buffer[read_ptr] \in Words
  BY Ranges DEF Addresses
<1>2. QED
  BY <1>1, Ranges DEF Edge, Clock

(* The parts of the invariant put together.                                *)
LEMMA Assemble ==
  ASSUME config_i' \in ScopeConfigs, state' \in States,
         sample_buffer' \in [Addresses -> Words], write_ptr' \in Addresses,
         read_ptr' \in Addresses, trigger_ptr' \in Addresses,
         post_count' \in Counts, transfer_count' \in Counts, total_samples' \in Counts,
         read_data_reg' \in Words, wait_for_data' \in BOOLEAN,
         transfer_active' \in BOOLEAN,
         accepted' \in Seq(Samples), Len(accepted') <= Memory,
         behind' \in 0 .. BUFFER_DEPTH,
         Mirrored', TriggerMarked', ReaderInWindow'
  PROVE  IInv'
<1>1. TypeOK'
  BY DEF TypeOK
<1>2. \A i \in 1 .. Len(accepted') : accepted'[i] \in Samples
  OBVIOUS
<1>3. behind' \in 0 .. COUNT_MOD /\ behind' <= BUFFER_DEPTH
  BY DepthFacts
<1>4. TypeInvariant'
  BY <1>1, <1>2, <1>3 DEF TypeInvariant
<1>5. QED
  BY <1>3, <1>4 DEF IInv

(* IDLE and DONE touch neither the buffer nor the history.                 *)
LEMMA QuietStep ==
  ASSUME IInv, NEW trigger_in \in BOOLEAN, NEW tvalid \in BOOLEAN, NEW tready \in BOOLEAN,
         Edge(trigger_in, tvalid, tready), IdleEdge \/ DoneEdge
  PROVE  IInv'
<1>1. /\ state \in {"IDLE", "DONE"} /\ state' \in {"IDLE", "ARMED", "DONE"}
      /\ UNCHANGED <<sample_buffer, write_ptr, read_ptr, trigger_ptr, post_count,
                     transfer_count, total_samples>>
      /\ wait_for_data' = FALSE /\ transfer_active' = FALSE
  BY DEF IdleEdge, DoneEdge, NoTransfer
<1>2. accepted' = accepted /\ behind' = behind + 0
  BY <1>1 DEF Edge, s_axis_tready
<1>3. behind' = behind
  BY <1>2, Ranges
<1>4. Mirrored'
  BY <1>1, <1>2 DEF IInv, Mirrored, Address
<1>5. TriggerMarked' /\ ReaderInWindow'
  BY <1>1 DEF TriggerMarked, ReaderInWindow
<1>6. state' \in States /\ wait_for_data' \in BOOLEAN /\ transfer_active' \in BOOLEAN
  BY <1>1 DEF States
<1>7. config_i' \in ScopeConfigs /\ read_data_reg' \in Words
  BY EdgeFacts
<1>8. QED
  BY <1>1, <1>2, <1>3, <1>4, <1>5, <1>6, <1>7, Assemble, Ranges DEF Addresses, Counts


(* What the states that accept input do to the buffer and to the history.  *)
LEMMA CaptureFacts ==
  ASSUME IInv, NEW trigger_in \in BOOLEAN, NEW tvalid \in BOOLEAN, NEW tready \in BOOLEAN,
         Edge(trigger_in, tvalid, tready), state \in {"ARMED", "TRIGGERED"}
  PROVE  /\ sample_buffer' \in [Addresses -> Words] /\ write_ptr' \in Addresses
         /\ accepted' \in Seq(Samples)
         /\ Len(accepted') \in Nat /\ Len(accepted') <= Memory
         /\ Mirrored'
         /\ tvalid => /\ write_ptr' = Address(write_ptr + 1)
                      /\ Len(accepted') >= Len(accepted) + 1 \/ Len(accepted') >= Memory
         /\ ~tvalid => write_ptr' = write_ptr /\ accepted' = accepted
<1>1. WriteSample(tvalid, Offered)
  BY DEF Edge, Clock, ArmedEdge, TriggeredEdge, IdleEdge, TransferEdge, DoneEdge
<1>2. accepted' = IF tvalid /\ s_axis_tready
                  THEN Promise!Recent(Append(accepted, Offered)) ELSE accepted
  BY DEF Edge
<1>3. QED
  BY <1>1, <1>2, WriteStep

LEMMA ArmedStep ==
  ASSUME WindowsFit, IInv,
         NEW trigger_in \in BOOLEAN, NEW tvalid \in BOOLEAN, NEW tready \in BOOLEAN,
         SteadyEdge(trigger_in, tvalid, tready),
         ArmedEdge(trigger_in, tvalid, Offered)
  PROVE  IInv'
<1>1. Edge(trigger_in, tvalid, tready) /\ state = "ARMED" /\ s_axis_tready
  BY DEF SteadyEdge, ArmedEdge, s_axis_tready
<1>2. /\ state' \in {"IDLE", "ARMED", "TRIGGERED"}
      /\ post_count' = 0
      /\ wait_for_data' = FALSE /\ transfer_active' = FALSE
      /\ UNCHANGED <<read_ptr, transfer_count, total_samples>>
  BY DEF ArmedEdge, NoTransfer
<1>3. trigger_ptr' \in Addresses
  <2>1. CASE trigger_in
    <3>1. Address(write_ptr - 1) \in Addresses
      BY AddressCases, Ranges, DepthFacts
    <3>2. QED
      BY <2>1, <3>1 DEF ArmedEdge
  <2>2. CASE ~trigger_in
    BY <2>2, Ranges DEF ArmedEdge, Addresses
  <2>3. QED
    BY <2>1, <2>2
<1>4. behind' \in 0 .. BUFFER_DEPTH /\ (trigger_in /\ tvalid => behind' = 1)
  <2>1. CASE ~trigger_in
    BY <1>1, <2>1, Ranges DEF Edge
  <2>2. CASE trigger_in
    <3>1. behind' = 0 + (IF tvalid THEN 1 ELSE 0)
      BY <1>1, <2>2 DEF Edge
    <3>2. QED
      BY <3>1, DepthFacts
  <2>3. QED
    BY <2>1, <2>2
<1>5. TriggerMarked'
  <2> SUFFICES ASSUME state' = "TRIGGERED"
               PROVE  /\ behind' = post_count' + 1
                      /\ post_count' = 0
                      /\ trigger_ptr' = Address(write_ptr' - behind' - 1)
                      /\ Len(accepted') >= behind' + config_i'.pre_samples + 1
    BY DEF TriggerMarked, Address
  <2>1. trigger_in /\ trigger_ptr' = Address(write_ptr - 1)
    BY DEF ArmedEdge
  <2>2. tvalid /\ Len(accepted) > config_i.pre_samples
    BY <1>1, <2>1 DEF SteadyEdge, Primed
  <2>3. behind' = 1
    BY <1>4, <2>1, <2>2
  <2>4. /\ write_ptr' = Address(write_ptr + 1) /\ write_ptr' \in Addresses
        /\ Len(accepted') \in Nat
        /\ Len(accepted') >= Len(accepted) + 1 \/ Len(accepted') >= Memory
    BY <1>1, <2>2, CaptureFacts
  <2>5. config_i' = config_i /\ config_i \in ScopeConfigs
    BY <1>1, EdgeFacts
  <2>6. config_i.pre_samples \in Nat /\ config_i.pre_samples + 3 <= BUFFER_DEPTH
    BY <2>5, WindowFacts
  <2>7. Len(accepted') >= behind' + config_i'.pre_samples + 1
    <3> DEFINE p == config_i.pre_samples
               l == Len(accepted)
    <3>1. p \in Nat /\ p + 3 <= BUFFER_DEPTH /\ l \in Nat /\ l > p
      BY <2>2, <2>6, Ranges, DepthFacts
    <3>2. Len(accepted') >= l + 1 \/ Len(accepted') >= Memory
      BY <2>4
    <3> HIDE DEF p, l
    <3>3. Len(accepted') >= 1 + p + 1
      BY <3>1, <3>2, <2>4, DepthFacts
    <3>4. QED
      BY <3>3, <2>3, <2>5 DEF p
  <2>8. trigger_ptr' = Address(write_ptr' - behind' - 1)
    <3> DEFINE i == write_ptr + 1
               k == -2
    <3>1. BUFFER_DEPTH \in Nat /\ 3 <= BUFFER_DEPTH
      BY <2>6, DepthFacts
    <3>2. /\ i \in Int /\ -BUFFER_DEPTH <= i /\ i < 2 * BUFFER_DEPTH
          /\ k \in Int /\ -BUFFER_DEPTH <= k /\ k <= BUFFER_DEPTH
          /\ -BUFFER_DEPTH <= i + k /\ i + k < 2 * BUFFER_DEPTH
      BY SMTT(30), <3>1, Ranges
    <3>3. i + k = write_ptr - 1 /\ write_ptr' - behind' - 1 = write_ptr' + k
      BY SMTT(30), <2>3, <2>4, Ranges, DepthFacts DEF Addresses
    <3> HIDE DEF k
    <3>4. write_ptr' = Address(i)
      BY <2>4
    <3> HIDE DEF i
    <3>5. Address(Address(i) + k) = Address(i + k)
      BY <3>2, AddressSum
    <3>6. QED
      BY <2>1, <3>3, <3>4, <3>5
  <2>9. QED
    BY <1>2, <2>3, <2>7, <2>8
<1>6. ReaderInWindow'
  BY <1>2 DEF ReaderInWindow
<1>7. state' \in States /\ post_count' \in Counts
  BY <1>2, DepthFacts DEF States, Counts
<1>8. wait_for_data' \in BOOLEAN /\ transfer_active' \in BOOLEAN
  BY <1>2
<1>9. config_i' \in ScopeConfigs /\ read_data_reg' \in Words
  BY <1>1, EdgeFacts
<1>10. read_ptr' \in Addresses /\ transfer_count' \in Counts /\ total_samples' \in Counts
  BY <1>2, Ranges DEF Addresses, Counts
<1>11. /\ sample_buffer' \in [Addresses -> Words] /\ write_ptr' \in Addresses
       /\ accepted' \in Seq(Samples) /\ Len(accepted') <= Memory /\ Mirrored'
  BY <1>1, CaptureFacts
<1>12. QED
  BY <1>3, <1>4, <1>5, <1>6, <1>7, <1>8, <1>9, <1>10, <1>11, Assemble


(* A capture stops while its window still fits the buffer.                 *)
LEMMA RoomForOneMore ==
  ASSUME NEW d \in Nat, NEW p \in Nat, NEW q \in Nat, NEW b \in Nat, NEW c \in Nat,
         p + q + 1 <= d, p + 3 <= d, b = c + 1, c = 0 \/ c + 2 <= q
  PROVE  b + 1 + p + 1 <= d
OBVIOUS

(* An edge in TRIGGERED leaves the mark on the trigger sample.             *)
LEMMA CollectFacts ==
  ASSUME WindowsFit, IInv,
         NEW trigger_in \in BOOLEAN, NEW tvalid \in BOOLEAN, NEW tready \in BOOLEAN,
         Edge(trigger_in, tvalid, tready),
         TriggeredEdge(tvalid, Offered)
  PROVE  /\ behind' \in Nat /\ behind' >= behind
         /\ behind' = post_count' + 1 /\ post_count' <= post_count + 1
         /\ post_count' \in Counts /\ write_ptr' \in Addresses
         /\ behind' + config_i.pre_samples + 1 <= BUFFER_DEPTH
         /\ Len(accepted') >= behind' + config_i.pre_samples + 1
         /\ trigger_ptr' = trigger_ptr
         /\ trigger_ptr = Address(write_ptr' - behind' - 1)
<1> DEFINE p == config_i.pre_samples
           q == config_i.post_samples
           l == Len(accepted)
<1>1. state = "TRIGGERED" /\ s_axis_tready /\ trigger_ptr' = trigger_ptr
  BY DEF TriggeredEdge, s_axis_tready
<1>2. /\ p \in Nat /\ q \in Nat /\ l \in Nat
      /\ p + q + 1 <= BUFFER_DEPTH /\ p + 3 <= BUFFER_DEPTH
  BY WindowFacts, Ranges
<1>3. /\ behind = post_count + 1
      /\ post_count = 0 \/ post_count + 2 <= q
      /\ trigger_ptr = Address(write_ptr - behind - 1)
      /\ l >= behind + p + 1
  BY <1>1 DEF IInv, TriggerMarked
<1>4. /\ behind \in Nat /\ post_count \in Nat /\ write_ptr \in 0 .. BUFFER_DEPTH - 1
      /\ BUFFER_DEPTH \in Nat \ {0} /\ COUNT_MOD \in Nat \ {0}
      /\ BUFFER_DEPTH <= COUNT_MOD /\ Memory \in Nat /\ BUFFER_DEPTH <= Memory
  BY Ranges, DepthFacts
<1>5. behind' = behind + (IF tvalid THEN 1 ELSE 0)
  BY <1>1 DEF Edge
<1>6. post_count' = IF tvalid THEN (post_count + 1) % COUNT_MOD ELSE post_count
  BY DEF TriggeredEdge
<1>7. /\ write_ptr' \in Addresses
      /\ Len(accepted') \in Nat
      /\ tvalid => /\ write_ptr' = Address(write_ptr + 1)
                   /\ Len(accepted') >= l + 1 \/ Len(accepted') >= Memory
      /\ ~tvalid => write_ptr' = write_ptr /\ accepted' = accepted
  BY <1>1, CaptureFacts
<1> HIDE DEF p, q
<1>8. behind + 1 + p + 1 <= BUFFER_DEPTH
  BY <1>2, <1>3, <1>4, RoomForOneMore
<1>9. CASE ~tvalid
  <2>1. behind' = behind /\ post_count' = post_count
    BY <1>5, <1>6, <1>9, Ranges
  <2>2. behind + p + 1 <= BUFFER_DEPTH
    BY <1>2, <1>4, <1>8
  <2>3. Len(accepted') >= behind + p + 1
    BY <1>3, <1>7, <1>9
  <2>4. trigger_ptr = Address(write_ptr' - behind' - 1)
    BY <1>3, <1>7, <1>9, <2>1
  <2>5. post_count' <= post_count + 1 /\ behind' >= behind /\ behind' \in Nat
    BY <2>1, Ranges
  <2>6. QED
    BY <1>1, <1>3, <1>7, <2>1, <2>2, <2>3, <2>4, <2>5, Ranges DEF p, Counts
<1>10. CASE tvalid
  <2>1. behind' = behind + 1 /\ behind' \in Nat
    BY <1>5, <1>10, Ranges
  <2>2. behind + 1 + p + 1 <= BUFFER_DEPTH
    BY <1>2, <1>4, <1>8
  <2>3. post_count' = post_count + 1 /\ post_count' \in Counts
    <3>1. COUNT_MOD \in Nat \ {0} /\ post_count + 1 \in 0 .. COUNT_MOD - 1
      BY <1>2, <1>3, <1>4, <2>2
    <3>2. (post_count + 1) % COUNT_MOD = post_count + 1
      BY <3>1, ModSmall
    <3>3. QED
      BY <1>6, <1>10, <3>1, <3>2 DEF Counts
  <2>4. Len(accepted') >= behind + 1 + p + 1
    <3> HIDE DEF l
    <3>1. QED
      BY <1>2, <1>3, <1>7, <1>10, <2>2, <1>4
  <2>5. trigger_ptr = Address(write_ptr' - behind' - 1)
    <3> DEFINE i == write_ptr + 1
               k == -(behind + 2)
    <3>1. /\ i \in Int /\ -BUFFER_DEPTH <= i /\ i < 2 * BUFFER_DEPTH
          /\ k \in Int /\ -BUFFER_DEPTH <= k /\ k <= BUFFER_DEPTH
          /\ -BUFFER_DEPTH <= i + k /\ i + k < 2 * BUFFER_DEPTH
      BY <1>2, <2>2, <1>4
    <3>2. i + k = write_ptr - behind - 1 /\ write_ptr' - behind' - 1 = write_ptr' + k
      BY <1>7, <2>1, <1>4 DEF Addresses
    <3> HIDE DEF k
    <3>3. write_ptr' = Address(i)
      BY <1>7, <1>10
    <3> HIDE DEF i
    <3>4. Address(Address(i) + k) = Address(i + k)
      BY <3>1, AddressSum
    <3>5. QED
      BY <1>3, <3>2, <3>3, <3>4
  <2>6. behind' = post_count' + 1 /\ behind' >= behind
    BY <1>3, <2>1, <2>3, Ranges
  <2>7. post_count' <= post_count + 1
    BY <2>3, Ranges
  <2>8. QED
    BY <1>1, <1>7, <2>1, <2>2, <2>3, <2>4, <2>5, <2>6, <2>7 DEF p
<1>11. QED
  BY <1>9, <1>10


(* The addresses of the trigger sample and of the first sample to send.    *)
LEMMA WindowStart ==
  ASSUME NEW d \in Nat \ {0}, NEW w \in 0 .. d - 1, NEW b \in Nat, NEW p \in Nat,
         b + p + 1 <= d
  PROVE  /\ w - b - 1 \in Int /\ -d <= w - b - 1 /\ w - b - 1 < 2 * d
         /\ -p \in Int /\ -d <= -p /\ -p <= d
         /\ w - b - 1 + (-p) = w - b - 1 - p
         /\ w - b - 1 - p \in Int /\ -d <= w - b - 1 - p /\ w - b - 1 - p < 2 * d
OBVIOUS

LEMMA NotYetComplete ==
  ASSUME NEW c \in Nat, NEW e \in Nat, NEW q \in Nat, ~(c + 2 >= q), e <= c + 1
  PROVE  e + 2 <= q
OBVIOUS

LEMMA TriggeredStep ==
  ASSUME WindowsFit, IInv,
         NEW trigger_in \in BOOLEAN, NEW tvalid \in BOOLEAN, NEW tready \in BOOLEAN,
         Edge(trigger_in, tvalid, tready),
         TriggeredEdge(tvalid, Offered)
  PROVE  IInv'
<1> DEFINE p == config_i.pre_samples
           q == config_i.post_samples
<1>1. state = "TRIGGERED" /\ behind = post_count + 1
  BY DEF TriggeredEdge, IInv, TriggerMarked
<1>2. /\ behind' \in Nat /\ behind' >= behind
      /\ behind' = post_count' + 1 /\ post_count' <= post_count + 1
      /\ post_count' \in Counts /\ write_ptr' \in Addresses
      /\ behind' + p + 1 <= BUFFER_DEPTH
      /\ Len(accepted') >= behind' + p + 1
      /\ trigger_ptr' = trigger_ptr
      /\ trigger_ptr = Address(write_ptr' - behind' - 1)
  BY CollectFacts
<1>3. /\ config_i' = config_i /\ config_i \in ScopeConfigs /\ read_data_reg' \in Words
  BY EdgeFacts
<1>4. /\ p \in Nat /\ q \in Nat /\ p + q >= 1 /\ p + q + 1 <= BUFFER_DEPTH
  BY WindowFacts, <1>3
<1>5. /\ behind \in Nat /\ post_count \in Nat /\ write_ptr' \in 0 .. BUFFER_DEPTH - 1
      /\ BUFFER_DEPTH \in Nat \ {0} /\ COUNT_MOD \in Nat \ {0}
      /\ BUFFER_DEPTH <= COUNT_MOD
  BY <1>2, Ranges, DepthFacts DEF Addresses
<1>6. post_count' \in Nat
  BY <1>2, <1>5 DEF Counts
<1>7. /\ sample_buffer' \in [Addresses -> Words]
      /\ accepted' \in Seq(Samples) /\ Len(accepted') <= Memory /\ Mirrored'
  BY <1>1, CaptureFacts
<1>8. trigger_ptr' \in Addresses
  BY <1>2, Ranges DEF Addresses
<1>9. behind' \in 0 .. BUFFER_DEPTH
  <2> HIDE DEF p
  <2>1. QED
    BY <1>2, <1>4, <1>5
<1>10. CASE PostComplete /\ StartTransfer
  <2>1. /\ state' = "TRANSFER" /\ transfer_count' = 0
        /\ read_ptr' = Address(trigger_ptr - p)
        /\ total_samples' = (p + q) % COUNT_MOD
        /\ transfer_active' = TRUE /\ wait_for_data' = TRUE
        /\ post_count + 2 >= q
    BY <1>10 DEF StartTransfer, PostComplete
  <2> HIDE DEF p, q
  <2>2. behind' \in Nat /\ p \in Nat /\ behind' + p + 1 <= BUFFER_DEPTH
    BY <1>2, <1>4
  <2>3. p + q \in 0 .. COUNT_MOD - 1
    BY <1>4, <1>5
  <2>4. total_samples' = p + q /\ total_samples' \in Counts
    BY <2>1, <2>3, <1>5, ModSmall DEF Counts
  <2>5. behind' + 1 >= q
    BY <1>1, <1>2, <1>4, <1>5, <2>1
  <2>6. read_ptr' = Address(write_ptr' - behind' - 1 - p)
    <3> DEFINE i == write_ptr' - behind' - 1
               k == -p
    <3>1. /\ i \in Int /\ -BUFFER_DEPTH <= i /\ i < 2 * BUFFER_DEPTH
          /\ k \in Int /\ -BUFFER_DEPTH <= k /\ k <= BUFFER_DEPTH
          /\ -BUFFER_DEPTH <= i + k /\ i + k < 2 * BUFFER_DEPTH
      BY <2>2, <1>5, WindowStart
    <3>2. i + k = write_ptr' - behind' - 1 - p
      BY <1>2, <1>4, <1>5
    <3>3. trigger_ptr - p = trigger_ptr + k /\ trigger_ptr = Address(i)
      BY <1>2, <1>4, Ranges
    <3> HIDE DEF i, k
    <3>4. Address(Address(i) + k) = Address(i + k)
      BY <3>1, AddressSum
    <3>5. QED
      BY <2>1, <3>2, <3>3, <3>4
  <2>7. read_ptr' \in Addresses
    <3> DEFINE i == write_ptr' - behind' - 1 - p
    <3>1. i \in Int /\ -BUFFER_DEPTH <= i /\ i < 2 * BUFFER_DEPTH
      BY <2>2, <1>5, WindowStart
    <3> HIDE DEF i
    <3>2. Address(i) \in Addresses
      BY <3>1, AddressCases
    <3>3. QED
      BY <2>6, <3>2 DEF i
  <2>8. ReaderInWindow'
    <3>1. write_ptr' - behind' - 1 - p = write_ptr' - behind' - 1 - p + 0
      BY <1>2, <1>4, <1>5
    <3>2. read_ptr' = Address(write_ptr' - behind' - 1 - p + transfer_count')
      BY <2>1, <2>6, <3>1
    <3>3. transfer_count' < total_samples'
      BY <1>4, <2>1, <2>4
    <3>4. config_i'.pre_samples = p /\ config_i'.post_samples = q
      BY <1>3 DEF p, q
    <3>5. QED
      BY <1>2, <2>1, <2>4, <2>5, <3>2, <3>3, <3>4 DEF ReaderInWindow, Address
  <2>9. TriggerMarked'
    BY <2>1 DEF TriggerMarked
  <2>10. /\ state' \in States /\ transfer_count' \in Counts
        /\ transfer_active' \in BOOLEAN /\ wait_for_data' \in BOOLEAN
    BY <2>1, <1>5 DEF States, Counts
  <2>11. QED
    BY <1>2, <1>3, <1>7, <1>8, <1>9, <2>4, <2>7, <2>8, <2>9, <2>10, Assemble
<1>11. CASE ~PostComplete
  <2>1. /\ state' = "TRIGGERED" /\ wait_for_data' = FALSE
        /\ UNCHANGED <<read_ptr, transfer_count, total_samples, transfer_active>>
        /\ ~(post_count + 2 >= q)
    BY <1>1, <1>11 DEF TriggeredEdge, PostComplete
  <2>2. post_count' + 2 <= config_i'.post_samples
    <3>1. config_i'.post_samples = q
      BY <1>3
    <3> HIDE DEF q
    <3>2. q \in Nat /\ ~(post_count + 2 >= q)
      BY <1>4, <2>1
    <3>3. post_count' <= post_count + 1
      BY <1>2
    <3>4. post_count' + 2 <= q
      BY <1>5, <1>6, <3>2, <3>3, NotYetComplete
    <3>5. QED
      BY <3>1, <3>4
  <2>3. config_i'.pre_samples = p
    BY <1>3
  <2>4. TriggerMarked'
    BY <1>2, <2>2, <2>3 DEF TriggerMarked, Address
  <2>5. ReaderInWindow'
    BY <2>1 DEF ReaderInWindow
  <2>6. /\ state' \in States /\ wait_for_data' \in BOOLEAN
        /\ read_ptr' \in Addresses /\ transfer_count' \in Counts
        /\ total_samples' \in Counts
    BY <2>1, Ranges DEF States, Addresses, Counts
  <2>7. transfer_active' \in BOOLEAN
    BY <2>1 DEF IInv, TypeInvariant, TypeOK
  <2>8. QED
    BY <1>2, <1>3, <1>7, <1>8, <1>9, <2>4, <2>5, <2>6, <2>7, Assemble
<1>12. QED
  BY <1>10, <1>11 DEF TriggeredEdge


(* The address the reader is at, and the one after it.                     *)
LEMMA ReaderRange ==
  ASSUME NEW d \in Nat \ {0}, NEW w \in 0 .. d - 1, NEW b \in Nat, NEW p \in Nat,
         NEW q \in Nat, NEW n \in Nat, b + p + 1 <= d, b + 1 >= q, n < p + q
  PROVE  /\ w - b - 1 - p + n \in Int /\ -d <= w - b - 1 - p + n
         /\ w - b - 1 - p + n < d
         /\ w - b - 1 - p + n + 1 = w - b - 1 - p + (n + 1)
         /\ b + 1 + p - n \in 1 .. d
         /\ w - (b + 1 + p - n) = w - b - 1 - p + n
OBVIOUS

(* The registers of a transfer, and the index of its last sample.          *)
LEMMA TransferFacts ==
  ASSUME WindowsFit, IInv, state = "TRANSFER"
  PROVE  /\ transfer_active
         /\ config_i.pre_samples \in Nat /\ config_i.post_samples \in Nat
         /\ total_samples = config_i.pre_samples + config_i.post_samples
         /\ total_samples \in Nat /\ total_samples >= 1
         /\ transfer_count \in Nat /\ transfer_count < total_samples
         /\ total_samples < COUNT_MOD
         /\ last_index = total_samples - 1
         /\ behind \in Nat /\ behind + 1 >= config_i.post_samples
         /\ behind + config_i.pre_samples + 1 <= BUFFER_DEPTH
         /\ Len(accepted) >= behind + config_i.pre_samples + 1
         /\ write_ptr \in 0 .. BUFFER_DEPTH - 1
         /\ BUFFER_DEPTH \in Nat \ {0} /\ COUNT_MOD \in Nat \ {0}
         /\ read_ptr = Address(write_ptr - behind - 1 - config_i.pre_samples
                               + transfer_count)
         /\ ~wait_for_data => read_data_reg = sample_buffer[read_ptr]
<1>1. config_i \in ScopeConfigs
  BY Ranges
<1>2. /\ config_i.pre_samples \in Nat /\ config_i.post_samples \in Nat
      /\ config_i.pre_samples + config_i.post_samples >= 1
  BY <1>1, WindowFacts
<1>3. /\ total_samples \in 0 .. COUNT_MOD - 1 /\ transfer_count \in 0 .. COUNT_MOD - 1
      /\ behind \in 0 .. BUFFER_DEPTH /\ write_ptr \in 0 .. BUFFER_DEPTH - 1
      /\ BUFFER_DEPTH \in Nat \ {0} /\ COUNT_MOD \in Nat \ {0} /\ INT_MOD \in Nat
      /\ COUNT_MOD < INT_MOD
  BY Ranges, DepthFacts
<1>4. /\ transfer_active
      /\ total_samples = config_i.pre_samples + config_i.post_samples
      /\ transfer_count < total_samples
      /\ behind + 1 >= config_i.post_samples
      /\ behind + config_i.pre_samples + 1 <= BUFFER_DEPTH
      /\ Len(accepted) >= behind + config_i.pre_samples + 1
      /\ read_ptr = Address(write_ptr - behind - 1 - config_i.pre_samples + transfer_count)
      /\ ~wait_for_data => read_data_reg = sample_buffer[read_ptr]
  BY DEF IInv, ReaderInWindow
<1>5. total_samples >= 1
  BY <1>2, <1>4
<1>6. total_samples - 1 \in 0 .. INT_MOD - 1 /\ INT_MOD \in Nat \ {0}
  BY <1>3, <1>5
<1>7. last_index = total_samples - 1
  BY <1>6, ModSmall DEF last_index
<1>8. QED
  BY <1>2, <1>3, <1>4, <1>5, <1>7

LEMMA TransferStep ==
  ASSUME WindowsFit, IInv,
         NEW trigger_in \in BOOLEAN, NEW tvalid \in BOOLEAN, NEW tready \in BOOLEAN,
         Edge(trigger_in, tvalid, tready), TransferEdge(tready)
  PROVE  IInv'
<1> DEFINE p == config_i.pre_samples
           q == config_i.post_samples
           base == write_ptr - behind - 1 - p
<1>1. /\ state = "TRANSFER"
      /\ UNCHANGED <<sample_buffer, write_ptr, trigger_ptr, post_count, total_samples>>
  BY DEF TransferEdge
<1>2. /\ p \in Nat /\ q \in Nat /\ total_samples = p + q
      /\ total_samples \in Nat /\ total_samples >= 1 /\ total_samples < COUNT_MOD
      /\ transfer_count \in Nat /\ transfer_count < total_samples
      /\ last_index = total_samples - 1
      /\ behind \in Nat /\ behind + 1 >= q /\ behind + p + 1 <= BUFFER_DEPTH
      /\ write_ptr \in 0 .. BUFFER_DEPTH - 1
      /\ BUFFER_DEPTH \in Nat \ {0} /\ COUNT_MOD \in Nat \ {0}
      /\ read_ptr = Address(base + transfer_count)
  BY <1>1, TransferFacts
<1>3. transfer_active /\ Len(accepted) >= behind + p + 1
  BY <1>1, TransferFacts
<1>4. accepted' = accepted /\ behind' = behind
  <2>1. accepted' = accepted /\ behind' = behind + 0
    BY <1>1 DEF Edge, s_axis_tready
  <2>2. QED
    BY <1>2, <2>1
<1>5. /\ config_i' = config_i /\ config_i' \in ScopeConfigs
      /\ read_data_reg' = sample_buffer[read_ptr] /\ read_data_reg' \in Words
  BY EdgeFacts
<1>6. Mirrored'
  BY <1>1, <1>4 DEF IInv, Mirrored, Address
<1>7. TriggerMarked'
  BY <1>1 DEF TransferEdge, TriggerMarked
<1>8. /\ sample_buffer' \in [Addresses -> Words] /\ write_ptr' \in Addresses
      /\ trigger_ptr' \in Addresses /\ post_count' \in Counts /\ total_samples' \in Counts
      /\ accepted' \in Seq(Samples) /\ Len(accepted') <= Memory
      /\ behind' \in 0 .. BUFFER_DEPTH
  BY <1>1, <1>4, Ranges DEF Addresses, Counts
<1>9. transfer_count + 1 \in Nat /\ (transfer_count + 1) % COUNT_MOD = transfer_count + 1
  <2>1. transfer_count + 1 \in 0 .. COUNT_MOD - 1
    BY <1>2
  <2>2. QED
    BY <1>2, <2>1, ModSmall
<1>10. CASE m_axis_tvalid /\ tready /\ transfer_count < last_index
  <2>1. /\ transfer_count' = transfer_count + 1 /\ state' = "TRANSFER"
        /\ read_ptr' = Address(read_ptr + 1)
        /\ transfer_active' = TRUE /\ wait_for_data' = TRUE
    <3>1. transfer_count # last_index
      BY <1>2, <1>10
    <3>2. QED
      BY <1>9, <1>10, <3>1 DEF TransferEdge
  <2>2. read_ptr' = Address(base + transfer_count + 1)
    <3> DEFINE i == base + transfer_count
    <3>1. i \in Int /\ -BUFFER_DEPTH <= i /\ i < BUFFER_DEPTH
      <4> HIDE DEF p, q
      <4>1. QED
        BY <1>2, ReaderRange
    <3> HIDE DEF i
    <3>2. /\ i < 2 * BUFFER_DEPTH /\ 1 \in Int /\ -BUFFER_DEPTH <= 1 /\ 1 <= BUFFER_DEPTH
          /\ -BUFFER_DEPTH <= i + 1 /\ i + 1 < 2 * BUFFER_DEPTH
      BY <1>2, <3>1
    <3>3. Address(Address(i) + 1) = Address(i + 1)
      BY <3>1, <3>2, AddressSum
    <3>4. read_ptr = Address(i)
      BY <1>2 DEF i
    <3>5. QED
      BY <2>1, <3>3, <3>4 DEF i
  <2>3. base + transfer_count + 1 = base + (transfer_count + 1)
    <3> HIDE DEF p, q
    <3>1. QED
      BY <1>2, ReaderRange
  <2>4. read_ptr' = Address(base + transfer_count')
    BY <2>1, <2>2, <2>3
  <2>5. read_ptr' \in Addresses
    <3>1. read_ptr + 1 \in Int /\ BUFFER_DEPTH \in Nat \ {0}
      BY Ranges, <1>2
    <3>2. (read_ptr + 1) % BUFFER_DEPTH \in 0 .. BUFFER_DEPTH - 1
      BY <3>1, ModRange
    <3>3. QED
      BY <2>1, <3>2 DEF Address, Addresses
  <2>6. transfer_count' < total_samples'
    BY <1>1, <1>2, <1>10, <2>1
  <2>7. ReaderInWindow'
    <3>1. config_i'.pre_samples = p /\ config_i'.post_samples = q
      BY <1>5
    <3>2. /\ total_samples' = p + q /\ behind' + 1 >= q
          /\ behind' + p + 1 <= BUFFER_DEPTH /\ Len(accepted') >= behind' + p + 1
          /\ read_ptr' = Address(write_ptr' - behind' - 1 - p + transfer_count')
      BY <1>1, <1>2, <1>3, <1>4, <2>4
    <3>3. QED
      BY <2>1, <2>6, <3>1, <3>2 DEF ReaderInWindow, Address
  <2>8. /\ state' \in States /\ transfer_count' \in Counts
        /\ transfer_active' \in BOOLEAN /\ wait_for_data' \in BOOLEAN
    BY <1>2, <2>1 DEF States, Counts
  <2>9. QED
    BY <1>5, <1>6, <1>7, <1>8, <2>5, <2>7, <2>8, Assemble
<1>11. CASE m_axis_tvalid /\ tready /\ ~(transfer_count < last_index)
  <2>1. /\ transfer_count = last_index /\ state' = "DONE"
        /\ transfer_count' = transfer_count + 1 /\ read_ptr' = read_ptr
        /\ transfer_active' = FALSE /\ wait_for_data' = FALSE
    <3>1. transfer_count = last_index
      BY <1>2, <1>11
    <3>2. /\ transfer_count' = (transfer_count + 1) % COUNT_MOD
          /\ state' = IF transfer_count = last_index THEN "DONE" ELSE "TRANSFER"
          /\ read_ptr' = IF transfer_count < last_index
                         THEN Address(read_ptr + 1) ELSE read_ptr
          /\ transfer_active' = (transfer_count < last_index)
          /\ wait_for_data' = (transfer_count < last_index)
      BY <1>11 DEF TransferEdge
    <3>3. (transfer_count < last_index) = FALSE
      BY <1>2, <1>11
    <3>4. transfer_active' = FALSE /\ wait_for_data' = FALSE
      BY <3>2, <3>3, Zenon
    <3>5. read_ptr' = read_ptr
      BY <1>11, <3>2
    <3>6. QED
      BY <1>9, <3>1, <3>2, <3>4, <3>5
  <2>2. ReaderInWindow'
    BY <2>1 DEF ReaderInWindow
  <2>3. /\ state' \in States /\ transfer_count' \in Counts
        /\ transfer_active' \in BOOLEAN /\ wait_for_data' \in BOOLEAN
    <3>1. transfer_count + 1 \in 0 .. COUNT_MOD - 1
      BY <1>2
    <3>2. QED
      BY <2>1, <3>1 DEF States, Counts
  <2>4. read_ptr' \in Addresses
    BY <2>1, Ranges DEF Addresses
  <2>5. QED
    BY <1>5, <1>6, <1>7, <1>8, <2>2, <2>3, <2>4, Assemble
<1>12. CASE ~(m_axis_tvalid /\ tready)
  <2>1. /\ UNCHANGED <<state, transfer_count, read_ptr, transfer_active>>
        /\ wait_for_data' = FALSE
    BY <1>12 DEF TransferEdge
  <2>2. read_data_reg' = sample_buffer'[read_ptr']
    BY <1>1, <1>5, <2>1
  <2>3. ReaderInWindow'
    <3>1. config_i'.pre_samples = p /\ config_i'.post_samples = q
      BY <1>5
    <3>2. /\ total_samples' = p + q /\ behind' + 1 >= q
          /\ behind' + p + 1 <= BUFFER_DEPTH /\ Len(accepted') >= behind' + p + 1
          /\ read_ptr' = Address(write_ptr' - behind' - 1 - p + transfer_count')
          /\ transfer_count' < total_samples'
      BY <1>1, <1>2, <1>3, <1>4, <2>1
    <3>3. transfer_active'
      BY <1>3, <2>1
    <3>4. QED
      BY <2>2, <3>1, <3>2, <3>3 DEF ReaderInWindow, Address
  <2>4. state' \in States /\ transfer_count' \in Counts /\ read_ptr' \in Addresses
    BY <1>1, <2>1, Ranges DEF States, Addresses, Counts
  <2>5. wait_for_data' \in BOOLEAN
    BY <2>1
  <2>6. transfer_active' \in BOOLEAN
    BY <2>1 DEF IInv, TypeInvariant, TypeOK
  <2>7. QED
    BY <1>5, <1>6, <1>7, <1>8, <2>3, <2>4, <2>5, <2>6, Assemble
<1>13. QED
  BY <1>10, <1>11, <1>12


LEMMA HostStep ==
  ASSUME IInv, NEW c \in ScopeConfigs, HostWrite(c)
  PROVE  IInv'
<1>1. /\ config_i' = c
      /\ UNCHANGED <<state, sample_buffer, write_ptr, read_ptr, trigger_ptr, post_count,
                     transfer_count, total_samples, read_data_reg, wait_for_data,
                     transfer_active, accepted, behind>>
  BY DEF HostWrite, Configure, scopeRegisters
<1>2. state \in {"TRIGGERED", "TRANSFER"} =>
        /\ config_i'.pre_samples = config_i.pre_samples
        /\ config_i'.post_samples = config_i.post_samples
  BY <1>1 DEF HostWrite
<1>3. Mirrored'
  BY <1>1 DEF IInv, Mirrored, Address
<1>4. TriggerMarked'
  BY <1>1, <1>2 DEF IInv, TriggerMarked, Address
<1>5. ReaderInWindow'
  BY <1>1, <1>2 DEF IInv, ReaderInWindow, Address
<1>6. config_i' \in ScopeConfigs /\ read_data_reg' \in Words
  BY <1>1 DEF IInv, TypeInvariant, TypeOK
<1>7. wait_for_data' \in BOOLEAN
  BY <1>1 DEF IInv, TypeInvariant, TypeOK
<1>8. transfer_active' \in BOOLEAN
  BY <1>1 DEF IInv, TypeInvariant, TypeOK
<1>9. QED
  BY <1>1, <1>3, <1>4, <1>5, <1>6, <1>7, <1>8, Assemble, Ranges DEF Addresses, Counts

LEMMA ResetStep == ASSUME IInv, AssertReset PROVE IInv'
<1>1. /\ state' = "IDLE" /\ write_ptr' = 0 /\ read_ptr' = 0 /\ trigger_ptr' = 0
      /\ post_count' = 0 /\ transfer_count' = 0 /\ total_samples' = 0
      /\ wait_for_data' = FALSE /\ transfer_active' = FALSE
      /\ accepted' = <<>> /\ behind' = 0
      /\ UNCHANGED <<config_i, sample_buffer, read_data_reg>>
  BY DEF AssertReset, Reset
<1>2. /\ config_i' \in ScopeConfigs /\ read_data_reg' \in Words
      /\ sample_buffer' \in [Addresses -> Words]
  BY <1>1 DEF IInv, TypeInvariant, TypeOK
<1>3. accepted' \in Seq(Samples) /\ Len(accepted') = 0
  BY <1>1
<1>4. Mirrored'
  BY <1>3, DepthFacts DEF Mirrored
<1>5. TriggerMarked' /\ ReaderInWindow'
  BY <1>1 DEF TriggerMarked, ReaderInWindow
<1>6. 0 \in Addresses /\ 0 \in Counts /\ 0 <= Memory /\ 0 \in 0 .. BUFFER_DEPTH
  BY DepthFacts DEF Addresses, Counts
<1>7. state' \in States /\ wait_for_data' \in BOOLEAN /\ transfer_active' \in BOOLEAN
  BY <1>1 DEF States
<1>8. QED
  BY <1>1, <1>2, <1>3, <1>4, <1>5, <1>6, <1>7, Assemble

LEMMA NextInvariant == ASSUME WindowsFit, IInv, [SteadyNext]_vars PROVE IInv'
<1>1. ASSUME NEW trigger_in \in BOOLEAN, NEW tvalid \in BOOLEAN, NEW tready \in BOOLEAN,
             SteadyEdge(trigger_in, tvalid, tready)
      PROVE  IInv'
  <2>1. Edge(trigger_in, tvalid, tready)
    BY <1>1 DEF SteadyEdge
  <2>2. CASE IdleEdge \/ DoneEdge
    BY <2>1, <2>2, QuietStep
  <2>3. CASE ArmedEdge(trigger_in, tvalid, Offered)
    BY <1>1, <2>3, ArmedStep
  <2>4. CASE TriggeredEdge(tvalid, Offered)
    BY <2>1, <2>4, TriggeredStep
  <2>5. CASE TransferEdge(tready)
    BY <2>1, <2>5, TransferStep
  <2>6. QED
    BY <2>1, <2>2, <2>3, <2>4, <2>5 DEF Edge, Clock
<1>2. ASSUME NEW c \in ScopeConfigs, HostWrite(c)
      PROVE  IInv'
  BY <1>2, HostStep
<1>3. CASE AssertReset
  BY <1>3, ResetStep
<1>4. CASE UNCHANGED vars
  <2>1. UNCHANGED <<config_i, state, sample_buffer, write_ptr, read_ptr, trigger_ptr,
                    post_count, transfer_count, total_samples, read_data_reg,
                    wait_for_data, transfer_active, accepted, behind>>
    BY <1>4 DEF vars, scopeVars, scopeRegisters
  <2>2. Mirrored'
    BY <2>1 DEF IInv, Mirrored, Address
  <2>3. TriggerMarked' /\ ReaderInWindow'
    BY <2>1 DEF IInv, TriggerMarked, ReaderInWindow, Address
  <2>4. TypeInvariant'
    BY <2>1 DEF IInv, TypeInvariant, TypeOK
  <2>5. QED
    BY <2>1, <2>2, <2>3, <2>4 DEF IInv
<1>5. QED
  BY <1>1, <1>2, <1>3, <1>4 DEF SteadyNext, Environment

(* IInv holds in every reachable state.                                    *)
LEMMA Invariance == ASSUME WindowsFit PROVE Spec => []IInv
<1>1. HistoryInit => IInv
  BY InitInvariant
<1>2. WindowsFit /\ IInv /\ [SteadyNext]_vars => IInv'
  BY NextInvariant
<1>3. QED
  BY <1>1, <1>2, PTL DEF Spec

-----------------------------------------------------------------------------
(* The registers of the scope keep their widths: no pointer leaves the     *)
(* buffer and no counter is cut off.                                       *)
THEOREM TypeCorrect == ASSUME WindowsFit PROVE Spec => []TypeInvariant
<1>1. IInv => TypeInvariant
  BY DEF IInv
<1>2. QED
  BY <1>1, Invariance, PTL

(* The word presented is the sample transfer_count places into the window  *)
(* around the trigger: the address of the reader is that sample's, and the *)
(* buffer still holds it.                                                  *)
LEMMA PresentedWord == ASSUME WindowsFit, IInv PROVE WindowInOrder
<1> SUFFICES ASSUME m_axis_tvalid
             PROVE  LET i == Len(accepted) - behind - config_i.pre_samples
                             + transfer_count
                    IN  i \in 1 .. Len(accepted) /\ m_axis_tdata = accepted[i]
  BY DEF WindowInOrder
<1> DEFINE p == config_i.pre_samples
           q == config_i.post_samples
           l == Len(accepted)
           j == behind + 1 + p - transfer_count
<1>1. state = "TRANSFER" /\ ~wait_for_data
  BY DEF m_axis_tvalid
<1>2. /\ p \in Nat /\ q \in Nat /\ total_samples = p + q
      /\ transfer_count \in Nat /\ transfer_count < total_samples
      /\ behind \in Nat /\ behind + 1 >= q /\ behind + p + 1 <= BUFFER_DEPTH
      /\ write_ptr \in 0 .. BUFFER_DEPTH - 1
      /\ BUFFER_DEPTH \in Nat \ {0}
      /\ read_ptr = Address(write_ptr - behind - 1 - p + transfer_count)
      /\ l >= behind + p + 1
      /\ read_data_reg = sample_buffer[read_ptr]
  BY <1>1, TransferFacts
<1>3. l \in Nat
  BY Ranges
<1>4. /\ j \in 1 .. BUFFER_DEPTH
      /\ write_ptr - j = write_ptr - behind - 1 - p + transfer_count
  <2> HIDE DEF p, q
  <2>1. QED
    BY <1>2, ReaderRange
<1>5. j <= l /\ l - j + 1 = l - behind - p + transfer_count /\ l - j + 1 \in 1 .. l
  <2> HIDE DEF p, q, l
  <2>1. QED
    BY <1>2, <1>3, <1>4
<1>6. sample_buffer[Address(write_ptr - j)] = accepted[l - j + 1]
  <2> HIDE DEF j
  <2>1. QED
    BY <1>4, <1>5 DEF IInv, Mirrored
<1>7. m_axis_tdata = accepted[l - j + 1]
  BY <1>2, <1>4, <1>6 DEF m_axis_tdata
<1>8. QED
  BY <1>5, <1>7

(* What the scope hands over is the window around the trigger, in order.   *)
THEOREM WindowsAreInOrder == ASSUME WindowsFit PROVE Spec => []WindowInOrder
<1>1. WindowsFit /\ IInv => WindowInOrder
  BY PresentedWord
<1>2. QED
  BY <1>1, Invariance, PTL

(* The number of the sample k places before the one numbered n.            *)
Before(n, k) == IF n >= k THEN n - k ELSE n - k + TAGS

(* The history counts without a gap, so its samples differ in number.      *)
Numbered ==
  \A j \in 1 .. Len(accepted) :
    accepted[Len(accepted) - j + 1] = Before(accepted[Len(accepted)], j - 1)

(* The sample offered is the one after the newest.                         *)
LEMMA OfferedIsNext ==
  ASSUME IInv, Len(accepted) >= 1
  PROVE  /\ accepted[Len(accepted)] \in 0 .. TAGS - 1
         /\ Offered \in 0 .. TAGS - 1
         /\ \A k \in 1 .. TAGS - 1 : Before(Offered, k) = Before(accepted[Len(accepted)], k - 1)
<1> DEFINE n == accepted[Len(accepted)]
<1>1. /\ accepted # <<>> /\ Len(accepted) \in 1 .. Len(accepted)
      /\ TAGS \in Nat /\ TAGS >= 1
  BY Ranges, DepthFacts
<1>2. n \in 0 .. TAGS - 1
  BY <1>1, DepthFacts DEF IInv, TypeInvariant
<1>3. Offered = (n + 1) % TAGS
  BY <1>1 DEF Offered
<1> HIDE DEF n
<1>4. n = TAGS - 1 => (n + 1) % TAGS = 0
  BY <1>1, <1>2
<1>5. n < TAGS - 1 => (n + 1) % TAGS = n + 1
  BY <1>1, <1>2
<1>6. /\ n = TAGS - 1 => Offered = 0
      /\ n < TAGS - 1 => Offered = n + 1
  BY <1>3, <1>4, <1>5
<1>7. Offered \in 0 .. TAGS - 1
  BY <1>1, <1>2, <1>6
<1>8. ASSUME NEW k \in 1 .. TAGS - 1
      PROVE  Before(Offered, k) = Before(n, k - 1)
  BY <1>1, <1>2, <1>6 DEF Before
<1>9. QED
  BY <1>2, <1>7, <1>8 DEF n

LEMMA NumberedAccept ==
  ASSUME IInv, Numbered, accepted' = Promise!Recent(Append(accepted, Offered))
  PROVE  Numbered'
<1> DEFINE l == Len(accepted)
           m == Len(accepted')
<1>1. /\ m \in Nat /\ m <= Memory /\ m <= l + 1
      /\ accepted'[m] = Offered
      /\ \A j \in Int : 2 <= j /\ j <= m =>
           accepted'[m - j + 1] = accepted[l - (j - 1) + 1]
  <2>1. Grown(accepted', accepted, Offered)
    BY RecentFacts, OfferedType, Ranges
  <2>2. QED
    BY <2>1 DEF Grown
<1>2. l \in Nat /\ Memory \in Nat /\ TAGS \in Nat /\ Memory < TAGS
  BY Ranges, DepthFacts
<1>3. ASSUME NEW j \in 1 .. m, j = 1
      PROVE  accepted'[m - j + 1] = Before(accepted'[m], j - 1)
  <2>1. Offered \in 0 .. TAGS - 1
    BY OfferedType, DepthFacts
  <2>2. Before(Offered, 0) = Offered
    BY <2>1 DEF Before
  <2>3. m - j + 1 = m /\ j - 1 = 0
    BY <1>1, <1>3
  <2>4. QED
    BY <1>1, <2>2, <2>3
<1>4. ASSUME NEW j \in 1 .. m, j # 1
      PROVE  accepted'[m - j + 1] = Before(accepted'[m], j - 1)
  <2>1. /\ j \in Int /\ 2 <= j /\ j <= m /\ j - 1 \in 1 .. l
        /\ j - 1 \in 1 .. TAGS - 1 /\ l >= 1
    BY ONLY <1>1, <1>2, <1>4
  <2>2. accepted'[m - j + 1] = accepted[l - (j - 1) + 1]
    BY <1>1, <2>1
  <2>3. accepted[l - (j - 1) + 1] = Before(accepted[l], (j - 1) - 1)
    BY <2>1 DEF Numbered
  <2>4. Before(Offered, j - 1) = Before(accepted[l], (j - 1) - 1)
    BY <2>1, OfferedIsNext
  <2>5. QED
    BY <1>1, <2>2, <2>3, <2>4
<1>5. QED
  BY <1>3, <1>4 DEF Numbered

LEMMA NumberedNext == ASSUME IInv, Numbered, [SteadyNext]_vars PROVE Numbered'
<1>1. ASSUME NEW trigger_in \in BOOLEAN, NEW tvalid \in BOOLEAN, NEW tready \in BOOLEAN,
             SteadyEdge(trigger_in, tvalid, tready)
      PROVE  Numbered'
  <2>1. \/ accepted' = Promise!Recent(Append(accepted, Offered))
        \/ accepted' = accepted
    BY <1>1 DEF SteadyEdge, Edge
  <2>2. QED
    BY <2>1, NumberedAccept DEF Numbered
<1>2. ASSUME NEW c \in ScopeConfigs, HostWrite(c)
      PROVE  Numbered'
  BY <1>2 DEF HostWrite, Numbered
<1>3. CASE AssertReset
  <2>1. accepted' = <<>> /\ Len(accepted') = 0
    BY <1>3 DEF AssertReset
  <2>2. QED
    BY <2>1 DEF Numbered
<1>4. CASE UNCHANGED vars
  BY <1>4 DEF vars, Numbered
<1>5. QED
  BY <1>1, <1>2, <1>3, <1>4 DEF SteadyNext, Environment

LEMMA NumberedAlways == ASSUME WindowsFit PROVE Spec => []Numbered
<1>1. HistoryInit => Numbered
  <2>1. HistoryInit => accepted = <<>> /\ Len(accepted) = 0
    BY DEF HistoryInit
  <2>2. QED
    BY <2>1 DEF Numbered
<1>2. IInv /\ Numbered /\ [SteadyNext]_vars => Numbered'
  BY NumberedNext
<1>3. QED
  BY <1>1, <1>2, Invariance, PTL DEF Spec

(* The word presented is the sample transfer_count - pre_samples after the *)
(* trigger sample; the samples of the history differ, so it is the one     *)
(* post_samples - 1 after it only under tlast.                             *)
LEMMA LastWord == ASSUME WindowsFit, IInv, Numbered PROVE TlastEndsWindow
<1> DEFINE l == Len(accepted)
           first == l - behind - config_i.pre_samples
           final == l - behind + config_i.post_samples - 1
<1> SUFFICES ASSUME m_axis_tvalid
             PROVE  final \in 1 .. l /\ (m_axis_tlast <=> m_axis_tdata = accepted[final])
  BY DEF TlastEndsWindow
<1>1. state = "TRANSFER"
  BY DEF m_axis_tvalid
<1>2. /\ last_index = total_samples - 1
      /\ total_samples = config_i.pre_samples + config_i.post_samples
      /\ config_i.pre_samples \in Nat /\ config_i.post_samples \in Nat
      /\ total_samples >= 1
      /\ transfer_count \in Nat /\ transfer_count < total_samples
      /\ behind \in Nat /\ behind + 1 >= config_i.post_samples
      /\ l >= behind + config_i.pre_samples + 1
  BY <1>1, TransferFacts
<1>3. l \in Nat /\ l <= Memory /\ Memory \in Nat /\ TAGS \in Nat /\ Memory < TAGS
  BY Ranges, DepthFacts
<1>4. /\ first + transfer_count \in 1 .. l
      /\ m_axis_tdata = accepted[first + transfer_count]
  BY PresentedWord DEF WindowInOrder
<1>5. final \in 1 .. l /\ first \in Int /\ final - first = last_index
  <2> DEFINE p == config_i.pre_samples
             q == config_i.post_samples
  <2>1. /\ last_index = p + q - 1 /\ p \in Nat /\ q \in Nat /\ p + q >= 1
        /\ behind + 1 >= q /\ l >= behind + p + 1
    BY <1>2
  <2> HIDE DEF l, p, q
  <2>2. QED
    BY ONLY <1>2, <1>3, <2>1 DEF p, q
<1>6. accepted[l] \in 0 .. TAGS - 1
  <2>1. l >= 1
    BY <1>5, <1>3
  <2>2. QED
    BY <2>1, OfferedIsNext
<1>7. \A i \in 1 .. l : accepted[i] = Before(accepted[l], l - i)
  <2> SUFFICES ASSUME NEW i \in 1 .. l
               PROVE  accepted[i] = Before(accepted[l], l - i)
    OBVIOUS
  <2>1. l - i + 1 \in 1 .. l /\ l - (l - i + 1) + 1 = i /\ (l - i + 1) - 1 = l - i
    BY ONLY <1>3
  <2>2. QED
    BY <2>1 DEF Numbered
<1> HIDE DEF first, final, l
<1>8. m_axis_tdata = accepted[final] <=> first + transfer_count = final
  <2>1. /\ m_axis_tdata = Before(accepted[l], l - (first + transfer_count))
        /\ accepted[final] = Before(accepted[l], l - final)
    BY <1>4, <1>5, <1>7
  <2>2. Before(accepted[l], l - (first + transfer_count)) = Before(accepted[l], l - final)
          <=> first + transfer_count = final
    BY <1>2, <1>3, <1>4, <1>5, <1>6 DEF Before
  <2>3. QED
    BY <2>1, <2>2
<1>9. m_axis_tlast <=> transfer_count = last_index
  BY DEF m_axis_tlast
<1>10. QED
  BY <1>2, <1>5, <1>8, <1>9

(* tlast ends the configured window: it comes with the sample              *)
(* post_samples - 1 after the trigger sample and with no other.            *)
THEOREM TlastIsLast == ASSUME WindowsFit PROVE Spec => []TlastEndsWindow
<1>1. WindowsFit /\ IInv /\ Numbered => TlastEndsWindow
  BY LastWord
<1>2. QED
  BY <1>1, Invariance, NumberedAlways, PTL

-----------------------------------------------------------------------------
(* The rest of the window, as the promise sees it: n cells of a buffer     *)
(* from the address r on.                                                  *)
Cells(buf, r, n) == [i \in 1 .. n |-> buf[Address(r + i - 1)]]

LEMMA RemainingCells ==
  ASSUME state = "TRANSFER"
  PROVE  Remaining = Cells(sample_buffer, read_ptr, total_samples - transfer_count)
BY DEF Remaining, Cells

LEMMA CellsFacts ==
  ASSUME NEW buf \in [Addresses -> Words], NEW r \in 0 .. BUFFER_DEPTH - 1,
         NEW n \in Nat, n <= BUFFER_DEPTH
  PROVE  /\ Cells(buf, r, n) \in Seq(Words)
         /\ Len(Cells(buf, r, n)) = n
         /\ \A i \in 1 .. n : Cells(buf, r, n)[i] = buf[Address(r + i - 1)]
<1>1. ASSUME NEW i \in 1 .. n
      PROVE  Address(r + i - 1) \in Addresses
  <2>1. r + i - 1 \in Int /\ -BUFFER_DEPTH <= r + i - 1 /\ r + i - 1 < 2 * BUFFER_DEPTH
    BY DepthFacts
  <2>2. QED
    BY <2>1, AddressCases
<1>2. Cells(buf, r, n) \in [1 .. n -> Words]
  BY <1>1 DEF Cells
<1>3. QED
  BY <1>2 DEF Cells

(* Sending a sample takes the first cell and leaves the others.            *)
LEMMA CellsTail ==
  ASSUME NEW buf \in [Addresses -> Words], NEW r \in 0 .. BUFFER_DEPTH - 1,
         NEW n \in Nat \ {0}, n <= BUFFER_DEPTH
  PROVE  /\ Cells(buf, r, n) # <<>>
         /\ Head(Cells(buf, r, n)) = buf[r]
         /\ Tail(Cells(buf, r, n)) = Cells(buf, Address(r + 1), n - 1)
<1> DEFINE s == Cells(buf, r, n)
           t == Cells(buf, Address(r + 1), n - 1)
<1>1. /\ s \in Seq(Words) /\ Len(s) = n
      /\ \A i \in 1 .. n : s[i] = buf[Address(r + i - 1)]
  BY CellsFacts
<1>2. Address(r) = r /\ Address(r + 1) \in 0 .. BUFFER_DEPTH - 1
  <2>1. /\ r \in Int /\ -BUFFER_DEPTH <= r /\ 0 <= r /\ r < BUFFER_DEPTH
        /\ r < 2 * BUFFER_DEPTH
    BY DepthFacts
  <2>2. r + 1 \in Int /\ -BUFFER_DEPTH <= r + 1 /\ r + 1 < 2 * BUFFER_DEPTH
    BY DepthFacts
  <2>3. QED
    BY <2>1, <2>2, AddressCases DEF Addresses
<1>3. n - 1 \in Nat /\ n - 1 <= BUFFER_DEPTH
  BY DepthFacts
<1>4. /\ t \in Seq(Words) /\ Len(t) = n - 1
      /\ \A i \in 1 .. n - 1 : t[i] = buf[Address(Address(r + 1) + i - 1)]
  BY <1>2, <1>3, CellsFacts
<1> HIDE DEF s, t
<1>5. s # <<>>
  BY <1>1
<1>6. /\ Tail(s) \in Seq(Words) /\ Len(Tail(s)) = n - 1
      /\ \A i \in 1 .. n - 1 : Tail(s)[i] = s[i + 1]
  BY <1>1, <1>5, HeadTailProperties
<1>7. ASSUME NEW i \in 1 .. n - 1
      PROVE  Tail(s)[i] = t[i]
  <2>1. i + 1 \in 1 .. n /\ r + (i + 1) - 1 = r + i
    OBVIOUS
  <2>2. s[i + 1] = buf[Address(r + i)]
    BY <1>1, <2>1
  <2>3. Address(r + 1) + i - 1 = Address(r + 1) + (i - 1)
    BY <1>2
  <2>4. Address(Address(r + 1) + (i - 1)) = Address(r + 1 + (i - 1))
    <3> DEFINE m == r + 1
               k == i - 1
    <3>1. /\ m \in Int /\ -BUFFER_DEPTH <= m /\ m < 2 * BUFFER_DEPTH
          /\ k \in Int /\ -BUFFER_DEPTH <= k /\ k <= BUFFER_DEPTH
          /\ -BUFFER_DEPTH <= m + k /\ m + k < 2 * BUFFER_DEPTH
      BY DepthFacts
    <3> HIDE DEF m, k
    <3>2. Address(Address(m) + k) = Address(m + k)
      BY <3>1, AddressSum
    <3>3. QED
      BY <3>2 DEF m, k
  <2>5. r + 1 + (i - 1) = r + i
    OBVIOUS
  <2>6. QED
    BY <1>4, <1>6, <2>2, <2>3, <2>4, <2>5
<1>8. Tail(s) = t
  BY <1>4, <1>6, <1>7, SeqEqual
<1>9. Head(s) = s[1] /\ s[1] = buf[r]
  <2>1. Head(s) = s[1]
    BY <1>1, <1>5
  <2>2. 1 \in 1 .. n /\ r + 1 - 1 = r
    OBVIOUS
  <2>3. QED
    BY <1>1, <1>2, <2>1, <2>2
<1>10. QED
  BY <1>5, <1>8, <1>9 DEF s, t

(* Mirrored, of any buffer and history.                                    *)
MirrorOf(buf, w, acc) ==
  \A j \in 1 .. BUFFER_DEPTH :
    j <= Len(acc) => buf[Address(w - j)] = acc[Len(acc) - j + 1]

(* p samples before the trigger sample and q from it on, in a history in   *)
(* which b samples are newer than it.                                      *)
Around(acc, b, p, q) == SubSeq(acc, Len(acc) - b - p, Len(acc) - b + q - 1)

(* A buffer with the write pointer at w still holds that window.           *)
HoldsWindow(buf, acc, w, b, p, q) ==
  /\ buf \in [Addresses -> Words] /\ acc \in Seq(Samples)
  /\ w \in 0 .. BUFFER_DEPTH - 1 /\ b \in Nat /\ p \in Nat /\ q \in Nat
  /\ MirrorOf(buf, w, acc)
  /\ b + p + 1 <= BUFFER_DEPTH /\ Len(acc) >= b + p + 1
  /\ b + 1 >= q /\ p + q >= 1

(* The cells a capture leaves behind the reader are the samples around the *)
(* trigger.                                                                *)
LEMMA CellsAreWindow ==
  ASSUME NEW buf, NEW acc, NEW w, NEW b, NEW p, NEW q,
         HoldsWindow(buf, acc, w, b, p, q)
  PROVE  Cells(buf, Address(w - b - 1 - p), p + q) = Around(acc, b, p, q)
<1> DEFINE l == Len(acc)
           a == w - b - 1 - p
           r == Address(a)
           n == p + q
           s == Cells(buf, r, n)
           t == SubSeq(acc, l - b - p, l - b + q - 1)
<1>0. /\ buf \in [Addresses -> Words] /\ acc \in Seq(Samples)
      /\ w \in 0 .. BUFFER_DEPTH - 1 /\ b \in Nat /\ p \in Nat /\ q \in Nat
      /\ MirrorOf(buf, w, acc)
      /\ b + p + 1 <= BUFFER_DEPTH /\ l >= b + p + 1
      /\ b + 1 >= q /\ p + q >= 1
  BY DEF HoldsWindow
<1>1. /\ l \in Nat /\ n \in Nat \ {0} /\ n <= BUFFER_DEPTH /\ BUFFER_DEPTH \in Nat \ {0}
      /\ a \in Int /\ -BUFFER_DEPTH <= a /\ a < BUFFER_DEPTH
  BY <1>0, DepthFacts
<1>2. r \in 0 .. BUFFER_DEPTH - 1
  <2> HIDE DEF a
  <2>1. a < 2 * BUFFER_DEPTH
    BY <1>1
  <2>2. QED
    BY <1>1, <2>1, AddressCases DEF Addresses
<1>3. /\ s \in Seq(Words) /\ Len(s) = n
      /\ \A i \in 1 .. n : s[i] = buf[Address(r + i - 1)]
  <2> HIDE DEF r, n
  <2>1. QED
    BY <1>0, <1>1, <1>2, CellsFacts
<1>4. /\ t \in Seq(Words) /\ Len(t) = n
      /\ \A i \in 1 .. n : t[i] = acc[l - b - p + i - 1]
  <2> DEFINE m == l - b - p
             k == l - b + q - 1
  <2>1. m \in 1 .. l /\ k \in 1 .. l /\ k - m + 1 = n /\ m <= k
    BY <1>0, <1>1
  <2>2. \A i \in m .. k : acc[i] \in Words
    <3> HIDE DEF m, k, l
    <3>1. ASSUME NEW i \in m .. k PROVE acc[i] \in Samples
      <4>1. i \in 1 .. l
        BY <1>1, <2>1
      <4>2. QED
        BY <1>0, <4>1, ElementOfSeq DEF l
    <3>2. QED
      BY <3>1 DEF Words
  <2> HIDE DEF m, k, l, n
  <2>3. /\ SubSeq(acc, m, k) \in Seq(Words)
        /\ Len(SubSeq(acc, m, k)) = IF m <= k THEN k - m + 1 ELSE 0
        /\ \A i \in 1 .. k - m + 1 : SubSeq(acc, m, k)[i] = acc[m + i - 1]
    <3>1. m \in Int /\ k \in Int
      BY <2>1
    <3>2. QED
      BY <2>2, <3>1, SubSeqProperties
  <2>4. QED
    BY <2>1, <2>3 DEF m, k
<1>5. ASSUME NEW i \in 1 .. n
      PROVE  s[i] = t[i]
  <2> DEFINE c == i - 1
             j == b + 1 + p - c
  <2>1. /\ c \in Nat /\ c < p + q /\ j \in 1 .. BUFFER_DEPTH /\ j <= l
        /\ l - j + 1 = l - b - p + i - 1 /\ w - j = a + c
    BY <1>0, <1>1
  <2>2. Address(r + c) = Address(a + c)
    <3>1. /\ a < 2 * BUFFER_DEPTH /\ c \in Int
          /\ -BUFFER_DEPTH <= c /\ c <= BUFFER_DEPTH
          /\ -BUFFER_DEPTH <= a + c /\ a + c < 2 * BUFFER_DEPTH
      BY <1>0, <1>1, <2>1
    <3> HIDE DEF a, c
    <3>2. QED
      BY <1>1, <3>1, AddressSum
  <2>3. buf[Address(w - j)] = acc[l - j + 1]
    BY <1>0, <2>1 DEF MirrorOf
  <2>4. r + i - 1 = r + c
    BY <1>2
  <2> HIDE DEF s, t, j, r, a
  <2>5. QED
    BY <1>3, <1>4, <2>1, <2>2, <2>3, <2>4
<1> HIDE DEF s, t
<1>6. s = t
  BY <1>3, <1>4, <1>5, SeqEqual
<1>7. QED
  BY <1>6 DEF s, t, Around

-----------------------------------------------------------------------------
(* Each edge is a step of the promise or a stutter.                        *)

LEMMA RefineQuiet ==
  ASSUME IInv, NEW trigger_in \in BOOLEAN, NEW tvalid \in BOOLEAN, NEW tready \in BOOLEAN,
         Edge(trigger_in, tvalid, tready), IdleEdge \/ DoneEdge
  PROVE  Promise!Arm \/ Promise!Disarm \/ UNCHANGED Promise!windowVars
<1>1. /\ state \in {"IDLE", "DONE"} /\ state' \in {"IDLE", "ARMED", "DONE"}
      /\ state = "IDLE" => state' # "DONE"
  BY DEF IdleEdge, DoneEdge
<1>2. accepted' = accepted /\ behind' = behind + 0 /\ last_sent' = last_sent
  BY <1>1 DEF Edge, s_axis_tready, m_axis_tvalid
<1>3. behind' = behind
  BY <1>2, Ranges
<1>4. Remaining = <<>> /\ Remaining' = <<>>
  BY <1>1 DEF Remaining
<1>5. UNCHANGED <<accepted, behind, Remaining, last_sent>>
  BY <1>2, <1>3, <1>4
<1>6. CASE state' = state
  <2>1. Phase' = Phase
    BY <1>1, <1>6 DEF Phase
  <2>2. QED
    BY <1>5, <2>1 DEF Promise!windowVars
<1>7. CASE state' = "ARMED"
  <2>1. Phase \in {"idle", "done"} /\ Phase' = "armed"
    BY <1>1, <1>7 DEF Phase
  <2>2. QED
    BY <1>5, <2>1 DEF Promise!Arm
<1>8. CASE state = "DONE" /\ state' = "IDLE"
  <2>1. Phase = "done" /\ Phase' = "idle"
    BY <1>8 DEF Phase
  <2>2. QED
    BY <1>5, <2>1 DEF Promise!Disarm
<1>9. QED
  BY <1>1, <1>6, <1>7, <1>8

(* A sample handed to the scope is one the promise accepts.                *)
LEMMA RefineAccept ==
  ASSUME IInv, NEW trigger_in \in BOOLEAN, NEW tvalid \in BOOLEAN, NEW tready \in BOOLEAN,
         Edge(trigger_in, tvalid, tready), state \in {"ARMED", "TRIGGERED"}
  PROVE  /\ tvalid => Promise!Accept
         /\ ~tvalid => accepted' = accepted
         /\ last_sent' = last_sent
         /\ Remaining = <<>>
<1>1. Offered \in Samples
  BY OfferedType
<1>2. tvalid => accepted' = Promise!Recent(Append(accepted, Offered))
  BY DEF Edge, s_axis_tready
<1>3. ~tvalid => accepted' = accepted
  BY DEF Edge
<1>4. last_sent' = last_sent
  BY DEF Edge, m_axis_tvalid
<1>5. Remaining = <<>>
  BY DEF Remaining
<1>6. QED
  BY <1>1, <1>2, <1>3, <1>4, <1>5 DEF Promise!Accept

LEMMA RefineArmed ==
  ASSUME IInv, NEW trigger_in \in BOOLEAN, NEW tvalid \in BOOLEAN, NEW tready \in BOOLEAN,
         SteadyEdge(trigger_in, tvalid, tready),
         ArmedEdge(trigger_in, tvalid, Offered)
  PROVE  \/ Promise!Trigger \/ Promise!Watch \/ Promise!Disarm
         \/ UNCHANGED Promise!windowVars
<1>1. Edge(trigger_in, tvalid, tready) /\ state = "ARMED"
  BY DEF SteadyEdge, ArmedEdge
<1>2. /\ tvalid => Promise!Accept
      /\ ~tvalid => accepted' = accepted
      /\ last_sent' = last_sent /\ Remaining = <<>>
  BY <1>1, RefineAccept
<1>3. Phase = "armed"
  BY <1>1 DEF Phase
<1>4. state' \in {"IDLE", "ARMED", "TRIGGERED"}
  BY DEF ArmedEdge
<1>5. Remaining' = <<>>
  BY <1>4 DEF Remaining
<1>6. UNCHANGED <<Remaining, last_sent>>
  BY <1>2, <1>5
<1>7. CASE trigger_in
  <2>1. tvalid /\ Len(accepted) > config_i.pre_samples
    BY <1>1, <1>7 DEF SteadyEdge, Primed
  <2>2. accepted # <<>>
    <3>1. config_i.pre_samples \in Nat
      BY Ranges, ScopeAssumption, DepthFacts
    <3>2. Len(accepted) # 0
      BY <2>1, <3>1, Ranges
    <3>3. QED
      BY <3>2
  <2>3. state' = "TRIGGERED"
    BY <1>1, <1>7 DEF ArmedEdge
  <2>4. Phase' = "capturing"
    BY <2>3 DEF Phase
  <2>5. behind' = 1
    <3>1. behind' = 0 + 1
      BY <1>1, <1>7, <2>1 DEF Edge, s_axis_tready
    <3>2. QED
      BY <3>1
  <2>6. QED
    BY <1>2, <1>3, <1>6, <2>1, <2>2, <2>4, <2>5 DEF Promise!Trigger
<1>8. CASE ~trigger_in
  <2>1. behind' = behind
    BY <1>1, <1>8 DEF Edge
  <2>2. state' \in {"IDLE", "ARMED"}
    BY <1>8 DEF ArmedEdge
  <2>3. CASE state' = "ARMED"
    <3>1. Phase' = Phase
      BY <1>3, <2>3 DEF Phase
    <3>2. CASE tvalid
      BY <1>2, <1>3, <1>6, <2>1, <3>1, <3>2 DEF Promise!Watch
    <3>3. CASE ~tvalid
      BY <1>2, <1>6, <2>1, <3>1, <3>3 DEF Promise!windowVars
    <3>4. QED
      BY <3>2, <3>3
  <2>4. CASE state' = "IDLE"
    <3>1. Phase' = "idle"
      BY <2>4 DEF Phase
    <3>2. Promise!Accept \/ UNCHANGED accepted
      BY <1>2
    <3>3. QED
      BY <1>3, <1>6, <2>1, <3>1, <3>2 DEF Promise!Disarm
  <2>5. QED
    BY <2>2, <2>3, <2>4
<1>9. QED
  BY <1>7, <1>8

LEMMA OneLess ==
  ASSUME NEW b \in Nat, NEW n \in Nat, b + 1 >= n
  PROVE  b >= n - 1
OBVIOUS

(* The window the promise freezes is the one of the configuration.         *)
FrozenWindow == [pre |-> config_i.pre_samples, post |-> config_i.post_samples]

LEMMA RefineTriggered ==
  ASSUME WindowsFit, IInv,
         NEW trigger_in \in BOOLEAN, NEW tvalid \in BOOLEAN, NEW tready \in BOOLEAN,
         Edge(trigger_in, tvalid, tready), TriggeredEdge(tvalid, Offered)
  PROVE  Promise!Collect \/ Promise!Freeze(FrozenWindow) \/ UNCHANGED Promise!windowVars
<1> DEFINE p == config_i.pre_samples
           q == config_i.post_samples
<1>1. state = "TRIGGERED" /\ behind = post_count + 1
  BY DEF TriggeredEdge, IInv, TriggerMarked
<1>2. /\ tvalid => Promise!Accept
      /\ ~tvalid => accepted' = accepted
      /\ last_sent' = last_sent /\ Remaining = <<>>
  BY <1>1, RefineAccept
<1>3. Phase = "capturing"
  BY <1>1 DEF Phase
<1>4. /\ behind' \in Nat /\ behind' >= behind
      /\ behind' + p + 1 <= BUFFER_DEPTH
      /\ Len(accepted') >= behind' + p + 1
      /\ write_ptr' \in Addresses
      /\ trigger_ptr = Address(write_ptr' - behind' - 1)
  BY CollectFacts
<1>5. /\ behind' = behind + (IF tvalid THEN 1 ELSE 0)
      /\ behind \in Nat /\ post_count \in Nat
  <2>1. behind' = behind + (IF tvalid THEN 1 ELSE 0)
    BY <1>1 DEF Edge, s_axis_tready
  <2>2. QED
    BY <2>1, Ranges
<1>6. /\ tvalid => behind' = behind + 1
      /\ ~tvalid => behind' = behind
  BY <1>5
<1>7. CASE PostComplete /\ StartTransfer
  <2>1. /\ state' = "TRANSFER" /\ transfer_count' = 0
        /\ total_samples' = (p + q) % COUNT_MOD
        /\ read_ptr' = Address(trigger_ptr - p)
        /\ post_count + 2 >= q
    BY <1>7 DEF StartTransfer, PostComplete
  <2>2. Phase' = "sending"
    BY <2>1 DEF Phase
  <2>3. /\ p \in Nat /\ q \in Nat /\ p + q >= 1 /\ p + q + 1 <= BUFFER_DEPTH
    BY WindowFacts, Ranges
  <2>4. behind' + 1 >= q
    <3> HIDE DEF q
    <3>1. QED
      BY <1>1, <1>4, <1>5, <2>1, <2>3
  <2>5. total_samples' = p + q
    <3> HIDE DEF p, q
    <3>1. p + q \in 0 .. COUNT_MOD - 1 /\ COUNT_MOD \in Nat \ {0}
      BY <2>3, DepthFacts
    <3>2. QED
      BY <2>1, <3>1, ModSmall
  <2>6. read_ptr' = Address(write_ptr' - behind' - 1 - p)
    <3> DEFINE i == write_ptr' - behind' - 1
               k == -p
    <3> HIDE DEF p, q
    <3>1. /\ i \in Int /\ -BUFFER_DEPTH <= i /\ i < 2 * BUFFER_DEPTH
          /\ k \in Int /\ -BUFFER_DEPTH <= k /\ k <= BUFFER_DEPTH
          /\ -BUFFER_DEPTH <= i + k /\ i + k < 2 * BUFFER_DEPTH
          /\ i + k = write_ptr' - behind' - 1 - p
      BY <1>4, <2>3, WindowStart, DepthFacts DEF Addresses
    <3>2. trigger_ptr - p = trigger_ptr + k /\ trigger_ptr = Address(i)
      BY <1>4, <2>3, Ranges
    <3> HIDE DEF i, k
    <3>3. Address(Address(i) + k) = Address(i + k)
      BY <3>1, AddressSum
    <3>4. QED
      BY <2>1, <3>1, <3>2, <3>3
  <2>7. /\ sample_buffer' \in [Addresses -> Words] /\ accepted' \in Seq(Samples)
        /\ Len(accepted') \in Nat
        /\ MirrorOf(sample_buffer', write_ptr', accepted')
    <3>1. /\ sample_buffer' \in [Addresses -> Words] /\ accepted' \in Seq(Samples)
          /\ Len(accepted') \in Nat /\ Mirrored'
      BY <1>1, CaptureFacts
    <3>2. QED
      BY <3>1 DEF Mirrored, MirrorOf, Address
  <2>8. Cells(sample_buffer', Address(write_ptr' - behind' - 1 - p), p + q)
          = Around(accepted', behind', p, q)
    <3> HIDE DEF p, q
    <3>1. write_ptr' \in 0 .. BUFFER_DEPTH - 1
      BY <1>4 DEF Addresses
    <3>2. /\ behind' \in Nat /\ p \in Nat /\ q \in Nat
          /\ behind' + p + 1 <= BUFFER_DEPTH /\ behind' + 1 >= q /\ p + q >= 1
          /\ Len(accepted') >= behind' + p + 1
      BY <1>4, <2>3, <2>4
    <3>3. HoldsWindow(sample_buffer', accepted', write_ptr', behind', p, q)
      BY <2>7, <3>1, <3>2 DEF HoldsWindow
    <3>4. QED
      BY <3>3, CellsAreWindow
  <2>9. Remaining' = Cells(sample_buffer', read_ptr', p + q)
    <3>1. total_samples' - transfer_count' = p + q
      BY <2>1, <2>3, <2>5
    <3>2. Remaining' = [i \in 1 .. total_samples' - transfer_count' |->
                          sample_buffer'[Address(read_ptr' + i - 1)]]
      BY <2>1 DEF Remaining, Address
    <3>3. QED
      BY <3>1, <3>2 DEF Cells
  <2>10. Remaining' = SubSeq(accepted', (Len(accepted') - behind') - p,
                             (Len(accepted') - behind') + q - 1)
    BY <2>6, <2>8, <2>9 DEF Around
  <2>11. Len(accepted') - behind' > p
    <3> HIDE DEF p
    <3>1. QED
      BY <1>4, <2>3, <2>7
  <2>12. behind' >= q - 1
    <3> HIDE DEF p, q
    <3>1. q \in Nat /\ behind' \in Nat
      BY <1>4, <2>3
    <3>2. QED
      BY <2>4, <3>1, OneLess
  <2>13. (Promise!Accept /\ behind' = behind + 1) \/ UNCHANGED <<accepted, behind>>
    BY <1>2, <1>6
  <2>14. FrozenWindow.pre = p /\ FrozenWindow.post = q
    BY DEF FrozenWindow
  <2> HIDE DEF p, q
  <2>15. Promise!Freeze(FrozenWindow)
    BY <1>2, <1>3, <2>2, <2>10, <2>11, <2>12, <2>13, <2>14 DEF Promise!Freeze
  <2>16. QED
    BY <2>15
<1>8. CASE ~PostComplete
  <2>1. state' = "TRIGGERED"
    BY <1>1, <1>8 DEF TriggeredEdge
  <2>2. Phase' = Phase
    BY <1>3, <2>1 DEF Phase
  <2>3. Remaining' = <<>>
    BY <2>1 DEF Remaining
  <2>4. UNCHANGED <<Phase, Remaining, last_sent>>
    BY <1>2, <2>2, <2>3
  <2>5. CASE tvalid
    BY <1>2, <1>3, <1>6, <2>4, <2>5 DEF Promise!Collect
  <2>6. CASE ~tvalid
    BY <1>2, <1>6, <2>4, <2>6 DEF Promise!windowVars
  <2>7. QED
    BY <2>5, <2>6
<1>9. QED
  BY <1>7, <1>8 DEF TriggeredEdge

LEMMA RefineTransfer ==
  ASSUME WindowsFit, IInv,
         NEW trigger_in \in BOOLEAN, NEW tvalid \in BOOLEAN, NEW tready \in BOOLEAN,
         Edge(trigger_in, tvalid, tready), TransferEdge(tready)
  PROVE  Promise!Send \/ UNCHANGED Promise!windowVars
<1> DEFINE n == total_samples - transfer_count
<1>1. state = "TRANSFER" /\ UNCHANGED <<sample_buffer, total_samples>>
  BY DEF TransferEdge
<1>2. /\ total_samples \in Nat /\ transfer_count \in Nat
      /\ transfer_count < total_samples /\ total_samples < COUNT_MOD
      /\ last_index = total_samples - 1 /\ COUNT_MOD \in Nat \ {0}
      /\ behind \in Nat
      /\ ~wait_for_data => read_data_reg = sample_buffer[read_ptr]
  BY <1>1, TransferFacts
<1>3. total_samples <= BUFFER_DEPTH
  <2>1. /\ total_samples = config_i.pre_samples + config_i.post_samples
        /\ config_i.pre_samples \in Nat /\ config_i.post_samples \in Nat
    BY <1>1, TransferFacts
  <2>2. config_i.pre_samples + config_i.post_samples + 1 <= BUFFER_DEPTH
    BY WindowFacts, Ranges
  <2>3. QED
    BY <2>1, <2>2, DepthFacts
<1>4. n \in Nat \ {0} /\ n <= BUFFER_DEPTH
  BY <1>2, <1>3, DepthFacts
<1>5. Remaining = Cells(sample_buffer, read_ptr, n)
  BY <1>1, RemainingCells
<1>6. sample_buffer \in [Addresses -> Words] /\ read_ptr \in 0 .. BUFFER_DEPTH - 1
  BY Ranges
<1>7. /\ Remaining # <<>> /\ Head(Remaining) = sample_buffer[read_ptr]
      /\ Tail(Remaining) = Cells(sample_buffer, Address(read_ptr + 1), n - 1)
      /\ Len(Remaining) = n
  <2> HIDE DEF n
  <2>1. QED
    BY <1>4, <1>5, <1>6, CellsTail, CellsFacts
<1>8. Phase = "sending"
  BY <1>1 DEF Phase
<1>9. accepted' = accepted /\ behind' = behind
  <2>1. accepted' = accepted /\ behind' = behind + 0
    BY <1>1 DEF Edge, s_axis_tready
  <2>2. QED
    BY <1>2, <2>1
<1>10. CASE m_axis_tvalid /\ tready
  <2>1. last_sent' = <<sample_buffer[read_ptr]>>
    <3>1. last_sent' = <<m_axis_tdata>>
      BY <1>10 DEF Edge
    <3>2. m_axis_tdata = sample_buffer[read_ptr]
      BY <1>2, <1>10 DEF m_axis_tdata, m_axis_tvalid
    <3>3. QED
      BY <3>1, <3>2
  <2>2. /\ transfer_count' = (transfer_count + 1) % COUNT_MOD
        /\ state' = IF transfer_count = last_index THEN "DONE" ELSE "TRANSFER"
        /\ read_ptr' = IF transfer_count < last_index
                       THEN Address(read_ptr + 1) ELSE read_ptr
    BY <1>10 DEF TransferEdge
  <2>3. transfer_count' = transfer_count + 1
    <3>1. transfer_count + 1 \in 0 .. COUNT_MOD - 1
      BY <1>2
    <3>2. QED
      BY <1>2, <2>2, <3>1, ModSmall
  <2>4. CASE transfer_count < last_index
    <3>1. state' = "TRANSFER" /\ read_ptr' = Address(read_ptr + 1)
      <4>1. transfer_count # last_index
        BY <1>2, <2>4
      <4>2. QED
        BY <2>2, <2>4, <4>1
    <3>2. total_samples' - transfer_count' = n - 1
      BY <1>1, <1>2, <2>3
    <3>3. Remaining' = [i \in 1 .. total_samples' - transfer_count' |->
                          sample_buffer'[Address(read_ptr' + i - 1)]]
      BY <3>1 DEF Remaining, Address
    <3>4. Remaining' = Cells(sample_buffer, Address(read_ptr + 1), n - 1)
      BY <1>1, <3>1, <3>2, <3>3 DEF Cells
    <3>5. Phase' = "sending"
      BY <3>1 DEF Phase
    <3>6. Len(Remaining) # 1
      BY <1>2, <1>7, <2>4
    <3> HIDE DEF n
    <3>7. Promise!Send
      BY <1>7, <1>8, <1>9, <2>1, <3>4, <3>5, <3>6 DEF Promise!Send
    <3>8. QED
      BY <3>7
  <2>5. CASE ~(transfer_count < last_index)
    <3>1. n = 1 /\ transfer_count = last_index
      BY <1>2, <2>5
    <3>2. state' = "DONE"
      BY <2>2, <3>1
    <3>3. Phase' = "done" /\ Remaining' = <<>>
      BY <3>2 DEF Phase, Remaining
    <3>4. Tail(Remaining) = <<>>
      <4>1. n - 1 = 0
        BY <3>1
      <4>2. Cells(sample_buffer, Address(read_ptr + 1), 0) = <<>>
        BY DEF Cells
      <4>3. QED
        BY <1>7, <4>1, <4>2
    <3>5. Len(Remaining) = 1
      BY <1>7, <3>1
    <3> HIDE DEF n
    <3>6. Promise!Send
      BY <1>7, <1>8, <1>9, <2>1, <3>3, <3>4, <3>5 DEF Promise!Send
    <3>7. QED
      BY <3>6
  <2>6. QED
    BY <2>4, <2>5
<1>11. CASE ~(m_axis_tvalid /\ tready)
  <2>1. UNCHANGED <<state, transfer_count, read_ptr>>
    BY <1>11 DEF TransferEdge
  <2>2. last_sent' = last_sent
    BY <1>11 DEF Edge
  <2>3. Remaining' = Remaining
    BY <1>1, <2>1 DEF Remaining, Address
  <2>4. Phase' = Phase
    BY <1>1, <2>1 DEF Phase
  <2>5. QED
    BY <1>9, <2>2, <2>3, <2>4 DEF Promise!windowVars
<1>12. QED
  BY <1>10, <1>11

LEMMA RefineStill ==
  ASSUME UNCHANGED <<state, total_samples, transfer_count, sample_buffer, read_ptr,
                     accepted, behind, last_sent>>
  PROVE  UNCHANGED Promise!windowVars
<1>1. Remaining' = Remaining
  BY DEF Remaining, Address
<1>2. Phase' = Phase
  BY DEF Phase
<1>3. QED
  BY <1>1, <1>2 DEF Promise!windowVars

LEMMA RefineReset == ASSUME AssertReset PROVE Promise!Abandon
<1>1. state' = "IDLE" /\ accepted' = <<>> /\ behind' = 0 /\ last_sent' = <<>>
  BY DEF AssertReset, Reset
<1>2. Phase' = "idle" /\ Remaining' = <<>>
  BY <1>1 DEF Phase, Remaining
<1>3. QED
  BY <1>1, <1>2 DEF Promise!Abandon

LEMMA RefineInit == HistoryInit => Promise!Init
<1> SUFFICES ASSUME HistoryInit PROVE Promise!Init
  OBVIOUS
<1>2. state = "IDLE" /\ accepted = <<>> /\ behind = 0 /\ last_sent = <<>>
  BY DEF HistoryInit, Init
<1>3. Phase = "idle" /\ Remaining = <<>>
  BY <1>2 DEF Phase, Remaining
<1>4. QED
  BY <1>2, <1>3 DEF Promise!Init

LEMMA RefineNext ==
  ASSUME WindowsFit, IInv, [SteadyNext]_vars
  PROVE  [Promise!Next]_(Promise!windowVars)
<1>1. ASSUME NEW trigger_in \in BOOLEAN, NEW tvalid \in BOOLEAN, NEW tready \in BOOLEAN,
             SteadyEdge(trigger_in, tvalid, tready)
      PROVE  [Promise!Next]_(Promise!windowVars)
  <2>1. Edge(trigger_in, tvalid, tready)
    BY <1>1 DEF SteadyEdge
  <2>2. CASE IdleEdge \/ DoneEdge
    BY <2>1, <2>2, RefineQuiet DEF Promise!Next
  <2>3. CASE ArmedEdge(trigger_in, tvalid, Offered)
    BY <1>1, <2>3, RefineArmed DEF Promise!Next
  <2>4. CASE TriggeredEdge(tvalid, Offered)
    <3>1. FrozenWindow \in {[pre |-> c.pre_samples, post |-> c.post_samples] :
                              c \in ScopeConfigs}
      BY Ranges DEF FrozenWindow
    <3>2. QED
      BY <2>1, <2>4, <3>1, RefineTriggered DEF Promise!Next
  <2>5. CASE TransferEdge(tready)
    BY <2>1, <2>5, RefineTransfer DEF Promise!Next
  <2>6. QED
    BY <2>1, <2>2, <2>3, <2>4, <2>5 DEF Edge, Clock
<1>2. ASSUME NEW c \in ScopeConfigs, HostWrite(c)
      PROVE  UNCHANGED Promise!windowVars
  BY <1>2, RefineStill DEF HostWrite, Configure, scopeRegisters
<1>3. CASE AssertReset
  BY <1>3, RefineReset DEF Promise!Next
<1>4. CASE UNCHANGED vars
  BY <1>4, RefineStill DEF vars, scopeVars, scopeRegisters
<1>5. QED
  BY <1>1, <1>2, <1>3, <1>4 DEF SteadyNext, Environment

(* The scope implements CaptureWindow: whatever stalls, gaps, host writes  *)
(* and resets come, its buffer, pointers and counters hand over the        *)
(* samples around the trigger, once and in order.                          *)
THEOREM SendsTheWindow == ASSUME WindowsFit PROVE Spec => ImplementsWindow
<1>1. HistoryInit => Promise!Init
  BY RefineInit
<1>2. WindowsFit /\ IInv /\ [SteadyNext]_vars => [Promise!Next]_(Promise!windowVars)
  BY RefineNext
<1>3. QED
  BY <1>1, <1>2, Invariance, PTL DEF Spec, ImplementsWindow, Promise!Spec
=============================================================================
