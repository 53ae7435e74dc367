------------------------------- MODULE KeyerProofs -------------------------------
(***************************************************************************)
(* Proofs about the keyer, for every length of dots, dashes, gaps and      *)
(* pauses, and every set of settings: that every step of it is one of      *)
(* KeyedCarrier, or none at all for it; that a dot and a dash last as long *)
(* as they should; and that no paddle is forgotten.                        *)
(***************************************************************************)
EXTENDS HpsdrKeyer, TLAPS

(* What is left of a change to transmission and of one back.               *)
On1 == <<"tell_ptt_on", "mux_on", "tell_mux_on", "sidetone_on">>
On2 == <<"mux_on", "tell_mux_on", "sidetone_on">>
On3 == <<"tell_mux_on", "sidetone_on">>
On4 == <<"sidetone_on">>
Off1 == <<"tell_ptt_off", "fifo_reset", "fifo_on", "mux_off", "tell_mux_off">>
Off2 == <<"fifo_reset", "fifo_on", "mux_off", "tell_mux_off">>
Off3 == <<"fifo_on", "mux_off", "tell_mux_off">>
Off4 == <<"mux_off", "tell_mux_off">>
Off5 == <<"tell_mux_off">>

LEMMA OnSteps ==
  /\ OnWrites # <<>> /\ Head(OnWrites) = "ptt_on" /\ Tail(OnWrites) = On1
  /\ On1 # <<>> /\ Head(On1) = "tell_ptt_on" /\ Tail(On1) = On2
  /\ On2 # <<>> /\ Head(On2) = "mux_on" /\ Tail(On2) = On3
  /\ On3 # <<>> /\ Head(On3) = "tell_mux_on" /\ Tail(On3) = On4
  /\ On4 # <<>> /\ Head(On4) = "sidetone_on" /\ Tail(On4) = <<>>
<1>1. OnWrites # <<>> /\ Head(OnWrites) = "ptt_on" /\ Tail(OnWrites) = On1
  BY DEF OnWrites, On1
<1>2. On1 # <<>> /\ Head(On1) = "tell_ptt_on" /\ Tail(On1) = On2
  BY DEF On1, On2
<1>3. On2 # <<>> /\ Head(On2) = "mux_on" /\ Tail(On2) = On3
  BY DEF On2, On3
<1>4. On3 # <<>> /\ Head(On3) = "tell_mux_on" /\ Tail(On3) = On4
  BY DEF On3, On4
<1>5. On4 # <<>> /\ Head(On4) = "sidetone_on" /\ Tail(On4) = <<>>
  BY DEF On4
<1> QED BY <1>1, <1>2, <1>3, <1>4, <1>5

LEMMA OffSteps ==
  /\ OffWrites # <<>> /\ Head(OffWrites) = "ptt_off" /\ Tail(OffWrites) = Off1
  /\ Off1 # <<>> /\ Head(Off1) = "tell_ptt_off" /\ Tail(Off1) = Off2
  /\ Off2 # <<>> /\ Head(Off2) = "fifo_reset" /\ Tail(Off2) = Off3
  /\ Off3 # <<>> /\ Head(Off3) = "fifo_on" /\ Tail(Off3) = Off4
  /\ Off4 # <<>> /\ Head(Off4) = "mux_off" /\ Tail(Off4) = Off5
  /\ Off5 # <<>> /\ Head(Off5) = "tell_mux_off" /\ Tail(Off5) = <<>>
<1>1. OffWrites # <<>> /\ Head(OffWrites) = "ptt_off" /\ Tail(OffWrites) = Off1
  BY DEF OffWrites, Off1
<1>2. Off1 # <<>> /\ Head(Off1) = "tell_ptt_off" /\ Tail(Off1) = Off2
  BY DEF Off1, Off2
<1>3. Off2 # <<>> /\ Head(Off2) = "fifo_reset" /\ Tail(Off2) = Off3
  BY DEF Off2, Off3
<1>4. Off3 # <<>> /\ Head(Off3) = "fifo_on" /\ Tail(Off3) = Off4
  BY DEF Off3, Off4
<1>5. Off4 # <<>> /\ Head(Off4) = "mux_off" /\ Tail(Off4) = Off5
  BY DEF Off4, Off5
<1>6. Off5 # <<>> /\ Head(Off5) = "tell_mux_off" /\ Tail(Off5) = <<>>
  BY DEF Off5
<1> QED BY <1>1, <1>2, <1>3, <1>4, <1>5, <1>6

-----------------------------------------------------------------------------
Loud == {"ramp", "hold", "signal", "fall"}

(* What cw_ptt_off counts down is never less than what is left of the pause*)
(* (when quiet has reached its bound, nothing is left).                    *)
Timed ==
  /\ cw \in Settings /\ cw_ptt_delay \in Int
  /\ quiet \in 0 .. MAX_QUIET /\ hang \in 0 .. MAX_QUIET
  /\ hang <= quiet \/ hang <= quiet + cw_ptt_delay

(* The carrier is there at three places, at the last without sidetone.     *)
Placed ==
  /\ "rf" \in tx_rst <=> pc \in Loud \ {"ramp"}
  /\ pc = "fall" => "sidetone" \notin tx_rst

Held == cw_ptt = 1 /\ Carrier!Sending \subseteq tx_rst /\ tx_mux_data = 1 /\ cleared = FALSE

(* Between two changes the transmitter is either all the keyer's or not    *)
(* told to be.                                                             *)
Between ==
  /\ writes = <<>> /\ "fifo" \in tx_rst
  /\ cw_ptt = 0 \/ Held
  /\ pc \in Loud => cw_ptt = 1

ChangingOn ==
  /\ pc = "ramp" /\ "fifo" \in tx_rst
  /\ \/ writes = OnWrites
     \/ writes = On1 /\ "ptt" \in tx_rst
     \/ writes = On2 /\ "ptt" \in tx_rst /\ cw_ptt = 1
     \/ writes = On3 /\ Carrier!Sending \subseteq tx_rst /\ cw_ptt = 1 /\ cleared = FALSE
     \/ writes = On4 /\ Held

(* The multiplexer has turned away from the FIFO, and main() was told.     *)
Turned == {"fifo", "mux"} \subseteq tx_rst /\ tx_mux_data = 1

ChangingOff ==
  /\ pc \notin Loud
  /\ \/ writes = OffWrites /\ Held /\ hang <= quiet
     \/ writes = Off1 /\ "ptt" \notin tx_rst /\ Turned /\ cleared = FALSE
     \/ writes = Off2 /\ cw_ptt = 0 /\ Turned /\ cleared = FALSE
     \/ writes = Off3 /\ cw_ptt = 0 /\ "mux" \in tx_rst /\ "fifo" \notin tx_rst
     \/ writes = Off4 /\ cw_ptt = 0 /\ {"fifo", "mux"} \subseteq tx_rst /\ cleared = TRUE
     \/ writes = Off5 /\ cw_ptt = 0 /\ "fifo" \in tx_rst /\ "mux" \notin tx_rst

Inv == Timed /\ Placed /\ (Between \/ ChangingOn \/ ChangingOff)

Steps == Inv' /\ (Carrier!Next \/ UNCHANGED Carrier!carrierVars)

LEMMA Bounds ==
  /\ MAX_QUIET \in Nat /\ DEFAULT_HANG \in 1 .. MAX_QUIET
  /\ \A s \in Settings : s.hang \in 0 .. MAX_QUIET
  BY KeyerAssumption DEF KeyerAssumption

LEMMA StartsInv == Init => Inv /\ Carrier!Init
  BY Bounds DEF Init, Inv, Timed, Placed, Between, Loud, Carrier!Init

(* At a place with nothing left to write, the transmitter is in order.     *)
LEMMA Settled ==
  ASSUME Inv, writes = <<>>
  PROVE  Between
  BY OnSteps, OffSteps DEF Inv, ChangingOn, ChangingOff

-----------------------------------------------------------------------------
(* The other threads. *)
LEMMA OthersStep ==
  ASSUME Inv, cw' \in Settings, UNCHANGED <<pc, writes, lineVars, quiet, cw_ptt_delay>>
  PROVE  Steps
  BY DEF Steps, Inv, Timed, Placed, Between, ChangingOn, ChangingOff, Held, Turned, lineVars,
         Carrier!Sending, Carrier!carrierVars

(* A step from place to place.                                             *)
LEMMA MoveStep ==
  ASSUME Inv, writes = <<>>, pc \notin Loud, pc' \notin Loud,
         UNCHANGED <<cw, writes, lineVars, timeVars, cw_ptt_delay>>
  PROVE  Steps
<1>1. Between BY Settled
<1>2. Timed' BY DEF Inv, Timed, lineVars, timeVars
<1>3. Placed' BY DEF Inv, Placed, Loud, lineVars
<1>4. Between' BY <1>1 DEF Between, Held, lineVars, Carrier!Sending
<1>5. UNCHANGED Carrier!carrierVars BY DEF lineVars, timeVars, Carrier!carrierVars
<1> QED BY <1>2, <1>3, <1>4, <1>5 DEF Steps, Inv

(* Time.                                                                   *)
LEMMA TimePasses ==
  ASSUME Timed, Millisecond, UNCHANGED <<cw, hang>>,
         cw_ptt_delay' = cw_ptt_delay \/ cw_ptt_delay' = cw_ptt_delay - 1
  PROVE  /\ Timed' /\ (quiet' = quiet \/ quiet' = quiet + 1)
         /\ cw_ptt_delay' <= 0 => hang' <= quiet'
  BY Bounds DEF Timed, Millisecond

(* ... at a place.                                                         *)
LEMMA WaitStep ==
  ASSUME Inv, writes = <<>>, pc' = pc, Millisecond,
         UNCHANGED <<cw, writes, lineVars, cw_ptt_delay>>
  PROVE  Steps
<1>1. Between BY Settled
<1>2. Timed' /\ (quiet' = quiet \/ quiet' = quiet + 1)
  BY TimePasses DEF Inv, lineVars
<1>3. Placed' /\ Between'
  BY <1>1 DEF Inv, Placed, Between, Held, lineVars, Carrier!Sending
<1>4. Carrier!Pause \/ UNCHANGED Carrier!carrierVars
  BY <1>2 DEF lineVars, Carrier!Pause, Carrier!carrierVars
<1> QED BY <1>2, <1>3, <1>4 DEF Steps, Inv, Carrier!Next

(* ... and the end of the pause.                                           *)
LEMMA CountStep ==
  ASSUME Inv, writes = <<>>, pc \notin Loud, pc' \notin Loud, Millisecond, cw_ptt_off,
         UNCHANGED <<cw, lineVars>>
  PROVE  Steps
<1>1. Between BY Settled
<1>2. cw_ptt_delay' = cw_ptt_delay \/ cw_ptt_delay' = cw_ptt_delay - 1
  BY DEF cw_ptt_off
<1>3. /\ Timed' /\ (quiet' = quiet \/ quiet' = quiet + 1)
      /\ cw_ptt_delay' <= 0 => hang' <= quiet'
  BY <1>2, TimePasses DEF Inv, lineVars
<1>4. Placed'
  BY DEF Inv, Placed, Loud, lineVars
<1>5. Between' \/ ChangingOff'
  <2>1. CASE writes' = <<>>
    BY <2>1, <1>1 DEF Between, Held, lineVars, Carrier!Sending
  <2>2. CASE writes' # <<>>
    <3>1. cw_ptt = 1 /\ cw_ptt_delay' = cw_ptt_delay - 1 /\ writes' = OffWrites
          /\ ~(cw_ptt_delay - 1 > 0)
      BY <2>2 DEF cw_ptt_off
    <3>2. hang' <= quiet'
      BY <3>1, <1>3 DEF Inv, Timed
    <3>3. Held'
      BY <3>1, <1>1 DEF Between, Held, lineVars, Carrier!Sending
    <3> QED BY <3>1, <3>2, <3>3 DEF ChangingOff
  <2> QED BY <2>1, <2>2
<1>6. Carrier!Pause \/ UNCHANGED Carrier!carrierVars
  BY <1>3 DEF lineVars, Carrier!Pause, Carrier!carrierVars
<1> QED BY <1>3, <1>4, <1>5, <1>6 DEF Steps, Inv, Carrier!Next

-----------------------------------------------------------------------------
(* The change to transmission, the carrier and its end.                    *)
LEMMA OnStep == ASSUME Inv, cw_on PROVE Steps
<1>1. Between BY Settled DEF cw_on, At
<1>2. ChangingOn'
  BY <1>1 DEF cw_on, Goto, Between, ChangingOn, lineVars
<1>3. Timed' /\ Placed'
  BY DEF cw_on, At, Goto, Inv, Timed, Placed, Loud, lineVars, settingVars, timeVars
<1>4. UNCHANGED Carrier!carrierVars
  BY DEF cw_on, lineVars, timeVars, Carrier!carrierVars
<1> QED BY <1>2, <1>3, <1>4 DEF Steps, Inv

LEMMA RfOnStep == ASSUME Inv, RfOn PROVE Steps
<1>1. Between /\ pc = "ramp" BY Settled DEF RfOn, At
<1>2. Held BY <1>1 DEF Between, Loud
<1>3. pc' \in {"hold", "signal"} BY DEF RfOn, Goto
<1>4. Between'
  BY <1>1, <1>2, <1>3 DEF RfOn, Between, Held, Carrier!Sending
<1>5. Timed' /\ Placed'
  BY <1>1, <1>3 DEF RfOn, Inv, Timed, Placed, Loud, settingVars
<1>6. Carrier!RfOn
  BY <1>2 DEF RfOn, Held, Carrier!RfOn, Carrier!Set
<1> QED BY <1>4, <1>5, <1>6 DEF Steps, Inv, Carrier!Next

LEMMA OffStep == ASSUME Inv, cw_off PROVE Steps
<1>1. Between /\ pc \in {"signal", "hold"} BY Settled DEF cw_off, SignalDone, At
<1>2. pc' = "fall" BY DEF cw_off, Goto
<1>3. Between'
  BY <1>1, <1>2 DEF cw_off, Between, Held, Loud, Carrier!Sending
<1>4. Timed' /\ Placed'
  BY <1>1, <1>2 DEF cw_off, Inv, Timed, Placed, Loud, settingVars, timeVars
<1>5. Carrier!SidetoneOff
  BY DEF cw_off, timeVars, Carrier!SidetoneOff, Carrier!Clear
<1> QED BY <1>3, <1>4, <1>5 DEF Steps, Inv, Carrier!Next

LEMMA RfOffStep == ASSUME Inv, RfOff PROVE Steps
<1>1. Between /\ pc = "fall" BY Settled DEF RfOff, At
<1>2. pc' \in {"loop", "space"} BY DEF RfOff, Goto
<1>3. Hang \in 1 .. MAX_QUIET
  BY Bounds DEF Inv, Timed, Hang
<1>4. Between'
  BY <1>1, <1>2 DEF RfOff, Between, Held, Loud, Carrier!Sending
<1>5. Timed'
  BY <1>3, Bounds DEF RfOff, Inv, Timed, settingVars
<1>6. Placed'
  BY <1>1, <1>2 DEF RfOff, Inv, Placed, Loud
<1>7. Carrier!RfOff
  BY <1>1, <1>3 DEF RfOff, Inv, Placed, Loud, Carrier!RfOff, Carrier!Clear
<1> QED BY <1>4, <1>5, <1>6, <1>7 DEF Steps, Inv, Carrier!Next

-----------------------------------------------------------------------------
(* The writes of a change, one by one.  Each leaves the rest of the change *)
(* to do; the last leaves the transmitter in order.                        *)
LEMMA WriteKeeps ==
  ASSUME Inv, Write
  PROVE  /\ writes' = Tail(writes) /\ UNCHANGED <<pc, quiet, hang>> /\ Timed'
         /\ "rf" \in tx_rst' <=> "rf" \in tx_rst
         /\ "rf" \in tx_rst <=> pc \in Loud \ {"ramp"}
         /\ pc # "fall" => Placed'
<1>1. writes' = Tail(writes) /\ UNCHANGED <<pc, cw, quiet, hang, cw_ptt_delay>>
  BY DEF Write, settingVars, placeVars, timeVars
<1>2. Timed' BY <1>1 DEF Inv, Timed
<1>3. "rf" \in tx_rst' <=> "rf" \in tx_rst
  BY DEF Write
<1>4. "rf" \in tx_rst <=> pc \in Loud \ {"ramp"}
  BY DEF Inv, Placed
<1> QED BY <1>1, <1>2, <1>3, <1>4 DEF Placed

LEMMA WriteOn ==
  ASSUME Inv, Write, ChangingOn
  PROVE  Steps
<1>1. /\ writes' = Tail(writes) /\ UNCHANGED <<pc, quiet, hang>>
      /\ Timed' /\ Placed' /\ pc = "ramp" /\ "fifo" \in tx_rst
  BY WriteKeeps DEF ChangingOn
<1>2. CASE writes = OnWrites
  <2>1. Head(writes) = "ptt_on" /\ writes' = On1
    BY <1>1, <1>2, OnSteps
  <2>2. /\ tx_rst' = tx_rst \union {"ptt"}
        /\ UNCHANGED <<cw_ptt, tx_mux_data, cleared>>
    BY <2>1 DEF Write
  <2>3. ChangingOn' BY <1>1, <2>1, <2>2 DEF ChangingOn
  <2>4. Carrier!PttOn BY <1>1, <2>2 DEF Carrier!PttOn, Carrier!Set
  <2> QED BY <1>1, <2>3, <2>4 DEF Steps, Inv, Carrier!Next
<1>3. CASE writes = On1 /\ "ptt" \in tx_rst
  <2>1. Head(writes) = "tell_ptt_on" /\ writes' = On2
    BY <1>1, <1>3, OnSteps
  <2>2. cw_ptt' = 1 /\ UNCHANGED <<tx_rst, tx_mux_data, cleared>>
    BY <2>1 DEF Write
  <2>3. ChangingOn' BY <1>1, <1>3, <2>1, <2>2 DEF ChangingOn
  <2>4. Carrier!TellPttOn BY <1>1, <1>3, <2>2 DEF Carrier!TellPttOn
  <2> QED BY <1>1, <2>3, <2>4 DEF Steps, Inv, Carrier!Next
<1>4. CASE writes = On2 /\ "ptt" \in tx_rst /\ cw_ptt = 1
  <2>1. Head(writes) = "mux_on" /\ writes' = On3
    BY <1>1, <1>4, OnSteps
  <2>2. /\ tx_rst' = tx_rst \union {"mux"} /\ cleared' = FALSE
        /\ UNCHANGED <<cw_ptt, tx_mux_data>>
    BY <2>1 DEF Write
  <2>3. ChangingOn' BY <1>1, <1>4, <2>1, <2>2 DEF ChangingOn, Carrier!Sending
  <2>4. Carrier!MuxOn BY <1>1, <1>4, <2>2 DEF Carrier!MuxOn, Carrier!Set
  <2> QED BY <1>1, <2>3, <2>4 DEF Steps, Inv, Carrier!Next
<1>5. CASE writes = On3 /\ Carrier!Sending \subseteq tx_rst /\ cw_ptt = 1 /\ cleared = FALSE
  <2>1. Head(writes) = "tell_mux_on" /\ writes' = On4
    BY <1>1, <1>5, OnSteps
  <2>2. tx_mux_data' = 1 /\ UNCHANGED <<tx_rst, cw_ptt, cleared>>
    BY <2>1 DEF Write
  <2>3. Held' BY <1>5, <2>2 DEF Held, Carrier!Sending
  <2>4. ChangingOn' BY <1>1, <2>1, <2>2, <2>3 DEF ChangingOn
  <2>5. Carrier!TellMuxOn BY <1>1, <1>5, <2>2 DEF Carrier!TellMuxOn, Carrier!Sending
  <2> QED BY <1>1, <2>4, <2>5 DEF Steps, Inv, Carrier!Next
<1>6. CASE writes = On4 /\ Held
  <2>1. Head(writes) = "sidetone_on" /\ writes' = <<>>
    BY <1>1, <1>6, OnSteps
  <2>2. /\ tx_rst' = tx_rst \/ tx_rst' = tx_rst \union {"sidetone"}
        /\ UNCHANGED <<cw_ptt, tx_mux_data, cleared>>
    BY <2>1 DEF Write
  <2>3. Held' BY <1>6, <2>2 DEF Held, Carrier!Sending
  <2>4. Between' BY <1>1, <2>1, <2>2, <2>3 DEF Between, Held
  <2>5. Carrier!SidetoneOn \/ UNCHANGED Carrier!carrierVars
    BY <1>1, <1>6, <2>2 DEF Held, Carrier!SidetoneOn, Carrier!Set, Carrier!carrierVars
  <2> QED BY <1>1, <2>4, <2>5 DEF Steps, Inv, Carrier!Next
<1> QED BY <1>2, <1>3, <1>4, <1>5, <1>6 DEF ChangingOn

LEMMA WriteOff ==
  ASSUME Inv, Write, ChangingOff
  PROVE  Steps
<1>1. /\ writes' = Tail(writes) /\ UNCHANGED <<pc, quiet, hang>>
      /\ Timed' /\ Placed' /\ pc \notin Loud /\ pc' \notin Loud
      /\ "rf" \notin tx_rst
  BY WriteKeeps DEF ChangingOff, Loud
<1>2. CASE writes = OffWrites /\ Held /\ hang <= quiet
  <2>1. Head(writes) = "ptt_off" /\ writes' = Off1
    BY <1>1, <1>2, OffSteps
  <2>2. /\ tx_rst' = tx_rst \ {"ptt"}
        /\ UNCHANGED <<cw_ptt, tx_mux_data, cleared>>
    BY <2>1 DEF Write
  <2>3. ChangingOff' BY <1>1, <1>2, <2>1, <2>2 DEF ChangingOff, Held, Turned, Carrier!Sending
  <2>4. quiet >= hang BY <1>2 DEF Inv, Timed
  <2>5. Carrier!PttOff
    BY <1>1, <1>2, <2>2, <2>4 DEF Held, Carrier!PttOff, Carrier!Clear
  <2> QED BY <1>1, <2>3, <2>5 DEF Steps, Inv, Carrier!Next
<1>3. CASE writes = Off1 /\ "ptt" \notin tx_rst /\ Turned /\ cleared = FALSE
  <2>1. Head(writes) = "tell_ptt_off" /\ writes' = Off2
    BY <1>1, <1>3, OffSteps
  <2>2. cw_ptt' = 0 /\ UNCHANGED <<tx_rst, tx_mux_data, cleared>>
    BY <2>1 DEF Write
  <2>3. ChangingOff' BY <1>1, <1>3, <2>1, <2>2 DEF ChangingOff, Turned
  <2>4. Carrier!TellPttOff BY <1>1, <1>3, <2>2 DEF Carrier!TellPttOff
  <2> QED BY <1>1, <2>3, <2>4 DEF Steps, Inv, Carrier!Next
<1>4. CASE writes = Off2 /\ cw_ptt = 0 /\ Turned /\ cleared = FALSE
  <2>1. Head(writes) = "fifo_reset" /\ writes' = Off3
    BY <1>1, <1>4, OffSteps
  <2>2. /\ tx_rst' = tx_rst \ {"fifo"}
        /\ UNCHANGED <<cw_ptt, tx_mux_data, cleared>>
    BY <2>1 DEF Write
  <2>3. ChangingOff' BY <1>1, <1>4, <2>1, <2>2 DEF ChangingOff, Turned
  <2>4. Carrier!FifoReset BY <1>1, <1>4, <2>2 DEF Turned, Carrier!FifoReset, Carrier!Clear
  <2> QED BY <1>1, <2>3, <2>4 DEF Steps, Inv, Carrier!Next
<1>5. CASE writes = Off3 /\ cw_ptt = 0 /\ "mux" \in tx_rst /\ "fifo" \notin tx_rst
  <2>1. Head(writes) = "fifo_on" /\ writes' = Off4
    BY <1>1, <1>5, OffSteps
  <2>2. /\ tx_rst' = tx_rst \union {"fifo"} /\ cleared' = TRUE
        /\ UNCHANGED <<cw_ptt, tx_mux_data>>
    BY <2>1 DEF Write
  <2>3. ChangingOff' BY <1>1, <1>5, <2>1, <2>2 DEF ChangingOff
  <2>4. Carrier!FifoOn BY <1>1, <1>5, <2>2 DEF Carrier!FifoOn, Carrier!Set
  <2> QED BY <1>1, <2>3, <2>4 DEF Steps, Inv, Carrier!Next
<1>6. CASE writes = Off4 /\ cw_ptt = 0 /\ {"fifo", "mux"} \subseteq tx_rst /\ cleared = TRUE
  <2>1. Head(writes) = "mux_off" /\ writes' = Off5
    BY <1>1, <1>6, OffSteps
  <2>2. /\ tx_rst' = tx_rst \ {"mux"}
        /\ UNCHANGED <<cw_ptt, tx_mux_data, cleared>>
    BY <2>1 DEF Write
  <2>3. ChangingOff' BY <1>1, <1>6, <2>1, <2>2 DEF ChangingOff
  <2>4. Carrier!MuxOff BY <1>1, <1>6, <2>2 DEF Carrier!MuxOff, Carrier!Clear
  <2> QED BY <1>1, <2>3, <2>4 DEF Steps, Inv, Carrier!Next
<1>7. CASE writes = Off5 /\ cw_ptt = 0 /\ "fifo" \in tx_rst /\ "mux" \notin tx_rst
  <2>1. Head(writes) = "tell_mux_off" /\ writes' = <<>>
    BY <1>1, <1>7, OffSteps
  <2>2. tx_mux_data' = 0 /\ UNCHANGED <<tx_rst, cw_ptt, cleared>>
    BY <2>1 DEF Write
  <2>3. Between' BY <1>1, <1>7, <2>1, <2>2 DEF Between
  <2>4. Carrier!TellMuxOff BY <1>1, <1>7, <2>2 DEF Carrier!TellMuxOff
  <2> QED BY <1>1, <2>3, <2>4 DEF Steps, Inv, Carrier!Next
<1> QED BY <1>2, <1>3, <1>4, <1>5, <1>6, <1>7 DEF ChangingOff

LEMMA WriteStep == ASSUME Inv, Write PROVE Steps
<1>1. ~Between BY DEF Write, Between
<1>2. ChangingOn \/ ChangingOff BY <1>1 DEF Inv
<1> QED BY <1>2, WriteOn, WriteOff

-----------------------------------------------------------------------------
LEMMA Waits ==
  ASSUME Inv,
         \/ Wait("ramp", RememberedHere) \/ Wait("fall", Remembered)
         \/ Hold \/ BugSleep \/ Signal
  PROVE  Steps
<1>1. writes = <<>> /\ pc' = pc /\ Millisecond
      /\ UNCHANGED <<cw, writes, lineVars, cw_ptt_delay>>
  BY DEF Wait, Hold, BugSleep, Signal, At, Goto, settingVars, placeVars
<1> QED BY <1>1, WaitStep

LEMMA Counts ==
  ASSUME Inv, Poll \/ \E place \in {"space", "gap"} : SpaceSleep(place)
  PROVE  Steps
<1>1. CASE Poll
  <2>1. writes = <<>> /\ pc = "loop" /\ pc' = "sample" /\ Millisecond /\ cw_ptt_off
        /\ UNCHANGED <<cw, lineVars>>
    BY <1>1 DEF Poll, At, Goto, settingVars
  <2> QED BY <2>1, CountStep DEF Loud
<1>2. ASSUME NEW place \in {"space", "gap"}, SpaceSleep(place)
      PROVE  Steps
  <2>1. writes = <<>> /\ pc \in {"space", "gap"} /\ pc' \in {"space_sample", "gap_sample"}
        /\ Millisecond /\ cw_ptt_off /\ UNCHANGED <<cw, lineVars>>
    BY <1>2 DEF SpaceSleep, SamplePlace, At, Goto, settingVars
  <2> QED BY <2>1, CountStep DEF Loud
<1> QED BY <1>1, <1>2

LEMMA Moves ==
  ASSUME Inv,
         \/ \E place \in {"space", "gap"} : SpaceSample(place)
         \/ Idle \/ StraightKey \/ IambicKey
         \/ Element \/ NotElement \/ AfterElement \/ AfterBug \/ AfterGap
  PROVE  Steps
<1>1. CASE \E place \in {"space", "gap"} : SpaceSample(place)
  <2>1. writes = <<>> /\ pc \in {"space_sample", "gap_sample"} /\ pc' \in {"space", "gap"}
        /\ UNCHANGED <<cw, writes, lineVars, timeVars, cw_ptt_delay>>
    BY <1>1 DEF SpaceSample, SamplePlace, At, Goto, settingVars
  <2> QED BY <2>1, MoveStep DEF Loud
<1>2. CASE Idle \/ StraightKey \/ IambicKey
  <2>1. writes = <<>> /\ pc = "sample" /\ pc' \in {"loop", "on", "element"}
        /\ UNCHANGED <<cw, writes, lineVars, timeVars, cw_ptt_delay>>
    BY <1>2 DEF Idle, StraightKey, IambicKey, Begin, At, Goto, settingVars
  <2> QED BY <2>1, MoveStep DEF Loud
<1>3. CASE Element \/ NotElement \/ AfterElement
  <2>1. writes = <<>> /\ pc \in {"element", "space"} /\ pc' \in {"on", "element", "gap", "loop"}
        /\ UNCHANGED <<cw, writes, lineVars, timeVars, cw_ptt_delay>>
    BY <1>3 DEF Element, NotElement, AfterElement, Continue, Begin, At, Goto, settingVars
  <2> QED BY <2>1, MoveStep DEF Loud
<1>4. CASE AfterBug \/ AfterGap
  <2>1. writes = <<>> /\ pc \in {"space", "gap"} /\ pc' \in {"element", "loop"}
        /\ UNCHANGED <<cw, writes, lineVars, timeVars, cw_ptt_delay>>
    BY <1>4 DEF AfterBug, AfterGap, At, Goto, settingVars
  <2> QED BY <2>1, MoveStep DEF Loud
<1> QED BY <1>1, <1>2, <1>3, <1>4

LEMMA Others ==
  ASSUME Inv,
         \/ \E k \in SUBSET Iambic : Paddles(k)
         \/ \E s \in Settings : SetKeyer(s)
         \/ UNCHANGED vars
  PROVE  Steps
<1>1. cw' \in Settings /\ UNCHANGED <<pc, writes, lineVars, quiet, cw_ptt_delay>>
  BY DEF Inv, Timed, Paddles, SetKeyer, vars, settingVars, placeVars, timeVars
<1> QED BY <1>1, OthersStep

LEMMA AllSteps == Inv /\ [Next]_vars => Steps
<1> SUFFICES ASSUME Inv, [Next]_vars PROVE Steps
  OBVIOUS
<1>1. CASE Write BY <1>1, WriteStep
<1>2. CASE cw_on \/ RfOn \/ cw_off \/ RfOff
  BY <1>2, OnStep, RfOnStep, OffStep, RfOffStep
<1>3. CASE Wait("ramp", RememberedHere) \/ Wait("fall", Remembered)
           \/ Hold \/ BugSleep \/ Signal
  BY <1>3, Waits
<1>4. CASE Poll \/ \E place \in {"space", "gap"} : SpaceSleep(place)
  BY <1>4, Counts
<1>5. CASE \/ \E place \in {"space", "gap"} : SpaceSample(place)
           \/ Idle \/ StraightKey \/ IambicKey
           \/ Element \/ NotElement \/ AfterElement \/ AfterBug \/ AfterGap
  BY <1>5, Moves
<1>6. CASE \/ \E k \in SUBSET Iambic : Paddles(k)
           \/ \E s \in Settings : SetKeyer(s)
           \/ UNCHANGED vars
  BY <1>6, Others
<1> QED BY <1>1, <1>2, <1>3, <1>4, <1>5, <1>6 DEF Next, handler_keyer

(* Whatever the paddles and main() do, and whatever the lengths and the    *)
(* settings are, the keyer changes to transmission and back in the order   *)
(* the program is promised: cw_on and cw_ptt_off, with every wait between  *)
(* their writes.                                                           *)
THEOREM KeepsOrder == Spec => ImplementsCarrier
<1>1. Init => Inv /\ Carrier!Init BY StartsInv
<1>2. Inv /\ [Next]_vars => Inv' /\ [Carrier!Next]_(Carrier!carrierVars)
  BY AllSteps DEF Steps
<1> QED BY <1>1, <1>2, PTL DEF Spec, ImplementsCarrier, Carrier!Spec

-----------------------------------------------------------------------------
(* The elements: how long each lasts, and which one follows.               *)

(* The places from an element's start to the end of the space after it.    *)
Sent == {"on", "space", "space_sample"} \union Loud

(* What is sent is the element begun last; a straight key alone is held.   *)
Current ==
  /\ pc \in Sent => element = last
  /\ pc = "hold" => element = "straight"
  /\ pc = "signal" => element # "straight"

(* What is left of the carrier, while the settings stay.                   *)
Paced ==
  /\ delay \in Nat /\ carrier \in Nat
  /\ steady /\ DelayFits =>
       /\ pc = "signal" => carrier + delay = Length(last) - cw.delay
       /\ pc = "fall" /\ last # "straight" => carrier + delay = Length(last)

(* The other paddle was seen, and the mode does not forget.                *)
Owed == last \in Iambic /\ Other(last) \in seen /\ steady /\ cw.mode > 1

(* It is remembered until the element it asks for is begun.                *)
Recalled ==
  Owed => /\ pc \in Sent => Other(last) \in cw_memory[2]
          /\ pc = "element" => element = Other(last) /\ element \in cw_memory[2]
          /\ pc \notin {"gap", "gap_sample"}

ElementInv == Current /\ Paced /\ Recalled

LEMMA Lengths ==
  /\ DOT \in Nat \ {0} /\ DASH \in Nat
  /\ \A s \in Settings : s.delay \in Nat
  /\ \A code : Length(code) \in {DOT, DASH}
  BY KeyerAssumption DEF KeyerAssumption, Length

LEMMA Paddle == Other(Dot) = Dash /\ Other(Dash) = Dot /\ Dot # Dash /\ Iambic = {Dot, Dash}
  BY DEF Other, Dot, Dash, Iambic

LEMMA NotIambic == "straight" \notin Iambic /\ "bug" \notin Iambic
  BY DEF Iambic, Dot, Dash

LEMMA StartsElements == Init => ElementInv
  BY DEF Init, ElementInv, Current, Paced, Recalled, Owed, Sent, Loud

(* The next millisecond of a place.                                        *)
LEMMA Later ==
  ASSUME NEW place, delay \in Nat, delay > 0, Goto(place, delay - 1)
  PROVE  pc' = place /\ delay' = delay - 1 /\ delay' \in Nat
  BY DEF Goto

(* A step of main() or of the operator, and a write.                       *)
LEMMA QuietElements ==
  ASSUME ElementInv, UNCHANGED <<placeVars, sampleVars, carrier, last>>,
         UNCHANGED <<cw, steady>> \/ steady' = FALSE
  PROVE  ElementInv'
<1>1. Current' BY DEF ElementInv, Current, placeVars, Sent, Loud
<1>2. Paced' BY DEF ElementInv, Paced, DelayFits, placeVars
<1>3. Recalled'
  BY DEF ElementInv, Recalled, Owed, placeVars, sampleVars, Sent, Loud
<1> QED BY <1>1, <1>2, <1>3 DEF ElementInv

(* What a sample adds to seen it adds to the memory, in the modes that do  *)
(* not forget.                                                             *)
LEMMA SampleRecalls ==
  ASSUME Current, Recalled, pc \in Sent \ {"hold"}, pc' \in Sent, UNCHANGED <<cw, begunVars>>,
         \/ UNCHANGED sampleVars
         \/ seen' = seen \union cw_input /\ (cw.mode > 1 => cw_memory'[2] = Remembered)
  PROVE  Recalled'
<1> SUFFICES ASSUME Owed' PROVE Other(last) \in cw_memory'[2]
  BY DEF Recalled, begunVars, Sent, Loud
<1>1. CASE UNCHANGED sampleVars
  <2>1. Owed BY <1>1 DEF Owed, begunVars, sampleVars
  <2> QED BY <1>1, <2>1 DEF Recalled, sampleVars
<1>2. CASE seen' = seen \union cw_input /\ (cw.mode > 1 => cw_memory'[2] = Remembered)
  <2>1. cw.mode > 1 /\ steady /\ last \in Iambic /\ Other(last) \in seen \union cw_input
    BY <1>2 DEF Owed, begunVars
  <2>2. cw_memory'[2] = cw_memory[2] \union cw_input BY <1>2, <2>1 DEF Remembered
  <2>3. CASE Other(last) \in seen BY <2>1, <2>2, <2>3 DEF Owed, Recalled
  <2>4. CASE Other(last) \in cw_input BY <2>2, <2>4
  <2> QED BY <2>1, <2>3, <2>4
<1> QED BY <1>1, <1>2

(* A millisecond of an element.                                            *)
LEMMA WaitElements ==
  ASSUME Inv, ElementInv, pc \in {"ramp", "signal", "fall"}, delay > 0, Goto(pc, delay - 1),
         Millisecond, UNCHANGED <<cw, element, begunVars>>,
         \/ UNCHANGED sampleVars
         \/ seen' = seen \union cw_input /\ (cw.mode > 1 => cw_memory'[2] = Remembered)
  PROVE  ElementInv'
<1>1. pc' = pc /\ delay' = delay - 1 /\ delay' \in Nat
  BY Later DEF ElementInv, Paced
<1>2. Current' BY <1>1 DEF ElementInv, Current, begunVars, Sent, Loud
<1>3. Recalled'
  BY <1>1, SampleRecalls DEF ElementInv, Sent, Loud
<1>4. carrier' = (IF pc # "ramp" /\ (carrier <= DOT \/ carrier <= DASH)
                  THEN carrier + 1 ELSE carrier)
  BY DEF Inv, Placed, Loud, Millisecond
<1>5. Paced'
  <2>1. carrier' \in Nat BY <1>4 DEF ElementInv, Paced
  <2>2. ASSUME steady, DelayFits, pc = "signal"
        PROVE  carrier' + delay' = Length(last) - cw.delay
    <3>1. carrier + delay = Length(last) - cw.delay BY <2>2 DEF ElementInv, Paced
    <3>2. cw.delay \in Nat BY Lengths DEF Inv, Timed
    <3>3. carrier <= DOT \/ carrier <= DASH BY <3>1, <3>2, Lengths DEF ElementInv, Paced
    <3> QED BY <3>1, <3>2, <3>3, <1>1, <1>4, <2>2, Lengths DEF ElementInv, Paced
  <2>3. ASSUME steady, DelayFits, pc = "fall", last # "straight"
        PROVE  carrier' + delay' = Length(last)
    <3>1. carrier + delay = Length(last) BY <2>3 DEF ElementInv, Paced
    <3>2. carrier <= DOT \/ carrier <= DASH BY <3>1, Lengths DEF ElementInv, Paced
    <3> QED BY <3>1, <3>2, <1>1, <1>4, <2>3, Lengths DEF ElementInv, Paced
  <2> QED BY <1>1, <2>1, <2>2, <2>3 DEF Paced, DelayFits, begunVars
<1> QED BY <1>2, <1>3, <1>5 DEF ElementInv

LEMMA ElementWaits ==
  ASSUME Inv, ElementInv,
         \/ Wait("ramp", RememberedHere) \/ Wait("fall", Remembered) \/ BugSleep \/ Signal
  PROVE  ElementInv'
<1>1. CASE BugSleep
  BY <1>1, WaitElements DEF BugSleep, At, settingVars
<1>2. CASE Wait("ramp", RememberedHere) \/ Wait("fall", Remembered) \/ Signal
  <2>1. /\ pc \in {"ramp", "signal", "fall"} /\ delay > 0 /\ Goto(pc, delay - 1)
        /\ Sample(RememberedHere) \/ Sample(Remembered)
        /\ Millisecond /\ UNCHANGED <<cw, element, begunVars>>
    BY <1>2 DEF Wait, Signal, At, settingVars
  <2>2. cw.mode > 1 => RememberedHere = Remembered BY DEF RememberedHere
  <2>3. seen' = seen \union cw_input BY <2>1 DEF Sample
  <2>4. cw.mode > 1 => cw_memory'[2] = Remembered
    BY <2>1, <2>2 DEF Sample
  <2> QED BY <2>1, <2>3, <2>4, WaitElements
<1> QED BY <1>1, <1>2

-----------------------------------------------------------------------------
LEMMA CarrierElements ==
  ASSUME Inv, ElementInv, cw_on \/ RfOn \/ cw_off \/ RfOff \/ Hold
  PROVE  ElementInv'
<1> USE DEF ElementInv, At, settingVars, begunVars
<1>1. CASE cw_on
  <2>1. /\ pc = "on" /\ pc' = "ramp" /\ delay' \in Nat
        /\ UNCHANGED <<cw, element, begunVars, sampleVars, carrier>>
    BY <1>1, Lengths DEF cw_on, Goto, Ramp, Inv, Timed, timeVars
  <2>2. Current' BY <2>1 DEF Current, Sent, Loud
  <2>3. Paced' BY <2>1 DEF Paced
  <2>4. Recalled' BY <2>1, SampleRecalls DEF Sent, Loud
  <2> QED BY <2>2, <2>3, <2>4
<1>2. CASE RfOn
  <2>1. /\ pc = "ramp" /\ carrier' = 0
        /\ UNCHANGED <<cw, element, begunVars, sampleVars>>
        /\ IF element = "straight" THEN Goto("hold", 0) ELSE Goto("signal", Length(element) - cw.delay)
    BY <1>2 DEF RfOn
  <2>2. element = last BY <2>1 DEF Current, Sent, Loud
  <2>3. pc' = IF element = "straight" THEN "hold" ELSE "signal" BY <2>1 DEF Goto
  <2>4. Current' BY <2>1, <2>2, <2>3 DEF Current, Sent, Loud
  <2>5. Length(last) \in {DOT, DASH} /\ cw.delay \in Nat BY Lengths DEF Inv, Timed
  <2>6. delay' \in Nat BY <2>1, <2>2, <2>5, Lengths DEF Goto
  <2>7. ASSUME DelayFits, pc' = "signal"
        PROVE  delay' = Length(last) - cw.delay
    BY <2>1, <2>2, <2>3, <2>5, <2>7, Lengths DEF Goto, DelayFits
  <2>8. DelayFits' <=> DelayFits BY <2>1 DEF DelayFits
  <2>9. Paced' BY <2>1, <2>3, <2>5, <2>6, <2>7, <2>8, Lengths DEF Paced
  <2>10. Recalled' BY <2>1, <2>3, SampleRecalls DEF Sent, Loud
  <2> QED BY <2>4, <2>9, <2>10
<1>3. CASE cw_off
  <2>1. /\ pc' = "fall" /\ UNCHANGED <<cw, element, begunVars, sampleVars, carrier>>
        /\ (pc = "signal" /\ delay = 0) \/ pc = "hold"
        /\ delay' = IF Ramp > 0 THEN Ramp ELSE 0
    BY <1>3 DEF cw_off, SignalDone, Goto, timeVars
  <2>2. element = last BY <2>1 DEF Current, Sent, Loud
  <2>3. Current' BY <2>1, <2>2 DEF Current, Sent, Loud
  <2>4. cw.delay \in Nat BY Lengths DEF Inv, Timed
  <2>5. delay' \in Nat /\ (cw.delay <= DOT => delay' = cw.delay) BY <2>1, <2>4, Lengths DEF Ramp
  <2>6. ASSUME steady, DelayFits, last # "straight"
        PROVE  carrier + delay' = Length(last)
    <3>1. pc = "signal" /\ delay = 0 BY <2>1, <2>2, <2>6 DEF Current
    <3>2. carrier + delay = Length(last) - cw.delay BY <3>1, <2>6 DEF Paced
    <3> QED BY <3>1, <3>2, <2>4, <2>5, <2>6, Lengths DEF Paced, DelayFits
  <2>7. Paced' BY <2>1, <2>5, <2>6 DEF Paced, DelayFits
  <2>8. Recalled'
    <3>1. CASE pc = "signal" BY <3>1, <2>1, SampleRecalls DEF Sent, Loud
    <3>2. CASE pc = "hold"
      <4>1. last = "straight" BY <3>2, <2>2 DEF Current
      <4> QED BY <4>1, <2>1, NotIambic DEF Recalled, Owed
    <3> QED BY <2>1, <3>1, <3>2
  <2> QED BY <2>3, <2>7, <2>8
<1>4. CASE RfOff
  <2>1. /\ pc = "fall" /\ UNCHANGED <<cw, element, begunVars, sampleVars, carrier>>
        /\ IF element = "straight" THEN Goto("loop", 0) ELSE Goto("space", DOT - cw.delay)
    BY <1>4 DEF RfOff
  <2>2. element = last BY <2>1 DEF Current, Sent, Loud
  <2>3. pc' = IF element = "straight" THEN "loop" ELSE "space" BY <2>1 DEF Goto
  <2>4. cw.delay \in Nat BY Lengths DEF Inv, Timed
  <2>5. delay' \in Nat BY <2>1, <2>4, Lengths DEF Goto
  <2>6. Current' BY <2>1, <2>2, <2>3 DEF Current, Sent, Loud
  <2>7. Paced' BY <2>1, <2>3, <2>5 DEF Paced
  <2>8. Recalled'
    <3>1. CASE element = "straight"
      BY <3>1, <2>1, <2>2, NotIambic DEF Recalled, Owed
    <3>2. CASE element # "straight" BY <3>2, <2>1, <2>3, SampleRecalls DEF Sent, Loud
    <3> QED BY <3>1, <3>2
  <2> QED BY <2>6, <2>7, <2>8
<1>5. CASE Hold
  <2>1. pc = "hold" /\ pc' = pc /\ Millisecond /\ UNCHANGED <<cw, element, delay, begunVars>>
    BY <1>5 DEF Hold, placeVars
  <2>2. last = "straight" BY <2>1 DEF Current, Sent, Loud
  <2>3. Current' BY <2>1 DEF Current, Sent, Loud
  <2>4. carrier' \in Nat BY <2>1 DEF Millisecond, Paced
  <2>5. Paced' BY <2>1, <2>4 DEF Paced
  <2>6. Recalled' BY <2>1, <2>2, NotIambic DEF Recalled, Owed
  <2> QED BY <2>3, <2>5, <2>6
<1> QED BY <1>1, <1>2, <1>3, <1>4, <1>5

(* The space between elements, and between letters.                        *)
LEMMA SpaceElements ==
  ASSUME ElementInv, NEW place \in {"space", "gap"}, SpaceSleep(place) \/ SpaceSample(place)
  PROVE  ElementInv'
<1> USE DEF ElementInv, At, settingVars, begunVars
<1>1. CASE SpaceSleep(place)
  <2>1. /\ pc = place /\ pc' = SamplePlace[place] /\ delay' \in Nat /\ Millisecond
        /\ UNCHANGED <<cw, element, begunVars, sampleVars>>
    <3>1. delay > 0 /\ Goto(SamplePlace[place], delay - 1) BY <1>1 DEF SpaceSleep
    <3>2. delay' \in Nat BY <3>1, Later DEF Paced
    <3> QED BY <1>1, <3>2 DEF SpaceSleep, Goto
  <2>2. pc' = IF place = "space" THEN "space_sample" ELSE "gap_sample"
    BY <2>1 DEF SamplePlace
  <2>3. carrier' \in Nat BY <2>1 DEF Millisecond, Paced
  <2>4. Current' BY <2>1, <2>2 DEF Current, Sent, Loud
  <2>5. Paced' BY <2>1, <2>2, <2>3 DEF Paced
  <2>6. Recalled'
    BY <2>1, <2>2 DEF Recalled, Owed, Sent, Loud, sampleVars
  <2> QED BY <2>4, <2>5, <2>6
<1>2. CASE SpaceSample(place)
  <2>1. /\ pc = SamplePlace[place] /\ pc' = place /\ delay' \in Nat
        /\ UNCHANGED <<cw, element, begunVars, carrier>>
        /\ cw_memory'[2] = Remembered
        /\ seen' = IF place = "space" THEN seen \union cw_input ELSE seen
    BY <1>2 DEF SpaceSample, Goto, Paced, timeVars
  <2>2. pc = IF place = "space" THEN "space_sample" ELSE "gap_sample"
    BY <2>1 DEF SamplePlace
  <2>3. Current' BY <2>1, <2>2 DEF Current, Sent, Loud
  <2>4. Paced' BY <2>1, <2>2 DEF Paced
  <2>5. CASE place = "space"
    <3>1. Recalled' BY <2>1, <2>2, <2>5, SampleRecalls DEF Sent, Loud
    <3> QED BY <2>3, <2>4, <3>1
  <2>6. CASE place = "gap"
    <3>1. Recalled' BY <2>1, <2>2, <2>6 DEF Recalled, Owed, Sent, Loud
    <3> QED BY <2>3, <2>4, <3>1
  <2> QED BY <2>5, <2>6
<1> QED BY <1>1, <1>2

-----------------------------------------------------------------------------
(* What is sent next.                                                      *)
LEMMA BeginElements ==
  ASSUME ElementInv, NEW code, NEW remembered, Begin(code, remembered),
         UNCHANGED <<cw, carrier>>
  PROVE  ElementInv'
<1>1. pc' = "on" /\ delay' = 0 /\ element' = code /\ last' = code /\ seen' = {}
  BY DEF Begin, Goto
<1>2. Current' BY <1>1 DEF Current
<1>3. Paced' BY <1>1 DEF ElementInv, Paced
<1>4. Recalled' BY <1>1 DEF Recalled, Owed
<1> QED BY <1>2, <1>3, <1>4 DEF ElementInv

LEMMA SampleElements ==
  ASSUME ElementInv, Poll \/ Idle \/ StraightKey \/ IambicKey \/ AfterBug
  PROVE  ElementInv'
<1> USE DEF ElementInv, At, settingVars, begunVars
<1>1. CASE StraightKey
  <2>1. CASE Dash \in cw_input
    BY <1>1, <2>1, BeginElements DEF StraightKey, timeVars
  <2>2. CASE Dash \notin cw_input
    BY <1>1, <2>2, BeginElements DEF StraightKey, timeVars
  <2> QED BY <2>1, <2>2
<1>2. CASE Poll \/ Idle \/ IambicKey \/ AfterBug
  <2>1. /\ pc' \in {"sample", "loop", "element"} /\ delay' = 0
        /\ UNCHANGED <<cw, begunVars>>
        /\ Millisecond \/ UNCHANGED carrier
        /\ pc' = "element" => seen' = {}
    BY <1>2 DEF Poll, Idle, IambicKey, AfterBug, Goto, timeVars
  <2>2. Current' BY <2>1 DEF Current, Sent, Loud
  <2>3. carrier' \in Nat BY <2>1 DEF Millisecond, Paced
  <2>4. Paced' BY <2>1, <2>3 DEF Paced
  <2>5. Recalled' BY <2>1 DEF Recalled, Owed, Sent, Loud
  <2> QED BY <2>2, <2>4, <2>5
<1> QED BY <1>1, <1>2

(* Continue goes to the other element, with what it has remembered; what   *)
(* is owed is remembered, and is the other element.                        *)
LEMMA ContinueElements ==
  ASSUME ElementInv, NEW remembered, Continue(remembered),
         Owed => Other(last) \in remembered /\ element = last
  PROVE  ElementInv' /\ (Owed => pc' = "element")
<1> USE DEF ElementInv, settingVars, begunVars, timeVars
<1>1. /\ UNCHANGED <<cw, begunVars, seen, carrier>> /\ cw_memory'[2] = remembered
      /\ \/ remembered # {} /\ element' = Other(element) /\ pc' = "element"
         \/ remembered = {} /\ pc' \in {"gap", "loop"}
      /\ delay' \in Nat
  BY KeyerAssumption DEF KeyerAssumption, Continue, Goto
<1>2. Owed' <=> Owed BY <1>1 DEF Owed
<1>3. Owed => pc' = "element" /\ element' = Other(last) BY <1>1
<1>4. Current' BY <1>1 DEF Current, Sent, Loud
<1>5. Paced' BY <1>1 DEF Paced
<1>6. Recalled' BY <1>1, <1>2, <1>3 DEF Recalled, Sent, Loud
<1> QED BY <1>3, <1>4, <1>5, <1>6

(* What is owed has its element begun, or is where its element is begun.   *)
LEMMA NextElements ==
  ASSUME ElementInv, Element \/ NotElement \/ AfterElement \/ AfterGap
  PROVE  /\ ElementInv'
         /\ Owed /\ pc \in {"space", "element"} =>
              \/ pc' = "on" /\ element' = Other(last)
              \/ pc' = "element"
<1> USE DEF ElementInv, At, settingVars, begunVars
<1>1. CASE Element
  <2>1. ElementInv' BY <1>1, BeginElements DEF Element, timeVars
  <2>2. pc = "element" /\ pc' = "on" /\ element' = element BY <1>1 DEF Element, Begin, Goto
  <2>3. Owed => element = Other(last) BY <2>2 DEF Recalled
  <2> QED BY <2>1, <2>2, <2>3
<1>2. CASE NotElement
  <2>1. pc = "element" /\ element \notin cw_memory[2] /\ Continue(cw_memory[2])
    BY <1>2 DEF NotElement
  <2>2. ~Owed BY <2>1 DEF Recalled
  <2> QED BY <2>1, <2>2, ContinueElements
<1>3. CASE AfterElement
  <2>1. /\ pc = "space" /\ element \in Iambic
        /\ Continue((cw_memory[2] \ {element}) \union cw_memory[1])
    BY <1>3 DEF AfterElement
  <2>2. element = last BY <2>1 DEF Current, Sent
  <2>3. Owed => Other(last) \in cw_memory[2] BY <2>1 DEF Recalled, Sent
  <2>4. Other(last) # last BY <2>1, <2>2, Paddle
  <2>5. Owed => Other(last) \in (cw_memory[2] \ {element}) \union cw_memory[1]
    BY <2>2, <2>3, <2>4
  <2> QED BY <2>1, <2>2, <2>5, ContinueElements
<1>4. CASE AfterGap
  <2>1. /\ pc = "gap" /\ pc' \in {"element", "loop"} /\ delay' = 0
        /\ UNCHANGED <<cw, element, begunVars, sampleVars, carrier>>
    BY <1>4 DEF AfterGap, Goto, timeVars
  <2>2. ~Owed BY <2>1 DEF Recalled
  <2>3. ~Owed' BY <2>1, <2>2 DEF Owed, sampleVars
  <2>4. Current' BY <2>1 DEF Current, Sent, Loud
  <2>5. Paced' BY <2>1 DEF Paced
  <2>6. Recalled' BY <2>3 DEF Recalled
  <2> QED BY <2>1, <2>4, <2>5, <2>6
<1> QED BY <1>1, <1>2, <1>3, <1>4

LEMMA OthersElements ==
  ASSUME ElementInv,
         \/ \E k \in SUBSET Iambic : Paddles(k)
         \/ \E s \in Settings : SetKeyer(s)
         \/ Write \/ UNCHANGED vars
  PROVE  ElementInv'
<1>1. /\ UNCHANGED <<placeVars, sampleVars, carrier, last>>
      /\ UNCHANGED <<cw, steady>> \/ steady' = FALSE
  BY DEF Paddles, SetKeyer, Write, vars, settingVars, timeVars, begunVars
<1> QED BY <1>1, QuietElements

LEMMA ElementsKept == Inv /\ ElementInv /\ [Next]_vars => ElementInv'
<1> SUFFICES ASSUME Inv, ElementInv, [Next]_vars PROVE ElementInv'
  OBVIOUS
<1>1. CASE \/ \E k \in SUBSET Iambic : Paddles(k)
           \/ \E s \in Settings : SetKeyer(s)
           \/ Write \/ UNCHANGED vars
  BY <1>1, OthersElements
<1>2. CASE \/ Wait("ramp", RememberedHere) \/ Wait("fall", Remembered) \/ BugSleep \/ Signal
  BY <1>2, ElementWaits
<1>3. CASE cw_on \/ RfOn \/ cw_off \/ RfOff \/ Hold
  BY <1>3, CarrierElements
<1>4. CASE \E place \in {"space", "gap"} : SpaceSleep(place) \/ SpaceSample(place)
  BY <1>4, SpaceElements
<1>5. CASE Poll \/ Idle \/ StraightKey \/ IambicKey \/ AfterBug
  BY <1>5, SampleElements
<1>6. CASE Element \/ NotElement \/ AfterElement \/ AfterGap
  BY <1>6, NextElements
<1> QED BY <1>1, <1>2, <1>3, <1>4, <1>5, <1>6 DEF Next, handler_keyer

-----------------------------------------------------------------------------
(* The carrier goes in one step only, when nothing is left of it.          *)
LEMMA CarrierGoes ==
  ASSUME ElementInv, [Next]_vars, "rf" \in tx_rst, "rf" \notin tx_rst'
  PROVE  pc = "fall" /\ delay = 0
<1>1. ~UNCHANGED tx_rst OBVIOUS
<1>2. RfOff \/ Write \/ cw_off \/ RfOn
  BY <1>1 DEF Next, handler_keyer, Paddles, SetKeyer, cw_on, Wait, Hold, BugSleep, Signal,
       SpaceSleep, SpaceSample, Poll, Idle, StraightKey, IambicKey, Element, NotElement, Continue,
       AfterElement, AfterBug, AfterGap, lineVars, vars
<1>3. ~Write BY DEF Write
<1>4. ~cw_off /\ ~RfOn BY DEF cw_off, RfOn
<1> QED BY <1>2, <1>3, <1>4 DEF RfOff, At

(* A dot and a dash last as long as they should, whatever the settings'    *)
(* delays and the lengths are, as long as main() leaves the settings alone *)
(* meanwhile and the delay is no longer than a dot and no longer than the  *)
(* element.                                                                *)
THEOREM KeepsLength == Spec => ElementLength
<1>1. Init => Inv /\ ElementInv BY StartsInv, StartsElements
<1>2. Inv /\ ElementInv /\ [Next]_vars => Inv' /\ ElementInv'
  BY AllSteps, ElementsKept DEF Steps
<1>3. ASSUME ElementInv, [Next]_vars,
             "rf" \in tx_rst, "rf" \notin tx_rst', last # "straight", steady, DelayFits
      PROVE  carrier = Length(last)
  <2>1. pc = "fall" /\ delay = 0 BY <1>3, CarrierGoes
  <2>2. carrier + delay = Length(last) BY <2>1, <1>3 DEF ElementInv, Paced
  <2>3. carrier \in Nat BY <1>3 DEF ElementInv, Paced
  <2> QED BY <2>1, <2>2, <2>3, Lengths
<1>4. ElementInv /\ [Next]_vars =>
        [/\ "rf" \in tx_rst /\ "rf" \notin tx_rst' /\ last # "straight"
         /\ steady /\ DelayFits
         => carrier = Length(last)]_vars
  BY <1>3
<1> QED BY <1>1, <1>2, <1>4, PTL DEF Spec, ElementLength

(* The place after a space or a letter's element.                          *)
LEMMA Decides ==
  ASSUME ElementInv, [Next]_vars, pc \in {"space", "element"}, pc' \in {"on", "loop", "gap"},
         Owed
  PROVE  pc' = "on" /\ element' = Other(last)
<1>1. Element \/ NotElement \/ AfterElement \/ AfterGap \/ AfterBug
  <2>1. ~UNCHANGED pc OBVIOUS
  <2>2. ~((\E k \in SUBSET Iambic : Paddles(k)) \/ (\E s \in Settings : SetKeyer(s))
          \/ Write \/ Hold \/ UNCHANGED vars)
    BY <2>1 DEF Paddles, SetKeyer, Write, Hold, vars, placeVars
  <2>3. ~(cw_on \/ Wait("ramp", RememberedHere) \/ RfOn \/ BugSleep \/ Signal)
    BY DEF cw_on, Wait, RfOn, BugSleep, Signal, At
  <2>4. ~(cw_off \/ Wait("fall", Remembered) \/ RfOff)
    BY DEF cw_off, SignalDone, Wait, RfOff, At
  <2>5. ASSUME NEW place \in {"space", "gap"} PROVE ~(SpaceSleep(place) \/ SpaceSample(place))
    BY DEF SpaceSleep, SpaceSample, SamplePlace, At, Goto
  <2>6. ~(Poll \/ Idle \/ StraightKey \/ IambicKey)
    BY DEF Poll, Idle, StraightKey, IambicKey, At
  <2> QED BY <2>2, <2>3, <2>4, <2>5, <2>6 DEF Next, handler_keyer
<1>2. ~AfterBug
  <2>1. ASSUME AfterBug PROVE FALSE
    <3>1. element = "bug" /\ element = last
      BY <2>1 DEF AfterBug, At, ElementInv, Current, Sent
    <3> QED BY <3>1, NotIambic DEF Owed
  <2> QED BY <2>1
<1> QED BY <1>1, <1>2, NextElements

(* A paddle seen while the other one's element was sent has its own next,  *)
(* whatever the operator and main() do: in the modes that do not forget,   *)
(* as long as main() leaves the settings alone.                            *)
THEOREM ForgetsNothing == Spec => NothingForgotten
<1>1. Init => Inv /\ ElementInv BY StartsInv, StartsElements
<1>2. Inv /\ ElementInv /\ [Next]_vars => Inv' /\ ElementInv'
  BY AllSteps, ElementsKept DEF Steps
<1>3. ElementInv /\ [Next]_vars =>
        [/\ last \in Iambic /\ Other(last) \in seen /\ steady /\ cw.mode > 1
         /\ pc \in {"space", "element"} /\ pc' \in {"on", "loop", "gap"}
         => pc' = "on" /\ element' = Other(last)]_vars
  BY Decides DEF Owed
<1> QED BY <1>1, <1>2, <1>3, PTL DEF Spec, NothingForgotten
=============================================================================
