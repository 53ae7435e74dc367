------------------------------ MODULE HpsdrKeyer ------------------------------
(***************************************************************************)
(* The keyer thread of                                                     *)
(* projects/sdr_transceiver_hpsdr/server/sdr-transceiver-hpsdr.c, which    *)
(* turns two paddles into dots and dashes.  main() changes its settings    *)
(* between any two of its steps.                                           *)
(***************************************************************************)
EXTENDS Integers, Sequences

CONSTANTS
  Settings,        \* settings the host sends
  DOT, DASH,       \* 1200 / cw_speed and 3600 * cw_weight / (50 * cw_speed)
  GAP,             \* 2400 / cw_speed
  DEFAULT_HANG,    \* milliseconds of pause when cw_hang is 0
  MAX_QUIET        \* bound of the history quiet

(* The bits 0 and 1 of the input, and what the thread sends for them.      *)
Dash == "dash"
Dot == "dot"
Iambic == {Dash, Dot}

Other(paddle) == IF paddle = Dot THEN Dash ELSE Dot

ASSUME KeyerAssumption ==
  /\ DOT \in Nat \ {0} /\ DASH \in Nat /\ GAP \in Nat
  /\ DEFAULT_HANG \in Nat \ {0} /\ MAX_QUIET \in Nat /\ MAX_QUIET >= DEFAULT_HANG
  /\ \A s \in Settings : s.hang \in 0 .. MAX_QUIET /\ s.delay \in Nat

VARIABLES
  key,                    \* the paddles the operator holds, bits 1 and 2 of gpio_in
  cw,                     \* the settings, as main() has set them last
  pc, delay,              \* place of the thread, and the milliseconds it still waits there
  writes,                 \* what cw_on and cw_ptt_off have still to write
  element,                \* what is sent: Dot or Dash (state), or "straight", or "bug"
  cw_memory,              \* the last sample, and what is remembered for the next element
  tx_rst, cw_ptt, tx_mux_data,
  cw_ptt_delay,
  quiet, hang, cleared,   \* history: see KeyedCarrier
  last, seen,             \* history: the element begun last, and what was sampled until its end
  carrier,                \* history: milliseconds of carrier of that element
  steady                  \* history: the settings are those it began with

settingVars == <<key, cw>>
placeVars == <<pc, delay, element>>
lineVars == <<tx_rst, cw_ptt, tx_mux_data, hang, cleared>>
timeVars == <<quiet, carrier>>
sampleVars == <<cw_memory, seen>>
begunVars == <<last, steady>>
vars == <<settingVars, placeVars, writes, sampleVars, lineVars, timeVars, cw_ptt_delay, begunVars>>

Carrier == INSTANCE KeyedCarrier WITH Hangs <- 1 .. MAX_QUIET

Init ==
  /\ key = {} /\ cw \in Settings
  /\ pc = "loop" /\ delay = 0 /\ element = Dot /\ writes = <<>>
  /\ cw_memory = <<{}, {}>> /\ seen = {}
  /\ tx_rst = {"fifo"} /\ cw_ptt = 0 /\ tx_mux_data = 0
  /\ hang = 0 /\ cleared = FALSE /\ quiet = 0 /\ carrier = 0
  /\ cw_ptt_delay = 0 /\ last = Dot /\ steady = FALSE

-----------------------------------------------------------------------------
(* The operator and main(). *)
Paddles(k) ==
  /\ key' = k /\ k # key
  /\ UNCHANGED <<cw, placeVars, writes, sampleVars, lineVars, timeVars, cw_ptt_delay, begunVars>>

SetKeyer(s) ==
  /\ cw' = s /\ s # cw /\ steady' = FALSE
  /\ UNCHANGED <<key, placeVars, writes, sampleVars, lineVars, timeVars, cw_ptt_delay, last>>

-----------------------------------------------------------------------------
cw_input ==
  IF ~cw.int THEN {} ELSE IF cw.reversed THEN {Other(b) : b \in key} ELSE key

Remembered == cw_memory[2] \union cw_input

(* The first iambic mode forgets when both paddles are released.           *)
RememberedHere == IF cw.mode = 1 /\ cw_input = {} THEN {} ELSE Remembered

Sample(remembered) ==
  cw_memory' = <<cw_input, remembered>> /\ seen' = seen \union cw_input

(* usleep(1000), and the wait of so many of them at a place.  The carrier  *)
(* is counted until it is longer than a dot and longer than a dash.        *)
Millisecond ==
  /\ quiet' = IF quiet < MAX_QUIET THEN quiet + 1 ELSE quiet
  /\ carrier' = IF "rf" \in tx_rst /\ (carrier <= DOT \/ carrier <= DASH)
                THEN carrier + 1 ELSE carrier

At(place) == pc = place /\ writes = <<>>

Goto(place, ms) == pc' = place /\ delay' = IF ms > 0 THEN ms ELSE 0

Ramp == IF cw.delay < DOT THEN cw.delay ELSE DOT

-----------------------------------------------------------------------------
(* The writes of cw_on and of cw_ptt_off: main() sees one after the other. *)
OnWrites == <<"ptt_on", "tell_ptt_on", "mux_on", "tell_mux_on", "sidetone_on">>

(* Bug: the FIFO is emptied when the host has the transmitter already. *)
OffWritesLate ==
  <<"ptt_off", "tell_ptt_off", "mux_off", "fifo_reset", "fifo_on", "tell_mux_off">>

OffWrites ==
  <<"ptt_off", "tell_ptt_off", "fifo_reset", "fifo_on", "mux_off", "tell_mux_off">>

Write ==
  LET w == Head(writes) IN
  /\ writes # <<>> /\ writes' = Tail(writes)
  /\ tx_rst' = CASE w = "ptt_on"     -> tx_rst \union {"ptt"}
                 [] w = "mux_on"     -> tx_rst \union {"mux"}
                 [] w = "sidetone_on" /\ cw.sidetone -> tx_rst \union {"sidetone"}
                 [] w = "ptt_off"    -> tx_rst \ {"ptt"}
                 [] w = "fifo_reset" -> tx_rst \ {"fifo"}
                 [] w = "fifo_on"    -> tx_rst \union {"fifo"}
                 [] w = "mux_off"    -> tx_rst \ {"mux"}
                 [] OTHER            -> tx_rst
  /\ cw_ptt' = CASE w = "tell_ptt_on" -> 1 [] w = "tell_ptt_off" -> 0 [] OTHER -> cw_ptt
  /\ tx_mux_data' = CASE w = "tell_mux_on" -> 1 [] w = "tell_mux_off" -> 0
                      [] OTHER -> tx_mux_data
  /\ cleared' = CASE w = "fifo_on" -> TRUE [] w = "mux_on" -> FALSE [] OTHER -> cleared
  /\ UNCHANGED <<settingVars, placeVars, sampleVars, timeVars, hang, cw_ptt_delay, begunVars>>

(* cw_on: the change to transmission, a delay, and the carrier; by then it *)
(* is known how long that stays.                                           *)
cw_on ==
  /\ At("on") /\ writes' = OnWrites /\ Goto("ramp", Ramp)
  /\ UNCHANGED <<settingVars, element, sampleVars, lineVars, timeVars, cw_ptt_delay, begunVars>>

Wait(place, remembered) ==
  /\ At(place) /\ delay > 0 /\ Goto(place, delay - 1)
  /\ Sample(remembered) /\ Millisecond
  /\ UNCHANGED <<settingVars, element, writes, lineVars, cw_ptt_delay, begunVars>>

Length(code) == IF code = Dash THEN DASH ELSE DOT

(* Bug: the ramp comes on top of the length. *)
RfOnFull ==
  /\ At("ramp") /\ delay = 0
  /\ tx_rst' = tx_rst \union {"rf"} /\ carrier' = 0
  /\ IF element = "straight" THEN Goto("hold", 0) ELSE Goto("signal", Length(element))
  /\ UNCHANGED <<settingVars, element, writes, sampleVars, cw_ptt, tx_mux_data, hang, cleared,
                 quiet, cw_ptt_delay, begunVars>>

RfOn ==
  /\ At("ramp") /\ delay = 0
  /\ tx_rst' = tx_rst \union {"rf"} /\ carrier' = 0
  /\ IF element = "straight" THEN Goto("hold", 0)
     ELSE Goto("signal", Length(element) - cw.delay)
  /\ UNCHANGED <<settingVars, element, writes, sampleVars, cw_ptt, tx_mux_data, hang, cleared,
                 quiet, cw_ptt_delay, begunVars>>

(* While the carrier is there: a straight key is sampled for its release,  *)
(* the dot of a bug is not sampled at all.                                 *)
Hold ==
  /\ At("hold") /\ Dash \in cw_memory[1]
  /\ Sample(cw_memory[2]) /\ Millisecond
  /\ UNCHANGED <<settingVars, placeVars, writes, lineVars, cw_ptt_delay, begunVars>>

BugSleep ==
  /\ At("signal") /\ delay > 0 /\ element = "bug" /\ Goto("signal", delay - 1) /\ Millisecond
  /\ UNCHANGED <<settingVars, element, writes, sampleVars, lineVars, cw_ptt_delay, begunVars>>

Signal == element \in Iambic /\ Wait("signal", RememberedHere)

(* cw_off. *)
SignalDone ==
  \/ At("signal") /\ delay = 0
  \/ At("hold") /\ Dash \notin cw_memory[1]

cw_off ==
  /\ SignalDone /\ tx_rst' = tx_rst \ {"sidetone"} /\ Goto("fall", Ramp)
  /\ UNCHANGED <<settingVars, element, writes, sampleVars, cw_ptt, tx_mux_data, hang, cleared,
                 timeVars, cw_ptt_delay, begunVars>>

Hang == IF cw.hang > 0 THEN cw.hang ELSE DEFAULT_HANG

RfOff ==
  /\ At("fall") /\ delay = 0 /\ tx_rst' = tx_rst \ {"rf"}
  /\ cw_ptt_delay' = Hang /\ hang' = Hang /\ quiet' = 0
  /\ IF element = "straight" THEN Goto("loop", 0) ELSE Goto("space", DOT - cw.delay)
  /\ UNCHANGED <<settingVars, element, writes, sampleVars, cw_ptt, tx_mux_data, cleared,
                 carrier, begunVars>>

(* if(cw_ptt) cw_ptt_off(); *)
cw_ptt_off ==
  IF cw_ptt = 1
  THEN /\ cw_ptt_delay' = cw_ptt_delay - 1
       /\ writes' = IF cw_ptt_delay - 1 > 0 THEN <<>> ELSE OffWrites
  ELSE UNCHANGED <<cw_ptt_delay, writes>>

(* cw_space_delay, of both kinds. *)
SamplePlace == [space |-> "space_sample", gap |-> "gap_sample"]

SpaceSleep(place) ==
  /\ At(place) /\ delay > 0
  /\ Millisecond /\ cw_ptt_off /\ Goto(SamplePlace[place], delay - 1)
  /\ UNCHANGED <<settingVars, element, sampleVars, lineVars, begunVars>>

SpaceSample(place) ==
  /\ At(SamplePlace[place]) /\ Goto(place, delay)
  /\ cw_memory' = <<cw_input, Remembered>>
  /\ seen' = IF place = "space" THEN seen \union cw_input ELSE seen
  /\ UNCHANGED <<settingVars, element, writes, lineVars, timeVars, cw_ptt_delay, begunVars>>

-----------------------------------------------------------------------------
(* Bug: the pause is counted between elements only. *)
PollOnly ==
  /\ At("loop") /\ Millisecond /\ Goto("sample", 0)
  /\ UNCHANGED <<settingVars, element, writes, sampleVars, lineVars, cw_ptt_delay, begunVars>>

(* handler_keyer. *)
Poll ==
  /\ At("loop") /\ Millisecond /\ cw_ptt_off /\ Goto("sample", 0)
  /\ UNCHANGED <<settingVars, element, sampleVars, lineVars, begunVars>>

Begin(code, remembered) ==
  /\ Goto("on", 0) /\ element' = code
  /\ cw_memory' = <<IF pc = "sample" THEN cw_input ELSE cw_memory[1], remembered>>
  /\ last' = code /\ seen' = {} /\ steady' = TRUE

Idle ==
  /\ At("sample") /\ cw_input = {} /\ Goto("loop", 0) /\ Sample(cw_memory[2])
  /\ UNCHANGED <<settingVars, element, writes, lineVars, timeVars, cw_ptt_delay, begunVars>>

StraightKey ==
  /\ At("sample") /\ cw_input # {} /\ cw.mode = 0
  /\ Begin(IF Dash \in cw_input THEN "straight" ELSE "bug", cw_memory[2])
  /\ UNCHANGED <<settingVars, writes, lineVars, timeVars, cw_ptt_delay>>

IambicKey ==
  /\ At("sample") /\ cw_input # {} /\ cw.mode # 0
  /\ Goto("element", 0) /\ element' = Dot
  /\ cw_memory' = <<cw_input, cw_input>> /\ seen' = {}
  /\ UNCHANGED <<settingVars, writes, lineVars, timeVars, cw_ptt_delay, begunVars>>

Element ==
  /\ At("element") /\ element \in cw_memory[2] /\ Begin(element, {})
  /\ UNCHANGED <<settingVars, writes, lineVars, timeVars, cw_ptt_delay>>

(* What follows an element that is not asked for, or that has been sent.   *)
Continue(remembered) ==
  /\ cw_memory' = <<cw_memory[1], remembered>>
  /\ \/ remembered # {} /\ element' = Other(element) /\ Goto("element", 0)
     \/ remembered = {} /\ cw.spacing /\ element' = Dot /\ Goto("gap", GAP)
     \/ remembered = {} /\ ~cw.spacing /\ Goto("loop", 0) /\ UNCHANGED element
  /\ UNCHANGED <<settingVars, writes, seen, lineVars, timeVars, cw_ptt_delay, begunVars>>

NotElement == At("element") /\ element \notin cw_memory[2] /\ Continue(cw_memory[2])

(* Bug: only a paddle that is held still is asked for. *)
AfterElementHeld ==
  /\ At("space") /\ delay = 0 /\ element \in Iambic /\ Continue(cw_memory[1])

AfterElement ==
  /\ At("space") /\ delay = 0 /\ element \in Iambic
  /\ Continue((cw_memory[2] \ {element}) \union cw_memory[1])

AfterBug ==
  /\ At("space") /\ delay = 0 /\ element = "bug" /\ Goto("loop", 0)
  /\ UNCHANGED <<settingVars, element, writes, sampleVars, lineVars, timeVars, cw_ptt_delay,
                 begunVars>>

AfterGap ==
  /\ At("gap") /\ delay = 0 /\ Goto(IF cw_memory[2] # {} THEN "element" ELSE "loop", 0)
  /\ UNCHANGED <<settingVars, element, writes, sampleVars, lineVars, timeVars, cw_ptt_delay,
                 begunVars>>

handler_keyer ==
  \/ Write
  \/ cw_on \/ Wait("ramp", RememberedHere) \/ RfOn
  \/ Hold \/ BugSleep \/ Signal
  \/ cw_off \/ Wait("fall", Remembered) \/ RfOff
  \/ \E place \in {"space", "gap"} : SpaceSleep(place) \/ SpaceSample(place)
  \/ Poll \/ Idle \/ StraightKey \/ IambicKey
  \/ Element \/ NotElement \/ AfterElement \/ AfterBug \/ AfterGap

Next ==
  \/ \E k \in SUBSET Iambic : Paddles(k)
  \/ \E s \in Settings : SetKeyer(s)
  \/ handler_keyer

(* The thread runs at the highest priority there is.                       *)
Spec == Init /\ [][Next]_vars /\ WF_vars(handler_keyer)

-----------------------------------------------------------------------------
(* Whatever the paddles and main() do, the thread keeps the order of a     *)
(* change to transmission and back: no carrier without push-to-talk, and   *)
(* no change back before its pause is over and the FIFO is empty.          *)
ImplementsCarrier == Carrier!Spec

(* A paddle that was seen while the other one's element was sent gets its  *)
(* element next, in the modes that do not forget.                          *)
NothingForgotten ==
  [][/\ last \in Iambic /\ Other(last) \in seen /\ steady /\ cw.mode > 1
     /\ pc \in {"space", "element"} /\ pc' \in {"on", "loop", "gap"}
     => pc' = "on" /\ element' = Other(last)]_vars

(* The delay is no longer than a dot, and no longer than the element: a    *)
(* weight below 17 makes a dash the shorter one.                           *)
DelayFits == cw.delay <= DOT /\ cw.delay <= Length(last)

(* A dot and a dash last as long as they should, whatever part of them the *)
(* ramps take.  (A delay longer than a dot makes dashes too short, one     *)
(* longer than a dash makes that one too long.)                            *)
ElementLength ==
  [][/\ "rf" \in tx_rst /\ "rf" \notin tx_rst' /\ last # "straight"
     /\ steady /\ DelayFits
     => carrier = Length(last)]_vars

(* With the paddles released for good, or the keyer switched off, the      *)
(* transmitter goes back to the host.  (Only when the settings stay: a     *)
(* delay that goes up and down in step with the elements leaves no place   *)
(* where the paddles are sampled.)                                         *)
KeyUpEndsTransmission ==
  \A s \in Settings :
    <>[](cw = s /\ cw_input = {}) =>
      <>[](tx_rst = {"fifo"} /\ cw_ptt = 0 /\ tx_mux_data = 0)
=============================================================================
