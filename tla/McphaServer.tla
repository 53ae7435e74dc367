------------------------------ MODULE McphaServer ------------------------------
(***************************************************************************)
(* projects/mcpha/server/mcpha-server.c: the loop that serves one client   *)
(* at a time, the pulser thread it starts and stops, and the FIFO of words *)
(* between that thread and the pulse generator.                            *)
(***************************************************************************)
EXTENDS Integers, Sequences

CONSTANTS
  Threads,        \* identities for the threads pthread_create makes
  BINS,           \* bins of a spectrum
  Counts,         \* values of a bin
  RAND_MAX,       \* rand() % RAND_MAX is what the pulser draws
  FIFO_LIMIT,     \* the pulser waits while the FIFO holds more words
  CREATE_FAILS    \* whether pthread_create may return an error

ASSUME McphaAssumption ==
  /\ BINS \in Nat \ {0} /\ RAND_MAX \in Nat \ {0} /\ FIFO_LIMIT \in Nat
  /\ Counts \subseteq Nat /\ 0 \in Counts
  /\ CREATE_FAILS \in BOOLEAN

VARIABLES
  pc,              \* where main() is
  after,           \* where it goes once the pulser is stopped
  code,            \* command code left in the receive buffer
  conn,            \* the client's end: "open", "closed", or "read" to its last byte
  keep_pulsing, enable_thread, active_thread,
  spectrum, hist, i,
  thread,          \* where each pulser thread is
  drawn,           \* amplitude each has drawn
  gen,             \* words in the FIFO of the generator
  pulse,           \* words the generator has taken last
  built            \* history: the spectrum behind hist

serverVars == <<pc, after, code, conn, keep_pulsing, spectrum, hist, i, built>>
pulserVars == <<thread, drawn>>
vars == <<serverVars, pulserVars, enable_thread, active_thread, gen, pulse>>

Bins == 0 .. BINS - 1
Spectra == [Bins -> Counts]

(* "register" stands for the commands 0-10, 13-19 and 21-26, which write   *)
(* registers and variables that neither this loop nor the order of events  *)
(* depends on, and "read" for 11, 12 and 20, which send a reply.           *)
Codes == {"register", "read", "reset_generator", "reset_spectrum",
          "spectrum_bin", "start", "stop"}

(* The data of a command: bits 32 and up name a bin, the lower 32 are a    *)
(* count, and as an int just those lower bits.                             *)
Data == [bin : Bins, count : Counts]

(* A word is a number; what it was written as is remembered with it.       *)
Word(kind, value) == [kind |-> kind, value |-> value]

(* The sum of the bins up to b. *)
Total(s, b) ==
  LET sum[k \in Bins] == IF k = 0 THEN s[0] ELSE sum[k - 1] + s[k] IN sum[b]

lower_bound(array, value) ==
  LET search[range \in (0 .. BINS) \X (0 .. BINS)] ==
        LET low == range[1]
            high == range[2]
            k == low + (high - low) \div 2
        IN IF low >= high THEN low
           ELSE IF value > array[k] THEN search[<<k + 1, high>>] ELSE search[<<low, k>>]
  IN search[<<0, BINS>>]

-----------------------------------------------------------------------------
Init ==
  /\ pc = "accept" /\ after = "accept"
  /\ code \in Codes                       \* an uninitialized local variable
  /\ conn = "read" /\ keep_pulsing = 0
  /\ enable_thread = 0 /\ active_thread = 0
  /\ spectrum = [b \in Bins |-> 0] /\ hist = [b \in Bins |-> 0] /\ i = 0
  /\ thread = [t \in Threads |-> "none"] /\ drawn = [t \in Threads |-> 0]
  /\ gen = <<>> /\ pulse = <<>> /\ built = spectrum

accept ==
  /\ pc = "accept" /\ pc' = "recv" /\ conn' = "open"
  /\ UNCHANGED <<after, code, keep_pulsing, spectrum, hist, i, built, pulserVars,
                 enable_thread, active_thread, gen, pulse>>

(* The client goes away, possibly while the server is busy.                *)
Hangup ==
  /\ conn = "open" /\ conn' = "closed"
  /\ UNCHANGED <<pc, after, code, keep_pulsing, spectrum, hist, i, built, pulserVars,
                 enable_thread, active_thread, gen, pulse>>

(* What stopping the pulser starts with; the wait and the reset follow.    *)
StopThen(next) == enable_thread' = 0 /\ pc' = "join" /\ after' = next

Serving == pc' = "recv" /\ UNCHANGED <<after, enable_thread>>

(* The generator leaves its reset with an empty FIFO and no pulse.         *)
ResetGenerator == gen' = <<>> /\ pulse' = <<>>
NoReset == UNCHANGED <<gen, pulse>>

NoData == UNCHANGED <<spectrum, keep_pulsing>>

(* The client's reading end may be gone, in which case send fails.         *)
Reply ==
  \/ Serving
  \/ conn # "open" /\ pc' = "close" /\ UNCHANGED <<after, enable_thread>>

Execute(c, data) ==
  /\ \/ c = "register" /\ Serving /\ NoData /\ NoReset
     \/ c = "read" /\ Reply /\ NoData /\ NoReset
     \/ c = "reset_generator" /\ Serving /\ NoData /\ ResetGenerator
     \/ /\ c = "reset_spectrum" /\ Serving /\ NoReset
        /\ spectrum' = [b \in Bins |-> 0] /\ UNCHANGED keep_pulsing
     \/ /\ c = "spectrum_bin" /\ Serving /\ NoReset
        /\ spectrum' = [spectrum EXCEPT ![data.bin] = data.count]
        /\ UNCHANGED keep_pulsing
     \/ /\ c = "start" /\ StopThen("build") /\ NoReset
        /\ keep_pulsing' = data.count /\ UNCHANGED spectrum
     \/ c = "stop" /\ StopThen("recv") /\ NoData /\ NoReset
  /\ UNCHANGED <<hist, i, built, pulserVars, active_thread>>

(* The clients never send command 3, which would cut a pair of words while *)
(* the pulser is at work; here it comes only when there is none.           *)
Receive(c, data) ==
  /\ pc = "recv" /\ conn # "read"
  /\ c = "reset_generator" => active_thread = 0
  /\ Execute(c, data)
  /\ code' = c /\ UNCHANGED conn

(* recv returns what had come of a command when the connection ended, and  *)
(* a positive count passes for the whole: the bytes above are old.         *)
ReceiveShort(data) ==
  /\ pc = "recv" /\ conn = "closed" /\ conn' = "read"
  /\ code = "reset_generator" => active_thread = 0
  /\ Execute(code, data)
  /\ UNCHANGED code

ReceiveNothing ==
  /\ pc = "recv" /\ conn # "open" /\ pc' = "close"
  /\ UNCHANGED <<after, code, conn, keep_pulsing, spectrum, hist, i, built, pulserVars,
                 enable_thread, active_thread, gen, pulse>>

(* Bug: the pulser survives every client.                                  *)
DisconnectOnly ==
  /\ pc = "close" /\ pc' = "accept" /\ conn' = "read"
  /\ UNCHANGED <<after, code, keep_pulsing, spectrum, hist, i, built, pulserVars,
                 enable_thread, active_thread, gen, pulse>>

Disconnect ==
  /\ pc = "close"
  /\ conn' = "read"
  /\ IF keep_pulsing # 0 THEN pc' = "accept" /\ UNCHANGED <<after, enable_thread>>
                         ELSE StopThen("accept")
  /\ UNCHANGED <<code, keep_pulsing, spectrum, hist, i, built, pulserVars,
                 active_thread, gen, pulse>>

JoinWhen(stopped) ==
  /\ pc = "join" /\ stopped
  /\ pc' = IF after = "build" /\ Total(spectrum, BINS - 1) < 1 THEN "recv" ELSE after
  /\ i' = 0
  /\ UNCHANGED <<after, code, conn, keep_pulsing, spectrum, hist, built, pulserVars,
                 enable_thread, active_thread>>

(* Bug: the pulses of the spectrum before stay in the FIFO.                *)
JoinKeepsFifo == JoinWhen(active_thread = 0) /\ NoReset

(* Bug: the wrong flag says that the pulser is gone.                       *)
JoinWrongFlag == JoinWhen(enable_thread = 0) /\ ResetGenerator

(* while(active_thread) usleep(1000), and what follows a start: nothing is *)
(* started from an empty spectrum.                                         *)
Join == JoinWhen(active_thread = 0) /\ ResetGenerator

(* The cumulative histogram, a bin at a time. *)
BuildBin ==
  /\ pc = "build"
  /\ hist' = [hist EXCEPT ![i] =
       (Total(spectrum, i) * RAND_MAX) \div Total(spectrum, BINS - 1) - 1]
  /\ built' = spectrum
  /\ IF i < BINS - 1 THEN i' = i + 1 /\ UNCHANGED pc ELSE pc' = "create" /\ UNCHANGED i
  /\ UNCHANGED <<after, code, conn, keep_pulsing, spectrum, pulserVars,
                 enable_thread, active_thread, gen, pulse>>

(* pthread_create returns a positive number when it fails, which passes    *)
(* for success.                                                            *)
Create ==
  /\ pc = "create" /\ pc' = "recv"
  /\ enable_thread' = 1 /\ active_thread' = 1
  /\ \/ \E t \in Threads : thread[t] = "none" /\ thread' = [thread EXCEPT ![t] = "zero"]
     \/ CREATE_FAILS /\ UNCHANGED thread
  /\ UNCHANGED <<after, code, conn, keep_pulsing, spectrum, hist, i, built, drawn, gen, pulse>>

-----------------------------------------------------------------------------
(* pulser_handler, a step for each access to what it shares.               *)
Goes(t, from, to) == thread[t] = from /\ thread' = [thread EXCEPT ![t] = to]

Writes(word) == gen' = Append(gen, word) /\ UNCHANGED <<drawn, active_thread, pulse>>

Lead(t) ==
  \/ Goes(t, "zero", "lead") /\ Writes(Word("lead", 0))
  \/ Goes(t, "lead", "test") /\ Writes(Word("interval", 0))

(* Bug: a pulser that is told to stop just goes. *)
TestOnly(t) ==
  \/ enable_thread # 0 /\ Goes(t, "test", "wait") /\ UNCHANGED <<drawn, active_thread, gen, pulse>>
  \/ enable_thread = 0 /\ Goes(t, "test", "none") /\ UNCHANGED <<drawn, active_thread, gen, pulse>>

Test(t) ==
  \/ enable_thread # 0 /\ Goes(t, "test", "wait") /\ UNCHANGED <<drawn, active_thread, gen, pulse>>
  \/ /\ enable_thread = 0 /\ Goes(t, "test", "none")
     /\ active_thread' = 0 /\ UNCHANGED <<drawn, gen, pulse>>

(* Bug: the FIFO is taken to have room. *)
DrawNoWait(t) ==
  /\ Goes(t, "wait", "amplitude")
  /\ \E value \in 0 .. RAND_MAX - 1 : drawn' = [drawn EXCEPT ![t] = lower_bound(hist, value)]
  /\ UNCHANGED <<active_thread, gen, pulse>>

Draw(t) ==
  /\ Len(gen) <= FIFO_LIMIT
  /\ Goes(t, "wait", "amplitude")
  /\ \E value \in 0 .. RAND_MAX - 1 : drawn' = [drawn EXCEPT ![t] = lower_bound(hist, value)]
  /\ UNCHANGED <<active_thread, gen, pulse>>

WritePair(t) ==
  \/ Goes(t, "amplitude", "interval") /\ Writes(Word("amplitude", drawn[t]))
  \/ Goes(t, "interval", "test") /\ Writes(Word("interval", 0))

pulser_handler(t) ==
  /\ Lead(t) \/ Test(t) \/ Draw(t) \/ WritePair(t)
  /\ UNCHANGED <<serverVars, enable_thread>>

(* The generator takes two words at a time, as soon as the interval of the *)
(* pulse before is over.                                                   *)
TakePulse ==
  /\ Len(gen) >= 2
  /\ pulse' = <<gen[1], gen[2]>> /\ gen' = SubSeq(gen, 3, Len(gen))
  /\ UNCHANGED <<serverVars, pulserVars, enable_thread, active_thread>>

(* What the server does by itself, once it has a command or lost its client. *)
Work == Disconnect \/ Join \/ BuildBin \/ Create

Client ==
  \/ accept \/ Hangup \/ ReceiveNothing
  \/ \E c \in Codes, data \in Data : Receive(c, data)
  \/ \E data \in Data : ReceiveShort(data)

Next == Client \/ Work \/ TakePulse \/ \E t \in Threads : pulser_handler(t)

(* Nothing is assumed of clients; threads are scheduled and the generator  *)
(* goes on taking pulses.                                                  *)
Spec ==
  /\ Init /\ [][Next]_vars
  /\ WF_vars(Work) /\ WF_vars(TakePulse)
  /\ \A t \in Threads : WF_vars(pulser_handler(t))

-----------------------------------------------------------------------------
Words == [kind : {"lead", "amplitude", "interval"}, value : 0 .. BINS]

(* Types, and the room the pulser's own limit leaves: a pair beyond it,    *)
(* and the pair every thread starts with.                                  *)
TypeInvariant ==
  /\ pc \in {"accept", "recv", "close", "join", "build", "create"}
  /\ after \in {"accept", "recv", "build"}
  /\ code \in Codes /\ conn \in {"open", "closed", "read"} /\ keep_pulsing \in Counts
  /\ enable_thread \in {0, 1} /\ active_thread \in {0, 1}
  /\ spectrum \in Spectra /\ built \in Spectra /\ i \in Bins
  /\ hist \in [Bins -> -1 .. RAND_MAX]
  /\ thread \in [Threads -> {"none", "zero", "lead", "test", "wait", "amplitude", "interval"}]
  /\ drawn \in [Threads -> 0 .. BINS]
  /\ gen \in Seq(Words) /\ Len(gen) <= FIFO_LIMIT + 2
  /\ pulse = <<>> \/ pulse \in Words \X Words

(* Every amplitude in the FIFO or just taken from it is a bin that is not  *)
(* empty in the spectrum the client started the pulser with, across every  *)
(* restart with another spectrum: no pulse is drawn from a histogram that  *)
(* is half rebuilt, and none of the time before survives the reset.  And   *)
(* the generator never takes an interval for an amplitude, however often   *)
(* the pulser is stopped between two words.                                *)
PulsesFollowSpectrum ==
  LET Sound(word) ==
        word.kind = "amplitude" => word.value \in Bins /\ built[word.value] > 0
  IN /\ \A k \in 1 .. Len(gen) : Sound(gen[k])
     /\ \A k \in 1 .. Len(pulse) : Sound(pulse[k])
     /\ pulse # <<>> => pulse[1].kind # "interval" /\ pulse[2].kind = "interval"

(* A pulser is at work without a client only if the last start asked to    *)
(* keep it: one that lost its client in the middle of a restart, or was    *)
(* started by half a command, is stopped before the next client is served. *)
UnattendedIsKept ==
  pc = "accept" /\ (\E t \in Threads : thread[t] # "none") => keep_pulsing # 0

(* The pulser is a thread of the kind JoinedWorker describes, and what it  *)
(* reads while it runs is the histogram.                                   *)
Alive == \E t \in Threads : thread[t] # "none"

Worker == INSTANCE JoinedWorker WITH
  phase <- IF ~Alive THEN "idle" ELSE IF enable_thread = 1 THEN "running" ELSE "stopping",
  settings <- hist

ImplementsWorker == Worker!Spec

(* A stop, a restart and a disconnect never leave the server waiting for   *)
(* its pulser: it comes back to its client, or to the next one.            *)
StopCompletes == pc = "join" ~> pc \in {"recv", "accept"}
=============================================================================
