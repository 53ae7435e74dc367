----------------------------- MODULE SdrTransceiver -----------------------------
(***************************************************************************)
(* projects/sdr_transceiver/server/sdr-transceiver.c: clients connect, say *)
(* which of four slots they want (control and data of the receiver and of  *)
(* the transmitter), and are served by a thread each.                      *)
(***************************************************************************)
EXTENDS Integers, Sequences, FiniteSets

CONSTANTS
  Clients, NoClient,
  Threads,         \* numbers for the threads pthread_create makes
  Fds,             \* file descriptors, from 0 up
  Rates,           \* settings a client may ask for besides the default
  DEFAULT,         \* the setting a control thread starts and ends with
  BLOCK,           \* samples moved between socket and FIFO at a time
  PREFILL,         \* zeros that start an empty transmitter FIFO
  RX_FULL,         \* samples the receiver FIFO holds
  TX_DEPTH         \* samples the transmitter FIFO holds

ASSUME TransceiverAssumption ==
  /\ NoClient \notin Clients /\ Fds \subseteq Nat
  /\ BLOCK \in Nat \ {0} /\ PREFILL \in 1 .. BLOCK
  /\ RX_FULL \in Nat /\ RX_FULL >= BLOCK /\ TX_DEPTH \in Nat /\ TX_DEPTH >= 2 * BLOCK

Slots == 0 .. 3
RX_CTRL == 0
RX_DATA == 1
TX_CTRL == 2
TX_DATA == 3

VARIABLES
  client,         \* each client's end: "away", "queued", "open" or "gone"
  queue,          \* connections that wait for accept
  owner,          \* the client at the other end of a descriptor
  sock_client,    \* the descriptor main() has accepted and not handed on, or -1
  sock_thread,    \* the descriptor in each slot, or -1
  thread,         \* slot, place and descriptor of each thread
  tuning,         \* frequency and rate of receiver and transmitter
  gpio,           \* the push-to-talk pin
  rx_cntr, tx_cntr,
  asked           \* history: what each client asks for on its connection

netVars == <<client, queue, owner, sock_client, sock_thread>>
registerVars == <<tuning, gpio, asked>>
fifoVars == <<rx_cntr, tx_cntr>>
vars == <<netVars, thread, registerVars, fifoVars>>

Free == [slot |-> -1, pc |-> "none", sock |-> -1]

Init ==
  /\ client = [c \in Clients |-> "away"] /\ queue = <<>>
  /\ owner = [f \in Fds |-> NoClient]
  /\ sock_client = -1 /\ sock_thread = [k \in Slots |-> -1]
  /\ thread = [t \in Threads |-> Free]
  /\ tuning = [k \in {RX_CTRL, TX_CTRL} |-> DEFAULT] /\ gpio = 0
  /\ rx_cntr = 0 /\ tx_cntr = 0
  /\ asked = [c \in Clients |-> DEFAULT]

-----------------------------------------------------------------------------
Connect(c) ==
  /\ client[c] = "away"
  /\ client' = [client EXCEPT ![c] = "queued"] /\ queue' = Append(queue, c)
  /\ UNCHANGED <<owner, sock_client, sock_thread, thread, registerVars, fifoVars>>

Leave(c) ==
  /\ client[c] = "open" /\ client' = [client EXCEPT ![c] = "gone"]
  /\ UNCHANGED <<queue, owner, sock_client, sock_thread, thread, registerVars, fifoVars>>

(* close(): the client notices, and may come back. *)
CloseSock(f) ==
  /\ owner' = [owner EXCEPT ![f] = NoClient]
  /\ client' = [c \in Clients |-> IF c = owner[f] THEN "away" ELSE client[c]]
  /\ asked' = [c \in Clients |-> IF c = owner[f] THEN DEFAULT ELSE asked[c]]

(* accept() hands out the lowest descriptor that is not in use. *)
accept ==
  /\ sock_client = -1 /\ queue # <<>>
  /\ \E f \in Fds :
       /\ owner[f] = NoClient /\ \A g \in Fds : owner[g] = NoClient => f <= g
       /\ sock_client' = f /\ owner' = [owner EXCEPT ![f] = Head(queue)]
  /\ client' = [client EXCEPT ![Head(queue)] = "open"] /\ queue' = Tail(queue)
  /\ UNCHANGED <<sock_thread, thread, registerVars, fifoVars>>

Refuse ==
  /\ CloseSock(sock_client) /\ sock_client' = -1
  /\ UNCHANGED <<queue, sock_thread, thread>>

CreateHandler(command) ==
  /\ sock_thread' = [sock_thread EXCEPT ![command] = sock_client]
  /\ \E t \in Threads :
       /\ thread[t] = Free /\ \A u \in Threads : thread[u] = Free => t <= u
       /\ thread' = [thread EXCEPT ![t] = [slot |-> command, pc |-> "start", sock |-> -1]]
  /\ sock_client' = -1
  /\ UNCHANGED <<client, queue, owner, asked>>

(* Bug: a second client takes a slot over. *)
GrantSlot(command) ==
  IF command > 3 THEN Refuse ELSE CreateHandler(command)

GiveSlot(command) ==
  IF command > 3 \/ sock_thread[command] > -1 THEN Refuse ELSE CreateHandler(command)

(* The four bytes that name a slot.  Of a client that goes away before it  *)
(* has sent them all, what came passes for the whole.                      *)
recv(command) ==
  /\ sock_client # -1 /\ GiveSlot(command)
  /\ UNCHANGED <<tuning, gpio, fifoVars>>

recv_failed ==
  /\ sock_client # -1 /\ client[owner[sock_client]] = "gone" /\ Refuse
  /\ UNCHANGED <<tuning, gpio, fifoVars>>

-----------------------------------------------------------------------------
(* What threads have in common. *)
Is(t, slots, pc) == thread[t].slot \in slots /\ thread[t].pc = pc

Goto(t, pc) == thread' = [thread EXCEPT ![t].pc = pc]

ClientOf(t) == owner[thread[t].sock]

Gone(t) == ClientOf(t) = NoClient \/ client[ClientOf(t)] = "gone"

ResetTuning(k) ==
  /\ tuning' = [tuning EXCEPT ![k] = DEFAULT]
  /\ gpio' = IF k = TX_CTRL THEN 0 ELSE gpio

(* rx_ctrl_handler and tx_ctrl_handler. *)
StartControl(t) ==
  /\ Is(t, {RX_CTRL, TX_CTRL}, "start")
  /\ thread' = [thread EXCEPT ![t].pc = "loop", ![t].sock = sock_thread[thread[t].slot]]
  /\ ResetTuning(thread[t].slot)
  /\ UNCHANGED <<netVars, asked, fifoVars>>

Tune(t, rate) ==
  /\ Is(t, {RX_CTRL, TX_CTRL}, "loop") /\ ClientOf(t) # NoClient
  /\ tuning' = [tuning EXCEPT ![thread[t].slot] = rate]
  /\ asked' = [asked EXCEPT ![ClientOf(t)] = rate]
  /\ UNCHANGED <<netVars, thread, gpio, fifoVars>>

PushToTalk(t, pin) ==
  /\ Is(t, {TX_CTRL}, "loop") /\ gpio' = pin
  /\ UNCHANGED <<netVars, thread, tuning, asked, fifoVars>>

EndControl(t) ==
  /\ Is(t, {RX_CTRL, TX_CTRL}, "loop") /\ Gone(t) /\ Goto(t, "restore")
  /\ UNCHANGED <<netVars, registerVars, fifoVars>>

(* Bug: the pin is left as it is when the client goes. *)
RestoreTuning(t) ==
  /\ Is(t, {RX_CTRL, TX_CTRL}, "restore") /\ Goto(t, "close")
  /\ tuning' = [tuning EXCEPT ![thread[t].slot] = DEFAULT]
  /\ UNCHANGED <<netVars, gpio, asked, fifoVars>>

Restore(t) ==
  /\ Is(t, {RX_CTRL, TX_CTRL}, "restore") /\ Goto(t, "close")
  /\ ResetTuning(thread[t].slot)
  /\ UNCHANGED <<netVars, asked, fifoVars>>

Close(t) ==
  /\ Is(t, Slots, "close") /\ Goto(t, "free") /\ CloseSock(thread[t].sock)
  /\ UNCHANGED <<queue, sock_client, sock_thread, tuning, gpio, fifoVars>>

(* Bug: a second close of a descriptor that may be another client's now.   *)
CloseAgain(t) ==
  /\ Is(t, Slots, "free")
  /\ sock_thread' = [sock_thread EXCEPT ![thread[t].slot] = -1]
  /\ thread' = [thread EXCEPT ![t] = Free] /\ CloseSock(thread[t].sock)
  /\ UNCHANGED <<queue, sock_client, tuning, gpio, fifoVars>>

(* Bug: the slot stays taken by a thread that is gone. *)
KeepSlot(t) ==
  /\ Is(t, Slots, "free") /\ thread' = [thread EXCEPT ![t] = Free]
  /\ UNCHANGED <<netVars, registerVars, fifoVars>>

FreeSlot(t) ==
  /\ Is(t, Slots, "free")
  /\ sock_thread' = [sock_thread EXCEPT ![thread[t].slot] = -1]
  /\ thread' = [thread EXCEPT ![t] = Free]
  /\ UNCHANGED <<client, queue, owner, sock_client, registerVars, fifoVars>>

-----------------------------------------------------------------------------
(* rx_data_handler and tx_data_handler, in steps that the FIFOs may be     *)
(* written and read between.                                               *)
StartData(t) ==
  /\ Is(t, {RX_DATA, TX_DATA}, "start")
  /\ thread' = [thread EXCEPT ![t].pc = "check", ![t].sock = sock_thread[thread[t].slot]]
  /\ IF thread[t].slot = RX_DATA THEN rx_cntr' = 0 /\ UNCHANGED tx_cntr
                                 ELSE tx_cntr' = 0 /\ UNCHANGED rx_cntr
  /\ UNCHANGED <<netVars, registerVars>>

RxCheck(t) ==
  /\ Is(t, {RX_DATA}, "check") /\ Goto(t, "wait")
  /\ rx_cntr' = IF rx_cntr >= RX_FULL THEN 0 ELSE rx_cntr
  /\ UNCHANGED <<netVars, registerVars, tx_cntr>>

RxWait(t) ==
  /\ Is(t, {RX_DATA}, "wait") /\ rx_cntr >= BLOCK /\ Goto(t, "copy")
  /\ UNCHANGED <<netVars, registerVars, fifoVars>>

(* Reading an empty FIFO leaves it empty. *)
RxCopy(t) ==
  /\ Is(t, {RX_DATA}, "copy") /\ Goto(t, "send")
  /\ rx_cntr' = IF rx_cntr >= BLOCK THEN rx_cntr - BLOCK ELSE 0
  /\ UNCHANGED <<netVars, registerVars, tx_cntr>>

(* A few sends to a client that is gone may succeed. *)
RxSend(t) ==
  /\ Is(t, {RX_DATA}, "send") /\ Goto(t, "check")
  /\ UNCHANGED <<netVars, registerVars, fifoVars>>

(* Bug: the wait leaves less room than a block needs. *)
TxWaitLess(t) ==
  /\ Is(t, {TX_DATA}, "check") /\ tx_cntr <= BLOCK + 1 /\ Goto(t, "recv")
  /\ tx_cntr' = IF tx_cntr = 0 THEN PREFILL ELSE tx_cntr
  /\ UNCHANGED <<netVars, registerVars, rx_cntr>>

TxWait(t) ==
  /\ Is(t, {TX_DATA}, "check") /\ tx_cntr <= BLOCK /\ Goto(t, "recv")
  /\ tx_cntr' = IF tx_cntr = 0 THEN PREFILL ELSE tx_cntr
  /\ UNCHANGED <<netVars, registerVars, rx_cntr>>

(* recv without MSG_WAITALL returns with any part of a block, and all of   *)
(* the buffer goes to the FIFO.                                            *)
TxRecv(t) ==
  /\ Is(t, {TX_DATA}, "recv") /\ Goto(t, "copy")
  /\ UNCHANGED <<netVars, registerVars, fifoVars>>

TxCopy(t) ==
  /\ Is(t, {TX_DATA}, "copy") /\ Goto(t, "check")
  /\ tx_cntr' = tx_cntr + BLOCK
  /\ UNCHANGED <<netVars, registerVars, rx_cntr>>

EndData(t) ==
  /\ Is(t, {RX_DATA}, "send") \/ Is(t, {TX_DATA}, "recv")
  /\ Gone(t) /\ Goto(t, "close")
  /\ UNCHANGED <<netVars, registerVars, fifoVars>>

RxSample ==
  /\ rx_cntr < RX_FULL /\ rx_cntr' = rx_cntr + 1
  /\ UNCHANGED <<netVars, thread, registerVars, tx_cntr>>

TxSample ==
  /\ tx_cntr > 0 /\ tx_cntr' = tx_cntr - 1
  /\ UNCHANGED <<netVars, thread, registerVars, rx_cntr>>

-----------------------------------------------------------------------------
(* What a thread does by itself, whatever its client does. *)
Work(t) ==
  \/ StartControl(t) \/ Restore(t) \/ Close(t) \/ FreeSlot(t)
  \/ StartData(t) \/ RxCheck(t) \/ RxWait(t) \/ RxCopy(t) \/ RxSend(t)
  \/ TxWait(t) \/ TxCopy(t)

End(t) == EndControl(t) \/ EndData(t)

Next ==
  \/ \E c \in Clients : Connect(c) \/ Leave(c)
  \/ accept \/ recv_failed
  \/ \E command \in 0 .. 4 : recv(command)
  \/ \E t \in Threads :
       \/ Work(t) \/ End(t) \/ TxRecv(t)
       \/ \E rate \in Rates : Tune(t, rate)
       \/ \E pin \in {0, 1} : PushToTalk(t, pin)
  \/ RxSample \/ TxSample

(* Threads are scheduled, samples come and go, and a connection whose      *)
(* client is gone fails in the end, even if some calls on it succeed.      *)
Spec ==
  /\ Init /\ [][Next]_vars
  /\ WF_vars(RxSample) /\ WF_vars(TxSample)
  /\ \A t \in Threads : WF_vars(Work(t)) /\ SF_vars(End(t))

-----------------------------------------------------------------------------
Live(t) == thread[t].pc \notin {"none", "start", "free"}

(* Types, and that the transmitter FIFO has room for every block and for   *)
(* the zeros before it.                                                    *)
TypeInvariant ==
  /\ client \in [Clients -> {"away", "queued", "open", "gone"}]
  /\ queue \in Seq(Clients) /\ owner \in [Fds -> Clients \union {NoClient}]
  /\ sock_client \in Fds \union {-1} /\ sock_thread \in [Slots -> Fds \union {-1}]
  /\ thread \in [Threads -> [slot : Slots \union {-1}, sock : Fds \union {-1},
       pc : {"none", "start", "loop", "restore", "close", "free", "check", "wait", "copy",
             "send", "recv"}]]
  /\ tuning \in [{RX_CTRL, TX_CTRL} -> Rates \union {DEFAULT}] /\ gpio \in {0, 1}
  /\ asked \in [Clients -> Rates \union {DEFAULT}]
  /\ rx_cntr \in 0 .. RX_FULL /\ tx_cntr \in 0 .. TX_DEPTH

(* The receiver and the transmitter are tuned to what the client in the    *)
(* control slot has asked for: a thread whose client has left never resets *)
(* the settings of the next client.                                        *)
TunedAsAsked ==
  \A t \in Threads : thread[t].pc = "loop" =>
    ClientOf(t) # NoClient /\ tuning[thread[t].slot] = asked[ClientOf(t)]

(* The transmitter is keyed only while a thread serves its control slot,   *)
(* and never after that thread has let go of its client.                   *)
PttHasOwner ==
  gpio = 1 => \E t \in Threads : thread[t].slot = TX_CTRL /\ thread[t].pc \in {"loop", "restore"}

(* A descriptor that a thread or main() works on is open, and nobody else  *)
(* works on it, although numbers are used again as soon as they are closed *)
(* and a slot still holds the number of a closed one.                      *)
SocketsAreOwned ==
  /\ \A t \in Threads : Live(t) =>
       /\ owner[thread[t].sock] # NoClient /\ thread[t].sock # sock_client
       /\ \A u \in Threads \ {t} : Live(u) => thread[u].sock # thread[t].sock
  /\ sock_client # -1 => owner[sock_client] # NoClient

(* The slot of a client that has gone becomes free, whatever its thread    *)
(* was doing, and with it, by PttHasOwner, the transmitter is silent.      *)
GoneIsReleased ==
  \A k \in Slots :
    sock_thread[k] # -1 /\ owner[sock_thread[k]] # NoClient
      /\ client[owner[sock_thread[k]]] = "gone" ~> sock_thread[k] = -1
=============================================================================
