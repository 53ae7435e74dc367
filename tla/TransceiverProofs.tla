---------------------------- MODULE TransceiverProofs ----------------------------
(***************************************************************************)
(* Proofs about SdrTransceiver, for every number of clients, threads and   *)
(* descriptors, and every size of blocks and FIFOs.                        *)
(***************************************************************************)
EXTENDS SdrTransceiver, TLAPS

Holds(t) == thread[t].pc \notin {"none", "free"}

Sock(t) == sock_thread[thread[t].slot]

Serves(t, c) == Holds(t) /\ owner[Sock(t)] = c

(* A client has one connection at most: waiting, or open on one descriptor.*)
NetInv ==
  /\ \A f \in Fds : owner[f] # NoClient => client[owner[f]] \in {"open", "gone"}
  /\ \A f, g \in Fds : owner[f] = owner[g] /\ owner[f] # NoClient => f = g
  /\ \A k \in 1 .. Len(queue) : client[queue[k]] = "queued"
  /\ \A j, k \in 1 .. Len(queue) : queue[j] = queue[k] => j = k

SlotOf(t) ==
  /\ thread[t].pc = "none" <=> thread[t] = Free
  /\ thread[t].pc # "none" => thread[t].slot \in Slots /\ Sock(t) # -1
  /\ Holds(t) => owner[Sock(t)] # NoClient /\ Sock(t) # sock_client
  /\ Live(t) => thread[t].sock = Sock(t)

(* A slot has one thread at most, and the descriptor in it is that thread's*)
(* as long as the thread has not closed it.                                *)
SlotInv ==
  /\ \A t \in Threads : SlotOf(t)
  /\ \A t, u \in Threads : thread[t].pc # "none" /\ thread[t].slot = thread[u].slot => t = u
  /\ \A t, u \in Threads : Holds(t) /\ Holds(u) /\ Sock(t) = Sock(u) => t = u
  /\ sock_client # -1 => owner[sock_client] # NoClient

AskedOf(t) ==
  /\ thread[t].pc = "start" => asked[owner[Sock(t)]] = DEFAULT
  /\ thread[t].pc = "loop" =>
       thread[t].slot \in {RX_CTRL, TX_CTRL}
         /\ tuning[thread[t].slot] = asked[owner[Sock(t)]]

(* Settings are asked for by clients of a control thread in its loop, and  *)
(* forgotten with the connection.                                          *)
AskedInv ==
  /\ \A c \in Clients : client[c] \in {"away", "queued"} => asked[c] = DEFAULT
  /\ sock_client # -1 => asked[owner[sock_client]] = DEFAULT
  /\ \A t \in Threads : AskedOf(t)

Places == {"none", "start", "loop", "restore", "close", "free", "check", "wait", "copy",
           "send", "recv"}

Types ==
  /\ client \in [Clients -> {"away", "queued", "open", "gone"}]
  /\ queue \in Seq(Clients) /\ owner \in [Fds -> Clients \union {NoClient}]
  /\ sock_client \in Fds \union {-1} /\ sock_thread \in [Slots -> Fds \union {-1}]
  /\ thread \in [Threads -> [slot : Slots \union {-1}, sock : Fds \union {-1}, pc : Places]]
  /\ tuning \in [{RX_CTRL, TX_CTRL} -> Rates \union {DEFAULT}] /\ gpio \in {0, 1}
  /\ asked \in [Clients -> Rates \union {DEFAULT}]

Inv == Types /\ NetInv /\ SlotInv /\ AskedInv

USE DEF Places, Slots, RX_CTRL, RX_DATA, TX_CTRL, TX_DATA, Free

LEMMA InvInit == Init => Inv
  BY TransceiverAssumption DEF Init, Inv, Types, NetInv, SlotInv, AskedInv, SlotOf, AskedOf,
                                  Holds, Live

(* What the invariant says of a thread that holds a descriptor.            *)
LEMMA Holding ==
  ASSUME Inv, NEW t \in Threads, Holds(t)
  PROVE  /\ thread[t].slot \in Slots /\ Sock(t) \in Fds /\ owner[Sock(t)] \in Clients
         /\ client[owner[Sock(t)]] \in {"open", "gone"} /\ Sock(t) # sock_client
         /\ \A f \in Fds : f # Sock(t) => owner[f] # owner[Sock(t)]
         /\ \A u \in Threads : Holds(u) /\ u # t => Sock(u) # Sock(t)
<1>1. thread[t].slot \in Slots /\ Sock(t) \in Fds /\ owner[Sock(t)] \in Clients
      /\ Sock(t) # sock_client
  BY DEF Inv, Types, SlotInv, SlotOf, Holds, Sock
<1>2. \A u \in Threads : Holds(u) /\ u # t => Sock(u) # Sock(t)
  BY DEF Inv, SlotInv
<1>3. owner[Sock(t)] # NoClient
  BY <1>1, TransceiverAssumption
<1> QED
  BY <1>1, <1>2, <1>3 DEF Inv, NetInv

(* The types, step by step. *)
LEMMA TypesStep == Types /\ SlotInv /\ [Next]_vars => Types'
<1> SUFFICES ASSUME Types, SlotInv, [Next]_vars PROVE Types'
  OBVIOUS
<1> USE TransceiverAssumption DEF Types, netVars, registerVars, fifoVars, Is, Goto, CloseSock,
                                  Refuse, ResetTuning
<1>1. ASSUME NEW c \in Clients, Connect(c) PROVE Types'
  <2>1. queue' \in Seq(Clients) /\ client' \in [Clients -> {"away", "queued", "open", "gone"}]
    BY <1>1 DEF Connect
  <2> QED
    BY <1>1, <2>1 DEF Connect
<1>11. ASSUME NEW c \in Clients, Leave(c) PROVE Types'
  BY <1>11 DEF Leave
<1>2. CASE accept
  <2>1. queue # <<>> /\ Head(queue) \in Clients /\ Tail(queue) \in Seq(Clients)
    BY <1>2 DEF accept
  <2> QED
    BY <1>2, <2>1 DEF accept
<1>3. CASE recv_failed
  BY <1>3 DEF recv_failed
<1>4. ASSUME NEW command \in 0 .. 4, recv(command) PROVE Types'
  <2>1. CASE Refuse
    BY <1>4, <2>1 DEF recv
  <2>2. CASE command \in Slots /\ CreateHandler(command)
    BY <1>4, <2>2 DEF recv, CreateHandler
  <2> QED
    BY <1>4, <2>1, <2>2 DEF recv, GiveSlot
<1>5. ASSUME NEW t \in Threads, NEW p \in Places, thread' = [thread EXCEPT ![t].pc = p]
      PROVE  thread' \in [Threads ->
               [slot : Slots \union {-1}, sock : Fds \union {-1}, pc : Places]]
  BY <1>5
<1>6. ASSUME NEW t \in Threads, StartControl(t) \/ StartData(t) PROVE Types'
  <2>1. thread[t].slot \in Slots /\ sock_thread[thread[t].slot] \in Fds \union {-1}
    BY <1>6 DEF StartControl, StartData, SlotInv, SlotOf
  <2>2. thread' \in [Threads ->
          [slot : Slots \union {-1}, sock : Fds \union {-1}, pc : Places]]
    <3> DEFINE f == sock_thread[thread[t].slot]
    <3>1. PICK p \in Places : thread' = [thread EXCEPT ![t].pc = p, ![t].sock = f]
      BY <1>6 DEF StartControl, StartData
    <3> DEFINE first == [thread EXCEPT ![t].pc = p]
    <3>2. first \in [Threads -> [slot : Slots \union {-1}, sock : Fds \union {-1}, pc : Places]]
      OBVIOUS
    <3>3. thread' = [first EXCEPT ![t].sock = f]
      BY <3>1
    <3>4. f \in Fds \union {-1}
      BY <2>1
    <3> HIDE DEF first, f
    <3> QED
      BY ZenonT(30), <3>2, <3>3, <3>4
  <2>3. CASE StartControl(t)
    BY <2>1, <2>2, <2>3 DEF StartControl
  <2>4. CASE StartData(t)
    BY <2>2, <2>4 DEF StartData
  <2> QED
    BY <1>6, <2>3, <2>4
<1>12. ASSUME NEW t \in Threads, EndControl(t) \/ EndData(t) \/ TxRecv(t) PROVE Types'
  BY <1>12, <1>5 DEF EndControl, EndData, TxRecv
<1>13. ASSUME NEW t \in Threads, RxCheck(t) \/ RxWait(t) \/ RxCopy(t) \/ RxSend(t) PROVE Types'
  BY <1>13, <1>5 DEF RxCheck, RxWait, RxCopy, RxSend
<1>14. ASSUME NEW t \in Threads, TxWait(t) \/ TxCopy(t) PROVE Types'
  BY <1>14, <1>5 DEF TxWait, TxCopy
<1>15. ASSUME NEW t \in Threads, Restore(t) PROVE Types'
  BY <1>15, <1>5 DEF Restore
<1>16. ASSUME NEW t \in Threads, FreeSlot(t) PROVE Types'
  BY <1>16 DEF FreeSlot
<1>7. ASSUME NEW t \in Threads, Close(t) PROVE Types'
  BY <1>7 DEF Close
<1>8. ASSUME NEW t \in Threads, NEW rate \in Rates, Tune(t, rate) PROVE Types'
  <2>1. thread[t].pc = "loop" /\ ClientOf(t) # NoClient /\ thread[t].slot \in {RX_CTRL, TX_CTRL}
    BY <1>8 DEF Tune
  <2>2. thread[t].sock \in Fds
    BY <2>1 DEF SlotInv, SlotOf, Live, Sock
  <2>3. ClientOf(t) \in Clients
    BY <2>1, <2>2 DEF ClientOf
  <2> QED
    BY <1>8, <2>1, <2>3 DEF Tune
<1>9. ASSUME NEW t \in Threads, NEW pin \in {0, 1}, PushToTalk(t, pin) PROVE Types'
  BY <1>9 DEF PushToTalk
<1>10. CASE RxSample \/ TxSample \/ UNCHANGED vars
  BY <1>10 DEF RxSample, TxSample, vars
<1> QED
  BY <1>1, <1>2, <1>3, <1>4, <1>6, <1>7, <1>8, <1>9, <1>10, <1>11, <1>12, <1>13, <1>14,
     <1>15, <1>16 DEF Next, Work, End

-----------------------------------------------------------------------------
(* What the threads need of a step that t takes, and of one none takes.    *)
Keeps(u) ==
  /\ thread'[u] = thread[u]
  /\ thread[u].pc # "none" => Sock(u)' = Sock(u)
  /\ Holds(u) => /\ sock_client' # Sock(u)
                 /\ owner'[Sock(u)] = owner[Sock(u)]
                 /\ asked'[owner[Sock(u)]] = asked[owner[Sock(u)]]
  /\ thread[u].pc = "loop" => tuning'[thread[u].slot] = tuning[thread[u].slot]

LEMMA KeepsOf ==
  ASSUME NEW u \in Threads, SlotOf(u), AskedOf(u), Keeps(u)
  PROVE  SlotOf(u)' /\ AskedOf(u)' /\ (Holds(u) <=> Holds(u)')
<1>1. Holds(u) <=> Holds(u)'
  BY DEF Keeps, Holds
<1>2. CASE thread[u].pc = "none"
  BY <1>2 DEF Keeps, Holds, Live, SlotOf, AskedOf
<1>3. CASE thread[u].pc # "none"
  <2>1. Sock(u)' = Sock(u) /\ thread'[u] = thread[u]
    BY <1>3 DEF Keeps
  <2>2. SlotOf(u)'
    BY <2>1 DEF Keeps, SlotOf, Holds, Live
  <2>3. AskedOf(u)'
    BY <2>1 DEF Keeps, AskedOf, Holds
  <2> QED
    BY <1>1, <2>2, <2>3
<1> QED
  BY <1>2, <1>3

LEMMA ThreadStep ==
  ASSUME Inv, NEW t \in Threads, SlotOf(t)', AskedOf(t)',
         \A u \in Threads \ {t} :
           /\ Keeps(u)
           /\ thread[u].pc # "none" /\ thread'[t].pc # "none" => thread'[t].slot # thread[u].slot
           /\ Holds(u) /\ Holds(t)' => Sock(t)' # Sock(u),
         sock_client' # -1 => owner'[sock_client'] # NoClient
  PROVE  SlotInv' /\ \A u \in Threads : AskedOf(u)'
<1>1. \A u \in Threads : SlotOf(u) /\ AskedOf(u)
  BY DEF Inv, SlotInv, AskedInv
<1>2. \A u \in Threads \ {t} : SlotOf(u)' /\ AskedOf(u)' /\ (Holds(u) <=> Holds(u)')
  BY <1>1, KeepsOf
<1>3. \A u \in Threads \ {t} : thread'[u] = thread[u]
  BY DEF Keeps
<1>4. \A u \in Threads \ {t} : Holds(u) => Sock(u)' = Sock(u)
  BY DEF Keeps, Holds
<1>5. \A u, v \in Threads : thread'[u].pc # "none" /\ thread'[u].slot = thread'[v].slot => u = v
  <2> SUFFICES ASSUME NEW u \in Threads, NEW v \in Threads, thread'[u].pc # "none",
                      thread'[u].slot = thread'[v].slot, u # v
               PROVE  FALSE
    OBVIOUS
  <2>1. \A w \in Threads : thread'[w].pc = "none" => thread'[w].slot = -1
    BY <1>2 DEF SlotOf
  <2>2. thread'[u].slot \in Slots /\ thread'[v].pc # "none"
    BY <1>2, <2>1 DEF SlotOf
  <2> QED
    BY <1>3, <2>2 DEF Inv, SlotInv
<1>6. \A u, v \in Threads : Holds(u)' /\ Holds(v)' /\ Sock(u)' = Sock(v)' => u = v
  BY <1>2, <1>4 DEF Inv, SlotInv
<1> QED
  BY <1>2, <1>5, <1>6 DEF SlotInv

LEMMA NoThreadStep ==
  ASSUME Inv, UNCHANGED thread, \A u \in Threads : Keeps(u),
         sock_client' # -1 => owner'[sock_client'] # NoClient
  PROVE  SlotInv' /\ \A u \in Threads : AskedOf(u)'
<1>1. \A u \in Threads : SlotOf(u)' /\ AskedOf(u)' /\ (Holds(u) <=> Holds(u)')
  BY KeepsOf DEF Inv, SlotInv, AskedInv
<1>2. \A u \in Threads : Holds(u) => Sock(u)' = Sock(u)
  BY DEF Keeps, Holds
<1>3. \A u, v \in Threads : Holds(u)' /\ Holds(v)' /\ Sock(u)' = Sock(v)' => u = v
  BY <1>1, <1>2 DEF Inv, SlotInv
<1> QED
  BY <1>1, <1>3 DEF Inv, SlotInv

-----------------------------------------------------------------------------
(* A thread goes from one of its places to another, and changes no setting *)
(* but its own.                                                            *)
LEMMA Moves ==
  ASSUME Inv, NEW t \in Threads, NEW p \in Places \ {"none", "start", "loop", "free"},
         Live(t), Goto(t, p), UNCHANGED <<netVars, asked>>, Types',
         \A k \in {RX_CTRL, TX_CTRL} : k # thread[t].slot => tuning'[k] = tuning[k]
  PROVE  Inv'
<1> USE DEF netVars
<1>1. /\ \A u \in Threads \ {t} : thread'[u] = thread[u]
      /\ thread'[t].slot = thread[t].slot /\ thread'[t].sock = thread[t].sock
      /\ thread'[t].pc = p
  BY DEF Goto, Inv, Types
<1>2. Sock(t)' = Sock(t) /\ Holds(t) /\ Holds(t)' /\ Live(t)'
  BY <1>1 DEF Sock, Holds, Live
<1>3. SlotOf(t)
  BY DEF Inv, SlotInv
<1>4. SlotOf(t)' /\ AskedOf(t)'
  <2>1. thread[t].pc # "none" /\ thread'[t].pc # "none" /\ thread'[t] # Free
    BY <1>1, <1>2 DEF Holds
  <2>2. SlotOf(t)'
    BY <1>1, <1>2, <1>3, <2>1 DEF SlotOf
  <2>3. AskedOf(t)'
    BY <1>1 DEF AskedOf
  <2> QED
    BY <2>2, <2>3
<1>5. \A u \in Threads \ {t} : Keeps(u) /\ Sock(u)' = Sock(u)
  <2> TAKE u \in Threads \ {t}
  <2>1. thread'[u] = thread[u] /\ Sock(u)' = Sock(u)
    BY <1>1 DEF Sock
  <2>2. Holds(u) => Sock(u) # sock_client
    BY DEF Inv, SlotInv, SlotOf
  <2>3. thread[u].pc = "loop" =>
          thread[u].slot \in {RX_CTRL, TX_CTRL} /\ thread[u].slot # thread[t].slot
    BY <1>2 DEF Inv, SlotInv, AskedInv, AskedOf, Holds
  <2> QED
    BY <2>1, <2>2, <2>3 DEF Keeps
<1>6. \A u \in Threads \ {t} :
        /\ thread[u].pc # "none" => thread'[t].slot # thread[u].slot
        /\ Holds(u) => Sock(t)' # Sock(u)
  BY <1>1, <1>2 DEF Inv, SlotInv
<1>7. SlotInv' /\ \A u \in Threads : AskedOf(u)'
  <2>1. sock_client' # -1 => owner'[sock_client'] # NoClient
    BY DEF Inv, SlotInv
  <2> QED
    BY <1>4, <1>5, <1>6, <2>1, ThreadStep
<1>8. NetInv'
  BY DEF Inv, NetInv
<1> QED
  BY <1>7, <1>8 DEF Inv, AskedInv

LEMMA StartStep ==
  ASSUME Inv, NEW t \in Threads, StartControl(t) \/ StartData(t), Types' PROVE Inv'
<1>1. UNCHANGED <<netVars, asked>> /\ thread[t].pc = "start"
  BY DEF StartControl, StartData, Is, registerVars
<1>2. SlotOf(t) /\ AskedOf(t) /\ Holds(t) /\ thread[t].slot \in Slots
  BY <1>1 DEF Inv, SlotInv, AskedInv, SlotOf, Holds
<1>3. /\ \A u \in Threads \ {t} : thread'[u] = thread[u]
      /\ thread'[t].slot = thread[t].slot /\ thread'[t].sock = Sock(t)
      /\ thread'[t].pc = IF thread[t].slot \in {RX_CTRL, TX_CTRL} THEN "loop" ELSE "check"
  BY DEF StartControl, StartData, Is, Sock, Inv, Types
<1>4. /\ \A k \in {RX_CTRL, TX_CTRL} \ {thread[t].slot} : tuning'[k] = tuning[k]
      /\ thread[t].slot \in {RX_CTRL, TX_CTRL} => tuning'[thread[t].slot] = DEFAULT
  BY DEF StartControl, StartData, Is, ResetTuning, registerVars, Inv, Types
<1>5. Sock(t)' = Sock(t) /\ Holds(t)'
  BY <1>1, <1>3 DEF Sock, Holds, netVars
<1>6. SlotOf(t)'
  BY <1>1, <1>2, <1>3, <1>5 DEF SlotOf, netVars
<1>7. AskedOf(t)'
  BY <1>1, <1>2, <1>3, <1>4, <1>5 DEF AskedOf, netVars
<1>8. \A u \in Threads \ {t} : Keeps(u)
  <2> TAKE u \in Threads \ {t}
  <2>1. thread'[u] = thread[u] /\ Sock(u)' = Sock(u)
    BY <1>1, <1>3 DEF Sock, netVars
  <2>2. Holds(u) => Sock(u) # sock_client
    BY DEF Inv, SlotInv, SlotOf
  <2>3. thread[u].pc = "loop" =>
          thread[u].slot \in {RX_CTRL, TX_CTRL} \ {thread[t].slot}
    BY <1>1 DEF Inv, SlotInv, AskedInv, AskedOf
  <2> QED
    BY <1>1, <1>4, <2>1, <2>2, <2>3 DEF Keeps, netVars
<1>9. \A u \in Threads \ {t} :
        /\ thread[u].pc # "none" => thread'[t].slot # thread[u].slot
        /\ Holds(u) => Sock(t)' # Sock(u)
  BY <1>1, <1>2, <1>3, <1>5 DEF Inv, SlotInv
<1>10. SlotInv' /\ \A u \in Threads : AskedOf(u)'
  <2>1. sock_client' # -1 => owner'[sock_client'] # NoClient
    BY <1>1 DEF Inv, SlotInv, netVars
  <2> QED
    BY <1>6, <1>7, <1>8, <1>9, <2>1, ThreadStep
<1>11. NetInv'
  BY <1>1 DEF Inv, NetInv, netVars
<1> QED
  BY <1>1, <1>10, <1>11 DEF Inv, AskedInv, netVars

LEMMA FreeStep == ASSUME Inv, NEW t \in Threads, FreeSlot(t), Types' PROVE Inv'
<1>1. /\ thread[t].pc = "free" /\ thread' = [thread EXCEPT ![t] = Free]
      /\ sock_thread' = [sock_thread EXCEPT ![thread[t].slot] = -1]
      /\ UNCHANGED <<client, queue, owner, sock_client, tuning, asked>>
  BY DEF FreeSlot, Is, registerVars
<1>2. thread'[t] = Free /\ \A u \in Threads \ {t} : thread'[u] = thread[u]
  BY <1>1 DEF Inv, Types
<1>3. SlotOf(t)' /\ AskedOf(t)' /\ ~Holds(t)'
  BY <1>2 DEF SlotOf, AskedOf, Holds, Live
<1>4. \A u \in Threads \ {t} : Keeps(u)
  <2> TAKE u \in Threads \ {t}
  <2>1. thread[u].pc # "none" => Sock(u)' = Sock(u)
    <3> HAVE thread[u].pc # "none"
    <3>1. thread[u].slot \in Slots /\ thread[u].slot # thread[t].slot
      BY <1>1 DEF Inv, SlotInv, SlotOf
    <3> QED
      BY <1>1, <1>2, <3>1 DEF Sock, Inv, Types
  <2>2. Holds(u) => Sock(u) # sock_client
    BY DEF Inv, SlotInv, SlotOf
  <2> QED
    BY <1>1, <1>2, <2>1, <2>2 DEF Keeps
<1>5. SlotInv' /\ \A u \in Threads : AskedOf(u)'
  <2>1. sock_client' # -1 => owner'[sock_client'] # NoClient
    BY <1>1 DEF Inv, SlotInv
  <2>2. thread'[t].pc = "none"
    BY <1>2
  <2> QED
    BY <1>3, <1>4, <2>1, <2>2, ThreadStep
<1>6. NetInv'
  BY <1>1 DEF Inv, NetInv
<1> QED
  BY <1>1, <1>5, <1>6 DEF Inv, AskedInv

LEMMA CreateStep ==
  ASSUME Inv, sock_client # -1, NEW command \in Slots, sock_thread[command] = -1,
         CreateHandler(command), UNCHANGED tuning, Types'
  PROVE  Inv'
<1>1. PICK t \in Threads :
        /\ thread[t] = Free
        /\ thread' = [thread EXCEPT ![t] = [slot |-> command, pc |-> "start", sock |-> -1]]
  BY DEF CreateHandler
<1>2. /\ sock_thread' = [sock_thread EXCEPT ![command] = sock_client] /\ sock_client' = -1
      /\ UNCHANGED <<client, queue, owner, asked, tuning>>
  BY DEF CreateHandler
<1>3. /\ \A u \in Threads \ {t} : thread'[u] = thread[u]
      /\ thread'[t] = [slot |-> command, pc |-> "start", sock |-> -1]
  BY <1>1 DEF Inv, Types
<1>4. Sock(t)' = sock_client
  BY <1>2, <1>3 DEF Sock, Inv, Types
<1>5. SlotOf(t)' /\ AskedOf(t)'
  <2>1. owner[sock_client] # NoClient /\ asked[owner[sock_client]] = DEFAULT
    BY DEF Inv, SlotInv, AskedInv
  <2> QED
    BY <1>2, <1>3, <1>4, <2>1 DEF SlotOf, AskedOf, Holds, Live
<1>6. \A u \in Threads \ {t} :
        thread[u].pc # "none" => thread[u].slot # command /\ Sock(u)' = Sock(u)
  <2> SUFFICES ASSUME NEW u \in Threads \ {t}, thread[u].pc # "none"
               PROVE  thread[u].slot # command /\ Sock(u)' = Sock(u)
    OBVIOUS
  <2>1. thread[u].slot \in Slots /\ sock_thread[thread[u].slot] # -1
    BY DEF Inv, SlotInv, SlotOf, Sock
  <2> QED
    BY <1>2, <1>3, <2>1 DEF Sock, Inv, Types
<1>7. \A u \in Threads \ {t} : Keeps(u) /\ (Holds(u) => Sock(u) # sock_client)
  <2> TAKE u \in Threads \ {t}
  <2>1. Holds(u) => Sock(u) # sock_client /\ Sock(u) # -1
    BY DEF Inv, SlotInv, SlotOf, Holds
  <2> QED
    BY <1>2, <1>3, <1>6, <2>1 DEF Keeps
<1>8. SlotInv' /\ \A u \in Threads : AskedOf(u)'
  <2>1. thread'[t].slot = command
    BY <1>3
  <2> QED
    BY <1>2, <1>4, <1>5, <1>6, <1>7, <2>1, ThreadStep
<1>9. NetInv'
  BY <1>2 DEF Inv, NetInv
<1> QED
  BY <1>2, <1>8, <1>9 DEF Inv, AskedInv

-----------------------------------------------------------------------------
(* The steps of clients, and those that open and close descriptors.        *)
LEMMA ConnectStep == ASSUME Inv, NEW c \in Clients, Connect(c), Types' PROVE Inv'
<1>1. /\ client[c] = "away" /\ client' = [client EXCEPT ![c] = "queued"]
      /\ queue' = Append(queue, c)
      /\ UNCHANGED <<owner, sock_client, sock_thread, thread, tuning, asked>>
  BY DEF Connect, registerVars
<1>2. NetInv'
  <2> USE DEF Inv, Types
  <2>1. \A k \in 1 .. Len(queue) : queue[k] \in Clients \ {c} /\ queue'[k] = queue[k]
    BY <1>1 DEF NetInv
  <2>2. Len(queue') = Len(queue) + 1 /\ queue'[Len(queue) + 1] = c
    BY <1>1
  <2>3. \A k \in 1 .. Len(queue') : k \in 1 .. Len(queue) \/ k = Len(queue) + 1
    BY <2>2
  <2>4. \A j, k \in 1 .. Len(queue') : queue'[j] = queue'[k] => j = k
    BY <2>1, <2>2, <2>3 DEF NetInv
  <2>5. \A k \in 1 .. Len(queue') : client'[queue'[k]] = "queued"
    BY <1>1, <2>1, <2>2, <2>3 DEF NetInv
  <2>6. \A f \in Fds : owner[f] # NoClient => client'[owner[f]] \in {"open", "gone"}
    BY <1>1 DEF NetInv
  <2> QED
    BY <1>1, <2>4, <2>5, <2>6 DEF NetInv
<1>3. \A u \in Threads : Keeps(u)
  BY <1>1 DEF Keeps, Sock, Inv, SlotInv, SlotOf
<1>4. SlotInv' /\ \A u \in Threads : AskedOf(u)'
  BY <1>1, <1>3, NoThreadStep DEF Inv, SlotInv
<1>5. AskedInv'
  BY <1>1, <1>4 DEF Inv, Types, AskedInv
<1> QED
  BY <1>2, <1>4, <1>5 DEF Inv

LEMMA LeaveStep == ASSUME Inv, NEW c \in Clients, Leave(c), Types' PROVE Inv'
<1>1. /\ client[c] = "open" /\ client' = [client EXCEPT ![c] = "gone"]
      /\ UNCHANGED <<queue, owner, sock_client, sock_thread, thread, tuning, asked>>
  BY DEF Leave, registerVars
<1>2. NetInv'
  BY <1>1, TransceiverAssumption DEF Inv, Types, NetInv
<1>3. \A u \in Threads : Keeps(u)
  BY <1>1 DEF Keeps, Sock, Inv, SlotInv, SlotOf
<1>4. SlotInv' /\ \A u \in Threads : AskedOf(u)'
  BY <1>1, <1>3, NoThreadStep DEF Inv, SlotInv
<1>5. AskedInv'
  BY <1>1, <1>4 DEF Inv, Types, AskedInv
<1> QED
  BY <1>2, <1>4, <1>5 DEF Inv

LEMMA AcceptStep == ASSUME Inv, accept, Types' PROVE Inv'
<1> DEFINE c == Head(queue)
<1>1. PICK f \in Fds :
        /\ owner[f] = NoClient /\ sock_client' = f /\ owner' = [owner EXCEPT ![f] = c]
  BY DEF accept
<1>2. /\ sock_client = -1 /\ queue # <<>> /\ client' = [client EXCEPT ![c] = "open"]
      /\ queue' = Tail(queue) /\ UNCHANGED <<sock_thread, thread, tuning, asked>>
  BY DEF accept, registerVars
<1>3. c \in Clients /\ c = queue[1] /\ 1 \in 1 .. Len(queue) /\ client[c] = "queued"
  BY <1>2 DEF Inv, Types, NetInv
<1>4. /\ Len(queue') = Len(queue) - 1
      /\ \A k \in 1 .. Len(queue') : k + 1 \in 2 .. Len(queue) /\ queue'[k] = queue[k + 1]
  BY <1>2 DEF Inv, Types
<1>5. (\A g \in Fds : owner[g] # c) /\ c # NoClient
  BY <1>3, TransceiverAssumption DEF Inv, NetInv
<1>6. /\ owner'[f] = c /\ client'[c] = "open"
      /\ \A g \in Fds \ {f} : owner'[g] = owner[g]
      /\ \A d \in Clients \ {c} : client'[d] = client[d]
  BY <1>1, <1>2, <1>3 DEF Inv, Types
<1> HIDE DEF c
<1>7. NetInv'
  <2>1. \A k \in 1 .. Len(queue') : queue'[k] \in Clients \ {c} /\ client'[queue'[k]] = "queued"
    <3> TAKE k \in 1 .. Len(queue')
    <3>1. k + 1 \in 1 .. Len(queue) /\ k + 1 # 1 /\ queue'[k] = queue[k + 1]
      BY <1>4
    <3>2. queue[k + 1] \in Clients /\ queue[k + 1] # c /\ client[queue[k + 1]] = "queued"
      BY <1>3, <3>1 DEF Inv, Types, NetInv
    <3> QED
      BY <1>6, <3>1, <3>2
  <2>2. \A j, k \in 1 .. Len(queue') : queue'[j] = queue'[k] => j = k
    <3> TAKE j, k \in 1 .. Len(queue')
    <3>1. /\ j + 1 \in 1 .. Len(queue) /\ queue'[j] = queue[j + 1]
          /\ k + 1 \in 1 .. Len(queue) /\ queue'[k] = queue[k + 1] /\ j \in Int /\ k \in Int
      BY <1>4
    <3>2. queue[j + 1] = queue[k + 1] => j + 1 = k + 1
      BY <3>1 DEF Inv, NetInv
    <3> QED
      BY <3>1, <3>2
  <2>3. \A g \in Fds : owner'[g] # NoClient => client'[owner'[g]] \in {"open", "gone"}
    <3> TAKE g \in Fds
    <3>1. CASE g = f
      BY <1>6, <3>1
    <3>2. CASE g # f
      <4>1. owner[g] # NoClient => owner[g] \in Clients \ {c}
        BY <1>5 DEF Inv, Types
      <4> QED
        BY <1>6, <3>2, <4>1 DEF Inv, NetInv
    <3> QED
      BY <3>1, <3>2
  <2>4. \A g, h \in Fds : owner'[g] = owner'[h] /\ owner'[g] # NoClient => g = h
    BY <1>5, <1>6 DEF Inv, NetInv
  <2> QED
    BY <2>1, <2>2, <2>3, <2>4 DEF NetInv
<1>8. \A u \in Threads : Keeps(u)
  <2> TAKE u \in Threads
  <2>1. Holds(u) => Sock(u) # f /\ Sock(u) \in Fds
    BY <1>1, Holding DEF Inv, SlotInv, SlotOf
  <2> QED
    BY <1>1, <1>2, <1>6, <2>1 DEF Keeps, Sock
<1>9. SlotInv' /\ \A u \in Threads : AskedOf(u)'
  BY <1>1, <1>2, <1>5, <1>6, <1>8, NoThreadStep
<1>10. AskedInv'
  <2>1. asked[c] = DEFAULT
    BY <1>3 DEF Inv, AskedInv
  <2>2. \A d \in Clients : client'[d] \in {"away", "queued"} => asked[d] = DEFAULT
    BY <1>6, <2>1 DEF Inv, AskedInv
  <2> QED
    BY <1>1, <1>2, <1>6, <1>9, <2>1, <2>2 DEF AskedInv
<1> QED
  BY <1>7, <1>9, <1>10 DEF Inv

(* What closing a descriptor leaves to the other ones.                     *)
LEMMA Closing ==
  ASSUME Inv, NEW f \in Fds, NEW c \in Clients, owner[f] = c, CloseSock(f), UNCHANGED queue
  PROVE  /\ NetInv' /\ owner'[f] = NoClient
         /\ \A g \in Fds \ {f} : owner'[g] = owner[g] /\ owner[g] # c
         /\ \A d \in Clients \ {c} : asked'[d] = asked[d] /\ client'[d] = client[d]
         /\ asked'[c] = DEFAULT /\ client'[c] = "away"
<1>1. owner'[f] = NoClient /\ \A g \in Fds \ {f} : owner'[g] = owner[g]
  BY DEF CloseSock, Inv, Types
<1>2. /\ \A d \in Clients \ {c} : asked'[d] = asked[d] /\ client'[d] = client[d]
      /\ asked'[c] = DEFAULT /\ client'[c] = "away"
  BY DEF CloseSock
<1>3. c # NoClient /\ client[c] \in {"open", "gone"} /\ \A g \in Fds \ {f} : owner[g] # c
  BY TransceiverAssumption DEF Inv, NetInv
<1>4. NetInv'
  <2>1. \A g \in Fds : owner'[g] # NoClient => client'[owner'[g]] \in {"open", "gone"}
    <3> TAKE g \in Fds
    <3>1. owner[g] \in Clients \union {NoClient}
      BY DEF Inv, Types
    <3> QED
      BY <1>1, <1>2, <1>3, <3>1 DEF Inv, NetInv
  <2>2. \A g, h \in Fds : owner'[g] = owner'[h] /\ owner'[g] # NoClient => g = h
    BY <1>1 DEF Inv, NetInv
  <2>3. \A k \in 1 .. Len(queue) : queue[k] \in Clients \ {c}
    BY <1>3 DEF Inv, NetInv, Types
  <2>4. \A k \in 1 .. Len(queue) : client'[queue[k]] = "queued"
    BY <1>2, <2>3 DEF Inv, NetInv
  <2> QED
    BY <2>1, <2>2, <2>4 DEF Inv, NetInv
<1> QED
  BY <1>1, <1>2, <1>3, <1>4

LEMMA RefuseStep ==
  ASSUME Inv, sock_client # -1, Refuse, UNCHANGED tuning, Types' PROVE Inv'
<1> DEFINE c == owner[sock_client]
<1>1. c \in Clients /\ sock_client \in Fds
  BY DEF Inv, Types, SlotInv
<1>2. CloseSock(sock_client) /\ sock_client' = -1 /\ UNCHANGED <<queue, sock_thread, thread>>
  BY DEF Refuse
<1>3. /\ NetInv' /\ \A g \in Fds \ {sock_client} : owner'[g] = owner[g] /\ owner[g] # c
      /\ \A d \in Clients \ {c} : asked'[d] = asked[d] /\ client'[d] = client[d]
      /\ asked'[c] = DEFAULT
  BY <1>1, <1>2, Closing
<1> HIDE DEF c
<1>4. \A u \in Threads : Keeps(u)
  <2> TAKE u \in Threads
  <2>1. Holds(u) => /\ Sock(u) \in Fds \ {sock_client} /\ owner[Sock(u)] \in Clients \ {c}
                    /\ Sock(u) # -1
    <3> HAVE Holds(u)
    <3>1. Sock(u) \in Fds \ {sock_client} /\ owner[Sock(u)] \in Clients
      BY Holding
    <3>2. owner[Sock(u)] # c
      BY <1>3, <3>1
    <3>3. -1 \notin Fds
      BY TransceiverAssumption
    <3> QED
      BY <3>1, <3>2, <3>3
  <2> QED
    BY <1>2, <1>3, <2>1 DEF Keeps, Sock
<1>5. SlotInv' /\ \A u \in Threads : AskedOf(u)'
  BY <1>2, <1>4, NoThreadStep
<1>6. AskedInv'
  <2>1. \A d \in Clients : client'[d] \in {"away", "queued"} => asked'[d] = DEFAULT
    BY <1>1, <1>3 DEF Inv, AskedInv
  <2> QED
    BY <1>2, <1>5, <2>1 DEF AskedInv
<1> QED
  BY <1>3, <1>5, <1>6 DEF Inv

LEMMA CloseStep == ASSUME Inv, NEW t \in Threads, Close(t), Types' PROVE Inv'
<1> DEFINE c == owner[Sock(t)]
<1>1. thread[t].pc = "close" /\ Holds(t) /\ thread[t].sock = Sock(t)
  BY DEF Close, Is, Inv, SlotInv, SlotOf, Holds, Live
<1>2. Sock(t) \in Fds /\ c \in Clients
  BY <1>1, Holding
<1>3. CloseSock(Sock(t)) /\ UNCHANGED <<queue, sock_client, sock_thread, tuning>>
  BY <1>1 DEF Close
<1>4. /\ NetInv' /\ \A g \in Fds \ {Sock(t)} : owner'[g] = owner[g] /\ owner[g] # c
      /\ \A d \in Clients \ {c} : asked'[d] = asked[d] /\ client'[d] = client[d]
      /\ asked'[c] = DEFAULT
  BY <1>2, <1>3, Closing
<1>5. /\ \A u \in Threads \ {t} : thread'[u] = thread[u]
      /\ thread'[t].slot = thread[t].slot /\ thread'[t].pc = "free"
  BY DEF Close, Goto, Inv, Types
<1> HIDE DEF c
<1>6. Sock(t)' = Sock(t)
  BY <1>3, <1>5 DEF Sock
<1>7. SlotOf(t)' /\ AskedOf(t)' /\ ~Holds(t)'
  <2>1. SlotOf(t)
    BY DEF Inv, SlotInv
  <2> QED
    BY <1>1, <1>5, <1>6, <2>1 DEF SlotOf, AskedOf, Holds, Live
<1>8. \A u \in Threads \ {t} : Keeps(u)
  <2> TAKE u \in Threads \ {t}
  <2>1. Holds(u) => Sock(u) \in Fds \ {Sock(t), sock_client} /\ owner[Sock(u)] \in Clients \ {c}
    BY <1>1, <1>4, Holding
  <2> QED
    BY <1>3, <1>4, <1>5, <2>1 DEF Keeps, Sock
<1>9. \A u \in Threads \ {t} : thread[u].pc # "none" => thread'[t].slot # thread[u].slot
  BY <1>1, <1>5 DEF Inv, SlotInv
<1>10. sock_client # -1 => sock_client \in Fds \ {Sock(t)} /\ owner[sock_client] \in Clients \ {c}
  BY <1>1, <1>2, <1>4, Holding DEF Inv, Types, SlotInv
<1>11. SlotInv' /\ \A u \in Threads : AskedOf(u)'
  <2>1. sock_client' # -1 => owner'[sock_client'] # NoClient
    BY <1>3, <1>4, <1>10 DEF Inv, SlotInv
  <2> QED
    BY <1>7, <1>8, <1>9, <2>1, ThreadStep
<1>12. AskedInv'
  <2>1. \A d \in Clients : client'[d] \in {"away", "queued"} => asked'[d] = DEFAULT
    BY <1>2, <1>4 DEF Inv, AskedInv
  <2>2. sock_client' # -1 => asked'[owner'[sock_client']] = DEFAULT
    BY <1>3, <1>4, <1>10 DEF Inv, AskedInv
  <2> QED
    BY <1>11, <2>1, <2>2 DEF AskedInv
<1> QED
  BY <1>4, <1>11, <1>12 DEF Inv

LEMMA TuneStep ==
  ASSUME Inv, NEW t \in Threads, NEW rate \in Rates, Tune(t, rate), Types' PROVE Inv'
<1> DEFINE c == owner[Sock(t)]
<1>1. /\ thread[t].pc = "loop" /\ thread[t].slot \in {RX_CTRL, TX_CTRL}
      /\ Holds(t) /\ thread[t].sock = Sock(t)
  BY DEF Tune, Is, Holds, Live, Inv, SlotInv, SlotOf
<1>2. Sock(t) \in Fds /\ c \in Clients /\ client[c] \in {"open", "gone"}
      /\ \A f \in Fds : f # Sock(t) => owner[f] # c
  BY <1>1, Holding
<1>3. /\ tuning' = [tuning EXCEPT ![thread[t].slot] = rate]
      /\ asked' = [asked EXCEPT ![c] = rate] /\ UNCHANGED <<netVars, thread>>
  BY <1>1 DEF Tune, ClientOf
<1> HIDE DEF c
<1>4. /\ asked'[c] = rate /\ \A d \in Clients \ {c} : asked'[d] = asked[d]
      /\ tuning'[thread[t].slot] = rate
      /\ \A k \in {RX_CTRL, TX_CTRL} \ {thread[t].slot} : tuning'[k] = tuning[k]
  BY <1>1, <1>2, <1>3 DEF Inv, Types
<1>5. SlotOf(t)' /\ AskedOf(t)'
  <2>1. SlotOf(t)
    BY DEF Inv, SlotInv
  <2>2. thread'[t] = thread[t] /\ Sock(t)' = Sock(t) /\ owner' = owner /\ sock_client' = sock_client
    BY <1>3 DEF Sock, netVars
  <2>3. SlotOf(t)'
    BY <2>1, <2>2 DEF SlotOf, Holds, Live
  <2>4. AskedOf(t)'
    BY <1>1, <1>4, <2>2 DEF AskedOf, c
  <2> QED
    BY <2>3, <2>4
<1>6. \A u \in Threads \ {t} : Keeps(u)
  <2> TAKE u \in Threads \ {t}
  <2>1. Holds(u) => Sock(u) \in Fds \ {sock_client} /\ owner[Sock(u)] \in Clients \ {c}
    BY <1>1, <1>2, Holding
  <2>2. thread[u].pc = "loop" => thread[u].slot \in {RX_CTRL, TX_CTRL} \ {thread[t].slot}
    BY <1>1 DEF Inv, SlotInv, AskedInv, AskedOf
  <2> QED
    BY <1>3, <1>4, <2>1, <2>2 DEF Keeps, Sock, netVars
<1>7. \A u \in Threads \ {t} :
        /\ thread[u].pc # "none" => thread'[t].slot # thread[u].slot
        /\ Holds(u) => Sock(t)' # Sock(u)
  BY <1>1, <1>3 DEF Inv, SlotInv, Sock, netVars
<1>8. SlotInv' /\ \A u \in Threads : AskedOf(u)'
  <2>1. sock_client' # -1 => owner'[sock_client'] # NoClient
    BY <1>3 DEF Inv, SlotInv, netVars
  <2> QED
    BY <1>5, <1>6, <1>7, <2>1, ThreadStep
<1>9. AskedInv'
  <2>1. \A d \in Clients : client[d] \in {"away", "queued"} => asked'[d] = DEFAULT
    BY <1>2, <1>4 DEF Inv, AskedInv
  <2>2. sock_client # -1 => owner[sock_client] \in Clients \ {c}
    BY <1>1, <1>2, Holding DEF Inv, Types, SlotInv
  <2> QED
    BY <1>3, <1>4, <1>8, <2>1, <2>2 DEF Inv, AskedInv, netVars
<1>10. NetInv'
  BY <1>3 DEF Inv, NetInv, netVars
<1> QED
  BY <1>8, <1>9, <1>10 DEF Inv

-----------------------------------------------------------------------------
LEMMA InvStep == Inv /\ [Next]_vars => Inv'
<1> SUFFICES ASSUME Inv, [Next]_vars PROVE Inv'
  OBVIOUS
<1>1. Types'
  BY TypesStep DEF Inv
<1>2. ASSUME UNCHANGED <<netVars, thread, tuning, asked>> PROVE Inv'
  <2>1. \A u \in Threads : Keeps(u)
    BY <1>2 DEF Keeps, Sock, netVars, Inv, SlotInv, SlotOf
  <2>2. SlotInv' /\ \A u \in Threads : AskedOf(u)'
    BY <1>2, <2>1, NoThreadStep DEF Inv, SlotInv, netVars
  <2> QED
    BY <1>1, <1>2, <2>2 DEF Inv, NetInv, AskedInv, netVars
<1>3. ASSUME NEW c \in Clients, Connect(c) \/ Leave(c) PROVE Inv'
  BY <1>1, <1>3, ConnectStep, LeaveStep
<1>4. CASE accept
  BY <1>1, <1>4, AcceptStep
<1>5. CASE recv_failed
  BY <1>1, <1>5, RefuseStep DEF recv_failed
<1>6. ASSUME NEW command \in 0 .. 4, recv(command) PROVE Inv'
  <2>1. sock_client # -1 /\ UNCHANGED tuning
    BY <1>6 DEF recv
  <2>2. CASE command > 3 \/ sock_thread[command] > -1
    BY <1>1, <1>6, <2>1, <2>2, RefuseStep DEF recv, GiveSlot
  <2>3. CASE ~(command > 3 \/ sock_thread[command] > -1)
    <3>1. command \in Slots /\ CreateHandler(command)
      BY <1>6, <2>3 DEF recv, GiveSlot
    <3>2. sock_thread[command] \in Fds \union {-1}
      BY <3>1 DEF Inv, Types
    <3>3. sock_thread[command] \in Nat \union {-1}
      BY <3>2, TransceiverAssumption
    <3>4. sock_thread[command] = -1
      BY <2>3, <3>3
    <3> QED
      BY <1>1, <2>1, <3>1, <3>4, CreateStep
  <2> QED
    BY <2>2, <2>3
<1>7. ASSUME NEW t \in Threads, StartControl(t) \/ StartData(t) PROVE Inv'
  BY <1>1, <1>7, StartStep
<1>8. ASSUME NEW t \in Threads, EndControl(t) \/ EndData(t) \/ TxRecv(t) PROVE Inv'
  BY <1>1, <1>8, Moves DEF EndControl, EndData, TxRecv, Is, Live, registerVars
<1>9. ASSUME NEW t \in Threads, RxCheck(t) \/ RxWait(t) \/ RxCopy(t) \/ RxSend(t) PROVE Inv'
  BY <1>1, <1>9, Moves DEF RxCheck, RxWait, RxCopy, RxSend, Is, Live, registerVars
<1>10. ASSUME NEW t \in Threads, TxWait(t) \/ TxCopy(t) PROVE Inv'
  BY <1>1, <1>10, Moves DEF TxWait, TxCopy, Is, Live, registerVars
<1>11. ASSUME NEW t \in Threads, Restore(t) PROVE Inv'
  <2>1. \A k \in {RX_CTRL, TX_CTRL} : k # thread[t].slot => tuning'[k] = tuning[k]
    BY <1>11 DEF Restore, ResetTuning, Inv, Types
  <2> QED
    BY <1>1, <1>11, <2>1, Moves DEF Restore, Is, Live
<1>12. ASSUME NEW t \in Threads, Close(t) PROVE Inv'
  BY <1>1, <1>12, CloseStep
<1>13. ASSUME NEW t \in Threads, FreeSlot(t) PROVE Inv'
  BY <1>1, <1>13, FreeStep
<1>14. ASSUME NEW t \in Threads, NEW rate \in Rates, Tune(t, rate) PROVE Inv'
  BY <1>1, <1>14, TuneStep
<1>15. ASSUME NEW t \in Threads, NEW pin \in {0, 1}, PushToTalk(t, pin) PROVE Inv'
  BY <1>2, <1>15 DEF PushToTalk
<1>16. CASE RxSample \/ TxSample \/ UNCHANGED vars
  BY <1>2, <1>16 DEF RxSample, TxSample, vars, registerVars
<1> QED
  BY <1>3, <1>4, <1>5, <1>6, <1>7, <1>8, <1>9, <1>10, <1>11, <1>12, <1>13, <1>14, <1>15, <1>16
     DEF Next, Work, End

LEMMA InvAlways == Spec => []Inv
  BY InvInit, InvStep, PTL DEF Spec

-----------------------------------------------------------------------------
(* A thread serves a connection that is open and its own, from its first   *)
(* step to its close, whoever connects and leaves meanwhile.               *)
THEOREM DescriptorsAreOwned == Spec => []SocketsAreOwned
<1>1. ASSUME Inv PROVE SocketsAreOwned
  <2>1. \A t \in Threads : Live(t) => Holds(t) /\ thread[t].sock = Sock(t)
    BY <1>1 DEF Inv, SlotInv, SlotOf, Live, Holds
  <2> QED
    BY <1>1, <2>1 DEF Inv, SlotInv, SlotOf, SocketsAreOwned
<1> QED
  BY <1>1, InvAlways, PTL

(* The settings are those of the client in the control slot.               *)
THEOREM TuningIsTheClients == Spec => []TunedAsAsked
<1>1. ASSUME Inv PROVE TunedAsAsked
  <2> SUFFICES ASSUME NEW t \in Threads, thread[t].pc = "loop"
               PROVE  ClientOf(t) # NoClient /\ tuning[thread[t].slot] = asked[ClientOf(t)]
    BY DEF TunedAsAsked
  <2>1. Live(t) /\ Holds(t)
    BY DEF Live, Holds
  <2>2. SlotOf(t) /\ AskedOf(t)
    BY <1>1 DEF Inv, SlotInv, AskedInv
  <2> QED
    BY <2>1, <2>2 DEF SlotOf, AskedOf, ClientOf
<1> QED
  BY <1>1, InvAlways, PTL

(* The transmitter is keyed only for a client that is being served.        *)
THEOREM PttIsServed == Spec => []PttHasOwner
<1> DEFINE Keyed(t) == thread[t].slot = TX_CTRL /\ thread[t].pc \in {"loop", "restore"}
<1>1. Init => PttHasOwner
  BY DEF Init, PttHasOwner
<1>2. Inv /\ PttHasOwner /\ [Next]_vars => PttHasOwner'
  <2> SUFFICES ASSUME Inv, PttHasOwner, [Next]_vars, gpio' = 1
               PROVE  \E t \in Threads : Keyed(t)'
    BY DEF PttHasOwner
  <2>1. CASE UNCHANGED <<gpio, thread>>
    BY <2>1 DEF PttHasOwner
  <2>2. ASSUME NEW t \in Threads, NEW pin \in {0, 1}, PushToTalk(t, pin)
        PROVE  \E u \in Threads : Keyed(u)'
    BY <2>2 DEF PushToTalk, Is
  <2>3. ASSUME NEW t \in Threads, gpio' = gpio, thread[t].pc \notin {"loop", "restore"},
               \A u \in Threads \ {t} : thread'[u] = thread[u]
        PROVE  \E u \in Threads : Keyed(u)'
    BY <2>3 DEF PttHasOwner
  <2>4. ASSUME NEW t \in Threads, NEW p \in Places, Goto(t, p),
               thread[t].pc \notin {"loop", "restore"}, gpio' = gpio
        PROVE  \E u \in Threads : Keyed(u)'
    BY <2>3, <2>4 DEF Goto, Inv, Types
  <2>5. ASSUME NEW t \in Threads,
               \/ Close(t) \/ EndData(t) \/ TxRecv(t) \/ RxCheck(t) \/ RxWait(t)
               \/ RxCopy(t) \/ RxSend(t) \/ TxWait(t) \/ TxCopy(t)
        PROVE  \E u \in Threads : Keyed(u)'
    BY <2>4, <2>5 DEF Close, EndData, TxRecv, RxCheck, RxWait, RxCopy, RxSend, TxWait, TxCopy, Is,
                      registerVars
  <2>6. ASSUME NEW t \in Threads, EndControl(t) PROVE \E u \in Threads : Keyed(u)'
    <3>1. gpio = 1 /\ \A u \in Threads : Keyed(u) => Keyed(u)'
      BY <2>6 DEF EndControl, Goto, Inv, Types, registerVars
    <3> QED
      BY <3>1 DEF PttHasOwner
  <2>7. ASSUME NEW t \in Threads, Restore(t) PROVE \E u \in Threads : Keyed(u)'
    <3>1. gpio = 1 /\ thread[t].slot # TX_CTRL /\ thread[t].slot \in {RX_CTRL, TX_CTRL}
      BY <2>7 DEF Restore, ResetTuning, Is
    <3>2. \A u \in Threads \ {t} : thread'[u] = thread[u]
      BY <2>7 DEF Restore, Goto, Inv, Types
    <3> QED
      BY <3>1, <3>2 DEF PttHasOwner
  <2>8. ASSUME NEW t \in Threads, StartControl(t) \/ StartData(t)
        PROVE  \E u \in Threads : Keyed(u)'
    <3>1. gpio' = gpio /\ thread[t].pc = "start"
      BY <2>8 DEF StartControl, StartData, ResetTuning, Is, registerVars
    <3>2. \A u \in Threads \ {t} : thread'[u] = thread[u]
      BY <2>8 DEF StartControl, StartData, Inv, Types
    <3> QED
      BY <2>3, <3>1, <3>2
  <2>9. ASSUME NEW t \in Threads, FreeSlot(t) PROVE \E u \in Threads : Keyed(u)'
    BY <2>3, <2>9 DEF FreeSlot, Is, Inv, Types, registerVars
  <2>10. ASSUME NEW command \in 0 .. 4, recv(command) PROVE \E u \in Threads : Keyed(u)'
    <3>1. CASE UNCHANGED thread
      BY <2>1, <2>10, <3>1 DEF recv
    <3>2. ASSUME NEW t \in Threads, thread[t] = Free, \A u \in Threads \ {t} : thread'[u] = thread[u]
          PROVE  \E u \in Threads : Keyed(u)'
      BY <2>3, <2>10, <3>2 DEF recv
    <3>3. UNCHANGED thread \/ \E t \in Threads :
            thread[t] = Free /\ \A u \in Threads \ {t} : thread'[u] = thread[u]
      BY <2>10 DEF recv, GiveSlot, Refuse, CreateHandler, Inv, Types
    <3> QED
      BY <3>1, <3>2, <3>3
  <2>11. ASSUME NEW t \in Threads, NEW rate \in Rates, Tune(t, rate)
         PROVE  \E u \in Threads : Keyed(u)'
    BY <2>1, <2>11 DEF Tune
  <2>12. ASSUME NEW c \in Clients, Connect(c) \/ Leave(c) PROVE \E u \in Threads : Keyed(u)'
    BY <2>1, <2>12 DEF Connect, Leave, registerVars
  <2>13. CASE accept \/ recv_failed \/ RxSample \/ TxSample \/ UNCHANGED vars
    BY <2>1, <2>13 DEF accept, recv_failed, Refuse, RxSample, TxSample, vars, registerVars
  <2> QED
    BY <2>2, <2>5, <2>6, <2>7, <2>8, <2>9, <2>10, <2>11, <2>12, <2>13 DEF Next, Work, End
<1> QED
  BY <1>1, <1>2, InvAlways, PTL DEF Spec

-----------------------------------------------------------------------------
(* A thread that has waited for room in the transmitter FIFO finds it when *)
(* it writes.                                                              *)
FifoInv ==
  /\ rx_cntr \in 0 .. RX_FULL /\ tx_cntr \in 0 .. TX_DEPTH
  /\ \A t \in Threads : Is(t, {TX_DATA}, "recv") \/ Is(t, {TX_DATA}, "copy") => tx_cntr <= BLOCK

LEMMA FifoStep == Inv /\ FifoInv /\ [Next]_vars => FifoInv'
<1> SUFFICES ASSUME Inv, FifoInv, [Next]_vars PROVE FifoInv'
  OBVIOUS
<1> USE TransceiverAssumption DEF Inv, Is
<1> DEFINE Writing(u) == thread[u].slot = TX_DATA /\ thread[u].pc \in {"recv", "copy"}
           Fills == \A u \in Threads : Writing(u)' => Writing(u)
<1>1. ASSUME Fills, tx_cntr' \in 0 .. tx_cntr, rx_cntr' \in 0 .. RX_FULL PROVE FifoInv'
  BY <1>1 DEF FifoInv
<1>2. ASSUME NEW t \in Threads, NEW p \in Places \ {"recv", "copy"}, Goto(t, p) PROVE Fills
  BY <1>2 DEF Goto, Types
<1>3. CASE UNCHANGED <<thread, fifoVars>>
  BY <1>1, <1>3 DEF FifoInv, fifoVars
<1>4. CASE \/ \E c \in Clients : Connect(c) \/ Leave(c)
           \/ accept \/ recv_failed \/ UNCHANGED vars
           \/ \E t \in Threads, rate \in Rates : Tune(t, rate)
           \/ \E t \in Threads, pin \in {0, 1} : PushToTalk(t, pin)
  BY <1>3, <1>4 DEF Connect, Leave, accept, recv_failed, Refuse, Tune, PushToTalk, vars
<1>5. ASSUME NEW command \in 0 .. 4, recv(command) PROVE FifoInv'
  <2>1. Fills
    BY <1>5 DEF recv, GiveSlot, Refuse, CreateHandler, Types
  <2>2. tx_cntr' \in 0 .. tx_cntr /\ rx_cntr' \in 0 .. RX_FULL
    BY <1>5 DEF recv, fifoVars, FifoInv
  <2> QED
    BY <1>1, <2>1, <2>2
<1>6. ASSUME NEW t \in Threads, StartControl(t) \/ StartData(t) PROVE FifoInv'
  <2>3. /\ \A u \in Threads \ {t} : thread'[u] = thread[u]
        /\ thread'[t].pc \in {"loop", "check"}
    BY <1>6 DEF StartControl, StartData, Types
  <2>1. Fills
    BY <2>3
  <2>2. tx_cntr' \in 0 .. tx_cntr /\ rx_cntr' \in 0 .. RX_FULL
    BY <1>6 DEF StartControl, StartData, fifoVars, FifoInv
  <2> QED
    BY <1>1, <2>1, <2>2
<1>7. ASSUME NEW t \in Threads, EndControl(t) \/ Restore(t) \/ Close(t) \/ EndData(t) PROVE FifoInv'
  <2>1. Fills
    BY <1>2, <1>7 DEF EndControl, Restore, Close, EndData
  <2> QED
    BY <1>1, <1>7, <2>1 DEF EndControl, Restore, Close, EndData, fifoVars, FifoInv
<1>8. ASSUME NEW t \in Threads, FreeSlot(t) PROVE FifoInv'
  <2>1. Fills
    BY <1>8 DEF FreeSlot, Types
  <2>2. tx_cntr' \in 0 .. tx_cntr /\ rx_cntr' \in 0 .. RX_FULL
    BY <1>8 DEF FreeSlot, fifoVars, FifoInv
  <2> QED
    BY <1>1, <2>1, <2>2
<1>9. ASSUME NEW t \in Threads, RxCheck(t) \/ RxWait(t) \/ RxCopy(t) \/ RxSend(t) PROVE FifoInv'
  <2>3. /\ \A u \in Threads \ {t} : thread'[u] = thread[u]
        /\ thread'[t].slot = RX_DATA
    BY <1>9 DEF RxCheck, RxWait, RxCopy, RxSend, Goto, Types
  <2>1. Fills
    BY <2>3
  <2>2. tx_cntr' = tx_cntr /\ rx_cntr' \in 0 .. RX_FULL
    BY <1>9 DEF RxCheck, RxWait, RxCopy, RxSend, fifoVars, FifoInv
  <2> QED
    BY <1>1, <2>1, <2>2 DEF FifoInv
<1>10. ASSUME NEW t \in Threads, TxRecv(t) PROVE FifoInv'
  <2>1. Fills
    BY <1>10 DEF TxRecv, Goto, Types
  <2> QED
    BY <1>1, <1>10, <2>1 DEF TxRecv, fifoVars, FifoInv
<1>11. ASSUME NEW t \in Threads, TxWait(t) PROVE FifoInv'
  BY <1>11 DEF TxWait, FifoInv
<1>12. ASSUME NEW t \in Threads, TxCopy(t) PROVE FifoInv'
  <2>1. \A u \in Threads : ~Writing(u)'
    BY <1>12 DEF TxCopy, Goto, Types, SlotInv
  <2>2. tx_cntr <= BLOCK /\ tx_cntr' = tx_cntr + BLOCK /\ rx_cntr' = rx_cntr
    BY <1>12 DEF TxCopy, FifoInv
  <2> QED
    BY <2>1, <2>2 DEF FifoInv
<1>13. CASE RxSample \/ TxSample
  BY <1>1, <1>13 DEF RxSample, TxSample, FifoInv
<1> QED
  BY <1>4, <1>5, <1>6, <1>7, <1>8, <1>9, <1>10, <1>11, <1>12, <1>13 DEF Next, Work, End

(* The types, and that the transmitter FIFO has room for every block.      *)
THEOREM TypeCorrect == Spec => []TypeInvariant
<1>1. Init => FifoInv
  BY TransceiverAssumption DEF Init, FifoInv, Is
<1>2. Inv /\ FifoInv => TypeInvariant
  BY DEF Inv, Types, FifoInv, TypeInvariant
<1> QED
  BY <1>1, <1>2, InvAlways, FifoStep, PTL DEF Spec
=============================================================================
