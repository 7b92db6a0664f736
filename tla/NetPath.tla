------------------------------ MODULE NetPath ------------------------------
(***************************************************************************)
(* The way of a frame between the wire and the TCP/IP stack: the receive   *)
(* and transmit descriptor rings of the Zynq GEM                           *)
(* (arch/arm/mach/zynq/gem.c), its interrupt handler, the network task     *)
(* that empties the receive ring (os/src/net/bt_net.c), and the lwIP glue  *)
(* with its queue of frames to send (os/src/net/bt_lwip.c).                *)
(*                                                                         *)
(* Two threads: "net" is net_task, "tcpip" the lwIP thread that calls      *)
(* lwip_output.  The handler is one step.  Frames are numbered; a frame to *)
(* send is a chain of Pieces pbufs, copied one after the other.            *)
(*                                                                         *)
(* SYS_ARCH_PROTECT is one mutex for all of lwIP, which a thread can take  *)
(* again while it has it.  pbuf_alloc, pbuf_free and tcpip_input take it   *)
(* for a moment, lwip_output for as long as it sends or queues a frame.    *)
(***************************************************************************)
EXTENDS Integers, Sequences, FiniteSets

CONSTANTS RECV_BD_CNT, SEND_BD_CNT,
          TxQueue,          \* elements of hTxFifo (20 in the code)
          Pieces,           \* pbufs in the chain of a frame
          Traffic,          \* how many frames are [received, sent]: a bound
          Failures          \* bound on failing calls of pbuf_alloc and tcpip_input

ASSUME RingSizes == RECV_BD_CNT \in Nat \ {0} /\ SEND_BD_CNT \in Nat \ {0}
ASSUME Sizes == TxQueue \in Nat \ {0} /\ Pieces \in Nat \ {0} /\ Failures \in Nat
ASSUME Bounds == Traffic \subseteq [rx : Nat, tx : Nat]

VARIABLES traffic,          \* the frames of this behaviour
          rxOwned, rxFrame, \* receive descriptors: RX_BD_OWNERSHIP, and the frame
          rx_ci, rxDma,     \* the descriptor of the driver and of the hardware
          rxIrq,            \* RX_COMPLETE is pending
          dataReady,        \* DATA_READY in ulFlags
          sem,              \* g_hMutex, a binary semaphore, can be taken
          arrived, taken,   \* frames from the wire, and frames lwip_receive read
          failures,         \* calls of pbuf_alloc and tcpip_input that failed
          missed,           \* net_task stops with a frame it has not looked for
          txUsed, txBuf, txLen, tx_ci, tx_bytes, txDma,
          hTxFifo,          \* the frames queued for sending
          mutex,            \* who is inside SYS_ARCH_PROTECT
          last,             \* net_task makes its last look at the queue
          at, frame, copied,\* each thread: where it is, its frame, pbufs copied
          sent, wire,       \* frames handed to lwip_output, and what was sent
          overlap           \* both threads were sending at the same time

rxRing == <<rxOwned, rxFrame, rx_ci, rxDma>>
rxVars == <<rxRing, rxIrq, dataReady, sem, arrived, taken, failures, missed>>
txRing == <<txUsed, txBuf, txLen, tx_ci, tx_bytes, txDma>>
caller == <<frame, copied, sent, wire>>
txVars == <<txRing, hTxFifo, mutex, last, caller, overlap>>
vars == <<traffic, rxVars, txVars, at>>

Thread == {"net", "tcpip"}
RxBd == 0 .. RECV_BD_CNT - 1
TxBd == 0 .. SEND_BD_CNT - 1
Piece == Nat \X Nat
Room == 1 .. Pieces * Cardinality(Thread)   \* pieces two threads can put in a buffer

\* descriptor_init, bt_net_manager_init.
Init == /\ traffic \in Traffic
        /\ rxOwned = [i \in RxBd |-> FALSE] /\ rxFrame = [i \in RxBd |-> 0]
        /\ rx_ci = 0 /\ rxDma = 0 /\ rxIrq = FALSE /\ dataReady = FALSE /\ sem = FALSE
        /\ arrived = 0 /\ taken = <<>> /\ failures = 0 /\ missed = FALSE
        /\ txUsed = [i \in TxBd |-> TRUE] /\ txBuf = [i \in TxBd |-> [k \in Room |-> <<0, 0>>]]
        /\ txLen = [i \in TxBd |-> 0] /\ tx_ci = 0 /\ tx_bytes = 0 /\ txDma = 0
        /\ hTxFifo = <<>> /\ mutex = "free" /\ last = FALSE
        /\ at = [net |-> "pend", tcpip |-> "idle"]
        /\ frame = [t \in Thread |-> 0] /\ copied = [t \in Thread |-> 0]
        /\ sent = 0 /\ wire = <<>> /\ overlap = FALSE

Go(t, place) == at' = [at EXCEPT ![t] = place]

-----------------------------------------------------------------------------
(* The hardware stores a frame, unless the descriptor is still the         *)
(* driver's.                                                               *)
Arrive ==
    /\ arrived < traffic.rx
    /\ arrived' = arrived + 1
    /\ IF rxOwned[rxDma] THEN UNCHANGED <<rxOwned, rxFrame, rxDma, rxIrq>>
       ELSE /\ rxOwned' = [rxOwned EXCEPT ![rxDma] = TRUE]
            /\ rxFrame' = [rxFrame EXCEPT ![rxDma] = arrived + 1]
            /\ rxDma' = (rxDma + 1) % RECV_BD_CNT
            /\ rxIrq' = TRUE
    /\ UNCHANGED <<rx_ci, dataReady, sem, taken, failures, missed, txVars, at>>

\* Mutant: the event sets the flag and wakes nobody.
GemInterruptSilent ==
    /\ rxIrq /\ rxIrq' = FALSE
    /\ dataReady' = TRUE
    /\ missed' = (missed \/ last)
    /\ UNCHANGED <<rxRing, sem, arrived, taken, failures, txVars, at>>

(* gem_interrupt_handler and net_event_handler.  When net_task has looked  *)
(* for the last time and has yet to clear DATA_READY, the event is lost.   *)
GemInterrupt ==
    /\ rxIrq /\ rxIrq' = FALSE
    /\ dataReady' = TRUE
    /\ sem' = TRUE
    /\ missed' = (missed \/ last)
    /\ UNCHANGED <<rxRing, arrived, taken, failures, txVars, at>>

\* net_task: BT_PendMutex ...
NetPend == /\ at["net"] = "pend" /\ sem
           /\ sem' = FALSE
           /\ Go("net", "check")
           /\ UNCHANGED <<rxRing, rxIrq, dataReady, arrived, taken, failures, missed,
                          txVars>>

\* ... is there anything to do for the interface?
NetCheck == /\ at["net"] = "check"
            /\ Go("net", IF dataReady THEN "receive" ELSE "pend")
            /\ missed' = (missed /\ ~dataReady)
            /\ UNCHANGED <<rxRing, rxIrq, dataReady, sem, arrived, taken, failures,
                           txVars>>

\* Mutant: the descriptor to give back is found after rx_ci has moved on.
RxReleaseNext == [rxOwned EXCEPT ![(rx_ci + 1) % RECV_BD_CNT] = FALSE]

\* mac_read gives the descriptor of the frame back to the hardware.
RxRelease == [rxOwned EXCEPT ![rx_ci] = FALSE]

\* lwip_receive: mac_dataready finds a frame, or net_task has made its last look.
NetReceive ==
    /\ at["net"] = "receive"
    /\ Go("net", IF rxOwned[rx_ci] THEN "alloc" ELSE "ready")
    /\ last' = ~rxOwned[rx_ci]
    /\ UNCHANGED <<rxVars, txRing, hTxFifo, mutex, caller, overlap>>

(* pbuf_alloc fails, and pfnDropFrame leaves the frame where it is; or     *)
(* mac_read copies the frame and gives its descriptor back.                *)
NetAlloc ==
    /\ at["net"] = "alloc" /\ mutex = "free"
    /\ \/ /\ failures < Failures
          /\ failures' = failures + 1
          /\ last' = TRUE /\ missed' = TRUE
          /\ Go("net", "ready")
          /\ UNCHANGED <<rxOwned, rx_ci, taken>>
       \/ /\ taken' = Append(taken, rxFrame[rx_ci])
          /\ rx_ci' = (rx_ci + 1) % RECV_BD_CNT
          /\ rxOwned' = RxRelease
          /\ Go("net", "input")
          /\ UNCHANGED <<last, failures, missed>>
    /\ UNCHANGED <<rxFrame, rxDma, rxIrq, dataReady, sem, arrived, txRing, hTxFifo,
                   mutex, caller, overlap>>

\* tcpip_input posts the frame to the lwIP thread, or has no room for the message.
NetInput ==
    /\ at["net"] = "input" /\ mutex = "free"
    /\ \/ Go("net", "ready") /\ UNCHANGED failures
       \/ /\ failures < Failures
          /\ failures' = failures + 1
          /\ Go("net", "drop")
    /\ UNCHANGED <<rxRing, rxIrq, dataReady, sem, arrived, taken, missed, txVars>>

\* After the last look net_task clears DATA_READY, whatever came since.
NetClear == /\ at["net"] = "clear"
            /\ dataReady' = FALSE /\ last' = FALSE
            /\ Go("net", "pend")
            /\ UNCHANGED <<rxRing, rxIrq, sem, arrived, taken, failures, missed, txRing,
                           hTxFifo, mutex, caller, overlap>>

-----------------------------------------------------------------------------
(* A thread is sending from its look at the next transmit descriptor to    *)
(* mac_sendframe.                                                          *)
IsSending(t) == at[t] \in {"pop", "copy"}

\* Mutant: one frame for each wake-up.
NetAfterFirst == "clear"

\* bt_lwip_process goes round as long as there are frames to receive.
NetAfterSend == IF last THEN "clear" ELSE "receive"

\* pbuf_free, of a frame that tcpip_input refused or of one that was sent.
NetFree ==
    /\ at["net"] \in {"drop", "free"} /\ mutex = "free"
    /\ Go("net", IF at["net"] = "drop" THEN "ready" ELSE NetAfterSend)
    /\ UNCHANGED <<rxVars, txVars>>

\* bt_lwip_process asks mac_tx_ready, outside SYS_ARCH_PROTECT.
NetTxReady ==
    /\ at["net"] = "ready"
    /\ Go("net", IF txUsed[tx_ci] THEN "pop" ELSE NetAfterSend)
    /\ overlap' = (overlap \/ (txUsed[tx_ci] /\ IsSending("tcpip")))
    /\ UNCHANGED <<rxVars, txRing, hTxFifo, mutex, last, caller>>

\* read_packet, inside SYS_ARCH_PROTECT: the oldest queued frame, if any.
ReadPacket ==
    /\ at["net"] = "pop" /\ mutex = "free"
    /\ IF hTxFifo = <<>>
       THEN Go("net", NetAfterSend) /\ UNCHANGED <<hTxFifo, frame>>
       ELSE /\ frame' = [frame EXCEPT !["net"] = Head(hTxFifo)]
            /\ hTxFifo' = Tail(hTxFifo)
            /\ Go("net", "copy")
    /\ UNCHANGED <<rxVars, txRing, mutex, last, copied, sent, wire, overlap>>

\* Mutant: a frame is sent at once although older ones are queued.
OutputReady == txUsed[tx_ci]

\* The transmitter is idle, and there is nothing on the queue.
OutputNow == hTxFifo = <<>> /\ txUsed[tx_ci]

\* lwip_output takes SYS_ARCH_PROTECT and decides to send or to queue.
Output ==
    /\ at["tcpip"] = "idle" /\ mutex = "free" /\ sent < traffic.tx
    /\ sent' = sent + 1
    /\ frame' = [frame EXCEPT !["tcpip"] = sent + 1]
    /\ mutex' = "tcpip"
    /\ Go("tcpip", IF OutputNow THEN "copy" ELSE "queue")
    /\ overlap' = (overlap \/ (OutputNow /\ IsSending("net")))
    /\ UNCHANGED <<rxVars, txRing, hTxFifo, last, copied, wire>>

\* write_packet: BT_FifoWrite waits for room, with SYS_ARCH_PROTECT held.
WritePacket ==
    /\ at["tcpip"] = "queue" /\ Len(hTxFifo) < TxQueue
    /\ hTxFifo' = Append(hTxFifo, frame["tcpip"])
    /\ frame' = [frame EXCEPT !["tcpip"] = 0]
    /\ mutex' = "free"
    /\ Go("tcpip", "idle")
    /\ UNCHANGED <<rxVars, txRing, last, copied, sent, wire, overlap>>

\* lwIPif_transmit: mac_write appends a pbuf to the buffer of the descriptor ...
MacWrite(t) ==
    /\ at[t] = "copy" /\ copied[t] < Pieces
    /\ txBuf' = [txBuf EXCEPT ![tx_ci][tx_bytes + 1] = <<frame[t], copied[t] + 1>>]
    /\ tx_bytes' = tx_bytes + 1
    /\ copied' = [copied EXCEPT ![t] = @ + 1]
    /\ UNCHANGED <<rxVars, txUsed, txLen, tx_ci, txDma, hTxFifo, mutex, last, frame,
                   sent, wire, overlap, at>>

(* ... and mac_sendframe hands it to the hardware.  lwip_output frees the  *)
(* chain with SYS_ARCH_PROTECT held, net_task has to wait for it.          *)
MacSendFrame(t) ==
    /\ at[t] = "copy" /\ copied[t] = Pieces
    /\ txLen' = [txLen EXCEPT ![tx_ci] = tx_bytes]
    /\ tx_bytes' = 0
    /\ txUsed' = [txUsed EXCEPT ![tx_ci] = FALSE]
    /\ tx_ci' = (tx_ci + 1) % SEND_BD_CNT
    /\ copied' = [copied EXCEPT ![t] = 0] /\ frame' = [frame EXCEPT ![t] = 0]
    /\ mutex' = IF t = "tcpip" THEN "free" ELSE mutex
    /\ Go(t, IF t = "tcpip" THEN "idle" ELSE "free")
    /\ UNCHANGED <<rxVars, txBuf, txDma, hTxFifo, last, sent, wire, overlap>>

\* The hardware sends the frame of the next descriptor it owns.
DmaSend == /\ ~txUsed[txDma]
           /\ wire' = Append(wire, SubSeq(txBuf[txDma], 1, txLen[txDma]))
           /\ txUsed' = [txUsed EXCEPT ![txDma] = TRUE]
           /\ txDma' = (txDma + 1) % SEND_BD_CNT
           /\ UNCHANGED <<rxVars, txBuf, txLen, tx_ci, tx_bytes, hTxFifo, mutex, last,
                          frame, copied, sent, overlap, at>>

-----------------------------------------------------------------------------
NetTask == NetPend \/ NetCheck \/ NetReceive \/ NetAlloc \/ NetInput \/ NetFree \/ NetClear
           \/ NetTxReady \/ ReadPacket \/ MacWrite("net") \/ MacSendFrame("net")
TcpipThread == WritePacket \/ MacWrite("tcpip") \/ MacSendFrame("tcpip")

Next == /\ \/ Arrive \/ GemInterrupt \/ NetTask \/ Output \/ TcpipThread \/ DmaSend
        /\ UNCHANGED traffic

(* The scheduler runs every thread that can run, interrupts are taken and  *)
(* the hardware sends what it was given; frames come and go as they like.  *)
Fairness == /\ WF_vars(GemInterrupt /\ UNCHANGED traffic)
            /\ WF_vars(NetTask /\ UNCHANGED traffic)
            /\ WF_vars(TcpipThread /\ UNCHANGED traffic)
            /\ WF_vars(DmaSend /\ UNCHANGED traffic)

Spec == Init /\ [][Next]_vars /\ Fairness

-----------------------------------------------------------------------------
TypeOK ==
    /\ traffic \in Traffic
    /\ rxOwned \in [RxBd -> BOOLEAN] /\ rxFrame \in [RxBd -> Nat]
    /\ rx_ci \in RxBd /\ rxDma \in RxBd
    /\ rxIrq \in BOOLEAN /\ dataReady \in BOOLEAN /\ sem \in BOOLEAN
    /\ arrived \in 0 .. traffic.rx /\ taken \in Seq(Nat) /\ failures \in 0 .. Failures
    /\ missed \in BOOLEAN /\ overlap \in BOOLEAN /\ last \in BOOLEAN
    /\ txUsed \in [TxBd -> BOOLEAN] /\ txBuf \in [TxBd -> [Room -> Piece]]
    /\ txLen \in [TxBd -> Nat] /\ tx_ci \in TxBd /\ txDma \in TxBd /\ tx_bytes \in Nat
    /\ hTxFifo \in Seq(Nat) /\ Len(hTxFifo) <= TxQueue
    /\ mutex \in {"free", "tcpip"}
    /\ at["net"] \in {"pend", "check", "receive", "alloc", "input", "drop", "ready", "pop",
                      "copy", "free", "clear"}
    /\ at["tcpip"] \in {"idle", "copy", "queue"}
    /\ frame \in [Thread -> Nat] /\ copied \in [Thread -> 0 .. Pieces]
    /\ sent \in 0 .. traffic.tx /\ wire \in Seq(Seq(Piece))

\* The frames in the receive ring, the next one to read first.
RxRing == [i \in 1 .. Cardinality({d \in RxBd : rxOwned[d]}) |->
              rxFrame[(rx_ci + i - 1) % RECV_BD_CNT]]

Rx == INSTANCE LossyChannel WITH Capacity <- RECV_BD_CNT, next <- arrived + 1,
                                 queue <- RxRing, out <- taken

(* The receive ring of gem.c is a queue of RECV_BD_CNT frames:             *)
(* lwip_receive reads the frames in the order they came, none twice, and   *)
(* one is lost only when all descriptors are full.  In particular mac_read *)
(* and the hardware never disagree about whose a descriptor is.            *)
RxIsChannel == Rx!Spec

(* A received frame does not go unnoticed: its interrupt is pending, or    *)
(* DATA_READY is set and net_task is awake or about to wake, except when   *)
(* the event came between the last look of bt_lwip_process and the line of *)
(* net_task that clears DATA_READY, or when there was no pbuf for a frame. *)
RxNoticed == rxOwned[rx_ci] /\ ~rxIrq /\ ~missed
                 => dataReady /\ (sem \/ at["net"] # "pend")

(* lwip_output waits, with SYS_ARCH_PROTECT held, for room in a full queue *)
(* that only net_task can empty, and net_task waits for SYS_ARCH_PROTECT.  *)
Stuck == /\ at["tcpip"] = "queue" /\ Len(hTxFifo) = TxQueue
         /\ at["net"] \in {"alloc", "input", "drop", "pop", "free"}

(* A received frame is read and handed to tcpip_input, which takes it or   *)
(* refuses it, unless its event is lost in net_task or net_task and        *)
(* lwip_output wait for each other.                                        *)
RxServed == \A n \in UNION {1 .. t.rx : t \in Traffic} :
                (\E i \in DOMAIN RxRing : RxRing[i] = n)
                    ~> \/ (\E i \in DOMAIN taken : taken[i] = n)
                          /\ at["net"] \notin {"input", "drop"}
                       \/ missed
                       \/ Stuck

Whole(f) == [k \in 1 .. Pieces |-> <<f, k>>]

(* As long as net_task and lwip_output do not send at the same time, the   *)
(* frames go out whole, in the order lwip_output was called with them, and *)
(* none is left out: no frame overtakes a queued one, and no buffer is     *)
(* written again before the hardware has sent it.                          *)
TxInOrder == ~overlap => wire = [i \in 1 .. Len(wire) |-> Whole(i)]

(* write_packet comes back when the queue is full: "@return 1 if           *)
(* successful, 0 if q is full" (bt_lwip.c).                                *)
WritePacketReturns == (at["tcpip"] = "queue") ~> (at["tcpip"] # "queue")
=============================================================================
