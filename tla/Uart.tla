-------------------------------- MODULE Uart --------------------------------
(***************************************************************************)
(* The Zynq serial port in its simple buffered mode                        *)
(* (arch/arm/mach/zynq/uart.c): two ring buffers without a lock between    *)
(* the thread that calls uart_read, uart_write and uart_flush and the      *)
(* interrupt handler.                                                      *)
(*                                                                         *)
(* One core: the handler is one step, and it comes between any two steps   *)
(* of the thread that it can tell apart.  "++i > size-1" followed by       *)
(* "i = 0" are two steps: in between, the index is size.  Bytes are        *)
(* numbered in the order in which they are received or written.            *)
(***************************************************************************)
EXTENDS Integers, Sequences

CONSTANTS RxSize, TxSize,   \* uRxSize and uTxSize
          Depth,            \* bytes in the transmit FIFO of the hardware
          Word,             \* BT_u32 counts modulo Word
          Traffic           \* how many bytes are [received, written]: a bound

ASSUME RxSizes == RxSize \in Nat /\ RxSize > 1
ASSUME TxSizes == TxSize \in Nat /\ TxSize > 1 /\ Depth \in Nat /\ Depth > 1
ASSUME WordSize == Word \in Nat /\ Word > RxSize /\ Word > TxSize
ASSUME Bounds == Traffic \subseteq [rx : Nat, tx : Nat]

VARIABLES traffic,          \* the bytes of this behaviour
          uRxBegin, uRxEnd, RxBuffer,
          uTxBegin, uTxEnd, TxBuffer,
          at,               \* where the thread is
          fifo, shifter,    \* transmit FIFO and shift register (0: idle)
          txEmpty,          \* TXEMPTY is pending in the interrupt status
          received, read,   \* bytes received, and what uart_read returned
          written, cleared, \* bytes written, and bytes thrown away
          wire,             \* the bytes sent
          torn,             \* the handler ran past the end of the transmit ring
          ahead, avail      \* uart_get_available: its last test, and *pTransmit, *pReceive

rxVars == <<uRxBegin, uRxEnd, RxBuffer, received, read>>
txVars == <<uTxBegin, uTxEnd, TxBuffer, fifo, shifter, txEmpty,
            written, cleared, wire, torn>>
ask == <<ahead, avail>>
vars == <<traffic, rxVars, txVars, at, ask>>

\* From one slot of a ring to another.
Distance(b, e, size) == IF e >= b THEN e - b ELSE e - b + size

\* uart_set_config has allocated the buffers.
Init == /\ traffic \in Traffic
        /\ uRxBegin = 0 /\ uRxEnd = 0 /\ RxBuffer = [i \in 0 .. RxSize - 1 |-> 0]
        /\ uTxBegin = 0 /\ uTxEnd = 0 /\ TxBuffer = [i \in 0 .. TxSize - 1 |-> 0]
        /\ at = "idle" /\ fifo = <<>> /\ shifter = 0 /\ txEmpty = FALSE
        /\ received = 0 /\ read = <<>>
        /\ written = 0 /\ cleared = 0 /\ wire = <<>> /\ torn = FALSE
        /\ ahead = FALSE /\ avail = [tx |-> 0, rx |-> 0]

-----------------------------------------------------------------------------
\* Mutant: without the other test, for a ring that wraps.
RxFullNoWrap == uRxEnd + 1 = uRxBegin

(* The receive ring is full.  uRxBegin is the slot read last, uRxEnd the   *)
(* slot filled last.                                                       *)
RxFull == \/ uRxEnd + 1 = uRxBegin
          \/ uRxEnd = RxSize - 1 /\ uRxBegin = 0

(* uart_irq_handler takes a byte from the receive FIFO.  A handler that    *)
(* finds several does this several times in a row.                         *)
IrqReceive ==
    /\ received < traffic.rx
    /\ received' = received + 1
    /\ IF RxFull THEN UNCHANGED <<uRxEnd, RxBuffer>>
       ELSE /\ uRxEnd' = IF uRxEnd + 1 > RxSize - 1 THEN 0 ELSE uRxEnd + 1
            /\ RxBuffer' = [RxBuffer EXCEPT ![uRxEnd'] = received + 1]
    /\ UNCHANGED <<uRxBegin, read, txVars, at>>

\* uart_read, for each byte: ++uRxBegin ...
ReadNext == /\ at = "idle" /\ uRxBegin # uRxEnd
            /\ uRxBegin' = uRxBegin + 1
            /\ at' = "read_wrap"
            /\ UNCHANGED <<uRxEnd, RxBuffer, received, read, txVars>>

\* ... back to 0 behind the last slot ...
ReadWrap == /\ at = "read_wrap"
            /\ uRxBegin' = IF uRxBegin > RxSize - 1 THEN 0 ELSE uRxBegin
            /\ at' = "read_copy"
            /\ UNCHANGED <<uRxEnd, RxBuffer, received, read, txVars>>

\* ... and copy the slot.
ReadCopy == /\ at = "read_copy"
            /\ read' = Append(read, RxBuffer[uRxBegin])
            /\ at' = "idle"
            /\ UNCHANGED <<uRxBegin, uRxEnd, RxBuffer, received, txVars>>

-----------------------------------------------------------------------------
\* Mutant: without the other test, for a ring that wraps.
TxFullNoWrap == uTxEnd + 1 = uTxBegin

(* The transmit ring is full.  uTxBegin is the next slot to send, uTxEnd   *)
(* the next to fill.                                                       *)
TxFull == \/ uTxEnd + 1 = uTxBegin
          \/ uTxEnd = TxSize - 1 /\ uTxBegin = 0

\* uart_write, for each byte once there is room: fill the slot, ++uTxEnd ...
WriteByte == /\ at = "idle" /\ ~TxFull /\ written < traffic.tx
             /\ TxBuffer' = [TxBuffer EXCEPT ![uTxEnd] = written + 1]
             /\ written' = written + 1
             /\ uTxEnd' = uTxEnd + 1
             /\ at' = "write_wrap"
             /\ UNCHANGED <<rxVars, uTxBegin, fifo, shifter, txEmpty, cleared, wire, torn>>

\* Mutant: the index may stay behind the last slot.
WriteWrapLate == /\ at = "write_wrap"
                 /\ uTxEnd' = IF uTxEnd > TxSize THEN 0 ELSE uTxEnd
                 /\ at' = "write_kick"
                 /\ UNCHANGED <<rxVars, uTxBegin, TxBuffer, fifo, shifter, txEmpty,
                                written, cleared, wire, torn>>

\* ... back to 0 behind the last slot ...
WriteWrap == /\ at = "write_wrap"
             /\ uTxEnd' = IF uTxEnd > TxSize - 1 THEN 0 ELSE uTxEnd
             /\ at' = "write_kick"
             /\ UNCHANGED <<rxVars, uTxBegin, TxBuffer, fifo, shifter, txEmpty,
                            written, cleared, wire, torn>>

\* Mutant: nobody starts an idle transmitter.
WriteNoKick == /\ at = "write_kick"
               /\ at' = "idle"
               /\ UNCHANGED <<rxVars, txVars>>

(* ... and, with the interrupt disabled, hand a byte to a transmitter      *)
(* that is idle and so will raise no interrupt.                            *)
WriteKick == /\ at = "write_kick"
             /\ at' = "idle"
             /\ IF fifo = <<>> /\ uTxEnd # uTxBegin
                THEN /\ fifo' = <<TxBuffer[uTxBegin]>>
                     /\ uTxBegin' = (uTxBegin + 1) % TxSize
                ELSE UNCHANGED <<fifo, uTxBegin>>
             /\ UNCHANGED <<rxVars, uTxEnd, TxBuffer, shifter, txEmpty,
                            written, cleared, wire, torn>>

(* How many bytes the handler moves: until the FIFO is full or uTxBegin    *)
(* meets uTxEnd, which it never does while uTxEnd is TxSize.               *)
Unsent == IF uTxEnd = TxSize THEN Depth
          ELSE Distance(uTxBegin, uTxEnd, TxSize)
Room == Depth - Len(fifo)
Moved == IF Unsent < Room THEN Unsent ELSE Room
Sending == fifo \o [i \in 1 .. Moved |-> TxBuffer[(uTxBegin + i - 1) % TxSize]]

(* uart_irq_handler on TXEMPTY.  A single byte may move on to an idle      *)
(* shift register before the handler acknowledges the interrupt.           *)
IrqTransmit ==
    /\ txEmpty
    /\ txEmpty' = FALSE
    /\ uTxBegin' = (uTxBegin + Moved) % TxSize
    /\ torn' = (torn \/ (uTxEnd = TxSize /\ Moved > Distance(uTxBegin, 0, TxSize)))
    /\ \/ fifo' = Sending /\ UNCHANGED shifter
       \/ Len(Sending) = 1 /\ shifter = 0 /\ fifo' = <<>> /\ shifter' = Sending[1]
    /\ UNCHANGED <<rxVars, uTxEnd, TxBuffer, written, cleared, wire, at>>

\* The hardware loads the shift register; the FIFO may become empty.
Load == /\ shifter = 0 /\ fifo # <<>>
        /\ shifter' = Head(fifo) /\ fifo' = Tail(fifo)
        /\ txEmpty' = (txEmpty \/ Len(fifo) = 1)
        /\ UNCHANGED <<rxVars, uTxBegin, uTxEnd, TxBuffer, written, cleared, wire, torn, at>>

\* ... and has sent the byte in it, of which there is a record until torn.
Shift == /\ shifter # 0
         /\ wire' = IF torn THEN wire ELSE Append(wire, shifter)
         /\ shifter' = 0
         /\ UNCHANGED <<rxVars, uTxBegin, uTxEnd, TxBuffer, fifo, txEmpty,
                        written, cleared, torn, at>>

-----------------------------------------------------------------------------
\* Mutant: the hardware is waited for before the ring.
FlushSwapped == \/ at = "idle" /\ shifter = 0 /\ fifo = <<>>
                   /\ at' = "flush" /\ UNCHANGED <<rxVars, txVars>>
                \/ at = "flush" /\ uTxBegin = uTxEnd
                   /\ at' = "idle" /\ UNCHANGED <<rxVars, txVars>>

\* uart_flush: wait for the ring, then for the hardware.
Flush == \/ at = "idle" /\ uTxBegin = uTxEnd
            /\ at' = "flush" /\ UNCHANGED <<rxVars, txVars>>
         \/ at = "flush" /\ shifter = 0 /\ fifo = <<>>
            /\ at' = "idle" /\ UNCHANGED <<rxVars, txVars>>

(* uart_get_available reads the indices twice: it tests which is ahead,    *)
(* and then it subtracts them.                                             *)
GetAvailable == /\ at = "idle"
                /\ ahead' = (uTxEnd >= uTxBegin)
                /\ at' = "avail_tx"
                /\ UNCHANGED <<rxVars, txVars, avail>>

\* Mutant: the slot that stays free is counted.
TransmitAll == (IF ahead THEN TxSize - uTxEnd + uTxBegin ELSE uTxBegin - uTxEnd) % Word

\* *pTransmit and *pReceive, with the indices of now and the test of before.
Transmit == (IF ahead THEN TxSize - uTxEnd + uTxBegin - 1 ELSE uTxBegin - uTxEnd - 1) % Word
Receive == (IF ahead THEN uRxEnd - uRxBegin ELSE RxSize - uRxBegin + uRxEnd) % Word

\* The bytes that can be written, and the test for those that can be read ...
AvailableTx == /\ at = "avail_tx"
               /\ avail' = [avail EXCEPT !.tx = Transmit]
               /\ ahead' = (uRxEnd >= uRxBegin)
               /\ at' = "avail_rx"
               /\ UNCHANGED <<rxVars, txVars>>

\* ... and these.
AvailableRx == /\ at = "avail_rx"
               /\ avail' = [avail EXCEPT !.rx = Receive]
               /\ at' = "answer"
               /\ UNCHANGED <<rxVars, txVars, ahead>>

\* The caller makes up its mind, and the answer is forgotten.
Answered == /\ at = "answer"
            /\ ahead' = FALSE /\ avail' = [tx |-> 0, rx |-> 0]
            /\ at' = "idle"
            /\ UNCHANGED <<rxVars, txVars>>

\* uart_tx_buffer_clear.
TxBufferClear ==
    /\ at = "idle" /\ uTxEnd # uTxBegin
    /\ cleared' = cleared + Unsent
    /\ uTxEnd' = uTxBegin
    /\ UNCHANGED <<rxVars, uTxBegin, TxBuffer, fifo, shifter, txEmpty, written, wire, torn, at>>

\* uart_enable, with the interrupt disabled: empty rings, FIFOs reset.
Enable ==
    /\ at = "idle"
    /\ uRxBegin' = 0 /\ uRxEnd' = 0 /\ uTxBegin' = 0 /\ uTxEnd' = 0
    /\ fifo' = <<>> /\ shifter' = 0 /\ txEmpty' \in BOOLEAN
    /\ cleared' = written - Len(wire)
    /\ UNCHANGED <<RxBuffer, received, read, TxBuffer, written, wire, torn, at>>

Thread == ReadNext \/ ReadWrap \/ ReadCopy \/ WriteByte \/ WriteWrap \/ WriteKick
Line == Load \/ Shift

Ask == GetAvailable \/ AvailableTx \/ AvailableRx \/ Answered
Move == Thread \/ IrqReceive \/ IrqTransmit \/ Line \/ Flush \/ TxBufferClear \/ Enable

Next == /\ Ask \/ (Move /\ UNCHANGED ask)
        /\ UNCHANGED traffic

(* The thread finishes a call it has begun, an interrupt that is pending   *)
(* is taken, and the line runs.                                            *)
Fairness ==
    /\ WF_vars((ReadWrap \/ ReadCopy \/ WriteWrap \/ WriteKick) /\ UNCHANGED <<traffic, ask>>)
    /\ WF_vars((AvailableTx \/ AvailableRx) /\ UNCHANGED traffic)
    /\ WF_vars(IrqTransmit /\ UNCHANGED <<traffic, ask>>)
    /\ WF_vars(Line /\ UNCHANGED <<traffic, ask>>)

Spec == Init /\ [][Next]_vars /\ Fairness

-----------------------------------------------------------------------------
Slot(b, i, size) == IF b + i < size THEN b + i ELSE b + i - size

\* The slot that uart_read has taken, or that comes before the next one.
RxAt == IF uRxBegin = RxSize THEN 0 ELSE uRxBegin
RxWaiting == Distance(RxAt, uRxEnd, RxSize)
RxQueue == [i \in 1 .. RxWaiting |-> RxBuffer[Slot(RxAt, i, RxSize)]]
RxOut == IF at \in {"read_wrap", "read_copy"} THEN Append(read, RxBuffer[RxAt]) ELSE read

TxAt == IF uTxEnd = TxSize THEN 0 ELSE uTxEnd
TxQueue == [i \in 1 .. Distance(uTxBegin, TxAt, TxSize) |->
               TxBuffer[Slot(uTxBegin, i - 1, TxSize)]]
TxAll == wire \o (IF shifter = 0 THEN <<>> ELSE <<shifter>>) \o fifo \o TxQueue

TypeOK == /\ traffic \in Traffic
          /\ uRxBegin \in 0 .. RxSize /\ uRxEnd \in 0 .. RxSize - 1
          /\ RxBuffer \in [0 .. RxSize - 1 -> Nat]
          /\ uTxBegin \in 0 .. TxSize - 1 /\ uTxEnd \in 0 .. TxSize
          /\ TxBuffer \in [0 .. TxSize - 1 -> Nat]
          /\ at \in {"idle", "read_wrap", "read_copy", "write_wrap", "write_kick", "flush",
                     "avail_tx", "avail_rx", "answer"}
          /\ fifo \in Seq(Nat) /\ Len(fifo) <= Depth /\ shifter \in Nat
          /\ txEmpty \in BOOLEAN /\ torn \in BOOLEAN
          /\ received \in Nat /\ read \in Seq(Nat)
          /\ written \in Nat /\ cleared \in Int /\ wire \in Seq(Nat)
          /\ ahead \in BOOLEAN /\ avail \in [tx : 0 .. Word - 1, rx : 0 .. Word - 1]

(* The receive ring is a lossy channel of RxSize - 1 bytes, although the   *)
(* handler and uart_read share it without a lock and uart_read moves       *)
(* uRxBegin past the end of the ring for a moment: bytes come out in       *)
(* order, and one is dropped only while the ring is full.                  *)
Rx == INSTANCE LossyChannel WITH Capacity <- RxSize - 1, next <- received + 1,
                                queue <- RxQueue, out <- RxOut
RxIsChannel == Rx!Spec

(* Every byte that uart_write took is sent once, in order, or thrown away  *)
(* by uart_tx_buffer_clear or uart_enable, unless the handler ran while    *)
(* uTxEnd was behind the last slot and had room for more than was left.    *)
TxInOrder == torn \/ /\ \A i, j \in DOMAIN TxAll : i < j => TxAll[i] < TxAll[j]
                     /\ Len(TxAll) + cleared = written

(* uart_flush returns only when what was written before has left the port. *)
FlushSends == [][at = "flush" /\ at' = "idle" => torn \/ Len(wire) + cleared = written]_vars

(* The index of the handler has gone round the ring since uart_get_        *)
(* available tested it.                                                    *)
TxPassed == ~ahead /\ uTxBegin <= uTxEnd
RxPassed == ahead /\ uRxEnd < uRxBegin

(* uart_get_available says what the rings hold at the moment it subtracts, *)
(* although it takes no lock and the handler runs between its test and     *)
(* its subtraction.  The one exception: when the index of the handler goes *)
(* back to 0 just there, the number is Word minus the size of the ring too *)
(* large, for the caller far more than the ring can ever hold.             *)
AvailableExact ==
    [][/\ at = "avail_tx" /\ at' = "avail_rx" =>
             avail'.tx = TxSize - 1 - Len(TxQueue) + (IF TxPassed THEN Word - TxSize ELSE 0)
       /\ at = "avail_rx" /\ at' = "answer" =>
             avail'.rx = Len(RxQueue) + (IF RxPassed THEN Word - RxSize ELSE 0)]_vars

(* Whatever is written gets sent, though the transmit interrupt comes only *)
(* when the FIFO becomes empty: uart_write starts an idle transmitter, and *)
(* no race with the handler leaves bytes in the ring with nobody to send   *)
(* them.                                                                   *)
TxDrains == []<>(uTxBegin = uTxEnd /\ fifo = <<>> /\ shifter = 0)
=============================================================================
