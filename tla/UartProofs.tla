----------------------------- MODULE UartProofs -----------------------------
(***************************************************************************)
(* The serial port for every size of the rings and of the FIFO and every   *)
(* interleaving of the thread with the handler.                            *)
(*                                                                         *)
(* The receive ring implements LossyChannel, although nothing locks it and *)
(* uRxBegin leaves it for a moment.  The transmit ring, the FIFO and the   *)
(* shift register keep the bytes in order (IInv): each step either leaves  *)
(* the bytes on their way as they are, moving some of them on, or adds one *)
(* at the end, or drops the last ones.                                     *)
(***************************************************************************)
EXTENDS Uart, TLAPS, SequenceTheorems

(* What the refinement needs: the indices are slots, but for uRxBegin      *)
(* between its increment and its test.                                     *)
RxInv == /\ uRxEnd \in 0 .. RxSize - 1 /\ uRxBegin \in 0 .. RxSize
         /\ uRxBegin = RxSize => at = "read_wrap"
         /\ RxBuffer \in [0 .. RxSize - 1 -> Nat] /\ received \in Nat /\ read \in Seq(Nat)

-----------------------------------------------------------------------------
\* The slots of the ring, counted from slot b.
LEMMA SlotFacts ==
    ASSUME NEW b \in 0 .. RxSize - 1, NEW e \in 0 .. RxSize - 1
    PROVE  /\ Distance(b, e, RxSize) \in 0 .. RxSize - 1
           /\ \A i \in 0 .. RxSize - 1 : Slot(b, i, RxSize) \in 0 .. RxSize - 1
           /\ \A i, j \in 0 .. RxSize - 1 : Slot(b, i, RxSize) = Slot(b, j, RxSize) => i = j
           /\ Slot(b, Distance(b, e, RxSize), RxSize) = e
           /\ Slot(b, 0, RxSize) = b
BY RxSizes DEF Distance, Slot

\* uart_set_config: both indices are 0.
LEMMA RxInit == Init => RxInv
BY RxSizes DEF Init, RxInv

\* The steps of the thread and of the handler keep the indices inside the ring.
LEMMA RxStep == RxInv /\ [Next]_vars => RxInv'
<1>. SUFFICES ASSUME RxInv, [Next]_vars PROVE RxInv'
  BY Zenon
<1>1. CASE IrqReceive
  <2>1. uRxEnd' \in 0 .. RxSize - 1 /\ uRxBegin' = uRxBegin /\ at' = at /\ read' = read
    BY <1>1, RxSizes DEF RxInv, IrqReceive
  <2>2. received + 1 \in Nat /\ received' = received + 1
    BY <1>1 DEF RxInv, IrqReceive
  <2>3. RxBuffer' \in [0 .. RxSize - 1 -> Nat]
    <3>1. RxBuffer' = RxBuffer \/ RxBuffer' = [RxBuffer EXCEPT ![uRxEnd'] = received + 1]
      BY <1>1, Zenon DEF IrqReceive
    <3>. QED BY <2>2, <3>1, Zenon DEF RxInv
  <2>. QED BY <2>1, <2>2, <2>3, Zenon DEF RxInv
<1>2. CASE ReadNext
  BY <1>2, RxSizes DEF RxInv, ReadNext
<1>3. CASE ReadWrap
  BY <1>3, RxSizes DEF RxInv, ReadWrap
<1>4. CASE ReadCopy
  <2>1. uRxBegin \in 0 .. RxSize - 1
    BY <1>4, RxSizes DEF RxInv, ReadCopy
  <2>2. read' \in Seq(Nat)
    <3>1. read' = Append(read, RxBuffer[uRxBegin])
      BY <1>4, Zenon DEF ReadCopy
    <3>2. RxBuffer[uRxBegin] \in Nat /\ read \in Seq(Nat)
      BY <2>1, Zenon DEF RxInv
    <3>. QED BY <3>1, <3>2
  <2>. QED BY <1>4, <2>1, <2>2, RxSizes, Zenon DEF RxInv, ReadCopy
<1>5. CASE WriteByte \/ WriteWrap \/ WriteKick \/ IrqTransmit \/ Line \/ Flush \/ TxBufferClear
  BY <1>5, Zenon DEF RxInv, WriteByte, WriteWrap, WriteKick, IrqTransmit, Line, Load, Shift, Flush,
              TxBufferClear, rxVars
<1>6. CASE Enable
  BY <1>6, RxSizes DEF RxInv, Enable
<1>7. CASE Ask
  <2>1. UNCHANGED rxVars /\ at # "read_wrap"
    BY <1>7, Zenon DEF Ask, GetAvailable, AvailableTx, AvailableRx, Answered
  <2>. QED BY <2>1, Zenon DEF RxInv, rxVars
<1>8. CASE UNCHANGED vars
  BY <1>8, Zenon DEF RxInv, vars, rxVars
<1>. QED BY <1>1, <1>2, <1>3, <1>4, <1>5, <1>6, <1>7, <1>8, Zenon DEF Next, Move, Thread

-----------------------------------------------------------------------------
\* The queue of the channel, in terms of the ring.
LEMMA RxQueueFacts ==
    ASSUME RxInv
    PROVE  /\ RxAt \in 0 .. RxSize - 1 /\ RxWaiting \in 0 .. RxSize - 1
           /\ \A i \in 0 .. RxWaiting : Slot(RxAt, i, RxSize) \in 0 .. RxSize - 1
           /\ RxQueue \in Seq(Nat) /\ Len(RxQueue) = RxWaiting
           /\ \A i \in 1 .. RxWaiting : RxQueue[i] = RxBuffer[Slot(RxAt, i, RxSize)]
           /\ RxFull <=> RxWaiting = RxSize - 1
<1>1. RxAt \in 0 .. RxSize - 1
  BY RxSizes DEF RxInv, RxAt
<1>2. RxWaiting \in 0 .. RxSize - 1
  BY <1>1, SlotFacts, Zenon DEF RxInv, RxWaiting
<1>3. \A i \in 0 .. RxWaiting : Slot(RxAt, i, RxSize) \in 0 .. RxSize - 1
  <2>1. \A i \in 0 .. RxSize - 1 : Slot(RxAt, i, RxSize) \in 0 .. RxSize - 1
    BY <1>1, SlotFacts, Zenon
  <2>2. \A i \in 0 .. RxWaiting : i \in 0 .. RxSize - 1
    BY <1>2, RxSizes
  <2>. QED BY <2>1, <2>2, Zenon
<1>4. /\ RxQueue \in Seq(Nat) /\ Len(RxQueue) = RxWaiting
      /\ \A i \in 1 .. RxWaiting : RxQueue[i] = RxBuffer[Slot(RxAt, i, RxSize)]
  <2>1. \A i \in 1 .. RxWaiting : RxBuffer[Slot(RxAt, i, RxSize)] \in Nat
    BY <1>2, <1>3 DEF RxInv
  <2>2. RxWaiting \in Nat
    BY <1>2, RxSizes
  <2>. QED BY <2>1, <2>2 DEF RxQueue
<1>5. RxFull <=> RxWaiting = RxSize - 1
  BY RxSizes DEF RxInv, RxFull, RxWaiting, RxAt, Distance
<1>. QED BY <1>1, <1>2, <1>3, <1>4, <1>5, Zenon

\* Two queues are the same when their lengths and items are.
LEMMA SameSeq ==
    ASSUME NEW s \in Seq(Nat), NEW u \in Seq(Nat), Len(s) = Len(u),
           \A i \in 1 .. Len(s) : s[i] = u[i]
    PROVE  s = u
BY SeqEqual, Zenon

\* The handler's step is Arrive.
LEMMA ReceiveIsArrive ==
    ASSUME RxInv, RxInv', IrqReceive PROVE Rx!Arrive
<1>. DEFINE q == RxQueue
            n == RxWaiting
            a == RxAt
<1>1. received' = received + 1 /\ uRxBegin' = uRxBegin /\ read' = read /\ at' = at /\ RxAt' = a
  BY Zenon DEF IrqReceive, RxAt
<1>2. CASE RxFull
  <2>1. uRxEnd' = uRxEnd /\ RxBuffer' = RxBuffer
    BY <1>2, Zenon DEF IrqReceive
  <2>2. RxQueue' = q /\ RxOut' = RxOut
    BY <1>1, <2>1, Zenon DEF RxQueue, RxWaiting, RxOut
  <2>3. ~(Len(q) < RxSize - 1)
    BY <1>2, RxQueueFacts, RxSizes
  <2>. QED BY <1>1, <2>2, <2>3, Zenon DEF Rx!Arrive
<1>3. CASE ~RxFull
  <2>1. /\ uRxEnd' = IF uRxEnd + 1 > RxSize - 1 THEN 0 ELSE uRxEnd + 1
        /\ RxBuffer' = [RxBuffer EXCEPT ![uRxEnd'] = received + 1]
    BY <1>3, Zenon DEF IrqReceive
  <2>2. RxWaiting' = n + 1 /\ n \in 0 .. RxSize - 2
    <3>1. n \in 0 .. RxSize - 1 /\ n # RxSize - 1
      BY <1>3, RxQueueFacts, Zenon
    <3>2. a \in 0 .. RxSize - 1
      BY RxQueueFacts, Zenon
    <3>3. n = Distance(a, uRxEnd, RxSize) /\ RxWaiting' = Distance(a, uRxEnd', RxSize)
      BY <1>1, Zenon DEF RxWaiting
    <3>. QED BY <2>1, <3>1, <3>2, <3>3, RxSizes DEF RxInv, Distance
  <2>3. Slot(a, n + 1, RxSize) = uRxEnd' /\ uRxEnd' \in 0 .. RxSize - 1
    <3>1. RxWaiting' = Distance(a, uRxEnd', RxSize)
      BY <1>1, Zenon DEF RxWaiting
    <3>2. a \in 0 .. RxSize - 1 /\ uRxEnd' \in 0 .. RxSize - 1
      BY RxQueueFacts, Zenon DEF RxInv
    <3>3. Slot(a, Distance(a, uRxEnd', RxSize), RxSize) = uRxEnd'
      BY <3>2, SlotFacts, Zenon
    <3>. QED BY <2>2, <3>1, <3>2, <3>3, Zenon
  <2>4. \A i \in 0 .. n : /\ Slot(a, i, RxSize) # uRxEnd'
                          /\ Slot(a, i, RxSize) \in 0 .. RxSize - 1
    <3>1. \A i, j \in 0 .. RxSize - 1 : Slot(a, i, RxSize) = Slot(a, j, RxSize) => i = j
      <4>1. a \in 0 .. RxSize - 1
        BY RxQueueFacts, Zenon
      <4>. QED BY <4>1, SlotFacts, Zenon
    <3>2. n + 1 \in 0 .. RxSize - 1 /\ \A i \in 0 .. n : i \in 0 .. RxSize - 1 /\ i # n + 1
      BY <2>2, RxSizes
    <3>. QED BY <2>3, <3>1, <3>2, RxQueueFacts, Zenon
  <2>5. \A i \in 0 .. n : RxBuffer'[Slot(a, i, RxSize)] = RxBuffer[Slot(a, i, RxSize)]
    BY <2>1, <2>4, Zenon DEF RxInv
  <2>6. RxBuffer'[uRxEnd'] = received + 1
    BY <2>1, <2>3, Zenon DEF RxInv
  <2>7. /\ q \in Seq(Nat) /\ Len(q) = n /\ RxQueue' \in Seq(Nat) /\ Len(RxQueue') = n + 1
        /\ \A i \in 1 .. n : q[i] = RxBuffer[Slot(a, i, RxSize)]
        /\ \A i \in 1 .. n + 1 : (RxQueue')[i] = RxBuffer'[Slot(a, i, RxSize)]
    <3>1. /\ RxQueue' = [i \in 1 .. n + 1 |-> RxBuffer'[Slot(a, i, RxSize)]]
      BY <1>1, <2>2, Zenon DEF RxQueue
    <3>2. \A i \in 1 .. n + 1 : RxBuffer'[Slot(a, i, RxSize)] \in Nat
      <4>1. \A i \in 1 .. n + 1 : i = n + 1 \/ i \in 0 .. n
        BY <2>2, RxSizes
      <4>2. \A i \in 1 .. n + 1 : Slot(a, i, RxSize) \in 0 .. RxSize - 1
        BY <2>3, <2>4, <4>1, Zenon
      <4>. QED BY <4>2, Zenon DEF RxInv
    <3>3. n + 1 \in Nat
      BY <2>2, RxSizes
    <3>4. RxQueue' \in Seq(Nat) /\ Len(RxQueue') = n + 1
      BY <3>1, <3>2, <3>3
    <3>5. \A i \in 1 .. n + 1 : (RxQueue')[i] = RxBuffer'[Slot(a, i, RxSize)]
      BY <3>1, Zenon
    <3>6. /\ q \in Seq(Nat) /\ Len(q) = n
          /\ \A i \in 1 .. n : q[i] = RxBuffer[Slot(a, i, RxSize)]
      BY RxQueueFacts, Zenon
    <3>. QED BY <3>4, <3>5, <3>6, Zenon
  <2>8. RxQueue' = Append(q, received + 1)
    <3>1. received + 1 \in Nat
      BY DEF RxInv
    <3>2. /\ Append(q, received + 1) \in Seq(Nat) /\ Len(Append(q, received + 1)) = n + 1
          /\ \A i \in 1 .. n : Append(q, received + 1)[i] = q[i]
          /\ Append(q, received + 1)[n + 1] = received + 1
      BY <2>7, <3>1
    <3>3. n \in Nat
      BY <2>2, RxSizes
    <3>4. \A i \in 1 .. n + 1 : (RxQueue')[i] = Append(q, received + 1)[i]
      <4>. SUFFICES ASSUME NEW i \in 1 .. n + 1
                    PROVE  (RxQueue')[i] = Append(q, received + 1)[i]
        BY Zenon
      <4>1. (RxQueue')[i] = RxBuffer'[Slot(a, i, RxSize)]
        BY <2>7, Zenon
      <4>2. CASE i = n + 1
        BY <2>3, <2>6, <3>2, <4>1, <4>2, Zenon
      <4>3. CASE i # n + 1
        <5>1. i \in 1 .. n /\ i \in 0 .. n
          BY <3>3, <4>3
        <5>. QED BY <2>5, <2>7, <3>2, <4>1, <5>1, Zenon
      <4>. QED BY <4>2, <4>3, Zenon
    <3>. QED BY <2>7, <3>2, <3>4, SameSeq, Zenon
  <2>9. RxOut' = RxOut
    <3>1. RxBuffer'[a] = RxBuffer[a]
      <4>1. Slot(a, 0, RxSize) = a
        <5>1. a \in 0 .. RxSize - 1
          BY RxQueueFacts, Zenon
        <5>. QED BY <5>1, SlotFacts, Zenon
      <4>2. 0 \in 0 .. n
        BY <2>2, RxSizes
      <4>. QED BY <2>5, <4>1, <4>2, Zenon
    <3>. QED BY <1>1, <3>1, Zenon DEF RxOut
  <2>10. Len(q) < RxSize - 1
    BY <2>2, <2>7, RxSizes
  <2>. QED BY <1>1, <2>8, <2>9, <2>10, Zenon DEF Rx!Arrive
<1>. QED BY <1>2, <1>3, Zenon

\* uart_read takes the oldest byte when it moves uRxBegin.
LEMMA ReadIsTake ==
    ASSUME RxInv, RxInv', ReadNext PROVE Rx!Take
<1>. DEFINE q == RxQueue
            n == RxWaiting
            a == RxAt
<1>1. /\ at = "idle" /\ uRxBegin # uRxEnd /\ uRxBegin' = uRxBegin + 1 /\ at' = "read_wrap"
      /\ uRxEnd' = uRxEnd /\ RxBuffer' = RxBuffer /\ received' = received /\ read' = read
  BY Zenon DEF ReadNext
<1>2. uRxBegin \in 0 .. RxSize - 1 /\ a = uRxBegin
  BY <1>1, RxSizes DEF RxInv, RxAt
<1>3. RxAt' = Slot(a, 1, RxSize) /\ RxAt' \in 0 .. RxSize - 1
  BY <1>1, <1>2, RxSizes DEF RxAt, Slot
<1>4. n \in 1 .. RxSize - 1 /\ RxWaiting' = n - 1
  BY <1>1, <1>2, <1>3, RxSizes DEF RxInv, RxWaiting, Distance, RxAt
<1>5. \A i \in 0 .. n - 1 : Slot(Slot(a, 1, RxSize), i, RxSize) = Slot(a, i + 1, RxSize)
  BY <1>2, <1>4, RxSizes DEF Slot
<1>6. /\ q \in Seq(Nat) /\ Len(q) = n
      /\ \A i \in 1 .. n : q[i] = RxBuffer[Slot(a, i, RxSize)]
  BY RxQueueFacts, Zenon
<1>7. RxQueue' = [i \in 1 .. n - 1 |-> RxBuffer[Slot(Slot(a, 1, RxSize), i, RxSize)]]
  BY <1>1, <1>3, <1>4, Zenon DEF RxQueue
<1>8. \A i \in 1 .. n - 1 : RxBuffer[Slot(Slot(a, 1, RxSize), i, RxSize)] = q[i + 1]
  <2>. SUFFICES ASSUME NEW i \in 1 .. n - 1
                PROVE  RxBuffer[Slot(Slot(a, 1, RxSize), i, RxSize)] = q[i + 1]
    BY Zenon
  <2>1. i \in 0 .. n - 1 /\ i + 1 \in 1 .. n
    BY <1>4, RxSizes
  <2>2. Slot(Slot(a, 1, RxSize), i, RxSize) = Slot(a, i + 1, RxSize)
    BY <1>5, <2>1, Zenon
  <2>. QED BY <1>6, <2>1, <2>2, Zenon
<1>9. q # <<>> /\ Head(q) = RxBuffer[Slot(a, 1, RxSize)]
  BY <1>4, <1>6, RxSizes
<1>10. RxQueue' = Tail(q)
  <2>1. /\ Tail(q) \in Seq(Nat) /\ Len(Tail(q)) = n - 1
        /\ \A i \in 1 .. n - 1 : Tail(q)[i] = q[i + 1]
    BY <1>4, <1>6, <1>9, RxSizes
  <2>2. n - 1 \in Nat /\ \A i \in 1 .. n - 1 : q[i + 1] \in Nat
    BY <1>4, <1>6, RxSizes
  <2>3. /\ RxQueue' \in Seq(Nat) /\ Len(RxQueue') = n - 1
        /\ \A i \in 1 .. n - 1 : (RxQueue')[i] = q[i + 1]
    BY <1>7, <1>8, <2>2
  <2>. QED BY <2>1, <2>3, SameSeq, Zenon
<1>11. RxOut = read /\ RxOut' = Append(read, RxBuffer[Slot(a, 1, RxSize)])
  BY <1>1, <1>3, Zenon DEF RxOut
<1>. QED BY <1>1, <1>9, <1>10, <1>11, Zenon DEF Rx!Take

\* uart_enable empties the ring.
LEMMA EnableIsReset ==
    ASSUME RxInv, Enable PROVE Rx!Reset
<1>1. /\ at = "idle" /\ at' = at /\ uRxBegin' = 0 /\ uRxEnd' = 0 /\ received' = received
      /\ read' = read
  BY Zenon DEF Enable
<1>2. RxAt' = 0 /\ RxWaiting' = 0
  BY <1>1, RxSizes DEF RxAt, RxWaiting, Distance
<1>3. RxQueue' = <<>>
  BY <1>2 DEF RxQueue
<1>4. RxOut' = RxOut
  BY <1>1, Zenon DEF RxOut
<1>. QED BY <1>1, <1>3, <1>4, Zenon DEF Rx!Reset

\* The other steps of uart_read, and everything on the transmit side, change nothing.
LEMMA OtherIsStutter ==
    ASSUME RxInv, \/ ReadWrap \/ ReadCopy \/ WriteByte \/ WriteWrap \/ WriteKick \/ IrqTransmit
                  \/ Line \/ Flush \/ TxBufferClear \/ Ask \/ UNCHANGED vars
    PROVE  UNCHANGED Rx!vars
<1>1. CASE ReadWrap
  <2>1. /\ at = "read_wrap" /\ at' = "read_copy" /\ uRxEnd' = uRxEnd /\ RxBuffer' = RxBuffer
        /\ received' = received /\ read' = read /\ RxAt' = RxAt
    BY <1>1, RxSizes DEF ReadWrap, RxInv, RxAt
  <2>. QED BY <2>1, Zenon DEF Rx!vars, RxQueue, RxWaiting, RxOut
<1>2. CASE ReadCopy
  <2>1. /\ at = "read_copy" /\ at' = "idle" /\ uRxEnd' = uRxEnd /\ RxBuffer' = RxBuffer
        /\ received' = received /\ RxAt' = RxAt /\ read' = Append(read, RxBuffer[RxAt])
    BY <1>2, RxSizes, Zenon DEF ReadCopy, RxInv, RxAt
  <2>. QED BY <2>1, Zenon DEF Rx!vars, RxQueue, RxWaiting, RxOut
<1>3. CASE \/ WriteByte \/ WriteWrap \/ WriteKick \/ IrqTransmit
           \/ Line \/ Flush \/ TxBufferClear \/ Ask \/ UNCHANGED vars
  <2>1. /\ UNCHANGED rxVars
        /\ at' = at \/ {at, at'} \cap {"read_wrap", "read_copy"} = {}
    BY <1>3, Zenon DEF WriteByte, WriteWrap, WriteKick, IrqTransmit, Line, Load, Shift, Flush,
                TxBufferClear, Ask, GetAvailable, AvailableTx, AvailableRx, Answered, vars
  <2>2. RxQueue' = RxQueue /\ received' = received
    BY <2>1, Zenon DEF rxVars, RxQueue, RxWaiting, RxAt
  <2>3. RxOut' = RxOut
    BY <2>1, Zenon DEF rxVars, RxOut, RxAt
  <2>. QED BY <2>2, <2>3, Zenon DEF Rx!vars
<1>. QED BY <1>1, <1>2, <1>3, Zenon

(* uart_read returns the bytes in the order they came, none twice, and     *)
(* misses only bytes that came while RxSize - 1 others waited.             *)
THEOREM ReceiveImplementsChannel == Spec => RxIsChannel
<1>1. Init => Rx!Init
  <2>. SUFFICES ASSUME Init PROVE Rx!Init
    BY Zenon
  <2>1. uRxBegin = 0 /\ uRxEnd = 0 /\ at = "idle" /\ read = <<>> /\ received = 0
    BY Zenon DEF Init
  <2>2. RxAt = 0 /\ RxWaiting = 0
    BY <2>1, RxSizes DEF RxAt, RxWaiting, Distance
  <2>3. RxQueue = <<>> /\ RxOut = <<>>
    BY <2>1, <2>2 DEF RxQueue, RxOut
  <2>. QED BY <2>1, <2>3 DEF Rx!Init
<1>2. RxInv /\ RxInv' /\ [Next]_vars => [Rx!Arrive \/ Rx!Take \/ Rx!Reset]_(Rx!vars)
  BY ReceiveIsArrive, ReadIsTake, EnableIsReset, OtherIsStutter, Zenon DEF Next, Move, Thread
<1>3. Spec => []RxInv
  BY RxInit, RxStep, PTL DEF Spec
<1>. QED BY <1>1, <1>2, <1>3, PTL DEF Spec, RxIsChannel, Rx!Spec

-----------------------------------------------------------------------------
(* Slots of the transmit ring, and bytes on their way.                     *)

\* n bytes of the ring, from slot b on.
Ring(buf, b, n) == [i \in 1 .. n |-> buf[Slot(b, i - 1, TxSize)]]

\* What was sent, is being sent and waits, as TxAll has it.
All(w, s, f, q) == w \o (IF s = 0 THEN <<>> ELSE <<s>>) \o f \o q

(* Of n bytes written, c were thrown away and the others are in order.     *)
Sent(all, c, n) == /\ all \in Seq(Nat) /\ Len(all) + c = n
                   /\ \A i \in 1 .. Len(all) : all[i] \in 1 .. n
                   /\ \A i, j \in 1 .. Len(all) : i < j => all[i] < all[j]

\* The remainder by which the code wraps an index.
LEMMA Remainder ==
    ASSUME NEW a \in Nat PROVE a % TxSize \in 0 .. TxSize - 1
BY TxSizes

\* Within one turn the remainder is the slot.
LEMMA Wrap ==
    ASSUME NEW b \in 0 .. TxSize - 1, NEW i \in 0 .. TxSize
    PROVE  (b + i) % TxSize = Slot(b, i, TxSize)
<1>. DEFINE q == (b + i) \div TxSize
            r == (b + i) % TxSize
<1>1. b + i \in Nat /\ TxSize \in Nat /\ TxSize > 1 /\ b + i < 2 * TxSize
  BY TxSizes
<1>2. q \in Nat /\ r \in 0 .. TxSize - 1 /\ b + i = TxSize * q + r
  BY <1>1
<1>. HIDE DEF q, r
<1>3. q = 0 \/ q = 1
  <2>1. q < 2
    BY <1>1, <1>2
  <2>. QED BY <1>2, <2>1
<1>4. TxSize * 0 = 0 /\ TxSize * 1 = TxSize
  BY <1>1
<1>5. r = Slot(b, i, TxSize)
  BY <1>1, <1>2, <1>3, <1>4 DEF Slot
<1>. QED BY <1>5, Zenon DEF r

\* The slots of the transmit ring, counted from slot b.
LEMMA TxSlotFacts ==
    ASSUME NEW b \in 0 .. TxSize - 1
    PROVE  /\ \A i \in 0 .. TxSize : Slot(b, i, TxSize) \in 0 .. TxSize - 1
           /\ \A e \in 0 .. TxSize - 1 :
                 /\ Distance(b, e, TxSize) \in 0 .. TxSize - 1
                 /\ Slot(b, Distance(b, e, TxSize), TxSize) = e
                 /\ \A m \in 0 .. Distance(b, e, TxSize) :
                       Distance(Slot(b, m, TxSize), e, TxSize) = Distance(b, e, TxSize) - m
           /\ \A i, j \in 0 .. TxSize - 1 : Slot(b, i, TxSize) = Slot(b, j, TxSize) => i = j
           /\ \A m, i \in 0 .. TxSize - 1 : m + i < TxSize =>
                 Slot(Slot(b, m, TxSize), i, TxSize) = Slot(b, m + i, TxSize)
BY TxSizes DEF Distance, Slot

\* A part of the ring is a sequence of bytes.
LEMMA RingType ==
    ASSUME NEW buf \in [0 .. TxSize - 1 -> Nat], NEW b \in 0 .. TxSize - 1, NEW n \in 0 .. TxSize
    PROVE  /\ Ring(buf, b, n) \in Seq(Nat) /\ Len(Ring(buf, b, n)) = n
           /\ \A i \in 1 .. n : Ring(buf, b, n)[i] = buf[Slot(b, i - 1, TxSize)]
<1>1. \A i \in 1 .. n : i - 1 \in 0 .. TxSize
  BY TxSizes
<1>2. \A i \in 1 .. n : buf[Slot(b, i - 1, TxSize)] \in Nat
  BY <1>1, TxSlotFacts, Zenon
<1>3. n \in Nat
  BY TxSizes
<1>. QED BY <1>2, <1>3 DEF Ring

\* The first m bytes, and the bytes behind them.
LEMMA RingSplit ==
    ASSUME NEW buf \in [0 .. TxSize - 1 -> Nat], NEW b \in 0 .. TxSize - 1,
           NEW n \in 0 .. TxSize - 1, NEW m \in 0 .. n
    PROVE  Ring(buf, b, n) = Ring(buf, b, m) \o Ring(buf, Slot(b, m, TxSize), n - m)
<1>. DEFINE c == Slot(b, m, TxSize)
            u == Ring(buf, b, m)
            v == Ring(buf, c, n - m)
            t == Ring(buf, b, n)
<1>0. m \in 0 .. TxSize /\ n - m \in 0 .. TxSize /\ n \in 0 .. TxSize /\ n \in Nat /\ m \in Nat
  BY TxSizes
<1>1. c \in 0 .. TxSize - 1
  BY <1>0, TxSlotFacts, Zenon
<1>2. /\ t \in Seq(Nat) /\ Len(t) = n
      /\ \A i \in 1 .. n : t[i] = buf[Slot(b, i - 1, TxSize)]
  BY <1>0, RingType, Zenon
<1>3. /\ u \in Seq(Nat) /\ Len(u) = m
      /\ \A i \in 1 .. m : u[i] = buf[Slot(b, i - 1, TxSize)]
  BY <1>0, RingType, Zenon
<1>. HIDE DEF c
<1>4. /\ v \in Seq(Nat) /\ Len(v) = n - m
      /\ \A i \in 1 .. n - m : v[i] = buf[Slot(c, i - 1, TxSize)]
  BY <1>0, <1>1, RingType, Zenon
<1>. HIDE DEF t, u, v
<1>5. /\ u \o v \in Seq(Nat) /\ Len(u \o v) = n
      /\ \A i \in 1 .. n : (u \o v)[i] = IF i <= m THEN u[i] ELSE v[i - m]
  <2>1. /\ u \o v \in Seq(Nat) /\ Len(u \o v) = Len(u) + Len(v)
        /\ \A i \in 1 .. Len(u) + Len(v) :
               (u \o v)[i] = IF i <= Len(u) THEN u[i] ELSE v[i - Len(u)]
    BY <1>3, <1>4, ConcatProperties, Zenon
  <2>2. Len(u) + Len(v) = n
    BY <1>0, <1>3, <1>4
  <2>. QED BY <1>3, <2>1, <2>2, Zenon
<1>6. \A i \in 1 .. n : t[i] = (u \o v)[i]
  <2>. SUFFICES ASSUME NEW i \in 1 .. n PROVE t[i] = (u \o v)[i]
    BY Zenon
  <2>1. CASE i <= m
    <3>1. i \in 1 .. m
      BY <1>0, <2>1
    <3>. QED BY <1>2, <1>3, <1>5, <2>1, <3>1, Zenon
  <2>2. CASE ~(i <= m)
    <3>1. /\ i - m \in 1 .. n - m /\ (i - m) - 1 \in 0 .. TxSize - 1 /\ m \in 0 .. TxSize - 1
          /\ m + ((i - m) - 1) < TxSize /\ m + ((i - m) - 1) = i - 1
      BY <1>0, <2>2, TxSizes
    <3>2. v[i - m] = buf[Slot(c, (i - m) - 1, TxSize)]
      BY <1>4, <3>1, Zenon
    <3>3. Slot(c, (i - m) - 1, TxSize) = Slot(b, m + ((i - m) - 1), TxSize)
      BY <3>1, TxSlotFacts DEF c
    <3>. QED BY <1>2, <1>5, <2>2, <3>1, <3>2, <3>3, Zenon
  <2>. QED BY <2>1, <2>2, Zenon
<1>7. t = u \o v
  BY <1>2, <1>5, <1>6, SameSeq, Zenon
<1>. QED BY <1>7, Zenon DEF t, u, v, c

\* uart_write fills the slot behind the last byte.
LEMMA RingGrow ==
    ASSUME NEW buf \in [0 .. TxSize - 1 -> Nat], NEW b \in 0 .. TxSize - 1,
           NEW n \in 0 .. TxSize - 2, NEW x \in Nat
    PROVE  Ring([buf EXCEPT ![Slot(b, n, TxSize)] = x], b, n + 1) = Append(Ring(buf, b, n), x)
<1>. DEFINE e == Slot(b, n, TxSize)
            new == [buf EXCEPT ![e] = x]
            t == Ring(buf, b, n)
            u == Ring(new, b, n + 1)
<1>0. n \in 0 .. TxSize /\ n + 1 \in 0 .. TxSize /\ n \in 0 .. TxSize - 1 /\ n \in Nat
  BY TxSizes
<1>1. e \in 0 .. TxSize - 1
  BY <1>0, TxSlotFacts, Zenon
<1>2. new \in [0 .. TxSize - 1 -> Nat] /\ new[e] = x
      /\ \A k \in 0 .. TxSize - 1 : k # e => new[k] = buf[k]
  BY <1>1, Zenon
<1>. HIDE DEF new
<1>3. /\ t \in Seq(Nat) /\ Len(t) = n
      /\ \A i \in 1 .. n : t[i] = buf[Slot(b, i - 1, TxSize)]
  BY <1>0, RingType, Zenon
<1>4. /\ u \in Seq(Nat) /\ Len(u) = n + 1
      /\ \A i \in 1 .. n + 1 : u[i] = new[Slot(b, i - 1, TxSize)]
  BY <1>0, <1>2, RingType, Zenon
<1>. HIDE DEF t, u
<1>5. /\ Append(t, x) \in Seq(Nat) /\ Len(Append(t, x)) = n + 1
      /\ \A i \in 1 .. n : Append(t, x)[i] = t[i]
      /\ Append(t, x)[n + 1] = x
  BY <1>3, AppendProperties
<1>6. \A i \in 1 .. n + 1 : u[i] = Append(t, x)[i]
  <2>. SUFFICES ASSUME NEW i \in 1 .. n + 1 PROVE u[i] = Append(t, x)[i]
    BY Zenon
  <2>1. CASE i = n + 1
    <3>1. i - 1 = n
      BY <1>0, <2>1
    <3>. QED BY <1>2, <1>4, <1>5, <2>1, <3>1, Zenon
  <2>2. CASE i # n + 1
    <3>1. i \in 1 .. n /\ i - 1 \in 0 .. TxSize - 1 /\ i - 1 # n /\ i - 1 \in 0 .. TxSize
      BY <1>0, <2>2, TxSizes
    <3>2. Slot(b, i - 1, TxSize) # e /\ Slot(b, i - 1, TxSize) \in 0 .. TxSize - 1
      BY <1>0, <3>1, TxSlotFacts, Zenon
    <3>. QED BY <1>2, <1>3, <1>4, <1>5, <3>1, <3>2
  <2>. QED BY <2>1, <2>2, Zenon
<1>7. u = Append(t, x)
  BY <1>4, <1>5, <1>6, SameSeq, Zenon
<1>. QED BY <1>7, Zenon DEF t, u, new, e

-----------------------------------------------------------------------------
(* Moving a byte on its way does not change the bytes on their way.        *)

\* Sequences put together, as an operator with a name.
Cat(s, t) == s \o t

\* What two sequences put together are.
LEMMA CatType ==
    ASSUME NEW s \in Seq(Nat), NEW t \in Seq(Nat)
    PROVE  /\ Cat(s, t) \in Seq(Nat) /\ Len(Cat(s, t)) = Len(s) + Len(t)
           /\ \A i \in 1 .. Len(s) + Len(t) :
                 Cat(s, t)[i] = IF i <= Len(s) THEN s[i] ELSE t[i - Len(s)]
BY ConcatProperties, Zenon DEF Cat

\* How three sequences are put together does not matter.
LEMMA CatAssociative ==
    ASSUME NEW s \in Seq(Nat), NEW t \in Seq(Nat), NEW u \in Seq(Nat)
    PROVE  Cat(Cat(s, t), u) = Cat(s, Cat(t, u))
<1>. DEFINE x == Cat(s, t)
            y == Cat(t, u)
<1>1. /\ x \in Seq(Nat) /\ Len(x) = Len(s) + Len(t)
      /\ \A i \in 1 .. Len(s) + Len(t) : x[i] = IF i <= Len(s) THEN s[i] ELSE t[i - Len(s)]
  BY CatType, Zenon
<1>2. /\ y \in Seq(Nat) /\ Len(y) = Len(t) + Len(u)
      /\ \A i \in 1 .. Len(t) + Len(u) : y[i] = IF i <= Len(t) THEN t[i] ELSE u[i - Len(t)]
  BY CatType, Zenon
<1>. HIDE DEF x, y
<1>3. /\ Cat(x, u) \in Seq(Nat) /\ Len(Cat(x, u)) = Len(x) + Len(u)
      /\ \A i \in 1 .. Len(x) + Len(u) : Cat(x, u)[i] = IF i <= Len(x) THEN x[i] ELSE u[i - Len(x)]
  BY <1>1, CatType, Zenon
<1>4. /\ Cat(s, y) \in Seq(Nat) /\ Len(Cat(s, y)) = Len(s) + Len(y)
      /\ \A i \in 1 .. Len(s) + Len(y) : Cat(s, y)[i] = IF i <= Len(s) THEN s[i] ELSE y[i - Len(s)]
  BY <1>2, CatType, Zenon
<1>5. Len(s) \in Nat /\ Len(t) \in Nat /\ Len(u) \in Nat
  OBVIOUS
<1>6. Len(Cat(x, u)) = Len(Cat(s, y)) /\ Len(Cat(x, u)) = Len(s) + Len(t) + Len(u)
  BY <1>1, <1>2, <1>3, <1>4, <1>5
<1>7. ASSUME NEW i \in 1 .. Len(Cat(x, u)) PROVE Cat(x, u)[i] = Cat(s, y)[i]
  <2>0. i \in 1 .. Len(x) + Len(u) /\ i \in 1 .. Len(s) + Len(y) /\ i \in Nat
    BY <1>1, <1>2, <1>5, <1>6
  <2>1. CASE i <= Len(s)
    <3>1. i <= Len(x) /\ i \in 1 .. Len(s) + Len(t)
      BY <1>1, <1>5, <2>0, <2>1
    <3>. QED BY <1>1, <1>3, <1>4, <2>0, <2>1, <3>1, Zenon
  <2>2. CASE i > Len(s) /\ i <= Len(x)
    <3>1. /\ i \in 1 .. Len(s) + Len(t) /\ ~(i <= Len(s)) /\ i - Len(s) <= Len(t)
          /\ i - Len(s) \in 1 .. Len(t) + Len(u)
      BY <1>1, <1>5, <2>0, <2>2
    <3>. QED BY <1>1, <1>2, <1>3, <1>4, <2>0, <2>2, <3>1, Zenon
  <2>3. CASE i > Len(x)
    <3>1. /\ ~(i <= Len(s)) /\ ~(i <= Len(x)) /\ ~(i - Len(s) <= Len(t))
          /\ i - Len(s) \in 1 .. Len(t) + Len(u) /\ (i - Len(s)) - Len(t) = i - Len(x)
      BY <1>1, <1>5, <1>6, <2>0, <2>3
    <3>. QED BY <1>2, <1>3, <1>4, <2>0, <3>1, Zenon
  <2>. QED BY <1>1, <1>5, <2>0, <2>1, <2>2, <2>3
<1>8. Cat(x, u) = Cat(s, y)
  BY <1>3, <1>4, <1>6, <1>7, SameSeq, Zenon
<1>. QED BY <1>8, Zenon DEF x, y

\* Nothing added at either end.
LEMMA CatEmpty == ASSUME NEW s \in Seq(Nat) PROVE Cat(s, <<>>) = s /\ Cat(<<>>, s) = s
BY ConcatEmptySeq, Zenon DEF Cat

\* One byte added behind.
LEMMA CatByte ==
    ASSUME NEW s \in Seq(Nat), NEW x \in Nat
    PROVE  Append(s, x) = Cat(s, <<x>>) /\ <<x>> \in Seq(Nat) /\ Append(s, x) \in Seq(Nat)
BY AppendIsConcat, AppendProperties DEF Cat

\* The shift register as a sequence.
Byte(s) == IF s = 0 THEN <<>> ELSE <<s>>

\* Everything that is sent or to be sent, put together from its four parts.
LEMMA AllIs ==
    ASSUME NEW w \in Seq(Nat), NEW s \in Nat, NEW f \in Seq(Nat), NEW q \in Seq(Nat)
    PROVE  /\ All(w, s, f, q) = Cat(Cat(Cat(w, Byte(s)), f), q)
           /\ Byte(s) \in Seq(Nat) /\ Cat(w, Byte(s)) \in Seq(Nat)
           /\ Cat(Cat(w, Byte(s)), f) \in Seq(Nat)
           /\ All(w, s, f, q) \in Seq(Nat)
<1>1. Byte(s) \in Seq(Nat)
  BY DEF Byte
<1>2. Cat(w, Byte(s)) \in Seq(Nat)
  BY <1>1, CatType, Zenon
<1>3. Cat(Cat(w, Byte(s)), f) \in Seq(Nat)
  BY <1>2, CatType, Zenon
<1>4. Cat(Cat(Cat(w, Byte(s)), f), q) \in Seq(Nat)
  BY <1>3, CatType, Zenon
<1>5. All(w, s, f, q) = Cat(Cat(Cat(w, Byte(s)), f), q)
  BY Zenon DEF All, Byte, Cat
<1>. QED BY <1>1, <1>2, <1>3, <1>4, <1>5, Zenon

\* The hardware loads the shift register.
LEMMA AllLoad ==
    ASSUME NEW w \in Seq(Nat), NEW f \in Seq(Nat), NEW q \in Seq(Nat), f # <<>>, Head(f) # 0
    PROVE  All(w, Head(f), Tail(f), q) = All(w, 0, f, q)
<1>. DEFINE h == <<Head(f)>>
            t == Tail(f)
<1>1. Head(f) \in Nat /\ t \in Seq(Nat) /\ h \in Seq(Nat) /\ 0 \in Nat
  BY HeadTailProperties
<1>2. Cat(h, t) = f
  BY <1>1 DEF Cat
<1>3. Byte(Head(f)) = h /\ Byte(0) = <<>>
  BY Zenon DEF Byte
<1>. HIDE DEF h, t
<1>4. All(w, Head(f), t, q) = Cat(Cat(Cat(w, h), t), q) /\ All(w, 0, f, q) = Cat(Cat(Cat(w, <<>>), f), q)
  <2>1. All(w, Head(f), t, q) = Cat(Cat(Cat(w, Byte(Head(f))), t), q)
    BY Zenon DEF All, Byte, Cat
  <2>2. All(w, 0, f, q) = Cat(Cat(Cat(w, Byte(0)), f), q)
    BY Zenon DEF All, Byte, Cat
  <2>. QED BY <1>3, <2>1, <2>2, Zenon
<1>5. Cat(w, <<>>) = w /\ Cat(Cat(w, h), t) = Cat(w, Cat(h, t))
  BY <1>1, CatEmpty, CatAssociative
<1>6. All(w, Head(f), t, q) = All(w, 0, f, q)
  BY <1>2, <1>4, <1>5, Zenon
<1>. QED BY <1>6, Zenon DEF t

\* The byte in the shift register has been sent.
LEMMA AllShift ==
    ASSUME NEW w \in Seq(Nat), NEW s \in Nat \ {0}, NEW f \in Seq(Nat), NEW q \in Seq(Nat)
    PROVE  All(Append(w, s), 0, f, q) = All(w, s, f, q)
<1>. DEFINE v == Append(w, s)
<1>1. s \in Nat /\ 0 \in Nat
  BY Zenon
<1>7. Byte(s) = <<s>> /\ Byte(0) = <<>>
  BY Zenon DEF Byte
<1>2. v = Cat(w, <<s>>) /\ v \in Seq(Nat)
  BY <1>1, CatByte, Zenon
<1>. HIDE DEF v
<1>3. All(w, s, f, q) = Cat(Cat(Cat(w, Byte(s)), f), q)
  BY <1>1, AllIs
<1>6. All(v, 0, f, q) = Cat(Cat(Cat(v, Byte(0)), f), q)
  BY <1>1, <1>2, AllIs
<1>4. Cat(v, <<>>) = v
  BY <1>2, CatEmpty, Zenon
<1>5. All(v, 0, f, q) = All(w, s, f, q)
  BY <1>2, <1>3, <1>4, <1>6, <1>7, Zenon
<1>. QED BY <1>5, Zenon DEF v

\* Bytes go from the ring to the FIFO.
LEMMA AllMove ==
    ASSUME NEW w \in Seq(Nat), NEW s \in Nat, NEW f \in Seq(Nat), NEW r \in Seq(Nat),
           NEW q \in Seq(Nat)
    PROVE  All(w, s, Cat(f, r), q) = All(w, s, f, Cat(r, q))
<1>. DEFINE v == Cat(w, Byte(s))
<1>1. v \in Seq(Nat) /\ Cat(f, r) \in Seq(Nat) /\ Cat(r, q) \in Seq(Nat) /\ Cat(v, f) \in Seq(Nat)
  BY AllIs, CatType, Zenon
<1>2. All(w, s, Cat(f, r), q) = Cat(Cat(v, Cat(f, r)), q)
  BY <1>1, AllIs
<1>3. All(w, s, f, Cat(r, q)) = Cat(Cat(v, f), Cat(r, q))
  BY <1>1, AllIs
<1>. HIDE DEF v
<1>4. Cat(v, Cat(f, r)) = Cat(Cat(v, f), r)
  BY <1>1, CatAssociative
<1>5. Cat(Cat(Cat(v, f), r), q) = Cat(Cat(v, f), Cat(r, q))
  BY <1>1, CatAssociative
<1>. QED BY <1>2, <1>3, <1>4, <1>5, Zenon

\* uart_write adds a byte at the end.
LEMMA AllWrite ==
    ASSUME NEW w \in Seq(Nat), NEW s \in Nat, NEW f \in Seq(Nat), NEW q \in Seq(Nat),
           NEW b \in Seq(Nat)
    PROVE  All(w, s, f, Cat(q, b)) = Cat(All(w, s, f, q), b)
<1>. DEFINE v == Cat(Cat(w, Byte(s)), f)
<1>1. v \in Seq(Nat) /\ Cat(q, b) \in Seq(Nat)
  BY AllIs, CatType, Zenon
<1>2. All(w, s, f, q) = Cat(v, q) /\ All(w, s, f, Cat(q, b)) = Cat(v, Cat(q, b))
  BY <1>1, AllIs
<1>. HIDE DEF v
<1>3. Cat(Cat(v, q), b) = Cat(v, Cat(q, b))
  BY <1>1, CatAssociative
<1>. QED BY <1>2, <1>3, Zenon

-----------------------------------------------------------------------------
(* Bytes in order stay in order.                                           *)

\* One more byte, with the next number.
LEMMA SentWrite ==
    ASSUME NEW t, NEW c \in Int, NEW n \in Nat, Sent(t, c, n)
    PROVE  Sent(Append(t, n + 1), c, n + 1)
<1>. DEFINE u == Append(t, n + 1)
<1>1. t \in Seq(Nat) /\ Len(t) \in Nat /\ n + 1 \in Nat
  BY DEF Sent
<1>2. /\ u \in Seq(Nat) /\ Len(u) = Len(t) + 1
      /\ \A i \in 1 .. Len(t) : u[i] = t[i]
      /\ u[Len(t) + 1] = n + 1
  BY <1>1, AppendProperties
<1>. HIDE DEF u
<1>4. \A i \in 1 .. Len(u) : i # Len(t) + 1 => i \in 1 .. Len(t)
  BY <1>1, <1>2
<1>3. \A i \in 1 .. Len(u) : u[i] = IF i = Len(t) + 1 THEN n + 1 ELSE t[i]
  BY <1>2, <1>4, Zenon
<1>5. \A i \in 1 .. Len(t) : t[i] \in 1 .. n
  BY Zenon DEF Sent
<1>6. \A i \in 1 .. Len(u) : u[i] \in 1 .. n + 1
  BY <1>1, <1>3, <1>4, <1>5
<1>7. ASSUME NEW i \in 1 .. Len(u), NEW j \in 1 .. Len(u), i < j PROVE u[i] < u[j]
  <2>1. i # Len(t) + 1 /\ i \in 1 .. Len(t) /\ u[i] = t[i] /\ t[i] \in 1 .. n
    <3>1. i # Len(t) + 1
      BY <1>1, <1>2, <1>7
    <3>2. i \in 1 .. Len(t)
      BY <1>4, <3>1, Zenon
    <3>. QED BY <1>3, <1>5, <3>1, <3>2, Zenon
  <2>2. CASE j = Len(t) + 1
    <3>1. u[j] = n + 1 /\ u[i] \in 1 .. n
      BY <1>2, <2>1, <2>2, Zenon
    <3>. QED BY <3>1
  <2>3. CASE j # Len(t) + 1
    BY <1>3, <1>4, <1>7, <2>1, <2>3, Zenon DEF Sent
  <2>. QED BY <2>2, <2>3, Zenon
<1>8. Len(u) + c = n + 1
  BY <1>1, <1>2 DEF Sent
<1>9. Sent(u, c, n + 1)
  BY <1>2, <1>6, <1>7, <1>8, Zenon DEF Sent
<1>. QED BY <1>9, Zenon DEF u

\* The last bytes are thrown away.
LEMMA SentClear ==
    ASSUME NEW t \in Seq(Nat), NEW q \in Seq(Nat), NEW c \in Int, NEW n \in Nat, Sent(Cat(t, q), c, n)
    PROVE  Sent(t, c + Len(q), n)
<1>. DEFINE u == Cat(t, q)
<1>0. Len(t) \in Nat /\ Len(q) \in Nat
  OBVIOUS
<1>1. /\ u \in Seq(Nat) /\ Len(u) = Len(t) + Len(q)
      /\ \A i \in 1 .. Len(t) + Len(q) : u[i] = IF i <= Len(t) THEN t[i] ELSE q[i - Len(t)]
  BY CatType, Zenon
<1>2. Sent(u, c, n)
  BY Zenon
<1>. HIDE DEF u
<1>3. \A i \in 1 .. Len(t) : i \in 1 .. Len(u) /\ u[i] = t[i]
  <2>1. \A i \in 1 .. Len(t) : i \in 1 .. Len(t) + Len(q) /\ i <= Len(t)
    BY <1>0
  <2>. QED BY <1>1, <2>1, Zenon
<1>4. Len(t) + (c + Len(q)) = n
  BY <1>0, <1>1, <1>2 DEF Sent
<1>. QED BY <1>2, <1>3, <1>4, Zenon DEF Sent

\* A byte on its way is not 0, so that a loaded shift register is not taken for an idle one.
LEMMA SentBytes ==
    ASSUME NEW w \in Seq(Nat), NEW s \in Nat, NEW f \in Seq(Nat), NEW q \in Seq(Nat),
           NEW c, NEW n \in Nat, Sent(All(w, s, f, q), c, n)
    PROVE  \A i \in 1 .. Len(f) : f[i] # 0
<1>. DEFINE v == Cat(w, Byte(s))
            u == Cat(v, f)
            a == Cat(u, q)
<1>1. v \in Seq(Nat) /\ u \in Seq(Nat) /\ a = All(w, s, f, q)
  BY AllIs
<1>2. Sent(a, c, n)
  BY <1>1, Zenon
<1>. HIDE DEF v
<1>6. Len(v) \in Nat /\ Len(f) \in Nat /\ Len(q) \in Nat
  BY <1>1
<1>3. /\ Len(u) = Len(v) + Len(f)
      /\ \A i \in 1 .. Len(v) + Len(f) : u[i] = IF i <= Len(v) THEN v[i] ELSE f[i - Len(v)]
  BY <1>1, CatType, Zenon
<1>. HIDE DEF u
<1>4. /\ Len(a) = Len(u) + Len(q)
      /\ \A i \in 1 .. Len(u) + Len(q) : a[i] = IF i <= Len(u) THEN u[i] ELSE q[i - Len(u)]
  BY <1>1, CatType, Zenon
<1>. HIDE DEF a
<1>5. ASSUME NEW i \in 1 .. Len(f) PROVE f[i] # 0
  <2>. DEFINE k == Len(v) + i
  <2>1. /\ k \in 1 .. Len(v) + Len(f) /\ ~(k <= Len(v)) /\ k - Len(v) = i /\ k <= Len(u)
        /\ k \in 1 .. Len(u) + Len(q) /\ k \in 1 .. Len(a)
    <3>1. Len(u) = Len(v) + Len(f) /\ Len(a) = Len(u) + Len(q)
      BY <1>3, <1>4, Zenon
    <3>. QED BY <1>6, <3>1
  <2>. HIDE DEF k
  <2>2. a[k] = f[i]
    BY <1>3, <1>4, <2>1, Zenon
  <2>3. a[k] \in 1 .. n
    BY <1>2, <2>1, Zenon DEF Sent
  <2>. QED BY <2>2, <2>3
<1>. QED BY <1>5, Zenon

-----------------------------------------------------------------------------
(* The inductive invariant of the port: the indices are inside their rings *)
(* but for the moment before they wrap, uart_flush waits with an empty     *)
(* ring, and unless the handler ran past the end of the transmit ring, the *)
(* bytes on their way are those written and not thrown away, in order.     *)
IInv == /\ TypeOK
        /\ uRxBegin = RxSize => at = "read_wrap"
        /\ uTxEnd = TxSize => at = "write_wrap"
        /\ at = "flush" => uTxBegin = uTxEnd
        /\ torn \/ Sent(TxAll, cleared, written)

\* The transmit ring as the proofs see it.
LEMMA TxFacts ==
    ASSUME TypeOK
    PROVE  /\ TxAt \in 0 .. TxSize - 1 /\ Distance(uTxBegin, TxAt, TxSize) \in 0 .. TxSize - 1
           /\ TxQueue = Ring(TxBuffer, uTxBegin, Distance(uTxBegin, TxAt, TxSize))
           /\ TxQueue \in Seq(Nat) /\ Len(TxQueue) = Distance(uTxBegin, TxAt, TxSize)
           /\ TxAll = All(wire, shifter, fifo, TxQueue)
           /\ wire \in Seq(Nat) /\ shifter \in Nat /\ fifo \in Seq(Nat)
           /\ written \in Nat /\ cleared \in Int
<1>1. TxAt \in 0 .. TxSize - 1 /\ uTxBegin \in 0 .. TxSize - 1
  BY TxSizes DEF TypeOK, TxAt
<1>. DEFINE d == Distance(uTxBegin, TxAt, TxSize)
<1>2. d \in 0 .. TxSize - 1
  BY <1>1, TxSlotFacts, Zenon
<1>3. d \in 0 .. TxSize
  BY <1>2, TxSizes
<1>4. TxQueue = Ring(TxBuffer, uTxBegin, d)
  BY Zenon DEF TxQueue, Ring
<1>. HIDE DEF d
<1>5. Ring(TxBuffer, uTxBegin, d) \in Seq(Nat) /\ Len(Ring(TxBuffer, uTxBegin, d)) = d
  BY <1>1, <1>3, RingType, Zenon DEF TypeOK
<1>6. TxAll = All(wire, shifter, fifo, TxQueue)
  BY Zenon DEF TxAll, All
<1>7. /\ wire \in Seq(Nat) /\ shifter \in Nat /\ fifo \in Seq(Nat)
      /\ written \in Nat /\ cleared \in Int
  BY Zenon DEF TypeOK
<1>. QED BY <1>1, <1>2, <1>4, <1>5, <1>6, <1>7, Zenon DEF d

\* uart_set_config.
LEMMA InitIInv == Init => IInv
<1>. SUFFICES ASSUME Init PROVE IInv
  BY Zenon
<1>1. TypeOK
  <2>1. /\ traffic \in Traffic /\ at = "idle" /\ txEmpty \in BOOLEAN /\ torn \in BOOLEAN
        /\ ahead \in BOOLEAN
    BY Zenon DEF Init
  <2>2. /\ uRxBegin \in 0 .. RxSize /\ uRxEnd \in 0 .. RxSize - 1
        /\ RxBuffer \in [0 .. RxSize - 1 -> Nat]
        /\ uTxBegin \in 0 .. TxSize - 1 /\ uTxEnd \in 0 .. TxSize
        /\ TxBuffer \in [0 .. TxSize - 1 -> Nat]
    BY RxSizes, TxSizes DEF Init
  <2>3. /\ fifo \in Seq(Nat) /\ Len(fifo) <= Depth /\ shifter \in Nat
        /\ received \in Nat /\ read \in Seq(Nat)
        /\ written \in Nat /\ cleared \in Int /\ wire \in Seq(Nat)
    BY TxSizes DEF Init
  <2>4. avail \in [tx : 0 .. Word - 1, rx : 0 .. Word - 1]
    <3>1. 0 \in 0 .. Word - 1
      BY WordSize, RxSizes
    <3>. QED BY <3>1, Zenon DEF Init
  <2>. QED BY <2>1, <2>2, <2>3, <2>4, Zenon DEF TypeOK
<1>2. uTxBegin = 0 /\ uTxEnd = 0 /\ wire = <<>> /\ shifter = 0 /\ fifo = <<>>
      /\ written = 0 /\ cleared = 0 /\ uRxBegin = 0 /\ at = "idle"
  BY Zenon DEF Init
<1>3. TxQueue = <<>>
  <2>1. Distance(uTxBegin, TxAt, TxSize) = 0
    BY <1>2, TxSizes DEF TxAt, Distance
  <2>. QED BY <2>1 DEF TxQueue
<1>4. TxAll = <<>>
  BY <1>2, <1>3 DEF TxAll
<1>5. Sent(<<>>, 0, 0)
  BY DEF Sent
<1>. QED BY <1>1, <1>2, <1>4, <1>5, RxSizes, TxSizes DEF IInv

\* Steps that leave the transmit side alone leave the bytes on their way alone.
LEMMA TxSame ==
    ASSUME UNCHANGED <<uTxBegin, TxBuffer, fifo, shifter, wire>>, TxAt' = TxAt
    PROVE  TxQueue' = TxQueue /\ TxAll' = TxAll
<1>1. TxQueue' = TxQueue
  BY Zenon DEF TxQueue
<1>. QED BY <1>1, Zenon DEF TxAll

\* The handler receives, and uart_read reads.
LEMMA ReceiveKeeps ==
    ASSUME IInv, IrqReceive \/ ReadNext \/ ReadWrap \/ ReadCopy,
           UNCHANGED <<traffic, ahead, avail>>
    PROVE  IInv'
<1>1. RxInv /\ RxInv'
  <2>1. RxInv
    BY Zenon DEF IInv, TypeOK, RxInv
  <2>. QED BY <2>1, RxStep, Zenon DEF Next, Move, Thread, ask
<1>2. UNCHANGED txVars
  BY Zenon DEF IrqReceive, ReadNext, ReadWrap, ReadCopy
<1>3. TxQueue' = TxQueue /\ TxAll' = TxAll
  BY <1>2, TxSame, Zenon DEF txVars, TxAt
<1>4. /\ at' \in {"idle", "read_wrap", "read_copy", at}
      /\ at \notin {"idle", "read_wrap", "read_copy"} => at' = at
      /\ at' # at => at \in {"idle", "read_wrap", "read_copy"}
  BY Zenon DEF IrqReceive, ReadNext, ReadWrap, ReadCopy
<1>5. TypeOK'
  BY <1>1, <1>2, <1>4, Zenon DEF IInv, TypeOK, RxInv, txVars
<1>. QED BY <1>1, <1>2, <1>3, <1>4, <1>5, Zenon DEF IInv, RxInv, txVars

\* uart_write fills the slot uTxEnd, which is free.
LEMMA WriteByteKeeps ==
    ASSUME IInv, WriteByte, UNCHANGED <<traffic, ahead, avail>> PROVE IInv'
<1>. DEFINE d == Distance(uTxBegin, uTxEnd, TxSize)
<1>1. /\ at = "idle" /\ ~TxFull /\ TxBuffer' = [TxBuffer EXCEPT ![uTxEnd] = written + 1]
      /\ written' = written + 1 /\ uTxEnd' = uTxEnd + 1 /\ at' = "write_wrap"
      /\ UNCHANGED rxVars /\ UNCHANGED <<uTxBegin, fifo, shifter, txEmpty, cleared, wire, torn>>
  BY Zenon DEF WriteByte
<1>2. /\ uTxEnd \in 0 .. TxSize - 1 /\ uTxBegin \in 0 .. TxSize - 1 /\ TxAt = uTxEnd
      /\ written \in Nat /\ written + 1 \in Nat
  BY <1>1, TxSizes DEF IInv, TypeOK, TxAt
<1>3. d \in 0 .. TxSize - 2 /\ Slot(uTxBegin, d, TxSize) = uTxEnd
  BY <1>1, <1>2, TxSizes DEF Distance, Slot, TxFull
<1>4. TypeOK'
  <2>0. TxBuffer \in [0 .. TxSize - 1 -> Nat]
    BY Zenon DEF IInv, TypeOK
  <2>1. TxBuffer' \in [0 .. TxSize - 1 -> Nat] /\ uTxEnd' \in 0 .. TxSize
    BY <1>1, <1>2, <2>0, TxSizes
  <2>. QED BY <1>1, <1>2, <2>1, Zenon DEF IInv, TypeOK, rxVars
<1>5. TxAt' \in 0 .. TxSize - 1 /\ Distance(uTxBegin', TxAt', TxSize) = d + 1
  BY <1>1, <1>2, <1>3, TxSizes DEF TxAt, Distance
<1>6. TxQueue' = Append(TxQueue, written + 1)
  <2>1. TxQueue = Ring(TxBuffer, uTxBegin, d)
    BY <1>2, TxFacts, Zenon DEF IInv
  <2>2. TxQueue' = Ring(TxBuffer', uTxBegin, d + 1)
    BY <1>1, <1>5 DEF TxQueue, Ring
  <2>3. TxBuffer \in [0 .. TxSize - 1 -> Nat]
    BY Zenon DEF IInv, TypeOK
  <2>4. TxBuffer' = [TxBuffer EXCEPT ![Slot(uTxBegin, d, TxSize)] = written + 1]
    BY <1>1, <1>3, Zenon
  <2>. HIDE DEF d
  <2>5. Ring([TxBuffer EXCEPT ![Slot(uTxBegin, d, TxSize)] = written + 1], uTxBegin, d + 1)
           = Append(Ring(TxBuffer, uTxBegin, d), written + 1)
    BY <1>2, <1>3, <2>3, RingGrow, Zenon
  <2>. QED BY <2>1, <2>2, <2>4, <2>5, Zenon
<1>7. TxAll' = Append(TxAll, written + 1)
  <2>1. TxAll = All(wire, shifter, fifo, TxQueue) /\ TxAll' = All(wire, shifter, fifo, TxQueue')
    BY <1>1, Zenon DEF TxAll, All
  <2>2. wire \in Seq(Nat) /\ shifter \in Nat /\ fifo \in Seq(Nat) /\ TxQueue \in Seq(Nat)
    BY TxFacts, Zenon DEF IInv
  <2>. DEFINE b == <<written + 1>>
  <2>3. /\ b \in Seq(Nat) /\ Append(TxQueue, written + 1) = Cat(TxQueue, b)
        /\ Append(TxAll, written + 1) = Cat(TxAll, b)
    <3>1. TxAll \in Seq(Nat)
      BY <2>1, <2>2, AllIs, Zenon
    <3>. QED BY <1>2, <2>2, <3>1, CatByte, Zenon
  <2>. HIDE DEF b
  <2>4. All(wire, shifter, fifo, Cat(TxQueue, b)) = Cat(All(wire, shifter, fifo, TxQueue), b)
    BY <2>2, <2>3, AllWrite
  <2>. QED BY <1>6, <2>1, <2>3, <2>4, Zenon
<1>8. torn' \/ Sent(TxAll', cleared', written')
  <2>1. CASE torn
    BY <1>1, <2>1, Zenon
  <2>2. CASE Sent(TxAll, cleared, written)
    <3>1. cleared \in Int
      BY Zenon DEF IInv, TypeOK
    <3>. QED BY <1>1, <1>2, <1>7, <2>2, <3>1, SentWrite, Zenon
  <2>. QED BY <2>1, <2>2, Zenon DEF IInv
<1>9. uRxBegin' = uRxBegin /\ uRxBegin # RxSize
  BY <1>1, Zenon DEF IInv, rxVars
<1>. QED BY <1>1, <1>4, <1>8, <1>9, Zenon DEF IInv

\* ... and wraps the index.
LEMMA WriteWrapKeeps ==
    ASSUME IInv, WriteWrap, UNCHANGED <<traffic, ahead, avail>> PROVE IInv'
<1>1. /\ at = "write_wrap" /\ uTxEnd' = (IF uTxEnd > TxSize - 1 THEN 0 ELSE uTxEnd)
      /\ at' = "write_kick" /\ UNCHANGED rxVars
      /\ UNCHANGED <<uTxBegin, TxBuffer, fifo, shifter, txEmpty, written, cleared, wire, torn>>
  BY Zenon DEF WriteWrap
<1>2. uTxEnd' \in 0 .. TxSize - 1 /\ TxAt' = TxAt
  BY <1>1, TxSizes DEF IInv, TypeOK, TxAt
<1>3. TxAll' = TxAll
  BY <1>1, <1>2, TxSame, Zenon
<1>4. TypeOK'
  BY <1>1, <1>2, TxSizes DEF IInv, TypeOK, rxVars
<1>5. uRxBegin' = uRxBegin /\ uRxBegin # RxSize /\ uTxEnd' # TxSize
  BY <1>1, <1>2, TxSizes DEF IInv, rxVars
<1>. QED BY <1>1, <1>3, <1>4, <1>5, Zenon DEF IInv

(* Bytes that leave the ring: m of those that wait go to the FIFO, and the *)
(* ring begins m slots further.                                            *)
LEMMA RingToFifo ==
    ASSUME TypeOK, NEW m \in 0 .. Len(TxQueue), UNCHANGED <<TxBuffer, TxAt>>,
           uTxBegin' = Slot(uTxBegin, m, TxSize)
    PROVE  /\ Ring(TxBuffer, uTxBegin, m) \in Seq(Nat) /\ Len(Ring(TxBuffer, uTxBegin, m)) = m
           /\ TxQueue' \in Seq(Nat)
           /\ TxQueue = Cat(Ring(TxBuffer, uTxBegin, m), TxQueue')
           /\ All(wire, shifter, Cat(fifo, Ring(TxBuffer, uTxBegin, m)), TxQueue') = TxAll
<1>. DEFINE n == Distance(uTxBegin, TxAt, TxSize)
            r == Ring(TxBuffer, uTxBegin, m)
            c == Slot(uTxBegin, m, TxSize)
<1>1. /\ TxAt \in 0 .. TxSize - 1 /\ n \in 0 .. TxSize - 1 /\ TxQueue = Ring(TxBuffer, uTxBegin, n)
      /\ Len(TxQueue) = n /\ TxAll = All(wire, shifter, fifo, TxQueue)
      /\ wire \in Seq(Nat) /\ shifter \in Nat /\ fifo \in Seq(Nat)
  BY TxFacts, Zenon
<1>2. TxBuffer \in [0 .. TxSize - 1 -> Nat] /\ uTxBegin \in 0 .. TxSize - 1
  BY Zenon DEF TypeOK
<1>3. m \in 0 .. n
  BY <1>1, Zenon
<1>4. m \in 0 .. TxSize /\ n - m \in 0 .. TxSize
  BY <1>1, <1>3, TxSizes
<1>5. c \in 0 .. TxSize - 1
  BY <1>2, <1>4, TxSlotFacts, Zenon
<1>6. Distance(c, TxAt, TxSize) = n - m
  BY <1>1, <1>2, <1>3, TxSlotFacts
<1>. HIDE DEF n
<1>7. TxQueue' = Ring(TxBuffer, c, n - m)
  BY <1>6, Zenon DEF TxQueue, Ring
<1>8. r \in Seq(Nat) /\ Len(r) = m
  BY <1>2, <1>4, RingType, Zenon
<1>9. Ring(TxBuffer, uTxBegin, n) = Cat(r, Ring(TxBuffer, c, n - m))
  BY <1>1, <1>2, <1>3, RingSplit, Zenon DEF Cat
<1>. HIDE DEF c, r
<1>10. Ring(TxBuffer, c, n - m) \in Seq(Nat)
  BY <1>2, <1>4, <1>5, RingType, Zenon
<1>11. TxQueue = Cat(r, TxQueue') /\ TxQueue' \in Seq(Nat)
  BY <1>1, <1>7, <1>9, <1>10, Zenon
<1>12. All(wire, shifter, Cat(fifo, r), TxQueue') = All(wire, shifter, fifo, Cat(r, TxQueue'))
  BY <1>1, <1>8, <1>11, AllMove
<1>. QED BY <1>1, <1>8, <1>11, <1>12, Zenon DEF r

\* ... and starts an idle transmitter.
LEMMA WriteKickKeeps ==
    ASSUME IInv, WriteKick, UNCHANGED <<traffic, ahead, avail>> PROVE IInv'
<1>1. /\ at = "write_kick" /\ at' = "idle" /\ UNCHANGED rxVars
      /\ UNCHANGED <<uTxEnd, TxBuffer, shifter, txEmpty, written, cleared, wire, torn>>
  BY Zenon DEF WriteKick
<1>2. /\ uTxEnd \in 0 .. TxSize - 1 /\ TxAt = uTxEnd /\ TxAt' = TxAt /\ uRxBegin' = uRxBegin
      /\ uRxBegin # RxSize /\ uTxEnd # TxSize /\ uTxBegin \in 0 .. TxSize - 1
  BY <1>1, TxSizes DEF IInv, TypeOK, TxAt, rxVars
<1>3. CASE fifo = <<>> /\ uTxEnd # uTxBegin
  <2>1. fifo' = <<TxBuffer[uTxBegin]>> /\ uTxBegin' = (uTxBegin + 1) % TxSize
    BY <1>3, Zenon DEF WriteKick
  <2>2. uTxBegin' = Slot(uTxBegin, 1, TxSize) /\ uTxBegin' \in 0 .. TxSize - 1
    <3>1. 1 \in 0 .. TxSize
      BY TxSizes
    <3>. QED BY <1>2, <2>1, <3>1, Wrap, TxSlotFacts
  <2>3. 1 \in 0 .. Len(TxQueue)
    <3>1. Len(TxQueue) = Distance(uTxBegin, uTxEnd, TxSize)
      BY <1>2, TxFacts, Zenon DEF IInv
    <3>. QED BY <1>2, <1>3, <3>1, TxSizes DEF Distance
  <2>. DEFINE r == Ring(TxBuffer, uTxBegin, 1)
  <2>4. r \in Seq(Nat) /\ Len(r) = 1 /\ All(wire, shifter, Cat(fifo, r), TxQueue') = TxAll
    BY <1>1, <1>2, <2>2, <2>3, RingToFifo, Zenon DEF IInv
  <2>5. r = <<TxBuffer[uTxBegin]>>
    <3>1. r = [i \in 1 .. 1 |-> TxBuffer[Slot(uTxBegin, i - 1, TxSize)]]
      BY Zenon DEF Ring
    <3>2. Slot(uTxBegin, 0, TxSize) = uTxBegin
      BY <1>2, TxSizes DEF Slot
    <3>3. r[1] = TxBuffer[uTxBegin]
      BY <3>1, <3>2
    <3>. HIDE DEF r
    <3>. QED BY <2>4, <3>3
  <2>6. Cat(fifo, r) = fifo'
    <3>. HIDE DEF r
    <3>1. Cat(<<>>, r) = r
      BY <2>4, CatEmpty, Zenon
    <3>. QED BY <1>3, <2>1, <2>5, <3>1, Zenon
  <2>7. TxAll' = TxAll
    <3>1. TxAll' = All(wire, shifter, fifo', TxQueue')
      BY <1>1, Zenon DEF TxAll, All
    <3>. QED BY <2>4, <2>6, <3>1, Zenon
  <2>8. fifo' \in Seq(Nat) /\ Len(fifo') <= Depth
    <3>. HIDE DEF r
    <3>. QED BY <2>1, <2>4, <2>5, TxSizes
  <2>9. TypeOK'
    BY <1>1, <2>2, <2>8, Zenon DEF IInv, TypeOK, rxVars
  <2>. QED BY <1>1, <1>2, <2>7, <2>9, Zenon DEF IInv
<1>4. CASE ~(fifo = <<>> /\ uTxEnd # uTxBegin)
  <2>1. UNCHANGED <<fifo, uTxBegin>>
    BY <1>4, Zenon DEF WriteKick
  <2>2. TxAll' = TxAll
    BY <1>1, <1>2, <2>1, TxSame, Zenon
  <2>3. TypeOK'
    BY <1>1, <2>1, Zenon DEF IInv, TypeOK, rxVars
  <2>. QED BY <1>1, <1>2, <2>2, <2>3, Zenon DEF IInv
<1>. QED BY <1>3, <1>4, Zenon

\* The byte in a sequence of one.
LEMMA FirstByte == ASSUME NEW s \in Seq(Nat), Len(s) = 1 PROVE s[1] \in Nat
<1>1. 1 \in 1 .. Len(s)
  OBVIOUS
<1>. QED BY <1>1, ElementOfSeq, Zenon

\* What the handler puts into the FIFO.
LEMMA SendingFacts ==
    ASSUME TypeOK
    PROVE  /\ Moved \in Nat /\ Room \in Nat /\ Moved <= Room
           /\ Sending \in Seq(Nat) /\ Len(Sending) = Len(fifo) + Moved
           /\ Moved <= Len(TxQueue) =>
                 /\ Moved \in 0 .. Len(TxQueue)
                 /\ Sending = Cat(fifo, Ring(TxBuffer, uTxBegin, Moved))
                 /\ (uTxBegin + Moved) % TxSize = Slot(uTxBegin, Moved, TxSize)
<1>. DEFINE d == Distance(uTxBegin, uTxEnd, TxSize)
            r == [i \in 1 .. Moved |-> TxBuffer[(uTxBegin + i - 1) % TxSize]]
<1>1. uTxBegin \in 0 .. TxSize - 1 /\ TxBuffer \in [0 .. TxSize - 1 -> Nat]
      /\ fifo \in Seq(Nat) /\ Len(fifo) <= Depth
  BY Zenon DEF TypeOK
<1>2. Room \in Nat
  BY <1>1, TxSizes DEF Room
<1>3. Unsent \in Nat
  BY TxSizes DEF TypeOK, Unsent, Distance
<1>4. Moved \in Nat /\ Moved <= Room
  BY <1>2, <1>3 DEF Moved
<1>5. r \in Seq(Nat) /\ Len(r) = Moved
  <2>1. ASSUME NEW i \in 1 .. Moved PROVE TxBuffer[(uTxBegin + i - 1) % TxSize] \in Nat
    <3>1. uTxBegin + i - 1 \in Nat
      BY <1>1, <1>4
    <3>2. (uTxBegin + i - 1) % TxSize \in 0 .. TxSize - 1
      BY <3>1, Remainder, Zenon
    <3>. QED BY <1>1, <3>2, Zenon
  <2>. QED BY <1>4, <2>1
<1>6. Sending = Cat(fifo, r)
  BY Zenon DEF Sending, Cat
<1>7. Sending \in Seq(Nat) /\ Len(Sending) = Len(fifo) + Moved
  <2>. HIDE DEF r
  <2>. QED BY <1>1, <1>5, <1>6, CatType, Zenon
<1>8. ASSUME Moved <= Len(TxQueue)
      PROVE  /\ Moved \in 0 .. Len(TxQueue)
             /\ Sending = Cat(fifo, Ring(TxBuffer, uTxBegin, Moved))
             /\ (uTxBegin + Moved) % TxSize = Slot(uTxBegin, Moved, TxSize)
  <2>1. Len(TxQueue) \in 0 .. TxSize - 1
    BY TxFacts, Zenon
  <2>2. Moved \in 0 .. Len(TxQueue) /\ Moved \in 0 .. TxSize
    BY <1>4, <1>8, <2>1, TxSizes
  <2>3. ASSUME NEW i \in 1 .. Moved
        PROVE  TxBuffer[(uTxBegin + i - 1) % TxSize] = TxBuffer[Slot(uTxBegin, i - 1, TxSize)]
    <3>1. i - 1 \in 0 .. TxSize /\ uTxBegin + i - 1 = uTxBegin + (i - 1)
      BY <1>1, <2>2, TxSizes
    <3>2. (uTxBegin + (i - 1)) % TxSize = Slot(uTxBegin, i - 1, TxSize)
      BY <1>1, <3>1, Wrap, Zenon
    <3>. QED BY <3>1, <3>2, Zenon
  <2>4. r = Ring(TxBuffer, uTxBegin, Moved)
    BY <2>3, Zenon DEF Ring
  <2>. QED BY <1>1, <1>6, <2>2, <2>4, Wrap, Zenon
<1>. QED BY <1>2, <1>4, <1>7, <1>8, Zenon

\* The handler sends, and does not run past uTxEnd unless torn says so.
LEMMA IrqTransmitKeeps ==
    ASSUME IInv, IrqTransmit, UNCHANGED <<traffic, ahead, avail>> PROVE IInv'
<1>1. /\ txEmpty' = FALSE /\ uTxBegin' = (uTxBegin + Moved) % TxSize
      /\ torn' = (torn \/ (uTxEnd = TxSize /\ Moved > Distance(uTxBegin, 0, TxSize)))
      /\ UNCHANGED rxVars /\ UNCHANGED <<uTxEnd, TxBuffer, written, cleared, wire, at>>
      /\ \/ fifo' = Sending /\ UNCHANGED shifter
         \/ Len(Sending) = 1 /\ shifter = 0 /\ fifo' = <<>> /\ shifter' = Sending[1]
  BY Zenon DEF IrqTransmit
<1>2. TypeOK /\ uTxBegin \in 0 .. TxSize - 1 /\ fifo \in Seq(Nat) /\ Len(fifo) <= Depth
      /\ TxAt' = TxAt /\ uTxEnd \in 0 .. TxSize
  BY <1>1, Zenon DEF IInv, TypeOK, TxAt
<1>3. /\ Moved \in Nat /\ Room \in Nat /\ Moved <= Room
      /\ Sending \in Seq(Nat) /\ Len(Sending) = Len(fifo) + Moved
      /\ Moved <= Len(TxQueue) =>
            /\ Moved \in 0 .. Len(TxQueue)
            /\ Sending = Cat(fifo, Ring(TxBuffer, uTxBegin, Moved))
            /\ uTxBegin' = Slot(uTxBegin, Moved, TxSize)
  BY <1>1, <1>2, SendingFacts, Zenon
<1>4. TypeOK'
  <2>1. uTxBegin' \in 0 .. TxSize - 1
    <3>1. uTxBegin + Moved \in Nat
      BY <1>2, <1>3
    <3>. QED BY <1>1, <3>1, Remainder, Zenon
  <2>2. Len(Sending) <= Depth
    BY <1>2, <1>3, TxSizes DEF Room
  <2>3. fifo' \in Seq(Nat) /\ Len(fifo') <= Depth /\ shifter' \in Nat
    <3>0. shifter \in Nat
      BY Zenon DEF IInv, TypeOK
    <3>5. Depth \in Nat /\ <<>> \in Seq(Nat) /\ Len(<<>>) = 0
      BY TxSizes
    <3>1. shifter \in Nat /\ Depth \in Nat /\ <<>> \in Seq(Nat) /\ Len(<<>>) = 0
      BY <3>0, <3>5, Zenon
    <3>2. Len(Sending) = 1 => Sending[1] \in Nat
      BY <1>3, FirstByte, Zenon
    <3>3. CASE fifo' = Sending /\ UNCHANGED shifter
      BY <1>3, <2>2, <3>1, <3>3, Zenon
    <3>4. CASE Len(Sending) = 1 /\ shifter = 0 /\ fifo' = <<>> /\ shifter' = Sending[1]
      BY <3>1, <3>2, <3>4
    <3>. QED BY <1>1, <3>3, <3>4, Zenon
  <2>4. torn' \in BOOLEAN
    BY <1>1, Zenon DEF IInv, TypeOK
  <2>. QED BY <1>1, <2>1, <2>3, <2>4, Zenon DEF IInv, TypeOK, rxVars
<1>5. at = "flush" => uTxBegin' = uTxEnd'
  <2>. SUFFICES ASSUME at = "flush" PROVE uTxBegin' = uTxEnd
    BY <1>1, Zenon
  <2>1. uTxBegin = uTxEnd /\ uTxEnd # TxSize
    BY Zenon DEF IInv
  <2>2. Moved = 0
    BY <1>2, <1>3, <2>1 DEF Moved, Unsent, Distance
  <2>3. Len(TxQueue) \in Nat
    BY <1>2, TxFacts
  <2>4. uTxBegin' = Slot(uTxBegin, 0, TxSize)
    BY <1>3, <2>2, <2>3
  <2>. QED BY <1>2, <2>1, <2>4, TxSizes DEF Slot
<1>6. ASSUME ~torn' PROVE Sent(TxAll', cleared', written')
  <2>1. Sent(TxAll, cleared, written)
    BY <1>1, <1>6, Zenon DEF IInv
  <2>2. Moved <= Len(TxQueue)
    <3>1. Len(TxQueue) = Distance(uTxBegin, TxAt, TxSize)
      BY <1>2, TxFacts, Zenon
    <3>2. CASE uTxEnd = TxSize
      <4>1. TxAt = 0 /\ ~(Moved > Distance(uTxBegin, 0, TxSize))
        BY <1>1, <1>6, <3>2, Zenon DEF TxAt
      <4>2. Len(TxQueue) \in Int
        BY <1>2, TxFacts
      <4>. QED BY <1>3, <3>1, <4>1, <4>2
    <3>3. CASE uTxEnd # TxSize
      <4>1. TxAt = uTxEnd /\ Unsent = Distance(uTxBegin, uTxEnd, TxSize) /\ Len(TxQueue) \in Int
        BY <1>2, <3>3, TxFacts DEF TxAt, Unsent
      <4>. QED BY <1>3, <3>1, <4>1 DEF Moved
    <3>. QED BY <3>2, <3>3, Zenon
  <2>. DEFINE r == Ring(TxBuffer, uTxBegin, Moved)
              m == Moved
  <2>3. m \in 0 .. Len(TxQueue) /\ uTxBegin' = Slot(uTxBegin, m, TxSize) /\ Sending = Cat(fifo, r)
    BY <1>3, <2>2, Zenon
  <2>4. TxQueue' \in Seq(Nat) /\ All(wire, shifter, Cat(fifo, r), TxQueue') = TxAll
    <3>. HIDE DEF m
    <3>1. All(wire, shifter, Cat(fifo, Ring(TxBuffer, uTxBegin, m)), TxQueue') = TxAll
          /\ TxQueue' \in Seq(Nat)
      BY <1>1, <1>2, <2>3, RingToFifo, Zenon
    <3>. QED BY <3>1, Zenon DEF m
  <2>5. All(wire, shifter, Sending, TxQueue') = TxAll
    BY <2>3, <2>4, Zenon
  <2>6. TxAll' = All(wire, shifter', fifo', TxQueue')
    BY <1>1, Zenon DEF TxAll, All
  <2>7. CASE fifo' = Sending /\ UNCHANGED shifter
    BY <1>1, <2>1, <2>5, <2>6, <2>7, Zenon
  <2>8. CASE Len(Sending) = 1 /\ shifter = 0 /\ fifo' = <<>> /\ shifter' = Sending[1]
    <3>. DEFINE f == Sending
                q == TxQueue'
    <3>0. f \in Seq(Nat) /\ Len(f) = 1 /\ q \in Seq(Nat) /\ All(wire, 0, f, q) = TxAll
      BY <1>3, <2>4, <2>5, <2>8, Zenon
    <3>1. wire \in Seq(Nat) /\ 0 \in Nat /\ written \in Nat
      BY <1>2, TxFacts, Zenon
    <3>. HIDE DEF f, q
    <3>2. f[1] # 0 /\ Head(f) = f[1] /\ Tail(f) = <<>> /\ f # <<>>
      <4>1. \A i \in 1 .. Len(f) : f[i] # 0
        BY <2>1, <3>0, <3>1, SentBytes, Zenon
      <4>2. f # <<>> /\ Head(f) = f[1] /\ f[1] # 0
        <5>1. f \in Seq(Nat) /\ Len(f) = 1
          BY <3>0, Zenon
        <5>2. f[1] # 0
          BY <4>1, <5>1
        <5>3. f # <<>>
          <6>1. Len(f) # 0
            BY <5>1
          <6>. QED BY <5>1, <6>1, EmptySeq, Zenon
        <5>4. Head(f) = f[1]
          BY <5>1, <5>3
        <5>. QED BY <5>2, <5>3, <5>4, Zenon
      <4>3. Tail(f) \in Seq(Nat) /\ Len(Tail(f)) = 0
        BY <3>0, <4>2, HeadTailProperties
      <4>4. Tail(f) = <<>>
        BY <4>3, EmptySeq, Zenon
      <4>. QED BY <4>2, <4>4, Zenon
    <3>3. All(wire, Head(f), Tail(f), q) = All(wire, 0, f, q)
      BY <3>0, <3>1, <3>2, AllLoad, Zenon
    <3>4. TxAll' = TxAll
      BY <2>6, <2>8, <3>0, <3>2, <3>3, Zenon DEF f, q
    <3>. QED BY <1>1, <2>1, <3>4, Zenon
  <2>. QED BY <1>1, <2>7, <2>8, Zenon
<1>7. uRxBegin' = uRxBegin
  BY <1>1, Zenon DEF rxVars
<1>. QED BY <1>1, <1>4, <1>5, <1>6, <1>7, Zenon DEF IInv

\* The hardware loads its shift register and sends the byte in it.
LEMMA LineKeeps ==
    ASSUME IInv, Line, UNCHANGED <<traffic, ahead, avail>> PROVE IInv'
<1>0. /\ TypeOK /\ wire \in Seq(Nat) /\ shifter \in Nat /\ fifo \in Seq(Nat) /\ TxQueue \in Seq(Nat)
      /\ TxAll = All(wire, shifter, fifo, TxQueue) /\ written \in Nat
  BY TxFacts, Zenon DEF IInv
<1>1. /\ UNCHANGED rxVars /\ UNCHANGED <<uTxBegin, uTxEnd, TxBuffer, written, cleared, torn, at>>
      /\ TxQueue' = TxQueue /\ uRxBegin' = uRxBegin
  BY Zenon DEF Line, Load, Shift, TxQueue, TxAt, rxVars
<1>2. TxAll' = All(wire', shifter', fifo', TxQueue)
  BY <1>1, Zenon DEF TxAll, All
<1>3. CASE Load
  <2>1. /\ shifter = 0 /\ fifo # <<>> /\ shifter' = Head(fifo) /\ fifo' = Tail(fifo)
        /\ txEmpty' = (txEmpty \/ Len(fifo) = 1) /\ wire' = wire
    BY <1>3, Zenon DEF Load
  <2>2. /\ Head(fifo) \in Nat /\ Tail(fifo) \in Seq(Nat) /\ Len(Tail(fifo)) = Len(fifo) - 1
    BY <1>0, <2>1, HeadTailProperties, Zenon
  <2>3. txEmpty' \in BOOLEAN
    BY <2>1, Zenon DEF IInv, TypeOK
  <2>4. TypeOK'
    <3>1. Len(fifo) \in Nat /\ Len(fifo) <= Depth
      BY <1>0 DEF IInv, TypeOK
    <3>2. Len(fifo') <= Depth
      BY <2>1, <2>2, <3>1, TxSizes
    <3>. QED BY <1>1, <2>1, <2>2, <2>3, <3>2, Zenon DEF IInv, TypeOK, rxVars
  <2>5. ASSUME Sent(TxAll, cleared, written) PROVE TxAll' = TxAll
    <3>1. \A i \in 1 .. Len(fifo) : fifo[i] # 0
      BY <1>0, <2>5, SentBytes, Zenon
    <3>2. Head(fifo) # 0
      BY <1>0, <2>1, <3>1
    <3>3. All(wire, Head(fifo), Tail(fifo), TxQueue) = All(wire, 0, fifo, TxQueue)
      BY <1>0, <2>1, <3>2, AllLoad, Zenon
    <3>. QED BY <1>0, <1>2, <2>1, <3>3, Zenon
  <2>. QED BY <1>1, <2>4, <2>5, Zenon DEF IInv
<1>4. CASE Shift
  <2>1. /\ shifter # 0 /\ wire' = (IF torn THEN wire ELSE Append(wire, shifter)) /\ shifter' = 0
        /\ fifo' = fifo /\ txEmpty' = txEmpty
    BY <1>4, Zenon DEF Shift
  <2>2. TypeOK'
    <3>1. wire' \in Seq(Nat)
      BY <1>0, <2>1
    <3>. QED BY <1>1, <2>1, <3>1, Zenon DEF IInv, TypeOK, rxVars
  <2>3. ASSUME ~torn PROVE TxAll' = TxAll
    <3>1. shifter \in Nat \ {0}
      BY <1>0, <2>1, Zenon
    <3>2. All(Append(wire, shifter), 0, fifo, TxQueue) = All(wire, shifter, fifo, TxQueue)
      BY <1>0, <3>1, AllShift, Zenon
    <3>. QED BY <1>0, <1>2, <2>1, <2>3, <3>2, Zenon
  <2>. QED BY <1>1, <2>2, <2>3, Zenon DEF IInv
<1>. QED BY <1>3, <1>4, Zenon DEF Line

\* uart_flush waits.
LEMMA FlushKeeps ==
    ASSUME IInv, Flush, UNCHANGED <<traffic, ahead, avail>> PROVE IInv'
<1>1. /\ UNCHANGED rxVars /\ UNCHANGED txVars
      /\ \/ at = "idle" /\ at' = "flush" /\ uTxBegin = uTxEnd
         \/ at = "flush" /\ at' = "idle"
  BY Zenon DEF Flush
<1>2. TxAll' = TxAll
  BY <1>1, TxSame, Zenon DEF txVars, TxAt
<1>3. TypeOK'
  BY <1>1, Zenon DEF IInv, TypeOK, rxVars, txVars
<1>. QED BY <1>1, <1>2, <1>3, Zenon DEF IInv, rxVars, txVars

\* uart_tx_buffer_clear throws away what waits in the ring.
LEMMA ClearKeeps ==
    ASSUME IInv, TxBufferClear, UNCHANGED <<traffic, ahead, avail>> PROVE IInv'
<1>1. /\ at = "idle" /\ cleared' = cleared + Unsent /\ uTxEnd' = uTxBegin /\ UNCHANGED rxVars
      /\ UNCHANGED <<uTxBegin, TxBuffer, fifo, shifter, txEmpty, written, wire, torn, at>>
  BY Zenon DEF TxBufferClear
<1>2. /\ TypeOK /\ uTxEnd # TxSize /\ uTxBegin \in 0 .. TxSize - 1 /\ uRxBegin' = uRxBegin
      /\ cleared \in Int /\ written \in Nat
  BY <1>1, Zenon DEF IInv, TypeOK, rxVars
<1>3. /\ TxQueue \in Seq(Nat) /\ Len(TxQueue) = Unsent /\ Unsent \in Nat
      /\ TxAll = All(wire, shifter, fifo, TxQueue)
      /\ wire \in Seq(Nat) /\ shifter \in Nat /\ fifo \in Seq(Nat)
  <2>1. TxAt = uTxEnd /\ Unsent = Distance(uTxBegin, uTxEnd, TxSize)
    BY <1>2, Zenon DEF TxAt, Unsent
  <2>. QED BY <1>2, <2>1, TxFacts
<1>4. TxQueue' = <<>> /\ uTxEnd' # TxSize /\ uTxEnd' \in 0 .. TxSize
  <2>1. TxAt' = uTxBegin /\ uTxEnd' # TxSize /\ uTxEnd' \in 0 .. TxSize
    BY <1>1, <1>2, TxSizes DEF TxAt
  <2>2. Distance(uTxBegin', TxAt', TxSize) = 0
    BY <1>1, <1>2, <2>1 DEF Distance
  <2>. QED BY <2>1, <2>2 DEF TxQueue
<1>5. TypeOK'
  BY <1>1, <1>2, <1>3, <1>4 DEF TypeOK, rxVars
<1>. DEFINE v == Cat(Cat(wire, Byte(shifter)), fifo)
<1>6. TxAll = Cat(v, TxQueue) /\ v \in Seq(Nat)
  BY <1>3, AllIs
<1>7. TxAll' = v
  <2>. DEFINE q == <<>>
  <2>0. q \in Seq(Nat)
    OBVIOUS
  <2>1. TxAll' = All(wire, shifter, fifo, q)
    BY <1>1, <1>4, Zenon DEF TxAll, All
  <2>. HIDE DEF q
  <2>2. All(wire, shifter, fifo, q) = Cat(v, q)
    BY <1>3, <2>0, AllIs
  <2>. HIDE DEF v
  <2>3. Cat(v, q) = v
    BY <1>6, CatEmpty, Zenon DEF q
  <2>. QED BY <2>1, <2>2, <2>3, Zenon
<1>. HIDE DEF v
<1>8. ASSUME Sent(TxAll, cleared, written) PROVE Sent(TxAll', cleared', written')
  <2>1. Sent(v, cleared + Len(TxQueue), written)
    BY <1>2, <1>3, <1>6, <1>8, SentClear, Zenon
  <2>. QED BY <1>1, <1>3, <1>7, <2>1, Zenon
<1>. QED BY <1>1, <1>2, <1>4, <1>5, <1>8, Zenon DEF IInv

\* uart_enable throws away all that is on its way.
LEMMA EnableKeeps ==
    ASSUME IInv, Enable, UNCHANGED <<traffic, ahead, avail>> PROVE IInv'
<1>1. /\ at = "idle" /\ uRxBegin' = 0 /\ uRxEnd' = 0 /\ uTxBegin' = 0 /\ uTxEnd' = 0
      /\ fifo' = <<>> /\ shifter' = 0 /\ txEmpty' \in BOOLEAN /\ cleared' = written - Len(wire)
      /\ UNCHANGED <<RxBuffer, received, read, TxBuffer, written, wire, torn, at>>
  BY Zenon DEF Enable
<1>2. /\ TxQueue \in Seq(Nat) /\ TxAll = All(wire, shifter, fifo, TxQueue) /\ wire \in Seq(Nat)
      /\ shifter \in Nat /\ fifo \in Seq(Nat) /\ written \in Nat /\ cleared \in Int
  BY TxFacts, Zenon DEF IInv
<1>3. TypeOK'
  <2>1. Len(wire) \in Nat /\ written - Len(wire) \in Int
    BY <1>2
  <2>. QED BY <1>1, <2>1, RxSizes, TxSizes, SMTT(30) DEF IInv, TypeOK
<1>4. TxAll' = wire
  <2>1. TxAt' = 0 /\ Distance(uTxBegin', TxAt', TxSize) = 0
    BY <1>1, TxSizes DEF TxAt, Distance
  <2>2. TxQueue' = <<>>
    BY <2>1 DEF TxQueue
  <2>3. TxAll' = ((wire \o <<>>) \o <<>>) \o <<>>
    BY <1>1, <2>2, Zenon DEF TxAll
  <2>4. wire \o <<>> = wire
    BY <1>2, ConcatEmptySeq, Zenon
  <2>. QED BY <2>3, <2>4, Zenon
<1>5. ASSUME Sent(TxAll, cleared, written) PROVE Sent(wire, written - Len(wire), written)
  <2>. DEFINE b == Byte(shifter)
              v == Cat(wire, b)
              u == Cat(v, fifo)
              x == cleared + Len(TxQueue)
              y == x + Len(fifo)
              z == y + Len(b)
  <2>1. TxAll = Cat(u, TxQueue) /\ u \in Seq(Nat) /\ v \in Seq(Nat) /\ b \in Seq(Nat)
    <3>. HIDE DEF x, y, z
    <3>1. b \in Seq(Nat)
      BY <1>2, AllIs, Zenon
    <3>2. u \in Seq(Nat) /\ v \in Seq(Nat)
      BY <1>2, AllIs, Zenon
    <3>. QED BY <1>2, <3>1, <3>2, AllIs
  <2>2. x \in Int /\ y \in Int /\ z \in Int
    BY <1>2, <2>1
  <2>. HIDE DEF b
  <2>3. Sent(u, x, written)
    <3>. HIDE DEF u
    <3>. QED BY <1>2, <1>5, <2>1, SentClear, Zenon
  <2>. HIDE DEF x
  <2>4. Sent(v, y, written)
    <3>. HIDE DEF v
    <3>. QED BY <1>2, <2>1, <2>2, <2>3, SentClear, Zenon
  <2>. HIDE DEF y
  <2>5. Sent(wire, z, written)
    BY <1>2, <2>1, <2>2, <2>4, SentClear, Zenon
  <2>. HIDE DEF z
  <2>6. z = written - Len(wire)
    BY <1>2, <2>2, <2>5 DEF Sent
  <2>. QED BY <2>5, <2>6, Zenon
<1>6. torn' \/ Sent(TxAll', cleared', written')
  BY <1>1, <1>4, <1>5, Zenon DEF IInv
<1>. QED BY <1>1, <1>3, <1>6, RxSizes, TxSizes DEF IInv

\* What the subtraction of uart_get_available gives is a BT_u32.
LEMMA Word32 == ASSUME NEW n \in Int PROVE n % Word \in 0 .. Word - 1
BY WordSize, RxSizes

\* uart_get_available changes neither ring.
LEMMA AskKeeps ==
    ASSUME IInv, Ask, UNCHANGED traffic PROVE IInv'
<1>1. /\ UNCHANGED rxVars /\ UNCHANGED txVars /\ at \notin {"read_wrap", "write_wrap"}
      /\ at' \in {"idle", "avail_tx", "avail_rx", "answer"}
  BY Zenon DEF Ask, GetAvailable, AvailableTx, AvailableRx, Answered
<1>2. ahead' \in BOOLEAN
  <2>1. uTxBegin \in Int /\ uTxEnd \in Int /\ uRxBegin \in Int /\ uRxEnd \in Int
    BY RxSizes, TxSizes DEF IInv, TypeOK
  <2>2. (uTxEnd >= uTxBegin) \in BOOLEAN /\ (uRxEnd >= uRxBegin) \in BOOLEAN
    BY <2>1
  <2>. QED BY <2>2, Zenon DEF IInv, TypeOK, Ask, GetAvailable, AvailableTx, AvailableRx, Answered
<1>3. avail' \in [tx : 0 .. Word - 1, rx : 0 .. Word - 1]
  <2>1. avail \in [tx : 0 .. Word - 1, rx : 0 .. Word - 1]
    BY Zenon DEF IInv, TypeOK
  <2>2. Transmit \in 0 .. Word - 1 /\ Receive \in 0 .. Word - 1 /\ 0 \in 0 .. Word - 1
    <3>1. /\ (IF ahead THEN TxSize - uTxEnd + uTxBegin - 1 ELSE uTxBegin - uTxEnd - 1) \in Int
          /\ (IF ahead THEN uRxEnd - uRxBegin ELSE RxSize - uRxBegin + uRxEnd) \in Int
      BY RxSizes, TxSizes DEF IInv, TypeOK
    <3>2. 0 \in 0 .. Word - 1
      BY WordSize, RxSizes
    <3>. QED BY <3>1, <3>2, Word32, Zenon DEF Transmit, Receive
  <2>. QED BY <2>1, <2>2 DEF Ask, GetAvailable, AvailableTx, AvailableRx, Answered
<1>4. TxAll' = TxAll
  BY <1>1, TxSame, Zenon DEF txVars, TxAt
<1>5. TypeOK'
  BY <1>1, <1>2, <1>3, Zenon DEF IInv, TypeOK, rxVars, txVars
<1>. QED BY <1>1, <1>4, <1>5, Zenon DEF IInv, rxVars, txVars

-----------------------------------------------------------------------------
\* Every step of the thread, the handler and the hardware preserves the invariant.
LEMMA NextIInv == IInv /\ [Next]_vars => IInv'
<1>. SUFFICES ASSUME IInv, [Next]_vars PROVE IInv'
  BY Zenon
<1>1. CASE UNCHANGED vars
  <2>1. UNCHANGED rxVars /\ UNCHANGED txVars /\ UNCHANGED <<at, traffic, ahead, avail>>
    BY <1>1, Zenon DEF vars, ask
  <2>2. TxAll' = TxAll
    BY <2>1, TxSame, Zenon DEF txVars, TxAt
  <2>3. TypeOK'
    BY <2>1, Zenon DEF IInv, TypeOK, rxVars, txVars
  <2>. QED BY <2>1, <2>2, <2>3, Zenon DEF IInv, rxVars, txVars
<1>. QED BY <1>1, ReceiveKeeps, WriteByteKeeps, WriteWrapKeeps, WriteKickKeeps, IrqTransmitKeeps,
            LineKeeps, FlushKeeps, ClearKeeps, EnableKeeps, AskKeeps, Zenon
            DEF Next, Move, Thread, ask

\* The invariant holds in every reachable state.
LEMMA Invariance == Spec => []IInv
BY InitIInv, NextIInv, PTL DEF Spec

(* The indices of both rings stay inside their rings, but for the moment   *)
(* before they wrap, and the handler never overfills the transmit FIFO.    *)
THEOREM PortTyped == Spec => []TypeOK
<1>1. IInv => TypeOK
  BY Zenon DEF IInv
<1>. QED BY <1>1, Invariance, PTL

(* uart_write loses, repeats and reorders nothing, for every size of ring  *)
(* and FIFO and every interleaving with the handler, unless the handler    *)
(* finds uTxEnd behind the last slot and runs past the end of the ring.    *)
THEOREM TransmitsInOrder == Spec => []TxInOrder
<1>1. IInv => TxInOrder
  <2>. SUFFICES ASSUME Sent(TxAll, cleared, written) PROVE TxInOrder
    BY Zenon DEF IInv, TxInOrder
  <2>1. DOMAIN TxAll = 1 .. Len(TxAll)
    BY DEF Sent
  <2>. QED BY <2>1, Zenon DEF Sent, TxInOrder
<1>. QED BY <1>1, Invariance, PTL

-----------------------------------------------------------------------------
(* What uart_get_available knows from its test: uTxBegin does not overtake *)
(* uTxEnd, and uRxEnd does not catch up with uRxBegin.                     *)
Tested == /\ at = "avail_tx" /\ ahead => uTxBegin <= uTxEnd
          /\ at = "avail_rx" /\ ~ahead => uRxEnd < uRxBegin

\* The indices while uart_get_available runs.
LEMMA AskIndices ==
    ASSUME IInv, at \in {"avail_tx", "avail_rx"}
    PROVE  /\ uTxBegin \in 0 .. TxSize - 1 /\ uTxEnd \in 0 .. TxSize - 1
           /\ uRxBegin \in 0 .. RxSize - 1 /\ uRxEnd \in 0 .. RxSize - 1
           /\ Len(TxQueue) = Distance(uTxBegin, uTxEnd, TxSize)
           /\ Len(RxQueue) = Distance(uRxBegin, uRxEnd, RxSize)
<1>1. /\ uTxBegin \in 0 .. TxSize - 1 /\ uTxEnd \in 0 .. TxSize - 1 /\ TxAt = uTxEnd
      /\ uRxBegin \in 0 .. RxSize - 1 /\ uRxEnd \in 0 .. RxSize - 1 /\ RxAt = uRxBegin
  BY RxSizes, TxSizes DEF IInv, TypeOK, TxAt, RxAt
<1>2. RxInv
  BY Zenon DEF IInv, TypeOK, RxInv
<1>3. Len(TxQueue) = Distance(uTxBegin, uTxEnd, TxSize)
  BY <1>1, TxFacts, Zenon DEF IInv
<1>4. Len(RxQueue) = Distance(uRxBegin, uRxEnd, RxSize)
  BY <1>1, <1>2, RxQueueFacts, Zenon DEF RxWaiting
<1>. QED BY <1>1, <1>3, <1>4, Zenon

\* Whatever the handler does between the test and the subtraction.
LEMMA TestedStep == IInv /\ Tested /\ [Next]_vars => Tested'
<1>. SUFFICES ASSUME IInv, Tested, [Next]_vars PROVE Tested'
  BY Zenon
<1>1. CASE Ask
  <2>1. UNCHANGED <<uTxBegin, uTxEnd, uRxBegin, uRxEnd>>
    BY <1>1, Zenon DEF Ask, GetAvailable, AvailableTx, AvailableRx, Answered, rxVars, txVars
  <2>2. /\ at' = "avail_tx" => ahead' = (uTxEnd >= uTxBegin)
        /\ at' = "avail_rx" => ahead' = (uRxEnd >= uRxBegin)
    BY <1>1, Zenon DEF Ask, GetAvailable, AvailableTx, AvailableRx, Answered
  <2>3. uTxBegin \in Int /\ uTxEnd \in Int /\ uRxBegin \in Int /\ uRxEnd \in Int
    BY RxSizes, TxSizes DEF IInv, TypeOK
  <2>4. /\ at' = "avail_tx" /\ ahead' => uTxBegin <= uTxEnd
        /\ at' = "avail_rx" /\ ~ahead' => uRxEnd < uRxBegin
    <3>1. uTxEnd >= uTxBegin => uTxBegin <= uTxEnd
      BY <2>3
    <3>2. ~(uRxEnd >= uRxBegin) => uRxEnd < uRxBegin
      BY <2>3
    <3>. QED BY <2>2, <3>1, <3>2, Zenon
  <2>. QED BY <2>1, <2>4, Zenon DEF Tested
<1>2. CASE IrqReceive /\ UNCHANGED ask
  <2>1. /\ UNCHANGED <<at, ahead, uTxBegin, uTxEnd, uRxBegin>>
        /\ \/ uRxEnd' = uRxEnd
           \/ ~RxFull /\ uRxEnd' = IF uRxEnd + 1 > RxSize - 1 THEN 0 ELSE uRxEnd + 1
    BY <1>2, Zenon DEF IrqReceive, txVars, ask
  <2>2. ASSUME at = "avail_rx", ~ahead PROVE uRxEnd' < uRxBegin
    <3>1. uRxEnd < uRxBegin
      BY <2>2, Zenon DEF Tested
    <3>2. uRxBegin \in 0 .. RxSize - 1 /\ uRxEnd \in 0 .. RxSize - 1
      BY <2>2, AskIndices, Zenon
    <3>. QED BY <2>1, <3>1, <3>2, RxSizes DEF RxFull
  <2>. QED BY <2>1, <2>2, Zenon DEF Tested
<1>3. CASE IrqTransmit /\ UNCHANGED ask
  <2>1. /\ UNCHANGED <<at, ahead, uTxEnd, uRxBegin, uRxEnd>>
        /\ uTxBegin' = (uTxBegin + Moved) % TxSize
    BY <1>3, Zenon DEF IrqTransmit, rxVars, ask
  <2>2. ASSUME at = "avail_tx", ahead PROVE uTxBegin' <= uTxEnd
    <3>1. uTxBegin <= uTxEnd
      BY <2>2, Zenon DEF Tested
    <3>2. uTxBegin \in 0 .. TxSize - 1 /\ uTxEnd \in 0 .. TxSize - 1
      BY <2>2, AskIndices, Zenon
    <3>3. Unsent = uTxEnd - uTxBegin
      BY <3>1, <3>2, TxSizes DEF Unsent, Distance
    <3>4. Moved \in Nat /\ Room \in Nat
      BY SendingFacts, Zenon DEF IInv
    <3>5. Moved \in 0 .. uTxEnd - uTxBegin
      BY <3>1, <3>2, <3>3, <3>4 DEF Moved
    <3>6. Moved \in 0 .. TxSize /\ uTxBegin + Moved < TxSize
      BY <3>2, <3>5, TxSizes
    <3>7. uTxBegin' = uTxBegin + Moved
      <4>1. (uTxBegin + Moved) % TxSize = Slot(uTxBegin, Moved, TxSize)
        BY <3>2, <3>6, Wrap, Zenon
      <4>. QED BY <2>1, <3>6, <4>1, Zenon DEF Slot
    <3>. QED BY <3>2, <3>5, <3>7
  <2>. QED BY <2>1, <2>2, Zenon DEF Tested
<1>4. CASE (Thread \/ Flush \/ TxBufferClear \/ Enable) /\ UNCHANGED ask
  <2>1. at' \notin {"avail_tx", "avail_rx"}
    BY <1>4, Zenon DEF Thread, ReadNext, ReadWrap, ReadCopy, WriteByte, WriteWrap, WriteKick, Flush,
                       TxBufferClear, Enable
  <2>. QED BY <2>1, Zenon DEF Tested
<1>5. CASE UNCHANGED vars \/ (Line /\ UNCHANGED ask)
  <2>1. UNCHANGED <<at, ahead, uTxBegin, uTxEnd, uRxBegin, uRxEnd>>
    BY <1>5, Zenon DEF Line, Load, Shift, ask, vars, rxVars, txVars
  <2>. QED BY <2>1, Zenon DEF Tested
<1>. QED BY <1>1, <1>2, <1>3, <1>4, <1>5, Zenon DEF Next, Move

\* A number the ring can hold is left alone by the 32 bits, a negative one is not.
LEMMA Modulo ==
    ASSUME NEW n \in Int, -Word < n, n < Word
    PROVE  n % Word = IF n < 0 THEN n + Word ELSE n
<1>1. Word \in Nat /\ Word > 0
  BY WordSize, RxSizes
<1>. DEFINE q == n \div Word
            r == n % Word
<1>2. q \in Int /\ r \in 0 .. Word - 1 /\ n = Word * q + r
  BY <1>1
<1>. HIDE DEF q, r
<1>3. q = 0 \/ q = -1
  BY <1>1, <1>2
<1>4. Word * 0 = 0 /\ Word * (-1) = -Word
  BY <1>1
<1>5. r = IF n < 0 THEN n + Word ELSE n
  BY <1>1, <1>2, <1>3, <1>4
<1>. QED BY <1>5, Zenon DEF r

(* uart_get_available counts right the room left in the transmit ring and  *)
(* the bytes that wait in the receive ring, whatever the handler does in   *)
(* the middle of it, but for an index of the handler that goes back to 0   *)
(* between the test and the subtraction.                                   *)
THEOREM AvailableCountsRight == Spec => AvailableExact
<1>1. Init => Tested
  BY Zenon DEF Init, Tested
<1>2. Spec => [](IInv /\ Tested)
  BY <1>1, InitIInv, NextIInv, TestedStep, PTL DEF Spec
<1>3. ASSUME IInv, Tested, Next, at = "avail_tx", at' = "avail_rx"
      PROVE  avail'.tx = TxSize - 1 - Len(TxQueue) + (IF TxPassed THEN Word - TxSize ELSE 0)
  <2>1. avail' = [avail EXCEPT !.tx = Transmit]
    BY <1>3, Zenon DEF Next, Move, Thread, ReadNext, ReadWrap, ReadCopy, WriteByte, WriteWrap,
           WriteKick, IrqReceive, IrqTransmit, Line, Load, Shift, Flush, TxBufferClear, Enable, Ask,
           GetAvailable, AvailableTx, AvailableRx, Answered
  <2>2. avail'.tx = Transmit
    BY <2>1 DEF IInv, TypeOK
  <2>. DEFINE n == IF ahead THEN TxSize - uTxEnd + uTxBegin - 1 ELSE uTxBegin - uTxEnd - 1
  <2>3. /\ uTxBegin \in 0 .. TxSize - 1 /\ uTxEnd \in 0 .. TxSize - 1
        /\ Len(TxQueue) = Distance(uTxBegin, uTxEnd, TxSize)
    BY <1>3, AskIndices, Zenon
  <2>4. ahead => uTxBegin <= uTxEnd
    BY <1>3, Zenon DEF Tested
  <2>5. n \in -TxSize .. TxSize - 1 /\ (n < 0 <=> TxPassed)
    BY <2>3, <2>4, TxSizes DEF TxPassed
  <2>6. TxSize - 1 - Len(TxQueue) = IF TxPassed THEN n + TxSize ELSE n
    BY <2>3, <2>4, TxSizes DEF TxPassed, Distance
  <2>7. Transmit = n % Word
    BY Zenon DEF Transmit
  <2>. HIDE DEF n
  <2>8. n % Word = IF n < 0 THEN n + Word ELSE n
    <3>1. n \in Int /\ -Word < n /\ n < Word
      BY <2>5, TxSizes, WordSize
    <3>. QED BY <3>1, Modulo, Zenon
  <2>9. n \in Int /\ Word \in Int /\ TxSize \in Int
    BY <2>5, TxSizes, WordSize
  <2>10. CASE TxPassed
    <3>1. Transmit = n + Word /\ TxSize - 1 - Len(TxQueue) = n + TxSize
      BY <2>5, <2>6, <2>7, <2>8, <2>10, Zenon
    <3>. QED BY <2>2, <2>9, <2>10, <3>1
  <2>11. CASE ~TxPassed
    <3>1. Transmit = n /\ TxSize - 1 - Len(TxQueue) = n
      BY <2>5, <2>6, <2>7, <2>8, <2>11, Zenon
    <3>. QED BY <2>2, <2>9, <2>11, <3>1
  <2>. QED BY <2>10, <2>11, Zenon
<1>4. ASSUME IInv, Tested, Next, at = "avail_rx", at' = "answer"
      PROVE  avail'.rx = Len(RxQueue) + (IF RxPassed THEN Word - RxSize ELSE 0)
  <2>1. avail' = [avail EXCEPT !.rx = Receive]
    BY <1>4, Zenon DEF Next, Move, Thread, ReadNext, ReadWrap, ReadCopy, WriteByte, WriteWrap,
           WriteKick, IrqReceive, IrqTransmit, Line, Load, Shift, Flush, TxBufferClear, Enable, Ask,
           GetAvailable, AvailableTx, AvailableRx, Answered
  <2>2. avail'.rx = Receive
    BY <2>1 DEF IInv, TypeOK
  <2>. DEFINE n == IF ahead THEN uRxEnd - uRxBegin ELSE RxSize - uRxBegin + uRxEnd
  <2>3. /\ uRxBegin \in 0 .. RxSize - 1 /\ uRxEnd \in 0 .. RxSize - 1
        /\ Len(RxQueue) = Distance(uRxBegin, uRxEnd, RxSize)
    BY <1>4, AskIndices, Zenon
  <2>4. ~ahead => uRxEnd < uRxBegin
    BY <1>4, Zenon DEF Tested
  <2>5. n \in -RxSize .. RxSize - 1 /\ (n < 0 <=> RxPassed)
    BY <2>3, <2>4, RxSizes DEF RxPassed
  <2>6. Len(RxQueue) = IF RxPassed THEN n + RxSize ELSE n
    BY <2>3, <2>4, RxSizes DEF RxPassed, Distance
  <2>7. Receive = n % Word
    BY Zenon DEF Receive
  <2>. HIDE DEF n
  <2>8. n % Word = IF n < 0 THEN n + Word ELSE n
    <3>1. n \in Int /\ -Word < n /\ n < Word
      BY <2>5, RxSizes, WordSize
    <3>. QED BY <3>1, Modulo, Zenon
  <2>9. n \in Int /\ Word \in Int /\ RxSize \in Int
    BY <2>5, RxSizes, WordSize
  <2>10. CASE RxPassed
    <3>1. Receive = n + Word /\ Len(RxQueue) = n + RxSize
      BY <2>5, <2>6, <2>7, <2>8, <2>10, Zenon
    <3>. QED BY <2>2, <2>9, <2>10, <3>1
  <2>11. CASE ~RxPassed
    <3>1. Receive = n /\ Len(RxQueue) = n
      BY <2>5, <2>6, <2>7, <2>8, <2>11, Zenon
    <3>. QED BY <2>2, <2>9, <2>11, <3>1
  <2>. QED BY <2>10, <2>11, Zenon
<1>5. IInv /\ Tested /\ [Next]_vars =>
        [/\ at = "avail_tx" /\ at' = "avail_rx" =>
                avail'.tx = TxSize - 1 - Len(TxQueue) + (IF TxPassed THEN Word - TxSize ELSE 0)
         /\ at = "avail_rx" /\ at' = "answer" =>
                avail'.rx = Len(RxQueue) + (IF RxPassed THEN Word - RxSize ELSE 0)]_vars
  BY <1>3, <1>4, Zenon
<1>. QED BY <1>2, <1>5, PTL DEF Spec, AvailableExact

(* When uart_flush returns, every byte written before and not thrown away  *)
(* is on the wire: none waits in the ring, the FIFO or the shift register. *)
THEOREM FlushWaits == Spec => FlushSends
<1>1. IInv /\ [Next]_vars => [at = "flush" /\ at' = "idle" => torn \/ Len(wire) + cleared = written]_vars
  <2>. SUFFICES ASSUME IInv, Next, at = "flush", at' = "idle", ~torn
                PROVE  Len(wire) + cleared = written
    BY Zenon
  <2>1. shifter = 0 /\ fifo = <<>>
    BY Zenon DEF Next, Move, Thread, ReadNext, ReadWrap, ReadCopy, WriteByte, WriteWrap, WriteKick,
           IrqReceive, IrqTransmit, Line, Load, Shift, Flush, TxBufferClear, Enable, Ask,
           GetAvailable, AvailableTx, AvailableRx, Answered
  <2>2. uTxBegin = uTxEnd /\ uTxEnd # TxSize /\ uTxBegin \in 0 .. TxSize - 1 /\ wire \in Seq(Nat)
    BY Zenon DEF IInv, TypeOK
  <2>3. TxQueue = <<>>
    <3>1. Distance(uTxBegin, TxAt, TxSize) = 0
      BY <2>2 DEF TxAt, Distance
    <3>. QED BY <3>1 DEF TxQueue
  <2>4. TxAll = ((wire \o <<>>) \o <<>>) \o <<>>
    BY <2>1, <2>3, Zenon DEF TxAll
  <2>5. wire \o <<>> = wire
    BY <2>2, ConcatEmptySeq, Zenon
  <2>6. Sent(wire, cleared, written)
    BY <2>4, <2>5, Zenon DEF IInv
  <2>. QED BY <2>6, Zenon DEF Sent
<1>. QED BY <1>1, Invariance, PTL DEF Spec, FlushSends
=============================================================================
