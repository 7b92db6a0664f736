--------------------------- MODULE NetworkProofs ---------------------------
(***************************************************************************)
(* The way of a frame, for every size of the rings and of the queue, any   *)
(* length of the frames, any traffic and any number of failing calls:      *)
(*  - a received frame never goes unnoticed, outside the two windows that  *)
(*    `missed` names;                                                      *)
(*  - the receive ring is a channel that loses frames only when it is full;*)
(*  - frames are sent whole and in order, as long as the two threads that  *)
(*    send do not do so at the same time.                                  *)
(* Both rings rest on the same fact: the descriptors that are full lie in  *)
(* a row, from the one emptied next to the one filled next.                *)
(* Beside it the link that the frames take: the last section is about the  *)
(* PHY manager, for any PHY, any partners and masks, and any number of     *)
(* cable changes and calls of the application.                             *)
(***************************************************************************)
EXTENDS NetPath, PhyLink, TLAPS, FiniteSetTheorems

Place == {"pend", "check", "receive", "alloc", "input", "drop", "ready", "pop", "copy",
          "free", "clear", "idle", "queue"}

\* net_task is inside bt_lwip_process, or behind it and has not cleared DATA_READY.
Inside == at["net"] \in {"receive", "alloc", "input", "drop", "ready", "pop", "copy", "free",
                         "clear"}

(* RxNoticed is not inductive: it has to survive net_task's NetClear.      *)
(* DATA_READY stays set while net_task is inside, and after the last look  *)
(* a frame is in the ring only if its interrupt is pending or it is missed.*)
NoticeInv == /\ at \in [Thread -> Place]
             /\ at["net"] \in {"pend", "check"} \/ Inside
             /\ Inside => dataReady
             /\ last => Inside /\ at["net"] \notin {"receive", "alloc", "input", "drop"}
             /\ at["net"] = "clear" => last
             /\ last /\ rxOwned[rx_ci] => rxIrq \/ missed
             /\ RxNoticed

\* The rings are empty at first.
LEMMA NoticeInit == ASSUME Init PROVE NoticeInv
<1>1. 0 \in RxBd
  BY RingSizes DEF RxBd
<1>2. rxOwned[rx_ci] = FALSE
  BY <1>1, Zenon DEF Init
<1>3. at \in [Thread -> Place] /\ at["net"] = "pend"
  BY DEF Init, Thread, Place
<1>. QED BY <1>2, <1>3, Zenon DEF Init, NoticeInv, RxNoticed, Inside

\* A frame that is stored leaves its interrupt pending.
LEMMA NoticeArrive == ASSUME NoticeInv, Arrive PROVE NoticeInv'
<1>1. at' = at /\ rx_ci' = rx_ci /\ dataReady' = dataReady /\ sem' = sem /\ missed' = missed
      /\ last' = last
  BY Zenon DEF Arrive, txVars
<1>2. CASE rxOwned[rxDma]
  BY <1>1, <1>2 DEF Arrive, NoticeInv, RxNoticed, Inside
<1>3. CASE ~rxOwned[rxDma]
  <2>1. rxIrq'
    BY <1>3, Zenon DEF Arrive
  <2>. QED BY <1>1, <2>1, Zenon DEF NoticeInv, RxNoticed, Inside
<1>. QED BY <1>2, <1>3, Zenon

\* The handler sets DATA_READY and releases the semaphore.
LEMMA NoticeInterrupt == ASSUME NoticeInv, GemInterrupt PROVE NoticeInv'
BY Zenon DEF GemInterrupt, NoticeInv, RxNoticed, Inside, rxRing, txVars

\* Every step of net_task.
LEMMA NoticeNetTask == ASSUME NoticeInv, NetTask PROVE NoticeInv'
<1>0. "net" \in Thread /\ at \in [Thread -> Place]
  BY Zenon DEF NoticeInv, Thread
<1>1. CASE NetPend
  BY <1>0, <1>1, Zenon DEF NetPend, Go, NoticeInv, RxNoticed, Inside, rxRing, txVars, Place
<1>2. CASE NetCheck
  BY <1>0, <1>2, Zenon DEF NetCheck, Go, NoticeInv, RxNoticed, Inside, rxRing, txVars, Place
<1>3. CASE NetReceive
  <2>1. /\ at["net"] = "receive" /\ dataReady /\ ~last /\ UNCHANGED rxVars
        /\ at' = [at EXCEPT !["net"] = IF rxOwned[rx_ci] THEN "alloc" ELSE "ready"]
        /\ last' = ~rxOwned[rx_ci]
    BY <1>3, Zenon DEF NetReceive, Go, NoticeInv, Inside
  <2>2. at' \in [Thread -> Place] /\ at'["net"] = IF rxOwned[rx_ci] THEN "alloc" ELSE "ready"
    BY <1>0, <2>1, Zenon DEF Place
  <2>3. dataReady' /\ Inside' /\ (last' => at'["net"] = "ready") /\ at'["net"] # "clear"
    <3>1. at'["net"] \in {"alloc", "ready"} /\ (last' => at'["net"] = "ready")
      BY <2>1, <2>2, Zenon
    <3>. QED BY <2>1, <3>1, Zenon DEF Inside, rxVars
  <2>4. last' => ~rxOwned'[rx_ci']
    BY <2>1, Zenon DEF rxVars, rxRing
  <2>. QED BY <2>2, <2>3, <2>4, Zenon DEF NoticeInv, RxNoticed, Inside
<1>4. CASE NetAlloc
  <2>1. /\ at["net"] = "alloc" /\ dataReady /\ ~last /\ dataReady' = dataReady
        /\ \/ at' = [at EXCEPT !["net"] = "ready"] /\ missed'
           \/ at' = [at EXCEPT !["net"] = "input"] /\ ~last'
    <3>1. at["net"] = "alloc" /\ dataReady' = dataReady
      BY <1>4, Zenon DEF NetAlloc
    <3>2. Inside /\ dataReady /\ ~last
      BY <3>1, Zenon DEF NoticeInv, Inside
    <3>3. \/ at' = [at EXCEPT !["net"] = "ready"] /\ missed'
          \/ at' = [at EXCEPT !["net"] = "input"] /\ last' = last
      BY <1>4, Zenon DEF NetAlloc, Go
    <3>. QED BY <3>1, <3>2, <3>3
  <2>2. /\ at' \in [Thread -> Place] /\ at'["net"] \in {"ready", "input"}
        /\ at'["net"] = "ready" => missed'
        /\ at'["net"] = "input" => ~last'
    BY <1>0, <2>1, Zenon DEF Place
  <2>. QED BY <2>1, <2>2, Zenon DEF NoticeInv, RxNoticed, Inside
<1>5. CASE NetInput
  <2>1. /\ at["net"] = "input" /\ dataReady /\ ~last /\ dataReady' = dataReady /\ last' = last
        /\ \E p \in {"ready", "drop"} : at' = [at EXCEPT !["net"] = p]
    BY <1>5, Zenon DEF NetInput, Go, NoticeInv, Inside, txVars
  <2>2. at' \in [Thread -> Place] /\ at'["net"] \in {"ready", "drop"}
    BY <1>0, <2>1, Zenon DEF Place
  <2>. QED BY <2>1, <2>2, Zenon DEF NoticeInv, RxNoticed, Inside
<1>6. CASE NetFree
  <2>1. /\ at["net"] \in {"drop", "free"} /\ UNCHANGED rxVars /\ last' = last
        /\ at' = [at EXCEPT !["net"] = IF at["net"] = "drop" THEN "ready" ELSE NetAfterSend]
        /\ dataReady
    BY <1>6, Zenon DEF NetFree, Go, NoticeInv, Inside, txVars
  <2>2. /\ at' \in [Thread -> Place]
        /\ at'["net"] = IF at["net"] = "drop" THEN "ready" ELSE NetAfterSend
    BY <1>0, <2>1, Zenon DEF Place, NetAfterSend
  <2>. QED BY <2>1, <2>2, Zenon DEF NoticeInv, RxNoticed, Inside, rxVars, rxRing, NetAfterSend
<1>7. CASE NetClear
  BY <1>0, <1>7, Zenon DEF NetClear, Go, NoticeInv, RxNoticed, Inside, rxRing, Place
<1>8. CASE NetTxReady \/ ReadPacket \/ MacWrite("net") \/ MacSendFrame("net")
  <2>1. /\ UNCHANGED rxVars /\ last' = last
        /\ at["net"] \in {"ready", "pop", "copy"}
    BY <1>8, Zenon DEF NetTxReady, ReadPacket, MacWrite, MacSendFrame
  <2>2. /\ at'["net"] \in {"pop", "copy", "free", NetAfterSend}
        /\ at' \in [Thread -> Place]
    BY <1>0, <1>8, Zenon DEF NetTxReady, ReadPacket, MacWrite, MacSendFrame, Go, Place, NetAfterSend
  <2>. QED BY <2>1, <2>2, Zenon DEF NoticeInv, RxNoticed, Inside, rxVars, rxRing, NetAfterSend
<1>. QED BY <1>1, <1>2, <1>3, <1>4, <1>5, <1>6, <1>7, <1>8, Zenon DEF NetTask

\* The steps of the lwIP thread and of the transmitter do not touch the receiver.
LEMMA NoticeOthers ==
    ASSUME NoticeInv, Output \/ TcpipThread \/ DmaSend PROVE NoticeInv'
<1>0. "net" \in Thread /\ "tcpip" \in Thread /\ at \in [Thread -> Place]
  BY Zenon DEF NoticeInv, Thread
<1>1. UNCHANGED rxVars /\ last' = last
  BY Zenon DEF Output, TcpipThread, WritePacket, MacWrite, MacSendFrame, DmaSend
<1>2. at' \in [Thread -> Place] /\ at'["net"] = at["net"]
  BY <1>0, Zenon DEF Output, TcpipThread, WritePacket, MacWrite, MacSendFrame, DmaSend, Go, Place
<1>. QED BY <1>1, <1>2, Zenon DEF NoticeInv, RxNoticed, Inside, rxVars, rxRing

\* The invariant holds in every behaviour.
LEMMA NoticeInvariance == Spec => []NoticeInv
<1>1. Init => NoticeInv
  BY NoticeInit, Zenon
<1>2. NoticeInv /\ [Next]_vars => NoticeInv'
  <2>. SUFFICES ASSUME NoticeInv, [Next]_vars PROVE NoticeInv'
    BY Zenon
  <2>1. CASE UNCHANGED vars
    BY <2>1, Zenon DEF vars, rxVars, rxRing, txVars, NoticeInv, RxNoticed, Inside
  <2>2. CASE Next
    BY <2>2, NoticeArrive, NoticeInterrupt, NoticeNetTask, NoticeOthers, Zenon DEF Next
  <2>. QED BY <2>1, <2>2, Zenon
<1>. QED BY <1>1, <1>2, PTL DEF Spec

(* No order of interrupts, of net_task and of the lwIP thread leaves a     *)
(* frame in the receive ring with nobody to fetch it, except in the window *)
(* before DATA_READY is cleared and after a failing pbuf_alloc.            *)
THEOREM AlwaysNoticed == Spec => []RxNoticed
<1>1. NoticeInv => RxNoticed
  BY Zenon DEF NoticeInv
<1>. QED BY <1>1, NoticeInvariance, PTL

-----------------------------------------------------------------------------
(* Rings of n descriptors: those that are full are k in a row, from the    *)
(* one that is emptied next up to the one that is filled next.             *)

\* i descriptors further.
Step(b, i, n) == IF b + i < n THEN b + i ELSE b + i - n

Arc(S, b, e, k, n) == /\ k \in 0 .. n /\ e = Step(b, k, n)
                      /\ \A i \in 0 .. n - 1 : Step(b, i, n) \in S <=> i < k

\* The remainder by which the code goes round a ring.
LEMMA Wrap ==
    ASSUME NEW n \in Nat \ {0}, NEW b \in 0 .. n - 1, NEW i \in 0 .. n
    PROVE  (b + i) % n = Step(b, i, n)
<1>. DEFINE q == (b + i) \div n
            r == (b + i) % n
<1>1. b + i \in Nat /\ n \in Nat /\ n > 0 /\ b + i < 2 * n
  OBVIOUS
<1>2. q \in Nat /\ r \in 0 .. n - 1 /\ b + i = n * q + r
  BY <1>1
<1>. HIDE DEF q, r
<1>3. q = 0 \/ q = 1
  <2>1. q < 2
    BY <1>1, <1>2
  <2>. QED BY <1>2, <2>1
<1>4. n * 0 = 0 /\ n * 1 = n
  BY <1>1
<1>5. r = Step(b, i, n)
  BY <1>1, <1>2, <1>3, <1>4 DEF Step
<1>. QED BY <1>5, Zenon DEF r

\* Counting descriptors round a ring.
LEMMA StepFacts ==
    ASSUME NEW n \in Nat \ {0}, NEW b \in 0 .. n - 1
    PROVE  /\ \A i \in 0 .. n : Step(b, i, n) \in 0 .. n - 1
           /\ \A i, j \in 0 .. n - 1 : Step(b, i, n) = Step(b, j, n) => i = j
           /\ \A i \in 0 .. n - 1 : Step(Step(b, 1, n), i, n) = Step(b, i + 1, n)
           /\ \A i \in 0 .. n - 1 : Step(Step(b, i, n), 1, n) = Step(b, i + 1, n)
           /\ Step(b, 0, n) = b /\ Step(b, n, n) = b
BY DEF Step

\* Different numbers of steps round a ring lead to different descriptors.
LEMMA StepApart ==
    ASSUME NEW n \in Nat \ {0}, NEW b \in 0 .. n - 1, NEW i \in 0 .. n - 1, NEW j \in 0 .. n - 1,
           i # j
    PROVE  Step(b, i, n) # Step(b, j, n)
BY DEF Step

\* A step before or behind i others is one more.
LEMMA StepOn ==
    ASSUME NEW n \in Nat \ {0}, NEW b \in 0 .. n - 1, NEW i \in 0 .. n - 1
    PROVE  /\ Step(Step(b, 1, n), i, n) = Step(b, i + 1, n)
           /\ Step(Step(b, i, n), 1, n) = Step(b, i + 1, n)
BY DEF Step

\* The next descriptor is filled.
LEMMA ArcPut ==
    ASSUME NEW n \in Nat \ {0}, NEW b \in 0 .. n - 1, NEW e, NEW k, NEW S,
           Arc(S, b, e, k, n), e \notin S
    PROVE  k < n /\ Arc(S \cup {e}, b, Step(e, 1, n), k + 1, n)
<1>1. k \in 0 .. n /\ e = Step(b, k, n) /\ \A i \in 0 .. n - 1 : Step(b, i, n) \in S <=> i < k
  BY Zenon DEF Arc
<1>2. k # n
  <2>. SUFFICES ASSUME k = n PROVE FALSE
    BY Zenon
  <2>1. e = b /\ Step(b, 0, n) = b
    <3>1. Step(b, n, n) = b /\ Step(b, 0, n) = b
      BY StepFacts, Zenon
    <3>. QED BY <1>1, <3>1, Zenon
  <2>2. 0 \in 0 .. n - 1 /\ 0 < k
    OBVIOUS
  <2>. QED BY <1>1, <2>1, <2>2, Zenon
<1>3. k < n /\ k + 1 \in 0 .. n /\ k \in 0 .. n - 1
  BY <1>1, <1>2
<1>4. Step(e, 1, n) = Step(b, k + 1, n)
  BY <1>1, <1>3, StepOn, Zenon
<1>5. ASSUME NEW i \in 0 .. n - 1 PROVE Step(b, i, n) \in S \cup {e} <=> i < k + 1
  <2>1. Step(b, i, n) = e <=> i = k
    <3>1. Step(b, i, n) = Step(b, k, n) => i = k
      BY <1>3, StepApart, Zenon
    <3>. QED BY <1>1, <3>1, Zenon
  <2>2. i < k + 1 <=> i < k \/ i = k
    BY <1>3
  <2>. QED BY <1>1, <2>1, <2>2, Zenon
<1>. QED BY <1>3, <1>4, <1>5, Zenon DEF Arc

\* The first descriptor is emptied.
LEMMA ArcTake ==
    ASSUME NEW n \in Nat \ {0}, NEW b \in 0 .. n - 1, NEW e, NEW k, NEW S,
           Arc(S, b, e, k, n), b \in S
    PROVE  k > 0 /\ Arc(S \ {b}, Step(b, 1, n), e, k - 1, n)
<1>1. k \in 0 .. n /\ e = Step(b, k, n) /\ \A i \in 0 .. n - 1 : Step(b, i, n) \in S <=> i < k
  BY Zenon DEF Arc
<1>2. k > 0
  <2>1. Step(b, 0, n) = b
    BY StepFacts, Zenon
  <2>2. 0 \in 0 .. n - 1 /\ (0 < k <=> k > 0)
    BY <1>1
  <2>. QED BY <1>1, <2>1, <2>2, Zenon
<1>3. k - 1 \in 0 .. n /\ k - 1 \in 0 .. n - 1 /\ (k - 1) + 1 = k
  BY <1>1, <1>2
<1>4. Step(Step(b, 1, n), k - 1, n) = e
  BY <1>1, <1>3, StepOn, Zenon
<1>5. ASSUME NEW i \in 0 .. n - 1 PROVE Step(Step(b, 1, n), i, n) \in S \ {b} <=> i < k - 1
  <2>1. Step(Step(b, 1, n), i, n) = Step(b, i + 1, n)
    BY StepOn, Zenon
  <2>2. CASE i = n - 1
    <3>1. i + 1 = n /\ ~(i < k - 1)
      BY <1>1, <1>2, <2>2
    <3>2. Step(b, n, n) = b
      BY StepFacts, Zenon
    <3>. QED BY <2>1, <3>1, <3>2, Zenon
  <2>3. CASE i # n - 1
    <3>1. i + 1 \in 0 .. n - 1 /\ 0 \in 0 .. n - 1 /\ i + 1 # 0 /\ (i + 1 < k <=> i < k - 1)
      BY <1>1, <2>3
    <3>2. Step(b, i + 1, n) # b
      <4>1. Step(b, i + 1, n) # Step(b, 0, n)
        BY <3>1, StepApart, Zenon
      <4>2. Step(b, 0, n) = b
        BY StepFacts, Zenon
      <4>. QED BY <4>1, <4>2, Zenon
    <3>. QED BY <1>1, <2>1, <3>1, <3>2, Zenon
  <2>. QED BY <2>2, <2>3, Zenon
<1>. QED BY <1>2, <1>3, <1>4, <1>5, Zenon DEF Arc

-----------------------------------------------------------------------------
(* The receive ring.                                                       *)
Owned == {d \in RxBd : rxOwned[d]}

RxInv == /\ rxOwned \in [RxBd -> BOOLEAN] /\ rxFrame \in [RxBd -> Nat]
         /\ rx_ci \in RxBd /\ rxDma \in RxBd /\ arrived \in Nat
         /\ IsFiniteSet(Owned)
         /\ Arc(Owned, rx_ci, rxDma, Cardinality(Owned), RECV_BD_CNT)

\* Two queues are the same when their lengths and items are.
LEMMA SameSeq ==
    ASSUME NEW s \in Seq(Nat), NEW u \in Seq(Nat), Len(s) = Len(u),
           \A i \in 1 .. Len(s) : s[i] = u[i]
    PROVE  s = u
<1>1. s = [i \in 1 .. Len(s) |-> s[i]] /\ u = [i \in 1 .. Len(u) |-> u[i]]
  OBVIOUS
<1>. QED BY <1>1, Zenon

\* The frames of k descriptors from c on.
Frames(f, c, k) == [i \in 1 .. k |-> f[(c + i - 1) % RECV_BD_CNT]]

\* They are as many as the descriptors.
LEMMA FramesFacts ==
    ASSUME NEW f \in [RxBd -> Nat], NEW c \in RxBd, NEW k \in 0 .. RECV_BD_CNT
    PROVE  /\ Frames(f, c, k) \in Seq(Nat) /\ Len(Frames(f, c, k)) = k
           /\ \A i \in 1 .. k : Frames(f, c, k)[i] = f[Step(c, i - 1, RECV_BD_CNT)]
<1>. DEFINE n == RECV_BD_CNT
<1>1. k \in 0 .. n /\ n \in Nat \ {0} /\ c \in 0 .. n - 1 /\ f \in [0 .. n - 1 -> Nat] /\ k \in Nat
  BY RingSizes DEF RxBd
<1>. HIDE DEF n
<1>2. ASSUME NEW i \in 1 .. k
      PROVE  /\ f[(c + i - 1) % n] = f[Step(c, i - 1, n)]
             /\ f[Step(c, i - 1, n)] \in Nat
  <2>1. i - 1 \in 0 .. n /\ c + i - 1 = c + (i - 1)
    BY <1>1
  <2>2. (c + (i - 1)) % n = Step(c, i - 1, n)
    BY <1>1, <2>1, Wrap, Zenon
  <2>3. Step(c, i - 1, n) \in 0 .. n - 1
    BY <1>1, <2>1, StepFacts, Zenon
  <2>. QED BY <1>1, <2>1, <2>2, <2>3, Zenon
<1>3. Frames(f, c, k) = [i \in 1 .. k |-> f[Step(c, i - 1, n)]]
  BY <1>2, Zenon DEF Frames, n
<1>4. Frames(f, c, k) \in Seq(Nat) /\ Len(Frames(f, c, k)) = k
  <2>1. Frames(f, c, k) \in [1 .. k -> Nat]
    BY <1>2, <1>3, Zenon
  <2>. QED BY <1>1, <2>1
<1>5. \A i \in 1 .. k : Frames(f, c, k)[i] = f[Step(c, i - 1, n)]
  BY <1>3, Zenon
<1>. QED BY <1>4, <1>5, Zenon DEF n

\* ... and x behind them.
FramesAnd(f, c, k, x) == Append(Frames(f, c, k), x)

\* One more frame is stored behind them.
LEMMA FramesPut ==
    ASSUME NEW f \in [RxBd -> Nat], NEW c \in RxBd, NEW k \in 0 .. RECV_BD_CNT - 1,
           NEW g \in [RxBd -> Nat],
           \A d \in RxBd : d # Step(c, k, RECV_BD_CNT) => g[d] = f[d]
    PROVE  Frames(g, c, k + 1) = FramesAnd(f, c, k, g[Step(c, k, RECV_BD_CNT)])
<1>. DEFINE n == RECV_BD_CNT
            x == g[Step(c, k, n)]
            q == Frames(f, c, k)
            p == Frames(g, c, k + 1)
            a == Append(q, x)
<1>1. /\ n \in Nat \ {0} /\ c \in 0 .. n - 1 /\ k \in Nat /\ k \in 0 .. n - 1
      /\ k \in 0 .. RECV_BD_CNT /\ k + 1 \in 0 .. RECV_BD_CNT /\ RxBd = 0 .. n - 1
  BY RingSizes DEF RxBd
<1>2. /\ q \in Seq(Nat) /\ Len(q) = k
      /\ \A i \in 1 .. k : q[i] = f[Step(c, i - 1, n)]
  <2>1. k \in 0 .. RECV_BD_CNT
    BY <1>1, Zenon
  <2>. QED BY <2>1, FramesFacts, Zenon
<1>3. /\ p \in Seq(Nat) /\ Len(p) = k + 1
      /\ \A i \in 1 .. k + 1 : p[i] = g[Step(c, i - 1, n)]
  <2>1. k + 1 \in 0 .. RECV_BD_CNT
    BY <1>1, Zenon
  <2>. QED BY <2>1, FramesFacts, Zenon
<1>a. x \in Nat
  <2>1. Step(c, k, n) \in 0 .. n - 1
    BY <1>1, StepFacts, Zenon
  <2>2. Step(c, k, n) \in RxBd
    BY <1>1, <2>1, Zenon
  <2>. QED BY <2>2, Zenon
<1>. HIDE DEF p, q, x
<1>4. a \in Seq(Nat) /\ Len(a) = k + 1 /\ a[k + 1] = x /\ \A i \in 1 .. k : a[i] = q[i]
  BY <1>2, <1>a
<1>. HIDE DEF a, n
<1>5. ASSUME NEW i \in 1 .. k + 1 PROVE p[i] = a[i]
  <2>1. CASE i = k + 1
    <3>1. i - 1 = k
      BY <1>1, <2>1
    <3>. QED BY <1>3, <1>4, <2>1, <3>1, Zenon DEF n, x
  <2>2. CASE i # k + 1
    <3>1. i \in 1 .. k /\ i - 1 \in 0 .. n - 1 /\ i - 1 # k /\ i - 1 \in 0 .. n
      BY <1>1, <2>2 DEF n
    <3>2. Step(c, i - 1, n) \in 0 .. n - 1
      BY <1>1, <3>1, StepFacts, Zenon
    <3>3. Step(c, i - 1, n) # Step(c, k, n)
      BY <1>1, <3>1, StepApart, Zenon
    <3>4. g[Step(c, i - 1, n)] = f[Step(c, i - 1, n)]
      BY <1>1, <3>2, <3>3, Zenon DEF n
    <3>. QED BY <1>2, <1>3, <1>4, <3>1, <3>4, Zenon
  <2>. QED BY <2>1, <2>2, Zenon
<1>6. p = a
  BY <1>3, <1>4, <1>5, SameSeq, Zenon
<1>. QED BY <1>6, Zenon DEF p, a, q, x, n, FramesAnd

\* The first one is taken.
LEMMA FramesTake ==
    ASSUME NEW f \in [RxBd -> Nat], NEW c \in RxBd, NEW k \in 1 .. RECV_BD_CNT
    PROVE  /\ Frames(f, c, k) # <<>> /\ Head(Frames(f, c, k)) = f[c]
           /\ Frames(f, Step(c, 1, RECV_BD_CNT), k - 1) = Tail(Frames(f, c, k))
<1>. DEFINE n == RECV_BD_CNT
            q == Frames(f, c, k)
            b == Step(c, 1, n)
            p == Frames(f, b, k - 1)
<1>1. /\ n \in Nat \ {0} /\ c \in 0 .. n - 1 /\ k \in Nat /\ k > 0 /\ RxBd = 0 .. n - 1
      /\ k \in 0 .. RECV_BD_CNT /\ k - 1 \in 0 .. RECV_BD_CNT /\ 1 \in 0 .. n
  BY RingSizes DEF RxBd
<1>2. b \in RxBd /\ Step(c, 0, n) = c
  BY <1>1, StepFacts, Zenon
<1>3. /\ q \in Seq(Nat) /\ Len(q) = k
      /\ \A i \in 1 .. k : q[i] = f[Step(c, i - 1, n)]
  <2>1. k \in 0 .. RECV_BD_CNT
    BY <1>1, Zenon
  <2>. QED BY <2>1, FramesFacts, Zenon
<1>. HIDE DEF b
<1>4. /\ p \in Seq(Nat) /\ Len(p) = k - 1
      /\ \A i \in 1 .. k - 1 : p[i] = f[Step(b, i - 1, n)]
  <2>1. k - 1 \in 0 .. RECV_BD_CNT
    BY <1>1, Zenon
  <2>. QED BY <1>2, <2>1, FramesFacts, Zenon
<1>. HIDE DEF p, q
<1>5. q # <<>>
  BY <1>1, <1>3
<1>6. Head(q) = f[c]
  <2>1. Head(q) = q[1] /\ 1 \in 1 .. k /\ 1 - 1 = 0
    BY <1>1, <1>3, <1>5
  <2>. QED BY <1>2, <1>3, <2>1, Zenon
<1>7. /\ Tail(q) \in Seq(Nat) /\ Len(Tail(q)) = k - 1
      /\ \A i \in 1 .. k - 1 : Tail(q)[i] = q[i + 1]
  BY <1>1, <1>3, <1>5
<1>. HIDE DEF n
<1>8. ASSUME NEW i \in 1 .. k - 1 PROVE p[i] = Tail(q)[i]
  <2>1. i + 1 \in 1 .. k /\ i - 1 \in 0 .. n - 1 /\ (i - 1) + 1 = i /\ (i + 1) - 1 = i
    BY <1>1 DEF n
  <2>2. Step(Step(c, 1, n), i - 1, n) = Step(c, (i - 1) + 1, n)
    BY <1>1, <2>1, StepOn, Zenon
  <2>3. q[i + 1] = f[Step(c, i, n)]
    BY <1>3, <2>1, Zenon
  <2>. QED BY <1>4, <1>7, <2>1, <2>2, <2>3, Zenon DEF b
<1>9. p = Tail(q)
  BY <1>1, <1>4, <1>7, <1>8, SameSeq, Zenon
<1>. QED BY <1>5, <1>6, <1>9, Zenon DEF p, q, b, n

\* descriptor_init.
LEMMA RxInit == Init => RxInv /\ Rx!Init
<1>. SUFFICES ASSUME Init PROVE RxInv /\ Rx!Init
  BY Zenon
<1>1. Owned = {}
  BY Zenon DEF Init, Owned
<1>2. Cardinality(Owned) = 0 /\ IsFiniteSet(Owned)
  BY <1>1, FS_EmptySet, Zenon
<1>3. rx_ci = 0 /\ rxDma = 0 /\ arrived = 0 /\ taken = <<>> /\ 0 \in RxBd
  BY RingSizes DEF Init, RxBd
<1>4. Arc({}, 0, 0, 0, RECV_BD_CNT)
  BY RingSizes DEF Arc, Step
<1>5. RxInv
  BY <1>1, <1>2, <1>3, <1>4 DEF RxInv, Init
<1>6. RxRing = <<>>
  <2>1. RxRing = Frames(rxFrame, rx_ci, Cardinality(Owned))
    BY Zenon DEF RxRing, Owned, Frames
  <2>2. RxRing = [i \in 1 .. 0 |-> rxFrame[(rx_ci + i - 1) % RECV_BD_CNT]]
    BY <1>2, <2>1, Zenon DEF Frames
  <2>. QED BY <2>2
<1>. QED BY <1>3, <1>5, <1>6 DEF Rx!Init

(* The hardware stores a frame in the next descriptor, or drops it when    *)
(* that one is still the driver's, and then all of them are.               *)
LEMMA ArriveIsArrive ==
    ASSUME RxInv, Arrive PROVE RxInv' /\ Rx!Arrive
<1>. DEFINE n == RECV_BD_CNT
            k == Cardinality(Owned)
            q == RxRing
<1>1. arrived' = arrived + 1 /\ rx_ci' = rx_ci /\ taken' = taken
  BY Zenon DEF Arrive
<1>2. /\ n \in Nat \ {0} /\ rx_ci \in 0 .. n - 1 /\ rxDma \in 0 .. n - 1 /\ arrived \in Nat
      /\ rxOwned \in [RxBd -> BOOLEAN] /\ rxFrame \in [RxBd -> Nat] /\ RxBd = 0 .. n - 1
  BY RingSizes, Zenon DEF RxInv, RxBd
<1>3. Arc(Owned, rx_ci, rxDma, k, n) /\ IsFiniteSet(Owned)
  BY Zenon DEF RxInv
<1>4. k \in 0 .. n /\ q = Frames(rxFrame, rx_ci, k) /\ rxDma = Step(rx_ci, k, n)
      /\ \A i \in 0 .. n - 1 : Step(rx_ci, i, n) \in Owned <=> i < k
  BY <1>3, Zenon DEF Arc, RxRing, Owned, Frames
<1>5. Len(q) = k
  <2>1. rx_ci \in RxBd /\ k \in 0 .. RECV_BD_CNT /\ rxFrame \in [RxBd -> Nat]
    BY <1>2, <1>4, Zenon
  <2>2. Len(Frames(rxFrame, rx_ci, k)) = k
    BY <2>1, FramesFacts, Zenon
  <2>. QED BY <1>4, <2>2, Zenon
<1>6. CASE rxOwned[rxDma]
  <2>1. UNCHANGED <<rxOwned, rxFrame, rxDma>>
    BY <1>6, Zenon DEF Arrive
  <2>2. Owned' = Owned /\ RxRing' = RxRing
    BY <1>1, <2>1, Zenon DEF Owned, RxRing
  <2>3. RxInv'
    BY <1>1, <2>1, <2>2 DEF RxInv
  <2>4. k = n
    <3>1. rxDma \in Owned
      BY <1>2, <1>6, Zenon DEF Owned
    <3>. HIDE DEF k, n
    <3>. QED BY <1>2, <1>4, <3>1
  <2>5. ~(Len(RxRing) < RECV_BD_CNT)
    BY <1>2, <1>5, <2>4
  <2>. QED BY <1>1, <2>2, <2>3, <2>5, Zenon DEF Rx!Arrive
<1>7. CASE ~rxOwned[rxDma]
  <2>1. /\ rxOwned' = [rxOwned EXCEPT ![rxDma] = TRUE]
        /\ rxFrame' = [rxFrame EXCEPT ![rxDma] = arrived + 1]
        /\ rxDma' = (rxDma + 1) % n
    BY <1>7, Zenon DEF Arrive
  <2>2. Owned' = Owned \cup {rxDma} /\ rxDma \notin Owned
    BY <1>2, <1>7, <2>1, Zenon DEF Owned
  <2>3. IsFiniteSet(Owned') /\ Cardinality(Owned') = k + 1
    BY <1>3, <2>2, FS_AddElement, Zenon
  <2>4. 1 \in 0 .. n
    BY <1>2
  <2>5. RxRing' = Frames(rxFrame', rx_ci, k + 1)
    BY <1>1, <2>3, Zenon DEF RxRing, Owned, Frames
  <2>. HIDE DEF k, n, q
  <2>6. rxDma' = Step(rxDma, 1, n)
    BY <1>2, <2>1, <2>4, Wrap, Zenon
  <2>7. rxDma' \in 0 .. n - 1
    BY <1>2, <2>4, <2>6, StepFacts, Zenon
  <2>8. k < n /\ Arc(Owned', rx_ci, rxDma', k + 1, n)
    <3>1. k < n /\ Arc(Owned \cup {rxDma}, rx_ci, Step(rxDma, 1, n), k + 1, n)
      BY <1>2, <1>3, <2>2, ArcPut, Zenon
    <3>. QED BY <2>2, <2>6, <3>1, Zenon
  <2>9. /\ rxOwned' \in [RxBd -> BOOLEAN] /\ rxFrame' \in [RxBd -> Nat]
        /\ rxFrame'[rxDma] = arrived + 1 /\ arrived + 1 \in Nat
        /\ \A d \in RxBd : d # rxDma => rxFrame'[d] = rxFrame[d]
    BY <1>2, <2>1
  <2>10. RxInv'
    <3>1. Arc(Owned', rx_ci', rxDma', Cardinality(Owned'), RECV_BD_CNT)
      BY <1>1, <2>3, <2>8, Zenon DEF n
    <3>2. rx_ci' \in RxBd /\ rxDma' \in RxBd
      BY <1>1, <1>2, <2>7, Zenon
    <3>. QED BY <1>1, <2>3, <2>9, <3>1, <3>2, Zenon DEF RxInv
  <2>11. RxRing' = Append(q, arrived + 1)
    <3>1. k \in 0 .. RECV_BD_CNT - 1 /\ rx_ci \in RxBd
      BY <1>2, <1>4, <2>8 DEF n
    <3>. DEFINE x == arrived + 1
                g == rxFrame'
    <3>2. /\ x \in Nat /\ g \in [RxBd -> Nat] /\ g[Step(rx_ci, k, RECV_BD_CNT)] = x
          /\ \A d \in RxBd : d # Step(rx_ci, k, RECV_BD_CNT) => g[d] = rxFrame[d]
      BY <1>4, <2>9, Zenon DEF n
    <3>. HIDE DEF x, g
    <3>3. Frames(g, rx_ci, k + 1) = FramesAnd(rxFrame, rx_ci, k, x)
      <4>1. rxFrame \in [RxBd -> Nat]
        BY <1>2, Zenon
      <4>2. k \in 0 .. RECV_BD_CNT - 1
        BY <3>1, Zenon
      <4>3. rx_ci \in RxBd
        BY <3>1, Zenon
      <4>4. Frames(g, rx_ci, k + 1)
                = FramesAnd(rxFrame, rx_ci, k, g[Step(rx_ci, k, RECV_BD_CNT)])
        BY <3>2, <4>1, <4>2, <4>3, FramesPut, Zenon
      <4>. QED BY <3>2, <4>4, Zenon
    <3>. QED BY <1>4, <2>5, <3>3, Zenon DEF x, g, FramesAnd
  <2>12. Len(RxRing) < RECV_BD_CNT
    BY <1>2, <1>5, <2>8, Zenon DEF q, n
  <2>. QED BY <1>1, <2>10, <2>11, <2>12, Zenon DEF Rx!Arrive, q
<1>. QED BY <1>6, <1>7, Zenon

\* The frame that mac_dataready found stays where it is until pbuf_alloc returns.
Held == at["net"] = "alloc" => rxOwned[rx_ci]

\* lwip_receive takes the oldest frame, if there is a pbuf for it.
LEMMA ReceiveIsTake ==
    ASSUME RxInv, Held, NetAlloc PROVE RxInv' /\ (Rx!Take \/ UNCHANGED Rx!vars)
<1>. DEFINE n == RECV_BD_CNT
            k == Cardinality(Owned)
<1>1. arrived' = arrived /\ rxFrame' = rxFrame /\ rxDma' = rxDma /\ rxOwned[rx_ci]
  BY Zenon DEF NetAlloc, Held
<1>2. /\ n \in Nat \ {0} /\ rx_ci \in 0 .. n - 1 /\ rx_ci \in RxBd /\ RxBd = 0 .. n - 1
      /\ rxOwned \in [RxBd -> BOOLEAN] /\ rxFrame \in [RxBd -> Nat] /\ 1 \in 0 .. n
  BY RingSizes DEF RxInv, RxBd
<1>3. Arc(Owned, rx_ci, rxDma, k, n) /\ IsFiniteSet(Owned) /\ arrived \in Nat /\ rxDma \in RxBd
  BY Zenon DEF RxInv
<1>4. k \in 0 .. n /\ RxRing = Frames(rxFrame, rx_ci, k)
  BY <1>3, Zenon DEF Arc, RxRing, Owned, Frames
<1>5. CASE UNCHANGED <<rxOwned, rx_ci, taken>>
  <2>1. Owned' = Owned /\ RxRing' = RxRing
    BY <1>1, <1>5, Zenon DEF Owned, RxRing
  <2>. QED BY <1>1, <1>5, <2>1, Zenon DEF RxInv, Rx!vars
<1>6. CASE /\ taken' = Append(taken, rxFrame[rx_ci])
           /\ rx_ci' = (rx_ci + 1) % RECV_BD_CNT /\ rxOwned' = RxRelease
  <2>1. Owned' = Owned \ {rx_ci} /\ rx_ci \in Owned
    BY <1>1, <1>2, <1>6, Zenon DEF Owned, RxRelease
  <2>2. IsFiniteSet(Owned') /\ Cardinality(Owned') = k - 1
    BY <1>3, <2>1, FS_RemoveElement, Zenon
  <2>3. RxRing' = Frames(rxFrame, rx_ci', k - 1)
    BY <1>1, <2>2, Zenon DEF RxRing, Owned, Frames
  <2>. HIDE DEF k, n
  <2>4. rx_ci' = Step(rx_ci, 1, n)
    BY <1>2, <1>6, Wrap, Zenon DEF n
  <2>5. rx_ci' \in 0 .. n - 1
    BY <1>2, <2>4, StepFacts, Zenon
  <2>6. k > 0 /\ Arc(Owned', rx_ci', rxDma, k - 1, n)
    <3>1. k > 0 /\ Arc(Owned \ {rx_ci}, Step(rx_ci, 1, n), rxDma, k - 1, n)
      BY <1>2, <1>3, <2>1, ArcTake, Zenon
    <3>. QED BY <2>1, <2>4, <3>1, Zenon
  <2>7. RxInv'
    <3>1. Arc(Owned', rx_ci', rxDma', Cardinality(Owned'), RECV_BD_CNT)
      BY <1>1, <2>2, <2>6, Zenon DEF n
    <3>2. rxOwned' \in [RxBd -> BOOLEAN] /\ rx_ci' \in RxBd
      BY <1>2, <1>6, <2>5, Zenon DEF RxRelease
    <3>. QED BY <1>1, <1>2, <1>3, <2>2, <3>1, <3>2, Zenon DEF RxInv
  <2>8. /\ Frames(rxFrame, rx_ci, k) # <<>> /\ Head(Frames(rxFrame, rx_ci, k)) = rxFrame[rx_ci]
        /\ Frames(rxFrame, Step(rx_ci, 1, RECV_BD_CNT), k - 1) = Tail(Frames(rxFrame, rx_ci, k))
    <3>1. k \in 1 .. RECV_BD_CNT
      BY <1>2, <1>4, <2>6 DEF n
    <3>. QED BY <1>2, <3>1, FramesTake, Zenon
  <2>9. RxRing # <<>> /\ Head(RxRing) = rxFrame[rx_ci] /\ RxRing' = Tail(RxRing)
    BY <1>4, <2>3, <2>4, <2>8, Zenon DEF n
  <2>. QED BY <1>1, <1>6, <2>7, <2>9, Zenon DEF Rx!Take
<1>. QED BY <1>5, <1>6, Zenon DEF NetAlloc

\* Nothing else touches the receive ring.
LEMMA OtherKeepsRx ==
    ASSUME RxInv, UNCHANGED <<rxRing, arrived, taken>> PROVE RxInv' /\ UNCHANGED Rx!vars
<1>1. Owned' = Owned /\ RxRing' = RxRing
  BY Zenon DEF rxRing, Owned, RxRing
<1>. QED BY <1>1, Zenon DEF rxRing, RxInv, Rx!vars

\* No step takes the frame away while net_task waits for pbuf_alloc.
LEMMA HeldKept ==
    ASSUME RxInv, NoticeInv, Held, [Next]_vars PROVE Held'
<1>1. /\ at \in [Thread -> Place] /\ "net" \in Thread /\ "tcpip" \in Thread
      /\ rxOwned \in [RxBd -> BOOLEAN] /\ rx_ci \in RxBd
  BY Zenon DEF NoticeInv, RxInv, Thread
<1>2. CASE Arrive
  BY <1>1, <1>2, Zenon DEF Arrive, Held
<1>3. CASE NetReceive
  BY <1>1, <1>3, Zenon DEF NetReceive, Go, Held, rxVars, rxRing
<1>4. CASE NetAlloc
  BY <1>1, <1>4, Zenon DEF NetAlloc, Go, Held
<1>5. CASE NetPend \/ NetCheck \/ NetInput \/ NetFree \/ NetClear \/ NetTxReady \/ ReadPacket
  BY <1>1, <1>5, Zenon DEF NetPend, NetCheck, NetInput, NetFree, NetClear, NetTxReady, ReadPacket,
     NetAfterSend, Go, Held
<1>6. CASE GemInterrupt \/ Output \/ WritePacket \/ DmaSend \/ UNCHANGED vars
           \/ (\E t \in Thread : MacWrite(t) \/ MacSendFrame(t))
  <2>1. UNCHANGED <<rxOwned, rx_ci>>
    BY <1>6, Zenon DEF GemInterrupt, Output, WritePacket, DmaSend, MacWrite, MacSendFrame, vars, rxVars,
       rxRing
  <2>2. at'["net"] = at["net"] \/ at'["net"] = "free"
    <3>1. ASSUME NEW t \in Thread, MacSendFrame(t) PROVE at'["net"] = at["net"] \/ at'["net"] = "free"
      BY <1>1, <3>1, Zenon DEF MacSendFrame, Go
    <3>2. CASE GemInterrupt \/ Output \/ WritePacket \/ DmaSend \/ UNCHANGED vars
               \/ (\E t \in Thread : MacWrite(t))
      BY <1>1, <3>2, Zenon DEF GemInterrupt, Output, WritePacket, DmaSend, MacWrite, vars, Go
    <3>. QED BY <1>6, <3>1, <3>2, Zenon
  <2>. QED BY <2>1, <2>2, Zenon DEF Held
<1>. QED BY <1>1, <1>2, <1>3, <1>4, <1>5, <1>6, Zenon DEF Next, NetTask, TcpipThread

(* The receive ring is the channel that loses frames only when it is full: *)
(* whatever the order of arrivals, interrupts and net_task's reads,        *)
(* lwip_receive reads the frames in the order they came, and none twice.   *)
THEOREM ReceiveRingIsChannel == Spec => RxIsChannel
<1>1. Init => RxInv /\ Rx!Init /\ Held
  <2>1. Init => at["net"] = "pend"
    BY DEF Init
  <2>. QED BY RxInit, <2>1, Zenon DEF Held
<1>2. ASSUME RxInv, NoticeInv, Held, [Next]_vars
      PROVE  RxInv' /\ Held' /\ [Rx!Arrive \/ Rx!Take \/ Rx!Reset]_(Rx!vars)
  <2>1. CASE Arrive
    BY <1>2, <2>1, ArriveIsArrive, HeldKept, Zenon
  <2>2. CASE NetAlloc
    BY <1>2, <2>2, ReceiveIsTake, HeldKept, Zenon
  <2>3. CASE ~Arrive /\ ~NetAlloc
    <3>1. UNCHANGED <<rxRing, arrived, taken>>
      BY <1>2, <2>3, Zenon DEF Next, GemInterrupt, NetTask, NetPend, NetCheck, NetReceive, NetInput,
         NetFree, NetClear, NetTxReady, ReadPacket, MacWrite, MacSendFrame, Output, TcpipThread,
         WritePacket, DmaSend, vars, rxVars
    <3>. QED BY <1>2, <3>1, OtherKeepsRx, HeldKept, Zenon
  <2>. QED BY <2>1, <2>2, <2>3, Zenon
<1>. QED BY <1>1, <1>2, NoticeInvariance, PTL DEF Spec, RxIsChannel, Rx!Spec

-----------------------------------------------------------------------------
(* The transmit ring.                                                      *)
Busy == {d \in TxBd : ~txUsed[d]}

\* The buffer of d holds the first k pieces of frame f.
Holds(buf, d, f, k) == \A j \in 1 .. k : buf[d][j] = <<f, j>>

\* r descriptors from b on hold the frames from f on.
Stored(buf, len, b, r, f) ==
    \A i \in 0 .. r - 1 : /\ len[Step(b, i, SEND_BD_CNT)] = Pieces
                          /\ Holds(buf, Step(b, i, SEND_BD_CNT), f + i, Pieces)

Copying == at["net"] = "copy" \/ at["tcpip"] = "copy"

\* Frames that have left the queue, or were never on it.
Gone == Len(wire) + Cardinality(Busy) + (IF Copying THEN 1 ELSE 0)

(* Frame numbers run from the wire over the ring, the frame that is being  *)
(* copied and the queue to the one that lwip_output waits to queue.        *)
InLine == /\ \A i \in 1 .. Len(wire) : wire[i] = Whole(i)
          /\ Stored(txBuf, txLen, txDma, Cardinality(Busy), Len(wire) + 1)
          /\ \A t \in Thread : at[t] = "copy" => frame[t] = Gone
          /\ \A i \in 1 .. Len(hTxFifo) : hTxFifo[i] = Gone + i
          /\ at["tcpip"] = "queue" => frame["tcpip"] = sent
          /\ sent = Gone + Len(hTxFifo) + (IF at["tcpip"] = "queue" THEN 1 ELSE 0)
          /\ at["tcpip"] = "copy" => hTxFifo = <<>>

\* One thread at a time sends, into a buffer that is not the hardware's.
OneSender == /\ ~(IsSending("net") /\ IsSending("tcpip"))
             /\ \A t \in Thread : IsSending(t) => txUsed[tx_ci]
             /\ mutex = IF at["tcpip"] = "idle" THEN "free" ELSE "tcpip"
             /\ \A t \in Thread :
                   /\ at[t] = "copy" => /\ tx_bytes = copied[t]
                                        /\ Holds(txBuf, tx_ci, frame[t], tx_bytes)
                   /\ at[t] # "copy" => copied[t] = 0
             /\ ~Copying => tx_bytes = 0

TxTypes == /\ txUsed \in [TxBd -> BOOLEAN] /\ txBuf \in [TxBd -> [Room -> Piece]]
           /\ txLen \in [TxBd -> Nat] /\ tx_ci \in TxBd /\ txDma \in TxBd
           /\ hTxFifo \in Seq(Nat) /\ at \in [Thread -> Place]
           /\ at["tcpip"] \in {"idle", "copy", "queue"}
           /\ frame \in [Thread -> Nat] /\ copied \in [Thread -> 0 .. Pieces]
           /\ sent \in Nat /\ wire \in Seq(Seq(Piece))

TxRing == IsFiniteSet(Busy) /\ Arc(Busy, txDma, tx_ci, Cardinality(Busy), SEND_BD_CNT)

TxOk == TxTypes /\ TxRing /\ OneSender /\ InLine

(* TxInOrder is not inductive: it needs the frames behind the wire, and    *)
(* that a buffer is not written before the hardware is done with it.       *)
TxInv == ~overlap => TxOk

\* A buffer has room for the frames of two threads.
LEMMA RoomFacts == Pieces \in Nat /\ Room = 1 .. 2 * Pieces /\ \A j \in 1 .. Pieces : j \in Room
<1>1. Cardinality(Thread) = 2
  <2>1. Cardinality({"net"}) = 1 /\ IsFiniteSet({"net"})
    BY FS_Singleton, Zenon
  <2>2. "tcpip" \notin {"net"} /\ Thread = {"net"} \cup {"tcpip"}
    BY Zenon DEF Thread
  <2>3. Cardinality({"net"} \cup {"tcpip"}) = Cardinality({"net"}) + 1
    BY <2>1, <2>2, FS_AddElement, Zenon
  <2>. QED BY <2>1, <2>2, <2>3
<1>2. Room = 1 .. Pieces * 2
  BY <1>1, Zenon DEF Room
<1>. QED BY <1>2, Sizes

\* The hardware sends what the buffer holds.
LEMMA SendsWhole ==
    ASSUME NEW s \in [Room -> Piece], NEW f \in Nat, \A j \in 1 .. Pieces : s[j] = <<f, j>>
    PROVE  SubSeq(s, 1, Pieces) = Whole(f) /\ Whole(f) \in Seq(Piece)
<1>1. Pieces \in Nat /\ Room = 1 .. 2 * Pieces
  BY RoomFacts, Zenon
<1>2. s \in Seq(Piece) /\ Len(s) = 2 * Pieces
  BY <1>1
<1>3. 1 \in 1 .. Len(s) + 1 /\ Pieces \in 1 - 1 .. Len(s)
  BY <1>1, <1>2
<1>. DEFINE u == SubSeq(s, 1, Pieces)
<1>4. /\ u \in Seq(Piece) /\ Len(u) = (IF 1 <= Pieces THEN Pieces - 1 + 1 ELSE 0)
      /\ \A i \in 1 .. Pieces - 1 + 1 : u[i] = s[1 + i - 1]
  BY <1>2, <1>3
<1>. HIDE DEF u
<1>5. Len(u) = Pieces /\ \A i \in 1 .. Pieces : u[i] = s[i]
  BY <1>1, <1>4
<1>6. u = [i \in 1 .. Pieces |-> u[i]]
  BY <1>4, <1>5
<1>7. u = Whole(f)
  BY <1>5, <1>6, Zenon DEF Whole
<1>. QED BY <1>4, <1>7, Zenon DEF u

\* One more frame in the ring, behind the others.
LEMMA StoredPut ==
    ASSUME NEW buf, NEW len, NEW len2, NEW b \in TxBd, NEW r \in 0 .. SEND_BD_CNT - 1, NEW f \in Nat,
           Stored(buf, len, b, r, f), len2[Step(b, r, SEND_BD_CNT)] = Pieces,
           Holds(buf, Step(b, r, SEND_BD_CNT), f + r, Pieces),
           \A d \in TxBd : d # Step(b, r, SEND_BD_CNT) => len2[d] = len[d]
    PROVE  Stored(buf, len2, b, r + 1, f)
<1>1. /\ SEND_BD_CNT \in Nat \ {0} /\ b \in 0 .. SEND_BD_CNT - 1 /\ TxBd = 0 .. SEND_BD_CNT - 1
      /\ r \in Nat
  BY RingSizes DEF TxBd
<1>. SUFFICES ASSUME NEW i \in 0 .. (r + 1) - 1
              PROVE  /\ len2[Step(b, i, SEND_BD_CNT)] = Pieces
                     /\ Holds(buf, Step(b, i, SEND_BD_CNT), f + i, Pieces)
  BY Zenon DEF Stored
<1>2. CASE i = r
  BY <1>2, Zenon
<1>3. CASE i # r
  <2>1. i \in 0 .. r - 1 /\ i \in 0 .. SEND_BD_CNT - 1 /\ i \in 0 .. SEND_BD_CNT
    BY <1>1, <1>3
  <2>2. Step(b, i, SEND_BD_CNT) \in TxBd
    BY <1>1, <2>1, StepFacts, Zenon
  <2>3. Step(b, i, SEND_BD_CNT) # Step(b, r, SEND_BD_CNT)
    BY <1>1, <1>3, <2>1, StepApart, Zenon
  <2>4. /\ len[Step(b, i, SEND_BD_CNT)] = Pieces
        /\ Holds(buf, Step(b, i, SEND_BD_CNT), f + i, Pieces)
    BY <2>1, Zenon DEF Stored
  <2>. QED BY <2>2, <2>3, <2>4, Zenon
<1>. QED BY <1>2, <1>3, Zenon

\* The first of them is gone.
LEMMA StoredTake ==
    ASSUME NEW buf, NEW len, NEW b \in TxBd, NEW r \in 1 .. SEND_BD_CNT, NEW f \in Nat,
           Stored(buf, len, b, r, f)
    PROVE  /\ len[b] = Pieces /\ Holds(buf, b, f, Pieces)
           /\ Stored(buf, len, Step(b, 1, SEND_BD_CNT), r - 1, f + 1)
<1>1. /\ SEND_BD_CNT \in Nat \ {0} /\ b \in 0 .. SEND_BD_CNT - 1 /\ r \in Nat
      /\ 0 \in 0 .. r - 1 /\ f + 0 = f
  BY RingSizes DEF TxBd
<1>2. Step(b, 0, SEND_BD_CNT) = b
  BY <1>1, StepFacts, Zenon
<1>3. len[b] = Pieces /\ Holds(buf, b, f, Pieces)
  <2>1. /\ len[Step(b, 0, SEND_BD_CNT)] = Pieces
        /\ Holds(buf, Step(b, 0, SEND_BD_CNT), f + 0, Pieces)
    BY <1>1, Zenon DEF Stored
  <2>. QED BY <1>1, <1>2, <2>1, Zenon
<1>4. ASSUME NEW i \in 0 .. (r - 1) - 1
      PROVE  /\ len[Step(Step(b, 1, SEND_BD_CNT), i, SEND_BD_CNT)] = Pieces
             /\ Holds(buf, Step(Step(b, 1, SEND_BD_CNT), i, SEND_BD_CNT), (f + 1) + i, Pieces)
  <2>1. i + 1 \in 0 .. r - 1 /\ i \in 0 .. SEND_BD_CNT - 1 /\ (f + 1) + i = f + (i + 1)
    BY <1>1
  <2>2. Step(Step(b, 1, SEND_BD_CNT), i, SEND_BD_CNT) = Step(b, i + 1, SEND_BD_CNT)
    BY <1>1, <2>1, StepOn, Zenon
  <2>3. /\ len[Step(b, i + 1, SEND_BD_CNT)] = Pieces
        /\ Holds(buf, Step(b, i + 1, SEND_BD_CNT), f + (i + 1), Pieces)
    BY <2>1, Zenon DEF Stored
  <2>. QED BY <2>1, <2>2, <2>3, Zenon
<1>. QED BY <1>3, <1>4, Zenon DEF Stored

\* A buffer behind them is written.
LEMMA StoredKeeps ==
    ASSUME NEW buf, NEW buf2, NEW len, NEW b \in TxBd, NEW r \in 0 .. SEND_BD_CNT - 1, NEW f \in Nat,
           Stored(buf, len, b, r, f),
           \A d \in TxBd : d # Step(b, r, SEND_BD_CNT) => buf2[d] = buf[d]
    PROVE  Stored(buf2, len, b, r, f)
<1>1. /\ SEND_BD_CNT \in Nat \ {0} /\ b \in 0 .. SEND_BD_CNT - 1 /\ TxBd = 0 .. SEND_BD_CNT - 1
      /\ r \in Nat
  BY RingSizes DEF TxBd
<1>. SUFFICES ASSUME NEW i \in 0 .. r - 1
              PROVE  /\ len[Step(b, i, SEND_BD_CNT)] = Pieces
                     /\ Holds(buf2, Step(b, i, SEND_BD_CNT), f + i, Pieces)
  BY Zenon DEF Stored
<1>2. i # r /\ i \in 0 .. SEND_BD_CNT - 1 /\ i \in 0 .. SEND_BD_CNT
  BY <1>1
<1>3. Step(b, i, SEND_BD_CNT) \in TxBd
  BY <1>1, <1>2, StepFacts, Zenon
<1>4. Step(b, i, SEND_BD_CNT) # Step(b, r, SEND_BD_CNT)
  BY <1>1, <1>2, StepApart, Zenon
<1>5. /\ len[Step(b, i, SEND_BD_CNT)] = Pieces
      /\ Holds(buf, Step(b, i, SEND_BD_CNT), f + i, Pieces)
  BY Zenon DEF Stored
<1>6. buf2[Step(b, i, SEND_BD_CNT)] = buf[Step(b, i, SEND_BD_CNT)]
  BY <1>3, <1>4, Zenon
<1>. QED BY <1>5, <1>6, Zenon DEF Holds

\* What the numbers of the invariant are.
LEMMA TxNumbers ==
    ASSUME TxOk
    PROVE  /\ Cardinality(Busy) \in Nat /\ Cardinality(Busy) \in 0 .. SEND_BD_CNT
           /\ Len(wire) \in Nat /\ Len(hTxFifo) \in Nat /\ Gone \in Nat /\ sent \in Nat
           /\ Gone = Len(wire) + Cardinality(Busy) + (IF Copying THEN 1 ELSE 0)
           /\ "net" \in Thread /\ "tcpip" \in Thread
<1>1. Cardinality(Busy) \in 0 .. SEND_BD_CNT
  BY Zenon DEF TxOk, TxRing, Arc
<1>2. Len(wire) \in Nat /\ Len(hTxFifo) \in Nat /\ sent \in Nat
  BY DEF TxOk, TxTypes
<1>. QED BY <1>1, <1>2, RingSizes DEF Gone, Thread

(* A step that neither takes a frame from the queue nor touches the ring;  *)
(* net_task may begin to look for a frame to send when it finds a free     *)
(* descriptor and the lwIP thread does not send.                           *)
LEMMA TxQuiet ==
    ASSUME TxOk, UNCHANGED <<txRing, hTxFifo, mutex, frame, copied, sent, wire>>,
           at' \in [Thread -> Place], at'["tcpip"] = at["tcpip"],
           at'["net"] = "copy" <=> at["net"] = "copy",
           at'["net"] = "pop" => at["net"] = "pop" \/ (txUsed[tx_ci] /\ ~IsSending("tcpip"))
    PROVE  TxOk'
<1>1. Busy' = Busy /\ Copying' = Copying
  BY Zenon DEF Busy, Copying, txRing
<1>2. Gone' = Gone
  BY <1>1, Zenon DEF Gone
<1>3. \A t \in Thread : t = "net" \/ t = "tcpip"
  BY Zenon DEF Thread
<1>4. TxTypes' /\ TxRing'
  BY <1>1, Zenon DEF TxOk, TxTypes, TxRing, txRing
<1>5. OneSender'
  <2>1. \A t \in Thread : at'[t] = "copy" <=> at[t] = "copy"
    BY <1>3, Zenon
  <2>2. \A t \in Thread : IsSending(t)' => IsSending(t) \/ (t = "net" /\ txUsed[tx_ci] /\ ~IsSending("tcpip"))
    BY <1>3, Zenon DEF IsSending
  <2>3. IsSending("tcpip")' <=> IsSending("tcpip")
    BY Zenon DEF IsSending
  <2>4. "net" \in Thread /\ "tcpip" \in Thread
    BY Zenon DEF Thread
  <2>. QED BY <1>1, <2>1, <2>2, <2>3, <2>4 DEF TxOk, OneSender, txRing, Holds
<1>6. InLine'
  <2>1. \A t \in Thread : at'[t] = "copy" <=> at[t] = "copy"
    BY <1>3, Zenon
  <2>. QED BY <1>1, <1>2, <2>1, Zenon DEF TxOk, InLine, txRing
<1>. QED BY <1>4, <1>5, <1>6, Zenon DEF TxOk

\* read_packet gives net_task the oldest frame of the queue.
LEMMA TxReadPacket == ASSUME TxOk, ReadPacket PROVE TxOk'
<1>1. CASE hTxFifo = <<>>
  <2>1. /\ UNCHANGED <<txRing, hTxFifo, mutex, frame, copied, sent, wire>>
        /\ at["net"] = "pop" /\ at' = [at EXCEPT !["net"] = NetAfterSend]
    BY <1>1, Zenon DEF ReadPacket, Go
  <2>2. at \in [Thread -> Place] /\ "net" \in Thread /\ NetAfterSend \in {"clear", "receive"}
    BY Zenon DEF TxOk, TxTypes, Thread, NetAfterSend
  <2>3. at' \in [Thread -> Place] /\ at'["tcpip"] = at["tcpip"] /\ at'["net"] \in {"clear", "receive"}
    BY <2>1, <2>2 DEF Place
  <2>. QED BY <2>1, <2>3, TxQuiet, Zenon
<1>2. CASE hTxFifo # <<>>
  <2>1. /\ UNCHANGED <<txRing, mutex, copied, sent, wire>> /\ mutex = "free"
        /\ at["net"] = "pop" /\ at' = [at EXCEPT !["net"] = "copy"]
        /\ frame' = [frame EXCEPT !["net"] = Head(hTxFifo)] /\ hTxFifo' = Tail(hTxFifo)
    BY <1>2, Zenon DEF ReadPacket, Go
  <2>2. /\ at \in [Thread -> Place] /\ Thread = {"net", "tcpip"} /\ frame \in [Thread -> Nat]
        /\ hTxFifo \in Seq(Nat)
    BY Zenon DEF TxOk, TxTypes, Thread
  <2>3. at["tcpip"] = "idle" /\ tx_bytes = 0 /\ copied["net"] = 0 /\ copied["tcpip"] = 0
        /\ ~Copying /\ txUsed[tx_ci]
    BY <2>1, <2>2, Zenon DEF TxOk, OneSender, IsSending, Copying
  <2>4. at' \in [Thread -> Place] /\ at'["tcpip"] = "idle" /\ at'["net"] = "copy"
    BY <2>1, <2>2, <2>3, Zenon DEF Place
  <2>5. Busy' = Busy /\ Copying'
    BY <2>1, <2>4, Zenon DEF Busy, Copying, txRing
  <2>6. Gone' = Gone + 1
    <3>1. Gone' = Len(wire) + Cardinality(Busy) + 1
      BY <2>1, <2>5, Zenon DEF Gone
    <3>. QED BY <2>3, <3>1, TxNumbers
  <2>7. /\ Head(hTxFifo) = hTxFifo[1] /\ 1 \in 1 .. Len(hTxFifo) /\ Len(hTxFifo) \in Nat
        /\ hTxFifo' \in Seq(Nat) /\ Len(hTxFifo') = Len(hTxFifo) - 1
        /\ \A i \in 1 .. Len(hTxFifo') : hTxFifo'[i] = hTxFifo[i + 1]
    BY <1>2, <2>1, <2>2
  <2>8. Head(hTxFifo) = Gone'
    BY <2>6, <2>7, Zenon DEF TxOk, InLine
  <2>9. Gone \in Nat
    BY TxNumbers, Zenon
  <2>10. frame' \in [Thread -> Nat] /\ frame'["net"] = Gone' /\ frame'["tcpip"] = frame["tcpip"]
    BY <2>1, <2>2, <2>6, <2>8, <2>9
  <2>11. TxTypes'
    BY <2>1, <2>4, <2>7, <2>10, Zenon DEF TxOk, TxTypes, txRing
  <2>12. TxRing'
    BY <2>1, <2>5, Zenon DEF TxOk, TxRing, txRing
  <2>13. OneSender'
    <3>1. Holds(txBuf', tx_ci', frame'["net"], 0)
      BY DEF Holds
    <3>. QED BY <2>1, <2>2, <2>3, <2>4, <2>5, <3>1, Zenon DEF OneSender, IsSending, txRing
  <2>14. InLine'
    <3>1. \A i \in 1 .. Len(hTxFifo') : hTxFifo'[i] = Gone' + i
      <4>. SUFFICES ASSUME NEW i \in 1 .. Len(hTxFifo') PROVE hTxFifo'[i] = Gone' + i
        BY Zenon
      <4>1. i + 1 \in 1 .. Len(hTxFifo) /\ Gone + (i + 1) = (Gone + 1) + i
        BY <2>7, <2>9
      <4>2. hTxFifo[i + 1] = Gone + (i + 1)
        BY <4>1, Zenon DEF TxOk, InLine
      <4>. QED BY <2>6, <2>7, <4>1, <4>2, Zenon
    <3>2. sent' = Gone' + Len(hTxFifo')
      <4>1. sent = Gone + Len(hTxFifo)
        BY <2>3, <2>7, <2>9 DEF TxOk, InLine
      <4>. QED BY <2>1, <2>6, <2>7, <2>9, <4>1
    <3>3. \A t \in Thread : at'[t] = "copy" => frame'[t] = Gone'
      BY <2>2, <2>4, <2>10, Zenon
    <3>4. Gone' + Len(hTxFifo') + 0 = Gone' + Len(hTxFifo')
      BY <2>6, <2>7, <2>9
    <3>. QED BY <2>1, <2>4, <2>5, <3>1, <3>2, <3>3, <3>4, Zenon DEF TxOk, InLine, txRing
  <2>. QED BY <2>11, <2>12, <2>13, <2>14, Zenon DEF TxOk
<1>. QED BY <1>1, <1>2, Zenon

\* lwip_output sends the frame itself or has to queue it.
LEMMA TxOutput == ASSUME TxOk, Output, ~overlap' PROVE TxOk'
<1>1. /\ at["tcpip"] = "idle" /\ sent' = sent + 1 /\ mutex' = "tcpip"
      /\ frame' = [frame EXCEPT !["tcpip"] = sent + 1]
      /\ UNCHANGED <<txRing, hTxFifo, copied, wire>>
      /\ at' = [at EXCEPT !["tcpip"] = IF OutputNow THEN "copy" ELSE "queue"]
      /\ OutputNow => ~IsSending("net")
  BY Zenon DEF Output, Go
<1>2. /\ at \in [Thread -> Place] /\ Thread = {"net", "tcpip"} /\ frame \in [Thread -> Nat]
      /\ sent \in Nat /\ hTxFifo \in Seq(Nat)
  BY Zenon DEF TxOk, TxTypes, Thread
<1>3. /\ at' \in [Thread -> Place] /\ at'["net"] = at["net"]
      /\ at'["tcpip"] = IF OutputNow THEN "copy" ELSE "queue"
  BY <1>1, <1>2, Zenon DEF Place
<1>4. /\ frame' \in [Thread -> Nat] /\ frame'["net"] = frame["net"]
      /\ frame'["tcpip"] = sent + 1
  BY <1>1, <1>2
<1>5. Busy' = Busy
  BY <1>1, Zenon DEF Busy, txRing
<1>6. TxTypes'
  BY <1>1, <1>2, <1>3, <1>4, Zenon DEF TxOk, TxTypes, txRing
<1>7. TxRing'
  BY <1>1, <1>5, Zenon DEF TxOk, TxRing, txRing
<1>8. CASE OutputNow
  <2>1. ~IsSending("net") /\ ~Copying /\ hTxFifo = <<>> /\ txUsed[tx_ci] /\ at["net"] # "copy"
    BY <1>1, <1>8, Zenon DEF OutputNow, IsSending, Copying
  <2>2. Gone' = Len(wire) + Cardinality(Busy) + 1
    BY <1>1, <1>3, <1>5, <1>8, Zenon DEF Gone, Copying
  <2>3. sent = Len(wire) + Cardinality(Busy) /\ Len(hTxFifo) = 0
    <3>1. Len(hTxFifo) = 0
      BY <2>1, Zenon
    <3>2. sent = Gone + Len(hTxFifo) + 0
      BY <1>1, Zenon DEF TxOk, InLine
    <3>. QED BY <2>1, <3>1, <3>2, TxNumbers
  <2>4. tx_bytes = 0 /\ copied["net"] = 0 /\ copied["tcpip"] = 0
    BY <1>1, <1>2, <2>1, Zenon DEF TxOk, OneSender
  <2>5. OneSender'
    <3>1. Holds(txBuf', tx_ci', frame'["tcpip"], 0)
      BY DEF Holds
    <3>. QED BY <1>1, <1>2, <1>3, <1>8, <2>1, <2>4, <3>1, Zenon DEF OneSender, IsSending, Copying, txRing
  <2>6. InLine'
    <3>1. sent + 1 = Gone' /\ sent' = Gone' + Len(hTxFifo') + 0
      BY <1>1, <2>2, <2>3, TxNumbers
    <3>2. \A t \in Thread : at'[t] = "copy" => frame'[t] = Gone'
      BY <1>2, <1>3, <1>4, <2>1, <3>1, Zenon
    <3>3. \A i \in 1 .. Len(hTxFifo') : hTxFifo'[i] = Gone' + i
      BY <1>1, <2>3
    <3>. QED BY <1>1, <1>3, <1>5, <1>8, <2>1, <3>1, <3>2, <3>3 DEF TxOk, InLine, txRing
  <2>. QED BY <1>6, <1>7, <2>5, <2>6, Zenon DEF TxOk
<1>9. CASE ~OutputNow
  <2>1. Copying' = Copying /\ Gone' = Gone
    BY <1>1, <1>3, <1>5, <1>9 DEF Gone, Copying
  <2>2. OneSender'
    BY <1>1, <1>2, <1>3, <1>4, <1>9, <2>1, Zenon DEF TxOk, OneSender, IsSending, txRing
  <2>3. InLine'
    <3>1. sent' = Gone + Len(hTxFifo) + 1
      <4>1. sent = Gone + Len(hTxFifo) + 0
        BY <1>1, Zenon DEF TxOk, InLine
      <4>. QED BY <1>1, <4>1, TxNumbers
    <3>2. \A t \in Thread : at'[t] = "copy" => frame'[t] = Gone'
      BY <1>2, <1>3, <1>4, <1>9, <2>1, Zenon DEF TxOk, InLine
    <3>3. frame'["tcpip"] = sent' /\ at'["tcpip"] = "queue"
      BY <1>1, <1>3, <1>4, <1>9, Zenon
    <3>4. /\ \A i \in 1 .. Len(wire') : wire'[i] = Whole(i)
          /\ Stored(txBuf', txLen', txDma', Cardinality(Busy'), Len(wire') + 1)
          /\ \A i \in 1 .. Len(hTxFifo') : hTxFifo'[i] = Gone' + i
      BY <1>1, <1>5, <2>1, Zenon DEF TxOk, InLine, txRing
    <3>5. sent' = Gone' + Len(hTxFifo') + 1
      BY <1>1, <2>1, <3>1, Zenon
    <3>. QED BY <3>2, <3>3, <3>4, <3>5, Zenon DEF InLine
  <2>. QED BY <1>6, <1>7, <2>2, <2>3, Zenon DEF TxOk
<1>. QED BY <1>8, <1>9, Zenon

\* write_packet puts the frame behind the queued ones.
LEMMA TxWritePacket == ASSUME TxOk, WritePacket PROVE TxOk'
<1>1. /\ at["tcpip"] = "queue" /\ hTxFifo' = Append(hTxFifo, frame["tcpip"]) /\ mutex' = "free"
      /\ frame' = [frame EXCEPT !["tcpip"] = 0] /\ at' = [at EXCEPT !["tcpip"] = "idle"]
      /\ UNCHANGED <<txRing, copied, sent, wire>>
  BY Zenon DEF WritePacket, Go
<1>2. /\ at \in [Thread -> Place] /\ Thread = {"net", "tcpip"} /\ frame \in [Thread -> Nat]
      /\ hTxFifo \in Seq(Nat) /\ frame["tcpip"] \in Nat /\ sent \in Nat
  BY Zenon DEF TxOk, TxTypes, Thread
<1>3. at' \in [Thread -> Place] /\ at'["net"] = at["net"] /\ at'["tcpip"] = "idle"
  BY <1>1, <1>2, Zenon DEF Place
<1>4. frame' \in [Thread -> Nat] /\ frame'["net"] = frame["net"]
  BY <1>1, <1>2, Zenon
<1>5. /\ hTxFifo' \in Seq(Nat) /\ Len(hTxFifo') = Len(hTxFifo) + 1 /\ Len(hTxFifo) \in Nat
      /\ hTxFifo'[Len(hTxFifo) + 1] = frame["tcpip"]
      /\ \A i \in 1 .. Len(hTxFifo) : hTxFifo'[i] = hTxFifo[i]
  BY <1>1, <1>2
<1>6. Busy' = Busy /\ Copying' = Copying /\ Gone' = Gone /\ Gone \in Nat
  <2>1. Busy' = Busy /\ Copying' = Copying
    BY <1>1, <1>3, Zenon DEF Busy, Copying, txRing
  <2>. QED BY <1>1, <2>1, TxNumbers, Zenon DEF Gone
<1>7. TxTypes'
  BY <1>1, <1>2, <1>3, <1>4, <1>5, Zenon DEF TxOk, TxTypes, txRing
<1>8. TxRing'
  BY <1>1, <1>6, Zenon DEF TxOk, TxRing, txRing
<1>9. OneSender'
  BY <1>1, <1>2, <1>3, <1>4, <1>6, Zenon DEF TxOk, OneSender, IsSending, txRing
<1>10. InLine'
  <2>1. frame["tcpip"] = sent /\ sent = Gone + Len(hTxFifo) + 1
    BY <1>1, Zenon DEF TxOk, InLine
  <2>2. \A i \in 1 .. Len(hTxFifo') : hTxFifo'[i] = Gone' + i
    <3>. SUFFICES ASSUME NEW i \in 1 .. Len(hTxFifo') PROVE hTxFifo'[i] = Gone' + i
      BY Zenon
    <3>1. CASE i = Len(hTxFifo) + 1
      BY <1>5, <1>6, <2>1, <3>1
    <3>2. CASE i # Len(hTxFifo) + 1
      <4>1. i \in 1 .. Len(hTxFifo)
        BY <1>5, <3>2
      <4>. QED BY <1>5, <1>6, <4>1, Zenon DEF TxOk, InLine
    <3>. QED BY <3>1, <3>2, Zenon
  <2>3. sent' = Gone' + Len(hTxFifo') + 0
    BY <1>1, <1>5, <1>6, <2>1
  <2>4. \A t \in Thread : at'[t] = "copy" => frame'[t] = Gone'
    BY <1>2, <1>3, <1>4, <1>6, Zenon DEF TxOk, InLine
  <2>. QED BY <1>1, <1>3, <1>6, <2>2, <2>3, <2>4, Zenon DEF TxOk, InLine, txRing
<1>. QED BY <1>7, <1>8, <1>9, <1>10, Zenon DEF TxOk

(* The thread that copies: it is the only one that sends, its descriptor   *)
(* is free, and behind all that the hardware has yet to send.              *)
LEMMA TxCopier ==
    ASSUME TxOk, NEW t \in Thread, at[t] = "copy"
    PROVE  /\ \A u \in Thread : u # t => at[u] \notin {"pop", "copy"} /\ copied[u] = 0
           /\ txUsed[tx_ci] /\ Copying /\ tx_bytes = copied[t] /\ copied[t] \in 0 .. Pieces
           /\ Holds(txBuf, tx_ci, frame[t], tx_bytes) /\ frame[t] = Gone
           /\ tx_ci \notin Busy /\ tx_ci \in TxBd /\ txDma \in TxBd
           /\ tx_ci = Step(txDma, Cardinality(Busy), SEND_BD_CNT)
           /\ Cardinality(Busy) \in 0 .. SEND_BD_CNT - 1
<1>1. Thread = {"net", "tcpip"} /\ IsSending(t)
  BY Zenon DEF Thread, IsSending
<1>2. \A u \in Thread : u # t => ~IsSending(u)
  BY <1>1, Zenon DEF TxOk, OneSender
<1>3. \A u \in Thread : u # t => at[u] \notin {"pop", "copy"} /\ copied[u] = 0
  BY <1>2, Zenon DEF IsSending, TxOk, OneSender
<1>4. /\ txUsed[tx_ci] /\ Copying /\ tx_bytes = copied[t] /\ copied[t] \in 0 .. Pieces
      /\ Holds(txBuf, tx_ci, frame[t], tx_bytes) /\ frame[t] = Gone
  BY <1>1, Zenon DEF TxOk, OneSender, TxTypes, InLine, Copying
<1>5. tx_ci \notin Busy /\ tx_ci \in TxBd /\ txDma \in TxBd
  BY <1>4, Zenon DEF Busy, TxOk, TxTypes
<1>6. Arc(Busy, txDma, tx_ci, Cardinality(Busy), SEND_BD_CNT)
  BY Zenon DEF TxOk, TxRing
<1>7. Cardinality(Busy) < SEND_BD_CNT
  <2>1. SEND_BD_CNT \in Nat \ {0} /\ txDma \in 0 .. SEND_BD_CNT - 1
    BY <1>5, RingSizes, Zenon DEF TxBd
  <2>. QED BY <1>5, <1>6, <2>1, ArcPut, Zenon
<1>8. /\ tx_ci = Step(txDma, Cardinality(Busy), SEND_BD_CNT)
      /\ Cardinality(Busy) \in 0 .. SEND_BD_CNT - 1
  BY <1>6, <1>7, RingSizes DEF Arc
<1>. QED BY <1>3, <1>4, <1>5, <1>8, Zenon

\* mac_write appends a piece to the buffer of the free descriptor.
LEMMA TxMacWrite == ASSUME TxOk, NEW t \in Thread, MacWrite(t) PROVE TxOk'
<1>. DEFINE p == <<frame[t], copied[t] + 1>>
            r == Cardinality(Busy)
<1>1. /\ at[t] = "copy" /\ copied[t] < Pieces /\ tx_bytes' = tx_bytes + 1
      /\ txBuf' = [txBuf EXCEPT ![tx_ci][tx_bytes + 1] = p]
      /\ copied' = [copied EXCEPT ![t] = copied[t] + 1]
      /\ UNCHANGED <<txUsed, txLen, tx_ci, txDma, hTxFifo, mutex, frame, sent, wire, at>>
  BY Zenon DEF MacWrite
<1>2. /\ \A u \in Thread : u # t => at[u] \notin {"pop", "copy"} /\ copied[u] = 0
      /\ txUsed[tx_ci] /\ Copying /\ tx_bytes = copied[t] /\ copied[t] \in 0 .. Pieces
      /\ Holds(txBuf, tx_ci, frame[t], tx_bytes) /\ frame[t] = Gone
      /\ tx_ci \notin Busy /\ tx_ci \in TxBd /\ txDma \in TxBd
      /\ tx_ci = Step(txDma, r, SEND_BD_CNT) /\ r \in 0 .. SEND_BD_CNT - 1
  BY <1>1, TxCopier, Zenon
<1>3. /\ txBuf \in [TxBd -> [Room -> Piece]] /\ copied \in [Thread -> 0 .. Pieces]
      /\ frame \in [Thread -> Nat] /\ Len(wire) + 1 \in Nat
  <2>1. Len(wire) + 1 \in Nat
    BY TxNumbers
  <2>. QED BY <2>1, Zenon DEF TxOk, TxTypes
<1>4. /\ tx_bytes + 1 \in Room /\ tx_bytes \in Nat /\ tx_bytes + 1 \in 1 .. Pieces
      /\ \A j \in 1 .. Pieces : j \in Room
  <2>1. Pieces \in Nat /\ \A j \in 1 .. Pieces : j \in Room
    BY RoomFacts, Zenon
  <2>2. tx_bytes \in 0 .. Pieces /\ tx_bytes < Pieces
    BY <1>1, <1>2, Zenon
  <2>3. tx_bytes \in Nat /\ tx_bytes + 1 \in 1 .. Pieces
    BY <2>1, <2>2
  <2>. QED BY <2>1, <2>3, Zenon
<1>5. p \in Piece
  BY <1>2, <1>3 DEF Piece
<1>. HIDE DEF p
<1>6. /\ txBuf' \in [TxBd -> [Room -> Piece]]
      /\ \A d \in TxBd : d # tx_ci => txBuf'[d] = txBuf[d]
      /\ txBuf'[tx_ci] = [txBuf[tx_ci] EXCEPT ![tx_bytes + 1] = p]
  BY <1>1, <1>2, <1>3, <1>4, <1>5, Zenon
<1>7. /\ txBuf'[tx_ci][tx_bytes + 1] = p
      /\ \A j \in Room : j # tx_bytes + 1 => txBuf'[tx_ci][j] = txBuf[tx_ci][j]
  BY <1>2, <1>3, <1>4, <1>6
<1>8. /\ copied' \in [Thread -> 0 .. Pieces] /\ copied'[t] = tx_bytes + 1
      /\ \A u \in Thread : u # t => copied'[u] = copied[u]
  <2>1. copied[t] + 1 \in 0 .. Pieces
    BY <1>1, <1>2, RoomFacts
  <2>. QED BY <1>1, <1>2, <1>3, <2>1, Zenon
<1>9. Busy' = Busy /\ Copying' = Copying /\ Gone' = Gone
  <2>1. Busy' = Busy /\ Copying' = Copying
    BY <1>1, Zenon DEF Busy, Copying
  <2>. QED BY <1>1, <2>1, Zenon DEF Gone
<1>10. TxTypes'
  BY <1>1, <1>6, <1>8, Zenon DEF TxOk, TxTypes
<1>11. TxRing'
  BY <1>1, <1>9, Zenon DEF TxOk, TxRing
<1>12. Holds(txBuf', tx_ci, frame[t], tx_bytes + 1)
  <2>. SUFFICES ASSUME NEW j \in 1 .. tx_bytes + 1 PROVE txBuf'[tx_ci][j] = <<frame[t], j>>
    BY Zenon DEF Holds
  <2>1. CASE j = tx_bytes + 1
    BY <1>2, <1>7, <2>1, Zenon DEF p
  <2>2. CASE j # tx_bytes + 1
    <3>1. j \in 1 .. tx_bytes /\ j \in Room
      BY <1>4, <2>2, RoomFacts
    <3>. QED BY <1>2, <1>7, <2>2, <3>1, Zenon DEF Holds
  <2>. QED BY <2>1, <2>2, Zenon
<1>13. OneSender'
  <2>1. ~(IsSending("net") /\ IsSending("tcpip"))' /\ (\A u \in Thread : IsSending(u) => txUsed[tx_ci])'
        /\ (mutex = IF at["tcpip"] = "idle" THEN "free" ELSE "tcpip")'
    BY <1>1, Zenon DEF TxOk, OneSender, IsSending
  <2>2. ASSUME NEW u \in Thread
        PROVE  /\ at'[u] = "copy" => tx_bytes' = copied'[u] /\ Holds(txBuf', tx_ci', frame'[u], tx_bytes')
               /\ at'[u] # "copy" => copied'[u] = 0
    BY <1>1, <1>2, <1>8, <1>12, Zenon
  <2>. QED BY <1>2, <1>9, <2>1, <2>2, Zenon DEF OneSender
<1>14. Stored(txBuf', txLen, txDma, r, Len(wire) + 1)
  <2>. DEFINE b2 == txBuf'
              f == Len(wire) + 1
  <2>1. Stored(txBuf, txLen, txDma, r, f)
    BY Zenon DEF TxOk, InLine
  <2>2. f \in Nat /\ \A d \in TxBd : d # Step(txDma, r, SEND_BD_CNT) => b2[d] = txBuf[d]
    BY <1>2, <1>3, <1>6, Zenon
  <2>. HIDE DEF b2, f, r
  <2>3. Stored(b2, txLen, txDma, r, f)
    BY <1>2, <2>1, <2>2, StoredKeeps, Zenon
  <2>. QED BY <2>3, Zenon DEF b2, f
<1>15. InLine'
  BY <1>1, <1>9, <1>14, Zenon DEF TxOk, InLine
<1>. QED BY <1>10, <1>11, <1>13, <1>15, Zenon DEF TxOk

\* mac_sendframe hands the buffer, with the whole frame, to the hardware.
LEMMA TxSendFrame == ASSUME TxOk, NEW t \in Thread, MacSendFrame(t) PROVE TxOk'
<1>. DEFINE n == SEND_BD_CNT
            r == Cardinality(Busy)
            f == Len(wire) + 1
<1>1. /\ at[t] = "copy" /\ copied[t] = Pieces /\ tx_bytes' = 0
      /\ txLen' = [txLen EXCEPT ![tx_ci] = tx_bytes]
      /\ txUsed' = [txUsed EXCEPT ![tx_ci] = FALSE] /\ tx_ci' = (tx_ci + 1) % n
      /\ copied' = [copied EXCEPT ![t] = 0] /\ frame' = [frame EXCEPT ![t] = 0]
      /\ mutex' = IF t = "tcpip" THEN "free" ELSE mutex
      /\ at' = [at EXCEPT ![t] = IF t = "tcpip" THEN "idle" ELSE "free"]
      /\ UNCHANGED <<txBuf, txDma, hTxFifo, sent, wire>>
  BY Zenon DEF MacSendFrame, Go
<1>2. /\ \A u \in Thread : u # t => at[u] \notin {"pop", "copy"} /\ copied[u] = 0
      /\ txUsed[tx_ci] /\ Copying /\ tx_bytes = Pieces
      /\ Holds(txBuf, tx_ci, frame[t], Pieces) /\ frame[t] = Gone
      /\ tx_ci \notin Busy /\ tx_ci \in TxBd /\ txDma \in TxBd
      /\ tx_ci = Step(txDma, r, n) /\ r \in 0 .. n - 1
  BY <1>1, TxCopier, Zenon
<1>3. /\ Thread = {"net", "tcpip"} /\ at \in [Thread -> Place] /\ frame \in [Thread -> Nat]
      /\ copied \in [Thread -> 0 .. Pieces] /\ txLen \in [TxBd -> Nat]
      /\ txUsed \in [TxBd -> BOOLEAN] /\ at["tcpip"] \in {"idle", "copy", "queue"}
  BY Zenon DEF TxOk, TxTypes, Thread
<1>4. /\ n \in Nat \ {0} /\ TxBd = 0 .. n - 1 /\ 1 \in 0 .. n
      /\ Pieces \in Nat /\ r \in Nat /\ Len(wire) \in Nat /\ f \in Nat /\ 0 \in 0 .. Pieces
  BY RingSizes, TxNumbers, RoomFacts DEF TxBd
<1>5. /\ at' \in [Thread -> Place] /\ at'[t] \in {"idle", "free"}
      /\ \A u \in Thread : u # t => at'[u] = at[u]
      /\ t = "tcpip" => at'[t] = "idle"
  BY <1>1, <1>3, Zenon DEF Place
<1>6. \A u \in Thread : at'[u] \notin {"pop", "copy"}
  BY <1>2, <1>5, Zenon
<1>7. ~Copying' /\ at'["tcpip"] \in {"idle", "queue"} /\ (at'["tcpip"] = "queue" <=> at["tcpip"] = "queue")
  BY <1>1, <1>3, <1>5, <1>6, Zenon DEF Copying
<1>8. frame' \in [Thread -> Nat] /\ copied' \in [Thread -> 0 .. Pieces]
      /\ (\A u \in Thread : copied'[u] = 0) /\ (\A u \in Thread : u # t => frame'[u] = frame[u])
  BY <1>1, <1>2, <1>3, <1>4, Zenon
<1>9. /\ txLen' \in [TxBd -> Nat] /\ txUsed' \in [TxBd -> BOOLEAN] /\ txLen'[tx_ci] = Pieces
      /\ \A d \in TxBd : d # tx_ci => txLen'[d] = txLen[d]
  BY <1>1, <1>2, <1>3, <1>4, Zenon
<1>10. Busy' = Busy \cup {tx_ci}
  BY <1>1, <1>2, <1>3, Zenon DEF Busy
<1>11. IsFiniteSet(Busy') /\ Cardinality(Busy') = r + 1
  <2>1. IsFiniteSet(Busy)
    BY Zenon DEF TxOk, TxRing
  <2>. QED BY <1>2, <1>10, <2>1, FS_AddElement, Zenon
<1>12. Gone' = Gone /\ Gone = f + r
  <2>1. Gone' = Len(wire) + (r + 1) + 0
    BY <1>1, <1>7, <1>11, Zenon DEF Gone
  <2>2. Gone = Len(wire) + r + 1
    BY <1>2, Zenon DEF Gone
  <2>. QED BY <1>4, <2>1, <2>2
<1>13. Arc(Busy, txDma, tx_ci, r, n)
  BY Zenon DEF TxOk, TxRing
<1>14. Stored(txBuf, txLen, txDma, r, f)
  BY Zenon DEF TxOk, InLine
<1>. HIDE DEF n, r, f
<1>15. tx_ci' = Step(tx_ci, 1, n)
  BY <1>1, <1>2, <1>4, Wrap, Zenon
<1>16. tx_ci' \in TxBd
  BY <1>2, <1>4, <1>15, StepFacts, Zenon
<1>17. Arc(Busy', txDma, tx_ci', r + 1, n)
  <2>1. Arc(Busy \cup {tx_ci}, txDma, Step(tx_ci, 1, n), r + 1, n)
    BY <1>2, <1>4, <1>13, ArcPut, Zenon
  <2>. QED BY <1>10, <1>15, <2>1, Zenon
<1>18. TxTypes'
  BY <1>1, <1>5, <1>7, <1>8, <1>9, <1>16, Zenon DEF TxOk, TxTypes
<1>19. TxRing'
  BY <1>1, <1>11, <1>17, Zenon DEF TxRing, n
<1>20. OneSender'
  <2>1. mutex' = IF at'["tcpip"] = "idle" THEN "free" ELSE "tcpip"
    <3>1. CASE t = "tcpip"
      BY <1>1, <1>5, <3>1, Zenon
    <3>2. CASE t # "tcpip"
      <4>1. at'["tcpip"] = at["tcpip"] /\ mutex' = mutex
        BY <1>1, <1>3, <1>5, <3>2, Zenon
      <4>. QED BY <4>1, Zenon DEF TxOk, OneSender
    <3>. QED BY <3>1, <3>2, Zenon
  <2>2. \A u \in Thread : ~IsSending(u)'
    BY <1>6, Zenon DEF IsSending
  <2>. QED BY <1>1, <1>3, <1>6, <1>8, <2>1, <2>2, Zenon DEF OneSender
<1>21. Stored(txBuf, txLen', txDma, r + 1, f)
  <2>. DEFINE l2 == txLen'
  <2>1. /\ l2[Step(txDma, r, SEND_BD_CNT)] = Pieces
        /\ \A d \in TxBd : d # Step(txDma, r, SEND_BD_CNT) => l2[d] = txLen[d]
    BY <1>2, <1>9, Zenon DEF n
  <2>2. Holds(txBuf, Step(txDma, r, SEND_BD_CNT), f + r, Pieces)
    BY <1>2, <1>12, Zenon DEF n
  <2>3. r \in 0 .. SEND_BD_CNT - 1
    BY <1>2, Zenon DEF n
  <2>. HIDE DEF l2
  <2>4. Stored(txBuf, l2, txDma, r + 1, f)
    BY <1>2, <1>4, <1>14, <2>1, <2>2, <2>3, StoredPut, Zenon
  <2>. QED BY <2>4, Zenon DEF l2
<1>22. InLine'
  <2>1. Stored(txBuf', txLen', txDma', Cardinality(Busy'), Len(wire') + 1)
    BY <1>1, <1>11, <1>21, Zenon DEF f
  <2>2. \A u \in Thread : at'[u] = "copy" => frame'[u] = Gone'
    BY <1>6, Zenon
  <2>3. at'["tcpip"] = "queue" => frame'["tcpip"] = sent'
    <3>. SUFFICES ASSUME at'["tcpip"] = "queue" PROVE frame'["tcpip"] = sent'
      BY Zenon
    <3>1. t # "tcpip" /\ at["tcpip"] = "queue"
      BY <1>5, <1>7, Zenon
    <3>2. frame'["tcpip"] = frame["tcpip"]
      BY <1>3, <1>8, <3>1, Zenon
    <3>. QED BY <1>1, <3>1, <3>2, Zenon DEF TxOk, InLine
  <2>. QED BY <1>1, <1>7, <1>12, <2>1, <2>2, <2>3, Zenon DEF TxOk, InLine
<1>. QED BY <1>18, <1>19, <1>20, <1>22, Zenon DEF TxOk

\* The hardware sends the next frame.
LEMMA TxDmaSend == ASSUME TxOk, DmaSend PROVE TxOk'
<1>. DEFINE n == SEND_BD_CNT
            r == Cardinality(Busy)
            w == Len(wire)
            x == SubSeq(txBuf[txDma], 1, txLen[txDma])
<1>1. /\ ~txUsed[txDma] /\ wire' = Append(wire, x)
      /\ txUsed' = [txUsed EXCEPT ![txDma] = TRUE] /\ txDma' = (txDma + 1) % n
      /\ UNCHANGED <<txBuf, txLen, tx_ci, tx_bytes, hTxFifo, mutex, frame, copied, sent, at>>
  BY Zenon DEF DmaSend
<1>2. /\ txUsed \in [TxBd -> BOOLEAN] /\ txDma \in TxBd /\ tx_ci \in TxBd
      /\ txBuf \in [TxBd -> [Room -> Piece]] /\ wire \in Seq(Seq(Piece))
      /\ IsFiniteSet(Busy) /\ Arc(Busy, txDma, tx_ci, r, n)
  BY Zenon DEF TxOk, TxTypes, TxRing
<1>3. /\ n \in Nat \ {0} /\ TxBd = 0 .. n - 1 /\ 1 \in 0 .. n
      /\ r \in Nat /\ r \in 0 .. n /\ w \in Nat /\ w + 1 \in Nat
  BY RingSizes, TxNumbers DEF TxBd
<1>4. Busy' = Busy \ {txDma} /\ txDma \in Busy
  BY <1>1, <1>2, Zenon DEF Busy
<1>5. IsFiniteSet(Busy') /\ Cardinality(Busy') = r - 1
  BY <1>2, <1>4, FS_RemoveElement, Zenon
<1>6. Copying' = Copying
  BY <1>1, Zenon DEF Copying
<1>7. Stored(txBuf, txLen, txDma, r, w + 1)
  BY Zenon DEF TxOk, InLine
<1>8. Gone = w + r + (IF Copying THEN 1 ELSE 0)
  BY Zenon DEF Gone
<1>. HIDE DEF n, r
<1>9. txDma' = Step(txDma, 1, n)
  BY <1>1, <1>2, <1>3, Wrap, Zenon
<1>10. txDma' \in TxBd
  <2>1. Step(txDma, 1, n) \in 0 .. n - 1
    BY <1>2, <1>3, StepFacts, Zenon
  <2>. QED BY <1>2, <1>3, <1>9, <2>1, Zenon
<1>11. r > 0 /\ Arc(Busy', txDma', tx_ci, r - 1, n)
  <2>1. r > 0 /\ Arc(Busy \ {txDma}, Step(txDma, 1, n), tx_ci, r - 1, n)
    BY <1>2, <1>3, <1>4, ArcTake, Zenon
  <2>. QED BY <1>4, <1>9, <2>1, Zenon
<1>12. /\ txLen[txDma] = Pieces /\ Holds(txBuf, txDma, w + 1, Pieces)
       /\ Stored(txBuf, txLen, txDma', r - 1, (w + 1) + 1)
  <2>. DEFINE f == w + 1
  <2>1. r \in 1 .. SEND_BD_CNT /\ f \in Nat /\ Stored(txBuf, txLen, txDma, r, f)
    BY <1>3, <1>7, <1>11 DEF n
  <2>. HIDE DEF f
  <2>2. /\ txLen[txDma] = Pieces /\ Holds(txBuf, txDma, f, Pieces)
        /\ Stored(txBuf, txLen, Step(txDma, 1, SEND_BD_CNT), r - 1, f + 1)
    BY <1>2, <2>1, StoredTake, Zenon
  <2>. QED BY <1>9, <2>2, Zenon DEF f, n
<1>13. x = Whole(w + 1) /\ x \in Seq(Piece)
  <2>. DEFINE s == txBuf[txDma]
              f == w + 1
  <2>1. s \in [Room -> Piece] /\ f \in Nat /\ \A j \in 1 .. Pieces : s[j] = <<f, j>>
    BY <1>2, <1>3, <1>12, Zenon DEF Holds
  <2>. HIDE DEF s, f
  <2>2. SubSeq(s, 1, Pieces) = Whole(f) /\ Whole(f) \in Seq(Piece)
    BY <2>1, SendsWhole, Zenon
  <2>. QED BY <1>12, <2>2, Zenon DEF s, f
<1>. HIDE DEF x
<1>14. /\ wire' \in Seq(Seq(Piece)) /\ Len(wire') = w + 1 /\ wire'[w + 1] = x
       /\ \A i \in 1 .. w : wire'[i] = wire[i]
  BY <1>1, <1>2, <1>13
<1>. HIDE DEF w
<1>15. TxTypes'
  <2>1. txUsed' \in [TxBd -> BOOLEAN]
    BY <1>1, <1>2, Zenon
  <2>. QED BY <1>1, <1>10, <1>14, <2>1, Zenon DEF TxOk, TxTypes
<1>16. TxRing'
  BY <1>1, <1>5, <1>11, Zenon DEF TxRing, n
<1>17. OneSender'
  <2>1. txUsed[tx_ci] => txUsed'[tx_ci]
    BY <1>1, <1>2, Zenon
  <2>. QED BY <1>1, <1>6, <2>1, Zenon DEF TxOk, OneSender, IsSending
<1>18. Gone' = Gone
  <2>1. Gone' = (w + 1) + (r - 1) + (IF Copying THEN 1 ELSE 0)
    BY <1>5, <1>6, <1>14, Zenon DEF Gone
  <2>. QED BY <1>3, <1>8, <2>1
<1>19. InLine'
  <2>1. Stored(txBuf', txLen', txDma', Cardinality(Busy'), Len(wire') + 1)
    BY <1>1, <1>5, <1>12, <1>14, Zenon
  <2>2. \A i \in 1 .. Len(wire') : wire'[i] = Whole(i)
    <3>. SUFFICES ASSUME NEW i \in 1 .. w + 1 PROVE wire'[i] = Whole(i)
      BY <1>14, Zenon
    <3>1. CASE i = w + 1
      BY <1>13, <1>14, <3>1, Zenon
    <3>2. CASE i # w + 1
      <4>1. i \in 1 .. w
        BY <1>3, <3>2
      <4>2. wire[i] = Whole(i)
        BY <4>1, Zenon DEF TxOk, InLine, w
      <4>. QED BY <1>14, <4>1, <4>2, Zenon
    <3>. QED BY <3>1, <3>2, Zenon
  <2>. QED BY <1>1, <1>18, <2>1, <2>2, Zenon DEF TxOk, InLine
<1>. QED BY <1>15, <1>16, <1>17, <1>19, Zenon DEF TxOk

\* Nothing has been sent at first.
LEMMA TxInit == ASSUME Init PROVE TxOk
<1>1. Busy = {} /\ 0 \in TxBd /\ Thread = {"net", "tcpip"}
  BY RingSizes DEF Init, Busy, TxBd, Thread
<1>2. IsFiniteSet(Busy) /\ Cardinality(Busy) = 0
  BY <1>1, FS_EmptySet, Zenon
<1>3. Arc({}, 0, 0, 0, SEND_BD_CNT)
  BY RingSizes DEF Arc, Step
<1>4. TxTypes
  <2>1. at \in [Thread -> Place] /\ at["tcpip"] = "idle"
    BY DEF Init, Thread, Place
  <2>2. txBuf \in [TxBd -> [Room -> Piece]]
    BY Zenon DEF Init, Piece
  <2>3. 0 \in 0 .. Pieces
    BY RoomFacts
  <2>. QED BY <1>1, <2>1, <2>2, <2>3 DEF Init, TxTypes
<1>5. TxRing
  BY <1>1, <1>2, <1>3, Zenon DEF Init, TxRing
<1>6. ~Copying /\ at["net"] = "pend" /\ at["tcpip"] = "idle" /\ Len(wire) = 0 /\ Len(hTxFifo) = 0
  BY Zenon DEF Init, Copying
<1>7. OneSender
  BY <1>1, <1>6, Zenon DEF Init, OneSender, IsSending
<1>8. Gone = 0
  BY <1>2, <1>6 DEF Gone
<1>9. InLine
  <2>1. 1 .. 0 = {}
    OBVIOUS
  <2>2. Stored(txBuf, txLen, txDma, Cardinality(Busy), Len(wire) + 1)
    BY <1>2, <2>1 DEF Stored
  <2>3. \A t \in Thread : at[t] # "copy"
    BY <1>1, <1>6, Zenon
  <2>4. /\ \A i \in 1 .. Len(wire) : wire[i] = Whole(i)
        /\ \A i \in 1 .. Len(hTxFifo) : hTxFifo[i] = Gone + i
    BY <1>6, <2>1, Zenon
  <2>5. sent = Gone + Len(hTxFifo) + (IF at["tcpip"] = "queue" THEN 1 ELSE 0)
    BY <1>6, <1>8 DEF Init
  <2>. QED BY <1>6, <2>2, <2>3, <2>4, <2>5, Zenon DEF Init, InLine
<1>. QED BY <1>4, <1>5, <1>7, <1>9, Zenon DEF TxOk

(* As long as the two threads do not send at the same time, frames go out  *)
(* whole, in order and without a gap, for every size of the ring, of the   *)
(* queue and of the frames.                                                *)
THEOREM FramesInOrder == Spec => []TxInOrder
<1>1. Init => TxInv
  BY TxInit, Zenon DEF TxInv
<1>2. ASSUME TxInv, [Next]_vars PROVE TxInv'
  <2>. SUFFICES ASSUME ~overlap' PROVE TxOk'
    BY Zenon DEF TxInv
  <2>1. ~overlap /\ TxOk
    <3>1. overlap => overlap'
      BY <1>2, Zenon DEF Next, Arrive, GemInterrupt, NetTask, NetPend, NetCheck, NetReceive, NetAlloc,
         NetInput, NetFree, NetClear, NetTxReady, ReadPacket, MacWrite, MacSendFrame, Output, TcpipThread, WritePacket, DmaSend,
         vars, txVars
    <3>. QED BY <1>2, <3>1, Zenon DEF TxInv
  <2>2. /\ at \in [Thread -> Place] /\ "net" \in Thread /\ "tcpip" \in Thread
    BY <2>1, Zenon DEF TxOk, TxTypes, Thread
  <2>3. CASE Arrive \/ GemInterrupt \/ UNCHANGED vars
    <3>1. UNCHANGED txVars /\ at' = at
      BY <2>3, Zenon DEF Arrive, GemInterrupt, vars
    <3>. QED BY <2>1, <2>2, <3>1, TxQuiet, Zenon DEF txVars, caller
  <2>4. CASE NetPend \/ NetCheck \/ NetReceive \/ NetAlloc \/ NetInput \/ NetFree \/ NetClear
    <3>1. UNCHANGED <<txRing, hTxFifo, mutex, frame, copied, sent, wire>>
      BY <2>4, Zenon DEF NetPend, NetCheck, NetReceive, NetAlloc, NetInput, NetFree, NetClear, txVars,
         caller
    <3>2. /\ at["net"] # "copy"
          /\ \E p \in {"check", "receive", "pend", "ready", "alloc", "input", "drop", "clear"} :
                at' = [at EXCEPT !["net"] = p]
      BY <2>4, Zenon DEF NetPend, NetCheck, NetReceive, NetAlloc, NetInput, NetFree, NetClear,
         NetAfterSend, Go
    <3>3. at' \in [Thread -> Place] /\ at'["tcpip"] = at["tcpip"] /\ at'["net"] \notin {"copy", "pop"}
      BY <2>2, <3>2, Zenon DEF Place
    <3>. QED BY <2>1, <3>1, <3>2, <3>3, TxQuiet, Zenon
  <2>5. CASE NetTxReady
    <3>1. /\ UNCHANGED <<txRing, hTxFifo, mutex, frame, copied, sent, wire>> /\ at["net"] = "ready"
          /\ at' = [at EXCEPT !["net"] = IF txUsed[tx_ci] THEN "pop" ELSE NetAfterSend]
          /\ txUsed[tx_ci] => ~IsSending("tcpip")
      BY <2>5, Zenon DEF NetTxReady, caller, Go
    <3>2. /\ at' \in [Thread -> Place] /\ at'["tcpip"] = at["tcpip"] /\ at'["net"] # "copy"
          /\ at'["net"] = "pop" => txUsed[tx_ci]
      BY <2>2, <3>1, Zenon DEF Place, NetAfterSend
    <3>. QED BY <2>1, <3>1, <3>2, TxQuiet, Zenon
  <2>6. CASE ReadPacket
    BY <2>1, <2>6, TxReadPacket, Zenon
  <2>7. CASE Output
    BY <2>1, <2>7, TxOutput, Zenon
  <2>8. CASE WritePacket
    BY <2>1, <2>8, TxWritePacket, Zenon
  <2>9. CASE \E t \in Thread : MacWrite(t)
    BY <2>1, <2>9, TxMacWrite, Zenon
  <2>10. CASE \E t \in Thread : MacSendFrame(t)
    BY <2>1, <2>10, TxSendFrame, Zenon
  <2>11. CASE DmaSend
    BY <2>1, <2>11, TxDmaSend, Zenon
  <2>. QED BY <1>2, <2>2, <2>3, <2>4, <2>5, <2>6, <2>7, <2>8, <2>9, <2>10, <2>11, Zenon
           DEF Next, NetTask, TcpipThread
<1>3. TxInv => TxInOrder
  <2>. SUFFICES ASSUME TxOk PROVE wire = [i \in 1 .. Len(wire) |-> Whole(i)]
    BY Zenon DEF TxInv, TxInOrder
  <2>1. wire \in Seq(Seq(Piece)) /\ \A i \in 1 .. Len(wire) : wire[i] = Whole(i)
    BY Zenon DEF TxOk, TxTypes, InLine
  <2>2. wire = [i \in 1 .. Len(wire) |-> wire[i]]
    BY <2>1
  <2>. QED BY <2>1, <2>2, Zenon
<1>. QED BY <1>1, <1>2, <1>3, PTL DEF Spec

-----------------------------------------------------------------------------
(* The mode that the two ends negotiate is the one the PHY manager reads   *)
(* out of the registers.                                                   *)

Beats(S, m) == m \in S /\ \A n \in S \ {m} : Better(m, n)

\* bt_phy_generic_read_status finds a mode that is better than all others ...
LEMMA ResolveIsBest ==
    ASSUME NEW S \in SUBSET Mode, S # {}
    PROVE  Beats(S, Resolve(S))
<1>. DEFINE duplex(speed) == IF <<speed, "full">> \in S THEN "full" ELSE "half"
<1>0. \A m \in Mode : /\ m \in {<<10, "half">>, <<10, "full">>, <<100, "half">>,
                                <<100, "full">>, <<1000, "half">>, <<1000, "full">>}
  BY DEF Mode
<1>1. CASE S \cap Gigabit # {}
  BY <1>0, <1>1 DEF Resolve, Beats, Better, Gigabit, Mode
<1>2. CASE S \cap Gigabit = {} /\ \E m \in S : m[1] = 100
  BY <1>0, <1>2 DEF Resolve, Beats, Better, Gigabit, Mode
<1>3. CASE S \cap Gigabit = {} /\ ~(\E m \in S : m[1] = 100)
  BY <1>0, <1>3 DEF Resolve, Beats, Better, Gigabit, Mode
<1>. QED BY <1>1, <1>2, <1>3, Zenon

\* ... and there is only one.
LEMMA BestIsResolve ==
    ASSUME NEW S \in SUBSET Mode, S # {}
    PROVE  Best(S) = Resolve(S) /\ Best(S) \in S
<1>1. Beats(S, Resolve(S))
  BY ResolveIsBest, Zenon
<1>2. \E m \in S : \A n \in S \ {m} : Better(m, n)
  BY <1>1, Zenon DEF Beats
<1>3. Beats(S, Best(S))
  BY <1>2, Zenon DEF Beats, Best
<1>4. ASSUME NEW m, NEW n, Beats(S, m), Beats(S, n), m # n PROVE FALSE
  <2>1. m \in Mode /\ n \in Mode /\ Better(m, n) /\ Better(n, m)
    BY <1>4, Zenon DEF Beats
  <2>2. m = <<m[1], m[2]>> /\ n = <<n[1], n[2]>> /\ m[1] \in Nat /\ n[1] \in Nat
    BY <2>1 DEF Mode
  <2>3. m[1] = n[1] /\ m[2] = n[2]
    BY <2>1, <2>2 DEF Better
  <2>. QED BY <1>4, <2>2, <2>3, Zenon
<1>. QED BY <1>1, <1>3, <1>4, Zenon DEF Beats

-----------------------------------------------------------------------------
\* The link is up and did not go and come again since phy->link was read.
Steady == linkMode # NoLink /\ ~flapped

(* Which steps of phy_task, of BT_ConnectPHY and of BT_NetifRestartLink    *)
(* exclude each other.                                                     *)
Control ==
    /\ netifPhy => connect = "done"
    /\ eState \in {"STARTING", "RENEGOTIATE"} \/ todo = "RENEGOTIATE"
           => connect \in {"netif", "done"}
    /\ step \in {"sleep", "clock", "notify"} => todo = "DOWN"
    /\ step = "status" => todo \in {"DOWN", "UP"} /\ eState # "CHANGELINK"
    /\ step \in {"init", "half", "full"} => todo \in {"DOWN", "RENEGOTIATE"}
    /\ step \in {"init", "half", "full"} \/ (step = "set" /\ todo \in {"DOWN", "RENEGOTIATE"})
           => eState \in {"STARTING", "RENEGOTIATE"}
    /\ step = "set" => todo # "UP"
    /\ step = "set" /\ eState = "CHANGELINK" => todo \in {"up", "down"}
    /\ step = "notify" => eState # "CHANGELINK"
    /\ eState = "UP" => /\ step \in {"sleep", "clock", "notify"} => link
                        /\ step = "status" => todo = "UP"
                        /\ step = "set" => todo = "CHANGELINK"

(* What is surely masked, in the three steps of bt_phy_generic_init and    *)
(* after them.                                                             *)
Masked ==
    /\ sure \subseteq advertising_mask
    /\ step # "init" => advertising \cap sure = {}
    /\ step = "full" => <<1000, "half">> \notin val \cap sure
    /\ step \notin {"init", "half", "full"} => ctrl1000 \cap sure = {}

(* The link is at the best mode that both ends advertise, but for the      *)
(* moment between the two initialisations of the PHY.                      *)
AtBest ==
    \/ linkMode = NoLink
    \/ step = "set" /\ todo = "RENEGOTIATE"
    \/ step = "clock" /\ eState = "RENEGOTIATE"
    \/ Advertised \cap partner # {} /\ linkMode = Best(Advertised \cap partner)

\* The mode on its way from the registers to phy->speed and phy->duplex ...
ModeRead ==
    (step = "set" /\ todo = "CHANGELINK") \/ eState = "CHANGELINK"
        => (Steady /\ link => mode = linkMode)

\* ... and from there to the MAC.
MacSet ==
    (step = "set" /\ todo \in {"up", "down"}) \/ eState = "UP"
        => (Steady /\ link => macMode = linkMode /\ macLink)

\* The inductive invariant.
LinkInv == LinkTypeOK /\ Control /\ Masked /\ AtBest /\ ModeRead /\ MacSet

\* What both ends advertise is a set of modes.
LEMMA CommonModes == ASSUME LinkTypeOK PROVE Advertised \cap partner \in SUBSET Mode
BY Modes DEF LinkTypeOK, Advertised, Gigabit

\* The two ends negotiate.
LEMMA NegotiateKeeps == ASSUME LinkInv, Negotiate PROVE LinkInv'
<1>1. /\ Best(Advertised \cap partner) \in Mode
      /\ Advertised' = Advertised /\ partner' = partner /\ Advertised \cap partner # {}
      /\ linkMode' = Best(Advertised \cap partner)
  BY CommonModes, BestIsResolve, Zenon DEF LinkInv, Negotiate, Advertised
<1>2. LinkTypeOK'
  BY <1>1, SMT DEF LinkInv, LinkTypeOK, Negotiate, phy, mac, netif, app
<1>3. Control' /\ Masked'
  BY SMT DEF LinkInv, Control, Masked, Negotiate, phy, mac, netif, app
<1>4. AtBest'
  BY <1>1, Zenon DEF AtBest
<1>5. ModeRead' /\ MacSet'
  BY Zenon DEF LinkInv, LinkTypeOK, ModeRead, MacSet, Steady, Negotiate, phy, mac
<1>. QED BY <1>2, <1>3, <1>4, <1>5, Zenon DEF LinkInv

\* The cable is pulled out or plugged in.
LEMMA CableKeeps ==
    ASSUME LinkInv, Cable
    PROVE  LinkInv'
<1>1. LinkTypeOK'
  BY LinkBounds, SMT DEF LinkInv, LinkTypeOK, Cable, phy, mac, netif, app, ghosts
<1>2. Control'
  BY Zenon DEF LinkInv, LinkTypeOK, Control, Cable, phy, app
<1>3. Masked'
  BY SMT DEF LinkInv, Masked, Cable, phy, app, ghosts
<1>4. AtBest'
  BY Zenon DEF LinkInv, Control, AtBest, Advertised, Cable
<1>5. ModeRead' /\ MacSet'
  BY Zenon DEF LinkInv, LinkTypeOK, Control, ModeRead, MacSet, Steady, Cable, phy, mac, ghosts
<1>. QED BY <1>1, <1>2, <1>3, <1>4, <1>5, Zenon DEF LinkInv

\* phy_task sleeps its second.
LEMMA PollKeeps ==
    ASSUME LinkInv, Poll
    PROVE  LinkInv'
<1>1. LinkTypeOK'
  BY SMT DEF LinkInv, LinkTypeOK, Poll, hw, phy, mac, netif, app, ghosts
<1>2. Control'
  BY Zenon DEF LinkInv, LinkTypeOK, Control, Poll, phy, app
<1>3. Masked'
  BY SMT DEF LinkInv, Masked, Poll, phy, app, ghosts
<1>4. AtBest'
  BY Zenon DEF LinkInv, Control, AtBest, Advertised, Poll, hw
<1>5. ModeRead' /\ MacSet'
  BY Zenon DEF LinkInv, LinkTypeOK, Control, ModeRead, MacSet, Steady, Poll, hw, phy, mac, ghosts
<1>. QED BY <1>1, <1>2, <1>3, <1>4, <1>5, Zenon DEF LinkInv

\* phy_sm reads the link bit.
LEMMA ReadLinkKeeps ==
    ASSUME LinkInv, ReadLink
    PROVE  LinkInv'
<1>1. LinkTypeOK'
  BY SMT DEF LinkInv, LinkTypeOK, ReadLink, hw, mac, netif, app
<1>2. Control'
  BY Zenon DEF LinkInv, LinkTypeOK, Control, ReadLink, app
<1>3. Masked'
  BY SMT DEF LinkInv, Masked, ReadLink, app
<1>4. AtBest'
  BY Zenon DEF LinkInv, Control, AtBest, Advertised, ReadLink, hw
<1>5. ModeRead' /\ MacSet'
  BY Zenon DEF LinkInv, LinkTypeOK, Control, ModeRead, MacSet, Steady, ReadLink, hw, mac
<1>. QED BY <1>1, <1>2, <1>3, <1>4, <1>5, Zenon DEF LinkInv

\* phy_sm reads the mode and finds out whether the link changed.
LEMMA ReadStatusKeeps ==
    ASSUME LinkInv, ReadStatus
    PROVE  LinkInv'
<1>1. Resolve(Advertised \cap partner) \in Mode
  BY DEF Resolve, Mode
<1>2. linkMode # NoLink => linkMode = Resolve(Advertised \cap partner)
  BY CommonModes, BestIsResolve, Zenon DEF LinkInv, AtBest, ReadStatus
<1>3. LinkTypeOK'
  BY <1>1, SMT DEF LinkInv, LinkTypeOK, ReadStatus, hw, mac, netif, app, ghosts
<1>4. Control' /\ Masked'
  BY SMT DEF LinkInv, LinkTypeOK, Control, Masked, ReadStatus, LinkChanged, hw, mac, netif, app, ghosts
<1>5. AtBest'
  BY Zenon DEF LinkInv, AtBest, Advertised, ReadStatus, hw
<1>6. ModeRead' /\ MacSet'
  BY <1>2, Zenon DEF LinkInv, LinkTypeOK, Control, ModeRead, MacSet, Steady, ReadStatus, LinkChanged,
              hw, mac, ghosts
<1>. QED BY <1>3, <1>4, <1>5, <1>6, Zenon DEF LinkInv

\* phy_init begins: the table of the Marvell driver.
LEMMA MarvellInitKeeps ==
    ASSUME LinkInv, Starting \/ Renegotiate
    PROVE  LinkInv'
<1>1. LinkTypeOK'
  BY Modes, SMT DEF LinkInv, LinkTypeOK, Starting, Renegotiate, MarvellInit, Gigabits, phy, mac, netif, app
<1>2. Control'
  <2>1. /\ step = "clock" /\ eState \in {"STARTING", "RENEGOTIATE"}
        /\ step' = "init" /\ todo' \in {"DOWN", "RENEGOTIATE"}
        /\ eState' = eState /\ connect' = connect /\ netifPhy' = netifPhy
    BY Zenon DEF Starting, Renegotiate, MarvellInit, app
  <2>2. connect \in {"netif", "done"} /\ (netifPhy => connect = "done")
    BY <2>1, Zenon DEF LinkInv, Control
  <2>. QED BY <2>1, <2>2, SMT DEF Control
<1>3. Masked'
  BY SMT DEF LinkInv, Masked, Starting, Renegotiate, MarvellInit, Gigabits, phy, app
<1>4. AtBest'
  BY Zenon DEF AtBest, Starting, Renegotiate, MarvellInit
<1>5. ModeRead' /\ MacSet'
  BY Zenon DEF LinkInv, LinkTypeOK, Control, ModeRead, MacSet, Steady, Starting, Renegotiate, MarvellInit, Gigabits, phy, mac
<1>. QED BY <1>1, <1>2, <1>3, <1>4, <1>5, Zenon DEF LinkInv

\* phy->advertising is computed.
LEMMA AdvertiseKeeps ==
    ASSUME LinkInv, Advertise
    PROVE  LinkInv'
<1>1. LinkTypeOK'
  BY Modes, SMT DEF LinkInv, LinkTypeOK, Advertise, hw, mac, netif, app, ghosts
<1>2. Control'
  BY Zenon DEF LinkInv, LinkTypeOK, Control, Advertise, app
<1>3. Masked'
  BY SMT DEF LinkInv, Masked, Advertise, app, ghosts
<1>4. AtBest'
  BY Zenon DEF LinkInv, Control, AtBest, Advertised, Advertise, hw
<1>5. ModeRead' /\ MacSet'
  BY Zenon DEF LinkInv, LinkTypeOK, Control, ModeRead, MacSet, Steady, Advertise, hw, mac, ghosts
<1>. QED BY <1>1, <1>2, <1>3, <1>4, <1>5, Zenon DEF LinkInv

\* The half duplex mode is masked ...
LEMMA MaskHalfKeeps ==
    ASSUME LinkInv, MaskHalf
    PROVE  LinkInv'
<1>1. LinkTypeOK'
  BY Modes, SMT DEF LinkInv, LinkTypeOK, MaskHalf, hw, mac, netif, app, ghosts
<1>2. Control'
  BY Zenon DEF LinkInv, LinkTypeOK, Control, MaskHalf, app
<1>3. Masked'
  BY SMT DEF LinkInv, Masked, MaskHalf, app, ghosts
<1>4. AtBest'
  BY Zenon DEF LinkInv, Control, AtBest, Advertised, MaskHalf, hw
<1>5. ModeRead' /\ MacSet'
  BY Zenon DEF LinkInv, LinkTypeOK, Control, ModeRead, MacSet, Steady, MaskHalf, hw, mac, ghosts
<1>. QED BY <1>1, <1>2, <1>3, <1>4, <1>5, Zenon DEF LinkInv

\* ... and the full duplex mode, and the register is written.
LEMMA MaskFullKeeps ==
    ASSUME LinkInv, MaskFull
    PROVE  LinkInv'
<1>1. LinkTypeOK'
  BY Modes, SMT DEF LinkInv, LinkTypeOK, MaskFull, FullMasked, mac, netif, app, ghosts
<1>2. Control'
  BY Zenon DEF LinkInv, LinkTypeOK, Control, MaskFull, app
<1>3. ctrl1000' \cap sure' = {}
  <2>. SUFFICES ASSUME NEW m \in val, m \in sure, m \notin advertising_mask \cap {<<1000, "full">>}
                PROVE  FALSE
    BY SMT DEF MaskFull, FullMasked, ghosts
  <2>1. m = <<1000, "half">> \/ m = <<1000, "full">>
    BY SMT DEF LinkInv, LinkTypeOK, Gigabit, Mode
  <2>. QED BY <2>1, SMT DEF LinkInv, Masked, MaskFull
<1>4. Masked'
  BY <1>3, SMT DEF LinkInv, Masked, MaskFull, app, ghosts
<1>5. AtBest'
  BY Zenon DEF LinkInv, Control, AtBest, MaskFull
<1>6. ModeRead' /\ MacSet'
  BY Zenon DEF LinkInv, LinkTypeOK, Control, ModeRead, MacSet, Steady, MaskFull, mac, ghosts
<1>. QED BY <1>1, <1>2, <1>4, <1>5, <1>6, Zenon DEF LinkInv

\* phy_sm assigns eState.
LEMMA SetStateKeeps ==
    ASSUME LinkInv, SetState
    PROVE  LinkInv'
<1>1. LinkTypeOK'
  BY SMT DEF LinkInv, LinkTypeOK, Control, SetState, hw, phy, mac, netif, app, ghosts
<1>2. Control'
  BY Zenon DEF LinkInv, LinkTypeOK, Control, SetState, phy, app
<1>3. Masked'
  BY SMT DEF LinkInv, Masked, SetState, phy, app, ghosts
<1>4. AtBest'
  BY Zenon DEF LinkInv, Control, AtBest, Advertised, SetState, hw
<1>5. ModeRead' /\ MacSet'
  BY Zenon DEF LinkInv, LinkTypeOK, Control, ModeRead, MacSet, Steady, SetState, hw, phy, mac, ghosts
<1>. QED BY <1>1, <1>2, <1>3, <1>4, <1>5, Zenon DEF LinkInv

\* phy_sm in CHANGELINK: mac_adjust_link ...
LEMMA ChangeLinkKeeps ==
    ASSUME LinkInv, ChangeLink
    PROVE  LinkInv'
<1>1. LinkTypeOK'
  BY SMT DEF LinkInv, LinkTypeOK, ChangeLink, MacAdjustLink, hw, phy, mac, netif, app, ghosts
<1>2. Control'
  BY Zenon DEF LinkInv, LinkTypeOK, Control, ChangeLink, MacAdjustLink, phy, app
<1>3. Masked'
  BY SMT DEF LinkInv, Masked, ChangeLink, MacAdjustLink, phy, app, ghosts
<1>4. AtBest'
  BY Zenon DEF LinkInv, Control, AtBest, Advertised, ChangeLink, MacAdjustLink, hw
<1>5. ModeRead' /\ MacSet'
  BY Zenon DEF LinkInv, LinkTypeOK, Control, ModeRead, MacSet, Steady, ChangeLink, MacAdjustLink, hw, phy, mac, ghosts
<1>. QED BY <1>1, <1>2, <1>3, <1>4, <1>5, Zenon DEF LinkInv

\* ... the new state ...
LEMMA SetLinkStateKeeps ==
    ASSUME LinkInv, SetLinkState
    PROVE  LinkInv'
<1>1. LinkTypeOK'
  BY SMT DEF LinkInv, LinkTypeOK, SetLinkState, hw, phy, mac, netif, app, ghosts
<1>2. Control'
  BY Zenon DEF LinkInv, LinkTypeOK, Control, SetLinkState, phy, app
<1>3. Masked'
  BY SMT DEF LinkInv, Masked, SetLinkState, phy, app, ghosts
<1>4. AtBest'
  BY Zenon DEF LinkInv, Control, AtBest, Advertised, SetLinkState, hw
<1>5. ModeRead' /\ MacSet'
  BY Zenon DEF LinkInv, LinkTypeOK, Control, ModeRead, MacSet, Steady, SetLinkState, hw, phy, mac, ghosts
<1>. QED BY <1>1, <1>2, <1>3, <1>4, <1>5, Zenon DEF LinkInv

\* ... and bt_netif_adjust_link.
LEMMA NotifyKeeps ==
    ASSUME LinkInv, Notify
    PROVE  LinkInv'
<1>1. LinkTypeOK'
  <2>1. netifUp' \in BOOLEAN /\ manual' \in BOOLEAN /\ unheard' \in BOOLEAN
    BY Zenon DEF LinkInv, LinkTypeOK, Notify
  <2>. QED BY <2>1, SMT DEF LinkInv, LinkTypeOK, Notify, hw, phy, mac, app
<1>2. Control'
  BY Zenon DEF LinkInv, LinkTypeOK, Control, Notify, phy, app
<1>3. Masked'
  BY SMT DEF LinkInv, Masked, Notify, phy, app
<1>4. AtBest'
  BY Zenon DEF LinkInv, Control, AtBest, Advertised, Notify, hw
<1>5. ModeRead' /\ MacSet'
  BY Zenon DEF LinkInv, LinkTypeOK, Control, ModeRead, MacSet, Steady, Notify, hw, phy, mac
<1>. QED BY <1>1, <1>2, <1>3, <1>4, <1>5, Zenon DEF LinkInv

\* BT_ConnectPHY, beside phy_task.
LEMMA ConnectPHYKeeps ==
    ASSUME LinkInv, ConnectPHY
    PROVE  LinkInv'
<1>1. LinkTypeOK'
  <2>1. /\ connect' \in {"start", "netif", "done"} /\ active_mac' \in BOOLEAN
        /\ netifPhy' \in BOOLEAN
        /\ eState' \in {"DOWN", "STARTING", "UP", "RENEGOTIATE", "CHANGELINK"}
    BY Zenon DEF LinkInv, LinkTypeOK, ConnectPHY
  <2>. QED BY <2>1, SMT DEF LinkInv, LinkTypeOK, ConnectPHY, hw, phy, mac, netif, ghosts
<1>2. Control'
  BY SMT DEF LinkInv, LinkTypeOK, Control, ConnectPHY, phy
<1>3. Masked'
  BY SMT DEF LinkInv, Masked, ConnectPHY, phy, ghosts
<1>4. AtBest'
  BY Zenon DEF LinkInv, Control, AtBest, Advertised, ConnectPHY, hw
<1>5. ModeRead' /\ MacSet'
  BY Zenon DEF LinkInv, LinkTypeOK, Control, ModeRead, MacSet, Steady, ConnectPHY, hw, phy, mac, ghosts
<1>. QED BY <1>1, <1>2, <1>3, <1>4, <1>5, Zenon DEF LinkInv

\* BT_NetifConfigureLink, beside phy_task.
LEMMA ConfigureLinkKeeps ==
    ASSUME LinkInv, NEW mask \in Masks, ConfigureLink(mask)
    PROVE  LinkInv'
<1>1. LinkTypeOK'
  BY Modes, LinkBounds, SMT DEF LinkInv, LinkTypeOK, ConfigureLink, Call, hw, phy, mac, netif
<1>2. Control'
  BY Zenon DEF LinkInv, LinkTypeOK, Control, ConfigureLink, Call, phy
<1>3. Masked'
  BY SMT DEF LinkInv, Masked, ConfigureLink, Call, phy
<1>4. AtBest'
  BY Zenon DEF LinkInv, Control, AtBest, Advertised, ConfigureLink, Call, hw
<1>5. ModeRead' /\ MacSet'
  BY Zenon DEF LinkInv, LinkTypeOK, Control, ModeRead, MacSet, Steady, ConfigureLink, Call, hw, phy, mac
<1>. QED BY <1>1, <1>2, <1>3, <1>4, <1>5, Zenon DEF LinkInv

\* BT_NetifRestartLink, beside phy_task.
LEMMA RestartLinkKeeps ==
    ASSUME LinkInv, RestartLink
    PROVE  LinkInv'
<1>1. LinkTypeOK'
  BY LinkBounds, SMT DEF LinkInv, LinkTypeOK, RestartLink, Call, hw, phy, mac, netif, ghosts
<1>2. Control'
  BY Zenon DEF LinkInv, LinkTypeOK, Control, RestartLink, Call, phy
<1>3. Masked'
  BY SMT DEF LinkInv, Masked, RestartLink, Call, phy, ghosts
<1>4. AtBest'
  BY Zenon DEF LinkInv, Control, AtBest, Advertised, RestartLink, Call, hw
<1>5. ModeRead' /\ MacSet'
  BY Zenon DEF LinkInv, LinkTypeOK, Control, ModeRead, MacSet, Steady, RestartLink, Call, hw, phy, mac, ghosts
<1>. QED BY <1>1, <1>2, <1>3, <1>4, <1>5, Zenon DEF LinkInv

\* BT_StartNetif and BT_StopNetif, beside phy_task.
LEMMA StartStopNetifKeeps ==
    ASSUME LinkInv, NEW up \in BOOLEAN, StartStopNetif(up)
    PROVE  LinkInv'
<1>1. LinkTypeOK'
  BY LinkBounds, SMT DEF LinkInv, LinkTypeOK, StartStopNetif, Call, hw, phy, mac, ghosts
<1>2. Control'
  BY Zenon DEF LinkInv, LinkTypeOK, Control, StartStopNetif, Call, phy
<1>3. Masked'
  BY SMT DEF LinkInv, Masked, StartStopNetif, Call, phy, ghosts
<1>4. AtBest'
  BY Zenon DEF LinkInv, Control, AtBest, Advertised, StartStopNetif, Call, hw
<1>5. ModeRead' /\ MacSet'
  BY Zenon DEF LinkInv, LinkTypeOK, Control, ModeRead, MacSet, Steady, StartStopNetif, Call, hw, phy, mac, ghosts
<1>. QED BY <1>1, <1>2, <1>3, <1>4, <1>5, Zenon DEF LinkInv

-----------------------------------------------------------------------------
\* The invariant holds throughout.
LEMMA LinkInvariance == LinkSpec => []LinkInv
<1>1. LinkInit => LinkInv
  <2>. SUFFICES ASSUME LinkInit PROVE LinkInv
    BY Zenon
  <2>1. LinkTypeOK
    <3>1. /\ ctrl1000 \subseteq Gigabit /\ val \subseteq Gigabit /\ sure \subseteq Mode
          /\ advertising \subseteq Mode /\ advertising_mask \subseteq Mode
      BY Modes, Zenon DEF LinkInit, Gigabits
    <3>2. changes \in 0 .. CableChanges /\ calls \in 0 .. Calls
      BY LinkBounds DEF LinkInit
    <3>3. linkMode = NoLink /\ mode = NoLink /\ macMode = NoLink
      BY Zenon DEF LinkInit
    <3>. QED BY <3>1, <3>2, <3>3, Zenon DEF LinkInit, LinkTypeOK
  <2>2. Control
    BY SMT DEF LinkInit, Control
  <2>4. Masked /\ AtBest
    BY Zenon DEF LinkInit, Masked, AtBest
  <2>3. ModeRead /\ MacSet
    BY Zenon DEF LinkInit, ModeRead, MacSet
  <2>. QED BY <2>1, <2>2, <2>3, <2>4, Zenon DEF LinkInv
<1>2. LinkInv /\ [LinkNext]_linkVars => LinkInv'
  <2>. SUFFICES ASSUME LinkInv, [LinkNext]_linkVars PROVE LinkInv'
    BY Zenon
  <2>1. CASE UNCHANGED linkVars
    <3>0. /\ UNCHANGED <<partner, linkMode, changes, ctrl1000, eState, link, mode, advertising, val>>
          /\ UNCHANGED <<step, todo, macMode, macLink, netifUp, manual, active_mac, netifPhy>>
          /\ UNCHANGED <<connect, calls, advertising_mask, sure, flapped, restarted, unheard>>
      BY <2>1, Zenon DEF linkVars, hw, phy, mac, netif, app, ghosts
    <3>1. LinkTypeOK'
      BY <3>0, SMT DEF LinkInv, LinkTypeOK
    <3>3. Control'
      BY <3>0, SMT DEF LinkInv, Control
    <3>4. Masked'
      BY <3>0, SMT DEF LinkInv, Masked
    <3>2. AtBest' /\ ModeRead' /\ MacSet'
      BY <3>0, Zenon DEF LinkInv, AtBest, ModeRead, MacSet, Steady, Advertised
    <3>. QED BY <3>1, <3>2, <3>3, <3>4, Zenon DEF LinkInv
  <2>2. CASE PhyTask
    BY <2>2, PollKeeps, ReadLinkKeeps, ReadStatusKeeps, MarvellInitKeeps, AdvertiseKeeps, MaskHalfKeeps,
       MaskFullKeeps, SetStateKeeps, ChangeLinkKeeps, SetLinkStateKeeps, NotifyKeeps, Zenon DEF PhyTask
  <2>. QED BY <2>1, <2>2, NegotiateKeeps, CableKeeps, ConnectPHYKeeps, RestartLinkKeeps,
              ConfigureLinkKeeps, StartStopNetifKeeps, Zenon DEF LinkNext
<1>. QED BY <1>1, <1>2, PTL DEF LinkSpec

(* Whatever phy_task, BT_ConnectPHY, the application's calls and the cable *)
(* do in between, the MAC runs in the mode of the link when phy_task       *)
(* sleeps with the PHY UP, unless the link flapped.                        *)
THEOREM MacFollowsLink == LinkSpec => []MacMatches
<1>1. LinkInv => MacMatches
  BY Zenon DEF LinkInv, LinkTypeOK, Control, MacSet, Steady, MacMatches
<1>. QED BY <1>1, LinkInvariance, PTL

(* A gigabit mode that was masked before phy_init began and all the time   *)
(* since is not in use when phy_task sleeps, although marvell_phy_init     *)
(* advertises it for a while and bt_phy_generic_init reads the mask three  *)
(* times.                                                                  *)
THEOREM MaskKept == LinkSpec => []MaskedModeUnused
<1>1. ASSUME LinkInv PROVE MaskedModeUnused
  <2>. SUFFICES ASSUME step = "sleep" PROVE linkMode \notin sure \cap Gigabit /\ advertising \cap sure = {}
    BY Zenon DEF MaskedModeUnused
  <2>1. advertising \cap sure = {} /\ ctrl1000 \cap sure = {}
    BY <1>1, SMT DEF LinkInv, Masked
  <2>2. ASSUME linkMode \in sure \cap Gigabit PROVE FALSE
    <3>1. linkMode # NoLink
      BY <2>2 DEF Gigabit, NoLink, Mode
    <3>2. linkMode \in Advertised
      BY <1>1, <3>1, CommonModes, BestIsResolve, Zenon DEF LinkInv, AtBest
    <3>. QED BY <2>1, <2>2, <3>2, Zenon DEF Advertised
  <2>. QED BY <2>1, <2>2, Zenon
<1>. QED BY <1>1, LinkInvariance, PTL
=============================================================================
