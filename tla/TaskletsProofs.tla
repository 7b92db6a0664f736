--------------------------- MODULE TaskletsProofs ---------------------------
(***************************************************************************)
(* For any number of threads, soft interrupts and tasklets: no soft        *)
(* interrupt is left pending while the dispatcher sleeps, tasklets use     *)
(* soft interrupts as SoftIRQ describes, and their lists stay lists.       *)
(***************************************************************************)
EXTENDS Tasklets, TLAPS

(* The lowest bit of a word that is not zero is a bit of it.  CHOOSE needs *)
(* the least element to exist: every nonempty set of IRQ has one.          *)
LEMMA LowestIn ==
    ASSUME NEW S \in SUBSET Queue, S # {}
    PROVE  Lowest(S) \in S
<1>1. \E i \in S : \A j \in S : i <= j
  <2>1. \A j \in S : j = 0 \/ j = 1
    BY Zenon DEF Queue, BT_SOFTIRQ_HI, BT_SOFTIRQ_TASKLET
  <2>2. CASE 0 \in S
    BY <2>1, <2>2
  <2>3. CASE 0 \notin S
    BY <2>1, <2>3
  <2> QED
    BY <2>2, <2>3, Zenon
<1> QED
  BY <1>1, Zenon DEF Lowest

-----------------------------------------------------------------------------
\* The lowest soft interrupt exists: BT_CONFIG_SOFTIRQ_MAX is not zero.
LEMMA ZeroIsIRQ == 0 \in IRQ
BY SoftIRQMaxNat DEF IRQ

\* The inductive invariant of the soft interrupts.
SoftIRQInv == SoftIRQTypeOK /\ NoStrandedBit

(* Each step of a thread, an interrupt handler or the dispatcher keeps the *)
(* types and leaves no bit behind.                                         *)
LEMMA SoftIRQStep ==
    ASSUME SoftIRQInv, [SoftIRQNext]_softirqVars
    PROVE  SoftIRQInv'
<1> USE SoftIRQMaxNat DEF SoftIRQInv
<1>1. ASSUME NEW t \in Thread, NEW irq \in Argument, RaiseLoad(t, irq) PROVE SoftIRQInv'
  <2>1. irq \in IRQ
    BY <1>1 DEF RaiseLoad, Argument, IRQ
  <2>2. SoftIRQTypeOK'
    BY <1>1, <2>1, Zenon DEF RaiseLoad, SoftIRQTypeOK, dispVars
  <2>3. NoStrandedBit'
    BY <1>1, Zenon DEF RaiseLoad, SoftIRQTypeOK, NoStrandedBit, dispVars
  <2> QED
    BY <2>2, <2>3, Zenon
<1>2. ASSUME NEW t \in Thread, RaiseStore(t) PROVE SoftIRQInv'
  <2>1. SoftIRQTypeOK' /\ raise'[t].pc = "release"
    BY <1>2, ZeroIsIRQ, Zenon DEF RaiseStore, SoftIRQTypeOK, Releasing, dispVars
  <2> QED
    BY <2>1, Zenon DEF NoStrandedBit
<1>3. ASSUME NEW t \in Thread, RaiseRelease(t) PROVE SoftIRQInv'
  BY <1>3, ZeroIsIRQ, Zenon DEF RaiseRelease, SoftIRQTypeOK, NoStrandedBit, NotRaising, dispVars
<1>4. ASSUME NEW irq \in Argument, RaiseFromISR(irq) PROVE SoftIRQInv'
  BY <1>4 DEF RaiseFromISR, SoftIRQTypeOK, NoStrandedBit, Argument, IRQ, dispVars
<1>5. CASE DispTake
  BY <1>5, Zenon DEF DispTake, DispPend, DispLoad, DispClear, SoftIRQTypeOK, NoStrandedBit
<1>6. CASE DispCall \/ DispReturn
  BY <1>6, Zenon DEF DispCall, DispReturn, SoftIRQTypeOK, NoStrandedBit
<1>7. CASE UNCHANGED softirqVars
  BY <1>7, Zenon DEF softirqVars, SoftIRQTypeOK, NoStrandedBit
<1> QED
  BY <1>1, <1>2, <1>3, <1>4, <1>5, <1>6, <1>7, Zenon DEF SoftIRQNext, RaiseStep

(* The state bt_softirq_init leaves behind.                                *)
LEMMA SoftIRQStart == SoftIRQInit => SoftIRQInv
<1> SUFFICES ASSUME SoftIRQInit PROVE SoftIRQInv
  BY Zenon
<1>1. raise \in [Thread -> [pc : {"idle", "store", "release"}, irq : IRQ, loaded : SUBSET IRQ]]
  <2>1. NotRaising \in [pc : {"idle", "store", "release"}, irq : IRQ, loaded : SUBSET IRQ]
    BY ZeroIsIRQ, Zenon DEF NotRaising
  <2> QED
    BY <2>1, Zenon DEF SoftIRQInit
<1>2. SoftIRQTypeOK
  BY <1>1, Zenon DEF SoftIRQInit, SoftIRQTypeOK
<1>3. NoStrandedBit
  BY Zenon DEF SoftIRQInit, NoStrandedBit
<1> QED
  BY <1>2, <1>3, Zenon DEF SoftIRQInv

(* g_ulPending is never left non-zero with the dispatcher asleep, whatever *)
(* threads and interrupt handlers raise and whatever updates they lose.    *)
THEOREM NeverStranded == SoftIRQSpec => [](SoftIRQTypeOK /\ NoStrandedBit)
<1> QED
  BY SoftIRQStart, SoftIRQStep, PTL DEF SoftIRQSpec, SoftIRQInv

-----------------------------------------------------------------------------
(* Tasklets use soft interrupts as SoftIRQ describes them: every step is a *)
(* step of SoftIRQ or leaves its variables alone.                          *)
LEMMA TaskletStepIsSoftIRQStep ==
    ASSUME TypeOK, [Next]_vars
    PROVE  [SoftIRQNext]_softirqVars
<1>0. Queue \subseteq Argument
  BY TwoSoftIRQs, SoftIRQMaxNat DEF Queue, BT_SOFTIRQ_HI, BT_SOFTIRQ_TASKLET, Argument
<1>1. ASSUME NEW t \in Thread, NEW x \in Tasklet, NEW q \in Queue, TaskletSchedule(t, x, q)
      PROVE  UNCHANGED softirqVars
  BY <1>1, Zenon DEF TaskletSchedule
<1>2. ASSUME NEW t \in Thread, ThreadStep(t) PROVE SoftIRQNext
  <2>1. CASE TaskletRaise(t)
    <3>1. PICK q \in todo[t] : RaiseLoad(t, q)
      BY <2>1, Zenon DEF TaskletRaise
    <3>2. q \in Argument
      BY <1>0, <3>1, Zenon DEF TypeOK
    <3> QED
      BY <3>1, <3>2, Zenon DEF SoftIRQNext
  <2>2. CASE RaiseStep(t)
    BY <2>2, Zenon DEF SoftIRQNext
  <2> QED
    BY <1>2, <2>1, <2>2, Zenon DEF ThreadStep
<1>3. ASSUME NEW x \in Tasklet, NEW q \in Queue, TaskletScheduleFromISR(x, q)
      PROVE  SoftIRQNext
  BY <1>0, <1>3, Zenon DEF TaskletScheduleFromISR, SoftIRQNext
<1>4. CASE DispatcherStep
  BY <1>4, Zenon DEF DispatcherStep, ActionTake, ActionStart, ActionUnlink, ActionIdle,
              ActionReturn, SoftIRQNext
<1>5. CASE UNCHANGED vars
  BY <1>5, Zenon DEF vars
<1> QED
  BY <1>1, <1>2, <1>3, <1>4, <1>5, Zenon DEF Next

-----------------------------------------------------------------------------
(* What Push does: nothing, or x becomes the new head of q with the old    *)
(* head behind it, whether pNext was written or not.                       *)
LEMMA PushEffect ==
    ASSUME IInv, NEW x \in Tasklet, NEW q \in Queue, Push(x, q)
    PROVE  \/ UNCHANGED <<eState, pNext, head>>
           \/ /\ x \notin Scheduled /\ eState[x] = "idle"
              /\ eState' = [eState EXCEPT ![x] = "scheduled"]
              /\ pNext' = [pNext EXCEPT ![x] = head[q]]
              /\ head' = [head EXCEPT ![q] = x]
BY DEF IInv, TypeOK, IdleUnlinked, Push, Scheduled

(* Push keeps the types, and runs no tasklet.                              *)
LEMMA PushType ==
    ASSUME IInv, NEW x \in Tasklet, NEW q \in Queue, Push(x, q)
    PROVE  /\ eState' \in [Tasklet -> {"idle", "scheduled", "running"}]
           /\ pNext' \in [Tasklet -> Tasklet \cup {NULL}]
           /\ head' \in [Queue -> Tasklet \cup {NULL}]
           /\ \A y \in Tasklet : eState'[y] = "running" <=> run = y
<1>1. CASE UNCHANGED <<eState, pNext, head>>
  BY <1>1, Zenon DEF IInv, TypeOK
<1>2. CASE ~UNCHANGED <<eState, pNext, head>>
  BY <1>2, PushEffect DEF IInv, TypeOK
<1> QED
  BY <1>1, <1>2, Zenon

(* Push keeps the lists lists.                                             *)
LEMMA PushLists ==
    ASSUME IInv, NEW x \in Tasklet, NEW q \in Queue, Push(x, q), UNCHANGED <<cur, run, apc, dpc>>
    PROVE  TaskletLists' /\ IdleUnlinked' /\ WalkInv'
<1> USE NullIsNoTasklet DEF IInv
<1>1. CASE UNCHANGED <<eState, pNext, head>>
  <2>1. Scheduled' = Scheduled
    BY <1>1, Zenon DEF Scheduled
  <2>2. PointsToScheduled' /\ OnOneList'
    BY <1>1, <2>1, Zenon DEF TaskletLists, PointsToScheduled, OnOneList
  <2>3. OnSomeList' /\ Acyclic'
    BY <1>1, <2>1, Zenon DEF TaskletLists, OnSomeList, Acyclic
  <2>4. IdleUnlinked' /\ WalkInv'
    BY <1>1, <2>1, Zenon DEF IdleUnlinked, WalkInv
  <2> QED
    BY <2>2, <2>3, <2>4, Zenon DEF TaskletLists
<1>2. CASE /\ x \notin Scheduled /\ eState[x] = "idle"
           /\ eState' = [eState EXCEPT ![x] = "scheduled"]
           /\ pNext' = [pNext EXCEPT ![x] = head[q]]
           /\ head' = [head EXCEPT ![q] = x]
  <2>1. /\ Scheduled' = Scheduled \cup {x} /\ x # NULL
        /\ pNext'[x] = head[q] /\ \A y \in Scheduled : pNext'[y] = pNext[y] /\ y # x
        /\ head'[q] = x /\ \A p \in Queue \ {q} : head'[p] = head[p]
    BY <1>2 DEF TypeOK, Scheduled
  <2>2. PointsToScheduled'
    BY <2>1, Zenon DEF TaskletLists, PointsToScheduled
  <2>3. OnOneList'
    BY <2>1 DEF TaskletLists, PointsToScheduled, OnOneList
  <2>4. OnSomeList'
    BY <2>1 DEF TaskletLists, OnSomeList
  <2>5. Acyclic'
    <3>1. PICK R \in SUBSET (Scheduled \X Scheduled) :
             /\ \A y \in Scheduled : <<y, y>> \notin R
             /\ \A y, z, w \in Scheduled : <<y, z>> \in R /\ <<z, w>> \in R => <<y, w>> \in R
             /\ \A y \in Scheduled : pNext[y] # NULL => <<y, pNext[y]>> \in R
      BY Zenon DEF TaskletLists, Acyclic
    <3> DEFINE Q == R \cup ({x} \X Scheduled)
    <3>2. Q \in SUBSET (Scheduled' \X Scheduled')
      BY <2>1, Zenon
    <3>3. \A y \in Scheduled' : <<y, y>> \notin Q
      BY <1>2, <2>1, <3>1, Zenon
    <3>4. \A y, z, w \in Scheduled' : <<y, z>> \in Q /\ <<z, w>> \in Q => <<y, w>> \in Q
      BY <1>2, <2>1, <3>1
    <3>5. \A y \in Scheduled' : pNext'[y] # NULL => <<y, pNext'[y]>> \in Q
      BY <2>1, <3>1, Zenon DEF TaskletLists, PointsToScheduled
    <3> QED
      BY <3>2, <3>3, <3>4, <3>5, Zenon DEF Acyclic
  <2>6. IdleUnlinked'
    BY <1>2, Zenon DEF TypeOK, IdleUnlinked
  <2>7. WalkInv'
    BY <1>2, Zenon DEF TypeOK, WalkInv
  <2> QED
    BY <2>2, <2>3, <2>4, <2>5, <2>6, <2>7, Zenon DEF TaskletLists
<1> QED
  BY <1>1, <1>2, PushEffect, Zenon

(* A step that leaves the lists alone.                                     *)
LEMMA SameLists ==
    ASSUME IInv, UNCHANGED <<eState, pNext, head, cur>>
    PROVE  TaskletLists' /\ IdleUnlinked'
<1>1. Scheduled' = Scheduled
  BY Zenon DEF Scheduled
<1>2. PointsToScheduled' /\ OnOneList'
  BY <1>1, Zenon DEF IInv, TaskletLists, PointsToScheduled, OnOneList
<1>3. OnSomeList' /\ Acyclic'
  BY <1>1, Zenon DEF IInv, TaskletLists, OnSomeList, Acyclic
<1>4. IdleUnlinked'
  BY Zenon DEF IInv, IdleUnlinked
<1> QED
  BY <1>2, <1>3, <1>4, Zenon DEF TaskletLists

(* Threads: scheduling a tasklet and raising its soft interrupt.           *)
LEMMA ThreadIInv ==
    ASSUME IInv, NEW t \in Thread,
           \/ \E x \in Tasklet, q \in Queue : TaskletSchedule(t, x, q)
           \/ ThreadStep(t)
    PROVE  IInv'
<1> USE DEF IInv
<1>0. 0 \in Queue
  BY Zenon DEF Queue, BT_SOFTIRQ_HI
<1>1. ASSUME NEW x \in Tasklet, NEW q \in Queue, TaskletSchedule(t, x, q) PROVE IInv'
  <2>1. TaskletLists' /\ IdleUnlinked' /\ WalkInv'
    BY <1>1, PushLists, Zenon DEF TaskletSchedule, walkVars, softirqVars
  <2>2. TypeOK'
    <3>1. SoftIRQTypeOK' /\ UNCHANGED <<pending, work, raise>>
      BY <1>1, Zenon DEF TaskletSchedule, TypeOK, SoftIRQTypeOK, softirqVars
    <3>2. todo' \in [Thread -> SUBSET Queue]
      BY <1>1, Zenon DEF TaskletSchedule, TypeOK
    <3> QED
      BY <1>1, <3>1, <3>2, PushType, Zenon DEF TaskletSchedule, TypeOK, walkVars
  <2> QED
    BY <2>1, <2>2, Zenon
<1>2. CASE TaskletRaise(t)
  <2>1. PICK q \in todo[t] : RaiseLoad(t, q)
    BY <1>2, Zenon DEF TaskletRaise
  <2>2. q \in Queue /\ SoftIRQTypeOK
    BY Zenon DEF TypeOK
  <2>3. q \in IRQ
    BY <2>1, <2>2, SoftIRQMaxNat DEF RaiseLoad, Queue, BT_SOFTIRQ_HI, BT_SOFTIRQ_TASKLET, IRQ
  <2>4. SoftIRQTypeOK'
    BY <2>1, <2>2, <2>3, Zenon DEF RaiseLoad, SoftIRQTypeOK, dispVars
  <2>5. TypeOK'
    BY <1>2, <2>1, <2>2, <2>4, Zenon DEF TaskletRaise, RaiseLoad, TypeOK, SoftIRQTypeOK, dispVars, walkVars
  <2>6. TaskletLists' /\ IdleUnlinked'
    BY <1>2, SameLists, Zenon DEF TaskletRaise, walkVars
  <2>7. WalkInv'
    BY <1>2, <2>1, Zenon DEF TaskletRaise, RaiseLoad, WalkInv, dispVars, walkVars
  <2> QED
    BY <2>5, <2>6, <2>7, Zenon
<1>3. CASE RaiseStep(t) /\ UNCHANGED taskletVars
  <2>1. ASSUME RaiseStore(t) PROVE TypeOK'
    <3>1. SoftIRQTypeOK'
      BY <2>1, ZeroIsIRQ, Zenon DEF RaiseStore, TypeOK, SoftIRQTypeOK, Releasing, dispVars
    <3> QED
      BY <1>0, <1>3, <2>1, <3>1, Zenon DEF RaiseStore, TypeOK, SoftIRQTypeOK, Releasing, dispVars, taskletVars
  <2>5. ASSUME RaiseRelease(t) PROVE TypeOK'
    <3>1. SoftIRQTypeOK'
      BY <2>5, ZeroIsIRQ, Zenon DEF RaiseRelease, TypeOK, SoftIRQTypeOK, NotRaising, dispVars
    <3> QED
      BY <1>0, <1>3, <2>5, <3>1, Zenon DEF RaiseRelease, TypeOK, SoftIRQTypeOK, NotRaising, dispVars, taskletVars
  <2>2. TypeOK'
    BY <1>3, <2>1, <2>5, Zenon DEF RaiseStep
  <2>3. TaskletLists' /\ IdleUnlinked'
    BY <1>3, SameLists, Zenon DEF taskletVars
  <2>4. WalkInv'
    BY <1>3, Zenon DEF RaiseStep, RaiseStore, RaiseRelease, WalkInv, dispVars, taskletVars
  <2> QED
    BY <2>2, <2>3, <2>4, Zenon
<1> QED
  BY <1>1, <1>2, <1>3, Zenon DEF ThreadStep

(* Interrupt handlers that schedule a tasklet.                             *)
LEMMA ISRIInv ==
    ASSUME IInv, NEW x \in Tasklet, NEW q \in Queue, TaskletScheduleFromISR(x, q)
    PROVE  IInv'
<1> USE DEF IInv
<1>1. TaskletLists' /\ IdleUnlinked' /\ WalkInv'
  BY PushLists, Zenon DEF TaskletScheduleFromISR, RaiseFromISR, walkVars, dispVars
<1>2. q \in IRQ
  BY SoftIRQMaxNat DEF TaskletScheduleFromISR, RaiseFromISR, Queue, BT_SOFTIRQ_HI, BT_SOFTIRQ_TASKLET, IRQ
<1>3. TypeOK'
  BY <1>2 DEF TaskletScheduleFromISR, RaiseFromISR, Push, TypeOK, SoftIRQTypeOK, walkVars, dispVars
<1> QED
  BY <1>1, <1>3, Zenon

(* The dispatcher takes a list: the walk gets the pointer the head had.    *)
LEMMA ActionTakeIInv ==
    ASSUME IInv, ActionTake
    PROVE  IInv'
<1> USE DEF IInv
<1> DEFINE q == Lowest(work)
<1>1. /\ q \in Queue /\ cur = NULL /\ cur' = head[q] /\ Scheduled' = Scheduled
      /\ head'[q] = NULL /\ \A p \in Queue \ {q} : head'[p] = head[p]
  <2>1. Lowest(work) \in Queue
    BY LowestIn, Zenon DEF ActionTake, DispCall, TypeOK, SoftIRQTypeOK
  <2> QED
    BY <2>1, Zenon DEF ActionTake, DispCall, WalkInv, Scheduled, TypeOK
<1>2. TypeOK'
  BY <1>1 DEF ActionTake, DispCall, TypeOK, SoftIRQTypeOK
<1> HIDE DEF q
<1>3. PointsToScheduled' /\ OnOneList' /\ OnSomeList'
  BY <1>1 DEF ActionTake, TaskletLists, PointsToScheduled, OnOneList, OnSomeList
<1>4. Acyclic'
  BY <1>1, Zenon DEF ActionTake, TaskletLists, Acyclic
<1>5. IdleUnlinked' /\ WalkInv'
  BY Zenon DEF ActionTake, DispCall, IdleUnlinked, WalkInv
<1> QED
  BY <1>2, <1>3, <1>4, <1>5, Zenon DEF TaskletLists

(* The dispatcher starts a tasklet: the walk moves to the one behind it.   *)
LEMMA ActionStartIInv ==
    ASSUME IInv, ActionStart
    PROVE  IInv'
<1> USE NullIsNoTasklet DEF IInv
<1>1. /\ cur \in Scheduled /\ cur \in Tasklet /\ cur' = pNext[cur]
      /\ Scheduled' = Scheduled \ {cur}
      /\ UNCHANGED <<pNext, head>> /\ run = NULL /\ run' = cur
  BY Zenon DEF ActionStart, TaskletLists, PointsToScheduled, Scheduled, TypeOK, WalkInv
<1>2. TypeOK'
  <2>1. SoftIRQTypeOK' /\ UNCHANGED <<pending, work, raise>>
    BY Zenon DEF ActionStart, TypeOK, SoftIRQTypeOK, softirqVars
  <2> QED
    BY <1>1, <2>1, Zenon DEF ActionStart, TypeOK
<1>3. PointsToScheduled' /\ OnOneList' /\ OnSomeList'
  BY <1>1 DEF TaskletLists, PointsToScheduled, OnOneList, OnSomeList
<1>4. Acyclic'
  <2>1. PICK R \in SUBSET (Scheduled \X Scheduled) :
           /\ \A y \in Scheduled : <<y, y>> \notin R
           /\ \A y, z, w \in Scheduled : <<y, z>> \in R /\ <<z, w>> \in R => <<y, w>> \in R
           /\ \A y \in Scheduled : pNext[y] # NULL => <<y, pNext[y]>> \in R
    BY Zenon DEF TaskletLists, Acyclic
  <2> DEFINE Q == R \cap (Scheduled' \X Scheduled')
  <2>2. \A y \in Scheduled' : pNext'[y] # NULL => <<y, pNext'[y]>> \in Q
    BY <1>1, <1>3, <2>1, Zenon DEF PointsToScheduled
  <2>3. /\ Q \in SUBSET (Scheduled' \X Scheduled')
        /\ \A y \in Scheduled' : <<y, y>> \notin Q
        /\ \A y, z, w \in Scheduled' : <<y, z>> \in Q /\ <<z, w>> \in Q => <<y, w>> \in Q
    BY <1>1, <2>1, Zenon
  <2> QED
    BY <2>2, <2>3, Zenon DEF Acyclic
<1>5. IdleUnlinked' /\ WalkInv'
  BY <1>1, Zenon DEF ActionStart, TypeOK, IdleUnlinked, WalkInv, softirqVars
<1> QED
  BY <1>2, <1>3, <1>4, <1>5, Zenon DEF TaskletLists

(* The dispatcher finishes a tasklet: link first, state second.            *)
LEMMA ActionFinishIInv ==
    ASSUME IInv, ActionUnlink \/ ActionIdle
    PROVE  IInv'
<1> USE NullIsNoTasklet DEF IInv
<1>1. /\ run \in Tasklet /\ eState[run] = "running" /\ run \notin Scheduled
      /\ Scheduled' = Scheduled /\ UNCHANGED <<head, cur>>
      /\ \A y \in Scheduled : pNext'[y] = pNext[y]
  BY DEF ActionUnlink, ActionIdle, Scheduled, TypeOK, WalkInv
<1>2. TypeOK'
  <2>1. SoftIRQTypeOK' /\ UNCHANGED <<pending, work, raise>>
    BY Zenon DEF ActionUnlink, ActionIdle, TypeOK, SoftIRQTypeOK, softirqVars
  <2> QED
    BY <1>1, <2>1, Zenon DEF ActionUnlink, ActionIdle, TypeOK
<1>3. TaskletLists'
  BY <1>1 DEF TaskletLists, PointsToScheduled, OnOneList, OnSomeList, Acyclic
<1>4. IdleUnlinked'
  BY <1>1, Zenon DEF ActionUnlink, ActionIdle, TypeOK, WalkInv, IdleUnlinked
<1>5. WalkInv'
  BY <1>1 DEF ActionUnlink, ActionIdle, TypeOK, WalkInv, softirqVars
<1> QED
  BY <1>2, <1>3, <1>4, <1>5, Zenon

(* The dispatcher between two walks.                                       *)
LEMMA DispatchIInv ==
    ASSUME IInv, UNCHANGED taskletVars,
           DispTake \/ (DispReturn /\ apc = "walk" /\ cur = NULL)
    PROVE  IInv'
<1> USE DEF IInv
<1>1. TypeOK'
  BY Zenon DEF DispTake, DispPend, DispLoad, DispClear, DispReturn, TypeOK, SoftIRQTypeOK, taskletVars
<1>2. TaskletLists' /\ IdleUnlinked'
  BY SameLists, Zenon DEF taskletVars
<1>3. WalkInv'
  BY Zenon DEF DispTake, DispPend, DispLoad, DispClear, DispReturn, WalkInv, taskletVars
<1> QED
  BY <1>1, <1>2, <1>3, Zenon

(* IInv is an invariant of the tasklets, for any number of threads and     *)
(* tasklets.                                                               *)
THEOREM Invariance == Spec => []IInv
<1>1. ASSUME Init PROVE IInv
  <2>1. Scheduled = {}
    BY <1>1, Zenon DEF Init, Scheduled
  <2>2. SoftIRQTypeOK
    BY <1>1, SoftIRQStart, Zenon DEF Init, SoftIRQInv
  <2>3. TypeOK
    BY <1>1, <2>2, NullIsNoTasklet, Zenon
    DEF Init, SoftIRQInit, TypeOK, NotRaising, Queue, BT_SOFTIRQ_HI, BT_SOFTIRQ_TASKLET
  <2>4. TaskletLists
    BY <1>1, <2>1, Zenon DEF Init, TaskletLists, PointsToScheduled, OnOneList, OnSomeList, Acyclic
  <2>5. IdleUnlinked /\ WalkInv
    BY <1>1, Zenon DEF Init, SoftIRQInit, IdleUnlinked, WalkInv
  <2> QED
    BY <2>3, <2>4, <2>5, Zenon DEF IInv
<1>2. ASSUME IInv, [Next]_vars PROVE IInv'
  <2>1. CASE DispatcherStep
    <3>1. ASSUME DispTake, UNCHANGED taskletVars PROVE IInv'
      BY <1>2, <3>1, DispatchIInv, Zenon
    <3>2. CASE ActionReturn
      BY <1>2, <3>2, DispatchIInv, Zenon DEF ActionReturn
    <3>3. CASE ActionTake
      BY <1>2, <3>3, ActionTakeIInv, Zenon
    <3>4. CASE ActionStart
      BY <1>2, <3>4, ActionStartIInv, Zenon
    <3>5. CASE ActionUnlink \/ ActionIdle
      BY <1>2, <3>5, ActionFinishIInv, Zenon
    <3> QED
      BY <2>1, <3>1, <3>2, <3>3, <3>4, <3>5, Zenon DEF DispatcherStep
  <2>2. CASE UNCHANGED vars
    <3>1. TaskletLists' /\ IdleUnlinked'
      BY <1>2, <2>2, SameLists, Zenon DEF vars, taskletVars
    <3>2. SoftIRQTypeOK'
      BY <1>2, <2>2, Zenon DEF vars, softirqVars, IInv, TypeOK, SoftIRQTypeOK
    <3>3. TypeOK' /\ WalkInv'
      BY <1>2, <2>2, <3>2, Zenon DEF vars, softirqVars, taskletVars, IInv, TypeOK, WalkInv
    <3> QED
      BY <3>1, <3>3, Zenon DEF IInv
  <2> QED
    BY <1>2, <2>1, <2>2, ThreadIInv, ISRIInv, Zenon DEF Next
<1> QED
  BY <1>1, <1>2, PTL DEF Spec

(* The state of bt_tasklets.c stays well formed: only the two soft         *)
(* interrupts of tasklets are raised, and a tasklet is marked running      *)
(* exactly while the dispatcher runs it.                                   *)
THEOREM TaskletsTyped == Spec => []TypeOK
<1>1. IInv => TypeOK
  BY Zenon DEF IInv
<1> QED
  BY <1>1, Invariance, PTL

(* Each scheduled tasklet is on exactly one list, exactly once, whatever   *)
(* is scheduled while the dispatcher walks a list without a lock.          *)
THEOREM ListsStayLists == Spec => []TaskletLists
<1>1. IInv => TaskletLists
  BY Zenon DEF IInv
<1> QED
  BY <1>1, Invariance, PTL

(* The tasklets implement the soft interrupt component, and with it its    *)
(* guarantee that the dispatcher never sleeps on a pending bit.            *)
THEOREM UsesSoftIRQ == Spec => SoftIRQSpec /\ []NoStrandedBit
<1>1. Init => SoftIRQInit
  BY Zenon DEF Init
<1>2. IInv /\ [Next]_vars => [SoftIRQNext]_softirqVars
  BY TaskletStepIsSoftIRQStep, Zenon DEF IInv
<1>3. Spec => SoftIRQSpec
  BY <1>1, <1>2, Invariance, PTL DEF Spec, SoftIRQSpec
<1> QED
  BY <1>3, NeverStranded, PTL
=============================================================================
