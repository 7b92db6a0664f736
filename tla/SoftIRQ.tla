------------------------------ MODULE SoftIRQ ------------------------------
(***************************************************************************)
(* Soft interrupts (os/src/interrupts/bt_softirq.c).  Threads and          *)
(* interrupt handlers set a bit of g_ulPending and release a binary        *)
(* semaphore; one dispatcher thread takes it, copies and clears            *)
(* g_ulPending and calls the handler of every bit it found.                *)
(*                                                                         *)
(* g_ulPending is a plain word: a thread's |= is a load and a store, and   *)
(* so are the dispatcher's copy and clear, with no critical section around *)
(* either.  An interrupt handler runs to completion between two steps of   *)
(* the threads.  g_ulPending is modelled as the set of its one bits.       *)
(***************************************************************************)
EXTENDS Naturals

CONSTANTS Thread,           \* threads that raise soft interrupts
          SOFTIRQ_MAX       \* BT_CONFIG_SOFTIRQ_MAX

ASSUME SoftIRQMaxNat == SOFTIRQ_MAX \in Nat \ {0}

VARIABLES pending,          \* g_ulPending
          available,        \* g_pvMutex: a binary semaphore
          raise,            \* per thread: its call of BT_RaiseSoftIRQ
          dpc,              \* where softirq_dispatcher is
          work              \* its local ulPending

softirqVars == <<pending, available, raise, dpc, work>>
dispVars == <<dpc, work>>

IRQ == 0 .. SOFTIRQ_MAX - 1
Argument == 0 .. SOFTIRQ_MAX    \* what callers pass; a larger number acts like the last
Lowest(S) == CHOOSE i \in S : \A j \in S : i <= j

NotRaising == [pc |-> "idle", irq |-> 0, loaded |-> {}]
Releasing == [pc |-> "release", irq |-> 0, loaded |-> {}]

\* bt_softirq_init: the semaphore is created available and taken once.
SoftIRQInit == /\ pending = {}
               /\ available = FALSE
               /\ raise = [t \in Thread |-> NotRaising]
               /\ dpc = "pend"
               /\ work = {}

-----------------------------------------------------------------------------
(* BT_RaiseSoftIRQ in a thread: the load of g_ulPending ...                *)
RaiseLoad(t, irq) ==
    /\ raise[t].pc = "idle"
    /\ irq < SOFTIRQ_MAX
    /\ raise' = [raise EXCEPT ![t] = [pc |-> "store", irq |-> irq, loaded |-> pending]]
    /\ UNCHANGED <<pending, available, dispVars>>

\* ... the store of the loaded value with the bit added ...
RaiseStore(t) ==
    /\ raise[t].pc = "store"
    /\ pending' = raise[t].loaded \cup {raise[t].irq}
    /\ raise' = [raise EXCEPT ![t] = Releasing]
    /\ UNCHANGED <<available, dispVars>>

\* Mutant: the semaphore is given only when the dispatcher is waiting for it.
RaiseReleaseIfWaiting(t) ==
    /\ raise[t].pc = "release"
    /\ available' = (dpc = "pend")
    /\ raise' = [raise EXCEPT ![t] = NotRaising]
    /\ UNCHANGED <<pending, dispVars>>

\* ... and the semaphore.
RaiseRelease(t) ==
    /\ raise[t].pc = "release"
    /\ available' = TRUE
    /\ raise' = [raise EXCEPT ![t] = NotRaising]
    /\ UNCHANGED <<pending, dispVars>>

\* Mutant: the interrupt handler does not wake the dispatcher.
RaiseFromISRQuiet(irq) ==
    /\ irq < SOFTIRQ_MAX
    /\ pending' = pending \cup {irq}
    /\ UNCHANGED <<available, raise, dispVars>>

\* The same call in an interrupt handler, which no thread can cut in two.
RaiseFromISR(irq) ==
    /\ irq < SOFTIRQ_MAX
    /\ pending' = pending \cup {irq}
    /\ available' = TRUE
    /\ UNCHANGED <<raise, dispVars>>

-----------------------------------------------------------------------------
(* The thread softirq_dispatcher.                                          *)
DispPend ==
    /\ dpc = "pend"
    /\ available
    /\ available' = FALSE
    /\ dpc' = "load"
    /\ UNCHANGED <<pending, raise, work>>

DispLoad ==
    /\ dpc = "load"
    /\ work' = pending
    /\ dpc' = IF pending = {} THEN "pend" ELSE "clear"
    /\ UNCHANGED <<pending, available, raise>>

DispClear ==
    /\ dpc = "clear"
    /\ pending' = {}
    /\ dpc' = "call"
    /\ UNCHANGED <<available, raise, work>>

\* The lowest bit first: p->pfnHandler(p->pData) starts ...
DispCall ==
    /\ dpc = "call"
    /\ dpc' = "handler"
    /\ UNCHANGED <<pending, available, raise, work>>

\* ... and returns.
DispReturn ==
    /\ dpc = "handler"
    /\ work' = work \ {Lowest(work)}
    /\ dpc' = IF work' = {} THEN "pend" ELSE "call"
    /\ UNCHANGED <<pending, available, raise>>

-----------------------------------------------------------------------------
RaiseStep(t) == RaiseStore(t) \/ RaiseRelease(t)
DispTake == DispPend \/ DispLoad \/ DispClear

SoftIRQNext == \/ \E t \in Thread : RaiseStep(t) \/ \E irq \in Argument : RaiseLoad(t, irq)
               \/ \E irq \in Argument : RaiseFromISR(irq)
               \/ DispTake \/ DispCall \/ DispReturn

SoftIRQSpec == SoftIRQInit /\ [][SoftIRQNext]_softirqVars

-----------------------------------------------------------------------------
(* g_ulPending and its copies hold bits below BT_CONFIG_SOFTIRQ_MAX only,  *)
(* and the dispatcher calls a handler only for a bit it found.             *)
SoftIRQTypeOK ==
    /\ pending \subseteq IRQ
    /\ available \in BOOLEAN
    /\ raise \in [Thread -> [pc : {"idle", "store", "release"},
                             irq : IRQ, loaded : SUBSET IRQ]]
    /\ dpc \in {"pend", "load", "clear", "call", "handler"}
    /\ work \subseteq IRQ
    /\ dpc \in {"clear", "call", "handler"} => work # {}

(* No bit is left behind: when g_ulPending is not zero, the dispatcher is  *)
(* about to look at it, or the semaphore that makes it look is available   *)
(* or about to be released.                                                *)
NoStrandedBit ==
    pending # {} => \/ available
                    \/ dpc \in {"load", "clear"}
                    \/ \E t \in Thread : raise[t].pc = "release"

(* The dispatcher is never left asleep on a pending soft interrupt: it     *)
(* gets to look at g_ulPending again.                                      *)
DispatcherLooks == (pending # {} /\ dpc # "clear") ~> (dpc = "load")
=============================================================================
