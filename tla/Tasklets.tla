------------------------------ MODULE Tasklets ------------------------------
(***************************************************************************)
(* Tasklets (os/src/interrupts/bt_tasklets.c) on top of soft interrupts.   *)
(* Threads and interrupt handlers push a tasklet on one of two singly      *)
(* linked lists, g_Tasklets and g_HighTasklets, inside a critical section, *)
(* and raise the soft interrupt of the list; its handler, in the           *)
(* dispatcher thread, takes the whole list and runs it with no lock held,  *)
(* while the tasklets on it can be scheduled again.                        *)
(***************************************************************************)
EXTENDS SoftIRQ

CONSTANTS Tasklet,
          NULL

ASSUME NullIsNoTasklet == NULL \notin Tasklet
ASSUME TwoSoftIRQs == SOFTIRQ_MAX > 1

VARIABLES eState,           \* per tasklet: "idle", "scheduled", "running"
          pNext,            \* per tasklet: the next one on its list
          head,             \* g_HighTasklets and g_Tasklets
          todo,             \* per thread: the soft interrupt it is about to raise
          apc,              \* where the handler of the soft interrupt is
          cur,              \* its local pTasklets
          run               \* its local t

taskletVars == <<eState, pNext, head, todo, apc, cur, run>>
walkVars == <<apc, cur, run>>
vars == <<softirqVars, taskletVars>>

BT_SOFTIRQ_HI == 0
BT_SOFTIRQ_TASKLET == 1
Queue == {BT_SOFTIRQ_HI, BT_SOFTIRQ_TASKLET}

Init == /\ SoftIRQInit
        /\ eState = [x \in Tasklet |-> "idle"]
        /\ pNext = [x \in Tasklet |-> NULL]
        /\ head = [q \in Queue |-> NULL]
        /\ todo = [t \in Thread |-> {}]
        /\ apc = "walk" /\ cur = NULL /\ run = NULL

-----------------------------------------------------------------------------
\* Mutant: a tasklet that is on a list or running is pushed again.
PushAlways(x, q) ==
    /\ eState' = [eState EXCEPT ![x] = "scheduled"]
    /\ pNext' = IF head[q] = NULL THEN pNext ELSE [pNext EXCEPT ![x] = head[q]]
    /\ head' = [head EXCEPT ![q] = x]

(* The critical section of BT_TaskletSchedule and BT_TaskletHighSchedule:  *)
(* pNext is not written when the list is empty.                            *)
Push(x, q) ==
    IF eState[x] = "idle"
    THEN /\ eState' = [eState EXCEPT ![x] = "scheduled"]
         /\ pNext' = IF head[q] = NULL THEN pNext ELSE [pNext EXCEPT ![x] = head[q]]
         /\ head' = [head EXCEPT ![q] = x]
    ELSE UNCHANGED <<eState, pNext, head>>

\* A thread's call: the push, and then BT_RaiseSoftIRQ step by step.
TaskletSchedule(t, x, q) ==
    /\ todo[t] = {} /\ raise[t].pc = "idle"
    /\ Push(x, q)
    /\ todo' = [todo EXCEPT ![t] = {q}]
    /\ UNCHANGED <<walkVars, softirqVars>>

TaskletRaise(t) ==
    /\ \E q \in todo[t] : RaiseLoad(t, q)
    /\ todo' = [todo EXCEPT ![t] = {}]
    /\ UNCHANGED <<eState, pNext, head, walkVars>>

\* The same call in an interrupt handler (card and bus drivers do this).
TaskletScheduleFromISR(x, q) ==
    /\ Push(x, q)
    /\ RaiseFromISR(q)
    /\ UNCHANGED <<todo, walkVars>>

-----------------------------------------------------------------------------
(* tasklet_action and tasklet_action_hi, called by the dispatcher: the     *)
(* list is taken in a critical section ...                                 *)
ActionTake ==
    /\ DispCall
    /\ cur' = head[Lowest(work)]
    /\ head' = [head EXCEPT ![Lowest(work)] = NULL]
    /\ UNCHANGED <<eState, pNext, todo, apc, run>>

\* ... each tasklet is marked running and its handler is called ...
ActionStart ==
    /\ dpc = "handler" /\ apc = "walk"
    /\ cur # NULL
    /\ run' = cur
    /\ cur' = pNext[cur]
    /\ eState' = [eState EXCEPT ![cur] = "running"]
    /\ apc' = "unlink"
    /\ UNCHANGED <<softirqVars, pNext, head, todo>>

\* Mutant: the tasklet is idle before its link is cleared.
ActionUnlinkIdle ==
    /\ apc = "unlink"
    /\ eState' = [eState EXCEPT ![run] = "idle"]
    /\ apc' = "idle"
    /\ UNCHANGED <<softirqVars, pNext, head, todo, cur, run>>

\* Mutant: the link to the next tasklet of the list is not cleared.
ActionUnlinkNot ==
    /\ apc = "unlink"
    /\ apc' = "idle"
    /\ UNCHANGED <<softirqVars, eState, pNext, head, todo, cur, run>>

\* ... after the handler its link is cleared, and only then is it idle.
ActionUnlink ==
    /\ apc = "unlink"
    /\ pNext' = [pNext EXCEPT ![run] = NULL]
    /\ apc' = "idle"
    /\ UNCHANGED <<softirqVars, eState, head, todo, cur, run>>

\* Mutant: the tasklet is left marked as running.
ActionIdleNot ==
    /\ apc = "idle"
    /\ run' = NULL
    /\ apc' = "walk"
    /\ UNCHANGED <<softirqVars, eState, pNext, head, todo, cur>>

ActionIdle ==
    /\ apc = "idle"
    /\ eState' = [eState EXCEPT ![run] = "idle"]
    /\ run' = NULL
    /\ apc' = "walk"
    /\ UNCHANGED <<softirqVars, pNext, head, todo, cur>>

ActionReturn ==
    /\ apc = "walk" /\ cur = NULL
    /\ DispReturn
    /\ UNCHANGED taskletVars

-----------------------------------------------------------------------------
ThreadStep(t) == \/ TaskletRaise(t)
                 \/ RaiseStep(t) /\ UNCHANGED taskletVars

DispatcherStep == \/ DispTake /\ UNCHANGED taskletVars
                  \/ ActionTake \/ ActionStart \/ ActionUnlink
                  \/ ActionIdle \/ ActionReturn

Next == \/ \E t \in Thread : \/ \E x \in Tasklet, q \in Queue : TaskletSchedule(t, x, q)
                             \/ ThreadStep(t)
        \/ \E x \in Tasklet, q \in Queue : TaskletScheduleFromISR(x, q)
        \/ DispatcherStep

Spec == Init /\ [][Next]_vars

(* Every thread that can run is run eventually; nobody has to schedule a   *)
(* tasklet, and tasklet handlers return.                                   *)
Fairness == /\ WF_vars(DispatcherStep)
            /\ \A t \in Thread : WF_vars(ThreadStep(t))

FairSpec == Spec /\ Fairness
-----------------------------------------------------------------------------
Scheduled == {x \in Tasklet : eState[x] = "scheduled"}

(* The state of bt_tasklets.c is well formed: only the tasklet soft        *)
(* interrupts are raised, and a tasklet is marked running exactly while    *)
(* the dispatcher runs it.                                                 *)
TypeOK ==
    /\ SoftIRQTypeOK
    /\ pending \cup work \subseteq Queue
    /\ \A t \in Thread : {raise[t].irq} \cup raise[t].loaded \subseteq Queue
    /\ eState \in [Tasklet -> {"idle", "scheduled", "running"}]
    /\ pNext \in [Tasklet -> Tasklet \cup {NULL}]
    /\ head \in [Queue -> Tasklet \cup {NULL}]
    /\ todo \in [Thread -> SUBSET Queue]
    /\ apc \in {"walk", "unlink", "idle"}
    /\ cur \in Tasklet \cup {NULL}
    /\ run \in Tasklet \cup {NULL}
    /\ \A x \in Tasklet : eState[x] = "running" <=> run = x

(* A pointer of the lists leads to a scheduled tasklet or nowhere.         *)
PointsToScheduled ==
    /\ \A q \in Queue : head[q] \in Scheduled \cup {NULL}
    /\ cur \in Scheduled \cup {NULL}
    /\ \A x \in Scheduled : pNext[x] \in Scheduled \cup {NULL}

(* No two pointers of the lists lead to the same tasklet.                  *)
OnOneList ==
    /\ \A p, q \in Queue : head[p] = head[q] /\ head[p] # NULL => p = q
    /\ \A q \in Queue : head[q] = cur => cur = NULL
    /\ \A x, y \in Scheduled : pNext[x] = pNext[y] /\ pNext[x] # NULL => x = y
    /\ \A x \in Scheduled : pNext[x] # NULL =>
          pNext[x] # cur /\ \A q \in Queue : pNext[x] # head[q]

(* Every scheduled tasklet is the target of one of these pointers.         *)
OnSomeList ==
    \A x \in Scheduled : \/ \E q \in Queue : head[q] = x
                         \/ cur = x
                         \/ \E y \in Scheduled : pNext[y] = x

(* No list is a cycle: some strict order of the scheduled tasklets agrees  *)
(* with pNext.                                                             *)
Acyclic ==
    \E R \in SUBSET (Scheduled \X Scheduled) :
       /\ \A x \in Scheduled : <<x, x>> \notin R
       /\ \A x, y, z \in Scheduled : <<x, y>> \in R /\ <<y, z>> \in R => <<x, z>> \in R
       /\ \A x \in Scheduled : pNext[x] # NULL => <<x, pNext[x]>> \in R

(* The two lists and the list being run stay lists: each scheduled tasklet *)
(* is on exactly one of them, once, and none is forgotten, although        *)
(* tasklets are pushed while the dispatcher walks without a lock.          *)
TaskletLists == PointsToScheduled /\ OnOneList /\ OnSomeList /\ Acyclic

(* Push writes pNext only when the list is not empty: this is sound        *)
(* because an idle tasklet has no link left over from its last run.        *)
IdleUnlinked == \A x \in Tasklet : eState[x] = "idle" => pNext[x] = NULL

\* Where tasklet_action is determines what its locals hold.
WalkInv ==
    /\ apc = "walk" <=> run = NULL
    /\ dpc # "handler" => apc = "walk" /\ cur = NULL
    /\ apc = "idle" => pNext[run] = NULL

(* The inductive invariant of scheduling and running tasklets.             *)
IInv == TypeOK /\ TaskletLists /\ IdleUnlinked /\ WalkInv

(* BT_SOFTIRQ_TASKLET is "the default soft IRQ where a tasklet will run":  *)
(* a tasklet that was scheduled is run.                                    *)
ScheduledRuns == \A x \in Tasklet : (eState[x] = "scheduled") ~> (eState[x] = "running")

(* Running the list that was taken terminates.                             *)
WalkEnds == (dpc = "handler") ~> (dpc # "handler")
=============================================================================
