--------------------------- MODULE BlockScheduler ---------------------------
(***************************************************************************)
(* The block-request scheduler (os/src/devman/bt_block.c built with        *)
(* BT_CONFIG_BLOCK_SCHEDULER).  BT_BlockRead and BT_BlockWrite put a       *)
(* request that lives on the caller's own stack on g_requests, notify the  *)
(* scheduler thread and sleep on an event group until bDone; the scheduler *)
(* walks the list, doing each transfer with the list mutex released.       *)
(*                                                                         *)
(* A step is what one thread does between two points at which another      *)
(* thread can see or disturb it.  A call whose handle is not a block       *)
(* handle returns at once and changes nothing.                             *)
(***************************************************************************)
EXTENDS BlockIO, BtList, Naturals

CONSTANTS Caller,       \* threads that use block devices
          HEAD,         \* the list head g_requests
          NoResult,     \* retval before the driver has written it
          MaxNotified   \* bound: no call starts above this notification count

ASSUME HeadIsNoCaller == HEAD \notin Caller
ASSUME NoResultIsNoResult == NoResult \notin Result

VARIABLES pc,           \* where each caller is in bt_block_exec_request
          req,          \* each caller's struct bt_block_request (on its stack)
          links,        \* the bt_list_head pointers of the requests and of HEAD
          available,    \* g_list_mutex: a binary semaphore
          notified,     \* notification count of the scheduler thread
          bit,          \* bit 0 of g_event_group
          spc,          \* where block_scheduler is
          pos, nxt,     \* the cursor of its bt_list_for_each_safe
          disk          \* the medium

vars == <<pc, req, links, available, notified, bit, spc, pos, nxt, disk>>
syncVars == <<available, notified, bit>>
schedVars == <<spc, pos, nxt>>

Node == Caller \cup {HEAD}
NoOp == CHOOSE op \in Op : TRUE

\* What is kept for a stack frame nobody owns: it must never be read.
NoFrame == [op |-> NoOp, bDone |-> FALSE, retval |-> NoResult]
Forget(l, c) == [next |-> [l.next EXCEPT ![c] = c], prev |-> [l.prev EXCEPT ![c] = c]]

Init == /\ pc = [c \in Caller |-> "idle"]
        /\ req = [c \in Caller |-> NoFrame]
        /\ links = ListInit(Node)
        /\ available = TRUE
        /\ notified = 0
        /\ bit = FALSE
        /\ spc = "take"
        /\ pos = HEAD /\ nxt = HEAD
        /\ disk \in [Addr -> Data]

-----------------------------------------------------------------------------
(* The caller: BT_BlockRead and BT_BlockWrite, bt_block_exec_request and   *)
(* bt_block_schedule.                                                      *)
BlockCall(c, op) ==
    /\ pc[c] = "idle"
    /\ notified < MaxNotified
    /\ pc' = [pc EXCEPT ![c] = "schedule"]
    /\ req' = [req EXCEPT ![c] = [op |-> op, bDone |-> FALSE, retval |-> NoResult]]
    /\ UNCHANGED <<links, syncVars, schedVars, disk>>

SchedulePend(c) ==
    /\ pc[c] = "schedule"
    /\ available
    /\ available' = FALSE
    /\ pc' = [pc EXCEPT ![c] = "add"]
    /\ UNCHANGED <<req, links, notified, bit, schedVars, disk>>

ScheduleAdd(c) ==
    /\ pc[c] = "add"
    /\ links' = ListAdd(links, c, HEAD)
    /\ available' = TRUE
    /\ pc' = [pc EXCEPT ![c] = "notify"]
    /\ UNCHANGED <<req, notified, bit, schedVars, disk>>

\* Mutant: the notification is lost when the scheduler is not waiting for one.
ScheduleNotifyIfWaiting(c) ==
    /\ pc[c] = "notify"
    /\ notified' = IF spc = "take" THEN notified + 1 ELSE notified
    /\ pc' = [pc EXCEPT ![c] = "test"]
    /\ UNCHANGED <<req, links, available, bit, schedVars, disk>>

ScheduleNotify(c) ==
    /\ pc[c] = "notify"
    /\ notified' = notified + 1
    /\ pc' = [pc EXCEPT ![c] = "test"]
    /\ UNCHANGED <<req, links, available, bit, schedVars, disk>>

\* while(req->bDone != BT_TRUE): go to sleep ...
ExecTest(c) ==
    /\ pc[c] = "test"
    /\ ~req[c].bDone
    /\ pc' = [pc EXCEPT ![c] = "wait"]
    /\ UNCHANGED <<req, links, syncVars, schedVars, disk>>

\* ... or return req.retval, which gives up the stack frame of the request.
ExecReturn(c) ==
    /\ pc[c] = "test"
    /\ req[c].bDone
    /\ pc' = [pc EXCEPT ![c] = "idle"]
    /\ req' = [req EXCEPT ![c] = NoFrame]
    /\ links' = Forget(links, c)
    /\ UNCHANGED <<syncVars, schedVars, disk>>

\* BT_kEventGroupWaitBits(g_event_group, 1, clear on exit, any, infinite).
ExecWaitBits(c) ==
    /\ pc[c] = "wait"
    /\ pc' = [pc EXCEPT ![c] = IF bit THEN "test" ELSE "blocked"]
    /\ bit' = FALSE
    /\ UNCHANGED <<req, links, available, notified, schedVars, disk>>

-----------------------------------------------------------------------------
(* The thread block_scheduler.                                             *)
\* Mutant: the wait for a notification returns without one.
SchedTakeAlways ==
    /\ spc = "take"
    /\ notified' = notified - 1
    /\ spc' = "pend"
    /\ UNCHANGED <<pc, req, links, available, bit, pos, nxt, disk>>

SchedTake ==
    /\ spc = "take"
    /\ notified > 0
    /\ notified' = notified - 1
    /\ spc' = "pend"
    /\ UNCHANGED <<pc, req, links, available, bit, pos, nxt, disk>>

SchedPend ==
    /\ spc = "pend"
    /\ available
    /\ available' = FALSE
    /\ pos' = links.next[HEAD]
    /\ nxt' = links.next[links.next[HEAD]]
    /\ spc' = "loop"
    /\ UNCHANGED <<pc, req, links, notified, bit, disk>>

\* End of the walk, and of the cursor, or the body: both release the mutex.
SchedLoop ==
    /\ spc = "loop"
    /\ available' = TRUE
    /\ spc' = IF pos = HEAD THEN "take" ELSE "io"
    /\ nxt' = IF pos = HEAD THEN HEAD ELSE nxt
    /\ UNCHANGED <<pc, req, links, notified, bit, pos, disk>>

\* Mutant: the request is marked done before the list mutex is taken again.
SchedIODone ==
    /\ spc = "io"
    /\ \E r \in Result :
          /\ Transfer(req[pos].op, disk, disk', r)
          /\ req' = [req EXCEPT ![pos] = [@ EXCEPT !.retval = r, !.bDone = TRUE]]
    /\ spc' = "relock"
    /\ UNCHANGED <<pc, links, syncVars, pos, nxt>>

SchedIO ==
    /\ spc = "io"
    /\ \E r \in Result : /\ Transfer(req[pos].op, disk, disk', r)
                         /\ req' = [req EXCEPT ![pos].retval = r]
    /\ spc' = "relock"
    /\ UNCHANGED <<pc, links, syncVars, pos, nxt>>

\* Mutant: the list is modified without the mutex.
SchedRelockNot ==
    /\ spc = "relock"
    /\ spc' = "del"
    /\ UNCHANGED <<pc, req, links, syncVars, pos, nxt, disk>>

SchedRelock ==
    /\ spc = "relock"
    /\ available
    /\ available' = FALSE
    /\ spc' = "del"
    /\ UNCHANGED <<pc, req, links, notified, bit, pos, nxt, disk>>

\* Mutant: the completed request stays on the list.
SchedCompleteKeep ==
    /\ spc = "del"
    /\ req' = [req EXCEPT ![pos].bDone = TRUE]
    /\ spc' = "set"
    /\ UNCHANGED <<pc, links, syncVars, pos, nxt, disk>>

SchedComplete ==
    /\ spc = "del"
    /\ links' = ListDel(links, pos)
    /\ req' = [req EXCEPT ![pos].bDone = TRUE]
    /\ spc' = "set"
    /\ UNCHANGED <<pc, syncVars, pos, nxt, disk>>

(* BT_kEventGroupSetBits wakes every thread that waits for the bit, and    *)
(* then clears it when one of them asked for that (they all do).           *)
SchedSetBits ==
    /\ spc = "set"
    /\ pc' = [c \in Caller |-> IF pc[c] = "blocked" THEN "test" ELSE pc[c]]
    /\ bit' = (\A c \in Caller : pc[c] # "blocked")
    /\ pos' = nxt
    /\ nxt' = links.next[nxt]
    /\ spc' = "loop"
    /\ UNCHANGED <<req, links, available, notified, disk>>

-----------------------------------------------------------------------------
CallerStep(c) == \/ SchedulePend(c) \/ ScheduleAdd(c) \/ ScheduleNotify(c)
                 \/ ExecTest(c) \/ ExecReturn(c) \/ ExecWaitBits(c)

SchedStep == \/ SchedTake \/ SchedPend \/ SchedLoop \/ SchedIO
             \/ SchedRelock \/ SchedComplete \/ SchedSetBits

Next == \/ \E c \in Caller : \/ \E op \in Op : BlockCall(c, op)
                             \/ CallerStep(c)
        \/ SchedStep

Spec == Init /\ [][Next]_vars

(* Every thread that can run is run eventually; nobody has to start a call. *)
Fairness == /\ WF_vars(SchedStep)
            /\ \A c \in Caller : WF_vars(CallerStep(c))

FairSpec == Spec /\ Fairness
-----------------------------------------------------------------------------
(* The state of bt_block.c is well formed: pointers lead to requests or to *)
(* the list head, and the notification count never drops below zero.       *)
TypeOK ==
    /\ pc \in [Caller -> {"idle", "schedule", "add", "notify", "test", "wait", "blocked"}]
    /\ req \in [Caller -> [op : Op, bDone : BOOLEAN, retval : Result \cup {NoResult}]]
    /\ ListType(links, Node)
    /\ available \in BOOLEAN
    /\ notified \in Nat
    /\ bit \in BOOLEAN
    /\ spc \in {"take", "pend", "loop", "io", "relock", "del", "set"}
    /\ pos \in Node
    /\ nxt \in Node
    /\ disk \in [Addr -> Data]

\* The callers whose request is on g_requests.
Queued == {c \in Caller : pc[c] \in {"notify", "test", "wait", "blocked"} /\ ~req[c].bDone}

(* g_requests is intact whenever its mutex is free: following next from    *)
(* the head meets exactly the requests that were added and not completed,  *)
(* although each of them lives on the stack of a thread of its own and     *)
(* new ones are added while the scheduler is in the middle of its walk.    *)
ListIntact == available => WellFormed(links, Queued, HEAD)

(* The scheduler never follows a pointer into the stack frame of a call    *)
(* that has returned: the request it works on, and the one it saved as     *)
(* the next of its walk before it released the mutex, are both queued.     *)
CursorAlive ==
    /\ spc \in {"loop", "io", "relock", "del"} => pos \in Queued \cup {HEAD}
    /\ spc \in {"io", "relock", "del"} => pos # HEAD
    /\ spc \in {"loop", "io", "relock", "del", "set"} => nxt \in Queued \cup {HEAD}

(* The parts of the inductive invariant behind the two properties above    *)
(* and behind the refinement below.  First: one thread at a time is inside *)
(* g_list_mutex.                                                           *)
MutexInv ==
    /\ available => (\A c \in Caller : pc[c] # "add") /\ spc \notin {"loop", "del", "set"}
    /\ \A c \in Caller : pc[c] = "add" => spc \notin {"loop", "del", "set"}
    /\ \A c, d \in Caller : pc[c] = "add" /\ pc[d] = "add" => c = d

\* A frame has an answer exactly from the transfer of its request on.
FrameInv ==
    \A c \in Caller :
        /\ pc[c] = "idle" => req[c] = NoFrame
        /\ pc[c] \in {"schedule", "add"} => ~req[c].bDone
        /\ req[c].retval # NoResult <=>
              req[c].bDone \/ (spc \in {"relock", "del"} /\ pos = c)

\* The saved successor is the successor, whatever was added meanwhile.
CursorInv ==
    /\ spc \in {"io", "relock", "del"} => pos \in Queued
    /\ spc = "loop" => pos \in Queued \cup {HEAD}
    /\ spc \in {"loop", "io", "relock", "del"} => nxt = links.next[pos]
    /\ spc = "set" => nxt \in Queued \cup {HEAD}

(* The inductive invariant: every step of bt_block.c preserves it.         *)
IInv == /\ TypeOK
        /\ MutexInv
        /\ WellFormed(links, Queued, HEAD)
        /\ FrameInv
        /\ CursorInv

(* The call in progress of each caller, as its caller sees it.             *)
AbsCall == [c \in Caller |->
               IF pc[c] = "idle" THEN [state |-> "idle"]
               ELSE IF req[c].retval = NoResult
               THEN [state |-> "pending", op |-> req[c].op]
               ELSE [state |-> "answered", op |-> req[c].op, result |-> req[c].retval]]

Abs == INSTANCE BlockDevice WITH call <- AbsCall

(* Reads and writes of any number of threads are atomic: the scheduler     *)
(* executes each request once, and a call returns only after that, with    *)
(* the driver's own answer.                                                *)
LinearizableIO == Abs!Spec

(* Every request on the list is executed, although one notification may    *)
(* find several requests and another none.                                 *)
RequestsServed == \A c \in Caller : (c \in Queued) ~> (req[c].bDone)

(* "Block until operation complete": a call sleeps until its request is    *)
(* complete, and no longer; once it is, the call returns.                  *)
CallsReturn == \A c \in Caller : (pc[c] # "idle" /\ req[c].bDone) ~> (pc[c] = "idle")
=============================================================================
