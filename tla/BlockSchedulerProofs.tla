------------------------ MODULE BlockSchedulerProofs ------------------------
(***************************************************************************)
(* For any set of callers, addresses and block contents: what bt_list does *)
(* to a list of requests, the inductive invariant IInv of the block        *)
(* scheduler, the two safety properties that follow from it, and the       *)
(* refinement of the atomic BlockDevice.                                   *)
(***************************************************************************)
EXTENDS BlockScheduler, TLAPS

-----------------------------------------------------------------------------
(* What bt_list_add and bt_list_del do to a well-formed list, for every    *)
(* set of nodes, finite or not.                                            *)

(* BT_LIST_INIT_HEAD gives a list with no items.                           *)
LEMMA InitWellFormed ==
    ASSUME NEW N, NEW h \in N
    PROVE  /\ ListType(ListInit(N), N)
           /\ WellFormed(ListInit(N), {}, h)
<1>1. Ordered(ListInit(N), {}, {})
  BY Zenon DEF Ordered
<1>2. {} \in SUBSET ({} \X {})
  BY Zenon
<1>3. Linked(ListInit(N), {}, h)
  BY Zenon DEF Linked, ListInit
<1>4. ListType(ListInit(N), N)
  BY Zenon DEF ListType, ListInit
<1> QED
  BY <1>1, <1>2, <1>3, <1>4, Zenon DEF WellFormed

(* bt_list_add of a node that is on no list puts it in front: the list     *)
(* gains exactly that item, and only the head and the node change their    *)
(* next pointer.                                                           *)
LEMMA AddWellFormed ==
    ASSUME NEW N, NEW l, ListType(l, N),
           NEW S \in SUBSET N, NEW h \in N, NEW x \in N,
           x \notin S, x # h, WellFormed(l, S, h)
    PROVE  /\ ListType(ListAdd(l, x, h), N)
           /\ WellFormed(ListAdd(l, x, h), S \cup {x}, h)
           /\ \A n \in N \ {x, h} : ListAdd(l, x, h).next[n] = l.next[n]
<1> DEFINE m == ListAdd(l, x, h)
           T == S \cup {x}
           f == l.next[h]
<1>1. /\ l.next \in [N -> N] /\ l.prev \in [N -> N]
      /\ h \notin S /\ f \in S \cup {h} /\ f \in N
  BY Zenon DEF ListType, WellFormed, Linked
<1>2. /\ m.prev = [l.prev EXCEPT ![f] = x, ![x] = h]
      /\ m.next = [l.next EXCEPT ![x] = f, ![h] = x]
  BY Zenon DEF ListAdd, ListInsert
<1>3. ListType(m, N)
  BY <1>1, Zenon DEF ListAdd, ListInsert, ListType
<1> HIDE DEF m
<1>4. Linked(m, T, h)
  BY <1>1, <1>2 DEF Linked, WellFormed
<1>5. PICK R \in SUBSET (S \X S) : Ordered(l, S, R)
  BY Zenon DEF WellFormed
<1> DEFINE Q == R \cup ({x} \X S)
<1>6. Q \in SUBSET (T \X T)
  BY Zenon
<1>7. \A a, b : <<a, b>> \in Q <=> <<a, b>> \in R \/ (a = x /\ b \in S)
  BY Zenon
<1>8. \A a, b : <<a, b>> \in R => a \in S /\ b \in S
  BY Zenon
<1> HIDE DEF Q
<1>9. \A a \in T : m.next[a] \in T => <<a, m.next[a]>> \in Q
  <2> SUFFICES ASSUME NEW a \in T, m.next[a] \in T
               PROVE  <<a, m.next[a]>> \in Q
    BY Zenon
  <2>1. CASE a = x
    BY <1>1, <1>2, <1>7, <2>1
  <2>2. CASE a # x
    <3>1. a \in S /\ a \in N /\ a # h
      BY <1>1, <2>2, Zenon
    <3>2. m.next[a] = l.next[a]
      BY <1>1, <1>2, <2>2, <3>1, Zenon
    <3>3. l.next[a] \in S
      BY <1>1, <3>1, <3>2, Zenon DEF WellFormed, Linked
    <3> QED
      BY <1>5, <1>7, <3>1, <3>2, <3>3, Zenon DEF Ordered
  <2> QED
    BY <2>1, <2>2, Zenon
<1>10. Ordered(m, T, Q)
  <2>1. \A a \in T : <<a, a>> \notin Q
    BY <1>5, <1>7, <1>8, Zenon DEF Ordered
  <2>2. \A a, b, c \in T : <<a, b>> \in Q /\ <<b, c>> \in Q => <<a, c>> \in Q
    BY <1>5, <1>7, <1>8, Zenon DEF Ordered
  <2> QED
    BY <1>6, <1>9, <2>1, <2>2, Zenon DEF Ordered
<1>11. WellFormed(m, T, h)
  BY <1>1, <1>4, <1>6, <1>10, Zenon DEF WellFormed
<1>12. \A n \in N \ {x, h} : m.next[n] = l.next[n]
  BY <1>1, <1>2, Zenon
<1> QED
  BY <1>3, <1>11, <1>12, Zenon DEF m

(* bt_list_del of an item of the list removes exactly that item; its       *)
(* successor is another item that stays on the list, or the head.          *)
LEMMA DelWellFormed ==
    ASSUME NEW N, NEW l, ListType(l, N),
           NEW S \in SUBSET N, NEW h \in N, NEW e \in S, WellFormed(l, S, h)
    PROVE  /\ ListType(ListDel(l, e), N)
           /\ WellFormed(ListDel(l, e), S \ {e}, h)
           /\ l.next[e] \in (S \ {e}) \cup {h}
<1> DEFINE m == ListDel(l, e)
           T == S \ {e}
<1>1. /\ l.next \in [N -> N] /\ l.prev \in [N -> N] /\ h \notin S /\ e \in N
      /\ l.next[e] \in S \cup {h} /\ l.prev[e] \in S \cup {h}
  BY Zenon DEF ListType, WellFormed, Linked
<1>2. /\ m.prev = [l.prev EXCEPT ![l.next[e]] = l.prev[e]]
      /\ m.next = [l.next EXCEPT ![l.prev[e]] = l.next[e]]
  BY Zenon DEF ListDel
<1>3. ListType(m, N)
  BY <1>1, Zenon DEF ListDel, ListType
<1> HIDE DEF m
<1>5. PICK R \in SUBSET (S \X S) : Ordered(l, S, R)
  BY Zenon DEF WellFormed
<1>6. l.next[e] # e /\ l.prev[e] # e
  BY <1>1, <1>5, Zenon DEF Ordered, WellFormed, Linked
<1>4. Linked(m, T, h)
  BY <1>1, <1>2, <1>6 DEF Linked, WellFormed
<1> DEFINE Q == R \cap (T \X T)
<1>7. Q \in SUBSET (T \X T)
  BY Zenon
<1>8. \A a, b : <<a, b>> \in Q <=> <<a, b>> \in R /\ a \in T /\ b \in T
  BY Zenon
<1> HIDE DEF Q
<1>9. \A a \in T : m.next[a] \in T => <<a, m.next[a]>> \in Q
  <2> SUFFICES ASSUME NEW a \in T, m.next[a] \in T
               PROVE  <<a, m.next[a]>> \in R
    BY <1>8, Zenon
  <2>1. CASE a = l.prev[e]
    <3>1. m.next[a] = l.next[e] /\ l.next[a] = e
      BY <1>1, <1>2, <2>1, Zenon DEF Linked, WellFormed
    <3>2. <<a, e>> \in R /\ <<e, l.next[e]>> \in R
      BY <1>5, <3>1, Zenon DEF Ordered
    <3> QED
      BY <1>5, <3>1, <3>2, Zenon DEF Ordered
  <2>2. CASE a # l.prev[e]
    BY <1>1, <1>2, <1>5, <2>2, Zenon DEF Ordered
  <2> QED
    BY <2>1, <2>2, Zenon
<1>10. Ordered(m, T, Q)
  <2>1. \A a \in T : <<a, a>> \notin Q
    BY <1>5, <1>8, Zenon DEF Ordered
  <2>2. \A a, b, c \in T : <<a, b>> \in Q /\ <<b, c>> \in Q => <<a, c>> \in Q
    BY <1>5, <1>8, Zenon DEF Ordered
  <2> QED
    BY <1>7, <1>9, <2>1, <2>2, Zenon DEF Ordered
<1>11. WellFormed(m, T, h)
  BY <1>1, <1>4, <1>7, <1>10, Zenon DEF WellFormed
<1> QED
  BY <1>1, <1>3, <1>6, <1>11, Zenon DEF m

(* A list does not depend on the pointers of nodes that are not on it.     *)
LEMMA FrameWellFormed ==
    ASSUME NEW l, NEW m, NEW S, NEW h, WellFormed(l, S, h),
           \A n \in S \cup {h} : m.next[n] = l.next[n] /\ m.prev[n] = l.prev[n]
    PROVE  WellFormed(m, S, h)
<1>1. Linked(m, S, h)
  BY DEF WellFormed, Linked
<1>2. PICK R \in SUBSET (S \X S) : Ordered(l, S, R)
  BY Zenon DEF WellFormed
<1>3. Ordered(m, S, R)
  BY <1>2, Zenon DEF Ordered
<1> QED
  BY <1>1, <1>2, <1>3, Zenon DEF WellFormed

-----------------------------------------------------------------------------

\* A frame nobody owns still has the type of struct bt_block_request.
LEMMA NoFrameType ==
    NoFrame \in [op : Op, bDone : BOOLEAN, retval : Result \cup {NoResult}]
<1>1. PICK a \in Addr, d \in Data : TRUE
  BY SomeBlock, Zenon
<1>2. [write_nRead |-> TRUE, ulAddress |-> a, data |-> d] \in Op
  BY Zenon DEF Op
<1>3. NoOp \in Op
  BY <1>2, Zenon DEF NoOp
<1> QED
  BY <1>3, Zenon DEF NoFrame

\* A driver transfer leaves a well-typed medium.
LEMMA TransferType ==
    ASSUME NEW op \in Op, NEW d \in [Addr -> Data], NEW newd, NEW r, Transfer(op, d, newd, r)
    PROVE  newd \in [Addr -> Data]
<1>1. Written(d, op) \in [Addr -> Data]
  BY Zenon DEF Written, Op
<1> QED
  BY <1>1, Zenon DEF Transfer

\* Following next from the head or from a queued request stays on g_requests.
LEMMA NextInList ==
    ASSUME IInv
    PROVE  /\ \A n \in Node : links.next[n] \in Node
           /\ \A n \in Queued \cup {HEAD} : links.next[n] \in Queued \cup {HEAD}
           /\ Queued \subseteq Node /\ HEAD \in Node /\ HEAD \notin Queued
BY HeadIsNoCaller DEF IInv, TypeOK, ListType, WellFormed, Linked, Queued, Node

(* The initial states satisfy the invariant: nobody is in a call and       *)
(* g_requests is empty.                                                    *)
LEMMA InitIInv == Init => IInv
<1> SUFFICES ASSUME Init PROVE IInv
  BY Zenon
<1>1. Queued = {}
  BY Zenon DEF Init, Queued
<1>2. WellFormed(links, Queued, HEAD) /\ ListType(links, Node)
  BY <1>1, InitWellFormed, HEAD \in Node, Zenon DEF Init, Node
<1>3. TypeOK
  BY <1>2, NoFrameType, Zenon DEF Init, TypeOK, Node
<1>4. MutexInv /\ FrameInv
  BY Zenon DEF Init, MutexInv, FrameInv, NoFrame
<1>5. CursorInv
  BY Zenon DEF Init, CursorInv
<1> QED
  BY <1>2, <1>3, <1>4, <1>5, Zenon DEF IInv

\* A new call fills its own stack frame and disturbs no other part of IInv.
LEMMA BlockCallIInv ==
    ASSUME IInv, NEW c \in Caller, NEW op \in Op, BlockCall(c, op)
    PROVE  IInv'
<1> USE DEF IInv
<1>1. Queued' = Queued
  BY Zenon DEF BlockCall, Queued, TypeOK, FrameInv, syncVars, schedVars
<1>2. WellFormed(links, Queued, HEAD)' /\ ListType(links, Node)'
  BY <1>1, Zenon DEF BlockCall, TypeOK, syncVars, schedVars
<1>3. TypeOK'
  BY <1>2, Zenon DEF BlockCall, TypeOK, syncVars, schedVars
<1>4. MutexInv'
  BY Zenon DEF BlockCall, TypeOK, MutexInv, syncVars, schedVars
<1>5. FrameInv'
  BY DEF BlockCall, TypeOK, FrameInv, NoFrame, syncVars, schedVars
<1>6. CursorInv'
  BY <1>1, <1>2, Zenon DEF BlockCall, TypeOK, CursorInv, MutexInv, syncVars, schedVars
<1> QED
  BY <1>2, <1>3, <1>4, <1>5, <1>6, Zenon

\* Taking g_list_mutex: only one thread can then be inside it.
LEMMA SchedulePendIInv ==
    ASSUME IInv, NEW c \in Caller, SchedulePend(c)
    PROVE  IInv'
<1> USE DEF IInv
<1>1. Queued' = Queued
  BY Zenon DEF SchedulePend, Queued, TypeOK, FrameInv, syncVars, schedVars
<1>2. WellFormed(links, Queued, HEAD)' /\ ListType(links, Node)'
  BY <1>1, Zenon DEF SchedulePend, TypeOK, syncVars, schedVars
<1>3. TypeOK'
  BY <1>2, Zenon DEF SchedulePend, TypeOK, syncVars, schedVars
<1>4. MutexInv'
  BY Zenon DEF SchedulePend, TypeOK, MutexInv, syncVars, schedVars
<1>5. FrameInv'
  BY Zenon DEF SchedulePend, TypeOK, FrameInv, NoFrame, syncVars, schedVars
<1>6. CursorInv'
  BY <1>1, <1>2, Zenon DEF SchedulePend, TypeOK, CursorInv, MutexInv, syncVars, schedVars
<1> QED
  BY <1>2, <1>3, <1>4, <1>5, <1>6, Zenon

\* bt_list_add behind the head: the list gains the request, and the cursor's
\* saved successor stays the successor of the request under transfer.
LEMMA ScheduleAddIInv ==
    ASSUME IInv, NEW c \in Caller, ScheduleAdd(c)
    PROVE  IInv'
<1> USE DEF IInv
<1>1. c \notin Queued /\ Queued' = Queued \cup {c}
  BY Zenon DEF ScheduleAdd, Queued, TypeOK, FrameInv, syncVars, schedVars
<1>2. /\ WellFormed(links, Queued, HEAD)' /\ ListType(links, Node)'
      /\ \A n \in Node \ {c, HEAD} : links'.next[n] = links.next[n]
  <2>1. /\ ListType(links, Node) /\ Queued \in SUBSET Node /\ HEAD \in Node
        /\ c \in Node /\ c # HEAD
    BY HeadIsNoCaller, Zenon DEF TypeOK, Queued, Node
  <2>2. /\ ListType(ListAdd(links, c, HEAD), Node)
        /\ WellFormed(ListAdd(links, c, HEAD), Queued \cup {c}, HEAD)
        /\ \A n \in Node \ {c, HEAD} : ListAdd(links, c, HEAD).next[n] = links.next[n]
    <3> HIDE DEF IInv
    <3>1. WellFormed(links, Queued, HEAD) /\ c \notin Queued
      BY <1>1, Zenon DEF IInv
    <3> QED
      BY ONLY <2>1, <3>1, AddWellFormed, SMTT(30)
  <2> QED
    BY <1>1, <2>2, Zenon DEF ScheduleAdd
<1>3. TypeOK'
  BY <1>2, Zenon DEF ScheduleAdd, TypeOK, syncVars, schedVars
<1>4. MutexInv'
  BY Zenon DEF ScheduleAdd, TypeOK, MutexInv, syncVars, schedVars
<1>5. FrameInv'
  BY Zenon DEF ScheduleAdd, TypeOK, FrameInv, NoFrame, syncVars, schedVars
<1>6. CursorInv'
  <2>1. spc \in {"io", "relock", "take", "pend"} /\ UNCHANGED <<spc, pos, nxt>>
    BY Zenon DEF ScheduleAdd, MutexInv, TypeOK, schedVars
  <2>2. spc \in {"io", "relock"} => pos \in Node \ {c, HEAD}
    BY <1>1, NextInList, Zenon DEF CursorInv
  <2> QED
    BY <1>1, <1>2, <2>1, <2>2, Zenon DEF CursorInv
<1> QED
  BY <1>2, <1>3, <1>4, <1>5, <1>6, Zenon

\* The notification changes neither the list nor a frame.
LEMMA ScheduleNotifyIInv ==
    ASSUME IInv, NEW c \in Caller, ScheduleNotify(c)
    PROVE  IInv'
<1> USE DEF IInv
<1>1. Queued' = Queued
  BY Zenon DEF ScheduleNotify, Queued, TypeOK, FrameInv, syncVars, schedVars
<1>2. WellFormed(links, Queued, HEAD)' /\ ListType(links, Node)'
  BY <1>1, Zenon DEF ScheduleNotify, TypeOK, syncVars, schedVars
<1>3. TypeOK'
  BY <1>2 DEF ScheduleNotify, TypeOK, syncVars, schedVars
<1>4. MutexInv'
  BY Zenon DEF ScheduleNotify, TypeOK, MutexInv, syncVars, schedVars
<1>5. FrameInv'
  BY Zenon DEF ScheduleNotify, TypeOK, FrameInv, NoFrame, syncVars, schedVars
<1>6. CursorInv'
  BY <1>1, <1>2, Zenon DEF ScheduleNotify, TypeOK, CursorInv, MutexInv, syncVars, schedVars
<1> QED
  BY <1>2, <1>3, <1>4, <1>5, <1>6, Zenon

\* A caller whose request is not done goes to sleep with it still queued.
LEMMA ExecTestIInv ==
    ASSUME IInv, NEW c \in Caller, ExecTest(c)
    PROVE  IInv'
<1> USE DEF IInv
<1>1. Queued' = Queued
  BY Zenon DEF ExecTest, Queued, TypeOK, FrameInv, syncVars, schedVars
<1>2. WellFormed(links, Queued, HEAD)' /\ ListType(links, Node)'
  BY <1>1, Zenon DEF ExecTest, TypeOK, syncVars, schedVars
<1>3. TypeOK'
  BY <1>2, Zenon DEF ExecTest, TypeOK, syncVars, schedVars
<1>4. MutexInv'
  BY Zenon DEF ExecTest, TypeOK, MutexInv, syncVars, schedVars
<1>5. FrameInv'
  BY Zenon DEF ExecTest, TypeOK, FrameInv, NoFrame, syncVars, schedVars
<1>6. CursorInv'
  BY <1>1, <1>2, Zenon DEF ExecTest, TypeOK, CursorInv, MutexInv, syncVars, schedVars
<1> QED
  BY <1>2, <1>3, <1>4, <1>5, <1>6, Zenon

\* A caller returns only after its request left the list, so giving up the
\* frame and its links takes nothing from g_requests.
LEMMA ExecReturnIInv ==
    ASSUME IInv, NEW c \in Caller, ExecReturn(c)
    PROVE  IInv'
<1> USE DEF IInv
<1>1. Queued' = Queued
  BY Zenon DEF ExecReturn, Queued, TypeOK, FrameInv, syncVars, schedVars
<1>2. /\ WellFormed(links, Queued, HEAD)' /\ ListType(links, Node)'
      /\ c \notin Queued /\ c # HEAD
      /\ \A n \in Node \ {c} : links'.next[n] = links.next[n]
  <2>1. /\ c \notin Queued /\ c # HEAD /\ c \in Node
    BY HeadIsNoCaller, Zenon DEF ExecReturn, Queued, Node
  <2>2. /\ links' \in [next : [Node -> Node], prev : [Node -> Node]]
        /\ \A n \in Node \ {c} : /\ links'.next[n] = links.next[n]
                                   /\ links'.prev[n] = links.prev[n]
    BY <2>1, Zenon DEF ExecReturn, TypeOK, ListType, Forget
  <2>3. Queued \cup {HEAD} \subseteq Node \ {c}
    BY <2>1, HeadIsNoCaller, Zenon DEF Queued, Node
  <2>4. WellFormed(links', Queued, HEAD)
    BY <2>2, <2>3, FrameWellFormed, Zenon
  <2> QED
    BY <1>1, <2>1, <2>2, <2>4, Zenon DEF ListType
<1>3. TypeOK'
  BY <1>2, NoFrameType, Zenon DEF ExecReturn, TypeOK, syncVars, schedVars
<1>4. MutexInv'
  BY Zenon DEF ExecReturn, TypeOK, MutexInv, syncVars, schedVars
<1>5. FrameInv'
  <2>1. spc \in {"relock", "del"} => pos # c
    BY <1>2, Zenon DEF CursorInv
  <2> QED
    BY <2>1, Zenon DEF ExecReturn, TypeOK, FrameInv, NoFrame, schedVars
<1>6. CursorInv'
  BY <1>1, <1>2, Zenon DEF ExecReturn, TypeOK, CursorInv, MutexInv, syncVars, schedVars
<1> QED
  BY <1>2, <1>3, <1>4, <1>5, <1>6, Zenon

\* Waiting for the event bit changes neither the list nor a frame.
LEMMA ExecWaitBitsIInv ==
    ASSUME IInv, NEW c \in Caller, ExecWaitBits(c)
    PROVE  IInv'
<1> USE DEF IInv
<1>1. Queued' = Queued
  BY Zenon DEF ExecWaitBits, Queued, TypeOK, FrameInv, syncVars, schedVars
<1>2. WellFormed(links, Queued, HEAD)' /\ ListType(links, Node)'
  BY <1>1, Zenon DEF ExecWaitBits, TypeOK, syncVars, schedVars
<1>3. TypeOK'
  BY <1>2, Zenon DEF ExecWaitBits, TypeOK, syncVars, schedVars
<1>4. MutexInv'
  BY Zenon DEF ExecWaitBits, TypeOK, MutexInv, syncVars, schedVars
<1>5. FrameInv'
  BY Zenon DEF ExecWaitBits, TypeOK, FrameInv, NoFrame, syncVars, schedVars
<1>6. CursorInv'
  BY <1>1, <1>2, Zenon DEF ExecWaitBits, TypeOK, CursorInv, MutexInv, syncVars, schedVars
<1> QED
  BY <1>2, <1>3, <1>4, <1>5, <1>6, Zenon

\* The scheduler consumes a notification.
LEMMA SchedTakeIInv ==
    ASSUME IInv, SchedTake
    PROVE  IInv'
<1> USE DEF IInv
<1>1. Queued' = Queued
  BY Zenon DEF SchedTake, Queued, TypeOK, FrameInv, syncVars, schedVars
<1>2. WellFormed(links, Queued, HEAD)' /\ ListType(links, Node)'
  BY <1>1, Zenon DEF SchedTake, TypeOK, syncVars, schedVars
<1>3. TypeOK'
  BY <1>2 DEF SchedTake, TypeOK, syncVars, schedVars
<1>4. MutexInv'
  BY Zenon DEF SchedTake, TypeOK, MutexInv, syncVars, schedVars
<1>5. FrameInv'
  BY Zenon DEF SchedTake, TypeOK, FrameInv, NoFrame, syncVars, schedVars
<1>6. CursorInv'
  BY <1>1, <1>2, Zenon DEF SchedTake, TypeOK, CursorInv, MutexInv, syncVars, schedVars
<1> QED
  BY <1>2, <1>3, <1>4, <1>5, <1>6, Zenon

\* The scheduler starts its walk: cursor and saved successor are on the list.
LEMMA SchedPendIInv ==
    ASSUME IInv, SchedPend
    PROVE  IInv'
<1> USE DEF IInv
<1>1. Queued' = Queued
  BY Zenon DEF SchedPend, Queued, TypeOK, FrameInv, syncVars, schedVars
<1>2. WellFormed(links, Queued, HEAD)' /\ ListType(links, Node)'
  BY <1>1, Zenon DEF SchedPend, TypeOK, syncVars, schedVars
<1>3. TypeOK'
  BY <1>2, NextInList, Zenon DEF SchedPend, TypeOK, syncVars, schedVars
<1>4. MutexInv'
  BY Zenon DEF SchedPend, TypeOK, MutexInv, syncVars, schedVars
<1>5. FrameInv'
  BY Zenon DEF SchedPend, TypeOK, FrameInv, NoFrame, syncVars, schedVars
<1>6. CursorInv'
  BY <1>1, NextInList, Zenon DEF SchedPend, TypeOK, CursorInv, syncVars, schedVars
<1> QED
  BY <1>2, <1>3, <1>4, <1>5, <1>6, Zenon

\* The scheduler releases g_list_mutex before a transfer or at the end.
LEMMA SchedLoopIInv ==
    ASSUME IInv, SchedLoop
    PROVE  IInv'
<1> USE DEF IInv
<1>1. Queued' = Queued
  BY Zenon DEF SchedLoop, Queued, TypeOK, FrameInv, syncVars, schedVars
<1>2. WellFormed(links, Queued, HEAD)' /\ ListType(links, Node)'
  BY <1>1, Zenon DEF SchedLoop, TypeOK, syncVars, schedVars
<1>3. TypeOK'
  BY <1>2, Zenon DEF SchedLoop, TypeOK, syncVars, schedVars
<1>4. MutexInv'
  BY Zenon DEF SchedLoop, TypeOK, MutexInv, syncVars, schedVars
<1>5. FrameInv'
  BY Zenon DEF SchedLoop, TypeOK, FrameInv, NoFrame, syncVars, schedVars
<1>6. CursorInv'
  BY <1>1, <1>2, Zenon DEF SchedLoop, TypeOK, CursorInv, MutexInv, syncVars, schedVars
<1> QED
  BY <1>2, <1>3, <1>4, <1>5, <1>6, Zenon

\* The transfer writes retval in the frame of a queued request only.
LEMMA SchedIOIInv ==
    ASSUME IInv, SchedIO
    PROVE  IInv'
<1> USE DEF IInv
<1>1. Queued' = Queued
  BY DEF SchedIO, Queued, TypeOK, FrameInv, syncVars, schedVars
<1>2. WellFormed(links, Queued, HEAD)' /\ ListType(links, Node)'
  BY <1>1, Zenon DEF SchedIO, TypeOK, syncVars, schedVars
<1>3. TypeOK'
  <2>1. pos \in Caller /\ req[pos].op \in Op
    BY Zenon DEF SchedIO, CursorInv, Queued, TypeOK
  <2> QED
    BY <1>2, <2>1, TransferType DEF SchedIO, TypeOK, syncVars
<1>4. MutexInv'
  BY Zenon DEF SchedIO, TypeOK, MutexInv, syncVars, schedVars
<1>5. FrameInv'
  <2>1. pos \in Caller /\ pc[pos] \notin {"idle", "schedule", "add"}
    BY Zenon DEF SchedIO, CursorInv, Queued
  <2>2. PICK r \in Result : req' = [req EXCEPT ![pos].retval = r]
    BY Zenon DEF SchedIO
  <2> QED
    BY <2>1, <2>2, NoResultIsNoResult DEF SchedIO, TypeOK, FrameInv
<1>6. CursorInv'
  BY <1>1, <1>2, Zenon DEF SchedIO, TypeOK, CursorInv, MutexInv, syncVars, schedVars
<1> QED
  BY <1>2, <1>3, <1>4, <1>5, <1>6, Zenon

\* The scheduler takes g_list_mutex again after the transfer.
LEMMA SchedRelockIInv ==
    ASSUME IInv, SchedRelock
    PROVE  IInv'
<1> USE DEF IInv
<1>1. Queued' = Queued
  BY Zenon DEF SchedRelock, Queued, TypeOK, FrameInv, syncVars, schedVars
<1>2. WellFormed(links, Queued, HEAD)' /\ ListType(links, Node)'
  BY <1>1, Zenon DEF SchedRelock, TypeOK, syncVars, schedVars
<1>3. TypeOK'
  BY <1>2, Zenon DEF SchedRelock, TypeOK, syncVars, schedVars
<1>4. MutexInv'
  BY Zenon DEF SchedRelock, TypeOK, MutexInv, syncVars, schedVars
<1>5. FrameInv'
  BY Zenon DEF SchedRelock, TypeOK, FrameInv, NoFrame, syncVars, schedVars
<1>6. CursorInv'
  BY <1>1, <1>2, Zenon DEF SchedRelock, TypeOK, CursorInv, MutexInv, syncVars, schedVars
<1> QED
  BY <1>2, <1>3, <1>4, <1>5, <1>6, Zenon

\* bt_list_del and bDone: the request leaves the list and Queued together,
\* and the saved successor is still on the list.
LEMMA SchedCompleteIInv ==
    ASSUME IInv, SchedComplete
    PROVE  IInv'
<1> USE DEF IInv
<1>1. pos \in Queued /\ Queued' = Queued \ {pos}
  <2>1. pos \in Queued
    BY Zenon DEF SchedComplete, CursorInv
  <2> QED
    BY <2>1, Zenon DEF SchedComplete, Queued, TypeOK
<1>2. /\ WellFormed(links, Queued, HEAD)' /\ ListType(links, Node)'
      /\ links.next[pos] \in Queued' \cup {HEAD}
  <2>1. ListType(links, Node) /\ Queued \in SUBSET Node /\ HEAD \in Node
    BY NextInList, Zenon DEF TypeOK
  <2> QED
    BY <1>1, <2>1, DelWellFormed, Zenon DEF SchedComplete
<1>3. TypeOK'
  BY <1>2, Zenon DEF SchedComplete, TypeOK, syncVars, schedVars
<1>4. MutexInv'
  BY Zenon DEF SchedComplete, TypeOK, MutexInv, syncVars, schedVars
<1>5. FrameInv'
  <2>1. pos \in Caller /\ pc[pos] \notin {"idle", "schedule", "add"}
    BY <1>1, Zenon DEF Queued
  <2> QED
    BY <2>1, Zenon DEF SchedComplete, TypeOK, FrameInv
<1>6. CursorInv'
  BY <1>1, <1>2, Zenon DEF SchedComplete, TypeOK, CursorInv, MutexInv, syncVars, schedVars
<1> QED
  BY <1>2, <1>3, <1>4, <1>5, <1>6, Zenon

\* The cursor moves to the saved successor, which is still queued.
LEMMA SchedSetBitsIInv ==
    ASSUME IInv, SchedSetBits
    PROVE  IInv'
<1> USE DEF IInv
<1>1. Queued' = Queued
  BY Zenon DEF SchedSetBits, Queued, TypeOK, FrameInv, syncVars, schedVars
<1>2. WellFormed(links, Queued, HEAD)' /\ ListType(links, Node)'
  BY <1>1, Zenon DEF SchedSetBits, TypeOK, syncVars, schedVars
<1>3. TypeOK'
  BY <1>2, NextInList, Zenon DEF SchedSetBits, TypeOK, syncVars, schedVars
<1>4. MutexInv'
  BY Zenon DEF SchedSetBits, TypeOK, MutexInv, syncVars, schedVars
<1>5. FrameInv'
  BY Zenon DEF SchedSetBits, TypeOK, FrameInv, NoFrame, syncVars, schedVars
<1>6. CursorInv'
  BY <1>1, <1>2, Zenon DEF SchedSetBits, TypeOK, CursorInv, MutexInv, syncVars, schedVars
<1> QED
  BY <1>2, <1>3, <1>4, <1>5, <1>6, Zenon

(* Every step of every thread preserves the invariant.                     *)
LEMMA NextIInv == IInv /\ [Next]_vars => IInv'
<1> SUFFICES ASSUME IInv, [Next]_vars PROVE IInv'
  BY Zenon
<1>1. ASSUME NEW c \in Caller, NEW op \in Op, BlockCall(c, op) PROVE IInv'
  BY <1>1, BlockCallIInv, Zenon
<1>2. ASSUME NEW c \in Caller, CallerStep(c) PROVE IInv'
  BY <1>2, SchedulePendIInv, ScheduleAddIInv, ScheduleNotifyIInv, ExecTestIInv,
     ExecReturnIInv, ExecWaitBitsIInv, Zenon DEF CallerStep
<1>3. CASE SchedStep
  BY <1>3, SchedTakeIInv, SchedPendIInv, SchedLoopIInv, SchedIOIInv, SchedRelockIInv,
     SchedCompleteIInv, SchedSetBitsIInv, Zenon DEF SchedStep
<1>4. CASE UNCHANGED vars
  <2>1. Queued' = Queued
    BY <1>4, Zenon DEF vars, Queued
  <2> QED
    BY <1>4, <2>1, Zenon DEF vars, IInv, TypeOK, MutexInv, FrameInv, CursorInv
<1> QED
  BY <1>1, <1>2, <1>3, <1>4, Zenon DEF Next

(* IInv is an invariant of the block scheduler.                            *)
THEOREM Invariance == Spec => []IInv
<1> QED
  BY InitIInv, NextIInv, PTL DEF Spec

(* Type correctness, for every value of the constants.                     *)
THEOREM TypeCorrect == Spec => []TypeOK
<1>1. IInv => TypeOK
  BY Zenon DEF IInv
<1> QED
  BY <1>1, Invariance, PTL

(* The list mutex protects g_requests: whenever it is free the list holds  *)
(* exactly the requests that wait, however many threads are in a call.     *)
THEOREM ListAlwaysIntact == Spec => []ListIntact
<1>1. IInv => ListIntact
  BY Zenon DEF IInv, ListIntact
<1> QED
  BY <1>1, Invariance, PTL

(* The scheduler's cursor never dangles, although the mutex is released    *)
(* during the transfer and requests live on the stacks of their callers.   *)
THEOREM CursorAlwaysAlive == Spec => []CursorAlive
<1>1. ASSUME IInv PROVE CursorAlive
  BY <1>1, NextInList, Zenon DEF IInv, CursorInv, CursorAlive
<1> QED
  BY <1>1, Invariance, PTL

-----------------------------------------------------------------------------
(* The refinement.  A step that leaves alone which callers are idle, what  *)
(* they asked for and what they were answered is invisible to callers.     *)
LEMMA Invisible ==
    ASSUME IInv, UNCHANGED disk,
           \A c \in Caller : /\ (pc'[c] = "idle") = (pc[c] = "idle")
                             /\ req'[c].op = req[c].op
                             /\ req'[c].retval = req[c].retval
    PROVE  UNCHANGED <<disk, AbsCall>>
BY Zenon DEF AbsCall

\* Both specifications speak of the same requests.
LEMMA SameOps == Abs!Op = Op
<1>1. Abs!Unfilled = Unfilled
  BY Zenon DEF Abs!Unfilled, Unfilled
<1> QED
  BY <1>1, Zenon DEF Abs!Op, Op

\* A new call is a Call of the abstract device.
LEMMA CallStep ==
    ASSUME IInv, NEW c \in Caller, NEW op \in Op, BlockCall(c, op)
    PROVE  Abs!Call(c, op)
<1>1. AbsCall[c] = Abs!Idle
  BY Zenon DEF BlockCall, AbsCall, Abs!Idle
<1>2. AbsCall' = [AbsCall EXCEPT ![c] = Abs!Pending(op)]
  BY Zenon DEF IInv, BlockCall, TypeOK, AbsCall, Abs!Pending
<1> QED
  BY <1>1, <1>2, Zenon DEF BlockCall, Abs!Call

\* A return is a Return of the abstract device.
LEMMA ReturnStep ==
    ASSUME IInv, NEW c \in Caller, ExecReturn(c)
    PROVE  Abs!Return(c)
<1>1. AbsCall[c].state = "answered"
  BY Zenon DEF IInv, ExecReturn, FrameInv, AbsCall
<1>2. AbsCall' = [AbsCall EXCEPT ![c] = Abs!Idle]
  BY Zenon DEF IInv, ExecReturn, TypeOK, AbsCall, Abs!Idle
<1> QED
  BY <1>1, <1>2, Zenon DEF ExecReturn, Abs!Return

\* The driver transfer is the instant at which the abstract call is performed.
LEMMA PerformStep ==
    ASSUME IInv, SchedIO
    PROVE  pos \in Caller /\ Abs!Perform(pos)
<1>1. /\ pos \in Caller /\ pc[pos] # "idle" /\ ~req[pos].bDone
      /\ spc = "io" /\ pc' = pc
  BY Zenon DEF IInv, SchedIO, CursorInv, Queued
<1>2. PICK r \in Result : /\ Transfer(req[pos].op, disk, disk', r)
                          /\ req' = [req EXCEPT ![pos].retval = r]
  BY Zenon DEF SchedIO
<1>3. req[pos].op \in Op /\ req[pos].retval = NoResult
  BY <1>1, Zenon DEF IInv, TypeOK, FrameInv
<1>4. AbsCall[pos] = Abs!Pending(req[pos].op)
  BY <1>1, <1>3, Zenon DEF AbsCall, Abs!Pending
<1>5. AbsCall' = [AbsCall EXCEPT ![pos] = Abs!Answered(req[pos].op, r)]
  BY <1>1, <1>2, NoResultIsNoResult, Zenon DEF IInv, TypeOK, AbsCall, Abs!Answered
<1> QED
  BY <1>1, <1>2, <1>3, <1>4, <1>5, SameOps, Zenon
  DEF Abs!Perform, Abs!Result, Abs!Transfer, Abs!Written, Result, Transfer, Written

(* The scheduler build implements the atomic block device: a call starts   *)
(* with BlockCall, takes effect in SchedIO and returns with ExecReturn;    *)
(* no other step of any thread can be seen by a caller.                    *)
THEOREM Linearizable == Spec => LinearizableIO
<1>1. Init => Abs!Init
  BY Zenon DEF Init, NoFrame, AbsCall, Abs!Init, Abs!Idle
<1>2. IInv /\ [Next]_vars => [Abs!Next]_<<disk, AbsCall>>
  <2> SUFFICES ASSUME IInv, [Next]_vars PROVE [Abs!Next]_<<disk, AbsCall>>
    BY Zenon
  <2>1. ASSUME NEW c \in Caller, NEW op \in Op, BlockCall(c, op) PROVE Abs!Next
    BY <2>1, CallStep, SameOps, Zenon DEF Abs!Next
  <2>2. ASSUME NEW c \in Caller, CallerStep(c) PROVE [Abs!Next]_<<disk, AbsCall>>
    <3>1. CASE ExecReturn(c)
      BY <3>1, ReturnStep, Zenon DEF Abs!Next
    <3>2. CASE \/ SchedulePend(c) \/ ScheduleAdd(c) \/ ScheduleNotify(c)
               \/ ExecTest(c) \/ ExecWaitBits(c)
      <4>1. UNCHANGED <<disk, req>> /\ \A d \in Caller : (pc'[d] = "idle") = (pc[d] = "idle")
        BY <3>2, Zenon DEF IInv, TypeOK, SchedulePend, ScheduleAdd, ScheduleNotify, ExecTest, ExecWaitBits
      <4> QED
        BY <4>1, Invisible, Zenon
    <3> QED
      BY <2>2, <3>1, <3>2, Zenon DEF CallerStep
  <2>3. CASE SchedIO
    BY <2>3, PerformStep, Zenon DEF Abs!Next
  <2>4. CASE SchedComplete
    <3>1. /\ UNCHANGED <<disk, pc>>
          /\ \A d \in Caller : req'[d].op = req[d].op /\ req'[d].retval = req[d].retval
      BY <2>4, Zenon DEF IInv, TypeOK, SchedComplete
    <3> QED
      BY <3>1, Invisible, Zenon
  <2>5. CASE SchedTake \/ SchedPend \/ SchedLoop \/ SchedRelock \/ SchedSetBits
    <3>1. UNCHANGED <<disk, req>> /\ \A d \in Caller : (pc'[d] = "idle") = (pc[d] = "idle")
      BY <2>5, Zenon DEF IInv, TypeOK, SchedTake, SchedPend, SchedLoop, SchedRelock, SchedSetBits
    <3> QED
      BY <3>1, Invisible, Zenon
  <2>6. CASE UNCHANGED vars
    BY <2>6, Zenon DEF vars, AbsCall
  <2> QED
    BY <2>1, <2>2, <2>3, <2>4, <2>5, <2>6, Zenon DEF Next, SchedStep
<1> QED
  BY <1>1, <1>2, Invariance, PTL DEF Spec, LinearizableIO, Abs!Spec
=============================================================================
