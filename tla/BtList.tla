------------------------------- MODULE BtList -------------------------------
(***************************************************************************)
(* The kernel's intrusive circular doubly linked list                      *)
(* (lib/include/collections/bt_list.h).  A list is a pair of pointer maps, *)
(* [next |-> ..., prev |-> ...], over a set of nodes that contains every   *)
(* list head and every embedded bt_list_head item.  Nothing stops a caller *)
(* from adding a node twice or deleting one twice: the operators do to the *)
(* pointers exactly what the C does, and WellFormed says when the pointers *)
(* still are the list h whose items are S.                                 *)
(***************************************************************************)

\* BT_LIST_INIT_HEAD: every node of N starts as an empty list of its own.
ListInit(N) == [next |-> [n \in N |-> n], prev |-> [n \in N |-> n]]

\* __bt_list_add(new, prev, next): four writes, in the order of the C.
ListInsert(l, new, prev, next) ==
    [prev |-> [l.prev EXCEPT ![next] = new, ![new] = prev],
     next |-> [l.next EXCEPT ![new] = next, ![prev] = new]]

\* bt_list_add: insert right after the head, so the newest item is first.
ListAdd(l, new, head) == ListInsert(l, new, head, l.next[head])

\* bt_list_del: unlink; the entry's own pointers are left as they were.
ListDel(l, entry) ==
    [prev |-> [l.prev EXCEPT ![l.next[entry]] = l.prev[entry]],
     next |-> [l.next EXCEPT ![l.prev[entry]] = l.next[entry]]]

-----------------------------------------------------------------------------
\* The pointer maps range over N.
ListType(l, N) == l \in [next : [N -> N], prev : [N -> N]]

\* next and prev stay within the list and are inverse to each other.
Linked(l, S, h) ==
    \A n \in S \cup {h} :
        /\ l.next[n] \in S \cup {h}
        /\ l.prev[n] \in S \cup {h}
        /\ l.next[l.prev[n]] = n
        /\ l.prev[l.next[n]] = n

\* Some strict order of the items agrees with next: no cycle avoids the head.
Ordered(l, S, R) ==
    /\ R \subseteq S \X S
    /\ \A a \in S : <<a, a>> \notin R
    /\ \A a, b, c \in S : <<a, b>> \in R /\ <<b, c>> \in R => <<a, c>> \in R
    /\ \A a \in S : l.next[a] \in S => <<a, l.next[a]>> \in R

WellFormed(l, S, h) ==
    /\ h \notin S
    /\ Linked(l, S, h)
    /\ \E R \in SUBSET (S \X S) : Ordered(l, S, R)
=============================================================================
