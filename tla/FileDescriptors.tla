-------------------------- MODULE FileDescriptors --------------------------
(***************************************************************************)
(* File descriptors of processes and the reference counts of the handles   *)
(* behind them: os/src/process/bt_process.c, lib/src/handles/bt_handles.c, *)
(* the system calls open and close and the standard streams of putc.c.     *)
(*                                                                         *)
(* Each process has one thread that makes these calls, and a call is one   *)
(* step, except BT_CreateProcess: it starts the new thread before it fills *)
(* the new process's table.  A handle is used for one open only, so that a *)
(* closed handle is memory that was freed.                                 *)
(***************************************************************************)
EXTENDS Naturals, FiniteSets

CONSTANTS Process, KERNEL,  \* processes, the kernel's among them
          Handle, NULL,     \* handles that can be opened
          NFD,              \* size of fds (8 in the code)
          Opener,           \* processes that open devices and files
          Closable,         \* descriptors that they close
          Streams,          \* standard streams that processes set
          Destroyable,      \* processes that others destroy
          EarlyChild        \* a new thread may run before its creator goes on

ASSUME KernelIsProcess == KERNEL \in Process /\ Opener \subseteq Process
ASSUME FiniteProcesses == IsFiniteSet(Process)
ASSUME KernelStays == Destroyable \subseteq Process \ {KERNEL}
ASSUME NullIsNoHandle == NULL \notin Handle \cup Process
ASSUME DescriptorType == NFD \in Nat /\ NFD > 2 /\ Closable \subseteq 0 .. NFD - 1
ASSUME StreamType == Streams \subseteq 0 .. 2
ASSUME EarlyChildType == EarlyChild \in BOOLEAN

VARIABLES pstate, parent,   \* per process
          flags,            \* per process: the descriptors marked in the bitmap
          free_fd,          \* per process
          fds,              \* per process: the table
          heap,             \* handle headers: refs, dead (freed), stale (dead one used)
          by,               \* per handle: the process it is attached to
          hold,             \* per handle: who has the reference made by opening it
          spoiled           \* a reference was dropped or lost that was somebody else's

vars == <<pstate, parent, flags, free_fd, fds, heap, by, hold, spoiled>>
tableVars == <<flags, free_fd, fds>>
holdVars == <<by, hold>>

FD == 0 .. NFD - 1
Std == 0 .. 2
Unused(h) == heap.refs[h] = 0 /\ h \notin heap.dead

\* bt_process_init: three descriptors are allocated for the kernel.
Init == /\ pstate = [p \in Process |-> IF p = KERNEL THEN "up" ELSE "none"]
        /\ parent = [p \in Process |-> KERNEL]
        /\ flags = [p \in Process |-> IF p = KERNEL THEN Std ELSE {}]
        /\ free_fd = [p \in Process |-> IF p = KERNEL THEN 2 ELSE 0]
        /\ fds = [p \in Process |-> [i \in FD |-> NULL]]
        /\ heap = [refs |-> [h \in Handle |-> 0], dead |-> {}, stale |-> FALSE]
        /\ by = [h \in Handle |-> NULL]
        /\ hold = [h \in Handle |-> "nobody"]
        /\ spoiled = FALSE

-----------------------------------------------------------------------------
\* Mutant: the count is not raised.
RefHandleNot(s, h) ==
    IF h = NULL THEN s
    ELSE [s EXCEPT !.stale = @ \/ h \in s.dead]

\* BT_RefHandle
RefHandle(s, h) ==
    IF h = NULL THEN s
    ELSE [s EXCEPT !.refs[h] = @ + 1, !.stale = @ \/ h \in s.dead]

\* Mutant: the handle is destroyed while one reference is left.
CloseHandleEarly(s, h) ==
    IF h = NULL THEN s
    ELSE IF h \in s.dead THEN [s EXCEPT !.stale = TRUE]
    ELSE [s EXCEPT !.refs[h] = @ - 1,
                   !.dead = IF s.refs[h] <= 2 THEN @ \cup {h} ELSE @]

(* BT_CloseHandle, with BT_UnrefHandle and BT_DestroyHandle: the last      *)
(* reference cleans the handle up and frees it.  Handles of interfaces     *)
(* with NO_DESTROY, which the core does not free, are not modelled.        *)
CloseHandle(s, h) ==
    IF h = NULL THEN s
    ELSE IF h \in s.dead THEN [s EXCEPT !.stale = TRUE]
    ELSE [s EXCEPT !.refs[h] = @ - 1,
                   !.dead = IF s.refs[h] = 1 THEN @ \cup {h} ELSE @]

\* The handle headers after a loop over the descriptors of a table.
CloseAll(s, table) ==
    LET after[n \in 0 .. NFD] ==
            IF n = 0 THEN s ELSE CloseHandle(after[n - 1], table[n - 1])
    IN  after[NFD]

RefAll(s, table) ==
    LET after[n \in 0 .. NFD] ==
            IF n = 0 THEN s ELSE RefHandle(after[n - 1], table[n - 1])
    IN  after[NFD]

\* The handle headers after BT_SetProcessFileDescriptor(p, i, h).
SetDescriptor(s, p, i, h) == RefHandle(CloseHandle(s, fds[p][i]), h)

\* task_alloc_fd: the first descriptor from free_fd on that is not marked.
FreeFrom(p) == {i \in free_fd[p] .. NFD - 1 : i \notin flags[p]}
Lowest(S) == CHOOSE i \in S : \A j \in S : i <= j

-----------------------------------------------------------------------------
(* A process runs once its creator is through with BT_CreateProcess, or    *)
(* before; the creator does nothing else in between.                       *)
Runs(p) == /\ ~heap.stale
           /\ pstate[p] = "up" \/ (pstate[p] = "started" /\ EarlyChild)
           /\ \A c \in Process : pstate[c] = "started" => parent[c] # p

\* A driver's probe, or BT_Open in the kernel: the caller keeps the handle.
OpenDevice(p, h) ==
    /\ Runs(p) /\ p \in Opener
    /\ Unused(h)
    /\ heap' = [heap EXCEPT !.refs[h] = 1]
    /\ by' = [by EXCEPT ![h] = p]
    /\ hold' = [hold EXCEPT ![h] = "opener"]
    /\ UNCHANGED <<pstate, parent, tableVars, spoiled>>

CloseDevice(p, h) ==
    /\ Runs(p)
    /\ hold[h] = "opener" /\ by[h] = p
    /\ heap' = CloseHandle(heap, h)
    /\ hold' = [hold EXCEPT ![h] = "nobody"]
    /\ UNCHANGED <<pstate, parent, tableVars, by, spoiled>>

(* The old handle is closed before the new one gets its reference, and     *)
(* they are the same one, with no other reference.                         *)
FreedFirst(p, i, h) == h # NULL /\ h = fds[p][i] /\ heap.refs[h] = 1

(* BT_SetStdin, BT_SetStdout, BT_SetStderr: with a device the caller has   *)
(* open, with NULL, with one of its own streams (BT_GetStdin), or with its *)
(* parent's stream (exec_loader_thread; a process that runs early does not *)
(* have a parent yet).                                                     *)
SetStd(p, i, h) ==
    /\ Runs(p)
    /\ \/ h = NULL
       \/ h \in Handle /\ hold[h] = "opener" /\ by[h] = p
       \/ \E j \in Std : h = fds[p][j]
       \/ p # KERNEL /\ pstate[p] = "up" /\ h = fds[parent[p]][i]
    /\ heap' = SetDescriptor(heap, p, i, h)
    /\ fds' = [fds EXCEPT ![p][i] = h]
    /\ spoiled' = (spoiled \/ FreedFirst(p, i, h))
    /\ UNCHANGED <<pstate, parent, flags, free_fd, holdVars>>

-----------------------------------------------------------------------------
(* bt_sys_open: a descriptor is allocated, and given back if BT_Open fails *)
(* (which leaves free_fd at it).                                           *)
SysOpen(p, h) ==
    LET i == Lowest(FreeFrom(p))
    IN  /\ Runs(p) /\ p \in Opener
        /\ FreeFrom(p) # {}
        /\ Unused(h)
        /\ flags' = [flags EXCEPT ![p] = @ \cup {i}]
        /\ free_fd' = [free_fd EXCEPT ![p] = i]
        /\ heap' = SetDescriptor([heap EXCEPT !.refs[h] = 1], p, i, h)
        /\ fds' = [fds EXCEPT ![p][i] = h]
        /\ by' = [by EXCEPT ![h] = p]
        /\ hold' = [hold EXCEPT ![h] = "descriptor"]
        /\ UNCHANGED <<pstate, parent, spoiled>>

\* Mutant: free_fd is left behind the descriptor that was given back.
SysOpenFailsNext(p) ==
    /\ Runs(p) /\ p \in Opener
    /\ FreeFrom(p) # {}
    /\ free_fd' = [free_fd EXCEPT ![p] = Lowest(FreeFrom(p)) + 1]
    /\ UNCHANGED <<pstate, parent, flags, fds, heap, holdVars, spoiled>>

SysOpenFails(p) ==
    /\ Runs(p) /\ p \in Opener
    /\ FreeFrom(p) # {}
    /\ free_fd' = [free_fd EXCEPT ![p] = Lowest(FreeFrom(p))]
    /\ UNCHANGED <<pstate, parent, flags, fds, heap, holdVars, spoiled>>

(* close drops the reference that open made, but this is not a handle of   *)
(* open, or somebody has closed it before.                                 *)
NotOpens(h) == h # NULL /\ hold[h] # "descriptor"

\* Mutant: task_free_fd does not lower free_fd.
SysCloseKeepsFree(p, i) ==
    LET h == fds[p][i]
    IN  /\ Runs(p) /\ p \in Opener
        /\ heap' = CloseHandle(CloseHandle(heap, h), h)
        /\ fds' = [fds EXCEPT ![p][i] = NULL]
        /\ flags' = [flags EXCEPT ![p] = @ \ {i}]
        /\ hold' = IF h = NULL THEN hold ELSE [hold EXCEPT ![h] = "nobody"]
        /\ spoiled' = (spoiled \/ NotOpens(h))
        /\ UNCHANGED <<pstate, parent, free_fd, by>>

(* bt_sys_close: the table's reference and the opener's are both dropped,  *)
(* and task_free_fd unmarks the descriptor.                                *)
SysClose(p, i) ==
    LET h == fds[p][i]
    IN  /\ Runs(p) /\ p \in Opener
        /\ heap' = CloseHandle(CloseHandle(heap, h), h)
        /\ fds' = [fds EXCEPT ![p][i] = NULL]
        /\ flags' = [flags EXCEPT ![p] = @ \ {i}]
        /\ free_fd' = [free_fd EXCEPT ![p] = IF i < @ THEN i ELSE @]
        /\ hold' = IF h = NULL THEN hold ELSE [hold EXCEPT ![h] = "nobody"]
        /\ spoiled' = (spoiled \/ NotOpens(h))
        /\ UNCHANGED <<pstate, parent, by>>

-----------------------------------------------------------------------------
\* BT_CreateProcess: the process and its thread exist ...
CreateProcess(p, c) ==
    /\ Runs(p)
    /\ pstate[c] = "none"
    /\ pstate' = [pstate EXCEPT ![c] = "started"]
    /\ parent' = [parent EXCEPT ![c] = p]
    /\ UNCHANGED <<tableVars, heap, holdVars, spoiled>>

\* The new process has run and has descriptors, which are not closed.
Overwritten(c) == \E i \in FD : fds[c][i] # NULL

(* ... and then it gets its parent's table and free_fd, with a reference   *)
(* for every descriptor, but not its parent's bitmap.                      *)
InheritDescriptors(c) ==
    /\ pstate[c] = "started" /\ ~heap.stale
    /\ pstate' = [pstate EXCEPT ![c] = "up"]
    /\ heap' = RefAll(heap, fds[parent[c]])
    /\ fds' = [fds EXCEPT ![c] = fds[parent[c]]]
    /\ free_fd' = [free_fd EXCEPT ![c] = free_fd[parent[c]]]
    /\ spoiled' = (spoiled \/ Overwritten(c))
    /\ UNCHANGED <<parent, flags, holdVars>>

(* The walk over the attached handles closes one whose opener's reference  *)
(* is gone, or frees the one that it goes on from.                         *)
Overrun(s, attached) == \E h \in attached : hold[h] = "nobody" \/ s.refs[h] = 1

(* BT_DestroyProcess of another process: its threads are closed, so that   *)
(* it runs no more, every descriptor is set to NULL, and the handles that  *)
(* are still attached to it are closed.  The walk over them goes on from   *)
(* the handle it has just closed, so that it reads freed memory if this    *)
(* was the last reference.                                                 *)
DestroyProcess(p, c) ==
    LET closed == CloseAll(heap, fds[c])
        attached == {h \in Handle : by[h] = c /\ h \notin closed.dead}
        walked(h) == IF h \in attached THEN CloseHandle(closed, h) ELSE closed
        dead == {h \in Handle : h \in walked(h).dead}
    IN  /\ Runs(p) /\ p # c /\ c \in Destroyable
        /\ pstate[c] = "up"
        /\ pstate' = [pstate EXCEPT ![c] = "destroyed"]
        /\ heap' = [refs |-> [h \in Handle |-> walked(h).refs[h]],
                    dead |-> dead, stale |-> closed.stale \/ dead # closed.dead]
        /\ fds' = [fds EXCEPT ![c] = [i \in FD |-> NULL]]
        /\ hold' = [h \in Handle |-> IF h \in attached THEN "nobody" ELSE hold[h]]
        /\ spoiled' = (spoiled \/ Overrun(closed, attached))
        /\ UNCHANGED <<parent, flags, free_fd, by>>

-----------------------------------------------------------------------------
ProcessStep(p) ==
    \/ \E h \in Handle : OpenDevice(p, h) \/ CloseDevice(p, h) \/ SysOpen(p, h)
    \/ \E i \in Streams, h \in Handle \cup {NULL} : SetStd(p, i, h)
    \/ SysOpenFails(p)
    \/ \E i \in Closable : SysClose(p, i)
    \/ \E c \in Process : CreateProcess(p, c) \/ DestroyProcess(p, c)

Next == \E p \in Process : ProcessStep(p) \/ InheritDescriptors(p)

Spec == Init /\ [][Next]_vars
-----------------------------------------------------------------------------
Slot == Process \X FD
UsedBy(h) == {s \in Slot : fds[s[1]][s[2]] = h}

WellTyped ==
    /\ pstate \in [Process -> {"none", "started", "up", "destroyed"}]
    /\ parent \in [Process -> Process]
    /\ flags \in [Process -> SUBSET FD]
    /\ free_fd \in [Process -> FD]
    /\ fds \in [Process -> [FD -> Handle \cup {NULL}]]
    /\ heap \in [refs : [Handle -> Nat], dead : SUBSET Handle, stale : BOOLEAN]
    /\ by \in [Handle -> Process \cup {NULL}]
    /\ hold \in [Handle -> {"nobody", "opener", "descriptor"}]

(* The tables of struct bt_task hold handles or NULL, free_fd stays within *)
(* the table, and a count never drops below zero.                          *)
TypeOK == WellTyped /\ spoiled \in BOOLEAN

(* ulReferenceCount is "the number of times the handle is used": once for  *)
(* every descriptor of every process, and once for whoever opened it, as   *)
(* tables are shared, streams replaced and processes destroyed.            *)
RefsExact ==
    \A h \in Handle :
        heap.refs[h] = Cardinality(UsedBy(h)) + (IF hold[h] = "nobody" THEN 0 ELSE 1)

(* "Ensure we reference the handle when creating an FD": a handle is not   *)
(* freed while a descriptor of some process leads to it, and a freed one   *)
(* is never touched.                                                       *)
DescriptorsAlive == /\ \A s \in Slot : fds[s[1]][s[2]] \notin heap.dead
                    /\ ~heap.stale

(* Whoever opens, closes, inherits, replaces and destroys, and however a   *)
(* new thread and its creator interleave, the counts of BT_RefHandle and   *)
(* BT_CloseHandle stay exact until one of four steps: a close of what was  *)
(* not opened by open or was closed before (NotOpens), a stream set to     *)
(* itself by the last reference (FreedFirst), a table filled over one that *)
(* is in use (Overwritten), a process destroyed with handles that are no   *)
(* longer its own or that nobody else has (Overrun).                       *)
CountsKept == spoiled \/ RefsExact

(* ... and until then no descriptor of any process leads to a handle that  *)
(* BT_DestroyHandle freed, and none is touched.                            *)
NoneDangles == spoiled \/ DescriptorsAlive

(* open returns the lowest descriptor that is free, and fails only when    *)
(* all are taken: task_alloc_fd starts at free_fd, and there is never a    *)
(* free descriptor below it in the kernel's table.                         *)
LowestFree == \A i \in FD : i < free_fd[KERNEL] => i \in flags[KERNEL]

(* flags holds the "bitmap of allocated" descriptors: one that leads to a  *)
(* handle is marked, so that open does not take it for another file.       *)
UsedAreMarked ==
    \A s \in Slot : fds[s[1]][s[2]] # NULL => s[2] \in flags[s[1]]
=============================================================================
