# TLA+ models of BitThunder

BitThunder is a small operating system in C for ARM microcontrollers and
application processors: a FreeRTOS kernel below, and above it processes, memory
management, device and block layers, file systems, a network stack and a shell.
This directory models the parts of it where several threads, interrupt handlers
or processes meet, checks the models with TLC on small instances, and proves the
most important results with TLAPS for instances of every size.

Paths below are relative to `src/`.

## 1. Inventory

### Parts, state, operations

| Part | Code | State | Operations | Module |
|---|---|---|---|---|
| Block request scheduler | `os/src/devman/bt_block.c` | request list `g_requests` of nodes on callers' stacks, list mutex, notification count, one event bit | `BT_BlockRead/Write`, thread `block_scheduler` | `BlockScheduler` |
| Intrusive list | `lib/include/collections/bt_list.h` | `next`, `prev` | add, delete | `BtList` |
| Soft interrupts | `os/src/interrupts/bt_softirq.c` | word `g_ulPending`, binary semaphore | raise (thread, interrupt), dispatcher thread | `SoftIRQ` |
| Tasklets | `os/src/interrupts/bt_tasklets.c` | two singly linked lists, state and link per tasklet | schedule on either list, `tasklet_action(_hi)` | `Tasklets` |
| Page allocator | `os/src/mm/bt_page.c` | free list, `total_size`, `used_size` of two pools | boot, alloc (aligned), free, reserve | `PagePool` |
| Descriptors, handles, processes | `os/src/process/bt_process.c`, `lib/src/handles/bt_handles.c`, `os/src/syscall/calls/{open,close}.c`, `os/src/lib/putc.c` | per process: `fds`, `flags`, `free_fd`; per handle: reference count | open, close, standard streams, create, inherit, destroy | `FileDescriptors` |
| Slab caches | `os/src/mm/slab.c` | per cache: free list through the blocks, `allocated`, mutex; tags around blocks | boot, `BT_kMalloc/kFree/kRealloc`, cache alloc/free, extension | `Slab` |
| Serial port, simple buffered mode | `arch/arm/mach/zynq/uart.c` | two rings with their indices; hardware FIFO | read, write, flush, clear, enable, interrupt handler | `Uart` |
| Network path | `os/src/net/{bt_net,bt_lwip}.c`, `arch/arm/mach/zynq/gem.c` | descriptor rings, `DATA_READY`, semaphore, transmit queue | interrupt, `net_task`, `lwip_output` | `NetPath` |
| PHY and link | `os/src/net/{bt_phy,bt_net}.c`, `drivers/net/phy/marvell.c`, `arch/arm/mach/zynq/gem.c` | `eState`, link and mode, advertised modes | `phy_task`, connect, configure, restart, start and stop | `PhyLink` |
| Heap, address space maps | `os/src/mm/{bt_heap,bt_vm,bt_map}.c` | block lists, segment lists | malloc/free/realloc, map/unmap | planned |
| Handle and thread lists | `os/src/process/{bt_process,bt_threads}.c`, `lib/src/handles/bt_handles.c` | one list node per handle, lists per process | attach, detach, end of a thread | planned |
| Volumes, mounts, devfs | `os/src/volumes`, `os/src/fs` | volume buffer, mount list, device nodes | read/write, mount, open | planned |
| FIFO, linked list | `lib/src/collections` | queue of elements | read, write, from threads and interrupts | planned |
| Interrupt core and GIC | `os/src/interrupts/bt_interrupts.c`, `arch/arm/common/gic.c` | controllers' ranges, masks | register, mask, enable | planned |
| SD card host | `drivers/mmc/host/sdhci.c` | card state, command in progress | detection, command, interrupt | planned |
| Everything else | see `PROJECT.json` | | | not modelled, each with a reason |

### How the parts interact

* File systems reach media through volumes and `BT_BlockRead/Write`; with the
  request scheduler configured, those put a request on a list and wait.
* Drivers' interrupt handlers schedule tasklets; a tasklet raises a soft
  interrupt, and the dispatcher thread runs the list. Block (SD card) and
  network drivers are the main users.
* The heap, the slab caches and the page tables take pages from the main pool;
  DMA drivers take them from the coherent pool, which is cut out of the main one
  at boot.
* The Ethernet MAC's handler sets a flag and wakes the network thread, which
  empties the descriptor ring into lwIP; the lwIP thread sends through the same
  driver, directly or over a queue. The PHY thread tells the MAC and the interface
  about the link.
* Processes share open handles through inherited descriptor tables; the
  reference count decides when a driver's cleanup runs.

### What is hard to test

Read-modify-write of a word that interrupts also write; a list that is walked
with its lock released, over nodes on other threads' stacks; one event bit for
many waiters; lists that are walked with no lock at all while they are pushed to;
ring buffers shared with an interrupt handler and no lock; flags that are cleared
after the work they announce; an allocator with unsorted lists and three-way
splits; free lists that several threads take apart word by word; references shared between
processes; a child that runs before its creator has finished creating it.
`PROJECT.json` lists each hazard at its line, with the property that covers it or
the reason why none does yet.

## 2. Modules

`X` is the component, `MC_X` its instance for TLC where it needs one (symmetry
sets, sample inputs), `XProofs` its theorems (`SlabSteps` and `SlabProofs` those of
`Slab`; `NetworkProofs` those of `NetPath` and `PhyLink`). Operators whose comment starts with "Mutant:" are
plausible wrong versions of the operator below them. No specification uses them.

### BtList

A list is a record of two pointer functions. `ListInit`, `ListInsert`, `ListAdd`,
`ListDel` do what the C does to the pointers, with nothing checked.
`WellFormed(l, S, h)` says that the pointers are a circular list with head `h`
whose items are exactly `S`: `next` and `prev` are inverse on `S \cup {h}`, and
some strict order of `S` agrees with `next`. The lemmas at the head of
`BlockSchedulerProofs` show that adding and deleting keep lists well formed, and that
changes elsewhere do not matter.

### BlockIO, BlockDevice, BlockScheduler

`BlockIO` is the data: one request is one block of one device, and the driver
(external) transfers it or fails, in which case a write may or may not have
happened. `BlockDevice` is the abstract specification: a call takes effect at one
instant between call and return. `BlockScheduler` is the code:

| Code | Model |
|---|---|
| `struct bt_block_request` on the caller's stack | `req[c]`, forgotten (`NoFrame`, `Forget`) when the call returns |
| `g_requests` | `links` over callers and `HEAD` |
| `g_list_mutex` (a binary semaphore) | `available` |
| task notification of the scheduler (take without clearing) | `notified` |
| bit 0 of `g_event_group`; set wakes all waiters, then clears | `bit`, `pc[c] = "blocked"` |
| `bt_block_schedule` l. 69-77 | `SchedulePend`, `ScheduleAdd`, `ScheduleNotify` |
| `bt_block_exec_request` l. 79-88 | `ExecTest`, `ExecWaitBits`, `ExecReturn` |
| `block_scheduler` l. 233-264 | `SchedTake` ... `SchedSetBits`, with the cursor of `bt_list_for_each_safe` in `pos`, `nxt` |

A step is what one thread does between two points at which another can see or
disturb it. Refinement mapping (`AbsCall`): a call is pending until its `retval`
is written and answered from then on.

### SoftIRQ, Tasklets

`g_ulPending` is the set of its one bits. In a thread `|=` is a load and a store
(`RaiseLoad`, `RaiseStore`) followed by the release of the semaphore; in an
interrupt handler, which no thread can interrupt, the same function is one step
(`RaiseFromISR`). The dispatcher's copy and clear are two steps. `Tasklets`
EXTENDS `SoftIRQ` and composes with it: a thread's schedule call is the push (a
critical section, one step) and then the steps of the raise; the handler of the
soft interrupt is `ActionTake` (together with `DispCall`), then `ActionStart`,
`ActionUnlink`, `ActionIdle` for each tasklet, which are separate because an
interrupt may push between any two of them. The high-priority and the normal
functions are the same code on different variables and are modelled by one
definition with the queue `q` as parameter. The handler table is filled at boot:
`BT_OpenSoftIRQ` is not an action.

### PagePool

Addresses are page numbers, except where callers pass bytes, which `Trunc` and
`Align` convert as the code's macros do. A free list is the sequence of its
blocks in list order, which matters: freed blocks go to the front, and are merged
only with the block that was first. All operations hold `g_page_mutex` or run at
boot, so each is one step. `owned`, `reserved` and `lent` record which pages are
out and where, and are not in the code. A caller may give back part of an
allocation (`create_pgd` does), never pages it does not hold. The boot
reservation's length is the difference of two word pointers, a quarter of the
bytes, as in the code (l. 279). Between `bt_initialise_pages` and
`bt_initialise_coherent_pages` the slab caches take their first pages
(`bt_main.c:109-119`) and never give them back, which is as if RAM started later.

### FileDescriptors

Each process has one thread that makes these calls; a call is one step, except
`BT_CreateProcess`, which starts the new thread (`CreateProcess`) before it fills
the table (`InheritDescriptors`). `heap` holds the handles' reference counts, the
set `dead` of freed ones, and `stale`, set as soon as a freed one is used, after
which nothing more is modelled. The loops over a table (`RefAll`, `CloseAll`) are
recursive functions of the number of descriptors done. `hold` says who has the
reference that opening made. `Opener`, `Closable`, `Streams`, `Destroyable` and
`EarlyChild` choose which callers a run considers. Handles are used for one open
only, so memory is not reused; handles with `BT_HANDLE_FLAGS_NO_DESTROY`
(`bt_handles.c:99`), which the core does not free, are not modelled.

The code does not keep its counts in every use. `spoiled` is set by the four steps
that drop or lose a reference that is somebody else's, each named by an operator:

| Step | When |
|---|---|
| `SysClose` with `NotOpens` | `close` of a descriptor whose handle was not opened by `open`, or whose `open` somebody has closed before (`close.c:7` always drops two references) |
| `SetStd` with `FreedFirst` | a stream is set to the handle it already has, by the last reference (`bt_process.c:229` closes before it references) |
| `InheritDescriptors` with `Overwritten` | the child has run and opened before its table is filled (`bt_process.c:74`) |
| `DestroyProcess` with `Overrun` | the walk over attached handles closes one whose opener closed it before, or frees the one it stands on (`bt_process.c:114`) |

`CountsKept` and `NoneDangles` say that nothing else does: up to the first such step
counts are exact and no descriptor dangles, whoever opens, closes, inherits, sets
streams, creates and destroys, and in whatever order.

### LossyChannel, Uart

`LossyChannel` is what a buffered receiver promises: items come out in order, none
twice, and one is dropped only while the buffer is full. `Uart` is the serial port
in the mode in which thread and handler share two rings. The handler is one step
(nothing preempts it on one core) and comes between any two accesses of the
thread; `++i > size-1` and `i = 0` are two steps, so the index is out of the ring
for a moment. On the receive side that is harmless, and `RxIsChannel` shows it:
queue and output are computed from the slots, with a byte counted as read as soon
as `uRxBegin` has moved past it. On the transmit side a handler in that moment runs
past the end of what was written; `torn` marks it, and `TxInOrder` and `FlushSends`
say nothing afterwards. `uart_get_available` is four steps, as it reads the indices
once to compare and once more to subtract; `Word` is the number of values of a
`BT_u32`. The transmitter (FIFO, shift register, TXEMPTY when the FIFO
becomes empty) is external. Traffic beyond `Traffic` is cut off, nothing else is.

### NetPath

Three actors: the MAC's interrupt handler (one step, with `net_event_handler`), the
thread `net_task` with `bt_lwip_process`, and the lwIP thread in `lwip_output`. Frames
are numbered; one to send is a chain of `Pieces` pbufs, copied one by one, so that
two threads that send at the same time mix them. `SYS_ARCH_PROTECT` is a mutex, which
`lwip_output` holds while it sends or queues, and which `net_task` needs in `read_packet`,
`pbuf_alloc` (`NetAlloc`), `tcpip_input` (`NetInput`) and `pbuf_free` (`NetFree`).
A frame that `tcpip_input` refuses is freed.
Three ghosts name windows in which the code does not do what it should: `missed`
(an event after the last look at the ring and before `DATA_READY` is cleared, or a
failed `pbuf_alloc`), `overlap` (both threads sending), and the state `Stuck` (a full
queue waited for inside `SYS_ARCH_PROTECT`, with `net_task` at any of those four
places). The properties hold outside them.

### PhyLink

`phy_task` makes one step for each group of register accesses and one for each
access to `eState` and `advertising_mask`, which other threads write as well
(`PHY_LOCK` is empty). `phy_init` is `MarvellInit` (`marvell_phy_init` advertises all
modes and resets the PHY) followed by `Advertise`, `MaskHalf` and `MaskFull`, the three
reads of the mask in `bt_phy_generic_init`; a change of the link is `ChangeLink`,
`SetLinkState` and `Notify`, with other threads in between.
Modes are pairs of speed and duplex; the PHY (external) negotiates the best one
both ends advertise. `Resolve` is the code's own computation of that mode, and
`MacMatches` compares the two. `flapped`, `restarted`, `unheard` mark the windows in
which changes are missed, and `manual` that `BT_StartNetif` or `BT_StopNetif` came after
the last report. `sure` holds the modes that were masked before the last `phy_init`
began and ever since: a mask that is written while `phy_init` reads it may be applied
to one mode and not to the other, until the next `phy_init`.

### Slab

A block is a run of pages and a number in it; its first word is the free list's
link or the magic number, as in memory, which is what detects a second free.
Taking the lock, reading the head, moving it, extending, linking, and writing the
tags are steps of their own. `Extend` and `MallocPages` may fail at any time, which
includes a pool that other users have emptied. Which caches `bt_initialise_slab`
could extend is chosen in `Init`. `bt_page_alloc` gives disjoint runs (the property
`Exclusive` of `PagePool`). Callers free what they hold, or once more what they
freed and nobody got since.

## 3. Runs

Deadlock is checked in every run except `net`, `slab` and `fd_sharing`, where the
system really can stop: in `net` when both threads wait for each other (`Stuck`) or no
more frames come, in `slab` when `BT_kFree` panics, which is an endless loop. In
`fd_sharing` nothing is modelled once freed memory has been used (`heap.stale`).

| Run | Instance | Checks | Shows |
|---|---|---|---|
| `block` | 2 callers, 1 address, 2 contents, fair | `TypeOK`, `IInv`, `ListIntact`, `CursorAlive`, `LinearizableIO`, `RequestsServed` | requests added during the walk do no harm, each is executed, and the scheduler implements the atomic device |
| `block_lost_wakeup` | 2 callers, fair | `CallsReturn` **violated** | a caller can consume another's event bit (finding 1) |
| `tasklets` | 2 threads, 2 tasklets, fair | `TypeOK`, `NoStrandedBit`, `TaskletLists`, `IInv`, `DispatcherLooks`, `WalkEnds` | the lists stay disjoint, acyclic and complete, the walk ends, and the dispatcher never sleeps on a pending bit |
| `tasklets_stuck` | 1 thread, 2 tasklets, fair | `ScheduledRuns` **violated** | a raised bit can be overwritten, and its tasklet stays scheduled (finding 2) |
| `page_safety` | 11 pages of 4 bytes, 2 coherent, orders 0-2 | `TypeOK`, `Exclusive`, `CoherentLent`, `UsedIsTaken`, `StacksKept`, `NothingLost` | no page has two owners, accounts are exact, stacks are kept |
| `page_reserve` | 9 pages | `ReserveTakesRegion` **violated** | a reservation drops the pages behind it (finding 3) |
| `slab` | 2 threads, 2 caches, 2 runs of pages, sizes for each cache and for none | `FreeListExact`, `Exclusive`, `Fits`, `PagesBalanced`, `DoubleFreePanics` | no block has two owners or is lost, pages are accounted for, a second free panics |
| `fd_sharing` | kernel and a child, which may run early; both open and close; 2 handles, 5 descriptors | `TypeOK`, `CountsKept`, `NoneDangles`, `LowestFree` | counts are exact and no descriptor dangles until one of the four steps of section 2 |
| `fd_close_twice` | the child opens and closes too | `DescriptorsAlive` **violated** | both closing an inherited descriptor uses a freed handle (finding 6) |
| `uart` | rings of 3, hardware FIFO of 2, up to 6 bytes each way, fair | `TypeOK`, `TxInOrder`, `AvailableExact`, `RxIsChannel`, `FlushSends`, `TxDrains` | both rings work without a lock, up to the window `torn`, and `uart_get_available` errs only if the handler's index goes round between test and subtraction |
| `net` | 2 descriptors each way, queue of 1, frames of 2 pieces, fair | `RxNoticed`, `TxInOrder`, `RxIsChannel`, `RxServed` | frames are received, handed to `tcpip_input` and sent in order, outside the three windows |
| `phy` | gigabit PHY, 2 partners or none, 2 cable changes, 3 calls of the application, fair | `MacMatches`, `MaskedModeUnused`, `LinkReported` | MAC and interface follow the link and disabled modes stay unused, outside the windows of section 2 |

`TypeOK` of `NetPath` and `Slab` and `LinkTypeOK` of `PhyLink` state the types of their variables; they hold in
the same instances but are no run's properties.

Four more configurations are kept that are not in the list of runs of
`PROJECT.json`, which keeps one passing run for each component and four of the
violations. Each of these ends in a violation too:

| Configuration | Module | Property | Shows |
|---|---|---|---|
| `PagePoolCoherent.cfg` | `MC_PagePool` | `NullIsNoPage` | a failed coherent allocation attaches page 0 (finding 4) |
| `FileDescriptorsBitmap.cfg` | `MC_FileDescriptors` | `UsedAreMarked` | inherited descriptors are not marked (finding 5) |
| `FileDescriptorsEarly.cfg` | `MC_FileDescriptors` | `RefsExact` | an early child's descriptor is overwritten (finding 7) |
| `NetPathFull.cfg` | `MC_NetPath` | `WritePacketReturns` | a full transmit queue stops both threads (finding 8) |

### Bounds

* `MaxNotified = 1`: no new call starts while a notification is outstanding, but
  calls already started may raise the count further, so one walk meets requests
  of several notifications and later walks find nothing. The proofs do not use
  the bound.
* Two callers: one request is transferred while another is added, before or
  after the first is deleted. Two contents tell a stale read from a fresh one.
  The theorems cover any number of callers.
* Two threads and interrupts at any moment: a raise in progress is overtaken by
  another thread's, by an interrupt and by the dispatcher. Two tasklets: one
  running and one on the list being run or on a new one. The theorems cover any
  number of both.
* 11 pages: room for a block with a gap in front, an allocation of two or three
  pages and a rest, with two of the pages stacks and two coherent. Orders 0 to 2
  make gaps of up to three pages. Sizes 0, 1, 5 and 9 bytes are nothing, part of
  one, two and three pages of four bytes.
* `Uart`: rings of 3 hold two bytes, so 6 bytes fill them and go round twice; with
  a FIFO of 2 the handler stops for either reason. `Word = 16` stands for 2^32 and is
  larger than both rings. The proofs cover every ring size and word.
* `NetPath`: 5 frames overflow a ring of 2 and go round; 4 frames to send fill ring
  and queue. `Failures = 1`: one call of `pbuf_alloc` or `tcpip_input` fails, at any point.
* `PhyLink`: with `CableChanges = 2` the cable goes away and comes back, between two
  polls or with the other partner; with `Calls = 3` the application masks modes, restarts
  the link and lifts the mask or stops the interface, at any points. Partners differ in
  speed and in duplex, so that every branch of `Resolve` is taken.
* `Slab`: the caches hold two blocks and one block a page; three pages and two names
  for runs make extension succeed, fail, and compete with large blocks. Sizes are
  scaled down (tags of 8 bytes, caches of 16 and 32), the arithmetic is the code's.
  The proofs cover every number of threads, runs, caches and sizes.
* Five descriptors (eight in the code): three standard ones and two for `open`,
  so the table fills up. Two handles: one that parent and child share and one that
  replaces it. In `fd_sharing` streams 0 and 1 are set, and 1, 3 and 4 closed; the
  theorems cover every choice.

### Fairness

Weak fairness of each thread's steps: FreeRTOS runs every thread that stays
ready, provided that those of higher priority block, which the threads modelled
here do; drivers' transfers and tasklet handlers return. Nobody is assumed to
start a call, to raise or to schedule anything, and interrupts are never forced
to happen, except one that stays pending: `uart` and `net` assume that it is taken
and that the transmitter sends what it was given, and `phy` that `phy_task` keeps
polling and that two ends with a common mode negotiate it. `slab` needs no fairness.

## 4. Findings

1. `os/src/devman/bt_block.c:85` - callers share one event bit with
   clear-on-exit; the owner of a completed request can sleep for ever.
2. `os/src/interrupts/bt_softirq.c:59` (and `:40`) - `g_ulPending` is updated
   outside any critical section, though the comments announce one; a scheduled
   tasklet may never run.
3. `os/src/mm/bt_page.c:177` - reversed condition: the pages behind a reserved
   range are lost. (At boot this hides that line 279 reserves too little:
   `StacksKept` holds only because of it.)
4. `os/src/mm/bt_page.c:291` - the coherent allocation's result is not tested.
5. `os/src/process/bt_process.c:75` - a child's `flags` are not inherited.
6. `os/src/syscall/calls/close.c:7` - an inherited descriptor has one reference,
   and `close` drops two.
7. `os/src/process/bt_process.c:74` - the table is copied after the child's
   thread was started.

8. `os/src/net/bt_lwip.c:77` - `write_packet` waits for room in a full queue inside
   `SYS_ARCH_PROTECT`, which the thread that would make room needs; its comment
   (l. 62) says "@return 1 if successful, 0 if q is full."

`PROJECT.json` quotes the comment or document that findings 1, 2, 3 and 6 contradict;
for 4, 5, 7 and 8 see the hazards at those lines. Further windows that a passing
property excludes rather than checks are the ghosts of section 2: `torn` (`uart.c:635`),
`missed` (`bt_net.c:290`, `gem.c:176`), `overlap` (`bt_lwip.c:308`), `flapped`, `restarted`,
`unheard` (`bt_phy.c:347`, `bt_net.c:255`, `bt_phy.c:305`), `leaked` (`slab.c:260`), and
`spoiled` with its four steps.

## 5. Proofs

| Theorem | Statement | Assumptions |
|---|---|---|
| `BlockSchedulerProofs!Invariance` | `Spec => []IInv` | `SomeBlock`, `HeadIsNoCaller`, `NoResultIsNoResult` |
| `TypeCorrect`, `ListAlwaysIntact`, `CursorAlwaysAlive` | `Spec => []TypeOK`, `[]ListIntact`, `[]CursorAlive` | same |
| `Linearizable` | `Spec => LinearizableIO` | same |
| `TaskletsProofs!NeverStranded` | `SoftIRQSpec => [](SoftIRQTypeOK /\ NoStrandedBit)` | `SoftIRQMaxNat` |
| `TaskletsProofs!Invariance`, `TaskletsTyped`, `ListsStayLists` | `Spec => []IInv`, `[]TypeOK`, `[]TaskletLists` | `NullIsNoTasklet`, `TwoSoftIRQs` as well |
| `UsesSoftIRQ` | `Spec => SoftIRQSpec /\ []NoStrandedBit` | same |
| `PagePoolProofs!PoolsTyped`, `NoPageTwice`, `UsedExact`, `StacksNeverGiven`, `CoherentRange` | `Spec => []TypeOK`, `[]Exclusive`, `[]UsedIsTaken`, `[]StacksKept`, `[]CoherentLent` | the six of `PagePool` |
| `AllocLosesNothing` | `Spec => NothingLost` | same |
| `SlabProofs!SlabInvariant`, `SlabExclusive`, `SlabDoubleFree` | `Spec => []IInv`, `[]Exclusive`, `DoubleFreePanics` | those of `Slab` |
| `SlabFits` | `Spec => []Fits` | same |
| `SlabPagesBalanced`, `SlabFreeList` | `Spec => []PagesBalanced`, `[]FreeListExact` | same |
| `FileDescriptorsProofs!CountsTyped`, `OpenTakesLowest` | `Spec => []TypeOK`, `[]LowestFree` | those of `FileDescriptors` |
| `CountsExact`, `NoDanglingDescriptor` | `Spec => []CountsKept`, `[]NoneDangles` | same |
| `UartProofs!ReceiveImplementsChannel` | `Spec => RxIsChannel` | `RxSizes` |
| `PortTyped`, `TransmitsInOrder`, `AvailableCountsRight` | `Spec => []TypeOK`, `[]TxInOrder`, `AvailableExact` | those of `Uart` |
| `FlushWaits` | `Spec => FlushSends` | same |
| `NetworkProofs!AlwaysNoticed` | `Spec => []RxNoticed` | `RingSizes` |
| `ReceiveRingIsChannel` | `Spec => RxIsChannel` | `RingSizes` |
| `FramesInOrder` | `Spec => []TxInOrder` | `RingSizes`, `Sizes` |
| `MacFollowsLink`, `MaskKept` | `LinkSpec => []MacMatches`, `[]MaskedModeUnused` | those of `PhyLink` |

Every safety property of a passing run is a theorem. Before it was proved, each
inductive invariant was checked by TLC on the instance of the run.

**Block scheduler.** Neither `ListIntact` nor `CursorAlive` is inductive. `IInv`
adds that one thread at a time is inside the mutex (`MutexInv`), that the list is
well formed even while the mutex is taken, that a frame has an answer exactly from
its transfer on (`FrameInv`), and that the saved successor still *is* the
successor of the request being transferred (`CursorInv`). The last is the heart:
callers add at the front only, so an addition never comes between the cursor and
its successor, and only the scheduler deletes. There is one lemma for each
action; the list steps use `AddWellFormed` and `DelWellFormed`. For the
refinement, `SchedIO` is the abstract `Perform`, `BlockCall` and `ExecReturn` are
`Call` and `Return`, and every other step leaves `disk` and `AbsCall` unchanged
(`Invisible`).

**Tasklets.** `TaskletLists` alone is not inductive: the push leaves `pNext` alone
when the list is empty, which is sound only because an idle tasklet has no link
(`IdleUnlinked`), and that holds because `ActionUnlink` comes before `ActionIdle`
(`WalkInv`). Acyclicity is stated as the existence of a strict order, so that no
induction over lists is needed; a push extends the order by its new least
element, and a tasklet that starts to run leaves it.

**Page allocator.** A free list is looked at as the set of its pages. `PoolOK` says of
one pool that its blocks are not empty and are disjoint, that free, held and reserved
pages are apart, and that `used_size` counts the latter two. `PoolAlloc`, `PoolFree` and
the lemmas about `CutOut` show that each operation keeps it and which pages it moves:
`Carve` splits a block in three, `GiveBack` merges with the first block or does not, and
`CutOut` loses what is behind the reserved range. `IInv` adds what each stage of boot
leaves (`Booting`), `StacksKept` and `CoherentLent`. The alignment lemmas say that `AlignTo`
is the least multiple of `2^order` that is not below; that `2^order` is positive is
counted on the subsets of `1 .. order`. `StacksKept` holds for every place of the
stacks, but only because of the pages that `CutOut` loses (finding 3).

**Slab.** `Exclusive` needs that a block is handed out only if nobody has it, hence
that the list holds only such blocks, hence that two threads are never at one list.
`IInv` says so without walking lists: each block that nobody has is linked to
another such block or to nothing, no two to the same one, and none to the head
(`InvList`); a thread at a list has its lock (`InvThread`); and blocks in use carry the
magic number while freed ones do not (`InvTag`), from which `DoubleFreePanics`
follows. `Fits` is arithmetic: the position of the highest bit, one more if another bit
is set, is the exponent of the least power of two with room (`NextPower`), so
`BT_GetSuitableCache` finds the smallest cache with room or says there is none
(`SuitableFits`); `FitInv` carries the result through the call. `SizesAreWords` is the
width of the integers that `BT_CLZ` counts on. `PagesBalanced` counts the pages of all
runs as pairs of a run and a number (`PagesOf`), so a step that changes one run adds or
removes a set of known size (`PagesChange`). What a large block's run takes is known
from its tag or, before the tag is written, from its caller; `InvPages` says that there is
exactly one such caller, that blocks in use have tags, and that a pointer freed before
leads into a cache, never to pages given back. For `FreeListExact`, `InvList` is not
enough: it allows a ring beside the list. `ListInv` adds a witness, the list as a sequence
from its last block to its first (`Chain`). Taking the head, putting a block before it and
putting a whole run before it (`ChainPop`, `ChainPush`, `ChainRun`) give the next
witness, and a walk from the head finds all of it (`NearStep`, `WalkFinds`). The proofs are
in two modules: `SlabSteps` shows what each step keeps of `IInv`, `FitInv` and `InvPages`,
`SlabProofs` does so for `ListInv` and draws the conclusions. The lemmas of both assume
`Numbers`, the few facts about powers of two, induction and the sizes of finite sets
that they need; `NumbersHold` proves it, so no theorem depends on it.

**Descriptors.** There are two invariants. `GInv` holds in every state: `TypeOK` needs that
no count drops below zero, and that needs that every handle in a table or attached to
a process was opened once (`Opened`), since `BT_CloseHandle` does not look. `SInv` holds
until `spoiled` is set: a count is the number of descriptors, over all tables, that lead
to the handle, and one for its opener (`Exact`), and a freed handle has none (`Sound`).
Each action either keeps `SInv` or is one of the four steps that set `spoiled`, for every
choice of `Opener`, `Closable`, `Streams`, `Destroyable` and `EarlyChild` and with no
hypothesis about callers. The four exceptions are needed: `fd_close_twice` and
`FileDescriptorsEarly.cfg` violate the properties without them (findings 6 and 7).
The loops are treated by `Upwards`: what holds
after no descriptor and is passed on from each to the next holds after all. It is
proved by taking the least number for which it fails.

**Serial port.** `RxInv` bounds the receive indices, with `uRxBegin` out of the ring only
between its increment and its test. The handler's step is `Arrive`: the slot it
fills is none of those that wait (`SlotFacts`). Moving `uRxBegin` is `Take`, `uart_enable`
is `Reset`, and every other step changes neither queue nor output. For the transmit
side `IInv` says that wire, shift register, FIFO and ring, one behind the other, are
the bytes written and not thrown away, in order (`Sent`). A byte moves from one to the
next and leaves the whole as it is (`All`, `Cat`), so each step of the handler and of the
hardware is one equation between sequences. The invariant holds up to the state
`torn`. `AvailableExact` is arithmetic on indices modulo `Word`: as long as the handler
moves its index without going round, the test of before still tells which index is
ahead.

**Network.** `RxNoticed` must survive the clearing of `DATA_READY`. `NoticeInv` adds that
the flag is set while `net_task` is inside `bt_lwip_process`, and that after the last
look a frame is in the ring only if its interrupt is pending or it counts as missed.
Both rings rest on `Arc`: the full descriptors are in a row, from the one that is
emptied next to the one that is filled next. In the receive ring that makes a frame
stored by the MAC an `Arrive` and a frame read by `net_task` a `Take`, and a frame is
refused only if all descriptors are full. For `TxInOrder`, `TxInv` adds that frame numbers
run without a gap from the wire over the ring, the frame being copied and the queue
to the one `lwip_output` waits to queue (`InLine`), and that one thread at a time sends,
into a buffer the hardware does not own (`OneSender`). The second is what `overlap`
spoils.

**PHY.** The proofs are the last section of `NetworkProofs`, which is why the names of
`PhyLink` differ from those of `NetPath` (`LinkSpec`, `LinkNext`, `linkVars`).
`MacMatches` is about one place in `phy_task`; `LinkInv` follows the mode from the
negotiation over the registers (`AtBest`, `ModeRead`) to the MAC (`MacSet`), with what other
threads can do to `eState` in between (`Control`). For `MaskKept` it follows the modes in
`sure` through the steps of `phy_init` (`Masked`): what a reset negotiated with all modes advertised
is gone before `phy_task` sleeps. The heart is `BestIsResolve`: the code's
chain of tests computes the best common mode, for every set of modes.

**Only model-checked.** All liveness properties (`RequestsServed`, `DispatcherLooks`,
`WalkEnds`, `TxDrains`, `RxServed`, `LinkReported`): fairness and ENABLED are beyond the prover.
The library's induction theorems take an operator as
a parameter, which the installed provers cannot instantiate; where induction was
needed it was replaced by the least counterexample, as in `Upwards`.

## 6. Plan

1. `HandleLists` over `BtList`: the lists of handles, threads and processes;
   attach, detach, end of a thread, creation and destruction of processes.
2. `Heap` (the allocator of the build without slabs), `VM` (segment lists of address
   space maps).
3. Registration of network interfaces over `Tasklets`; the buffered mode of the
   serial port over `Fifo`.
4. `BlockDirect` (the build without the scheduler, shown to implement
   `BlockDevice` too), `Volumes` and partitions over `BlockDevice`, `Mounts`,
   devfs.
5. `Fifo` and the linked list; interrupt controllers and the GIC's registers;
   the SD card host over `Tasklets`.
6. Theorems: the refinements of the modules above.

## 7. Not modelled

Third-party code (FreeRTOS, lwIP, FullFAT, ext2, jimtcl, micropython), register
access, assembly and board support (but for the serial port and the Ethernet MAC), formatting and string functions, the device
tree (a pure function of static data) and the shell. FreeRTOS's semaphores,
notifications, event groups and critical sections are modelled by what they
promise, inside the components that use them. Memory reuse after a free, integer
wrap-around of sizes near 2^32, and the overflow of reference counts are not
modelled (`Slab` does reuse blocks). The simple heap, the address space maps, FIFO and
linked list, handle and thread lists, volumes, mounts, devfs, the interrupt
controllers, the SD card host and the registration of network interfaces are within
reach and not modelled yet (section 6). `PROJECT.json` lists every part with its status.

### Hazards left aside

`PROJECT.json` lists the hazards the models reach, and the uncovered ones of the
next modules. These were met while reading and are not in it:

* `bt_softirq.c:14` - two names for the size of the handler table.
* `bt_tasklets.c:20` - scheduling a tasklet that runs is ignored.
* `bt_page.c:122`, `:34` - no merge with the block before; sizes near 2^32.
* `slab.c:197`, `:302` - sizes near 2^32; no mutex before the second stage.
* `uart.c:242`, `:598` - buffers freed under an enabled interrupt; a FIFO popped by
  thread and handler in the buffered mode.
* `bt_lwip.c:296` - queued frames leave only when frames arrive: nothing else wakes
  `net_task`, so no property that they are sent holds.
* `bt_net.c:74`, `:321` - events before registration is complete; `NET_IF_ADDED` is
  never cleared.
* `bt_block.c:44` - the reference count that makes a block device open once.

## 8. Running

    tlc -config BlockScheduler.cfg BlockScheduler
    tlapm BlockSchedulerProofs.tla

Each run of section 3 has its own `.cfg`; `PROJECT.json` names module and
configuration.
