------------------------------ MODULE PagePool ------------------------------
(***************************************************************************)
(* The page allocator (os/src/mm/bt_page.c): the main page pool, the       *)
(* coherent pool cut out of it at boot, and their first-fit free lists.    *)
(*                                                                         *)
(* Addresses are page numbers, except for the byte addresses and byte      *)
(* sizes that callers pass.  A free list is the sequence of its blocks in  *)
(* list order (BtList shows that the intrusive list is such a sequence).   *)
(* Every operation holds g_page_mutex, or runs at boot before there are    *)
(* threads, so each is one step.  What callers hold is kept in owned; a    *)
(* caller may give an allocation back in parts, as create_pgd does.        *)
(***************************************************************************)
EXTENDS Integers, Sequences, FiniteSets, Functions

CONSTANTS PAGE_SIZE,        \* BT_PAGE_SIZE
          RamStart,         \* first page behind the kernel image
          RamPages,         \* number of pages attached to the main pool
          HeapEnd,          \* _heap_end: the stacks fill RAM from this byte on
          CoherentPages,    \* BT_CONFIG_MEM_PAGE_COHERENT_LENGTH, in pages
          CoherentOrder,    \* its alignment order (8 in the code)
          Size,             \* byte sizes that callers ask for
          Order,            \* alignment orders that callers ask for
          Reservation       \* byte ranges [paddr, psize] that callers reserve

AbsoluteEnd == (RamStart + RamPages) * PAGE_SIZE

ASSUME PageSizePositive == PAGE_SIZE \in Nat \ {0}
ASSUME RamType == RamStart \in Nat \ {0} /\ RamPages \in Nat \ {0}
ASSUME CoherentType == CoherentPages \in Nat \ {0} /\ CoherentOrder \in Nat
ASSUME CallerType == Size \subseteq Nat /\ Order \subseteq Nat
ASSUME ReservationType == Reservation \subseteq [paddr : Nat, psize : Nat]
ASSUME StacksInRam == HeapEnd \in RamStart * PAGE_SIZE .. AbsoluteEnd - 4

VARIABLES phase,            \* how far bt_main has booted
          list,             \* page_head of each pool
          total, used,      \* total_size and used_size, in pages
          owned,            \* the pages of each pool that callers hold
          reserved,         \* the pages of each pool taken out for good
          lent              \* the pages of the main pool that the coherent pool got

vars == <<phase, list, total, used, owned, reserved, lent>>

Pool == {"default", "coherent"}

Span(at, size) == at .. at + size - 1
Trunc(bytes) == bytes \div PAGE_SIZE
Align(bytes) == (bytes + PAGE_SIZE - 1) \div PAGE_SIZE
AlignTo(at, order) == ((at + 2^order - 1) \div 2^order) * 2^order

Block(at, size) == IF size = 0 THEN <<>> ELSE <<[at |-> at, size |-> size]>>
First(I) == IF I = {} THEN 0 ELSE CHOOSE i \in I : \A j \in I : i <= j
Splice(s, i, t) == SubSeq(s, 1, i - 1) \o t \o SubSeq(s, i + 1, Len(s))

\* Both pools after bt_page_pool_init.
Init == /\ phase = "off"
        /\ list = [p \in Pool |-> <<>>]
        /\ total = [p \in Pool |-> 0]
        /\ used = [p \in Pool |-> 0]
        /\ owned = [p \in Pool |-> {}]
        /\ reserved = [p \in Pool |-> {}]
        /\ lent = {}

-----------------------------------------------------------------------------
(* bt_page_pool_alloc on the free list s: the first block that can hold    *)
(* size pages behind the alignment gap ...                                 *)
Gap(b, order) == AlignTo(b.at, order) - b.at

FirstFit(s, size, order) ==
    First({i \in DOMAIN s : s[i].size >= size + Gap(s[i], order)})

\* Mutant: the rest behind the allocation starts one page too early.
CarveOverlap(s, i, size, order) ==
    LET b == s[i]
        g == Gap(b, order)
    IN  Splice(s, i, Block(b.at, g) \o Block(b.at + g + size - 1, b.size - g - size))

\* Mutant: the unaligned part is not put back.
CarveDropGap(s, i, size, order) ==
    LET b == s[i]
        g == Gap(b, order)
    IN  Splice(s, i, Block(b.at + g + size, b.size - g - size))

\* Mutant: a block that is used up stays on the list.
CarveEmpty(s, i, size, order) ==
    LET b == s[i]
        g == Gap(b, order)
    IN  Splice(s, i, Block(b.at, g) \o <<[at |-> b.at + g + size, size |-> b.size - g - size]>>)

\* ... which is split into the gap, the allocation and the rest.
Carve(s, i, size, order) ==
    LET b == s[i]
        g == Gap(b, order)
    IN  Splice(s, i, Block(b.at, g) \o Block(b.at + g + size, b.size - g - size))

\* Mutant: a block is merged with the next one whether they touch or not.
GiveBackMerge(s, at, size) ==
    IF s # <<>>
    THEN <<[at |-> at, size |-> size + s[1].size]>> \o Tail(s)
    ELSE Block(at, size) \o s

(* bt_page_pool_free: the block becomes the first of the list, merged with *)
(* the one that was first when they touch.  The search for a neighbour in  *)
(* address order has no effect, and the new block's predecessor is always  *)
(* the list head, so a merge with the previous block never happens.        *)
GiveBack(s, at, size) ==
    IF s # <<>> /\ at + size = s[1].at
    THEN <<[at |-> at, size |-> size + s[1].size]>> \o Tail(s)
    ELSE Block(at, size) \o s

(* bt_page_pool_reserve: the block that holds the range ...                *)
Holding(s, start, end) ==
    First({i \in DOMAIN s : s[i].at <= start /\ end <= s[i].at + s[i].size})

\* Mutant: the test for a rest behind the range is the right way round.
CutOutSplit(s, i, start, end) ==
    LET b == s[i]
    IN  Splice(s, i, Block(b.at, start - b.at) \o Block(end, b.at + b.size - end))

(* ... keeps what is before the range, and a new block what is behind it   *)
(* if the block ends before the range does.                                *)
CutOut(s, i, start, end) ==
    LET b == s[i]
        behind == IF b.at + b.size < end THEN Block(end, b.at + b.size - end) ELSE <<>>
    IN  Splice(s, i, Block(b.at, start - b.at) \o behind)

-----------------------------------------------------------------------------
ReserveRange(p, paddr, psize) ==
    LET start == Trunc(paddr)
        end == Align(paddr + psize)
        i == Holding(list[p], start, end)
    IN  IF psize = 0 \/ i = 0
        THEN UNCHANGED <<list, used, reserved>>
        ELSE /\ list' = [list EXCEPT ![p] = CutOut(@, i, start, end)]
             /\ used' = [used EXCEPT ![p] = @ + (end - start)]
             /\ reserved' = [reserved EXCEPT ![p] = @ \cup (start .. end - 1)]

\* bt_initialise_pages: attach the RAM behind the kernel image ...
BootAttach ==
    /\ phase = "off"
    /\ list' = [list EXCEPT !["default"] = GiveBack(@, RamStart, RamPages)]
    /\ total' = [total EXCEPT !["default"] = @ + RamPages]
    /\ phase' = "attached"
    /\ UNCHANGED <<used, owned, reserved, lent>>

(* ... and reserve the stacks.  The length is a difference of pointers to  *)
(* four-byte words.                                                        *)
BootReserve ==
    /\ phase = "attached"
    /\ ReserveRange("default", HeapEnd, (AbsoluteEnd - HeapEnd) \div 4)
    /\ phase' = "reserved"
    /\ UNCHANGED <<total, owned, lent>>

(* bt_initialise_coherent_pages: an aligned allocation from the main pool  *)
(* is attached to the coherent pool; so is page 0 when it fails.  Pages    *)
(* that the slab caches take before, at boot, and never give back are as   *)
(* if RAM started behind them.                                             *)
BootCoherent ==
    /\ phase = "reserved"
    /\ LET i == FirstFit(list["default"], CoherentPages, CoherentOrder)
           at == IF i = 0 THEN 0 ELSE AlignTo(list["default"][i].at, CoherentOrder)
           got == IF i = 0 THEN {} ELSE Span(at, CoherentPages)
       IN  /\ list' = [p \in Pool |->
                          IF p = "coherent" THEN GiveBack(list[p], at, CoherentPages)
                          ELSE IF i = 0 THEN list[p]
                          ELSE Carve(list[p], i, CoherentPages, CoherentOrder)]
           /\ used' = [used EXCEPT !["default"] = IF i = 0 THEN @ ELSE @ + CoherentPages]
           /\ owned' = [owned EXCEPT !["default"] = @ \cup got]
           /\ lent' = got
    /\ total' = [total EXCEPT !["coherent"] = @ + CoherentPages]
    /\ phase' = "up"
    /\ UNCHANGED reserved

-----------------------------------------------------------------------------
\* bt_page_alloc, bt_page_alloc_aligned, bt_page_alloc_coherent.
Alloc(p, psize, order) ==
    LET size == Align(psize)
        i == FirstFit(list[p], size, order)
        at == AlignTo(list[p][i].at, order)
    IN  /\ phase = "up" /\ psize # 0 /\ i # 0
        /\ list' = [list EXCEPT ![p] = Carve(@, i, size, order)]
        /\ used' = [used EXCEPT ![p] = @ + size]
        /\ owned' = [owned EXCEPT ![p] = @ \cup Span(at, size)]
        /\ UNCHANGED <<phase, total, reserved, lent>>

\* The pages of pool p that a caller may give back.
Returnable(p) == owned[p] \ (IF p = "default" THEN lent ELSE {})

\* Mutant: used_size drops by the size before it was rounded up.
FreeUnrounded(p, at, psize) ==
    LET size == Align(psize)
    IN  /\ phase = "up" /\ psize # 0 /\ Span(at, size) \subseteq Returnable(p)
        /\ list' = [list EXCEPT ![p] = GiveBack(@, at, size)]
        /\ used' = [used EXCEPT ![p] = @ - Trunc(psize)]
        /\ owned' = [owned EXCEPT ![p] = @ \ Span(at, size)]
        /\ UNCHANGED <<phase, total, reserved, lent>>

\* bt_page_free, bt_page_free_coherent, of pages the caller holds.
Free(p, at, psize) ==
    LET size == Align(psize)
    IN  /\ phase = "up" /\ psize # 0 /\ Span(at, size) \subseteq Returnable(p)
        /\ list' = [list EXCEPT ![p] = GiveBack(@, at, size)]
        /\ used' = [used EXCEPT ![p] = @ - size]
        /\ owned' = [owned EXCEPT ![p] = @ \ Span(at, size)]
        /\ UNCHANGED <<phase, total, reserved, lent>>

\* bt_page_reserve, bt_page_reserve_coherent.
Reserve(p, paddr, psize) ==
    /\ phase = "up"
    /\ ReserveRange(p, paddr, psize)
    /\ UNCHANGED <<phase, total, owned, lent>>

Next == \/ BootAttach \/ BootReserve \/ BootCoherent
        \/ \E p \in Pool, psize \in Size, order \in Order : Alloc(p, psize, order)
        \/ \E p \in Pool, psize \in Size : \E at \in owned[p] : Free(p, at, psize)
        \/ \E p \in Pool, r \in Reservation : Reserve(p, r.paddr, r.psize)

Spec == Init /\ [][Next]_vars

-----------------------------------------------------------------------------
BlockPages(b) == Span(b.at, b.size)
FreePages(p) == UNION {BlockPages(b) : b \in Range(list[p])}
StackPages == Trunc(HeapEnd) .. RamStart + RamPages - 1
Lost(p) == total[p] - used[p] - Cardinality(FreePages(p))

(* The pools hold what struct bt_page_pool holds: sizes never drop below   *)
(* zero, and no block of a free list is empty.                             *)
TypeOK ==
    /\ phase \in {"off", "attached", "reserved", "up"}
    /\ list \in [Pool -> Seq([at : Nat, size : Nat \ {0}])]
    /\ total \in [Pool -> Nat]
    /\ used \in [Pool -> Nat]
    /\ owned \in [Pool -> SUBSET Nat]
    /\ reserved \in [Pool -> SUBSET Nat]
    /\ lent \subseteq Nat

(* No page is handed out twice: the blocks of a free list do not overlap,  *)
(* and no page is free, held by a caller or reserved at the same time,     *)
(* whatever bt_page_pool_alloc, _free and _reserve did to the lists.       *)
Exclusive ==
    \A p \in Pool :
        /\ \A i, j \in DOMAIN list[p] :
              i # j => BlockPages(list[p][i]) \cap BlockPages(list[p][j]) = {}
        /\ FreePages(p) \cap (owned[p] \cup reserved[p]) = {}
        /\ owned[p] \cap reserved[p] = {}

(* The coherent pool manages one aligned range that it got from the main   *)
(* pool (bt_initialise_coherent_pages), and the main pool never regards a  *)
(* page of that range as its own again.  When there was no such range, it  *)
(* manages the pages from 0 on.                                            *)
CoherentLent ==
    LET managed == FreePages("coherent") \cup owned["coherent"] \cup reserved["coherent"]
    IN  /\ lent \subseteq owned["default"]
        /\ managed \subseteq IF phase = "up" /\ lent = {} THEN Span(0, CoherentPages) ELSE lent
        /\ lent # {} => \E k \in lent : lent = Span(k, CoherentPages)
                                        /\ k % 2^CoherentOrder = 0

(* used_size is what callers hold plus what is reserved, through every     *)
(* rounding, splitting and partial free.                                   *)
UsedIsTaken ==
    \A p \in Pool : used[p] = Cardinality(owned[p]) + Cardinality(reserved[p])

(* Allocating and freeing in any order loses no page: what leaves a free   *)
(* list is accounted for in used_size.                                     *)
NothingLost ==
    [][reserved' = reserved => \A p \in Pool : Lost(p)' = Lost(p)]_vars

(* The pages of the stacks at the end of RAM are never given to a caller,  *)
(* though bt_initialise_pages reserves only a quarter of them: the rest of *)
(* the block behind the reservation is dropped.                            *)
StacksKept ==
    phase \in {"reserved", "up"} =>
        StackPages \cap (FreePages("default") \cup owned["default"]) = {}

(* "Reserves a linear region within a PAGE pool": bt_page_pool_reserve     *)
(* takes that region, and no other page, out of the pool.                  *)
ReserveTakesRegion == \A p \in Pool : Lost(p) = 0

(* "@return NULL (0) if allocation fails": page 0 is no page of a pool, or *)
(* else an allocation that succeeds could return 0.                        *)
NullIsNoPage == \A p \in Pool : 0 \notin FreePages(p) \cup owned[p]
=============================================================================
