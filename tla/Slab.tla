-------------------------------- MODULE Slab --------------------------------
(***************************************************************************)
(* The kernel's slab allocator (os/src/mm/slab.c): caches of equal blocks  *)
(* whose free lists are linked through the blocks' first word, a lock for  *)
(* each cache, and BT_kMalloc, BT_kFree and BT_kRealloc on top of them.    *)
(*                                                                         *)
(* Threads make one step for each access to a free list, so that only the  *)
(* lock keeps them apart.  Pages come from the page allocator, which hands *)
(* out disjoint runs of pages (module PagePool); a block is a run and the  *)
(* number of the block in it.  The first word of a block is the next       *)
(* pointer of a free block and the first magic number of an allocated one. *)
(***************************************************************************)
EXTENDS Integers, FiniteSets

CONSTANTS Thread, Run,      \* threads, and names for runs of pages
          Pages, PageSize,  \* pages in the system, and their size
          MinSize, Orders,      \* BT_CACHE_GENERIC_MIN, BT_SLAB_MAX_ORDER
          Overhead,         \* bytes of the tags before and after a block
          Sizes             \* the sizes asked for
CONSTANTS Null, Magic, Nobody

ASSUME SizesOK == /\ Pages \in Nat /\ PageSize \in Nat \ {0} /\ Overhead \in Nat
                  /\ MinSize \in Nat \ {0} /\ Orders \in Nat \ {0}
ASSUME BinaryOK == MinSize \in {2 ^ k : k \in 0 .. 10} /\ Sizes \subseteq 1 .. 2 ^ 16

Cache == 0 .. Orders - 1
ObjectSize(c) == MinSize * 2 ^ c
MaxSize == ObjectSize(Orders - 1)

VARIABLES owner,            \* Run -> the cache it serves, Large or Unused
          pagesLeft,
          tagSize,          \* Run -> the size in the tag of a Large block
          word,             \* the first word of every block
          free, allocated,  \* Cache -> first free block, blocks handed out
          mutex,            \* Cache -> slab_mutex
          at, cache, p,     \* each thread: where it is, its cache and block
          size, old,        \* ... the size asked for, the block to reallocate
          held, stale,      \* ... its blocks, and pointers to blocks it freed
          leaked            \* blocks BT_kRealloc replaced

mem == <<owner, pagesLeft, tagSize>>
list == <<word, free, allocated>>
call == <<cache, p, size, old>>
user == <<held, stale, leaked>>
vars == <<mem, list, mutex, at, call, user>>

Block == Run \X (0 .. PageSize \div MinSize - 1)
Large == Orders             \* stands for pCache = NULL
Unused == Orders + 1

-----------------------------------------------------------------------------
BT_CLZ(n) == CHOOSE z \in 2 .. 31 : 2 ^ (31 - z) <= n /\ n < 2 * 2 ^ (31 - z)

\* Mutant: the size is rounded down to a power of two.
SuitableBelow(n) ==
    CASE n <= MinSize -> 0
      [] n > MaxSize  -> Large
      [] OTHER    -> BT_CLZ(MinSize) - BT_CLZ(n)

\* BT_GetSuitableCache: a cache of the next power of two.
Suitable(n) ==
    LET highest_bit == IF n % 2 ^ (31 - BT_CLZ(n)) # 0 THEN BT_CLZ(n) - 1 ELSE BT_CLZ(n)
    IN  CASE n <= MinSize -> 0
          [] n > MaxSize  -> Large
          [] OTHER    -> BT_CLZ(MinSize) - highest_bit

PagesFor(n) == (n + PageSize - 1) \div PageSize
Objects(c) == (PagesFor(ObjectSize(c)) * PageSize) \div ObjectSize(c)
Round(n) == ((n + 3) \div 4) * 4

\* Sizes are words, and the blocks of every cache of g_oDefault fit in their pages.
ASSUME SizesAreWords == MaxSize < 2 ^ 30
ASSUME RunsFinite == IsFiniteSet(Run)
ASSUME ObjectsFit == \A c \in Cache : Objects(c) \in 1 .. PageSize \div MinSize
ASSUME Distinct == /\ Null \notin Block /\ Magic \notin Block /\ Null # Magic
                   /\ Nobody \notin Thread

\* The pages of all runs, when run r has n[r].
PagesOf(n) == UNION {{r} \X (1 .. n[r]) : r \in Run}

\* The pages of the caches' runs, as bt_initialise_slab leaves them.
InitialPages(r) == IF owner[r] = Unused THEN 0 ELSE PagesFor(ObjectSize(owner[r]))

(* bt_initialise_slab: init_cache extends every cache, and ignores that    *)
(* there may be no pages for one.                                          *)
Init == /\ owner \in [Run -> Cache \cup {Unused}]
        /\ \A r, s \in Run : owner[r] = owner[s] /\ owner[r] # Unused => r = s
        /\ pagesLeft = Pages - Cardinality(PagesOf([r \in Run |-> InitialPages(r)]))
        /\ pagesLeft >= 0
        /\ tagSize = [r \in Run |-> 0]
        /\ word = [b \in Block |-> IF owner[b[1]] # Unused /\ b[2] < Objects(owner[b[1]]) - 1
                                   THEN <<b[1], b[2] + 1>> ELSE Null]
        /\ free = [c \in Cache |-> IF \E r \in Run : owner[r] = c
                                   THEN <<CHOOSE r \in Run : owner[r] = c, 0>> ELSE Null]
        /\ allocated = [c \in Cache |-> 0]
        /\ mutex = [c \in Cache |-> Nobody]
        /\ at = [t \in Thread |-> "idle"] /\ cache = [t \in Thread |-> 0]
        /\ p = [t \in Thread |-> Null] /\ size = [t \in Thread |-> 0]
        /\ old = [t \in Thread |-> Null]
        /\ held = [t \in Thread |-> {}] /\ stale = [t \in Thread |-> {}]
        /\ leaked = {}

-----------------------------------------------------------------------------
Go(t, place) == at' = [at EXCEPT ![t] = place]

\* The call is over: what the thread does not need is forgotten.
Return(t) == /\ at' = [at EXCEPT ![t] = "idle"] /\ cache' = [cache EXCEPT ![t] = 0]
             /\ p' = [p EXCEPT ![t] = Null] /\ size' = [size EXCEPT ![t] = 0]
             /\ old' = [old EXCEPT ![t] = Null]

\* BT_kMalloc of n bytes, or BT_kRealloc of block b to n bytes.
Malloc(t, n, b) ==
    /\ at[t] = "idle" /\ b \in held[t] \cup {Null}
    /\ size' = [size EXCEPT ![t] = Round(n)]
    /\ old' = [old EXCEPT ![t] = b]
    /\ cache' = [cache EXCEPT ![t] = Suitable(Round(n) + Overhead)]
    /\ Go(t, IF cache'[t] = Large THEN "pages" ELSE "lock")
    /\ UNCHANGED <<mem, list, mutex, p, user>>

\* Mutant: the lock is not waited for.
LockAtOnce(t) ==
    /\ at[t] \in {"lock", "freelock"}
    /\ mutex' = [mutex EXCEPT ![cache[t]] = t]
    /\ Go(t, IF at[t] = "lock" THEN "pop" ELSE "push")
    /\ UNCHANGED <<mem, list, call, user>>

\* SLAB_LOCK in BT_CacheAlloc and BT_CacheFree.
Lock(t) ==
    /\ at[t] \in {"lock", "freelock"} /\ mutex[cache[t]] = Nobody
    /\ mutex' = [mutex EXCEPT ![cache[t]] = t]
    /\ Go(t, IF at[t] = "lock" THEN "pop" ELSE "push")
    /\ UNCHANGED <<mem, list, call, user>>

\* pop_free reads the head of the list ...
PopHead(t) ==
    /\ at[t] \in {"pop", "popagain"}
    /\ p' = [p EXCEPT ![t] = free[cache[t]]]
    /\ Go(t, CASE p'[t] # Null -> "popnext"
               [] p'[t] = Null /\ at[t] = "pop" -> "extend"
               [] OTHER -> "unlock")
    /\ UNCHANGED <<mem, list, mutex, cache, size, old, user>>

\* ... and makes its successor the head.
PopNext(t) ==
    /\ at[t] = "popnext"
    /\ free' = [free EXCEPT ![cache[t]] = word[p[t]]]
    /\ allocated' = [allocated EXCEPT ![cache[t]] = @ + 1]
    /\ Go(t, "unlock")
    /\ UNCHANGED <<mem, word, mutex, call, user>>

(* bt_page_alloc of enough pages for n bytes, as run r: what PagePool      *)
(* models, reduced to the number of pages that are left.                   *)
PageAlloc(r, who, n) == /\ owner[r] = Unused /\ PagesFor(n) <= pagesLeft
                         /\ owner' = [owner EXCEPT ![r] = who]
                         /\ pagesLeft' = pagesLeft - PagesFor(n)

\* Mutant: the last block of a run is linked to one past the end.
AttachPast(r, c) ==
    [b \in Block |-> IF b[1] = r /\ b[2] < Objects(c)
                     THEN <<r, (b[2] + 1) % (PageSize \div MinSize)>> ELSE word[b]]

\* init_attach_block links the blocks of a run before the others.
Attach(r, c) ==
    [b \in Block |-> IF b[1] = r /\ b[2] < Objects(c)
                     THEN IF b[2] < Objects(c) - 1 THEN <<r, b[2] + 1>> ELSE free[c]
                     ELSE word[b]]

\* extend_cache, when there are pages and when there are none.
Extend(t) ==
    /\ at[t] = "extend" /\ Go(t, "popagain")
    /\ \/ \E r \in Run :
             /\ PageAlloc(r, cache[t], ObjectSize(cache[t]))
             /\ word' = Attach(r, cache[t])
             /\ free' = [free EXCEPT ![cache[t]] = <<r, 0>>]
       \/ UNCHANGED <<owner, pagesLeft, word, free>>
    /\ UNCHANGED <<tagSize, allocated, mutex, call, user>>

\* SLAB_UNLOCK, at the end of BT_CacheAlloc.
Unlock(t) ==
    /\ at[t] = "unlock"
    /\ mutex' = [mutex EXCEPT ![cache[t]] = Nobody]
    /\ IF p[t] = Null THEN Return(t) ELSE Go(t, "tag") /\ UNCHANGED call
    /\ UNCHANGED <<mem, list, user>>

\* A size no cache serves: BT_kMalloc takes pages.
MallocPages(t) ==
    /\ at[t] = "pages"
    /\ \/ \E r \in Run : /\ PageAlloc(r, Large, size[t] + Overhead)
                         /\ p' = [p EXCEPT ![t] = <<r, 0>>]
                         /\ Go(t, "tag")
                         /\ UNCHANGED <<cache, size, old>>
       \/ Return(t) /\ UNCHANGED <<owner, pagesLeft>>
    /\ UNCHANGED <<tagSize, list, mutex, user>>

(* The tags are written and the caller has the block.  BT_kRealloc copies  *)
(* the old one into it, and does not free it.                              *)
Tag(t) ==
    /\ at[t] = "tag"
    /\ word' = [word EXCEPT ![p[t]] = Magic]
    /\ tagSize' = IF cache[t] = Large THEN [tagSize EXCEPT ![p[t][1]] = size[t]] ELSE tagSize
    /\ held' = [held EXCEPT ![t] = (@ \cup {p[t]}) \ {old[t]}]
    /\ stale' = [u \in Thread |-> stale[u] \ {p[t]}]
    /\ leaked' = leaked \cup ({old[t]} \ {Null})
    /\ Return(t)
    /\ UNCHANGED <<owner, pagesLeft, free, allocated, mutex>>

-----------------------------------------------------------------------------
\* Mutant: the tags are not looked at.
Trusted(b) == TRUE

\* verify_tag.
Verified(b) == word[b] = Magic

(* BT_kFree of a block the thread has, or once more of a block that it     *)
(* freed and that was not handed out since: the tags must be in place.     *)
Free(t, b) ==
    /\ at[t] = "idle" /\ b \in held[t] \cup stale[t]
    /\ held' = [held EXCEPT ![t] = @ \ {b}]
    /\ p' = [p EXCEPT ![t] = b]
    /\ cache' = [cache EXCEPT ![t] = owner[b[1]]]
    /\ Go(t, CASE ~Verified(b) -> "panic"
               [] Verified(b) /\ owner[b[1]] = Large -> "freepages"
               [] OTHER -> "freelock")
    /\ UNCHANGED <<mem, list, mutex, size, old, stale, leaked>>

\* push_free links the block before the head, over the magic number ...
PushNext(t) ==
    /\ at[t] = "push"
    /\ word' = [word EXCEPT ![p[t]] = free[cache[t]]]
    /\ Go(t, "pushhead")
    /\ UNCHANGED <<mem, free, allocated, mutex, call, user>>

\* ... makes it the head, and BT_CacheFree unlocks.
PushHead(t) ==
    /\ at[t] = "pushhead"
    /\ free' = [free EXCEPT ![cache[t]] = p[t]]
    /\ allocated' = [allocated EXCEPT ![cache[t]] = @ - 1]
    /\ mutex' = [mutex EXCEPT ![cache[t]] = Nobody]
    /\ stale' = [stale EXCEPT ![t] = @ \cup {p[t]}]
    /\ Return(t)
    /\ UNCHANGED <<mem, word, held, leaked>>

\* Mutant: the tags are left out of the size.
FreedBare(n) == n

\* The size that BT_kFree passes to bt_page_free.
FreedSize(n) == n + Overhead

FreePages(t) ==
    LET r == p[t][1]
    IN  /\ at[t] = "freepages"
        /\ owner' = [owner EXCEPT ![r] = Unused]
        /\ pagesLeft' = pagesLeft + PagesFor(FreedSize(tagSize[r]))
        /\ word' = [word EXCEPT ![p[t]] = Null]
        /\ tagSize' = [tagSize EXCEPT ![r] = 0]
        /\ Return(t)
        /\ UNCHANGED <<free, allocated, mutex, user>>

-----------------------------------------------------------------------------
Step(t) == \/ Lock(t) \/ PopHead(t) \/ PopNext(t) \/ Extend(t) \/ Unlock(t)
           \/ MallocPages(t) \/ Tag(t) \/ PushNext(t) \/ PushHead(t) \/ FreePages(t)

Next == \E t \in Thread :
            \/ \E n \in Sizes, b \in Block \cup {Null} : Malloc(t, n, b)
            \/ \E b \in Block : Free(t, b)
            \/ Step(t)

Spec == Init /\ [][Next]_vars

-----------------------------------------------------------------------------
Place == {"idle", "lock", "pop", "popagain", "popnext", "extend", "unlock", "pages", "tag",
          "panic", "freelock", "push", "pushhead", "freepages"}

TypeOK ==
    /\ owner \in [Run -> 0 .. Unused] /\ pagesLeft \in 0 .. Pages /\ tagSize \in [Run -> Nat]
    /\ word \in [Block -> Block \cup {Null, Magic}]
    /\ free \in [Cache -> Block \cup {Null}] /\ allocated \in [Cache -> Nat]
    /\ mutex \in [Cache -> Thread \cup {Nobody}]
    /\ at \in [Thread -> Place]
    /\ cache \in [Thread -> 0 .. Large] /\ p \in [Thread -> Block \cup {Null}]
    /\ size \in [Thread -> Nat] /\ old \in [Thread -> Block \cup {Null}]
    /\ held \in [Thread -> SUBSET Block] /\ stale \in [Thread -> SUBSET Block]
    /\ leaked \subseteq Block

\* The blocks on the free list of a cache: Listed[n] are those at most n links from its head.
OnList(c) ==
    LET Listed[n \in 0 .. Cardinality(Block)] ==
            IF n = 0 THEN {free[c]} \ {Null}
            ELSE Listed[n - 1] \cup ({word[b] : b \in Listed[n - 1]} \ {Null})
    IN  Listed[Cardinality(Block)]

\* The blocks a cache has.
Blocks(c) == {b \in Block : owner[b[1]] = c /\ b[2] < Objects(c)}

\* The blocks of a cache that threads have taken off its list and use or bring back.
InUse(c) == {b \in Blocks(c) : \/ b \in leaked
                               \/ \E t \in Thread : \/ b \in held[t]
                                                    \/ b = p[t] /\ at[t] # "panic"
                                                       /\ at[t] # "popnext"}

(* When nobody is inside a cache, every block of it is either on the free  *)
(* list, exactly once, or in use, and allocated counts the blocks in use:  *)
(* no block is lost, and none is handed out while somebody has it.         *)
FreeListExact ==
    \A c \in Cache : mutex[c] = Nobody =>
        /\ OnList(c) \cap InUse(c) = {}
        /\ OnList(c) \cup InUse(c) = Blocks(c)
        /\ allocated[c] = Cardinality(InUse(c))
        /\ \A b \in OnList(c) : Cardinality({d \in OnList(c) : word[d] = b})
                                    = IF b = free[c] THEN 0 ELSE 1

(* Two threads never have the same block, and none has one it is given     *)
(* once more.                                                              *)
Exclusive ==
    \A t, u \in Thread :
        /\ t # u => held[t] \cap held[u] = {}
        /\ at[t] = "tag" => p[t] \notin held[u] /\ (t # u => p[t] # p[u] \/ at[u] = "panic")

(* The block that BT_kMalloc returns has room for the size and the tags,   *)
(* and no smaller cache would do.                                          *)
Fits == \A t \in Thread : at[t] = "tag" /\ cache[t] # Large =>
            /\ ObjectSize(cache[t]) >= size[t] + Overhead
            /\ \A c \in Cache : ObjectSize(c) >= size[t] + Overhead => c >= cache[t]

\* Who waits for the large block in run r.
Caller(r) == CHOOSE t \in Thread : p[t] = <<r, 0>>

\* The pages of a run: a large block's come from its tag, or its caller is still in BT_kMalloc.
RunPages(r) ==
    CASE owner[r] \in Cache -> PagesFor(ObjectSize(owner[r]))
      [] owner[r] = Large /\ tagSize[r] > 0 -> PagesFor(tagSize[r] + Overhead)
      [] owner[r] = Large /\ tagSize[r] = 0 -> PagesFor(size[Caller(r)] + Overhead)
      [] OTHER -> 0

(* No page is lost or given back twice: bt_page_free gets the size that    *)
(* bt_page_alloc was asked for.                                            *)
PagesBalanced == pagesLeft + Cardinality(PagesOf([r \in Run |-> RunPages(r)])) = Pages

(* "a double free WILL cause a Kernel panic" (bt_heap.h): a block that was *)
(* freed and not handed out again is never freed a second time.            *)
DoubleFreePanics ==
    [][\A t \in Thread, b \in Block :
           at[t] = "idle" /\ b \in stale[t] /\ p'[t] = b => at'[t] = "panic"]_vars
=============================================================================
