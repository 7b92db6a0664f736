----------------------------- MODULE SlabSteps ------------------------------
(***************************************************************************)
(* What every step of the slab allocator keeps: IInv, by which the blocks  *)
(* that nobody has are linked without sharing and only the holder of a     *)
(* cache's lock is at its list; FitInv, by which a block has room for what *)
(* was asked for; and InvPages, which knows the pages of every run and who *)
(* owes a large block its tag.  SlabProofs draws the conclusions.          *)
(***************************************************************************)
EXTENDS Slab, TLAPS

-----------------------------------------------------------------------------
(* What the proofs use of powers, induction and finite sets.  It holds by  *)
(* NumbersHold in SlabProofs; only there is the library in sight.          *)

Powers == \A n \in Nat : 2^n \in Nat \ {0} /\ 2^(n + 1) = 2 * 2^n

Induction == \A S : 0 \in S /\ (\A k \in Nat : k \in S => k + 1 \in S)
                         => \A k \in Nat : k \in S

\* The pages of all runs change with the pages of one run.
PagesCounted == \A n \in [Run -> Nat] :
    /\ Cardinality(PagesOf(n)) \in Nat
    /\ \A x \in Run, k \in Nat :
           Cardinality(PagesOf([n EXCEPT ![x] = k])) = Cardinality(PagesOf(n)) - n[x] + k

\* A sequence of different blocks is no longer than there are blocks.
BlocksCounted ==
    /\ Cardinality(Block) \in Nat
    /\ \A n \in Nat : \A s \in [1 .. n -> Block] :
           (\A i, j \in 1 .. n : s[i] = s[j] => i = j) => n <= Cardinality(Block)

\* Sets of blocks grow by one with each block.
SetsCounted ==
    /\ Cardinality({}) = 0
    /\ \A S \in SUBSET Block :
           /\ Cardinality(S) \in Nat
           /\ \A b \in Block \ S : Cardinality(S \cup {b}) = Cardinality(S) + 1

Numbers == Powers /\ Induction /\ PagesCounted /\ BlocksCounted /\ SetsCounted

-----------------------------------------------------------------------------
(* Powers of two.                                                          *)

\* 2^n is a number, and not zero.
LEMMA PowerCounts == ASSUME Numbers, NEW n \in Nat PROVE 2^n \in Nat \ {0}
BY Zenon DEF Numbers, Powers

\* One more doubles it.
LEMMA PowerStep == ASSUME Numbers, NEW n \in Nat PROVE 2^(n + 1) = 2 * 2^n
BY Zenon DEF Numbers, Powers

\* What holds at 0 and is passed on from each number to the next one holds everywhere.
LEMMA Upwards ==
    ASSUME Numbers, NEW S, 0 \in S, \A k \in Nat : k \in S => k + 1 \in S
    PROVE  \A k \in Nat : k \in S
BY Zenon DEF Numbers, Induction

\* The rule for sums in exponents.
LEMMA PowerAdd == ASSUME Numbers, NEW a \in Nat, NEW b \in Nat PROVE 2^(a + b) = 2^a * 2^b
<1>. DEFINE S == {k \in Nat : 2^(a + k) = 2^a * 2^k}
<1>0. 2^a \in Nat
  BY PowerCounts, Zenon
<1>1. 0 \in S
  <2>1. 2^0 = 1 /\ a + 0 = a
    OBVIOUS
  <2>. QED BY <1>0, <2>1
<1>2. ASSUME NEW k \in Nat, k \in S PROVE k + 1 \in S
  <2>. DEFINE x == 2^a
              y == 2^k
              z == 2^(a + k)
  <2>1. 2^(a + k + 1) = 2 * z
    BY PowerStep
  <2>2. 2^(k + 1) = 2 * y
    BY PowerStep, Zenon
  <2>3. z = x * y /\ x \in Nat /\ y \in Nat /\ a + (k + 1) = a + k + 1
    <3>1. z = x * y
      BY <1>2, Zenon
    <3>2. y \in Nat
      BY PowerCounts, Zenon
    <3>. QED BY <1>0, <3>1, <3>2
  <2>. HIDE DEF x, y, z
  <2>4. 2 * z = x * (2 * y)
    BY <2>3
  <2>. QED BY <2>1, <2>2, <2>3, <2>4 DEF x
<1>. HIDE DEF S
<1>3. b \in S
  BY <1>1, <1>2, Upwards, Zenon
<1>. QED BY <1>3, Zenon DEF S

\* Larger exponents make larger powers.
LEMMA PowerBelow ==
    ASSUME Numbers, NEW a \in Nat, NEW b \in Nat
    PROVE  2^a < 2^b <=> a < b
<1>1. ASSUME NEW m \in Nat, NEW k \in Nat, m < k PROVE 2^m < 2^k
  <2>. DEFINE d == k - m - 1
              x == 2^m
              y == 2^d
              z == 2^k
  <2>1. d \in Nat /\ k = m + (d + 1) /\ d + 1 \in Nat
    BY <1>1
  <2>2. x \in Nat \ {0} /\ y \in Nat \ {0} /\ z \in Nat
    BY <2>1, PowerCounts, Zenon
  <2>3. 2^(m + (d + 1)) = x * 2^(d + 1)
    BY <2>1, PowerAdd, Zenon
  <2>4. 2^(d + 1) = 2 * y
    BY <2>1, PowerStep, Zenon
  <2>5. z = x * (2 * y)
    BY <2>1, <2>3, <2>4, Zenon
  <2>. HIDE DEF x, y, z
  <2>6. x * (2 * y) >= x * 2
    BY <2>2
  <2>7. x < z
    BY <2>2, <2>5, <2>6
  <2>. QED BY <2>7, Zenon DEF x, z
<1>2. 2^a \in Nat /\ 2^b \in Nat
  BY PowerCounts, Zenon
<1>3. CASE a < b
  BY <1>1, <1>3, Zenon
<1>4. CASE b < a
  BY <1>1, <1>2, <1>4
<1>5. CASE a = b
  BY <1>2, <1>5
<1>. QED BY <1>3, <1>4, <1>5

-----------------------------------------------------------------------------
(* Sizes and caches.                                                       *)

\* A number lies between two powers of two.
LEMMA Between ==
    ASSUME Numbers, NEW n \in Nat \ {0}, n < 2^30
    PROVE  \E e \in 0 .. 29 : 2^e <= n /\ n < 2 * 2^e
<1>. SUFFICES ASSUME \A e \in 0 .. 29 : ~(2^e <= n /\ n < 2 * 2^e) PROVE FALSE
  BY Zenon
<1>. DEFINE S == {k \in Nat : k <= 30 => 2^k <= n}
<1>1. 0 \in S
  <2>1. 2^0 = 1
    OBVIOUS
  <2>. QED BY <2>1
<1>2. ASSUME NEW k \in Nat, k \in S PROVE k + 1 \in S
  <2>. SUFFICES ASSUME k + 1 <= 30 PROVE 2^(k + 1) <= n
    OBVIOUS
  <2>1. k \in 0 .. 29 /\ 2^k <= n
    BY <1>2
  <2>2. 2^k \in Nat
    BY PowerCounts, Zenon
  <2>3. ~(n < 2 * 2^k)
    BY <2>1, Zenon
  <2>4. 2^(k + 1) = 2 * 2^k
    BY PowerStep, Zenon
  <2>. QED BY <2>2, <2>3, <2>4
<1>. HIDE DEF S
<1>3. 30 \in S
  <2>1. 30 \in Nat
    BY Zenon
  <2>2. \A k \in Nat : k \in S
    BY <1>1, <1>2, Upwards, Zenon
  <2>. QED BY <2>1, <2>2, Zenon
<1>4. 2^30 <= n
  BY <1>3 DEF S
<1>5. 2^30 \in Nat
  BY PowerCounts, Zenon
<1>. QED BY <1>4, <1>5

\* The count of leading zeros says between which.
LEMMA LeadingZeros ==
    ASSUME Numbers, NEW n \in Nat, NEW e \in 0 .. 29, 2^e <= n, n < 2 * 2^e
    PROVE  BT_CLZ(n) = 31 - e
<1>. DEFINE P(z) == 2^(31 - z) <= n /\ n < 2 * 2^(31 - z)
<1>1. 31 - e \in 2 .. 31 /\ 31 - (31 - e) = e
  OBVIOUS
<1>2. P(31 - e)
  BY <1>1, Zenon
<1>3. ASSUME NEW z \in 2 .. 31, P(z) PROVE z = 31 - e
  <2>. DEFINE d == 31 - z
  <2>1. d \in Nat /\ d + 1 \in Nat /\ e \in Nat /\ e + 1 \in Nat /\ z = 31 - d
    OBVIOUS
  <2>2. 2^d <= n /\ n < 2 * 2^d
    BY <1>3, Zenon
  <2>. HIDE DEF d
  <2>3. 2^d \in Nat /\ 2^e \in Nat
    BY <2>1, PowerCounts, Zenon
  <2>4. 2^(d + 1) = 2 * 2^d
    BY <2>1, PowerStep, Zenon
  <2>5. 2^(e + 1) = 2 * 2^e
    BY <2>1, PowerStep, Zenon
  <2>6. 2^d < 2^(e + 1) /\ 2^e < 2^(d + 1)
    BY <2>2, <2>3, <2>4, <2>5
  <2>7. d < e + 1
    BY <2>1, <2>6, PowerBelow, Zenon
  <2>8. e < d + 1
    BY <2>1, <2>6, PowerBelow, Zenon
  <2>9. d = e
    BY <2>1, <2>7, <2>8
  <2>. QED BY <2>1, <2>9, Zenon
<1>. HIDE DEF P
<1>4. (CHOOSE z \in 2 .. 31 : P(z)) = 31 - e
  BY <1>1, <1>2, <1>3, Zenon
<1>. QED BY <1>4, Zenon DEF BT_CLZ, P

\* The exponent of the next power of two, as BT_GetSuitableCache computes it.
LEMMA NextPower ==
    ASSUME Numbers, NEW n \in Nat, NEW e \in 0 .. 29, 2^e <= n, n < 2 * 2^e
    PROVE  \A j \in Nat : 2^j >= n <=> j >= IF n % 2^e # 0 THEN e + 1 ELSE e
<1>. DEFINE x == 2^e
<1>1. e \in Nat /\ e + 1 \in Nat /\ x \in Nat \ {0}
  BY PowerCounts
<1>2. 2^(e + 1) = 2 * x
  BY <1>1, PowerStep, Zenon
<1>3. n % x = 0 <=> n = x
  <2>. DEFINE q == n \div x
              r == n % x
  <2>. HIDE DEF x
  <2>1. q \in Nat /\ r \in 0 .. x - 1 /\ n = x * q + r
    BY <1>1
  <2>2. n < 2 * x /\ x <= n
    BY Zenon DEF x
  <2>. HIDE DEF q, r
  <2>3. q < 2
    BY <1>1, <2>1, <2>2
  <2>4. q = 0 \/ q = 1
    BY <2>1, <2>3
  <2>5. x * 0 = 0 /\ x * 1 = x
    BY <1>1
  <2>6. n = x + r
    BY <1>1, <2>1, <2>2, <2>4, <2>5
  <2>7. r = 0 <=> n = x
    BY <1>1, <2>1, <2>6
  <2>. QED BY <2>7, Zenon DEF r
<1>. SUFFICES ASSUME NEW j \in Nat
              PROVE  2^j >= n <=> j >= IF n % x # 0 THEN e + 1 ELSE e
  BY Zenon
<1>4. 2^j \in Nat
  BY PowerCounts, Zenon
<1>5. 2^j < x <=> j < e
  BY <1>1, PowerBelow, Zenon
<1>6. 2^j < 2^(e + 1) <=> j < e + 1
  BY <1>1, PowerBelow, Zenon
<1>7. x <= n /\ n < 2 * x
  BY Zenon
<1>8. j = e => 2^j = x
  BY Zenon
<1>. HIDE DEF x
<1>. QED BY <1>1, <1>2, <1>3, <1>4, <1>5, <1>6, <1>7, <1>8

\* What BT_kMalloc asks for has a size.
LEMMA AskedFor ==
    ASSUME Numbers, NEW n \in Sizes
    PROVE  Round(n) \in Nat \ {0} /\ Round(n) + Overhead \in Nat \ {0}
<1>1. n \in Nat /\ n >= 1
  <2>1. n \in 1 .. 2^16
    BY BinaryOK, Zenon
  <2>2. 2^16 \in Nat
    BY PowerCounts, Zenon
  <2>. QED BY <2>1, <2>2
<1>2. (n + 3) \div 4 \in Nat /\ (n + 3) \div 4 >= 1
  BY <1>1
<1>. QED BY <1>2, SizesOK DEF Round

(* BT_GetSuitableCache finds a cache, unless no cache has room, and it is  *)
(* the smallest with room.                                                 *)
LEMMA SuitableFits ==
    ASSUME Numbers, NEW n \in Nat \ {0}
    PROVE  /\ Suitable(n) \in Cache \cup {Large}
           /\ Suitable(n) # Large =>
                 /\ ObjectSize(Suitable(n)) >= n
                 /\ \A c \in Cache : ObjectSize(c) >= n => c >= Suitable(n)
<1>1. PICK k \in 0 .. 10 : MinSize = 2^k
  BY BinaryOK, Zenon
<1>2. \A c \in Nat : ObjectSize(c) = 2^(k + c) /\ k + c \in Nat
  <2>. SUFFICES ASSUME NEW c \in Nat PROVE ObjectSize(c) = 2^(k + c) /\ k + c \in Nat
    BY Zenon
  <2>1. 2^(k + c) = 2^k * 2^c
    BY PowerAdd
  <2>. QED BY <1>1, <2>1 DEF ObjectSize
<1>3. /\ Orders - 1 \in Nat /\ Orders \in Nat /\ 0 \in Cache /\ \A c \in Cache : c \in Nat
      /\ Large \notin Cache /\ k + (Orders - 1) \in Nat /\ k \in Nat
  BY SizesOK DEF Cache, Large
<1>4. MaxSize = 2^(k + (Orders - 1)) /\ MaxSize \in Nat /\ MinSize \in Nat
  <2>1. MaxSize = 2^(k + (Orders - 1))
    BY <1>2, <1>3, Zenon DEF MaxSize
  <2>. QED BY <1>3, <2>1, PowerCounts, SizesOK, Zenon
<1>5. MinSize <= MaxSize
  <2>1. 2^(k + (Orders - 1)) < 2^k <=> k + (Orders - 1) < k
    BY <1>3, PowerBelow, Zenon
  <2>. QED BY <1>1, <1>3, <1>4, <2>1
<1>6. CASE n <= MinSize
  <2>1. Suitable(n) = 0
    BY <1>4, <1>5, <1>6 DEF Suitable
  <2>2. ObjectSize(0) = MinSize
    BY <1>1, <1>2, <1>3
  <2>. QED BY <1>3, <1>4, <1>6, <2>1, <2>2
<1>7. CASE n > MaxSize
  <2>1. Suitable(n) = Large
    BY <1>4, <1>5, <1>7 DEF Suitable
  <2>. QED BY <2>1, Zenon
<1>8. CASE n > MinSize /\ n <= MaxSize
  <2>1. n < 2^30
    <3>1. 2^30 \in Nat
      BY PowerCounts, Zenon
    <3>. QED BY <1>4, <1>8, <3>1, SizesAreWords
  <2>2. PICK e \in 0 .. 29 : 2^e <= n /\ n < 2 * 2^e
    BY <2>1, Between, Zenon
  <2>3. BT_CLZ(n) = 31 - e
    BY <2>2, LeadingZeros, Zenon
  <2>4. BT_CLZ(MinSize) = 31 - k
    <3>1. k \in 0 .. 29 /\ 2^k <= MinSize /\ MinSize < 2 * 2^k
      BY <1>1, <1>4, SizesOK
    <3>. QED BY <1>4, <3>1, LeadingZeros, Zenon
  <2>. DEFINE h == IF n % 2^e # 0 THEN e + 1 ELSE e
  <2>5. h \in Nat /\ \A j \in Nat : 2^j >= n <=> j >= h
    <3>1. h \in Nat
      OBVIOUS
    <3>2. \A j \in Nat : 2^j >= n <=> j >= h
      BY <2>2, NextPower, Zenon
    <3>. QED BY <3>1, <3>2, Zenon
  <2>6. Suitable(n) = h - k
    <3>1. 31 - (31 - e) = e /\ n % 2^(31 - BT_CLZ(n)) = n % 2^e
      BY <2>3
    <3>2. Suitable(n) = BT_CLZ(MinSize) - (IF n % 2^(31 - BT_CLZ(n)) # 0 THEN BT_CLZ(n) - 1 ELSE BT_CLZ(n))
      BY <1>4, <1>8 DEF Suitable
    <3>. QED BY <1>3, <2>3, <2>4, <3>1, <3>2
  <2>. HIDE DEF h
  <2>7. k < h
    <3>1. ~(2^k >= n)
      BY <1>1, <1>4, <1>8
    <3>. QED BY <1>3, <2>5, <3>1
  <2>8. k + (Orders - 1) >= h
    BY <1>3, <1>4, <1>8, <2>5, Zenon
  <2>9. h - k \in Cache /\ h - k \in Nat /\ k + (h - k) = h
    BY <1>3, <2>5, <2>7, <2>8 DEF Cache
  <2>10. ObjectSize(h - k) >= n
    <3>1. ObjectSize(h - k) = 2^h
      BY <1>2, <2>9, Zenon
    <3>2. 2^h >= n
      BY <2>5
    <3>. QED BY <3>1, <3>2, Zenon
  <2>11. ASSUME NEW c \in Cache, ObjectSize(c) >= n PROVE c >= h - k
    <3>1. c \in Nat /\ ObjectSize(c) = 2^(k + c) /\ k + c \in Nat
      BY <1>2, <1>3, Zenon
    <3>2. k + c >= h
      BY <2>5, <2>11, <3>1, Zenon
    <3>. QED BY <1>3, <2>5, <3>1, <3>2
  <2>. QED BY <2>6, <2>9, <2>10, <2>11, Zenon
<1>. QED BY <1>4, <1>6, <1>7, <1>8

-----------------------------------------------------------------------------
\* Where a thread has taken its block p off the list, or not yet put it back.
HasBlock(t) == at[t] \in {"unlock", "tag", "freelock", "push", "pushhead", "freepages"}
               /\ p[t] # Null

Mine(t) == held[t] \cup {b \in Block : b = p[t] /\ HasBlock(t)}

Valid(b) == \/ owner[b[1]] \in Cache /\ b[2] < Objects(owner[b[1]])
            \/ owner[b[1]] = Large /\ b[2] = 0

\* The blocks of cache c that nobody has.
Unheld(c) == {b \in Block : /\ owner[b[1]] = c /\ b[2] < Objects(c)
                            /\ b \notin leaked /\ (\A t \in Thread : b \notin Mine(t))}

InvType == /\ owner \in [Run -> 0 .. Unused] /\ word \in [Block -> Block \cup {Null, Magic}]
           /\ free \in [Cache -> Block \cup {Null}]
           /\ mutex \in [Cache -> Thread \cup {Nobody}]
           /\ at \in [Thread -> Place] /\ cache \in [Thread -> 0 .. Unused]
           /\ p \in [Thread -> Block \cup {Null}] /\ old \in [Thread -> Block \cup {Null}]
           /\ held \in [Thread -> SUBSET Block] /\ stale \in [Thread -> SUBSET Block]
           /\ leaked \subseteq Block

\* Whoever is at the list of a cache has its lock, and p is what at says it is.
ThreadOK(t) ==
    /\ at[t] \in {"lock", "pop", "popagain", "popnext", "extend", "unlock", "freelock",
                  "push", "pushhead"} => cache[t] \in Cache
    /\ at[t] \in {"pop", "popagain", "popnext", "extend", "unlock", "push", "pushhead"}
           => mutex[cache[t]] = t
    /\ at[t] \in {"tag", "push", "pushhead", "freelock", "freepages"} => p[t] # Null
    /\ at[t] \in {"idle", "lock", "pop", "popagain", "extend", "pages"} => p[t] = Null
    /\ at[t] = "popnext" => p[t] # Null /\ p[t] = free[cache[t]]
    /\ at[t] = "pushhead" => word[p[t]] = free[cache[t]]
    /\ at[t] \in {"pages", "freepages"} => cache[t] = Large
    /\ HasBlock(t) => p[t] \notin held[t] /\ owner[p[t][1]] = cache[t]
    /\ old[t] \in held[t] \cup {Null}
    /\ at[t] \in {"idle", "freelock", "push", "pushhead", "freepages"} => old[t] = Null

InvThread == \A t \in Thread : ThreadOK(t)

\* Nobody has a block of another, and blocks lie inside runs.
InvOwned == /\ \A t, u \in Thread : t # u => Mine(t) \cap Mine(u) = {}
            /\ \A t \in Thread : Mine(t) \cap leaked = {} /\ \A b \in Mine(t) : Valid(b)
            /\ \A b \in leaked : Valid(b)

\* The blocks nobody has are linked: each has one predecessor, the head has none.
InvList == \A c \in Cache :
    /\ free[c] \in Unheld(c) \cup {Null}
    /\ \A b \in Unheld(c) : word[b] \in Unheld(c) \cup {Null}
    /\ \A b \in Unheld(c) : free[c] # Null => word[b] # free[c]
    /\ \A b, d \in Unheld(c) : word[b] = word[d] /\ word[b] # Null => b = d

\* A block that is used has its tags, one that was freed has not.
InvTag == \A t \in Thread : /\ \A b \in held[t] : word[b] = Magic
                            /\ \A b \in stale[t] : word[b] # Magic

IInv == InvType /\ InvThread /\ InvOwned /\ InvList /\ InvTag

-----------------------------------------------------------------------------
\* The first block of a run is a block, and the caches are not Large or Unused.
LEMMA BlockFacts ==
    /\ \A r \in Run : <<r, 0>> \in Block
    /\ \A b \in Block : b[1] \in Run /\ b[2] \in Nat /\ b = <<b[1], b[2]>>
    /\ \A r \in Run, c \in Cache, i \in Nat : i < Objects(c) => <<r, i>> \in Block
    /\ \A c \in Cache : Objects(c) \in Nat \ {0}
    /\ Large \notin Cache /\ Unused \notin Cache /\ Large # Unused
    /\ Cache \subseteq 0 .. Unused /\ Large \in 0 .. Unused /\ Unused \in 0 .. Unused
    /\ 0 \in Cache
<1>1. Orders \in Nat \ {0}
  BY SizesOK, Zenon
<1>2. /\ Large \notin Cache /\ Unused \notin Cache /\ Large # Unused
      /\ Cache \subseteq 0 .. Unused /\ Large \in 0 .. Unused /\ Unused \in 0 .. Unused
      /\ 0 \in Cache
  BY <1>1 DEF Cache, Large, Unused
<1>3. \A c \in Cache : Objects(c) \in Nat \ {0} /\ Objects(c) \in 1 .. PageSize \div MinSize
  BY ObjectsFit
<1>4. PICK n : n = PageSize \div MinSize
  BY Zenon
<1>5. \A c \in Cache : Objects(c) \in Nat \ {0} /\ Objects(c) \in 1 .. n
  BY <1>3, <1>4, Zenon
<1>6. Block = Run \X (0 .. n - 1)
  BY <1>4, Zenon DEF Block
<1>7. n \in Int
  <2>1. MinSize \in Nat \ {0}
    BY SizesOK, Zenon
  <2>. QED BY <2>1, <1>4, SizesOK
<1>8. \A r \in Run, c \in Cache, i \in Nat : i < Objects(c) => <<r, i>> \in Block
  BY <1>5, <1>6, <1>7
<1>9. \A r \in Run : <<r, 0>> \in Block
  BY <1>2, <1>5, <1>8
<1>. QED BY <1>2, <1>3, <1>6, <1>7, <1>8, <1>9

-----------------------------------------------------------------------------
\* What belongs to whom depends on the runs and on what the threads have.
LEMMA SameBlocks ==
    ASSUME owner' = owner, leaked' = leaked, \A t \in Thread : Mine(t)' = Mine(t)
    PROVE  /\ \A b : Valid(b)' <=> Valid(b)
           /\ \A c : Unheld(c)' = Unheld(c)
BY Zenon DEF Valid, Unheld

\* A step that changes nobody's blocks keeps them apart.
LEMMA OwnedKept ==
    ASSUME InvOwned, owner' = owner, leaked' = leaked, \A t \in Thread : Mine(t)' = Mine(t)
    PROVE  InvOwned'
BY SameBlocks, Zenon DEF InvOwned

\* The lists depend on the blocks nobody has, their links and the heads.
LEMMA LinksKept ==
    ASSUME InvList, free' = free, \A c \in Cache : Unheld(c)' = Unheld(c),
           \A c \in Cache : \A b \in Unheld(c) : word'[b] = word[b]
    PROVE  InvList'
BY DEF InvList

\* A step that changes neither the links of unheld blocks nor the heads keeps the lists.
LEMMA ListKept ==
    ASSUME InvList, owner' = owner, leaked' = leaked, \A t \in Thread : Mine(t)' = Mine(t),
           \A c \in Cache : \A b \in Unheld(c) : word'[b] = word[b], free' = free
    PROVE  InvList'
<1>1. \A c \in Cache : Unheld(c)' = Unheld(c)
  BY SameBlocks, Zenon
<1>. QED BY <1>1, LinksKept, Zenon

\* A step that writes no word and changes no pointer of a user keeps the tags.
LEMMA TagKept ==
    ASSUME InvTag, word' = word, held' = held, stale' = stale
    PROVE  InvTag'
BY Zenon DEF InvTag

\* BT_kMalloc and BT_kRealloc look for a cache.
LEMMA MallocStep ==
    ASSUME Numbers, IInv, NEW t \in Thread, NEW n \in Sizes, NEW b \in Block \cup {Null},
           Malloc(t, n, b)
    PROVE  IInv'
<1>. USE DEF IInv
<1>1. PICK c : c = Suitable(Round(n) + Overhead) /\ c \in Cache \cup {Large}
  BY AskedFor, SuitableFits, Zenon
<1>2. /\ at[t] = "idle" /\ b \in held[t] \cup {Null}
      /\ old' = [old EXCEPT ![t] = b] /\ cache' = [cache EXCEPT ![t] = c]
      /\ at' = [at EXCEPT ![t] = IF c = Large THEN "pages" ELSE "lock"]
      /\ UNCHANGED <<owner, word, free, mutex, p, held, stale, leaked>>
  BY <1>1, Zenon DEF Malloc, Go, InvType, mem, list, user
<1>3. InvType'
  BY <1>1, <1>2, BlockFacts, Zenon DEF InvType, Place
<1>4. InvThread'
  <2>. SUFFICES ASSUME NEW u \in Thread PROVE ThreadOK(u)'
    BY Zenon DEF InvThread
  <2>1. ThreadOK(u) /\ ThreadOK(t)
    BY Zenon DEF InvThread
  <2>2. CASE u = t
    BY <1>1, <1>2, <2>1, <2>2, BlockFacts, Zenon DEF InvType, ThreadOK, HasBlock
  <2>3. CASE u # t
    BY <1>2, <2>1, <2>3, Zenon DEF InvType, ThreadOK, HasBlock
  <2>. QED BY <2>2, <2>3, Zenon
<1>5. \A u \in Thread : Mine(u)' = Mine(u)
  BY <1>1, <1>2, Zenon DEF Mine, HasBlock, InvType
<1>. QED BY <1>2, <1>3, <1>4, <1>5, OwnedKept, ListKept, TagKept, Zenon

\* SLAB_LOCK: nobody else is at the list of this cache.
LEMMA LockStep ==
    ASSUME IInv, NEW t \in Thread, Lock(t)
    PROVE  IInv'
<1>. USE DEF IInv
<1>1. /\ at[t] \in {"lock", "freelock"} /\ mutex[cache[t]] = Nobody
      /\ mutex' = [mutex EXCEPT ![cache[t]] = t]
      /\ at' = [at EXCEPT ![t] = IF at[t] = "lock" THEN "pop" ELSE "push"]
      /\ UNCHANGED <<owner, word, free, cache, p, old, held, stale, leaked>>
  BY Zenon DEF Lock, Go, mem, list, call, user
<1>2. cache[t] \in Cache
  BY <1>1, Zenon DEF InvThread, ThreadOK
<1>3. InvType'
  BY <1>1, <1>2, Zenon DEF InvType, Place
<1>4. InvThread'
  <2>. SUFFICES ASSUME NEW u \in Thread PROVE ThreadOK(u)'
    BY Zenon DEF InvThread
  <2>1. ThreadOK(u) /\ ThreadOK(t)
    BY Zenon DEF InvThread
  <2>2. CASE u = t
    BY <1>1, <1>2, <2>1, <2>2, Zenon DEF InvType, ThreadOK, HasBlock
  <2>3. CASE u # t
    BY <1>1, <1>2, <2>1, <2>3, Distinct DEF InvType, ThreadOK, HasBlock
  <2>. QED BY <2>2, <2>3, Zenon
<1>5. \A u \in Thread : Mine(u)' = Mine(u)
  <2>1. ThreadOK(t)
    BY Zenon DEF InvThread
  <2>. QED BY <1>1, <2>1, Zenon DEF Mine, HasBlock, InvType, ThreadOK
<1>. QED BY <1>1, <1>3, <1>4, <1>5, OwnedKept, ListKept, TagKept, Zenon

\* pop_free reads the head of the list, which nobody has.
LEMMA PopHeadStep ==
    ASSUME IInv, NEW t \in Thread, PopHead(t)
    PROVE  IInv'
<1>. USE DEF IInv
<1>1. /\ at[t] \in {"pop", "popagain"}
      /\ p' = [p EXCEPT ![t] = free[cache[t]]]
      /\ at' = [at EXCEPT ![t] = CASE free[cache[t]] # Null -> "popnext"
                                   [] free[cache[t]] = Null /\ at[t] = "pop" -> "extend"
                                   [] OTHER -> "unlock"]
      /\ UNCHANGED <<owner, word, free, mutex, cache, old, held, stale, leaked>>
  BY Zenon DEF PopHead, Go, mem, list, user, InvType
<1>2. cache[t] \in Cache /\ free[cache[t]] \in Block \cup {Null}
  BY <1>1, Zenon DEF InvThread, ThreadOK, InvType
<1>3. InvType'
  BY <1>1, <1>2, Zenon DEF InvType, Place
<1>4. InvThread'
  <2>. SUFFICES ASSUME NEW u \in Thread PROVE ThreadOK(u)'
    BY Zenon DEF InvThread
  <2>1. ThreadOK(u) /\ ThreadOK(t)
    BY Zenon DEF InvThread
  <2>2. CASE u = t
    BY <1>1, <1>2, <2>1, <2>2, Zenon DEF InvType, ThreadOK, HasBlock
  <2>3. CASE u # t
    BY <1>1, <1>2, <2>1, <2>3, Zenon DEF InvType, ThreadOK, HasBlock
  <2>. QED BY <2>2, <2>3, Zenon
<1>5. \A u \in Thread : Mine(u)' = Mine(u)
  BY <1>1, <1>2, Zenon DEF Mine, HasBlock, InvType
<1>. QED BY <1>1, <1>3, <1>4, <1>5, OwnedKept, ListKept, TagKept, Zenon

\* pop_free makes the successor the head: the old head is the thread's alone.
LEMMA PopNextStep ==
    ASSUME IInv, NEW t \in Thread, PopNext(t)
    PROVE  IInv'
<1>. USE DEF IInv
<1>. DEFINE k == cache[t]
            q == p[t]
<1>1. /\ at[t] = "popnext"
      /\ free' = [free EXCEPT ![k] = word[q]] /\ at' = [at EXCEPT ![t] = "unlock"]
      /\ UNCHANGED <<owner, word, mutex, cache, p, old, held, stale, leaked>>
  BY Zenon DEF PopNext, Go, mem, call, user
<1>2. /\ k \in Cache /\ mutex[k] = t /\ q = free[k] /\ q # Null
  BY <1>1, Zenon DEF InvThread, ThreadOK
<1>3. q \in Unheld(k) /\ q \in Block
  BY <1>2, Zenon DEF InvList, Unheld
<1>4. /\ owner[q[1]] = k /\ q[2] < Objects(k) /\ q \notin leaked
      /\ \A u \in Thread : q \notin Mine(u)
  BY <1>3, Zenon DEF Unheld
<1>5. word[q] \in Unheld(k) \cup {Null} /\ word[q] # q
  BY <1>2, <1>3 DEF InvList
<1>6. InvType'
  <2>1. word[q] \in Block \cup {Null}
    BY <1>5, Zenon DEF Unheld
  <2>. QED BY <1>1, <1>2, <2>1, Zenon DEF InvType, Place
<1>7. \A u \in Thread : Mine(u)' = IF u = t THEN Mine(u) \cup {q} ELSE Mine(u)
  BY <1>1, <1>2, <1>3 DEF Mine, HasBlock, InvType
<1>8. InvThread'
  <2>. SUFFICES ASSUME NEW u \in Thread PROVE ThreadOK(u)'
    BY Zenon DEF InvThread
  <2>1. ThreadOK(u) /\ ThreadOK(t)
    BY Zenon DEF InvThread
  <2>2. CASE u = t
    <3>1. q \notin held[t]
      BY <1>4, Zenon DEF Mine
    <3>. QED BY <1>1, <1>2, <1>4, <2>1, <2>2, <3>1, Zenon DEF InvType, ThreadOK, HasBlock
  <2>3. CASE u # t
    BY <1>1, <1>2, <2>1, <2>3, Zenon DEF InvType, ThreadOK, HasBlock
  <2>. QED BY <2>2, <2>3, Zenon
<1>9. InvOwned'
  <2>1. \A b : Valid(b)' <=> Valid(b)
    BY <1>1, Zenon DEF Valid
  <2>2. Valid(q)
    BY <1>2, <1>4, Zenon DEF Valid
  <2>. QED BY <1>1, <1>4, <1>7, <2>1, <2>2 DEF InvOwned
<1>10. InvList'
  <2>1. \A c \in Cache : Unheld(c)' = Unheld(c) \ {q}
    BY <1>1, <1>7, Zenon DEF Unheld
  <2>2. \A c \in Cache : c # k => q \notin Unheld(c)
    BY <1>4, Zenon DEF Unheld
  <2>. SUFFICES ASSUME NEW c \in Cache
                PROVE  /\ free'[c] \in Unheld(c)' \cup {Null}
                       /\ \A b \in Unheld(c)' : word[b] \in Unheld(c)' \cup {Null}
                       /\ \A b \in Unheld(c)' : free'[c] # Null => word[b] # free'[c]
                       /\ \A b, d \in Unheld(c)' : word[b] = word[d] /\ word[b] # Null => b = d
    BY <1>1, Zenon DEF InvList
  <2>3. CASE c = k
    BY <1>1, <1>2, <1>3, <1>5, <2>1, <2>3 DEF InvList, InvType
  <2>4. CASE c # k
    BY <1>1, <2>1, <2>2, <2>4 DEF InvList, InvType
  <2>. QED BY <2>3, <2>4, Zenon
<1>. QED BY <1>1, <1>6, <1>8, <1>9, <1>10, TagKept, Zenon

\* SLAB_UNLOCK at the end of BT_CacheAlloc: the block stays the thread's.
LEMMA UnlockStep ==
    ASSUME IInv, NEW t \in Thread, Unlock(t)
    PROVE  IInv'
<1>. USE DEF IInv
<1>1. /\ at[t] = "unlock"
      /\ mutex' = [mutex EXCEPT ![cache[t]] = Nobody]
      /\ at' = [at EXCEPT ![t] = IF p[t] = Null THEN "idle" ELSE "tag"]
      /\ cache' = IF p[t] = Null THEN [cache EXCEPT ![t] = 0] ELSE cache
      /\ old' = IF p[t] = Null THEN [old EXCEPT ![t] = Null] ELSE old
      /\ p' = p
      /\ UNCHANGED <<owner, word, free, held, stale, leaked>>
  <2>1. CASE p[t] = Null
    BY <2>1, Zenon DEF Unlock, Return, mem, list, user, InvType
  <2>2. CASE p[t] # Null
    BY <2>2, Zenon DEF Unlock, Go, mem, list, call, user
  <2>. QED BY <2>1, <2>2, Zenon
<1>2. cache[t] \in Cache /\ mutex[cache[t]] = t
  BY <1>1, Zenon DEF InvThread, ThreadOK
<1>3. InvType'
  BY <1>1, <1>2, BlockFacts, Zenon DEF InvType, Place
<1>4. InvThread'
  <2>. SUFFICES ASSUME NEW u \in Thread PROVE ThreadOK(u)'
    BY Zenon DEF InvThread
  <2>1. ThreadOK(u) /\ ThreadOK(t)
    BY Zenon DEF InvThread
  <2>2. CASE u = t
    BY <1>1, <1>2, <2>1, <2>2, Zenon DEF InvType, ThreadOK, HasBlock
  <2>3. CASE u # t
    BY <1>1, <1>2, <2>1, <2>3 DEF InvType, ThreadOK, HasBlock
  <2>. QED BY <2>2, <2>3, Zenon
<1>5. \A u \in Thread : Mine(u)' = Mine(u)
  BY <1>1, Zenon DEF Mine, HasBlock, InvType
<1>. QED BY <1>1, <1>3, <1>4, <1>5, OwnedKept, ListKept, TagKept, Zenon

\* BT_kFree lets a block through that its caller has, and panics on any other.
LEMMA FreeStep ==
    ASSUME IInv, NEW t \in Thread, NEW b \in Block, Free(t, b)
    PROVE  /\ IInv'
           /\ b \in stale[t] => at'[t] = "panic"
<1>. USE DEF IInv
<1>1. /\ at[t] = "idle" /\ b \in held[t] \cup stale[t]
      /\ held' = [held EXCEPT ![t] = @ \ {b}] /\ p' = [p EXCEPT ![t] = b]
      /\ cache' = [cache EXCEPT ![t] = owner[b[1]]]
      /\ UNCHANGED <<owner, word, free, mutex, old, stale, leaked>>
  BY Zenon DEF Free, mem, list
<1>2. /\ b \in held[t] => word[b] = Magic
      /\ b \in stale[t] => word[b] # Magic
  BY Zenon DEF InvTag
<1>3. b \in held[t] => Valid(b)
  BY Zenon DEF InvOwned, Mine
<1>4. at' = [at EXCEPT ![t] = IF b \in stale[t] THEN "panic"
                              ELSE IF owner[b[1]] = Large THEN "freepages" ELSE "freelock"]
  BY <1>1, <1>2, Zenon DEF Free, Go, Verified
<1>5. InvType'
  BY <1>1, <1>4, BlockFacts, Zenon DEF InvType, Place
<1>6. InvThread'
  <2>. SUFFICES ASSUME NEW u \in Thread PROVE ThreadOK(u)'
    BY Zenon DEF InvThread
  <2>1. ThreadOK(u) /\ ThreadOK(t)
    BY Zenon DEF InvThread
  <2>2. CASE u = t
    <3>1. CASE b \in stale[t]
      BY <1>1, <1>2, <1>4, <2>1, <2>2, <3>1, Zenon DEF InvType, ThreadOK, HasBlock
    <3>2. CASE b \notin stale[t]
      <4>1. b # Null
        BY Distinct, Zenon
      <4>2. owner[b[1]] \in Cache \/ owner[b[1]] = Large
        BY <1>1, <1>3, <3>2, Zenon DEF Valid
      <4>. QED BY <1>1, <1>4, <2>1, <2>2, <3>2, <4>1, <4>2, Zenon DEF InvType, ThreadOK, HasBlock
    <3>. QED BY <3>1, <3>2, Zenon
  <2>3. CASE u # t
    BY <1>1, <1>4, <2>1, <2>3, Zenon DEF InvType, ThreadOK, HasBlock
  <2>. QED BY <2>2, <2>3, Zenon
<1>7. \A u \in Thread : Mine(u)' = Mine(u)
  <2>1. b # Null
    BY Distinct, Zenon
  <2>2. CASE b \in stale[t]
    BY <1>1, <1>2, <1>4, <2>2, Zenon DEF Mine, HasBlock, InvType
  <2>3. CASE b \notin stale[t]
    BY <1>1, <1>4, <2>1, <2>3, Zenon DEF Mine, HasBlock, InvType
  <2>. QED BY <2>2, <2>3, Zenon
<1>8. InvTag'
  BY <1>1, Zenon DEF InvTag, InvType
<1>9. b \in stale[t] => at'[t] = "panic"
  BY <1>4, Zenon DEF InvType
<1>. QED BY <1>1, <1>5, <1>6, <1>7, <1>8, <1>9, OwnedKept, ListKept, Zenon

\* push_free links a block that is still the thread's.
LEMMA PushNextStep ==
    ASSUME IInv, NEW t \in Thread, PushNext(t)
    PROVE  IInv'
<1>. USE DEF IInv
<1>1. /\ at[t] = "push"
      /\ word' = [word EXCEPT ![p[t]] = free[cache[t]]] /\ at' = [at EXCEPT ![t] = "pushhead"]
      /\ UNCHANGED <<owner, free, mutex, cache, p, old, held, stale, leaked>>
  BY Zenon DEF PushNext, Go, mem, call, user
<1>2. /\ cache[t] \in Cache /\ mutex[cache[t]] = t /\ p[t] # Null /\ p[t] \notin held[t]
      /\ free[cache[t]] \in Block \cup {Null} /\ p[t] \in Block
  BY <1>1, Zenon DEF InvThread, ThreadOK, HasBlock, InvType
<1>3. p[t] \in Mine(t)
  BY <1>1, <1>2, Zenon DEF Mine, HasBlock
<1>4. InvType'
  BY <1>1, <1>2, Zenon DEF InvType, Place
<1>5. \A u \in Thread : p[t] \notin held[u]
  BY <1>2, <1>3, Zenon DEF InvOwned, Mine
<1>6. InvThread'
  <2>. SUFFICES ASSUME NEW u \in Thread PROVE ThreadOK(u)'
    BY Zenon DEF InvThread
  <2>1. ThreadOK(u) /\ ThreadOK(t)
    BY Zenon DEF InvThread
  <2>2. CASE u = t
    <3>1. at'[t] = "pushhead" /\ word'[p[t]] = free[cache[t]]
      BY <1>1, <1>2, Zenon DEF InvType
    <3>. QED BY <1>1, <1>2, <2>1, <2>2, <3>1, Zenon DEF ThreadOK, HasBlock
  <2>3. CASE u # t
    <3>1. at[u] = "pushhead" => p[u] # p[t]
      <4>. SUFFICES ASSUME at[u] = "pushhead", p[u] = p[t] PROVE FALSE
        BY Zenon
      <4>1. p[u] \in Mine(u)
        BY <1>2, Zenon DEF Mine, HasBlock
      <4>. QED BY <1>3, <2>3, <4>1, Zenon DEF InvOwned
    <3>. QED BY <1>1, <1>2, <2>1, <2>3, <3>1, Zenon DEF InvType, ThreadOK, HasBlock
  <2>. QED BY <2>2, <2>3, Zenon
<1>7. \A u \in Thread : Mine(u)' = Mine(u)
  BY <1>1, Zenon DEF Mine, HasBlock, InvType
<1>8. \A c \in Cache : \A b \in Unheld(c) : word'[b] = word[b]
  BY <1>1, <1>3, Zenon DEF Unheld, InvType
<1>9. InvTag'
  BY <1>1, <1>2, <1>5, Distinct DEF InvTag, InvType
<1>. QED BY <1>1, <1>4, <1>6, <1>7, <1>8, <1>9, OwnedKept, ListKept, Zenon

\* push_free makes the block the head: nobody has it any more.
LEMMA PushHeadStep ==
    ASSUME IInv, NEW t \in Thread, PushHead(t)
    PROVE  IInv'
<1>. USE DEF IInv
<1>. DEFINE k == cache[t]
            q == p[t]
<1>1. /\ at[t] = "pushhead"
      /\ free' = [free EXCEPT ![k] = q] /\ mutex' = [mutex EXCEPT ![k] = Nobody]
      /\ stale' = [stale EXCEPT ![t] = @ \cup {q}]
      /\ at' = [at EXCEPT ![t] = "idle"] /\ cache' = [cache EXCEPT ![t] = 0]
      /\ p' = [p EXCEPT ![t] = Null] /\ old' = [old EXCEPT ![t] = Null]
      /\ UNCHANGED <<owner, word, held, leaked>>
  BY Zenon DEF PushHead, Return, mem
<1>2. /\ k \in Cache /\ mutex[k] = t /\ q # Null /\ q \in Block /\ q \notin held[t]
      /\ word[q] = free[k] /\ owner[q[1]] = k
  BY <1>1, Zenon DEF InvThread, ThreadOK, HasBlock, InvType
<1>3. q \in Mine(t)
  BY <1>1, <1>2, Zenon DEF Mine, HasBlock
<1>4. /\ q \notin leaked /\ Valid(q) /\ \A u \in Thread : u # t => q \notin Mine(u)
  BY <1>3, Zenon DEF InvOwned
<1>5. InvType'
  BY <1>1, <1>2, BlockFacts, Zenon DEF InvType, Place
<1>6. \A u \in Thread : Mine(u)' = Mine(u) \ {q}
  <2>1. Mine(t)' = Mine(t) \ {q}
    BY <1>1, <1>2, Zenon DEF Mine, HasBlock, InvType
  <2>2. \A u \in Thread : u # t => Mine(u)' = Mine(u)
    BY <1>1, Zenon DEF Mine, HasBlock, InvType
  <2>. QED BY <1>4, <2>1, <2>2, Zenon
<1>7. InvThread'
  <2>. SUFFICES ASSUME NEW u \in Thread PROVE ThreadOK(u)'
    BY Zenon DEF InvThread
  <2>1. ThreadOK(u) /\ ThreadOK(t)
    BY Zenon DEF InvThread
  <2>2. CASE u = t
    BY <1>1, <1>2, <2>1, <2>2, Zenon DEF InvType, ThreadOK, HasBlock
  <2>3. CASE u # t
    <3>1. at'[u] = at[u] /\ cache'[u] = cache[u] /\ p'[u] = p[u] /\ old'[u] = old[u]
      BY <1>1, <2>3, Zenon DEF InvType
    <3>2. \A c \in Cache : mutex[c] = u => mutex'[c] = u /\ free'[c] = free[c]
      BY <1>1, <1>2, <2>3, Zenon DEF InvType
    <3>3. at[u] \in {"pop", "popagain", "popnext", "extend", "unlock", "push", "pushhead"}
              => mutex'[cache[u]] = u /\ free'[cache[u]] = free[cache[u]]
      BY <2>1, <3>2, Zenon DEF ThreadOK
    <3>4. UNCHANGED <<owner, word, held>> /\ (HasBlock(u)' <=> HasBlock(u))
      BY <1>1, <3>1, Zenon DEF HasBlock
    <3>. QED BY <2>1, <3>1, <3>3, <3>4, Zenon DEF ThreadOK
  <2>. QED BY <2>2, <2>3, Zenon
<1>8. InvOwned'
  <2>1. \A b : Valid(b)' <=> Valid(b)
    BY <1>1, Zenon DEF Valid
  <2>. QED BY <1>1, <1>6, <2>1, Zenon DEF InvOwned
<1>9. InvList'
  <2>1. \A c \in Cache : c # k => Unheld(c)' = Unheld(c)
    BY <1>1, <1>2, <1>6, Zenon DEF Unheld
  <2>2. q \notin Unheld(k)
    BY <1>3, Zenon DEF Unheld
  <2>3. \A c \in Cache : c = k => Unheld(c)' = Unheld(c) \cup {q}
    <3>1. q[2] < Objects(k)
      BY <1>2, <1>4, BlockFacts, Zenon DEF Valid
    <3>. QED BY <1>1, <1>2, <1>4, <1>6, <3>1, Zenon DEF Unheld
  <2>. SUFFICES ASSUME NEW c \in Cache
                PROVE  /\ free'[c] \in Unheld(c)' \cup {Null}
                       /\ \A b \in Unheld(c)' : word[b] \in Unheld(c)' \cup {Null}
                       /\ \A b \in Unheld(c)' : free'[c] # Null => word[b] # free'[c]
                       /\ \A b, d \in Unheld(c)' : word[b] = word[d] /\ word[b] # Null => b = d
    BY <1>1, Zenon DEF InvList
  <2>4. CASE c = k
    <3>1. Unheld(c)' = Unheld(c) \cup {q} /\ q \notin Unheld(c) /\ word[q] = free[c]
      BY <1>2, <2>2, <2>3, <2>4, Zenon
    <3>2. free'[c] = q
      BY <1>1, <2>4, Zenon DEF InvType
    <3>. QED BY <1>2, <3>1, <3>2 DEF InvList
  <2>5. CASE c # k
    BY <1>1, <2>1, <2>5 DEF InvList, InvType
  <2>. QED BY <2>4, <2>5, Zenon
<1>10. InvTag'
  <2>1. word[q] # Magic
    BY <1>2, Distinct, Zenon DEF InvType
  <2>. QED BY <1>1, <2>1, Zenon DEF InvTag, InvType
<1>. QED BY <1>5, <1>7, <1>8, <1>9, <1>10, Zenon

\* The tags are written: the block is the caller's, and the one it replaces nobody's.
LEMMA TagStep ==
    ASSUME IInv, NEW t \in Thread, Tag(t)
    PROVE  IInv'
<1>. USE DEF IInv
<1>. DEFINE q == p[t]
            o == old[t]
<1>1. /\ at[t] = "tag" /\ word' = [word EXCEPT ![q] = Magic]
      /\ held' = [held EXCEPT ![t] = (held[t] \cup {q}) \ {o}]
      /\ stale' = [u \in Thread |-> stale[u] \ {q}]
      /\ leaked' = leaked \cup ({o} \ {Null})
      /\ at' = [at EXCEPT ![t] = "idle"] /\ cache' = [cache EXCEPT ![t] = 0]
      /\ p' = [p EXCEPT ![t] = Null] /\ old' = [old EXCEPT ![t] = Null]
      /\ UNCHANGED <<owner, free, mutex>>
  BY Zenon DEF Tag, Return, InvType
<1>2. /\ q # Null /\ q \in Block /\ q \notin held[t] /\ o \in held[t] \cup {Null}
  BY <1>1, Zenon DEF InvThread, ThreadOK, HasBlock, InvType
<1>3. q \in Mine(t)
  BY <1>1, <1>2, Zenon DEF Mine, HasBlock
<1>4. o # q /\ Null \notin Block /\ (o # Null => o \in Mine(t))
  BY <1>2, Distinct, Zenon DEF Mine
<1>5. InvType'
  BY <1>1, <1>2, BlockFacts, Zenon DEF InvType, Place
<1>6. /\ Mine(t)' = Mine(t) \ {o}
      /\ \A u \in Thread : u # t => Mine(u)' = Mine(u)
  <2>1. Mine(t) = held[t] \cup {q}
    BY <1>1, <1>2, Zenon DEF Mine, HasBlock
  <2>2. Mine(t)' = (held[t] \cup {q}) \ {o}
    BY <1>1, Zenon DEF Mine, HasBlock, InvType
  <2>. QED BY <1>1, <2>1, <2>2, Zenon DEF Mine, HasBlock, InvType
<1>7. InvThread'
  <2>. SUFFICES ASSUME NEW u \in Thread PROVE ThreadOK(u)'
    BY Zenon DEF InvThread
  <2>1. ThreadOK(u) /\ ThreadOK(t)
    BY Zenon DEF InvThread
  <2>2. CASE u = t
    BY <1>1, <1>2, <2>1, <2>2, Zenon DEF InvType, ThreadOK, HasBlock
  <2>3. CASE u # t
    <3>1. at[u] = "pushhead" => p[u] # q
      <4>. SUFFICES ASSUME at[u] = "pushhead", p[u] = q PROVE FALSE
        BY Zenon
      <4>1. p[u] \in Mine(u)
        BY <1>2, Zenon DEF Mine, HasBlock
      <4>. QED BY <1>3, <2>3, <4>1, Zenon DEF InvOwned
    <3>2. word'[p[u]] = word[p[u]] \/ at[u] # "pushhead"
      BY <1>1, <3>1, <2>1, Zenon DEF InvType, ThreadOK
    <3>. QED BY <1>1, <1>2, <2>1, <2>3, <3>2, Zenon DEF InvType, ThreadOK, HasBlock
  <2>. QED BY <2>2, <2>3, Zenon
<1>8. InvOwned'
  <2>1. \A b : Valid(b)' <=> Valid(b)
    BY <1>1, Zenon DEF Valid
  <2>2. \A u \in Thread : u # t /\ o # Null => o \notin Mine(u)
    BY <1>4, Zenon DEF InvOwned
  <2>3. o # Null => Valid(o)
    BY <1>4, Zenon DEF InvOwned
  <2>4. \A u, v \in Thread : u # v => Mine(u)' \cap Mine(v)' = {}
    <3>1. \A u \in Thread : Mine(u)' \subseteq Mine(u)
      BY <1>6, Zenon
    <3>. QED BY <3>1, Zenon DEF InvOwned
  <2>5. \A u \in Thread : /\ Mine(u)' \cap leaked' = {}
                          /\ \A b \in Mine(u)' : Valid(b)
    BY <1>1, <1>6, <2>2 DEF InvOwned
  <2>6. \A b \in leaked' : Valid(b)
    BY <1>1, <2>3, Zenon DEF InvOwned
  <2>. QED BY <2>1, <2>4, <2>5, <2>6, Zenon DEF InvOwned
<1>9. InvList'
  <2>1. \A c \in Cache : Unheld(c)' = Unheld(c)
    BY <1>1, <1>4, <1>6, Zenon DEF Unheld
  <2>2. \A c \in Cache : \A b \in Unheld(c) : b \in Block /\ b # q
    BY <1>3, Zenon DEF Unheld
  <2>3. \A c \in Cache : \A b \in Unheld(c) : word'[b] = word[b]
    BY <1>1, <2>2, Zenon DEF InvType
  <2>4. free' = free
    BY <1>1, Zenon
  <2>. QED BY <2>1, <2>3, <2>4, LinksKept, Zenon
<1>10. InvTag'
  BY <1>1, <1>2 DEF InvTag, InvType
<1>. QED BY <1>5, <1>7, <1>8, <1>9, <1>10, Zenon

\* BT_kMalloc takes pages, which were nobody's.
LEMMA MallocPagesStep ==
    ASSUME IInv, NEW t \in Thread, MallocPages(t)
    PROVE  IInv'
<1>. USE DEF IInv
<1>0. at[t] = "pages" /\ UNCHANGED <<word, free, mutex, held, stale, leaked>>
  BY Zenon DEF MallocPages, list, user
<1>1. CASE Return(t) /\ UNCHANGED <<owner, pagesLeft>>
  <2>1. /\ at' = [at EXCEPT ![t] = "idle"] /\ cache' = [cache EXCEPT ![t] = 0]
        /\ p' = [p EXCEPT ![t] = Null] /\ old' = [old EXCEPT ![t] = Null] /\ owner' = owner
    BY <1>1, Zenon DEF Return
  <2>2. InvType'
    BY <1>0, <2>1, BlockFacts, Zenon DEF InvType, Place
  <2>3. InvThread'
    <3>. SUFFICES ASSUME NEW u \in Thread PROVE ThreadOK(u)'
      BY Zenon DEF InvThread
    <3>1. ThreadOK(u)
      BY Zenon DEF InvThread
    <3>2. CASE u = t
      <4>1. at'[u] = "idle" /\ p'[u] = Null /\ old'[u] = Null
        BY <2>1, <3>2, Zenon DEF InvType
      <4>. QED BY <4>1, Zenon DEF ThreadOK, HasBlock
    <3>3. CASE u # t
      <4>1. /\ at'[u] = at[u] /\ p'[u] = p[u] /\ old'[u] = old[u] /\ cache'[u] = cache[u]
            /\ owner' = owner /\ word' = word /\ free' = free /\ mutex' = mutex /\ held' = held
        BY <1>0, <2>1, <3>3, Zenon DEF InvType
      <4>. QED BY <3>1, <4>1, Zenon DEF ThreadOK, HasBlock
    <3>. QED BY <3>2, <3>3, Zenon
  <2>4. \A u \in Thread : Mine(u)' = Mine(u)
    BY <1>0, <2>1, Zenon DEF Mine, HasBlock, InvType
  <2>. QED BY <1>0, <2>1, <2>2, <2>3, <2>4, OwnedKept, ListKept, TagKept, Zenon
<1>2. ASSUME NEW r \in Run, owner[r] = Unused, owner' = [owner EXCEPT ![r] = Large],
             p' = [p EXCEPT ![t] = <<r, 0>>], at' = [at EXCEPT ![t] = "tag"],
             cache' = cache, old' = old
      PROVE  IInv'
  <2>. DEFINE q == <<r, 0>>
  <2>1. q \in Block /\ q # Null /\ q[1] = r /\ q[2] = 0
    BY BlockFacts, Distinct, Zenon
  <2>2. ~Valid(q)
    BY <1>2, <2>1, BlockFacts, Zenon DEF Valid
  <2>3. q \notin leaked /\ \A u \in Thread : q \notin Mine(u)
    BY <2>2, Zenon DEF InvOwned
  <2>4. \A b \in Block : Valid(b) => b[1] # r
    BY <1>2, BlockFacts, Zenon DEF Valid
  <2>5. InvType'
    BY <1>0, <1>2, <2>1, BlockFacts, Zenon DEF InvType, Place
  <2>6. \A u \in Thread : Mine(u)' = IF u = t THEN Mine(u) \cup {q} ELSE Mine(u)
    BY <1>0, <1>2, <2>1, Zenon DEF Mine, HasBlock, InvType
  <2>7. cache[t] = Large
    BY <1>0, Zenon DEF InvThread, ThreadOK
  <2>8. InvThread'
    <3>. SUFFICES ASSUME NEW u \in Thread PROVE ThreadOK(u)'
      BY Zenon DEF InvThread
    <3>1. ThreadOK(u) /\ ThreadOK(t)
      BY Zenon DEF InvThread
    <3>2. CASE u = t
      <4>1. q \notin held[t]
        BY <2>3, Zenon DEF Mine
      <4>. QED BY <1>0, <1>2, <2>1, <2>7, <3>1, <3>2, <4>1, Zenon DEF InvType, ThreadOK, HasBlock
    <3>3. CASE u # t
      <4>1. HasBlock(u) => p[u] \in Block /\ p[u] \in Mine(u)
        BY Zenon DEF Mine, HasBlock, InvType
      <4>2. HasBlock(u) => p[u][1] # r /\ p[u][1] \in Run
        BY <2>4, <4>1, BlockFacts, Zenon DEF InvOwned
      <4>3. HasBlock(u) => owner'[p[u][1]] = owner[p[u][1]]
        BY <1>2, <4>2, Zenon DEF InvType
      <4>. QED BY <1>0, <1>2, <3>1, <3>3, <4>3, Zenon DEF InvType, ThreadOK, HasBlock
    <3>. QED BY <3>2, <3>3, Zenon
  <2>9. InvOwned'
    <3>1. \A b \in Block : Valid(b) => Valid(b)'
      BY <1>2, <2>4, BlockFacts, Zenon DEF Valid, InvType
    <3>2. Valid(q)'
      BY <1>2, <2>1, Zenon DEF Valid, InvType
    <3>3. \A u \in Thread : Mine(u) \subseteq Block
      BY Zenon DEF Mine, InvType
    <3>4. leaked \subseteq Block
      BY Zenon DEF InvType
    <3>. QED BY <1>0, <2>3, <2>6, <3>1, <3>2, <3>3, <3>4 DEF InvOwned
  <2>10. InvList'
    <3>1. \A b \in Block, c \in Cache : owner'[b[1]] = c <=> owner[b[1]] = c
      BY <1>2, BlockFacts, Zenon DEF InvType
    <3>2. \A c \in Cache : \A b \in Block : owner[b[1]] = c => b # q
      BY <1>2, <2>1, BlockFacts
    <3>3. \A c \in Cache : Unheld(c)' = Unheld(c)
      BY <1>0, <2>6, <3>1, <3>2 DEF Unheld
    <3>. QED BY <1>0, <3>3 DEF InvList
  <2>. QED BY <1>0, <2>5, <2>8, <2>9, <2>10, TagKept, Zenon
<1>3. \/ Return(t) /\ UNCHANGED <<owner, pagesLeft>>
      \/ \E r \in Run : /\ owner[r] = Unused /\ owner' = [owner EXCEPT ![r] = Large]
                        /\ p' = [p EXCEPT ![t] = <<r, 0>>] /\ at' = [at EXCEPT ![t] = "tag"]
                        /\ cache' = cache /\ old' = old
  BY Zenon DEF MallocPages, PageAlloc, Go
<1>. QED BY <1>1, <1>2, <1>3, Zenon

\* extend_cache links the blocks of a run that was nobody's before the others.
LEMMA ExtendStep ==
    ASSUME IInv, NEW t \in Thread, Extend(t)
    PROVE  IInv'
<1>. USE DEF IInv
<1>0. /\ at[t] = "extend" /\ at' = [at EXCEPT ![t] = "popagain"]
      /\ UNCHANGED <<mutex, cache, p, old, held, stale, leaked>>
  BY Zenon DEF Extend, Go, call, user
<1>. PICK k : k = cache[t]
  BY Zenon
<1>1. k \in Cache /\ mutex[k] = t
  BY <1>0, Zenon DEF InvThread, ThreadOK
<1>2. \A u \in Thread : Mine(u)' = Mine(u)
  BY <1>0, Zenon DEF Mine, HasBlock, InvType
<1>3. CASE UNCHANGED <<owner, word, free>>
  <2>1. InvType'
    BY <1>0, <1>3, Zenon DEF InvType, Place
  <2>2. InvThread'
    <3>. SUFFICES ASSUME NEW u \in Thread PROVE ThreadOK(u)'
      BY Zenon DEF InvThread
    <3>1. /\ ThreadOK(u) /\ UNCHANGED <<owner, word, free, mutex, held>>
          /\ p'[u] = p[u] /\ old'[u] = old[u] /\ cache'[u] = cache[u]
      BY <1>0, <1>3, Zenon DEF InvThread
    <3>2. CASE u = t
      <4>1. at[u] = "extend" /\ at'[u] = "popagain"
        BY <1>0, <3>2, Zenon DEF InvType
      <4>. QED BY <3>1, <4>1, Zenon DEF ThreadOK, HasBlock
    <3>3. CASE u # t
      <4>1. at'[u] = at[u]
        BY <1>0, <3>3, Zenon DEF InvType
      <4>2. HasBlock(u)' <=> HasBlock(u)
        BY <3>1, <4>1, Zenon DEF HasBlock
      <4>. QED BY <3>1, <4>1, <4>2, Zenon DEF ThreadOK
    <3>. QED BY <3>2, <3>3, Zenon
  <2>. QED BY <1>0, <1>2, <1>3, <2>1, <2>2, OwnedKept, ListKept, TagKept, Zenon
<1>4. ASSUME NEW r \in Run, owner[r] = Unused, owner' = [owner EXCEPT ![r] = k],
             word' = Attach(r, k), free' = [free EXCEPT ![k] = <<r, 0>>]
      PROVE  IInv'
  <2>. DEFINE Fresh(b) == b[1] = r /\ b[2] < Objects(k)
  <2>1. /\ \A b \in Block : b[1] \in Run /\ b[2] \in Nat /\ b = <<b[1], b[2]>>
        /\ Objects(k) \in Nat \ {0} /\ <<r, 0>> \in Block /\ Null \notin Block
        /\ \A i \in Nat : i < Objects(k) => <<r, i>> \in Block
    BY <1>1, BlockFacts, Distinct, Zenon
  <2>2. \A b \in Block : Valid(b) => b[1] # r
    BY <1>4, BlockFacts, Zenon DEF Valid
  <2>3. \A b \in Block : b[1] = r => b \notin leaked /\ \A u \in Thread : b \notin Mine(u)
    BY <2>2, Zenon DEF InvOwned
  <2>4. /\ word' \in [Block -> Block \cup {Null, Magic}]
        /\ \A b \in Block : b[1] # r => word'[b] = word[b]
        /\ \A b \in Block : Fresh(b) /\ b[2] < Objects(k) - 1 => word'[b] = <<r, b[2] + 1>>
        /\ \A b \in Block : Fresh(b) /\ ~(b[2] < Objects(k) - 1) => word'[b] = free[k]
        /\ \A b \in Block : b[1] = r /\ ~Fresh(b) => word'[b] = word[b]
    <3>1. word' = [b \in Block |-> IF b[1] = r /\ b[2] < Objects(k)
                                   THEN IF b[2] < Objects(k) - 1 THEN <<r, b[2] + 1>>
                                        ELSE free[k]
                                   ELSE word[b]]
      BY <1>4, Zenon DEF Attach
    <3>2. \A b \in Block : b[2] < Objects(k) - 1 => <<r, b[2] + 1>> \in Block
      BY <2>1
    <3>3. free[k] \in Block \cup {Null}
      BY <1>1, Zenon DEF InvType
    <3>. QED BY <3>1, <3>2, <3>3, Zenon DEF InvType
  <2>5. InvType'
    <3>1. free' \in [Cache -> Block \cup {Null}] /\ owner' \in [Run -> 0 .. Unused]
      BY <1>1, <1>4, <2>1, BlockFacts, Zenon DEF InvType
    <3>. QED BY <1>0, <2>4, <3>1, Zenon DEF InvType, Place
  <2>6. InvThread'
    <3>. SUFFICES ASSUME NEW u \in Thread PROVE ThreadOK(u)'
      BY Zenon DEF InvThread
    <3>1. ThreadOK(u) /\ ThreadOK(t)
      BY Zenon DEF InvThread
    <3>2. CASE u = t
      BY <1>0, <3>1, <3>2, Zenon DEF InvType, ThreadOK, HasBlock
    <3>3. CASE u # t
      <4>1. HasBlock(u) => p[u] \in Block /\ p[u] \in Mine(u)
        BY Zenon DEF Mine, HasBlock, InvType
      <4>2. HasBlock(u) => p[u][1] # r /\ p[u][1] \in Run
        BY <2>1, <2>2, <4>1, Zenon DEF InvOwned
      <4>3. HasBlock(u) => owner'[p[u][1]] = owner[p[u][1]] /\ word'[p[u]] = word[p[u]]
        BY <1>4, <2>4, <4>1, <4>2, Zenon DEF InvType
      <4>4. at[u] \in {"popnext", "pushhead"} => free'[cache[u]] = free[cache[u]]
        BY <1>1, <1>4, <3>1, <3>3, Zenon DEF InvType, ThreadOK
      <4>5. at'[u] = at[u] /\ p' = p /\ cache' = cache /\ mutex' = mutex /\ old' = old
            /\ held' = held
        BY <1>0, <3>3, Zenon DEF InvType
      <4>6. HasBlock(u)' <=> HasBlock(u)
        BY <4>5, Zenon DEF HasBlock
      <4>7. at[u] = "pushhead" => HasBlock(u)
        BY <3>1, Zenon DEF ThreadOK, HasBlock
      <4>8. at[u] = "popnext" => p[u] # Null /\ p[u] = free'[cache[u]]
        BY <3>1, <4>4, Zenon DEF ThreadOK
      <4>9. at[u] = "pushhead" => word'[p[u]] = free'[cache[u]]
        BY <3>1, <4>3, <4>4, <4>7, Zenon DEF ThreadOK
      <4>10. HasBlock(u) => p[u] \notin held[u] /\ owner'[p[u][1]] = cache[u]
        BY <3>1, <4>3, Zenon DEF ThreadOK
      <4>. QED BY <3>1, <4>5, <4>6, <4>8, <4>9, <4>10, Zenon DEF ThreadOK
    <3>. QED BY <3>2, <3>3, Zenon
  <2>7. InvOwned'
    <3>1. \A b \in Block : Valid(b) => Valid(b)'
      BY <1>4, <2>1, <2>2, Zenon DEF Valid, InvType
    <3>2. \A u \in Thread : Mine(u) \subseteq Block
      BY Zenon DEF Mine, InvType
    <3>3. leaked \subseteq Block
      BY Zenon DEF InvType
    <3>. QED BY <1>0, <1>2, <3>1, <3>2, <3>3, Zenon DEF InvOwned
  <2>8. InvList'
    <3>1. ASSUME NEW c \in Cache, c # k PROVE Unheld(c)' = Unheld(c)
      <4>1. \A b \in Block : owner'[b[1]] = c <=> owner[b[1]] = c
        BY <1>4, <2>1, <3>1, BlockFacts DEF InvType
      <4>. QED BY <1>0, <1>2, <4>1, Zenon DEF Unheld
    <3>2. \A b \in Block : b \in Unheld(k)' <=> b \in Unheld(k) \/ Fresh(b)
      <4>1. \A b \in Block : owner'[b[1]] = k <=> owner[b[1]] = k \/ b[1] = r
        BY <1>4, <2>1, Zenon DEF InvType
      <4>2. owner[r] # k
        BY <1>1, <1>4, BlockFacts, Zenon
      <4>. QED BY <1>0, <1>2, <2>3, <4>1, <4>2, Zenon DEF Unheld
    <3>3. \A b \in Unheld(k) : b \in Block /\ b[1] # r
      BY <1>1, <1>4, BlockFacts, Zenon DEF Unheld
    <3>4. Unheld(k)' \subseteq Block /\ \A c : Unheld(c) \subseteq Block
      BY Zenon DEF Unheld
    <3>. SUFFICES ASSUME NEW c \in Cache
                  PROVE  /\ free'[c] \in Unheld(c)' \cup {Null}
                         /\ \A b \in Unheld(c)' : word'[b] \in Unheld(c)' \cup {Null}
                         /\ \A b \in Unheld(c)' : free'[c] # Null => word'[b] # free'[c]
                         /\ \A b, d \in Unheld(c)' : word'[b] = word'[d] /\ word'[b] # Null => b = d
      BY Zenon DEF InvList
    <3>5. CASE c # k
      <4>1. Unheld(c)' = Unheld(c)
        BY <3>1, <3>5, Zenon
      <4>2. \A b \in Unheld(c) : b \in Block /\ b[1] # r
        BY <1>4, BlockFacts, Zenon DEF Unheld
      <4>3. free'[c] = free[c] /\ \A b \in Unheld(c) : word'[b] = word[b]
        BY <1>4, <2>4, <3>5, <4>2, Zenon DEF InvType
      <4>4. /\ free[c] \in Unheld(c) \cup {Null}
            /\ \A b \in Unheld(c) : word[b] \in Unheld(c) \cup {Null}
            /\ \A b \in Unheld(c) : free[c] # Null => word[b] # free[c]
            /\ \A b, d \in Unheld(c) : word[b] = word[d] /\ word[b] # Null => b = d
        BY Zenon DEF InvList
      <4>5. /\ free'[c] \in Unheld(c)' \cup {Null}
            /\ \A b \in Unheld(c)' : word'[b] \in Unheld(c)' \cup {Null}
        BY <4>1, <4>3, <4>4, Zenon
      <4>6. \A b \in Unheld(c)' : free'[c] # Null => word'[b] # free'[c]
        BY <4>1, <4>3, <4>4, Zenon
      <4>7. \A b, d \in Unheld(c)' : word'[b] = word'[d] /\ word'[b] # Null => b = d
        <5>. SUFFICES ASSUME NEW b \in Unheld(c), NEW d \in Unheld(c),
                             word'[b] = word'[d], word'[b] # Null
                      PROVE  b = d
          BY <4>1, Zenon
        <5>1. word'[b] = word[b] /\ word'[d] = word[d]
          BY <4>3, Zenon
        <5>. QED BY <4>4, <5>1, Zenon
      <4>. QED BY <4>5, <4>6, <4>7, Zenon
    <3>6. CASE c = k
      <4>. DEFINE U == Unheld(k)
                  F == {b \in Block : Fresh(b)}
      <4>1. Unheld(c)' = U \cup F
        BY <3>2, <3>4, <3>6, Zenon
      <4>2. free'[c] = <<r, 0>> /\ <<r, 0>> \in F
        <5>1. free'[c] = <<r, 0>> /\ <<r, 0>> \in Block
          BY <1>1, <1>4, <3>6, BlockFacts, Zenon DEF InvType
        <5>2. Fresh(<<r, 0>>)
          BY <1>1, <2>1, BlockFacts
        <5>. QED BY <5>1, <5>2, Zenon
      <4>3. \A b \in U : word'[b] = word[b] /\ word[b] \in U \cup {Null}
        BY <1>1, <2>4, <3>3, Zenon DEF InvList
      <4>4. ASSUME NEW b \in F PROVE \/ /\ b[2] < Objects(k) - 1 /\ word'[b] = <<r, b[2] + 1>>
                                        /\ word'[b] \in F
                                     \/ /\ b[2] = Objects(k) - 1 /\ word'[b] = free[k]
        BY <2>1, <2>4, <4>4
      <4>5. free[k] \in U \cup {Null}
        BY <1>1, Zenon DEF InvList
      <4>6. \A b \in U \cup F : word'[b] \in (U \cup F) \cup {Null}
        BY <4>3, <4>4, <4>5, Zenon
      <4>7. \A b \in U \cup F : word'[b] # <<r, 0>>
        <5>1. \A b \in U \cup {Null} : b # <<r, 0>>
          BY <2>1, <3>3, Zenon
        <5>2. \A b \in F : <<r, b[2] + 1>> # <<r, 0>>
          BY <2>1
        <5>. QED BY <4>3, <4>4, <4>5, <5>1, <5>2, Zenon
      <4>8. \A b, d \in U \cup F : word'[b] = word'[d] /\ word'[b] # Null => b = d
        <5>. SUFFICES ASSUME NEW b \in U \cup F, NEW d \in U \cup F,
                             word'[b] = word'[d], word'[b] # Null
                      PROVE  b = d
          BY Zenon
        <5>0. /\ \A e \in F : e \in Block /\ e[1] = r /\ e[2] \in Nat /\ e = <<r, e[2]>>
              /\ \A e \in U : e \notin F
          BY <2>1, <3>3, Zenon
        <5>1. CASE b \in U /\ d \in U
          <6>1. \A e, f \in U : word[e] = word[f] /\ word[e] # Null => e = f
            BY <1>1, Zenon DEF InvList
          <6>2. word[b] = word[d] /\ word[b] # Null
            BY <4>3, <5>1, Zenon
          <6>. QED BY <5>1, <6>1, <6>2, Zenon
        <5>2. \A e \in U, f \in F : word'[e] = word'[f] => word'[e] = Null
          <6>. SUFFICES ASSUME NEW e \in U, NEW f \in F, word'[e] = word'[f], word'[e] # Null
                        PROVE  FALSE
            BY Zenon
          <6>1. word[e] \in U /\ word'[f] = word[e]
            BY <4>3, Zenon
          <6>2. word'[f] = free[k]
            BY <4>4, <5>0, <6>1, Zenon
          <6>3. free[k] = word[e] /\ free[k] # Null
            BY <6>1, <6>2, <2>1, <3>3, Zenon
          <6>. QED BY <1>1, <6>3, Zenon DEF InvList
        <5>3. CASE b \in F /\ d \in F
          <6>1. CASE b[2] < Objects(k) - 1
            <7>1. word'[b] = <<r, b[2] + 1>> /\ word'[b] \in F
              <8>1. b[2] # Objects(k) - 1
                BY <2>1, <5>0, <5>3, <6>1
              <8>. QED BY <4>4, <5>3, <8>1, Zenon
            <7>2. word'[d] = <<r, d[2] + 1>>
              BY <4>4, <4>5, <5>0, <5>3, <7>1, <2>1, Zenon
            <7>3. b[2] + 1 = d[2] + 1
              <8>1. <<r, b[2] + 1>> = <<r, d[2] + 1>>
                BY <7>1, <7>2, Zenon
              <8>. QED BY <8>1, Zenon
            <7>4. b[2] \in Nat /\ d[2] \in Nat
              BY <5>0, <5>3, Zenon
            <7>5. b[2] = d[2]
              BY <7>3, <7>4
            <7>. QED BY <5>0, <5>3, <7>5, Zenon
          <6>2. CASE ~(b[2] < Objects(k) - 1)
            <7>1. b[2] = Objects(k) - 1 /\ word'[b] = free[k]
              BY <2>1, <4>4, <5>0, <5>3, <6>2, Zenon
            <7>2. d[2] = Objects(k) - 1
              BY <4>4, <4>5, <5>0, <5>3, <7>1, <2>1, Zenon
            <7>. QED BY <5>0, <5>3, <7>1, <7>2, Zenon
          <6>. QED BY <6>1, <6>2, Zenon
        <5>. QED BY <5>1, <5>2, <5>3, Zenon
      <4>. QED BY <4>1, <4>2, <4>6, <4>7, <4>8, Zenon
    <3>. QED BY <3>5, <3>6, Zenon
  <2>9. InvTag'
    <3>1. \A u \in Thread : \A b \in held[u] : b \in Block /\ b[1] # r
      BY <2>2, Zenon DEF InvOwned, Mine, InvType
    <3>2. \A b \in Block : word'[b] = word[b] \/ word'[b] # Magic
      <4>1. \A b \in Block : Fresh(b) => word'[b] \in Block \cup {Null}
        <5>1. free[k] \in Block \cup {Null}
          BY <1>1, Zenon DEF InvType
        <5>2. \A b \in Block : b[2] < Objects(k) - 1 => <<r, b[2] + 1>> \in Block
          BY <2>1
        <5>. QED BY <2>4, <5>1, <5>2, Zenon
      <4>. QED BY <2>4, <4>1, Distinct, Zenon
    <3>. QED BY <1>0, <2>4, <3>1, <3>2 DEF InvTag, InvType
  <2>. QED BY <2>5, <2>6, <2>7, <2>8, <2>9, Zenon
<1>5. \/ UNCHANGED <<owner, word, free>>
      \/ \E r \in Run : /\ owner[r] = Unused /\ owner' = [owner EXCEPT ![r] = k]
                        /\ word' = Attach(r, k) /\ free' = [free EXCEPT ![k] = <<r, 0>>]
  BY Zenon DEF Extend, PageAlloc
<1>. QED BY <1>3, <1>4, <1>5, Zenon

\* BT_kFree gives the pages of a large block back: nobody has another block in them.
LEMMA FreePagesStep ==
    ASSUME IInv, NEW t \in Thread, FreePages(t)
    PROVE  IInv'
<1>. USE DEF IInv
<1>. PICK q, r : q = p[t] /\ r = q[1]
  BY Zenon
<1>1. /\ at[t] = "freepages" /\ owner' = [owner EXCEPT ![r] = Unused]
      /\ word' = [word EXCEPT ![q] = Null]
      /\ at' = [at EXCEPT ![t] = "idle"] /\ cache' = [cache EXCEPT ![t] = 0]
      /\ p' = [p EXCEPT ![t] = Null] /\ old' = [old EXCEPT ![t] = Null]
      /\ UNCHANGED <<free, mutex, held, stale, leaked>>
  BY Zenon DEF FreePages, Return, user
<1>2. /\ q # Null /\ q \in Block /\ q \notin held[t] /\ owner[r] = Large
  BY <1>1, Zenon DEF InvThread, ThreadOK, HasBlock, InvType
<1>3. q \in Mine(t)
  BY <1>1, <1>2, Zenon DEF Mine, HasBlock
<1>4. r \in Run /\ q = <<r, 0>>
  <2>1. q[1] \in Run /\ q = <<q[1], q[2]>>
    BY <1>2, BlockFacts, Zenon
  <2>2. Valid(q)
    BY <1>3, Zenon DEF InvOwned
  <2>3. q[2] = 0
    BY <1>2, <2>2, BlockFacts, Zenon DEF Valid
  <2>. QED BY <2>1, <2>3, Zenon
<1>5. \A b \in Block : Valid(b) /\ b[1] = r => b = q
  BY <1>2, <1>4, BlockFacts, Zenon DEF Valid
<1>6. /\ q \notin leaked
      /\ \A u \in Thread : u # t => q \notin Mine(u)
  BY <1>3, Zenon DEF InvOwned
<1>7. InvType'
  BY <1>1, <1>2, <1>4, BlockFacts, Zenon DEF InvType, Place
<1>8. \A u \in Thread : Mine(u)' = Mine(u) \ {q}
  <2>1. Mine(t)' = Mine(t) \ {q}
    BY <1>1, <1>2, Zenon DEF Mine, HasBlock, InvType
  <2>2. \A u \in Thread : u # t => Mine(u)' = Mine(u)
    BY <1>1, Zenon DEF Mine, HasBlock, InvType
  <2>. QED BY <1>6, <2>1, <2>2, Zenon
<1>9. \A u \in Thread : Mine(u) \subseteq Block /\ leaked \subseteq Block
  BY Zenon DEF Mine, InvType
<1>10. InvThread'
  <2>. SUFFICES ASSUME NEW u \in Thread PROVE ThreadOK(u)'
    BY Zenon DEF InvThread
  <2>1. ThreadOK(u) /\ ThreadOK(t)
    BY Zenon DEF InvThread
  <2>2. CASE u = t
    BY <1>1, <2>1, <2>2, Zenon DEF InvType, ThreadOK, HasBlock
  <2>3. CASE u # t
    <3>1. HasBlock(u) => p[u] \in Mine(u) /\ p[u] \in Block /\ p[u] # q
      BY <1>6, <2>3, Zenon DEF Mine, HasBlock, InvType
    <3>2. HasBlock(u) => p[u][1] \in Run /\ p[u][1] # r
      BY <1>5, <3>1, BlockFacts, Zenon DEF InvOwned
    <3>3. HasBlock(u) => owner'[p[u][1]] = owner[p[u][1]] /\ word'[p[u]] = word[p[u]]
      BY <1>1, <3>1, <3>2, Zenon DEF InvType
    <3>4. at'[u] = at[u] /\ p'[u] = p[u] /\ cache'[u] = cache[u] /\ mutex' = mutex
          /\ old'[u] = old[u] /\ held' = held /\ free' = free
      BY <1>1, <2>3, Zenon DEF InvType
    <3>5. HasBlock(u)' <=> HasBlock(u)
      BY <3>4, Zenon DEF HasBlock
    <3>6. at[u] = "pushhead" => HasBlock(u)
      BY <2>1, Zenon DEF ThreadOK, HasBlock
    <3>. QED BY <2>1, <3>3, <3>4, <3>5, <3>6 DEF ThreadOK
  <2>. QED BY <2>2, <2>3, Zenon
<1>11. InvOwned'
  <2>1. \A b \in Block : Valid(b) /\ b # q => Valid(b)'
    <3>1. \A b \in Block : Valid(b) /\ b # q => b[1] \in Run /\ b[1] # r
      BY <1>5, BlockFacts, Zenon
    <3>2. \A s \in Run : s # r => owner'[s] = owner[s]
      BY <1>1, Zenon DEF InvType
    <3>. QED BY <3>1, <3>2, Zenon DEF Valid
  <2>. QED BY <1>1, <1>6, <1>8, <1>9, <2>1 DEF InvOwned
<1>12. InvList'
  <2>1. \A c \in Cache : \A b \in Block : owner'[b[1]] = c <=> owner[b[1]] = c
    BY <1>1, <1>2, BlockFacts, Zenon DEF InvType
  <2>2. \A c \in Cache : \A b \in Block : owner[b[1]] = c => b # q
    BY <1>2, BlockFacts, Zenon
  <2>3. \A c \in Cache : Unheld(c)' = Unheld(c)
    <3>. SUFFICES ASSUME NEW c \in Cache, NEW b \in Block
                  PROVE  b \in Unheld(c)' <=> b \in Unheld(c)
      BY Zenon DEF Unheld
    <3>1. leaked' = leaked /\ (owner'[b[1]] = c <=> owner[b[1]] = c)
      BY <1>1, <2>1, Zenon
    <3>2. owner[b[1]] = c => \A u \in Thread : b \in Mine(u)' <=> b \in Mine(u)
      BY <1>8, <2>2, Zenon
    <3>. QED BY <3>1, <3>2, Zenon DEF Unheld
  <2>4. \A c \in Cache : \A b \in Unheld(c) : b \in Block /\ b # q
    BY <2>2, Zenon DEF Unheld
  <2>5. \A c \in Cache : \A b \in Unheld(c) : word'[b] = word[b]
    BY <1>1, <2>4, Zenon DEF InvType
  <2>6. free' = free /\ InvList
    BY <1>1, Zenon DEF IInv
  <2>. QED BY <2>3, <2>5, <2>6, LinksKept, Zenon
<1>13. InvTag'
  <2>1. \A u \in Thread : q \notin held[u]
    BY <1>2, <1>6, Zenon DEF Mine
  <2>. QED BY <1>1, <1>2, <2>1, Distinct DEF InvTag, InvType
<1>. QED BY <1>7, <1>10, <1>11, <1>12, <1>13, Zenon

-----------------------------------------------------------------------------
\* bt_initialise_slab links the blocks of the run it gives each cache.
LEMMA InitOK == Init => IInv
<1>. SUFFICES ASSUME Init PROVE IInv
  BY Zenon
<1>1. /\ \A b \in Block : b[1] \in Run /\ b[2] \in Nat /\ b = <<b[1], b[2]>>
      /\ \A c \in Cache : Objects(c) \in Nat \ {0}
      /\ \A r \in Run, c \in Cache, i \in Nat : i < Objects(c) => <<r, i>> \in Block
      /\ Unused \notin Cache /\ Null \notin Block /\ \A r \in Run : <<r, 0>> \in Block
  BY BlockFacts, Distinct, Zenon
<1>2. /\ owner \in [Run -> Cache \cup {Unused}]
      /\ \A r, s \in Run : owner[r] = owner[s] /\ owner[r] # Unused => r = s
      /\ word = [b \in Block |-> IF owner[b[1]] # Unused /\ b[2] < Objects(owner[b[1]]) - 1
                                 THEN <<b[1], b[2] + 1>> ELSE Null]
      /\ \A t \in Thread : /\ at[t] = "idle" /\ p[t] = Null /\ old[t] = Null
                           /\ held[t] = {} /\ stale[t] = {}
      /\ leaked = {}
  BY Zenon DEF Init
<1>3. ASSUME NEW c \in Cache
      PROVE  \/ free[c] = Null /\ \A r \in Run : owner[r] # c
             \/ \E r \in Run : free[c] = <<r, 0>> /\ owner[r] = c
  BY Zenon DEF Init
<1>4. \A b \in Block : owner[b[1]] # Unused /\ b[2] < Objects(owner[b[1]]) - 1
          => <<b[1], b[2] + 1>> \in Block
  <2>. SUFFICES ASSUME NEW b \in Block, owner[b[1]] # Unused, b[2] < Objects(owner[b[1]]) - 1
                PROVE  <<b[1], b[2] + 1>> \in Block
    BY Zenon
  <2>0. b[1] \in Run /\ b[2] \in Nat
    BY <1>1, Zenon
  <2>1. owner[b[1]] \in Cache /\ b[1] \in Run /\ b[2] \in Nat
    <3>1. owner \in [Run -> Cache \cup {Unused}]
      BY <1>2, Zenon
    <3>. QED BY <2>0, <3>1, Zenon
  <2>2. b[2] + 1 \in Nat /\ b[2] + 1 < Objects(owner[b[1]])
    BY <1>1, <2>1
  <2>. QED BY <1>1, <2>1, <2>2, Zenon
<1>5. InvType
  <2>1. word \in [Block -> Block \cup {Null, Magic}]
    BY <1>2, <1>4, Zenon
  <2>2. free \in [Cache -> Block \cup {Null}]
    <3>1. ASSUME NEW c \in Cache PROVE free[c] \in Block \cup {Null}
      <4>1. CASE free[c] = Null
        BY <4>1, Zenon
      <4>2. ASSUME NEW r \in Run, free[c] = <<r, 0>> PROVE free[c] \in Block \cup {Null}
        <5>1. <<r, 0>> \in Block
          BY <1>1, Zenon
        <5>. QED BY <4>2, <5>1, Zenon
      <4>. QED BY <1>3, <4>1, <4>2, Zenon
    <3>2. free = [c \in Cache |-> free[c]]
      BY Zenon DEF Init
    <3>. QED BY <3>1, <3>2, Zenon
  <2>3. owner \in [Run -> 0 .. Unused] /\ cache \in [Thread -> 0 .. Unused]
    <3>1. Cache \subseteq 0 .. Unused /\ Unused \in 0 .. Unused /\ 0 \in Cache
      BY BlockFacts, Zenon
    <3>2. owner \in [Run -> Cache \cup {Unused}] /\ cache = [t \in Thread |-> 0]
      BY Zenon DEF Init
    <3>. QED BY <3>1, <3>2, Zenon
  <2>4. /\ mutex \in [Cache -> Thread \cup {Nobody}] /\ at \in [Thread -> Place]
        /\ p \in [Thread -> Block \cup {Null}] /\ old \in [Thread -> Block \cup {Null}]
        /\ held \in [Thread -> SUBSET Block] /\ stale \in [Thread -> SUBSET Block]
        /\ leaked \subseteq Block
    <3>1. /\ mutex = [c \in Cache |-> Nobody] /\ at = [t \in Thread |-> "idle"]
          /\ p = [t \in Thread |-> Null] /\ old = [t \in Thread |-> Null]
          /\ held = [t \in Thread |-> {}] /\ stale = [t \in Thread |-> {}] /\ leaked = {}
      BY Zenon DEF Init
    <3>. QED BY <3>1, Zenon DEF Place
  <2>. QED BY <2>1, <2>2, <2>3, <2>4, Zenon DEF InvType
<1>6. InvThread
  BY <1>2, Zenon DEF InvThread, ThreadOK, HasBlock
<1>7. \A t \in Thread : Mine(t) = {}
  BY <1>2, Zenon DEF Mine, HasBlock
<1>8. InvOwned
  BY <1>2, <1>7, Zenon DEF InvOwned
<1>9. InvTag
  BY <1>2, Zenon DEF InvTag
<1>10. InvList
  <2>. SUFFICES ASSUME NEW c \in Cache
                PROVE  /\ free[c] \in Unheld(c) \cup {Null}
                       /\ \A b \in Unheld(c) : word[b] \in Unheld(c) \cup {Null}
                       /\ \A b \in Unheld(c) : free[c] # Null => word[b] # free[c]
                       /\ \A b, d \in Unheld(c) : word[b] = word[d] /\ word[b] # Null => b = d
    BY Zenon DEF InvList
  <2>1. Unheld(c) = {b \in Block : owner[b[1]] = c /\ b[2] < Objects(c)}
    BY <1>2, <1>7, Zenon DEF Unheld
  <2>2. CASE \A r \in Run : owner[r] # c
    BY <1>1, <1>3, <2>1, <2>2, Zenon
  <2>3. ASSUME NEW r \in Run, owner[r] = c, free[c] = <<r, 0>>
        PROVE  /\ free[c] \in Unheld(c) \cup {Null}
               /\ \A b \in Unheld(c) : word[b] \in Unheld(c) \cup {Null}
               /\ \A b \in Unheld(c) : free[c] # Null => word[b] # free[c]
               /\ \A b, d \in Unheld(c) : word[b] = word[d] /\ word[b] # Null => b = d
    <3>1. \A b \in Unheld(c) : b \in Block /\ b = <<r, b[2]>> /\ b[2] \in Nat /\ b[1] = r
      BY <1>1, <1>2, <2>1, <2>3, Zenon
    <3>2. \A b \in Unheld(c) : word[b] = IF b[2] < Objects(c) - 1 THEN <<r, b[2] + 1>> ELSE Null
      BY <1>1, <1>2, <2>3, <3>1, Zenon
    <3>3. free[c] \in Unheld(c)
      BY <1>1, <2>1, <2>3
    <3>4. \A b \in Unheld(c) : b[2] < Objects(c) - 1 => <<r, b[2] + 1>> \in Unheld(c)
      <4>. SUFFICES ASSUME NEW b \in Unheld(c), b[2] < Objects(c) - 1
                    PROVE  <<r, b[2] + 1>> \in Unheld(c)
        BY Zenon
      <4>1. b[2] + 1 \in Nat /\ b[2] + 1 < Objects(c)
        BY <1>1, <3>1
      <4>2. <<r, b[2] + 1>> \in Block
        BY <1>1, <2>3, <4>1, Zenon
      <4>. QED BY <2>1, <2>3, <4>1, <4>2, Zenon
    <3>5. \A b \in Unheld(c) : word[b] # <<r, 0>>
      <4>1. \A b \in Unheld(c) : <<r, b[2] + 1>> # <<r, 0>>
        BY <3>1
      <4>2. Null # <<r, 0>>
        BY <1>1, Zenon
      <4>. QED BY <3>2, <4>1, <4>2, Zenon
    <3>6. \A b, d \in Unheld(c) : word[b] = word[d] /\ word[b] # Null => b = d
      <4>. SUFFICES ASSUME NEW b \in Unheld(c), NEW d \in Unheld(c),
                           word[b] = word[d], word[b] # Null
                    PROVE  b = d
        BY Zenon
      <4>1. <<r, b[2] + 1>> = <<r, d[2] + 1>>
        BY <3>2, Zenon
      <4>2. b[2] + 1 = d[2] + 1
        BY <4>1, Zenon
      <4>3. b[2] = d[2]
        BY <3>1, <4>2
      <4>. QED BY <3>1, <4>3, Zenon
    <3>. QED BY <2>3, <3>2, <3>3, <3>4, <3>5, <3>6, Zenon
  <2>. QED BY <1>3, <2>2, <2>3, Zenon
<1>. QED BY <1>5, <1>6, <1>8, <1>9, <1>10, Zenon DEF IInv

\* Every step keeps the invariant.
LEMMA StepOK == Numbers /\ IInv /\ [Next]_vars => IInv'
<1>. SUFFICES ASSUME Numbers, IInv, [Next]_vars PROVE IInv'
  BY Zenon
<1>1. CASE UNCHANGED vars
  <2>1. UNCHANGED <<owner, word, free, mutex, at, cache, p, old, held, stale, leaked>>
    BY <1>1, Zenon DEF vars, mem, list, call, user
  <2>2. \A t \in Thread : Mine(t)' = Mine(t)
    BY <2>1, Zenon DEF Mine, HasBlock
  <2>3. InvType' /\ InvThread'
    BY <2>1, Zenon DEF IInv, InvType, InvThread, ThreadOK, HasBlock
  <2>. QED BY <2>1, <2>2, <2>3, OwnedKept, ListKept, TagKept, Zenon DEF IInv
<1>2. CASE Next
  BY <1>2, MallocStep, FreeStep, LockStep, PopHeadStep, PopNextStep, ExtendStep, UnlockStep,
     MallocPagesStep, TagStep, PushNextStep, PushHeadStep, FreePagesStep, Zenon DEF Next, Step
<1>. QED BY <1>1, <1>2, Zenon

\* Where IInv holds, no block has two owners.
LEMMA OneOwner == IInv => Exclusive
<1>. SUFFICES ASSUME IInv, NEW t \in Thread, NEW u \in Thread
              PROVE  /\ t # u => held[t] \cap held[u] = {}
                     /\ at[t] = "tag" => /\ p[t] \notin held[u]
                                         /\ t # u => p[t] # p[u] \/ at[u] = "panic"
  BY Zenon DEF Exclusive
<1>1. t # u => held[t] \cap held[u] = {}
  BY Zenon DEF IInv, InvOwned, Mine
<1>2. ASSUME at[t] = "tag"
      PROVE  /\ p[t] \notin held[u]
             /\ t # u => p[t] # p[u] \/ at[u] = "panic"
  <2>1. p[t] # Null /\ p[t] \in Block /\ p[t] \in Mine(t) /\ p[t] \notin held[t]
    BY <1>2, Zenon DEF IInv, InvType, InvThread, ThreadOK, Mine, HasBlock
  <2>2. p[t] \notin held[u]
    BY <2>1, Zenon DEF IInv, InvOwned, Mine
  <2>3. ASSUME t # u, p[t] = p[u], at[u] # "panic" PROVE FALSE
    <3>1. CASE HasBlock(u)
      BY <2>1, <2>3, <3>1, Zenon DEF IInv, InvOwned, Mine
    <3>2. CASE at[u] = "popnext"
      <4>1. ThreadOK(u) /\ InvList
        BY Zenon DEF IInv, InvThread
      <4>2. cache[u] \in Cache /\ p[u] = free[cache[u]]
        BY <3>2, <4>1, Zenon DEF ThreadOK
      <4>3. p[u] \in Unheld(cache[u])
        BY <2>1, <2>3, <4>1, <4>2, Zenon DEF InvList
      <4>. QED BY <2>1, <2>3, <4>3, Zenon DEF Unheld
    <3>3. p[u] # Null /\ at[u] \in Place /\ ThreadOK(u)
      BY <2>1, <2>3, Zenon DEF IInv, InvType, InvThread
    <3>4. HasBlock(u) \/ at[u] = "popnext"
      BY <2>3, <3>3, Zenon DEF ThreadOK, HasBlock, Place
    <3>. QED BY <3>1, <3>2, <3>4, Zenon
  <2>. QED BY <2>2, <2>3, Zenon
<1>. QED BY <1>1, <1>2, Zenon

\* The step that DoubleFreePanics asks for.
Panics == \A t \in Thread, b \in Block :
              at[t] = "idle" /\ b \in stale[t] /\ p'[t] = b => at'[t] = "panic"

\* A thread that frees a block once more panics: the block has no magic number.
LEMMA PanicStep == IInv /\ [Next]_vars => [Panics]_vars
<1>. SUFFICES ASSUME IInv, Next, NEW t \in Thread, NEW b \in Block,
                     at[t] = "idle", b \in stale[t], p'[t] = b
              PROVE  at'[t] = "panic"
  BY Zenon DEF Panics
<1>1. p[t] = Null /\ b # Null
  BY Distinct, Zenon DEF IInv, InvThread, ThreadOK
<1>2. PICK u \in Thread : \/ \E n \in Sizes, d \in Block \cup {Null} : Malloc(u, n, d)
                          \/ \E d \in Block : Free(u, d)
                          \/ Step(u)
  BY Zenon DEF Next
<1>3. p'[t] # p[t]
  BY <1>1, Zenon
<1>4. ~\E n \in Sizes, d \in Block \cup {Null} : Malloc(u, n, d)
  BY <1>3, Zenon DEF Malloc
<1>5. ~Step(u)
  <2>1. Step(u) => at[u] # "idle"
    BY Zenon DEF Step, Lock, PopHead, PopNext, Extend, Unlock, MallocPages, Tag, PushNext,
           PushHead, FreePages
  <2>2. u # t /\ Step(u) => p'[t] = p[t]
    BY Zenon DEF Step, Lock, PopHead, PopNext, Extend, Unlock, MallocPages, Tag, PushNext,
           PushHead, FreePages, Return, Go, call, IInv, InvType
  <2>. QED BY <1>3, <2>1, <2>2, Zenon
<1>6. PICK d \in Block : Free(u, d)
  BY <1>2, <1>4, <1>5, Zenon
<1>7. u = t /\ d = b
  BY <1>3, <1>6, Zenon DEF Free, IInv, InvType
<1>. QED BY <1>6, <1>7, FreeStep, Zenon

-----------------------------------------------------------------------------
(* The cache of a call of BT_kMalloc.                                      *)

\* Where a thread is in BT_kMalloc.
Allocating == {"lock", "pop", "popagain", "popnext", "extend", "unlock", "pages", "tag"}

\* All through BT_kMalloc, the cache is the one found for the size.
FitInv == /\ at \in [Thread -> Place] /\ size \in [Thread -> Nat]
          /\ cache = [t \in Thread |-> cache[t]]
          /\ \A t \in Thread : at[t] \in Allocating =>
                 size[t] # 0 /\ cache[t] = Suitable(size[t] + Overhead)

\* Every step keeps it: the cache and the size change only where a call begins or ends.
LEMMA FitStep == Numbers /\ FitInv /\ [Next]_vars => FitInv'
<1>. SUFFICES ASSUME Numbers, FitInv, [Next]_vars PROVE FitInv'
  BY Zenon
<1>1. ASSUME NEW t \in Thread, NEW n \in Sizes, NEW b \in Block \cup {Null}, Malloc(t, n, b)
      PROVE  FitInv'
  <2>1. Round(n) \in Nat \ {0}
    BY AskedFor, Zenon
  <2>2. at' \in [Thread -> Place]
    BY <1>1, Zenon DEF Malloc, Go, FitInv, Place
  <2>. QED BY <1>1, <2>1, <2>2, Zenon DEF Malloc, Go, FitInv
<1>2. ASSUME NEW t \in Thread, NEW b \in Block, Free(t, b) PROVE FitInv'
  BY <1>2, Zenon DEF Free, Go, FitInv, Allocating, Place
<1>3. ASSUME NEW t \in Thread, Step(t) PROVE FitInv'
  <2>1. CASE Lock(t)
    BY <2>1, Zenon DEF Lock, Go, FitInv, Allocating, Place, call
  <2>2. CASE PopHead(t)
    BY <2>2, Zenon DEF PopHead, Go, FitInv, Allocating, Place
  <2>3. CASE PopNext(t)
    BY <2>3, Zenon DEF PopNext, Go, FitInv, Allocating, Place, call
  <2>4. CASE Extend(t)
    BY <2>4, Zenon DEF Extend, Go, FitInv, Allocating, Place, call
  <2>5. CASE Unlock(t)
    BY <2>5 DEF Unlock, Return, Go, FitInv, Allocating, Place, call
  <2>6. CASE MallocPages(t)
    BY <2>6 DEF MallocPages, Return, Go, FitInv, Allocating, Place
  <2>7. CASE Tag(t)
    BY <2>7, Zenon DEF Tag, Return, FitInv, Allocating, Place
  <2>8. CASE PushNext(t)
    BY <2>8, Zenon DEF PushNext, Go, FitInv, Allocating, Place, call
  <2>9. CASE PushHead(t)
    BY <2>9, Zenon DEF PushHead, Return, FitInv, Allocating, Place
  <2>10. CASE FreePages(t)
    BY <2>10, Zenon DEF FreePages, Return, FitInv, Allocating, Place
  <2>. QED BY <1>3, <2>1, <2>2, <2>3, <2>4, <2>5, <2>6, <2>7, <2>8, <2>9, <2>10, Zenon DEF Step
<1>4. CASE UNCHANGED vars
  BY <1>4, Zenon DEF FitInv, vars, call
<1>. QED BY <1>1, <1>2, <1>3, <1>4, Zenon DEF Next

\* Where FitInv holds, the block has room.
LEMMA FitInvFits == Numbers /\ FitInv => Fits
<1>. SUFFICES ASSUME Numbers, FitInv, NEW t \in Thread, at[t] = "tag", cache[t] # Large
              PROVE  /\ ObjectSize(cache[t]) >= size[t] + Overhead
                     /\ \A c \in Cache : ObjectSize(c) >= size[t] + Overhead => c >= cache[t]
  BY Zenon DEF Fits
<1>. DEFINE n == size[t] + Overhead
<1>1. n \in Nat \ {0} /\ cache[t] = Suitable(n)
  BY SizesOK DEF FitInv, Allocating
<1>. HIDE DEF n
<1>2. /\ ObjectSize(Suitable(n)) >= n
      /\ \A c \in Cache : ObjectSize(c) >= n => c >= Suitable(n)
  BY <1>1, SuitableFits, Zenon
<1>. QED BY <1>1, <1>2, Zenon DEF n

-----------------------------------------------------------------------------
(* The pages of the runs.                                                  *)

\* The thread has the pages of a large block and has not written its tag.
Incoming(t) == at[t] = "tag" /\ cache[t] = Large

(* A large block without a tag has one caller, still in BT_kMalloc; blocks *)
(* in use have tags, and pointers that were freed lead into caches.        *)
InvPages ==
    /\ \A t \in Thread : \A b \in stale[t] : owner[b[1]] \in Cache
    /\ \A t \in Thread : at[t] = "panic" => p[t] \in Block /\ owner[p[t][1]] \in Cache
    /\ \A r \in Run : tagSize[r] > 0 => owner[r] = Large
    /\ \A t \in Thread : \A b \in held[t] : owner[b[1]] = Large => tagSize[b[1]] > 0
    /\ \A t \in Thread : at[t] = "freepages" => tagSize[p[t][1]] > 0
    /\ \A r \in Run : owner[r] = Large /\ tagSize[r] = 0 =>
           \E t \in Thread : Incoming(t) /\ p[t] = <<r, 0>>
    /\ \A t \in Thread : Incoming(t) => tagSize[p[t][1]] = 0
    /\ \A t, u \in Thread : Incoming(t) /\ p[u] = p[t] => u = t

PagesTyped == pagesLeft \in Int /\ tagSize \in [Run -> Nat]

AllInv == IInv /\ FitInv /\ InvPages /\ PagesTyped /\ PagesBalanced

\* They change with the pages of one run.
LEMMA PagesChange ==
    ASSUME Numbers, NEW n \in [Run -> Nat], NEW x \in Run, NEW k \in Nat
    PROVE  /\ Cardinality(PagesOf(n)) \in Nat
           /\ Cardinality(PagesOf([n EXCEPT ![x] = k]))
                  = Cardinality(PagesOf(n)) - n[x] + k
BY Zenon DEF Numbers, PagesCounted

\* A number of bytes takes a number of pages.
LEMMA PagesForNat ==
    ASSUME Numbers
    PROVE  /\ \A n \in Nat : PagesFor(n) \in Nat
           /\ \A c \in Cache : PagesFor(ObjectSize(c)) \in Nat
<1>1. ASSUME NEW n \in Nat PROVE PagesFor(n) \in Nat
  <2>1. PageSize \in Nat \ {0} /\ n + PageSize - 1 \in Nat
    BY SizesOK
  <2>. QED BY <2>1 DEF PagesFor
<1>2. ASSUME NEW c \in Cache PROVE ObjectSize(c) \in Nat
  <2>1. c \in Nat
    BY SizesOK DEF Cache
  <2>2. 2^c \in Nat
    BY <2>1, PowerCounts, Zenon
  <2>. QED BY <2>2, SizesOK DEF ObjectSize
<1>. QED BY <1>1, <1>2, Zenon

\* Where the pages of a new large block are, and that nobody else has them.
LEMMA IncomingFacts ==
    ASSUME IInv, NEW t \in Thread, Incoming(t)
    PROVE  /\ p[t] \in Block /\ p[t] = <<p[t][1], 0>> /\ owner[p[t][1]] = Large
           /\ p[t][1] \in Run /\ \A u \in Thread : p[t] \notin held[u]
<1>1. p[t] \in Block /\ p[t] # Null /\ HasBlock(t) /\ p[t] \in Mine(t)
  BY Zenon DEF IInv, InvType, InvThread, ThreadOK, Incoming, HasBlock, Mine
<1>2. owner[p[t][1]] = Large
  BY <1>1, Zenon DEF IInv, InvThread, ThreadOK, Incoming
<1>3. Valid(p[t])
  BY <1>1, Zenon DEF IInv, InvOwned
<1>4. p[t] = <<p[t][1], 0>> /\ p[t][1] \in Run
  BY <1>1, <1>2, <1>3, BlockFacts, Zenon DEF Valid
<1>5. \A u \in Thread : p[t] \notin held[u]
  BY <1>1, Zenon DEF IInv, InvOwned, InvThread, ThreadOK, Mine
<1>. QED BY <1>1, <1>2, <1>4, <1>5, Zenon

\* The pages of a run, case by case.
LEMMA RunPagesIs ==
    ASSUME Numbers, AllInv, NEW r \in Run
    PROVE  /\ owner[r] \in Cache => RunPages(r) = PagesFor(ObjectSize(owner[r]))
           /\ owner[r] = Large /\ tagSize[r] > 0 =>
                  RunPages(r) = PagesFor(tagSize[r] + Overhead)
           /\ \A t \in Thread : Incoming(t) /\ p[t] = <<r, 0>> =>
                  RunPages(r) = PagesFor(size[t] + Overhead)
           /\ owner[r] = Unused => RunPages(r) = 0
           /\ RunPages(r) \in Nat
<1>1. /\ Large \notin Cache /\ Unused \notin Cache /\ Large # Unused
      /\ owner[r] \in Cache \cup {Large, Unused} /\ tagSize[r] \in Nat
  <2>1. owner[r] \in 0 .. Unused /\ tagSize[r] \in Nat
    BY Zenon DEF AllInv, PagesTyped, IInv, InvType
  <2>. QED BY <2>1, BlockFacts, SizesOK DEF Cache, Large, Unused
<1>2. owner[r] \in Cache => RunPages(r) = PagesFor(ObjectSize(owner[r]))
  BY <1>1, Zenon DEF RunPages
<1>3. owner[r] = Large /\ tagSize[r] > 0 => RunPages(r) = PagesFor(tagSize[r] + Overhead)
  BY <1>1 DEF RunPages
<1>4. ASSUME NEW t \in Thread, Incoming(t), p[t] = <<r, 0>>
      PROVE  RunPages(r) = PagesFor(size[t] + Overhead)
  <2>1. p[t][1] = r /\ owner[r] = Large /\ tagSize[r] = 0
    BY <1>4, IncomingFacts DEF AllInv, InvPages
  <2>2. \A u \in Thread : p[u] = <<r, 0>> => u = t
    BY <1>4, Zenon DEF AllInv, InvPages
  <2>3. Caller(r) = t
    BY <1>4, <2>2, Zenon DEF Caller
  <2>4. ~(tagSize[r] > 0) /\ owner[r] \notin Cache
    BY <1>1, <2>1
  <2>. QED BY <2>1, <2>3, <2>4, Zenon DEF RunPages
<1>5. owner[r] = Unused => RunPages(r) = 0
  BY <1>1, Zenon DEF RunPages
<1>6. RunPages(r) \in Nat
  <2>1. CASE owner[r] \in Cache
    BY <1>2, <2>1, PagesForNat, Zenon
  <2>2. CASE owner[r] = Large /\ tagSize[r] > 0
    <3>1. tagSize[r] + Overhead \in Nat
      BY <1>1, SizesOK
    <3>. QED BY <1>3, <2>2, <3>1, PagesForNat, Zenon
  <2>3. CASE owner[r] = Large /\ tagSize[r] = 0
    <3>1. PICK t \in Thread : Incoming(t) /\ p[t] = <<r, 0>>
      BY <2>3, Zenon DEF AllInv, InvPages
    <3>2. size[t] + Overhead \in Nat
      BY SizesOK DEF AllInv, FitInv
    <3>. QED BY <1>4, <3>1, <3>2, PagesForNat, Zenon
  <2>4. CASE owner[r] = Unused
    BY <1>5, <2>4
  <2>. QED BY <1>1, <2>1, <2>2, <2>3, <2>4
<1>. QED BY <1>2, <1>3, <1>4, <1>5, <1>6, Zenon

\* A step that leaves a run, and who waits to tag it, alone leaves its pages.
LEMMA RunPagesKept ==
    ASSUME Numbers, AllInv, InvPages', NEW r \in Run, owner'[r] = owner[r], tagSize'[r] = tagSize[r],
           \A t \in Thread : Incoming(t) /\ p[t] = <<r, 0>> =>
               Incoming(t)' /\ p'[t] = p[t] /\ size'[t] = size[t]
    PROVE  RunPages(r)' = RunPages(r)
<1>1. CASE owner[r] = Large /\ tagSize[r] = 0
  <2>1. PICK t \in Thread : Incoming(t) /\ p[t] = <<r, 0>>
    BY <1>1, Zenon DEF AllInv, InvPages
  <2>2. RunPages(r) = PagesFor(size[t] + Overhead)
    BY <2>1, RunPagesIs, Zenon
  <2>3. Incoming(t)' /\ p'[t] = <<r, 0>> /\ size'[t] = size[t]
    BY <2>1, Zenon
  <2>4. \A u \in Thread : p'[u] = <<r, 0>> => u = t
    BY <2>3, Zenon DEF InvPages
  <2>5. Caller(r)' = t
    BY <2>3, <2>4, Zenon DEF Caller
  <2>6. Large \notin Cache /\ owner'[r] = Large /\ tagSize'[r] = 0
    BY <1>1, BlockFacts, Zenon
  <2>7. RunPages(r)' = PagesFor(size'[t] + Overhead)
    BY <2>5, <2>6 DEF RunPages, PagesFor
  <2>. QED BY <2>2, <2>3, <2>7, Zenon
<1>2. CASE ~(owner[r] = Large /\ tagSize[r] = 0)
  BY <1>2 DEF RunPages, PagesFor, ObjectSize, Caller
<1>. QED BY <1>1, <1>2, Zenon

\* What a step takes from or gives to the pages that are left, one run loses or gains.
LEMMA BalanceKept ==
    ASSUME Numbers, AllInv, NEW x \in Run, NEW k \in Nat, RunPages(x)' = k,
           \A r \in Run \ {x} : RunPages(r)' = RunPages(r),
           pagesLeft' = pagesLeft + RunPages(x) - k
    PROVE  PagesBalanced' /\ pagesLeft' \in Int
<1>. DEFINE n == [r \in Run |-> RunPages(r)]
            m == [n EXCEPT ![x] = k]
<1>1. n \in [Run -> Nat] /\ n[x] = RunPages(x) /\ n[x] \in Nat
  BY RunPagesIs, Zenon
<1>2. [r \in Run |-> RunPages(r)'] = m
  BY Zenon
<1>3. pagesLeft \in Int /\ pagesLeft + Cardinality(PagesOf(n)) = Pages
  BY Zenon DEF AllInv, PagesTyped, PagesBalanced
<1>. HIDE DEF n
<1>4. Cardinality(PagesOf(n)) \in Nat /\ Cardinality(PagesOf(m)) = Cardinality(PagesOf(n)) - n[x] + k
  BY <1>1, PagesChange, Zenon
<1>. HIDE DEF m
<1>5. pagesLeft' + Cardinality(PagesOf(m)) = Pages /\ pagesLeft' \in Int
  BY <1>1, <1>3, <1>4
<1>. QED BY <1>2, <1>5, Zenon DEF PagesBalanced, PagesOf

\* ... and a step that leaves all runs alone leaves the balance.
LEMMA BalanceSame ==
    ASSUME AllInv, pagesLeft' = pagesLeft, \A r \in Run : RunPages(r)' = RunPages(r)
    PROVE  PagesBalanced' /\ pagesLeft' \in Int
<1>1. [r \in Run |-> RunPages(r)'] = [r \in Run |-> RunPages(r)]
  BY Zenon
<1>. QED BY <1>1, Zenon DEF AllInv, PagesTyped, PagesBalanced, PagesOf

\* The goal of every step.
PagesGoal == InvPages' /\ PagesTyped' /\ PagesBalanced'

(* A step of a thread that has no new large block, takes and gives no      *)
(* pages and writes no tag of one.                                         *)
LEMMA QuietStep ==
    ASSUME Numbers, AllInv, NEW t \in Thread, UNCHANGED mem, ~Incoming(t), ~Incoming(t)',
           \A u \in Thread \ {t} : /\ at'[u] = at[u] /\ cache'[u] = cache[u]
                                   /\ p'[u] = p[u] /\ size'[u] = size[u],
           \A u \in Thread : \A b \in stale'[u] : b \in stale[u] \/ owner[b[1]] \in Cache,
           \A u \in Thread : \A b \in held'[u] : b \in held[u] \/ owner[b[1]] \in Cache,
           at'[t] = "panic" => p'[t] \in Block /\ owner[p'[t][1]] \in Cache,
           at'[t] = "freepages" => tagSize[p'[t][1]] > 0,
           \A u \in Thread : Incoming(u) => p'[t] # p[u]
    PROVE  PagesGoal
<1>1. owner' = owner /\ pagesLeft' = pagesLeft /\ tagSize' = tagSize
  BY Zenon DEF mem
<1>2. \A u \in Thread : (Incoming(u)' <=> Incoming(u)) /\ (Incoming(u) => u # t)
  BY Zenon DEF Incoming
<1>3. InvPages'
  <2>1. \A u \in Thread : \A b \in stale'[u] : owner'[b[1]] \in Cache
    BY <1>1, Zenon DEF AllInv, InvPages
  <2>2. \A u \in Thread : at'[u] = "panic" => p'[u] \in Block /\ owner'[p'[u][1]] \in Cache
    BY <1>1, Zenon DEF AllInv, InvPages
  <2>3. \A r \in Run : tagSize'[r] > 0 => owner'[r] = Large
    BY <1>1, Zenon DEF AllInv, InvPages
  <2>4. \A u \in Thread : \A b \in held'[u] : owner'[b[1]] = Large => tagSize'[b[1]] > 0
    BY <1>1, BlockFacts DEF AllInv, InvPages
  <2>5. \A u \in Thread : at'[u] = "freepages" => tagSize'[p'[u][1]] > 0
    BY <1>1, Zenon DEF AllInv, InvPages
  <2>6. \A r \in Run : owner'[r] = Large /\ tagSize'[r] = 0 =>
            \E u \in Thread : Incoming(u)' /\ p'[u] = <<r, 0>>
    BY <1>1, <1>2, Zenon DEF AllInv, InvPages
  <2>7. \A u \in Thread : Incoming(u)' => tagSize'[p'[u][1]] = 0
    <3>. SUFFICES ASSUME NEW u \in Thread, Incoming(u)' PROVE tagSize'[p'[u][1]] = 0
      BY Zenon
    <3>1. Incoming(u) /\ p'[u] = p[u]
      BY <1>2, Zenon
    <3>2. tagSize[p[u][1]] = 0
      BY <3>1, Zenon DEF AllInv, InvPages
    <3>. QED BY <1>1, <3>1, <3>2, Zenon
  <2>8. \A u, v \in Thread : Incoming(u)' /\ p'[v] = p'[u] => v = u
    <3>. SUFFICES ASSUME NEW u \in Thread, NEW v \in Thread, Incoming(u)', p'[v] = p'[u]
                  PROVE  v = u
      BY Zenon
    <3>1. Incoming(u) /\ p'[u] = p[u] /\ v # t
      BY <1>2, Zenon
    <3>2. p[v] = p[u]
      BY <3>1, Zenon
    <3>. QED BY <3>1, <3>2, Zenon DEF AllInv, InvPages
  <2>. QED BY <2>1, <2>2, <2>3, <2>4, <2>5, <2>6, <2>7, <2>8, Zenon DEF InvPages
<1>4. \A r \in Run : RunPages(r)' = RunPages(r)
  <2>. SUFFICES ASSUME NEW r \in Run PROVE RunPages(r)' = RunPages(r)
    BY Zenon
  <2>1. \A u \in Thread : Incoming(u) /\ p[u] = <<r, 0>> =>
            Incoming(u)' /\ p'[u] = p[u] /\ size'[u] = size[u]
    BY <1>2, Zenon
  <2>. QED BY <1>1, <1>3, <2>1, RunPagesKept, Zenon
<1>5. PagesBalanced' /\ pagesLeft' \in Int
  BY <1>1, <1>4, BalanceSame, Zenon
<1>. QED BY <1>1, <1>3, <1>5, Zenon DEF PagesGoal, PagesTyped, AllInv

\* Calls, locks and lists of caches.
LEMMA CachePages ==
    ASSUME Numbers, AllInv, NEW t \in Thread,
           \/ \E n \in Sizes, b \in Block \cup {Null} : Malloc(t, n, b)
           \/ Lock(t) \/ PopHead(t) \/ PopNext(t) \/ Unlock(t) \/ PushNext(t) \/ PushHead(t)
    PROVE  PagesGoal
<1>0. /\ at \in [Thread -> Place] /\ cache \in [Thread -> 0 .. Unused]
      /\ p \in [Thread -> Block \cup {Null}] /\ size \in [Thread -> Nat]
      /\ stale \in [Thread -> SUBSET Block] /\ held \in [Thread -> SUBSET Block]
  BY Zenon DEF AllInv, IInv, InvType, FitInv
<1>1. ThreadOK(t) /\ Null \notin Block /\ Large \notin Cache
  BY BlockFacts, Distinct, Zenon DEF AllInv, IInv, InvThread
<1>2. \A u \in Thread : Incoming(u) => p[u] \in Block /\ owner[p[u][1]] = Large
  BY IncomingFacts, Zenon DEF AllInv
<1>3. CASE \E n \in Sizes, b \in Block \cup {Null} : Malloc(t, n, b)
  <2>1. /\ UNCHANGED <<mem, p, stale, held>> /\ at[t] = "idle" /\ at'[t] \in {"pages", "lock"}
        /\ \A u \in Thread \ {t} : at'[u] = at[u] /\ cache'[u] = cache[u] /\ size'[u] = size[u]
    BY <1>0, <1>3 DEF Malloc, Go, user
  <2>2. p'[t] = Null
    BY <1>1, <2>1, Zenon DEF ThreadOK
  <2>. QED BY <1>1, <1>2, <2>1, <2>2, QuietStep, Zenon DEF Incoming
<1>4. CASE Lock(t)
  <2>1. /\ UNCHANGED <<mem, p, stale, held, cache, size>>
        /\ at[t] \in {"lock", "freelock"} /\ at'[t] \in {"pop", "push"}
        /\ \A u \in Thread \ {t} : at'[u] = at[u]
    BY <1>0, <1>4, Zenon DEF Lock, Go, user, call
  <2>2. \A u \in Thread : Incoming(u) => p'[t] # p[u]
    BY <2>1, Zenon DEF AllInv, InvPages, Incoming
  <2>. QED BY <2>1, <2>2, QuietStep, Zenon DEF Incoming
<1>5. CASE PopHead(t)
  <2>1. /\ UNCHANGED <<mem, stale, held, cache, size>>
        /\ at[t] \in {"pop", "popagain"} /\ at'[t] \in {"popnext", "extend", "unlock"}
        /\ p'[t] = free[cache[t]] /\ \A u \in Thread \ {t} : at'[u] = at[u] /\ p'[u] = p[u]
    BY <1>0, <1>5, Zenon DEF PopHead, Go, user
  <2>2. cache[t] \in Cache
    BY <1>1, <2>1, Zenon DEF ThreadOK
  <2>3. p'[t] = Null \/ owner[p'[t][1]] = cache[t]
    BY <2>1, <2>2, Zenon DEF AllInv, IInv, InvList, Unheld
  <2>4. \A u \in Thread : Incoming(u) => p'[t] # p[u]
    BY <1>1, <1>2, <2>2, <2>3, Zenon
  <2>. QED BY <2>1, <2>4, QuietStep, Zenon DEF Incoming
<1>6. CASE PopNext(t) \/ PushNext(t)
  <2>1. /\ UNCHANGED <<mem, p, stale, held, cache, size>>
        /\ at[t] \in {"popnext", "push"} /\ at'[t] \in {"unlock", "pushhead"}
        /\ \A u \in Thread \ {t} : at'[u] = at[u]
    BY <1>0, <1>6, Zenon DEF PopNext, PushNext, Go, user, call
  <2>2. \A u \in Thread : Incoming(u) => p'[t] # p[u]
    BY <2>1, Zenon DEF AllInv, InvPages, Incoming
  <2>. QED BY <2>1, <2>2, QuietStep, Zenon DEF Incoming
<1>7. CASE Unlock(t)
  <2>1. /\ UNCHANGED <<mem, stale, held>> /\ at[t] = "unlock" /\ at'[t] \in {"idle", "tag"}
        /\ \A u \in Thread \ {t} :
               at'[u] = at[u] /\ p'[u] = p[u] /\ cache'[u] = cache[u] /\ size'[u] = size[u]
        /\ at'[t] = "tag" => cache'[t] = cache[t] /\ p'[t] = p[t]
        /\ at'[t] = "idle" => p'[t] = Null
    BY <1>0, <1>7 DEF Unlock, Return, Go, user, call
  <2>2. cache[t] \in Cache
    BY <1>1, <2>1, Zenon DEF ThreadOK
  <2>3. \A u \in Thread : Incoming(u) => p'[t] # p[u]
    <3>. SUFFICES ASSUME NEW u \in Thread, Incoming(u) PROVE p'[t] # p[u]
      BY Zenon
    <3>1. u # t /\ p[u] # p[t]
      BY <1>1, <2>1, Zenon DEF AllInv, InvPages, Incoming
    <3>2. p[u] # Null
      BY <1>1, <1>2, Zenon
    <3>. QED BY <2>1, <3>1, <3>2, Zenon
  <2>4. ~Incoming(t) /\ ~Incoming(t)'
    BY <1>1, <2>1, <2>2, Zenon DEF Incoming
  <2>. QED BY <2>1, <2>3, <2>4, QuietStep, Zenon
<1>8. CASE PushHead(t)
  <2>1. /\ UNCHANGED <<mem, held>> /\ at[t] = "pushhead" /\ at'[t] = "idle" /\ p'[t] = Null
        /\ \A u \in Thread \ {t} : /\ at'[u] = at[u] /\ p'[u] = p[u] /\ cache'[u] = cache[u]
                                   /\ size'[u] = size[u] /\ stale'[u] = stale[u]
        /\ stale'[t] = stale[t] \cup {p[t]}
    BY <1>0, <1>8, Zenon DEF PushHead, Return
  <2>2. owner[p[t][1]] \in Cache
    BY <1>1, <2>1, Zenon DEF ThreadOK, HasBlock
  <2>3. \A u \in Thread : \A b \in stale'[u] : b \in stale[u] \/ owner[b[1]] \in Cache
    BY <2>1, <2>2, Zenon
  <2>. QED BY <1>1, <1>2, <2>1, <2>3, QuietStep, Zenon DEF Incoming
<1>. QED BY <1>3, <1>4, <1>5, <1>6, <1>7, <1>8, Zenon

\* BT_kFree finds the tag of a large block, or panics on a pointer into a cache.
LEMMA FreeCallPages ==
    ASSUME Numbers, AllInv, NEW t \in Thread, NEW b \in Block, Free(t, b)
    PROVE  PagesGoal
<1>0. /\ at \in [Thread -> Place] /\ cache \in [Thread -> 0 .. Unused]
      /\ p \in [Thread -> Block \cup {Null}] /\ held \in [Thread -> SUBSET Block]
  BY Zenon DEF AllInv, IInv, InvType
<1>1. /\ UNCHANGED <<mem, stale, size>> /\ at[t] = "idle" /\ p'[t] = b
      /\ at'[t] \in {"panic", "freepages", "freelock"}
      /\ \A u \in Thread \ {t} : at'[u] = at[u] /\ p'[u] = p[u] /\ cache'[u] = cache[u]
      /\ \A u \in Thread : held'[u] \subseteq held[u]
      /\ b \in held[t] \cup stale[t] /\ (at'[t] = "panic" => word[b] # Magic)
      /\ at'[t] = "freepages" => owner[b[1]] = Large
  BY <1>0, Zenon DEF Free, Go, Verified
<1>2. at'[t] = "panic" => owner[b[1]] \in Cache
  <2>1. b \in held[t] => word[b] = Magic
    BY Zenon DEF AllInv, IInv, InvTag
  <2>2. b \in stale[t] => owner[b[1]] \in Cache
    BY Zenon DEF AllInv, InvPages
  <2>. QED BY <1>1, <2>1, <2>2, Zenon
<1>3. at'[t] = "freepages" => tagSize[b[1]] > 0
  <2>1. b \in held[t] /\ owner[b[1]] = Large => tagSize[b[1]] > 0
    BY Zenon DEF AllInv, InvPages
  <2>2. b \in stale[t] => owner[b[1]] \in Cache
    BY Zenon DEF AllInv, InvPages
  <2>. QED BY <1>1, <2>1, <2>2, BlockFacts, Zenon
<1>4. \A u \in Thread : Incoming(u) => b # p[u]
  <2>. SUFFICES ASSUME NEW u \in Thread, Incoming(u), b = p[u] PROVE FALSE
    BY Zenon
  <2>1. owner[b[1]] = Large /\ b \notin held[t]
    BY IncomingFacts, Zenon DEF AllInv
  <2>2. b \in stale[t]
    BY <1>1, <2>1, Zenon
  <2>. QED BY <2>1, <2>2, BlockFacts, Zenon DEF AllInv, InvPages
<1>5. ~Incoming(t) /\ ~Incoming(t)'
  BY <1>1, Zenon DEF Incoming
<1>. QED BY <1>1, <1>2, <1>3, <1>4, <1>5, QuietStep, Zenon

\* BT_kMalloc writes the tags: a large block's pages are then known from its tag.
LEMMA TagPages ==
    ASSUME Numbers, AllInv, NEW t \in Thread, Tag(t)
    PROVE  PagesGoal
<1>0. /\ at \in [Thread -> Place] /\ cache \in [Thread -> 0 .. Unused]
      /\ p \in [Thread -> Block \cup {Null}] /\ held \in [Thread -> SUBSET Block]
      /\ stale \in [Thread -> SUBSET Block] /\ size \in [Thread -> Nat]
      /\ tagSize \in [Run -> Nat] /\ Null \notin Block
  BY Distinct, Zenon DEF AllInv, IInv, InvType, FitInv, PagesTyped
<1>1. /\ at[t] = "tag" /\ at'[t] = "idle" /\ p'[t] = Null
      /\ UNCHANGED <<owner, pagesLeft>>
      /\ \A u \in Thread \ {t} : /\ at'[u] = at[u] /\ p'[u] = p[u] /\ cache'[u] = cache[u]
                                 /\ size'[u] = size[u] /\ held'[u] = held[u]
      /\ \A u \in Thread : stale'[u] \subseteq stale[u]
      /\ held'[t] \subseteq held[t] \cup {p[t]}
      /\ tagSize' = IF cache[t] = Large THEN [tagSize EXCEPT ![p[t][1]] = size[t]] ELSE tagSize
  BY <1>0, Zenon DEF Tag, Return
<1>2. p[t] \in Block /\ p[t] # Null /\ owner[p[t][1]] = cache[t] /\ p[t][1] \in Run
  <2>1. ThreadOK(t) /\ p[t] # Null /\ p[t] \in Block
    <3>1. ThreadOK(t)
      BY Zenon DEF AllInv, IInv, InvThread
    <3>2. p[t] # Null
      BY <1>1, <3>1, Zenon DEF ThreadOK
    <3>. QED BY <1>0, <3>1, <3>2, Zenon
  <2>. QED BY <1>1, <2>1, BlockFacts, Zenon DEF ThreadOK, HasBlock
<1>3. \A u \in Thread : Incoming(u) => p[u] \in Block
  BY IncomingFacts, Zenon DEF AllInv
<1>4. CASE cache[t] # Large
  <2>1. cache[t] \in Cache
    <3>1. p[t] \in Mine(t)
      BY <1>1, <1>2, Zenon DEF Mine, HasBlock
    <3>2. Valid(p[t])
      BY <3>1, Zenon DEF AllInv, IInv, InvOwned
    <3>. QED BY <1>2, <1>4, <3>2, Zenon DEF Valid
  <2>2. UNCHANGED mem
    BY <1>1, <1>4, Zenon DEF mem
  <2>3. \A u \in Thread : \A b \in held'[u] : b \in held[u] \/ owner[b[1]] \in Cache
    <3>. SUFFICES ASSUME NEW u \in Thread, NEW b \in held'[u], b \notin held[u]
                  PROVE  owner[b[1]] \in Cache
      BY Zenon
    <3>1. b = p[t]
      BY <1>1, Zenon
    <3>. QED BY <1>2, <2>1, <3>1, Zenon
  <2>4. ~Incoming(t) /\ ~Incoming(t)' /\ \A u \in Thread : Incoming(u) => p'[t] # p[u]
    BY <1>0, <1>1, <1>3, <1>4, Zenon DEF Incoming
  <2>. QED BY <1>1, <2>2, <2>3, <2>4, QuietStep, Zenon
<1>5. CASE cache[t] = Large
  <2>0. PICK x \in Run : x = p[t][1]
    BY <1>2, Zenon
  <2>1. Incoming(t) /\ x \in Run /\ p[t] = <<x, 0>> /\ owner[x] = Large /\ tagSize[x] = 0
    <3>1. Incoming(t)
      BY <1>1, <1>5, Zenon DEF Incoming
    <3>. QED BY <2>0, <3>1, IncomingFacts, Zenon DEF AllInv, InvPages
  <2>2. tagSize' = [tagSize EXCEPT ![x] = size[t]] /\ size[t] \in Nat /\ size[t] > 0
    <3>1. tagSize' = [tagSize EXCEPT ![x] = size[t]]
      BY <1>1, <1>5, <2>0, Zenon
    <3>2. size[t] \in Nat /\ size[t] > 0
      <4>1. size[t] \in Nat /\ size[t] # 0
        BY <1>0, <1>1, Zenon DEF AllInv, FitInv, Allocating
      <4>. QED BY <4>1
    <3>. QED BY <3>1, <3>2, Zenon
  <2>3. \A u \in Thread : Incoming(u)' <=> Incoming(u) /\ u # t
    BY <1>1, Zenon DEF Incoming
  <2>4. \A u \in Thread : Incoming(u) /\ u # t => p'[u] = p[u] /\ p[u] # <<x, 0>> /\ p[u][1] # x
    <3>. SUFFICES ASSUME NEW u \in Thread, Incoming(u), u # t
                  PROVE  p'[u] = p[u] /\ p[u] # <<x, 0>> /\ p[u][1] # x
      BY Zenon
    <3>1. p[u] # p[t]
      BY <2>1, Zenon DEF AllInv, InvPages
    <3>2. p[u] = <<p[u][1], 0>>
      BY IncomingFacts, Zenon DEF AllInv
    <3>. QED BY <1>1, <2>1, <3>1, <3>2, Zenon
  <2>5. tagSize'[x] = size[t] /\ \A r \in Run \ {x} : tagSize'[r] = tagSize[r]
    BY <1>0, <2>1, <2>2, Zenon
  <2>6. InvPages'
    <3>1. \A u \in Thread : \A b \in stale'[u] : owner'[b[1]] \in Cache
      BY <1>1, Zenon DEF AllInv, InvPages
    <3>2. \A u \in Thread : at'[u] = "panic" => p'[u] \in Block /\ owner'[p'[u][1]] \in Cache
      BY <1>1, Zenon DEF AllInv, InvPages
    <3>3. \A r \in Run : tagSize'[r] > 0 => owner'[r] = Large
      BY <1>1, <2>1, <2>5, Zenon DEF AllInv, InvPages
    <3>4. \A u \in Thread : \A b \in held'[u] : owner'[b[1]] = Large => tagSize'[b[1]] > 0
      <4>. SUFFICES ASSUME NEW u \in Thread, NEW b \in held'[u], owner[b[1]] = Large
                    PROVE  tagSize'[b[1]] > 0
        BY <1>1, Zenon
      <4>1. b \in held[u] \/ b = p[t]
        BY <1>1, Zenon
      <4>2. b \in Block /\ b[1] \in Run
        BY <1>0, <1>2, <4>1, BlockFacts, Zenon
      <4>3. b[1] = x \/ tagSize[b[1]] > 0
        BY <2>0, <4>1, Zenon DEF AllInv, InvPages
      <4>. QED BY <2>2, <2>5, <4>2, <4>3, Zenon
    <3>5. \A u \in Thread : at'[u] = "freepages" => tagSize'[p'[u][1]] > 0
      <4>. SUFFICES ASSUME NEW u \in Thread, at'[u] = "freepages" PROVE tagSize'[p'[u][1]] > 0
        BY Zenon
      <4>1. u # t /\ at[u] = "freepages" /\ p'[u] = p[u]
        BY <1>1, Zenon
      <4>2. p[u] \in Block /\ tagSize[p[u][1]] > 0
        <5>1. tagSize[p[u][1]] > 0
          BY <4>1, Zenon DEF AllInv, InvPages
        <5>2. p[u] # Null
          BY <4>1, Zenon DEF AllInv, IInv, InvThread, ThreadOK
        <5>. QED BY <1>0, <5>1, <5>2, Zenon
      <4>3. p[u][1] \in Run
        BY <4>2, BlockFacts, Zenon
      <4>. QED BY <2>2, <2>5, <4>1, <4>2, <4>3, Zenon
    <3>6. \A r \in Run : owner'[r] = Large /\ tagSize'[r] = 0 =>
              \E u \in Thread : Incoming(u)' /\ p'[u] = <<r, 0>>
      <4>. SUFFICES ASSUME NEW r \in Run, owner[r] = Large, tagSize'[r] = 0
                    PROVE  \E u \in Thread : Incoming(u)' /\ p'[u] = <<r, 0>>
        BY <1>1, Zenon
      <4>1. r # x /\ tagSize[r] = 0
        BY <2>2, <2>5
      <4>2. PICK u \in Thread : Incoming(u) /\ p[u] = <<r, 0>>
        BY <4>1, Zenon DEF AllInv, InvPages
      <4>3. u # t
        BY <2>1, <4>1, <4>2
      <4>. QED BY <2>3, <2>4, <4>2, <4>3, Zenon
    <3>7. \A u \in Thread : Incoming(u)' => tagSize'[p'[u][1]] = 0
      <4>. SUFFICES ASSUME NEW u \in Thread, Incoming(u), u # t PROVE tagSize'[p'[u][1]] = 0
        BY <2>3, Zenon
      <4>1. tagSize[p[u][1]] = 0 /\ p[u][1] \in Run
        BY IncomingFacts, Zenon DEF AllInv, InvPages
      <4>. QED BY <2>4, <2>5, <4>1, Zenon
    <3>8. \A u, v \in Thread : Incoming(u)' /\ p'[v] = p'[u] => v = u
      <4>. SUFFICES ASSUME NEW u \in Thread, NEW v \in Thread, Incoming(u)', p'[v] = p'[u]
                    PROVE  v = u
        BY Zenon
      <4>1. Incoming(u) /\ u # t /\ p'[u] = p[u] /\ p[u] \in Block
        BY <1>3, <2>3, <2>4, Zenon
      <4>2. v # t
        BY <1>0, <1>1, <4>1, Zenon
      <4>3. p[v] = p[u]
        BY <1>1, <4>1, <4>2, Zenon
      <4>. QED BY <4>1, <4>3, Zenon DEF AllInv, InvPages
    <3>. QED BY <3>1, <3>2, <3>3, <3>4, <3>5, <3>6, <3>7, <3>8, Zenon DEF InvPages
  <2>7. \A r \in Run : RunPages(r)' = RunPages(r)
    <3>1. ASSUME NEW r \in Run \ {x} PROVE RunPages(r)' = RunPages(r)
      <4>1. \A u \in Thread : Incoming(u) /\ p[u] = <<r, 0>> =>
                Incoming(u)' /\ p'[u] = p[u] /\ size'[u] = size[u]
        <5>. SUFFICES ASSUME NEW u \in Thread, Incoming(u), p[u] = <<r, 0>>
                      PROVE  Incoming(u)' /\ p'[u] = p[u] /\ size'[u] = size[u]
          BY Zenon
        <5>1. u # t
          <6>1. <<r, 0>>[1] = r /\ <<x, 0>>[1] = x /\ r # x
            BY Zenon
          <6>. QED BY <2>1, <6>1, Zenon
        <5>. QED BY <1>1, <2>3, <5>1, Zenon
      <4>. QED BY <1>1, <2>5, <2>6, <4>1, RunPagesKept, Zenon
    <3>2. RunPages(x) = PagesFor(size[t] + Overhead)
      BY <2>1, RunPagesIs, Zenon
    <3>3. RunPages(x)' = PagesFor(tagSize'[x] + Overhead)
      <4>1. Large \notin Cache /\ owner'[x] = Large /\ tagSize'[x] > 0
        BY <1>1, <2>1, <2>2, <2>5, BlockFacts, Zenon
      <4>. QED BY <4>1 DEF RunPages, PagesFor
    <3>. QED BY <2>5, <3>1, <3>2, <3>3, Zenon
  <2>8. PagesBalanced' /\ pagesLeft' \in Int
    BY <1>1, <2>7, BalanceSame, Zenon
  <2>9. tagSize' \in [Run -> Nat]
    BY <1>0, <2>2, Zenon
  <2>. QED BY <2>6, <2>8, <2>9, Zenon DEF PagesGoal, PagesTyped
<1>. QED BY <1>4, <1>5, Zenon

\* Nobody has a pointer into a run that is not used.
LEMMA UnusedFacts ==
    ASSUME AllInv, NEW x \in Run, owner[x] = Unused
    PROVE  /\ tagSize[x] = 0
           /\ \A u \in Thread : /\ \A b \in held[u] \cup stale[u] : b[1] # x
                                /\ p[u] # Null => p[u][1] # x
<1>0. Large # Unused /\ Unused \notin Cache
  BY BlockFacts, Zenon
<1>1. tagSize[x] = 0
  BY <1>0 DEF AllInv, InvPages, PagesTyped
<1>. SUFFICES ASSUME NEW u \in Thread
              PROVE  /\ \A b \in held[u] \cup stale[u] : b[1] # x
                     /\ p[u] # Null => p[u][1] # x
  BY <1>1, Zenon
<1>2. \A b \in Mine(u) : b[1] # x
  BY <1>0, Zenon DEF AllInv, IInv, InvOwned, Valid
<1>3. \A b \in held[u] \cup stale[u] : b[1] # x
  BY <1>0, <1>2, Zenon DEF Mine, AllInv, InvPages
<1>4. ASSUME p[u] # Null PROVE p[u][1] # x
  <2>1. at[u] \in Place /\ ThreadOK(u) /\ p[u] \in Block
    BY <1>4, Zenon DEF AllInv, IInv, InvType, InvThread
  <2>2. HasBlock(u) \/ at[u] = "popnext" \/ at[u] = "panic"
    BY <1>4, <2>1, Zenon DEF ThreadOK, HasBlock, Place
  <2>3. CASE HasBlock(u)
    BY <1>2, <2>1, <2>3, Zenon DEF Mine
  <2>4. CASE at[u] = "popnext"
    <3>1. cache[u] \in Cache /\ p[u] = free[cache[u]]
      BY <2>1, <2>4, Zenon DEF ThreadOK
    <3>. QED BY <1>0, <1>4, <3>1, Zenon DEF AllInv, IInv, InvList, Unheld
  <2>5. CASE at[u] = "panic"
    BY <1>0, <2>5, Zenon DEF AllInv, InvPages
  <2>. QED BY <2>2, <2>3, <2>4, <2>5, Zenon
<1>. QED BY <1>3, <1>4, Zenon

\* extend_cache takes the pages of a run for a cache.
LEMMA ExtendPages ==
    ASSUME Numbers, AllInv, NEW t \in Thread, Extend(t)
    PROVE  PagesGoal
<1>0. at \in [Thread -> Place] /\ owner \in [Run -> 0 .. Unused] /\ tagSize \in [Run -> Nat]
  BY Zenon DEF AllInv, IInv, InvType, PagesTyped
<1>1. /\ at[t] = "extend" /\ at'[t] = "popagain" /\ \A u \in Thread \ {t} : at'[u] = at[u]
      /\ UNCHANGED <<tagSize, cache, p, size, held, stale>>
  BY <1>0, Zenon DEF Extend, Go, call, user
<1>2. p[t] = Null /\ cache[t] \in Cache /\ Null \notin Block
  BY <1>1, Distinct, Zenon DEF AllInv, IInv, InvThread, ThreadOK
<1>3. \A u \in Thread : Incoming(u) => p[u] \in Block
  BY IncomingFacts, Zenon DEF AllInv
<1>4. ~Incoming(t) /\ \A u \in Thread : Incoming(u)' <=> Incoming(u)
  BY <1>1, Zenon DEF Incoming
<1>5. CASE UNCHANGED <<owner, pagesLeft>>
  <2>1. UNCHANGED mem
    BY <1>1, <1>5, Zenon DEF mem
  <2>. QED BY <1>1, <1>2, <1>3, <1>4, <2>1, QuietStep, Zenon
<1>6. ASSUME NEW x \in Run, PageAlloc(x, cache[t], ObjectSize(cache[t]))
      PROVE  PagesGoal
  <2>1. PICK c \in Cache : c = cache[t]
    BY <1>2, Zenon
  <2>2. /\ owner[x] = Unused /\ owner' = [owner EXCEPT ![x] = c]
        /\ pagesLeft' = pagesLeft - PagesFor(ObjectSize(c))
    BY <1>6, <2>1, Zenon DEF PageAlloc
  <2>3. owner'[x] = c /\ \A r \in Run \ {x} : owner'[r] = owner[r]
    BY <1>0, <2>2, Zenon
  <2>4. Large \notin Cache /\ Unused \notin Cache /\ \A b \in Block : b[1] \in Run
    BY BlockFacts, Zenon
  <2>5. /\ \A u \in Thread : held[u] \subseteq Block /\ stale[u] \subseteq Block
        /\ \A r \in Run : owner[r] \in Cache => owner'[r] \in Cache
        /\ \A r \in Run : owner'[r] = Large <=> owner[r] = Large
    <3>1. \A u \in Thread : held[u] \subseteq Block /\ stale[u] \subseteq Block
      BY Zenon DEF AllInv, IInv, InvType
    <3>2. Large # Unused
      BY BlockFacts, Zenon
    <3>. QED BY <2>2, <2>3, <2>4, <3>1, <3>2, Zenon
  <2>6. InvPages'
    <3>1. \A u \in Thread : \A b \in stale'[u] : owner'[b[1]] \in Cache
      BY <1>1, <2>4, <2>5, Zenon DEF AllInv, InvPages
    <3>2. \A u \in Thread : at'[u] = "panic" => p'[u] \in Block /\ owner'[p'[u][1]] \in Cache
      BY <1>1, <2>4, <2>5, Zenon DEF AllInv, InvPages
    <3>3. \A r \in Run : tagSize'[r] > 0 => owner'[r] = Large
      BY <1>1, <2>5, Zenon DEF AllInv, InvPages
    <3>4. \A u \in Thread : \A b \in held'[u] : owner'[b[1]] = Large => tagSize'[b[1]] > 0
      BY <1>1, <2>4, <2>5, Zenon DEF AllInv, InvPages
    <3>5. \A u \in Thread : at'[u] = "freepages" => tagSize'[p'[u][1]] > 0
      BY <1>1, Zenon DEF AllInv, InvPages
    <3>6. \A r \in Run : owner'[r] = Large /\ tagSize'[r] = 0 =>
              \E u \in Thread : Incoming(u)' /\ p'[u] = <<r, 0>>
      BY <1>1, <1>4, <2>5, Zenon DEF AllInv, InvPages
    <3>7. \A u \in Thread : Incoming(u)' => tagSize'[p'[u][1]] = 0
      BY <1>1, <1>4, Zenon DEF AllInv, InvPages
    <3>8. \A u, v \in Thread : Incoming(u)' /\ p'[v] = p'[u] => v = u
      BY <1>1, <1>4, Zenon DEF AllInv, InvPages
    <3>. QED BY <3>1, <3>2, <3>3, <3>4, <3>5, <3>6, <3>7, <3>8, Zenon DEF InvPages
  <2>7. ASSUME NEW r \in Run \ {x} PROVE RunPages(r)' = RunPages(r)
    <3>1. \A u \in Thread : Incoming(u) /\ p[u] = <<r, 0>> =>
              Incoming(u)' /\ p'[u] = p[u] /\ size'[u] = size[u]
      BY <1>1, <1>4, Zenon
    <3>. QED BY <1>1, <2>3, <2>6, <3>1, RunPagesKept, Zenon
  <2>8. RunPages(x) = 0
    BY <2>2, RunPagesIs, Zenon
  <2>9. RunPages(x)' = PagesFor(ObjectSize(c)) /\ PagesFor(ObjectSize(c)) \in Nat
    <3>1. owner'[x] \in Cache
      BY <2>3, Zenon
    <3>2. RunPages(x)' = PagesFor(ObjectSize(owner'[x]))
      BY <2>4, <3>1, Zenon DEF RunPages, PagesFor, ObjectSize
    <3>. QED BY <2>3, <3>2, PagesForNat, Zenon
  <2>10. pagesLeft' = pagesLeft + RunPages(x) - PagesFor(ObjectSize(c))
    BY <2>2, <2>8, <2>9 DEF AllInv, PagesTyped
  <2>. DEFINE k == PagesFor(ObjectSize(c))
  <2>. HIDE DEF k
  <2>11. PagesBalanced' /\ pagesLeft' \in Int
    <3>1. k \in Nat /\ RunPages(x)' = k /\ pagesLeft' = pagesLeft + RunPages(x) - k
      BY <2>9, <2>10, Zenon DEF k
    <3>. QED BY <2>7, <3>1, BalanceKept, Zenon
  <2>. QED BY <1>0, <1>1, <2>6, <2>11, Zenon DEF PagesGoal, PagesTyped
<1>. QED BY <1>5, <1>6, Zenon DEF Extend

\* BT_kMalloc takes the pages of a run for a large block.
LEMMA MallocPagesPages ==
    ASSUME Numbers, AllInv, NEW t \in Thread, MallocPages(t)
    PROVE  PagesGoal
<1>0. /\ at \in [Thread -> Place] /\ owner \in [Run -> 0 .. Unused] /\ tagSize \in [Run -> Nat]
      /\ p \in [Thread -> Block \cup {Null}] /\ cache \in [Thread -> 0 .. Unused]
      /\ size \in [Thread -> Nat] /\ Null \notin Block
  BY Distinct, Zenon DEF AllInv, IInv, InvType, PagesTyped, FitInv
<1>1. /\ at[t] = "pages" /\ UNCHANGED <<tagSize, held, stale>>
      /\ p[t] = Null /\ cache[t] = Large
  <2>1. at[t] = "pages" /\ UNCHANGED <<tagSize, held, stale>>
    BY Zenon DEF MallocPages, user
  <2>. QED BY <2>1, Zenon DEF AllInv, IInv, InvThread, ThreadOK
<1>2. \A u \in Thread : Incoming(u) => p[u] \in Block
  BY IncomingFacts, Zenon DEF AllInv
<1>3. CASE Return(t) /\ UNCHANGED <<owner, pagesLeft>>
  <2>1. /\ UNCHANGED mem /\ at'[t] = "idle" /\ p'[t] = Null
        /\ \A u \in Thread \ {t} : /\ at'[u] = at[u] /\ cache'[u] = cache[u]
                                   /\ p'[u] = p[u] /\ size'[u] = size[u]
    BY <1>0, <1>1, <1>3, Zenon DEF mem, Return
  <2>2. ~Incoming(t) /\ ~Incoming(t)' /\ \A u \in Thread : Incoming(u) => p'[t] # p[u]
    BY <1>0, <1>1, <1>2, <2>1, Zenon DEF Incoming
  <2>. QED BY <1>1, <2>1, <2>2, QuietStep, Zenon
<1>4. ASSUME NEW x \in Run, PageAlloc(x, Large, size[t] + Overhead),
             p' = [p EXCEPT ![t] = <<x, 0>>], Go(t, "tag"), UNCHANGED <<cache, size, old>>
      PROVE  PagesGoal
  <2>1. PICK k \in Nat : k = PagesFor(size[t] + Overhead)
    <3>1. size[t] + Overhead \in Nat
      BY <1>0, SizesOK
    <3>. QED BY <3>1, PagesForNat, Zenon
  <2>2. /\ owner[x] = Unused /\ owner' = [owner EXCEPT ![x] = Large]
        /\ pagesLeft' = pagesLeft - k /\ cache' = cache /\ size' = size
        /\ at' = [at EXCEPT ![t] = "tag"]
    BY <1>4, <2>1, Zenon DEF PageAlloc, Go
  <2>3. /\ owner'[x] = Large /\ \A r \in Run \ {x} : owner'[r] = owner[r]
        /\ p'[t] = <<x, 0>> /\ at'[t] = "tag"
        /\ \A u \in Thread \ {t} : p'[u] = p[u] /\ at'[u] = at[u]
    BY <1>0, <1>4, <2>2, Zenon
  <2>4. /\ Large \notin Cache /\ Unused \notin Cache /\ Large # Unused
        /\ \A b \in Block : b[1] \in Run
    BY BlockFacts, Zenon
  <2>5. Incoming(t)' /\ ~Incoming(t) /\ \A u \in Thread \ {t} : Incoming(u)' <=> Incoming(u)
    BY <1>1, <2>2, <2>3, Zenon DEF Incoming
  <2>6. /\ tagSize[x] = 0
        /\ \A u \in Thread : \A b \in held[u] \cup stale[u] : b[1] # x
        /\ \A u \in Thread : p[u] # Null => p[u][1] # x
    BY <2>2, UnusedFacts, Zenon
  <2>7. \A u \in Thread : held[u] \subseteq Block /\ stale[u] \subseteq Block
    BY Zenon DEF AllInv, IInv, InvType
  <2>8. InvPages'
    <3>1. \A u \in Thread : \A b \in stale'[u] : owner'[b[1]] \in Cache
      <4>. SUFFICES ASSUME NEW u \in Thread, NEW b \in stale[u] PROVE owner'[b[1]] \in Cache
        BY <1>1, Zenon
      <4>1. b[1] \in Run \ {x}
        BY <2>4, <2>6, <2>7, Zenon
      <4>2. owner[b[1]] \in Cache
        BY Zenon DEF AllInv, InvPages
      <4>. QED BY <2>3, <4>1, <4>2, Zenon
    <3>2. \A u \in Thread : at'[u] = "panic" => p'[u] \in Block /\ owner'[p'[u][1]] \in Cache
      <4>. SUFFICES ASSUME NEW u \in Thread, at'[u] = "panic"
                    PROVE  p'[u] \in Block /\ owner'[p'[u][1]] \in Cache
        BY Zenon
      <4>1. u # t /\ at[u] = "panic" /\ p'[u] = p[u]
        BY <2>3, Zenon
      <4>2. p[u] \in Block /\ owner[p[u][1]] \in Cache
        BY <4>1, Zenon DEF AllInv, InvPages
      <4>. QED BY <2>2, <2>3, <2>4, <4>1, <4>2
    <3>3. \A r \in Run : tagSize'[r] > 0 => owner'[r] = Large
      BY <1>1, <2>3, Zenon DEF AllInv, InvPages
    <3>4. \A u \in Thread : \A b \in held'[u] : owner'[b[1]] = Large => tagSize'[b[1]] > 0
      <4>. SUFFICES ASSUME NEW u \in Thread, NEW b \in held[u], owner'[b[1]] = Large
                    PROVE  tagSize[b[1]] > 0
        BY <1>1, Zenon
      <4>1. b[1] \in Run \ {x}
        BY <2>4, <2>6, <2>7, Zenon
      <4>2. owner[b[1]] = Large
        BY <2>3, <4>1, Zenon
      <4>. QED BY <4>2, Zenon DEF AllInv, InvPages
    <3>5. \A u \in Thread : at'[u] = "freepages" => tagSize'[p'[u][1]] > 0
      BY <1>1, <2>3, Zenon DEF AllInv, InvPages
    <3>6. \A r \in Run : owner'[r] = Large /\ tagSize'[r] = 0 =>
              \E u \in Thread : Incoming(u)' /\ p'[u] = <<r, 0>>
      <4>. SUFFICES ASSUME NEW r \in Run, owner'[r] = Large, tagSize'[r] = 0
                    PROVE  \E u \in Thread : Incoming(u)' /\ p'[u] = <<r, 0>>
        BY Zenon
      <4>1. CASE r = x
        BY <2>3, <2>5, <4>1, Zenon
      <4>2. CASE r # x
        <5>1. PICK u \in Thread : Incoming(u) /\ p[u] = <<r, 0>>
          BY <1>1, <2>3, <4>2, Zenon DEF AllInv, InvPages
        <5>. QED BY <2>3, <2>5, <5>1, Zenon
      <4>. QED BY <4>1, <4>2, Zenon
    <3>7. \A u \in Thread : Incoming(u)' => tagSize'[p'[u][1]] = 0
      <4>. SUFFICES ASSUME NEW u \in Thread, Incoming(u)' PROVE tagSize'[p'[u][1]] = 0
        BY Zenon
      <4>1. CASE u = t
        <5>1. p'[u][1] = x
          BY <2>3, <4>1
        <5>. QED BY <1>1, <2>6, <5>1, Zenon
      <4>2. CASE u # t
        <5>1. Incoming(u) /\ p'[u] = p[u]
          BY <2>3, <2>5, <4>2, Zenon
        <5>2. tagSize[p[u][1]] = 0
          BY <5>1, Zenon DEF AllInv, InvPages
        <5>. QED BY <1>1, <5>1, <5>2, Zenon
      <4>. QED BY <4>1, <4>2, Zenon
    <3>8. \A u, v \in Thread : Incoming(u)' /\ p'[v] = p'[u] => v = u
      <4>1. <<x, 0>>[1] = x /\ <<x, 0>> \in Block /\ \A u \in Thread : p[u] # <<x, 0>>
        BY <1>0, <2>6, BlockFacts
      <4>. SUFFICES ASSUME NEW u \in Thread, NEW v \in Thread, Incoming(u)', p'[v] = p'[u]
                    PROVE  v = u
        BY Zenon
      <4>2. CASE u = t
        BY <2>3, <4>1, <4>2, Zenon
      <4>3. CASE u # t
        <5>1. Incoming(u) /\ p'[u] = p[u]
          BY <2>3, <2>5, <4>3, Zenon
        <5>2. v # t /\ p[v] = p[u]
          BY <2>3, <4>1, <5>1, Zenon
        <5>. QED BY <5>1, <5>2, Zenon DEF AllInv, InvPages
      <4>. QED BY <4>2, <4>3, Zenon
    <3>. QED BY <3>1, <3>2, <3>3, <3>4, <3>5, <3>6, <3>7, <3>8, Zenon DEF InvPages
  <2>9. ASSUME NEW r \in Run \ {x} PROVE RunPages(r)' = RunPages(r)
    <3>1. \A u \in Thread : Incoming(u) /\ p[u] = <<r, 0>> =>
              Incoming(u)' /\ p'[u] = p[u] /\ size'[u] = size[u]
      BY <2>2, <2>3, <2>5, Zenon
    <3>. QED BY <1>1, <2>3, <2>8, <3>1, RunPagesKept, Zenon
  <2>10. RunPages(x) = 0
    BY <2>2, RunPagesIs, Zenon
  <2>11. RunPages(x)' = k
    <3>1. \A u \in Thread : p'[u] = <<x, 0>> => u = t
      BY <2>3, <2>5, <2>8, Zenon DEF InvPages
    <3>2. Caller(x)' = t
      BY <2>3, <3>1, Zenon DEF Caller
    <3>3. RunPages(x)' = PagesFor(size'[t] + Overhead)
      <4>1. owner'[x] = Large /\ tagSize'[x] = 0 /\ Large \notin Cache
        BY <1>1, <2>3, <2>4, <2>6, Zenon
      <4>2. ~(tagSize'[x] > 0)
        BY <4>1
      <4>. QED BY <3>2, <4>1, <4>2, Zenon DEF RunPages
    <3>. QED BY <2>1, <2>2, <3>3, Zenon
  <2>12. pagesLeft' = pagesLeft + RunPages(x) - k
    BY <2>2, <2>10 DEF AllInv, PagesTyped
  <2>13. PagesBalanced' /\ pagesLeft' \in Int
    BY <2>9, <2>11, <2>12, BalanceKept, Zenon
  <2>. QED BY <1>0, <1>1, <2>8, <2>13, Zenon DEF PagesGoal, PagesTyped
<1>. QED BY <1>3, <1>4, Zenon DEF MallocPages

\* BT_kFree gives back as many pages as the tag says.
LEMMA FreePagesPages ==
    ASSUME Numbers, AllInv, NEW t \in Thread, FreePages(t)
    PROVE  PagesGoal
<1>0. /\ at \in [Thread -> Place] /\ owner \in [Run -> 0 .. Unused] /\ tagSize \in [Run -> Nat]
      /\ p \in [Thread -> Block \cup {Null}] /\ cache \in [Thread -> 0 .. Unused]
      /\ size \in [Thread -> Nat] /\ Null \notin Block
  BY Distinct, Zenon DEF AllInv, IInv, InvType, PagesTyped, FitInv
<1>1. at[t] = "freepages"
  BY Zenon DEF FreePages
<1>2. /\ p[t] \in Block /\ p[t] \in Mine(t) /\ owner[p[t][1]] = Large
      /\ p[t][1] \in Run /\ p[t] = <<p[t][1], 0>>
  <2>1. ThreadOK(t) /\ p[t] # Null /\ p[t] \in Block
    BY <1>0, <1>1, Zenon DEF AllInv, IInv, InvThread, ThreadOK
  <2>2. owner[p[t][1]] = Large /\ p[t] \in Mine(t)
    BY <1>1, <2>1, Zenon DEF ThreadOK, HasBlock, Mine
  <2>3. Valid(p[t])
    BY <2>2, Zenon DEF AllInv, IInv, InvOwned
  <2>. QED BY <2>1, <2>2, <2>3, BlockFacts, Zenon DEF Valid
<1>3. PICK x \in Run : x = p[t][1]
  BY <1>2, Zenon
<1>4. PICK k \in Nat : k = PagesFor(tagSize[x] + Overhead)
  <2>1. tagSize[x] + Overhead \in Nat
    BY <1>0, SizesOK
  <2>. QED BY <2>1, PagesForNat, Zenon
<1>5. /\ owner' = [owner EXCEPT ![x] = Unused] /\ tagSize' = [tagSize EXCEPT ![x] = 0]
      /\ pagesLeft' = pagesLeft + k /\ UNCHANGED <<held, stale>>
      /\ at'[t] = "idle" /\ p'[t] = Null
      /\ \A u \in Thread \ {t} : /\ at'[u] = at[u] /\ cache'[u] = cache[u]
                                 /\ p'[u] = p[u] /\ size'[u] = size[u]
  BY <1>0, <1>3, <1>4, Zenon DEF FreePages, Return, FreedSize, user
<1>6. /\ owner'[x] = Unused /\ tagSize'[x] = 0
      /\ \A r \in Run \ {x} : owner'[r] = owner[r] /\ tagSize'[r] = tagSize[r]
  BY <1>0, <1>5, Zenon
<1>7. /\ Large \notin Cache /\ Unused \notin Cache /\ Large # Unused
      /\ \A b \in Block : b[1] \in Run /\ b = <<b[1], b[2]>>
      /\ \A u \in Thread : held[u] \subseteq Block /\ stale[u] \subseteq Block
  BY BlockFacts, Zenon DEF AllInv, IInv, InvType
<1>8. tagSize[x] > 0 /\ owner[x] = Large
  BY <1>1, <1>2, <1>3, Zenon DEF AllInv, InvPages
<1>9. \A u \in Thread : Incoming(u)' <=> Incoming(u)
  BY <1>1, <1>5, Zenon DEF Incoming
<1>10. \A u \in Thread : Incoming(u) =>
           u # t /\ p[u] \in Block /\ p[u][1] \in Run /\ p[u][1] # x /\ p[u] # <<x, 0>>
  <2>. SUFFICES ASSUME NEW u \in Thread, Incoming(u)
                PROVE  u # t /\ p[u] \in Block /\ p[u][1] \in Run /\ p[u][1] # x /\ p[u] # <<x, 0>>
    BY Zenon
  <2>1. u # t /\ p[u] \in Block /\ p[u][1] \in Run /\ tagSize[p[u][1]] = 0
    BY <1>1, IncomingFacts, Zenon DEF AllInv, InvPages, Incoming
  <2>2. <<x, 0>>[1] = x
    BY Zenon
  <2>. QED BY <1>8, <2>1, <2>2
<1>11. InvPages'
  <2>1. \A u \in Thread : \A b \in stale'[u] : owner'[b[1]] \in Cache
    <3>1. \A u \in Thread : \A b \in stale[u] : b[1] \in Run \ {x} /\ owner[b[1]] \in Cache
      BY <1>7, <1>8, Zenon DEF AllInv, InvPages
    <3>. QED BY <1>5, <1>6, <3>1, Zenon
  <2>2. \A u \in Thread : at'[u] = "panic" => p'[u] \in Block /\ owner'[p'[u][1]] \in Cache
    <3>1. \A u \in Thread : at[u] = "panic" =>
              p[u] \in Block /\ p[u][1] \in Run \ {x} /\ owner[p[u][1]] \in Cache
      BY <1>7, <1>8, Zenon DEF AllInv, InvPages
    <3>. QED BY <1>5, <1>6, <3>1
  <2>3. \A r \in Run : tagSize'[r] > 0 => owner'[r] = Large
    <3>. SUFFICES ASSUME NEW r \in Run, tagSize'[r] > 0 PROVE owner'[r] = Large
      BY Zenon
    <3>1. r # x
      BY <1>6
    <3>2. tagSize[r] > 0 /\ owner'[r] = owner[r]
      BY <1>6, <3>1, Zenon
    <3>. QED BY <3>2, Zenon DEF AllInv, InvPages
  <2>4. \A u \in Thread : \A b \in held'[u] : owner'[b[1]] = Large => tagSize'[b[1]] > 0
    BY <1>5, <1>6, <1>7 DEF AllInv, InvPages
  <2>5. \A u \in Thread : at'[u] = "freepages" => tagSize'[p'[u][1]] > 0
    <3>. SUFFICES ASSUME NEW u \in Thread, u # t, at[u] = "freepages" PROVE tagSize'[p[u][1]] > 0
      BY <1>5, Zenon
    <3>1. ThreadOK(u) /\ p[u] # Null /\ p[u] \in Block
      BY <1>0, Zenon DEF AllInv, IInv, InvThread, ThreadOK
    <3>2. owner[p[u][1]] = Large /\ p[u] \in Mine(u)
      BY <3>1, Zenon DEF ThreadOK, HasBlock, Mine
    <3>3. Valid(p[u]) /\ p[u] # p[t]
      BY <1>2, <3>2, Zenon DEF AllInv, IInv, InvOwned
    <3>4. p[u][1] \in Run /\ p[u] = <<p[u][1], 0>>
      BY <1>7, <3>1, <3>2, <3>3, Zenon DEF Valid
    <3>5. p[u][1] # x
      BY <1>2, <1>3, <3>3, <3>4, Zenon
    <3>. QED BY <1>6, <3>4, <3>5, Zenon DEF AllInv, InvPages
  <2>6. \A r \in Run : owner'[r] = Large /\ tagSize'[r] = 0 =>
            \E u \in Thread : Incoming(u)' /\ p'[u] = <<r, 0>>
    <3>. SUFFICES ASSUME NEW r \in Run, owner'[r] = Large, tagSize'[r] = 0
                  PROVE  \E u \in Thread : Incoming(u)' /\ p'[u] = <<r, 0>>
      BY Zenon
    <3>1. owner[r] = Large /\ tagSize[r] = 0
      BY <1>6, <1>7, Zenon
    <3>2. PICK u \in Thread : Incoming(u) /\ p[u] = <<r, 0>>
      BY <3>1, Zenon DEF AllInv, InvPages
    <3>. QED BY <1>5, <1>9, <1>10, <3>2, Zenon
  <2>7. \A u \in Thread : Incoming(u)' => tagSize'[p'[u][1]] = 0
    <3>. SUFFICES ASSUME NEW u \in Thread, Incoming(u)' PROVE tagSize'[p'[u][1]] = 0
      BY Zenon
    <3>1. Incoming(u) /\ p'[u] = p[u] /\ p[u][1] \in Run \ {x}
      BY <1>5, <1>9, <1>10, Zenon
    <3>2. tagSize[p[u][1]] = 0
      BY <3>1, Zenon DEF AllInv, InvPages
    <3>. QED BY <1>6, <3>1, <3>2, Zenon
  <2>8. \A u, v \in Thread : Incoming(u)' /\ p'[v] = p'[u] => v = u
    <3>. SUFFICES ASSUME NEW u \in Thread, NEW v \in Thread, Incoming(u)', p'[v] = p'[u]
                  PROVE  v = u
      BY Zenon
    <3>1. Incoming(u) /\ u # t /\ p'[u] = p[u] /\ p[u] # Null
      BY <1>0, <1>5, <1>9, <1>10, Zenon
    <3>2. v # t
      BY <1>5, <3>1, Zenon
    <3>3. p[v] = p[u]
      BY <1>5, <3>1, <3>2, Zenon
    <3>. QED BY <3>1, <3>3, Zenon DEF AllInv, InvPages
  <2>. QED BY <2>1, <2>2, <2>3, <2>4, <2>5, <2>6, <2>7, <2>8, Zenon DEF InvPages
<1>12. ASSUME NEW r \in Run \ {x} PROVE RunPages(r)' = RunPages(r)
  <2>1. \A u \in Thread : Incoming(u) /\ p[u] = <<r, 0>> =>
            Incoming(u)' /\ p'[u] = p[u] /\ size'[u] = size[u]
    BY <1>5, <1>9, <1>10, Zenon
  <2>. QED BY <1>6, <1>11, <2>1, RunPagesKept, Zenon
<1>13. RunPages(x) = k
  BY <1>4, <1>8, RunPagesIs, Zenon
<1>14. RunPages(x)' = 0
  BY <1>6, <1>7, Zenon DEF RunPages
<1>15. pagesLeft' = pagesLeft + RunPages(x) - 0
  <2>1. pagesLeft \in Int
    BY Zenon DEF AllInv, PagesTyped
  <2>2. pagesLeft' = pagesLeft + k /\ k \in Nat
    BY <1>4, <1>5, <1>13, Zenon
  <2>. QED BY <1>13, <2>1, <2>2
<1>16. PagesBalanced' /\ pagesLeft' \in Int
  <2>1. 0 \in Nat
    BY Zenon
  <2>. QED BY <1>12, <1>14, <1>15, <2>1, BalanceKept, Zenon
<1>17. tagSize' \in [Run -> Nat]
  BY <1>0, <1>5, Zenon
<1>. QED BY <1>11, <1>16, <1>17, Zenon DEF PagesGoal, PagesTyped

\* bt_initialise_slab takes the pages of the caches' runs.
LEMMA PagesInit == Numbers /\ Init => FitInv /\ InvPages /\ PagesTyped /\ PagesBalanced
<1>. SUFFICES ASSUME Numbers, Init PROVE FitInv /\ InvPages /\ PagesTyped /\ PagesBalanced
  BY Zenon
<1>1. FitInv
  BY Zenon DEF Init, FitInv, Place, Allocating
<1>2. /\ owner \in [Run -> Cache \cup {Unused}] /\ tagSize = [r \in Run |-> 0]
      /\ at = [t \in Thread |-> "idle"] /\ stale = [t \in Thread |-> {}]
      /\ held = [t \in Thread |-> {}]
      /\ pagesLeft = Pages - Cardinality(PagesOf([r \in Run |-> InitialPages(r)]))
  BY Zenon DEF Init
<1>3. Large \notin Cache /\ Unused \notin Cache /\ Large # Unused
  BY BlockFacts, Zenon
<1>4. InvPages
  <2>1. \A t \in Thread : stale[t] = {} /\ held[t] = {} /\ at[t] = "idle" /\ ~Incoming(t)
    BY <1>2, Zenon DEF Incoming
  <2>2. \A r \in Run : tagSize[r] = 0 /\ owner[r] # Large
    BY <1>2, <1>3, Zenon
  <2>3. \A r \in Run : ~(tagSize[r] > 0)
    BY <2>2
  <2>. QED BY <2>1, <2>2, <2>3, Zenon DEF InvPages
<1>. DEFINE n == [r \in Run |-> InitialPages(r)]
<1>5. \A r \in Run : RunPages(r) = InitialPages(r) /\ InitialPages(r) \in Nat
  <2>. SUFFICES ASSUME NEW r \in Run
                PROVE  RunPages(r) = InitialPages(r) /\ InitialPages(r) \in Nat
    BY Zenon
  <2>1. CASE owner[r] \in Cache
    BY <1>3, <2>1, PagesForNat, Zenon DEF RunPages, InitialPages
  <2>2. CASE owner[r] = Unused
    BY <1>3, <2>2, Zenon DEF RunPages, InitialPages
  <2>. QED BY <1>2, <2>1, <2>2, Zenon
<1>6. n \in [Run -> Nat] /\ n = [r \in Run |-> RunPages(r)]
  BY <1>5, Zenon
<1>7. pagesLeft = Pages - Cardinality(PagesOf(n))
  BY <1>2, Zenon
<1>. HIDE DEF n
<1>8. Cardinality(PagesOf(n)) \in Nat /\ Pages \in Nat
  BY <1>6, SizesOK, Zenon DEF Numbers, PagesCounted
<1>9. PagesTyped
  <2>1. pagesLeft \in Int
    BY <1>7, <1>8
  <2>2. tagSize \in [Run -> Nat]
    BY <1>2, Zenon
  <2>. QED BY <2>1, <2>2, Zenon DEF PagesTyped
<1>10. pagesLeft + Cardinality(PagesOf(n)) = Pages
  BY <1>7, <1>8
<1>11. PagesBalanced
  BY <1>6, <1>10, Zenon DEF PagesBalanced
<1>. QED BY <1>1, <1>4, <1>9, <1>11, Zenon

\* Every step keeps them all.
LEMMA AllStep == Numbers /\ AllInv /\ [Next]_vars => AllInv'
<1>. SUFFICES ASSUME Numbers, AllInv, [Next]_vars PROVE AllInv'
  BY Zenon
<1>1. IInv' /\ FitInv'
  BY StepOK, FitStep, Zenon DEF AllInv
<1>2. CASE UNCHANGED vars
  <2>1. /\ UNCHANGED <<owner, pagesLeft, tagSize, at, cache, p, size, held, stale>>
    BY <1>2, Zenon DEF vars, mem, call, user
  <2>2. InvPages' /\ PagesTyped'
    BY <2>1, Zenon DEF AllInv, InvPages, Incoming, PagesTyped
  <2>3. \A r \in Run : RunPages(r)' = RunPages(r)
    BY <2>1, <2>2, RunPagesKept, Zenon DEF Incoming
  <2>. QED BY <1>1, <2>1, <2>2, <2>3, BalanceSame, Zenon DEF AllInv
<1>3. CASE Next
  <2>1. PagesGoal
    BY <1>3, CachePages, FreeCallPages, TagPages, ExtendPages, MallocPagesPages, FreePagesPages, Zenon
       DEF Next, Step
  <2>. QED BY <1>1, <2>1, Zenon DEF PagesGoal, AllInv
<1>. QED BY <1>2, <1>3, Zenon

=============================================================================
