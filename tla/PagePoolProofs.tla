--------------------------- MODULE PagePoolProofs ---------------------------
(***************************************************************************)
(* Proofs about the page allocator, for every page size, RAM, coherent     *)
(* range, and sizes, orders and ranges that callers pass.                  *)
(*                                                                         *)
(* A free list is looked at as the set of its pages: Carve, CutOut and     *)
(* GiveBack take pages out of that set or put pages back, and keep the     *)
(* blocks disjoint.  PoolOK says of one pool that its free, held and       *)
(* reserved pages are apart and that used_size counts them; IInv adds what *)
(* boot starts from and how the two pools share the RAM.                   *)
(***************************************************************************)
EXTENDS PagePool, TLAPS, FiniteSetTheorems

\* A struct bt_page on a free list.
Blk == [at : Nat, size : Nat \ {0}]

\* The pages of a free list.
Pages(s) == UNION {BlockPages(b) : b \in Range(s)}

\* No page is on the list twice.
Disjoint(s) ==
    \A i, j \in DOMAIN s : i # j => BlockPages(s[i]) \cap BlockPages(s[j]) = {}

-----------------------------------------------------------------------------
(* Arithmetic.                                                             *)

\* 2^n is the number of subsets of 1 .. n, and so a positive number.
LEMMA PowerPositive == ASSUME NEW n \in Nat PROVE 2^n \in Nat \ {0}
<1>1. IsFiniteSet(1 .. n) /\ Cardinality(1 .. n) = n
  BY FS_Interval
<1>2. IsFiniteSet(SUBSET (1 .. n)) /\ Cardinality(SUBSET (1 .. n)) = 2^n
  BY <1>1, FS_SUBSET, Zenon
<1>3. 2^n \in Nat
  BY <1>2, FS_CardinalityType, Zenon
<1>4. 2^n # 0
  BY <1>2, FS_EmptySet, Zenon
<1>. QED BY <1>3, <1>4, Zenon

\* Quotient and remainder.
LEMMA Division ==
    ASSUME NEW a \in Nat, NEW n \in Nat \ {0}
    PROVE  /\ a \div n \in Nat /\ a % n \in 0 .. n - 1
           /\ a = n * (a \div n) + (a % n)
OBVIOUS

\* The quotient is at least every k whose multiple is not above the dividend.
LEMMA DivisionAbove ==
    ASSUME NEW a \in Nat, NEW n \in Nat \ {0}, NEW k \in Nat, k * n <= a
    PROVE  k <= a \div n
<1>. DEFINE q == a \div n
<1>1. q \in Nat /\ a < n * (q + 1)
  BY Division
<1>. HIDE DEF q
<1>2. k * n < (q + 1) * n
  BY <1>1
<1>3. k < q + 1
  BY <1>1, <1>2
<1>. QED BY <1>1, <1>3 DEF q

\* Rounding up gives the least multiple that is not below the number.
LEMMA RoundUp ==
    ASSUME NEW a \in Nat, NEW n \in Nat \ {0}
    PROVE  LET r == (a + n - 1) \div n
           IN  /\ r \in Nat /\ a <= r * n /\ r * n < a + n
               /\ \A k \in Nat : a <= k * n => r <= k
<1>. DEFINE r == (a + n - 1) \div n
<1>1. r \in Nat /\ a <= r * n /\ r * n < a + n
  <2>1. a + n - 1 \in Nat
    OBVIOUS
  <2>2. /\ r \in Nat /\ (a + n - 1) % n \in 0 .. n - 1
        /\ a + n - 1 = n * r + ((a + n - 1) % n)
    BY <2>1, Division, Zenon
  <2>. HIDE DEF r
  <2>3. n * r = r * n
    BY <2>2
  <2>. QED BY <2>2, <2>3
<1>. HIDE DEF r
<1>2. ASSUME NEW k \in Nat, a <= k * n PROVE r <= k
  <2>1. r * n < k * n + n
    BY <1>1, <1>2
  <2>2. r * n < (k + 1) * n
    BY <2>1
  <2>3. r < k + 1
    BY <1>1, <2>2
  <2>. QED BY <1>1, <2>3
<1>. QED BY <1>1, <1>2, Zenon DEF r

\* A multiple has no remainder.
LEMMA Multiple == ASSUME NEW r \in Nat, NEW n \in Nat \ {0} PROVE (r * n) % n = 0
<1>. DEFINE a == r * n
            q == a \div n
            m == a % n
<1>1. a \in Nat
  OBVIOUS
<1>2. q \in Nat /\ m \in 0 .. n - 1 /\ a = n * q + m
  BY <1>1, Division, Zenon
<1>. HIDE DEF q, m
<1>3. m = n * (r - q)
  BY <1>2
<1>4. r - q <= 0 \/ r - q >= 1
  BY <1>2
<1>5. r - q >= 1 => n * (r - q) >= n
  BY <1>2
<1>6. r - q <= 0 => n * (r - q) <= 0
  BY <1>2
<1>. QED BY <1>2, <1>3, <1>4, <1>5, <1>6 DEF m

\* BT_ALIGN of an address.
LEMMA AlignToFacts ==
    ASSUME NEW at \in Nat, NEW order \in Nat
    PROVE  /\ AlignTo(at, order) \in Nat /\ AlignTo(at, order) >= at
           /\ AlignTo(at, order) % 2^order = 0
<1>. DEFINE m == 2^order
            r == (at + m - 1) \div m
<1>1. m \in Nat \ {0}
  BY PowerPositive, Zenon
<1>. HIDE DEF m
<1>2. r \in Nat /\ at <= r * m
  BY <1>1, RoundUp, Zenon
<1>3. (r * m) % m = 0
  BY <1>1, <1>2, Multiple, Zenon
<1>4. AlignTo(at, order) = r * m
  BY Zenon DEF AlignTo, m
<1>. HIDE DEF r
<1>5. r * m \in Nat
  BY <1>1, <1>2
<1>. QED BY <1>2, <1>3, <1>4, <1>5, Zenon DEF m

\* A size in bytes takes at least one page, unless it is 0.
LEMMA AlignFacts ==
    ASSUME NEW bytes \in Nat
    PROVE  Align(bytes) \in Nat /\ (bytes # 0 => Align(bytes) # 0)
<1>. DEFINE r == (bytes + PAGE_SIZE - 1) \div PAGE_SIZE
<1>1. r \in Nat /\ bytes <= r * PAGE_SIZE
  BY PageSizePositive, RoundUp, Zenon
<1>. HIDE DEF r
<1>2. bytes # 0 => r # 0
  BY <1>1, PageSizePositive
<1>. QED BY <1>1, <1>2, Zenon DEF Align, r

\* A span of pages has as many pages as it says.
LEMMA SpanFacts ==
    ASSUME NEW at \in Nat, NEW size \in Nat
    PROVE  /\ Span(at, size) \in SUBSET Nat
           /\ IsFiniteSet(Span(at, size)) /\ Cardinality(Span(at, size)) = size
           /\ size # 0 => at \in Span(at, size)
<1>1. at + size - 1 \in Int
  OBVIOUS
<1>2. /\ IsFiniteSet(at .. at + size - 1)
      /\ Cardinality(at .. at + size - 1)
             = IF at > at + size - 1 THEN 0 ELSE (at + size - 1) - at + 1
  BY <1>1, FS_Interval
<1>. QED BY <1>2 DEF Span

-----------------------------------------------------------------------------
(* Free lists.                                                             *)

(* A nonempty set of indices has a least one: a minimal element of a       *)
(* well-founded relation.                                                  *)
LEMMA FirstIndex == ASSUME NEW S \in SUBSET Nat, S # {} PROVE First(S) \in S
<1>. DEFINE below == {ss \in Nat \X Nat : ss[1] < ss[2]}
<1>1. OpToRel(<, Nat) = below
  BY Zenon DEF OpToRel
<1>2. \A x, y \in Nat : x < y => <<x, y>> \in below
  BY Zenon
<1>. HIDE DEF below
<1>3. \E x \in S : \A y \in S : ~(<<y, x>> \in below)
  BY <1>1, WFMin, NatLessThanWellFounded, Zenon
<1>4. PICK x \in S : \A y \in S : ~(<<y, x>> \in below)
  BY <1>3, Zenon
<1>5. ASSUME NEW y \in S, y < x PROVE FALSE
  <2>1. <<y, x>> \in below
    BY <1>2, <1>5, Zenon
  <2>. QED BY <1>4, <2>1, Zenon
<1>6. \A y \in S : x <= y
  BY <1>5
<1>. QED BY <1>6, Zenon DEF First

\* The block that bt_page_pool_alloc finds can hold the allocation.
LEMMA FirstFitFacts ==
    ASSUME NEW s \in Seq(Blk), NEW size, NEW order, FirstFit(s, size, order) # 0
    PROVE  /\ FirstFit(s, size, order) \in 1 .. Len(s)
           /\ s[FirstFit(s, size, order)].size
                  >= size + Gap(s[FirstFit(s, size, order)], order)
<1>. DEFINE I == {i \in DOMAIN s : s[i].size >= size + Gap(s[i], order)}
<1>1. FirstFit(s, size, order) = First(I) /\ I # {}
  BY Zenon DEF FirstFit, First
<1>2. I \in SUBSET Nat /\ DOMAIN s = 1 .. Len(s)
  OBVIOUS
<1>3. First(I) \in I
  BY <1>1, <1>2, FirstIndex, Zenon
<1>. QED BY <1>1, <1>2, <1>3, Zenon

\* The block that bt_page_pool_reserve finds holds the range.
LEMMA HoldingFacts ==
    ASSUME NEW s \in Seq(Blk), NEW start, NEW end, Holding(s, start, end) # 0
    PROVE  LET b == s[Holding(s, start, end)]
           IN  /\ Holding(s, start, end) \in 1 .. Len(s)
               /\ b.at <= start /\ end <= b.at + b.size
<1>. DEFINE I == {i \in DOMAIN s : s[i].at <= start /\ end <= s[i].at + s[i].size}
<1>1. Holding(s, start, end) = First(I) /\ I # {}
  BY Zenon DEF Holding, First
<1>2. I \in SUBSET Nat /\ DOMAIN s = 1 .. Len(s)
  OBVIOUS
<1>3. First(I) \in I
  BY <1>1, <1>2, FirstIndex, Zenon
<1>. QED BY <1>1, <1>2, <1>3, Zenon

\* The items of two lists one after the other.
LEMMA ConcatFacts ==
    ASSUME NEW u \in Seq(Blk), NEW v \in Seq(Blk)
    PROVE  /\ u \o v \in Seq(Blk) /\ Len(u \o v) = Len(u) + Len(v)
           /\ \A k \in 1 .. Len(u) : (u \o v)[k] = u[k]
           /\ \A k \in 1 .. Len(u) + Len(v) : k > Len(u) => (u \o v)[k] = v[k - Len(u)]
<1>1. u \o v \in Seq(Blk) /\ Len(u \o v) = Len(u) + Len(v)
  OBVIOUS
<1>2. \A k \in 1 .. Len(u) : (u \o v)[k] = u[k]
  OBVIOUS
<1>3. ASSUME NEW k \in 1 .. Len(u) + Len(v), k > Len(u) PROVE (u \o v)[k] = v[k - Len(u)]
  <2>1. \A l \in 1 .. Len(v) : (u \o v)[Len(u) + l] = v[l]
    OBVIOUS
  <2>2. k - Len(u) \in 1 .. Len(v) /\ Len(u) + (k - Len(u)) = k
    BY <1>3
  <2>. QED BY <2>1, <2>2, Zenon
<1>. QED BY <1>1, <1>2, <1>3, Zenon

\* Where the blocks of a spliced list come from.
LEMMA SpliceFacts ==
    ASSUME NEW s \in Seq(Blk), NEW i \in 1 .. Len(s), NEW t \in Seq(Blk)
    PROVE  /\ Splice(s, i, t) \in Seq(Blk) /\ Len(Splice(s, i, t)) = Len(s) - 1 + Len(t)
           /\ \A k \in 1 .. i - 1 : Splice(s, i, t)[k] = s[k]
           /\ \A k \in i .. i + Len(t) - 1 : Splice(s, i, t)[k] = t[k - i + 1]
           /\ \A k \in i + Len(t) .. Len(s) - 1 + Len(t) : Splice(s, i, t)[k] = s[k - Len(t) + 1]
<1>. DEFINE a == SubSeq(s, 1, i - 1)
            b == SubSeq(s, i + 1, Len(s))
            n == Len(s)
            m == Len(t)
<1>0. n \in Nat /\ m \in Nat /\ i \in 1 .. n
  OBVIOUS
<1>1. a \in Seq(Blk) /\ Len(a) = i - 1 /\ \A k \in 1 .. i - 1 : a[k] = s[k]
  OBVIOUS
<1>2. b \in Seq(Blk) /\ Len(b) = n - i /\ \A k \in 1 .. n - i : b[k] = s[i + k]
  OBVIOUS
<1>3. Splice(s, i, t) = (a \o t) \o b
  BY Zenon DEF Splice
<1>. HIDE DEF a, b
<1>. DEFINE c == a \o t
<1>4. /\ c \in Seq(Blk) /\ Len(c) = (i - 1) + m
      /\ \A k \in 1 .. i - 1 : c[k] = a[k]
      /\ \A k \in 1 .. (i - 1) + m : k > i - 1 => c[k] = t[k - (i - 1)]
  <2>1. /\ c \in Seq(Blk) /\ Len(c) = Len(a) + Len(t)
        /\ \A k \in 1 .. Len(a) : c[k] = a[k]
        /\ \A k \in 1 .. Len(a) + Len(t) : k > Len(a) => c[k] = t[k - Len(a)]
    BY <1>1, ConcatFacts, Zenon
  <2>. QED BY <1>1, <2>1, Zenon
<1>. HIDE DEF c, n, m
<1>. DEFINE d == c \o b
            l == (i - 1) + m
<1>5. l \in Nat /\ l = i - 1 + m
  BY <1>0
<1>6. /\ d \in Seq(Blk) /\ Len(d) = l + (n - i)
      /\ \A k \in 1 .. l : d[k] = c[k]
      /\ \A k \in 1 .. l + (n - i) : k > l => d[k] = b[k - l]
  <2>1. /\ d \in Seq(Blk) /\ Len(d) = Len(c) + Len(b)
        /\ \A k \in 1 .. Len(c) : d[k] = c[k]
        /\ \A k \in 1 .. Len(c) + Len(b) : k > Len(c) => d[k] = b[k - Len(c)]
    BY <1>2, <1>4, ConcatFacts, Zenon
  <2>. QED BY <1>2, <1>4, <2>1, Zenon
<1>. HIDE DEF d, l
<1>7. ASSUME NEW k \in 1 .. i - 1 PROVE d[k] = s[k]
  <2>1. k \in 1 .. l
    BY <1>0, <1>5
  <2>. QED BY <1>1, <1>4, <1>6, <2>1, Zenon
<1>8. ASSUME NEW k \in i .. i + m - 1 PROVE d[k] = t[k - i + 1]
  <2>1. k \in 1 .. l /\ k \in 1 .. (i - 1) + m /\ k > i - 1 /\ k - (i - 1) = k - i + 1
    BY <1>0, <1>5
  <2>. QED BY <1>4, <1>6, <2>1, Zenon
<1>9. ASSUME NEW k \in i + m .. n - 1 + m PROVE d[k] = s[k - m + 1]
  <2>1. k \in 1 .. l + (n - i) /\ k > l /\ k - l \in 1 .. n - i /\ i + (k - l) = k - m + 1
    BY <1>0, <1>5
  <2>. QED BY <1>2, <1>6, <2>1, Zenon
<1>10. l + (n - i) = n - 1 + m
  BY <1>0, <1>5
<1>11. Splice(s, i, t) = d
  BY <1>3, Zenon DEF c, d
<1>. QED BY <1>0, <1>6, <1>7, <1>8, <1>9, <1>10, <1>11, Zenon DEF n, m

\* The pages of a list, by the index of their block.
LEMMA PagesByIndex ==
    ASSUME NEW s \in Seq(Blk)
    PROVE  /\ \A x : x \in Pages(s) <=> \E k \in 1 .. Len(s) : x \in BlockPages(s[k])
           /\ DOMAIN s = 1 .. Len(s)
BY DEF Pages, Range

(* Replacing a block by blocks that share its pages out keeps the list     *)
(* disjoint and changes no other page.                                     *)
LEMMA SplicePages ==
    ASSUME NEW s \in Seq(Blk), Disjoint(s), NEW i \in 1 .. Len(s),
           NEW t \in Seq(Blk), Disjoint(t), Pages(t) \subseteq BlockPages(s[i])
    PROVE  /\ Splice(s, i, t) \in Seq(Blk) /\ Disjoint(Splice(s, i, t))
           /\ Pages(Splice(s, i, t)) = (Pages(s) \ BlockPages(s[i])) \cup Pages(t)
<1>. DEFINE r == Splice(s, i, t)
            n == Len(s)
            m == Len(t)
<1>1. n \in Nat /\ m \in Nat /\ i \in 1 .. n
  OBVIOUS
<1>2. /\ r \in Seq(Blk) /\ Len(r) = n - 1 + m
      /\ \A k \in 1 .. i - 1 : r[k] = s[k]
      /\ \A k \in i .. i + m - 1 : r[k] = t[k - i + 1]
      /\ \A k \in i + m .. n - 1 + m : r[k] = s[k - m + 1]
  BY SpliceFacts
<1>. DEFINE S(x, k) == x \in BlockPages(s[k])
            T(x, k) == x \in BlockPages(t[k])
            R(x, k) == x \in BlockPages(r[k])
<1>3. \A x : \A k, l \in 1 .. n : S(x, k) /\ S(x, l) => k = l
  BY PagesByIndex, Zenon DEF Disjoint
<1>4. \A x : \A k, l \in 1 .. m : T(x, k) /\ T(x, l) => k = l
  BY PagesByIndex DEF Disjoint
<1>5. \A x : \A k \in 1 .. m : T(x, k) => S(x, i)
  BY PagesByIndex, Zenon
<1>6. /\ \A x : x \in Pages(s) <=> \E k \in 1 .. n : S(x, k)
      /\ \A x : x \in Pages(t) <=> \E k \in 1 .. m : T(x, k)
      /\ \A x : x \in Pages(r) <=> \E k \in 1 .. n - 1 + m : R(x, k)
  BY <1>2, PagesByIndex, Zenon
<1>7. /\ \A x : \A k \in 1 .. i - 1 : R(x, k) <=> S(x, k)
      /\ \A x : \A k \in i .. i + m - 1 : R(x, k) <=> T(x, k - i + 1)
      /\ \A x : \A k \in i + m .. n - 1 + m : R(x, k) <=> S(x, k - m + 1)
  BY <1>2, Zenon
<1>8. DOMAIN r = 1 .. n - 1 + m
  BY <1>2
<1>9. Disjoint(r) <=> \A x : \A k, l \in 1 .. n - 1 + m : R(x, k) /\ R(x, l) => k = l
  BY <1>8, Zenon DEF Disjoint
<1>. USE <1>1
<1>. HIDE DEF r, n, m, S, T, R
<1>10. \A x : \A k \in 1 .. n - 1 + m : R(x, k) =>
          \/ k < i /\ k \in 1 .. n /\ S(x, k)
          \/ k >= i /\ k < i + m /\ k - i + 1 \in 1 .. m /\ T(x, k - i + 1)
          \/ k >= i + m /\ k - m + 1 \in 1 .. n /\ k - m + 1 > i /\ S(x, k - m + 1)
  BY <1>7
<1>11. ASSUME NEW x, NEW k \in 1 .. n - 1 + m, NEW l \in 1 .. n - 1 + m, R(x, k), R(x, l)
       PROVE  k = l
  <2>1. CASE k < i /\ k \in 1 .. n /\ S(x, k)
    BY <1>3, <1>5, <1>10, <1>11, <2>1
  <2>2. CASE k >= i /\ k < i + m /\ k - i + 1 \in 1 .. m /\ T(x, k - i + 1)
    BY <1>3, <1>4, <1>5, <1>10, <1>11, <2>2
  <2>3. CASE k >= i + m /\ k - m + 1 \in 1 .. n /\ k - m + 1 > i /\ S(x, k - m + 1)
    BY <1>3, <1>5, <1>10, <1>11, <2>3
  <2>. QED BY <1>10, <1>11, <2>1, <2>2, <2>3, Zenon
<1>12. ASSUME NEW x \in Pages(r) PROVE (x \in Pages(s) /\ ~S(x, i)) \/ x \in Pages(t)
  <2>1. PICK k \in 1 .. n - 1 + m : R(x, k)
    BY <1>6, Zenon
  <2>2. CASE k < i /\ k \in 1 .. n /\ S(x, k)
    BY <1>3, <1>6, <2>2
  <2>3. CASE k - i + 1 \in 1 .. m /\ T(x, k - i + 1)
    BY <1>6, <2>3, Zenon
  <2>4. CASE k - m + 1 \in 1 .. n /\ k - m + 1 > i /\ S(x, k - m + 1)
    BY <1>3, <1>6, <2>4
  <2>. QED BY <1>10, <2>1, <2>2, <2>3, <2>4, Zenon
<1>13. ASSUME NEW x \in Pages(s), ~S(x, i) PROVE x \in Pages(r)
  <2>1. PICK k \in 1 .. n : S(x, k)
    BY <1>6, Zenon
  <2>2. CASE k < i
    <3>1. k \in 1 .. i - 1 /\ k \in 1 .. n - 1 + m
      BY <2>2
    <3>. QED BY <1>6, <1>7, <2>1, <3>1, Zenon
  <2>3. CASE k > i
    <3>1. /\ k + m - 1 \in i + m .. n - 1 + m /\ k + m - 1 \in 1 .. n - 1 + m
          /\ (k + m - 1) - m + 1 = k
      BY <2>3
    <3>2. R(x, k + m - 1)
      BY <1>7, <2>1, <3>1
    <3>. QED BY <1>6, <3>1, <3>2, Zenon
  <2>. QED BY <1>13, <2>1, <2>2, <2>3
<1>14. ASSUME NEW x \in Pages(t) PROVE x \in Pages(r)
  <2>1. PICK k \in 1 .. m : T(x, k)
    BY <1>6, Zenon
  <2>2. /\ k + i - 1 \in i .. i + m - 1 /\ k + i - 1 \in 1 .. n - 1 + m
        /\ (k + i - 1) - i + 1 = k
    OBVIOUS
  <2>3. R(x, k + i - 1)
    BY <1>7, <2>1, <2>2
  <2>. QED BY <1>6, <2>2, <2>3, Zenon
<1>15. ASSUME NEW x PROVE x \in Pages(r) <=> x \in (Pages(s) \ BlockPages(s[i])) \cup Pages(t)
  <2>1. S(x, i) <=> x \in BlockPages(s[i])
    BY Zenon DEF S
  <2>2. x \in Pages(t) => S(x, i)
    BY <1>5, <1>6, Zenon
  <2>. QED BY <1>12, <1>13, <1>14, <2>1, <2>2, Zenon
<1>16. Disjoint(r)
  BY <1>9, <1>11, Zenon
<1>. QED BY <1>2, <1>15, <1>16, Zenon DEF r

\* One block after another, each left out when it is empty.
Beside(at, size, at2, size2) == Block(at, size) \o Block(at2, size2)

\* They have the pages of both, and no page twice.
LEMMA TwoBlocks ==
    ASSUME NEW at \in Nat, NEW size \in Nat, NEW at2 \in Nat, NEW size2 \in Nat,
           at + size <= at2
    PROVE  /\ Beside(at, size, at2, size2) \in Seq(Blk)
           /\ Disjoint(Beside(at, size, at2, size2))
           /\ Pages(Beside(at, size, at2, size2)) = Span(at, size) \cup Span(at2, size2)
<1>. USE DEF Beside
<1>. DEFINE b == [at |-> at, size |-> size]
            c == [at |-> at2, size |-> size2]
            t == Block(at, size) \o Block(at2, size2)
<1>1. BlockPages(b) = at .. at + size - 1 /\ BlockPages(c) = at2 .. at2 + size2 - 1
  BY Zenon DEF BlockPages, Span
<1>2. CASE size = 0 /\ size2 = 0
  <2>1. t = << >>
    BY <1>2 DEF Block
  <2>2. Span(at, size) = {} /\ Span(at2, size2) = {}
    BY <1>2 DEF Span
  <2>. HIDE DEF t
  <2>3. t \in Seq(Blk) /\ Len(t) = 0 /\ DOMAIN t = {} /\ 1 .. 0 = {}
    BY <2>1
  <2>4. Disjoint(t)
    BY <2>3, Zenon DEF Disjoint
  <2>5. Pages(t) = {}
    BY <2>3, PagesByIndex, Zenon
  <2>. QED BY <2>2, <2>3, <2>4, <2>5, Zenon DEF t
<1>3. CASE size = 0 /\ size2 # 0
  <2>1. t = <<c>> /\ c \in Blk
    BY <1>3 DEF Block, Blk
  <2>2. Span(at, size) = {} /\ Span(at2, size2) = BlockPages(c)
    BY <1>1, <1>3 DEF Span
  <2>. HIDE DEF c, t
  <2>3. t \in Seq(Blk) /\ Len(t) = 1 /\ t[1] = c /\ DOMAIN t = 1 .. 1 /\ 1 .. 1 = {1}
    BY <2>1
  <2>4. Disjoint(t)
    BY <2>3 DEF Disjoint
  <2>5. Pages(t) = BlockPages(c)
    BY <2>3, PagesByIndex, Zenon
  <2>. QED BY <2>2, <2>3, <2>4, <2>5, Zenon DEF t
<1>4. CASE size # 0 /\ size2 = 0
  <2>1. t = <<b>> /\ b \in Blk
    BY <1>4 DEF Block, Blk
  <2>2. Span(at2, size2) = {} /\ Span(at, size) = BlockPages(b)
    BY <1>1, <1>4 DEF Span
  <2>. HIDE DEF b, t
  <2>3. t \in Seq(Blk) /\ Len(t) = 1 /\ t[1] = b /\ DOMAIN t = 1 .. 1 /\ 1 .. 1 = {1}
    BY <2>1
  <2>4. Disjoint(t)
    BY <2>3 DEF Disjoint
  <2>5. Pages(t) = BlockPages(b)
    BY <2>3, PagesByIndex, Zenon
  <2>. QED BY <2>2, <2>3, <2>4, <2>5, Zenon DEF t
<1>5. CASE size # 0 /\ size2 # 0
  <2>1. t = <<b>> \o <<c>> /\ b \in Blk /\ c \in Blk
    BY <1>5, Zenon DEF Block, Blk
  <2>2. Span(at2, size2) = BlockPages(c) /\ Span(at, size) = BlockPages(b)
    BY <1>1, Zenon DEF Span
  <2>3. BlockPages(b) \cap BlockPages(c) = {}
    BY <1>1
  <2>. HIDE DEF b, c, t
  <2>4. /\ t \in Seq(Blk) /\ Len(t) = 2 /\ t[1] = b /\ t[2] = c
        /\ DOMAIN t = 1 .. 2 /\ 1 .. 2 = {1, 2}
    BY <2>1
  <2>5. Disjoint(t)
    BY <2>3, <2>4 DEF Disjoint
  <2>6. Pages(t) = BlockPages(b) \cup BlockPages(c)
    BY <2>4, PagesByIndex, Zenon
  <2>. QED BY <2>2, <2>4, <2>5, <2>6, Zenon DEF t
<1>. QED BY <1>2, <1>3, <1>4, <1>5, Zenon

\* A block of a list, and the list's pages.
LEMMA BlockFacts ==
    ASSUME NEW s \in Seq(Blk), NEW i \in 1 .. Len(s)
    PROVE  /\ s[i].at \in Nat /\ s[i].size \in Nat \ {0}
           /\ BlockPages(s[i]) = Span(s[i].at, s[i].size)
           /\ BlockPages(s[i]) \subseteq Pages(s)
<1>1. s[i] \in Blk
  OBVIOUS
<1>2. BlockPages(s[i]) \subseteq Pages(s)
  BY PagesByIndex, Zenon
<1>. QED BY <1>1, <1>2, Zenon DEF Blk, BlockPages

\* An allocation takes its pages off the list, and no others.
LEMMA CarveFacts ==
    ASSUME NEW s \in Seq(Blk), Disjoint(s), NEW i \in 1 .. Len(s),
           NEW size \in Nat, NEW order \in Nat, s[i].size >= size + Gap(s[i], order)
    PROVE  LET got == Span(AlignTo(s[i].at, order), size)
           IN  /\ AlignTo(s[i].at, order) \in Nat
               /\ got \subseteq Pages(s)
               /\ Carve(s, i, size, order) \in Seq(Blk)
               /\ Disjoint(Carve(s, i, size, order))
               /\ Pages(Carve(s, i, size, order)) = Pages(s) \ got
<1>. DEFINE at == s[i].at
            n == s[i].size
            g == Gap(s[i], order)
            got == Span(AlignTo(at, order), size)
            at2 == at + g + size
            n2 == n - g - size
            t == Block(at, g) \o Block(at2, n2)
<1>1. /\ at \in Nat /\ n \in Nat \ {0} /\ BlockPages(s[i]) = Span(at, n)
      /\ BlockPages(s[i]) \subseteq Pages(s)
  BY BlockFacts, Zenon
<1>2. AlignTo(at, order) \in Nat /\ g \in Nat /\ AlignTo(at, order) = at + g /\ n >= size + g
  <2>1. AlignTo(at, order) \in Nat /\ AlignTo(at, order) >= at
    BY <1>1, AlignToFacts, Zenon
  <2>2. g = AlignTo(at, order) - at
    BY Zenon DEF Gap
  <2>3. n >= size + g
    BY Zenon
  <2>. HIDE DEF at, n, g
  <2>. QED BY <1>1, <2>1, <2>2, <2>3
<1>3. Carve(s, i, size, order) = Splice(s, i, t)
  BY Zenon DEF Carve
<1>4. got = Span(at + g, size)
  BY <1>2, Zenon
<1>. HIDE DEF at, n, g, got
<1>5. at2 \in Nat /\ n2 \in Nat /\ at + g <= at2 /\ at2 = at + g + size /\ n2 = n - g - size
  BY <1>1, <1>2
<1>. HIDE DEF at2, n2
<1>6. /\ t \in Seq(Blk) /\ Disjoint(t)
      /\ Pages(t) = Span(at, g) \cup Span(at2, n2)
  <2>1. at \in Nat /\ g \in Nat /\ at2 \in Nat /\ n2 \in Nat /\ at + g <= at2
    BY <1>1, <1>2, <1>5, Zenon
  <2>2. /\ Beside(at, g, at2, n2) \in Seq(Blk) /\ Disjoint(Beside(at, g, at2, n2))
        /\ Pages(Beside(at, g, at2, n2)) = Span(at, g) \cup Span(at2, n2)
    <3>. HIDE DEF Beside, t
    <3>. QED BY <2>1, TwoBlocks
  <2>. QED BY <2>2, Zenon DEF Beside
<1>. HIDE DEF t
<1>7. Pages(t) \subseteq Span(at, n) /\ got \subseteq Span(at, n)
      /\ Pages(t) = Span(at, n) \ got
  <2>0. at \in Nat /\ n \in Nat /\ g \in Nat /\ at2 = at + g + size
        /\ n2 = n - g - size /\ n >= size + g
    BY <1>1, <1>2, <1>5, Zenon
  <2>1. Span(at + g, size) \subseteq Span(at, n)
    BY <2>0 DEF Span
  <2>2. Span(at, g) \cup Span(at2, n2) = Span(at, n) \ Span(at + g, size)
    BY <2>0 DEF Span
  <2>. QED BY <1>4, <1>6, <2>1, <2>2, Zenon
<1>8. /\ Splice(s, i, t) \in Seq(Blk) /\ Disjoint(Splice(s, i, t))
      /\ Pages(Splice(s, i, t)) = (Pages(s) \ BlockPages(s[i])) \cup Pages(t)
  BY <1>1, <1>6, <1>7, SplicePages
<1>9. Pages(Splice(s, i, t)) = Pages(s) \ got
  BY <1>1, <1>7, <1>8, Zenon
<1>. QED BY <1>1, <1>2, <1>3, <1>7, <1>8, <1>9, Zenon DEF at, got

(* A reservation takes the range, and what is behind it in the block that  *)
(* holds it, off the list.                                                 *)
LEMMA CutOutFacts ==
    ASSUME NEW s \in Seq(Blk), Disjoint(s), NEW i \in 1 .. Len(s),
           NEW start \in Nat, NEW end \in Nat, start <= end,
           s[i].at <= start, end <= s[i].at + s[i].size
    PROVE  /\ start .. end - 1 \subseteq Pages(s)
           /\ CutOut(s, i, start, end) \in Seq(Blk)
           /\ Disjoint(CutOut(s, i, start, end))
           /\ Pages(CutOut(s, i, start, end))
                  = Pages(s) \ (start .. s[i].at + s[i].size - 1)
<1>. DEFINE at == s[i].at
            n == s[i].size
            t == Block(at, start - at) \o Block(start, 0)
<1>1. /\ at \in Nat /\ n \in Nat \ {0} /\ BlockPages(s[i]) = Span(at, n)
      /\ BlockPages(s[i]) \subseteq Pages(s)
  BY BlockFacts, Zenon
<1>2. CutOut(s, i, start, end) = Splice(s, i, t)
  <2>1. ~(at + n < end)
    BY <1>1
  <2>2. Block(start, 0) = << >>
    BY Zenon DEF Block
  <2>. QED BY <2>1, <2>2, Zenon DEF CutOut
<1>3. at <= start /\ end <= at + n
  BY Zenon
<1>. HIDE DEF at, n
<1>4. start - at \in Nat /\ at + (start - at) <= start /\ at + (start - at) = start
  BY <1>1, <1>3
<1>5. /\ t \in Seq(Blk) /\ Disjoint(t)
      /\ Pages(t) = Span(at, start - at) \cup Span(start, 0)
  <2>. DEFINE d == start - at
              z == 0
  <2>1. at \in Nat /\ start \in Nat /\ d \in Nat /\ z \in Nat /\ at + d <= start
    BY <1>1, <1>4, Zenon
  <2>. HIDE DEF d, z
  <2>2. /\ Beside(at, d, start, z) \in Seq(Blk) /\ Disjoint(Beside(at, d, start, z))
        /\ Pages(Beside(at, d, start, z)) = Span(at, d) \cup Span(start, z)
    BY <2>1, TwoBlocks
  <2>. QED BY <2>2, Zenon DEF Beside, d, z
<1>. HIDE DEF t
<1>6. /\ Pages(t) \subseteq Span(at, n)
      /\ Pages(t) = Span(at, n) \ (start .. at + n - 1)
      /\ start .. at + n - 1 \subseteq Span(at, n)
      /\ start .. end - 1 \subseteq Span(at, n)
  BY <1>1, <1>3, <1>4, <1>5 DEF Span
<1>7. /\ Splice(s, i, t) \in Seq(Blk) /\ Disjoint(Splice(s, i, t))
      /\ Pages(Splice(s, i, t)) = (Pages(s) \ BlockPages(s[i])) \cup Pages(t)
  BY <1>1, <1>5, <1>6, SplicePages
<1>8. Pages(Splice(s, i, t)) = Pages(s) \ (start .. at + n - 1)
  BY <1>1, <1>6, <1>7, Zenon
<1>. QED BY <1>1, <1>2, <1>6, <1>7, <1>8, Zenon DEF at, n

(* Pages that are given back are on the list again.  Merging them with the *)
(* block that was first changes no other block.                            *)
LEMMA GiveBackFacts ==
    ASSUME NEW s \in Seq(Blk), Disjoint(s), NEW at \in Nat, NEW size \in Nat \ {0},
           Span(at, size) \cap Pages(s) = {}
    PROVE  /\ GiveBack(s, at, size) \in Seq(Blk)
           /\ Disjoint(GiveBack(s, at, size))
           /\ Pages(GiveBack(s, at, size)) = Pages(s) \cup Span(at, size)
<1>. DEFINE b == [at |-> at, size |-> size]
            r == <<b>> \o s
<1>1. CASE ~(s # <<>> /\ at + size = s[1].at)
  <2>1. b \in Blk /\ BlockPages(b) = Span(at, size)
    BY Zenon DEF Blk, BlockPages
  <2>2. GiveBack(s, at, size) = r
    BY <1>1, Zenon DEF GiveBack, Block
  <2>. HIDE DEF b
  <2>3. /\ r \in Seq(Blk) /\ Len(r) = Len(s) + 1 /\ r[1] = b
        /\ \A k \in 1 .. Len(s) + 1 : k # 1 => r[k] = s[k - 1] /\ k - 1 \in 1 .. Len(s)
    BY <2>1
  <2>. HIDE DEF r
  <2>. DEFINE S(x, k) == x \in BlockPages(s[k])
              R(x, k) == x \in BlockPages(r[k])
              n == Len(s)
  <2>4. /\ \A x : \A k, l \in 1 .. n : S(x, k) /\ S(x, l) => k = l
        /\ \A x : x \in Pages(s) <=> \E k \in 1 .. n : S(x, k)
        /\ \A x : x \in Pages(r) <=> \E k \in 1 .. n + 1 : R(x, k)
    BY <2>3, PagesByIndex, Zenon DEF Disjoint
  <2>5. DOMAIN r = 1 .. n + 1
    BY <2>3
  <2>6. Disjoint(r) <=> \A x : \A k, l \in 1 .. n + 1 : R(x, k) /\ R(x, l) => k = l
    BY <2>5, Zenon DEF Disjoint
  <2>7. /\ \A x : R(x, 1) <=> x \in Span(at, size)
        /\ \A x : \A k \in 1 .. n + 1 :
              k # 1 => k - 1 \in 1 .. n /\ (R(x, k) <=> S(x, k - 1))
        /\ n \in Nat
    BY <2>1, <2>3
  <2>. HIDE DEF S, R, n
  <2>8. Disjoint(r)
    BY <2>4, <2>6, <2>7
  <2>9. ASSUME NEW x \in Pages(s) PROVE x \in Pages(r)
    <3>1. PICK k \in 1 .. n : S(x, k)
      BY <2>4, Zenon
    <3>2. k + 1 \in 1 .. n + 1 /\ k + 1 # 1 /\ (k + 1) - 1 = k
      BY <2>7
    <3>3. R(x, k + 1)
      BY <2>7, <3>1, <3>2, Zenon
    <3>. QED BY <2>4, <3>2, <3>3, Zenon
  <2>10. \A x : x \in Pages(r) <=> x \in Pages(s) \/ x \in Span(at, size)
    BY <2>4, <2>7, <2>9
  <2>. QED BY <2>2, <2>3, <2>8, <2>10, Zenon
<1>2. CASE s # <<>> /\ at + size = s[1].at
  <2>. DEFINE c == [at |-> at, size |-> size + s[1].size]
              d == <<c>> \o Tail(s)
  <2>1. /\ s[1].at \in Nat /\ s[1].size \in Nat \ {0} /\ 1 \in 1 .. Len(s)
        /\ BlockPages(s[1]) = Span(s[1].at, s[1].size)
    BY <1>2, BlockFacts
  <2>2. c \in Blk /\ BlockPages(c) = BlockPages(s[1]) \cup Span(at, size)
    <3>. DEFINE a1 == s[1].at
                n1 == s[1].size
    <3>1. BlockPages(c) = Span(at, size + n1) /\ BlockPages(s[1]) = Span(a1, n1)
      BY <2>1, Zenon DEF BlockPages
    <3>2. c \in Blk /\ at + size = a1 /\ n1 \in Nat \ {0}
      BY <1>2, <2>1 DEF Blk
    <3>. HIDE DEF a1, n1, c
    <3>3. Span(at, size + n1) = Span(a1, n1) \cup Span(at, size)
      BY <3>2 DEF Span
    <3>. QED BY <3>1, <3>2, <3>3, Zenon
  <2>3. GiveBack(s, at, size) = d
    BY <1>2, Zenon DEF GiveBack
  <2>. HIDE DEF c
  <2>4. /\ d \in Seq(Blk) /\ Len(d) = Len(s) /\ d[1] = c
        /\ \A k \in 1 .. Len(s) : k # 1 => d[k] = s[k]
    BY <1>2, <2>2
  <2>. HIDE DEF d
  <2>. DEFINE S(x, k) == x \in BlockPages(s[k])
              R(x, k) == x \in BlockPages(d[k])
              n == Len(s)
  <2>5. /\ \A x : \A k, l \in 1 .. n : S(x, k) /\ S(x, l) => k = l
        /\ \A x : x \in Pages(s) <=> \E k \in 1 .. n : S(x, k)
        /\ \A x : x \in Pages(d) <=> \E k \in 1 .. n : R(x, k)
    BY <2>4, PagesByIndex, Zenon DEF Disjoint
  <2>6. DOMAIN d = 1 .. n
    BY <2>4
  <2>7. Disjoint(d) <=> \A x : \A k, l \in 1 .. n : R(x, k) /\ R(x, l) => k = l
    BY <2>6, Zenon DEF Disjoint
  <2>8. /\ \A x : R(x, 1) <=> S(x, 1) \/ x \in Span(at, size)
        /\ \A x : \A k \in 1 .. n : k # 1 => (R(x, k) <=> S(x, k))
        /\ 1 \in 1 .. n
    BY <2>1, <2>2, <2>4, Zenon
  <2>. HIDE DEF S, R, n
  <2>9. Disjoint(d)
    BY <2>5, <2>7, <2>8
  <2>10. \A x : x \in Pages(d) <=> x \in Pages(s) \/ x \in Span(at, size)
    BY <2>5, <2>8, Zenon
  <2>. QED BY <2>3, <2>4, <2>9, <2>10, Zenon
<1>. QED BY <1>1, <1>2, Zenon

-----------------------------------------------------------------------------
(* One pool: a free list s, the pages o that callers hold, the reserved    *)
(* pages r, and used_size u.                                               *)

\* The pool has handed no page out twice, and counts what it handed out.
PoolOK(s, o, r, u) ==
    /\ s \in Seq(Blk) /\ Disjoint(s)
    /\ Pages(s) \in SUBSET Nat /\ IsFiniteSet(Pages(s))
    /\ o \in SUBSET Nat /\ IsFiniteSet(o)
    /\ r \in SUBSET Nat /\ IsFiniteSet(r)
    /\ Pages(s) \cap (o \cup r) = {} /\ o \cap r = {}
    /\ u = Cardinality(o) + Cardinality(r)

\* Putting T into a finite set.
LEMMA FiniteAdd ==
    ASSUME NEW S, IsFiniteSet(S), NEW T, IsFiniteSet(T), S \cap T = {}
    PROVE  IsFiniteSet(S \cup T) /\ Cardinality(S \cup T) = Cardinality(S) + Cardinality(T)
<1>1. Cardinality(S) \in Nat /\ Cardinality(T) \in Nat /\ Cardinality(S \cap T) = 0
  BY FS_CardinalityType, FS_EmptySet, Zenon
<1>2. /\ IsFiniteSet(S \cup T)
      /\ Cardinality(S \cup T) = Cardinality(S) + Cardinality(T) - Cardinality(S \cap T)
  BY FS_Union, Zenon
<1>. QED BY <1>1, <1>2

\* Taking T out of a finite set.
LEMMA FiniteRemove ==
    ASSUME NEW S, IsFiniteSet(S), NEW T, T \subseteq S
    PROVE  /\ IsFiniteSet(T) /\ IsFiniteSet(S \ T)
           /\ Cardinality(S) \in Nat /\ Cardinality(T) \in Nat /\ Cardinality(S \ T) \in Nat
           /\ Cardinality(S \ T) = Cardinality(S) - Cardinality(T)
<1>1. IsFiniteSet(T) /\ IsFiniteSet(S \ T)
  BY FS_Subset, FS_Difference, Zenon
<1>2. S \cap T = T
  BY Zenon
<1>3. Cardinality(S \ T) = Cardinality(S) - Cardinality(T)
  BY <1>2, FS_Difference, Zenon
<1>. QED BY <1>1, <1>3, FS_CardinalityType, Zenon

\* bt_page_pool_alloc.
LEMMA PoolAlloc ==
    ASSUME NEW s, NEW o, NEW r, NEW u, PoolOK(s, o, r, u),
           NEW i \in 1 .. Len(s), NEW size \in Nat, NEW order \in Nat,
           s[i].size >= size + Gap(s[i], order)
    PROVE  /\ PoolOK(Carve(s, i, size, order),
                     o \cup Span(AlignTo(s[i].at, order), size), r, u + size)
           /\ Span(AlignTo(s[i].at, order), size) \subseteq Pages(s)
           /\ Pages(Carve(s, i, size, order)) = Pages(s) \ Span(AlignTo(s[i].at, order), size)
           /\ Cardinality(Pages(Carve(s, i, size, order))) = Cardinality(Pages(s)) - size
           /\ Cardinality(Pages(s)) \in Nat
<1>. DEFINE c == Carve(s, i, size, order)
            got == Span(AlignTo(s[i].at, order), size)
<1>0. s \in Seq(Blk) /\ Disjoint(s)
  BY Zenon DEF PoolOK
<1>1. /\ AlignTo(s[i].at, order) \in Nat /\ got \subseteq Pages(s)
      /\ c \in Seq(Blk) /\ Disjoint(c) /\ Pages(c) = Pages(s) \ got
  BY <1>0, CarveFacts
<1>2. got \in SUBSET Nat /\ IsFiniteSet(got) /\ Cardinality(got) = size
  BY <1>1, SpanFacts, Zenon
<1>. HIDE DEF c, got
<1>3. /\ IsFiniteSet(Pages(c)) /\ Cardinality(Pages(s)) \in Nat
      /\ Cardinality(Pages(c)) = Cardinality(Pages(s)) - size
  BY <1>1, <1>2, FiniteRemove, Zenon DEF PoolOK
<1>4. o \cap got = {} /\ r \cap got = {}
  BY <1>1, Zenon DEF PoolOK
<1>5. IsFiniteSet(o \cup got) /\ Cardinality(o \cup got) = Cardinality(o) + size
  BY <1>2, <1>4, FiniteAdd, Zenon DEF PoolOK
<1>6. Cardinality(o) \in Nat /\ Cardinality(r) \in Nat
  BY FS_CardinalityType, Zenon DEF PoolOK
<1>7. u + size = Cardinality(o \cup got) + Cardinality(r)
  BY <1>5, <1>6 DEF PoolOK
<1>8. Pages(c) \cap ((o \cup got) \cup r) = {} /\ (o \cup got) \cap r = {}
  BY <1>1, <1>4, Zenon DEF PoolOK
<1>9. PoolOK(c, o \cup got, r, u + size)
  BY <1>1, <1>2, <1>3, <1>5, <1>7, <1>8, Zenon DEF PoolOK
<1>. QED BY <1>1, <1>3, <1>9, Zenon DEF c, got

\* bt_page_pool_free, of pages that callers hold.
LEMMA PoolFree ==
    ASSUME NEW s, NEW o, NEW r, NEW u, PoolOK(s, o, r, u),
           NEW at \in Nat, NEW size \in Nat \ {0}, Span(at, size) \subseteq o
    PROVE  /\ PoolOK(GiveBack(s, at, size), o \ Span(at, size), r, u - size)
           /\ Pages(GiveBack(s, at, size)) = Pages(s) \cup Span(at, size)
           /\ Cardinality(Pages(GiveBack(s, at, size))) = Cardinality(Pages(s)) + size
           /\ Cardinality(Pages(s)) \in Nat
<1>. DEFINE c == GiveBack(s, at, size)
            got == Span(at, size)
<1>0. s \in Seq(Blk) /\ Disjoint(s) /\ got \cap Pages(s) = {}
  BY Zenon DEF PoolOK
<1>1. c \in Seq(Blk) /\ Disjoint(c) /\ Pages(c) = Pages(s) \cup got
  BY <1>0, GiveBackFacts, Zenon
<1>2. got \in SUBSET Nat /\ IsFiniteSet(got) /\ Cardinality(got) = size
  BY SpanFacts, Zenon
<1>. HIDE DEF c, got
<1>3. /\ IsFiniteSet(Pages(c)) /\ Cardinality(Pages(c)) = Cardinality(Pages(s)) + size
      /\ Cardinality(Pages(s)) \in Nat
  <2>1. Pages(s) \cap got = {} /\ IsFiniteSet(Pages(s))
    BY <1>0, Zenon DEF PoolOK
  <2>. QED BY <1>1, <1>2, <2>1, FiniteAdd, FS_CardinalityType
<1>4. got \subseteq o
  BY Zenon DEF got
<1>5. IsFiniteSet(o \ got) /\ Cardinality(o \ got) = Cardinality(o) - size /\ Cardinality(o) \in Nat
  BY <1>2, <1>4, FiniteRemove, Zenon DEF PoolOK
<1>6. Cardinality(r) \in Nat
  BY FS_CardinalityType, Zenon DEF PoolOK
<1>7. u - size = Cardinality(o \ got) + Cardinality(r)
  BY <1>5, <1>6 DEF PoolOK
<1>8. Pages(c) \cap ((o \ got) \cup r) = {} /\ (o \ got) \cap r = {}
  BY <1>1, <1>4, Zenon DEF PoolOK
<1>9. PoolOK(c, o \ got, r, u - size)
  BY <1>1, <1>2, <1>3, <1>5, <1>7, <1>8, Zenon DEF PoolOK
<1>. QED BY <1>1, <1>3, <1>9, Zenon DEF c, got

\* bt_page_pool_reserve, of a range that block i holds.
LEMMA PoolReserve ==
    ASSUME NEW s, NEW o, NEW r, NEW u, PoolOK(s, o, r, u),
           NEW i \in 1 .. Len(s), NEW start \in Nat, NEW end \in Nat, start < end,
           s[i].at <= start, end <= s[i].at + s[i].size
    PROVE  /\ PoolOK(CutOut(s, i, start, end), o, r \cup (start .. end - 1), u + (end - start))
           /\ Pages(CutOut(s, i, start, end)) = Pages(s) \ (start .. s[i].at + s[i].size - 1)
           /\ start .. end - 1 \subseteq Pages(s)
           /\ r \cup (start .. end - 1) # r
<1>. DEFINE c == CutOut(s, i, start, end)
            got == start .. end - 1
<1>0. s \in Seq(Blk) /\ Disjoint(s) /\ start <= end
  BY DEF PoolOK
<1>1. /\ got \subseteq Pages(s) /\ c \in Seq(Blk) /\ Disjoint(c)
      /\ Pages(c) = Pages(s) \ (start .. s[i].at + s[i].size - 1)
  BY <1>0, CutOutFacts, Zenon
<1>2. got \in SUBSET Nat /\ IsFiniteSet(got) /\ Cardinality(got) = end - start /\ start \in got
  <2>1. got = Span(start, end - start) /\ end - start \in Nat /\ start \in got
    BY DEF Span
  <2>. QED BY <2>1, SpanFacts, Zenon
<1>3. got \subseteq start .. s[i].at + s[i].size - 1
  BY <1>0, BlockFacts
<1>. HIDE DEF c, got
<1>4. Pages(c) \in SUBSET Pages(s) /\ Pages(c) \cap got = {} /\ IsFiniteSet(Pages(c))
  BY <1>1, <1>3, FS_Subset, Zenon DEF PoolOK
<1>5. r \cap got = {} /\ o \cap got = {}
  BY <1>1, Zenon DEF PoolOK
<1>6. IsFiniteSet(r \cup got) /\ Cardinality(r \cup got) = Cardinality(r) + (end - start)
  BY <1>2, <1>5, FiniteAdd, Zenon DEF PoolOK
<1>7. Cardinality(r) \in Nat /\ Cardinality(o) \in Nat
  BY FS_CardinalityType, Zenon DEF PoolOK
<1>8. u + (end - start) = Cardinality(o) + Cardinality(r \cup got)
  BY <1>6, <1>7 DEF PoolOK
<1>9. Pages(c) \cap (o \cup (r \cup got)) = {} /\ o \cap (r \cup got) = {}
  BY <1>4, <1>5, Zenon DEF PoolOK
<1>10. PoolOK(c, o, r \cup got, u + (end - start))
  BY <1>1, <1>2, <1>4, <1>6, <1>8, <1>9, Zenon DEF PoolOK
<1>. QED BY <1>1, <1>2, <1>5, <1>10, Zenon DEF c, got

\* The range that bt_page_pool_reserve works on is never empty.
LEMMA RangeFacts ==
    ASSUME NEW paddr \in Nat, NEW psize \in Nat \ {0}
    PROVE  /\ Trunc(paddr) \in Nat /\ Align(paddr + psize) \in Nat
           /\ Trunc(paddr) < Align(paddr + psize)
<1>. DEFINE q == paddr \div PAGE_SIZE
            r == ((paddr + psize) + PAGE_SIZE - 1) \div PAGE_SIZE
<1>1. q \in Nat /\ q * PAGE_SIZE <= paddr
  <2>1. /\ q \in Nat /\ paddr % PAGE_SIZE \in 0 .. PAGE_SIZE - 1
        /\ paddr = PAGE_SIZE * q + (paddr % PAGE_SIZE)
    BY PageSizePositive, Division, Zenon
  <2>. HIDE DEF q
  <2>2. q * PAGE_SIZE = PAGE_SIZE * q /\ PAGE_SIZE * q \in Nat
    BY <2>1, PageSizePositive
  <2>. QED BY <2>1, <2>2, PageSizePositive
<1>2. r \in Nat /\ paddr + psize <= r * PAGE_SIZE
  <2>1. paddr + psize \in Nat
    OBVIOUS
  <2>. QED BY <2>1, PageSizePositive, RoundUp, Zenon
<1>3. Trunc(paddr) = q /\ Align(paddr + psize) = r
  BY Zenon DEF Trunc, Align
<1>. HIDE DEF q, r
<1>4. q * PAGE_SIZE < r * PAGE_SIZE
  <2>1. q * PAGE_SIZE \in Nat /\ r * PAGE_SIZE \in Nat
    BY <1>1, <1>2, PageSizePositive
  <2>. QED BY <1>1, <1>2, <2>1
<1>5. q < r
  BY <1>1, <1>2, <1>4, PageSizePositive
<1>. QED BY <1>1, <1>2, <1>3, <1>5, Zenon

(* What boot reserves lies in the only block of the main pool and reaches  *)
(* into the stacks.                                                        *)
LEMMA BootRange ==
    LET psize == (AbsoluteEnd - HeapEnd) \div 4
        ram == <<[at |-> RamStart, size |-> RamPages]>>
    IN  /\ HeapEnd \in Nat /\ psize \in Nat \ {0}
        /\ RamStart <= Trunc(HeapEnd)
        /\ Align(HeapEnd + psize) <= RamStart + RamPages
        /\ Holding(ram, Trunc(HeapEnd), Align(HeapEnd + psize)) = 1
<1>. DEFINE psize == (AbsoluteEnd - HeapEnd) \div 4
            ram == <<[at |-> RamStart, size |-> RamPages]>>
            start == Trunc(HeapEnd)
            end == Align(HeapEnd + psize)
<1>1. RamStart * PAGE_SIZE \in Nat /\ AbsoluteEnd \in Nat
  BY RamType, PageSizePositive DEF AbsoluteEnd
<1>2. /\ HeapEnd \in Nat /\ RamStart * PAGE_SIZE <= HeapEnd /\ HeapEnd + 4 <= AbsoluteEnd
  BY <1>1, StacksInRam
<1>3. psize \in Nat \ {0} /\ HeapEnd + psize <= AbsoluteEnd
  BY <1>1, <1>2
<1>. HIDE DEF psize
<1>4. RamStart <= start /\ start \in Nat
  BY <1>2, DivisionAbove, Division, RamType, PageSizePositive, Zenon DEF Trunc
<1>5. end <= RamStart + RamPages /\ end \in Nat
  <2>1. HeapEnd + psize \in Nat /\ RamStart + RamPages \in Nat
    BY <1>2, <1>3, RamType
  <2>2. HeapEnd + psize <= (RamStart + RamPages) * PAGE_SIZE
    BY <1>3, Zenon DEF AbsoluteEnd
  <2>. QED BY <2>1, <2>2, RoundUp, PageSizePositive, Zenon DEF Align
<1>. HIDE DEF start, end
<1>6. Holding(ram, start, end) = 1
  <2>. DEFINE I == {i \in DOMAIN ram : ram[i].at <= start /\ end <= ram[i].at + ram[i].size}
  <2>1. Holding(ram, start, end) = First(I)
    BY Zenon DEF Holding
  <2>2. I = {1}
    BY <1>4, <1>5, RamType
  <2>. HIDE DEF I
  <2>3. First(I) \in I
    BY <2>2, FirstIndex
  <2>. QED BY <2>1, <2>2, <2>3, Zenon
<1>. QED BY <1>2, <1>3, <1>4, <1>5, <1>6, Zenon DEF psize, start, end

-----------------------------------------------------------------------------
(* Both pools.                                                             *)

\* What the pools are before the coherent pool is set up.
Booting ==
    /\ phase # "up" =>
          /\ lent = {} /\ owned["default"] = {}
          /\ list["coherent"] = <<>> /\ owned["coherent"] = {} /\ reserved["coherent"] = {}
    /\ phase = "off" => list["default"] = <<>> /\ reserved["default"] = {}
    /\ phase = "attached" => list["default"] = <<[at |-> RamStart, size |-> RamPages]>>

(* The inductive invariant.  TypeOK and StacksKept alone do not say that   *)
(* the blocks that are cut up are disjoint, nor what boot starts from.     *)
IInv ==
    /\ TypeOK
    /\ \A p \in Pool : PoolOK(list[p], owned[p], reserved[p], used[p])
    /\ Booting
    /\ StacksKept
    /\ CoherentLent

\* No page gets lost in this step.
Kept == reserved' = reserved => \A p \in Pool : Lost(p)' = Lost(p)

\* The invariant covers the properties of the specification.
LEMMA IInvImplies ==
    ASSUME IInv
    PROVE  Exclusive /\ UsedIsTaken
<1>1. \A p \in Pool : FreePages(p) = Pages(list[p])
  BY Zenon DEF FreePages, Pages
<1>. QED BY <1>1, Zenon DEF IInv, PoolOK, Disjoint, Exclusive, UsedIsTaken

\* A step that changes one pool.
LEMMA PoolStep ==
    ASSUME TypeOK, \A q \in Pool : PoolOK(list[q], owned[q], reserved[q], used[q]),
           NEW p \in Pool, NEW s, NEW o, NEW r, NEW u, PoolOK(s, o, r, u),
           list' = [list EXCEPT ![p] = s], owned' = [owned EXCEPT ![p] = o],
           reserved' = [reserved EXCEPT ![p] = r], used' = [used EXCEPT ![p] = u],
           phase' \in {"off", "attached", "reserved", "up"},
           total' \in [Pool -> Nat], lent' \subseteq Nat
    PROVE  /\ TypeOK'
           /\ \A q \in Pool : PoolOK(list'[q], owned'[q], reserved'[q], used'[q])
           /\ list'[p] = s /\ owned'[p] = o /\ reserved'[p] = r /\ used'[p] = u
           /\ \A q \in Pool : q # p => /\ list'[q] = list[q] /\ owned'[q] = owned[q]
                                       /\ reserved'[q] = reserved[q] /\ used'[q] = used[q]
<1>1. s \in Seq(Blk) /\ o \in SUBSET Nat /\ r \in SUBSET Nat /\ u \in Nat
  <2>1. Cardinality(o) \in Nat /\ Cardinality(r) \in Nat
    BY FS_CardinalityType, Zenon DEF PoolOK
  <2>. QED BY <2>1 DEF PoolOK
<1>2. /\ list'[p] = s /\ owned'[p] = o /\ reserved'[p] = r /\ used'[p] = u
      /\ \A q \in Pool : q # p => /\ list'[q] = list[q] /\ owned'[q] = owned[q]
                                  /\ reserved'[q] = reserved[q] /\ used'[q] = used[q]
  BY Zenon DEF TypeOK
<1>3. TypeOK'
  BY <1>1, Zenon DEF TypeOK, Blk
<1>4. ASSUME NEW q \in Pool PROVE PoolOK(list'[q], owned'[q], reserved'[q], used'[q])
  BY <1>2
<1>. QED BY <1>2, <1>3, <1>4, Zenon

(* A step after boot that changes one pool and adds no page to it keeps    *)
(* the invariant, if the main pool still regards the coherent pool's pages *)
(* as given away.                                                          *)
LEMMA UpStep ==
    ASSUME IInv, phase = "up", UNCHANGED <<phase, total, lent>>,
           NEW p \in Pool, NEW s, NEW o, NEW r, NEW u, PoolOK(s, o, r, u),
           list' = [list EXCEPT ![p] = s], owned' = [owned EXCEPT ![p] = o],
           reserved' = [reserved EXCEPT ![p] = r], used' = [used EXCEPT ![p] = u],
           Pages(s) \cup o \subseteq Pages(list[p]) \cup owned[p],
           r \subseteq reserved[p] \cup Pages(list[p]),
           p = "default" => lent \subseteq o
    PROVE  IInv'
<1>1. /\ TypeOK'
      /\ \A q \in Pool : PoolOK(list'[q], owned'[q], reserved'[q], used'[q])
      /\ list'[p] = s /\ owned'[p] = o /\ reserved'[p] = r
      /\ \A q \in Pool : q # p => /\ list'[q] = list[q] /\ owned'[q] = owned[q]
                                  /\ reserved'[q] = reserved[q]
  <2>1. TypeOK /\ \A q \in Pool : PoolOK(list[q], owned[q], reserved[q], used[q])
    BY Zenon DEF IInv
  <2>2. /\ phase' \in {"off", "attached", "reserved", "up"}
        /\ total' \in [Pool -> Nat] /\ lent' \subseteq Nat
    BY <2>1, Zenon DEF TypeOK
  <2>3. /\ TypeOK'
        /\ \A q \in Pool : PoolOK(list'[q], owned'[q], reserved'[q], used'[q])
        /\ list'[p] = s /\ owned'[p] = o /\ reserved'[p] = r /\ used'[p] = u
        /\ \A q \in Pool : q # p => /\ list'[q] = list[q] /\ owned'[q] = owned[q]
                                    /\ reserved'[q] = reserved[q] /\ used'[q] = used[q]
    BY <2>1, <2>2, PoolStep, Zenon
  <2>. QED BY <2>3, Zenon
<1>2. "default" \in Pool /\ "coherent" \in Pool
  BY Zenon DEF Pool
<1>3. \A q \in Pool : /\ Pages(list'[q]) \cup owned'[q] \subseteq Pages(list[q]) \cup owned[q]
                      /\ reserved'[q] \subseteq reserved[q] \cup Pages(list[q])
  BY <1>1, Zenon
<1>4. \A q \in Pool : FreePages(q) = Pages(list[q]) /\ FreePages(q)' = Pages(list'[q])
  BY Zenon DEF FreePages, Pages
<1>5. StacksKept'
  BY <1>2, <1>3, <1>4, Zenon DEF IInv, StacksKept
<1>6. CoherentLent'
  <2>1. lent \subseteq owned'["default"]
    BY <1>1, <1>2, Zenon DEF IInv, CoherentLent
  <2>. DEFINE managed == FreePages("coherent") \cup owned["coherent"] \cup reserved["coherent"]
  <2>2. managed' \subseteq managed
    BY <1>2, <1>3, <1>4
  <2>. QED BY <2>1, <2>2, Zenon DEF IInv, CoherentLent
<1>7. Booting'
  BY Zenon DEF Booting
<1>. QED BY <1>1, <1>5, <1>6, <1>7, Zenon DEF IInv

\* bt_page_alloc and its like.
LEMMA AllocKeeps ==
    ASSUME IInv, NEW p \in Pool, NEW psize \in Size, NEW order \in Order,
           Alloc(p, psize, order)
    PROVE  IInv' /\ Kept
<1>. DEFINE size == Align(psize)
            i == FirstFit(list[p], size, order)
            got == Span(AlignTo(list[p][i].at, order), size)
            s == Carve(list[p], i, size, order)
            o == owned[p] \cup got
            r == reserved[p]
            u == used[p] + size
<1>0. /\ phase = "up" /\ UNCHANGED <<phase, total, lent>> /\ i # 0
      /\ list' = [list EXCEPT ![p] = s] /\ owned' = [owned EXCEPT ![p] = o]
      /\ reserved' = reserved /\ used' = [used EXCEPT ![p] = u]
  BY Zenon DEF Alloc
<1>1. TypeOK /\ PoolOK(list[p], owned[p], reserved[p], used[p]) /\ list[p] \in Seq(Blk)
  BY Zenon DEF IInv, PoolOK
<1>2. size \in Nat /\ order \in Nat
  BY CallerType, AlignFacts, Zenon
<1>3. i \in 1 .. Len(list[p]) /\ list[p][i].size >= size + Gap(list[p][i], order)
  BY <1>0, <1>1, FirstFitFacts, Zenon
<1>. HIDE DEF size, i
<1>4. /\ PoolOK(s, o, r, u)
      /\ got \subseteq Pages(list[p]) /\ Pages(s) = Pages(list[p]) \ got
      /\ Cardinality(Pages(s)) = Cardinality(Pages(list[p])) - size
      /\ Cardinality(Pages(list[p])) \in Nat
  <2>. DEFINE L == list[p]
              O == owned[p]
              R == reserved[p]
              U == used[p]
  <2>1. PoolOK(L, O, R, U) /\ i \in 1 .. Len(L) /\ L[i].size >= size + Gap(L[i], order)
    BY <1>1, <1>3, Zenon
  <2>. HIDE DEF L, O, R, U
  <2>2. /\ PoolOK(Carve(L, i, size, order),
                  O \cup Span(AlignTo(L[i].at, order), size), R, U + size)
        /\ Span(AlignTo(L[i].at, order), size) \subseteq Pages(L)
        /\ Pages(Carve(L, i, size, order)) = Pages(L) \ Span(AlignTo(L[i].at, order), size)
        /\ Cardinality(Pages(Carve(L, i, size, order))) = Cardinality(Pages(L)) - size
        /\ Cardinality(Pages(L)) \in Nat
    BY <1>2, <2>1, PoolAlloc, Zenon
  <2>. QED BY <2>2, Zenon DEF L, O, R, U
<1>5. reserved' = [reserved EXCEPT ![p] = r]
  BY <1>0, <1>1, Zenon DEF TypeOK
<1>6. Pages(s) \cup o \subseteq Pages(list[p]) \cup owned[p] /\ r \subseteq reserved[p] \cup Pages(list[p])
  BY <1>4, Zenon
<1>7. p = "default" => lent \subseteq o
  BY Zenon DEF IInv, CoherentLent
<1>. HIDE DEF s, o, r, got
<1>8. IInv'
  BY <1>0, <1>4, <1>5, <1>6, <1>7, UpStep, Zenon
<1>9. ASSUME NEW q \in Pool PROVE Lost(q)' = Lost(q)
  <2>1. FreePages(q) = Pages(list[q]) /\ FreePages(q)' = Pages(list'[q])
    BY Zenon DEF FreePages, Pages
  <2>2. CASE q # p
    <3>1. list'[q] = list[q] /\ used'[q] = used[q] /\ total'[q] = total[q]
      BY <1>0, <1>1, <2>2, Zenon DEF TypeOK
    <3>. QED BY <2>1, <3>1, Zenon DEF Lost
  <2>3. CASE q = p
    <3>1. list'[q] = s /\ used'[q] = used[q] + size /\ total'[q] = total[q]
      BY <1>0, <1>1, <2>3, Zenon DEF TypeOK
    <3>2. used[q] \in Nat /\ total[q] \in Nat
      BY <1>1, Zenon DEF TypeOK
    <3>3. Cardinality(FreePages(q)') = Cardinality(FreePages(q)) - size
      BY <1>4, <2>1, <2>3, <3>1, Zenon
    <3>4. Cardinality(FreePages(q)) \in Nat
      BY <1>4, <2>1, <2>3, Zenon
    <3>. QED BY <1>2, <3>1, <3>2, <3>3, <3>4, SMTT(30) DEF Lost
  <2>. QED BY <2>2, <2>3, Zenon
<1>. QED BY <1>8, <1>9, Zenon DEF Kept

\* bt_page_free and bt_page_free_coherent.
LEMMA FreeKeeps ==
    ASSUME IInv, NEW p \in Pool, NEW psize \in Size, NEW at \in owned[p], Free(p, at, psize)
    PROVE  IInv' /\ Kept
<1>. DEFINE size == Align(psize)
            got == Span(at, size)
            s == GiveBack(list[p], at, size)
            o == owned[p] \ got
            r == reserved[p]
            u == used[p] - size
<1>0. /\ phase = "up" /\ UNCHANGED <<phase, total, lent>> /\ psize # 0
      /\ got \subseteq Returnable(p)
      /\ list' = [list EXCEPT ![p] = s] /\ owned' = [owned EXCEPT ![p] = o]
      /\ reserved' = reserved /\ used' = [used EXCEPT ![p] = u]
  BY Zenon DEF Free
<1>1. TypeOK /\ PoolOK(list[p], owned[p], reserved[p], used[p])
  BY Zenon DEF IInv
<1>2. size \in Nat \ {0} /\ at \in Nat /\ got \subseteq owned[p]
  <2>1. psize \in Nat
    BY CallerType, Zenon
  <2>2. size \in Nat /\ size # 0
    BY <1>0, <2>1, AlignFacts, Zenon
  <2>3. at \in Nat
    BY <1>1, Zenon DEF TypeOK
  <2>. QED BY <1>0, <2>2, <2>3, Zenon DEF Returnable
<1>. HIDE DEF size
<1>3. /\ PoolOK(s, o, r, u)
      /\ Pages(s) = Pages(list[p]) \cup got
      /\ Cardinality(Pages(s)) = Cardinality(Pages(list[p])) + size
      /\ Cardinality(Pages(list[p])) \in Nat
  <2>. DEFINE L == list[p]
              O == owned[p]
              R == reserved[p]
              U == used[p]
  <2>1. PoolOK(L, O, R, U) /\ Span(at, size) \subseteq O
    BY <1>1, <1>2, Zenon
  <2>. HIDE DEF L, O, R, U
  <2>2. /\ PoolOK(GiveBack(L, at, size), O \ Span(at, size), R, U - size)
        /\ Pages(GiveBack(L, at, size)) = Pages(L) \cup Span(at, size)
        /\ Cardinality(Pages(GiveBack(L, at, size))) = Cardinality(Pages(L)) + size
        /\ Cardinality(Pages(L)) \in Nat
    BY <1>2, <2>1, PoolFree, Zenon
  <2>. QED BY <2>2, Zenon DEF L, O, R, U
<1>4. reserved' = [reserved EXCEPT ![p] = r]
  BY <1>0, <1>1, Zenon DEF TypeOK
<1>5. Pages(s) \cup o \subseteq Pages(list[p]) \cup owned[p] /\ r \subseteq reserved[p] \cup Pages(list[p])
  BY <1>2, <1>3, Zenon
<1>6. p = "default" => lent \subseteq o
  BY <1>0, Zenon DEF IInv, CoherentLent, Returnable
<1>. HIDE DEF s, o, r, got
<1>7. IInv'
  BY <1>0, <1>3, <1>4, <1>5, <1>6, UpStep, Zenon
<1>8. ASSUME NEW q \in Pool PROVE Lost(q)' = Lost(q)
  <2>1. FreePages(q) = Pages(list[q]) /\ FreePages(q)' = Pages(list'[q])
    BY Zenon DEF FreePages, Pages
  <2>2. CASE q # p
    <3>1. list'[q] = list[q] /\ used'[q] = used[q] /\ total'[q] = total[q]
      BY <1>0, <1>1, <2>2, Zenon DEF TypeOK
    <3>. QED BY <2>1, <3>1, Zenon DEF Lost
  <2>3. CASE q = p
    <3>1. list'[q] = s /\ used'[q] = used[q] - size /\ total'[q] = total[q]
      BY <1>0, <1>1, <2>3, Zenon DEF TypeOK
    <3>2. used[q] \in Nat /\ total[q] \in Nat
      BY <1>1, Zenon DEF TypeOK
    <3>3. Cardinality(FreePages(q)') = Cardinality(FreePages(q)) + size
      BY <1>3, <2>1, <2>3, <3>1, Zenon
    <3>4. Cardinality(FreePages(q)) \in Nat
      BY <1>3, <2>1, <2>3, Zenon
    <3>. QED BY <1>2, <3>1, <3>2, <3>3, <3>4 DEF Lost
  <2>. QED BY <2>2, <2>3, Zenon
<1>. QED BY <1>7, <1>8, Zenon DEF Kept

\* What ReserveRange does to pool p: nothing, or it cuts a range out.
LEMMA ReserveRangeFacts ==
    ASSUME TypeOK, NEW p \in Pool, PoolOK(list[p], owned[p], reserved[p], used[p]),
           NEW paddr \in Nat, NEW psize \in Nat, ReserveRange(p, paddr, psize)
    PROVE  \/ UNCHANGED <<list, used, reserved>>
           \/ \E s, r, u :
                 /\ PoolOK(s, owned[p], r, u)
                 /\ list' = [list EXCEPT ![p] = s]
                 /\ used' = [used EXCEPT ![p] = u]
                 /\ reserved' = [reserved EXCEPT ![p] = r]
                 /\ Pages(s) \subseteq Pages(list[p])
                 /\ r \subseteq reserved[p] \cup Pages(list[p])
                 /\ r # reserved[p]
<1>. DEFINE start == Trunc(paddr)
            end == Align(paddr + psize)
            i == Holding(list[p], start, end)
<1>1. CASE psize = 0 \/ i = 0
  BY <1>1, Zenon DEF ReserveRange
<1>2. CASE psize # 0 /\ i # 0
  <2>. DEFINE s == CutOut(list[p], i, start, end)
              u == used[p] + (end - start)
              r == reserved[p] \cup (start .. end - 1)
  <2>1. /\ list' = [list EXCEPT ![p] = s] /\ used' = [used EXCEPT ![p] = u]
        /\ reserved' = [reserved EXCEPT ![p] = r]
    BY <1>2, Zenon DEF ReserveRange
  <2>2. start \in Nat /\ end \in Nat /\ start < end
    BY <1>2, RangeFacts, Zenon
  <2>. DEFINE L == list[p]
              O == owned[p]
              R == reserved[p]
              U == used[p]
  <2>3. PoolOK(L, O, R, U) /\ L \in Seq(Blk)
    BY Zenon DEF PoolOK
  <2>4. i \in 1 .. Len(L) /\ L[i].at <= start /\ end <= L[i].at + L[i].size
    BY <1>2, <2>3, HoldingFacts, Zenon
  <2>. HIDE DEF L, O, R, U, start, end, i
  <2>5. /\ PoolOK(CutOut(L, i, start, end), O, R \cup (start .. end - 1), U + (end - start))
        /\ Pages(CutOut(L, i, start, end)) = Pages(L) \ (start .. L[i].at + L[i].size - 1)
        /\ start .. end - 1 \subseteq Pages(L)
        /\ R \cup (start .. end - 1) # R
    BY <2>2, <2>3, <2>4, PoolReserve, Zenon
  <2>6. /\ PoolOK(s, owned[p], r, u) /\ Pages(s) \subseteq Pages(list[p])
        /\ r \subseteq reserved[p] \cup Pages(list[p]) /\ r # reserved[p]
    BY <2>5, Zenon DEF L, O, R, U
  <2>. QED BY <2>1, <2>6, Zenon
<1>. QED BY <1>1, <1>2, Zenon

\* bt_page_reserve and bt_page_reserve_coherent.
LEMMA ReserveKeeps ==
    ASSUME IInv, NEW p \in Pool, NEW z \in Reservation, Reserve(p, z.paddr, z.psize)
    PROVE  IInv' /\ Kept
<1>0. /\ phase = "up" /\ UNCHANGED <<phase, total, owned, lent>>
      /\ ReserveRange(p, z.paddr, z.psize)
  BY Zenon DEF Reserve
<1>1. TypeOK /\ PoolOK(list[p], owned[p], reserved[p], used[p])
  BY Zenon DEF IInv
<1>2. z.paddr \in Nat /\ z.psize \in Nat
  BY ReservationType, Zenon
<1>3. CASE UNCHANGED <<list, used, reserved>>
  BY <1>0, <1>3, Zenon DEF IInv, TypeOK, Booting, StacksKept, CoherentLent, FreePages, Kept, Lost
<1>4. ASSUME NEW s, NEW r, NEW u,
             PoolOK(s, owned[p], r, u),
             list' = [list EXCEPT ![p] = s],
             used' = [used EXCEPT ![p] = u],
             reserved' = [reserved EXCEPT ![p] = r],
             Pages(s) \subseteq Pages(list[p]),
             r \subseteq reserved[p] \cup Pages(list[p]),
             r # reserved[p]
      PROVE  IInv' /\ Kept
  <2>. DEFINE o == owned[p]
  <2>1. owned' = [owned EXCEPT ![p] = o]
    BY <1>0, <1>1, Zenon DEF TypeOK
  <2>2. Pages(s) \cup o \subseteq Pages(list[p]) \cup owned[p]
    BY <1>4, Zenon
  <2>3. p = "default" => lent \subseteq o
    BY Zenon DEF IInv, CoherentLent
  <2>4. PoolOK(s, o, r, u)
    BY <1>4, Zenon
  <2>. HIDE DEF o
  <2>5. IInv'
    BY <1>0, <1>4, <2>1, <2>2, <2>3, <2>4, UpStep, Zenon
  <2>6. reserved' # reserved
    BY <1>1, <1>4, Zenon DEF TypeOK
  <2>. QED BY <2>5, <2>6, Zenon DEF Kept
<1>5. \/ UNCHANGED <<list, used, reserved>>
      \/ \E s, r, u : /\ PoolOK(s, owned[p], r, u)
                       /\ list' = [list EXCEPT ![p] = s]
                       /\ used' = [used EXCEPT ![p] = u]
                       /\ reserved' = [reserved EXCEPT ![p] = r]
                       /\ Pages(s) \subseteq Pages(list[p])
                       /\ r \subseteq reserved[p] \cup Pages(list[p])
                       /\ r # reserved[p]
  <2>. DEFINE paddr == z.paddr
              psize == z.psize
  <2>1. TypeOK /\ PoolOK(list[p], owned[p], reserved[p], used[p])
    BY <1>1, Zenon
  <2>2. paddr \in Nat /\ psize \in Nat /\ ReserveRange(p, paddr, psize)
    BY <1>0, <1>2, Zenon
  <2>. HIDE DEF paddr, psize
  <2>. QED BY <2>1, <2>2, ReserveRangeFacts
<1>. QED BY <1>3, <1>4, <1>5, Zenon

\* Attaching a range to a pool that has none.
LEMMA Attach ==
    ASSUME NEW at \in Nat, NEW size \in Nat \ {0}
    PROVE  /\ GiveBack(<<>>, at, size) = <<[at |-> at, size |-> size]>>
           /\ PoolOK(GiveBack(<<>>, at, size), {}, {}, 0)
           /\ Pages(<<>>) = {} /\ Pages(GiveBack(<<>>, at, size)) = Span(at, size)
           /\ Cardinality(Pages(<<>>)) = 0
           /\ Cardinality(Pages(GiveBack(<<>>, at, size))) = size
<1>. DEFINE e == <<>>
            c == GiveBack(e, at, size)
<1>1. e \in Seq(Blk) /\ Len(e) = 0 /\ DOMAIN e = {} /\ 1 .. 0 = {}
  OBVIOUS
<1>2. c = <<[at |-> at, size |-> size]>>
  BY DEF GiveBack, Block
<1>. HIDE DEF e, c
<1>3. Disjoint(e) /\ Pages(e) = {}
  BY <1>1, PagesByIndex, Zenon DEF Disjoint
<1>4. c \in Seq(Blk) /\ Disjoint(c) /\ Pages(c) = Span(at, size)
  <2>1. e \in Seq(Blk) /\ Disjoint(e) /\ Span(at, size) \cap Pages(e) = {}
    BY <1>1, <1>3, Zenon
  <2>2. /\ GiveBack(e, at, size) \in Seq(Blk) /\ Disjoint(GiveBack(e, at, size))
        /\ Pages(GiveBack(e, at, size)) = Pages(e) \cup Span(at, size)
    BY <2>1, GiveBackFacts, Zenon
  <2>. QED BY <1>3, <2>2, Zenon DEF c
<1>5. PoolOK(c, {}, {}, 0)
  BY <1>4, SpanFacts, FS_EmptySet DEF PoolOK
<1>6. Cardinality(Pages(e)) = 0
  BY <1>3, FS_EmptySet, Zenon
<1>7. Cardinality(Pages(c)) = size
  BY <1>4, SpanFacts, Zenon
<1>. QED BY <1>2, <1>3, <1>4, <1>5, <1>6, <1>7, Zenon DEF c, e

\* bt_initialise_pages attaches the RAM.
LEMMA BootAttachKeeps ==
    ASSUME IInv, BootAttach
    PROVE  IInv' /\ Kept
<1>. DEFINE s == GiveBack(<<>>, RamStart, RamPages)
<1>0. "default" \in Pool /\ "coherent" \in Pool /\ \A q \in Pool : q \in {"default", "coherent"}
  BY Zenon DEF Pool
<1>1. /\ TypeOK /\ list["default"] = <<>> /\ owned["default"] = {} /\ reserved["default"] = {}
      /\ list["coherent"] = <<>> /\ owned["coherent"] = {} /\ reserved["coherent"] = {}
      /\ lent = {}
  BY Zenon DEF IInv, Booting, BootAttach
<1>2. /\ s = <<[at |-> RamStart, size |-> RamPages]>> /\ PoolOK(s, {}, {}, 0)
      /\ Cardinality(Pages(<<>>)) = 0 /\ Cardinality(Pages(s)) = RamPages
  BY RamType, Attach, Zenon
<1>3. /\ phase' = "attached" /\ list' = [list EXCEPT !["default"] = s]
      /\ total' = [total EXCEPT !["default"] = @ + RamPages]
      /\ UNCHANGED <<used, owned, reserved, lent>>
  BY <1>1, Zenon DEF BootAttach
<1>. HIDE DEF s
<1>4. list' \in [Pool -> Seq(Blk)] /\ list'["default"] = s /\ list'["coherent"] = <<>>
  BY <1>0, <1>1, <1>2, <1>3, Zenon DEF TypeOK, Blk, PoolOK
<1>5. total' \in [Pool -> Nat] /\ total'["default"] = total["default"] + RamPages
      /\ total'["coherent"] = total["coherent"]
  BY <1>0, <1>1, <1>3, RamType DEF TypeOK
<1>6. TypeOK'
  BY <1>1, <1>3, <1>4, <1>5, Zenon DEF TypeOK, Blk
<1>7. used["default"] = 0
  BY <1>0, <1>1, FS_EmptySet DEF IInv, PoolOK
<1>8. ASSUME NEW q \in Pool PROVE PoolOK(list'[q], owned'[q], reserved'[q], used'[q])
  BY <1>0, <1>1, <1>2, <1>3, <1>4, <1>7, Zenon DEF IInv
<1>9. Booting'
  BY <1>1, <1>2, <1>3, <1>4, Zenon DEF Booting
<1>10. StacksKept'
  BY <1>3, Zenon DEF StacksKept
<1>11. CoherentLent'
  BY <1>1, <1>3, <1>4, Attach, RamType, Zenon DEF CoherentLent, FreePages, Pages
<1>12. ASSUME NEW q \in Pool PROVE Lost(q)' = Lost(q)
  <2>1. FreePages(q) = Pages(list[q]) /\ FreePages(q)' = Pages(list'[q])
    BY Zenon DEF FreePages, Pages
  <2>2. used[q] \in Nat /\ total[q] \in Nat /\ used'[q] = used[q]
    BY <1>1, <1>3, Zenon DEF TypeOK
  <2>3. CASE q = "default"
    <3>1. /\ Cardinality(FreePages(q)) = 0 /\ Cardinality(FreePages(q)') = RamPages
          /\ total'[q] = total[q] + RamPages
      BY <1>1, <1>2, <1>4, <1>5, <2>1, <2>3, Zenon
    <3>. QED BY <2>2, <3>1, RamType DEF Lost
  <2>4. CASE q = "coherent"
    <3>1. list'[q] = list[q] /\ total'[q] = total[q]
      BY <1>1, <1>4, <1>5, <2>4, Zenon
    <3>. QED BY <2>1, <2>2, <3>1, Zenon DEF Lost
  <2>. QED BY <1>0, <2>3, <2>4, Zenon
<1>. QED BY <1>6, <1>8, <1>9, <1>10, <1>11, <1>12, Zenon DEF IInv, Kept

(* bt_initialise_pages reserves the stacks: whatever the length it passes, *)
(* the rest of the block goes with the range.                              *)
LEMMA BootReserveKeeps ==
    ASSUME IInv, BootReserve
    PROVE  IInv' /\ Kept
<1>. DEFINE p == "default"
            psize == (AbsoluteEnd - HeapEnd) \div 4
            start == Trunc(HeapEnd)
            end == Align(HeapEnd + psize)
            L == list[p]
            s == CutOut(L, 1, start, end)
            r == reserved[p] \cup (start .. end - 1)
            u == used[p] + (end - start)
<1>0. "default" \in Pool /\ "coherent" \in Pool
  BY Zenon DEF Pool
<1>1. /\ TypeOK /\ L = <<[at |-> RamStart, size |-> RamPages]>>
      /\ owned["default"] = {} /\ lent = {}
      /\ list["coherent"] = <<>> /\ owned["coherent"] = {} /\ reserved["coherent"] = {}
      /\ PoolOK(L, owned[p], reserved[p], used[p])
  BY <1>0, Zenon DEF IInv, Booting, BootReserve
<1>2. /\ HeapEnd \in Nat /\ psize \in Nat \ {0} /\ RamStart <= start
      /\ end <= RamStart + RamPages /\ Holding(L, start, end) = 1
  BY <1>1, BootRange, Zenon
<1>3. start \in Nat /\ end \in Nat /\ start < end
  BY <1>2, RangeFacts, Zenon
<1>4. /\ phase' = "reserved" /\ list' = [list EXCEPT ![p] = s]
      /\ used' = [used EXCEPT ![p] = u] /\ reserved' = [reserved EXCEPT ![p] = r]
      /\ UNCHANGED <<total, owned, lent>>
  BY <1>2 DEF BootReserve, ReserveRange
<1>5. L \in Seq(Blk) /\ 1 \in 1 .. Len(L) /\ L[1].at = RamStart /\ L[1].size = RamPages
  BY <1>1 DEF PoolOK
<1>. DEFINE O == owned[p]
            R == reserved[p]
            U == used[p]
<1>6. PoolOK(L, O, R, U) /\ owned' = [owned EXCEPT ![p] = O]
  BY <1>1, <1>4, Zenon DEF TypeOK
<1>. HIDE DEF psize, start, end, L, O, R, U
<1>7. /\ PoolOK(CutOut(L, 1, start, end), O, R \cup (start .. end - 1), U + (end - start))
      /\ Pages(CutOut(L, 1, start, end)) = Pages(L) \ (start .. L[1].at + L[1].size - 1)
      /\ R \cup (start .. end - 1) # R
  <2>1. L[1].at <= start /\ end <= L[1].at + L[1].size
    BY <1>2, <1>5, Zenon
  <2>. DEFINE j == 1
  <2>2. /\ PoolOK(L, O, R, U) /\ j \in 1 .. Len(L)
        /\ L[j].at <= start /\ end <= L[j].at + L[j].size
    BY <1>5, <1>6, <2>1, Zenon
  <2>. HIDE DEF j
  <2>3. /\ PoolOK(CutOut(L, j, start, end), O, R \cup (start .. end - 1), U + (end - start))
        /\ Pages(CutOut(L, j, start, end)) = Pages(L) \ (start .. L[j].at + L[j].size - 1)
        /\ R \cup (start .. end - 1) # R
    BY <1>3, <2>2, PoolReserve, Zenon
  <2>. QED BY <2>3, Zenon DEF j
<1>8. PoolOK(s, O, r, u) /\ r # reserved[p]
  BY <1>7, Zenon DEF R, U
<1>9. Pages(s) = Pages(L) \ (start .. RamStart + RamPages - 1)
  BY <1>5, <1>7, Zenon
<1>. HIDE DEF s, r, u
<1>10. /\ TypeOK'
       /\ \A q \in Pool : PoolOK(list'[q], owned'[q], reserved'[q], used'[q])
       /\ list'[p] = s /\ owned'[p] = O /\ reserved'[p] = r /\ used'[p] = u
       /\ \A q \in Pool : q # p => /\ list'[q] = list[q] /\ owned'[q] = owned[q]
                                   /\ reserved'[q] = reserved[q] /\ used'[q] = used[q]
  <2>1. TypeOK /\ \A q \in Pool : PoolOK(list[q], owned[q], reserved[q], used[q])
    BY Zenon DEF IInv
  <2>2. /\ phase' \in {"off", "attached", "reserved", "up"}
        /\ total' \in [Pool -> Nat] /\ lent' \subseteq Nat
    BY <1>4, <2>1, Zenon DEF TypeOK
  <2>. QED BY <1>0, <1>4, <1>6, <1>8, <2>1, <2>2, PoolStep, Zenon
<1>11. Booting'
  BY <1>0, <1>1, <1>4, <1>10, Zenon DEF Booting, O
<1>12. StacksKept'
  <2>1. FreePages("default")' = Pages(s) /\ owned'["default"] = {}
    BY <1>1, <1>10, Zenon DEF FreePages, Pages, O
  <2>2. StackPages = start .. RamStart + RamPages - 1
    BY Zenon DEF StackPages, start
  <2>. QED BY <1>9, <2>1, <2>2, Zenon DEF StacksKept, StackPages
<1>13. CoherentLent'
  <2>1. list'["coherent"] = <<>> /\ owned'["coherent"] = {} /\ reserved'["coherent"] = {}
    BY <1>0, <1>1, <1>10, Zenon
  <2>2. FreePages("coherent")' = {}
    BY <2>1, Attach, RamType, Zenon DEF FreePages, Pages
  <2>. QED BY <1>1, <1>4, <2>1, <2>2, Zenon DEF CoherentLent
<1>14. reserved' # reserved
  BY <1>8, <1>10, Zenon
<1>. QED BY <1>10, <1>11, <1>12, <1>13, <1>14, Zenon DEF IInv, Kept

(* bt_initialise_coherent_pages moves an aligned range to the coherent     *)
(* pool, or attaches page 0 to it when there is none.                      *)
LEMMA BootCoherentKeeps ==
    ASSUME IInv, BootCoherent
    PROVE  IInv' /\ Kept
<1>. DEFINE size == CoherentPages
            order == CoherentOrder
            L == list["default"]
            i == FirstFit(L, size, order)
            at == IF i = 0 THEN 0 ELSE AlignTo(L[i].at, order)
            got == IF i = 0 THEN {} ELSE Span(at, size)
            s == IF i = 0 THEN L ELSE Carve(L, i, size, order)
            c == GiveBack(<<>>, at, size)
            R == reserved["default"]
            U == used["default"]
            u == IF i = 0 THEN U ELSE U + size
<1>0. "default" \in Pool /\ "coherent" \in Pool /\ \A q \in Pool : q \in {"default", "coherent"}
  BY Zenon DEF Pool
<1>1. /\ TypeOK /\ phase = "reserved" /\ PoolOK(L, {}, R, U)
      /\ lent = {} /\ owned["default"] = {}
      /\ list["coherent"] = <<>> /\ owned["coherent"] = {} /\ reserved["coherent"] = {}
      /\ used["coherent"] = 0
  <2>1. TypeOK /\ phase = "reserved"
    BY Zenon DEF IInv, BootCoherent
  <2>2. /\ lent = {} /\ owned["default"] = {}
        /\ list["coherent"] = <<>> /\ owned["coherent"] = {} /\ reserved["coherent"] = {}
    BY <2>1, Zenon DEF IInv, Booting
  <2>3. /\ PoolOK(L, owned["default"], R, U)
        /\ PoolOK(list["coherent"], owned["coherent"], reserved["coherent"], used["coherent"])
    BY <1>0, Zenon DEF IInv
  <2>4. used["coherent"] = Cardinality({}) + Cardinality({})
    BY <2>2, <2>3, Zenon DEF PoolOK
  <2>. HIDE DEF L, R, U
  <2>5. used["coherent"] = 0
    BY <2>4, FS_EmptySet
  <2>. QED BY <2>1, <2>2, <2>3, <2>5, Zenon
<1>2. /\ phase' = "up" /\ lent' = got /\ reserved' = reserved
      /\ list' = [q \in Pool |-> IF q = "coherent" THEN c ELSE s]
      /\ used' = [used EXCEPT !["default"] = u]
      /\ owned' = [owned EXCEPT !["default"] = got]
      /\ total' = [total EXCEPT !["coherent"] = @ + size]
  <2>1. {} \cup got = got
    BY Zenon
  <2>2. \A q \in Pool : q # "coherent" => q = "default"
    BY <1>0, Zenon
  <2>. QED BY <1>1, <2>1, <2>2, Zenon DEF BootCoherent
<1>3. size \in Nat \ {0} /\ order \in Nat
  BY CoherentType, Zenon
<1>4. /\ PoolOK(s, got, R, u) /\ at \in Nat
      /\ Pages(s) = Pages(L) \ got /\ got \subseteq Pages(L)
      /\ u - U \in Nat /\ U \in Nat /\ Cardinality(Pages(L)) \in Nat
      /\ Cardinality(Pages(s)) = Cardinality(Pages(L)) - (u - U)
      /\ got # {} => at \in got /\ got = Span(at, size) /\ at % 2^order = 0
      /\ got = {} => at = 0
  <2>0. L \in Seq(Blk) /\ IsFiniteSet(Pages(L)) /\ Cardinality(Pages(L)) \in Nat /\ U \in Nat
    BY <1>0, <1>1, FS_CardinalityType, Zenon DEF PoolOK, TypeOK
  <2>1. CASE i = 0
    <3>1. s = L /\ got = {} /\ u = U /\ at = 0
      BY <2>1, Zenon
    <3>. HIDE DEF s, got, u, at, i, L, R, U
    <3>2. u - U = 0
      BY <2>0, <3>1
    <3>. QED BY <1>1, <2>0, <3>1, <3>2
  <2>2. CASE i # 0
    <3>1. i \in 1 .. Len(L) /\ L[i].size >= size + Gap(L[i], order)
      BY <2>0, <2>2, FirstFitFacts, Zenon
    <3>. DEFINE N == {}
                g == Span(AlignTo(L[i].at, order), size)
                d == Carve(L, i, size, order)
    <3>2. /\ PoolOK(L, N, R, U) /\ i \in 1 .. Len(L) /\ L[i].size >= size + Gap(L[i], order)
          /\ size \in Nat /\ order \in Nat
      BY <1>1, <1>3, <3>1, Zenon
    <3>. HIDE DEF N, L, R, U, i, size, order
    <3>3. /\ PoolOK(Carve(L, i, size, order),
                    N \cup Span(AlignTo(L[i].at, order), size), R, U + size)
          /\ Span(AlignTo(L[i].at, order), size) \subseteq Pages(L)
          /\ Pages(Carve(L, i, size, order)) = Pages(L) \ Span(AlignTo(L[i].at, order), size)
          /\ Cardinality(Pages(Carve(L, i, size, order))) = Cardinality(Pages(L)) - size
          /\ Cardinality(Pages(L)) \in Nat
      BY <3>2, PoolAlloc, Zenon
    <3>4. L[i].at \in Nat
      BY <2>0, <3>1, BlockFacts, Zenon
    <3>5. AlignTo(L[i].at, order) \in Nat /\ AlignTo(L[i].at, order) % 2^order = 0
      BY <1>3, <3>4, AlignToFacts, Zenon
    <3>6. AlignTo(L[i].at, order) \in g
      BY <1>3, <3>5, SpanFacts, Zenon
    <3>7. N \cup g = g
      BY Zenon DEF N
    <3>8. at = AlignTo(L[i].at, order) /\ got = g /\ s = d /\ u = U + size
      BY <2>2, Zenon
    <3>9. u - U = size /\ u - U \in Nat
      BY <1>3, <2>0, <3>8
    <3>. HIDE DEF g, d, at, got, s, u
    <3>10. PoolOK(d, g, R, U + size) /\ g \subseteq Pages(L) /\ Pages(d) = Pages(L) \ g
           /\ Cardinality(Pages(d)) = Cardinality(Pages(L)) - size
      BY <3>3, <3>7, Zenon DEF g, d
    <3>11. got = Span(at, size) /\ at \in got /\ at \in Nat /\ at % 2^order = 0
      BY <3>5, <3>6, <3>8, Zenon DEF g
    <3>. QED BY <2>0, <3>8, <3>9, <3>10, <3>11, Zenon
  <2>. QED BY <2>1, <2>2, Zenon
<1>. HIDE DEF i, at, got, s, u, L, R, U
<1>5. /\ PoolOK(c, {}, {}, 0) /\ Pages(c) = Span(at, size)
      /\ Pages(<<>>) = {} /\ Cardinality(Pages(<<>>)) = 0 /\ Cardinality(Pages(c)) = size
  BY <1>3, <1>4, Attach, Zenon
<1>. HIDE DEF c
<1>6. /\ list'["default"] = s /\ list'["coherent"] = c
      /\ owned'["default"] = got /\ owned'["coherent"] = {}
      /\ used'["default"] = u /\ used'["coherent"] = 0
      /\ reserved'["default"] = R /\ reserved'["coherent"] = {}
      /\ total'["default"] = total["default"] /\ total'["coherent"] = total["coherent"] + size
  BY <1>0, <1>1, <1>2, Zenon DEF TypeOK, R
<1>7. TypeOK'
  <2>1. s \in Seq(Blk) /\ c \in Seq(Blk) /\ got \in SUBSET Nat
    BY <1>4, <1>5, Zenon DEF PoolOK
  <2>2. u \in Nat
    BY <1>4, FS_CardinalityType, SMTT(30) DEF PoolOK
  <2>3. list' \in [Pool -> Seq([at : Nat, size : Nat \ {0}])]
    BY <1>2, <2>1, Zenon DEF Blk
  <2>4. total' \in [Pool -> Nat] /\ used' \in [Pool -> Nat]
    <3>1. total["coherent"] + size \in Nat
      BY <1>0, <1>1, <1>3 DEF TypeOK
    <3>2. total' \in [Pool -> Nat]
      BY <1>1, <1>2, <3>1, Zenon DEF TypeOK
    <3>3. used' \in [Pool -> Nat]
      BY <1>1, <1>2, <2>2, Zenon DEF TypeOK
    <3>. QED BY <3>2, <3>3, Zenon
  <2>5. owned' \in [Pool -> SUBSET Nat] /\ reserved' \in [Pool -> SUBSET Nat]
    BY <1>1, <1>2, <2>1, Zenon DEF TypeOK
  <2>. QED BY <1>2, <2>1, <2>3, <2>4, <2>5, Zenon DEF TypeOK
<1>8. ASSUME NEW q \in Pool PROVE PoolOK(list'[q], owned'[q], reserved'[q], used'[q])
  BY <1>0, <1>4, <1>5, <1>6, Zenon
<1>9. Booting'
  BY <1>2, Zenon DEF Booting
<1>10. /\ FreePages("default") = Pages(L) /\ FreePages("default")' = Pages(s)
       /\ FreePages("coherent") = Pages(<<>>) /\ FreePages("coherent")' = Pages(c)
  BY <1>1, <1>6, Zenon DEF FreePages, Pages, L
<1>11. StacksKept'
  <2>1. StackPages \cap Pages(L) = {} /\ got \subseteq Pages(L)
    BY <1>1, <1>4, <1>10, Zenon DEF IInv, StacksKept
  <2>2. FreePages("default")' = Pages(L) \ got /\ owned'["default"] = got
    BY <1>4, <1>6, <1>10, Zenon
  <2>. QED BY <2>1, <2>2, Zenon DEF StacksKept
<1>12. CoherentLent'
  <2>1. /\ lent' = got /\ owned'["default"] = got /\ phase' = "up"
        /\ owned'["coherent"] = {} /\ reserved'["coherent"] = {}
        /\ FreePages("coherent")' = Span(at, size)
    BY <1>2, <1>5, <1>6, <1>10, Zenon
  <2>2. CASE got = {}
    BY <1>4, <2>1, <2>2, Zenon DEF CoherentLent
  <2>3. CASE got # {}
    BY <1>4, <2>1, <2>3, Zenon DEF CoherentLent
  <2>. QED BY <2>2, <2>3, Zenon
<1>13. Lost("default")' = Lost("default")
  <2>1. total["default"] \in Nat /\ used["default"] = U /\ used'["default"] = u
        /\ total'["default"] = total["default"]
    BY <1>0, <1>1, <1>6, Zenon DEF TypeOK, U
  <2>2. u \in Int
    BY <1>0, <1>6, <1>7 DEF TypeOK
  <2>3. /\ Cardinality(FreePages("default")') = Cardinality(FreePages("default")) - (u - U)
        /\ Cardinality(FreePages("default")) \in Nat /\ U \in Nat
    BY <1>4, <1>10, Zenon
  <2>. QED BY <2>1, <2>2, <2>3 DEF Lost
<1>14. Lost("coherent")' = Lost("coherent")
  <2>1. total["coherent"] \in Nat /\ total'["coherent"] = total["coherent"] + size
        /\ used["coherent"] = 0 /\ used'["coherent"] = 0
    BY <1>0, <1>1, <1>6, Zenon DEF TypeOK
  <2>. QED BY <1>3, <1>5, <1>10, <2>1 DEF Lost
<1>15. \A q \in Pool : Lost(q)' = Lost(q)
  BY <1>0, <1>13, <1>14, Zenon
<1>. QED BY <1>7, <1>8, <1>9, <1>11, <1>12, <1>15, Zenon DEF IInv, Kept

-----------------------------------------------------------------------------
(* The theorems.                                                           *)

\* The pools after bt_page_pool_init.
LEMMA InitIInv == Init => IInv
<1>. SUFFICES ASSUME Init PROVE IInv
  BY Zenon
<1>1. /\ phase = "off" /\ lent = {}
      /\ \A p \in Pool : list[p] = <<>> /\ used[p] = 0 /\ owned[p] = {} /\ reserved[p] = {}
  BY Zenon DEF Init
<1>2. TypeOK
  BY DEF Init, TypeOK
<1>3. "default" \in Pool /\ "coherent" \in Pool
  BY Zenon DEF Pool
<1>. DEFINE e == <<>>
<1>4. e \in Seq(Blk) /\ Len(e) = 0 /\ DOMAIN e = {} /\ 1 .. 0 = {}
  OBVIOUS
<1>5. \A p \in Pool : list[p] = e
  BY <1>1, Zenon
<1>. HIDE DEF e
<1>6. Disjoint(e) /\ Pages(e) = {}
  BY <1>4, PagesByIndex, Zenon DEF Disjoint
<1>7. ASSUME NEW p \in Pool PROVE PoolOK(list[p], owned[p], reserved[p], used[p])
  <2>1. PoolOK(e, {}, {}, 0)
    BY <1>4, <1>6, FS_EmptySet DEF PoolOK
  <2>. QED BY <1>1, <1>5, <2>1, Zenon
<1>8. Booting
  BY <1>1, <1>3, Zenon DEF Booting
<1>9. StacksKept
  BY <1>1, Zenon DEF StacksKept
<1>10. CoherentLent
  BY <1>1, <1>3, <1>5, <1>6, Zenon DEF CoherentLent, FreePages, Pages
<1>. QED BY <1>2, <1>7, <1>8, <1>9, <1>10, Zenon DEF IInv

\* Every operation keeps the invariant, and loses no page unless it reserves some.
LEMMA NextKeeps == IInv /\ [Next]_vars => IInv' /\ Kept
<1>. SUFFICES ASSUME IInv, [Next]_vars PROVE IInv' /\ Kept
  BY Zenon
<1>1. CASE BootAttach
  BY <1>1, BootAttachKeeps, Zenon
<1>2. CASE BootReserve
  BY <1>2, BootReserveKeeps, Zenon
<1>3. CASE BootCoherent
  BY <1>3, BootCoherentKeeps, Zenon
<1>4. CASE \E p \in Pool, psize \in Size, order \in Order : Alloc(p, psize, order)
  BY <1>4, AllocKeeps, Zenon
<1>5. CASE \E p \in Pool, psize \in Size : \E at \in owned[p] : Free(p, at, psize)
  BY <1>5, FreeKeeps, Zenon
<1>6. CASE \E p \in Pool, r \in Reservation : Reserve(p, r.paddr, r.psize)
  BY <1>6, ReserveKeeps, Zenon
<1>7. CASE UNCHANGED vars
  BY <1>7, Zenon DEF vars, IInv, TypeOK, Booting, StacksKept, CoherentLent, FreePages, Kept, Lost
<1>. QED BY <1>1, <1>2, <1>3, <1>4, <1>5, <1>6, <1>7, Zenon DEF Next

\* The invariant holds throughout.
LEMMA Invariance == Spec => []IInv
BY InitIInv, NextKeeps, PTL DEF Spec

(* struct bt_page_pool stays well formed: no empty block is ever put on a  *)
(* free list and used_size never drops below zero.                         *)
THEOREM PoolsTyped == Spec => []TypeOK
<1>1. IInv => TypeOK
  BY Zenon DEF IInv
<1>. QED BY <1>1, Invariance, PTL

(* bt_page_pool_alloc, _free and _reserve never hand a page out twice, for *)
(* any RAM, any page size and any sizes, orders and ranges callers pass.   *)
THEOREM NoPageTwice == Spec => []Exclusive
BY Invariance, IInvImplies, PTL

(* used_size is exact in both pools: it is what callers hold plus what is  *)
(* reserved.                                                               *)
THEOREM UsedExact == Spec => []UsedIsTaken
BY Invariance, IInvImplies, PTL

(* The stacks at the end of RAM are never given out, wherever _heap_end is *)
(* and although only a quarter of them is reserved.                        *)
THEOREM StacksNeverGiven == Spec => []StacksKept
<1>1. IInv => StacksKept
  BY Zenon DEF IInv
<1>. QED BY <1>1, Invariance, PTL

(* The coherent pool manages the one aligned range that it got at boot,    *)
(* which the main pool never takes back.                                   *)
THEOREM CoherentRange == Spec => []CoherentLent
<1>1. IInv => CoherentLent
  BY Zenon DEF IInv
<1>. QED BY <1>1, Invariance, PTL

(* A page that leaves a free list is in used_size: only bt_page_pool_      *)
(* reserve ever loses pages.                                               *)
THEOREM AllocLosesNothing == Spec => NothingLost
<1>1. IInv /\ [Next]_vars => [Kept]_vars
  BY NextKeeps, Zenon
<1>2. Spec => [][Kept]_vars
  BY <1>1, Invariance, PTL DEF Spec
<1>. QED BY <1>2, Zenon DEF NothingLost, Kept
=============================================================================
