----------------------------- MODULE SlabProofs -----------------------------
(***************************************************************************)
(* Two threads never have the same block of the slab allocator, a second   *)
(* free of a block is always noticed, a block has room for what was asked  *)
(* for, no page is lost, and the free lists are complete, for every number *)
(* of threads, caches and pages.  IInv, FitInv and InvPages come from      *)
(* SlabSteps; ListInv, by which the blocks that nobody has are one list,   *)
(* without a ring and without a block left out, is proved here, and        *)
(* Numbers, which the lemmas of both modules assume.                       *)
(***************************************************************************)
EXTENDS SlabSteps, FiniteSetTheorems

-----------------------------------------------------------------------------
(* The free lists.                                                         *)

(* s is the list that starts at h, from its last block to its first: the   *)
(* blocks of U, once each, linked by w.                                    *)
Chain(U, w, h, n, s) ==
    /\ s \in [1 .. n -> U] /\ \A b \in U : \E i \in 1 .. n : s[i] = b
    /\ \A i, j \in 1 .. n : s[i] = s[j] => i = j
    /\ h = (IF n = 0 THEN Null ELSE s[n])
    /\ \A i \in 1 .. n : w[s[i]] = IF i = 1 THEN Null ELSE s[i - 1]

HasChain(U, w, h) == \E n \in Nat : \E s : Chain(U, w, h, n, s)

\* The blocks at most m links from the head of a list.
Near(n, s, m) == {s[i] : i \in {j \in 1 .. n : j >= n - m}}

\* They are what a walk of m links from the head finds, and all of them after n links.
Walks(U, w, h, n, s) ==
    /\ Near(n, s, 0) = {h} \ {Null}
    /\ \A m \in Nat : Near(n, s, m + 1)
           = Near(n, s, m) \cup ({w[b] : b \in Near(n, s, m)} \ {Null})
    /\ \A m \in Nat : n <= m => Near(n, s, m) = U

\* One more link leads to one more block.
LEMMA NearStep ==
    ASSUME NEW U, Null \notin U, NEW w, NEW h, NEW n \in Nat, NEW s, Chain(U, w, h, n, s)
    PROVE  Walks(U, w, h, n, s)
<1>1. \A i \in 1 .. n : s[i] \in U /\ s[i] # Null
  BY DEF Chain
<1>2. Near(n, s, 0) = {h} \ {Null}
  <2>1. CASE n = 0
    <3>1. 1 .. n = {} /\ h = Null
      BY <2>1 DEF Chain
    <3>. QED BY <3>1, Zenon DEF Near
  <2>2. CASE n # 0
    <3>1. {j \in 1 .. n : j >= n - 0} = {n}
      BY <2>2
    <3>2. h = s[n] /\ n \in 1 .. n
      BY <2>2 DEF Chain
    <3>. QED BY <1>1, <3>1, <3>2, Zenon DEF Near
  <2>. QED BY <2>1, <2>2, Zenon
<1>3. ASSUME NEW m \in Nat
      PROVE  Near(n, s, m + 1) = Near(n, s, m) \cup ({w[b] : b \in Near(n, s, m)} \ {Null})
  <2>1. ASSUME NEW b \in Near(n, s, m + 1), b \notin Near(n, s, m)
        PROVE  b \in {w[d] : d \in Near(n, s, m)} \ {Null}
    <3>1. PICK i \in 1 .. n : i >= n - (m + 1) /\ b = s[i]
      BY <2>1, Zenon DEF Near
    <3>2. ~(i >= n - m)
      BY <2>1, <3>1, Zenon DEF Near
    <3>3. i + 1 \in 1 .. n /\ i + 1 >= n - m /\ i + 1 # 1 /\ (i + 1) - 1 = i
      BY <3>1, <3>2
    <3>4. s[i + 1] \in Near(n, s, m) /\ w[s[i + 1]] = b
      BY <3>1, <3>3, Zenon DEF Near, Chain
    <3>. QED BY <1>1, <3>1, <3>4, Zenon
  <2>2. ASSUME NEW d \in Near(n, s, m), w[d] # Null PROVE w[d] \in Near(n, s, m + 1)
    <3>1. PICK i \in 1 .. n : i >= n - m /\ d = s[i]
      BY Zenon DEF Near
    <3>2. i # 1 /\ w[d] = s[i - 1]
      BY <2>2, <3>1, Zenon DEF Chain
    <3>3. i - 1 \in 1 .. n /\ i - 1 >= n - (m + 1)
      BY <3>1, <3>2
    <3>. QED BY <3>2, <3>3, Zenon DEF Near
  <2>3. Near(n, s, m) \subseteq Near(n, s, m + 1)
    <3>1. \A i \in 1 .. n : i >= n - m => i >= n - (m + 1)
      OBVIOUS
    <3>. QED BY <3>1, Zenon DEF Near
  <2>. QED BY <2>1, <2>2, <2>3, Zenon
<1>4. ASSUME NEW m \in Nat, n <= m PROVE Near(n, s, m) = U
  <2>1. \A i \in 1 .. n : i >= n - m
    BY <1>4
  <2>2. Near(n, s, m) = {s[i] : i \in 1 .. n}
    BY <2>1, Zenon DEF Near
  <2>. QED BY <2>2 DEF Chain
<1>. QED BY <1>2, <1>3, <1>4, Zenon DEF Walks

\* OnList finds all blocks of a list that is no longer than its bound.
LEMMA WalkFinds ==
    ASSUME Numbers, NEW c, NEW n \in Nat, NEW s, NEW U, Null \notin U, Chain(U, word, free[c], n, s),
           Cardinality(Block) \in Nat, n <= Cardinality(Block)
    PROVE  OnList(c) = U
<1>. DEFINE N == Cardinality(Block)
            F(g) == [m \in 0 .. N |->
                        IF m = 0 THEN {free[c]} \ {Null}
                        ELSE g[m - 1] \cup ({word[b] : b \in g[m - 1]} \ {Null})]
            near == [m \in 0 .. N |-> Near(n, s, m)]
<1>0. N \in Nat /\ \A m \in 0 .. N : m # 0 => m - 1 \in 0 .. N /\ m - 1 \in Nat /\ (m - 1) + 1 = m
  OBVIOUS
<1>a. /\ Near(n, s, 0) = {free[c]} \ {Null}
      /\ \A m \in Nat : Near(n, s, m + 1)
             = Near(n, s, m) \cup ({word[b] : b \in Near(n, s, m)} \ {Null})
      /\ \A m \in Nat : n <= m => Near(n, s, m) = U
  <2>1. Walks(U, word, free[c], n, s)
    BY NearStep, Zenon
  <2>. QED BY <2>1, Zenon DEF Walks
<1>1. \A m \in 0 .. N : m # 0 =>
          near[m] = near[m - 1] \cup ({word[b] : b \in near[m - 1]} \ {Null})
  <2>. SUFFICES ASSUME NEW m \in 0 .. N, m # 0
                PROVE  near[m] = near[m - 1] \cup ({word[b] : b \in near[m - 1]} \ {Null})
    BY Zenon
  <2>1. Near(n, s, (m - 1) + 1)
            = Near(n, s, m - 1) \cup ({word[b] : b \in Near(n, s, m - 1)} \ {Null})
    BY <1>0, <1>a, Zenon
  <2>2. near[m] = Near(n, s, (m - 1) + 1) /\ near[m - 1] = Near(n, s, m - 1)
    BY <1>0, Zenon
  <2>. QED BY <2>1, <2>2, Zenon
<1>2. near[0] = {free[c]} \ {Null}
  BY <1>0, <1>a
<1>3. near = F(near)
  BY <1>1, <1>2, Zenon
<1>. DEFINE found == CHOOSE g : g = F(g)
<1>4. found = F(found)
  BY <1>3, Zenon
<1>5. OnList(c) = found[N]
  BY Zenon DEF OnList
<1>6. near[N] = U
  BY <1>0, <1>a
<1>. HIDE DEF found, near
<1>. DEFINE S == {m \in Nat : m <= N => found[m] = near[m]}
<1>7. 0 \in S
  BY <1>0, <1>2, <1>4
<1>8. ASSUME NEW m \in Nat, m \in S PROVE m + 1 \in S
  <2>. SUFFICES ASSUME m + 1 <= N PROVE found[m + 1] = near[m + 1]
    OBVIOUS
  <2>1. found[m] = near[m] /\ m + 1 \in 0 .. N /\ m + 1 # 0 /\ (m + 1) - 1 = m
    BY <1>0, <1>8
  <2>2. found[m + 1] = found[m] \cup ({word[b] : b \in found[m]} \ {Null})
    BY <1>4, <2>1, Zenon
  <2>. QED BY <1>1, <2>1, <2>2, Zenon
<1>. HIDE DEF S
<1>9. N \in S
  <2>1. \A m \in Nat : m \in S
    BY <1>7, <1>8, Upwards, Zenon
  <2>. QED BY <1>0, <2>1, Zenon
<1>. QED BY <1>0, <1>5, <1>6, <1>9 DEF S

\* A list stays one when other words are written.
LEMMA ChainKept ==
    ASSUME NEW U, NEW w, NEW h, HasChain(U, w, h), NEW v, \A d \in U : v[d] = w[d]
    PROVE  HasChain(U, v, h)
<1>0. PICK n \in Nat : \E s : Chain(U, w, h, n, s)
  BY Zenon DEF HasChain
<1>1. PICK s : Chain(U, w, h, n, s)
  BY <1>0, Zenon
<1>2. Chain(U, v, h, n, s)
  BY <1>1, Zenon DEF Chain
<1>. QED BY <1>2, Zenon DEF HasChain

\* push_free puts a block before the head.
LEMMA ChainPush ==
    ASSUME NEW U, NEW w, NEW h, HasChain(U, w, h), NEW b, b \notin U,
           NEW v, v[b] = h, \A d \in U : v[d] = w[d]
    PROVE  HasChain(U \cup {b}, v, b)
<1>0. PICK n \in Nat : \E s : Chain(U, w, h, n, s)
  BY Zenon DEF HasChain
<1>1. PICK s : Chain(U, w, h, n, s)
  BY <1>0, Zenon
<1>. DEFINE m == n + 1
            q == [i \in 1 .. m |-> IF i = m THEN b ELSE s[i]]
<1>2. m \in Nat /\ m # 0 /\ m \in 1 .. m /\ \A i \in 1 .. m : i # m => i \in 1 .. n
  OBVIOUS
<1>3. \A i \in 1 .. n : i \in 1 .. m /\ i # m /\ s[i] \in U /\ q[i] = s[i]
  BY <1>1 DEF Chain
<1>4. q[m] = b /\ m - 1 = n
  BY <1>2
<1>5. q \in [1 .. m -> U \cup {b}]
  BY <1>2, <1>3, Zenon
<1>. HIDE DEF m, q
<1>6. \A d \in U \cup {b} : \E i \in 1 .. m : q[i] = d
  <2>1. ASSUME NEW d \in U PROVE \E i \in 1 .. m : q[i] = d
    <3>1. PICK i \in 1 .. n : s[i] = d
      BY <1>1, Zenon DEF Chain
    <3>. QED BY <1>3, <3>1, Zenon
  <2>. QED BY <1>2, <1>4, <2>1, Zenon
<1>7. \A i, j \in 1 .. m : q[i] = q[j] => i = j
  <2>. SUFFICES ASSUME NEW i \in 1 .. m, NEW j \in 1 .. m, q[i] = q[j] PROVE i = j
    BY Zenon
  <2>1. CASE i # m /\ j # m
    BY <1>1, <1>2, <1>3, <2>1 DEF Chain
  <2>2. CASE i = m \/ j = m
    BY <1>2, <1>3, <1>4, <2>2, Zenon
  <2>. QED BY <2>1, <2>2, Zenon
<1>8. \A i \in 1 .. m : v[q[i]] = IF i = 1 THEN Null ELSE q[i - 1]
  <2>. SUFFICES ASSUME NEW i \in 1 .. m PROVE v[q[i]] = IF i = 1 THEN Null ELSE q[i - 1]
    BY Zenon
  <2>1. CASE i = m
    <3>1. v[q[i]] = h
      BY <1>4, <2>1, Zenon
    <3>2. n = 0 <=> i = 1
      BY <2>1 DEF m
    <3>3. h = IF n = 0 THEN Null ELSE s[n]
      BY <1>1, Zenon DEF Chain
    <3>4. n # 0 => q[i - 1] = s[n]
      BY <1>3, <1>4, <2>1
    <3>. QED BY <3>1, <3>2, <3>3, <3>4, Zenon
  <2>2. CASE i # m
    <3>1. i \in 1 .. n /\ q[i] = s[i] /\ s[i] \in U
      BY <1>2, <1>3, <2>2, Zenon
    <3>2. v[q[i]] = IF i = 1 THEN Null ELSE s[i - 1]
      <4>1. w[s[i]] = IF i = 1 THEN Null ELSE s[i - 1]
        BY <1>1, <3>1, Zenon DEF Chain
      <4>2. v[s[i]] = w[s[i]]
        BY <3>1, Zenon
      <4>. QED BY <3>1, <4>1, <4>2, Zenon
    <3>3. i # 1 => q[i - 1] = s[i - 1]
      <4>1. i # 1 => i - 1 \in 1 .. n
        BY <3>1
      <4>. QED BY <1>3, <4>1, Zenon
    <3>. QED BY <3>2, <3>3, Zenon
  <2>. QED BY <2>1, <2>2, Zenon
<1>9. Chain(U \cup {b}, v, b, m, q)
  BY <1>2, <1>4, <1>5, <1>6, <1>7, <1>8, Zenon DEF Chain
<1>. QED BY <1>2, <1>9, Zenon DEF HasChain

\* pop_free takes the head off the list.
LEMMA ChainPop ==
    ASSUME NEW U, Null \notin U, NEW w, NEW h, HasChain(U, w, h), h # Null
    PROVE  h \in U /\ HasChain(U \ {h}, w, w[h])
<1>0. PICK n \in Nat : \E s : Chain(U, w, h, n, s)
  BY Zenon DEF HasChain
<1>1. PICK s : Chain(U, w, h, n, s)
  BY <1>0, Zenon
<1>2. n # 0 /\ h = s[n] /\ n \in 1 .. n
  BY <1>1 DEF Chain
<1>. DEFINE m == n - 1
            q == [i \in 1 .. m |-> s[i]]
<1>3. m \in Nat /\ n = m + 1 /\ \A i \in 1 .. m : i \in 1 .. n /\ i # n
  BY <1>2
<1>4. \A i \in 1 .. n : i # n => i \in 1 .. m
  BY <1>2
<1>5. \A i \in 1 .. m : q[i] = s[i] /\ s[i] \in U \ {h}
  BY <1>1, <1>2, <1>3 DEF Chain
<1>6. q \in [1 .. m -> U \ {h}]
  BY <1>5, Zenon
<1>. HIDE DEF m, q
<1>7. \A b \in U \ {h} : \E i \in 1 .. m : q[i] = b
  <2>. SUFFICES ASSUME NEW b \in U \ {h} PROVE \E i \in 1 .. m : q[i] = b
    BY Zenon
  <2>1. PICK i \in 1 .. n : s[i] = b
    BY <1>1, Zenon DEF Chain
  <2>2. i # n
    BY <1>2, <2>1, Zenon
  <2>. QED BY <1>4, <1>5, <2>1, <2>2, Zenon
<1>8. ASSUME NEW i \in 1 .. m, NEW j \in 1 .. m, q[i] = q[j] PROVE i = j
  <2>1. i \in 1 .. n /\ j \in 1 .. n /\ s[i] = s[j]
    BY <1>3, <1>5, <1>8, Zenon
  <2>. QED BY <1>1, <2>1, Zenon DEF Chain
<1>9. w[h] = IF m = 0 THEN Null ELSE q[m]
  <2>1. w[h] = IF n = 1 THEN Null ELSE s[n - 1]
    BY <1>1, <1>2, Zenon DEF Chain
  <2>2. (n = 1 <=> m = 0) /\ n - 1 = m
    BY <1>2, <1>3
  <2>3. m # 0 => m \in 1 .. m
    BY <1>3
  <2>. QED BY <1>5, <2>1, <2>2, <2>3, Zenon
<1>10. \A i \in 1 .. m : w[q[i]] = IF i = 1 THEN Null ELSE q[i - 1]
  <2>. SUFFICES ASSUME NEW i \in 1 .. m PROVE w[q[i]] = IF i = 1 THEN Null ELSE q[i - 1]
    BY Zenon
  <2>1. w[q[i]] = IF i = 1 THEN Null ELSE s[i - 1]
    <3>1. q[i] = s[i] /\ i \in 1 .. n
      BY <1>3, <1>5, Zenon
    <3>. QED BY <1>1, <3>1, Zenon DEF Chain
  <2>2. i # 1 => i - 1 \in 1 .. m
    BY <1>3
  <2>. QED BY <1>5, <2>1, <2>2, Zenon
<1>11. Chain(U \ {h}, w, w[h], m, q)
  BY <1>6, <1>7, <1>8, <1>9, <1>10, Zenon DEF Chain
<1>12. h \in U
  BY <1>1, <1>2 DEF Chain
<1>. QED BY <1>3, <1>11, <1>12, Zenon DEF HasChain

\* init_attach_block puts the blocks of a run before the head.
LEMMA ChainRun ==
    ASSUME NEW U, NEW w, NEW h, HasChain(U, w, h), NEW r, NEW K \in Nat \ {0},
           \A i \in 0 .. K - 1 : <<r, i>> \notin U,
           NEW v, \A d \in U : v[d] = w[d],
           \A i \in 0 .. K - 1 : v[<<r, i>>] = IF i < K - 1 THEN <<r, i + 1>> ELSE h
    PROVE  HasChain(U \cup {<<r, i>> : i \in 0 .. K - 1}, v, <<r, 0>>)
<1>0. PICK n \in Nat : \E s : Chain(U, w, h, n, s)
  BY Zenon DEF HasChain
<1>1. PICK s : Chain(U, w, h, n, s)
  BY <1>0, Zenon
<1>. DEFINE m == n + K
            R == {<<r, i>> : i \in 0 .. K - 1}
            q == [i \in 1 .. m |-> IF i <= n THEN s[i] ELSE <<r, m - i>>]
<1>2. /\ m \in Nat /\ m # 0 /\ m \in 1 .. m /\ m > n
      /\ \A i \in 1 .. m : ~(i <= n) => m - i \in 0 .. K - 1
      /\ \A i \in 1 .. m : i <= n => i \in 1 .. n
      /\ \A i \in 1 .. n : i \in 1 .. m /\ i <= n
  OBVIOUS
<1>3. \A i \in 1 .. n : q[i] = s[i] /\ s[i] \in U
  BY <1>1, <1>2, Zenon DEF Chain
<1>4. \A i \in 1 .. m : ~(i <= n) => q[i] = <<r, m - i>> /\ q[i] \in R /\ q[i] \notin U
  BY <1>2, Zenon
<1>5. q \in [1 .. m -> U \cup R]
  BY <1>2, <1>3, <1>4, Zenon
<1>. HIDE DEF q
<1>6. \A b \in U \cup R : \E i \in 1 .. m : q[i] = b
  <2>1. ASSUME NEW b \in U PROVE \E i \in 1 .. m : q[i] = b
    <3>1. PICK i \in 1 .. n : s[i] = b
      BY <1>1, Zenon DEF Chain
    <3>. QED BY <1>2, <1>3, <3>1, Zenon
  <2>2. ASSUME NEW b \in R PROVE \E i \in 1 .. m : q[i] = b
    <3>1. PICK j \in 0 .. K - 1 : b = <<r, j>>
      BY Zenon
    <3>2. m - j \in 1 .. m /\ ~(m - j <= n) /\ m - (m - j) = j
      OBVIOUS
    <3>3. q[m - j] = b
      BY <1>4, <3>1, <3>2, Zenon
    <3>. QED BY <3>2, <3>3, Zenon
  <2>. QED BY <2>1, <2>2, Zenon
<1>7. \A i, j \in 1 .. m : q[i] = q[j] => i = j
  <2>. SUFFICES ASSUME NEW i \in 1 .. m, NEW j \in 1 .. m, q[i] = q[j] PROVE i = j
    BY Zenon
  <2>1. CASE i <= n /\ j <= n
    BY <1>1, <1>2, <1>3, <2>1 DEF Chain
  <2>2. CASE ~(i <= n) /\ ~(j <= n)
    <3>1. <<r, m - i>> = <<r, m - j>>
      BY <1>4, <2>2, Zenon
    <3>2. m - i = m - j
      BY <3>1, Zenon
    <3>. QED BY <1>2, <3>2
  <2>3. CASE (i <= n) # (j <= n)
    BY <1>2, <1>3, <1>4, <2>3
  <2>. QED BY <2>1, <2>2, <2>3, Zenon
<1>8. \A i \in 1 .. m : v[q[i]] = IF i = 1 THEN Null ELSE q[i - 1]
  <2>. SUFFICES ASSUME NEW i \in 1 .. m PROVE v[q[i]] = IF i = 1 THEN Null ELSE q[i - 1]
    BY Zenon
  <2>1. CASE i <= n
    <3>1. i \in 1 .. n /\ q[i] = s[i] /\ s[i] \in U
      BY <1>2, <1>3, <2>1, Zenon
    <3>2. v[q[i]] = IF i = 1 THEN Null ELSE s[i - 1]
      <4>1. w[s[i]] = IF i = 1 THEN Null ELSE s[i - 1]
        BY <1>1, <3>1, Zenon DEF Chain
      <4>2. v[s[i]] = w[s[i]]
        BY <3>1, Zenon
      <4>. QED BY <3>1, <4>1, <4>2, Zenon
    <3>3. i # 1 => q[i - 1] = s[i - 1]
      <4>1. i # 1 => i - 1 \in 1 .. n
        BY <3>1
      <4>. QED BY <1>3, <4>1, Zenon
    <3>. QED BY <3>2, <3>3, Zenon
  <2>2. CASE i = n + 1
    <3>1. q[i] = <<r, K - 1>> /\ K - 1 \in 0 .. K - 1 /\ ~(K - 1 < K - 1)
      <4>1. ~(i <= n) /\ m - i = K - 1
        BY <2>2
      <4>. QED BY <1>4, <4>1
    <3>2. v[q[i]] = h
      BY <3>1, Zenon
    <3>3. h = IF n = 0 THEN Null ELSE s[n]
      BY <1>1, Zenon DEF Chain
    <3>4. (n = 0 <=> i = 1) /\ i - 1 = n
      BY <2>2
    <3>5. n # 0 => q[n] = s[n]
      <4>1. n # 0 => n \in 1 .. n
        OBVIOUS
      <4>. QED BY <1>3, <4>1, Zenon
    <3>. QED BY <3>2, <3>3, <3>4, <3>5, Zenon
  <2>3. CASE i > n + 1
    <3>1. /\ ~(i <= n) /\ i - 1 \in 1 .. m /\ ~(i - 1 <= n) /\ i # 1
          /\ m - i \in 0 .. K - 1 /\ m - i < K - 1 /\ m - (i - 1) = (m - i) + 1
      BY <1>2, <2>3
    <3>2. q[i] = <<r, m - i>> /\ q[i - 1] = <<r, m - (i - 1)>>
      BY <1>4, <3>1, Zenon
    <3>3. v[<<r, m - i>>] = <<r, (m - i) + 1>>
      BY <3>1, Zenon
    <3>. QED BY <3>1, <3>2, <3>3, Zenon
  <2>4. i <= n \/ i = n + 1 \/ i > n + 1
    BY <1>2
  <2>. QED BY <2>1, <2>2, <2>3, <2>4, Zenon
<1>9. q[m] = <<r, 0>>
  <2>1. ~(m <= n) /\ m - m = 0
    BY <1>2
  <2>. QED BY <1>2, <1>4, <2>1, Zenon
<1>. HIDE DEF m, R
<1>10. Chain(U \cup R, v, <<r, 0>>, m, q)
  BY <1>2, <1>5, <1>6, <1>7, <1>8, <1>9, Zenon DEF Chain
<1>. QED BY <1>2, <1>10, Zenon DEF HasChain, R

\* A list is no longer than there are blocks.
LEMMA ChainShort ==
    ASSUME Numbers, NEW U \in SUBSET Block, NEW n \in Nat, NEW w, NEW h, NEW s,
           Chain(U, w, h, n, s)
    PROVE  Cardinality(Block) \in Nat /\ n <= Cardinality(Block)
<1>1. s \in [1 .. n -> Block] /\ \A i, j \in 1 .. n : s[i] = s[j] => i = j
  BY Zenon DEF Chain
<1>. QED BY <1>1, Zenon DEF Numbers, BlocksCounted

\* The blocks nobody has are one list, and the others are counted.
ListOK(c) == /\ HasChain(Unheld(c), word, free[c])
             /\ allocated[c] = Cardinality(Blocks(c) \ Unheld(c))

ListInv == allocated \in [Cache -> Int] /\ \A c \in Cache : ListOK(c)

\* A step that leaves the blocks, the words and the head of a cache alone.
LEMMA ListSame ==
    ASSUME ListInv, NEW c \in Cache, Unheld(c)' = Unheld(c), Blocks(c)' = Blocks(c),
           \A b \in Unheld(c) : word'[b] = word[b],
           free'[c] = free[c], allocated'[c] = allocated[c]
    PROVE  ListOK(c)'
<1>1. HasChain(Unheld(c), word, free[c]) /\ allocated[c] = Cardinality(Blocks(c) \ Unheld(c))
  BY Zenon DEF ListInv, ListOK
<1>2. HasChain(Unheld(c), word', free[c])
  BY <1>1, ChainKept, Zenon
<1>3. HasChain(Unheld(c)', word', free'[c])
  BY <1>2, Zenon
<1>4. allocated'[c] = Cardinality(Blocks(c)' \ Unheld(c)')
  BY <1>1, Zenon
<1>. QED BY <1>3, <1>4, Zenon DEF ListOK, HasChain, Chain

(* A step of a thread that keeps its blocks, where they are of a cache, or *)
(* loses them, and writes only to what it has and to large blocks.         *)
LEMMA ListsQuiet ==
    ASSUME IInv, ListInv, NEW t \in Thread, UNCHANGED <<free, allocated>>,
           \A u \in Thread \ {t} : at'[u] = at[u] /\ p'[u] = p[u] /\ held'[u] = held[u],
           \A b \in Block : owner[b[1]] \in Cache =>
               (b \in Mine(t)' \cup leaked' <=> b \in Mine(t) \cup leaked),
           \A r \in Run : owner'[r] # owner[r] => owner[r] \notin Cache /\ owner'[r] \notin Cache,
           \A b \in Block : word'[b] # word[b] => owner[b[1]] \notin Cache \/ b \in Mine(t)
    PROVE  ListInv'
<1>. SUFFICES ASSUME NEW c \in Cache PROVE ListOK(c)'
  BY Zenon DEF ListInv
<1>1. \A u \in Thread \ {t} : Mine(u)' = Mine(u)
  BY Zenon DEF Mine, HasBlock
<1>2. \A b \in Block : b[1] \in Run
  BY BlockFacts, Zenon
<1>3. \A b \in Block : owner'[b[1]] = c <=> owner[b[1]] = c
  BY <1>2, Zenon
<1>4. Blocks(c)' = Blocks(c)
  BY <1>3, Zenon DEF Blocks
<1>5. \A b \in Block : owner[b[1]] = c =>
          (b \notin leaked' /\ (\A u \in Thread : b \notin Mine(u)')
           <=> b \notin leaked /\ (\A u \in Thread : b \notin Mine(u)))
  BY <1>1, Zenon
<1>6. Unheld(c)' = Unheld(c)
  BY <1>3, <1>5, Zenon DEF Unheld
<1>7. \A b \in Unheld(c) : word'[b] = word[b]
  BY Zenon DEF Unheld
<1>. QED BY <1>4, <1>6, <1>7, ListSame, Zenon

\* The calls that leave the lists alone.
LEMMA ListsCalls ==
    ASSUME IInv, ListInv, NEW t \in Thread,
           \/ \E n \in Sizes, b \in Block \cup {Null} : Malloc(t, n, b)
           \/ \E b \in Block : Free(t, b)
           \/ Lock(t) \/ PopHead(t) \/ Unlock(t) \/ PushNext(t) \/ Tag(t)
    PROVE  ListInv'
<1>0. /\ at \in [Thread -> Place] /\ p \in [Thread -> Block \cup {Null}]
      /\ held \in [Thread -> SUBSET Block] /\ word \in [Block -> Block \cup {Null, Magic}]
  BY Zenon DEF IInv, InvType
<1>1. ThreadOK(t) /\ Null \notin Block /\ InvTag
  BY Distinct, Zenon DEF IInv, InvThread
<1>2. CASE \E n \in Sizes, b \in Block \cup {Null} : Malloc(t, n, b)
  <2>1. /\ UNCHANGED <<owner, word, free, allocated, p, held, leaked>> /\ at[t] = "idle"
        /\ \A u \in Thread \ {t} : at'[u] = at[u]
    BY <1>0, <1>2, Zenon DEF Malloc, Go, mem, list, user
  <2>2. p[t] = Null
    BY <1>1, <2>1, Zenon DEF ThreadOK
  <2>3. Mine(t)' = Mine(t)
    BY <2>1, <2>2, Zenon DEF Mine, HasBlock
  <2>. QED BY <2>1, <2>3, ListsQuiet, Zenon
<1>3. ASSUME NEW b \in Block, Free(t, b) PROVE ListInv'
  <2>1. /\ UNCHANGED <<owner, word, free, allocated, leaked>> /\ at[t] = "idle" /\ p'[t] = b
        /\ \A u \in Thread \ {t} : at'[u] = at[u] /\ p'[u] = p[u] /\ held'[u] = held[u]
        /\ b \in held[t] \cup stale[t] /\ held'[t] = held[t] \ {b}
        /\ at'[t] = "panic" => word[b] # Magic
        /\ at'[t] # "panic" => word[b] = Magic /\ at'[t] \in {"freepages", "freelock"}
    BY <1>0, <1>3, Zenon DEF Free, Go, Verified, mem, list
  <2>2. p[t] = Null
    BY <1>1, <2>1, Zenon DEF ThreadOK
  <2>3. Mine(t) = held[t]
    BY <1>0, <2>1, <2>2, Zenon DEF Mine, HasBlock
  <2>4. CASE at'[t] = "panic"
    <3>1. b \notin held[t]
      BY <1>1, <2>1, <2>4, Zenon DEF InvTag
    <3>2. Mine(t)' = held[t]
      BY <2>1, <2>4, <3>1, Zenon DEF Mine, HasBlock
    <3>. QED BY <2>1, <2>3, <3>2, ListsQuiet, Zenon
  <2>5. CASE at'[t] # "panic"
    <3>1. b \in held[t]
      BY <1>1, <2>1, <2>5, Zenon DEF InvTag
    <3>2. Mine(t)' = held[t]
      BY <1>0, <1>1, <2>1, <2>5, <3>1, Zenon DEF Mine, HasBlock
    <3>. QED BY <2>1, <2>3, <3>2, ListsQuiet, Zenon
  <2>. QED BY <2>4, <2>5, Zenon
<1>4. CASE Lock(t)
  <2>1. /\ UNCHANGED <<owner, word, free, allocated, p, held, leaked>>
        /\ (at[t] = "lock" /\ at'[t] = "pop") \/ (at[t] = "freelock" /\ at'[t] = "push")
        /\ \A u \in Thread \ {t} : at'[u] = at[u]
    BY <1>0, <1>4, Zenon DEF Lock, Go, mem, list, user, call
  <2>2. Mine(t)' = Mine(t)
    BY <1>1, <2>1, Zenon DEF Mine, HasBlock, ThreadOK
  <2>. QED BY <2>1, <2>2, ListsQuiet, Zenon
<1>5. CASE PopHead(t)
  <2>1. /\ UNCHANGED <<owner, word, free, allocated, held, leaked>>
        /\ at[t] \in {"pop", "popagain"} /\ at'[t] \in {"popnext", "extend", "unlock"}
        /\ at'[t] = "unlock" => p'[t] = Null
        /\ \A u \in Thread \ {t} : at'[u] = at[u] /\ p'[u] = p[u]
    BY <1>0, <1>5, Zenon DEF PopHead, Go, mem, list, user
  <2>2. Mine(t)' = Mine(t)
    BY <2>1, Zenon DEF Mine, HasBlock
  <2>. QED BY <2>1, <2>2, ListsQuiet, Zenon
<1>6. CASE Unlock(t)
  <2>1. /\ UNCHANGED <<owner, word, free, allocated, held, leaked>> /\ at[t] = "unlock"
        /\ \A u \in Thread \ {t} : at'[u] = at[u] /\ p'[u] = p[u]
        /\ p'[t] = p[t] /\ at'[t] = IF p[t] = Null THEN "idle" ELSE "tag"
    BY <1>0, <1>6, Zenon DEF Unlock, Return, Go, mem, list, user, call
  <2>2. Mine(t)' = Mine(t)
    BY <2>1, Zenon DEF Mine, HasBlock
  <2>. QED BY <2>1, <2>2, ListsQuiet, Zenon
<1>7. CASE PushNext(t)
  <2>1. /\ UNCHANGED <<owner, free, allocated, p, held, leaked>>
        /\ at[t] = "push" /\ at'[t] = "pushhead" /\ \A u \in Thread \ {t} : at'[u] = at[u]
        /\ \A b \in Block : b # p[t] => word'[b] = word[b]
    BY <1>0, <1>7, Zenon DEF PushNext, Go, mem, user, call
  <2>2. Mine(t)' = Mine(t)
    BY <2>1, Zenon DEF Mine, HasBlock
  <2>3. \A b \in Block : word'[b] # word[b] => b \in Mine(t)
    BY <1>1, <2>1, Zenon DEF Mine, HasBlock, ThreadOK
  <2>. QED BY <2>1, <2>2, <2>3, ListsQuiet, Zenon
<1>8. CASE Tag(t)
  <2>1. /\ UNCHANGED <<owner, free, allocated>> /\ at[t] = "tag" /\ at'[t] = "idle"
        /\ \A u \in Thread \ {t} : at'[u] = at[u] /\ p'[u] = p[u] /\ held'[u] = held[u]
        /\ held'[t] = (held[t] \cup {p[t]}) \ {old[t]} /\ leaked' = leaked \cup ({old[t]} \ {Null})
        /\ \A b \in Block : b # p[t] => word'[b] = word[b]
    BY <1>0, <1>8, Zenon DEF Tag, Return
  <2>2. p[t] \in Block /\ p[t] # Null /\ old[t] \in held[t] \cup {Null}
    BY <1>0, <1>1, <2>1, Zenon DEF ThreadOK
  <2>3. Mine(t) = held[t] \cup {p[t]} /\ Mine(t)' = held'[t]
    BY <2>1, <2>2, Zenon DEF Mine, HasBlock
  <2>4. \A b \in Block : b \in Mine(t)' \cup leaked' <=> b \in Mine(t) \cup leaked
    <3>. TAKE b \in Block
    <3>1. CASE b = old[t]
      <4>1. b # Null
        BY <1>1, Zenon
      <4>2. b \in leaked' /\ b \in Mine(t)
        BY <2>1, <2>2, <2>3, <3>1, <4>1, Zenon
      <4>. QED BY <4>2, Zenon
    <3>2. CASE b # old[t]
      <4>1. b \in Mine(t)' <=> b \in Mine(t)
        BY <2>1, <2>3, <3>2, Zenon
      <4>2. b \in leaked' <=> b \in leaked
        BY <2>1, <3>2, Zenon
      <4>. QED BY <4>1, <4>2, Zenon
    <3>. QED BY <3>1, <3>2, Zenon
  <2>. QED BY <2>1, <2>3, <2>4, ListsQuiet, Zenon
<1>. QED BY <1>2, <1>3, <1>4, <1>5, <1>6, <1>7, <1>8, Zenon

\* Large blocks come and go beside the caches.
LEMMA ListsLarge ==
    ASSUME IInv, ListInv, NEW t \in Thread, MallocPages(t) \/ FreePages(t)
    PROVE  ListInv'
<1>0. /\ at \in [Thread -> Place] /\ p \in [Thread -> Block \cup {Null}]
      /\ word \in [Block -> Block \cup {Null, Magic}] /\ owner \in [Run -> 0 .. Unused]
      /\ \A b \in Block : b[1] \in Run
  BY BlockFacts, Zenon DEF IInv, InvType
<1>1. ThreadOK(t) /\ Large \notin Cache /\ Unused \notin Cache
  BY BlockFacts, Zenon DEF IInv, InvThread
<1>2. CASE MallocPages(t)
  <2>1. /\ UNCHANGED <<word, free, allocated, held, leaked>> /\ at[t] = "pages" /\ p[t] = Null
    BY <1>1, <1>2, Zenon DEF MallocPages, list, user, ThreadOK
  <2>2. Mine(t) = held[t]
    BY <2>1, Zenon DEF Mine, HasBlock
  <2>3. CASE Return(t) /\ UNCHANGED <<owner, pagesLeft>>
    <3>1. at'[t] = "idle" /\ \A u \in Thread \ {t} : at'[u] = at[u] /\ p'[u] = p[u]
      BY <1>0, <2>3, Zenon DEF Return
    <3>2. Mine(t)' = held[t]
      BY <2>1, <3>1, Zenon DEF Mine, HasBlock
    <3>. QED BY <2>1, <2>2, <2>3, <3>1, <3>2, ListsQuiet, Zenon
  <2>4. ASSUME NEW x \in Run, PageAlloc(x, Large, size[t] + Overhead),
               p' = [p EXCEPT ![t] = <<x, 0>>], Go(t, "tag")
        PROVE  ListInv'
    <3>1. /\ owner[x] = Unused /\ owner'[x] = Large /\ \A r \in Run : r # x => owner'[r] = owner[r]
          /\ p'[t] = <<x, 0>> /\ \A u \in Thread \ {t} : at'[u] = at[u] /\ p'[u] = p[u]
      BY <1>0, <2>4, Zenon DEF PageAlloc, Go
    <3>2. \A b \in Block : b \in Mine(t)' => b \in held[t] \/ b = <<x, 0>>
      BY <2>1, <3>1, Zenon DEF Mine
    <3>3. \A b \in held[t] : b \in Mine(t)'
      BY <2>1, Zenon DEF Mine
    <3>4. <<x, 0>>[1] = x
      BY Zenon
    <3>5. \A b \in Block : owner[b[1]] \in Cache => (b \in Mine(t)' <=> b \in held[t])
      BY <1>1, <3>1, <3>2, <3>3, <3>4, Zenon
    <3>. QED BY <1>1, <2>1, <2>2, <3>1, <3>5, ListsQuiet, Zenon
  <2>. QED BY <1>2, <2>3, <2>4, Zenon DEF MallocPages
<1>3. CASE FreePages(t)
  <2>1. at[t] = "freepages"
    BY <1>3, Zenon DEF FreePages
  <2>2. /\ p[t] \in Block /\ owner[p[t][1]] = Large /\ p[t][1] \in Run
    BY <1>0, <1>1, <2>1, Zenon DEF ThreadOK, HasBlock
  <2>3. /\ UNCHANGED <<free, allocated, held, leaked>> /\ at'[t] = "idle"
        /\ \A u \in Thread \ {t} : at'[u] = at[u] /\ p'[u] = p[u]
        /\ \A r \in Run : owner'[r] = IF r = p[t][1] THEN Unused ELSE owner[r]
        /\ \A b \in Block : b # p[t] => word'[b] = word[b]
    BY <1>0, <1>3, Zenon DEF FreePages, Return, user
  <2>4. Mine(t)' = held[t]
    BY <2>3, Zenon DEF Mine, HasBlock
  <2>5. \A b \in Block : owner[b[1]] \in Cache => (b \in Mine(t) <=> b \in held[t])
    BY <1>1, <2>2, Zenon DEF Mine
  <2>6. \A r \in Run : owner'[r] # owner[r] => owner[r] \notin Cache /\ owner'[r] \notin Cache
    BY <1>1, <2>2, <2>3, Zenon
  <2>7. \A b \in Block : word'[b] # word[b] => owner[b[1]] \notin Cache
    BY <1>1, <2>2, <2>3, Zenon
  <2>. QED BY <2>3, <2>4, <2>5, <2>6, <2>7, ListsQuiet
<1>. QED BY <1>2, <1>3, Zenon

\* The blocks that somebody has go up and down by one.
LEMMA TakenCount ==
    ASSUME Numbers, NEW B \in SUBSET Block, NEW U \in SUBSET B, NEW q
    PROVE  /\ q \in U => Cardinality(B \ (U \ {q})) = Cardinality(B \ U) + 1
           /\ q \in B \ U => Cardinality(B \ (U \cup {q})) = Cardinality(B \ U) - 1
           /\ Cardinality(B \ U) \in Nat
<1>0. \A S \in SUBSET Block : /\ Cardinality(S) \in Nat
                              /\ \A b \in Block \ S :
                                     Cardinality(S \cup {b}) = Cardinality(S) + 1
  BY Zenon DEF Numbers, SetsCounted
<1>1. Cardinality(B \ U) \in Nat
  BY <1>0, Zenon
<1>2. ASSUME q \in U PROVE Cardinality(B \ (U \ {q})) = Cardinality(B \ U) + 1
  <2>1. B \ (U \ {q}) = (B \ U) \cup {q} /\ q \in Block \ (B \ U) /\ B \ U \in SUBSET Block
    BY <1>2, Zenon
  <2>. QED BY <1>0, <2>1, Zenon
<1>3. ASSUME q \in B \ U PROVE Cardinality(B \ (U \cup {q})) = Cardinality(B \ U) - 1
  <2>. DEFINE T == B \ (U \cup {q})
  <2>1. B \ U = T \cup {q} /\ q \in Block \ T /\ T \in SUBSET Block
    BY <1>3, Zenon
  <2>. HIDE DEF T
  <2>2. Cardinality(B \ U) = Cardinality(T) + 1 /\ Cardinality(T) \in Nat
    BY <1>0, <2>1, Zenon
  <2>. QED BY <2>2 DEF T
<1>. QED BY <1>1, <1>2, <1>3, Zenon

\* pop_free takes the head, and counts it.
LEMMA ListsPop ==
    ASSUME Numbers, IInv, ListInv, NEW t \in Thread, PopNext(t)
    PROVE  ListInv'
<1>0. /\ at \in [Thread -> Place] /\ p \in [Thread -> Block \cup {Null}]
      /\ free \in [Cache -> Block \cup {Null}] /\ allocated \in [Cache -> Int]
      /\ ThreadOK(t) /\ Null \notin Block
  BY Distinct, Zenon DEF IInv, InvType, InvThread, ListInv
<1>1. at[t] = "popnext"
  BY Zenon DEF PopNext
<1>2. PICK k \in Cache, q \in Block : k = cache[t] /\ q = p[t] /\ q = free[k]
  BY <1>0, <1>1, Zenon DEF ThreadOK
<1>3. /\ UNCHANGED <<owner, word, p, held, leaked>> /\ at'[t] = "unlock"
      /\ \A u \in Thread \ {t} : at'[u] = at[u]
      /\ free' = [free EXCEPT ![k] = word[q]]
      /\ allocated' = [allocated EXCEPT ![k] = allocated[k] + 1]
  BY <1>0, <1>2, Zenon DEF PopNext, Go, mem, call, user
<1>4. Mine(t)' = Mine(t) \cup {q} /\ \A u \in Thread \ {t} : Mine(u)' = Mine(u)
  BY <1>0, <1>1, <1>2, <1>3, Zenon DEF Mine, HasBlock
<1>5. \A c \in Cache : Unheld(c)' = Unheld(c) \ {q} /\ Blocks(c)' = Blocks(c)
  BY <1>3, <1>4, Zenon DEF Unheld, Blocks
<1>6. \A c \in Cache : ListOK(c) /\ Unheld(c) \subseteq Blocks(c) /\ Blocks(c) \subseteq Block
  BY Zenon DEF ListInv, Unheld, Blocks
<1>7. q \in Unheld(k)
  BY <1>0, <1>2, Zenon DEF IInv, InvList
<1>8. ASSUME NEW c \in Cache, c # k PROVE ListOK(c)'
  <2>1. q \notin Unheld(c)
    BY <1>7, <1>8, Zenon DEF Unheld
  <2>2. Unheld(c)' = Unheld(c) /\ free'[c] = free[c] /\ allocated'[c] = allocated[c]
    BY <1>0, <1>3, <1>5, <1>8, <2>1, Zenon
  <2>. QED BY <1>3, <1>5, <2>2, ListSame, Zenon
<1>9. ListOK(k)'
  <2>. DEFINE U == Unheld(k)
              B == Blocks(k)
  <2>1. HasChain(U, word, q) /\ allocated[k] = Cardinality(B \ U) /\ Null \notin U /\ q # Null
    BY <1>0, <1>2, <1>6, Zenon DEF ListOK
  <2>2. U \in SUBSET B /\ B \in SUBSET Block /\ q \in U
    BY <1>6, <1>7, Zenon
  <2>3. Unheld(k)' = U \ {q} /\ Blocks(k)' = B /\ word' = word
    BY <1>3, <1>5, Zenon
  <2>4. free'[k] = word[q] /\ allocated'[k] = allocated[k] + 1
    BY <1>0, <1>3, Zenon
  <2>. HIDE DEF U, B
  <2>5. HasChain(U \ {q}, word, word[q])
    BY <2>1, ChainPop, Zenon
  <2>6. Cardinality(B \ (U \ {q})) = Cardinality(B \ U) + 1
    BY <2>2, TakenCount, Zenon
  <2>7. HasChain(Unheld(k)', word', free'[k])
    BY <2>3, <2>4, <2>5, Zenon
  <2>8. allocated'[k] = Cardinality(Blocks(k)' \ Unheld(k)')
    BY <2>1, <2>3, <2>4, <2>6, Zenon
  <2>. QED BY <2>7, <2>8, Zenon DEF ListOK, HasChain, Chain
<1>10. allocated' \in [Cache -> Int]
  BY <1>0, <1>3
<1>. QED BY <1>8, <1>9, <1>10, Zenon DEF ListInv

\* push_free brings a block back, and counts it.
LEMMA ListsPush ==
    ASSUME Numbers, IInv, ListInv, NEW t \in Thread, PushHead(t)
    PROVE  ListInv'
<1>0. /\ at \in [Thread -> Place] /\ p \in [Thread -> Block \cup {Null}]
      /\ free \in [Cache -> Block \cup {Null}] /\ allocated \in [Cache -> Int]
      /\ ThreadOK(t) /\ Null \notin Block
  BY Distinct, Zenon DEF IInv, InvType, InvThread, ListInv
<1>1. at[t] = "pushhead"
  BY Zenon DEF PushHead
<1>2. PICK k \in Cache, q \in Block : /\ k = cache[t] /\ q = p[t] /\ word[q] = free[k]
                                      /\ owner[q[1]] = k /\ q \notin held[t]
  BY <1>0, <1>1, Zenon DEF ThreadOK, HasBlock
<1>3. /\ UNCHANGED <<owner, word, held, leaked>> /\ at'[t] = "idle"
      /\ \A u \in Thread \ {t} : at'[u] = at[u] /\ p'[u] = p[u]
      /\ free' = [free EXCEPT ![k] = q]
      /\ allocated' = [allocated EXCEPT ![k] = allocated[k] - 1]
  BY <1>0, <1>2, Zenon DEF PushHead, Return, mem
<1>4. /\ Mine(t)' = held[t] /\ Mine(t) = held[t] \cup {q}
      /\ \A u \in Thread \ {t} : Mine(u)' = Mine(u)
  BY <1>0, <1>1, <1>2, <1>3, Zenon DEF Mine, HasBlock
<1>5. /\ q \notin leaked /\ q[2] < Objects(k)
      /\ \A u \in Thread \ {t} : q \notin Mine(u)
  <2>1. q \in Mine(t)
    BY <1>4, Zenon
  <2>2. Valid(q) /\ q \notin leaked /\ \A u \in Thread \ {t} : q \notin Mine(u)
    BY <2>1, Zenon DEF IInv, InvOwned
  <2>3. Large \notin Cache
    BY BlockFacts, Zenon
  <2>. QED BY <1>2, <2>2, <2>3, Zenon DEF Valid
<1>6. \A c \in Cache : Blocks(c)' = Blocks(c)
  BY <1>3, Zenon DEF Blocks
<1>7. \A b \in Block : (\A u \in Thread : b \notin Mine(u)')
                           <=> b = q \/ (\A u \in Thread : b \notin Mine(u))
  BY <1>2, <1>4, <1>5, Zenon
<1>8. Unheld(k)' = Unheld(k) \cup {q} /\ q \notin Unheld(k) /\ q \in Blocks(k)
  BY <1>2, <1>3, <1>4, <1>5, <1>7 DEF Unheld, Blocks
<1>9. \A c \in Cache : c # k => Unheld(c)' = Unheld(c)
  BY <1>2, <1>3, <1>7, Zenon DEF Unheld
<1>10. \A c \in Cache : ListOK(c) /\ Unheld(c) \subseteq Blocks(c) /\ Blocks(c) \subseteq Block
  BY Zenon DEF ListInv, Unheld, Blocks
<1>11. ASSUME NEW c \in Cache, c # k PROVE ListOK(c)'
  <2>1. free'[c] = free[c] /\ allocated'[c] = allocated[c]
    BY <1>0, <1>3, <1>11, Zenon
  <2>. QED BY <1>3, <1>6, <1>9, <1>11, <2>1, ListSame, Zenon
<1>12. ListOK(k)'
  <2>. DEFINE U == Unheld(k)
              B == Blocks(k)
  <2>1. HasChain(U, word, word[q]) /\ allocated[k] = Cardinality(B \ U)
    BY <1>2, <1>10, Zenon DEF ListOK
  <2>2. U \in SUBSET B /\ B \in SUBSET Block /\ q \in B \ U
    BY <1>8, <1>10, Zenon
  <2>3. Unheld(k)' = U \cup {q} /\ Blocks(k)' = B /\ word' = word
    BY <1>3, <1>6, <1>8, Zenon
  <2>4. free'[k] = q /\ allocated'[k] = allocated[k] - 1
    BY <1>0, <1>3, Zenon
  <2>. HIDE DEF U, B
  <2>5. HasChain(U \cup {q}, word, q)
    BY <2>1, <2>2, ChainPush, Zenon
  <2>6. Cardinality(B \ (U \cup {q})) = Cardinality(B \ U) - 1
    BY <2>2, TakenCount, Zenon
  <2>7. HasChain(Unheld(k)', word', free'[k])
    BY <2>3, <2>4, <2>5, Zenon
  <2>8. allocated'[k] = Cardinality(Blocks(k)' \ Unheld(k)')
    BY <2>1, <2>3, <2>4, <2>6, Zenon
  <2>. QED BY <2>7, <2>8, Zenon DEF ListOK, HasChain, Chain
<1>13. allocated' \in [Cache -> Int]
  BY <1>0, <1>3
<1>. QED BY <1>11, <1>12, <1>13, Zenon DEF ListInv

\* extend_cache puts the blocks of new pages before the others.
LEMMA ListsExtend ==
    ASSUME IInv, ListInv, NEW t \in Thread, Extend(t)
    PROVE  ListInv'
<1>0. /\ at \in [Thread -> Place] /\ p \in [Thread -> Block \cup {Null}]
      /\ free \in [Cache -> Block \cup {Null}] /\ allocated \in [Cache -> Int]
      /\ owner \in [Run -> 0 .. Unused] /\ ThreadOK(t) /\ Null \notin Block
  BY Distinct, Zenon DEF IInv, InvType, InvThread, ListInv
<1>1. /\ at[t] = "extend" /\ at'[t] = "popagain" /\ UNCHANGED <<allocated, p, held, leaked>>
      /\ \A u \in Thread \ {t} : at'[u] = at[u]
  BY <1>0, Zenon DEF Extend, Go, call, user
<1>2. \A u \in Thread : Mine(u)' = Mine(u)
  BY <1>1, Zenon DEF Mine, HasBlock
<1>3. CASE UNCHANGED <<owner, pagesLeft, word, free>>
  BY <1>1, <1>2, <1>3, ListsQuiet, Zenon
<1>4. ASSUME NEW x \in Run, PageAlloc(x, cache[t], ObjectSize(cache[t])),
             word' = Attach(x, cache[t]), free' = [free EXCEPT ![cache[t]] = <<x, 0>>]
      PROVE  ListInv'
  <2>1. PICK k \in Cache : k = cache[t]
    BY <1>0, <1>1, Zenon DEF ThreadOK
  <2>2. PICK K \in Nat \ {0} : K = Objects(k)
    BY BlockFacts, Zenon
  <2>. DEFINE R == {<<x, i>> : i \in 0 .. K - 1}
  <2>3. /\ owner[x] = Unused /\ owner'[x] = k /\ \A r \in Run : r # x => owner'[r] = owner[r]
        /\ free'[k] = <<x, 0>> /\ \A c \in Cache : c # k => free'[c] = free[c]
    BY <1>0, <1>4, <2>1, Zenon DEF PageAlloc
  <2>4. /\ Unused \notin Cache
        /\ \A b \in Block : b[1] \in Run /\ b[2] \in Nat /\ b = <<b[1], b[2]>>
    BY BlockFacts, Zenon
  <2>5. \A i \in 0 .. K - 1 : <<x, i>> \in Block
    <3>1. \A i \in 0 .. K - 1 : i \in Nat /\ i < Objects(k)
      BY <2>2
    <3>. QED BY <3>1, BlockFacts, Zenon
  <2>6. \A b \in Block : b[1] = x /\ b[2] < K <=> b \in R
    BY <2>2, <2>4
  <2>7. \A b \in Block : b \notin R => word'[b] = word[b]
    BY <1>4, <2>1, <2>2, <2>6, Zenon DEF Attach
  <2>8. \A i \in 0 .. K - 1 : word'[<<x, i>>] = IF i < K - 1 THEN <<x, i + 1>> ELSE free[k]
    <3>. SUFFICES ASSUME NEW i \in 0 .. K - 1
                  PROVE  word'[<<x, i>>] = IF i < K - 1 THEN <<x, i + 1>> ELSE free[k]
      BY Zenon
    <3>1. <<x, i>>[1] = x /\ <<x, i>>[2] = i /\ i < K /\ <<x, i>> \in Block
      BY <2>2, <2>5
    <3>. QED BY <1>4, <2>1, <2>2, <3>1, Zenon DEF Attach
  <2>9. \A b \in Block : b[1] = x => b \notin leaked /\ \A u \in Thread : b \notin Mine(u)
    <3>1. Large # Unused
      BY BlockFacts, Zenon
    <3>. QED BY <2>3, <2>4, <3>1 DEF IInv, InvOwned, Valid
  <2>10. \A b \in Block : owner'[b[1]] = k <=> b[1] = x \/ owner[b[1]] = k
    BY <2>3, <2>4, Zenon
  <2>11. \A c \in Cache : c # k => \A b \in Block : owner'[b[1]] = c <=> owner[b[1]] = c
    BY <2>3, <2>4, Zenon
  <2>12. Blocks(k)' = Blocks(k) \cup R
    BY <2>2, <2>5, <2>6, <2>10 DEF Blocks
  <2>13. Unheld(k)' = Unheld(k) \cup R
    BY <1>1, <1>2, <2>2, <2>5, <2>6, <2>9, <2>10 DEF Unheld
  <2>14. \A c \in Cache : Unheld(c) \cap R = {} /\ Blocks(c) \cap R = {}
    BY <2>3, <2>4, <2>6, Zenon DEF Unheld, Blocks
  <2>15. ASSUME NEW c \in Cache, c # k PROVE ListOK(c)'
    <3>1. Blocks(c)' = Blocks(c) /\ Unheld(c)' = Unheld(c)
      BY <1>1, <1>2, <2>11, <2>15 DEF Blocks, Unheld
    <3>2. \A b \in Unheld(c) : word'[b] = word[b]
      BY <2>7, <2>14, Zenon DEF Unheld
    <3>. QED BY <1>1, <2>3, <2>15, <3>1, <3>2, ListSame, Zenon
  <2>16. ListOK(k)'
    <3>. DEFINE U == Unheld(k)
                B == Blocks(k)
    <3>1. HasChain(U, word, free[k]) /\ allocated[k] = Cardinality(B \ U)
      BY Zenon DEF ListInv, ListOK
    <3>2. (\A d \in U : word'[d] = word[d]) /\ (\A i \in 0 .. K - 1 : <<x, i>> \notin U)
      BY <2>7, <2>14 DEF Unheld
    <3>3. (B \cup R) \ (U \cup R) = B \ U
      BY <2>14, Zenon
    <3>. HIDE DEF U, B
    <3>4. HasChain(U \cup R, word', <<x, 0>>)
      BY <2>8, <3>1, <3>2, ChainRun, Zenon
    <3>5. HasChain(Unheld(k)', word', free'[k])
      BY <2>3, <2>13, <3>4, Zenon DEF U
    <3>6. allocated'[k] = Cardinality(Blocks(k)' \ Unheld(k)')
      BY <1>1, <2>12, <2>13, <3>1, <3>3, Zenon DEF U, B
    <3>. QED BY <3>5, <3>6, Zenon DEF ListOK, HasChain, Chain
  <2>. QED BY <1>0, <1>1, <2>15, <2>16, Zenon DEF ListInv
<1>. QED BY <1>3, <1>4, Zenon DEF Extend

\* bt_initialise_slab leaves the blocks of one run, or none, in each cache.
LEMMA ListsInit == Numbers /\ Init => ListInv
<1>. SUFFICES ASSUME Numbers, Init, NEW c \in Cache PROVE allocated \in [Cache -> Int] /\ ListOK(c)
  BY Zenon DEF Init, ListInv
<1>1. /\ owner \in [Run -> Cache \cup {Unused}]
      /\ \A r, s \in Run : owner[r] = owner[s] /\ owner[r] # Unused => r = s
      /\ word = [b \in Block |-> IF owner[b[1]] # Unused /\ b[2] < Objects(owner[b[1]]) - 1
                                 THEN <<b[1], b[2] + 1>> ELSE Null]
      /\ free = [d \in Cache |-> IF \E r \in Run : owner[r] = d
                                 THEN <<CHOOSE r \in Run : owner[r] = d, 0>> ELSE Null]
      /\ allocated = [d \in Cache |-> 0] /\ leaked = {}
      /\ held = [t \in Thread |-> {}] /\ at = [t \in Thread |-> "idle"]
  BY Zenon DEF Init
<1>2. allocated \in [Cache -> Int] /\ allocated[c] = 0
  BY <1>1
<1>3. Unheld(c) = Blocks(c)
  <2>1. \A t \in Thread : Mine(t) = {}
    BY <1>1, Zenon DEF Mine, HasBlock
  <2>. QED BY <1>1, <2>1, Zenon DEF Unheld, Blocks
<1>4. Cardinality(Blocks(c) \ Unheld(c)) = 0
  BY <1>3, Zenon DEF Numbers, SetsCounted
<1>5. \A w : HasChain({}, w, Null)
  <2>. SUFFICES ASSUME NEW w PROVE HasChain({}, w, Null)
    BY Zenon
  <2>1. 0 \in Nat /\ 1 .. 0 = {}
    OBVIOUS
  <2>2. [i \in {} |-> i] \in [{} -> {}]
    BY Zenon
  <2>3. Chain({}, w, Null, 0, [i \in {} |-> i])
    BY <2>1, <2>2, Zenon DEF Chain
  <2>. QED BY <2>1, <2>3, Zenon DEF HasChain
<1>6. CASE ~\E r \in Run : owner[r] = c
  <2>1. free[c] = Null
    BY <1>1, <1>6, Zenon
  <2>2. Blocks(c) = {}
    BY <1>6, BlockFacts, Zenon DEF Blocks
  <2>3. HasChain({}, word, Null)
    BY <1>5, Zenon
  <2>. QED BY <1>2, <1>3, <1>4, <2>1, <2>2, <2>3, Zenon DEF ListOK
<1>7. CASE \E r \in Run : owner[r] = c
  <2>1. PICK x \in Run : x = CHOOSE r \in Run : owner[r] = c
    BY <1>7, Zenon
  <2>2. owner[x] = c
    BY <1>7, <2>1, Zenon
  <2>3. free[c] = <<x, 0>>
    BY <1>1, <1>7, <2>1, Zenon
  <2>4. PICK K \in Nat \ {0} : K = Objects(c)
    BY BlockFacts, Zenon
  <2>5. /\ c # Unused /\ \A b \in Block : b[1] \in Run /\ b[2] \in Nat /\ b = <<b[1], b[2]>>
        /\ \A i \in 0 .. K - 1 : <<x, i>> \in Block
    <3>1. \A i \in 0 .. K - 1 : i \in Nat /\ i < Objects(c)
      BY <2>4
    <3>. QED BY <3>1, BlockFacts, Zenon
  <2>. DEFINE R == {<<x, i>> : i \in 0 .. K - 1}
  <2>6. \A b \in Block : owner[b[1]] = c <=> b[1] = x
    BY <1>1, <2>2, <2>5, Zenon
  <2>7. \A b \in Block : b[1] = x /\ b[2] < K <=> b \in R
    BY <2>5
  <2>8. Blocks(c) = {} \cup R
    BY <2>4, <2>5, <2>6, <2>7 DEF Blocks
  <2>9. \A i \in 0 .. K - 1 : word[<<x, i>>] = IF i < K - 1 THEN <<x, i + 1>> ELSE Null
    <3>. SUFFICES ASSUME NEW i \in 0 .. K - 1
                  PROVE  word[<<x, i>>] = IF i < K - 1 THEN <<x, i + 1>> ELSE Null
      BY Zenon
    <3>1. <<x, i>>[1] = x /\ <<x, i>>[2] = i /\ <<x, i>> \in Block
      BY <2>5, Zenon
    <3>. QED BY <1>1, <2>2, <2>4, <2>5, <3>1, Zenon
  <2>10. HasChain({} \cup R, word, <<x, 0>>)
    <3>1. HasChain({}, word, Null)
      BY <1>5, Zenon
    <3>2. (\A d \in {} : word[d] = word[d]) /\ (\A i \in 0 .. K - 1 : <<x, i>> \notin {})
      BY Zenon
    <3>. QED BY <2>9, <3>1, <3>2, ChainRun, Zenon
  <2>. QED BY <1>2, <1>3, <1>4, <2>3, <2>8, <2>10, Zenon DEF ListOK
<1>. QED BY <1>2, <1>6, <1>7, Zenon

\* What InUse says is what somebody has.
LEMMA InUseIsTaken ==
    ASSUME IInv, NEW c \in Cache
    PROVE  InUse(c) = Blocks(c) \ Unheld(c)
<1>1. ASSUME NEW b \in Block, NEW t \in Thread
      PROVE  (b \in held[t] \/ (b = p[t] /\ at[t] # "panic" /\ at[t] # "popnext"))
                 <=> b \in Mine(t)
  <2>1. ThreadOK(t) /\ at[t] \in Place /\ Null \notin Block
    BY Distinct, Zenon DEF IInv, InvThread, InvType
  <2>2. b = p[t] => (HasBlock(t) <=> at[t] # "panic" /\ at[t] # "popnext")
    BY <2>1, Zenon DEF HasBlock, ThreadOK, Place
  <2>. QED BY <2>2, Zenon DEF Mine
<1>. QED BY <1>1, Zenon DEF InUse, Blocks, Unheld

\* Every step keeps the lists.
LEMMA ListsStep == Numbers /\ IInv /\ ListInv /\ [Next]_vars => ListInv'
<1>. SUFFICES ASSUME Numbers, IInv, ListInv, [Next]_vars PROVE ListInv'
  BY Zenon
<1>1. CASE UNCHANGED vars
  <2>1. UNCHANGED <<owner, word, free, allocated, at, p, held, leaked>>
    BY <1>1, Zenon DEF vars, mem, list, call, user
  <2>2. \A c \in Cache : Unheld(c)' = Unheld(c) /\ Blocks(c)' = Blocks(c)
    BY <2>1, Zenon DEF Unheld, Blocks, Mine, HasBlock
  <2>3. \A c \in Cache : ListOK(c)'
    BY <2>1, <2>2, ListSame, Zenon
  <2>. QED BY <2>1, <2>3, Zenon DEF ListInv
<1>2. CASE Next
  BY <1>2, ListsCalls, ListsLarge, ListsPop, ListsPush, ListsExtend, Zenon DEF Next, Step
<1>. QED BY <1>1, <1>2, Zenon

\* A walk from the head finds each block that nobody has, once.
LEMMA ListsExact == Numbers /\ IInv /\ ListInv => FreeListExact
<1>. SUFFICES ASSUME Numbers, IInv, ListInv, NEW c \in Cache
              PROVE  /\ OnList(c) \cap InUse(c) = {}
                     /\ OnList(c) \cup InUse(c) = Blocks(c)
                     /\ allocated[c] = Cardinality(InUse(c))
                     /\ \A b \in OnList(c) : Cardinality({d \in OnList(c) : word[d] = b})
                                                 = IF b = free[c] THEN 0 ELSE 1
  BY Zenon DEF FreeListExact
<1>. DEFINE U == Unheld(c)
<1>1. InUse(c) = Blocks(c) \ U
  BY InUseIsTaken, Zenon
<1>2. U \subseteq Blocks(c) /\ U \in SUBSET Block /\ Null \notin U
  BY Distinct, Zenon DEF Unheld, Blocks
<1>3. HasChain(U, word, free[c]) /\ allocated[c] = Cardinality(Blocks(c) \ U)
  BY Zenon DEF ListInv, ListOK
<1>. HIDE DEF U
<1>4. PICK n \in Nat : \E s : Chain(U, word, free[c], n, s)
  BY <1>3, Zenon DEF HasChain
<1>5. PICK s : Chain(U, word, free[c], n, s)
  BY <1>4, Zenon
<1>6. Cardinality(Block) \in Nat /\ n <= Cardinality(Block)
  BY <1>2, <1>5, ChainShort, Zenon
<1>7. OnList(c) = U
  BY <1>2, <1>5, <1>6, WalkFinds, Zenon
<1>8. ASSUME NEW b \in U
      PROVE  Cardinality({d \in U : word[d] = b}) = IF b = free[c] THEN 0 ELSE 1
  <2>1. PICK i \in 1 .. n : s[i] = b
    BY <1>5, Zenon DEF Chain
  <2>2. free[c] = s[n] /\ n \in 1 .. n /\ b # Null
    BY <1>2, <1>5 DEF Chain
  <2>3. ASSUME NEW d \in U, word[d] = b PROVE i + 1 \in 1 .. n /\ d = s[i + 1]
    <3>1. PICK j \in 1 .. n : s[j] = d
      BY <1>5, Zenon DEF Chain
    <3>2. j # 1 /\ b = s[j - 1]
      BY <1>5, <2>2, <2>3, <3>1, Zenon DEF Chain
    <3>3. j - 1 \in 1 .. n
      BY <3>1, <3>2
    <3>4. j - 1 = i
      BY <1>5, <2>1, <3>2, <3>3 DEF Chain
    <3>. QED BY <3>1, <3>3, <3>4
  <2>4. CASE i = n
    <3>1. {d \in U : word[d] = b} = {}
      BY <2>3, <2>4
    <3>2. b = free[c]
      BY <2>1, <2>2, <2>4, Zenon
    <3>. QED BY <3>1, <3>2, Zenon DEF Numbers, SetsCounted
  <2>5. CASE i # n
    <3>1. b # free[c]
      BY <1>5, <2>1, <2>2, <2>5 DEF Chain
    <3>2. i + 1 \in 1 .. n /\ i + 1 # 1 /\ (i + 1) - 1 = i
      BY <2>5
    <3>3. s[i + 1] \in U /\ word[s[i + 1]] = b
      BY <1>5, <2>1, <3>2, Zenon DEF Chain
    <3>4. {d \in U : word[d] = b} = {s[i + 1]}
      BY <2>3, <3>3, Zenon
    <3>5. Cardinality({} \cup {s[i + 1]}) = 0 + 1
      BY <1>2, <3>3, Zenon DEF Numbers, SetsCounted
    <3>. QED BY <3>1, <3>4, <3>5
  <2>. QED BY <2>4, <2>5, Zenon
<1>. QED BY <1>1, <1>2, <1>3, <1>7, <1>8, Zenon

-----------------------------------------------------------------------------
(* Powers, induction and finite sets.                                      *)

\* 2^n is the number of subsets of 1 .. n.
LEMMA SubsetsCounted ==
    ASSUME NEW n \in Nat
    PROVE  /\ IsFiniteSet(SUBSET (1 .. n)) /\ Cardinality(SUBSET (1 .. n)) = 2^n
           /\ 2^n \in Nat \ {0}
<1>1. IsFiniteSet(1 .. n) /\ Cardinality(1 .. n) = n
  BY FS_Interval
<1>2. IsFiniteSet(SUBSET (1 .. n)) /\ Cardinality(SUBSET (1 .. n)) = 2^n
  BY <1>1, FS_SUBSET, Zenon
<1>3. 2^n \in Nat
  BY <1>2, FS_CardinalityType, Zenon
<1>4. 2^n # 0
  BY <1>2, FS_EmptySet, Zenon
<1>. QED BY <1>2, <1>3, <1>4, Zenon

\* There are as many subsets with n + 1 as without.
LEMMA SubsetsDouble == ASSUME NEW n \in Nat PROVE 2^(n + 1) = 2 * 2^n
<1>. DEFINE A == SUBSET (1 .. n)
            C == SUBSET (1 .. n + 1)
            B == {T \in C : n + 1 \in T}
            f == [T \in A |-> T \cup {n + 1}]
<1>1. n + 1 \in Nat /\ 1 .. n + 1 = (1 .. n) \cup {n + 1} /\ n + 1 \notin 1 .. n
  OBVIOUS
<1>2. /\ IsFiniteSet(A) /\ Cardinality(A) = 2^n /\ 2^n \in Nat
      /\ IsFiniteSet(C) /\ Cardinality(C) = 2^(n + 1)
  BY <1>1, SubsetsCounted, Zenon
<1>3. C = A \cup B /\ A \cap B = {}
  BY <1>1, Zenon
<1>4. f \in Bijection(A, B)
  <2>1. f \in [A -> B]
    BY <1>1, Zenon
  <2>2. \A S, T \in A : f[S] = f[T] => S = T
    BY <1>1
  <2>3. ASSUME NEW T \in B PROVE \E S \in A : f[S] = T
    <3>1. T \ {n + 1} \in A /\ (T \ {n + 1}) \cup {n + 1} = T
      BY <1>1, Zenon
    <3>. QED BY <3>1, Zenon
  <2>. HIDE DEF A, B, f
  <2>4. f \in Injection(A, B)
    BY <2>1, <2>2, Zenon DEF Injection, IsInjective
  <2>5. f \in Surjection(A, B)
    BY <2>1, <2>3, Zenon DEF Surjection
  <2>. QED BY <2>4, <2>5, Zenon DEF Bijection
<1>5. IsFiniteSet(B) /\ Cardinality(B) = Cardinality(A)
  BY <1>2, <1>4, FS_Bijection DEF ExistsBijection
<1>. HIDE DEF A, B, C
<1>6. Cardinality(C) = Cardinality(A) + Cardinality(B) - Cardinality({})
  BY <1>2, <1>3, <1>5, FS_Union
<1>. QED BY <1>2, <1>5, <1>6, FS_EmptySet

(* What holds at 0 and is passed on from each number to the next one holds *)
(* everywhere: otherwise there were a least number at which it does not.   *)
LEMMA LeastFails ==
    ASSUME NEW S, 0 \in S, \A k \in Nat : k \in S => k + 1 \in S
    PROVE  \A k \in Nat : k \in S
<1>. DEFINE B == Nat \ S
            below == {ss \in Nat \X Nat : ss[1] < ss[2]}
<1>. SUFFICES ASSUME B # {} PROVE FALSE
  BY Zenon
<1>1. OpToRel(<, Nat) = below
  BY Zenon DEF OpToRel
<1>2. \A x, y \in Nat : x < y => <<x, y>> \in below
  BY Zenon
<1>. HIDE DEF below
<1>3. B \in SUBSET Nat
  BY Zenon
<1>4. PICK x \in B : \A y \in B : ~(<<y, x>> \in below)
  BY <1>1, <1>3, WFMin, NatLessThanWellFounded, Zenon
<1>5. x - 1 < x /\ x - 1 \in Nat /\ x \in Nat /\ (x - 1) + 1 = x
  OBVIOUS
<1>6. x - 1 \notin B
  BY <1>2, <1>4, <1>5, Zenon
<1>. QED BY <1>5, <1>6, Zenon

\* A run has as many pages as it has.
LEMMA PagesOne ==
    ASSUME NEW r, NEW j \in Nat
    PROVE  IsFiniteSet({r} \X (1 .. j)) /\ Cardinality({r} \X (1 .. j)) = j
<1>1. IsFiniteSet(1 .. j) /\ Cardinality(1 .. j) = j
  <2>1. 1 \in Int /\ j \in Int /\ (IF 1 > j THEN 0 ELSE j - 1 + 1) = j
    OBVIOUS
  <2>2. IsFiniteSet(1 .. j) /\ Cardinality(1 .. j) = IF 1 > j THEN 0 ELSE j - 1 + 1
    BY <2>1, FS_Interval, Zenon
  <2>. QED BY <2>1, <2>2
<1>2. IsFiniteSet({r}) /\ Cardinality({r}) = 1
  BY FS_Singleton, Zenon
<1>. DEFINE R == {r}
            J == 1 .. j
<1>3. IsFiniteSet(R) /\ Cardinality(R) = 1 /\ IsFiniteSet(J) /\ Cardinality(J) = j
  BY <1>1, <1>2, Zenon
<1>. HIDE DEF R, J
<1>4. IsFiniteSet(R \X J) /\ Cardinality(R \X J) = Cardinality(R) * Cardinality(J)
  BY <1>3, FS_Product, Zenon
<1>5. IsFiniteSet(R \X J) /\ Cardinality(R \X J) = j
  BY <1>3, <1>4
<1>. QED BY <1>5, Zenon DEF R, J

\* The pages of all runs are finitely many.
LEMMA PagesFinite ==
    ASSUME NEW n \in [Run -> Nat]
    PROVE  IsFiniteSet(PagesOf(n)) /\ Cardinality(PagesOf(n)) \in Nat
<1>. DEFINE T == {{r} \X (1 .. n[r]) : r \in Run}
            f == [r \in Run |-> {r} \X (1 .. n[r])]
<1>1. f \in Surjection(Run, T)
  BY Zenon DEF Surjection
<1>. HIDE DEF f
<1>2. \A S \in T : IsFiniteSet(S)
  <2>1. ASSUME NEW r \in Run PROVE IsFiniteSet({r} \X (1 .. n[r]))
    <3>1. n[r] \in Nat
      BY Zenon
    <3>. QED BY <3>1, PagesOne, Zenon
  <2>. QED BY <2>1, Zenon
<1>. HIDE DEF T
<1>3. IsFiniteSet(T)
  BY <1>1, RunsFinite, FS_Surjection, Zenon
<1>4. IsFiniteSet(UNION T)
  BY <1>2, <1>3, FS_UNION, Zenon
<1>5. IsFiniteSet(PagesOf(n))
  BY <1>4, Zenon DEF PagesOf, T
<1>. QED BY <1>5, FS_CardinalityType, Zenon

\* They change with the pages of one run.
LEMMA PagesMoved ==
    ASSUME NEW n \in [Run -> Nat], NEW x \in Run, NEW k \in Nat
    PROVE  /\ Cardinality(PagesOf(n)) \in Nat
           /\ Cardinality(PagesOf([n EXCEPT ![x] = k]))
                  = Cardinality(PagesOf(n)) - n[x] + k
<1>. DEFINE A == PagesOf(n)
            B == {x} \X (1 .. n[x])
            C == {x} \X (1 .. k)
            D == A \ B
            m == [n EXCEPT ![x] = k]
<1>2. IsFiniteSet(A)
  BY PagesFinite, Zenon
<1>3. B \subseteq A /\ PagesOf(m) = D \cup C /\ D \cap C = {}
  <2>1. B \subseteq A
    BY Zenon DEF PagesOf
  <2>2. m[x] = k /\ \A r \in Run \ {x} : m[r] = n[r]
    BY Zenon
  <2>3. PagesOf(m) = D \cup C
    BY <2>2 DEF PagesOf
  <2>4. D \cap C = {}
    BY DEF PagesOf
  <2>. QED BY <2>1, <2>3, <2>4, Zenon
<1>4. IsFiniteSet(B) /\ Cardinality(B) = n[x] /\ IsFiniteSet(C) /\ Cardinality(C) = k
  BY PagesOne, Zenon
<1>. HIDE DEF A, B, C, m
<1>5. IsFiniteSet(D) /\ Cardinality(D) = Cardinality(A) - Cardinality(B)
  <2>1. A \cap B = B
    BY <1>3, Zenon
  <2>. QED BY <1>2, <2>1, FS_Difference, Zenon
<1>. HIDE DEF D
<1>6. Cardinality(D \cup C) = Cardinality(D) + Cardinality(C) - Cardinality(D \cap C)
  BY <1>4, <1>5, FS_Union, Zenon
<1>7. Cardinality(D \cap C) = 0
  BY <1>3, FS_EmptySet, Zenon
<1>8. Cardinality(A) \in Nat
  BY <1>2, FS_CardinalityType, Zenon
<1>9. n[x] \in Nat
  BY Zenon
<1>10. Cardinality(PagesOf(m)) = Cardinality(A) - n[x] + k
  BY <1>3, <1>4, <1>5, <1>6, <1>7, <1>8, <1>9
<1>. QED BY <1>8, <1>10, Zenon DEF A, m

\* Blocks are finitely many.
LEMMA BlocksFinite == IsFiniteSet(Block)
<1>. DEFINE k == PageSize \div MinSize - 1
<1>1. 0 \in Int /\ k \in Int
  BY SizesOK
<1>2. IsFiniteSet(0 .. k)
  BY <1>1, FS_Interval, Zenon
<1>. DEFINE J == 0 .. k
<1>3. IsFiniteSet(J)
  BY <1>2, Zenon
<1>. HIDE DEF J
<1>4. IsFiniteSet(Run \X J)
  BY <1>3, RunsFinite, FS_Product, Zenon
<1>. QED BY <1>4, Zenon DEF Block, J, k

\* All that was used of them.
LEMMA NumbersHold == Numbers
<1>1. Powers
  BY SubsetsCounted, SubsetsDouble, Zenon DEF Powers
<1>2. Induction
  BY LeastFails, Zenon DEF Induction
<1>3. PagesCounted
  <2>1. ASSUME NEW n \in [Run -> Nat]
        PROVE  /\ Cardinality(PagesOf(n)) \in Nat
               /\ \A x \in Run, k \in Nat : Cardinality(PagesOf([n EXCEPT ![x] = k]))
                                              = Cardinality(PagesOf(n)) - n[x] + k
    BY PagesFinite, PagesMoved, Zenon
  <2>. QED BY <2>1, Zenon DEF PagesCounted
<1>4. BlocksCounted
  <2>1. Cardinality(Block) \in Nat
    BY BlocksFinite, FS_CardinalityType, Zenon
  <2>2. \A n \in Nat : \A s \in [1 .. n -> Block] :
            (\A i, j \in 1 .. n : s[i] = s[j] => i = j) => n <= Cardinality(Block)
    <3>. SUFFICES ASSUME NEW n \in Nat, NEW s \in [1 .. n -> Block],
                         \A i, j \in 1 .. n : s[i] = s[j] => i = j
                  PROVE  n <= Cardinality(Block)
      BY Zenon
    <3>1. s \in Injection(1 .. n, Block)
      BY Zenon DEF Injection, IsInjective
    <3>2. Cardinality(1 .. n) <= Cardinality(Block)
      BY <3>1, BlocksFinite, FS_Injection, Zenon
    <3>3. Cardinality(1 .. n) = n
      BY FS_Interval
    <3>. QED BY <3>2, <3>3, Zenon
  <2>. QED BY <2>1, <2>2, Zenon DEF BlocksCounted
<1>5. SetsCounted
  <2>1. Cardinality({}) = 0
    BY FS_EmptySet, Zenon
  <2>2. \A S \in SUBSET Block :
            /\ Cardinality(S) \in Nat
            /\ \A b \in Block \ S : Cardinality(S \cup {b}) = Cardinality(S) + 1
    <3>. TAKE S \in SUBSET Block
    <3>1. IsFiniteSet(S)
      BY BlocksFinite, FS_Subset, Zenon
    <3>2. Cardinality(S) \in Nat
      BY <3>1, FS_CardinalityType, Zenon
    <3>3. \A b \in Block \ S : Cardinality(S \cup {b}) = Cardinality(S) + 1
      BY <3>1, FS_AddElement, Zenon
    <3>. QED BY <3>2, <3>3, Zenon
  <2>. QED BY <2>1, <2>2, Zenon DEF SetsCounted
<1>. QED BY <1>1, <1>2, <1>3, <1>4, <1>5, Zenon DEF Numbers

-----------------------------------------------------------------------------
(* The theorems.                                                           *)

(* The blocks that nobody has are linked without sharing, every block of a *)
(* thread has its tags, and only the holder of slab_mutex is at the list   *)
(* of a cache.                                                             *)
THEOREM SlabInvariant == Spec => []IInv
<1>1. IInv /\ [Next]_vars => IInv'
  BY StepOK, NumbersHold, Zenon
<1>. QED BY <1>1, InitOK, PTL DEF Spec

\* BT_kMalloc never gives a thread a block that it or another thread has.
THEOREM SlabExclusive == Spec => []Exclusive
BY OneOwner, SlabInvariant, PTL

\* BT_kFree panics on a block that was freed and not handed out since.
THEOREM SlabDoubleFree == Spec => DoubleFreePanics
<1>1. IInv /\ [Next]_vars => [Panics]_vars
  BY PanicStep, Zenon
<1>. QED BY <1>1, SlabInvariant, PTL DEF Spec, DoubleFreePanics, Panics

(* The block that BT_kMalloc returns has room for the size and the tags,   *)
(* and no smaller cache would do, for every size and number of caches.     *)
THEOREM SlabFits == Spec => []Fits
<1>1. Init => FitInv
  BY DEF Init, FitInv, Place, Allocating
<1>2. FitInv /\ [Next]_vars => FitInv'
  BY FitStep, NumbersHold, Zenon
<1>3. FitInv => Fits
  BY FitInvFits, NumbersHold, Zenon
<1>. QED BY <1>1, <1>2, <1>3, PTL DEF Spec

(* No page is lost or given back twice, for every number of threads, runs  *)
(* and caches and every page size: BT_kFree passes to bt_page_free the     *)
(* size that BT_kMalloc passed to bt_page_alloc.                           *)
THEOREM SlabPagesBalanced == Spec => []PagesBalanced
<1>1. Init => AllInv
  BY InitOK, PagesInit, NumbersHold, Zenon DEF AllInv
<1>2. AllInv /\ [Next]_vars => AllInv'
  BY AllStep, NumbersHold, Zenon
<1>3. AllInv => PagesBalanced
  BY Zenon DEF AllInv
<1>. QED BY <1>1, <1>2, <1>3, PTL DEF Spec

(* When nobody is inside a cache, each of its blocks is on the free list,  *)
(* exactly once, or in use, and allocated counts those in use: BT_kMalloc  *)
(* and BT_kFree lose no block, for every number of threads, caches and     *)
(* pages.                                                                  *)
THEOREM SlabFreeList == Spec => []FreeListExact
<1>1. IInv /\ ListInv /\ [Next]_vars => ListInv'
  BY ListsStep, NumbersHold, Zenon
<1>2. IInv /\ ListInv => FreeListExact
  BY ListsExact, NumbersHold, Zenon
<1>3. Init => ListInv
  BY ListsInit, NumbersHold, Zenon
<1>. QED BY <1>1, <1>2, <1>3, SlabInvariant, PTL DEF Spec
=============================================================================
