----------------------- MODULE FileDescriptorsProofs -----------------------
(***************************************************************************)
(* Proofs about FileDescriptors, for any number of processes, descriptors  *)
(* and handles.                                                            *)
(*                                                                         *)
(* GInv, with no restriction on who opens, closes, creates and destroys:   *)
(* types, no count below zero, and open takes the lowest free descriptor.  *)
(* It needs that every handle in a table, or attached to a process, was    *)
(* opened (Opened), since BT_CloseHandle drops a count without looking.    *)
(*                                                                         *)
(* SInv, until a step spoils the counts: every count is the number of     *)
(* descriptors that lead to the handle and one for its opener, so that no  *)
(* descriptor leads to a freed handle.  The loops over a table are shown   *)
(* by what holds after each number of descriptors, from 0 on.              *)
(***************************************************************************)
EXTENDS FileDescriptors, TLAPS, FiniteSetTheorems

-----------------------------------------------------------------------------
(* Loops.                                                                  *)

(* What holds at 0 and is passed on from each number to the next one holds *)
(* up to n: otherwise there were a least number at which it does not.      *)
LEMMA Upwards ==
    ASSUME NEW n \in Nat, NEW S, 0 \in S, \A k \in 1 .. n : k - 1 \in S => k \in S
    PROVE  \A k \in 0 .. n : k \in S
<1>. DEFINE B == (0 .. n) \ S
            below == {ss \in Nat \X Nat : ss[1] < ss[2]}
<1>. SUFFICES ASSUME B # {} PROVE FALSE
  BY Zenon
<1>1. OpToRel(<, Nat) = below
  BY Zenon DEF OpToRel
<1>2. \A x, y \in Nat : x < y => <<x, y>> \in below
  BY Zenon
<1>. HIDE DEF below
<1>3. B \in SUBSET Nat
  OBVIOUS
<1>4. PICK x \in B : \A y \in B : ~(<<y, x>> \in below)
  BY <1>1, <1>3, WFMin, NatLessThanWellFounded, Zenon
<1>5. x \in 1 .. n /\ x - 1 \in 0 .. n /\ x - 1 < x /\ x - 1 \in Nat /\ x \in Nat
  OBVIOUS
<1>6. x - 1 \notin B
  BY <1>2, <1>4, <1>5, Zenon
<1>. QED BY <1>5, <1>6, Zenon

\* The states of a loop that applies step[0], step[1], ... in turn.
HasRun(n, X, s, step) ==
    \E g \in [0 .. n -> X] : g[0] = s /\ \A k \in 1 .. n : g[k] = step[k - 1][g[k - 1]]

\* A loop has a run.
LEMMA LoopRuns ==
    ASSUME NEW n \in Nat, NEW X, NEW s \in X, NEW step \in [0 .. n - 1 -> [X -> X]]
    PROVE  HasRun(n, X, s, step)
<1>. DEFINE Run(g, m) == g[0] = s /\ \A k \in 1 .. m : g[k] = step[k - 1][g[k - 1]]
            S == {m \in 0 .. n : \E g \in [0 .. m -> X] : Run(g, m)}
<1>1. 0 \in S
  <2>. DEFINE g == [k \in 0 .. 0 |-> s]
  <2>1. g \in [0 .. 0 -> X] /\ Run(g, 0)
    OBVIOUS
  <2>. HIDE DEF g
  <2>2. \E gg \in [0 .. 0 -> X] : Run(gg, 0)
    BY <2>1, Zenon
  <2>. QED BY <2>2
<1>2. ASSUME NEW m \in 1 .. n, m - 1 \in S PROVE m \in S
  <2>1. PICK g \in [0 .. m - 1 -> X] : Run(g, m - 1)
    BY <1>2, Zenon
  <2>. DEFINE f == [k \in 0 .. m |-> IF k = m THEN step[m - 1][g[m - 1]] ELSE g[k]]
  <2>2. m - 1 \in 0 .. n - 1 /\ step[m - 1] \in [X -> X] /\ g[m - 1] \in X
    OBVIOUS
  <2>3. f \in [0 .. m -> X]
    BY <2>2
  <2>4. f[0] = s
    BY <2>1
  <2>5. ASSUME NEW k \in 1 .. m PROVE f[k] = step[k - 1][f[k - 1]]
    <3>1. f[k - 1] = g[k - 1]
      OBVIOUS
    <3>2. CASE k = m
      BY <3>1, <3>2
    <3>3. CASE k # m
      <4>1. k \in 1 .. m - 1 /\ f[k] = g[k]
        BY <3>3
      <4>. QED BY <2>1, <3>1, <4>1, Zenon
    <3>. QED BY <3>2, <3>3, Zenon
  <2>. HIDE DEF f
  <2>. QED BY <2>3, <2>4, <2>5
<1>. HIDE DEF S
<1>3. n \in S
  <2>1. \A k \in 1 .. n : k - 1 \in S => k \in S
    BY <1>2, Zenon
  <2>2. \A k \in 0 .. n : k \in S
    BY <1>1, <2>1, Upwards, Zenon
  <2>. QED BY <2>2
<1>. QED BY <1>3, Zenon DEF S, HasRun

-----------------------------------------------------------------------------
(* Handles.                                                                *)

Heap == [refs : [Handle -> Nat], dead : SUBSET Handle, stale : BOOLEAN]
Table == [FD -> Handle \cup {NULL}]

\* The handle was opened once: it is alive, or it was freed.
Known(s, h) == s.refs[h] > 0 \/ h \in s.dead

\* One close, of a handle that was opened.
LEMMA CloseHandleFacts ==
    ASSUME NEW s \in Heap, NEW h \in Handle \cup {NULL}, h # NULL => Known(s, h)
    PROVE  /\ CloseHandle(s, h) \in Heap
           /\ s.dead \subseteq CloseHandle(s, h).dead
           /\ \A g \in Handle : Known(s, g) => Known(CloseHandle(s, h), g)
           /\ \A g \in Handle : g # h => /\ CloseHandle(s, h).refs[g] = s.refs[g]
                                         /\ g \in CloseHandle(s, h).dead => g \in s.dead
<1>1. CASE h = NULL
  BY <1>1, NullIsNoHandle, Zenon DEF CloseHandle
<1>2. CASE h # NULL /\ h \in s.dead
  BY <1>2, Zenon DEF CloseHandle, Heap, Known
<1>3. CASE h # NULL /\ h \notin s.dead
  <2>1. h \in Handle /\ s.refs[h] \in Nat \ {0}
    BY <1>3 DEF Known, Heap
  <2>2. CloseHandle(s, h) = [refs |-> [s.refs EXCEPT ![h] = @ - 1],
                             dead |-> IF s.refs[h] = 1 THEN s.dead \cup {h} ELSE s.dead,
                             stale |-> s.stale]
    BY <1>3, Zenon DEF CloseHandle, Heap
  <2>. QED BY <2>1, <2>2 DEF Known, Heap
<1>. QED BY <1>1, <1>2, <1>3, Zenon

\* One reference more, to a handle that was opened.
LEMMA RefHandleFacts ==
    ASSUME NEW s \in Heap, NEW h \in Handle \cup {NULL}
    PROVE  /\ RefHandle(s, h) \in Heap
           /\ RefHandle(s, h).dead = s.dead
           /\ \A g \in Handle : Known(s, g) => Known(RefHandle(s, h), g)
           /\ \A g \in Handle : RefHandle(s, h).refs[g] = IF g = h THEN s.refs[g] + 1 ELSE s.refs[g]
           /\ RefHandle(s, h).stale = (s.stale \/ h \in s.dead)
<1>1. CASE h = NULL
  BY <1>1, NullIsNoHandle, Zenon DEF RefHandle, Heap
<1>2. CASE h # NULL
  <2>1. RefHandle(s, h) = [refs |-> [s.refs EXCEPT ![h] = @ + 1],
                           dead |-> s.dead,
                           stale |-> s.stale \/ h \in s.dead]
    BY <1>2, Zenon DEF RefHandle, Heap
  <2>. QED BY <1>2, <2>1 DEF Known, Heap
<1>. QED BY <1>1, <1>2, Zenon

\* The loop that closes every descriptor of a table is what CloseAll says.
LEMMA CloseAllRuns ==
    ASSUME NEW s \in Heap, NEW t \in Table, \A i \in FD : t[i] # NULL => Known(s, t[i])
    PROVE  \E g \in [0 .. NFD -> Heap] :
              /\ g[0] = s /\ CloseAll(s, t) = g[NFD]
              /\ \A k \in 1 .. NFD : /\ g[k] = CloseHandle(g[k - 1], t[k - 1])
                                     /\ t[k - 1] # NULL => Known(g[k - 1], t[k - 1])
<1>. DEFINE X == {x \in Heap : \A h \in Handle : Known(s, h) => Known(x, h)}
            step == [k \in 0 .. NFD - 1 |-> [x \in X |-> CloseHandle(x, t[k])]]
            F(g) == [k \in 0 .. NFD |-> IF k = 0 THEN s ELSE CloseHandle(g[k - 1], t[k - 1])]
<1>0. NFD \in Nat /\ NFD > 2 /\ \A k \in 1 .. NFD : k - 1 \in FD /\ k - 1 \in 0 .. NFD - 1
  BY DescriptorType DEF FD
<1>1. ASSUME NEW k \in FD, NEW x \in X PROVE CloseHandle(x, t[k]) \in X
  <2>1. t[k] \in Handle \cup {NULL} /\ (t[k] # NULL => Known(x, t[k]))
    BY Zenon DEF Table
  <2>. QED BY <2>1, CloseHandleFacts, Zenon
<1>2. step \in [0 .. NFD - 1 -> [X -> X]] /\ s \in X
  BY <1>1, Zenon DEF FD
<1>a. \A k \in 1 .. NFD : \A x \in X : step[k - 1][x] = CloseHandle(x, t[k - 1])
  BY <1>0, Zenon
<1>. HIDE DEF X, step
<1>3. PICK g \in [0 .. NFD -> X] : g[0] = s /\ \A k \in 1 .. NFD : g[k] = step[k - 1][g[k - 1]]
  <2>1. \E g \in [0 .. NFD -> X] : g[0] = s /\ \A k \in 1 .. NFD : g[k] = step[k - 1][g[k - 1]]
    <3>1. HasRun(NFD, X, s, step)
      BY <1>0, <1>2, LoopRuns, Zenon
    <3>. QED BY <3>1, Zenon DEF HasRun
  <2>. QED BY <2>1, Zenon
<1>4. ASSUME NEW k \in 1 .. NFD PROVE g[k] = CloseHandle(g[k - 1], t[k - 1])
  <2>1. k - 1 \in 0 .. NFD
    BY <1>0
  <2>2. g[k - 1] \in X
    BY <2>1, Zenon
  <2>. QED BY <1>a, <1>3, <2>2, Zenon
<1>5. g = F(g)
  <2>1. ASSUME NEW k \in 0 .. NFD
        PROVE  g[k] = IF k = 0 THEN s ELSE CloseHandle(g[k - 1], t[k - 1])
    <3>1. CASE k = 0
      BY <1>3, <3>1, Zenon
    <3>2. CASE k # 0
      <4>1. k \in 1 .. NFD
        BY <1>0, <3>2
      <4>. QED BY <1>4, <3>2, <4>1, Zenon
    <3>. QED BY <3>1, <3>2, Zenon
  <2>. QED BY <2>1, Zenon
<1>. DEFINE after == CHOOSE g2 : g2 = F(g2)
<1>6. after = F(after)
  BY <1>5, Zenon
<1>7. CloseAll(s, t) = after[NFD]
  BY Zenon DEF CloseAll
<1>. HIDE DEF after
<1>. DEFINE S == {k \in 0 .. NFD : after[k] = g[k]}
<1>8. 0 \in S
  BY <1>0, <1>3, <1>6
<1>9. ASSUME NEW k \in 1 .. NFD, k - 1 \in S PROVE k \in S
  <2>1. after[k] = CloseHandle(after[k - 1], t[k - 1])
    BY <1>0, <1>6
  <2>. QED BY <1>4, <1>9, <2>1
<1>. HIDE DEF S
<1>10. NFD \in S
  <2>1. \A k \in 1 .. NFD : k - 1 \in S => k \in S
    BY <1>9, Zenon
  <2>2. \A k \in 0 .. NFD : k \in S
    BY <1>0, <1>8, <2>1, Upwards, Zenon
  <2>. QED BY <1>0, <2>2
<1>11. CloseAll(s, t) = g[NFD]
  BY <1>7, <1>10, Zenon DEF S
<1>12. g \in [0 .. NFD -> Heap]
  BY Zenon DEF X
<1>13. ASSUME NEW k \in 1 .. NFD, t[k - 1] # NULL PROVE Known(g[k - 1], t[k - 1])
  <2>1. k - 1 \in 0 .. NFD /\ g[k - 1] \in X /\ t[k - 1] \in Handle
    BY <1>0, <1>13 DEF Table
  <2>. QED BY <1>0, <1>13, <2>1, Zenon DEF X
<1>. QED BY <1>3, <1>4, <1>11, <1>12, <1>13, Zenon

\* The same for the loop that references every descriptor of a table.
LEMMA RefAllRuns ==
    ASSUME NEW s \in Heap, NEW t \in Table
    PROVE  \E g \in [0 .. NFD -> Heap] :
              /\ g[0] = s /\ RefAll(s, t) = g[NFD]
              /\ \A k \in 1 .. NFD : g[k] = RefHandle(g[k - 1], t[k - 1])
<1>. DEFINE step == [k \in 0 .. NFD - 1 |-> [x \in Heap |-> RefHandle(x, t[k])]]
            F(g) == [k \in 0 .. NFD |-> IF k = 0 THEN s ELSE RefHandle(g[k - 1], t[k - 1])]
<1>0. NFD \in Nat /\ NFD > 2 /\ \A k \in 1 .. NFD : k - 1 \in FD /\ k - 1 \in 0 .. NFD - 1
  BY DescriptorType DEF FD
<1>1. ASSUME NEW k \in FD, NEW x \in Heap PROVE RefHandle(x, t[k]) \in Heap
  BY RefHandleFacts, Zenon DEF Table
<1>2. step \in [0 .. NFD - 1 -> [Heap -> Heap]]
  BY <1>1, Zenon DEF FD
<1>a. \A k \in 1 .. NFD : \A x \in Heap : step[k - 1][x] = RefHandle(x, t[k - 1])
  BY <1>0, Zenon
<1>. HIDE DEF step
<1>3. PICK g \in [0 .. NFD -> Heap] : g[0] = s /\ \A k \in 1 .. NFD : g[k] = step[k - 1][g[k - 1]]
  <2>1. \E g \in [0 .. NFD -> Heap] : g[0] = s /\ \A k \in 1 .. NFD : g[k] = step[k - 1][g[k - 1]]
    <3>1. HasRun(NFD, Heap, s, step)
      BY <1>0, <1>2, LoopRuns, Zenon
    <3>. QED BY <3>1, Zenon DEF HasRun
  <2>. QED BY <2>1, Zenon
<1>4. ASSUME NEW k \in 1 .. NFD PROVE g[k] = RefHandle(g[k - 1], t[k - 1])
  <2>1. k - 1 \in 0 .. NFD
    BY <1>0
  <2>2. g[k - 1] \in Heap
    BY <2>1, Zenon
  <2>. QED BY <1>a, <1>3, <2>2, Zenon
<1>5. g = F(g)
  <2>1. ASSUME NEW k \in 0 .. NFD
        PROVE  g[k] = IF k = 0 THEN s ELSE RefHandle(g[k - 1], t[k - 1])
    <3>1. CASE k = 0
      BY <1>3, <3>1, Zenon
    <3>2. CASE k # 0
      <4>1. k \in 1 .. NFD
        BY <1>0, <3>2
      <4>. QED BY <1>4, <3>2, <4>1, Zenon
    <3>. QED BY <3>1, <3>2, Zenon
  <2>. QED BY <2>1, Zenon
<1>. DEFINE after == CHOOSE g2 : g2 = F(g2)
<1>6. after = F(after)
  BY <1>5, Zenon
<1>7. RefAll(s, t) = after[NFD]
  BY Zenon DEF RefAll
<1>. HIDE DEF after
<1>. DEFINE S == {k \in 0 .. NFD : after[k] = g[k]}
<1>8. 0 \in S
  BY <1>0, <1>3, <1>6
<1>9. ASSUME NEW k \in 1 .. NFD, k - 1 \in S PROVE k \in S
  <2>1. after[k] = RefHandle(after[k - 1], t[k - 1])
    BY <1>0, <1>6
  <2>. QED BY <1>4, <1>9, <2>1
<1>. HIDE DEF S
<1>10. NFD \in S
  <2>1. \A k \in 1 .. NFD : k - 1 \in S => k \in S
    BY <1>9, Zenon
  <2>2. \A k \in 0 .. NFD : k \in S
    BY <1>0, <1>8, <2>1, Upwards, Zenon
  <2>. QED BY <1>0, <2>2
<1>11. RefAll(s, t) = g[NFD]
  BY <1>7, <1>10, Zenon DEF S
<1>. QED BY <1>3, <1>4, <1>11, Zenon

\* Closing every descriptor of a table never takes a count below zero.
LEMMA CloseAllFacts ==
    ASSUME NEW s \in Heap, NEW t \in Table, \A i \in FD : t[i] # NULL => Known(s, t[i])
    PROVE  /\ CloseAll(s, t) \in Heap
           /\ \A h \in Handle : Known(s, h) => Known(CloseAll(s, t), h)
<1>0. NFD \in Nat /\ \A k \in 1 .. NFD : k - 1 \in FD /\ k - 1 \in 0 .. NFD
  BY DescriptorType DEF FD
<1>1. PICK g \in [0 .. NFD -> Heap] :
         /\ g[0] = s /\ CloseAll(s, t) = g[NFD]
         /\ \A k \in 1 .. NFD : /\ g[k] = CloseHandle(g[k - 1], t[k - 1])
                                /\ t[k - 1] # NULL => Known(g[k - 1], t[k - 1])
  BY CloseAllRuns, Zenon
<1>. DEFINE S == {k \in 0 .. NFD : \A h \in Handle : Known(s, h) => Known(g[k], h)}
<1>2. 0 \in S
  BY <1>0, <1>1
<1>3. ASSUME NEW k \in 1 .. NFD, k - 1 \in S PROVE k \in S
  <2>1. g[k - 1] \in Heap /\ t[k - 1] \in Handle \cup {NULL}
    BY <1>0, Zenon DEF Table
  <2>2. \A h \in Handle : Known(g[k - 1], h) => Known(CloseHandle(g[k - 1], t[k - 1]), h)
    BY <1>1, <2>1, CloseHandleFacts, Zenon
  <2>. QED BY <1>1, <1>3, <2>2
<1>. HIDE DEF S
<1>4. NFD \in S
  <2>1. \A k \in 1 .. NFD : k - 1 \in S => k \in S
    BY <1>3, Zenon
  <2>2. \A k \in 0 .. NFD : k \in S
    BY <1>0, <1>2, <2>1, Upwards, Zenon
  <2>. QED BY <1>0, <2>2
<1>. QED BY <1>0, <1>1, <1>4, Zenon DEF S

\* Referencing every descriptor of a table loses no handle.
LEMMA RefAllFacts ==
    ASSUME NEW s \in Heap, NEW t \in Table
    PROVE  /\ RefAll(s, t) \in Heap
           /\ \A h \in Handle : Known(s, h) => Known(RefAll(s, t), h)
<1>0. NFD \in Nat /\ \A k \in 1 .. NFD : k - 1 \in FD /\ k - 1 \in 0 .. NFD
  BY DescriptorType DEF FD
<1>1. PICK g \in [0 .. NFD -> Heap] :
         /\ g[0] = s /\ RefAll(s, t) = g[NFD]
         /\ \A k \in 1 .. NFD : g[k] = RefHandle(g[k - 1], t[k - 1])
  BY RefAllRuns, Zenon
<1>. DEFINE S == {k \in 0 .. NFD : \A h \in Handle : Known(s, h) => Known(g[k], h)}
<1>2. 0 \in S
  BY <1>0, <1>1
<1>3. ASSUME NEW k \in 1 .. NFD, k - 1 \in S PROVE k \in S
  <2>1. g[k - 1] \in Heap /\ t[k - 1] \in Handle \cup {NULL}
    BY <1>0, Zenon DEF Table
  <2>2. \A h \in Handle : Known(g[k - 1], h) => Known(RefHandle(g[k - 1], t[k - 1]), h)
    BY <1>1, <2>1, RefHandleFacts, Zenon
  <2>. QED BY <1>1, <1>3, <2>2
<1>. HIDE DEF S
<1>4. NFD \in S
  <2>1. \A k \in 1 .. NFD : k - 1 \in S => k \in S
    BY <1>3, Zenon
  <2>2. \A k \in 0 .. NFD : k \in S
    BY <1>0, <1>2, <2>1, Upwards, Zenon
  <2>. QED BY <1>0, <2>2
<1>. QED BY <1>0, <1>1, <1>4, Zenon DEF S

-----------------------------------------------------------------------------
(* How often a table leads to a handle.                                    *)

Upto(t, h, k) == Cardinality({i \in 0 .. k - 1 : t[i] = h})
Times(t, h) == Cardinality({i \in FD : t[i] = h})

\* Counting along the table.
LEMMA UptoFacts ==
    ASSUME NEW t, NEW h
    PROVE  /\ \A k \in 0 .. NFD : Upto(t, h, k) \in Nat /\ Upto(t, h, k) <= Times(t, h)
           /\ Upto(t, h, 0) = 0 /\ Upto(t, h, NFD) = Times(t, h) /\ Times(t, h) \in Nat
           /\ \A k \in 1 .. NFD :
                 Upto(t, h, k) = IF t[k - 1] = h THEN Upto(t, h, k - 1) + 1 ELSE Upto(t, h, k - 1)
<1>. DEFINE I(k) == {i \in 0 .. k - 1 : t[i] = h}
<1>0. NFD \in Nat
  BY DescriptorType, Zenon
<1>1. ASSUME NEW k \in 0 .. NFD PROVE IsFiniteSet(I(k)) /\ Upto(t, h, k) \in Nat /\ I(k) \subseteq I(NFD)
  <2>1. 0 .. k - 1 \subseteq 0 .. NFD - 1 /\ k - 1 \in Int
    BY <1>0
  <2>2. IsFiniteSet(0 .. k - 1)
    BY <2>1, FS_Interval
  <2>3. I(k) \in SUBSET (0 .. k - 1) /\ I(k) \subseteq I(NFD)
    BY <2>1, Zenon
  <2>. QED BY <2>2, <2>3, FS_Subset, FS_CardinalityType, Zenon DEF Upto
<1>2. Times(t, h) = Upto(t, h, NFD)
  BY Zenon DEF Times, Upto, FD
<1>3. I(0) = {}
  OBVIOUS
<1>4. Upto(t, h, 0) = 0
  BY <1>3, FS_EmptySet, Zenon DEF Upto
<1>5. ASSUME NEW k \in 0 .. NFD PROVE Upto(t, h, k) <= Times(t, h)
  <2>0. NFD \in 0 .. NFD
    BY <1>0
  <2>1. I(k) \in SUBSET I(NFD) /\ IsFiniteSet(I(NFD))
    <3>. HIDE DEF I
    <3>. QED BY <1>1, <2>0, Zenon
  <2>. HIDE DEF I
  <2>2. Cardinality(I(k)) <= Cardinality(I(NFD))
    BY <2>1, FS_Subset, Zenon
  <2>. QED BY <1>2, <2>2, Zenon DEF Upto, I
<1>6. ASSUME NEW k \in 1 .. NFD
      PROVE  Upto(t, h, k) = IF t[k - 1] = h THEN Upto(t, h, k - 1) + 1 ELSE Upto(t, h, k - 1)
  <2>0. k - 1 \in 0 .. NFD
    BY <1>0
  <2>1. IsFiniteSet(I(k - 1)) /\ k - 1 \notin I(k - 1)
    <3>1. k - 1 \notin I(k - 1)
      BY <2>0
    <3>. HIDE DEF I
    <3>. QED BY <1>1, <2>0, <3>1, Zenon
  <2>2. CASE t[k - 1] = h
    <3>1. I(k) = I(k - 1) \cup {k - 1}
      BY <1>0, <2>2
    <3>. HIDE DEF I
    <3>2. Cardinality(I(k)) = Cardinality(I(k - 1)) + 1
      BY <2>1, <3>1, FS_AddElement, Zenon
    <3>. QED BY <2>2, <3>2, Zenon DEF Upto, I
  <2>3. CASE t[k - 1] # h
    <3>1. I(k) = I(k - 1)
      BY <1>0, <2>3
    <3>. QED BY <2>3, <3>1, Zenon DEF Upto
  <2>. QED BY <2>2, <2>3, Zenon
<1>7. NFD \in 0 .. NFD
  BY <1>0
<1>. QED BY <1>1, <1>2, <1>4, <1>5, <1>6, <1>7, Zenon

\* One close of a handle that is alive.
LEMMA CloseAlive ==
    ASSUME NEW s \in Heap, NEW h \in Handle, h \notin s.dead, s.refs[h] > 0
    PROVE  /\ \A g \in Handle :
                 /\ CloseHandle(s, h).refs[g] = IF g = h THEN s.refs[g] - 1 ELSE s.refs[g]
                 /\ g \in CloseHandle(s, h).dead <=> g \in s.dead \/ (g = h /\ s.refs[h] = 1)
           /\ CloseHandle(s, h).stale = s.stale
<1>1. CloseHandle(s, h) = [refs |-> [s.refs EXCEPT ![h] = @ - 1],
                           dead |-> IF s.refs[h] = 1 THEN s.dead \cup {h} ELSE s.dead,
                           stale |-> s.stale]
  BY NullIsNoHandle, Zenon DEF CloseHandle, Heap
<1>. QED BY <1>1 DEF Heap

(* Closing every descriptor of a table takes off the count of a handle     *)
(* what the table adds to it, and frees the handle if nothing is left.     *)
LEMMA CloseAllExact ==
    ASSUME NEW s \in Heap, NEW t \in Table, ~s.stale,
           \A h \in Handle : Times(t, h) <= s.refs[h] /\ (Times(t, h) > 0 => h \notin s.dead)
    PROVE  /\ CloseAll(s, t) \in Heap /\ ~CloseAll(s, t).stale
           /\ \A h \in Handle :
                 /\ CloseAll(s, t).refs[h] = s.refs[h] - Times(t, h)
                 /\ h \in CloseAll(s, t).dead <=>
                       h \in s.dead \/ (Times(t, h) > 0 /\ Times(t, h) = s.refs[h])
<1>. USE NullIsNoHandle
<1>0. NFD \in Nat /\ NFD \in 0 .. NFD /\ \A k \in 1 .. NFD : k - 1 \in FD /\ k - 1 \in 0 .. NFD
  BY DescriptorType DEF FD
<1>a. \A i \in FD : i + 1 \in 1 .. NFD /\ (i + 1) - 1 = i
  BY <1>0 DEF FD
<1>b. \A h \in Handle : s.refs[h] \in Nat
  BY Zenon DEF Heap
<1>c. ASSUME NEW k \in 1 .. NFD, t[k - 1] # NULL
      PROVE  /\ t[k - 1] \in Handle /\ t[k - 1] \notin s.dead
             /\ Upto(t, t[k - 1], k - 1) < s.refs[t[k - 1]] /\ Upto(t, t[k - 1], k - 1) \in Nat
  <2>. DEFINE h == t[k - 1]
  <2>1. h \in Handle
    BY <1>0, <1>c, Zenon DEF Table
  <2>2. /\ Upto(t, h, k) = Upto(t, h, k - 1) + 1 /\ Upto(t, h, k) <= Times(t, h)
        /\ Upto(t, h, k - 1) \in Nat /\ Times(t, h) \in Nat
    BY <1>0, UptoFacts
  <2>. HIDE DEF h
  <2>3. Times(t, h) <= s.refs[h] /\ Times(t, h) > 0 /\ h \notin s.dead
    BY <2>1, <2>2
  <2>4. Upto(t, h, k - 1) < s.refs[h]
    BY <1>b, <2>1, <2>2, <2>3
  <2>. QED BY <2>1, <2>2, <2>3, <2>4, Zenon DEF h
<1>d. \A i \in FD : t[i] # NULL => Known(s, t[i])
  <2>. SUFFICES ASSUME NEW i \in FD, t[i] # NULL PROVE Known(s, t[i])
    BY Zenon
  <2>. DEFINE k == i + 1
  <2>1. k \in 1 .. NFD /\ k - 1 = i
    BY <1>a, Zenon
  <2>. HIDE DEF k
  <2>2. t[i] \in Handle /\ Upto(t, t[i], i) < s.refs[t[i]] /\ Upto(t, t[i], i) \in Nat
    BY <1>c, <2>1, Zenon
  <2>3. s.refs[t[i]] > 0
    BY <1>b, <2>2
  <2>. QED BY <2>3, Zenon DEF Known
<1>1. PICK g \in [0 .. NFD -> Heap] :
         /\ g[0] = s /\ CloseAll(s, t) = g[NFD]
         /\ \A k \in 1 .. NFD : /\ g[k] = CloseHandle(g[k - 1], t[k - 1])
                                /\ t[k - 1] # NULL => Known(g[k - 1], t[k - 1])
  BY <1>d, CloseAllRuns, Zenon
<1>. DEFINE P(k) == /\ ~g[k].stale
                    /\ \A h \in Handle :
                          /\ g[k].refs[h] = s.refs[h] - Upto(t, h, k)
                          /\ h \in g[k].dead <=>
                                h \in s.dead \/ (Upto(t, h, k) > 0 /\ Upto(t, h, k) = s.refs[h])
            S == {k \in 0 .. NFD : P(k)}
<1>2. 0 \in S
  BY <1>0, <1>1, <1>b, UptoFacts
<1>3. ASSUME NEW k \in 1 .. NFD, P(k - 1) PROVE P(k)
  <2>. DEFINE x == t[k - 1]
              y == g[k - 1]
  <2>1. y \in Heap /\ g[k] = CloseHandle(y, x)
    BY <1>0, <1>1, Zenon
  <2>2. CASE x = NULL
    <3>1. g[k] = y
      BY <2>1, <2>2, Zenon DEF CloseHandle
    <3>2. \A h \in Handle : Upto(t, h, k) = Upto(t, h, k - 1)
      BY <2>2, UptoFacts
    <3>. QED BY <1>3, <3>1, <3>2, Zenon
  <2>3. CASE x # NULL
    <3>1. /\ x \in Handle /\ x \notin s.dead
          /\ Upto(t, x, k - 1) < s.refs[x] /\ Upto(t, x, k - 1) \in Nat
      BY <1>c, <2>3, Zenon
    <3>2. x \notin y.dead /\ y.refs[x] > 0 /\ y.refs[x] = s.refs[x] - Upto(t, x, k - 1)
      BY <1>3, <1>b, <3>1
    <3>3. /\ \A h \in Handle :
                /\ g[k].refs[h] = IF h = x THEN y.refs[h] - 1 ELSE y.refs[h]
                /\ h \in g[k].dead <=> h \in y.dead \/ (h = x /\ y.refs[x] = 1)
          /\ g[k].stale = y.stale
      BY <2>1, <3>1, <3>2, CloseAlive
    <3>4. \A h \in Handle : Upto(t, h, k) = IF h = x THEN Upto(t, h, k - 1) + 1 ELSE Upto(t, h, k - 1)
      BY UptoFacts
    <3>5. ~y.stale /\ \A h \in Handle :
             /\ y.refs[h] = s.refs[h] - Upto(t, h, k - 1)
             /\ h \in y.dead <=>
                   h \in s.dead \/ (Upto(t, h, k - 1) > 0 /\ Upto(t, h, k - 1) = s.refs[h])
      BY <1>3, Zenon
    <3>. HIDE DEF x, y
    <3>6. ASSUME NEW h \in Handle
          PROVE  /\ g[k].refs[h] = s.refs[h] - Upto(t, h, k)
                 /\ h \in g[k].dead <=>
                       h \in s.dead \/ (Upto(t, h, k) > 0 /\ Upto(t, h, k) = s.refs[h])
      <4>1. CASE h # x
        BY <3>3, <3>4, <3>5, <4>1, Zenon
      <4>2. CASE h = x
        <5>1. s.refs[h] \in Nat /\ Upto(t, h, k - 1) \in Nat /\ Upto(t, h, k - 1) < s.refs[h]
          BY <1>b, <3>1, <4>2, Zenon
        <5>2. /\ g[k].refs[h] = y.refs[h] - 1 /\ y.refs[h] = s.refs[h] - Upto(t, h, k - 1)
              /\ Upto(t, h, k) = Upto(t, h, k - 1) + 1
              /\ h \in g[k].dead <=> y.refs[h] = 1
              /\ h \notin s.dead
          BY <3>1, <3>2, <3>3, <3>4, <4>2, Zenon
        <5>. QED BY <5>1, <5>2
      <4>. QED BY <4>1, <4>2, Zenon
    <3>. QED BY <3>3, <3>5, <3>6, Zenon
  <2>. QED BY <2>2, <2>3, Zenon
<1>. HIDE DEF P
<1>4. NFD \in S
  <2>. HIDE DEF S
  <2>1. \A k \in 1 .. NFD : k - 1 \in S => k \in S
    BY <1>0, <1>3 DEF S
  <2>2. \A k \in 0 .. NFD : k \in S
    BY <1>0, <1>2, <2>1, Upwards, Zenon
  <2>. QED BY <1>0, <2>2, Zenon
<1>5. P(NFD) /\ g[NFD] \in Heap
  BY <1>0, <1>4, Zenon
<1>6. \A h \in Handle : Upto(t, h, NFD) = Times(t, h)
  BY UptoFacts, Zenon
<1>. QED BY <1>1, <1>5, <1>6, Zenon DEF P

(* Referencing every descriptor of a table adds to the count of a handle   *)
(* what the table adds to it.                                              *)
LEMMA RefAllExact ==
    ASSUME NEW s \in Heap, NEW t \in Table, ~s.stale, \A i \in FD : t[i] \notin s.dead
    PROVE  /\ RefAll(s, t) \in Heap /\ ~RefAll(s, t).stale
           /\ RefAll(s, t).dead = s.dead
           /\ \A h \in Handle : RefAll(s, t).refs[h] = s.refs[h] + Times(t, h)
<1>0. NFD \in Nat /\ NFD \in 0 .. NFD /\ \A k \in 1 .. NFD : k - 1 \in FD /\ k - 1 \in 0 .. NFD
  BY DescriptorType DEF FD
<1>b. \A h \in Handle : s.refs[h] \in Nat
  BY Zenon DEF Heap
<1>1. PICK g \in [0 .. NFD -> Heap] :
         /\ g[0] = s /\ RefAll(s, t) = g[NFD]
         /\ \A k \in 1 .. NFD : g[k] = RefHandle(g[k - 1], t[k - 1])
  BY RefAllRuns, Zenon
<1>. DEFINE P(k) == /\ ~g[k].stale /\ g[k].dead = s.dead
                    /\ \A h \in Handle : g[k].refs[h] = s.refs[h] + Upto(t, h, k)
            S == {k \in 0 .. NFD : P(k)}
<1>2. 0 \in S
  BY <1>0, <1>1, <1>b, UptoFacts
<1>3. ASSUME NEW k \in 1 .. NFD, P(k - 1) PROVE P(k)
  <2>. DEFINE x == t[k - 1]
              y == g[k - 1]
  <2>1. /\ y \in Heap /\ g[k] = RefHandle(y, x) /\ x \in Handle \cup {NULL}
        /\ x \notin s.dead
    BY <1>0, <1>1, Zenon DEF Table
  <2>2. /\ ~y.stale /\ y.dead = s.dead
        /\ \A h \in Handle : y.refs[h] = s.refs[h] + Upto(t, h, k - 1)
    BY <1>3, Zenon
  <2>3. \A h \in Handle : /\ Upto(t, h, k) = IF x = h THEN Upto(t, h, k - 1) + 1 ELSE Upto(t, h, k - 1)
                          /\ Upto(t, h, k - 1) \in Nat
    BY <1>0, UptoFacts, Zenon
  <2>. HIDE DEF x, y
  <2>4. /\ g[k].dead = y.dead /\ g[k].stale = (y.stale \/ x \in y.dead)
        /\ \A h \in Handle : g[k].refs[h] = IF h = x THEN y.refs[h] + 1 ELSE y.refs[h]
    BY <2>1, RefHandleFacts
  <2>5. ~g[k].stale /\ g[k].dead = s.dead
    BY <2>1, <2>2, <2>4, Zenon
  <2>. QED BY <1>b, <2>2, <2>3, <2>4, <2>5
<1>. HIDE DEF P
<1>4. NFD \in S
  <2>. HIDE DEF S
  <2>1. \A k \in 1 .. NFD : k - 1 \in S => k \in S
    BY <1>0, <1>3 DEF S
  <2>2. \A k \in 0 .. NFD : k \in S
    BY <1>0, <1>2, <2>1, Upwards, Zenon
  <2>. QED BY <1>0, <2>2, Zenon
<1>5. P(NFD) /\ g[NFD] \in Heap
  BY <1>0, <1>4, Zenon
<1>6. \A h \in Handle : Upto(t, h, NFD) = Times(t, h)
  BY UptoFacts, Zenon
<1>. QED BY <1>1, <1>5, <1>6, Zenon DEF P

-----------------------------------------------------------------------------
(* The descriptors of all processes that lead to a handle.                 *)
Uses(f, h) == {s \in Slot : f[s[1]][s[2]] = h}
Count(f, h) == Cardinality(Uses(f, h))

\* There are finitely many descriptors, of a process and of all.
LEMMA FiniteTable == IsFiniteSet(FD) /\ IsFiniteSet(Slot)
<1>1. 0 \in Int /\ NFD - 1 \in Int
  BY DescriptorType
<1>2. IsFiniteSet(FD)
  BY <1>1, FS_Interval, Zenon DEF FD
<1>. QED BY <1>2, FiniteProcesses, FS_Product, Zenon DEF Slot

\* The descriptors of one process and those of the others.
LEMMA CountSplit ==
    ASSUME NEW f, NEW h, NEW c \in Process
    PROVE  /\ Times(f[c], h) \in Nat
           /\ Cardinality({s \in Uses(f, h) : s[1] # c}) \in Nat
           /\ Count(f, h) = Cardinality({s \in Uses(f, h) : s[1] # c}) + Times(f[c], h)
<1>. DEFINE R == {s \in Uses(f, h) : s[1] # c}
            I == {i \in FD : f[c][i] = h}
            C == {c} \X I
<1>1. IsFiniteSet(R) /\ IsFiniteSet(I)
  <2>1. R \in SUBSET Slot /\ I \in SUBSET FD
    BY Zenon DEF Uses
  <2>. QED BY <2>1, FiniteTable, FS_Subset, Zenon
<1>2. Uses(f, h) = R \cup C /\ R \cap C = {}
  BY Zenon DEF Uses, Slot
<1>3. IsFiniteSet({c}) /\ Cardinality({c}) = 1
  BY FS_Singleton, Zenon
<1>. HIDE DEF R, I
<1>4. IsFiniteSet(C) /\ Cardinality(C) = 1 * Cardinality(I) /\ Cardinality(I) \in Nat
  BY <1>1, <1>3, FS_Product, FS_CardinalityType, Zenon
<1>. HIDE DEF C
<1>5. Cardinality(R \cup C) = Cardinality(R) + Cardinality(C) - Cardinality(R \cap C)
  BY <1>1, <1>4, FS_Union, Zenon
<1>6. Cardinality(R \cap C) = 0 /\ Cardinality(R) \in Nat
  BY <1>1, <1>2, FS_EmptySet, FS_CardinalityType, Zenon
<1>7. Count(f, h) = Cardinality(R) + Cardinality(I)
  BY <1>2, <1>4, <1>5, <1>6 DEF Count
<1>. QED BY <1>4, <1>6, <1>7, Zenon DEF R, I, Times

\* The whole table of a process is replaced.
LEMMA NewTable ==
    ASSUME NEW f \in [Process -> Table], NEW h, NEW c \in Process, NEW t \in Table
    PROVE  /\ Count([f EXCEPT ![c] = t], h) = (Count(f, h) - Times(f[c], h)) + Times(t, h)
           /\ Times(f[c], h) <= Count(f, h)
           /\ Count(f, h) \in Nat /\ Times(f[c], h) \in Nat /\ Times(t, h) \in Nat
<1>. DEFINE g == [f EXCEPT ![c] = t]
            R(e) == {s \in Uses(e, h) : s[1] # c}
<1>1. R(g) = R(f) /\ g[c] = t
  BY Zenon DEF Uses, Slot
<1>. HIDE DEF g
<1>2. /\ Count(f, h) = Cardinality(R(f)) + Times(f[c], h)
      /\ Cardinality(R(f)) \in Nat /\ Times(f[c], h) \in Nat
      /\ Count(g, h) = Cardinality(R(g)) + Times(g[c], h) /\ Times(g[c], h) \in Nat
  BY CountSplit, Zenon
<1>. HIDE DEF R
<1>3. /\ Count(g, h) = (Count(f, h) - Times(f[c], h)) + Times(t, h)
      /\ Times(f[c], h) <= Count(f, h)
      /\ Count(f, h) \in Nat /\ Times(f[c], h) \in Nat /\ Times(t, h) \in Nat
  BY <1>1, <1>2
<1>. QED BY <1>3, Zenon DEF g

\* One descriptor of a process is replaced.
Put(f, p, i, h) == [f EXCEPT ![p][i] = h]
Hit(g, h) == IF g = h THEN 1 ELSE 0

\* BT_SetProcessFileDescriptor moves one descriptor from one handle to another.
LEMMA NewDescriptor ==
    ASSUME NEW f \in [Process -> Table], NEW g, NEW p \in Process, NEW i \in FD,
           NEW h \in Handle \cup {NULL}
    PROVE  /\ Count(Put(f, p, i, h), g) = (Count(f, g) - Hit(f[p][i], g)) + Hit(h, g)
           /\ f[p][i] = g => Count(f, g) > 0
           /\ Count(f, g) \in Nat
<1>. DEFINE t == [f[p] EXCEPT ![i] = h]
            I(u) == {j \in FD : u[j] = g}
            N == I(f[p]) \ {i}
<1>1. f[p] \in Table /\ t \in Table /\ Put(f, p, i, h) = [f EXCEPT ![p] = t]
  BY Zenon DEF Table, Put
<1>2. /\ I(t) = IF h = g THEN N \cup {i} ELSE N
      /\ i \notin N
      /\ I(f[p]) = IF f[p][i] = g THEN N \cup {i} ELSE N
  BY <1>1, Zenon DEF Table
<1>3. IsFiniteSet(N)
  <2>1. N \in SUBSET FD
    BY Zenon
  <2>. QED BY <2>1, FiniteTable, FS_Subset, Zenon
<1>. HIDE DEF N, I, t
<1>4. Cardinality(N \cup {i}) = Cardinality(N) + 1 /\ Cardinality(N) \in Nat
  BY <1>2, <1>3, FS_AddElement, FS_CardinalityType, Zenon
<1>5. /\ Times(t, g) = Cardinality(N) + IF h = g THEN 1 ELSE 0
      /\ Times(f[p], g) = Cardinality(N) + IF f[p][i] = g THEN 1 ELSE 0
  <2>1. Times(t, g) = Cardinality(I(t)) /\ Times(f[p], g) = Cardinality(I(f[p]))
    BY Zenon DEF Times, I
  <2>. QED BY <1>2, <1>4, <2>1
<1>6. /\ Count([f EXCEPT ![p] = t], g) = (Count(f, g) - Times(f[p], g)) + Times(t, g)
      /\ Times(f[p], g) <= Count(f, g) /\ Count(f, g) \in Nat
  <2>. DEFINE c == p
  <2>1. c \in Process /\ t \in Table
    BY <1>1, Zenon
  <2>. HIDE DEF c
  <2>2. /\ Count([f EXCEPT ![c] = t], g) = (Count(f, g) - Times(f[c], g)) + Times(t, g)
        /\ Times(f[c], g) <= Count(f, g) /\ Count(f, g) \in Nat
    BY <2>1, NewTable, Zenon
  <2>. QED BY <2>2, Zenon DEF c
<1>7. Count(Put(f, p, i, h), g) = Count([f EXCEPT ![p] = t], g)
  BY <1>1, Zenon
<1>. QED BY <1>4, <1>5, <1>6, <1>7 DEF Hit

-----------------------------------------------------------------------------
(* Whatever processes open, close, create and destroy, and in whatever     *)
(* order a new thread and its creator run.                                 *)

\* A handle that a descriptor leads to, or that is attached, was opened.
Opened ==
    /\ \A p \in Process, i \in FD : fds[p][i] # NULL => Known(heap, fds[p][i])
    /\ \A h \in Handle : by[h] # NULL => Known(heap, h)

GInv == WellTyped /\ LowestFree /\ pstate[KERNEL] = "up" /\ Opened

\* bt_process_init establishes the general invariant.
LEMMA InitGInv == ASSUME Init PROVE GInv
<1>0. Std \subseteq FD /\ 0 \in FD /\ 2 \in FD
  BY DescriptorType DEF Std, FD
<1>1. WellTyped
  BY <1>0, KernelIsProcess, Zenon DEF Init, WellTyped
<1>2. LowestFree
  BY <1>0, KernelIsProcess, DescriptorType DEF Init, LowestFree, Std, FD
<1>3. Opened
  BY Zenon DEF Init, Opened
<1>. QED BY <1>1, <1>2, <1>3, KernelIsProcess, Zenon DEF GInv, Init

\* The first free descriptor of a table.
LEMMA LowestFacts ==
    ASSUME GInv, NEW p \in Process, FreeFrom(p) # {}
    PROVE  /\ Lowest(FreeFrom(p)) \in FD /\ Lowest(FreeFrom(p)) \notin flags[p]
           /\ Lowest(FreeFrom(p)) >= free_fd[p]
           /\ \A j \in FD : j < Lowest(FreeFrom(p)) => j < free_fd[p] \/ j \in flags[p]
<1>. DEFINE F == FreeFrom(p)
            below == {ss \in Nat \X Nat : ss[1] < ss[2]}
<1>0. NFD \in Nat /\ free_fd[p] \in FD /\ FD = 0 .. NFD - 1
  BY DescriptorType, Zenon DEF GInv, WellTyped, FD
<1>1. OpToRel(<, Nat) = below
  BY Zenon DEF OpToRel
<1>2. \A x, y \in Nat : x < y => <<x, y>> \in below
  BY Zenon
<1>. HIDE DEF below
<1>3. F \in SUBSET Nat /\ F # {}
  BY <1>0 DEF FreeFrom
<1>a. \A y : y \in F <=> y \in FD /\ y >= free_fd[p] /\ y \notin flags[p]
  BY <1>0 DEF FreeFrom
<1>. HIDE DEF F
<1>4. PICK x \in F : \A y \in F : ~(<<y, x>> \in below)
  BY <1>1, <1>3, WFMin, NatLessThanWellFounded, Zenon
<1>5. \A y \in F : x <= y
  <2>. SUFFICES ASSUME NEW y \in F, y < x PROVE FALSE
    BY <1>3
  <2>1. <<y, x>> \in below
    BY <1>2, <1>3, Zenon
  <2>. QED BY <1>4, <2>1, Zenon
<1>6. Lowest(F) \in F /\ \A y \in F : Lowest(F) <= y
  BY <1>5, Zenon DEF Lowest
<1>. DEFINE l == Lowest(F)
<1>. HIDE DEF l
<1>7. /\ l \in FD /\ l \notin flags[p] /\ l >= free_fd[p]
      /\ \A j \in FD : j < l => j < free_fd[p] \/ j \in flags[p]
  <2>1. l \in F /\ \A y \in F : l <= y
    BY <1>6, Zenon DEF l
  <2>. QED BY <1>0, <1>a, <2>1
<1>. QED BY <1>7, Zenon DEF l, F

\* A step that leaves the kernel's bitmap and free_fd and all tables alone.
LEMMA QuietKeeps ==
    ASSUME GInv, UNCHANGED tableVars, pstate'[KERNEL] = "up",
           pstate' \in [Process -> {"none", "started", "up", "destroyed"}],
           parent' \in [Process -> Process],
           hold' \in [Handle -> {"nobody", "opener", "descriptor"}],
           heap' \in Heap, \A g \in Handle : Known(heap, g) => Known(heap', g),
           by' \in [Handle -> Process \cup {NULL}],
           \A h \in Handle : by'[h] # by[h] => Known(heap', h)
    PROVE  GInv'
<1>1. WellTyped'
  BY Zenon DEF GInv, WellTyped, tableVars, Heap
<1>2. LowestFree'
  BY Zenon DEF GInv, LowestFree, tableVars
<1>3. Opened'
  BY NullIsNoHandle DEF GInv, WellTyped, Opened, tableVars
<1>. QED BY <1>1, <1>2, <1>3, Zenon DEF GInv

\* BT_Open in the kernel preserves it: the handle was not open.
LEMMA OpenDeviceG ==
    ASSUME GInv, NEW p \in Process, NEW h \in Handle, OpenDevice(p, h) PROVE GInv'
<1>1. heap \in Heap /\ heap' = [refs |-> [heap.refs EXCEPT ![h] = 1], dead |-> heap.dead, stale |-> heap.stale]
  BY Zenon DEF GInv, WellTyped, Heap, OpenDevice
<1>2. heap' \in Heap /\ Known(heap', h) /\ \A g \in Handle : Known(heap, g) => Known(heap', g)
  BY <1>1 DEF Heap, Known
<1>3. /\ by' \in [Handle -> Process \cup {NULL}] /\ \A g \in Handle : by'[g] # by[g] => g = h
      /\ hold' \in [Handle -> {"nobody", "opener", "descriptor"}]
  BY Zenon DEF GInv, WellTyped, OpenDevice
<1>4. UNCHANGED tableVars /\ UNCHANGED <<pstate, parent>>
  BY Zenon DEF OpenDevice
<1>. QED BY <1>2, <1>3, <1>4, QuietKeeps, Zenon DEF GInv, WellTyped

\* BT_CloseHandle preserves it: the count was not zero.
LEMMA CloseDeviceG ==
    ASSUME GInv, NEW p \in Process, NEW h \in Handle, CloseDevice(p, h) PROVE GInv'
<1>1. heap \in Heap /\ Known(heap, h)
  BY NullIsNoHandle, Zenon DEF GInv, WellTyped, Heap, CloseDevice, Opened
<1>2. heap' \in Heap /\ \A g \in Handle : Known(heap, g) => Known(heap', g)
  BY <1>1, CloseHandleFacts, Zenon DEF CloseDevice
<1>3. /\ by' = by
      /\ hold' \in [Handle -> {"nobody", "opener", "descriptor"}]
  BY Zenon DEF GInv, WellTyped, CloseDevice
<1>4. UNCHANGED tableVars /\ UNCHANGED <<pstate, parent>>
  BY Zenon DEF CloseDevice
<1>. QED BY <1>2, <1>3, <1>4, QuietKeeps, Zenon DEF GInv, WellTyped

\* One descriptor of a process is set.
LEMMA SetDescriptorFacts ==
    ASSUME NEW s \in Heap, NEW old \in Handle \cup {NULL}, NEW h \in Handle \cup {NULL},
           old # NULL => Known(s, old)
    PROVE  /\ RefHandle(CloseHandle(s, old), h) \in Heap
           /\ \A g \in Handle : Known(s, g) => Known(RefHandle(CloseHandle(s, old), h), g)
           /\ h # NULL => Known(RefHandle(CloseHandle(s, old), h), h)
<1>1. CloseHandle(s, old) \in Heap /\ \A g \in Handle : Known(s, g) => Known(CloseHandle(s, old), g)
  BY CloseHandleFacts, Zenon
<1>. DEFINE x == CloseHandle(s, old)
<1>. HIDE DEF x
<1>2. x \in Heap /\ \A g \in Handle : Known(s, g) => Known(x, g)
  BY <1>1, Zenon DEF x
<1>3. /\ RefHandle(x, h) \in Heap
      /\ \A g \in Handle : Known(x, g) => Known(RefHandle(x, h), g)
      /\ \A g \in Handle : RefHandle(x, h).refs[g] = IF g = h THEN x.refs[g] + 1 ELSE x.refs[g]
  BY <1>2, RefHandleFacts, Zenon
<1>4. h # NULL => Known(RefHandle(x, h), h)
  BY <1>2, <1>3 DEF Known, Heap
<1>. QED BY <1>2, <1>3, <1>4, Zenon DEF x

\* What is left to show when one descriptor of a process is set.
LEMMA OneSlotG ==
    ASSUME GInv, NEW p \in Process, NEW i \in FD, NEW h \in Handle \cup {NULL},
           fds' = [fds EXCEPT ![p][i] = h],
           \A g \in Handle : Known(heap, g) => Known(heap', g),
           h # NULL => Known(heap', h),
           \A g \in Handle : by'[g] # by[g] => Known(heap', g)
    PROVE  fds' \in [Process -> [FD -> Handle \cup {NULL}]] /\ Opened'
<1>1. fds \in [Process -> [FD -> Handle \cup {NULL}]] /\ Opened
  BY Zenon DEF GInv, WellTyped
<1>2. \A q \in Process, j \in FD : fds'[q][j] = IF q = p /\ j = i THEN h ELSE fds[q][j]
  BY <1>1, Zenon
<1>3. fds' \in [Process -> [FD -> Handle \cup {NULL}]]
  BY <1>1, Zenon
<1>4. \A q \in Process, j \in FD : fds'[q][j] # NULL => Known(heap', fds'[q][j])
  BY <1>1, <1>2 DEF Opened
<1>5. \A g \in Handle : by'[g] # NULL => Known(heap', g)
  BY <1>1, Zenon DEF Opened
<1>. QED BY <1>3, <1>4, <1>5, Zenon DEF Opened

\* Setting a standard stream preserves it: it touches no mark.
LEMMA SetStdG ==
    ASSUME GInv, NEW p \in Process, NEW i \in Std, NEW h \in Handle \cup {NULL}, SetStd(p, i, h)
    PROVE  GInv'
<1>0. i \in FD
  BY DescriptorType DEF Std, FD
<1>1. heap \in Heap /\ fds[p][i] \in Handle \cup {NULL} /\ (fds[p][i] # NULL => Known(heap, fds[p][i]))
  BY <1>0 DEF GInv, WellTyped, Heap, Opened
<1>2. /\ heap' \in Heap /\ \A g \in Handle : Known(heap, g) => Known(heap', g)
      /\ h # NULL => Known(heap', h)
  BY <1>1, SetDescriptorFacts, Zenon DEF SetStd, SetDescriptor
<1>3. fds' = [fds EXCEPT ![p][i] = h] /\ UNCHANGED <<pstate, parent, flags, free_fd, by, hold>>
  BY Zenon DEF SetStd, holdVars
<1>4. fds' \in [Process -> [FD -> Handle \cup {NULL}]] /\ Opened'
  BY <1>0, <1>2, <1>3, OneSlotG, Zenon
<1>5. WellTyped'
  BY <1>2, <1>3, <1>4, Zenon DEF GInv, WellTyped, Heap
<1>6. LowestFree' /\ pstate'[KERNEL] = "up"
  BY <1>3, Zenon DEF GInv, LowestFree
<1>. QED BY <1>4, <1>5, <1>6, Zenon DEF GInv

\* open preserves it: the marks below the lowest free descriptor are all set.
LEMMA SysOpenG ==
    ASSUME GInv, NEW p \in Process, NEW h \in Handle, SysOpen(p, h) PROVE GInv'
<1>. DEFINE i == Lowest(FreeFrom(p))
            s == [heap EXCEPT !.refs[h] = 1]
<1>0. /\ i \in FD /\ i \notin flags[p] /\ i >= free_fd[p]
      /\ \A j \in FD : j < i => j < free_fd[p] \/ j \in flags[p]
  BY LowestFacts, Zenon DEF SysOpen
<1>1. /\ fds' = [fds EXCEPT ![p][i] = h] /\ UNCHANGED <<pstate, parent>>
      /\ flags' = [flags EXCEPT ![p] = @ \cup {i}]
      /\ free_fd' = [free_fd EXCEPT ![p] = i]
      /\ heap' = RefHandle(CloseHandle(s, fds[p][i]), h)
      /\ by' = [by EXCEPT ![h] = p]
      /\ hold' = [hold EXCEPT ![h] = "descriptor"]
  BY Zenon DEF SysOpen, SetDescriptor
<1>. HIDE DEF i
<1>2. heap \in Heap /\ fds[p][i] \in Handle \cup {NULL} /\ (fds[p][i] # NULL => Known(heap, fds[p][i]))
  BY <1>0 DEF GInv, WellTyped, Heap, Opened
<1>3. s \in Heap /\ \A g \in Handle : Known(heap, g) => Known(s, g)
  BY <1>2 DEF Heap, Known
<1>. HIDE DEF s
<1>4. /\ heap' \in Heap /\ \A g \in Handle : Known(s, g) => Known(heap', g)
      /\ h # NULL => Known(heap', h)
  <2>1. fds[p][i] # NULL => Known(s, fds[p][i])
    BY <1>2, <1>3, Zenon
  <2>. QED BY <1>1, <1>2, <1>3, <2>1, SetDescriptorFacts, Zenon
<1>5. \A g \in Handle : by'[g] # by[g] => Known(heap', g)
  BY <1>1, <1>4, NullIsNoHandle, Zenon DEF GInv, WellTyped
<1>6. fds' \in [Process -> [FD -> Handle \cup {NULL}]] /\ Opened'
  BY <1>0, <1>1, <1>3, <1>4, <1>5, OneSlotG, Zenon
<1>7. WellTyped'
  BY <1>0, <1>1, <1>4, <1>6 DEF GInv, WellTyped, Heap
<1>8. LowestFree'
  <2>. SUFFICES ASSUME NEW j \in FD, j < free_fd'[KERNEL] PROVE j \in flags'[KERNEL]
    BY Zenon DEF LowestFree
  <2>1. CASE p = KERNEL
    <3>1. free_fd'[KERNEL] = i /\ flags[KERNEL] \subseteq flags'[KERNEL]
      BY <1>1, <2>1, KernelIsProcess, Zenon DEF GInv, WellTyped
    <3>. QED BY <1>0, <2>1, <3>1, Zenon DEF GInv, LowestFree
  <2>2. CASE p # KERNEL
    BY <1>1, <2>2, KernelIsProcess, Zenon DEF GInv, WellTyped, LowestFree
  <2>. QED BY <2>1, <2>2, Zenon
<1>. QED BY <1>1, <1>6, <1>7, <1>8, Zenon DEF GInv

\* A failed open preserves it: free_fd is left at the unmarked descriptor.
LEMMA SysOpenFailsG ==
    ASSUME GInv, NEW p \in Process, SysOpenFails(p) PROVE GInv'
<1>. DEFINE i == Lowest(FreeFrom(p))
<1>0. /\ i \in FD /\ i \notin flags[p] /\ i >= free_fd[p]
      /\ \A j \in FD : j < i => j < free_fd[p] \/ j \in flags[p]
  BY LowestFacts, Zenon DEF SysOpenFails
<1>1. /\ free_fd' = [free_fd EXCEPT ![p] = i]
      /\ UNCHANGED <<pstate, parent, flags, fds, heap, by, hold>>
  BY Zenon DEF SysOpenFails, holdVars
<1>. HIDE DEF i
<1>2. WellTyped'
  BY <1>0, <1>1, Zenon DEF GInv, WellTyped
<1>3. Opened'
  BY <1>1, Zenon DEF GInv, Opened
<1>4. LowestFree'
  <2>. SUFFICES ASSUME NEW j \in FD, j < free_fd'[KERNEL] PROVE j \in flags'[KERNEL]
    BY Zenon DEF LowestFree
  <2>1. CASE p = KERNEL
    <3>1. free_fd'[KERNEL] = i /\ flags[KERNEL] = flags'[KERNEL]
      BY <1>1, <2>1, KernelIsProcess, Zenon DEF GInv, WellTyped
    <3>. QED BY <1>0, <2>1, <3>1, Zenon DEF GInv, LowestFree
  <2>2. CASE p # KERNEL
    BY <1>1, <2>2, KernelIsProcess, Zenon DEF GInv, WellTyped, LowestFree
  <2>. QED BY <2>1, <2>2, Zenon
<1>. QED BY <1>1, <1>2, <1>3, <1>4, Zenon DEF GInv

\* close preserves it: free_fd is lowered to the unmarked descriptor.
LEMMA SysCloseG ==
    ASSUME GInv, NEW p \in Process, NEW i \in Closable, SysClose(p, i) PROVE GInv'
<1>. DEFINE h == fds[p][i]
<1>0. i \in FD /\ NULL \in Handle \cup {NULL}
  BY DescriptorType, Zenon DEF FD
<1>1. heap \in Heap /\ h \in Handle \cup {NULL} /\ (h # NULL => Known(heap, h))
  BY <1>0 DEF GInv, WellTyped, Heap, Opened
<1>2. /\ fds' = [fds EXCEPT ![p][i] = NULL] /\ UNCHANGED <<pstate, parent, by>>
      /\ flags' = [flags EXCEPT ![p] = @ \ {i}]
      /\ free_fd' = [free_fd EXCEPT ![p] = IF i < @ THEN i ELSE @]
      /\ heap' = CloseHandle(CloseHandle(heap, h), h)
      /\ hold' = IF h = NULL THEN hold ELSE [hold EXCEPT ![h] = "nobody"]
  BY Zenon DEF SysClose
<1>. DEFINE x == CloseHandle(heap, h)
<1>. HIDE DEF h
<1>3. x \in Heap /\ \A g \in Handle : Known(heap, g) => Known(x, g)
  BY <1>1, CloseHandleFacts, Zenon
<1>4. h # NULL => Known(x, h)
  BY <1>1, <1>3, Zenon
<1>5. heap' = CloseHandle(x, h)
  BY <1>2, Zenon
<1>. HIDE DEF x
<1>6. heap' \in Heap /\ \A g \in Handle : Known(x, g) => Known(heap', g)
  BY <1>1, <1>3, <1>4, <1>5, CloseHandleFacts, Zenon
<1>7. fds' \in [Process -> [FD -> Handle \cup {NULL}]] /\ Opened'
  BY <1>0, <1>2, <1>3, <1>6, OneSlotG, Zenon
<1>8. WellTyped'
  <2>1. hold' \in [Handle -> {"nobody", "opener", "descriptor"}]
    BY <1>1, <1>2, Zenon DEF GInv, WellTyped
  <2>2. flags' \in [Process -> SUBSET FD] /\ free_fd' \in [Process -> FD]
    BY <1>0, <1>2, Zenon DEF GInv, WellTyped
  <2>. QED BY <1>2, <1>6, <1>7, <2>1, <2>2, Zenon DEF GInv, WellTyped, Heap
<1>9. LowestFree'
  <2>. SUFFICES ASSUME NEW j \in FD, j < free_fd'[KERNEL] PROVE j \in flags'[KERNEL]
    BY Zenon DEF LowestFree
  <2>0. free_fd[KERNEL] \in Nat /\ i \in Nat /\ j \in Nat
    BY <1>0, KernelIsProcess, DescriptorType DEF GInv, WellTyped, FD
  <2>1. CASE p = KERNEL
    <3>1. /\ free_fd'[KERNEL] = IF i < free_fd[KERNEL] THEN i ELSE free_fd[KERNEL]
          /\ flags'[KERNEL] = flags[KERNEL] \ {i}
      BY <1>2, <2>1, KernelIsProcess, Zenon DEF GInv, WellTyped
    <3>2. j < free_fd[KERNEL] /\ j # i
      BY <2>0, <3>1
    <3>. QED BY <3>1, <3>2, Zenon DEF GInv, LowestFree
  <2>2. CASE p # KERNEL
    BY <1>2, <2>2, KernelIsProcess, Zenon DEF GInv, WellTyped, LowestFree
  <2>. QED BY <2>1, <2>2, Zenon
<1>. QED BY <1>2, <1>7, <1>8, <1>9, Zenon DEF GInv

\* BT_CreateProcess preserves it: the kernel is not created again.
LEMMA CreateProcessG ==
    ASSUME GInv, NEW p \in Process, NEW c \in Process, CreateProcess(p, c) PROVE GInv'
<1>1. /\ pstate' = [pstate EXCEPT ![c] = "started"] /\ parent' = [parent EXCEPT ![c] = p]
      /\ UNCHANGED tableVars /\ UNCHANGED <<heap, by, hold>> /\ c # KERNEL
  BY Zenon DEF GInv, CreateProcess, holdVars
<1>2. /\ pstate' \in [Process -> {"none", "started", "up", "destroyed"}]
      /\ parent' \in [Process -> Process] /\ pstate'[KERNEL] = "up"
  BY <1>1, KernelIsProcess, Zenon DEF GInv, WellTyped
<1>. QED BY <1>1, <1>2, QuietKeeps, Zenon DEF GInv, WellTyped, Heap

\* What is left to show when the table of a process other than the kernel is replaced.
LEMMA OneTableG ==
    ASSUME GInv, NEW c \in Process, c # KERNEL, NEW t \in Table, fds' = [fds EXCEPT ![c] = t],
           heap' \in Heap, \A g \in Handle : Known(heap, g) => Known(heap', g),
           \A i \in FD : t[i] # NULL => Known(heap, t[i]),
           flags' = flags, by' = by, parent' = parent,
           hold' \in [Handle -> {"nobody", "opener", "descriptor"}],
           NEW s \in {"up", "destroyed"}, pstate' = [pstate EXCEPT ![c] = s],
           NEW n \in FD, free_fd' = [free_fd EXCEPT ![c] = n]
    PROVE  GInv'
<1>1. WellTyped'
  BY Zenon DEF GInv, WellTyped, Heap, Table
<1>2. LowestFree' /\ pstate'[KERNEL] = "up"
  BY KernelIsProcess, Zenon DEF GInv, WellTyped, LowestFree
<1>3. \A q \in Process, j \in FD : fds'[q][j] # NULL => Known(heap', fds'[q][j])
  <2>. SUFFICES ASSUME NEW q \in Process, NEW j \in FD, fds'[q][j] # NULL
                PROVE  Known(heap', fds'[q][j])
    BY Zenon
  <2>1. CASE q = c
    <3>1. fds'[q][j] = t[j] /\ t[j] \in Handle
      BY <2>1, Zenon DEF GInv, WellTyped, Table
    <3>. QED BY <3>1, Zenon
  <2>2. CASE q # c
    <3>1. fds'[q][j] = fds[q][j] /\ fds[q][j] \in Handle
      BY <2>2 DEF GInv, WellTyped
    <3>. QED BY <3>1, Zenon DEF GInv, Opened
  <2>. QED BY <2>1, <2>2, Zenon
<1>4. \A g \in Handle : by'[g] # NULL => Known(heap', g)
  BY Zenon DEF GInv, Opened
<1>. QED BY <1>1, <1>2, <1>3, <1>4, Zenon DEF GInv, Opened

\* The new process's table preserves it: the kernel's is not filled again.
LEMMA InheritDescriptorsG ==
    ASSUME GInv, NEW c \in Process, InheritDescriptors(c) PROVE GInv'
<1>. DEFINE t == fds[parent[c]]
            n == free_fd[parent[c]]
<1>1. parent[c] \in Process /\ c # KERNEL
  BY Zenon DEF GInv, WellTyped, InheritDescriptors
<1>2. heap \in Heap /\ t \in Table /\ n \in FD /\ \A i \in FD : t[i] # NULL => Known(heap, t[i])
  BY <1>1, Zenon DEF GInv, WellTyped, Heap, Table, Opened
<1>3. /\ heap' = RefAll(heap, t) /\ fds' = [fds EXCEPT ![c] = t]
      /\ free_fd' = [free_fd EXCEPT ![c] = n] /\ pstate' = [pstate EXCEPT ![c] = "up"]
      /\ flags' = flags /\ by' = by /\ parent' = parent /\ hold' = hold
  BY Zenon DEF InheritDescriptors, holdVars
<1>. HIDE DEF t, n
<1>4. heap' \in Heap /\ \A g \in Handle : Known(heap, g) => Known(heap', g)
  BY <1>2, <1>3, RefAllFacts, Zenon
<1>5. hold' \in [Handle -> {"nobody", "opener", "descriptor"}]
  BY <1>3, Zenon DEF GInv, WellTyped
<1>. QED BY <1>1, <1>2, <1>3, <1>4, <1>5, OneTableG, Zenon

\* BT_DestroyProcess preserves it: the kernel is not destroyed.
LEMMA DestroyProcessG ==
    ASSUME GInv, NEW p \in Process, NEW c \in Process, DestroyProcess(p, c) PROVE GInv'
<1>. DEFINE closed == CloseAll(heap, fds[c])
            attached == {h \in Handle : by[h] = c /\ h \notin closed.dead}
            walked(h) == IF h \in attached THEN CloseHandle(closed, h) ELSE closed
            dead == {h \in Handle : h \in walked(h).dead}
            t == [i \in FD |-> NULL]
            n == free_fd[c]
<1>1. /\ c # KERNEL /\ pstate' = [pstate EXCEPT ![c] = "destroyed"]
      /\ heap' = [refs |-> [h \in Handle |-> walked(h).refs[h]],
                  dead |-> dead, stale |-> closed.stale \/ dead # closed.dead]
      /\ fds' = [fds EXCEPT ![c] = t]
      /\ hold' = [h \in Handle |-> IF h \in attached THEN "nobody" ELSE hold[h]]
      /\ flags' = flags /\ by' = by /\ parent' = parent /\ free_fd' = free_fd
  BY KernelStays, Zenon DEF DestroyProcess
<1>2. heap \in Heap /\ fds[c] \in Table /\ \A i \in FD : fds[c][i] # NULL => Known(heap, fds[c][i])
  BY Zenon DEF GInv, WellTyped, Heap, Table, Opened
<1>3. closed \in Heap /\ \A h \in Handle : Known(heap, h) => Known(closed, h)
  <2>. DEFINE u == fds[c]
  <2>1. u \in Table /\ \A i \in FD : u[i] # NULL => Known(heap, u[i])
    BY <1>2, Zenon
  <2>. HIDE DEF u
  <2>2. CloseAll(heap, u) \in Heap /\ \A h \in Handle : Known(heap, h) => Known(CloseAll(heap, u), h)
    BY <1>2, <2>1, CloseAllFacts, Zenon
  <2>. QED BY <2>2, Zenon DEF u
<1>4. t \in Table /\ n \in FD /\ free_fd' = [free_fd EXCEPT ![c] = n]
  BY <1>1, Zenon DEF GInv, WellTyped, Table
<1>5. \A h \in attached : Known(closed, h)
  BY <1>3, NullIsNoHandle, Zenon DEF GInv, WellTyped, Opened
<1>a. attached \subseteq Handle
  BY Zenon
<1>. HIDE DEF closed, attached
<1>6. ASSUME NEW h \in Handle PROVE walked(h) \in Heap /\ (Known(closed, h) => Known(walked(h), h))
  BY <1>3, <1>5, <1>a, CloseHandleFacts, Zenon
<1>. HIDE DEF walked
<1>7. heap'.refs = [h \in Handle |-> walked(h).refs[h]] /\ heap'.dead = dead
  BY <1>1, Zenon
<1>8. heap' \in Heap
  <2>1. \A h \in Handle : walked(h).refs[h] \in Nat
    BY <1>6, Zenon DEF Heap
  <2>. QED BY <1>1, <2>1, Zenon DEF Heap
<1>9. \A h \in Handle : Known(heap, h) => Known(heap', h)
  <2>1. \A h \in Handle : Known(walked(h), h) => Known(heap', h)
    BY <1>7, Zenon DEF Known
  <2>. QED BY <1>3, <1>6, <2>1, Zenon
<1>10. hold' \in [Handle -> {"nobody", "opener", "descriptor"}]
  BY <1>1, Zenon DEF GInv, WellTyped
<1>11. \A i \in FD : t[i] # NULL => Known(heap, t[i])
  BY Zenon
<1>. HIDE DEF t, n
<1>. QED BY <1>1, <1>4, <1>8, <1>9, <1>10, <1>11, OneTableG, Zenon

\* Every step preserves the general invariant.
LEMMA NextG == ASSUME GInv, [Next]_vars PROVE GInv'
<1>0. Streams \subseteq Std
  BY StreamType, Zenon DEF Std
<1>1. ASSUME NEW p \in Process, ProcessStep(p) PROVE GInv'
  BY <1>0, <1>1, OpenDeviceG, CloseDeviceG, SetStdG, SysOpenG, SysOpenFailsG, SysCloseG,
     CreateProcessG, DestroyProcessG, Zenon DEF ProcessStep
<1>2. ASSUME UNCHANGED vars PROVE GInv'
  <2>1. WellTyped'
    BY <1>2, Zenon DEF GInv, WellTyped, vars
  <2>2. LowestFree' /\ pstate'[KERNEL] = "up"
    BY <1>2, Zenon DEF GInv, LowestFree, vars
  <2>3. Opened'
    BY <1>2, Zenon DEF GInv, Opened, vars
  <2>. QED BY <2>1, <2>2, <2>3, Zenon DEF GInv
<1>. QED BY <1>1, <1>2, InheritDescriptorsG, Zenon DEF Next

\* The general invariant holds in every reachable state.
LEMMA InvarianceG == Spec => []GInv
BY InitGInv, NextG, PTL DEF Spec

\* What is spoiled stays so.
LEMMA SpoiledStep ==
    ASSUME [Next]_vars PROVE spoiled' = spoiled \/ (spoiled' \in BOOLEAN /\ (spoiled => spoiled'))
<1>1. ASSUME NEW p \in Process, ProcessStep(p)
      PROVE  spoiled' = spoiled \/ (spoiled' \in BOOLEAN /\ (spoiled => spoiled'))
  BY <1>1, Zenon DEF ProcessStep, OpenDevice, CloseDevice, SetStd, SysOpen, SysOpenFails, SysClose,
                     CreateProcess, DestroyProcess
<1>. QED BY <1>1, Zenon DEF Next, InheritDescriptors, vars

(* BT_RefHandle and BT_CloseHandle, and whatever makes the calls: free_fd  *)
(* stays within the table and no reference count drops below zero.         *)
THEOREM CountsTyped == Spec => []TypeOK
<1>1. Init => spoiled \in BOOLEAN
  BY Zenon DEF Init
<1>2. spoiled \in BOOLEAN /\ [Next]_vars => (spoiled \in BOOLEAN)'
  BY SpoiledStep, Zenon
<1>3. GInv /\ spoiled \in BOOLEAN => TypeOK
  BY Zenon DEF GInv, TypeOK
<1>. QED BY <1>1, <1>2, <1>3, InvarianceG, PTL DEF Spec

(* task_alloc_fd and task_free_fd: open returns the kernel's lowest free   *)
(* descriptor, and fails only when all are taken.                          *)
THEOREM OpenTakesLowest == Spec => []LowestFree
<1>1. GInv => LowestFree
  BY Zenon DEF GInv
<1>. QED BY <1>1, InvarianceG, PTL

-----------------------------------------------------------------------------
(* Counts and tables together.                                             *)

\* Every count is the number of descriptors, and one for whoever opened the handle.
Exact(f, s, hd) ==
    \A h \in Handle : s.refs[h] = Count(f, h) + (IF hd[h] = "nobody" THEN 0 ELSE 1)

\* A handle is freed with its last reference, and is not touched again.
Sound(s) == ~s.stale /\ \A h \in s.dead : s.refs[h] = 0

\* The number of descriptors that lead to a handle is a number.
LEMMA CountType ==
    ASSUME NEW f \in [Process -> Table], NEW h PROVE Count(f, h) \in Nat
<1>1. Uses(f, h) \in SUBSET Slot
  BY Zenon DEF Uses
<1>2. IsFiniteSet(Uses(f, h))
  BY <1>1, FiniteTable, FS_Subset, Zenon
<1>. QED BY <1>2, FS_CardinalityType, Zenon DEF Count

\* Whoever opened the handle closes it.
LEMMA CloseOpener ==
    ASSUME NEW f \in [Process -> Table], NEW s \in Heap, NEW h \in Handle,
           NEW hd \in [Handle -> {"nobody", "opener", "descriptor"}],
           Exact(f, s, hd), Sound(s), hd[h] # "nobody"
    PROVE  /\ Exact(f, CloseHandle(s, h), [hd EXCEPT ![h] = "nobody"])
           /\ Sound(CloseHandle(s, h)) /\ h \notin s.dead
<1>. DEFINE x == CloseHandle(s, h)
            e == [hd EXCEPT ![h] = "nobody"]
<1>1. s.refs[h] = Count(f, h) + 1 /\ Count(f, h) \in Nat
  BY CountType, Zenon DEF Exact
<1>2. h \notin s.dead /\ s.refs[h] > 0
  BY <1>1 DEF Sound
<1>3. /\ \A g \in Handle :
            /\ x.refs[g] = IF g = h THEN s.refs[g] - 1 ELSE s.refs[g]
            /\ g \in x.dead <=> g \in s.dead \/ (g = h /\ s.refs[h] = 1)
      /\ x.stale = s.stale
  BY <1>2, CloseAlive, Zenon
<1>a. x \in Heap
  BY <1>2, CloseHandleFacts, Zenon DEF Known
<1>. HIDE DEF x
<1>4. Exact(f, x, e)
  <2>. SUFFICES ASSUME NEW g \in Handle
                PROVE  x.refs[g] = Count(f, g) + (IF e[g] = "nobody" THEN 0 ELSE 1)
    BY Zenon DEF Exact
  <2>1. CASE g = h
    BY <1>1, <1>3, <2>1
  <2>2. CASE g # h
    BY <1>3, <2>2, Zenon DEF Exact
  <2>. QED BY <2>1, <2>2, Zenon
<1>5. Sound(x)
  BY <1>1, <1>2, <1>3, <1>a DEF Sound, Heap
<1>. QED BY <1>2, <1>4, <1>5, Zenon DEF x

(* A descriptor is set to a handle that is alive, and that is not lost     *)
(* when the descriptor's old reference is dropped first.                   *)
LEMMA SetExact ==
    ASSUME NEW f \in [Process -> Table], NEW s \in Heap, NEW p \in Process, NEW i \in FD,
           NEW h \in Handle \cup {NULL}, NEW hd, Exact(f, s, hd), Sound(s),
           h # NULL => h \notin s.dead,
           h # NULL /\ h = f[p][i] => s.refs[h] > 1
    PROVE  /\ Exact(Put(f, p, i, h), RefHandle(CloseHandle(s, f[p][i]), h), hd)
           /\ Sound(RefHandle(CloseHandle(s, f[p][i]), h))
<1>. USE NullIsNoHandle DEF Hit
<1>. DEFINE old == f[p][i]
            x == CloseHandle(s, old)
            y == RefHandle(x, h)
            n == Put(f, p, i, h)
<1>0. old \in Handle \cup {NULL}
  BY Zenon DEF Table
<1>1. ASSUME NEW g \in Handle
      PROVE  /\ Count(n, g) = (Count(f, g) - Hit(old, g)) + Hit(h, g)
             /\ old = g => Count(f, g) > 0
             /\ Count(f, g) \in Nat
             /\ s.refs[g] \in Nat /\ s.refs[g] >= Count(f, g)
             /\ s.refs[g] = Count(f, g) + (IF hd[g] = "nobody" THEN 0 ELSE 1)
  <2>1. /\ Count(n, g) = (Count(f, g) - Hit(old, g)) + Hit(h, g)
        /\ old = g => Count(f, g) > 0
        /\ Count(f, g) \in Nat
    BY NewDescriptor
  <2>. QED BY <2>1 DEF Heap, Exact
<1>. HIDE DEF old, n
<1>2. old # NULL => s.refs[old] > 0 /\ old \notin s.dead
  BY <1>0, <1>1 DEF Sound
<1>3. /\ x \in Heap /\ ~x.stale
      /\ \A g \in Handle :
            /\ x.refs[g] = s.refs[g] - Hit(old, g)
            /\ g \in x.dead <=> g \in s.dead \/ (old = g /\ s.refs[g] = 1)
  <2>1. CASE old = NULL
    BY <1>1, <2>1 DEF CloseHandle, Sound
  <2>2. CASE old # NULL
    <3>1. x \in Heap
      BY <1>0, <1>2, CloseHandleFacts, Zenon DEF Known
    <3>2. /\ \A g \in Handle :
                /\ x.refs[g] = IF g = old THEN s.refs[g] - 1 ELSE s.refs[g]
                /\ g \in x.dead <=> g \in s.dead \/ (g = old /\ s.refs[old] = 1)
          /\ x.stale = s.stale
      BY <1>0, <1>2, <2>2, CloseAlive, Zenon
    <3>. HIDE DEF x
    <3>. QED BY <1>1, <3>1, <3>2 DEF Sound
  <2>. QED BY <2>1, <2>2, Zenon
<1>. HIDE DEF x
<1>4. /\ y.dead = x.dead /\ y.stale = (x.stale \/ h \in x.dead)
      /\ \A g \in Handle : y.refs[g] = IF g = h THEN x.refs[g] + 1 ELSE x.refs[g]
  BY <1>3, RefHandleFacts
<1>5. h \notin x.dead
  <2>1. CASE h = NULL
    BY <1>3, <2>1, Zenon DEF Heap
  <2>2. CASE h # NULL
    <3>1. h \in Handle /\ h \notin s.dead /\ (old = h => s.refs[h] > 1)
      BY <2>2, Zenon DEF old
    <3>. QED BY <1>3, <3>1
  <2>. QED BY <2>1, <2>2, Zenon
<1>. HIDE DEF y
<1>6. Exact(n, y, hd)
  <2>. SUFFICES ASSUME NEW g \in Handle
                PROVE  y.refs[g] = Count(n, g) + (IF hd[g] = "nobody" THEN 0 ELSE 1)
    BY Zenon DEF Exact
  <2>1. y.refs[g] = (s.refs[g] - Hit(old, g)) + Hit(h, g)
    BY <1>1, <1>3, <1>4
  <2>. QED BY <1>1, <2>1
<1>7. Sound(y)
  <2>1. ~y.stale
    BY <1>3, <1>4, <1>5, Zenon
  <2>2. ASSUME NEW g \in y.dead PROVE y.refs[g] = 0
    <3>1. g \in Handle /\ g \in x.dead /\ g # h
      BY <1>3, <1>4, <1>5, <2>2, Zenon DEF Heap
    <3>2. y.refs[g] = s.refs[g] - Hit(old, g) /\ s.refs[g] \in Nat
      BY <1>1, <1>3, <1>4, <3>1
    <3>3. CASE g \in s.dead
      <4>1. s.refs[g] = 0 /\ old # g
        BY <1>2, <3>1, <3>3, Zenon DEF Sound
      <4>2. Hit(old, g) = 0
        BY <4>1, Zenon
      <4>. HIDE DEF Hit
      <4>. QED BY <3>2, <4>1, <4>2
    <3>4. CASE g \notin s.dead
      BY <1>3, <3>1, <3>2, <3>4
    <3>. QED BY <3>3, <3>4, Zenon
  <2>. QED BY <2>1, <2>2, Zenon DEF Sound
<1>. QED BY <1>6, <1>7, Zenon DEF y, x, n, old

-----------------------------------------------------------------------------
(* Every step that does not spoil the counts keeps them.                   *)

SInv == GInv /\ Exact(fds, heap, hold) /\ Sound(heap)

\* What the general invariant says of types, for the lemmas about tables.
LEMMA Types ==
    ASSUME GInv
    PROVE  /\ fds \in [Process -> Table] /\ heap \in Heap
           /\ hold \in [Handle -> {"nobody", "opener", "descriptor"}]
           /\ KERNEL \in Process /\ NULL \notin Handle /\ NULL \notin Process
           /\ Std \subseteq FD
BY KernelIsProcess, NullIsNoHandle, DescriptorType DEF GInv, WellTyped, Heap, Table, Std, FD

\* bt_process_init: no descriptor leads anywhere, and nothing is open.
LEMMA InitSInv == ASSUME Init PROVE SInv
<1>1. GInv
  BY InitGInv, Zenon
<1>2. ASSUME NEW h \in Handle PROVE Count(fds, h) = 0
  <2>1. Uses(fds, h) = {}
    BY <1>1, Types, Zenon DEF Init, Uses, Slot
  <2>. QED BY <2>1, FS_EmptySet, Zenon DEF Count
<1>3. Exact(fds, heap, hold)
  BY <1>2 DEF Exact, Init
<1>4. Sound(heap)
  BY Zenon DEF Sound, Init
<1>. QED BY <1>1, <1>3, <1>4, Zenon DEF SInv

\* The count of a handle that nothing uses, and of one that is alive.
LEMMA CountFacts ==
    ASSUME SInv, NEW h \in Handle
    PROVE  /\ Count(fds, h) \in Nat /\ heap.refs[h] >= Count(fds, h)
           /\ Unused(h) => hold[h] = "nobody" /\ Count(fds, h) = 0
           /\ h \in heap.dead => hold[h] = "nobody" /\ Count(fds, h) = 0
<1>1. Count(fds, h) \in Nat
  BY Types, CountType, Zenon DEF SInv
<1>2. heap.refs[h] = Count(fds, h) + (IF hold[h] = "nobody" THEN 0 ELSE 1)
  BY Zenon DEF SInv, Exact
<1>3. Unused(h) \/ h \in heap.dead => heap.refs[h] = 0
  BY Zenon DEF SInv, Sound, Unused
<1>. QED BY <1>1, <1>2, <1>3

\* A descriptor leads to a handle that is alive.
LEMMA SlotAlive ==
    ASSUME SInv, NEW p \in Process, NEW i \in FD, fds[p][i] # NULL
    PROVE  /\ fds[p][i] \in Handle /\ fds[p][i] \notin heap.dead
           /\ Count(fds, fds[p][i]) > 0
<1>. DEFINE h == fds[p][i]
<1>1. h \in Handle
  BY Types DEF SInv, Table
<1>2. Count(fds, h) > 0
  <2>1. fds \in [Process -> Table] /\ h \in Handle \cup {NULL}
    BY <1>1, Types, Zenon DEF SInv
  <2>2. fds[p][i] = h => Count(fds, h) > 0
    <3>. HIDE DEF h
    <3>. QED BY <2>1, NewDescriptor, Zenon
  <2>. QED BY <2>2, Zenon
<1>. HIDE DEF h
<1>3. h \notin heap.dead
  BY <1>1, <1>2, CountFacts
<1>. QED BY <1>1, <1>2, <1>3, Zenon DEF h

\* BT_Open: the first reference is the one of whoever opened.
LEMMA OpenDeviceS ==
    ASSUME SInv, NEW p \in Process, NEW h \in Handle, OpenDevice(p, h) PROVE SInv'
<1>1. GInv'
  BY OpenDeviceG, Zenon DEF SInv
<1>2. Unused(h) /\ hold[h] = "nobody" /\ Count(fds, h) = 0
  BY CountFacts, Zenon DEF OpenDevice
<1>3. /\ heap' = [refs |-> [heap.refs EXCEPT ![h] = 1], dead |-> heap.dead, stale |-> heap.stale]
      /\ hold' = [hold EXCEPT ![h] = "opener"] /\ fds' = fds
  BY Types, Zenon DEF OpenDevice, tableVars, SInv, Heap
<1>4. Exact(fds', heap', hold')
  BY <1>2, <1>3, Types DEF SInv, Exact, Heap
<1>5. Sound(heap')
  BY <1>2, <1>3, Types, Zenon DEF SInv, Sound, Heap, Unused
<1>. QED BY <1>1, <1>4, <1>5, Zenon DEF SInv

\* BT_CloseHandle by whoever opened gives that reference back.
LEMMA CloseDeviceS ==
    ASSUME SInv, NEW p \in Process, NEW h \in Handle, CloseDevice(p, h) PROVE SInv'
<1>1. GInv'
  BY CloseDeviceG, Zenon DEF SInv
<1>2. /\ heap' = CloseHandle(heap, h) /\ hold' = [hold EXCEPT ![h] = "nobody"]
      /\ fds' = fds /\ hold[h] = "opener"
  BY Zenon DEF CloseDevice, tableVars
<1>3. /\ Exact(fds, CloseHandle(heap, h), [hold EXCEPT ![h] = "nobody"])
      /\ Sound(CloseHandle(heap, h))
  BY <1>2, Types, CloseOpener, Zenon DEF SInv
<1>. QED BY <1>1, <1>2, <1>3, Zenon DEF SInv

(* A standard stream: the old stream's handle loses a descriptor, the new  *)
(* one, which the caller holds or some descriptor leads to, gains it.      *)
LEMMA SetStdS ==
    ASSUME SInv, NEW p \in Process, NEW i \in Std, NEW h \in Handle \cup {NULL},
           SetStd(p, i, h), ~FreedFirst(p, i, h)
    PROVE  SInv'
<1>0. i \in FD
  BY Types, Zenon DEF SInv
<1>1. GInv'
  BY SetStdG, Zenon DEF SInv
<1>2. /\ heap' = RefHandle(CloseHandle(heap, fds[p][i]), h) /\ fds' = Put(fds, p, i, h)
      /\ hold' = hold
  BY Zenon DEF SetStd, SetDescriptor, Put, holdVars
<1>3. h # NULL => h \notin heap.dead
  <2>1. CASE h \in Handle /\ hold[h] = "opener"
    BY <2>1, CountFacts, Zenon
  <2>2. ASSUME NEW j \in Std, h = fds[p][j], h # NULL PROVE h \notin heap.dead
    <3>1. j \in FD
      BY Types, Zenon DEF SInv
    <3>. QED BY <2>2, <3>1, SlotAlive, Zenon
  <2>3. CASE h # NULL /\ h = fds[parent[p]][i]
    <3>. DEFINE q == parent[p]
    <3>1. q \in Process
      BY Zenon DEF SInv, GInv, WellTyped
    <3>2. h = fds[q][i]
      BY <2>3, Zenon
    <3>. HIDE DEF q
    <3>. QED BY <1>0, <2>3, <3>1, <3>2, SlotAlive, Zenon
  <2>. QED BY <2>1, <2>2, <2>3, Zenon DEF SetStd
<1>4. h # NULL /\ h = fds[p][i] => heap.refs[h] > 1
  <2>. SUFFICES ASSUME h # NULL, h = fds[p][i] PROVE heap.refs[h] > 1
    BY Zenon
  <2>1. h \in Handle /\ Count(fds, h) > 0 /\ heap.refs[h] # 1
    BY <1>0, SlotAlive, Zenon DEF FreedFirst
  <2>2. heap.refs[h] >= Count(fds, h) /\ Count(fds, h) \in Nat /\ heap.refs[h] \in Nat
    BY <2>1, CountFacts, Types, Zenon DEF SInv, Heap
  <2>. QED BY <2>1, <2>2
<1>5. /\ Exact(Put(fds, p, i, h), RefHandle(CloseHandle(heap, fds[p][i]), h), hold)
      /\ Sound(RefHandle(CloseHandle(heap, fds[p][i]), h))
  BY <1>0, <1>3, <1>4, SetExact, Types, Zenon DEF SInv
<1>. QED BY <1>1, <1>2, <1>5, Zenon DEF SInv

(* open: the new handle has two references, the descriptor's and the       *)
(* open's, and what was in the descriptor loses one.                       *)
LEMMA SysOpenS ==
    ASSUME SInv, NEW p \in Process, NEW h \in Handle, SysOpen(p, h) PROVE SInv'
<1>. DEFINE i == Lowest(FreeFrom(p))
            s == [heap EXCEPT !.refs[h] = 1]
            hd == [hold EXCEPT ![h] = "descriptor"]
<1>0. i \in FD
  BY LowestFacts, Zenon DEF SInv, SysOpen
<1>1. GInv'
  BY SysOpenG, Zenon DEF SInv
<1>2. /\ fds' = Put(fds, p, i, h)
      /\ heap' = RefHandle(CloseHandle(s, fds[p][i]), h)
      /\ hold' = hd /\ Unused(h)
  BY Zenon DEF SysOpen, SetDescriptor, Put
<1>. HIDE DEF i
<1>3. hold[h] = "nobody" /\ Count(fds, h) = 0 /\ h \notin heap.dead
  BY <1>2, CountFacts, Zenon DEF Unused
<1>4. s = [refs |-> [heap.refs EXCEPT ![h] = 1], dead |-> heap.dead, stale |-> heap.stale]
  BY Types DEF SInv, Heap
<1>5. s \in Heap /\ Exact(fds, s, hd) /\ Sound(s)
  <2>1. s \in Heap
    BY <1>4, Types, Zenon DEF SInv, Heap
  <2>2. Exact(fds, s, hd)
    BY <1>3, <1>4, Types DEF SInv, Exact, Heap
  <2>3. Sound(s)
    BY <1>3, <1>4, Types, Zenon DEF SInv, Sound, Heap
  <2>. QED BY <2>1, <2>2, <2>3, Zenon
<1>6. h # fds[p][i] /\ h \notin s.dead
  <2>1. h # fds[p][i]
    BY <1>0, <1>3, SlotAlive, NullIsNoHandle
  <2>. QED BY <1>3, <1>4, <2>1, Zenon
<1>. HIDE DEF s, hd
<1>7. /\ Exact(Put(fds, p, i, h), RefHandle(CloseHandle(s, fds[p][i]), h), hd)
      /\ Sound(RefHandle(CloseHandle(s, fds[p][i]), h))
  BY <1>0, <1>5, <1>6, SetExact, Types, Zenon DEF SInv
<1>. QED BY <1>1, <1>2, <1>7, Zenon DEF SInv

(* close of what open gave out and nobody closed: two references are there *)
(* to be dropped.                                                          *)
LEMMA SysCloseS ==
    ASSUME SInv, NEW p \in Process, NEW i \in Closable, SysClose(p, i), ~NotOpens(fds[p][i])
    PROVE  SInv'
<1>. DEFINE h == fds[p][i]
            x == CloseHandle(heap, h)
<1>0. i \in FD
  BY DescriptorType, Zenon DEF FD
<1>1. GInv'
  BY SysCloseG, Zenon DEF SInv
<1>2. /\ fds' = Put(fds, p, i, NULL)
      /\ heap' = CloseHandle(x, h)
      /\ hold' = IF h = NULL THEN hold ELSE [hold EXCEPT ![h] = "nobody"]
  BY Zenon DEF SysClose, Put
<1>3. h \in Handle \cup {NULL} /\ (h # NULL => Known(heap, h))
  BY <1>0, Types DEF SInv, GInv, Opened, Table
<1>4. Exact(fds', x, hold) /\ Sound(x)
  <2>0. NULL \in Handle \cup {NULL}
    BY Zenon
  <2>1. /\ Exact(Put(fds, p, i, NULL), RefHandle(CloseHandle(heap, fds[p][i]), NULL), hold)
        /\ Sound(RefHandle(CloseHandle(heap, fds[p][i]), NULL))
    BY <1>0, <2>0, SetExact, Types, Zenon DEF SInv
  <2>2. RefHandle(CloseHandle(heap, fds[p][i]), NULL) = x
    BY Zenon DEF RefHandle
  <2>. QED BY <1>2, <2>1, <2>2, Zenon
<1>5. x \in Heap /\ fds' \in [Process -> Table]
  <2>1. x \in Heap
    <3>. HIDE DEF h
    <3>. QED BY <1>3, CloseHandleFacts, Types, Zenon DEF SInv
  <2>2. fds' \in [Process -> Table]
    BY <1>1, Zenon DEF GInv, WellTyped, Table
  <2>. QED BY <2>1, <2>2, Zenon
<1>6. h # NULL => hold[h] = "descriptor"
  BY Zenon DEF NotOpens
<1>. HIDE DEF h, x
<1>7. Exact(fds', heap', hold') /\ Sound(heap')
  <2>1. CASE h = NULL
    BY <1>2, <1>4, <2>1, Zenon DEF CloseHandle
  <2>2. CASE h # NULL
    <3>. DEFINE f == fds'
    <3>1. /\ f \in [Process -> Table] /\ Exact(f, x, hold) /\ h \in Handle /\ hold[h] # "nobody"
          /\ hold \in [Handle -> {"nobody", "opener", "descriptor"}]
      BY <1>3, <1>4, <1>5, <1>6, <2>2, Types, Zenon DEF SInv
    <3>. HIDE DEF f
    <3>2. Exact(f, CloseHandle(x, h), [hold EXCEPT ![h] = "nobody"]) /\ Sound(CloseHandle(x, h))
      BY <1>4, <1>5, <3>1, CloseOpener, Zenon
    <3>. QED BY <1>2, <2>2, <3>2, Zenon DEF f
  <2>. QED BY <2>1, <2>2, Zenon
<1>. QED BY <1>1, <1>7, Zenon DEF SInv

\* An empty table leads to no handle.
LEMMA EmptyTable ==
    ASSUME NEW t, \A i \in FD : t[i] = NULL, NEW h \in Handle PROVE Times(t, h) = 0
<1>1. {i \in FD : t[i] = h} = {}
  BY NullIsNoHandle, Zenon
<1>. QED BY <1>1, FS_EmptySet, Zenon DEF Times

(* The new table, over one that was empty: every handle gains the          *)
(* references its descriptors need.                                        *)
LEMMA InheritDescriptorsS ==
    ASSUME SInv, NEW c \in Process, InheritDescriptors(c), ~Overwritten(c) PROVE SInv'
<1>. DEFINE t == fds[parent[c]]
<1>1. GInv'
  BY InheritDescriptorsG, Zenon DEF SInv
<1>2. /\ parent[c] \in Process
      /\ heap' = RefAll(heap, t) /\ fds' = [fds EXCEPT ![c] = t] /\ hold' = hold
  BY Zenon DEF SInv, GInv, WellTyped, InheritDescriptors, holdVars
<1>3. /\ t \in Table /\ heap \in Heap /\ fds \in [Process -> Table]
      /\ \A i \in FD : fds[c][i] = NULL
  BY <1>2, Types, Zenon DEF SInv, Overwritten
<1>4. \A i \in FD : t[i] \notin heap.dead
  <2>. DEFINE q == parent[c]
  <2>1. q \in Process /\ t = fds[q] /\ NULL \notin heap.dead
    BY <1>2, <1>3, NullIsNoHandle, Zenon DEF Heap
  <2>. HIDE DEF q, t
  <2>. QED BY <2>1, SlotAlive, Zenon
<1>. HIDE DEF t
<1>5. /\ ~heap'.stale /\ heap'.dead = heap.dead
      /\ \A h \in Handle : heap'.refs[h] = heap.refs[h] + Times(t, h)
  BY <1>2, <1>3, <1>4, RefAllExact, Zenon DEF SInv, Sound
<1>6. ASSUME NEW h \in Handle
      PROVE  /\ Count(fds', h) = Count(fds, h) + Times(t, h) /\ Times(t, h) \in Nat
             /\ Count(fds, h) \in Nat
  <2>1. /\ Count([fds EXCEPT ![c] = t], h) = (Count(fds, h) - Times(fds[c], h)) + Times(t, h)
        /\ Count(fds, h) \in Nat /\ Times(t, h) \in Nat
    BY <1>3, NewTable, Zenon
  <2>2. Times(fds[c], h) = 0
    <3>. DEFINE u == fds[c]
    <3>1. \A i \in FD : u[i] = NULL
      BY <1>3, Zenon
    <3>. HIDE DEF u
    <3>2. Times(u, h) = 0
      BY <3>1, EmptyTable, Zenon
    <3>. QED BY <3>2, Zenon DEF u
  <2>. QED BY <1>2, <2>1, <2>2
<1>7. Exact(fds', heap', hold')
  <2>. SUFFICES ASSUME NEW h \in Handle
                PROVE  heap'.refs[h] = Count(fds', h) + (IF hold'[h] = "nobody" THEN 0 ELSE 1)
    BY Zenon DEF Exact
  <2>1. heap.refs[h] = Count(fds, h) + (IF hold'[h] = "nobody" THEN 0 ELSE 1)
    BY <1>2, Zenon DEF SInv, Exact
  <2>. QED BY <1>5, <1>6, <2>1
<1>8. Sound(heap')
  <2>. SUFFICES ASSUME NEW h \in heap.dead PROVE heap'.refs[h] = 0
    BY <1>5, Zenon DEF Sound
  <2>1. h \in Handle /\ heap.refs[h] = 0 /\ Count(fds, h) = 0
    BY <1>3, CountFacts, Zenon DEF SInv, Sound, Heap
  <2>2. Times(t, h) = 0
    <3>1. {i \in FD : t[i] = h} = {}
      BY <1>4, Zenon
    <3>. QED BY <3>1, FS_EmptySet, Zenon DEF Times
  <2>. QED BY <1>5, <2>1, <2>2
<1>. QED BY <1>1, <1>7, <1>8, Zenon DEF SInv

(* BT_DestroyProcess: every descriptor of the process gives its reference  *)
(* back, and each handle that is still attached to it the reference of its *)
(* open, which is not the last one.                                        *)
LEMMA DestroyProcessS ==
    ASSUME SInv, NEW p \in Process, NEW c \in Process, DestroyProcess(p, c),
           ~Overrun(CloseAll(heap, fds[c]),
                    {h \in Handle : by[h] = c /\ h \notin CloseAll(heap, fds[c]).dead})
    PROVE  SInv'
<1>. DEFINE u == fds[c]
            t == [i \in FD |-> NULL]
            closed == CloseAll(heap, fds[c])
            attached == {h \in Handle : by[h] = c /\ h \notin closed.dead}
            Out(h) == IF h \in attached THEN 1 ELSE 0
<1>1. GInv'
  BY DestroyProcessG, Zenon DEF SInv
<1>2. \A h \in attached : hold[h] # "nobody" /\ closed.refs[h] # 1
  BY Zenon DEF Overrun
<1>3. u \in Table /\ t \in Table /\ heap \in Heap /\ fds \in [Process -> Table] /\ ~heap.stale
  BY Types, Zenon DEF SInv, Table, Sound
<1>4. ASSUME NEW h \in Handle
      PROVE  /\ Times(u, h) <= Count(fds, h) /\ Times(u, h) \in Nat /\ Count(fds, h) \in Nat
             /\ Count([fds EXCEPT ![c] = t], h) = Count(fds, h) - Times(u, h)
             /\ Times(u, h) <= heap.refs[h] /\ heap.refs[h] \in Nat
             /\ Times(u, h) > 0 => h \notin heap.dead
  <2>1. /\ Count([fds EXCEPT ![c] = t], h) = (Count(fds, h) - Times(fds[c], h)) + Times(t, h)
        /\ Times(fds[c], h) <= Count(fds, h)
        /\ Count(fds, h) \in Nat /\ Times(fds[c], h) \in Nat
    <3>. HIDE DEF t
    <3>. QED BY <1>3, NewTable, Zenon
  <2>2. Times(t, h) = 0
    <3>1. \A i \in FD : t[i] = NULL
      BY Zenon
    <3>. HIDE DEF t
    <3>. QED BY <3>1, EmptyTable, Zenon
  <2>3. heap.refs[h] >= Count(fds, h) /\ (h \in heap.dead => Count(fds, h) = 0)
    BY CountFacts, Zenon
  <2>4. heap.refs[h] \in Nat
    BY <1>3, Zenon DEF Heap
  <2>. HIDE DEF t, closed
  <2>. QED BY <2>1, <2>2, <2>3, <2>4
<1>5. /\ closed \in Heap /\ ~closed.stale
      /\ \A h \in Handle :
            /\ closed.refs[h] = heap.refs[h] - Times(u, h)
            /\ h \in closed.dead <=>
                  h \in heap.dead \/ (Times(u, h) > 0 /\ Times(u, h) = heap.refs[h])
  <2>. HIDE DEF u
  <2>1. /\ CloseAll(heap, u) \in Heap /\ ~CloseAll(heap, u).stale
        /\ \A h \in Handle :
              /\ CloseAll(heap, u).refs[h] = heap.refs[h] - Times(u, h)
              /\ h \in CloseAll(heap, u).dead <=>
                    h \in heap.dead \/ (Times(u, h) > 0 /\ Times(u, h) = heap.refs[h])
    BY <1>3, <1>4, CloseAllExact, Zenon
  <2>. QED BY <2>1, Zenon DEF u
<1>a. \A h \in Handle : heap.refs[h] = Count(fds, h) + (IF hold[h] = "nobody" THEN 0 ELSE 1)
  BY Zenon DEF SInv, Exact
<1>b. \A h \in attached : h \in Handle /\ h \notin closed.dead
  BY Zenon
<1>6. /\ fds' = [fds EXCEPT ![c] = t]
      /\ \A h \in Handle : /\ heap'.refs[h] = closed.refs[h] - Out(h)
                           /\ hold'[h] = IF h \in attached THEN "nobody" ELSE hold[h]
      /\ heap'.dead = closed.dead /\ ~heap'.stale
  <2>. DEFINE walked(h) == IF h \in attached THEN CloseHandle(closed, h) ELSE closed
              dead == {h \in Handle : h \in walked(h).dead}
  <2>1. /\ fds' = [fds EXCEPT ![c] = t]
        /\ heap' = [refs |-> [h \in Handle |-> walked(h).refs[h]],
                    dead |-> dead, stale |-> closed.stale \/ dead # closed.dead]
        /\ hold' = [h \in Handle |-> IF h \in attached THEN "nobody" ELSE hold[h]]
    BY Zenon DEF DestroyProcess
  <2>. HIDE DEF closed, attached, u
  <2>2. ASSUME NEW h \in Handle
        PROVE  /\ walked(h).refs[h] = closed.refs[h] - Out(h)
               /\ h \in walked(h).dead <=> h \in closed.dead
    <3>1. closed.refs[h] \in Nat
      BY <1>5, Zenon DEF Heap
    <3>2. CASE h \in attached
      <4>1. closed.refs[h] > 1
        BY <1>2, <1>4, <1>5, <1>a, <3>1, <3>2
      <4>2. /\ h \notin closed.dead /\ closed.refs[h] > 0 /\ closed.refs[h] # 1
            /\ Out(h) = 1 /\ walked(h) = CloseHandle(closed, h)
        BY <1>2, <1>b, <3>1, <3>2, <4>1
      <4>3. /\ CloseHandle(closed, h).refs[h] = closed.refs[h] - 1
            /\ h \in CloseHandle(closed, h).dead <=> h \in closed.dead
        BY <1>5, <4>2, CloseAlive, Zenon
      <4>. HIDE DEF walked, Out
      <4>. QED BY <4>2, <4>3, Zenon
    <3>3. CASE h \notin attached
      <4>1. walked(h) = closed /\ Out(h) = 0
        BY <3>3, Zenon
      <4>. HIDE DEF walked, Out
      <4>. QED BY <3>1, <4>1
    <3>. QED BY <3>2, <3>3, Zenon
  <2>. HIDE DEF walked
  <2>3. dead = closed.dead
    BY <1>5, <2>2, Zenon DEF Heap
  <2>. HIDE DEF dead, Out
  <2>4. heap'.refs = [h \in Handle |-> walked(h).refs[h]] /\ heap'.dead = dead
    BY <2>1, Zenon
  <2>5. heap'.stale = (closed.stale \/ dead # closed.dead)
    BY <2>1, Zenon
  <2>6. ~heap'.stale
    BY <1>5, <2>3, <2>5, Zenon
  <2>7. \A h \in Handle : hold'[h] = IF h \in attached THEN "nobody" ELSE hold[h]
    BY <2>1, Zenon
  <2>. QED BY <2>1, <2>2, <2>3, <2>4, <2>6, <2>7, Zenon
<1>. HIDE DEF closed, t, attached, u
<1>7. Exact(fds', heap', hold')
  <2>. SUFFICES ASSUME NEW h \in Handle
                PROVE  heap'.refs[h] = Count(fds', h) + (IF hold'[h] = "nobody" THEN 0 ELSE 1)
    BY Zenon DEF Exact
  <2>1. heap'.refs[h] = (heap.refs[h] - Times(u, h)) - Out(h)
    BY <1>5, <1>6, Zenon
  <2>2. Count(fds', h) = Count(fds, h) - Times(u, h) /\ Times(u, h) \in Nat /\ Count(fds, h) \in Nat
    BY <1>4, <1>6, Zenon
  <2>3. CASE h \in attached
    <3>1. hold[h] # "nobody" /\ hold'[h] = "nobody" /\ Out(h) = 1
      BY <1>2, <1>6, <2>3, Zenon
    <3>2. heap.refs[h] = Count(fds, h) + 1
      BY <1>a, <3>1, Zenon
    <3>. HIDE DEF Out
    <3>. QED BY <2>1, <2>2, <3>1, <3>2
  <2>4. CASE h \notin attached
    <3>1. hold'[h] = hold[h] /\ Out(h) = 0
      BY <1>6, <2>4, Zenon
    <3>. HIDE DEF Out
    <3>. QED BY <1>a, <2>1, <2>2, <3>1
  <2>. QED BY <2>3, <2>4, Zenon
<1>8. Sound(heap')
  <2>. SUFFICES ASSUME NEW h \in closed.dead PROVE heap'.refs[h] = 0
    BY <1>6, Zenon DEF Sound
  <2>1. h \in Handle /\ h \notin attached
    BY <1>5, <1>b, Zenon DEF Heap
  <2>a. Out(h) = 0
    BY <2>1, Zenon
  <2>. HIDE DEF Out
  <2>2. heap'.refs[h] = heap.refs[h] - Times(u, h) /\ heap.refs[h] \in Nat /\ Times(u, h) \in Nat
    BY <1>4, <1>5, <1>6, <2>1, <2>a
  <2>3. CASE h \in heap.dead
    <3>1. heap.refs[h] = 0
      BY <2>3, Zenon DEF SInv, Sound
    <3>. QED BY <1>4, <2>1, <2>2, <2>3, <3>1
  <2>4. CASE h \notin heap.dead
    BY <1>5, <2>1, <2>2, <2>4
  <2>. QED BY <2>3, <2>4, Zenon
<1>. QED BY <1>1, <1>7, <1>8, Zenon DEF SInv

\* A step that leaves tables, counts and openers alone.
LEMMA SameCounts ==
    ASSUME SInv, [Next]_vars, UNCHANGED <<fds, heap, hold>> PROVE SInv'
<1>1. GInv'
  BY NextG, Zenon DEF SInv
<1>. QED BY <1>1, Zenon DEF SInv

\* Every step preserves the counts, or spoils them.
LEMMA NextS == ASSUME SInv, [Next]_vars PROVE spoiled' \/ SInv'
<1>0. Streams \subseteq Std
  BY StreamType, Zenon DEF Std
<1>. SUFFICES ASSUME ~spoiled' PROVE SInv'
  BY Zenon
<1>1. ASSUME NEW p \in Process, NEW h \in Handle,
             OpenDevice(p, h) \/ CloseDevice(p, h) \/ SysOpen(p, h)
      PROVE  SInv'
  BY <1>1, OpenDeviceS, CloseDeviceS, SysOpenS, Zenon
<1>2. ASSUME NEW p \in Process, NEW i \in Streams, NEW h \in Handle \cup {NULL}, SetStd(p, i, h)
      PROVE  SInv'
  <2>1. ~FreedFirst(p, i, h) /\ i \in Std
    BY <1>0, <1>2, Zenon DEF SetStd
  <2>. QED BY <1>2, <2>1, SetStdS, Zenon
<1>3. ASSUME NEW p \in Process, SysOpenFails(p) PROVE SInv'
  BY <1>3, SameCounts, Zenon DEF SysOpenFails, holdVars
<1>4. ASSUME NEW p \in Process, NEW i \in Closable, SysClose(p, i) PROVE SInv'
  <2>1. ~NotOpens(fds[p][i])
    BY <1>4, Zenon DEF SysClose
  <2>. QED BY <1>4, <2>1, SysCloseS, Zenon
<1>5. ASSUME NEW p \in Process, NEW c \in Process, CreateProcess(p, c) PROVE SInv'
  BY <1>5, SameCounts, Zenon DEF CreateProcess, holdVars, tableVars
<1>6. ASSUME NEW p \in Process, NEW c \in Process, DestroyProcess(p, c) PROVE SInv'
  <2>1. ~Overrun(CloseAll(heap, fds[c]),
                 {h \in Handle : by[h] = c /\ h \notin CloseAll(heap, fds[c]).dead})
    BY <1>6, Zenon DEF DestroyProcess
  <2>. QED BY <1>6, <2>1, DestroyProcessS, Zenon
<1>7. ASSUME NEW c \in Process, InheritDescriptors(c) PROVE SInv'
  <2>1. ~Overwritten(c)
    BY <1>7, Zenon DEF InheritDescriptors
  <2>. QED BY <1>7, <2>1, InheritDescriptorsS, Zenon
<1>8. CASE UNCHANGED vars
  BY <1>8, SameCounts, Zenon DEF vars
<1>. QED BY <1>1, <1>2, <1>3, <1>4, <1>5, <1>6, <1>7, <1>8, Zenon DEF Next, ProcessStep

\* Until the counts are spoiled they are exact, in every reachable state.
LEMMA InvarianceS == Spec => [](spoiled \/ SInv)
<1>1. Init => spoiled \/ SInv
  BY InitSInv, Zenon
<1>2. (spoiled \/ SInv) /\ [Next]_vars => (spoiled \/ SInv)'
  <2>. SUFFICES ASSUME spoiled \/ SInv, [Next]_vars PROVE spoiled' \/ SInv'
    BY Zenon
  <2>1. CASE spoiled
    BY <2>1, SpoiledStep, Zenon
  <2>2. CASE SInv
    BY <2>2, NextS, Zenon
  <2>. QED BY <2>1, <2>2, Zenon
<1>. QED BY <1>1, <1>2, PTL DEF Spec

(* BT_RefHandle, BT_CloseHandle and BT_SetProcessFileDescriptor, with the  *)
(* loops of BT_CreateProcess and BT_DestroyProcess: whichever processes    *)
(* open and close, and whether or not a new thread runs before its table   *)
(* is filled, the count of a handle is the number of descriptors that lead *)
(* to it, and one for its opener, until one of the four steps that spoil   *)
(* it, for any number of processes, handles and descriptors.               *)
THEOREM CountsExact == Spec => []CountsKept
<1>1. spoiled \/ SInv => CountsKept
  BY Zenon DEF SInv, Exact, CountsKept, RefsExact, Count, Uses, UsedBy
<1>. QED BY <1>1, InvarianceS, PTL

(* BT_DestroyHandle: until then no descriptor leads to a freed handle, and *)
(* none is used again.                                                     *)
THEOREM NoDanglingDescriptor == Spec => []NoneDangles
<1>1. ASSUME SInv PROVE DescriptorsAlive
  <2>1. ASSUME NEW s \in Slot PROVE fds[s[1]][s[2]] \notin heap.dead
    <3>1. s[1] \in Process /\ s[2] \in FD
      BY Zenon DEF Slot
    <3>2. NULL \notin heap.dead
      BY <1>1, Types, Zenon DEF SInv, Heap
    <3>. QED BY <1>1, <3>1, <3>2, SlotAlive, Zenon
  <2>. QED BY <1>1, <2>1, Zenon DEF DescriptorsAlive, SInv, Sound
<1>2. spoiled \/ SInv => NoneDangles
  BY <1>1, Zenon DEF NoneDangles
<1>. QED BY <1>2, InvarianceS, PTL
=============================================================================
