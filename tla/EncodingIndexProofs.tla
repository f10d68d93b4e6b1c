------------------------- MODULE EncodingIndexProofs -------------------------
(***************************************************************************)
(* Proofs about the index parser: its stacks, scopes and sessions stay in  *)
(* step with the elements that are open, and what the registry keeps       *)
(* beside its list agrees with the list, for any index files and pages.    *)
(***************************************************************************)
EXTENDS EncodingIndex, SequenceLemmas, FunctionTheorems, TLAPS

----------------------------------------------------------------------------
(* The scope stack.  ScopesSound does not say that a scope is free once and *)
(* open once, nor that a free one is not open: recycling needs all three.   *)

IsScope(c) == c = [parent |-> c.parent, storage |-> c.storage]

ScopeTypes(s) ==
  /\ s = [heap |-> s.heap, stack |-> s.stack, free |-> s.free]
  /\ IsSeq(s.heap) /\ IsSeq(s.stack) /\ IsSeq(s.free)
  /\ \A c \in DOMAIN s.heap : IsScope(s.heap[c])
  /\ \A k \in DOMAIN s.stack : s.stack[k] \in DOMAIN s.heap
  /\ \A k \in DOMAIN s.free : s.free[k] \in DOMAIN s.heap

OnePlace(s) ==
  /\ \A j, k \in DOMAIN s.stack : s.stack[j] = s.stack[k] => j = k
  /\ \A j, k \in DOMAIN s.free : s.free[j] = s.free[k] => j = k
  /\ \A j \in DOMAIN s.stack, k \in DOMAIN s.free : s.stack[j] # s.free[k]

ScopeInv(s) == ScopeTypes(s) /\ OnePlace(s) /\ ScopesSound(s)

LEMMA NewSound == ScopeInv(NewScopeStack) /\ Len(NewScopeStack.stack) = 0
BY EmptyIsSeq DEF ScopeInv, ScopeTypes, OnePlace, ScopesSound, NewScopeStack

LEMMA PushFreshSound ==
  ASSUME NEW s, ScopeInv(s), s.free = << >>
  PROVE  ScopeInv(PushFresh(s)) /\ Len(PushFresh(s).stack) = Len(s.stack) + 1
<1> DEFINE n == Len(s.heap)
           m == Len(s.stack)
           new == [parent |-> Current(s), storage |-> Empty]
           heap == Append(s.heap, new)
           stack == Append(s.stack, n + 1)
           t == PushFresh(s)
<1>1. ScopeTypes(s) /\ OnePlace(s) /\ ScopesSound(s)
  BY DEF ScopeInv
<1>2. IsSeq(s.heap) /\ IsSeq(s.stack) /\ IsSeq(s.free)
  BY <1>1 DEF ScopeTypes
<1>3. /\ n \in Nat /\ DOMAIN s.heap = 1..n
      /\ m \in Nat /\ DOMAIN s.stack = 1..m
      /\ Len(s.free) = 0 /\ DOMAIN s.free = {}
  BY <1>2, SeqShape
<1>4. /\ IsSeq(heap) /\ Len(heap) = n + 1 /\ DOMAIN heap = 1..(n + 1)
      /\ \A k \in 1..n : heap[k] = s.heap[k]
      /\ heap[n + 1] = new
  BY <1>2, SeqAppend
<1>5. /\ IsSeq(stack) /\ Len(stack) = m + 1 /\ DOMAIN stack = 1..(m + 1)
      /\ \A k \in 1..m : stack[k] = s.stack[k]
      /\ stack[m + 1] = n + 1
  BY <1>2, SeqAppend
<1> HIDE DEF heap, stack
<1>6. t = [heap |-> heap, stack |-> stack, free |-> s.free]
  BY DEF heap, stack, PushFresh
<1>7. t.heap = heap /\ t.stack = stack /\ t.free = s.free
  BY <1>6
<1>8. Current(s) = IF m = 0 THEN 0 ELSE s.stack[m]
  BY <1>2, SeqShape DEF Current
<1>9. /\ \A k \in 1..m : s.stack[k] \in 1..n
      /\ \A c \in 1..n : IsScope(s.heap[c])
  BY <1>1, <1>3 DEF ScopeTypes
<1>10. IsScope(new)
  BY DEF IsScope
<1> HIDE DEF t, n, m, new
<1>11. ScopeTypes(t)
  BY <1>2, <1>3, <1>4, <1>5, <1>6, <1>7, <1>9, <1>10 DEF ScopeTypes
<1>12. OnePlace(t)
  BY <1>1, <1>3, <1>5, <1>7, <1>9 DEF OnePlace
<1>13. ScopesSound(t)
  <2>1. \A k \in DOMAIN t.stack :
          t.heap[t.stack[k]].parent = IF k = 1 THEN 0 ELSE t.stack[k - 1]
    <3>1. new.parent = IF m = 0 THEN 0 ELSE s.stack[m]
      BY <1>8 DEF new
    <3>2. \A k \in 1..m : s.heap[s.stack[k]].parent = IF k = 1 THEN 0 ELSE s.stack[k - 1]
      BY <1>1, <1>3 DEF ScopesSound
    <3>3. ASSUME NEW k \in 1..(m + 1)
          PROVE  heap[stack[k]].parent = IF k = 1 THEN 0 ELSE stack[k - 1]
      <4>1. CASE k = m + 1
        <5>1. heap[stack[k]] = new
          BY <4>1, <1>4, <1>5
        <5>2. m # 0 => m \in 1..m /\ k - 1 = m /\ stack[m] = s.stack[m]
          BY <4>1, <1>3, <1>5
        <5>3. k = 1 <=> m = 0
          BY <4>1, <1>3
        <5> QED
          BY <5>1, <5>2, <5>3, <3>1
      <4>2. CASE k \in 1..m
        <5>1. heap[stack[k]] = s.heap[s.stack[k]]
          BY <4>2, <1>4, <1>5, <1>9
        <5>2. k # 1 => k - 1 \in 1..m
          BY <4>2, <1>3
        <5> QED
          BY <4>2, <5>1, <5>2, <3>2, <1>5
      <4> QED
        BY <4>1, <4>2, <1>3
    <3> QED
      BY <3>3, <1>5, <1>7
  <2>2. \A k \in DOMAIN t.free : t.heap[t.free[k]] = [parent |-> 0, storage |-> Empty]
    BY <1>3, <1>7
  <2>3. ASSUME NEW c \in DOMAIN t.heap
        PROVE  \E k \in DOMAIN t.stack :
                 t.stack[k] = c /\ \A j \in DOMAIN t.stack : t.stack[j] = c => j = k
    <3>1. c = n + 1 \/ c \in 1..n
      BY <1>3, <1>4, <1>7
    <3>2. CASE c = n + 1
      <4>1. m + 1 \in 1..(m + 1) /\ stack[m + 1] = c
        BY <3>2, <1>3, <1>5
      <4>2. \A j \in 1..(m + 1) : stack[j] = c => j = m + 1
        <5>1. \A j \in 1..m : stack[j] \in 1..n
          BY <1>5, <1>9
        <5>2. c \notin 1..n
          BY <3>2, <1>3
        <5> QED
          BY <5>1, <5>2, <1>3
      <4> QED
        BY <4>1, <4>2, <1>5, <1>7
    <3>3. CASE c \in 1..n
      <4>1. c \in DOMAIN s.heap /\ DOMAIN s.free = {}
        BY <3>3, <1>3
      <4>2. PICK k \in DOMAIN s.stack :
              s.stack[k] = c /\ \A j \in DOMAIN s.stack : s.stack[j] = c => j = k
        BY <4>1, <1>1 DEF ScopesSound
      <4>3. k \in 1..(m + 1) /\ stack[k] = c
        BY <4>2, <1>3, <1>5
      <4>4. \A j \in 1..(m + 1) : stack[j] = c => j = k
        <5>1. stack[m + 1] # c
          BY <3>3, <1>3, <1>5
        <5> QED
          BY <5>1, <4>2, <1>3, <1>5
      <4> QED
        BY <4>3, <4>4, <1>5, <1>7
    <3> QED
      BY <3>1, <3>2, <3>3
  <2>4. Len(t.stack) + Len(t.free) = Len(t.heap)
    <3>1. m + 0 = n
      BY <1>1, <1>3 DEF ScopesSound, m, n
    <3> QED
      BY <3>1, <1>3, <1>4, <1>5, <1>7
  <2> QED
    BY <2>1, <2>2, <2>3, <2>4 DEF ScopesSound
<1> QED
  BY <1>5, <1>7, <1>11, <1>12, <1>13 DEF ScopeInv, t, m

LEMMA PushRecycledSound ==
  ASSUME NEW s, ScopeInv(s), s.free # << >>
  PROVE  ScopeInv(PushRecycled(s)) /\ Len(PushRecycled(s).stack) = Len(s.stack) + 1
<1> DEFINE n == Len(s.heap)
           m == Len(s.stack)
           f == Len(s.free)
           c == s.free[f]
           new == [s.heap[c] EXCEPT !.parent = Current(s)]
           heap == [s.heap EXCEPT ![c] = new]
           stack == Append(s.stack, c)
           free == SubSeq(s.free, 1, f - 1)
           t == PushRecycled(s)
<1>1. ScopeTypes(s) /\ OnePlace(s) /\ ScopesSound(s)
  BY DEF ScopeInv
<1>2. IsSeq(s.heap) /\ IsSeq(s.stack) /\ IsSeq(s.free)
  BY <1>1 DEF ScopeTypes
<1>3. /\ n \in Nat /\ DOMAIN s.heap = 1..n
      /\ m \in Nat /\ DOMAIN s.stack = 1..m
      /\ f \in Nat /\ f # 0 /\ DOMAIN s.free = 1..f
  BY <1>2, SeqShape
<1>4. /\ \A k \in 1..m : s.stack[k] \in 1..n
      /\ \A k \in 1..f : s.free[k] \in 1..n
      /\ \A k \in 1..n : IsScope(s.heap[k])
  BY <1>1, <1>3 DEF ScopeTypes
<1>5. c \in 1..n
  BY <1>3, <1>4
<1>6. /\ IsSeq(heap) /\ Len(heap) = n /\ DOMAIN heap = 1..n
      /\ \A k \in 1..n : heap[k] = IF k = c THEN new ELSE s.heap[k]
  <2> HIDE DEF new, c
  <2>1. /\ IsSeq(heap) /\ Len(heap) = Len(s.heap) /\ DOMAIN heap = DOMAIN s.heap
        /\ \A k \in DOMAIN s.heap : heap[k] = IF k = c THEN new ELSE s.heap[k]
    BY <1>2, SeqExcept
  <2> QED
    BY <2>1, <1>3
<1>7. /\ IsSeq(stack) /\ Len(stack) = m + 1 /\ DOMAIN stack = 1..(m + 1)
      /\ \A k \in 1..m : stack[k] = s.stack[k]
      /\ stack[m + 1] = c
  BY <1>2, SeqAppend
<1>8. /\ f - 1 \in Nat /\ IsSeq(free) /\ Len(free) = f - 1 /\ DOMAIN free = 1..(f - 1)
      /\ \A k \in 1..(f - 1) : free[k] = s.free[k]
  BY <1>2, SeqFront
<1>9. IsScope(new) /\ new.parent = Current(s)
  <2>1. s.heap[c] = [parent |-> s.heap[c].parent, storage |-> s.heap[c].storage]
    BY <1>4, <1>5 DEF IsScope
  <2> HIDE DEF c
  <2>2. new = [parent |-> Current(s), storage |-> s.heap[c].storage]
    BY <2>1
  <2> QED
    BY <2>2 DEF IsScope
<1>10. Current(s) = IF m = 0 THEN 0 ELSE s.stack[m]
  BY <1>2, SeqShape DEF Current
<1> HIDE DEF heap, stack, free, new
<1>11. t = [heap |-> heap, stack |-> stack, free |-> free]
  BY DEF heap, stack, free, new, PushRecycled
<1>12. t.heap = heap /\ t.stack = stack /\ t.free = free
  BY <1>11
<1> HIDE DEF t, n, m
<1>13. /\ \A k \in 1..m : s.stack[k] # c
       /\ \A k \in 1..(f - 1) : s.free[k] # c
  <2>1. f \in DOMAIN s.free /\ \A k \in 1..(f - 1) : k \in DOMAIN s.free /\ k # f
    BY <1>3
  <2> QED
    BY <2>1, <1>1, <1>3 DEF OnePlace
<1> HIDE DEF c, f
<1>14. ScopeTypes(t)
  <2>1. \A k \in 1..n : IsScope(heap[k])
    BY <1>4, <1>6, <1>9
  <2>2. ASSUME NEW k \in 1..(m + 1) PROVE stack[k] \in 1..n
    <3>1. m \in Nat
      BY <1>3
    <3>2. k \in 1..m \/ k = m + 1
      BY <3>1
    <3> QED
      BY <3>2, <1>4, <1>5, <1>7
  <2>3. \A k \in 1..(f - 1) : free[k] \in 1..n
    <3>1. 1..(f - 1) \subseteq 1..f
      BY <1>3
    <3> QED
      BY <3>1, <1>4, <1>8
  <2>4. t = [heap |-> t.heap, stack |-> t.stack, free |-> t.free]
    BY <1>11, <1>12
  <2> QED
    BY <2>1, <2>2, <2>3, <2>4, <1>6, <1>7, <1>8, <1>12 DEF ScopeTypes
<1>15. OnePlace(t)
  <2>1. \A j, k \in 1..(m + 1) : stack[j] = stack[k] => j = k
    BY <1>1, <1>3, <1>7, <1>13 DEF OnePlace
  <2>2. \A j, k \in 1..(f - 1) : free[j] = free[k] => j = k
    <3>1. 1..(f - 1) \subseteq DOMAIN s.free
      BY <1>3
    <3> QED
      BY <3>1, <1>1, <1>8 DEF OnePlace
  <2>3. ASSUME NEW j \in 1..(m + 1), NEW k \in 1..(f - 1) PROVE stack[j] # free[k]
    <3>1. free[k] = s.free[k] /\ s.free[k] # c /\ k \in DOMAIN s.free
      BY <1>3, <1>8, <1>13
    <3>2. CASE j = m + 1
      BY <3>1, <3>2, <1>7
    <3>3. CASE j \in 1..m
      <4>1. stack[j] = s.stack[j] /\ j \in DOMAIN s.stack
        BY <3>3, <1>3, <1>7
      <4> QED
        BY <3>1, <4>1, <1>1 DEF OnePlace
    <3> QED
      BY <3>2, <3>3, <1>3
  <2> QED
    BY <2>1, <2>2, <2>3, <1>7, <1>8, <1>12 DEF OnePlace
<1>16. ScopesSound(t)
  <2>1. \A k \in DOMAIN t.stack :
          t.heap[t.stack[k]].parent = IF k = 1 THEN 0 ELSE t.stack[k - 1]
    <3>1. \A k \in 1..m : s.heap[s.stack[k]].parent = IF k = 1 THEN 0 ELSE s.stack[k - 1]
      BY <1>1, <1>3 DEF ScopesSound
    <3>2. ASSUME NEW k \in 1..(m + 1)
          PROVE  heap[stack[k]].parent = IF k = 1 THEN 0 ELSE stack[k - 1]
      <4>1. CASE k = m + 1
        <5>1. heap[stack[k]] = new
          BY <4>1, <1>5, <1>6, <1>7
        <5>2. m # 0 => m \in 1..m /\ k - 1 = m /\ stack[m] = s.stack[m]
          BY <4>1, <1>3, <1>7
        <5>3. k = 1 <=> m = 0
          BY <4>1, <1>3
        <5> QED
          BY <5>1, <5>2, <5>3, <1>9, <1>10
      <4>2. CASE k \in 1..m
        <5>1. heap[stack[k]] = s.heap[s.stack[k]]
          BY <4>2, <1>4, <1>6, <1>7, <1>13
        <5>2. k # 1 => k - 1 \in 1..m
          BY <4>2, <1>3
        <5> QED
          BY <4>2, <5>1, <5>2, <3>1, <1>7
      <4> QED
        BY <4>1, <4>2, <1>3
    <3> QED
      BY <3>2, <1>7, <1>12
  <2>2. \A k \in DOMAIN t.free : t.heap[t.free[k]] = [parent |-> 0, storage |-> Empty]
    <3>1. \A k \in 1..f : s.heap[s.free[k]] = [parent |-> 0, storage |-> Empty]
      BY <1>1, <1>3 DEF ScopesSound
    <3> QED
      BY <3>1, <1>3, <1>4, <1>6, <1>8, <1>12, <1>13
  <2>3. ASSUME NEW d \in DOMAIN t.heap
        PROVE  \/ \E k \in DOMAIN t.stack :
                    t.stack[k] = d /\ \A j \in DOMAIN t.stack : t.stack[j] = d => j = k
               \/ \E k \in DOMAIN t.free : t.free[k] = d
    <3>1. CASE d = c
      BY <3>1, <1>3, <1>7, <1>12, <1>13
    <3>2. CASE d # c
      <4>1. \/ \E k \in 1..m : s.stack[k] = d /\ \A j \in 1..m : s.stack[j] = d => j = k
            \/ \E k \in 1..f : s.free[k] = d
        <5>1. d \in DOMAIN s.heap
          BY <1>3, <1>6, <1>12
        <5>2. \/ \E k \in DOMAIN s.stack :
                    s.stack[k] = d /\ \A j \in DOMAIN s.stack : s.stack[j] = d => j = k
              \/ \E k \in DOMAIN s.free : s.free[k] = d
          BY <5>1, <1>1 DEF ScopesSound
        <5> QED
          BY <5>2, <1>3
      <4>2. CASE \E k \in 1..m : s.stack[k] = d /\ \A j \in 1..m : s.stack[j] = d => j = k
        <5>1. PICK k \in 1..m : s.stack[k] = d /\ \A j \in 1..m : s.stack[j] = d => j = k
          BY <4>2
        <5>2. k \in DOMAIN t.stack /\ t.stack[k] = d
          BY <5>1, <1>3, <1>7, <1>12
        <5>3. ASSUME NEW j \in DOMAIN t.stack, t.stack[j] = d PROVE j = k
          <6>1. j # m + 1
            BY <5>3, <3>2, <1>7, <1>12
          <6>2. j \in 1..m
            BY <6>1, <1>3, <1>7, <1>12
          <6> QED
            BY <5>1, <5>3, <6>2, <1>7, <1>12
        <5> QED
          BY <5>2, <5>3
      <4>3. CASE \E k \in 1..f : s.free[k] = d
        <5>1. PICK k \in 1..f : s.free[k] = d
          BY <4>3
        <5>2. k \in 1..(f - 1)
          BY <5>1, <3>2, <1>3 DEF c
        <5> QED
          BY <5>1, <5>2, <1>8, <1>12
      <4> QED
        BY <4>1, <4>2, <4>3
    <3> QED
      BY <3>1, <3>2
  <2>4. Len(t.stack) + Len(t.free) = Len(t.heap)
    <3>1. m + f = n
      BY <1>1, <1>3 DEF ScopesSound, m, n, f
    <3> QED
      BY <3>1, <1>3, <1>6, <1>7, <1>8, <1>12
  <2> QED
    BY <2>1, <2>2, <2>3, <2>4 DEF ScopesSound
<1> QED
  BY <1>7, <1>12, <1>14, <1>15, <1>16 DEF ScopeInv, t, m

LEMMA PushSound ==
  ASSUME NEW s, ScopeInv(s)
  PROVE  ScopeInv(Push(s)) /\ Len(Push(s).stack) = Len(s.stack) + 1
BY PushFreshSound, PushRecycledSound DEF Push

LEMMA PopSound ==
  ASSUME NEW s, ScopeInv(s), s.stack # << >>
  PROVE  ScopeInv(Pop(s)) /\ Len(Pop(s).stack) = Len(s.stack) - 1
<1> DEFINE n == Len(s.heap)
           m == Len(s.stack)
           f == Len(s.free)
           c == s.stack[m]
           new == [parent |-> 0, storage |-> Empty]
           heap == [s.heap EXCEPT ![c] = new]
           stack == SubSeq(s.stack, 1, m - 1)
           free == Append(s.free, c)
           t == Pop(s)
<1>1. ScopeTypes(s) /\ OnePlace(s) /\ ScopesSound(s)
  BY DEF ScopeInv
<1>2. IsSeq(s.heap) /\ IsSeq(s.stack) /\ IsSeq(s.free)
  BY <1>1 DEF ScopeTypes
<1>3. /\ n \in Nat /\ DOMAIN s.heap = 1..n
      /\ m \in Nat /\ m # 0 /\ DOMAIN s.stack = 1..m
      /\ f \in Nat /\ DOMAIN s.free = 1..f
  BY <1>2, SeqShape
<1>4. /\ \A k \in 1..m : s.stack[k] \in 1..n
      /\ \A k \in 1..f : s.free[k] \in 1..n
      /\ \A k \in 1..n : IsScope(s.heap[k])
  BY <1>1, <1>3 DEF ScopeTypes
<1>5. c \in 1..n
  BY <1>3, <1>4
<1>6. /\ IsSeq(heap) /\ Len(heap) = n /\ DOMAIN heap = 1..n
      /\ \A k \in 1..n : heap[k] = IF k = c THEN new ELSE s.heap[k]
  <2> HIDE DEF new, c
  <2>1. /\ IsSeq(heap) /\ Len(heap) = Len(s.heap) /\ DOMAIN heap = DOMAIN s.heap
        /\ \A k \in DOMAIN s.heap : heap[k] = IF k = c THEN new ELSE s.heap[k]
    BY <1>2, SeqExcept
  <2> QED
    BY <2>1, <1>3
<1>7. /\ m - 1 \in Nat /\ IsSeq(stack) /\ Len(stack) = m - 1 /\ DOMAIN stack = 1..(m - 1)
      /\ \A k \in 1..(m - 1) : stack[k] = s.stack[k]
  BY <1>2, SeqFront
<1>8. /\ IsSeq(free) /\ Len(free) = f + 1 /\ DOMAIN free = 1..(f + 1)
      /\ \A k \in 1..f : free[k] = s.free[k]
      /\ free[f + 1] = c
  BY <1>2, SeqAppend
<1>9. Current(s) = c
  BY DEF Current
<1> HIDE DEF heap, stack, free
<1>10. t = [heap |-> heap, stack |-> stack, free |-> free]
  BY <1>9 DEF heap, stack, free, Pop
<1>11. t.heap = heap /\ t.stack = stack /\ t.free = free
  BY <1>10
<1>12. /\ \A k \in 1..(m - 1) : s.stack[k] # c
       /\ \A k \in 1..f : s.free[k] # c
  <2>1. m \in DOMAIN s.stack /\ \A k \in 1..(m - 1) : k \in DOMAIN s.stack /\ k # m
    BY <1>3
  <2> QED
    BY <2>1, <1>1, <1>3 DEF OnePlace
<1>13. IsScope(new) /\ new.parent = 0
  BY DEF IsScope
<1> HIDE DEF t, n, m, c, f
<1>14. ScopeTypes(t)
  <2>1. \A k \in 1..n : IsScope(heap[k])
    BY <1>4, <1>6, <1>13
  <2>2. \A k \in 1..(m - 1) : stack[k] \in 1..n
    BY <1>3, <1>4, <1>7
  <2>3. ASSUME NEW k \in 1..(f + 1) PROVE free[k] \in 1..n
    <3>1. CASE k = f + 1
      BY <3>1, <1>5, <1>8
    <3>2. CASE k # f + 1
      <4>1. k \in 1..f
        BY <3>2, <1>3
      <4> QED
        BY <4>1, <1>4, <1>8
    <3> QED
      BY <3>1, <3>2
  <2>4. t = [heap |-> t.heap, stack |-> t.stack, free |-> t.free]
    BY <1>10, <1>11
  <2> QED
    BY <2>1, <2>2, <2>3, <2>4, <1>6, <1>7, <1>8, <1>11 DEF ScopeTypes
<1>15. OnePlace(t)
  <2>1. \A j, k \in 1..(m - 1) : stack[j] = stack[k] => j = k
    <3>1. 1..(m - 1) \subseteq DOMAIN s.stack
      BY <1>3
    <3> QED
      BY <3>1, <1>1, <1>7 DEF OnePlace
  <2>2. \A j, k \in 1..(f + 1) : free[j] = free[k] => j = k
    <3>1. \A j, k \in 1..f : s.free[j] = s.free[k] => j = k
      BY <1>1, <1>3 DEF OnePlace
    <3>2. \A k \in 1..(f + 1) : k = f + 1 \/ k \in 1..f
      BY <1>3
    <3> QED
      BY <3>1, <3>2, <1>8, <1>12
  <2>3. \A j \in 1..(m - 1), k \in 1..(f + 1) : stack[j] # free[k]
    <3>1. \A j \in 1..(m - 1), k \in 1..f : s.stack[j] # s.free[k]
      <4>1. 1..(m - 1) \subseteq DOMAIN s.stack
        BY <1>3
      <4> QED
        BY <4>1, <1>1, <1>3 DEF OnePlace
    <3>2. \A k \in 1..(f + 1) : k = f + 1 \/ k \in 1..f
      BY <1>3
    <3> QED
      BY <3>1, <3>2, <1>7, <1>8, <1>12
  <2> QED
    BY <2>1, <2>2, <2>3, <1>7, <1>8, <1>11 DEF OnePlace
<1>16. ScopesSound(t)
  <2>1. \A k \in DOMAIN t.stack :
          t.heap[t.stack[k]].parent = IF k = 1 THEN 0 ELSE t.stack[k - 1]
    <3>1. \A k \in 1..m : s.heap[s.stack[k]].parent = IF k = 1 THEN 0 ELSE s.stack[k - 1]
      BY <1>1, <1>3 DEF ScopesSound
    <3>2. ASSUME NEW k \in 1..(m - 1)
          PROVE  heap[stack[k]].parent = IF k = 1 THEN 0 ELSE stack[k - 1]
      <4>1. k \in 1..m /\ (k # 1 => k - 1 \in 1..(m - 1))
        BY <1>3
      <4>2. heap[stack[k]] = s.heap[s.stack[k]]
        BY <4>1, <1>4, <1>6, <1>7, <1>12
      <4> QED
        BY <4>1, <4>2, <3>1, <1>7
    <3> QED
      BY <3>2, <1>7, <1>11
  <2>2. \A k \in DOMAIN t.free : t.heap[t.free[k]] = [parent |-> 0, storage |-> Empty]
    <3>1. \A k \in 1..f : s.heap[s.free[k]] = [parent |-> 0, storage |-> Empty]
      BY <1>1, <1>3 DEF ScopesSound
    <3>2. \A k \in 1..f : heap[free[k]] = s.heap[s.free[k]]
      BY <1>4, <1>6, <1>8, <1>12
    <3>3. heap[free[f + 1]] = new
      BY <1>5, <1>6, <1>8
    <3>4. \A k \in 1..(f + 1) : k = f + 1 \/ k \in 1..f
      BY <1>3
    <3> QED
      BY <3>1, <3>2, <3>3, <3>4, <1>8, <1>11 DEF new
  <2>3. ASSUME NEW d \in DOMAIN t.heap
        PROVE  \/ \E k \in DOMAIN t.stack :
                    t.stack[k] = d /\ \A j \in DOMAIN t.stack : t.stack[j] = d => j = k
               \/ \E k \in DOMAIN t.free : t.free[k] = d
    <3>1. CASE d = c
      <4>1. f + 1 \in 1..(f + 1)
        BY <1>3
      <4> QED
        BY <3>1, <4>1, <1>8, <1>11
    <3>2. CASE d # c
      <4>1. d \in DOMAIN s.heap
        BY <1>3, <1>6, <1>11
      <4>2. \/ \E k \in DOMAIN s.stack :
                  s.stack[k] = d /\ \A j \in DOMAIN s.stack : s.stack[j] = d => j = k
            \/ \E k \in DOMAIN s.free : s.free[k] = d
        BY <4>1, <1>1 DEF ScopesSound
      <4>3. CASE \E k \in DOMAIN s.stack :
                   s.stack[k] = d /\ \A j \in DOMAIN s.stack : s.stack[j] = d => j = k
        <5>1. PICK k \in 1..m : s.stack[k] = d /\ \A j \in 1..m : s.stack[j] = d => j = k
          BY <4>3, <1>3
        <5>2. k \in 1..(m - 1)
          BY <5>1, <3>2, <1>3 DEF c
        <5>3. \A j \in 1..(m - 1) : j \in 1..m
          BY <1>3
        <5> QED
          BY <5>1, <5>2, <5>3, <1>7, <1>11
      <4>4. CASE \E k \in DOMAIN s.free : s.free[k] = d
        <5>1. PICK k \in 1..f : s.free[k] = d
          BY <4>4, <1>3
        <5>2. k \in 1..(f + 1)
          BY <1>3
        <5> QED
          BY <5>1, <5>2, <1>8, <1>11
      <4> QED
        BY <4>2, <4>3, <4>4
    <3> QED
      BY <3>1, <3>2
  <2>4. Len(t.stack) + Len(t.free) = Len(t.heap)
    <3>1. m + f = n
      BY <1>1 DEF ScopesSound, m, n, f
    <3> QED
      BY <3>1, <1>3, <1>6, <1>7, <1>8, <1>11
  <2> QED
    BY <2>1, <2>2, <2>3, <2>4 DEF ScopesSound
<1> QED
  BY <1>7, <1>11, <1>14, <1>15, <1>16 DEF ScopeInv, t, m

\* Storing touches the innermost open scope only, which no free place names.
LEMMA StoreSound ==
  ASSUME NEW s, NEW key, NEW value, ScopeInv(s), s.stack # << >>
  PROVE  /\ ScopeInv(StoreInScope(s, key, value))
         /\ Len(StoreInScope(s, key, value).stack) = Len(s.stack)
<1> DEFINE m == Len(s.stack)
           c == s.stack[m]
           new == [s.heap[c] EXCEPT !.storage = (key :> value) @@ @]
           heap == [s.heap EXCEPT ![c] = new]
           t == StoreInScope(s, key, value)
<1>1. ScopeTypes(s) /\ OnePlace(s) /\ ScopesSound(s)
  BY DEF ScopeInv
<1>2. IsSeq(s.heap) /\ IsSeq(s.stack) /\ IsSeq(s.free)
  BY <1>1 DEF ScopeTypes
<1>3. m \in Nat /\ m # 0 /\ DOMAIN s.stack = 1..m
  BY <1>2, SeqShape
<1>4. m \in DOMAIN s.stack
  BY <1>3
<1>5. c \in DOMAIN s.heap /\ IsScope(s.heap[c])
  BY <1>1, <1>4 DEF ScopeTypes
<1>6. Current(s) = c
  BY DEF Current
<1>7. /\ IsSeq(heap) /\ Len(heap) = Len(s.heap) /\ DOMAIN heap = DOMAIN s.heap
      /\ \A k \in DOMAIN s.heap : heap[k] = IF k = c THEN new ELSE s.heap[k]
  <2> HIDE DEF new, c
  <2> QED
    BY <1>2, SeqExcept
<1>8. IsScope(new) /\ new.parent = s.heap[c].parent
  <2>1. s.heap[c] = [parent |-> s.heap[c].parent, storage |-> s.heap[c].storage]
    BY <1>5 DEF IsScope
  <2> HIDE DEF c
  <2>2. new = [parent |-> s.heap[c].parent, storage |-> (key :> value) @@ s.heap[c].storage]
    BY <2>1
  <2> QED
    BY <2>2 DEF IsScope
<1>9. s = [heap |-> s.heap, stack |-> s.stack, free |-> s.free]
  BY <1>1 DEF ScopeTypes
<1>10. t = [heap |-> heap, stack |-> s.stack, free |-> s.free]
  <2> HIDE DEF c
  <2>1. t = [s EXCEPT !.heap = heap]
    BY <1>6, <1>9 DEF StoreInScope
  <2> HIDE DEF t, heap
  <2> QED
    BY <2>1, <1>9
<1> HIDE DEF heap, new, t, m
<1>11. t.heap = heap /\ t.stack = s.stack /\ t.free = s.free
  BY <1>10
<1>12. \A k \in DOMAIN s.free : s.free[k] # c
  BY <1>1, <1>4 DEF OnePlace
<1> HIDE DEF c
<1>13. ScopeTypes(t)
  <2>1. t = [heap |-> t.heap, stack |-> t.stack, free |-> t.free]
    BY <1>10, <1>11
  <2>2. \A k \in DOMAIN heap : IsScope(heap[k])
    BY <1>1, <1>7, <1>8 DEF ScopeTypes
  <2> QED
    BY <2>1, <2>2, <1>1, <1>7, <1>11 DEF ScopeTypes
<1>14. OnePlace(t)
  BY <1>1, <1>11 DEF OnePlace
<1>15. ScopesSound(t)
  <2>1. \A k \in DOMAIN s.stack : heap[s.stack[k]].parent = s.heap[s.stack[k]].parent
    BY <1>1, <1>7, <1>8 DEF ScopeTypes
  <2>2. \A k \in DOMAIN s.free : heap[s.free[k]] = s.heap[s.free[k]]
    BY <1>1, <1>7, <1>12 DEF ScopeTypes
  <2>3. \A k \in DOMAIN t.stack :
          t.heap[t.stack[k]].parent = IF k = 1 THEN 0 ELSE t.stack[k - 1]
    BY <2>1, <1>1, <1>11 DEF ScopesSound
  <2>4. \A k \in DOMAIN t.free : t.heap[t.free[k]] = [parent |-> 0, storage |-> Empty]
    BY <2>2, <1>1, <1>11 DEF ScopesSound
  <2>5. \A d \in DOMAIN t.heap :
          \/ \E k \in DOMAIN t.stack :
               t.stack[k] = d /\ \A j \in DOMAIN t.stack : t.stack[j] = d => j = k
          \/ \E k \in DOMAIN t.free : t.free[k] = d
    BY <1>1, <1>7, <1>11 DEF ScopesSound
  <2>6. Len(t.stack) + Len(t.free) = Len(t.heap)
    BY <1>1, <1>7, <1>11 DEF ScopesSound
  <2> QED
    BY <2>3, <2>4, <2>5, <2>6 DEF ScopesSound
<1> QED
  BY <1>11, <1>13, <1>14, <1>15 DEF ScopeInv, t

----------------------------------------------------------------------------
(* Paths.  A session is kept under the path of an open element, and can only *)
(* be one of the handlers that element selects: closing it ends the session. *)

OpenAt(els, path, n) == n \in DOMAIN els /\ path = [k \in 1..n |-> els[k].tag]

LEMMA PathOfOpen ==
  ASSUME NEW els, IsSeq(els), els # << >>
  PROVE  /\ OpenAt(els, Path(els), Len(els))
         /\ \A tag : Select(Path(els), tag) <=> els[Len(els)].tag = tag
         /\ \A path, n : OpenAt(els, path, n) /\ n = Len(els) => path = Path(els)
<1> DEFINE n == Len(els)
<1>1. n \in Nat /\ n # 0 /\ DOMAIN els = 1..n /\ n \in 1..n
  BY SeqShape
<1>2. Path(els) = [k \in 1..n |-> els[k].tag]
  BY <1>1 DEF Path
<1> HIDE DEF n
<1>3. Path(els) = [k \in 1..n |-> Path(els)[k]] /\ Path(els)[n] = els[n].tag
  BY <1>1, <1>2
<1>4. IsSeq(Path(els)) /\ Len(Path(els)) = n
  BY <1>1, <1>3, SeqByShape
<1>5. Path(els) # << >>
  BY <1>1, <1>4, SeqShape
<1> QED
  BY <1>1, <1>2, <1>3, <1>4, <1>5 DEF OpenAt, Select, n

LEMMA PathOfNew ==
  ASSUME NEW els, NEW e, IsSeq(els)
  PROVE  /\ OpenAt(Append(els, e), Append(Path(els), e.tag), Len(els) + 1)
         /\ \A tag : Select(Append(Path(els), e.tag), tag) <=> e.tag = tag
         /\ \A p, n : OpenAt(els, p, n) => OpenAt(Append(els, e), p, n)
<1> DEFINE n == Len(els)
           path == Append(Path(els), e.tag)
           more == Append(els, e)
<1>1. n \in Nat /\ DOMAIN els = 1..n
  BY SeqShape
<1>2. Path(els) = [k \in 1..n |-> Path(els)[k]] /\ Path(els) = [k \in 1..n |-> els[k].tag]
  BY <1>1 DEF Path
<1>3. IsSeq(Path(els)) /\ Len(Path(els)) = n
  <2> HIDE DEF n
  <2> QED
    BY <1>1, <1>2, SeqByShape
<1>4. /\ IsSeq(more) /\ DOMAIN more = 1..(n + 1)
      /\ \A k \in 1..n : more[k] = els[k]
      /\ more[n + 1] = e
  BY SeqAppend
<1>5. /\ IsSeq(path) /\ Len(path) = n + 1
      /\ path = [k \in 1..(n + 1) |-> IF k <= n THEN Path(els)[k] ELSE e.tag]
      /\ path[n + 1] = e.tag
  <2> DEFINE p == Path(els)
             t == e.tag
  <2> HIDE DEF n, p, t
  <2>1. IsSeq(p) /\ Len(p) = n
    BY <1>3 DEF p
  <2> QED
    BY <2>1, SeqAppend DEF p, t
<1>6. path # << >>
  <2> HIDE DEF path, n
  <2> QED
    BY <1>1, <1>5, SeqShape
<1> HIDE DEF path, more, n
<1>7. \A tag : Select(path, tag) <=> e.tag = tag
  BY <1>5, <1>6 DEF Select
<1>8. OpenAt(more, path, n + 1)
  <2>1. \A k \in 1..(n + 1) : (IF k <= n THEN Path(els)[k] ELSE e.tag) = more[k].tag
    <3> TAKE k \in 1..(n + 1)
    <3>1. CASE k <= n
      BY <3>1, <1>1, <1>2, <1>4
    <3>2. CASE ~(k <= n)
      <4>1. k = n + 1
        BY <3>2, <1>1
      <4> QED
        BY <4>1, <3>2, <1>4
    <3> QED
      BY <3>1, <3>2
  <2>2. n + 1 \in DOMAIN more
    BY <1>1, <1>4
  <2> QED
    BY <2>1, <2>2, <1>5 DEF OpenAt
<1>9. \A p, k : OpenAt(els, p, k) => OpenAt(more, p, k)
  <2> SUFFICES ASSUME NEW p, NEW k, OpenAt(els, p, k)
               PROVE  OpenAt(more, p, k)
    OBVIOUS
  <2>1. k \in 1..n /\ p = [j \in 1..k |-> els[j].tag]
    BY <1>1 DEF OpenAt
  <2>2. \A j \in 1..k : more[j] = els[j]
    BY <2>1, <1>1, <1>4
  <2>3. k \in DOMAIN more
    BY <2>1, <1>1, <1>4
  <2> QED
    BY <2>1, <2>2, <2>3 DEF OpenAt
<1> QED
  BY <1>7, <1>8, <1>9 DEF path, more, n

LEMMA PathOfOuter ==
  ASSUME NEW els, IsSeq(els), els # << >>,
         NEW path, NEW n, OpenAt(els, path, n), path # Path(els)
  PROVE  /\ OpenAt(SubSeq(els, 1, Len(els) - 1), path, n)
         /\ SubSeq(els, 1, Len(els) - 1)[n] = els[n]
<1> DEFINE m == Len(els)
           outer == SubSeq(els, 1, m - 1)
<1>1. m \in Nat /\ m # 0 /\ DOMAIN els = 1..m
  BY SeqShape
<1>2. /\ DOMAIN outer = 1..(m - 1)
      /\ \A k \in 1..(m - 1) : outer[k] = els[k]
  BY SeqFront
<1>3. n # m
  BY PathOfOpen
<1> HIDE DEF m, outer
<1>4. n \in 1..(m - 1) /\ path = [k \in 1..n |-> els[k].tag]
  BY <1>1, <1>3 DEF OpenAt
<1>5. \A k \in 1..n : outer[k] = els[k]
  BY <1>1, <1>2, <1>4
<1>6. outer[n] = els[n]
  BY <1>2, <1>4
<1> QED
  BY <1>2, <1>4, <1>5, <1>6 DEF OpenAt, m, outer

----------------------------------------------------------------------------
(* What the parser keeps. *)

PcInv ==
  /\ pc \in {"open", "parse", "add", "aliases", "resolve", "done", "failed"}
  /\ pc \in {"open", "add", "aliases", "resolve", "done"} => elements = << >>

Worded(t) ==
  /\ t.kind = "text" => t.words \in Seq(STRING)
  /\ t.kind = "start" => \A name \in DOMAIN t.attr : IsSeq(t.attr[name])
WordsOnly(toks) == \A k \in DOMAIN toks : Worded(toks[k])

InputInv ==
  /\ input \in Inputs /\ current \in Nat
  /\ IsSeq(tokens) /\ WordsOnly(tokens) /\ textTokens \in Seq(STRING)

StackInv ==
  /\ IsSeq(elements) /\ IsSeq(textStart) /\ ScopeInv(scope)
  /\ Len(textStart) = Len(elements) /\ Len(scope.stack) = Len(elements)
  /\ \A k \in DOMAIN textStart : textStart[k] \in Nat /\ textStart[k] <= Len(textTokens)

Opened(els, path, tag) ==
  \E n \in DOMAIN els : OpenAt(els, path, n) /\ els[n].tag = tag

OpenedCell(els, path, class) ==
  \E n \in DOMAIN els :
    OpenAt(els, path, n) /\ els[n].tag = "td" /\ GetAttr(els[n], "class") = <<class>>

SessionInv ==
  /\ sessions = [table |-> sessions.table, row |-> sessions.row, bitfield |-> sessions.bitfield]
  /\ \A path \in DOMAIN sessions.table : Opened(elements, path, "instructiontable")
  /\ \A path \in DOMAIN sessions.row : Opened(elements, path, "tr") /\ sessions.row[path] \in DOMAIN contexts
  /\ \A path \in DOMAIN sessions.bitfield : OpenedCell(elements, path, "bitfield")
  /\ IsSeq(contexts)

ParserInv == PcInv /\ InputInv /\ StackInv /\ SessionInv

LEMMA ParserInit ==
  ASSUME Init
  PROVE  ParserInv
<1> USE DEF Init
<1>1. PcInv
  BY DEF PcInv
<1>2. InputInv
  BY EmptyIsSeq DEF InputInv, WordsOnly
<1>3. StackInv
  BY EmptyIsSeq, NewSound DEF StackInv
<1>4. SessionInv
  BY EmptyIsSeq DEF SessionInv, Empty
<1> QED
  BY <1>1, <1>2, <1>3, <1>4 DEF ParserInv

\* Every action on a token consumes it.
LEMMA AdvanceKeeps ==
  ASSUME InputInv, tokens # << >>, tokens' = Tail(tokens)
  PROVE  /\ IsSeq(tokens') /\ WordsOnly(tokens')
         /\ Worded(Head(tokens))
<1> DEFINE S == ToSet(tokens)
           n == Len(tokens)
<1>1. IsSeq(tokens) /\ WordsOnly(tokens)
  BY DEF InputInv
<1>2. tokens \in Seq(S) /\ n \in Nat /\ n # 0 /\ DOMAIN tokens = 1..n
  BY <1>1, SeqShape DEF IsSeq
<1>3. 1 \in DOMAIN tokens /\ Head(tokens) = tokens[1]
  BY <1>2
<1> HIDE DEF S
<1>4. /\ Tail(tokens) \in Seq(S) /\ Len(Tail(tokens)) = n - 1
      /\ \A i \in 1..Len(Tail(tokens)) : Tail(tokens)[i] = tokens[i + 1]
  BY <1>2, HeadTailProperties
<1>5. DOMAIN Tail(tokens) = 1..(n - 1) /\ Tail(tokens) \in [1..(n - 1) -> S]
  BY <1>4, LenProperties
<1> HIDE DEF n
<1>6. n - 1 \in Nat /\ Tail(tokens) = [i \in 1..(n - 1) |-> Tail(tokens)[i]]
  <2>1. n - 1 \in Nat
    BY <1>2
  <2>2. Tail(tokens) = [i \in 1..(n - 1) |-> Tail(tokens)[i]]
    BY <1>5
  <2> QED
    BY <2>1, <2>2
<1>7. IsSeq(Tail(tokens))
  <2> DEFINE t == Tail(tokens)
             m == n - 1
  <2>1. m \in Nat /\ t = [i \in 1..m |-> t[i]]
    BY <1>6
  <2> HIDE DEF t, m
  <2>2. IsSeq(t)
    BY <2>1, SeqByShape
  <2> QED
    BY <2>2 DEF t
<1>8. WordsOnly(Tail(tokens))
  <2>1. \A i \in 1..(n - 1) : i + 1 \in DOMAIN tokens
    BY <1>2
  <2> QED
    BY <2>1, <1>1, <1>4, <1>5 DEF WordsOnly
<1> QED
  BY <1>1, <1>3, <1>7, <1>8 DEF WordsOnly

----------------------------------------------------------------------------
(* A start tag opens an element, a text mark and a scope. *)

\* The handlers of a start tag: the scope is Push(scope), stored into or not.
LEMMA StartScope ==
  ASSUME StackInv, NEW e, NEW path,
         \/ StartTable(e, path, Push(scope)) \/ StartRow(e, path, Push(scope))
         \/ StartBitfield(e, path, Push(scope)) \/ StartOther(e, path, Push(scope))
  PROVE  ScopeInv(scope') /\ Len(scope'.stack) = Len(elements) + 1
<1> DEFINE pushed == Push(scope)
<1>1. ScopeInv(scope) /\ Len(scope.stack) = Len(elements) /\ Len(elements) \in Nat
  BY SeqShape DEF StackInv
<1>2. ScopeInv(pushed) /\ Len(pushed.stack) = Len(elements) + 1
  BY <1>1, PushSound
<1>3. scope' = pushed \/ \E key, value : scope' = StoreInScope(pushed, key, value)
  BY DEF StartTable, StartRow, StartBitfield, StartOther
<1> HIDE DEF pushed
<1>4. IsSeq(pushed.stack)
  BY <1>2 DEF ScopeInv, ScopeTypes
<1>5. pushed.stack # << >>
  <2> DEFINE st == pushed.stack
  <2>1. IsSeq(st) /\ Len(st) # 0
    BY <1>1, <1>2, <1>4
  <2> HIDE DEF st
  <2>2. st # << >>
    BY <2>1, SeqShape
  <2> QED
    BY <2>2 DEF st
<1> QED
  BY <1>2, <1>3, <1>5, StoreSound

LEMMA StoredSession ==
  ASSUME NEW m, NEW path, NEW v
  PROVE  /\ DOMAIN SessionStore(m, path, v) = DOMAIN m \cup {path}
         /\ SessionStore(m, path, v)[path] = v
         /\ \A p \in DOMAIN m \ {path} : SessionStore(m, path, v)[p] = m[p]
BY DEF SessionStore

\* Storing a session for the element just opened, beside those of the others.
LEMMA StartSessions ==
  ASSUME SessionInv, IsSeq(elements), NEW e, elements' = Append(elements, e),
         LET path == Append(Path(elements), e.tag)
         IN  \/ StartTable(e, path, Push(scope)) \/ StartRow(e, path, Push(scope))
             \/ StartBitfield(e, path, Push(scope)) \/ StartOther(e, path, Push(scope))
  PROVE  SessionInv'
<1> DEFINE path == Append(Path(elements), e.tag)
           n == Len(elements) + 1
<1>1. /\ OpenAt(elements', path, n) /\ elements'[n] = e
      /\ \A tag : Select(path, tag) <=> e.tag = tag
      /\ \A p, k : OpenAt(elements, p, k) => OpenAt(elements', p, k) /\ elements'[k] = elements[k]
  <2> DEFINE more == elements'
  <2>1. path = Append(Path(elements), e.tag) /\ more = Append(elements, e)
    OBVIOUS
  <2>2. /\ OpenAt(more, path, n)
        /\ \A tag : Select(path, tag) <=> e.tag = tag
        /\ \A p, k : OpenAt(elements, p, k) => OpenAt(more, p, k)
    BY PathOfNew
  <2> HIDE DEF path
  <2>3. /\ more[n] = e /\ DOMAIN elements = 1..Len(elements)
        /\ \A k \in 1..Len(elements) : more[k] = elements[k]
    BY SeqAppend, SeqShape
  <2> HIDE DEF more, n
  <2>4. \A p, k : OpenAt(elements, p, k) => more[k] = elements[k]
    BY <2>3 DEF OpenAt
  <2> QED
    BY <2>2, <2>3, <2>4 DEF more
<1> HIDE DEF path, n
<1>2. \A p, tag : Opened(elements, p, tag) => Opened(elements', p, tag)
  BY <1>1 DEF Opened, OpenAt
<1>3. \A p, class : OpenedCell(elements, p, class) => OpenedCell(elements', p, class)
  BY <1>1 DEF OpenedCell, OpenAt
<1>4. Opened(elements', path, e.tag)
  BY <1>1 DEF Opened, OpenAt
<1>5. \A class : e.tag = "td" /\ GetAttr(e, "class") = <<class>> => OpenedCell(elements', path, class)
  BY <1>1 DEF OpenedCell, OpenAt
<1>6. \/ StartTable(e, path, Push(scope)) \/ StartRow(e, path, Push(scope))
      \/ StartBitfield(e, path, Push(scope)) \/ StartOther(e, path, Push(scope))
  BY DEF path
<1>7. /\ sessions = [table |-> sessions.table, row |-> sessions.row, bitfield |-> sessions.bitfield]
      /\ \A p \in DOMAIN sessions.table : Opened(elements', p, "instructiontable")
      /\ \A p \in DOMAIN sessions.row : Opened(elements', p, "tr") /\ sessions.row[p] \in DOMAIN contexts
      /\ \A p \in DOMAIN sessions.bitfield : OpenedCell(elements', p, "bitfield")
      /\ IsSeq(contexts)
  BY <1>2, <1>3 DEF SessionInv
<1>8. \A m, v : /\ DOMAIN SessionStore(m, path, v) = DOMAIN m \cup {path}
                /\ SessionStore(m, path, v)[path] = v
                /\ \A p \in DOMAIN m \ {path} : SessionStore(m, path, v)[p] = m[p]
  BY StoredSession
<1> HIDE DEF Opened, OpenedCell
<1>9. CASE StartTable(e, path, Push(scope))
  <2>1. Opened(elements', path, "instructiontable")
    BY <1>1, <1>4, <1>9 DEF StartTable
  <2> DEFINE table == SessionStore(sessions.table, path, GetAttr(e, "iclass"))
  <2>2. DOMAIN table = DOMAIN sessions.table \cup {path}
    BY <1>8
  <2>3. sessions' = [sessions EXCEPT !.table = table] /\ contexts' = contexts
    BY <1>9 DEF StartTable
  <2> HIDE DEF table
  <2>4. sessions' = [table |-> table, row |-> sessions.row, bitfield |-> sessions.bitfield]
    BY <1>7, <2>3
  <2> QED
    BY <1>7, <2>1, <2>2, <2>3, <2>4 DEF SessionInv
<1>10. CASE StartRow(e, path, Push(scope))
  <2>1. Opened(elements', path, "tr")
    BY <1>1, <1>4, <1>10 DEF StartRow
  <2> DEFINE row == SessionStore(sessions.row, path, Len(contexts) + 1)
  <2>2. /\ DOMAIN row = DOMAIN sessions.row \cup {path} /\ row[path] = Len(contexts) + 1
        /\ \A p \in DOMAIN sessions.row \ {path} : row[p] = sessions.row[p]
    BY <1>8
  <2>3. sessions' = [sessions EXCEPT !.row = row]
    BY <1>10 DEF StartRow
  <2>4. /\ IsSeq(contexts') /\ DOMAIN contexts' = 1..(Len(contexts) + 1)
        /\ Len(contexts) \in Nat /\ DOMAIN contexts = 1..Len(contexts)
    <3> DEFINE c == RowContext(e, Push(scope))
    <3>1. contexts' = Append(contexts, c)
      BY <1>10 DEF StartRow
    <3> HIDE DEF c
    <3> QED
      BY <3>1, <1>7, SeqAppend, SeqShape
  <2> HIDE DEF row
  <2>5. sessions' = [table |-> sessions.table, row |-> row, bitfield |-> sessions.bitfield]
    BY <1>7, <2>3
  <2>6. DOMAIN contexts \subseteq DOMAIN contexts' /\ Len(contexts) + 1 \in DOMAIN contexts'
    BY <2>4
  <2>7. \A p \in DOMAIN row : Opened(elements', p, "tr") /\ row[p] \in DOMAIN contexts'
    BY <1>7, <2>1, <2>2, <2>6
  <2> QED
    BY <1>7, <2>4, <2>5, <2>7 DEF SessionInv
<1>11. CASE StartBitfield(e, path, Push(scope))
  <2>1. OpenedCell(elements', path, "bitfield")
    BY <1>1, <1>5, <1>11 DEF StartBitfield, Cell
  <2> DEFINE bitfield == SessionStore(sessions.bitfield, path, GetAttr(e, "bitwidth"))
  <2>2. DOMAIN bitfield = DOMAIN sessions.bitfield \cup {path}
    BY <1>8
  <2>3. sessions' = [sessions EXCEPT !.bitfield = bitfield] /\ contexts' = contexts
    BY <1>11 DEF StartBitfield
  <2> HIDE DEF bitfield
  <2>4. sessions' = [table |-> sessions.table, row |-> sessions.row, bitfield |-> bitfield]
    BY <1>7, <2>3
  <2> QED
    BY <1>7, <2>1, <2>2, <2>3, <2>4 DEF SessionInv
<1>12. CASE StartOther(e, path, Push(scope))
  BY <1>7, <1>12 DEF StartOther, SessionInv
<1> QED
  BY <1>6, <1>9, <1>10, <1>11, <1>12

LEMMA StartKeeps ==
  ASSUME ParserInv, HandleStartElement
  PROVE  ParserInv'
<1> DEFINE e == Head(tokens)
<1>1. PcInv /\ InputInv /\ StackInv /\ SessionInv
  BY DEF ParserInv
<1>2. /\ pc = "parse" /\ pc' = pc /\ tokens # << >> /\ tokens' = Tail(tokens)
      /\ input' = input /\ current' = current
      /\ elements' = Append(elements, e) /\ textStart' = Append(textStart, Len(textTokens))
      /\ textTokens' = textTokens
  BY DEF HandleStartElement, NextToken, Advance
<1>3. LET path == Append(Path(elements), e.tag)
      IN  \/ StartTable(e, path, Push(scope)) \/ StartRow(e, path, Push(scope))
          \/ StartBitfield(e, path, Push(scope)) \/ StartOther(e, path, Push(scope))
  BY DEF HandleStartElement
<1> HIDE DEF e
<1>4. PcInv'
  BY <1>1, <1>2 DEF PcInv
<1>5. InputInv'
  BY <1>1, <1>2, AdvanceKeeps DEF InputInv, WordsOnly
<1>6. StackInv'
  <2>1. /\ IsSeq(elements) /\ IsSeq(textStart) /\ Len(textStart) = Len(elements)
        /\ \A k \in DOMAIN textStart : textStart[k] \in Nat /\ textStart[k] <= Len(textTokens)
    BY <1>1 DEF StackInv
  <2>2. Len(elements) \in Nat /\ DOMAIN textStart = 1..Len(textStart) /\ Len(textTokens) \in Nat
    BY <2>1, <1>1, SeqShape, LenProperties DEF InputInv
  <2>3. IsSeq(elements') /\ Len(elements') = Len(elements) + 1
    BY <1>2, <2>1, SeqAppend
  <2>4. /\ IsSeq(textStart') /\ Len(textStart') = Len(textStart) + 1
        /\ DOMAIN textStart' = 1..(Len(textStart) + 1)
        /\ \A k \in 1..Len(textStart) : textStart'[k] = textStart[k]
        /\ textStart'[Len(textStart) + 1] = Len(textTokens)
    BY <1>2, <2>1, SeqAppend
  <2>5. ScopeInv(scope') /\ Len(scope'.stack) = Len(elements) + 1
    BY <1>1, <1>3, StartScope
  <2>6. \A k \in DOMAIN textStart' : textStart'[k] \in Nat /\ textStart'[k] <= Len(textTokens)
    <3> TAKE k \in DOMAIN textStart'
    <3>1. k = Len(textStart) + 1 \/ k \in 1..Len(textStart)
      BY <2>1, <2>2, <2>4
    <3> QED
      BY <3>1, <2>1, <2>2, <2>4
  <2> QED
    BY <1>2, <2>1, <2>3, <2>4, <2>5, <2>6 DEF StackInv
<1>7. SessionInv'
  BY <1>1, <1>2, <1>3, StartSessions DEF StackInv
<1> QED
  BY <1>4, <1>5, <1>6, <1>7 DEF ParserInv

----------------------------------------------------------------------------
(* An end tag closes the innermost element, with its sessions and its scope. *)

LEMMA LengthOfOpen ==
  ASSUME NEW els, IsSeq(els), els # << >>, NEW n, OpenAt(els, Path(els), n)
  PROVE  n = Len(els)
<1> DEFINE m == Len(els)
<1>1. m \in Nat /\ m # 0 /\ DOMAIN els = 1..m
  BY SeqShape
<1>2. DOMAIN Path(els) = 1..m
  BY <1>1 DEF Path
<1> HIDE DEF m
<1>3. n \in 1..m /\ DOMAIN Path(els) = 1..n
  BY <1>1 DEF OpenAt
<1>4. m \in 1..n
  BY <1>1, <1>2, <1>3
<1>5. n = m
  BY <1>1, <1>3, <1>4
<1> QED
  BY <1>5 DEF m

LEMMA OuterStaysOpen ==
  ASSUME NEW els, IsSeq(els), els # << >>,
         NEW outer, outer = SubSeq(els, 1, Len(els) - 1)
  PROVE  /\ \A path, tag : Opened(els, path, tag) =>
                Opened(outer, path, tag) \/ (path = Path(els) /\ Select(path, tag))
         /\ \A path, class : OpenedCell(els, path, class) =>
                \/ OpenedCell(outer, path, class)
                \/ path = Path(els) /\ Cell(els[Len(els)], path, class)
<1>1. \A path, n : OpenAt(els, path, n) =>
        \/ OpenAt(outer, path, n) /\ outer[n] = els[n]
        \/ path = Path(els) /\ n = Len(els)
  <2> TAKE path, n
  <2> HAVE OpenAt(els, path, n)
  <2>1. CASE path = Path(els)
    BY <2>1, LengthOfOpen
  <2>2. CASE path # Path(els)
    BY <2>2, PathOfOuter
  <2> QED
    BY <2>1, <2>2
<1>2. \A tag : Select(Path(els), tag) <=> els[Len(els)].tag = tag
  BY PathOfOpen
<1> QED
  BY <1>1, <1>2 DEF Opened, OpenedCell, OpenAt, Cell

LEMMA EndSessions ==
  ASSUME SessionInv, IsSeq(elements), elements # << >>,
         elements' = SubSeq(elements, 1, Len(elements) - 1),
         NEW e, e = elements[Len(elements)], NEW path, path = Path(elements),
         \/ EndTable(e, path)    \/ EndRow(e, path)
         \/ EndMnemonic(e, path) \/ EndBitfield(e, path)
         \/ EndFeature(e, path)  \/ EndOther(e, path)
  PROVE  SessionInv'
<1> DEFINE outer == elements'
<1>1. /\ \A p, tag : Opened(elements, p, tag) =>
              Opened(outer, p, tag) \/ (p = path /\ Select(path, tag))
      /\ \A p, class : OpenedCell(elements, p, class) =>
              OpenedCell(outer, p, class) \/ (p = path /\ Cell(e, path, class))
  <2>1. outer = SubSeq(elements, 1, Len(elements) - 1)
    OBVIOUS
  <2> HIDE DEF outer
  <2>2. /\ \A p, tag : Opened(elements, p, tag) =>
              Opened(outer, p, tag) \/ (p = Path(elements) /\ Select(p, tag))
        /\ \A p, class : OpenedCell(elements, p, class) =>
              \/ OpenedCell(outer, p, class)
              \/ p = Path(elements) /\ Cell(elements[Len(elements)], p, class)
    BY <2>1, OuterStaysOpen, Zenon
  <2> QED
    BY <2>2
<1>2. /\ sessions = [table |-> sessions.table, row |-> sessions.row, bitfield |-> sessions.bitfield]
      /\ \A p \in DOMAIN sessions.table : Opened(elements, p, "instructiontable")
      /\ \A p \in DOMAIN sessions.row :
           Opened(elements, p, "tr") /\ sessions.row[p] \in DOMAIN contexts
      /\ \A p \in DOMAIN sessions.bitfield : OpenedCell(elements, p, "bitfield")
      /\ IsSeq(contexts)
  BY DEF SessionInv
<1>3. \A m : /\ DOMAIN SessionDelete(m, path) = DOMAIN m \ {path}
             /\ \A p \in DOMAIN m \ {path} : SessionDelete(m, path)[p] = m[p]
  BY DEF SessionDelete
<1>4. IsSeq(contexts') /\ DOMAIN contexts' = DOMAIN contexts
  <2>1. contexts' = contexts \/ \E k, c : contexts' = [contexts EXCEPT ![k] = c]
    BY DEF EndTable, EndRow, EndMnemonic, EndBitfield, EndFeature, EndOther
  <2>2. CASE contexts' = contexts
    BY <2>2, <1>2
  <2>3. CASE \E k, c : contexts' = [contexts EXCEPT ![k] = c]
    <3>1. PICK k, c : contexts' = [contexts EXCEPT ![k] = c]
      BY <2>3
    <3> QED
      BY <3>1, <1>2, SeqExcept
  <2> QED
    BY <2>1, <2>2, <2>3
\* Which sessions are left, none of them of the element that ends.
<1>5. /\ sessions' = [table |-> sessions'.table, row |-> sessions'.row,
                      bitfield |-> sessions'.bitfield]
      /\ DOMAIN sessions'.table \subseteq DOMAIN sessions.table
      /\ DOMAIN sessions'.row \subseteq DOMAIN sessions.row
      /\ \A p \in DOMAIN sessions'.row : sessions'.row[p] = sessions.row[p]
      /\ DOMAIN sessions'.bitfield \subseteq DOMAIN sessions.bitfield
      /\ Select(path, "instructiontable") => path \notin DOMAIN sessions'.table
      /\ Select(path, "tr") => path \notin DOMAIN sessions'.row
      /\ Cell(e, path, "bitfield") => path \notin DOMAIN sessions'.bitfield
  <2> HIDE DEF outer
  <2>1. CASE EndTable(e, path)
    <3>1. sessions' = [table |-> SessionDelete(sessions.table, path), row |-> sessions.row,
                       bitfield |-> sessions.bitfield]
      BY <2>1, <1>2 DEF EndTable
    <3>2. ~Select(path, "tr") /\ ~Cell(e, path, "bitfield")
      BY <2>1 DEF EndTable, Select, Cell
    <3> DEFINE left == SessionDelete(sessions.table, path)
    <3>3. /\ DOMAIN left = DOMAIN sessions.table \ {path}
          /\ \A p \in DOMAIN left : left[p] = sessions.table[p]
      BY <1>3
    <3>4. sessions' = [table |-> left, row |-> sessions.row, bitfield |-> sessions.bitfield]
      BY <3>1
    <3> HIDE DEF left
    <3> QED
      BY <3>2, <3>3, <3>4
  <2>2. CASE EndRow(e, path)
    <3>1. sessions' = [table |-> sessions.table, row |-> SessionDelete(sessions.row, path),
                       bitfield |-> sessions.bitfield]
      BY <2>2, <1>2 DEF EndRow
    <3>2. ~Select(path, "instructiontable") /\ ~Cell(e, path, "bitfield")
      BY <2>2 DEF EndRow, Select, Cell
    <3> DEFINE left == SessionDelete(sessions.row, path)
    <3>3. /\ DOMAIN left = DOMAIN sessions.row \ {path}
          /\ \A p \in DOMAIN left : left[p] = sessions.row[p]
      BY <1>3
    <3>4. sessions' = [table |-> sessions.table, row |-> left, bitfield |-> sessions.bitfield]
      BY <3>1
    <3> HIDE DEF left
    <3> QED
      BY <3>2, <3>3, <3>4
  <2>3. CASE EndBitfield(e, path)
    <3>1. sessions' = [table |-> sessions.table, row |-> sessions.row,
                       bitfield |-> SessionDelete(sessions.bitfield, path)]
      BY <2>3, <1>2 DEF EndBitfield
    <3>2. ~Select(path, "instructiontable") /\ ~Select(path, "tr")
      BY <2>3 DEF EndBitfield, Select, Cell
    <3> DEFINE left == SessionDelete(sessions.bitfield, path)
    <3>3. /\ DOMAIN left = DOMAIN sessions.bitfield \ {path}
          /\ \A p \in DOMAIN left : left[p] = sessions.bitfield[p]
      BY <1>3
    <3>4. sessions' = [table |-> sessions.table, row |-> sessions.row, bitfield |-> left]
      BY <3>1
    <3> HIDE DEF left
    <3> QED
      BY <3>2, <3>3, <3>4
  <2>4. CASE EndMnemonic(e, path)
    BY <2>4, <1>2 DEF EndMnemonic, Select, Cell
  <2>5. CASE EndFeature(e, path)
    BY <2>5, <1>2 DEF EndFeature, Select, Cell
  <2>6. CASE EndOther(e, path)
    BY <2>6, <1>2 DEF EndOther, SessionExists
  <2> QED
    BY <2>1, <2>2, <2>3, <2>4, <2>5, <2>6
<1> HIDE DEF outer
<1>6. \A p \in DOMAIN sessions'.table : Opened(outer, p, "instructiontable")
  BY <1>1, <1>2, <1>5, Zenon
<1>7. \A p \in DOMAIN sessions'.row :
        Opened(outer, p, "tr") /\ sessions'.row[p] \in DOMAIN contexts'
  BY <1>1, <1>2, <1>4, <1>5, Zenon
<1>8. \A p \in DOMAIN sessions'.bitfield : OpenedCell(outer, p, "bitfield")
  BY <1>1, <1>2, <1>5, Zenon
<1> QED
  BY <1>4, <1>5, <1>6, <1>7, <1>8 DEF SessionInv, outer

LEMMA EndKeeps ==
  ASSUME ParserInv, HandleEndElement
  PROVE  ParserInv'
<1> DEFINE e == elements[Len(elements)]
           path == Path(elements)
           n == Len(elements)
<1>1. PcInv /\ InputInv /\ StackInv /\ SessionInv
  BY DEF ParserInv
<1>2. /\ pc = "parse" /\ pc' = pc /\ tokens # << >> /\ tokens' = Tail(tokens)
      /\ input' = input /\ current' = current /\ elements # << >>
      /\ scope' = Pop(scope)
      /\ elements' = SubSeq(elements, 1, Len(elements) - 1)
      /\ textStart' = SubSeq(textStart, 1, Len(textStart) - 1)
      /\ textTokens' = IF Len(textStart) = 1 THEN << >> ELSE textTokens
  BY DEF HandleEndElement, NextToken, Advance
<1>3. \/ EndTable(e, path)    \/ EndRow(e, path)
      \/ EndMnemonic(e, path) \/ EndBitfield(e, path)
      \/ EndFeature(e, path)  \/ EndOther(e, path)
  BY DEF HandleEndElement
<1>4. PcInv'
  BY <1>1, <1>2 DEF PcInv
<1>5. InputInv'
  <2>1. textTokens' \in Seq(STRING)
    BY <1>1, <1>2, EmptySeq DEF InputInv
  <2>2. IsSeq(tokens') /\ WordsOnly(tokens')
    BY <1>1, <1>2, AdvanceKeeps
  <2> QED
    BY <2>1, <2>2, <1>1, <1>2 DEF InputInv, WordsOnly
<1>6. StackInv'
  <2>1. /\ IsSeq(elements) /\ IsSeq(textStart) /\ ScopeInv(scope)
        /\ Len(textStart) = n /\ Len(scope.stack) = n
        /\ \A k \in DOMAIN textStart : textStart[k] \in Nat /\ textStart[k] <= Len(textTokens)
    BY <1>1 DEF StackInv
  <2>2. n \in Nat /\ n # 0 /\ DOMAIN textStart = 1..n
    BY <2>1, <1>2, SeqShape
  <2>3. IsSeq(elements') /\ Len(elements') = n - 1
    BY <1>2, <2>1, SeqFront
  <2>4. textStart # << >>
    BY <2>1, <2>2, SeqShape
  <2>5. /\ IsSeq(textStart') /\ Len(textStart') = n - 1 /\ DOMAIN textStart' = 1..(n - 1)
        /\ \A k \in 1..(n - 1) : textStart'[k] = textStart[k]
    BY <1>2, <2>1, <2>4, SeqFront
  <2>6. ScopeInv(scope') /\ Len(scope'.stack) = n - 1
    <3> DEFINE st == scope.stack
    <3>1. IsSeq(st) /\ Len(st) # 0
      BY <2>1, <2>2 DEF ScopeInv, ScopeTypes
    <3>2. st # << >>
      <4> HIDE DEF st
      <4> QED
        BY <3>1, SeqShape
    <3> QED
      BY <3>2, <1>2, <2>1, PopSound
  <2> HIDE DEF n
  <2>7. \A k \in DOMAIN textStart' : textStart'[k] \in Nat /\ textStart'[k] <= Len(textTokens')
    <3>1. CASE n = 1
      BY <3>1, <2>5
    <3>2. CASE n # 1
      <4>1. textTokens' = textTokens /\ 1..(n - 1) \subseteq 1..n
        BY <3>2, <1>2, <2>1, <2>2
      <4> QED
        BY <4>1, <2>1, <2>2, <2>5
    <3> QED
      BY <3>1, <3>2
  <2> QED
    BY <2>3, <2>5, <2>6, <2>7 DEF StackInv
<1>7. SessionInv'
  <2> HIDE DEF e, path
  <2>1. e = elements[Len(elements)] /\ path = Path(elements) /\ IsSeq(elements)
    BY <1>1 DEF e, path, StackInv
  <2> QED
    BY <2>1, <1>1, <1>2, <1>3, EndSessions
<1> QED
  BY <1>4, <1>5, <1>6, <1>7 DEF ParserInv

----------------------------------------------------------------------------
(* The other actions, and the parser as a whole. *)

LEMMA CharDataKeeps ==
  ASSUME ParserInv, HandleCharData
  PROVE  ParserInv'
<1>1. PcInv /\ InputInv /\ StackInv /\ SessionInv
  BY DEF ParserInv
<1>2. /\ pc = "parse" /\ pc' = pc /\ tokens # << >> /\ tokens' = Tail(tokens)
      /\ Head(tokens).kind = "text" /\ input' = input /\ current' = current
      /\ textTokens' = textTokens \o Head(tokens).words
      /\ elements' = elements /\ textStart' = textStart /\ scope' = scope
      /\ sessions' = sessions /\ contexts' = contexts
  BY DEF HandleCharData, NextToken, Advance, engineVars
<1>3. /\ IsSeq(tokens') /\ WordsOnly(tokens')
      /\ Head(tokens).words \in Seq(STRING) /\ textTokens \in Seq(STRING)
  BY <1>1, <1>2, AdvanceKeeps DEF InputInv, Worded
<1>4. /\ textTokens' \in Seq(STRING)
      /\ Len(textTokens') = Len(textTokens) + Len(Head(tokens).words)
      /\ Len(textTokens) \in Nat /\ Len(Head(tokens).words) \in Nat
  BY <1>2, <1>3, ConcatProperties, LenProperties
<1>5. InputInv'
  BY <1>1, <1>2, <1>3, <1>4 DEF InputInv, WordsOnly
<1>6. StackInv'
  BY <1>1, <1>2, <1>4 DEF StackInv
<1>7. PcInv' /\ SessionInv'
  BY <1>1, <1>2 DEF PcInv, SessionInv
<1> QED
  BY <1>5, <1>6, <1>7 DEF ParserInv

\* A file is opened when no element is: the new handler's stacks fit the old
\* engine's scopes.
LEMMA OpenKeeps ==
  ASSUME InputsAssumption, ParserInv, OpenIndex
  PROVE  ParserInv'
<1>1. PcInv /\ InputInv /\ StackInv /\ SessionInv
  BY DEF ParserInv
<1>2. /\ pc = "open" /\ pc' = "parse" /\ current' = current + 1
      /\ current < Len(input.indexes) /\ tokens' = input.indexes[current + 1]
      /\ elements' = << >> /\ textStart' = << >> /\ textTokens' = << >>
      /\ input' = input /\ scope' = scope /\ sessions' = sessions /\ contexts' = contexts
  BY DEF OpenIndex, engineVars
<1>3. elements = << >> /\ current \in Nat /\ input \in Inputs
  BY <1>1, <1>2 DEF PcInv, InputInv
<1>4. IsSeq(tokens') /\ WordsOnly(tokens')
  <2> DEFINE docs == input.indexes
             doc == docs[current + 1]
  <2>1. IsSeq(docs)
    BY <1>3, InputsAssumption DEF InputsAssumption, IsSeq
  <2>2. current + 1 \in DOMAIN docs
    <3>1. Len(docs) \in Nat /\ DOMAIN docs = 1..Len(docs)
      BY <2>1, SeqShape
    <3> QED
      BY <3>1, <1>2, <1>3
  <2>3. doc \in ToSet(docs)
    BY <2>2 DEF ToSet
  <2>4. /\ doc \in Seq(ToSet(doc))
        /\ \A t \in ToSet(doc) : Worded(t)
    BY <2>3, <1>3, InputsAssumption DEF InputsAssumption, Worded, IsSeq
  <2> HIDE DEF doc
  <2>5. IsSeq(doc) /\ WordsOnly(doc)
    BY <2>4 DEF IsSeq, WordsOnly, ToSet
  <2> QED
    BY <2>5, <1>2 DEF doc
<1>5. InputInv'
  BY <1>2, <1>3, <1>4, EmptySeq DEF InputInv, WordsOnly
<1>6. StackInv'
  BY <1>1, <1>2, <1>3, EmptyIsSeq DEF StackInv
<1>7. PcInv' /\ SessionInv'
  BY <1>1, <1>2, <1>3 DEF PcInv, SessionInv
<1> QED
  BY <1>5, <1>6, <1>7 DEF ParserInv

\* Whatever leaves the parser alone leaves its invariant.
LEMMA OthersKeep ==
  ASSUME ParserInv, UNCHANGED <<input, current, streamVars, engineVars>>, PcInv'
  PROVE  ParserInv'
<1>1. /\ input' = input /\ current' = current /\ tokens' = tokens
      /\ textTokens' = textTokens /\ elements' = elements /\ textStart' = textStart
      /\ scope' = scope /\ sessions' = sessions /\ contexts' = contexts
  BY DEF streamVars, engineVars
<1> QED
  BY <1>1 DEF ParserInv, InputInv, WordsOnly, StackInv, SessionInv

LEMMA ParserNext ==
  ASSUME InputsAssumption, ParserInv, [Next]_vars
  PROVE  ParserInv'
<1>1. PcInv
  BY DEF ParserInv
<1>2. CASE OpenIndex
  BY <1>2, OpenKeeps
<1>3. CASE HandleStartElement
  BY <1>3, StartKeeps
<1>4. CASE HandleEndElement
  BY <1>4, EndKeeps
<1>5. CASE HandleCharData
  BY <1>5, CharDataKeeps
<1>6. CASE Malformed
  <2>1. PcInv'
    BY <1>1, <1>6 DEF PcInv, Malformed
  <2> QED
    BY <2>1, <1>6, OthersKeep DEF Malformed
<1>7. CASE EndOfIndex
  <2>1. PcInv'
    BY <1>1, <1>7 DEF PcInv, EndOfIndex, streamVars
  <2> QED
    BY <2>1, <1>7, OthersKeep DEF EndOfIndex
<1>8. CASE AddNext
  <2>1. PcInv'
    BY <1>1, <1>8 DEF PcInv, AddNext, streamVars
  <2> QED
    BY <2>1, <1>8, OthersKeep DEF AddNext
<1>9. CASE IndexAdded
  <2>1. PcInv'
    BY <1>1, <1>9 DEF PcInv, IndexAdded, streamVars
  <2> QED
    BY <2>1, <1>9, OthersKeep DEF IndexAdded
<1>10. CASE DiscoverAliases
  <2>1. PcInv'
    BY <1>1, <1>10 DEF PcInv, DiscoverAliases, streamVars
  <2> QED
    BY <2>1, <1>10, OthersKeep DEF DiscoverAliases
<1>11. CASE StartPass2
  <2>1. PcInv'
    BY <1>1, <1>11 DEF PcInv, StartPass2, streamVars
  <2> QED
    BY <2>1, <1>11, OthersKeep DEF StartPass2
<1>12. CASE ResolveIForm
  <2>1. PcInv'
    BY <1>1, <1>12 DEF PcInv, ResolveIForm, streamVars
  <2> QED
    BY <2>1, <1>12, OthersKeep DEF ResolveIForm
<1>13. CASE EndPass2
  <2>1. PcInv'
    BY <1>1, <1>13 DEF PcInv, EndPass2, streamVars
  <2> QED
    BY <2>1, <1>13, OthersKeep DEF EndPass2
<1>14. CASE Stopped \/ UNCHANGED vars
  <2>1. PcInv' /\ UNCHANGED <<input, current, streamVars, engineVars>>
    BY <1>1, <1>14 DEF PcInv, Stopped, vars, streamVars
  <2> QED
    BY <2>1, OthersKeep
<1> QED
  BY <1>2, <1>3, <1>4, <1>5, <1>6, <1>7, <1>8, <1>9, <1>10, <1>11, <1>12, <1>13, <1>14
  DEF Next

----------------------------------------------------------------------------
(* The registry: an ID leads to the one instruction that has it, also after *)
(* Pass 2 has rewritten instructions in place.                              *)

RegistryInv ==
  /\ registry = [instructions |-> registry.instructions,
                 byEncodingID |-> registry.byEncodingID, byMnemonic |-> registry.byMnemonic,
                 byClass |-> registry.byClass, byFeature |-> registry.byFeature]
  /\ IsSeq(registry.instructions) /\ FoundByID
  /\ resolved \subseteq DOMAIN registry.instructions

\* FoundByID, for the operators: byID leads from the IDs to their places.
IDsFound(instrs, byID) ==
  /\ DOMAIN byID = {instrs[k].encodingID : k \in DOMAIN instrs}
  /\ \A k \in DOMAIN instrs : byID[instrs[k].encodingID] = k

LEMMA FoundByIDs ==
  FoundByID <=> IDsFound(registry.instructions, registry.byEncodingID)
<1> DEFINE instrs == registry.instructions
           byID == registry.byEncodingID
<1>1. {i.encodingID : i \in ToSet(instrs)} = {instrs[k].encodingID : k \in DOMAIN instrs}
  BY DEF ToSet
<1>2. ASSUME FoundByID
      PROVE  IDsFound(instrs, byID)
  BY <1>1, <1>2 DEF FoundByID, IDsFound, GetByEncodingID
<1>3. ASSUME IDsFound(instrs, byID)
      PROVE  FoundByID
  BY <1>1, <1>3 DEF FoundByID, IDsFound, GetByEncodingID
<1> QED
  BY <1>2, <1>3

LEMMA AddFound ==
  ASSUME NEW instrs, NEW byID, IsSeq(instrs), IDsFound(instrs, byID),
         NEW instr, instr.encodingID \notin DOMAIN byID
  PROVE  IDsFound(Append(instrs, instr), Put(byID, instr.encodingID, Len(instrs) + 1))
<1> DEFINE n == Len(instrs)
           more == Append(instrs, instr)
           id == instr.encodingID
           put == Put(byID, id, n + 1)
<1>1. /\ n \in Nat /\ DOMAIN instrs = 1..n /\ DOMAIN more = 1..(n + 1)
      /\ \A k \in 1..n : more[k] = instrs[k]
      /\ more[n + 1] = instr
  BY SeqShape, SeqAppend
<1>2. /\ DOMAIN put = DOMAIN byID \cup {id} /\ put[id] = n + 1
      /\ \A x \in DOMAIN byID : x # id => put[x] = byID[x]
  BY DEF Put
<1> HIDE DEF n, more, put
<1>3. /\ DOMAIN byID = {instrs[k].encodingID : k \in 1..n}
      /\ \A k \in 1..n : byID[instrs[k].encodingID] = k
  BY <1>1 DEF IDsFound
<1>4. \A k \in 1..(n + 1) : k = n + 1 \/ k \in 1..n
  BY <1>1
<1>5. n + 1 \in 1..(n + 1) /\ 1..n \subseteq 1..(n + 1)
  BY <1>1
<1>6. \A k \in 1..n : more[k].encodingID \in DOMAIN byID /\ more[k].encodingID # id
  BY <1>1, <1>3
<1>7. DOMAIN put = {more[k].encodingID : k \in DOMAIN more}
  BY <1>1, <1>2, <1>3, <1>4, <1>5
<1>8. \A k \in DOMAIN more : put[more[k].encodingID] = k
  BY <1>1, <1>2, <1>3, <1>4, <1>6
<1> QED
  BY <1>7, <1>8 DEF IDsFound, more, put, n

LEMMA RegistryInit ==
  ASSUME Init
  PROVE  RegistryInv
<1>1. registry = NewRegistry /\ resolved = {}
  BY DEF Init
<1>2. registry.instructions = << >> /\ registry.byEncodingID = << >>
  BY <1>1 DEF NewRegistry
<1>3. FoundByID
  BY <1>2, EmptyIsSeq DEF FoundByID, ToSet
<1> QED
  BY <1>1, <1>2, <1>3, EmptyIsSeq DEF RegistryInv, NewRegistry

LEMMA AddKeeps ==
  ASSUME RegistryInv, AddNext
  PROVE  RegistryInv'
<1> DEFINE instr == Head(todo)
           instrs == registry.instructions
           byID == registry.byEncodingID
<1>1. registry' = Add(registry, instr) /\ resolved' = resolved
  BY DEF AddNext
<1> HIDE DEF instr
<1>2. IsSeq(instrs) /\ IDsFound(instrs, byID) /\ resolved \subseteq DOMAIN instrs
  BY FoundByIDs DEF RegistryInv
<1>3. CASE Rejects(registry, instr)
  BY <1>1, <1>3 DEF Add, RegistryInv, FoundByID
<1>4. CASE ~Rejects(registry, instr)
  <2> DEFINE more == Append(instrs, instr)
             put == Put(byID, instr.encodingID, Len(instrs) + 1)
  <2>1. registry' = [instructions |-> more, byEncodingID |-> put,
                     byMnemonic |-> registry'.byMnemonic,
                     byClass |-> registry'.byClass, byFeature |-> registry'.byFeature]
    BY <1>1, <1>4 DEF Add
  <2>2. IDsFound(more, put)
    BY <1>2, <1>4, AddFound DEF Rejects
  <2>3. IsSeq(more) /\ DOMAIN instrs \subseteq DOMAIN more
    <3>1. /\ IsSeq(more) /\ DOMAIN more = 1..(Len(instrs) + 1)
          /\ Len(instrs) \in Nat /\ DOMAIN instrs = 1..Len(instrs)
      BY <1>2, SeqAppend, SeqShape
    <3> HIDE DEF more, instrs
    <3> QED
      BY <3>1
  <2> HIDE DEF more, put
  <2>4. registry'.instructions = more /\ registry'.byEncodingID = put
    BY <2>1
  <2>5. IDsFound(registry.instructions, registry.byEncodingID)'
    BY <2>2, <2>4
  <2>6. FoundByID'
    BY <2>5, FoundByIDs, PTL
  <2> QED
    BY <1>1, <1>2, <2>1, <2>3, <2>4, <2>6 DEF RegistryInv
<1> QED
  BY <1>3, <1>4

\* Pass 2 rewrites an instruction under its old ID.
LEMMA ResolveKeeps ==
  ASSUME RegistryInv, ResolveIForm
  PROVE  RegistryInv'
<1> DEFINE instrs == registry.instructions
           byID == registry.byEncodingID
<1>1. IsSeq(instrs) /\ IDsFound(instrs, byID) /\ resolved \subseteq DOMAIN instrs
  BY FoundByIDs DEF RegistryInv
<1>2. PICK k \in DOMAIN instrs \ resolved :
        /\ resolved' = resolved \cup {k}
        /\ registry' = IF instrs[k].encodingID \notin DOMAIN input.forms THEN registry
                       ELSE [registry EXCEPT !.instructions[k] =
                               Applied(@, input.forms[instrs[k].encodingID])]
  BY DEF ResolveIForm
<1>3. CASE registry' = registry
  BY <1>1, <1>2, <1>3 DEF RegistryInv, FoundByID
<1>4. CASE registry' # registry
  <2> DEFINE new == Applied(instrs[k], input.forms[instrs[k].encodingID])
             changed == [instrs EXCEPT ![k] = new]
  <2>1. registry' = [registry EXCEPT !.instructions = changed]
    BY <1>2, <1>4 DEF RegistryInv
  <2>2. new.encodingID = instrs[k].encodingID
    BY DEF Applied
  <2>3. /\ IsSeq(changed) /\ DOMAIN changed = DOMAIN instrs
        /\ \A j \in DOMAIN instrs : changed[j] = IF j = k THEN new ELSE instrs[j]
    <3> HIDE DEF new, instrs
    <3> QED
      BY <1>1, SeqExcept
  <2> HIDE DEF changed, new
  <2>4. registry' = [instructions |-> changed, byEncodingID |-> byID,
                     byMnemonic |-> registry.byMnemonic, byClass |-> registry.byClass,
                     byFeature |-> registry.byFeature]
    BY <2>1 DEF RegistryInv
  <2>5. registry'.instructions = changed /\ registry'.byEncodingID = byID
    BY <2>4
  <2>6. \A j \in DOMAIN instrs : changed[j].encodingID = instrs[j].encodingID
    BY <2>2, <2>3
  <2>7. IDsFound(changed, byID)
    BY <1>1, <2>3, <2>6 DEF IDsFound
  <2>8. IDsFound(registry.instructions, registry.byEncodingID)'
    BY <2>5, <2>7
  <2>9. FoundByID'
    BY <2>8, FoundByIDs, PTL
  <2>10. registry' = [instructions |-> registry'.instructions,
                      byEncodingID |-> registry'.byEncodingID,
                      byMnemonic |-> registry'.byMnemonic, byClass |-> registry'.byClass,
                      byFeature |-> registry'.byFeature]
    BY <2>4
  <2> QED
    BY <1>1, <1>2, <2>3, <2>5, <2>9, <2>10 DEF RegistryInv
<1> QED
  BY <1>3, <1>4

LEMMA RegistryNext ==
  ASSUME RegistryInv, [Next]_vars
  PROVE  RegistryInv'
<1>1. CASE AddNext
  BY <1>1, AddKeeps
<1>2. CASE ResolveIForm
  BY <1>2, ResolveKeeps
<1>3. CASE registry' = registry /\ resolved' = resolved
  BY <1>3 DEF RegistryInv, FoundByID
<1> QED
  BY <1>1, <1>2, <1>3 DEF Next, vars, OpenIndex, HandleStartElement, HandleEndElement,
     HandleCharData, Advance, Malformed, EndOfIndex, IndexAdded, DiscoverAliases,
     StartPass2, EndPass2, Stopped

----------------------------------------------------------------------------

LEMMA OpenIsPrefix ==
  ASSUME NEW els, IsSeq(els), NEW path, NEW n, OpenAt(els, path, n)
  PROVE  IsPrefix(path, Path(els))
<1> DEFINE m == Len(els)
           whole == Path(els)
<1>1. m \in Nat /\ DOMAIN els = 1..m /\ n \in 1..m
  BY SeqShape DEF OpenAt
<1>2. whole = [k \in 1..m |-> els[k].tag] /\ whole = [k \in 1..m |-> whole[k]]
  BY <1>1 DEF Path
<1> HIDE DEF m, whole
<1>3. path = [k \in 1..n |-> els[k].tag] /\ path = [k \in 1..n |-> path[k]]
  BY DEF OpenAt
<1>4. n \in Nat /\ n <= m
  BY <1>1
<1>5. IsSeq(path) /\ Len(path) = n /\ IsSeq(whole) /\ Len(whole) = m
  BY <1>1, <1>2, <1>3, <1>4, SeqByShape
<1>6. SubSeq(path, 1, n) = path
  BY <1>5, SubSeqFull DEF IsSeq
<1>7. SubSeq(whole, 1, n) = path
  <2>1. SubSeq(whole, 1, n) = Restrict(whole, 1..n)
    BY <1>4, <1>5, SubSeqRestrict DEF IsSeq
  <2>2. \A k \in 1..n : whole[k] = els[k].tag
    BY <1>1, <1>2
  <2> QED
    BY <2>1, <2>2, <1>3 DEF Restrict
<1> QED
  BY <1>4, <1>5, <1>6, <1>7 DEF IsPrefix, whole

LEMMA TypesFollow ==
  ASSUME ParserInv, RegistryInv
  PROVE  TypeOK
<1>1. PcInv /\ InputInv /\ StackInv /\ SessionInv
  BY DEF ParserInv
<1>2. /\ IsSeq(elements) /\ ScopeInv(scope)
      /\ Len(textStart) = Len(elements) /\ Len(scope.stack) = Len(elements)
      /\ \A k \in DOMAIN textStart : textStart[k] <= Len(textTokens)
  BY <1>1 DEF StackInv
<1>3. \A path, n : OpenAt(elements, path, n) => IsPrefix(path, Path(elements))
  BY <1>2, OpenIsPrefix
<1>4. \A h \in DOMAIN sessions : \A path \in DOMAIN sessions[h] :
        IsPrefix(path, Path(elements))
  <2>1. DOMAIN sessions = {"table", "row", "bitfield"}
    BY <1>1 DEF SessionInv
  <2>2. /\ \A path \in DOMAIN sessions["table"] : IsPrefix(path, Path(elements))
        /\ \A path \in DOMAIN sessions["row"] : IsPrefix(path, Path(elements))
        /\ \A path \in DOMAIN sessions["bitfield"] : IsPrefix(path, Path(elements))
    BY <1>1, <1>3 DEF SessionInv, Opened, OpenedCell
  <2> QED
    BY <2>1, <2>2
<1>5. \A path \in DOMAIN sessions.row : sessions.row[path] \in DOMAIN contexts
  BY <1>1 DEF SessionInv
<1> QED
  BY <1>1, <1>2, <1>4, <1>5 DEF TypeOK, PcInv, ScopeInv, RegistryInv

\* The parser's stacks, scopes and sessions stay in step with the open
\* elements (HandleStartElement, HandleEndElement of pkg/parse), over any
\* number of files, and Pass 2 has rewritten only what is registered.
THEOREM ParserInStep == Spec => []TypeOK
<1>1. Init => ParserInv /\ RegistryInv
  BY ParserInit, RegistryInit
<1>2. ParserInv /\ RegistryInv /\ [Next]_vars => ParserInv' /\ RegistryInv'
  BY InputsAssumption, ParserNext, RegistryNext
<1>3. ParserInv /\ RegistryInv => TypeOK
  BY TypesFollow
<1> QED
  BY <1>1, <1>2, <1>3, PTL DEF Spec

----------------------------------------------------------------------------
(* The indexes beside the list: under each key the places of the             *)
(* instructions that have it, in order.                                      *)

Ascending(s) == \A i, j \in DOMAIN s : i < j => s[i] <= s[j]
Distinct(s) == \A i, j \in DOMAIN s : s[i] = s[j] => i = j

LEMMA Grown ==
  ASSUME NEW n \in Nat, NEW s \in Seq(1..n), Ascending(s), NEW t \in Seq({n + 1})
  PROVE  /\ s \o t \in Seq(1..(n + 1)) /\ Ascending(s \o t)
         /\ ToSet(s \o t) = ToSet(s) \cup (IF t = << >> THEN {} ELSE {n + 1})
         /\ Distinct(s) /\ Len(t) <= 1 => Distinct(s \o t)
<1> DEFINE u == s \o t
           N == 1..(n + 1)
           a == Len(s)
           b == Len(t)
<1>1. a \in Nat /\ DOMAIN s = 1..a /\ \A k \in 1..a : s[k] \in 1..n
  BY LenProperties
<1>2. b \in Nat /\ DOMAIN t = 1..b /\ \A k \in 1..b : t[k] = n + 1
  BY LenProperties
<1>3. t # << >> <=> b # 0
  BY EmptySeq
<1>4. s \in Seq(N) /\ t \in Seq(N)
  <2>1. 1..n \subseteq N /\ {n + 1} \subseteq N
    OBVIOUS
  <2> HIDE DEF N
  <2> QED
    BY <2>1, SeqMonotonic
<1>5. /\ u \in Seq(N) /\ Len(u) = a + b
      /\ \A k \in 1..(a + b) : u[k] = IF k <= a THEN s[k] ELSE t[k - a]
  <2> HIDE DEF N
  <2> QED
    BY <1>4, ConcatProperties
<1> HIDE DEF u, a, b
<1>6. DOMAIN u = 1..(a + b)
  BY <1>5, LenProperties
<1>7. /\ \A k \in 1..a : k \in DOMAIN u /\ u[k] = s[k] /\ u[k] \in 1..n
      /\ \A k \in (a + 1)..(a + b) : k \in DOMAIN u /\ u[k] = n + 1
  <2>1. ASSUME NEW k \in 1..a PROVE k \in DOMAIN u /\ u[k] = s[k] /\ u[k] \in 1..n
    <3>1. k \in 1..(a + b) /\ k <= a
      BY <1>1, <1>2
    <3> QED
      BY <1>1, <1>5, <1>6, <3>1
  <2>2. ASSUME NEW k \in (a + 1)..(a + b) PROVE k \in DOMAIN u /\ u[k] = n + 1
    <3>1. k \in 1..(a + b) /\ ~(k <= a) /\ k - a \in 1..b
      BY <1>1, <1>2
    <3> QED
      BY <1>2, <1>5, <1>6, <3>1
  <2> QED
    BY <2>1, <2>2
<1>8. DOMAIN u = 1..a \cup (a + 1)..(a + b)
  BY <1>1, <1>2, <1>6
<1>9. ToSet(u) = ToSet(s) \cup (IF t = << >> THEN {} ELSE {n + 1})
  <2>1. \A x : x \in ToSet(u) <=> \E k \in DOMAIN u : u[k] = x
    BY DEF ToSet
  <2>2. \A x : x \in ToSet(s) <=> \E k \in 1..a : s[k] = x
    BY <1>1 DEF ToSet
  <2>3. t # << >> => a + 1 \in (a + 1)..(a + b)
    BY <1>1, <1>2, <1>3
  <2>4. t = << >> => (a + 1)..(a + b) = {}
    BY <1>1, <1>2, <1>3
  <2> QED
    BY <2>1, <2>2, <2>3, <2>4, <1>7, <1>8
<1>10. Ascending(u)
  <2> SUFFICES ASSUME NEW i \in DOMAIN u, NEW j \in DOMAIN u, i < j PROVE u[i] <= u[j]
    BY DEF Ascending
  <2>1. CASE j \in 1..a
    <3>1. i \in 1..a
      BY <1>1, <1>2, <1>6, <2>1
    <3> QED
      BY <1>1, <1>7, <2>1, <3>1 DEF Ascending
  <2>2. CASE j \in (a + 1)..(a + b)
    <3>1. u[j] = n + 1 /\ (u[i] \in 1..n \/ u[i] = n + 1)
      BY <1>7, <1>8, <2>2
    <3> QED
      BY <3>1
  <2> QED
    BY <1>8, <2>1, <2>2
<1>11. ASSUME Distinct(s), b <= 1 PROVE Distinct(u)
  <2> SUFFICES ASSUME NEW i \in DOMAIN u, NEW j \in DOMAIN u, u[i] = u[j] PROVE i = j
    BY DEF Distinct
  <2>1. n + 1 \notin 1..n
    OBVIOUS
  <2>2. CASE i \in 1..a
    <3>1. j \in 1..a
      BY <1>7, <1>8, <2>1, <2>2
    <3> QED
      BY <1>1, <1>7, <1>11, <2>2, <3>1 DEF Distinct
  <2>3. CASE i \notin 1..a
    <3>1. i \in (a + 1)..(a + b) /\ j \in (a + 1)..(a + b)
      BY <1>7, <1>8, <2>1, <2>3
    <3> QED
      BY <1>1, <1>2, <1>11, <3>1
  <2> QED
    BY <2>2, <2>3
<1> QED
  BY <1>5, <1>9, <1>10, <1>11 DEF u, b

\* A list without repetition is as long as its set.
LEMMA LenOfDistinct ==
  ASSUME NEW S, NEW s \in Seq(S), Distinct(s)
  PROVE  Cardinality(ToSet(s)) = Len(s)
<1> DEFINE n == Len(s)
           T == ToSet(s)
<1>1. n \in Nat /\ DOMAIN s = 1..n /\ s \in [1..n -> S]
  BY LenProperties
<1>2. T = {s[k] : k \in 1..n}
  BY <1>1 DEF ToSet
<1> HIDE DEF T, n
<1>3. s \in [1..n -> T]
  BY <1>1, <1>2
<1>4. s \in Bijection(1..n, T)
  BY <1>1, <1>2, <1>3 DEF Distinct, Bijection, Injection, Surjection, IsInjective
<1>5. ExistsBijection(1..n, T)
  BY <1>4 DEF ExistsBijection
<1>6. IsFiniteSet(1..n) /\ Cardinality(1..n) = n
  BY <1>1, FS_Interval
<1> QED
  BY <1>5, <1>6, FS_Bijection DEF T, n

----------------------------------------------------------------------------
(* Indexes. *)

Indexed(index, n, keys) ==
  /\ DOMAIN index = UNION {keys[k] : k \in 1..n}
  /\ \A x \in DOMAIN index :
       /\ index[x] \in Seq(1..n) /\ Ascending(index[x])
       /\ ToSet(index[x]) = {k \in 1..n : x \in keys[k]}

Once(index) == \A x \in DOMAIN index : Distinct(index[x])

\* The entries of an index, and of a key it does not have yet.
Entry(index, x) == IF x \in DOMAIN index THEN index[x] ELSE << >>

LEMMA EntryOf ==
  ASSUME NEW n \in Nat, NEW index, NEW keys, Indexed(index, n, keys), NEW x
  PROVE  /\ Entry(index, x) \in Seq(1..n) /\ Ascending(Entry(index, x))
         /\ ToSet(Entry(index, x)) = {k \in 1..n : x \in keys[k]}
         /\ Once(index) => Distinct(Entry(index, x))
<1>1. CASE x \in DOMAIN index
  BY <1>1 DEF Entry, Indexed, Once
<1>2. CASE x \notin DOMAIN index
  <2>1. Entry(index, x) = << >>
    BY <1>2 DEF Entry
  <2>2. DOMAIN << >> = {} /\ << >> \in Seq(1..n)
    BY EmptyIsSeq, EmptySeq
  <2>3. {k \in 1..n : x \in keys[k]} = {}
    BY <1>2 DEF Indexed
  <2>4. ToSet(<< >>) = {} /\ Ascending(<< >>) /\ Distinct(<< >>)
    BY <2>2 DEF ToSet, Ascending, Distinct
  <2> QED
    BY <2>1, <2>2, <2>3, <2>4
<1> QED
  BY <1>1, <1>2

\* The place n + 1 is filed under the keys of K, once or more often.
Lengthened(index, new, tail, n, K) ==
  /\ DOMAIN new = DOMAIN index \cup K
  /\ \A x \in DOMAIN new : /\ new[x] = Entry(index, x) \o tail[x]
                           /\ tail[x] \in Seq({n + 1})
                           /\ tail[x] = << >> <=> x \notin K

Singly(new, tail) == \A x \in DOMAIN new : Len(tail[x]) <= 1

LEMMA IndexGrows ==
  ASSUME NEW n \in Nat, NEW index, NEW keys, Indexed(index, n, keys),
         NEW K, NEW more, \A k \in 1..n : more[k] = keys[k], more[n + 1] = K,
         NEW new, NEW tail, Lengthened(index, new, tail, n, K)
  PROVE  /\ Indexed(new, n + 1, more)
         /\ Once(index) /\ Singly(new, tail) => Once(new)
<1>1. 1..(n + 1) = 1..n \cup {n + 1} /\ n + 1 \notin 1..n
  OBVIOUS
<1>2. DOMAIN new = UNION {more[k] : k \in 1..(n + 1)}
  <2>1. \A x : x \in UNION {more[k] : k \in 1..(n + 1)}
                <=> x \in K \/ \E k \in 1..n : x \in keys[k]
    BY <1>1
  <2>0. DOMAIN new = DOMAIN index \cup K
    BY DEF Lengthened
  <2>2. \A x : x \in DOMAIN index <=> \E k \in 1..n : x \in keys[k]
    BY DEF Indexed
  <2> QED
    BY <2>0, <2>1, <2>2
<1>3. ASSUME NEW x \in DOMAIN new
      PROVE  /\ new[x] \in Seq(1..(n + 1)) /\ Ascending(new[x])
             /\ ToSet(new[x]) = {k \in 1..(n + 1) : x \in more[k]}
             /\ Once(index) /\ Len(tail[x]) <= 1 => Distinct(new[x])
  <2> DEFINE old == Entry(index, x)
             t == tail[x]
  <2>1. /\ old \in Seq(1..n) /\ Ascending(old)
        /\ ToSet(old) = {k \in 1..n : x \in keys[k]}
        /\ Once(index) => Distinct(old)
    BY EntryOf
  <2>2. t \in Seq({n + 1}) /\ new[x] = old \o t /\ (t = << >> <=> x \notin K)
    BY Zenon DEF Lengthened
  <2> HIDE DEF old, t
  <2>3. /\ old \o t \in Seq(1..(n + 1)) /\ Ascending(old \o t)
        /\ ToSet(old \o t) = ToSet(old) \cup (IF t = << >> THEN {} ELSE {n + 1})
        /\ Distinct(old) /\ Len(t) <= 1 => Distinct(old \o t)
    BY <2>1, <2>2, Grown
  <2>4. {k \in 1..(n + 1) : x \in more[k]}
          = {k \in 1..n : x \in keys[k]} \cup (IF x \in K THEN {n + 1} ELSE {})
    BY <1>1
  <2>5. ToSet(new[x]) = {k \in 1..(n + 1) : x \in more[k]}
    BY <2>1, <2>2, <2>3, <2>4
  <2> QED
    BY <2>1, <2>2, <2>3, <2>5 DEF t
<1> QED
  BY <1>2, <1>3 DEF Indexed, Once, Singly

LEMMA FiledGrows ==
  ASSUME NEW n \in Nat, NEW index, NEW keys, Indexed(index, n, keys), NEW key,
         NEW more, \A k \in 1..n : more[k] = keys[k], more[n + 1] = {key}
  PROVE  /\ Indexed(Filed(index, key, n + 1), n + 1, more)
         /\ Once(index) => Once(Filed(index, key, n + 1))
<1> DEFINE new == Filed(index, key, n + 1)
           tail == [x \in DOMAIN new |-> IF x = key THEN <<n + 1>> ELSE << >>]
<1>1. /\ DOMAIN new = DOMAIN index \cup {key}
      /\ \A x \in DOMAIN new : new[x] = Entry(index, x) \o tail[x]
  BY DEF Filed, Entry
<1>2. <<n + 1>> \in Seq({n + 1}) /\ Len(<<n + 1>>) = 1 /\ <<n + 1>> # << >>
      /\ << >> \in Seq({n + 1}) /\ Len(<< >>) = 0
  BY EmptyIsSeq
<1>3. \A x \in DOMAIN new : /\ tail[x] \in Seq({n + 1}) /\ Len(tail[x]) <= 1
                            /\ tail[x] = << >> <=> x \notin {key}
  <2> SUFFICES ASSUME NEW x \in DOMAIN new
               PROVE  /\ tail[x] \in Seq({n + 1}) /\ Len(tail[x]) <= 1
                      /\ tail[x] = << >> <=> x \notin {key}
    OBVIOUS
  <2>1. CASE x = key
    <3>1. tail[x] = <<n + 1>>
      BY <2>1
    <3> QED
      BY <1>2, <2>1, <3>1
  <2>2. CASE x # key
    <3>1. tail[x] = << >>
      BY <2>2
    <3> QED
      BY <1>2, <2>2, <3>1
  <2> QED
    BY <2>1, <2>2
<1> HIDE DEF new, tail
<1>4. Lengthened(index, new, tail, n, {key})
  BY <1>1, <1>3, Zenon DEF Lengthened
<1>5. /\ Indexed(new, n + 1, more)
      /\ Once(index) /\ Singly(new, tail) => Once(new)
  <2> DEFINE K == {key}
  <2>1. more[n + 1] = K /\ Lengthened(index, new, tail, n, K)
    BY <1>4
  <2> HIDE DEF K
  <2> QED
    BY <2>1, IndexGrows
<1> QED
  BY <1>3, <1>5 DEF new, Singly

LEMMA FiledUnderGrows ==
  ASSUME NEW n \in Nat, NEW index, NEW keys, Indexed(index, n, keys),
         NEW names, IsSeq(names),
         NEW more, \A k \in 1..n : more[k] = keys[k], more[n + 1] = ToSet(names)
  PROVE  Indexed(FiledUnder(index, names, n + 1), n + 1, more)
<1> DEFINE new == FiledUnder(index, names, n + 1)
           at(x) == {i \in DOMAIN names : names[i] = x}
           tail == [x \in DOMAIN new |-> [j \in 1..Cardinality(at(x)) |-> n + 1]]
<1>1. /\ DOMAIN new = DOMAIN index \cup ToSet(names)
      /\ \A x \in DOMAIN new : new[x] = Entry(index, x) \o tail[x]
  BY DEF FiledUnder, Entry
<1>2. ASSUME NEW x
      PROVE  Cardinality(at(x)) \in Nat /\ (Cardinality(at(x)) = 0 <=> x \notin ToSet(names))
  <2>1. IsFiniteSet(at(x))
    <3>1. Len(names) \in Nat /\ DOMAIN names = 1..Len(names)
      BY SeqShape
    <3>2. IsFiniteSet(DOMAIN names)
      BY <3>1, FS_Interval
    <3> QED
      BY <3>2, FS_Subset
  <2>2. at(x) = {} <=> x \notin ToSet(names)
    BY DEF ToSet
  <2> HIDE DEF at
  <2> QED
    BY <2>1, <2>2, FS_CardinalityType, FS_EmptySet
<1>3. ASSUME NEW x \in DOMAIN new
      PROVE  tail[x] \in Seq({n + 1}) /\ (tail[x] = << >> <=> x \notin ToSet(names))
  <2> DEFINE c == Cardinality(at(x))
             t == [j \in 1..c |-> n + 1]
  <2>1. tail[x] = t
    OBVIOUS
  <2>2. c \in Nat /\ (c = 0 <=> x \notin ToSet(names))
    BY <1>2
  <2> HIDE DEF c
  <2>3. t \in Seq({n + 1}) /\ Len(t) = c
    <3>1. t \in [1..c -> {n + 1}]
      OBVIOUS
    <3>2. DOMAIN t = 1..c
      OBVIOUS
    <3> HIDE DEF t
    <3>3. t \in Seq({n + 1})
      BY <2>2, <3>1, SeqDef
    <3> QED
      BY <2>2, <3>2, <3>3, LenProperties
  <2> HIDE DEF t
  <2>4. t = << >> <=> c = 0
    BY <2>3, EmptySeq
  <2> QED
    BY <2>1, <2>2, <2>3, <2>4
<1> HIDE DEF new, tail
<1>4. Lengthened(index, new, tail, n, ToSet(names))
  BY <1>1, <1>3, Zenon DEF Lengthened
<1>5. Indexed(new, n + 1, more)
  BY <1>4, IndexGrows
<1> QED
  BY <1>5 DEF new

----------------------------------------------------------------------------
(* What Add keeps. *)

MnemonicKeys(instrs) == [k \in DOMAIN instrs |-> {instrs[k].mnemonic}]
ClassKeys(instrs) == [k \in DOMAIN instrs |-> {instrs[k].class}]
FeatureKeys(instrs) == [k \in DOMAIN instrs |-> ToSet(instrs[k].features)]

IndexesKept(reg) ==
  /\ Indexed(reg.byMnemonic, Len(reg.instructions), MnemonicKeys(reg.instructions))
  /\ Indexed(reg.byClass, Len(reg.instructions), ClassKeys(reg.instructions))
  /\ Once(reg.byClass)
  /\ Indexed(reg.byFeature, Len(reg.instructions), FeatureKeys(reg.instructions))

LEMMA KeysGrow ==
  ASSUME NEW instrs, IsSeq(instrs), NEW instr
  PROVE  LET n == Len(instrs)
             more == Append(instrs, instr)
         IN  /\ n \in Nat /\ IsSeq(more) /\ Len(more) = n + 1
             /\ \A k \in 1..n : MnemonicKeys(more)[k] = MnemonicKeys(instrs)[k]
             /\ \A k \in 1..n : ClassKeys(more)[k] = ClassKeys(instrs)[k]
             /\ \A k \in 1..n : FeatureKeys(more)[k] = FeatureKeys(instrs)[k]
             /\ MnemonicKeys(more)[n + 1] = {instr.mnemonic}
             /\ ClassKeys(more)[n + 1] = {instr.class}
             /\ FeatureKeys(more)[n + 1] = ToSet(instr.features)
<1> DEFINE n == Len(instrs)
           more == Append(instrs, instr)
<1>1. n \in Nat /\ DOMAIN instrs = 1..n
  BY SeqShape
<1>2. /\ IsSeq(more) /\ Len(more) = n + 1 /\ DOMAIN more = 1..(n + 1)
      /\ \A k \in 1..n : more[k] = instrs[k]
      /\ more[n + 1] = instr
  BY SeqAppend
<1> HIDE DEF n, more
<1>3. n + 1 \in 1..(n + 1) /\ \A k \in 1..n : k \in 1..(n + 1)
  BY <1>1
<1>4. \A k \in 1..n : /\ MnemonicKeys(more)[k] = MnemonicKeys(instrs)[k]
                       /\ ClassKeys(more)[k] = ClassKeys(instrs)[k]
                       /\ FeatureKeys(more)[k] = FeatureKeys(instrs)[k]
  BY <1>1, <1>2, <1>3 DEF MnemonicKeys, ClassKeys, FeatureKeys
<1>5. /\ MnemonicKeys(more)[n + 1] = {instr.mnemonic}
      /\ ClassKeys(more)[n + 1] = {instr.class}
      /\ FeatureKeys(more)[n + 1] = ToSet(instr.features)
  BY <1>2, <1>3 DEF MnemonicKeys, ClassKeys, FeatureKeys
<1> QED
  BY <1>1, <1>2, <1>4, <1>5 DEF n, more

LEMMA AddIndexes ==
  ASSUME NEW reg, IsSeq(reg.instructions), IndexesKept(reg),
         NEW instr, IsSeq(instr.features)
  PROVE  IndexesKept(Add(reg, instr))
<1>1. CASE Rejects(reg, instr)
  BY <1>1 DEF Add
<1>2. CASE ~Rejects(reg, instr)
  <2> DEFINE instrs == reg.instructions
             n == Len(instrs)
             more == Append(instrs, instr)
             new == Add(reg, instr)
  <2>1. /\ new.instructions = more
        /\ new.byMnemonic = Filed(reg.byMnemonic, instr.mnemonic, n + 1)
        /\ new.byClass = Filed(reg.byClass, instr.class, n + 1)
        /\ new.byFeature = FiledUnder(reg.byFeature, instr.features, n + 1)
    BY <1>2 DEF Add
  <2>2. /\ n \in Nat /\ IsSeq(more) /\ Len(more) = n + 1
        /\ \A k \in 1..n : MnemonicKeys(more)[k] = MnemonicKeys(instrs)[k]
        /\ \A k \in 1..n : ClassKeys(more)[k] = ClassKeys(instrs)[k]
        /\ \A k \in 1..n : FeatureKeys(more)[k] = FeatureKeys(instrs)[k]
        /\ MnemonicKeys(more)[n + 1] = {instr.mnemonic}
        /\ ClassKeys(more)[n + 1] = {instr.class}
        /\ FeatureKeys(more)[n + 1] = ToSet(instr.features)
    BY KeysGrow
  <2>3. /\ Indexed(reg.byMnemonic, n, MnemonicKeys(instrs))
        /\ Indexed(reg.byClass, n, ClassKeys(instrs)) /\ Once(reg.byClass)
        /\ Indexed(reg.byFeature, n, FeatureKeys(instrs))
    BY DEF IndexesKept
  <2> HIDE DEF instrs, n, more, new
  <2>4. Indexed(new.byMnemonic, n + 1, MnemonicKeys(more))
    BY <2>1, <2>2, <2>3, FiledGrows
  <2>5. Indexed(new.byClass, n + 1, ClassKeys(more)) /\ Once(new.byClass)
    BY <2>1, <2>2, <2>3, FiledGrows
  <2>6. Indexed(new.byFeature, n + 1, FeatureKeys(more))
    BY <2>1, <2>2, <2>3, FiledUnderGrows
  <2> QED
    BY <2>1, <2>2, <2>4, <2>5, <2>6 DEF IndexesKept, new
<1> QED
  BY <1>1, <1>2

----------------------------------------------------------------------------
(* The alias instructions of a list of encodings. *)

LEMMA AliasesBuilt ==
  ASSUME NEW reg, NEW encodings, IsSeq(encodings)
  PROVE  BuildAliases(reg, encodings)
           \in Seq({AliasInstruction(reg, encodings[k]) : k \in DOMAIN encodings})
<1> DEFINE n == Len(encodings)
           B == {AliasInstruction(reg, encodings[k]) : k \in DOMAIN encodings}
           S == Seq(B)
           made(k, x) == IF Kept(encodings, k, CanonicalFiles(reg))
                         THEN Append(x, AliasInstruction(reg, encodings[k])) ELSE x
           step == [p \in (1..n) \X S |-> made(p[1], p[2])]
           Def(g) == g = [k \in 0..n |->
                            IF k = 0 THEN << >>
                            ELSE IF Kept(encodings, k, CanonicalFiles(reg))
                            THEN Append(g[k - 1], AliasInstruction(reg, encodings[k]))
                            ELSE g[k - 1]]
           out == CHOOSE g : Def(g)
<1>1. n \in Nat /\ DOMAIN encodings = 1..n
  BY SeqShape
<1>2. BuildAliases(reg, encodings) = out[n]
  BY DEF BuildAliases
<1>3. << >> \in S
  BY EmptySeq
<1>4. ASSUME NEW k \in 1..n, NEW x \in S PROVE made(k, x) \in S
  <2>1. AliasInstruction(reg, encodings[k]) \in B
    BY <1>1
  <2>2. Append(x, AliasInstruction(reg, encodings[k])) \in S
    BY <2>1, AppendProperties
  <2> QED
    BY <2>2
<1>5. \A g : Def(g) <=> g = [k \in 0..n |-> IF k = 0 THEN << >> ELSE made(k, g[k - 1])]
  BY Zenon
<1> HIDE DEF made, B, S, n, Def
<1>6. step \in [(1..n) \X S -> S] /\ \A k \in 1..n, x \in S : step[<<k, x>>] = made(k, x)
  BY <1>4
<1> HIDE DEF step
<1>7. PICK g \in [0..n -> S] : Iterates(g, n, << >>, step)
  BY <1>1, <1>3, <1>6, Iterated
<1>8. Def(g)
  <2>1. g[0] = << >> /\ \A k \in 1..n : g[k] = step[<<k, g[k - 1]>>]
    BY <1>7 DEF Iterates
  <2>2. \A k \in 1..n : k - 1 \in 0..n /\ k \in 0..n /\ k # 0
    BY <1>1
  <2>3. \A k \in 1..n : g[k] = made(k, g[k - 1])
    BY <1>6, <2>1, <2>2
  <2>4. \A k \in 0..n : k = 0 \/ k \in 1..n
    BY <1>1
  <2>5. g = [k \in 0..n |-> IF k = 0 THEN << >> ELSE made(k, g[k - 1])]
    BY <2>1, <2>3, <2>4
  <2> QED
    BY <2>5, <1>5
<1>9. Def(out)
  BY <1>8
<1> HIDE DEF out
<1>10. out[0] = << >> /\ \A k \in 1..n : out[k] = made(k, out[k - 1])
  <2>1. out = [k \in 0..n |-> IF k = 0 THEN << >> ELSE made(k, out[k - 1])]
    BY <1>5, <1>9
  <2>2. 0 \in 0..n /\ \A k \in 1..n : k \in 0..n /\ k # 0
    BY <1>1
  <2> QED
    BY <2>1, <2>2
<1>11. out[n] \in S
  <2>1. out[0] \in S /\ \A k \in 1..n : out[k - 1] \in S => out[k] \in S
    BY <1>3, <1>4, <1>10
  <2>2. n \in Nat
    BY <1>1
  <2> QED
    BY <2>1, <2>2, LoopKeeps
<1> QED
  BY <1>2, <1>11 DEF S, B

----------------------------------------------------------------------------
(* Sequences joined, and the scan of a page. *)

LEMMA FlatIsSeq ==
  ASSUME NEW seqs, IsSeq(seqs), \A k \in DOMAIN seqs : IsSeq(seqs[k])
  PROVE  IsSeq(FlattenSeq(seqs))
<1> DEFINE n == Len(seqs)
           Def(m, g) == g = [i \in 1..m |-> IF i = 1 THEN seqs[i] ELSE g[i - 1] \o seqs[i]]
           flatten == CHOOSE g : Def(n, g)
           T == {m \in Nat : \E g : Def(m, g)}
<1>1. n \in Nat /\ DOMAIN seqs = 1..n
  BY SeqShape
<1>2. FlattenSeq(seqs) = IF n = 0 THEN seqs ELSE flatten[n]
  BY DEF FlattenSeq
<1> HIDE DEF n
<1>3. 0 \in T
  <2>1. Def(0, [i \in 1..0 |-> << >>])
    OBVIOUS
  <2> QED
    BY <2>1, Zenon
<1>4. ASSUME NEW m \in Nat, m \in T PROVE m + 1 \in T
  <2>2. PICK g : Def(m, g)
    BY <1>4
  <2> DEFINE F(h, i) == IF i = 1 THEN seqs[i] ELSE h[i - 1] \o seqs[i]
             h == [i \in 1..(m + 1) |-> IF i <= m THEN g[i] ELSE F(g, i)]
  <2>3. \A i \in 1..m : g[i] = F(g, i)
    BY <2>2
  <2>4. ASSUME NEW i \in 1..(m + 1) PROVE h[i] = F(h, i)
    <3>1. h[i] = F(g, i)
      BY <2>3
    <3>2. i = 1 \/ (i - 1 \in 1..(m + 1) /\ i - 1 <= m)
      OBVIOUS
    <3>3. i = 1 \/ h[i - 1] = g[i - 1]
      BY <3>2
    <3> QED
      BY <3>1, <3>3
  <2>5. h = [i \in 1..(m + 1) |-> h[i]]
    OBVIOUS
  <2> HIDE DEF h
  <2>6. Def(m + 1, h)
    BY <2>4, <2>5
  <2>7. \E f : Def(m + 1, f)
    BY <2>6, Zenon
  <2> HIDE DEF Def
  <2> QED
    BY <2>7
<1> HIDE DEF T
<1>5. n \in T
  BY <1>1, <1>3, <1>4, Induct
<1>6. Def(n, flatten)
  <2>1. \E g : Def(n, g)
    BY <1>1, <1>5 DEF T
  <2> HIDE DEF Def
  <2> QED
    BY <2>1
<1> HIDE DEF flatten
<1>7. \A i \in 1..n : flatten[i] = IF i = 1 THEN seqs[i] ELSE flatten[i - 1] \o seqs[i]
  BY <1>6
<1> DEFINE U == {k \in Nat : k + 1 <= n => IsSeq(flatten[k + 1])}
<1>8. 0 \in U
  BY <1>1, <1>7
<1>9. ASSUME NEW k \in Nat, k \in U PROVE k + 1 \in U
  <2> SUFFICES ASSUME (k + 1) + 1 <= n PROVE IsSeq(flatten[(k + 1) + 1])
    OBVIOUS
  <2>1. k + 1 <= n /\ (k + 1) + 1 \in 1..n /\ (k + 1) + 1 # 1 /\ ((k + 1) + 1) - 1 = k + 1
    BY <1>1
  <2>2. IsSeq(flatten[k + 1]) /\ IsSeq(seqs[(k + 1) + 1])
    BY <1>1, <1>9, <2>1
  <2>3. flatten[(k + 1) + 1] = flatten[k + 1] \o seqs[(k + 1) + 1]
    BY <1>7, <2>1
  <2> QED
    BY <2>2, <2>3, SeqConcat
<1> HIDE DEF U
<1>10. \A k \in Nat : k \in U
  BY <1>8, <1>9, Induct
<1>11. n # 0 => IsSeq(flatten[n])
  <2>1. n # 0 => n - 1 \in Nat /\ (n - 1) + 1 = n
    BY <1>1
  <2> QED
    BY <1>1, <1>10, <2>1 DEF U
<1> QED
  BY <1>2, <1>11

\* The aliases found so far are a list.
IsScan(c) == "aliases" \in DOMAIN c /\ IsSeq(c.aliases)

LEMMA StartScan == IsScan(Scan0)
BY EmptyIsSeq DEF IsScan, Scan0

LEMMA ElementScans ==
  ASSUME NEW c, IsScan(c), NEW tag, NEW page
  PROVE  IsScan(Element(c, tag, page))
<1>1. IsSeq(c.aliases)
  BY DEF IsScan
<1>2. \A e : IsSeq(Append(c.aliases, e))
  BY <1>1, SeqAppend
<1>3. \A j, e : IsSeq([c.aliases EXCEPT ![j] = e])
  BY <1>1, SeqExcept
<1>4. IsScan(EncodingTag(c, tag, page))
  BY <1>1, <1>2 DEF IsScan, EncodingTag
<1>5. IsScan(DocVar(c, tag))
  BY <1>1, <1>3 DEF IsScan, DocVar
<1>6. IsScan([c EXCEPT !.isAlias = Attribute(tag, "type") = <<"alias">>])
  BY <1>1 DEF IsScan
<1>7. IsScan([c EXCEPT !.refIForm = Attribute(tag, "refiform")])
  BY <1>1 DEF IsScan
<1> QED
  BY <1>4, <1>5, <1>6, <1>7 DEF Element

LEMMA TagScans ==
  ASSUME NEW c, IsScan(c), NEW tag, NEW page
  PROVE  IsScan(ScanTag(c, tag, page))
<1>1. IsScan(Fails(c))
  BY DEF IsScan, Fails
<1>2. IsScan(CloseTag(c, tag))
  BY <1>1 DEF IsScan, CloseTag
<1>3. IsScan(OpenTag(c, tag, page))
  <2> DEFINE first == [c EXCEPT !.isIForm = TRUE]
             opened == Element(first, tag, page)
  <2>1. IsScan(first)
    BY DEF IsScan
  <2> HIDE DEF first
  <2>2. IsScan(opened)
    BY <2>1, ElementScans
  <2> HIDE DEF opened
  <2>3. /\ IsScan([c EXCEPT !.stop = TRUE])
        /\ IsScan([opened EXCEPT !.stack = Append(@, tag.name)])
        /\ IsScan([opened EXCEPT !.cur = 0])
    BY <2>2 DEF IsScan
  <2>4. OpenTag(c, tag, page) =
          IF ~c.isIForm /\ tag.name # "instructionsection" THEN [c EXCEPT !.stop = TRUE]
          ELSE IF ~tag.selfClosing THEN [opened EXCEPT !.stack = Append(@, tag.name)]
          ELSE IF tag.name = "encoding" THEN [opened EXCEPT !.cur = 0]
          ELSE opened
    BY DEF OpenTag, opened, first
  <2> QED
    BY <2>2, <2>3, <2>4, Zenon
<1> QED
  BY <1>1, <1>2, <1>3 DEF ScanTag

LEMMA AliasesAreSeq ==
  ASSUME NEW tags, IsSeq(tags), NEW page
  PROVE  IsSeq(InspectIFormMember(tags, page).aliases)
<1> DEFINE n == Len(tags)
           Def(m, g) == g = [k \in 0..m |-> IF k = 0 THEN Scan0
                                            ELSE ScanTag(g[k - 1], tags[k], page)]
           after == CHOOSE g : Def(n, g)
           scan == after[n]
           T == {m \in Nat : \E g : Def(m, g)}
<1>1. n \in Nat
  BY SeqShape
<1>2. InspectIFormMember(tags, page).aliases =
        IF ~scan.isAlias THEN << >>
        ELSE [k \in DOMAIN scan.aliases |-> [scan.aliases[k] EXCEPT !.refIForm = scan.refIForm]]
  BY DEF InspectIFormMember
<1> HIDE DEF n
<1>3. 0 \in T
  <2>1. Def(0, [k \in 0..0 |-> Scan0])
    OBVIOUS
  <2> QED
    BY <2>1, Zenon
<1>4. ASSUME NEW m \in Nat, m \in T PROVE m + 1 \in T
  <2>2. PICK g : Def(m, g)
    BY <1>4
  <2> DEFINE F(h, k) == IF k = 0 THEN Scan0 ELSE ScanTag(h[k - 1], tags[k], page)
             h == [k \in 0..(m + 1) |-> IF k <= m THEN g[k] ELSE F(g, k)]
  <2>3. \A k \in 0..m : g[k] = F(g, k)
    BY <2>2
  <2>4. ASSUME NEW k \in 0..(m + 1) PROVE h[k] = F(h, k)
    <3>1. h[k] = F(g, k)
      BY <2>3
    <3>2. k = 0 \/ (k - 1 \in 0..(m + 1) /\ k - 1 <= m)
      OBVIOUS
    <3>3. k = 0 \/ h[k - 1] = g[k - 1]
      BY <3>2
    <3> QED
      BY <3>1, <3>3
  <2>5. h = [k \in 0..(m + 1) |-> h[k]]
    OBVIOUS
  <2> HIDE DEF h
  <2>6. Def(m + 1, h)
    BY <2>4, <2>5
  <2>7. \E f : Def(m + 1, f)
    BY <2>6, Zenon
  <2> HIDE DEF Def
  <2> QED
    BY <2>7
<1> HIDE DEF T
<1>5. n \in T
  BY <1>1, <1>3, <1>4, Induct
<1>6. Def(n, after)
  <2>1. \E g : Def(n, g)
    BY <1>5 DEF T
  <2> HIDE DEF Def
  <2> QED
    BY <2>1
<1> HIDE DEF after
<1>7. after[0] = Scan0 /\ \A k \in 1..n : after[k] = ScanTag(after[k - 1], tags[k], page)
  BY <1>1, <1>6
<1> DEFINE U == {k \in Nat : k <= n => IsScan(after[k])}
<1>8. 0 \in U
  BY <1>7, StartScan
<1>9. ASSUME NEW k \in Nat, k \in U PROVE k + 1 \in U
  <2> SUFFICES ASSUME k + 1 <= n PROVE IsScan(after[k + 1])
    OBVIOUS
  <2>1. k <= n /\ k + 1 \in 1..n /\ (k + 1) - 1 = k
    BY <1>1
  <2>2. IsScan(after[k]) /\ after[k + 1] = ScanTag(after[k], tags[k + 1], page)
    BY <1>7, <1>9, <2>1
  <2> QED
    BY <2>2, TagScans
<1> HIDE DEF U
<1>10. \A k \in Nat : k \in U
  BY <1>8, <1>9, Induct
<1>11. IsScan(scan)
  <2>1. n <= n
    BY <1>1
  <2> QED
    BY <1>1, <1>10, <2>1 DEF U
<1> HIDE DEF scan
<1>12. IsSeq([k \in DOMAIN scan.aliases |-> [scan.aliases[k] EXCEPT !.refIForm = scan.refIForm]])
  <2> DEFINE m == Len(scan.aliases)
             t == [k \in DOMAIN scan.aliases |->
                     [scan.aliases[k] EXCEPT !.refIForm = scan.refIForm]]
  <2>1. m \in Nat /\ DOMAIN scan.aliases = 1..m
    BY <1>11, SeqShape DEF IsScan
  <2>2. t = [k \in 1..m |-> t[k]]
    BY <2>1
  <2> HIDE DEF m, t
  <2>3. IsSeq(t)
    BY <2>1, <2>2, SeqByShape
  <2> QED
    BY <2>3 DEF t
<1> QED
  BY <1>2, <1>12, EmptyIsSeq

----------------------------------------------------------------------------
(* The lookups agree with the list until Pass 2 rewrites an instruction.     *)
(* The features of whatever is going to be added are a list, so that Add     *)
(* files it under each of them.                                              *)

IsRow(r) == "features" \in DOMAIN r /\ IsSeq(r.features)
Rows(s) == IsSeq(s) /\ \A k \in DOMAIN s : IsRow(s[k])

IndexInv ==
  /\ Rows(contexts) /\ Rows(results) /\ Rows(todo)
  /\ resolved = {} => IndexesKept(registry)

LEMMA RowsAppend ==
  ASSUME NEW s, NEW r, Rows(s), IsRow(r)
  PROVE  Rows(Append(s, r))
<1> DEFINE t == Append(s, r)
           n == Len(s)
<1>1. IsSeq(s) /\ \A k \in DOMAIN s : IsRow(s[k])
  BY DEF Rows
<1>2. n \in Nat /\ DOMAIN s = 1..n
  BY <1>1, SeqShape
<1>3. /\ IsSeq(t) /\ DOMAIN t = 1..(n + 1)
      /\ \A k \in 1..n : t[k] = s[k]
      /\ t[n + 1] = r
  BY <1>1, SeqAppend
<1> HIDE DEF t, n
<1>4. \A k \in 1..(n + 1) : k \in 1..n \/ k = n + 1
  BY <1>2
<1>5. \A k \in DOMAIN t : IsRow(t[k])
  BY <1>1, <1>2, <1>3, <1>4
<1> QED
  BY <1>3, <1>5 DEF Rows, t

LEMMA RowsExcept ==
  ASSUME NEW s, NEW c, NEW r, Rows(s), c \in DOMAIN s => IsRow(r)
  PROVE  Rows([s EXCEPT ![c] = r])
<1> DEFINE t == [s EXCEPT ![c] = r]
<1>1. IsSeq(s) /\ \A k \in DOMAIN s : IsRow(s[k])
  BY DEF Rows
<1>2. /\ IsSeq(t) /\ DOMAIN t = DOMAIN s
      /\ \A k \in DOMAIN s : t[k] = IF k = c THEN r ELSE s[k]
  BY <1>1, SeqExcept
<1> HIDE DEF t
<1>3. \A k \in DOMAIN t : IsRow(t[k])
  BY <1>1, <1>2
<1> QED
  BY <1>2, <1>3 DEF Rows, t

LEMMA RowsHeadTail ==
  ASSUME NEW s, Rows(s), s # << >>
  PROVE  IsRow(Head(s)) /\ Rows(Tail(s))
<1> DEFINE S == ToSet(s)
           n == Len(s)
           t == Tail(s)
<1>1. IsSeq(s) /\ \A k \in DOMAIN s : IsRow(s[k])
  BY DEF Rows
<1>2. s \in Seq(S) /\ n \in Nat /\ n # 0 /\ DOMAIN s = 1..n
  BY <1>1, SeqShape DEF IsSeq
<1>3. 1 \in DOMAIN s /\ Head(s) = s[1]
  BY <1>2
<1> HIDE DEF S
<1>4. t \in Seq(S) /\ Len(t) = n - 1 /\ \A i \in 1..Len(t) : t[i] = s[i + 1]
  BY <1>2, HeadTailProperties
<1> HIDE DEF t, n
<1>5. n - 1 \in Nat /\ DOMAIN t = 1..(n - 1)
  BY <1>2, <1>4, LenProperties
<1>6. IsSeq(t)
  <2>1. t \in [1..(n - 1) -> S]
    BY <1>4, LenProperties
  <2>2. t = [k \in 1..(n - 1) |-> t[k]]
    BY <2>1
  <2>3. n - 1 \in Nat
    BY <1>5
  <2> QED
    BY <2>2, <2>3, SeqByShape
<1>7. \A k \in DOMAIN t : IsRow(t[k])
  <2>1. \A k \in 1..(n - 1) : k + 1 \in DOMAIN s
    BY <1>2
  <2> QED
    BY <2>1, <1>1, <1>4, <1>5
<1> QED
  BY <1>1, <1>3, <1>6, <1>7 DEF Rows, t

LEMMA NoRows == Rows(<< >>)
BY EmptyIsSeq DEF Rows

LEMMA IndexInit ==
  ASSUME Init
  PROVE  IndexInv
<1>1. contexts = << >> /\ results = << >> /\ todo = << >> /\ registry = NewRegistry
  BY DEF Init
<1>2. \A keys : Indexed(<< >>, 0, keys)
  <2>1. DOMAIN << >> = {} /\ 1..0 = {}
    BY EmptyIsSeq
  <2> QED
    BY <2>1 DEF Indexed
<1>3. Once(<< >>)
  BY EmptyIsSeq DEF Once
<1>4. IndexesKept(NewRegistry)
  BY <1>2, <1>3, EmptyIsSeq DEF IndexesKept, NewRegistry
<1> QED
  BY <1>1, <1>4, NoRows DEF IndexInv

LEMMA StartRows ==
  ASSUME InputInv, Rows(contexts), HandleStartElement
  PROVE  Rows(contexts')
<1> DEFINE e == Head(tokens)
<1>1. tokens # << >> /\ tokens' = Tail(tokens) /\ e.kind = "start"
  BY DEF HandleStartElement, NextToken, Advance
<1>2. Worded(e)
  BY <1>1, AdvanceKeeps
<1>3. contexts' = contexts \/ contexts' = Append(contexts, RowContext(e, Push(scope)))
  BY DEF HandleStartElement, StartTable, StartRow, StartBitfield, StartOther
<1> HIDE DEF e
<1>4. IsRow(RowContext(e, Push(scope)))
  <2> DEFINE words == GetAttr(e, "arch_version")
             features == ArchFeatures(e)
             n == Len(words)
  <2>1. IsSeq(words)
    BY <1>1, <1>2, EmptyIsSeq DEF GetAttr, Worded
  <2>2. n \in Nat /\ DOMAIN words = 1..n
    BY <2>1, SeqShape
  <2>3. features = [k \in 1..n |-> features[k]]
    BY <2>2 DEF ArchFeatures
  <2> HIDE DEF features, n
  <2>4. IsSeq(features)
    BY <2>2, <2>3, SeqByShape
  <2> QED
    BY <2>4 DEF IsRow, RowContext, features
<1> QED
  BY <1>3, <1>4, RowsAppend

LEMMA EndRows ==
  ASSUME SessionInv, Rows(contexts), Rows(results), HandleEndElement
  PROVE  Rows(contexts') /\ Rows(results')
<1> DEFINE e == elements[Len(elements)]
           path == Path(elements)
<1>1. \/ EndTable(e, path)    \/ EndRow(e, path)
      \/ EndMnemonic(e, path) \/ EndBitfield(e, path)
      \/ EndFeature(e, path)  \/ EndOther(e, path)
  BY DEF HandleEndElement
<1> HIDE DEF e, path
<1>2. CASE EndTable(e, path) \/ EndOther(e, path)
  BY <1>2 DEF EndTable, EndOther
<1>3. CASE EndRow(e, path)
  <2>1. sessions.row[path] \in DOMAIN contexts
    BY <1>3 DEF SessionInv, EndRow, SessionExists
  <2>2. IsRow(contexts[sessions.row[path]])
    BY <2>1 DEF Rows
  <2>3. contexts' = contexts /\ results' = Append(results, contexts[sessions.row[path]])
    BY <1>3 DEF EndRow
  <2> QED
    BY <2>2, <2>3, RowsAppend
<1>4. \A c \in DOMAIN contexts : IsRow(contexts[c])
  BY DEF Rows
<1>5. CASE EndMnemonic(e, path)
  <2>1. PICK c, m : contexts' = [contexts EXCEPT ![c] = [contexts[c] EXCEPT !.mnemonic = m]]
    BY <1>5 DEF EndMnemonic
  <2>2. c \in DOMAIN contexts => IsRow([contexts[c] EXCEPT !.mnemonic = m])
    BY <1>4 DEF IsRow
  <2> DEFINE r == [contexts[c] EXCEPT !.mnemonic = m]
  <2>7. contexts' = [contexts EXCEPT ![c] = r] /\ (c \in DOMAIN contexts => IsRow(r))
    BY <2>1, <2>2
  <2> HIDE DEF r
  <2>8. Rows(contexts')
    BY <2>7, RowsExcept
  <2>9. results' = results
    BY <1>5 DEF EndMnemonic
  <2> QED
    BY <2>8, <2>9
<1>6. CASE EndBitfield(e, path)
  <2>1. CASE contexts' = contexts
    BY <1>6, <2>1 DEF EndBitfield
  <2>2. CASE contexts' # contexts
    <3>1. PICK c, f : contexts' = [contexts EXCEPT ![c] =
                                     [contexts[c] EXCEPT !.fields = Append(contexts[c].fields, f)]]
      BY <1>6, <2>2 DEF EndBitfield
    <3>2. c \in DOMAIN contexts =>
            IsRow([contexts[c] EXCEPT !.fields = Append(contexts[c].fields, f)])
      BY <1>4 DEF IsRow
    <3> DEFINE r == [contexts[c] EXCEPT !.fields = Append(contexts[c].fields, f)]
    <3>7. contexts' = [contexts EXCEPT ![c] = r] /\ (c \in DOMAIN contexts => IsRow(r))
      BY <3>1, <3>2
    <3> HIDE DEF r
    <3>8. Rows(contexts')
      BY <3>7, RowsExcept
    <3>9. results' = results
      BY <1>6 DEF EndBitfield
    <3> QED
      BY <3>8, <3>9
  <2> QED
    BY <2>1, <2>2
<1>7. CASE EndFeature(e, path)
  <2>1. PICK c, f : contexts' = [contexts EXCEPT ![c] =
                                   [contexts[c] EXCEPT !.features = Append(contexts[c].features, f)]]
    BY <1>7 DEF EndFeature
  <2>2. c \in DOMAIN contexts => IsSeq(Append(contexts[c].features, f))
    BY <1>4, SeqAppend DEF IsRow
  <2>3. c \in DOMAIN contexts =>
          IsRow([contexts[c] EXCEPT !.features = Append(contexts[c].features, f)])
    BY <1>4, <2>2 DEF IsRow
  <2> DEFINE r == [contexts[c] EXCEPT !.features = Append(contexts[c].features, f)]
  <2>7. contexts' = [contexts EXCEPT ![c] = r] /\ (c \in DOMAIN contexts => IsRow(r))
    BY <2>1, <2>3
  <2> HIDE DEF r
  <2>8. Rows(contexts')
    BY <2>7, RowsExcept
  <2>9. results' = results
    BY <1>7 DEF EndFeature
  <2> QED
    BY <2>8, <2>9
<1> QED
  BY <1>1, <1>2, <1>3, <1>5, <1>6, <1>7

LEMMA DiscoverRows ==
  ASSUME InputsAssumption, InputInv, Rows(todo), DiscoverAliases
  PROVE  Rows(todo')
<1> DEFINE pages == input.pages
           lists == [k \in DOMAIN pages |->
                       IF k \in PagesToScan THEN Inspected(k).aliases ELSE << >>]
           found == FlattenSeq(lists)
           B == {AliasInstruction(registry, found[k]) : k \in DOMAIN found}
<1>1. todo' = todo \/ todo' = BuildAliases(registry, found)
  BY DEF DiscoverAliases
<1>2. IsSeq(pages) /\ \A k \in DOMAIN pages : IsSeq(pages[k])
  BY InputsAssumption DEF InputsAssumption, InputInv, IsSeq, ToSet
<1>3. Len(pages) \in Nat /\ DOMAIN pages = 1..Len(pages)
  BY <1>2, SeqShape
<1>4. \A k \in DOMAIN pages : IsSeq(Inspected(k).aliases)
  BY <1>2, AliasesAreSeq DEF Inspected
<1>5. IsSeq(lists) /\ DOMAIN lists = DOMAIN pages
  <2>1. lists = [k \in 1..Len(pages) |-> lists[k]]
    BY <1>3
  <2>2. Len(pages) \in Nat
    BY <1>3
  <2> HIDE DEF lists, pages
  <2> QED
    BY <1>3, <2>1, <2>2, SeqByShape
<1>6. \A k \in DOMAIN lists : IsSeq(lists[k])
  BY <1>4, EmptyIsSeq
<1> HIDE DEF lists
<1>7. IsSeq(found)
  BY <1>5, <1>6, FlatIsSeq
<1> HIDE DEF found
<1>8. BuildAliases(registry, found) \in Seq(B)
  BY <1>7, AliasesBuilt
<1>9. \A b \in B : IsRow(b)
  BY EmptyIsSeq DEF IsRow, AliasInstruction
<1> HIDE DEF B
<1>10. Rows(BuildAliases(registry, found))
  <2> DEFINE t == BuildAliases(registry, found)
  <2>1. t \in Seq(B)
    BY <1>8
  <2> HIDE DEF t
  <2>2. Len(t) \in Nat /\ DOMAIN t = 1..Len(t) /\ t \in [1..Len(t) -> B]
    BY <2>1, LenProperties
  <2>3. t = [k \in 1..Len(t) |-> t[k]] /\ \A k \in DOMAIN t : t[k] \in B
    BY <2>2
  <2>4. IsSeq(t)
    BY <2>2, <2>3, SeqByShape
  <2>5. Rows(t)
    BY <1>9, <2>3, <2>4 DEF Rows
  <2> QED
    BY <2>5 DEF t
<1> QED
  BY <1>1, <1>10

LEMMA IndexNext ==
  ASSUME InputsAssumption, ParserInv, RegistryInv, IndexInv, [Next]_vars
  PROVE  IndexInv'
<1>1. Rows(contexts) /\ Rows(results) /\ Rows(todo) /\ (resolved = {} => IndexesKept(registry))
  BY DEF IndexInv
<1>2. CASE HandleStartElement
  <2>1. UNCHANGED <<results, todo, resolved, registry>>
    BY <1>2 DEF HandleStartElement, Advance
  <2> QED
    BY <1>1, <1>2, <2>1, StartRows DEF IndexInv, ParserInv
<1>3. CASE HandleEndElement
  <2>1. UNCHANGED <<todo, resolved, registry>>
    BY <1>3 DEF HandleEndElement, Advance
  <2> QED
    BY <1>1, <1>3, <2>1, EndRows DEF IndexInv, ParserInv
<1>4. CASE AddNext
  <2>1. /\ todo # << >> /\ todo' = Tail(todo) /\ registry' = Add(registry, Head(todo))
        /\ contexts' = contexts /\ results' = results /\ resolved' = resolved
    BY <1>4 DEF AddNext, engineVars
  <2>2. IsRow(Head(todo)) /\ Rows(todo')
    BY <1>1, <2>1, RowsHeadTail
  <2>3. resolved = {} => IndexesKept(registry')
    BY <1>1, <2>1, <2>2, AddIndexes DEF RegistryInv, IsRow
  <2> QED
    BY <1>1, <2>1, <2>2, <2>3 DEF IndexInv
<1>5. CASE DiscoverAliases
  <2>1. UNCHANGED <<contexts, results, resolved, registry>>
    BY <1>5 DEF DiscoverAliases, engineVars
  <2> QED
    BY <1>1, <1>5, <2>1, DiscoverRows DEF IndexInv, ParserInv
<1>6. CASE ResolveIForm
  <2>1. resolved' # {} /\ contexts' = contexts /\ results' = results /\ todo' = todo
    BY <1>6 DEF ResolveIForm, engineVars
  <2> QED
    BY <1>1, <2>1 DEF IndexInv
<1>7. CASE EndOfIndex
  <2>1. todo' = results /\ UNCHANGED <<contexts, results, resolved, registry>>
    BY <1>7 DEF EndOfIndex, engineVars
  <2> QED
    BY <1>1, <2>1 DEF IndexInv
<1>8. CASE UNCHANGED <<contexts, results, todo, resolved, registry>>
  BY <1>1, <1>8 DEF IndexInv
<1> QED
  BY <1>2, <1>3, <1>4, <1>5, <1>6, <1>7, <1>8 DEF Next, vars, engineVars, OpenIndex,
     HandleCharData, Advance, Malformed, IndexAdded, StartPass2, EndPass2, Stopped

\* Capitals stay as they are.
LEMMA UpperTwice == \A m : Upper(Upper(m)) = Upper(m)
<1> TAKE m
<1> DEFINE u == Upper(m)
<1>1. DOMAIN u = DOMAIN m
  BY DEF Upper
<1>2. \A k \in DOMAIN m : u[k] \notin DOMAIN UpperCase
  BY UpperAssumption DEF Upper, UpperAssumption
<1>3. u = [k \in DOMAIN m |-> u[k]]
  BY DEF Upper
<1> HIDE DEF u
<1>4. Upper(u) = [k \in DOMAIN m |-> u[k]]
  BY <1>1, <1>2 DEF Upper
<1> QED
  BY <1>3, <1>4 DEF u

LEMMA IndexedAgrees ==
  ASSUME NEW instrs, IsSeq(instrs), NEW keys, NEW index, Indexed(index, Len(instrs), keys)
  PROVE  /\ DOMAIN index = UNION {keys[k] : k \in DOMAIN instrs}
         /\ \A key \in DOMAIN index :
              /\ ToSet(index[key]) = {k \in DOMAIN instrs : key \in keys[k]}
              /\ \A i \in 2..Len(index[key]) : index[key][i - 1] <= index[key][i]
              /\ index[key] # << >>
<1> DEFINE n == Len(instrs)
<1>1. n \in Nat /\ DOMAIN instrs = 1..n
  BY SeqShape
<1> HIDE DEF n
<1>2. DOMAIN index = UNION {keys[k] : k \in 1..n}
  BY DEF Indexed, n
<1>3. ASSUME NEW key \in DOMAIN index
      PROVE  /\ ToSet(index[key]) = {k \in 1..n : key \in keys[k]}
             /\ \A i \in 2..Len(index[key]) : index[key][i - 1] <= index[key][i]
             /\ index[key] # << >>
  <2> DEFINE s == index[key]
  <2>1. s \in Seq(1..n) /\ Ascending(s) /\ ToSet(s) = {k \in 1..n : key \in keys[k]}
    BY DEF Indexed, n
  <2> HIDE DEF s
  <2>2. Len(s) \in Nat /\ DOMAIN s = 1..Len(s)
    BY <2>1, LenProperties
  <2>3. \A i \in 2..Len(s) : s[i - 1] <= s[i]
    <3>1. \A i \in 2..Len(s) : i - 1 \in DOMAIN s /\ i \in DOMAIN s /\ i - 1 < i
      BY <2>2
    <3> QED
      BY <3>1, <2>1 DEF Ascending
  <2>4. s # << >>
    <3>1. PICK k \in 1..n : key \in keys[k]
      BY <1>2
    <3>2. k \in ToSet(s)
      BY <2>1, <3>1
    <3>3. DOMAIN s # {}
      BY <3>2 DEF ToSet
    <3> QED
      BY <3>3, EmptyIsSeq
  <2> QED
    BY <2>1, <2>3, <2>4 DEF s
<1> QED
  BY <1>1, <1>2, <1>3

LEMMA KeptAgree ==
  ASSUME RegistryInv, IndexesKept(registry)
  PROVE  LookupsAgree
<1> DEFINE instrs == registry.instructions
<1>1. IsSeq(instrs)
  BY DEF RegistryInv
<1>2. /\ Indexed(registry.byMnemonic, Len(instrs), MnemonicKeys(instrs))
      /\ Indexed(registry.byClass, Len(instrs), ClassKeys(instrs))
      /\ Once(registry.byClass)
      /\ Indexed(registry.byFeature, Len(instrs), FeatureKeys(instrs))
  BY DEF IndexesKept
<1>3. \A i : i \in ToSet(instrs) <=> \E k \in DOMAIN instrs : instrs[k] = i
  BY DEF ToSet
<1>4. \A k \in DOMAIN instrs : /\ MnemonicKeys(instrs)[k] = {instrs[k].mnemonic}
                               /\ ClassKeys(instrs)[k] = {instrs[k].class}
                               /\ FeatureKeys(instrs)[k] = ToSet(instrs[k].features)
  BY DEF MnemonicKeys, ClassKeys, FeatureKeys
<1>5. LET index == registry.byMnemonic
          keys == MnemonicKeys(instrs)
      IN  /\ DOMAIN index = UNION {keys[k] : k \in DOMAIN instrs}
          /\ \A key \in DOMAIN index :
               /\ ToSet(index[key]) = {k \in DOMAIN instrs : key \in keys[k]}
               /\ \A i \in 2..Len(index[key]) : index[key][i - 1] <= index[key][i]
               /\ index[key] # << >>
  BY <1>1, <1>2, IndexedAgrees
<1>6. LET index == registry.byClass
          keys == ClassKeys(instrs)
      IN  /\ DOMAIN index = UNION {keys[k] : k \in DOMAIN instrs}
          /\ \A key \in DOMAIN index :
               /\ ToSet(index[key]) = {k \in DOMAIN instrs : key \in keys[k]}
               /\ \A i \in 2..Len(index[key]) : index[key][i - 1] <= index[key][i]
               /\ index[key] # << >>
  BY <1>1, <1>2, IndexedAgrees
<1>7. LET index == registry.byFeature
          keys == FeatureKeys(instrs)
      IN  /\ DOMAIN index = UNION {keys[k] : k \in DOMAIN instrs}
          /\ \A key \in DOMAIN index :
               /\ ToSet(index[key]) = {k \in DOMAIN instrs : key \in keys[k]}
               /\ \A i \in 2..Len(index[key]) : index[key][i - 1] <= index[key][i]
               /\ index[key] # << >>
  BY <1>1, <1>2, IndexedAgrees
<1> HIDE DEF instrs
<1>8. Agrees(registry, registry.byMnemonic, LAMBDA i : {i.mnemonic})
  BY <1>3, <1>4, <1>5 DEF Agrees, instrs
<1>9. Agrees(registry, GroupByClass(registry), LAMBDA i : {i.class})
  BY <1>3, <1>4, <1>6 DEF Agrees, GroupByClass, instrs
<1>10. Agrees(registry, GroupByFeature(registry), LAMBDA i : ToSet(i.features))
  BY <1>3, <1>4, <1>7 DEF Agrees, GroupByFeature, instrs
<1>11. ClassesCounted
  <2> SUFFICES ASSUME NEW c \in GetClasses(registry)
               PROVE  Statistics(registry).classDistribution[c]
                        = Cardinality({k \in DOMAIN GetAll(registry) :
                                         GetAll(registry)[k].class = c})
    BY DEF ClassesCounted
  <2> DEFINE s == registry.byClass[c]
  <2>1. c \in DOMAIN registry.byClass /\ Statistics(registry).classDistribution[c] = Len(s)
    BY DEF GetClasses, Statistics
  <2>2. ToSet(s) = {k \in DOMAIN instrs : instrs[k].class = c}
    BY <1>4, <1>6, <2>1
  <2>3. s \in Seq(1..Len(instrs)) /\ Distinct(s)
    BY <1>2, <2>1 DEF Indexed, Once
  <2> HIDE DEF s
  <2>4. Cardinality(ToSet(s)) = Len(s)
    BY <2>3, LenOfDistinct
  <2> QED
    BY <2>1, <2>2, <2>4 DEF GetAll, instrs
<1>12. NamesFound
  <2> SUFFICES ASSUME NEW i \in ToSet(instrs),
                      NEW found \in GetByMnemonic(registry, Upper(i.mnemonic))
               PROVE  /\ found # << >>
                      /\ \A k \in ToSet(found) : Upper(instrs[k].mnemonic) = Upper(i.mnemonic)
    BY DEF NamesFound, GetAll, instrs
  <2> DEFINE index == registry.byMnemonic
             name == Upper(i.mnemonic)
  <2>1. Upper(name) = name
    BY UpperTwice
  <2>2. i.mnemonic \in DOMAIN index
    BY <1>3, <1>4, <1>5
  <2>3. PICK x \in DOMAIN index : found = index[x] /\ Upper(x) = name
    <3>1. CASE name \in DOMAIN index
      BY <3>1, <2>1 DEF GetByMnemonic
    <3>2. CASE name \notin DOMAIN index
      <4> DEFINE spelt == {x \in DOMAIN index : Upper(x) = Upper(name)}
      <4>1. i.mnemonic \in spelt
        BY <2>1, <2>2
      <4>2. found \in {index[x] : x \in spelt}
        BY <3>2, <4>1 DEF GetByMnemonic
      <4> QED
        BY <4>2, <2>1
    <3> QED
      BY <3>1, <3>2
  <2>4. \A k \in ToSet(index[x]) : instrs[k].mnemonic = x
    BY <1>4, <1>5
  <2>5. index[x] # << >>
    BY <1>5
  <2> QED
    BY <2>3, <2>4, <2>5
<1> QED
  BY <1>8, <1>9, <1>10, <1>11, <1>12 DEF LookupsAgree

\* The indexes agree with the list of instructions whatever the files say and
\* however often a row is offered (Add of the registry), until Pass 2 rewrites
\* one: the lookups by mnemonic, the groups and the statistics; and at all times
\* an encoding is found by its ID and by no other.
THEOREM RegistryIsComplete == Spec => []RegistryComplete
<1> DEFINE Inv == ParserInv /\ RegistryInv /\ IndexInv
<1>1. Init => Inv
  BY ParserInit, RegistryInit, IndexInit
<1>2. Inv /\ [Next]_vars => Inv'
  BY InputsAssumption, ParserNext, RegistryNext, IndexNext
<1>3. Inv => RegistryComplete
  BY KeptAgree DEF RegistryComplete, RegistryInv, IndexInv
<1> HIDE DEF Inv
<1> QED
  BY <1>1, <1>2, <1>3, PTL DEF Spec
=============================================================================
