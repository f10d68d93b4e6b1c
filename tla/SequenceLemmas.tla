--------------------------- MODULE SequenceLemmas ---------------------------
(***************************************************************************)
(* What the proofs about several components need of numbers, recursion and *)
(* sequences: induction, stated about a set of naturals rather than a      *)
(* predicate; that a recurrence defines a function; loops over a sequence; *)
(* and sequences of whatever they hold.                                    *)
(***************************************************************************)
EXTENDS Integers, Sequences, SequencesExt, FiniteSets, WellFoundedInduction, FiniteSetTheorems,
        SequenceTheorems, TLAPS

----------------------------------------------------------------------------
(* Induction and recursion. *)

LEMMA Least ==
  ASSUME NEW T, T \subseteq Nat, T # {}
  PROVE  \E x \in T : \A y \in T : x <= y
<1> DEFINE R == { ss \in Nat \X Nat : ss[1] < ss[2] }
<1>1. IsWellFoundedOn(R, Nat)
  BY NatLessThanWellFounded DEF OpToRel
<1>2. \A x, y \in Nat : x < y => <<x, y>> \in R
  OBVIOUS
<1> HIDE DEF R
<1>3. PICK x \in T : \A y \in T : ~ (<<y, x>> \in R)
  BY <1>1, WFMin
<1>4. ASSUME NEW y \in T PROVE x <= y
  <2>1. x \in Nat /\ y \in Nat
    OBVIOUS
  <2>2. ~ (y < x)
    BY <1>2, <1>3, <2>1
  <2> QED
    BY <2>1, <2>2
<1> QED
  BY <1>4

\* A set of naturals that holds 0 and the successor of each member is all.
LEMMA Induct ==
  ASSUME NEW T, 0 \in T, \A n \in Nat : n \in T => n + 1 \in T
  PROVE  \A n \in Nat : n \in T
<1> SUFFICES ASSUME Nat \ T # {} PROVE FALSE
  OBVIOUS
<1>1. PICK x \in Nat \ T : \A y \in Nat \ T : x <= y
  BY Least
<1>2. x # 0 /\ x - 1 \in Nat /\ x - 1 \in T
  BY <1>1
<1> QED
  BY <1>1, <1>2

\* A start and a step define a function on the naturals.
Follows(r, a, step) == r[0] = a /\ \A n \in Nat : r[n + 1] = step[<<n, r[n]>>]

LEMMA Recursion ==
  ASSUME NEW S, NEW a \in S, NEW step \in [Nat \X S -> S]
  PROVE  \E r \in [Nat -> S] : Follows(r, a, step)
<1> DEFINE Upto(n, g) == g \in [0..n -> S] /\ g[0] = a
                         /\ \A i \in 0..(n - 1) : g[i + 1] = step[<<i, g[i]>>]
           T == {n \in Nat : \E g : Upto(n, g)}
<1>1. \A n \in Nat : n \in T
  <2>1. 0 \in T
    <3>1. Upto(0, [i \in 0..0 |-> a])
      OBVIOUS
    <3> QED
      BY <3>1
  <2>2. ASSUME NEW n \in Nat, n \in T PROVE n + 1 \in T
    <3>1. PICK g : Upto(n, g)
      BY <2>2
    <3> DEFINE h == [i \in 0..(n + 1) |-> IF i = n + 1 THEN step[<<n, g[n]>>] ELSE g[i]]
    <3>2. g[n] \in S
      BY <3>1
    <3>3. h \in [0..(n + 1) -> S] /\ h[0] = a
      BY <3>1, <3>2
    <3>4. ASSUME NEW i \in 0..n PROVE h[i + 1] = step[<<i, h[i]>>]
      <4>1. CASE i = n
        <5>1. h[n + 1] = step[<<n, g[n]>>] /\ h[n] = g[n]
          OBVIOUS
        <5> QED
          BY <4>1, <5>1
      <4>2. CASE i # n
        <5>1. i \in 0..(n - 1) /\ i + 1 \in 0..n
          BY <4>2
        <5> QED
          BY <5>1, <3>1
      <4> QED
        BY <4>1, <4>2
    <3> HIDE DEF h
    <3>5. \A i \in 0..((n + 1) - 1) : h[i + 1] = step[<<i, h[i]>>]
      <4>1. (n + 1) - 1 = n
        OBVIOUS
      <4> QED
        BY <3>4, <4>1
    <3>6. Upto(n + 1, h)
      BY <3>3, <3>5
    <3> QED
      BY <3>6
  <2> HIDE DEF T
  <2> QED
    BY <2>1, <2>2, Induct
<1>2. ASSUME NEW m \in Nat, NEW n \in Nat, m <= n, NEW g, NEW h, Upto(m, g), Upto(n, h)
      PROVE  \A i \in 0..m : g[i] = h[i]
  <2> DEFINE A == {i \in Nat : i <= m => g[i] = h[i]}
  <2>1. 0 \in A
    BY <1>2
  <2>2. ASSUME NEW i \in Nat, i \in A PROVE i + 1 \in A
    <3>1. CASE i + 1 <= m
      <4>1. i \in 0..(m - 1) /\ i \in 0..(n - 1) /\ g[i] = h[i]
        BY <1>2, <2>2, <3>1
      <4>2. g[i + 1] = step[<<i, g[i]>>] /\ h[i + 1] = step[<<i, h[i]>>]
        BY <1>2, <4>1
      <4> QED
        BY <4>1, <4>2
    <3> QED
      BY <3>1
  <2> HIDE DEF A
  <2>3. \A i \in Nat : i \in A
    BY <2>1, <2>2, Induct
  <2> QED
    BY <2>3 DEF A
<1> DEFINE G(n) == CHOOSE g : Upto(n, g)
           r == [n \in Nat |-> G(n)[n]]
<1>3. \A n \in Nat : Upto(n, G(n))
  BY <1>1
<1> HIDE DEF G, T
<1>4. r \in [Nat -> S] /\ r[0] = a
  BY <1>3
<1>5. ASSUME NEW n \in Nat PROVE r[n + 1] = step[<<n, r[n]>>]
  <2>1. Upto(n + 1, G(n + 1)) /\ Upto(n, G(n))
    BY <1>3
  <2> DEFINE g == G(n)
             h == G(n + 1)
  <2>2. \A i \in 0..n : g[i] = h[i]
    BY <1>2, <2>1
  <2>3. h[n + 1] = step[<<n, h[n]>>]
    BY <2>1
  <2>4. r[n + 1] = h[n + 1] /\ r[n] = g[n]
    OBVIOUS
  <2> QED
    BY <2>2, <2>3, <2>4
<1> QED
  BY <1>4, <1>5 DEF Follows

----------------------------------------------------------------------------
(* Loops over a sequence. *)

Iterates(g, n, a, step) == g[0] = a /\ \A k \in 1..n : g[k] = step[<<k, g[k - 1]>>]

LEMMA Iterated ==
  ASSUME NEW n \in Nat, NEW S, NEW a \in S, NEW step \in [(1..n) \X S -> S]
  PROVE  \E g \in [0..n -> S] : Iterates(g, n, a, step)
<1> DEFINE next == [p \in Nat \X S |-> IF p[1] < n THEN step[<<p[1] + 1, p[2]>>] ELSE p[2]]
<1>1. \A i \in Nat : i < n => i + 1 \in 1..n
  OBVIOUS
<1>2. ASSUME NEW i \in Nat, NEW x \in S
      PROVE  next[<<i, x>>] = IF i < n THEN step[<<i + 1, x>>] ELSE x
  OBVIOUS
<1>3. next \in [Nat \X S -> S]
  BY <1>1
<1> HIDE DEF next
<1>4. PICK r \in [Nat -> S] : Follows(r, a, next)
  BY <1>3, Recursion
<1>5. r[0] = a /\ \A i \in Nat : r[i + 1] = next[<<i, r[i]>>]
  BY <1>4 DEF Follows
<1> DEFINE g == [k \in 0..n |-> r[k]]
<1>6. g \in [0..n -> S]
  OBVIOUS
<1>7. ASSUME NEW k \in 1..n PROVE g[k] = step[<<k, g[k - 1]>>]
  <2>1. k - 1 \in Nat /\ k - 1 < n /\ (k - 1) + 1 = k /\ k - 1 \in 0..n /\ k \in 0..n
    OBVIOUS
  <2>2. r[k] = next[<<k - 1, r[k - 1]>>]
    BY <1>5, <2>1
  <2>3. r[k - 1] \in S
    BY <2>1
  <2>4. r[k] = step[<<k, r[k - 1]>>]
    BY <1>2, <2>1, <2>2, <2>3
  <2> QED
    BY <2>1, <2>4
<1>8. g[0] = a
  BY <1>5
<1> HIDE DEF g
<1> QED
  BY <1>6, <1>7, <1>8 DEF Iterates

\* What holds first and is kept by each round holds last.
LEMMA LoopKeeps ==
  ASSUME NEW n \in Nat, NEW S, NEW g, g[0] \in S,
         \A k \in 1..n : g[k - 1] \in S => g[k] \in S
  PROVE  g[n] \in S
<1> DEFINE T == {k \in Nat : k <= n => g[k] \in S}
<1>1. 0 \in T
  OBVIOUS
<1>2. ASSUME NEW k \in Nat, k \in T PROVE k + 1 \in T
  <2>1. k + 1 <= n => k + 1 \in 1..n /\ (k + 1) - 1 = k /\ k <= n
    OBVIOUS
  <2> QED
    BY <1>2, <2>1
<1> HIDE DEF T
<1>3. n \in T
  BY <1>1, <1>2, Induct
<1> QED
  BY <1>3 DEF T

----------------------------------------------------------------------------
(* Sequences of whatever they hold. *)

IsSeq(s) == s \in Seq(ToSet(s))

LEMMA SeqShape ==
  ASSUME NEW s, IsSeq(s)
  PROVE  /\ Len(s) \in Nat /\ DOMAIN s = 1..Len(s)
         /\ s = [k \in 1..Len(s) |-> s[k]]
         /\ s # << >> <=> Len(s) # 0
<1> DEFINE S == ToSet(s)
<1>1. s \in Seq(S)
  BY DEF IsSeq
<1> HIDE DEF S
<1>2. Len(s) \in Nat /\ DOMAIN s = 1..Len(s) /\ s \in [1..Len(s) -> S]
  BY <1>1, LenProperties
<1>3. s # << >> <=> Len(s) # 0
  BY <1>1, EmptySeq
<1> QED
  BY <1>2, <1>3

LEMMA SeqByShape ==
  ASSUME NEW s, NEW n \in Nat, s = [k \in 1..n |-> s[k]]
  PROVE  IsSeq(s) /\ Len(s) = n /\ DOMAIN s = 1..n
<1> DEFINE S == ToSet(s)
<1>1. DOMAIN s = 1..n
  OBVIOUS
<1>2. s \in [1..n -> S]
  BY <1>1 DEF ToSet
<1> HIDE DEF S
<1>3. s \in Seq(S)
  BY <1>2, SeqDef
<1>4. Len(s) = n
  BY <1>1, <1>3, LenProperties
<1> QED
  BY <1>1, <1>3, <1>4 DEF IsSeq, S

LEMMA MemberIsSeq ==
  ASSUME NEW S, NEW s \in Seq(S)
  PROVE  IsSeq(s)
<1>1. Len(s) \in Nat /\ s = [k \in 1..Len(s) |-> s[k]]
  BY LenProperties
<1> QED
  BY <1>1, SeqByShape

LEMMA EmptyIsSeq == IsSeq(<< >>) /\ Len(<< >>) = 0 /\ DOMAIN << >> = {}
<1>1. << >> = [k \in 1..0 |-> << >>[k]] /\ 1..0 = {}
  OBVIOUS
<1>2. IsSeq(<< >>) /\ Len(<< >>) = 0 /\ DOMAIN << >> = 1..0
  BY <1>1, 0 \in Nat, SeqByShape, Zenon
<1> QED
  BY <1>1, <1>2

LEMMA SeqAppend ==
  ASSUME NEW s, NEW e, IsSeq(s)
  PROVE  /\ IsSeq(Append(s, e)) /\ Len(Append(s, e)) = Len(s) + 1
         /\ DOMAIN Append(s, e) = 1..(Len(s) + 1)
         /\ \A k \in 1..Len(s) : Append(s, e)[k] = s[k]
         /\ Append(s, e)[Len(s) + 1] = e
         /\ Append(s, e) = [k \in 1..(Len(s) + 1) |-> IF k <= Len(s) THEN s[k] ELSE e]
<1> DEFINE S == ToSet(s) \cup {e}
           t == Append(s, e)
<1>1. s \in Seq(S)
  <2>1. s \in Seq(ToSet(s)) /\ ToSet(s) \subseteq S
    BY DEF IsSeq
  <2> HIDE DEF S
  <2> QED
    BY <2>1, SeqMonotonic
<1>2. e \in S
  OBVIOUS
<1> HIDE DEF S
<1>3. /\ t \in Seq(S) /\ Len(t) = Len(s) + 1
      /\ \A k \in 1..Len(s) : t[k] = s[k]
      /\ t[Len(s) + 1] = e
  BY <1>1, <1>2, AppendProperties
<1> HIDE DEF t
<1>4. Len(t) \in Nat /\ DOMAIN t = 1..Len(t) /\ t \in [1..Len(t) -> S]
  BY <1>3, LenProperties
<1>5. Len(s) \in Nat
  BY SeqShape
<1>6. t = [k \in 1..Len(t) |-> t[k]]
  BY <1>4
<1>7. IsSeq(t)
  BY <1>4, <1>6, SeqByShape
<1>8. t = [k \in 1..(Len(s) + 1) |-> IF k <= Len(s) THEN s[k] ELSE e]
  BY <1>3, <1>4, <1>5, <1>6
<1> QED
  BY <1>3, <1>4, <1>7, <1>8 DEF t

LEMMA SeqFront ==
  ASSUME NEW s, IsSeq(s), s # << >>
  PROVE  LET t == SubSeq(s, 1, Len(s) - 1)
         IN  /\ Len(s) - 1 \in Nat
             /\ IsSeq(t) /\ Len(t) = Len(s) - 1 /\ DOMAIN t = 1..(Len(s) - 1)
             /\ \A k \in 1..(Len(s) - 1) : t[k] = s[k]
             /\ t = [k \in 1..(Len(s) - 1) |-> s[k]]
<1>1. Len(s) \in Nat /\ Len(s) # 0 /\ DOMAIN s = 1..Len(s)
  BY SeqShape
<1> DEFINE n == Len(s) - 1
           t == SubSeq(s, 1, n)
           S == ToSet(s)
<1>2. n \in Nat /\ Len(s) = n + 1
  BY <1>1
<1>3. \A k \in 1..n : s[k] \in S
  BY <1>1, <1>2 DEF ToSet
<1> HIDE DEF S, n
<1>4. t \in Seq(S) /\ Len(t) = IF 1 <= n THEN n - 1 + 1 ELSE 0
  BY <1>2, <1>3, SubSeqProperties
<1>5. \A k \in 1..(n - 1 + 1) : t[k] = s[1 + k - 1]
  BY <1>2, <1>3, SubSeqProperties
<1> HIDE DEF t
<1>6. Len(t) = n /\ \A k \in 1..n : t[k] = s[k]
  BY <1>2, <1>4, <1>5
<1>7. DOMAIN t = 1..n /\ t \in [1..n -> S]
  BY <1>4, <1>6, LenProperties
<1>8. t = [k \in 1..n |-> t[k]] /\ t = [k \in 1..n |-> s[k]]
  BY <1>6, <1>7
<1>9. IsSeq(t)
  BY <1>2, <1>8, SeqByShape
<1> QED
  BY <1>2, <1>6, <1>7, <1>8, <1>9 DEF t, n

LEMMA SeqExcept ==
  ASSUME NEW s, NEW c, NEW e, IsSeq(s)
  PROVE  LET t == [s EXCEPT ![c] = e]
         IN  /\ IsSeq(t) /\ Len(t) = Len(s) /\ DOMAIN t = DOMAIN s
             /\ \A k \in DOMAIN s : t[k] = IF k = c THEN e ELSE s[k]
<1> DEFINE t == [s EXCEPT ![c] = e]
<1>1. Len(s) \in Nat /\ DOMAIN s = 1..Len(s)
  BY SeqShape
<1>2. DOMAIN t = DOMAIN s /\ \A k \in DOMAIN s : t[k] = IF k = c THEN e ELSE s[k]
  OBVIOUS
<1>3. t = [k \in 1..Len(s) |-> t[k]]
  BY <1>1, <1>2
<1> HIDE DEF t
<1>4. IsSeq(t) /\ Len(t) = Len(s)
  BY <1>1, <1>3, SeqByShape
<1> QED
  BY <1>2, <1>4 DEF t

LEMMA SeqConcat ==
  ASSUME NEW s, NEW t, IsSeq(s), IsSeq(t)
  PROVE  /\ IsSeq(s \o t) /\ Len(s \o t) = Len(s) + Len(t)
         /\ DOMAIN (s \o t) = 1..(Len(s) + Len(t))
         /\ \A k \in 1..Len(s) : (s \o t)[k] = s[k]
         /\ \A k \in 1..Len(t) : (s \o t)[Len(s) + k] = t[k]
<1> DEFINE S == ToSet(s) \cup ToSet(t)
           u == s \o t
<1>1. s \in Seq(S) /\ t \in Seq(S)
  <2>1. /\ s \in Seq(ToSet(s)) /\ ToSet(s) \subseteq S
        /\ t \in Seq(ToSet(t)) /\ ToSet(t) \subseteq S
    BY DEF IsSeq
  <2> HIDE DEF S
  <2> QED
    BY <2>1, SeqMonotonic
<1> HIDE DEF S
<1>2. /\ u \in Seq(S) /\ Len(u) = Len(s) + Len(t)
      /\ \A k \in 1..(Len(s) + Len(t)) : u[k] = IF k <= Len(s) THEN s[k] ELSE t[k - Len(s)]
  BY <1>1, ConcatProperties
<1>3. Len(s) \in Nat /\ Len(t) \in Nat
  BY SeqShape
<1> HIDE DEF u
<1>4. Len(u) \in Nat /\ u \in [1..Len(u) -> S] /\ DOMAIN u = 1..Len(u)
  BY <1>2, LenProperties
<1>5. u = [k \in 1..Len(u) |-> u[k]]
  BY <1>4
<1>6. IsSeq(u)
  BY <1>4, <1>5, SeqByShape
<1>7. \A k \in 1..Len(s) : u[k] = s[k]
  BY <1>2, <1>3
<1>8. ASSUME NEW k \in 1..Len(t) PROVE u[Len(s) + k] = t[k]
  <2>1. Len(s) + k \in 1..(Len(s) + Len(t)) /\ ~ (Len(s) + k <= Len(s)) /\ (Len(s) + k) - Len(s) = k
    BY <1>3
  <2> QED
    BY <1>2, <2>1
<1> QED
  BY <1>2, <1>4, <1>6, <1>7, <1>8 DEF u
=============================================================================
