-------------------------- MODULE ASLReaderProofs --------------------------
(***************************************************************************)
(* Proofs about the lexer and layout of ARM's specification language, for  *)
(* every text and every parser of instructions: what the parser is given   *)
(* are the tokens of the text in their order, in blocks that are closed.   *)
(***************************************************************************)
EXTENDS ASLReader, SequenceLemmas, TLAPS

----------------------------------------------------------------------------
(* Counting the tokens of some kinds. *)

LEMMA CountNat ==
  ASSUME NEW t, NEW K, NEW n \in Nat
  PROVE  CountOf(t, K, n) \in Nat /\ CountOf(t, K, 0) = 0
<1> DEFINE C(m) == {i \in 1..m : t[i].kind \in K}
<1>1. C(0) = {}
  OBVIOUS
<1>2. IsFiniteSet(1..n) /\ C(n) \subseteq 1..n
  BY FS_Interval
<1> HIDE DEF C
<1>3. Cardinality(C(n)) \in Nat /\ Cardinality(C(0)) = 0
  BY <1>1, <1>2, FS_Subset, FS_CardinalityType, FS_EmptySet
<1> QED
  BY <1>3 DEF CountOf, C

Counted(t, K, m) == IF t[m].kind \in K THEN 1 ELSE 0

LEMMA CountNext ==
  ASSUME NEW t, NEW K, NEW n \in Nat, NEW m, m = n + 1
  PROVE  CountOf(t, K, m) = CountOf(t, K, n) + Counted(t, K, m)
<1> DEFINE C(k) == {i \in 1..k : t[i].kind \in K}
<1>1. CASE t[m].kind \in K
  <2>1. C(m) = C(n) \cup {m} /\ m \notin C(n)
    BY <1>1
  <2>2. IsFiniteSet(1..n) /\ C(n) \subseteq 1..n
    BY FS_Interval
  <2> HIDE DEF C
  <2>3. IsFiniteSet(C(n))
    BY <2>2, FS_Subset
  <2>4. Cardinality(C(m)) = Cardinality(C(n)) + 1
    BY <2>1, <2>3, FS_AddElement
  <2>5. Counted(t, K, m) = 1
    BY <1>1 DEF Counted
  <2>6. CountOf(t, K, m) = Cardinality(C(m)) /\ CountOf(t, K, n) = Cardinality(C(n))
    BY DEF CountOf, C
  <2> QED
    BY <2>4, <2>5, <2>6
<1>2. CASE t[m].kind \notin K
  <2>1. C(m) = C(n)
    BY <1>2
  <2> HIDE DEF C
  <2>2. Counted(t, K, m) = 0
    BY <1>2 DEF Counted
  <2>3. CountOf(t, K, m) = CountOf(t, K, n)
    BY <2>1 DEF CountOf, C
  <2>4. CountOf(t, K, n) \in Nat
    BY CountNat
  <2> QED
    BY <2>2, <2>3, <2>4
<1> QED
  BY <1>1, <1>2

\* Tokens that agree up to a place count alike up to it.
LEMMA CountSame ==
  ASSUME NEW t, NEW u, NEW K, NEW n \in Nat, \A i \in 1..n : t[i] = u[i]
  PROVE  CountOf(t, K, n) = CountOf(u, K, n)
<1>1. {i \in 1..n : t[i].kind \in K} = {i \in 1..n : u[i].kind \in K}
  OBVIOUS
<1> QED
  BY <1>1 DEF CountOf

LEMMA CountConcat ==
  ASSUME NEW t, NEW u, NEW K, IsSeq(t), IsSeq(u)
  PROVE  /\ \A n \in 0..Len(t) : CountOf(t \o u, K, n) = CountOf(t, K, n)
         /\ \A k \in 0..Len(u) : CountOf(t \o u, K, Len(t) + k) = CountOf(t, K, Len(t)) + CountOf(u, K, k)
<1> DEFINE w == t \o u
           m == Len(t)
           T == {k \in Nat : k <= Len(u) => CountOf(w, K, m + k) = CountOf(t, K, m) + CountOf(u, K, k)}
<1>1. m \in Nat /\ Len(u) \in Nat
  BY SeqShape
<1>2. /\ \A i \in 1..m : w[i] = t[i]
      /\ \A i \in 1..Len(u) : w[m + i] = u[i]
  BY SeqConcat
<1> HIDE DEF w, m
<1>3. ASSUME NEW n \in 0..m PROVE CountOf(w, K, n) = CountOf(t, K, n)
  <2>1. n \in Nat /\ \A i \in 1..n : w[i] = t[i]
    BY <1>1, <1>2
  <2> QED
    BY <2>1, CountSame
<1>4. 0 \in T
  <2>1. CountOf(w, K, m) = CountOf(t, K, m) /\ CountOf(u, K, 0) = 0 /\ CountOf(t, K, m) \in Nat
    BY <1>1, <1>3, CountNat
  <2>2. m + 0 = m
    BY <1>1
  <2> QED
    BY <2>1, <2>2
<1>5. ASSUME NEW k \in Nat, k \in T PROVE k + 1 \in T
  <2> SUFFICES ASSUME k + 1 <= Len(u)
               PROVE  CountOf(w, K, m + (k + 1)) = CountOf(t, K, m) + CountOf(u, K, k + 1)
    OBVIOUS
  <2>1. k <= Len(u) /\ k + 1 \in 1..Len(u) /\ m + k \in Nat /\ m + (k + 1) = (m + k) + 1
    BY <1>1
  <2>2. w[(m + k) + 1] = u[k + 1]
    BY <1>2, <2>1
  <2>3. CountOf(w, K, m + (k + 1)) = CountOf(w, K, m + k) + Counted(w, K, m + (k + 1))
    BY <2>1, CountNext
  <2>4. CountOf(u, K, k + 1) = CountOf(u, K, k) + Counted(u, K, k + 1)
    BY CountNext
  <2>6. CountOf(u, K, k) \in Nat /\ CountOf(t, K, m) \in Nat
    BY <1>1, CountNat
  <2>7. Counted(w, K, m + (k + 1)) = Counted(u, K, k + 1) /\ Counted(u, K, k + 1) \in Nat
    BY <2>1, <2>2 DEF Counted
  <2>5. CountOf(w, K, m + k) = CountOf(t, K, m) + CountOf(u, K, k)
    BY <1>5, <2>1
  <2> QED
    BY <2>3, <2>4, <2>5, <2>6, <2>7
<1> HIDE DEF T
<1>6. \A k \in Nat : k \in T
  BY <1>4, <1>5, Induct
<1>7. \A k \in 0..Len(u) : CountOf(w, K, m + k) = CountOf(t, K, m) + CountOf(u, K, k)
  BY <1>1, <1>6 DEF T
<1> QED
  BY <1>3, <1>7 DEF w, m

\* A run of marks.
LEMMA CopiesCount ==
  ASSUME NEW x, NEW n \in Nat
  PROVE  /\ IsSeq(Copies(x, n)) /\ Len(Copies(x, n)) = n
         /\ \A k \in 1..n : Copies(x, n)[k] = x
         /\ \A K : \A k \in 0..n : CountOf(Copies(x, n), K, k) = (IF x.kind \in K THEN k ELSE 0)
<1> DEFINE t == Copies(x, n)
<1>1. t = [k \in 1..n |-> t[k]] /\ \A k \in 1..n : t[k] = x
  BY DEF Copies
<1> HIDE DEF t
<1>2. IsSeq(t) /\ Len(t) = n
  BY <1>1, SeqByShape
<1>3. ASSUME NEW K PROVE \A k \in 0..n : CountOf(t, K, k) = (IF x.kind \in K THEN k ELSE 0)
  <2> DEFINE T == {k \in Nat : k <= n => CountOf(t, K, k) = (IF x.kind \in K THEN k ELSE 0)}
  <2>1. 0 \in T
    <3>1. CountOf(t, K, 0) = 0
      BY CountNat
    <3> QED
      BY <3>1
  <2>2. ASSUME NEW k \in Nat, k \in T PROVE k + 1 \in T
    <3> SUFFICES ASSUME k + 1 <= n
                 PROVE  CountOf(t, K, k + 1) = (IF x.kind \in K THEN k + 1 ELSE 0)
      OBVIOUS
    <3>1. k <= n /\ k + 1 \in 1..n /\ t[k + 1] = x
      BY <1>1
    <3>2. CountOf(t, K, k) = (IF x.kind \in K THEN k ELSE 0)
      BY <2>2, <3>1
    <3>3. CountOf(t, K, k + 1) = CountOf(t, K, k) + Counted(t, K, k + 1)
      BY CountNext
    <3> QED
      BY <3>1, <3>2, <3>3 DEF Counted
  <2> HIDE DEF T
  <2>3. \A k \in Nat : k \in T
    BY <2>1, <2>2, Induct
  <2> QED
    BY <2>3 DEF T
<1> QED
  BY <1>1, <1>2, <1>3 DEF t

LEMMA OneCopy == \A x : << x >> = Copies(x, 1)
  BY DEF Copies

LEMMA NoCopies == \A x : << >> = Copies(x, 0)
  BY DEF Copies

----------------------------------------------------------------------------
(* What layout keeps of the tokens it has written, t: no block closes that *)
(* is not open, `open' of them are open; t holds the first k of words, in  *)
(* their order, and marks.                                                 *)

Nested(t, open) ==
  /\ IsSeq(t)
  /\ \A n \in 0..Len(t) : CountOf(t, {"DEDENT"}, n) <= CountOf(t, {"INDENT"}, n)
  /\ CountOf(t, {"INDENT"}, Len(t)) = CountOf(t, {"DEDENT"}, Len(t)) + open

HoldsWords(t, words, k) ==
  /\ CountOf(t, LexemeKind, Len(t)) = k
  /\ \A i \in 1..Len(t) : t[i].kind \in LexemeKind => t[i] = words[CountOf(t, LexemeKind, i)]

NoEnd(t) == \A i \in 1..Len(t) : t[i].kind # "EOF"

\* Marks open blocks, close open ones, or do neither.
Moves(kind, c, open, after) ==
  \/ kind = "INDENT" /\ after = open + c
  \/ kind = "DEDENT" /\ open = after + c
  \/ kind \notin {"INDENT", "DEDENT"} /\ after = open

LEMMA MarksNest ==
  ASSUME NEW t, NEW open \in Nat, Nested(t, open), NEW x, NEW c \in Nat, NEW after \in Nat,
         Moves(x.kind, c, open, after)
  PROVE  Nested(t \o Copies(x, c), after)
<1> DEFINE u == Copies(x, c)
           w == t \o u
           m == Len(t)
           I(s, n) == CountOf(s, {"INDENT"}, n)
           D(s, n) == CountOf(s, {"DEDENT"}, n)
<1>1. IsSeq(t) /\ m \in Nat
  BY SeqShape DEF Nested
<1>2. IsSeq(u) /\ Len(u) = c /\ \A K : \A k \in 0..c : CountOf(u, K, k) = (IF x.kind \in K THEN k ELSE 0)
  BY CopiesCount
<1> HIDE DEF u
<1>3. IsSeq(w) /\ Len(w) = m + c
  BY <1>1, <1>2, SeqConcat
<1>4. /\ \A n \in 0..m : I(w, n) = I(t, n) /\ D(w, n) = D(t, n)
      /\ \A k \in 0..c : I(w, m + k) = I(t, m) + I(u, k) /\ D(w, m + k) = D(t, m) + D(u, k)
  <2>1. ASSUME NEW K
        PROVE  /\ \A n \in 0..Len(t) : CountOf(t \o u, K, n) = CountOf(t, K, n)
               /\ \A k \in 0..Len(u) : CountOf(t \o u, K, Len(t) + k) = CountOf(t, K, Len(t)) + CountOf(u, K, k)
    BY <1>1, <1>2, CountConcat
  <2> QED
    BY <2>1, <1>2
<1>5. /\ \A k \in 0..c : I(u, k) = (IF x.kind = "INDENT" THEN k ELSE 0)
      /\ \A k \in 0..c : D(u, k) = (IF x.kind = "DEDENT" THEN k ELSE 0)
  <2>1. (x.kind \in {"INDENT"} <=> x.kind = "INDENT") /\ (x.kind \in {"DEDENT"} <=> x.kind = "DEDENT")
    OBVIOUS
  <2> QED
    BY <1>2, <2>1
<1>6. I(t, m) \in Nat /\ D(t, m) \in Nat /\ I(t, m) = D(t, m) + open
      /\ \A n \in 0..m : D(t, n) <= I(t, n)
  BY <1>1, CountNat DEF Nested
<1> HIDE DEF I, D, w, m
<1>7. ASSUME NEW k \in 0..c PROVE D(w, m + k) <= I(w, m + k)
  <2>1. /\ I(w, m + k) = I(t, m) + (IF x.kind = "INDENT" THEN k ELSE 0)
        /\ D(w, m + k) = D(t, m) + (IF x.kind = "DEDENT" THEN k ELSE 0)
    BY <1>4, <1>5
  <2>2. x.kind = "DEDENT" => k <= open
    BY DEF Moves
  <2> QED
    BY <2>1, <2>2, <1>6
<1>8. ASSUME NEW n \in 0..(m + c) PROVE D(w, n) <= I(w, n)
  <2>1. CASE n \in 0..m
    BY <2>1, <1>4, <1>6
  <2>2. CASE n \notin 0..m
    <3>1. n - m \in 0..c /\ m + (n - m) = n
      BY <2>2, <1>1
    <3> QED
      BY <3>1, <1>7
  <2> QED
    BY <2>1, <2>2
<1>9. I(w, m + c) = D(w, m + c) + after
  <2>1. c \in 0..c
    OBVIOUS
  <2>2. /\ I(w, m + c) = I(t, m) + (IF x.kind = "INDENT" THEN c ELSE 0)
        /\ D(w, m + c) = D(t, m) + (IF x.kind = "DEDENT" THEN c ELSE 0)
    BY <1>4, <1>5, <2>1
  <2> QED
    BY <2>2, <1>6 DEF Moves
<1> QED
  BY <1>3, <1>8, <1>9 DEF Nested, I, D, w, u

LEMMA MarksHold ==
  ASSUME NEW t, NEW words, NEW k \in Nat, IsSeq(t), HoldsWords(t, words, k),
         NEW x, x.kind \notin LexemeKind, NEW c \in Nat
  PROVE  HoldsWords(t \o Copies(x, c), words, k)
<1> DEFINE u == Copies(x, c)
           w == t \o u
           m == Len(t)
           N(s, n) == CountOf(s, LexemeKind, n)
<1>1. m \in Nat
  BY SeqShape
<1>2. IsSeq(u) /\ Len(u) = c /\ (\A i \in 1..c : u[i] = x) /\ \A i \in 0..c : N(u, i) = 0
  BY CopiesCount
<1> HIDE DEF u
<1>3. /\ Len(w) = m + c
      /\ \A i \in 1..m : w[i] = t[i]
      /\ \A i \in 1..c : w[m + i] = x
  BY <1>2, SeqConcat
<1>4. /\ \A n \in 0..m : N(w, n) = N(t, n)
      /\ \A i \in 0..c : N(w, m + i) = N(t, m)
  <2>1. N(t, m) \in Nat
    BY <1>1, CountNat
  <2>2. ASSUME NEW K
        PROVE  /\ \A n \in 0..Len(t) : CountOf(t \o u, K, n) = CountOf(t, K, n)
               /\ \A i \in 0..Len(u) : CountOf(t \o u, K, Len(t) + i) = CountOf(t, K, Len(t)) + CountOf(u, K, i)
    BY <1>2, CountConcat
  <2>3. /\ \A n \in 0..m : N(w, n) = N(t, n)
        /\ \A i \in 0..Len(u) : N(w, m + i) = N(t, m) + N(u, i)
    BY <2>2
  <2> HIDE DEF N, w, m
  <2> QED
    BY <2>1, <2>3, <1>2
<1>5. N(t, m) = k /\ \A i \in 1..m : t[i].kind \in LexemeKind => t[i] = words[N(t, i)]
  BY DEF HoldsWords
<1> HIDE DEF N, w, m
<1>6. N(w, m + c) = k
  BY <1>4, <1>5
<1>7. ASSUME NEW i \in 1..(m + c), w[i].kind \in LexemeKind PROVE w[i] = words[N(w, i)]
  <2>1. i \in 1..m
    <3>1. CASE i > m
      <4>1. i - m \in 1..c /\ m + (i - m) = i
        BY <3>1, <1>1
      <4> QED
        BY <4>1, <1>3, <1>7
    <3> QED
      BY <3>1, <1>1
  <2>2. i \in 0..m
    BY <2>1, <1>1
  <2> QED
    BY <2>1, <2>2, <1>3, <1>4, <1>5, <1>7
<1> QED
  BY <1>3, <1>6, <1>7 DEF HoldsWords, N, w, u

IsNext(x, words, k) == x.kind \in LexemeKind /\ x = words[k + 1]

LEMMA WordHolds ==
  ASSUME NEW t, NEW words, NEW k \in Nat, IsSeq(t), HoldsWords(t, words, k),
         NEW x, IsNext(x, words, k), NEW c \in Nat, c \in {1}
  PROVE  HoldsWords(t \o Copies(x, c), words, k + 1)
<1> DEFINE u == Copies(x, c)
           w == t \o u
           m == Len(t)
           N(s, n) == CountOf(s, LexemeKind, n)
<1>1. m \in Nat
  BY SeqShape
<1>2. /\ IsSeq(u) /\ Len(u) = c /\ (\A i \in 1..c : u[i] = x)
      /\ \A i \in 0..c : N(u, i) = (IF x.kind \in LexemeKind THEN i ELSE 0)
  BY CopiesCount
<1>10. IsSeq(u)
  BY <1>2
<1> HIDE DEF u
<1>3. /\ Len(w) = m + c
      /\ \A i \in 1..m : w[i] = t[i]
      /\ \A i \in 1..c : w[m + i] = x
  <2>1. /\ Len(w) = m + Len(u)
        /\ \A i \in 1..m : w[i] = t[i]
        /\ \A i \in 1..Len(u) : w[m + i] = u[i]
    BY <1>10, SeqConcat
  <2> HIDE DEF w, m
  <2> QED
    BY <2>1, <1>2
<1>4. /\ \A n \in 0..m : N(w, n) = N(t, n)
      /\ N(w, m + 1) = N(t, m) + 1
  <2>1. ASSUME NEW K
        PROVE  /\ \A n \in 0..Len(t) : CountOf(t \o u, K, n) = CountOf(t, K, n)
               /\ \A i \in 0..Len(u) : CountOf(t \o u, K, Len(t) + i) = CountOf(t, K, Len(t)) + CountOf(u, K, i)
    BY <1>10, CountConcat
  <2>2. /\ \A n \in 0..m : N(w, n) = N(t, n)
        /\ \A i \in 0..c : N(w, m + i) = N(t, m) + N(u, i)
    BY <2>1, <1>2
  <2>3. x.kind \in LexemeKind
    BY DEF IsNext
  <2> HIDE DEF N, w, m
  <2>4. c \in 0..c /\ N(u, c) = 1
    BY <2>3, <1>2
  <2> QED
    BY <2>2, <2>4
<1>5. N(t, m) = k /\ \A i \in 1..m : t[i].kind \in LexemeKind => t[i] = words[N(t, i)]
  BY DEF HoldsWords
<1> HIDE DEF N, w, m
<1>6. N(w, m + 1) = k + 1
  BY <1>4, <1>5
<1>7. ASSUME NEW i \in 1..(m + 1), w[i].kind \in LexemeKind PROVE w[i] = words[N(w, i)]
  <2>1. CASE i = m + 1
    <3>1. w[m + 1] = x
      BY <1>3
    <3> QED
      BY <2>1, <3>1, <1>6 DEF IsNext
  <2>2. CASE i \in 1..m
    <3>1. i \in 0..m
      BY <2>2, <1>1
    <3> QED
      BY <2>2, <3>1, <1>3, <1>4, <1>5, <1>7
  <2> QED
    BY <2>1, <2>2, <1>1
<1> QED
  BY <1>3, <1>6, <1>7 DEF HoldsWords, N, w, u

LEMMA NoEndAfter ==
  ASSUME NEW t, IsSeq(t), NoEnd(t), NEW x, x.kind # "EOF", NEW c \in Nat
  PROVE  NoEnd(t \o Copies(x, c))
<1> DEFINE u == Copies(x, c)
           w == t \o u
           m == Len(t)
<1>1. m \in Nat
  BY SeqShape
<1>2. IsSeq(u) /\ Len(u) = c /\ \A i \in 1..c : u[i] = x
  BY CopiesCount
<1> HIDE DEF u
<1>3. /\ Len(w) = m + c
      /\ \A i \in 1..m : w[i] = t[i]
      /\ \A i \in 1..c : w[m + i] = x
  BY <1>2, SeqConcat
<1> HIDE DEF w, m
<1>4. ASSUME NEW i \in 1..(m + c) PROVE w[i].kind # "EOF"
  <2>1. CASE i \in 1..m
    BY <2>1, <1>3 DEF NoEnd, m
  <2>2. CASE i \notin 1..m
    <3>1. i - m \in 1..c /\ m + (i - m) = i
      BY <2>2, <1>1
    <3> QED
      BY <3>1, <1>3
  <2> QED
    BY <2>1, <2>2
<1> QED
  BY <1>3, <1>4 DEF NoEnd, w, u

----------------------------------------------------------------------------
(* One token is placed. *)

\* After the first k words.
Columns(indents) == IsSeq(indents) /\ Len(indents) \in Nat \ {0}
LaidOut(s, words, k) ==
  /\ Columns(s.indents)
  /\ Nested(s.out, Len(s.indents) - 1)
  /\ HoldsWords(s.out, words, k)
  /\ NoEnd(s.out)

\* The blocks a token closes are open ones.
LEMMA ClosedBound ==
  ASSUME NEW indents, Columns(indents), NEW col
  PROVE  Closed(indents, col) \in Nat /\ Closed(indents, col) <= Len(indents) - 1
<1> DEFINE n == Len(indents)
           C == {i \in 2..n : col < indents[i]}
<1>1. n \in Nat /\ n # 0
  BY DEF Columns
<1>2. C \subseteq 2..n
  OBVIOUS
<1> HIDE DEF n, C
<1>3. IsFiniteSet(2..n) /\ Cardinality(2..n) = n - 1
  BY <1>1, FS_Interval
<1>4. Cardinality(C) \in Nat /\ Cardinality(C) <= n - 1
  BY <1>2, <1>3, FS_Subset, FS_CardinalityType
<1> QED
  BY <1>4 DEF Closed, n, C

\* The innermost blocks closed.
LEMMA ColumnsLeft ==
  ASSUME NEW indents, Columns(indents), NEW c \in Nat, c <= Len(indents) - 1
  PROVE  LET left == SubSeq(indents, 1, Len(indents) - c)
         IN  Columns(left) /\ Len(left) = Len(indents) - c
<1> DEFINE n == Len(indents) - c
           left == SubSeq(indents, 1, n)
           S == ToSet(indents)
<1>1. /\ Len(indents) \in Nat /\ DOMAIN indents = 1..Len(indents)
      /\ n \in Nat /\ n # 0 /\ n <= Len(indents)
  BY SeqShape DEF Columns
<1>2. \A i \in 1..n : indents[i] \in S
  <2> HIDE DEF S, n
  <2>1. 1..n \subseteq DOMAIN indents
    BY <1>1
  <2>2. \A i \in DOMAIN indents : indents[i] \in S
    BY DEF ToSet, S
  <2> QED
    BY <2>1, <2>2
<1> HIDE DEF S, n
<1>3. left \in Seq(S) /\ Len(left) = IF 1 <= n THEN n - 1 + 1 ELSE 0
  BY <1>1, <1>2, SubSeqProperties
<1> HIDE DEF left
<1>4. Len(left) = n
  BY <1>1, <1>3
<1>5. left \in [1..Len(left) -> S] /\ Len(left) \in Nat
  BY <1>3, LenProperties
<1>6. IsSeq(left)
  <2>1. left = [i \in 1..Len(left) |-> left[i]]
    BY <1>5
  <2> QED
    BY <2>1, <1>5, SeqByShape
<1> QED
  BY <1>1, <1>4, <1>6 DEF Columns, left, n

\* The marks before a token, the blocks then open, and the columns of them.
Marked(marks, m, c, open, after) ==
  /\ m.kind \in {"INDENT", "DEDENT"} /\ c \in Nat /\ marks = Copies(m, c)
  /\ Moves(m.kind, c, open, after)

LEMMA PlacedKeeps ==
  ASSUME NEW s, NEW words, NEW k \in Nat, LaidOut(s, words, k), NEW x, IsNext(x, words, k)
  PROVE  LaidOut(Placed(s, x), words, k + 1)
<1> DEFINE top == Last(s.indents)
           closed == Closed(s.indents, x.col)
           left == SubSeq(s.indents, 1, Len(s.indents) - closed)
           starts == x.line # s.prev /\ s.nest = 0
           marks == IF ~starts THEN <<>>
                    ELSE IF x.col > top THEN << Token("INDENT", "", x) >>
                    ELSE Copies(Token("DEDENT", "", x), closed)
           indents == IF ~starts THEN s.indents
                      ELSE IF x.col > top THEN Append(s.indents, x.col) ELSE left
           open == Len(s.indents) - 1
<1>1. /\ Placed(s, x).out = s.out \o marks \o << x >>
      /\ Placed(s, x).indents = indents
  BY DEF Placed
<1>2. /\ Columns(s.indents) /\ Nested(s.out, open) /\ HoldsWords(s.out, words, k) /\ NoEnd(s.out)
      /\ IsSeq(s.out)
  BY DEF LaidOut, Nested
<1>3. open \in Nat /\ Len(s.indents) \in Nat
  BY <1>2 DEF Columns
<1>4. Columns(indents) /\ \E m, c : Marked(marks, m, c, open, Len(indents) - 1)
  <2>1. CASE ~starts
    <3> DEFINE m == Token("DEDENT", "", x)
    <3>1. marks = Copies(m, 0) /\ m.kind = "DEDENT" /\ 0 \in Nat
      BY <2>1, NoCopies DEF Token
    <3>2. indents = s.indents
      BY <2>1
    <3> HIDE DEF marks, m, indents, open
    <3>3. Marked(marks, m, 0, open, Len(indents) - 1)
      BY <3>1, <3>2, <1>3 DEF Marked, Moves, open
    <3> QED
      BY <3>2, <3>3, <1>2
  <2>2. CASE starts /\ x.col > top
    <3> DEFINE m == Token("INDENT", "", x)
    <3>1. marks = Copies(m, 1) /\ m.kind = "INDENT" /\ 1 \in Nat
      BY <2>2, OneCopy DEF Token
    <3>2. indents = Append(s.indents, x.col)
      BY <2>2
    <3> HIDE DEF marks, m, indents
    <3>3. IsSeq(indents) /\ Len(indents) = Len(s.indents) + 1
      <4>1. IsSeq(s.indents)
        BY <1>2 DEF Columns
      <4>2. IsSeq(Append(s.indents, x.col)) /\ Len(Append(s.indents, x.col)) = Len(s.indents) + 1
        BY <4>1, SeqAppend
      <4> QED
        BY <3>2, <4>2
    <3>4. Marked(marks, m, 1, open, Len(indents) - 1)
      BY <3>1, <3>3, <1>3 DEF Marked, Moves
    <3> QED
      BY <3>3, <3>4, <1>3 DEF Columns
  <2>3. CASE starts /\ ~(x.col > top)
    <3> DEFINE m == Token("DEDENT", "", x)
    <3>1. marks = Copies(m, closed) /\ m.kind = "DEDENT"
      BY <2>3 DEF Token
    <3>2. indents = left
      BY <2>3
    <3>3. closed \in Nat /\ closed <= Len(s.indents) - 1
      BY <1>2, ClosedBound
    <3> HIDE DEF closed
    <3>4. Columns(left) /\ Len(left) = Len(s.indents) - closed
      BY <1>2, <3>3, ColumnsLeft
    <3> HIDE DEF marks, m, indents, left
    <3>5. Marked(marks, m, closed, open, Len(indents) - 1)
      BY <3>1, <3>2, <3>3, <3>4, <1>3 DEF Marked, Moves
    <3> QED
      BY <3>2, <3>4, <3>5
  <2> HIDE DEF marks, indents, open, starts, top
  <2> QED
    BY <2>1, <2>2, <2>3
<1> HIDE DEF marks, indents, open
<1>5. PICK m, c : Marked(marks, m, c, open, Len(indents) - 1)
  BY <1>4
<1>6. /\ m.kind \in {"INDENT", "DEDENT"} /\ c \in Nat /\ marks = Copies(m, c)
      /\ Moves(m.kind, c, open, Len(indents) - 1)
  BY <1>5 DEF Marked
<1> DEFINE after == Len(indents) - 1
           mid == s.out \o Copies(m, c)
           end == mid \o Copies(x, 1)
<1>7. after \in Nat
  BY <1>4 DEF Columns
<1>8. m.kind \notin LexemeKind /\ m.kind # "EOF"
  BY <1>6 DEF LexemeKind
<1> HIDE DEF after
<1>9. Moves(m.kind, c, open, after)
  BY <1>6 DEF after
<1>10. Nested(mid, after) /\ HoldsWords(mid, words, k) /\ NoEnd(mid)
  <2>1. Nested(mid, after)
    BY <1>2, <1>3, <1>6, <1>7, <1>9, MarksNest
  <2>2. HoldsWords(mid, words, k)
    BY <1>2, <1>6, <1>8, MarksHold
  <2>3. NoEnd(mid)
    BY <1>2, <1>6, <1>8, NoEndAfter
  <2> QED
    BY <2>1, <2>2, <2>3
<1> HIDE DEF mid
<1>11. IsSeq(mid)
  BY <1>10 DEF Nested
<1>12. x.kind \in LexemeKind /\ x.kind \notin {"INDENT", "DEDENT"} /\ x.kind # "EOF"
  BY DEF IsNext, LexemeKind
<1>13. 1 \in Nat /\ 1 \in {1}
  OBVIOUS
<1>14. Nested(end, after)
  <2>1. Moves(x.kind, 1, after, after)
    BY <1>12 DEF Moves
  <2> QED
    BY <2>1, <1>7, <1>10, <1>13, MarksNest
<1>15. HoldsWords(end, words, k + 1)
  BY <1>10, <1>11, <1>13, WordHolds
<1>16. NoEnd(end)
  BY <1>10, <1>11, <1>12, <1>13, NoEndAfter
<1>17. Placed(s, x).out = end
  BY <1>1, <1>6, OneCopy DEF mid
<1> HIDE DEF end
<1> QED
  BY <1>1, <1>4, <1>14, <1>15, <1>16, <1>17 DEF LaidOut, after

----------------------------------------------------------------------------
(* All the tokens are placed, and the blocks still open closed. *)

Rounds(after, words) ==
  /\ after[0] = LayoutStart
  /\ \A k \in 1..Len(words) : after[k] = Placed(after[k - 1], words[k])

LEMMA PlacedInTurn ==
  ASSUME NEW words, IsSeq(words)
  PROVE  \E after : Rounds(after, words) /\ AllPlaced(words) = after[Len(words)]
<1> DEFINE n == Len(words)
           Def(m, g) == g = [k \in 0..m |-> IF k = 0 THEN LayoutStart ELSE Placed(g[k - 1], words[k])]
           after == CHOOSE g : Def(n, g)
           T == {m \in Nat : \E g : Def(m, g)}
<1>1. n \in Nat
  BY SeqShape
<1>2. AllPlaced(words) = after[n]
  BY DEF AllPlaced
<1> HIDE DEF n
<1>3. 0 \in T
  <2>1. Def(0, [k \in 0..0 |-> LayoutStart])
    OBVIOUS
  <2> QED
    BY <2>1, Zenon
<1>4. ASSUME NEW m \in Nat, m \in T PROVE m + 1 \in T
  <2>1. PICK g : Def(m, g)
    BY <1>4
  <2> DEFINE F(h, k) == IF k = 0 THEN LayoutStart ELSE Placed(h[k - 1], words[k])
             h == [k \in 0..(m + 1) |-> IF k <= m THEN g[k] ELSE F(g, k)]
  <2>2. \A k \in 0..m : g[k] = F(g, k)
    BY <2>1
  <2>3. ASSUME NEW k \in 0..(m + 1) PROVE h[k] = F(h, k)
    <3>1. h[k] = F(g, k)
      BY <2>2
    <3>2. k = 0 \/ (k - 1 \in 0..(m + 1) /\ k - 1 <= m)
      OBVIOUS
    <3>3. k = 0 \/ h[k - 1] = g[k - 1]
      BY <3>2
    <3> QED
      BY <3>1, <3>3
  <2>4. h = [k \in 0..(m + 1) |-> h[k]]
    OBVIOUS
  <2> HIDE DEF h
  <2>5. Def(m + 1, h)
    BY <2>3, <2>4
  <2>6. \E f : Def(m + 1, f)
    BY <2>5, Zenon
  <2> HIDE DEF Def
  <2> QED
    BY <2>6
<1> HIDE DEF T
<1>5. n \in T
  BY <1>1, <1>3, <1>4, Induct
<1>6. Def(n, after)
  <2>1. \E g : Def(n, g)
    BY <1>5 DEF T
  <2> HIDE DEF Def
  <2> QED
    BY <2>1
<1> HIDE DEF after
<1>7. after[0] = LayoutStart /\ \A k \in 1..n : after[k] = Placed(after[k - 1], words[k])
  BY <1>1, <1>6
<1> HIDE DEF Def
<1> QED
  BY <1>2, <1>7 DEF Rounds, n

Words(words) == IsSeq(words) /\ \A k \in DOMAIN words : words[k].kind \in LexemeKind

LEMMA StartLaidOut ==
  ASSUME NEW words
  PROVE  LaidOut(LayoutStart, words, 0)
<1>1. LayoutStart.out = << >> /\ LayoutStart.indents = << 0 >>
  BY DEF LayoutStart
<1>2. IsSeq(<< 0 >>) /\ Len(<< 0 >>) = 1
  <2>1. << 0 >> = [k \in 1..1 |-> << 0 >>[k]] /\ 1 \in Nat
    OBVIOUS
  <2> QED
    BY <2>1, SeqByShape, Zenon
<1>3. IsSeq(<< >>) /\ Len(<< >>) = 0
  BY EmptyIsSeq
<1>4. \A K : CountOf(<< >>, K, 0) = 0
  BY CountNat
<1>5. Nested(<< >>, 0)
  BY <1>3, <1>4 DEF Nested
<1>6. HoldsWords(<< >>, words, 0) /\ NoEnd(<< >>)
  BY <1>3, <1>4 DEF HoldsWords, NoEnd
<1>7. Columns(<< 0 >>) /\ Len(<< 0 >>) - 1 = 0
  BY <1>2 DEF Columns
<1> QED
  BY <1>1, <1>5, <1>6, <1>7 DEF LaidOut

LEMMA AllLaidOut ==
  ASSUME NEW words, Words(words)
  PROVE  LaidOut(AllPlaced(words), words, Len(words))
<1> DEFINE n == Len(words)
<1>1. n \in Nat /\ DOMAIN words = 1..n /\ \A k \in 1..n : words[k].kind \in LexemeKind
  BY SeqShape DEF Words
<1>2. PICK after : Rounds(after, words) /\ AllPlaced(words) = after[n]
  BY PlacedInTurn DEF Words
<1> DEFINE U == {k \in Nat : k <= n => LaidOut(after[k], words, k)}
<1>3. after[0] = LayoutStart /\ \A k \in 1..n : after[k] = Placed(after[k - 1], words[k])
  BY <1>2 DEF Rounds
<1> HIDE DEF n
<1>4. 0 \in U
  BY <1>3, StartLaidOut
<1>5. ASSUME NEW k \in Nat, k \in U PROVE k + 1 \in U
  <2> SUFFICES ASSUME k + 1 <= n PROVE LaidOut(after[k + 1], words, k + 1)
    OBVIOUS
  <2>1. k <= n /\ k + 1 \in 1..n /\ (k + 1) - 1 = k
    BY <1>1
  <2>2. LaidOut(after[k], words, k) /\ after[k + 1] = Placed(after[k], words[k + 1])
    BY <1>3, <1>5, <2>1
  <2>3. IsNext(words[k + 1], words, k)
    BY <1>1, <2>1 DEF IsNext
  <2>4. LaidOut(Placed(after[k], words[k + 1]), words, k + 1)
    BY <2>2, <2>3, PlacedKeeps
  <2> QED
    BY <2>2, <2>4
<1> HIDE DEF U
<1>6. \A k \in Nat : k \in U
  BY <1>4, <1>5, Induct
<1>7. LaidOut(after[n], words, n)
  BY <1>1, <1>6 DEF U
<1> QED
  BY <1>2, <1>7 DEF n

----------------------------------------------------------------------------
(* What layout promises of any tokens that hold no marks. *)

\* The laid out tokens t: their blocks are closed, one EOF ends them, and they
\* hold the words.
WellLaid(t, words) ==
  /\ IsSeq(t) /\ Balanced(t)
  /\ \A i \in DOMAIN t : t[i].kind = "EOF" <=> i = Len(t)
  /\ HoldsWords(t, words, Len(words))

LEMMA LayoutHolds ==
  ASSUME NEW words, Words(words)
  PROVE  WellLaid(Layout(words).tokens, words)
<1> DEFINE s == AllPlaced(words)
           eof == Token("EOF", "", [line |-> s.prev + 1, col |-> 0])
           m == [eof EXCEPT !.kind = "DEDENT"]
           c == Len(s.indents) - 1
           n == Len(words)
           mid == s.out \o Copies(m, c)
           end == mid \o Copies(eof, 1)
<1>1. Layout(words).tokens = end
  <2>1. Layout(words).tokens = mid \o << eof >>
    BY DEF Layout
  <2> QED
    BY <2>1, OneCopy
<1>2. m.kind = "DEDENT" /\ eof.kind = "EOF"
  BY DEF Token
<1> HIDE DEF s, eof, m
<1>3. LaidOut(s, words, n) /\ n \in Nat
  BY AllLaidOut, SeqShape DEF Words, s
<1>4. c \in Nat /\ Nested(s.out, c) /\ HoldsWords(s.out, words, n) /\ NoEnd(s.out) /\ IsSeq(s.out)
  BY <1>3 DEF LaidOut, Columns, Nested
<1> HIDE DEF c, n
<1>5. 0 \in Nat /\ 1 \in Nat
  OBVIOUS
<1>6. m.kind \notin LexemeKind /\ eof.kind \notin LexemeKind /\ m.kind # "EOF"
  BY <1>2 DEF LexemeKind
<1>7. Nested(mid, 0) /\ HoldsWords(mid, words, n) /\ NoEnd(mid)
  <2>1. Moves(m.kind, c, c, 0)
    BY <1>2, <1>4 DEF Moves
  <2>2. Nested(mid, 0)
    BY <1>4, <1>5, <2>1, MarksNest
  <2>3. HoldsWords(mid, words, n)
    BY <1>3, <1>4, <1>6, MarksHold
  <2>4. NoEnd(mid)
    BY <1>4, <1>6, NoEndAfter
  <2> QED
    BY <2>2, <2>3, <2>4
<1> HIDE DEF mid
<1>8. IsSeq(mid)
  BY <1>7 DEF Nested
<1>9. Nested(end, 0) /\ HoldsWords(end, words, n)
  <2>1. Moves(eof.kind, 1, 0, 0)
    BY <1>2 DEF Moves
  <2>2. Nested(end, 0)
    BY <1>5, <1>7, <2>1, MarksNest
  <2>3. HoldsWords(end, words, n)
    BY <1>3, <1>5, <1>6, <1>7, <1>8, MarksHold
  <2> QED
    BY <2>2, <2>3
<1>10. /\ Len(mid) \in Nat /\ Len(end) = Len(mid) + 1 /\ DOMAIN end = 1..Len(end)
       /\ \A i \in 1..Len(mid) : end[i] = mid[i]
       /\ end[Len(mid) + 1] = eof
  <2> DEFINE u == Copies(eof, 1)
  <2>1. IsSeq(u) /\ Len(u) = 1 /\ \A i \in 1..1 : u[i] = eof
    BY <1>5, CopiesCount
  <2>2. IsSeq(u)
    BY <2>1
  <2> HIDE DEF u
  <2>3. /\ Len(mid \o u) = Len(mid) + Len(u) /\ DOMAIN (mid \o u) = 1..(Len(mid) + Len(u))
        /\ \A i \in 1..Len(mid) : (mid \o u)[i] = mid[i]
        /\ \A i \in 1..Len(u) : (mid \o u)[Len(mid) + i] = u[i]
    BY <1>8, <2>2, SeqConcat
  <2>4. Len(mid) \in Nat
    BY <1>8, SeqShape
  <2>5. end = mid \o u
    BY DEF u
  <2> HIDE DEF end
  <2> QED
    BY <2>1, <2>3, <2>4, <2>5
<1> HIDE DEF end
<1>11. Balanced(end)
  <2>1. DOMAIN end \subseteq 0..Len(end)
    BY <1>10
  <2>2. CountOf(end, {"DEDENT"}, Len(end)) \in Nat
    BY <1>10, CountNat
  <2> QED
    BY <2>1, <2>2, <1>9 DEF Balanced, Nested
<1>12. ASSUME NEW i \in DOMAIN end PROVE end[i].kind = "EOF" <=> i = Len(end)
  <2>1. i \in 1..Len(mid) \/ i = Len(mid) + 1
    BY <1>10
  <2>2. CASE i \in 1..Len(mid)
    BY <2>2, <1>7, <1>10 DEF NoEnd
  <2>3. CASE i = Len(mid) + 1
    BY <2>3, <1>2, <1>10
  <2> QED
    BY <2>1, <2>2, <2>3
<1> QED
  BY <1>1, <1>9, <1>11, <1>12 DEF WellLaid, Nested, n

----------------------------------------------------------------------------
(* Comments. *)

OutsideComments(s) == "out" \in DOMAIN s /\ Words(s.out)

LEMMA SkippedKeeps ==
  ASSUME NEW s, OutsideComments(s), NEW x, x.kind \in LexemeKind
  PROVE  OutsideComments(Skipped(s, x))
<1>1. "out" \in DOMAIN s /\ IsSeq(s.out) /\ \A k \in DOMAIN s.out : s.out[k].kind \in LexemeKind
  BY DEF OutsideComments, Words
<1> DEFINE t == Append(s.out, x)
<1>2. Words(t)
  <2>1. /\ IsSeq(t) /\ DOMAIN t = 1..(Len(s.out) + 1)
        /\ (\A k \in 1..Len(s.out) : t[k] = s.out[k]) /\ t[Len(s.out) + 1] = x
    BY <1>1, SeqAppend
  <2>2. Len(s.out) \in Nat /\ DOMAIN s.out = 1..Len(s.out)
    BY <1>1, SeqShape
  <2> HIDE DEF t
  <2>3. ASSUME NEW k \in DOMAIN t PROVE t[k].kind \in LexemeKind
    <3>1. k \in 1..Len(s.out) \/ k = Len(s.out) + 1
      BY <2>1, <2>2
    <3> QED
      BY <3>1, <2>1, <2>2, <1>1
  <2> QED
    BY <2>1, <2>3 DEF Words
<1> HIDE DEF t
<1>3. Skipped(s, x) \in {[s EXCEPT !.depth = @ - 1], [s EXCEPT !.depth = @ + 1], s,
                         [s EXCEPT !.depth = 1], [s EXCEPT !.hidden = x.line], [s EXCEPT !.out = t]}
  BY DEF Skipped, t
<1>4. ASSUME NEW e PROVE OutsideComments([s EXCEPT !.depth = e]) /\ OutsideComments([s EXCEPT !.hidden = e])
  BY DEF OutsideComments
<1>5. OutsideComments([s EXCEPT !.out = t])
  BY <1>1, <1>2 DEF OutsideComments
<1> QED
  BY <1>3, <1>4, <1>5

CommentRounds(after, lexemes) ==
  /\ after[0] = [depth |-> 0, hidden |-> 0, out |-> << >>]
  /\ \A k \in 1..Len(lexemes) : after[k] = Skipped(after[k - 1], lexemes[k])

LEMMA SkippedInTurn ==
  ASSUME NEW lexemes, IsSeq(lexemes)
  PROVE  \E after : /\ CommentRounds(after, lexemes)
                    /\ SkipComments(lexemes).tokens = after[Len(lexemes)].out
<1> DEFINE n == Len(lexemes)
           start == [depth |-> 0, hidden |-> 0, out |-> << >>]
           Def(m, g) == g = [k \in 0..m |-> IF k = 0 THEN start ELSE Skipped(g[k - 1], lexemes[k])]
           after == CHOOSE g : Def(n, g)
           T == {m \in Nat : \E g : Def(m, g)}
<1>1. n \in Nat
  BY SeqShape
<1>2. SkipComments(lexemes).tokens = after[n].out
  BY DEF SkipComments
<1> HIDE DEF n
<1>3. 0 \in T
  <2>1. Def(0, [k \in 0..0 |-> start])
    OBVIOUS
  <2> QED
    BY <2>1, Zenon
<1>4. ASSUME NEW m \in Nat, m \in T PROVE m + 1 \in T
  <2>1. PICK g : Def(m, g)
    BY <1>4
  <2> HIDE DEF start
  <2> DEFINE F(h, k) == IF k = 0 THEN start ELSE Skipped(h[k - 1], lexemes[k])
             h == [k \in 0..(m + 1) |-> IF k <= m THEN g[k] ELSE F(g, k)]
  <2>2. \A k \in 0..m : g[k] = F(g, k)
    BY <2>1
  <2>3. ASSUME NEW k \in 0..(m + 1) PROVE h[k] = F(h, k)
    <3>1. h[k] = F(g, k)
      BY <2>2
    <3>2. k = 0 \/ (k - 1 \in 0..(m + 1) /\ k - 1 <= m)
      OBVIOUS
    <3>3. k = 0 \/ h[k - 1] = g[k - 1]
      BY <3>2
    <3> QED
      BY <3>1, <3>3
  <2>4. h = [k \in 0..(m + 1) |-> h[k]]
    OBVIOUS
  <2> HIDE DEF h
  <2>5. Def(m + 1, h)
    BY <2>3, <2>4
  <2>6. \E f : Def(m + 1, f)
    BY <2>5, Zenon
  <2> HIDE DEF Def
  <2> QED
    BY <2>6
<1> HIDE DEF T
<1>5. n \in T
  BY <1>1, <1>3, <1>4, Induct
<1>6. Def(n, after)
  <2>1. \E g : Def(n, g)
    BY <1>5 DEF T
  <2> HIDE DEF Def
  <2> QED
    BY <2>1
<1> HIDE DEF after
<1>7. after[0] = start /\ \A k \in 1..n : after[k] = Skipped(after[k - 1], lexemes[k])
  BY <1>1, <1>6
<1> HIDE DEF Def
<1> QED
  BY <1>2, <1>7 DEF CommentRounds, n, start

\* What is left of a text are lexemes of it: no mark that layout makes.
LEMMA SkipLeavesWords ==
  ASSUME NEW lexemes \in Seq(Lexeme)
  PROVE  Words(SkipComments(lexemes).tokens)
<1> DEFINE n == Len(lexemes)
<1>1. n \in Nat /\ lexemes \in [1..n -> Lexeme]
  BY LenProperties
<1>2. IsSeq(lexemes)
  <2>1. lexemes = [k \in 1..n |-> lexemes[k]]
    BY <1>1
  <2> QED
    BY <2>1, <1>1, SeqByShape
<1>3. \A k \in 1..n : lexemes[k].kind \in LexemeKind
  BY <1>1 DEF Lexeme
<1>4. PICK after : CommentRounds(after, lexemes) /\ SkipComments(lexemes).tokens = after[n].out
  BY <1>2, SkippedInTurn
<1>5. /\ after[0] = [depth |-> 0, hidden |-> 0, out |-> << >>]
      /\ \A k \in 1..n : after[k] = Skipped(after[k - 1], lexemes[k])
  BY <1>4 DEF CommentRounds
<1> DEFINE U == {k \in Nat : k <= n => OutsideComments(after[k])}
<1> HIDE DEF n
<1>6. 0 \in U
  <2>1. OutsideComments(after[0])
    BY <1>5, EmptyIsSeq DEF OutsideComments, Words
  <2> QED
    BY <2>1
<1>7. ASSUME NEW k \in Nat, k \in U PROVE k + 1 \in U
  <2> SUFFICES ASSUME k + 1 <= n PROVE OutsideComments(after[k + 1])
    OBVIOUS
  <2>1. k <= n /\ k + 1 \in 1..n /\ (k + 1) - 1 = k
    BY <1>1
  <2>2. OutsideComments(after[k]) /\ after[k + 1] = Skipped(after[k], lexemes[k + 1])
    BY <1>5, <1>7, <2>1
  <2>3. OutsideComments(Skipped(after[k], lexemes[k + 1]))
    BY <2>1, <2>2, <1>3, SkippedKeeps
  <2> QED
    BY <2>2, <2>3
<1> HIDE DEF U
<1>8. \A k \in Nat : k \in U
  BY <1>6, <1>7, Induct
<1>9. OutsideComments(after[n])
  BY <1>1, <1>8 DEF U
<1> QED
  BY <1>4, <1>9 DEF OutsideComments, n

----------------------------------------------------------------------------
(* The reader. *)

ReaderInv ==
  /\ source \in Texts
  /\ stage = "layout" => tokens = SkipComments(source.lexemes).tokens
  /\ stage \in {"parse", "done"} => WellLaid(tokens, SkipComments(source.lexemes).tokens)

LEMMA ReaderInit == Init => ReaderInv
  BY DEF Init, ReaderInv

LEMMA ReaderStep == ReaderInv /\ [Next]_vars => ReaderInv'
<1> SUFFICES ASSUME ReaderInv, [Next]_vars PROVE ReaderInv'
  OBVIOUS
<1>1. CASE Lex
  BY <1>1 DEF Lex, ReaderInv
<1>2. CASE LayOut
  <2>1. /\ source' = source /\ stage' \in {"parse", "error"} /\ tokens' = Layout(tokens).tokens
        /\ tokens = SkipComments(source.lexemes).tokens /\ source \in Texts
    BY <1>2 DEF LayOut, ReaderInv
  <2>2. Words(tokens)
    BY <2>1, TextsAssumption, SkipLeavesWords
  <2>3. WellLaid(Layout(tokens).tokens, tokens)
    BY <2>2, LayoutHolds
  <2> QED
    BY <2>1, <2>3 DEF ReaderInv
<1>3. CASE ParseNext
  <2>1. UNCHANGED <<source, tokens>> /\ stage = "parse" /\ stage' \in {"parse", "error"}
    BY <1>3 DEF ParseNext
  <2> QED
    BY <2>1 DEF ReaderInv
<1>4. CASE Finish
  BY <1>4 DEF Finish, ReaderInv
<1>5. CASE UNCHANGED vars
  BY <1>5 DEF vars, ReaderInv
<1> QED
  BY <1>1, <1>2, <1>3, <1>4, <1>5 DEF Next

LEMMA ReaderInvariant == Spec => []ReaderInv
  BY ReaderInit, ReaderStep, PTL DEF Spec

\* Whatever the columns and brackets of a text, and whatever reads its
\* instructions, the parser is given blocks that are all closed and one EOF, at
\* the end: it never runs off the tokens in search of a DEDENT (layout).
THEOREM BlocksAreClosed == Spec => []BlocksClosed
<1>1. ReaderInv => BlocksClosed
  BY DEF ReaderInv, WellLaid, BlocksClosed, At
<1> QED
  BY <1>1, ReaderInvariant, PTL

\* What the parser is given are the tokens outside comments, each once and in
\* the order of the text; layout adds nothing but its marks (layout).
THEOREM TokensAreKept == Spec => []TokensKept
<1>1. ReaderInv => TokensKept
  <2> SUFFICES ASSUME ReaderInv, stage \in {"parse", "done"}
               PROVE  LET words == SkipComments(source.lexemes).tokens IN
                      /\ CountOf(tokens, LexemeKind, Len(tokens)) = Len(words)
                      /\ \A i \in DOMAIN tokens : tokens[i].kind \in LexemeKind
                           => tokens[i] = words[CountOf(tokens, LexemeKind, i)]
    BY DEF TokensKept
  <2> DEFINE words == SkipComments(source.lexemes).tokens
  <2>1. IsSeq(tokens) /\ HoldsWords(tokens, words, Len(words))
    BY DEF ReaderInv, WellLaid
  <2>2. DOMAIN tokens = 1..Len(tokens)
    BY <2>1, SeqShape
  <2> HIDE DEF words
  <2>3. /\ CountOf(tokens, LexemeKind, Len(tokens)) = Len(words)
        /\ \A i \in DOMAIN tokens : tokens[i].kind \in LexemeKind
             => tokens[i] = words[CountOf(tokens, LexemeKind, i)]
    BY <2>1, <2>2 DEF HoldsWords
  <2> QED
    BY <2>3 DEF words
<1> QED
  BY <1>1, ReaderInvariant, PTL
=============================================================================
