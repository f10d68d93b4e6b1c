-------------------------- MODULE AssemblerProofs --------------------------
(***************************************************************************)
(* Proofs about Assembler for every instruction set, program and number of *)
(* labels: what finish may answer, and what a fixup may change.            *)
(***************************************************************************)
EXTENDS Assembler, SequenceLemmas, TLAPS

----------------------------------------------------------------------------
(* Fields of any width: a number in the range of a field is read back from  *)
(* its bits.                                                                *)

\* The recursive definitions satisfy their recurrences.

LEMMA Pow2Step ==
  /\ Pow2[0] = 1
  /\ \A n \in Nat : Pow2[n] \in Nat \ {0} /\ Pow2[n + 1] = 2 * Pow2[n]
<1> DEFINE S == Nat \ {0}
           step == [p \in Nat \X S |-> 2 * p[2]]
           Def(r) == r = [n \in Nat |-> IF n = 0 THEN 1 ELSE 2 * r[n - 1]]
<1>1. \A n \in Nat, x \in S : step[<<n, x>>] = 2 * x
  OBVIOUS
<1>a. step \in [Nat \X S -> S] /\ 1 \in S
  OBVIOUS
<1> HIDE DEF step
<1>b. PICK r \in [Nat -> S] : Follows(r, 1, step)
  <2> HIDE DEF S
  <2> QED
    BY <1>a, Recursion
<1>2. r[0] = 1 /\ \A n \in Nat : r[n + 1] = step[<<n, r[n]>>]
  BY <1>b DEF Follows
<1>3. \A n \in Nat : r[n] = IF n = 0 THEN 1 ELSE 2 * r[n - 1]
  <2> SUFFICES ASSUME NEW n \in Nat, n # 0 PROVE r[n] = 2 * r[n - 1]
    BY <1>2
  <2>1. n - 1 \in Nat /\ (n - 1) + 1 = n /\ r[n - 1] \in S
    BY <1>2
  <2> QED
    BY <1>1, <1>2, <2>1
<1>4. Def(r)
  BY <1>2, <1>3
<1>5. Pow2 = CHOOSE g : Def(g)
  BY DEF Pow2
<1>6. Def(Pow2)
  <2> HIDE DEF Def
  <2> QED
    BY <1>4, <1>5
<1> DEFINE T == {n \in Nat : Pow2[n] \in S}
<1>7. Pow2[0] = 1 /\ \A n \in Nat : Pow2[n + 1] = 2 * Pow2[n]
  <2>1. \A n \in Nat : Pow2[n] = IF n = 0 THEN 1 ELSE 2 * Pow2[n - 1]
    BY <1>6
  <2>2. \A n \in Nat : n + 1 # 0 /\ n + 1 \in Nat /\ (n + 1) - 1 = n
    OBVIOUS
  <2> QED
    BY <2>1, <2>2
<1>8. \A n \in Nat : n \in T
  <2>1. 0 \in T /\ \A n \in Nat : n \in T => n + 1 \in T
    BY <1>7
  <2> HIDE DEF T
  <2> QED
    BY <2>1, Induct
<1> QED
  BY <1>7, <1>8

LEMMA ShrStep ==
  ASSUME NEW v \in Int
  PROVE  /\ Shr(v, 0) = v
         /\ \A b \in Nat : Shr(v, b) \in Int /\ Shr(v, b + 1) = Shr(v, b) \div 2
<1> DEFINE step == [p \in Nat \X Int |-> p[2] \div 2]
           Def(r) == r = [i \in Nat |-> IF i = 0 THEN v ELSE r[i - 1] \div 2]
           shr == CHOOSE r : Def(r)
<1>1. \A n \in Nat, x \in Int : step[<<n, x>>] = x \div 2
  OBVIOUS
<1>a. step \in [Nat \X Int -> Int]
  OBVIOUS
<1> HIDE DEF step
<1>b. PICK r \in [Nat -> Int] : Follows(r, v, step)
  BY <1>a, Recursion
<1>2. r[0] = v /\ \A n \in Nat : r[n + 1] = step[<<n, r[n]>>]
  BY <1>b DEF Follows
<1>3. \A n \in Nat : r[n] = IF n = 0 THEN v ELSE r[n - 1] \div 2
  <2> SUFFICES ASSUME NEW n \in Nat, n # 0 PROVE r[n] = r[n - 1] \div 2
    BY <1>2
  <2>1. n - 1 \in Nat /\ (n - 1) + 1 = n /\ r[n - 1] \in Int
    BY <1>2
  <2> QED
    BY <1>1, <1>2, <2>1
<1>4. Def(r)
  BY <1>2, <1>3
<1>5. Def(shr)
  <2> HIDE DEF Def
  <2> QED
    BY <1>4
<1>6. \A b \in Nat : Shr(v, b) = shr[b]
  BY DEF Shr
<1>7. \A n \in Nat : shr[n] = IF n = 0 THEN v ELSE shr[n - 1] \div 2
  <2> HIDE DEF shr
  <2> QED
    BY <1>5
<1> HIDE DEF shr
<1>8. shr[0] = v /\ \A n \in Nat : shr[n + 1] = shr[n] \div 2
  <2>1. \A n \in Nat : n + 1 # 0 /\ n + 1 \in Nat /\ (n + 1) - 1 = n
    OBVIOUS
  <2> QED
    BY <1>7, <2>1
<1> DEFINE T == {n \in Nat : shr[n] \in Int}
<1>9. \A n \in Nat : n \in T
  <2>1. 0 \in T /\ \A n \in Nat : n \in T => n + 1 \in T
    BY <1>8
  <2> HIDE DEF T
  <2> QED
    BY <2>1, Induct
<1> QED
  BY <1>6, <1>8, <1>9

\* The value Number has after i bits.
Horner(top, bits, width, high) ==
  /\ top[0] = high /\ Number(bits, width, high) = top[width]
  /\ \A i \in Nat : top[i + 1] = 2 * top[i] + (IF width - (i + 1) \in bits THEN 1 ELSE 0)

LEMMA NumberStep ==
  ASSUME NEW bits, NEW width \in Nat, NEW high \in Int
  PROVE  \E top \in [Nat -> Int] : Horner(top, bits, width, high)
<1> DEFINE bit(i) == IF width - i \in bits THEN 1 ELSE 0
           step == [p \in Nat \X Int |-> 2 * p[2] + bit(p[1] + 1)]
           Def(r) == r = [i \in Nat |-> IF i = 0 THEN high ELSE 2 * r[i - 1] + bit(i)]
           top == CHOOSE r : Def(r)
<1>0. \A i \in Nat : bit(i) \in Int
  OBVIOUS
<1>a. \A i \in Nat : bit(i) = IF width - i \in bits THEN 1 ELSE 0
  OBVIOUS
<1>b. Number(bits, width, high) = top[width]
  BY DEF Number
<1> HIDE DEF bit
<1>1. \A n \in Nat, x \in Int : step[<<n, x>>] = 2 * x + bit(n + 1)
  OBVIOUS
<1>c. step \in [Nat \X Int -> Int]
  BY <1>0
<1> HIDE DEF step
<1>d. PICK r \in [Nat -> Int] : Follows(r, high, step)
  BY <1>c, Recursion
<1>2. r[0] = high /\ \A n \in Nat : r[n + 1] = step[<<n, r[n]>>]
  BY <1>d DEF Follows
<1>3. \A n \in Nat : r[n] = IF n = 0 THEN high ELSE 2 * r[n - 1] + bit(n)
  <2> SUFFICES ASSUME NEW n \in Nat, n # 0 PROVE r[n] = 2 * r[n - 1] + bit(n)
    BY <1>2
  <2>1. n - 1 \in Nat /\ (n - 1) + 1 = n /\ r[n - 1] \in Int
    BY <1>2
  <2> QED
    BY <1>1, <1>2, <2>1
<1>4. Def(r)
  BY <1>2, <1>3
<1>5. Def(top)
  <2> HIDE DEF Def
  <2> QED
    BY <1>4
<1>7. top = [n \in Nat |-> IF n = 0 THEN high ELSE 2 * top[n - 1] + bit(n)]
  <2> HIDE DEF top
  <2> QED
    BY <1>5
<1> HIDE DEF top
<1>8. top[0] = high /\ \A n \in Nat : top[n + 1] = 2 * top[n] + bit(n + 1)
  <2>1. \A n \in Nat : n + 1 # 0 /\ n + 1 \in Nat /\ (n + 1) - 1 = n
    OBVIOUS
  <2>2. \A n \in Nat : top[n] = IF n = 0 THEN high ELSE 2 * top[n - 1] + bit(n)
    BY <1>7
  <2> QED
    BY <2>1, <2>2
<1> DEFINE T == {n \in Nat : top[n] \in Int}
<1>9. \A n \in Nat : n \in T
  <2>1. 0 \in T
    BY <1>8
  <2>2. ASSUME NEW n \in Nat, n \in T PROVE n + 1 \in T
    BY <1>8, <1>0, <2>2
  <2> HIDE DEF T
  <2> QED
    BY <2>1, <2>2, Induct
<1>10. top \in [Nat -> Int]
  BY <1>7, <1>9
<1> QED
  BY <1>8, <1>10, <1>a, <1>b DEF Horner

----------------------------------------------------------------------------
\* Bits.

\* Shifting once more is halving before.
LEMMA ShrHalf ==
  ASSUME NEW v \in Int
  PROVE  \A b \in Nat : Shr(v, b + 1) = Shr(v \div 2, b)
<1> DEFINE T == {b \in Nat : Shr(v, b + 1) = Shr(v \div 2, b)}
<1>0. v \div 2 \in Int /\ 0 + 1 = 1 /\ 1 \in Nat
  OBVIOUS
<1>1. 0 \in T
  <2>1. Shr(v, 0 + 1) = v \div 2 /\ Shr(v \div 2, 0) = v \div 2
    BY <1>0, ShrStep
  <2> QED
    BY <2>1
<1>2. ASSUME NEW b \in Nat, b \in T PROVE b + 1 \in T
  <2>1. Shr(v, (b + 1) + 1) = Shr(v, b + 1) \div 2
    BY ShrStep
  <2>2. Shr(v \div 2, b + 1) = Shr(v \div 2, b) \div 2
    BY <1>0, ShrStep
  <2> QED
    BY <1>2, <2>1, <2>2
<1> HIDE DEF T
<1>3. \A b \in Nat : b \in T
  BY <1>1, <1>2, Induct
<1> QED
  BY <1>3 DEF T

\* A number in range has nothing left above its field but its sign.
LEMMA ShrOfRange ==
  \A b \in Nat : \A v \in Int :
    /\ -Pow2[b] <= v /\ v < Pow2[b] => Shr(v, b) \in {-1, 0}
    /\ 0 <= v /\ v < Pow2[b] => Shr(v, b) = 0
<1> DEFINE Signs(v, b) == /\ -Pow2[b] <= v /\ v < Pow2[b] => Shr(v, b) \in {-1, 0}
                          /\ 0 <= v /\ v < Pow2[b] => Shr(v, b) = 0
           T == {b \in Nat : \A v \in Int : Signs(v, b)}
<1>1. 0 \in T
  <2>1. ASSUME NEW v \in Int PROVE Signs(v, 0)
    <3>1. Pow2[0] = 1 /\ Shr(v, 0) = v
      BY Pow2Step, ShrStep
    <3> QED
      BY <3>1
  <2> QED
    BY <2>1
<1>2. ASSUME NEW b \in Nat, b \in T PROVE b + 1 \in T
  <2>1. ASSUME NEW v \in Int PROVE Signs(v, b + 1)
    <3>1. Pow2[b] \in Int /\ Pow2[b + 1] = 2 * Pow2[b]
      BY Pow2Step
    <3>2. Shr(v, b + 1) = Shr(v \div 2, b) /\ v \div 2 \in Int
      BY ShrHalf
    <3>3. Signs(v \div 2, b)
      BY <1>2, <3>2
    <3>4. /\ -Pow2[b + 1] <= v => -Pow2[b] <= v \div 2
          /\ v < Pow2[b + 1] => v \div 2 < Pow2[b]
          /\ 0 <= v => 0 <= v \div 2
      BY <3>1
    <3>5. CASE -Pow2[b + 1] <= v /\ v < Pow2[b + 1]
      BY <3>2, <3>3, <3>4, <3>5
    <3>6. CASE 0 <= v /\ v < Pow2[b + 1]
      BY <3>2, <3>3, <3>4, <3>6
    <3> QED
      BY <3>5, <3>6
  <2> QED
    BY <2>1
<1> HIDE DEF T
<1>3. \A b \in Nat : b \in T
  BY <1>1, <1>2, Induct
<1> QED
  BY <1>3 DEF T

\* The bits of a number, below what is left of it above them, are the number.
LEMMA ReadsBack ==
  ASSUME NEW v \in Int, NEW width \in Nat
  PROVE  Number(BitsOf(v, width), width, Shr(v, width)) = v
<1>1. Shr(v, width) \in Int
  BY ShrStep
<1>a. PICK top \in [Nat -> Int] : Horner(top, BitsOf(v, width), width, Shr(v, width))
  BY <1>1, NumberStep
<1>2. /\ top[0] = Shr(v, width) /\ Number(BitsOf(v, width), width, Shr(v, width)) = top[width]
      /\ \A i \in Nat : top[i + 1] =
           2 * top[i] + (IF width - (i + 1) \in BitsOf(v, width) THEN 1 ELSE 0)
  BY <1>a DEF Horner
<1> DEFINE T == {i \in Nat : i <= width => top[i] = Shr(v, width - i)}
<1>3. 0 \in T
  <2>1. width - 0 = width
    OBVIOUS
  <2> QED
    BY <1>2, <2>1
<1>4. ASSUME NEW i \in Nat, i \in T PROVE i + 1 \in T
  <2> SUFFICES ASSUME i + 1 <= width PROVE top[i + 1] = Shr(v, width - (i + 1))
    OBVIOUS
  <2> DEFINE b == width - (i + 1)
             x == Shr(v, b)
  <2>1. b \in Nat /\ b \in 0..(width - 1) /\ b + 1 = width - i /\ i <= width
    OBVIOUS
  <2> HIDE DEF b
  <2>2. x \in Int /\ Shr(v, b + 1) = x \div 2
    BY <2>1, ShrStep
  <2>3. top[i] = x \div 2
    BY <1>4, <2>1, <2>2
  <2>4. b \in BitsOf(v, width) <=> x % 2 = 1
    BY <2>1 DEF BitsOf
  <2>5. top[i + 1] = 2 * top[i] + (IF b \in BitsOf(v, width) THEN 1 ELSE 0)
    BY <1>2 DEF b
  <2> HIDE DEF x
  <2>6. x = 2 * (x \div 2) + (IF x % 2 = 1 THEN 1 ELSE 0)
    BY <2>2
  <2> QED
    BY <2>3, <2>4, <2>5, <2>6 DEF x, b
<1> HIDE DEF T
<1>5. width \in T
  BY <1>3, <1>4, Induct
<1>6. top[width] = Shr(v, width - width) /\ width - width = 0
  BY <1>5 DEF T
<1> QED
  BY <1>2, <1>6, ShrStep

\* A signed field gives back what it was given, and so does an unsigned one.
THEOREM SignedReadsBack ==
  ASSUME NEW width \in Nat \ {0}, NEW v \in SignedRange(width)
  PROVE  SignedRead(BitsOf(v, width), width) = v
<1>1. width \in Nat /\ width - 1 \in Nat /\ (width - 1) + 1 = width /\ Pow2[width - 1] \in Int
  BY Pow2Step
<1>2. v \in Int /\ -Pow2[width - 1] <= v /\ v < Pow2[width - 1]
  BY <1>1 DEF SignedRange
<1>3. Shr(v, width - 1) \in {-1, 0}
  BY <1>1, <1>2, ShrOfRange
<1>4. Shr(v, width) = Shr(v, width - 1) \div 2
  BY <1>1, <1>2, ShrStep
<1>5. Shr(v, width) = IF width - 1 \in BitsOf(v, width) THEN -1 ELSE 0
  BY <1>1, <1>3, <1>4 DEF BitsOf
<1> QED
  BY <1>1, <1>2, <1>5, ReadsBack DEF SignedRead

THEOREM UnsignedReadsBack ==
  ASSUME NEW width \in Nat, NEW v \in UnsignedRange(width)
  PROVE  UnsignedRead(BitsOf(v, width), width) = v
<1>1. v \in Int /\ 0 <= v /\ v < Pow2[width]
  BY Pow2Step DEF UnsignedRange
<1>2. Shr(v, width) = 0
  BY <1>1, ShrOfRange
<1> QED
  BY <1>1, <1>2, ReadsBack DEF UnsignedRead

----------------------------------------------------------------------------
(* The assembler. *)

Emitted(k) == Verdict(Asked(k)) # "operand"

\* Entry e of the calls waits for a label; fx is the fixup it left.
Waits(e) == e.call.operand.kind = "id"
LeftBy(fx, e) ==
  /\ Waits(e) /\ fx.at = e.at /\ fx.label = e.call.operand.n
  /\ fx.start = e.call.form.start /\ fx.width = e.call.form.width

\* Words are emitted in the order of the calls, one for each call that is not
\* refused before its word is built.
OrderInv ==
  /\ \A k \in DOMAIN calls : calls[k].at <= Len(words) /\ (Emitted(k) => calls[k].at < Len(words))
  /\ \A j, k \in DOMAIN calls : j < k => calls[j].at <= calls[k].at
  /\ \A j, k \in DOMAIN calls : j < k /\ Emitted(j) => calls[j].at < calls[k].at

\* errors tells which call failed first; finish patches only without errors.
ErrorInv ==
  /\ errors = << >> => \A k \in DOMAIN calls : ~Fails(k)
  /\ errors # << >> =>
       \E k \in DOMAIN calls :
         Fails(k) /\ Head(errors) = Error(Verdict(Asked(k)), k) /\ \A j \in 1..(k - 1) : ~Fails(j)
  /\ pc # "building" /\ errors # << >> => pc = "done" /\ result = Head(errors)

\* The labels are bound where they were last bound.
LabelInv == Len(labels) <= MaxLabels /\ \A l \in 0..MaxLabels : meant[l] = Target(l)

\* Every fixup comes from a call, in the order of the calls, and a call whose
\* fixup is gone named a label that was bound when finish ran.
Sourced(fxs, cs) == \A j \in DOMAIN fxs : \E k \in DOMAIN cs : LeftBy(fxs[j], cs[k])
Ordered(fxs) == \A i, j \in DOMAIN fxs : i < j => fxs[i].at < fxs[j].at
Covered(fxs, cs, resolved) ==
  \A k \in DOMAIN cs : Waits(cs[k]) =>
    cs[k].call.operand.n \in resolved \/ \E j \in DOMAIN fxs : LeftBy(fxs[j], cs[k])
Resolved == IF pc = "building" THEN {} ELSE {l \in 0..MaxLabels : meant[l] # Unbound}

FixupInv == Sourced(fixups, calls) /\ Ordered(fixups) /\ Covered(fixups, calls, Resolved)

\* finish answers once, and answers Ok only with nothing left to patch.
ResultInv ==
  /\ pc = "building" => result = Pending
  /\ pc = "patching" => result = Pending /\ errors = << >>
  /\ pc = "done" =>
       \/ errors # << >> \/ result = Ok
       \/ /\ fixups # << >> /\ Target(Head(fixups).label) = Unbound
          /\ result = Error("unbound", Head(fixups).label)
  /\ result = Ok => fixups = << >> /\ errors = << >>

----------------------------------------------------------------------------
\* Types.

\* A call has a form, an operand, and a word within the integers.
LEMMA CallTypes ==
  ASSUME NEW c \in Calls
  PROVE  /\ c.form \in FormType /\ c.operand \in Operand
         /\ c.operand.kind = "id" => c.form.kind = "label" /\ c.operand.n \in Nat
         /\ c.form.start \in Nat /\ c.form.width \in Nat /\ c.form.fixed \subseteq Bit
         /\ c.form.parts \in Seq(Part)
<1>1. c \in CallType /\ (c.operand.kind = "id" => c.form.kind = "label" /\ c.operand.n \in Nat)
  BY CallsAssumption
<1>2. c.form \in FormType /\ c.operand \in Operand
  BY <1>1, FormAssumption DEF CallType
<1>3. QED
  BY <1>1, <1>2 DEF FormType

LEMMA VerdictType ==
  ASSUME NEW c PROVE Verdict(c) \in {"ok", "operand", "alignment", "range"}
<1>1. FieldBits(c.form, c.operand.n) \in {"ok", "alignment", "range"}
  BY Zenon DEF FieldBits
<1>2. FieldLabel(c.form, c.operand.n) \in {"ok", "alignment", "range"}
  BY Zenon DEF FieldLabel
<1>3. QED
  BY <1>1, <1>2 DEF Verdict

LEMMA ShiftType ==
  ASSUME NEW bits \in SUBSET Int, NEW start \in Int PROVE Shift(bits, start) \in SUBSET Int
<1>1. \A b \in bits : b + start \in Int
  OBVIOUS
<1>2. QED
  BY <1>1 DEF Shift

LEMMA BitsType == ASSUME NEW v, NEW n PROVE BitsOf(v, n) \in SUBSET Int
BY DEF BitsOf

LEMMA LayoutType ==
  ASSUME NEW bits, NEW parts \in Seq(Part) PROVE Layout(bits, parts) \in SUBSET Int
<1>1. ASSUME NEW k \in Stored(parts)
      PROVE  Shift(Chunk(bits, parts, k), parts[k].start) \in SUBSET Int
  <2>1. k \in DOMAIN parts /\ parts[k] \in Part
    BY DEF Stored
  <2>2. parts[k].start \in Int
    BY <2>1 DEF Part
  <2>3. Chunk(bits, parts, k) \in SUBSET Int
    BY DEF Chunk
  <2>4. QED
    BY <2>2, <2>3, ShiftType
<1>2. QED
  BY <1>1, Zenon DEF Layout

LEMMA WordType == ASSUME NEW c \in Calls PROVE Word(c) \in SUBSET Int
<1> DEFINE f == c.form
<1>0. f.start \in Nat /\ f.fixed \subseteq Bit /\ f.parts \in Seq(Part)
  BY CallTypes
<1>1. f.fixed \in SUBSET Int /\ f.start \in Int /\ f.parts \in Seq(Part)
  <2>1. f.fixed \subseteq Nat
    BY <1>0, BitAssumption, Zenon
  <2>2. f.start \in Int
    BY <1>0
  <2>3. QED
    BY <1>0, <2>1, <2>2
<1>2. Layout(BitsOf(Held(f, c.operand.n), f.width), f.parts) \in SUBSET Int
  BY <1>1, LayoutType
<1>3. Shift(BitsOf(c.operand.n \div LabelScale, f.width), f.start) \in SUBSET Int
  BY <1>1, BitsType, ShiftType
<1>4. \/ Word(c) = f.fixed
      \/ Word(c) = f.fixed \cup Shift(BitsOf(c.operand.n \div LabelScale, f.width), f.start)
      \/ Word(c) = (f.fixed \ Span(f.parts))
                     \cup Layout(BitsOf(Held(f, c.operand.n), f.width), f.parts)
  BY DEF Word
<1>5. QED
  BY <1>1, <1>2, <1>3, <1>4

LEMMA PatchedType ==
  ASSUME NEW w \in SUBSET Int, NEW fx \in FixupType PROVE Patched(w, fx) \in SUBSET Int
<1>1. fx.start \in Int
  BY DEF FixupType
<1>2. Shift(BitsOf(Scaled(fx), fx.width), fx.start) \in SUBSET Int
  BY <1>1, BitsType, ShiftType
<1>3. QED
  BY <1>2 DEF Patched

LEMMA ElementType == ASSUME NEW S, NEW s \in Seq(S), NEW k \in DOMAIN s PROVE s[k] \in S
OBVIOUS

LEMMA FixupFields ==
  ASSUME NEW list \in Seq(FixupType), NEW j \in DOMAIN list
  PROVE  list[j].at \in Nat /\ list[j].label \in Nat
<1>1. list[j] \in FixupType
  OBVIOUS
<1>2. QED
  BY <1>1 DEF FixupType

LEMMA AppendHead ==
  ASSUME NEW S, NEW s \in Seq(S), s # << >>, NEW e
  PROVE  Append(s, e) # << >> /\ Head(Append(s, e)) = Head(s)
OBVIOUS

LEMMA HeadType == ASSUME NEW S, NEW s \in Seq(S), s # << >> PROVE Head(s) \in S
OBVIOUS

LEMMA TypeInit == Init => TypeOK
BY BoundsAssumption DEF Init, TypeOK, Pending, Error, Unbound

LEMMA TypeStep == TypeOK /\ [Next]_vars => TypeOK'
<1> SUFFICES ASSUME TypeOK, [Next]_vars PROVE TypeOK'
  OBVIOUS
<1>1. ASSUME NEW c \in Calls, CallMethod(c) PROVE TypeOK'
  <2>1. Verdict(c) \in {"ok"} \cup Reason /\ Word(c) \in SUBSET Int
    BY VerdictType, WordType DEF Reason
  <2>2. words' \in Seq(SUBSET Int) /\ Len(words') >= Len(words)
    BY <1>1, <2>1 DEF CallMethod, EmitWord, TypeOK
  <2>3. errors' \in Seq([kind : Reason, n : Nat])
    <3>1. CASE Verdict(c) = "ok"
      BY <1>1, <3>1 DEF CallMethod, Record, TypeOK
    <3>2. CASE Verdict(c) # "ok"
      <4>1. Len(calls) + 1 \in Nat
        BY DEF TypeOK
      <4>2. Error(Verdict(c), Len(calls) + 1) \in [kind : Reason, n : Nat]
        BY <2>1, <3>2, <4>1 DEF Error
      <4>3. errors' = Append(errors, Error(Verdict(c), Len(calls) + 1))
        BY <1>1, <3>2 DEF CallMethod, Record
      <4>4. QED
        BY <4>2, <4>3 DEF TypeOK
    <3>3. QED
      BY <3>1, <3>2
  <2>4. calls' \in Seq([call : Calls, at : Nat])
    BY <1>1 DEF CallMethod, TypeOK
  <2>5. /\ fixups' \in Seq(FixupType)
        /\ \A j \in DOMAIN fixups' : fixups'[j].at < Len(words')
    <3>1. CASE c.operand.kind = "id"
      <4>1. FixupOf(c) \in FixupType /\ FixupOf(c).at = Len(words)
        BY <3>1, CallTypes DEF FixupOf, FixupType, TypeOK
      <4>2. Verdict(c) = "ok"
        BY <3>1 DEF Verdict
      <4>3. words' = Append(words, Word(c)) /\ fixups' = Append(fixups, FixupOf(c))
        BY <1>1, <3>1, <4>2 DEF CallMethod, EmitWord
      <4>4. Len(words') = Len(words) + 1 /\ Len(words) \in Nat
        BY <4>3, <2>1 DEF TypeOK
      <4>5. fixups \in Seq(FixupType) /\ \A j \in DOMAIN fixups : fixups[j].at < Len(words)
        BY DEF TypeOK
      <4>6. \A j \in DOMAIN fixups : fixups[j].at \in Nat
        BY <4>5, FixupFields
      <4>7. ASSUME NEW j \in DOMAIN fixups' PROVE fixups'[j].at < Len(words')
        BY <4>1, <4>3, <4>4, <4>5, <4>6
      <4>8. QED
        BY <4>1, <4>3, <4>5, <4>7
    <3>2. CASE c.operand.kind # "id"
      <4>1. fixups' = fixups
        BY <1>1, <3>2 DEF CallMethod
      <4>2. fixups \in Seq(FixupType) /\ \A j \in DOMAIN fixups : fixups[j].at < Len(words)
        BY DEF TypeOK
      <4>3. \A j \in DOMAIN fixups : fixups[j].at \in Nat
        BY <4>2, FixupFields
      <4>4. Len(words) \in Nat /\ Len(words') \in Nat
        BY <2>2 DEF TypeOK
      <4>5. QED
        BY <4>1, <4>2, <4>3, <4>4, <2>2
    <3>3. QED
      BY <3>1, <3>2
  <2>6. UNCHANGED <<labels, pc, result, meant>>
    BY <1>1 DEF CallMethod
  <2>7. QED
    BY <2>2, <2>3, <2>4, <2>5, <2>6 DEF TypeOK
<1>2. CASE NewLabel
  BY <1>2 DEF NewLabel, TypeOK, history, Unbound
<1>3. ASSUME NEW l \in 0..MaxLabels, Bind(l) PROVE TypeOK'
  <2>1. Len(words) \in Nat /\ labels \in Seq(Nat \cup {Unbound})
        /\ meant \in [0..MaxLabels -> Nat \cup {Unbound}]
    BY DEF TypeOK
  <2>2. labels' \in Seq(Nat \cup {Unbound})
    BY <1>3, <2>1 DEF Bind, BindLabel
  <2>3. meant' \in [0..MaxLabels -> Nat \cup {Unbound}]
    BY <1>3, <2>1 DEF Bind
  <2>4. UNCHANGED <<words, fixups, errors, pc, result, calls>>
    BY <1>3 DEF Bind
  <2>5. QED
    BY <2>2, <2>3, <2>4 DEF TypeOK
<1>4. CASE BeginFinish
  <2>1. UNCHANGED <<words, labels, fixups, errors, calls, meant>>
    BY <1>4 DEF BeginFinish, history
  <2>2. pc' \in {"building", "patching", "done"}
    BY <1>4 DEF BeginFinish, Finish
  <2>3. result' \in [kind : {"pending", "ok", "unbound"} \cup Reason, n : Nat]
    <3>1. CASE errors # << >>
      <4>1. Head(errors) \in [kind : Reason, n : Nat]
        <5>1. errors \in Seq([kind : Reason, n : Nat])
          BY DEF TypeOK
        <5>2. QED
          BY <3>1, <5>1, HeadType
      <4>2. result' = Head(errors)
        BY <1>4, <3>1 DEF BeginFinish, Finish
      <4>3. QED
        BY <4>1, <4>2
    <3>2. CASE errors = << >>
      BY <1>4, <3>2 DEF BeginFinish, Finish, TypeOK
    <3>3. QED
      BY <3>1, <3>2
  <2>4. QED
    BY <2>1, <2>2, <2>3 DEF TypeOK
<1>5. CASE Patch
  <2> DEFINE fx == Head(fixups)
  <2>1. /\ fx \in FixupType /\ Tail(fixups) \in Seq(FixupType)
        /\ \A j \in DOMAIN Tail(fixups) : Tail(fixups)[j] = fixups[j + 1] /\ j + 1 \in DOMAIN fixups
        /\ fx.at < Len(words) /\ fx.at \in Nat /\ fx.label \in Nat
    <3>1. /\ fixups \in Seq(FixupType) /\ fixups # << >>
          /\ \A j \in DOMAIN fixups : fixups[j].at < Len(words)
      BY <1>5 DEF Patch, TypeOK
    <3>2. fx = fixups[1] /\ 1 \in DOMAIN fixups /\ fx \in FixupType
      BY <3>1
    <3>3. /\ Tail(fixups) \in Seq(FixupType)
          /\ \A j \in DOMAIN Tail(fixups) : Tail(fixups)[j] = fixups[j + 1] /\ j + 1 \in DOMAIN fixups
      BY <3>1
    <3>4. fx.at \in Nat /\ fx.label \in Nat
      BY <3>2 DEF FixupType
    <3>5. QED
      BY <3>1, <3>2, <3>3, <3>4
  <2>2. CASE Target(fx.label) = Unbound
    <3>1. UNCHANGED <<words, fixups, labels, errors, calls, meant>> /\ pc' = "done"
          /\ result' = Error("unbound", fx.label)
      BY <1>5, <2>2 DEF Patch, history
    <3>2. QED
      BY <2>1, <3>1 DEF TypeOK, Error
  <2>3. CASE Target(fx.label) # Unbound
    <3>1. /\ words' = [words EXCEPT ![fx.at + 1] = Patched(@, fx)] /\ fixups' = Tail(fixups)
          /\ UNCHANGED <<pc, result, labels, errors, calls, meant>>
      BY <1>5, <2>3 DEF Patch, history
    <3>2. words[fx.at + 1] \in SUBSET Int
      BY <2>1 DEF TypeOK
    <3>3. Patched(words[fx.at + 1], fx) \in SUBSET Int
      BY <2>1, <3>2, PatchedType
    <3>4. words' \in Seq(SUBSET Int) /\ Len(words') = Len(words)
      BY <3>1, <3>3, <2>1 DEF TypeOK
    <3>5. QED
      BY <3>1, <3>4, <2>1 DEF TypeOK
  <2>4. QED
    BY <2>2, <2>3
<1>6. CASE EndFinish
  BY <1>6 DEF EndFinish, TypeOK, history, Ok, Error
<1>7. CASE UNCHANGED vars
  BY <1>7 DEF vars, history, TypeOK
<1>8. QED
  BY <1>1, <1>2, <1>3, <1>4, <1>5, <1>6, <1>7 DEF Next, Done

\* The assembler's types, for every instruction set and program.
THEOREM TypesHold == Spec => []TypeOK
BY TypeInit, TypeStep, PTL DEF Spec

----------------------------------------------------------------------------
\* What a call adds.

LEMMA CallsGrow ==
  ASSUME TypeOK, NEW c \in Calls, CallMethod(c)
  PROVE  LET n == Len(calls) + 1 IN
         /\ Len(calls) \in Nat /\ DOMAIN calls = 1..Len(calls) /\ DOMAIN calls' = 1..n
         /\ \A k \in DOMAIN calls : calls'[k] = calls[k]
         /\ calls'[n].call = c /\ calls'[n].at = Len(words) /\ Len(words) \in Nat
         /\ Verdict(c) = "operand" => words' = words
         /\ Verdict(c) # "operand" => words' = Append(words, Word(c)) /\ Len(words') = Len(words) + 1
         /\ \A k \in DOMAIN calls : calls[k].at \in Nat /\ calls[k].call \in Calls
<1>1. calls \in Seq([call : Calls, at : Nat]) /\ words \in Seq(SUBSET Int)
  BY DEF TypeOK
<1>2. calls' = Append(calls, [call |-> c, at |-> Len(words)])
  BY DEF CallMethod
<1>3. Word(c) \in SUBSET Int
  BY WordType
<1>4. words' = IF Verdict(c) = "operand" THEN words ELSE Append(words, Word(c))
  BY DEF CallMethod, EmitWord
<1>5. \A k \in DOMAIN calls : calls[k] \in [call : Calls, at : Nat]
  BY <1>1, ElementType
<1>6. \A k \in DOMAIN calls : calls[k].at \in Nat /\ calls[k].call \in Calls
  BY <1>5
<1>7. Verdict(c) # "operand" => words' = Append(words, Word(c)) /\ Len(words') = Len(words) + 1
  BY <1>1, <1>3, <1>4
<1>8. /\ Len(calls) \in Nat /\ DOMAIN calls = 1..Len(calls)
      /\ DOMAIN calls' = 1..(Len(calls) + 1)
      /\ \A k \in DOMAIN calls : calls'[k] = calls[k]
      /\ calls'[Len(calls) + 1] = [call |-> c, at |-> Len(words)]
      /\ Len(words) \in Nat
  BY <1>1, <1>2
<1>9. QED
  BY <1>4, <1>6, <1>7, <1>8

\* Steps other than calls keep the calls, and the number of words.
LEMMA OtherSteps ==
  ASSUME TypeOK, [Next]_vars, ~\E c \in Calls : CallMethod(c)
  PROVE  UNCHANGED <<calls, errors>> /\ Len(words') = Len(words)
<1>1. CASE NewLabel
  BY <1>1 DEF NewLabel, history
<1>2. ASSUME NEW l \in 0..MaxLabels, Bind(l) PROVE UNCHANGED <<calls, errors, words>>
  BY <1>2 DEF Bind
<1>3. CASE BeginFinish
  BY <1>3 DEF BeginFinish, history
<1>4. CASE Patch
  <2>1. UNCHANGED <<calls, errors>>
    BY <1>4 DEF Patch, history
  <2>2. \/ words' = words
        \/ words' = [words EXCEPT ![Head(fixups).at + 1] =
                       Patched(words[Head(fixups).at + 1], Head(fixups))]
    BY <1>4 DEF Patch
  <2>3. Len(words') = Len(words)
    <3>1. words \in Seq(SUBSET Int)
      BY DEF TypeOK
    <3>2. words' \in Seq(SUBSET Int)
      BY TypeStep DEF TypeOK
    <3>3. DOMAIN words' = DOMAIN words
      BY <2>2
    <3>4. QED
      BY <3>1, <3>2, <3>3
  <2>4. QED
    BY <2>1, <2>3
<1>5. CASE EndFinish
  BY <1>5 DEF EndFinish, history
<1>6. CASE UNCHANGED vars
  BY <1>6 DEF vars, history
<1>7. QED
  BY <1>1, <1>2, <1>3, <1>4, <1>5, <1>6 DEF Next, Done

LEMMA OrderStep == TypeOK /\ OrderInv /\ [Next]_vars => OrderInv'
<1> SUFFICES ASSUME TypeOK, OrderInv, [Next]_vars PROVE OrderInv'
  OBVIOUS
<1>1. CASE \E c \in Calls : CallMethod(c)
  <2>1. PICK c \in Calls : CallMethod(c)
    BY <1>1
  <2>2. QED
    BY <2>1, CallsGrow DEF OrderInv, Emitted, Asked
<1>2. CASE ~\E c \in Calls : CallMethod(c)
  BY <1>2, OtherSteps DEF OrderInv, Emitted, Asked
<1>3. QED
  BY <1>1, <1>2

LEMMA ErrorStep == TypeOK /\ ErrorInv /\ [Next]_vars => ErrorInv'
<1> SUFFICES ASSUME TypeOK, ErrorInv, [Next]_vars PROVE ErrorInv'
  OBVIOUS
<1>0. errors \in Seq([kind : Reason, n : Nat]) /\ calls \in Seq([call : Calls, at : Nat])
  BY DEF TypeOK
<1>1. ASSUME NEW c \in Calls, CallMethod(c) PROVE ErrorInv'
  <2> DEFINE n == Len(calls) + 1
  <2>1. /\ DOMAIN calls' = 1..n /\ DOMAIN calls = 1..Len(calls) /\ Len(calls) \in Nat
        /\ calls'[n].call = c /\ \A k \in DOMAIN calls : calls'[k] = calls[k]
    BY <1>1, CallsGrow
  <2>2. errors' = IF Verdict(c) = "ok" THEN errors ELSE Append(errors, Error(Verdict(c), n))
    BY <1>1 DEF CallMethod, Record
  <2>3. pc = "building" /\ pc' = pc
    BY <1>1 DEF CallMethod
  <2>4. CASE errors = << >> /\ Verdict(c) = "ok"
    BY <2>1, <2>2, <2>3, <2>4 DEF ErrorInv, Fails, Asked
  <2>5. CASE errors = << >> /\ Verdict(c) # "ok"
    <3>1. errors' # << >> /\ Head(errors') = Error(Verdict(c), n)
      BY <2>2, <2>5
    <3>2. n \in DOMAIN calls' /\ Verdict(calls'[n].call) # "ok" /\ calls'[n].call = c
      BY <2>1, <2>5
    <3>3. \A j \in 1..(n - 1) : Verdict(calls'[j].call) = "ok"
      BY <2>1, <2>5 DEF ErrorInv, Fails, Asked
    <3>4. \E k \in DOMAIN calls' :
            /\ Verdict(calls'[k].call) # "ok" /\ Head(errors') = Error(Verdict(calls'[k].call), k)
            /\ \A j \in 1..(k - 1) : ~(Verdict(calls'[j].call) # "ok")
      BY <3>1, <3>2, <3>3
    <3>5. QED
      BY <3>1, <3>4, <2>3 DEF ErrorInv, Fails, Asked
  <2>6. CASE errors # << >>
    <3>1. PICK k \in DOMAIN calls :
            Fails(k) /\ Head(errors) = Error(Verdict(Asked(k)), k) /\ \A j \in 1..(k - 1) : ~Fails(j)
      BY <2>6 DEF ErrorInv
    <3>2. errors' # << >> /\ Head(errors') = Head(errors)
      <4>1. CASE Verdict(c) = "ok"
        BY <4>1, <2>2, <2>6
      <4>2. CASE Verdict(c) # "ok"
        BY <4>2, <2>2, <2>6, <1>0, AppendHead
      <4>3. QED
        BY <4>1, <4>2
    <3>3. k \in DOMAIN calls' /\ Asked(k)' = Asked(k) /\ Fails(k)' /\ \A j \in 1..(k - 1) : ~Fails(j)'
      BY <2>1, <3>1 DEF Fails, Asked
    <3>4. QED
      BY <3>1, <3>2, <3>3, <2>3 DEF ErrorInv
  <2>7. QED
    BY <2>4, <2>5, <2>6
<1>2. CASE ~\E c \in Calls : CallMethod(c)
  <2>1. UNCHANGED <<calls, errors>>
    BY <1>2, OtherSteps
  <2>2. pc' # "building" /\ errors # << >> => pc' = "done" /\ result' = Head(errors)
    <3> SUFFICES ASSUME pc' # "building", errors # << >> PROVE pc' = "done" /\ result' = Head(errors)
      OBVIOUS
    <3>1. CASE BeginFinish
      BY <3>1 DEF BeginFinish, Finish
    <3>2. CASE ~BeginFinish
      <4>1. pc # "building"
        BY <3>2, <1>2 DEF Next, NewLabel, Bind, Patch, EndFinish, Done, vars
      <4>2. pc = "done" /\ result = Head(errors)
        BY <4>1 DEF ErrorInv
      <4>3. UNCHANGED <<pc, result>>
        BY <4>2, <3>2, <1>2 DEF Next, NewLabel, Bind, Patch, EndFinish, Done, vars
      <4>4. QED
        BY <4>2, <4>3
    <3>3. QED
      BY <3>1, <3>2
  <2>3. QED
    BY <2>1, <2>2 DEF ErrorInv, Fails, Asked
<1>3. QED
  BY <1>1, <1>2

LEMMA LabelStep == TypeOK /\ LabelInv /\ [Next]_vars => LabelInv'
<1> SUFFICES ASSUME TypeOK, LabelInv, [Next]_vars PROVE LabelInv'
  OBVIOUS
<1>0. /\ labels \in Seq(Nat \cup {Unbound}) /\ MaxLabels \in Nat /\ Len(labels) <= MaxLabels
      /\ meant \in [0..MaxLabels -> Nat \cup {Unbound}] /\ Len(words) \in Nat
      /\ \A l \in 0..MaxLabels : meant[l] = Target(l)
  BY BoundsAssumption DEF TypeOK, LabelInv
<1>1. CASE NewLabel
  <2>1. /\ labels' = Append(labels, Unbound) /\ meant' = meant /\ Len(labels) < MaxLabels
    BY <1>1 DEF NewLabel, history
  <2>2. Len(labels') <= MaxLabels
    BY <2>1, <1>0
  <2>3. ASSUME NEW l \in 0..MaxLabels PROVE Target(l)' = Target(l)
    BY <2>1, <1>0 DEF Target, Unbound
  <2>4. QED
    BY <2>1, <2>2, <2>3, <1>0 DEF LabelInv
<1>2. ASSUME NEW l \in 0..MaxLabels, Bind(l) PROVE LabelInv'
  <2>1. CASE l < Len(labels)
    <3>1. labels' = [labels EXCEPT ![l + 1] = Len(words)] /\ meant' = [meant EXCEPT ![l] = Len(words)]
      BY <1>0, <1>2, <2>1 DEF Bind, BindLabel
    <3>2. Len(labels') = Len(labels) /\ DOMAIN labels' = DOMAIN labels
      BY <1>0, <3>1
    <3>3. ASSUME NEW m \in 0..MaxLabels PROVE meant'[m] = Target(m)'
      BY <1>0, <3>1, <3>2, <2>1 DEF Target
    <3>4. QED
      BY <1>0, <3>2, <3>3 DEF LabelInv
  <2>2. CASE ~(l < Len(labels))
    <3>1. labels' = labels /\ meant' = meant
      BY <1>0, <1>2, <2>2 DEF Bind, BindLabel
    <3>2. QED
      BY <1>0, <3>1 DEF LabelInv, Target
  <2>3. QED
    BY <2>1, <2>2
<1>3. CASE ~NewLabel /\ ~\E l \in 0..MaxLabels : Bind(l)
  <2>1. UNCHANGED <<labels, meant>>
    BY <1>3 DEF Next, CallMethod, BeginFinish, Patch, EndFinish, Done, vars, history
  <2>2. QED
    BY <1>0, <2>1 DEF LabelInv, Target
<1>4. QED
  BY <1>1, <1>2, <1>3

----------------------------------------------------------------------------
\* Fixups and the calls they come from.

\* A call that waits adds the last fixup.
LEMMA Appended ==
  ASSUME NEW S, NEW fxs \in Seq(FixupType), NEW cs \in Seq(S), NEW resolved,
         NEW fx \in FixupType, NEW e \in S, LeftBy(fx, e),
         \A j \in DOMAIN fxs : fxs[j].at < fx.at,
         Sourced(fxs, cs), Ordered(fxs), Covered(fxs, cs, resolved)
  PROVE  /\ Sourced(Append(fxs, fx), Append(cs, e)) /\ Ordered(Append(fxs, fx))
         /\ Covered(Append(fxs, fx), Append(cs, e), resolved)
<1> DEFINE more == Append(fxs, fx)
           calls2 == Append(cs, e)
<1>1. /\ Len(fxs) \in Nat /\ DOMAIN fxs = 1..Len(fxs) /\ DOMAIN more = 1..(Len(fxs) + 1)
      /\ more[Len(fxs) + 1] = fx /\ \A j \in DOMAIN fxs : more[j] = fxs[j]
  OBVIOUS
<1>2. /\ Len(cs) \in Nat /\ DOMAIN cs = 1..Len(cs) /\ DOMAIN calls2 = 1..(Len(cs) + 1)
      /\ calls2[Len(cs) + 1] = e /\ \A k \in DOMAIN cs : calls2[k] = cs[k]
  OBVIOUS
<1>3. DOMAIN fxs \subseteq DOMAIN more /\ Len(fxs) + 1 \in DOMAIN more
      /\ DOMAIN cs \subseteq DOMAIN calls2 /\ Len(cs) + 1 \in DOMAIN calls2
      /\ (\A j \in DOMAIN more : j \in DOMAIN fxs \/ j = Len(fxs) + 1)
      /\ (\A k \in DOMAIN calls2 : k \in DOMAIN cs \/ k = Len(cs) + 1)
  BY <1>1, <1>2
<1> HIDE DEF more, calls2
<1>4. Sourced(more, calls2)
  BY <1>1, <1>2, <1>3, Zenon DEF Sourced
<1>5. Ordered(more)
  <2> SUFFICES ASSUME NEW i \in DOMAIN more, NEW j \in DOMAIN more, i < j
               PROVE  more[i].at < more[j].at
    BY DEF Ordered
  <2>1. i \in DOMAIN fxs
    BY <1>1
  <2>2. QED
    BY <2>1, <1>1, <1>3 DEF Ordered
<1>6. Covered(more, calls2, resolved)
  BY <1>1, <1>2, <1>3, Zenon DEF Covered
<1>7. QED
  BY <1>4, <1>5, <1>6 DEF more, calls2

\* A call that waits for nothing adds no fixup.
LEMMA Unwaiting ==
  ASSUME NEW S, NEW fxs, NEW cs \in Seq(S), NEW resolved, NEW e \in S, ~Waits(e),
         Sourced(fxs, cs), Covered(fxs, cs, resolved)
  PROVE  Sourced(fxs, Append(cs, e)) /\ Covered(fxs, Append(cs, e), resolved)
<1> DEFINE calls2 == Append(cs, e)
<1>1. /\ Len(cs) \in Nat /\ DOMAIN cs = 1..Len(cs) /\ DOMAIN calls2 = 1..(Len(cs) + 1)
      /\ calls2[Len(cs) + 1] = e /\ \A k \in DOMAIN cs : calls2[k] = cs[k]
  OBVIOUS
<1>2. DOMAIN cs \subseteq DOMAIN calls2 /\ \A k \in DOMAIN calls2 : k \in DOMAIN cs \/ k = Len(cs) + 1
  BY <1>1
<1> HIDE DEF calls2
<1>3. Sourced(fxs, calls2)
  BY <1>1, <1>2, Zenon DEF Sourced
<1>4. Covered(fxs, calls2, resolved)
  BY <1>1, <1>2, Zenon DEF Covered
<1>5. QED
  BY <1>3, <1>4 DEF calls2

\* Patching drops the first fixup of a resolved label.
LEMMA Dropped ==
  ASSUME NEW fxs \in Seq(FixupType), fxs # << >>, NEW cs, NEW resolved,
         Head(fxs).label \in resolved,
         Sourced(fxs, cs), Ordered(fxs), Covered(fxs, cs, resolved)
  PROVE  Sourced(Tail(fxs), cs) /\ Ordered(Tail(fxs)) /\ Covered(Tail(fxs), cs, resolved)
<1> DEFINE rest == Tail(fxs)
<1>1. /\ \A j \in DOMAIN rest : j \in Nat /\ j + 1 \in DOMAIN fxs /\ rest[j] = fxs[j + 1]
      /\ \A j \in DOMAIN fxs : j # 1 => j - 1 \in DOMAIN rest /\ rest[j - 1] = fxs[j]
      /\ Head(fxs) = fxs[1]
  OBVIOUS
<1> HIDE DEF rest
<1>2. Sourced(rest, cs)
  BY <1>1, Zenon DEF Sourced
<1>3. Ordered(rest)
  <2> SUFFICES ASSUME NEW i \in DOMAIN rest, NEW j \in DOMAIN rest, i < j
               PROVE  rest[i].at < rest[j].at
    BY DEF Ordered
  <2>1. i + 1 \in DOMAIN fxs /\ j + 1 \in DOMAIN fxs /\ i + 1 < j + 1
    BY <1>1
  <2>2. QED
    BY <2>1, <1>1 DEF Ordered
<1>4. Covered(rest, cs, resolved)
  <2> SUFFICES ASSUME NEW k \in DOMAIN cs, Waits(cs[k]), cs[k].call.operand.n \notin resolved
               PROVE  \E j \in DOMAIN rest : LeftBy(rest[j], cs[k])
    BY Zenon DEF Covered
  <2>1. PICK j \in DOMAIN fxs : LeftBy(fxs[j], cs[k])
    BY Zenon DEF Covered
  <2>2. j # 1
    BY <2>1, <1>1 DEF LeftBy
  <2>3. QED
    BY <2>1, <2>2, <1>1, Zenon
<1>5. QED
  BY <1>2, <1>3, <1>4 DEF rest

LEMMA CoveredMore ==
  ASSUME NEW fxs, NEW cs, NEW r1, NEW r2, r1 \subseteq r2, Covered(fxs, cs, r1)
  PROVE  Covered(fxs, cs, r2)
BY Zenon DEF Covered

\* A label that is bound when finish runs is one the history knows.
LEMMA TargetResolved ==
  ASSUME TypeOK, LabelInv, pc # "building", NEW l \in Nat, Target(l) # Unbound
  PROVE  l \in Resolved
<1>1. labels \in Seq(Nat \cup {Unbound}) /\ Len(labels) <= MaxLabels /\ MaxLabels \in Nat
  BY BoundsAssumption DEF TypeOK, LabelInv
<1>2. l + 1 \in DOMAIN labels
  BY DEF Target
<1>3. l \in 0..MaxLabels
  BY <1>1, <1>2
<1>4. QED
  BY <1>3 DEF Resolved, LabelInv

LEMMA FixupStep == TypeOK /\ LabelInv /\ FixupInv /\ [Next]_vars => FixupInv'
<1> SUFFICES ASSUME TypeOK, LabelInv, FixupInv, [Next]_vars PROVE FixupInv'
  OBVIOUS
<1>0. fixups \in Seq(FixupType) /\ calls \in Seq([call : Calls, at : Nat]) /\ Len(words) \in Nat
      /\ \A j \in DOMAIN fixups : fixups[j].at < Len(words)
  BY DEF TypeOK
<1>1. ASSUME NEW c \in Calls, CallMethod(c) PROVE FixupInv'
  <2> DEFINE e == [call |-> c, at |-> Len(words)]
  <2>1. calls' = Append(calls, e) /\ e \in [call : Calls, at : Nat]
    BY <1>0, <1>1 DEF CallMethod
  <2>2. Resolved' = Resolved
    BY <1>1 DEF CallMethod, Resolved
  <2>3. CASE c.operand.kind = "id"
    <3>1. fixups' = Append(fixups, FixupOf(c))
      BY <1>1, <2>3 DEF CallMethod
    <3>2. FixupOf(c) \in FixupType /\ FixupOf(c).at = Len(words)
      BY <2>3, <1>0, CallTypes DEF FixupOf, FixupType
    <3>3. LeftBy(FixupOf(c), e)
      BY <2>3 DEF FixupOf, LeftBy, Waits
    <3>4. \A j \in DOMAIN fixups : fixups[j].at < FixupOf(c).at
      BY <1>0, <3>2
    <3>5. /\ Sourced(fixups', calls') /\ Ordered(fixups') /\ Covered(fixups', calls', Resolved)
      BY <1>0, <2>1, <3>1, <3>2, <3>3, <3>4, Appended, Zenon DEF FixupInv
    <3>6. QED
      BY <2>2, <3>5 DEF FixupInv
  <2>4. CASE c.operand.kind # "id"
    <3>1. fixups' = fixups
      BY <1>1, <2>4 DEF CallMethod
    <3>2. ~Waits(e)
      BY <2>4 DEF Waits
    <3>3. Sourced(fixups, calls') /\ Covered(fixups, calls', Resolved)
      BY <1>0, <2>1, <3>2, Unwaiting, Zenon DEF FixupInv
    <3>4. QED
      BY <2>2, <3>1, <3>3 DEF FixupInv
  <2>5. QED
    BY <2>3, <2>4
<1>2. CASE Patch
  <2>1. UNCHANGED <<calls, meant, labels>> /\ pc = "patching" /\ pc' # "building" /\ fixups # << >>
    BY <1>2 DEF Patch, history
  <2>2. Resolved' = Resolved
    BY <2>1 DEF Resolved
  <2>3. CASE Target(Head(fixups).label) = Unbound
    <3>1. fixups' = fixups
      BY <1>2, <2>3 DEF Patch
    <3>2. QED
      BY <2>1, <2>2, <3>1 DEF FixupInv
  <2>4. CASE Target(Head(fixups).label) # Unbound
    <3>1. fixups' = Tail(fixups)
      BY <1>2, <2>4 DEF Patch
    <3>2. Head(fixups).label \in Nat
      <4>1. Head(fixups) \in FixupType
        BY <1>0, <2>1, HeadType
      <4>2. QED
        BY <4>1 DEF FixupType
    <3>3. Head(fixups).label \in Resolved
      BY <2>1, <2>4, <3>2, TargetResolved
    <3>4. Sourced(Tail(fixups), calls) /\ Ordered(Tail(fixups)) /\ Covered(Tail(fixups), calls, Resolved)
      BY <1>0, <2>1, <3>3, Dropped, Zenon DEF FixupInv
    <3>5. QED
      BY <2>1, <2>2, <3>1, <3>4 DEF FixupInv
  <2>5. QED
    BY <2>3, <2>4
<1>3. CASE ~Patch /\ ~\E c \in Calls : CallMethod(c)
  <2>1. UNCHANGED <<calls, fixups>>
    BY <1>3 DEF Next, NewLabel, Bind, BeginFinish, EndFinish, Done, vars, history
  <2>2. Resolved \subseteq Resolved'
    <3>1. CASE pc = "building"
      BY <3>1 DEF Resolved
    <3>2. CASE pc # "building"
      BY <1>3, <3>2 DEF Resolved, Next, NewLabel, Bind, BeginFinish, EndFinish, Done, vars, history
    <3>3. QED
      BY <3>1, <3>2
  <2>3. Covered(fixups, calls, Resolved')
    BY <2>2, CoveredMore, Zenon DEF FixupInv
  <2>4. QED
    BY <2>1, <2>3 DEF FixupInv
<1>4. QED
  BY <1>1, <1>2, <1>3

LEMMA ResultStep == TypeOK /\ ResultInv /\ [Next]_vars => ResultInv'
<1> SUFFICES ASSUME TypeOK, ResultInv, [Next]_vars PROVE ResultInv'
  OBVIOUS
<1> USE DEF ResultInv, Pending, Ok, Error
<1>1. ASSUME NEW c \in Calls, CallMethod(c) PROVE ResultInv'
  BY <1>1 DEF CallMethod
<1>2. CASE NewLabel
  BY <1>2 DEF NewLabel
<1>3. ASSUME NEW l \in 0..MaxLabels, Bind(l) PROVE ResultInv'
  BY <1>3 DEF Bind
<1>4. CASE BeginFinish
  <2>1. CASE errors = << >>
    BY <1>4, <2>1 DEF BeginFinish, Finish
  <2>2. CASE errors # << >>
    <3>1. errors \in Seq([kind : Reason, n : Nat])
      BY DEF TypeOK
    <3>2. Head(errors) \in [kind : Reason, n : Nat]
      BY <2>2, <3>1, HeadType
    <3>3. Head(errors).kind # "ok" /\ Head(errors).kind # "pending"
      BY <3>2 DEF Reason
    <3>4. pc' = "done" /\ result' = Head(errors)
      BY <1>4, <2>2 DEF BeginFinish, Finish
    <3>5. errors' = errors
      BY <1>4 DEF BeginFinish
    <3>6. QED
      BY <2>2, <3>3, <3>4, <3>5
  <2>3. QED
    BY <2>1, <2>2
<1>5. CASE Patch
  <2>1. labels' = labels /\ errors' = errors /\ result = Pending /\ errors = << >> /\ fixups # << >>
    BY <1>5 DEF Patch
  <2>2. CASE Target(Head(fixups).label) = Unbound
    BY <1>5, <2>1, <2>2 DEF Patch, Target
  <2>3. CASE Target(Head(fixups).label) # Unbound
    BY <1>5, <2>1, <2>3 DEF Patch
  <2>4. QED
    BY <2>2, <2>3
<1>6. CASE EndFinish
  BY <1>6 DEF EndFinish
<1>7. CASE UNCHANGED vars
  BY <1>7 DEF vars, Target
<1>8. QED
  BY <1>1, <1>2, <1>3, <1>4, <1>5, <1>6, <1>7 DEF Next, Done

----------------------------------------------------------------------------
\* What finish answers.

\* The word a call built is its own.
LEMMA OneCallPerWord ==
  ASSUME TypeOK, OrderInv, NEW j \in DOMAIN calls, NEW k \in DOMAIN calls,
         Emitted(j), Emitted(k), calls[j].at = calls[k].at
  PROVE  j = k
<1>1. j \in Int /\ k \in Int /\ calls[j].at \in Nat
  <2>1. calls \in Seq([call : Calls, at : Nat])
    BY DEF TypeOK
  <2>2. calls[j] \in [call : Calls, at : Nat]
    BY <2>1, ElementType
  <2>3. QED
    BY <2>1, <2>2
<1>2. ~(j < k) /\ ~(k < j)
  BY <1>1 DEF OrderInv
<1>3. QED
  BY <1>1, <1>2

\* A call that waits for a label was accepted.
LEMMA WaitingEmitted ==
  ASSUME NEW k, Waits(calls[k])
  PROVE  Verdict(Asked(k)) = "ok" /\ Emitted(k)
BY DEF Waits, Verdict, Asked, Emitted

Invs == TypeOK /\ OrderInv /\ ErrorInv /\ LabelInv /\ FixupInv /\ ResultInv

LEMMA InvsInit == Init => Invs
<1> SUFFICES ASSUME Init PROVE Invs
  OBVIOUS
<1>1. TypeOK
  BY TypeInit
<1>2. /\ words = << >> /\ labels = << >> /\ fixups = << >> /\ errors = << >> /\ calls = << >>
      /\ pc = "building" /\ result = Pending /\ meant = [l \in 0..MaxLabels |-> Unbound]
  BY DEF Init
<1>3. OrderInv /\ ErrorInv
  BY <1>2 DEF OrderInv, ErrorInv
<1>4. LabelInv
  BY <1>2, BoundsAssumption DEF LabelInv, Target
<1>5. FixupInv
  BY <1>2 DEF FixupInv, Sourced, Ordered, Covered
<1>6. ResultInv
  BY <1>2 DEF ResultInv, Pending, Ok, Error
<1>7. QED
  BY <1>1, <1>3, <1>4, <1>5, <1>6 DEF Invs

LEMMA InvsStep == Invs /\ [Next]_vars => Invs'
BY TypeStep, OrderStep, ErrorStep, LabelStep, FixupStep, ResultStep, Zenon DEF Invs

\* Binding positions agree with the labels for every number a call may name.
LEMMA MeantIsTarget ==
  ASSUME TypeOK, LabelInv, NEW l \in Nat
  PROVE  Meant(l) = Target(l)
<1>1. labels \in Seq(Nat \cup {Unbound}) /\ Len(labels) <= MaxLabels /\ MaxLabels \in Nat
  BY BoundsAssumption DEF TypeOK, LabelInv
<1>2. CASE l \in 0..MaxLabels
  BY <1>2 DEF LabelInv, Meant
<1>3. CASE l \notin 0..MaxLabels
  <2>1. l + 1 \notin DOMAIN labels
    BY <1>1, <1>3
  <2>2. QED
    BY <1>3, <2>1 DEF Meant, Target
<1>4. QED
  BY <1>2, <1>3

LEMMA RefuseLemma == Invs => ErrorsRefuse
<1> SUFFICES ASSUME Invs, Succeeded, NEW k \in DOMAIN calls PROVE ~Fails(k) /\ ~Hangs(k)
  BY DEF ErrorsRefuse
<1>1. result = Ok /\ result # Pending
  BY DEF Succeeded, Ok, Pending, Error
<1>2. fixups = << >> /\ errors = << >> /\ pc # "building"
  BY <1>1 DEF Invs, ResultInv
<1>3. ~Fails(k)
  BY <1>2 DEF Invs, ErrorInv
<1>4. ASSUME Hangs(k) PROVE FALSE
  <2>1. Waits(calls[k]) /\ Meant(Asked(k).operand.n) = Unbound
    BY <1>4 DEF Hangs, Waits, Asked
  <2>2. calls[k].call.operand.n \in Resolved
    BY <1>2, <2>1 DEF Invs, FixupInv, Covered
  <2>3. QED
    BY <2>1, <2>2, <1>2 DEF Resolved, Meant, Asked
<1>5. QED
  BY <1>3, <1>4

LEMMA FirstLemma == Invs => FirstFailure
<1> SUFFICES ASSUME Invs, result.kind \notin {"pending", "ok"} PROVE FirstFailure
  BY DEF FirstFailure
<1>1. result # Ok /\ result # Pending
  BY DEF Ok, Pending, Error
<1>2. pc = "done"
  BY <1>1 DEF Invs, ResultInv, TypeOK
<1>3. CASE errors # << >>
  <2>1. PICK k \in DOMAIN calls :
          Fails(k) /\ Head(errors) = Error(Verdict(Asked(k)), k) /\ \A j \in 1..(k - 1) : ~Fails(j)
    BY <1>3 DEF Invs, ErrorInv
  <2>2. result = Head(errors)
    BY <1>2, <1>3 DEF Invs, ErrorInv
  <2>3. QED
    BY <2>1, <2>2, Zenon DEF FirstFailure
<1>4. CASE errors = << >>
  <2> DEFINE fx == Head(fixups)
  <2>1. fixups # << >> /\ Target(fx.label) = Unbound /\ result = Error("unbound", fx.label)
    BY <1>1, <1>2, <1>4 DEF Invs, ResultInv
  <2>2. \A k \in DOMAIN calls : ~Fails(k)
    BY <1>4 DEF Invs, ErrorInv
  <2>3. /\ fixups \in Seq(FixupType) /\ 1 \in DOMAIN fixups /\ fx = fixups[1]
        /\ calls \in Seq([call : Calls, at : Nat])
    BY <2>1 DEF Invs, TypeOK
  <2>4. PICK k \in DOMAIN calls : LeftBy(fixups[1], calls[k])
    BY <2>3, Zenon DEF Invs, FixupInv, Sourced
  <2>5. Asked(k).operand.kind = "id" /\ Asked(k).operand.n = fx.label /\ fx.at = calls[k].at
    BY <2>3, <2>4 DEF LeftBy, Waits, Asked
  <2>6. fx.label \in Nat /\ fx.at \in Nat
    BY <2>3, FixupFields
  <2>7. Meant(fx.label) = Unbound
    BY <2>1, <2>6, MeantIsTarget DEF Invs
  <2>8. Hangs(k)
    BY <2>5, <2>7 DEF Hangs
  <2>9. ASSUME NEW j \in 1..(k - 1), Hangs(j) PROVE FALSE
    <3>1. j \in DOMAIN calls /\ j < k
      BY <2>3
    <3>2. Waits(calls[j]) /\ Meant(calls[j].call.operand.n) = Unbound
      BY <2>9 DEF Hangs, Waits, Asked
    <3>3. calls[j].call.operand.n \notin Resolved
      BY <3>2, <1>2 DEF Resolved, Meant
    <3>4. PICK i \in DOMAIN fixups : LeftBy(fixups[i], calls[j])
      BY <3>1, <3>2, <3>3, Zenon DEF Invs, FixupInv, Covered
    <3>5. fixups[i].at = calls[j].at /\ fixups[i].at \in Nat
      BY <2>3, <3>4, FixupFields DEF LeftBy
    <3>6. calls[j].at < calls[k].at
      BY <3>1, <3>2, WaitingEmitted DEF Invs, OrderInv
    <3>7. i = 1 \/ fixups[1].at < fixups[i].at
      BY <2>3 DEF Invs, FixupInv, Ordered
    <3>8. QED
      BY <2>3, <2>5, <2>6, <3>5, <3>6, <3>7
  <2>10. result = Error("unbound", Asked(k).operand.n)
    BY <2>1, <2>5
  <2>11. QED
    BY <2>2, <2>8, <2>9, <2>10, Zenon DEF FirstFailure
<1>5. QED
  BY <1>3, <1>4

\* finish returns words only when every call was accepted and every label that
\* a branch names was bound; the error it returns otherwise is that of the first
\* call that failed or, with none, of the first branch to a label never bound.
THEOREM FinishIsRight == Spec => []FinishAnswers
<1>1. Init => Invs
  BY InvsInit
<1>2. Invs /\ [Next]_vars => Invs'
  BY InvsStep
<1>3. Invs => FinishAnswers
  BY RefuseLemma, FirstLemma DEF FinishAnswers
<1>4. QED
  BY <1>1, <1>2, <1>3, PTL DEF Spec

----------------------------------------------------------------------------
\* What finish does to the words.

LEMMA SimpleSpan ==
  ASSUME NEW f \in FormType, Simple(f), f.start \in Nat
  PROVE  Span(f.parts) = Mask(f.start, f.width)
<1>1. f.parts = <<[start |-> f.start, width |-> f.width, lit |-> {}]>>
  BY DEF Simple
<1>2. Stored(f.parts) = {1} /\ f.parts[1].start = f.start /\ f.parts[1].width = f.width
  BY <1>1 DEF Stored
<1>3. QED
  BY <1>2 DEF Span

\* Only bits of the field are written.
LEMMA ShiftInMask ==
  ASSUME NEW v, NEW width \in Nat, NEW start \in Nat
  PROVE  Shift(BitsOf(v, width), start) \subseteq Mask(start, width)
<1>1. BitsOf(v, width) \subseteq 0..(width - 1)
  BY DEF BitsOf
<1>2. \A b \in 0..(width - 1) : b + start \in Mask(start, width)
  BY DEF Mask
<1>3. QED
  BY <1>1, <1>2, Zenon DEF Shift

LEMMA FormFields ==
  ASSUME TypeOK, NEW k \in DOMAIN calls
  PROVE  /\ calls[k].at \in Nat /\ Asked(k) \in Calls /\ Asked(k).form \in FormType
         /\ Asked(k).form.start \in Nat /\ Asked(k).form.width \in Nat
<1>1. calls \in Seq([call : Calls, at : Nat])
  BY DEF TypeOK
<1>2. calls[k] \in [call : Calls, at : Nat]
  BY <1>1, ElementType
<1>3. QED
  BY <1>2, CallTypes DEF Asked

\* A patch changes one word, inside the field of the call that left the fixup.
LEMMA PatchEffect ==
  ASSUME Invs, Patch, Target(Head(fixups).label) # Unbound
  PROVE  \E k \in DOMAIN calls :
           /\ LeftBy(Head(fixups), calls[k])
           /\ WordOf(k)' = Patched(WordOf(k), Head(fixups))
           /\ \A j \in DOMAIN calls : Emitted(j) /\ j # k => WordOf(j)' = WordOf(j)
<1> DEFINE fx == Head(fixups)
<1>1. /\ fixups \in Seq(FixupType) /\ fixups # << >> /\ words \in Seq(SUBSET Int)
      /\ calls' = calls /\ words' = [words EXCEPT ![fx.at + 1] = Patched(words[fx.at + 1], fx)]
  BY DEF Patch, history, Invs, TypeOK
<1>2. 1 \in DOMAIN fixups /\ fx = fixups[1]
  BY <1>1
<1>3. PICK k \in DOMAIN calls : LeftBy(fx, calls[k])
  BY <1>2, Zenon DEF Invs, FixupInv, Sourced
<1>4. fx.at = calls[k].at /\ Waits(calls[k])
  BY <1>3 DEF LeftBy
<1>5. Emitted(k)
  BY <1>4, WaitingEmitted
<1>6. ASSUME NEW j \in DOMAIN calls, Emitted(j)
      PROVE  calls[j].at \in Nat /\ calls[j].at + 1 \in DOMAIN words
  <2>1. calls[j].at \in Nat /\ calls[j].at < Len(words)
    BY <1>6, FormFields DEF Invs, OrderInv
  <2>2. QED
    BY <2>1, <1>1
<1>7. WordOf(k)' = Patched(WordOf(k), fx)
  BY <1>1, <1>4, <1>5, <1>6 DEF WordOf
<1>8. ASSUME NEW j \in DOMAIN calls, Emitted(j), j # k PROVE WordOf(j)' = WordOf(j)
  <2>1. calls[j].at # calls[k].at
    BY <1>5, <1>8, OneCallPerWord DEF Invs
  <2>2. calls[j].at + 1 # fx.at + 1
    BY <2>1, <1>4, <1>5, <1>6, <1>8
  <2>3. QED
    BY <1>1, <1>6, <1>8, <2>2 DEF WordOf
<1>9. QED
  BY <1>3, <1>7, <1>8

\* Words once emitted are changed by finish only.
LEMMA WordsKept ==
  ASSUME Invs, [Next]_vars, NEW k \in DOMAIN calls, Emitted(k),
         ~(Patch /\ Target(Head(fixups).label) # Unbound)
  PROVE  k \in DOMAIN calls' /\ calls'[k] = calls[k] /\ WordOf(k)' = WordOf(k)
<1>1. words \in Seq(SUBSET Int) /\ calls[k].at \in Nat /\ calls[k].at < Len(words)
  BY FormFields DEF Invs, TypeOK, OrderInv
<1>2. ASSUME NEW c \in Calls, CallMethod(c)
      PROVE  k \in DOMAIN calls' /\ calls'[k] = calls[k] /\ WordOf(k)' = WordOf(k)
  <2>1. k \in DOMAIN calls' /\ calls'[k] = calls[k]
    BY <1>2, CallsGrow DEF Invs
  <2>2. words' = words \/ words' = Append(words, Word(c))
    BY <1>2 DEF CallMethod, EmitWord
  <2>3. words'[calls[k].at + 1] = words[calls[k].at + 1]
    BY <1>1, <2>2
  <2>4. QED
    BY <2>1, <2>3 DEF WordOf
<1>3. CASE ~\E c \in Calls : CallMethod(c)
  <2>1. UNCHANGED <<words, calls>>
    BY <1>3 DEF Next, NewLabel, Bind, BeginFinish, Patch, EndFinish, Done, vars, history
  <2>2. QED
    BY <2>1 DEF WordOf
<1>4. QED
  BY <1>2, <1>3

LEMMA WordKept ==
  ASSUME NEW c \in Calls, Simple(c.form), c.form.kind = "label"
  PROVE  Word(c) \ Span(c.form.parts) = c.form.fixed \ Span(c.form.parts)
<1> DEFINE f == c.form
<1>1. Span(f.parts) = Mask(f.start, f.width) /\ f.width \in Nat /\ f.start \in Nat
  BY CallTypes, SimpleSpan
<1>2. Shift(BitsOf(c.operand.n \div LabelScale, f.width), f.start) \subseteq Span(f.parts)
  BY <1>1, ShiftInMask
<1>3. c.operand.kind # "value"
  BY CallsAssumption
<1>4. Word(c) = f.fixed \/ Word(c) = f.fixed \cup Shift(BitsOf(c.operand.n \div LabelScale, f.width), f.start)
  BY <1>3 DEF Word
<1>5. QED
  BY <1>2, <1>4

LEMMA OpcodesStep == Invs /\ OpcodesKept /\ [Next]_vars => OpcodesKept'
<1> DEFINE Kept(w, f) == w \ Span(f.parts) = f.fixed \ Span(f.parts)
           Plain(k) == Emitted(k) /\ Simple(Asked(k).form) /\ Asked(k).form.kind = "label"
<1> SUFFICES ASSUME Invs, OpcodesKept, [Next]_vars,
                    NEW k \in DOMAIN calls', Plain(k)'
             PROVE  Kept(WordOf(k)', Asked(k)'.form)
  BY DEF OpcodesKept, Emitted
<1>1. CASE k \notin DOMAIN calls
  <2>1. PICK c \in Calls : CallMethod(c)
    BY <1>1, OtherSteps DEF Invs
  <2>2. Asked(k)' = c /\ calls'[k].at = Len(words)
    BY <1>1, <2>1, CallsGrow DEF Invs, Asked
  <2>3. words' = Append(words, Word(c)) /\ words \in Seq(SUBSET Int)
    BY <2>1, <2>2, CallsGrow DEF Invs, TypeOK, Emitted
  <2>4. WordOf(k)' = Word(c)
    BY <2>2, <2>3 DEF WordOf
  <2>5. Simple(c.form) /\ c.form.kind = "label"
    BY <2>2
  <2>6. QED
    BY <2>2, <2>4, <2>5, WordKept
<1>2. CASE k \in DOMAIN calls
  <2>1. calls'[k] = calls[k] /\ Asked(k)' = Asked(k) /\ Plain(k)
    <3>1. calls'[k] = calls[k]
      <4>1. CASE \E c \in Calls : CallMethod(c)
        BY <1>2, <4>1, CallsGrow DEF Invs
      <4>2. CASE ~\E c \in Calls : CallMethod(c)
        BY <4>2, OtherSteps DEF Invs
      <4>3. QED
        BY <4>1, <4>2
    <3>2. QED
      BY <3>1 DEF Asked, Emitted
  <2>2. Kept(WordOf(k), Asked(k).form)
    BY <1>2, <2>1 DEF OpcodesKept, Emitted
  <2>3. CASE ~(Patch /\ Target(Head(fixups).label) # Unbound)
    BY <1>2, <2>1, <2>2, <2>3, WordsKept
  <2>4. CASE Patch /\ Target(Head(fixups).label) # Unbound
    <3>1. PICK j \in DOMAIN calls :
            /\ LeftBy(Head(fixups), calls[j])
            /\ WordOf(j)' = Patched(WordOf(j), Head(fixups))
            /\ \A i \in DOMAIN calls : Emitted(i) /\ i # j => WordOf(i)' = WordOf(i)
      BY <2>4, PatchEffect
    <3>2. CASE k # j
      BY <1>2, <2>1, <2>2, <3>1, <3>2
    <3>3. CASE k = j
      <4> DEFINE f == Asked(k).form
                 fx == Head(fixups)
      <4>1. fx.start = f.start /\ fx.width = f.width
        BY <3>1, <3>3 DEF LeftBy, Asked
      <4>2. f \in FormType /\ f.start \in Nat /\ f.width \in Nat
        BY <1>2, FormFields DEF Invs
      <4>3. Span(f.parts) = Mask(f.start, f.width)
        BY <2>1, <4>2, SimpleSpan
      <4>4. Shift(BitsOf(Scaled(fx), f.width), f.start) \subseteq Mask(f.start, f.width)
        BY <4>2, ShiftInMask
      <4>5. Patched(WordOf(k), fx) =
              (WordOf(k) \ Mask(f.start, f.width)) \cup Shift(BitsOf(Scaled(fx), f.width), f.start)
        BY <4>1 DEF Patched
      <4>6. WordOf(k)' = Patched(WordOf(k), fx)
        BY <3>1, <3>3
      <4> HIDE DEF f, fx
      <4>7. Kept(WordOf(k)', f)
        BY <2>2, <4>3, <4>4, <4>5, <4>6 DEF f
      <4>8. QED
        BY <2>1, <4>7 DEF f
    <3>4. QED
      BY <3>2, <3>3
  <2>5. QED
    BY <2>3, <2>4
<1>3. QED
  BY <1>1, <1>2

\* A fixup never touches the bits that fix the instruction, in a word whose
\* label has one field.
THEOREM FixupsKeepOpcodes == Spec => []OpcodesKept
<1>1. Init => Invs /\ OpcodesKept
  <2>1. Init => OpcodesKept
    BY DEF Init, OpcodesKept
  <2>2. QED
    BY <2>1, InvsInit
<1>2. Invs /\ OpcodesKept /\ [Next]_vars => (Invs /\ OpcodesKept)'
  BY InvsStep, OpcodesStep
<1>3. QED
  BY <1>1, <1>2, PTL DEF Spec

\* A call that waits still has its fixup, or its word holds the distance to
\* its label, which no longer moves.
StoredAt(k) == Holds(WordOf(k), calls[k], Meant(calls[k].call.operand.n))
HasFixup(k) == \E j \in DOMAIN fixups : LeftBy(fixups[j], calls[k])
StoredInv ==
  \A k \in DOMAIN calls : Waits(calls[k]) => HasFixup(k) \/ (pc # "building" /\ StoredAt(k))

\* Replacing the bits of a field by others of that field leaves just those.
LEMMA FieldReplaced ==
  ASSUME NEW w, NEW mask, NEW bits, bits \subseteq mask
  PROVE  ((w \ mask) \cup bits) \cap mask = bits
OBVIOUS

\* A patch stores the distance to the label in the word that waits for it.
LEMMA PatchStores ==
  ASSUME Invs, Patch, Target(Head(fixups).label) # Unbound,
         NEW k \in DOMAIN calls, LeftBy(Head(fixups), calls[k]),
         WordOf(k)' = Patched(WordOf(k), Head(fixups))
  PROVE  StoredAt(k)'
<1> DEFINE fx == Head(fixups)
           f == calls[k].call.form
           l == calls[k].call.operand.n
           bits == Shift(BitsOf(Meant(l) - calls[k].at, f.width), f.start)
<1>1. /\ fx.at = calls[k].at /\ fx.label = l /\ fx.start = f.start /\ fx.width = f.width
      /\ Waits(calls[k])
  BY DEF LeftBy
<1>2. f.start \in Nat /\ f.width \in Nat /\ calls[k].at \in Nat /\ l \in Nat
  <2>1. calls[k].call \in Calls
    BY FormFields DEF Invs, Asked
  <2>2. QED
    BY <1>1, <2>1, FormFields, CallTypes DEF Invs, Asked, Waits
<1>3. Meant(l) = Target(l) /\ Meant(l) \in Int
  <2>1. Meant(l) = Target(l)
    BY <1>2, MeantIsTarget DEF Invs
  <2>2. meant \in [0..MaxLabels -> Nat \cup {Unbound}]
    BY DEF Invs, TypeOK
  <2>3. QED
    BY <2>1, <2>2 DEF Meant, Unbound
<1>4. Scaled(fx) = Meant(l) - calls[k].at
  BY <1>1, <1>2, <1>3 DEF Scaled, LabelScale
<1>5. Patched(WordOf(k), fx) = (WordOf(k) \ Mask(f.start, f.width)) \cup bits
  BY <1>1, <1>4 DEF Patched
<1>6. bits \subseteq Mask(f.start, f.width)
  BY <1>2, ShiftInMask
<1>7. WordOf(k)' \cap Mask(f.start, f.width) = bits
  BY <1>5, <1>6, FieldReplaced
<1>8. calls' = calls /\ meant' = meant
  BY DEF Patch, history
<1>9. Holds(WordOf(k)', calls[k], Meant(l))
  BY <1>7 DEF Holds
<1>10. Meant(l)' = Meant(l)
  BY <1>8 DEF Meant
<1>11. QED
  BY <1>8, <1>9, <1>10 DEF StoredAt

LEMMA StoredStep == Invs /\ StoredInv /\ [Next]_vars => StoredInv'
<1> SUFFICES ASSUME Invs, StoredInv, [Next]_vars PROVE StoredInv'
  OBVIOUS
<1>0. FixupInv'
  BY InvsStep DEF Invs
<1>1. CASE pc' = "building"
  <2>1. Covered(fixups', calls', {})
    BY <1>0, <1>1 DEF FixupInv, Resolved
  <2>2. \A k \in DOMAIN calls' : Waits(calls'[k]) =>
          \E j \in DOMAIN fixups' : LeftBy(fixups'[j], calls'[k])
    BY <2>1, Zenon DEF Covered
  <2>3. \A k \in DOMAIN calls' : Waits(calls'[k]) => HasFixup(k)'
    BY <2>2, Zenon DEF HasFixup
  <2>4. QED
    BY <2>3, Zenon DEF StoredInv
<1>2. CASE pc = "building" /\ pc' # "building"
  <2>1. UNCHANGED <<calls, fixups>>
    BY <1>2 DEF Next, CallMethod, NewLabel, Bind, BeginFinish, Patch, EndFinish, Done, vars, history
  <2>2. Covered(fixups, calls, {})
    BY <1>2 DEF Invs, FixupInv, Resolved
  <2>3. Covered(fixups', calls', {})
    BY <2>1, <2>2
  <2>4. \A k \in DOMAIN calls' : Waits(calls'[k]) =>
          \E j \in DOMAIN fixups' : LeftBy(fixups'[j], calls'[k])
    BY <2>3, Zenon DEF Covered
  <2>5. \A k \in DOMAIN calls' : Waits(calls'[k]) => HasFixup(k)'
    BY <2>4, Zenon DEF HasFixup
  <2>6. QED
    BY <2>5, Zenon DEF StoredInv
<1>3. CASE pc # "building" /\ pc' # "building"
  <2>1. UNCHANGED <<calls, meant>>
    BY <1>3 DEF Next, CallMethod, NewLabel, Bind, BeginFinish, Patch, EndFinish, Done, vars, history
  <2>2. CASE ~(Patch /\ Target(Head(fixups).label) # Unbound)
    <3>1. UNCHANGED <<words, fixups>>
      BY <1>3, <2>2 DEF Next, CallMethod, NewLabel, Bind, BeginFinish, Patch, EndFinish, Done, vars
    <3>2. QED
      BY <1>3, <2>1, <3>1 DEF StoredInv, HasFixup, StoredAt, WordOf, Meant
  <2>3. CASE Patch /\ Target(Head(fixups).label) # Unbound
    <3>1. PICK j \in DOMAIN calls :
            /\ LeftBy(Head(fixups), calls[j])
            /\ WordOf(j)' = Patched(WordOf(j), Head(fixups))
            /\ \A i \in DOMAIN calls : Emitted(i) /\ i # j => WordOf(i)' = WordOf(i)
      BY <2>3, PatchEffect
    <3>2. StoredAt(j)'
      BY <2>3, <3>1, PatchStores
    <3>3. ASSUME NEW k \in DOMAIN calls, Waits(calls[k]), k # j
          PROVE  HasFixup(k)' \/ StoredAt(k)'
      <4>1. Emitted(k) /\ Emitted(j) /\ Waits(calls[j])
        BY <3>1, <3>3, WaitingEmitted DEF LeftBy
      <4>2. CASE StoredAt(k)
        <5>1. WordOf(k)' = WordOf(k)
          BY <3>1, <3>3, <4>1
        <5>2. Meant(calls[k].call.operand.n)' = Meant(calls[k].call.operand.n)
          BY <2>1 DEF Meant
        <5>3. QED
          BY <4>2, <5>1, <5>2, <2>1 DEF StoredAt
      <4>3. CASE HasFixup(k)
        <5>1. PICK i \in DOMAIN fixups : LeftBy(fixups[i], calls[k])
          BY <4>3 DEF HasFixup
        <5>2. fixups \in Seq(FixupType) /\ fixups # << >> /\ fixups' = Tail(fixups)
          BY <2>3 DEF Patch, Invs, TypeOK
        <5>3. i # 1
          <6>1. CASE i = 1
            <7>1. fixups[1].at = calls[k].at /\ fixups[1].at = calls[j].at
              BY <5>1, <5>2, <6>1, <3>1 DEF LeftBy
            <7>2. QED
              BY <7>1, <3>3, <4>1, OneCallPerWord DEF Invs
          <6>2. QED
            BY <6>1
        <5>4. i - 1 \in DOMAIN fixups' /\ fixups'[i - 1] = fixups[i]
          BY <5>2, <5>3
        <5>5. QED
          BY <2>1, <5>1, <5>4 DEF HasFixup
      <4>4. QED
        BY <3>3, <4>2, <4>3, <1>3 DEF StoredInv
    <3>4. \A k \in DOMAIN calls' : Waits(calls'[k]) => HasFixup(k)' \/ StoredAt(k)'
      <4> SUFFICES ASSUME NEW k \in DOMAIN calls', Waits(calls'[k])
                   PROVE  HasFixup(k)' \/ StoredAt(k)'
        OBVIOUS
      <4>1. k \in DOMAIN calls /\ Waits(calls[k])
        BY <2>1
      <4>2. CASE k = j
        <5>1. StoredAt(k)'
          BY <3>2, <4>2
        <5>2. QED
          BY <5>1
      <4>3. CASE k # j
        BY <3>3, <4>1, <4>3
      <4>4. QED
        BY <4>2, <4>3
    <3>5. QED
      BY <1>3, <3>4, Zenon DEF StoredInv
  <2>4. QED
    BY <2>2, <2>3
<1>4. QED
  BY <1>1, <1>2, <1>3

\* When finish succeeds, every branch to a label holds its own distance to
\* where the label was last bound, modulo what its field can hold.
THEOREM LabelsArePatched == Spec => []DistancesStored
<1>1. Init => Invs /\ StoredInv
  <2>1. Init => StoredInv
    BY DEF Init, StoredInv
  <2>2. QED
    BY <2>1, InvsInit
<1>2. Invs /\ StoredInv /\ [Next]_vars => (Invs /\ StoredInv)'
  BY InvsStep, StoredStep
<1>3. Invs /\ StoredInv => DistancesStored
  <2> SUFFICES ASSUME Invs, StoredInv, Succeeded, NEW k \in DOMAIN calls, Waits(calls[k])
               PROVE  StoredAt(k)
    BY DEF DistancesStored, StoredAt, Waits, Asked
  <2>1. fixups = << >>
    BY DEF Invs, ResultInv, Succeeded
  <2>2. ~HasFixup(k)
    BY <2>1 DEF HasFixup
  <2>3. QED
    BY <2>2 DEF StoredInv
<1>4. QED
  BY <1>1, <1>2, <1>3, PTL DEF Spec

----------------------------------------------------------------------------
\* Words say what was asked for.

\* A word that waits for no label is as its call built it.
KeptInv ==
  \A k \in DOMAIN calls : Emitted(k) /\ ~Waits(calls[k]) => WordOf(k) = Word(Asked(k))

LEMMA KeptStep == Invs /\ KeptInv /\ [Next]_vars => KeptInv'
<1> SUFFICES ASSUME Invs, KeptInv, [Next]_vars,
                    NEW k \in DOMAIN calls', Emitted(k)', ~Waits(calls'[k])
             PROVE  WordOf(k)' = Word(Asked(k)')
  BY DEF KeptInv
<1>1. CASE k \notin DOMAIN calls
  <2>1. PICK c \in Calls : CallMethod(c)
    BY <1>1, OtherSteps DEF Invs
  <2>2. Asked(k)' = c /\ calls'[k].at = Len(words)
    BY <1>1, <2>1, CallsGrow DEF Invs, Asked
  <2>3. words' = Append(words, Word(c)) /\ words \in Seq(SUBSET Int)
    BY <2>1, <2>2, CallsGrow DEF Invs, TypeOK, Emitted
  <2>4. WordOf(k)' = Word(c)
    BY <2>2, <2>3 DEF WordOf
  <2>5. QED
    BY <2>2, <2>4
<1>2. CASE k \in DOMAIN calls
  <2>1. calls'[k] = calls[k]
    <3>1. CASE \E c \in Calls : CallMethod(c)
      BY <1>2, <3>1, CallsGrow DEF Invs
    <3>2. CASE ~\E c \in Calls : CallMethod(c)
      BY <3>2, OtherSteps DEF Invs
    <3>3. QED
      BY <3>1, <3>2
  <2>2. Asked(k)' = Asked(k) /\ Emitted(k) /\ ~Waits(calls[k])
    BY <2>1 DEF Asked, Emitted
  <2>3. WordOf(k)' = WordOf(k)
    <3>1. CASE ~(Patch /\ Target(Head(fixups).label) # Unbound)
      BY <1>2, <2>2, <3>1, WordsKept
    <3>2. CASE Patch /\ Target(Head(fixups).label) # Unbound
      <4>1. PICK j \in DOMAIN calls :
              /\ LeftBy(Head(fixups), calls[j])
              /\ WordOf(j)' = Patched(WordOf(j), Head(fixups))
              /\ \A i \in DOMAIN calls : Emitted(i) /\ i # j => WordOf(i)' = WordOf(i)
        BY <3>2, PatchEffect
      <4>2. k # j
        BY <2>2, <4>1 DEF LeftBy
      <4>3. QED
        BY <1>2, <2>2, <4>1, <4>2
    <3>3. QED
      BY <3>1, <3>2
  <2>4. QED
    BY <1>2, <2>2, <2>3 DEF KeptInv
<1>3. QED
  BY <1>1, <1>2

\* The parts of a value follow one another, the last one at its bit 0.
LEMMA BelowStep ==
  ASSUME NEW parts \in Seq(Part)
  PROVE  /\ Below(parts, Len(parts)) = 0
         /\ \A k \in 1..Len(parts) : Below(parts, k - 1) = Below(parts, k) + parts[k].width
         /\ \A k \in 0..Len(parts) : Below(parts, k) \in Nat
<1> DEFINE n == Len(parts)
           more(j) == IF j <= n THEN parts[n + 1 - j].width ELSE 0
           step == [p \in Nat \X Nat |-> p[2] + more(p[1] + 1)]
           Def(r) == r = [j \in 0..n |-> IF j = 0 THEN 0 ELSE r[j - 1] + parts[n + 1 - j].width]
           last == CHOOSE r : Def(r)
<1>1. n \in Nat /\ DOMAIN parts = 1..n /\ \A k \in 1..n : parts[k].width \in Nat
  <2>1. \A k \in DOMAIN parts : parts[k] \in Part
    OBVIOUS
  <2>2. QED
    BY <2>1 DEF Part
<1>2. \A k \in 0..n : Below(parts, k) = last[n - k]
  BY DEF Below
<1> HIDE DEF n
<1>0. n \in Nat
  BY <1>1
<1>3. \A j \in 1..n : more(j) = parts[n + 1 - j].width
  BY <1>1
<1>4. \A j \in Nat : j + 1 \in Nat /\ more(j + 1) \in Nat
  <2>1. ASSUME NEW j \in Nat PROVE more(j + 1) \in Nat
    <3>1. CASE j + 1 <= n
      <4>1. n + 1 - (j + 1) \in 1..n
        BY <1>0, <3>1
      <4>2. QED
        BY <1>1, <3>1, <4>1
    <3>2. CASE ~(j + 1 <= n)
      BY <3>2
    <3>3. QED
      BY <3>1, <3>2
  <2>2. QED
    BY <2>1
<1> HIDE DEF more
<1>5. /\ \A j, x \in Nat : step[<<j, x>>] = x + more(j + 1)
      /\ step \in [Nat \X Nat -> Nat]
  BY <1>4
<1> HIDE DEF step
<1>6. PICK r \in [Nat -> Nat] : Follows(r, 0, step)
  BY <1>5, Recursion
<1>7. r[0] = 0 /\ \A j \in Nat : r[j + 1] = r[j] + more(j + 1)
  BY <1>5, <1>6 DEF Follows
<1> DEFINE g == [j \in 0..n |-> r[j]]
<1>8. Def(g)
  <2>1. ASSUME NEW j \in 0..n, j # 0 PROVE g[j] = g[j - 1] + parts[n + 1 - j].width
    <3>1. j - 1 \in Nat /\ j - 1 \in 0..n /\ (j - 1) + 1 = j /\ j \in 1..n
      BY <1>1, <2>1
    <3>2. QED
      BY <1>3, <1>7, <3>1
  <2>2. g[0] = 0
    BY <1>1, <1>7
  <2>3. \A j \in 0..n : g[j] = IF j = 0 THEN 0 ELSE g[j - 1] + parts[n + 1 - j].width
    BY <2>1, <2>2
  <2>4. QED
    BY <2>3
<1> HIDE DEF g
<1>9. last = [j \in 0..n |-> IF j = 0 THEN 0 ELSE last[j - 1] + parts[n + 1 - j].width]
  <2>1. Def(last)
    <3> HIDE DEF Def
    <3>1. QED
      BY <1>8
  <2> HIDE DEF last
  <2>2. QED
    BY <2>1
<1> HIDE DEF last
<1>10. last[0] = 0 /\ \A j \in 1..n : last[j] = last[j - 1] + parts[n + 1 - j].width
  <2>1. 0 \in 0..n /\ \A j \in 1..n : j \in 0..n /\ j # 0
    BY <1>0
  <2>2. \A j \in 0..n : last[j] = IF j = 0 THEN 0 ELSE last[j - 1] + parts[n + 1 - j].width
    BY <1>9
  <2>3. QED
    BY <2>1, <2>2
<1> DEFINE T == {j \in Nat : j <= n => last[j] \in Nat}
<1>11. \A j \in Nat : j \in T
  <2>1. 0 \in T
    BY <1>10
  <2>2. ASSUME NEW j \in Nat, j \in T PROVE j + 1 \in T
    <3> SUFFICES ASSUME j + 1 <= n PROVE last[j + 1] \in Nat
      OBVIOUS
    <3>1. j + 1 \in 1..n /\ (j + 1) - 1 = j /\ n + 1 - (j + 1) \in 1..n /\ j <= n
      BY <1>0
    <3>2. last[j + 1] = last[j] + parts[n + 1 - (j + 1)].width
      BY <1>10, <3>1
    <3>3. parts[n + 1 - (j + 1)].width \in Nat /\ last[j] \in Nat
      BY <1>1, <2>2, <3>1
    <3>4. \A x, y \in Nat : x + y \in Nat
      OBVIOUS
    <3>5. QED
      BY <3>2, <3>3, <3>4, Zenon
  <2> HIDE DEF T
  <2>3. QED
    BY <2>1, <2>2, Induct
<1>12. Below(parts, n) = 0
  <2>1. n \in 0..n /\ n - n = 0
    BY <1>1
  <2>2. QED
    BY <1>2, <1>10, <2>1
<1>13. ASSUME NEW k \in 1..n PROVE Below(parts, k - 1) = Below(parts, k) + parts[k].width
  <2>1. /\ k - 1 \in 0..n /\ k \in 0..n /\ n - (k - 1) \in 1..n
        /\ (n - (k - 1)) - 1 = n - k /\ n + 1 - (n - (k - 1)) = k
    BY <1>0
  <2>2. QED
    BY <1>2, <1>10, <2>1
<1>14. ASSUME NEW k \in 0..n PROVE Below(parts, k) \in Nat
  <2>1. n - k \in Nat /\ n - k <= n
    BY <1>0
  <2>2. QED
    BY <1>2, <1>11, <2>1
<1>15. QED
  BY <1>12, <1>13, <1>14 DEF n

\* A form of one field: what it holds of a word.
LEMMA SimpleField ==
  ASSUME NEW f \in FormType, Simple(f), f.start \in Nat, NEW w
  PROVE  /\ f.width \in Nat \ {0}
         /\ FieldOf(w, f.parts) = {b \in 0..(f.width - 1) : b + f.start \in w}
<1> DEFINE parts == f.parts
<1>1. parts = <<[start |-> f.start, width |-> f.width, lit |-> {}]>> /\ parts \in Seq(Part)
  BY DEF Simple, FormType
<1>2. Len(parts) = 1 /\ parts[1].start = f.start /\ parts[1].width = f.width
  BY <1>1
<1>3. parts[1] \in Part
  BY <1>1, <1>2
<1>4. f.width \in Nat \ {0}
  BY <1>2, <1>3 DEF Part
<1>5. Stored(parts) = {1}
  BY <1>1 DEF Stored
<1>6. Below(parts, 1) = 0 /\ Total(parts) = f.width
  <2>1. Below(parts, 1) = 0
    BY <1>1, <1>2, BelowStep
  <2>2. Below(parts, 1 - 1) = Below(parts, 1) + parts[1].width
    <3>1. 1 \in 1..Len(parts)
      BY <1>2
    <3>2. QED
      BY <1>1, <3>1, BelowStep
  <2>3. QED
    BY <1>2, <1>4, <2>1, <2>2 DEF Total
<1> HIDE DEF parts
<1>7. ASSUME NEW b \in 0..(f.width - 1) PROVE Layout({b}, parts) = {b + f.start}
  <2>1. Chunk({b}, parts, 1) = {b}
    BY <1>2, <1>4, <1>6 DEF Chunk
  <2>2. Layout({b}, parts) = Shift({b}, f.start)
    BY <1>2, <1>5, <2>1 DEF Layout
  <2>3. QED
    BY <2>2 DEF Shift
<1>8. FieldOf(w, parts) = {b \in 0..(f.width - 1) : Layout({b}, parts) # {} /\ Layout({b}, parts) \subseteq w}
  BY <1>6 DEF FieldOf
<1>9. QED
  BY <1>4, <1>7, <1>8 DEF parts

\* A field that holds the bits of a number in its range says that number.
LEMMA FieldSays ==
  ASSUME NEW f \in FormType, Simple(f), f.start \in Nat, NEW w, NEW n \in SignedRange(f.width),
         w \cap Mask(f.start, f.width) = Shift(BitsOf(n, f.width), f.start)
  PROVE  SignedRead(FieldOf(w, f.parts), f.width) = n
<1>1. f.width \in Nat \ {0} /\ FieldOf(w, f.parts) = {b \in 0..(f.width - 1) : b + f.start \in w}
  BY SimpleField
<1>2. ASSUME NEW b \in 0..(f.width - 1) PROVE b + f.start \in w <=> b \in BitsOf(n, f.width)
  <2>1. b + f.start \in Mask(f.start, f.width)
    BY <1>1 DEF Mask
  <2>2. b + f.start \in Shift(BitsOf(n, f.width), f.start) <=> b \in BitsOf(n, f.width)
    <3>1. BitsOf(n, f.width) \subseteq Int
      BY DEF BitsOf
    <3>2. \A c \in BitsOf(n, f.width) : c + f.start = b + f.start => c = b
      BY <3>1
    <3>3. QED
      BY <3>2, Zenon DEF Shift
  <2>3. QED
    BY <2>1, <2>2
<1>3. BitsOf(n, f.width) \subseteq 0..(f.width - 1)
  BY DEF BitsOf
<1>4. FieldOf(w, f.parts) = BitsOf(n, f.width)
  BY <1>1, <1>2, <1>3
<1>5. QED
  BY <1>1, <1>4, SignedReadsBack

\* What an accepted offset leaves in the word.
LEMMA OffsetWord ==
  ASSUME NEW c \in Calls, c.operand.kind = "offset", Verdict(c) = "ok", Simple(c.form)
  PROVE  LET f == c.form
             n == c.operand.n \div LabelScale
         IN  /\ n \in SignedRange(f.width) /\ n * LabelScale = c.operand.n
             /\ Word(c) \cap Mask(f.start, f.width) = Shift(BitsOf(n, f.width), f.start)
<1> DEFINE f == c.form
           off == c.operand.n
           n == off \div LabelScale
<1>1. f \in FormType /\ f \in Form /\ off \in Int /\ f.start \in Nat /\ f.width \in Nat /\ f.kind = "label"
  BY CallTypes, CallsAssumption DEF CallType, Operand
<1>2. FieldLabel(f, off) = "ok"
  BY DEF Verdict
<1>3. off % LabelScale = 0 /\ ~(n < -Bound(f.width)) /\ ~(n >= Bound(f.width))
  BY <1>2 DEF FieldLabel
<1>4. f.width \in Nat \ {0}
  BY <1>1, SimpleField
<1>5. Bound(f.width) \in Nat
  <2>1. f.width - 1 \in Nat
    BY <1>4
  <2>2. QED
    BY <2>1, Pow2Step DEF Bound
<1>6. n \in Int /\ n * LabelScale = off
  BY <1>1, <1>3 DEF LabelScale
<1>7. n \in SignedRange(f.width)
  BY <1>3, <1>5, <1>6 DEF SignedRange, Bound
<1>8. Word(c) = f.fixed \cup Shift(BitsOf(n, f.width), f.start)
  BY DEF Word
<1>9. f.fixed \cap Mask(f.start, f.width) = {}
  BY <1>1, FreeAssumption, SimpleSpan DEF Free
<1>10. Shift(BitsOf(n, f.width), f.start) \subseteq Mask(f.start, f.width)
  BY <1>1, ShiftInMask
<1>11. QED
  BY <1>6, <1>7, <1>8, <1>9, <1>10

\* On success every branch whose field can hold its distance goes where it was
\* sent, for every width of field, and whatever else the program does.
THEOREM NearBranchesArrive == Spec => []NearBranchesReach
<1> DEFINE AllInv == Invs /\ OpcodesKept /\ StoredInv /\ KeptInv
<1>1. Init => AllInv
  <2>1. Init => OpcodesKept /\ StoredInv /\ KeptInv
    BY DEF Init, OpcodesKept, StoredInv, KeptInv
  <2>2. QED
    BY <2>1, InvsInit
<1>2. AllInv /\ [Next]_vars => AllInv'
  BY InvsStep, OpcodesStep, StoredStep, KeptStep
<1>3. AllInv => NearBranchesReach
  <2> SUFFICES ASSUME AllInv, Succeeded, NEW k \in Branches,
                      Simple(Asked(k).form), Asked(k).form.scale = LabelScale,
                      Asked(k).operand.kind = "offset" \/ InReach(Asked(k).form, OffsetOf(k))
               PROVE  Reads(WordOf(k), Asked(k).form, OffsetOf(k))
    BY DEF NearBranchesReach
  <2> DEFINE f == Asked(k).form
             w == WordOf(k)
  <2>1. k \in DOMAIN calls /\ Asked(k).operand.kind \in {"id", "offset"}
    BY DEF Branches
  <2>2. Asked(k) \in Calls /\ f \in FormType /\ f.start \in Nat /\ calls[k].at \in Nat
    BY <2>1, FormFields DEF Invs
  <2>3. Verdict(Asked(k)) = "ok" /\ ~Hangs(k)
    BY <2>1, RefuseLemma DEF ErrorsRefuse, Fails
  <2>4. f.kind = "label"
    BY <2>1, <2>2, CallsAssumption
  <2>5. w \ Span(f.parts) = f.fixed \ Span(f.parts)
    BY <2>1, <2>3, <2>4 DEF OpcodesKept
  <2>6. \E n \in SignedRange(f.width) :
          /\ n * LabelScale = OffsetOf(k)
          /\ w \cap Mask(f.start, f.width) = Shift(BitsOf(n, f.width), f.start)
    <3>1. CASE Asked(k).operand.kind = "offset"
      <4>1. w = Word(Asked(k))
        BY <2>1, <2>3, <3>1 DEF KeptInv, Emitted, Waits, Asked
      <4>2. OffsetOf(k) = Asked(k).operand.n
        BY <3>1 DEF OffsetOf
      <4>3. QED
        BY <2>2, <2>3, <3>1, <4>1, <4>2, OffsetWord
    <3>2. CASE Asked(k).operand.kind = "id"
      <4> DEFINE l == Asked(k).operand.n
                 n == Meant(l) - calls[k].at
      <4>1. OffsetOf(k) = n * 4
        BY <3>2 DEF OffsetOf
      <4>2. Meant(l) \in Int
        <5>1. meant \in [0..MaxLabels -> Nat \cup {Unbound}]
          BY DEF Invs, TypeOK
        <5>2. QED
          BY <5>1 DEF Meant, Unbound
      <4>3. PICK i \in SignedRange(f.width) : OffsetOf(k) = i * LabelScale
        BY <3>2 DEF InReach
      <4>4. i \in Int /\ n \in Int
        <5>1. Pow2[f.width - 1] \in Int
          <6>1. f.width - 1 \in Nat
            BY <2>2, SimpleField
          <6>2. QED
            BY <6>1, Pow2Step
        <5>2. QED
          BY <2>2, <4>2, <4>3, <5>1 DEF SignedRange
      <4>5. n = i
        BY <4>1, <4>3, <4>4 DEF LabelScale
      <4>6. StoredAt(k)
        <5>1. fixups = << >>
          BY DEF Invs, ResultInv, Succeeded
        <5>2. ~HasFixup(k)
          BY <5>1 DEF HasFixup
        <5>3. QED
          BY <2>1, <3>2, <5>2 DEF StoredInv, Waits, Asked
      <4>7. w \cap Mask(f.start, f.width) = Shift(BitsOf(n, f.width), f.start)
        BY <4>6 DEF StoredAt, Holds, Asked
      <4>8. QED
        BY <4>3, <4>5, <4>7
    <3>3. QED
      BY <2>1, <3>1, <3>2
  <2>7. PICK n \in SignedRange(f.width) :
          /\ n * LabelScale = OffsetOf(k)
          /\ w \cap Mask(f.start, f.width) = Shift(BitsOf(n, f.width), f.start)
    BY <2>6
  <2>8. SignedRead(FieldOf(w, f.parts), f.width) = n
    BY <2>2, <2>7, FieldSays
  <2>9. QED
    BY <2>5, <2>7, <2>8 DEF Reads
<1>4. QED
  BY <1>1, <1>2, <1>3, PTL DEF Spec

----------------------------------------------------------------------------
\* Values in parts.

\* Part k holds bit b of the value.
Holding(parts, k, b) == b - Below(parts, k) \in 0..(parts[k].width - 1)

LEMMA PartFields ==
  ASSUME NEW parts \in Seq(Part)
  PROVE  /\ Len(parts) \in Nat /\ DOMAIN parts = 1..Len(parts)
         /\ \A k \in DOMAIN parts :
              parts[k].width \in Nat \ {0} /\ parts[k].start \in Int /\ parts[k].lit \subseteq Nat
<1>1. \A k \in DOMAIN parts : parts[k] \in Part
  OBVIOUS
<1>2. QED
  BY <1>1 DEF Part

\* Sums and bounds, in the form in which the parts need them.
LEMMA Lower ==
  ASSUME NEW p \in Nat, NEW q \in Nat, NEW u \in Nat, NEW x \in Nat, NEW r \in Nat,
         q = p + u, q + x <= r
  PROVE  p + x <= r
OBVIOUS

LEMMA Cancel ==
  ASSUME NEW p \in Nat, NEW q \in Nat, NEW x \in Nat, NEW r \in Nat, r = p + x, q + x <= r
  PROVE  q <= p
OBVIOUS

LEMMA Outside ==
  ASSUME NEW b \in Int, NEW p \in Nat, NEW q \in Nat, NEW y \in Nat, NEW u \in Nat,
         b - p >= 0, b - q <= u - 1, y = q + u, y <= p
  PROVE  FALSE
OBVIOUS

\* A later part begins where no earlier one reaches.
LEMMA LaterBelow ==
  ASSUME NEW parts \in Seq(Part), NEW j \in 1..Len(parts)
  PROVE  \A k \in j..Len(parts) : Below(parts, k) + parts[j].width <= Below(parts, j - 1)
<1> DEFINE n == Len(parts)
           T == {i \in Nat : j + i <= n => Below(parts, j + i) + parts[j].width <= Below(parts, j - 1)}
<1>1. n \in Nat /\ \A k \in 1..n : parts[k].width \in Nat
  BY PartFields
<1>2. /\ \A k \in 1..n : Below(parts, k - 1) = Below(parts, k) + parts[k].width
      /\ \A k \in 0..n : Below(parts, k) \in Nat
  BY BelowStep
<1> HIDE DEF n
<1>3. j \in 1..n /\ j \in Nat /\ j - 1 \in 0..n
  BY <1>1 DEF n
<1>4. 0 \in T
  <2>1. j + 0 = j
    BY <1>3
  <2>2. Below(parts, j) + parts[j].width <= Below(parts, j - 1)
    BY <1>1, <1>2, <1>3
  <2>3. QED
    BY <2>1, <2>2
<1>5. ASSUME NEW i \in Nat, i \in T PROVE i + 1 \in T
  <2> SUFFICES ASSUME j + (i + 1) <= n
               PROVE  Below(parts, j + (i + 1)) + parts[j].width <= Below(parts, j - 1)
    OBVIOUS
  <2> DEFINE k == j + (i + 1)
  <2>1. k \in 1..n /\ k \in 0..n /\ k - 1 = j + i /\ j + i <= n /\ j + i \in 0..n
    BY <1>1, <1>3
  <2>2. Below(parts, k - 1) = Below(parts, k) + parts[k].width
    BY <1>2, <2>1
  <2>3. Below(parts, k) \in Nat
    BY <1>2, <2>1
  <2>4. Below(parts, k - 1) \in Nat
    BY <1>2, <2>1
  <2>5. parts[k].width \in Nat
    BY <1>1, <2>1
  <2>6. parts[j].width \in Nat
    BY <1>1, <1>3
  <2>7. Below(parts, j - 1) \in Nat
    BY <1>2, <1>3
  <2>8. Below(parts, k - 1) + parts[j].width <= Below(parts, j - 1)
    BY <1>5, <2>1
  <2> HIDE DEF k
  <2>9. ASSUME NEW p \in Nat, NEW q \in Nat, NEW u \in Nat, NEW x \in Nat, NEW r \in Nat,
               p = Below(parts, k), q = Below(parts, k - 1), u = parts[k].width,
               x = parts[j].width, r = Below(parts, j - 1)
        PROVE  Below(parts, k) + parts[j].width <= Below(parts, j - 1)
    <3>1. q = p + u /\ q + x <= r
      BY <2>2, <2>8, <2>9
    <3>2. p + x <= r
      BY <3>1, Lower
    <3>3. QED
      BY <2>9, <3>2
  <2>10. QED
    BY <2>3, <2>4, <2>5, <2>6, <2>7, <2>9 DEF k
<1> HIDE DEF T
<1>6. \A i \in Nat : i \in T
  BY <1>4, <1>5, Induct
<1>7. ASSUME NEW k \in j..n PROVE Below(parts, k) + parts[j].width <= Below(parts, j - 1)
  <2>1. k - j \in Nat /\ j + (k - j) = k /\ k <= n
    BY <1>1, <1>3
  <2>2. QED
    BY <1>6, <2>1 DEF T
<1>8. QED
  BY <1>7 DEF n

\* No bit is in two parts.
LEMMA OnePart ==
  ASSUME NEW parts \in Seq(Part), NEW b \in Int,
         NEW j \in DOMAIN parts, NEW k \in DOMAIN parts, Holding(parts, j, b), Holding(parts, k, b)
  PROVE  j = k
<1>1. ASSUME NEW x \in DOMAIN parts, NEW y \in DOMAIN parts, x < y,
             Holding(parts, x, b), Holding(parts, y, b)
      PROVE  FALSE
  <2>1. Len(parts) \in Nat /\ x \in 1..Len(parts) /\ y \in 1..Len(parts)
    BY PartFields
  <2>2. x <= y - 1 /\ y - 1 \in x..Len(parts) /\ y - 1 \in 0..Len(parts)
        /\ x \in 0..Len(parts) /\ y \in 0..Len(parts)
    BY <1>1, <2>1
  <2>3. /\ Below(parts, x) \in Nat /\ Below(parts, y) \in Nat /\ Below(parts, x - 1) \in Nat
        /\ Below(parts, x - 1) = Below(parts, x) + parts[x].width
        /\ Below(parts, y - 1) = Below(parts, y) + parts[y].width
        /\ Below(parts, y - 1) \in Nat
    <3>1. x - 1 \in 0..Len(parts)
      BY <2>1
    <3>2. QED
      BY <2>1, <2>2, <3>1, BelowStep
  <2>4. Below(parts, y - 1) + parts[x].width <= Below(parts, x - 1)
    BY <2>1, <2>2, LaterBelow
  <2>5. parts[x].width \in Nat /\ parts[y].width \in Nat
    BY PartFields
  <2>6. b - Below(parts, x) >= 0 /\ b - Below(parts, y) <= parts[y].width - 1
    BY <1>1, <2>3, <2>5 DEF Holding
  <2>7. Below(parts, y - 1) <= Below(parts, x)
    BY <2>3, <2>4, <2>5, Cancel, Zenon
  <2>8. QED
    BY <2>3, <2>5, <2>6, <2>7, Outside, Zenon
<1>2. j \in Int /\ k \in Int
  BY PartFields
<1>3. QED
  BY <1>1, <1>2

\* Every bit of the value is in some part.
LEMMA SomePart ==
  ASSUME NEW parts \in Seq(Part), NEW b \in 0..(Total(parts) - 1)
  PROVE  \E k \in DOMAIN parts : Holding(parts, k, b)
<1> DEFINE n == Len(parts)
           T == {i \in Nat : i <= n /\ b < Below(parts, n - i) => \E k \in 1..n : Holding(parts, k, b)}
<1>1. n \in Nat /\ DOMAIN parts = 1..n /\ \A k \in 1..n : parts[k].width \in Nat
  BY PartFields
<1>2. /\ Below(parts, n) = 0
      /\ \A k \in 1..n : Below(parts, k - 1) = Below(parts, k) + parts[k].width
      /\ \A k \in 0..n : Below(parts, k) \in Nat
  BY BelowStep
<1>3. b \in Nat /\ b < Below(parts, 0)
  <2>1. Below(parts, 0) \in Nat
    BY <1>1, <1>2
  <2>2. QED
    BY <2>1 DEF Total
<1> HIDE DEF n
<1>4. 0 \in T
  <2>1. n - 0 = n
    BY <1>1
  <2>2. ~(b < Below(parts, n))
    BY <1>2, <1>3
  <2>3. QED
    BY <2>1, <2>2
<1>5. ASSUME NEW i \in Nat, i \in T PROVE i + 1 \in T
  <2> SUFFICES ASSUME i + 1 <= n, b < Below(parts, n - (i + 1))
               PROVE  \E k \in 1..n : Holding(parts, k, b)
    OBVIOUS
  <2> DEFINE k == n - i
  <2>1. k \in 1..n /\ k \in 0..n /\ k - 1 = n - (i + 1) /\ i <= n
    BY <1>1
  <2>2. Below(parts, k - 1) = Below(parts, k) + parts[k].width
        /\ Below(parts, k) \in Nat /\ parts[k].width \in Nat
    BY <1>1, <1>2, <2>1
  <2>3. b < Below(parts, k - 1)
    BY <2>1
  <2>4. CASE b < Below(parts, k)
    BY <1>5, <2>1, <2>4
  <2>5. CASE ~(b < Below(parts, k))
    <3> HIDE DEF k
    <3>1. b - Below(parts, k) \in 0..(parts[k].width - 1)
      BY <1>3, <2>2, <2>3, <2>5
    <3>2. QED
      BY <2>1, <3>1 DEF Holding
  <2>6. QED
    BY <2>4, <2>5
<1> HIDE DEF T
<1>6. n \in T
  BY <1>1, <1>4, <1>5, Induct
<1>7. n - n = 0
  BY <1>1
<1>8. QED
  BY <1>1, <1>3, <1>6, <1>7 DEF T

\* Where one bit of the value goes: into the part that holds it, if it is stored.
LEMMA LayoutOfBit ==
  ASSUME NEW parts \in Seq(Part), NEW b \in Int, NEW k \in DOMAIN parts, Holding(parts, k, b)
  PROVE  /\ k \in Stored(parts) =>
              Layout({b}, parts) = {b - Below(parts, k) + parts[k].start}
         /\ k \notin Stored(parts) => Layout({b}, parts) = {}
<1>1. /\ Len(parts) \in Nat /\ DOMAIN parts = 1..Len(parts)
      /\ \A j \in DOMAIN parts : parts[j].width \in Nat /\ parts[j].start \in Int
  BY PartFields
<1>2. \A j \in DOMAIN parts : Below(parts, j) \in Nat
  <2>1. \A j \in DOMAIN parts : j \in 0..Len(parts)
    BY <1>1
  <2>2. QED
    BY <2>1, BelowStep
<1>3. ASSUME NEW j \in DOMAIN parts, j # k PROVE Chunk({b}, parts, j) = {}
  <2>1. ~Holding(parts, j, b)
    BY <1>3, OnePart
  <2>2. ASSUME NEW c \in 0..(parts[j].width - 1) PROVE c + Below(parts, j) # b
    <3>1. c + Below(parts, j) = b => b - Below(parts, j) = c
      BY <1>1, <1>2, <1>3
    <3>2. QED
      BY <2>1, <3>1 DEF Holding
  <2>3. QED
    BY <2>2 DEF Chunk
<1>4. Chunk({b}, parts, k) = {b - Below(parts, k)}
  <2>1. b - Below(parts, k) \in 0..(parts[k].width - 1)
    BY DEF Holding
  <2>2. \A c \in 0..(parts[k].width - 1) : c + Below(parts, k) = b <=> c = b - Below(parts, k)
    BY <1>1, <1>2
  <2>3. QED
    BY <2>1, <2>2 DEF Chunk
<1>5. ASSUME NEW j \in Stored(parts), j # k
      PROVE  Shift(Chunk({b}, parts, j), parts[j].start) = {}
  BY <1>3, <1>5 DEF Stored, Shift
<1>6. Shift(Chunk({b}, parts, k), parts[k].start) = {b - Below(parts, k) + parts[k].start}
  BY <1>4 DEF Shift
<1>7. CASE k \in Stored(parts)
  BY <1>5, <1>6, <1>7, Zenon DEF Layout
<1>8. CASE k \notin Stored(parts)
  BY <1>5, <1>8, Zenon DEF Layout
<1>9. QED
  BY <1>7, <1>8

\* A stored part of a laid out value holds that part of its bits.
LEMMA LayoutHas ==
  ASSUME NEW parts \in Seq(Part), Apart(parts), NEW bits \in SUBSET Int,
         NEW k \in Stored(parts), NEW c \in 0..(parts[k].width - 1)
  PROVE  /\ c + parts[k].start \in Span(parts)
         /\ c + parts[k].start \in Layout(bits, parts) <=> c + Below(parts, k) \in bits
<1> DEFINE at == c + parts[k].start
<1>1. \A j \in Stored(parts) : /\ j \in DOMAIN parts
                               /\ parts[j].width \in Nat /\ parts[j].start \in Int
  BY PartFields DEF Stored
<1>2. at \in Mask(parts[k].start, parts[k].width)
  BY <1>1 DEF Mask
<1>3. ASSUME NEW j \in Stored(parts)
      PROVE  Shift(Chunk(bits, parts, j), parts[j].start) \subseteq Mask(parts[j].start, parts[j].width)
  <2>1. \A d \in 0..(parts[j].width - 1) : d + parts[j].start \in Mask(parts[j].start, parts[j].width)
    BY <1>1 DEF Mask
  <2>2. Chunk(bits, parts, j) \subseteq 0..(parts[j].width - 1)
    BY DEF Chunk
  <2>3. QED
    BY <2>1, <2>2, Zenon DEF Shift
<1>4. at \in Shift(Chunk(bits, parts, k), parts[k].start) <=> c \in Chunk(bits, parts, k)
  <2>1. \A d \in Chunk(bits, parts, k) : d + parts[k].start = c + parts[k].start => d = c
    BY <1>1 DEF Chunk
  <2>2. QED
    BY <2>1, Zenon DEF Shift
<1>5. c \in Chunk(bits, parts, k) <=> c + Below(parts, k) \in bits
  BY DEF Chunk
<1> HIDE DEF at
<1>6. ASSUME NEW j \in Stored(parts), j # k PROVE at \notin Shift(Chunk(bits, parts, j), parts[j].start)
  <2>1. Mask(parts[j].start, parts[j].width) \cap Mask(parts[k].start, parts[k].width) = {}
    BY <1>6, Zenon DEF Apart
  <2>2. QED
    BY <1>2, <1>3, <2>1
<1>7. at \in Layout(bits, parts) <=> at \in Shift(Chunk(bits, parts, k), parts[k].start)
  BY <1>6, Zenon DEF Layout
<1>8. at \in Span(parts)
  BY <1>2, Zenon DEF Span
<1>9. QED
  BY <1>4, <1>5, <1>7, <1>8 DEF at

\* A value that is laid out in a word is what the word holds: its stored parts
\* in their fields, and its other parts the constant bits they must be.
LEMMA HeldBack ==
  ASSUME NEW f \in FormType, Apart(f.parts), f.width = Total(f.parts),
         NEW bits \in SUBSET (0..(f.width - 1)), NEW w,
         w = (f.fixed \ Span(f.parts)) \cup Layout(bits, f.parts),
         \A k \in DOMAIN f.parts \ Stored(f.parts) : Chunk(bits, f.parts, k) = f.parts[k].lit
  PROVE  HeldBits(w, f) = bits
<1> DEFINE parts == f.parts
           lits == UNION {Shift(parts[j].lit, Below(parts, j)) : j \in DOMAIN parts \ Stored(parts)}
<1>0. f.width \in Nat /\ parts \in Seq(Part) /\ f.width = Total(parts) /\ bits \in SUBSET Int
  BY DEF FormType
<1>1. /\ Len(parts) \in Nat /\ DOMAIN parts = 1..Len(parts)
      /\ \A j \in DOMAIN parts :
           parts[j].width \in Nat /\ parts[j].start \in Int /\ parts[j].lit \subseteq Nat
  BY <1>0, PartFields
<1>2. \A j \in DOMAIN parts : Below(parts, j) \in Nat
  <2>1. \A j \in DOMAIN parts : j \in 0..Len(parts)
    BY <1>1
  <2>2. QED
    BY <2>1, <1>0, BelowStep
<1>a. /\ w = (f.fixed \ Span(parts)) \cup Layout(bits, parts) /\ Apart(parts)
      /\ \A k \in DOMAIN parts \ Stored(parts) : Chunk(bits, parts, k) = parts[k].lit
      /\ HeldBits(w, f) = FieldOf(w, parts) \cup lits
  BY DEF HeldBits
<1> HIDE DEF parts, lits
<1>3. ASSUME NEW b \in 0..(f.width - 1), NEW k \in Stored(parts), Holding(parts, k, b)
      PROVE  b \in FieldOf(w, parts) <=> b \in bits
  <2> DEFINE c == b - Below(parts, k)
  <2>1. c \in 0..(parts[k].width - 1) /\ k \in DOMAIN parts /\ b \in Int
    BY <1>0, <1>3 DEF Holding, Stored
  <2>2. Layout({b}, parts) = {c + parts[k].start}
    BY <1>0, <1>3, <2>1, LayoutOfBit
  <2>3. c + Below(parts, k) = b
    BY <1>2, <2>1
  <2> HIDE DEF c
  <2>4. c + parts[k].start \in Span(parts)
        /\ (c + parts[k].start \in Layout(bits, parts) <=> b \in bits)
    BY <1>0, <1>a, <2>1, <2>3, LayoutHas
  <2>5. c + parts[k].start \in w <=> b \in bits
    BY <1>a, <2>4
  <2>6. b \in FieldOf(w, parts) <=> c + parts[k].start \in w
    BY <1>0, <2>2 DEF FieldOf
  <2>7. QED
    BY <2>5, <2>6
<1>4. ASSUME NEW b \in 0..(f.width - 1), NEW k \in DOMAIN parts, k \notin Stored(parts), Holding(parts, k, b)
      PROVE  b \notin FieldOf(w, parts)
  <2>1. b \in Int
    BY <1>0
  <2>2. Layout({b}, parts) = {}
    BY <1>0, <1>4, <2>1, LayoutOfBit
  <2>3. QED
    BY <2>2 DEF FieldOf
<1>5. FieldOf(w, parts) \subseteq 0..(f.width - 1)
  BY <1>0 DEF FieldOf
<1>6. ASSUME NEW b, NEW k \in DOMAIN parts, k \notin Stored(parts)
      PROVE  b \in Shift(parts[k].lit, Below(parts, k)) <=> b \in bits /\ Holding(parts, k, b)
  <2>1. parts[k].lit = {c \in 0..(parts[k].width - 1) : c + Below(parts, k) \in bits}
    BY <1>a, <1>6 DEF Chunk
  <2>2. ASSUME b \in Shift(parts[k].lit, Below(parts, k)) PROVE b \in bits /\ Holding(parts, k, b)
    <3>1. PICK c \in parts[k].lit : b = c + Below(parts, k)
      BY <2>2, Zenon DEF Shift
    <3>2. c \in 0..(parts[k].width - 1) /\ b \in bits
      BY <2>1, <3>1
    <3>3. b - Below(parts, k) = c
      BY <1>2, <3>1, <3>2
    <3>4. QED
      BY <3>2, <3>3 DEF Holding
  <2>3. ASSUME b \in bits, Holding(parts, k, b) PROVE b \in Shift(parts[k].lit, Below(parts, k))
    <3> DEFINE c == b - Below(parts, k)
    <3>1. c \in 0..(parts[k].width - 1) /\ c + Below(parts, k) = b
      BY <1>0, <1>2, <2>3 DEF Holding
    <3> HIDE DEF c
    <3>2. c \in parts[k].lit
      BY <2>1, <2>3, <3>1
    <3>3. QED
      BY <3>1, <3>2, Zenon DEF Shift
  <2>4. QED
    BY <2>2, <2>3
<1>7. \A b : b \in lits <=> \E k \in DOMAIN parts \ Stored(parts) : b \in bits /\ Holding(parts, k, b)
  BY <1>6, Zenon DEF lits
<1>8. ASSUME NEW b \in FieldOf(w, parts) \cup lits PROVE b \in bits
  <2>1. CASE b \in FieldOf(w, parts)
    <3>1. b \in 0..(f.width - 1)
      BY <1>5, <2>1
    <3>2. PICK k \in DOMAIN parts : Holding(parts, k, b)
      BY <1>0, <3>1, SomePart
    <3>3. QED
      BY <1>3, <1>4, <2>1, <3>1, <3>2
  <2>2. CASE b \in lits
    BY <1>7, <2>2
  <2>3. QED
    BY <2>1, <2>2
<1>9. ASSUME NEW b \in bits PROVE b \in FieldOf(w, parts) \cup lits
  <2>1. b \in 0..(f.width - 1)
    OBVIOUS
  <2>2. PICK k \in DOMAIN parts : Holding(parts, k, b)
    BY <1>0, <2>1, SomePart
  <2>3. CASE k \in Stored(parts)
    BY <1>3, <2>1, <2>2, <2>3
  <2>4. CASE k \notin Stored(parts)
    BY <1>7, <2>2, <2>4
  <2>5. QED
    BY <2>3, <2>4
<1>10. QED
  BY <1>a, <1>8, <1>9

\* Scaling exactly and back.
LEMMA ExactScale ==
  ASSUME NEW x \in Int, NEW d \in Nat \ {0}, x % d = 0
  PROVE  (x \div d) * d = x
OBVIOUS

\* What an accepted value leaves in the word, and what that says.
LEMMA ValueWord ==
  ASSUME NEW c \in Calls, c.operand.kind = "value", Verdict(c) = "ok", Fits(c.form)
  PROVE  /\ ValueOf(HeldBits(Word(c), c.form), c.form) = c.operand.n
         /\ Word(c) \ Span(c.form.parts) = c.form.fixed \ Span(c.form.parts)
<1> DEFINE f == c.form
           v == c.operand.n
           held == Held(f, v)
           bits == BitsOf(held, f.width)
           w == Word(c)
<1>1. /\ f \in FormType /\ f \in Form /\ v \in Int /\ f.kind = "value"
  BY CallTypes, CallsAssumption DEF CallType, Operand
<1>2. /\ f.parts \in Seq(Part) /\ f.width \in Nat /\ f.scale \in Nat \ {0}
      /\ f.lo \in Int /\ f.hi \in Int /\ f.bias \in Int /\ f.negate \in Int
  BY <1>1 DEF FormType
<1>3. f.width = Total(f.parts) /\ f.parts # << >>
  BY <1>1, PlacedAssumption DEF Placed
<1>4. f.width \in Nat \ {0}
  <2>1. Len(f.parts) \in Nat /\ 1 \in DOMAIN f.parts /\ 1 \in 1..Len(f.parts) /\ 1 \in 0..Len(f.parts)
    BY <1>2, <1>3
  <2>2. Below(f.parts, 1 - 1) = Below(f.parts, 1) + f.parts[1].width /\ Below(f.parts, 1) \in Nat
    BY <1>2, <2>1, BelowStep
  <2>3. f.parts[1].width \in Nat \ {0}
    BY <1>2, <2>1, PartFields
  <2>4. QED
    BY <1>2, <1>3, <2>2, <2>3 DEF Total
<1>5. FieldBits(f, v) = "ok"
  BY DEF Verdict
<1>6. /\ v % f.scale = 0 /\ ~(v < f.lo) /\ ~(v > f.hi)
      /\ \A k \in DOMAIN f.parts \ Stored(f.parts) : Chunk(bits, f.parts, k) = f.parts[k].lit
  <2>1. v % f.scale = 0
    BY <1>5, Zenon DEF FieldBits
  <2>2. ~(v < f.lo \/ v > f.hi)
    BY <1>5, <2>1, Zenon DEF FieldBits
  <2>3. ~\E k \in DOMAIN f.parts \ Stored(f.parts) : Chunk(bits, f.parts, k) # f.parts[k].lit
    BY <1>5, <2>1, <2>2, Zenon DEF FieldBits
  <2>4. QED
    BY <2>1, <2>2, <2>3
<1>7. v \in f.lo..f.hi
  BY <1>1, <1>2, <1>6
<1>8. /\ Apart(f.parts) /\ held \in HeldRange(f)
      /\ f.negate = 0 => (v - f.bias) % f.scale = 0
  BY <1>6, <1>7, Zenon DEF Fits
<1>9. w = (f.fixed \ Span(f.parts)) \cup Layout(bits, f.parts)
  BY DEF Word
<1>10. bits \in SUBSET (0..(f.width - 1))
  BY DEF BitsOf
<1>11. HeldBits(w, f) = bits
  <2> HIDE DEF f, bits, w
  <2>1. QED
    BY <1>1, <1>3, <1>6, <1>8, <1>9, <1>10, HeldBack
<1>12. (IF f.lo < 0 THEN SignedRead(bits, f.width) ELSE UnsignedRead(bits, f.width)) = held
  <2>1. CASE f.lo < 0
    <3>1. held \in SignedRange(f.width)
      BY <1>8, <2>1, Zenon DEF HeldRange
    <3>2. SignedRead(bits, f.width) = held
      BY <1>4, <3>1, SignedReadsBack
    <3>3. QED
      BY <2>1, <3>2
  <2>2. CASE ~(f.lo < 0)
    <3>1. held \in UnsignedRange(f.width)
      BY <1>8, <2>2, Zenon DEF HeldRange
    <3>2. UnsignedRead(bits, f.width) = held
      BY <1>2, <3>1, UnsignedReadsBack
    <3>3. QED
      BY <2>2, <3>2
  <2>3. QED
    BY <2>1, <2>2
<1>13. (IF f.negate # 0 THEN f.negate - held ELSE held * f.scale + f.bias) = v
  <2>1. CASE f.negate # 0
    <3>1. held = f.negate - v
      BY <2>1 DEF Held
    <3>2. QED
      BY <1>1, <1>2, <2>1, <3>1
  <2>2. CASE f.negate = 0
    <3>1. held = (v - f.bias) \div f.scale
      BY <2>2 DEF Held
    <3>2. (v - f.bias) \in Int /\ (v - f.bias) % f.scale = 0
      BY <1>1, <1>2, <1>8, <2>2
    <3>3. held * f.scale = v - f.bias
      BY <1>2, <3>1, <3>2, ExactScale
    <3>4. QED
      BY <1>1, <1>2, <2>2, <3>3
  <2>3. QED
    BY <2>1, <2>2
<1>14. ValueOf(bits, f) = v
  BY <1>12, <1>13 DEF ValueOf
<1>15. Layout(bits, f.parts) \subseteq Span(f.parts)
  <2>1. ASSUME NEW k \in Stored(f.parts)
        PROVE  Shift(Chunk(bits, f.parts, k), f.parts[k].start) \subseteq Mask(f.parts[k].start, f.parts[k].width)
    <3>1. k \in DOMAIN f.parts
      BY DEF Stored
    <3>2. f.parts[k].width \in Nat /\ f.parts[k].start \in Int
      BY <1>2, <3>1, PartFields
    <3>3. \A d \in 0..(f.parts[k].width - 1) :
            d + f.parts[k].start \in Mask(f.parts[k].start, f.parts[k].width)
      BY <3>2 DEF Mask
    <3>4. Chunk(bits, f.parts, k) \subseteq 0..(f.parts[k].width - 1)
      BY DEF Chunk
    <3>5. QED
      BY <3>3, <3>4, Zenon DEF Shift
  <2>2. QED
    BY <2>1, Zenon DEF Layout, Span
<1>16. w \ Span(f.parts) = f.fixed \ Span(f.parts)
  BY <1>9, <1>15
<1>17. QED
  BY <1>11, <1>14, <1>16

\* On success every value is read back from its word, for every layout of the
\* operand in parts, every scale, bias and width.
THEOREM ValuesAreReadBack == Spec => []ValuesReadBack
<1>1. Init => Invs /\ KeptInv
  <2>1. Init => KeptInv
    BY DEF Init, KeptInv
  <2>2. QED
    BY <2>1, InvsInit
<1>2. Invs /\ KeptInv /\ [Next]_vars => (Invs /\ KeptInv)'
  BY InvsStep, KeptStep
<1>3. Invs /\ KeptInv => ValuesReadBack
  <2> SUFFICES ASSUME Invs, KeptInv, Succeeded, NEW k \in DOMAIN calls,
                      Asked(k).operand.kind = "value", Fits(Asked(k).form)
               PROVE  LET f == Asked(k).form IN
                      /\ ValueOf(HeldBits(WordOf(k), f), f) = Asked(k).operand.n
                      /\ WordOf(k) \ Span(f.parts) = f.fixed \ Span(f.parts)
    BY DEF ValuesReadBack
  <2>1. Asked(k) \in Calls
    BY FormFields DEF Invs
  <2>2. Verdict(Asked(k)) = "ok"
    BY RefuseLemma DEF ErrorsRefuse, Fails
  <2>3. WordOf(k) = Word(Asked(k))
    BY <2>2 DEF KeptInv, Emitted, Waits, Asked
  <2>4. QED
    BY <2>1, <2>2, <2>3, ValueWord
<1>4. QED
  BY <1>1, <1>2, <1>3, PTL DEF Spec
=============================================================================
