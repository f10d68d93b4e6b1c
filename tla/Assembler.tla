----------------------------- MODULE Assembler -----------------------------
(***************************************************************************)
(* The Assembler of the generated Rust crate: instruction methods append   *)
(* words and record errors and branch fixups, labels are bound to          *)
(* positions, and finish patches every fixup or returns the first error.   *)
(*                                                                         *)
(* A word is the set of its bits that are 1.                               *)
(***************************************************************************)
EXTENDS TwosComplement, Sequences, FiniteSets, FiniteSetsExt

CONSTANTS
  Bit,          \* bits of an instruction word
  Form,         \* generated instruction methods, see FormType
  Calls,        \* the calls the program may make of them, see CallType
  MaxWords, MaxLabels, MaxCalls  \* bounds on the program assembled

\* A form's operand is stored in parts, most significant first, over the word
\* the form fixes; a part with a negative start is a run of constant bits the
\* value must contain.  start is that of the first part stored, width that of
\* the whole operand; lo, hi, scale, bias and negate say how a value is held.
Part == [start : Int, width : Nat \ {0}, lit : SUBSET Nat]
FormType == [kind : {"plain", "value", "label"}, fixed : SUBSET Bit, parts : Seq(Part),
             start : Nat, width : Nat, scale : Nat \ {0}, lo : Int, hi : Int,
             bias : Int, negate : Int]

\* What the operand is: none, one no encoding of the method takes, a value, a
\* branch offset in bytes, a label's number.
Operand == [kind : {"none", "unencodable", "value", "offset", "id"}, n : Int]
CallType == [form : Form, operand : Operand]

ASSUME BitAssumption == Bit \subseteq Nat
ASSUME FormAssumption == Form \subseteq FormType
ASSUME CallsAssumption ==
  /\ Calls \subseteq CallType
  /\ \A c \in Calls :
       /\ c.operand.kind = "id" => c.form.kind = "label" /\ c.operand.n \in Nat
       /\ c.operand.kind = "offset" => c.form.kind = "label"
       /\ c.operand.kind = "value" => c.form.kind = "value"
ASSUME BoundsAssumption == MaxWords \in Nat /\ MaxLabels \in Nat /\ MaxCalls \in Nat

VARIABLES
  words,   \* the instructions emitted; word k is at position k - 1
  labels,  \* position each label is bound to; label k - 1 is entry k
  fixups,  \* branches that wait for a label
  errors,
  pc,      \* "building", "patching" in finish, "done"
  result,  \* of finish
  calls,   \* history: the methods called, with the position of the word of each
  meant    \* history: where each label was last bound, by number

history == <<calls, meant>>
vars == <<words, labels, fixups, errors, pc, result, history>>

Unbound == -1
Error(reason, n) == [kind |-> reason, n |-> n]
Pending == Error("pending", 0)
Ok == Error("ok", 0)

----------------------------------------------------------------------------
\* Bits and fields.

Shift(bits, start) == {b + start : b \in bits}
Mask(start, width) == start..(start + width - 1)

\* Bits of the value below part k, the bits part k takes, and where they go.
Below(parts, k) ==
  LET last[j \in 0..Len(parts)] ==  \* the last j parts
        IF j = 0 THEN 0 ELSE last[j - 1] + parts[Len(parts) + 1 - j].width
  IN  last[Len(parts) - k]
Total(parts) == Below(parts, 0)
Chunk(bits, parts, k) ==
  {b \in 0..(parts[k].width - 1) : b + Below(parts, k) \in bits}
Stored(parts) == {k \in DOMAIN parts : parts[k].start >= 0}
Layout(bits, parts) == UNION {Shift(Chunk(bits, parts, k), parts[k].start) : k \in Stored(parts)}
Span(parts) == UNION {Mask(parts[k].start, parts[k].width) : k \in Stored(parts)}

\* placementFor: where a placement starts, and how wide it is.
Placed(f) ==
  /\ f.kind # "plain" => f.parts # << >>
  /\ f.width = Total(f.parts)
  /\ Stored(f.parts) # {} => f.start = f.parts[Min(Stored(f.parts))].start
ASSUME PlacedAssumption == \A f \in Form : Placed(f)

\* freeSubRange: an operand takes bits that the encoding leaves free.
Free(f) == f.fixed \cap Span(f.parts) = {}
ASSUME FreeAssumption == \A f \in Form : f.kind = "label" => Free(f)

\* The scale emitEncodeBody hands to field_label, whatever the operand's is.
LabelScale == 4

----------------------------------------------------------------------------
\* Building.

\* Variants named ..._Without and ..._Instead are not part of the model: they
\* are faults a change to the code could introduce, kept to show that the
\* properties notice them.

\* How field_bits holds v: biased and scaled, or counted down.
Held(f, v) == IF f.negate # 0 THEN f.negate - v ELSE (v - f.bias) \div f.scale

FieldBits_WithoutLiterals(f, v) ==
  IF v % f.scale # 0 THEN "alignment"
  ELSE IF v < f.lo \/ v > f.hi THEN "range"
  ELSE "ok"

\* What field_bits says of a value.
FieldBits(f, v) ==
  LET bits == BitsOf(Held(f, v), f.width) IN
  IF v % f.scale # 0 THEN "alignment"
  ELSE IF v < f.lo \/ v > f.hi THEN "range"
  ELSE IF \E k \in DOMAIN f.parts \ Stored(f.parts) : Chunk(bits, f.parts, k) # f.parts[k].lit
  THEN "range"
  ELSE "ok"

Bound(width) == Pow2[width - 1]

FieldLabel_WithoutBound(f, off) ==
  IF off % LabelScale # 0 THEN "alignment" ELSE "ok"

\* What field_label says of an offset.
FieldLabel(f, off) ==
  LET scaled == off \div LabelScale
      bound == Bound(f.width)
  IN  IF off % LabelScale # 0 THEN "alignment"
      ELSE IF scaled < -bound \/ scaled >= bound THEN "range"
      ELSE "ok"

\* The verdict on a call: "ok", or the error it records.
Verdict(c) ==
  CASE c.operand.kind = "unencodable" -> "operand"
    [] c.operand.kind = "value" -> FieldBits(c.form, c.operand.n)
    [] c.operand.kind = "offset" -> FieldLabel(c.form, c.operand.n)
    [] OTHER -> "ok"

\* The word a call builds; a rejected operand leaves its field as it was.
Word(c) ==
  LET f == c.form IN
  CASE Verdict(c) = "ok" /\ c.operand.kind = "value" ->
         (f.fixed \ Span(f.parts))
           \cup Layout(BitsOf(Held(f, c.operand.n), f.width), f.parts)
    [] Verdict(c) = "ok" /\ c.operand.kind = "offset" ->
         f.fixed \cup Shift(BitsOf(c.operand.n \div LabelScale, f.width), f.start)
    [] OTHER -> f.fixed

FixupOf(c) == [at |-> Len(words), label |-> c.operand.n,
               start |-> c.form.start, width |-> c.form.width]

\* Dispatch on an arrangement or spelling without an encoding returns before
\* the word is emitted; a value out of range is recorded and the word emitted.
EmitWord(c) ==
  words' = IF Verdict(c) = "operand" THEN words ELSE Append(words, Word(c))

Record_LastOnly(c) ==
  errors' = IF Verdict(c) = "ok" THEN errors ELSE <<Error(Verdict(c), Len(calls) + 1)>>

Record(c) ==
  errors' = IF Verdict(c) = "ok" THEN errors ELSE Append(errors, Error(Verdict(c), Len(calls) + 1))

CallMethod(c) ==
  /\ pc = "building"
  /\ Len(calls) < MaxCalls /\ Len(words) < MaxWords
  /\ Record(c)
  /\ EmitWord(c)
  /\ fixups' = IF c.operand.kind = "id" THEN Append(fixups, FixupOf(c)) ELSE fixups
  /\ calls' = Append(calls, [call |-> c, at |-> Len(words)])
  /\ UNCHANGED <<labels, pc, result, meant>>

NewLabel ==
  /\ pc = "building"
  /\ Len(labels) < MaxLabels
  /\ labels' = Append(labels, Unbound)
  /\ UNCHANGED <<words, fixups, errors, pc, result, history>>

BindLabel_FirstOnly(l) ==
  labels' = IF l + 1 \in DOMAIN labels /\ labels[l + 1] = Unbound
            THEN [labels EXCEPT ![l + 1] = Len(words)] ELSE labels

\* bind moves a label bound before; a label of another assembler that this one
\* has not created is ignored.
BindLabel(l) ==
  labels' = IF l + 1 \in DOMAIN labels THEN [labels EXCEPT ![l + 1] = Len(words)]
            ELSE labels

Bind(l) ==
  /\ pc = "building"
  /\ BindLabel(l)
  /\ meant' = IF l < Len(labels) THEN [meant EXCEPT ![l] = Len(words)] ELSE meant
  /\ UNCHANGED <<words, fixups, errors, pc, result, calls>>

----------------------------------------------------------------------------
\* finish.

Finish_WithoutErrors == pc' = "patching" /\ UNCHANGED result

\* A recorded error is returned before any fixup is looked at.
Finish ==
  IF errors # << >> THEN pc' = "done" /\ result' = Head(errors)
  ELSE pc' = "patching" /\ UNCHANGED result

BeginFinish ==
  /\ pc = "building"
  /\ Finish
  /\ UNCHANGED <<words, labels, fixups, errors, history>>

Target(l) == IF l + 1 \in DOMAIN labels THEN labels[l + 1] ELSE Unbound

\* Distance in bytes from the branch itself, divided by its scale.
Scaled(fx) == ((Target(fx.label) - fx.at) * 4) \div LabelScale

Patched_WithoutMask(w, fx) ==
  (w \ Mask(fx.start, fx.width)) \cup Shift(BitsOf(Scaled(fx), fx.width + 1), fx.start)

Patched(w, fx) ==
  (w \ Mask(fx.start, fx.width)) \cup Shift(BitsOf(Scaled(fx), fx.width), fx.start)

Patch ==
  /\ pc = "patching" /\ fixups # << >>
  /\ LET fx == Head(fixups) IN
       IF Target(fx.label) = Unbound
       THEN pc' = "done" /\ result' = Error("unbound", fx.label) /\ UNCHANGED <<words, fixups>>
       ELSE /\ words' = [words EXCEPT ![fx.at + 1] = Patched(@, fx)]
            /\ fixups' = Tail(fixups)
            /\ UNCHANGED <<pc, result>>
  /\ UNCHANGED <<labels, errors, history>>

EndFinish ==
  /\ pc = "patching" /\ fixups = << >>
  /\ pc' = "done" /\ result' = Ok
  /\ UNCHANGED <<words, labels, fixups, errors, history>>

\* finish consumes the assembler.
Done == pc = "done" /\ UNCHANGED vars

----------------------------------------------------------------------------
Init ==
  /\ words = << >> /\ labels = << >> /\ fixups = << >> /\ errors = << >>
  /\ pc = "building" /\ result = Pending
  /\ calls = << >> /\ meant = [l \in 0..MaxLabels |-> Unbound]

Next ==
  \/ \E c \in Calls : CallMethod(c)
  \/ NewLabel
  \/ \E l \in 0..MaxLabels : Bind(l)
  \/ BeginFinish \/ Patch \/ EndFinish \/ Done

Spec == Init /\ [][Next]_vars

----------------------------------------------------------------------------
\* Properties.

Reason == {"operand", "alignment", "range"}
FixupType == [at : Nat, label : Nat, start : Nat, width : Nat]

\* Words, positions, fixups and errors have their types, and every fixup
\* patches a word that was emitted.
TypeOK ==
  /\ words \in Seq(SUBSET Int)
  /\ labels \in Seq(Nat \cup {Unbound})
  /\ fixups \in Seq(FixupType)
  /\ errors \in Seq([kind : Reason, n : Nat])
  /\ pc \in {"building", "patching", "done"}
  /\ result \in [kind : {"pending", "ok", "unbound"} \cup Reason, n : Nat]
  /\ calls \in Seq([call : Calls, at : Nat])
  /\ meant \in [0..MaxLabels -> Nat \cup {Unbound}]
  /\ \A j \in DOMAIN fixups : fixups[j].at < Len(words)

Succeeded == result = Ok
Asked(k) == calls[k].call
WordOf(k) == words[calls[k].at + 1]

\* What can be wrong with call k: its operand, or the label it names.
Fails(k) == Verdict(Asked(k)) # "ok"
Meant(l) == IF l \in 0..MaxLabels THEN meant[l] ELSE Unbound
Hangs(k) == Asked(k).operand.kind = "id" /\ Meant(Asked(k).operand.n) = Unbound

\* finish returns words only when every call was accepted and every label a
\* branch names was bound: no instruction is left out or half encoded.
ErrorsRefuse ==
  Succeeded => \A k \in DOMAIN calls : ~Fails(k) /\ ~Hangs(k)

\* asm_support.rs: the error returned is the real first failure, of the first
\* call that failed or, when none did, of the first branch to an unbound label.
FirstFailure ==
  result.kind \notin {"pending", "ok"} =>
    \E k \in DOMAIN calls :
      \/ /\ Fails(k) /\ \A j \in 1..(k - 1) : ~Fails(j)
         /\ result = Error(Verdict(Asked(k)), k)
      \/ /\ Hangs(k) /\ \A j \in 1..(k - 1) : ~Hangs(j)
         /\ \A j \in DOMAIN calls : ~Fails(j)
         /\ result = Error("unbound", Asked(k).operand.n)

\* The answer of finish is right either way: words for a program without a
\* failure, and the first failure of one that has any.
FinishAnswers == ErrorsRefuse /\ FirstFailure

\* The operand is one field.
Simple(f) == f.parts = <<[start |-> f.start, width |-> f.width, lit |-> {}]>>

\* What a word of form f says: the bits it fixes, and the number its parts hold.
FieldOf(w, parts) ==
  {b \in 0..(Total(parts) - 1) : Layout({b}, parts) # {} /\ Layout({b}, parts) \subseteq w}
Reads(w, f, x) ==
  /\ w \ Span(f.parts) = f.fixed \ Span(f.parts)
  /\ SignedRead(FieldOf(w, f.parts), f.width) * f.scale = x

\* The byte offset call k asked for, once labels are bound.
OffsetOf(k) ==
  IF Asked(k).operand.kind = "id" THEN (Meant(Asked(k).operand.n) - calls[k].at) * 4
  ELSE Asked(k).operand.n
Branches == {k \in DOMAIN calls : Asked(k).operand.kind \in {"id", "offset"}}
InReach(f, off) ==
  \E n \in SignedRange(f.width) : off = n * f.scale

\* A branch with one field that counts instructions goes where it was sent, to
\* an offset or to the last position its label was bound to, if the field can
\* hold the distance to it, whatever other branches do.
NearBranchesReach ==
  Succeeded => \A k \in Branches :
    /\ Simple(Asked(k).form) /\ Asked(k).form.scale = LabelScale
    /\ Asked(k).operand.kind = "offset" \/ InReach(Asked(k).form, OffsetOf(k))
    => Reads(WordOf(k), Asked(k).form, OffsetOf(k))

\* The field word w has for the branch of entry e holds the distance to a
\* position, as far as its width goes.
Holds(w, e, to) ==
  LET f == e.call.form IN
  w \cap Mask(f.start, f.width) = Shift(BitsOf(to - e.at, f.width), f.start)

\* finish has patched every branch to a label, each with its own distance to
\* where the label was last bound, and no later fixup undoes an earlier one.
DistancesStored ==
  Succeeded => \A k \in DOMAIN calls : Asked(k).operand.kind = "id" =>
    Holds(WordOf(k), calls[k], Meant(Asked(k).operand.n))

\* The form can hold the values its documentation allows: its parts lie apart,
\* and what is held of a value is a whole number within the width.
Apart(parts) ==
  \A j, k \in Stored(parts) : j # k =>
    Mask(parts[j].start, parts[j].width) \cap Mask(parts[k].start, parts[k].width) = {}
HeldRange(f) == IF f.lo < 0 THEN SignedRange(f.width) ELSE UnsignedRange(f.width)
Fits(f) ==
  /\ Apart(f.parts)
  /\ \A v \in f.lo..f.hi : v % f.scale = 0 =>
       Held(f, v) \in HeldRange(f) /\ (f.negate = 0 => (v - f.bias) % f.scale = 0)

\* The bits a word of form f holds of its operand, the constant ones included,
\* and the value they stand for.
HeldBits(w, f) ==
  FieldOf(w, f.parts)
    \cup UNION {Shift(f.parts[j].lit, Below(f.parts, j)) : j \in DOMAIN f.parts \ Stored(f.parts)}
ValueOf(bits, f) ==
  LET held == IF f.lo < 0 THEN SignedRead(bits, f.width) ELSE UnsignedRead(bits, f.width) IN
  IF f.negate # 0 THEN f.negate - held ELSE held * f.scale + f.bias

\* Values stored in split, scaled, biased or counted-down fields are read back,
\* and leave the other bits of the word as the form fixes them.
ValuesReadBack ==
  Succeeded => \A k \in DOMAIN calls :
    LET f == Asked(k).form IN
    Asked(k).operand.kind = "value" /\ Fits(f) =>
      /\ ValueOf(HeldBits(WordOf(k), f), f) = Asked(k).operand.n
      /\ WordOf(k) \ Span(f.parts) = f.fixed \ Span(f.parts)

\* Fixups touch nothing but their field: a word whose operand has one field
\* keeps the bits its form fixes, even when the label is out of reach.
OpcodesKept ==
  \A k \in DOMAIN calls :
    LET f == Asked(k).form IN
    Verdict(Asked(k)) # "operand" /\ Simple(f) /\ f.kind = "label" =>
      WordOf(k) \ Span(f.parts) = f.fixed \ Span(f.parts)

----------------------------------------------------------------------------
\* A statement of the documentation that the code does not keep.

\* README.md:39: fixups resolve branches when the assembler finishes; a target
\* the field cannot hold is reported.
BranchesReach ==
  Succeeded => \A k \in Branches : Reads(WordOf(k), Asked(k).form, OffsetOf(k))
=============================================================================
