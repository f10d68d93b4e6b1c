----------------------------- MODULE BitPatterns -----------------------------
(***************************************************************************)
(* pkg/ir: bit patterns, fields and words.  A word gives each bit position *)
(* "0" or "1"; a pattern "0", "1" or "x".  The bits of a field are written *)
(* as a sequence, most significant first.  A field whose value the         *)
(* encoding fixes has it in fixed, any other has << >> there.              *)
(***************************************************************************)
EXTENDS Integers, Sequences, SequencesExt, FiniteSets, FiniteSetsExt, TLC

CONSTANT WordBits   \* 32 in the code

ASSUME WordBitsAssumption == WordBits \in Nat \ {0}

Bits == 0..(WordBits - 1)
Words == [Bits -> {"0", "1"}]
NoPattern == [b \in Bits |-> "x"]

Width(f) == f.end - f.start + 1
Covers(f, b) == f.start <= b /\ b <= f.end
InRange(f) == 0 <= f.start /\ f.start <= f.end /\ f.end < WordBits
Filled(n, c) == [i \in 1..n |-> c]

\* fieldBitsMSB
FieldBits(word, f) == [i \in 1..Width(f) |-> word[f.end - i + 1]]

----------------------------------------------------------------------------
\* Patterns.

FixedBits(p) == {b \in DOMAIN p : p[b] \in {"0", "1"}}

\* A pattern that fixes nothing is provisional and matches nothing.
MatchBitPattern(p, word) ==
  FixedBits(p) # {} /\ \A b \in FixedBits(p) : p[b] = word[b]

\* FixedBitsFromPattern and FixedBitsFromEncoding: mask and value as one pattern.
FixedBitsFromPattern(p) == [b \in FixedBits(p) |-> p[b]]

FixedFields(fields) == {k \in DOMAIN fields : fields[k].fixed # << >> /\ InRange(fields[k])}
FixedIn(f, b) == f.fixed[f.end - b + 1]

\* The values of overlapping fields are or-ed.
FixedBitsFromEncoding(fields) ==
  [b \in {b \in Bits : \E k \in FixedFields(fields) : Covers(fields[k], b)} |->
     IF \E k \in FixedFields(fields) : Covers(fields[k], b) /\ FixedIn(fields[k], b) = "1"
     THEN "1" ELSE "0"]

\* Of overlapping fields the last one counts.
PatternFromEncoding(fields) ==
  [b \in Bits |->
     LET over == {k \in FixedFields(fields) : Covers(fields[k], b)}
     IN  IF over = {} THEN "x" ELSE FixedIn(fields[Max(over)], b)]

PatternOf(instr) ==
  IF FixedBits(instr.pattern) = {} THEN PatternFromEncoding(instr.fields) ELSE instr.pattern

MaskOf(instr) ==
  LET fixed == FixedBitsFromPattern(PatternOf(instr))
  IN  IF DOMAIN fixed = {} THEN FixedBitsFromEncoding(instr.fields) ELSE fixed

\* FixedWord: zero where nothing is fixed; not ok when nothing is.
FixedWord(instr) ==
  [ok |-> DOMAIN MaskOf(instr) # {},
   word |-> [b \in Bits |-> IF b \in DOMAIN MaskOf(instr) THEN MaskOf(instr)[b] ELSE "0"]]

----------------------------------------------------------------------------
\* Values of fields.

ExtractFields(word, fields) ==
  LET valid == SelectSeq(fields, InRange)
  IN  [k \in DOMAIN valid |->
         [name |-> valid[k].name, value |-> FieldBits(word, valid[k]),
          fixed |-> valid[k].fixed # << >>]]

\* A value of more bits than the field has is refused.
Overflows(f, value) == \E i \in DOMAIN value : i <= Len(value) - Width(f) /\ value[i] = "1"

InsertField(word, f, value) ==
  LET bits == Filled(Width(f), "0") \o value
  IN  [ok |-> InRange(f) /\ ~Overflows(f, value),
       word |-> [b \in Bits |-> IF InRange(f) /\ Covers(f, b) THEN bits[Len(bits) - (b - f.start)]
                                ELSE word[b]]]

\* The last field of a name stands for the name; other names are ignored.
Named(fields, name) == {k \in DOMAIN fields : fields[k].name = name}

PackFields(base, fields, values) ==
  LET target(name) == fields[Max(Named(fields, name))]
      known == {name \in DOMAIN values : Named(fields, name) # {}}
  IN  [ok |-> \A name \in known : InsertField(base, target(name), values[name]).ok,
       word |-> [b \in Bits |->
         LET over == {name \in known : Covers(target(name), b)}
         IN  IF over = {} THEN base[b]
             ELSE InsertField(base, target(CHOOSE name \in over : TRUE),
                              values[CHOOSE name \in over : TRUE]).word[b]]]
=============================================================================
