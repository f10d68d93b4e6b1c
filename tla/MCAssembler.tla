---------------------------- MODULE MCAssembler ----------------------------
(***************************************************************************)
(* Instances of Assembler over words of ten bits: a branch with a field of *)
(* two bits and one of three, an address form whose operand is split as    *)
(* that of ADR, and values in split, scaled, biased and literal fields.    *)
(***************************************************************************)
EXTENDS Assembler

MCBit == 0..9

P(start, width) == [start |-> start, width |-> width, lit |-> {}]
Lit(width, ones) == [start |-> -1, width |-> width, lit |-> ones]
Plain == [kind |-> "plain", fixed |-> {9, 8}, parts |-> << >>, start |-> 0, width |-> 0,
          scale |-> 1, lo |-> 0, hi |-> 0, bias |-> 0, negate |-> 0]
Branch(fixed, parts, width, scale) ==
  [Plain EXCEPT !.kind = "label", !.fixed = fixed, !.parts = parts,
                !.start = parts[1].start, !.width = width, !.scale = scale]
Value(parts, width, scale, lo, hi) ==
  [Plain EXCEPT !.kind = "value", !.parts = parts, !.start = parts[1].start,
                !.width = width, !.scale = scale, !.lo = lo, !.hi = hi]

Tbz == Branch({8, 0}, <<P(2, 2)>>, 2, 4)
B == Branch({9}, <<P(0, 3)>>, 3, 4)
Adr == Branch({9}, <<P(1, 3), P(6, 2)>>, 5, 1)

Imm == Value(<<P(4, 2), P(0, 1)>>, 3, 1, -4, 3)              \* split, signed
Times == Value(<<P(2, 2)>>, 2, 2, 0, 6)                      \* "times 2"
Plus == [Value(<<P(2, 2)>>, 2, 1, 1, 4) EXCEPT !.bias = 1]
Minus == [Value(<<P(5, 2)>>, 2, 1, 1, 4) EXCEPT !.negate = 4]
Strided == Value(<<P(4, 1), Lit(1, {}), P(0, 1)>>, 3, 1, 0, 7)  \* T:'0':Zt
MCForm == {Plain, Tbz, B, Adr, Imm, Times, Plus, Minus, Strided}
ASSUME MCFits == \A f \in MCForm : f.kind = "value" => Fits(f)

Call(f, kind, n) == [form |-> f, operand |-> [kind |-> kind, n |-> n]]
Filler == Call(Plain, "none", 0)
LabelCalls ==
  {Call(Tbz, "id", 0), Call(Tbz, "id", 1), Call(B, "id", 0), Call(Tbz, "offset", -8),
   Call(B, "offset", 16), Call(Plain, "unencodable", 0), Filler}
ValueCalls ==
  {Call(f, "value", n) : f \in {Imm, Times, Plus, Minus, Strided}, n \in -5..8}
  \cup {Call(f, "offset", n) : f \in {Tbz, B}, n \in -20..20}
AllCalls == LabelCalls \cup ValueCalls
FarCalls == {Call(Tbz, "id", 0), Filler}

\* Values and offsets are checked in programs of one call, as nothing else in
\* the program has a part in them.
Offered ==
  IF calls = << >> THEN AllCalls
  ELSE IF calls[1].call \in ValueCalls \ LabelCalls THEN {} ELSE LabelCalls
MCNext ==
  \/ \E c \in Offered : CallMethod(c)
  \/ NewLabel
  \/ \E l \in 0..MaxLabels : Bind(l)
  \/ BeginFinish \/ Patch \/ EndFinish \/ Done
MCSpec == Init /\ [][MCNext]_vars
=============================================================================
