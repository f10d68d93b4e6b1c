--------------------------- MODULE MCDecoderTree ---------------------------
(***************************************************************************)
(* Catalogs of three encodings over words of four bits.                    *)
(***************************************************************************)
EXTENDS DecoderTree

MCInstr == 1..3

Fixed(hi, lo, value) == [lo |-> lo, hi |-> hi, fixed |-> TRUE, value |-> value]
Var(hi, lo) == [lo |-> lo, hi |-> hi, fixed |-> FALSE, value |-> {}]

\* An encoding that its fields determine, and one with a pattern of its own.
ByFields(fields) ==
  [fields |-> fields, pins |-> {}, ones |-> {}, accepted |-> Word, alias |-> FALSE]
ByPattern(fields, pins, ones) == [ByFields(fields) EXCEPT !.pins = pins, !.ones = ones]

\* Canonical, aliased and constrained encodings over the same opcode field;
\* fields split differently, free ones, and a field over the whole word.
Shapes == {
  ByFields({Fixed(3, 2, {3}), Var(1, 0)}),
  ByFields({Fixed(3, 2, {2}), Fixed(1, 1, {1}), Var(0, 0)}),
  ByFields({Fixed(3, 3, {3}), Fixed(1, 0, {0}), Var(2, 2)}),
  ByFields({Var(3, 2), Fixed(1, 0, {0})}),
  ByFields({Fixed(3, 0, {3, 0})}),
  [ByFields({Fixed(3, 2, {3}), Fixed(1, 0, {0})}) EXCEPT !.alias = TRUE],
  [ByFields({Fixed(3, 2, {3}), Fixed(1, 0, {0})}) EXCEPT !.accepted = {w \in Word : 1 \notin w}],
  [ByFields({Fixed(3, 2, {3}), Var(1, 0)}) EXCEPT !.accepted = {w \in Word : 0 \in w}]}

\* Patterns that pin bits no field names, as when unnamed fields are dropped,
\* pin more than the fields do, pin nothing, or come without fields.
Patterns == {
  ByPattern({Var(1, 0)}, {2, 3}, {2}),
  ByPattern({Var(1, 0)}, {3}, {3}),
  ByPattern({Fixed(3, 3, {3}), Var(1, 0)}, {0, 3}, {3}),
  ByFields({Var(3, 0)}),
  ByPattern({}, {2, 3}, {3}),
  ByFields({})}

MCCatalogs == [MCInstr -> Shapes \cup Patterns]
=============================================================================
