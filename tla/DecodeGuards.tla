---------------------------- MODULE DecodeGuards ----------------------------
(***************************************************************************)
(* What arm/iform_parse.go takes from the Decode pseudocode: conditions    *)
(* that make a word UNDEFINED become conditions on the fields.             *)
(*                                                                         *)
(* A block is a sequence of lines [k, v, depth], v the condition of an if  *)
(* and depth how far the line is indented:                                 *)
(*   "undef"    if v then EndOfDecode(Decode_UNDEF); end;                  *)
(*   "undef32"  if v then Undefined();                                     *)
(*   "act"      if v then <something else>; end;                           *)
(*   "open"     if v then            "bare"  EndOfDecode(Decode_UNDEF);    *)
(*   "end"      end;                 "case", "when", "else", "stmt"        *)
(***************************************************************************)
EXTENDS BitDiffs

Equals(field, bits) == <<Id(field), Sym("=="), BitString(bits)>>

\* What strings.Split leaves between the separators.
Terms(cond) ==
  FoldLeft(LAMBDA acc, u : IF u.k = "||" THEN Append(acc, << >>)
                           ELSE [acc EXCEPT ![Len(acc)] = Append(@, u)],
           << << >> >>, cond)

IsBinary(bits) == "x" \notin Range(bits)
IsComparison(term, op) == Kinds(term) = <<"id", op, "bits">> /\ IsBinary(term[3].v)
IsNoFeature(term) == Kinds(term) = <<"!", "feature">>
Flip_Kept(c) == c   \* Mutant: the forbidden value is pinned.
Flip(c) == IF c = "0" THEN "1" ELSE "0"

\* A pattern that fixes one bit, place i, to c.
OneBit(width, i, c) == [j \in 1..width |-> IF j = i THEN c ELSE "x"]

\* An if whose body starts with EndOfDecode(Decode_UNDEF), be it on the next line.
GuardAt(block, i) ==
  \/ block[i].k = "undef"
  \/ block[i].k = "open" /\ i < Len(block) /\ block[i + 1].k = "bare"

Lines(block) == [i \in DOMAIN block |-> i]
Guards(block) == SelectSeq(Lines(block), LAMBDA i : GuardAt(block, i))
TopGuards(block) == SelectSeq(Guards(block), LAMBDA i : block[i].depth = 0)

\* The conditions of these lines.
Conditions(block, lines) == [n \in DOMAIN lines |-> block[lines[n]].v]

----------------------------------------------------------------------------
\* decodeEqualityConstraints: its first expression is not anchored at the
\* start of a line.
EqualityOf(cond) == IF IsComparison(cond, "!=") THEN <<Equals(cond[1].v, cond[3].v)>> ELSE << >>

\* A disjunction of missing features and one such inequality.
FeatureEqualityOf(cond) ==
  LET fields == SelectSeq(Terms(cond), LAMBDA t : ~IsNoFeature(t))
  IN  IF Len(Terms(cond)) >= 2 /\ Len(fields) = 1 /\ IsComparison(fields[1], "!=")
      THEN <<Equals(fields[1][1].v, fields[1][3].v)>> ELSE << >>

DecodeEqualityConstraints(code) ==
  FlattenSeq([i \in DOMAIN code |->
    LET any == Conditions(code[i], Guards(code[i]))
        top == Conditions(code[i], TopGuards(code[i]))
    IN  FlattenSeq([n \in DOMAIN any |-> EqualityOf(any[n])])
          \o FlattenSeq([n \in DOMAIN top |-> FeatureEqualityOf(top[n])])])

\* decodeBitPinConstraints: field<n> == 'b' at the start of a line.
DecodeBitPinConstraints(code, boxes) ==
  LET widthOf(name) == LET named == {k \in DOMAIN boxes : boxes[k].name = name}
                       IN  IF named = {} THEN 0 ELSE boxes[Max(named)].width
      pin(cond) ==
        IF Kinds(cond) = <<"bit", "==", "bits">> /\ Len(cond[3].v) = 1 /\ IsBinary(cond[3].v)
        THEN LET w == widthOf(cond[1].v[1]) n == cond[1].v[2]
             IN  IF n < w THEN <<Equals(cond[1].v[1], OneBit(w, w - n, Flip(cond[3].v[1])))>> ELSE << >>
        ELSE << >>
      pins(conditions) == FlattenSeq([n \in DOMAIN conditions |-> pin(conditions[n])])
  IN  FlattenSeq([i \in DOMAIN code |-> pins(Conditions(code[i], TopGuards(code[i])))])

\* The expression of decodeEnumeratedPinConstraints is lazy, crosses lines and
\* is not anchored either: an if with another body takes the condition of the
\* next guard with it, the guard after that is read on its own.
CleanGuards(block) ==
  SelectSeq(Guards(block), LAMBDA i :
    LET before == {j \in 1..(i - 1) : GuardAt(block, j)}
        last == IF before = {} THEN 0 ELSE Max(before)
    IN  \A j \in (last + 1)..(i - 1) : block[j].k \notin {"open", "act", "undef32"})

\* One pattern with one fixed bit is half of the field ...
HalfByPattern(cond) ==
  LET bits == cond[4].v
      fixed == {i \in DOMAIN bits : bits[i] # "x"}
      i == CHOOSE i \in fixed : TRUE
  IN  IF Kinds(cond) = <<"id", "IN", "{", "bits", "}">> /\ Cardinality(fixed) = 1
      THEN <<Equals(cond[1].v, [bits EXCEPT ![i] = Flip(@)])>> ELSE << >>

\* ... and so are half of its values when they share a bit.
HalfByValues(terms) ==
  LET field == terms[1][1].v
      width == Len(terms[1][3].v)
      values == {terms[i][3].v : i \in DOMAIN terms}
      shared == {i \in 1..width : \A a, b \in values : a[i] = b[i]}
      i == Min(shared)
  IN  IF /\ \A k \in DOMAIN terms : IsComparison(terms[k], "==")
         /\ \A k \in DOMAIN terms : terms[k][1].v = field /\ Len(terms[k][3].v) = width
         /\ Cardinality(values) = 2^(width - 1) /\ shared # {}
      THEN <<Equals(field, OneBit(width, i, Flip(terms[1][3].v[i])))>> ELSE << >>

DecodeEnumeratedPinConstraints(code) ==
  LET pin(cond) == IF Len(Terms(cond)) = 1 THEN HalfByPattern(cond) ELSE HalfByValues(Terms(cond))
      pins(conditions) == FlattenSeq([n \in DOMAIN conditions |-> pin(conditions[n])])
  IN  FlattenSeq([i \in DOMAIN code |-> pins(Conditions(code[i], CleanGuards(code[i])))])

\* combineConstraints: the expression in parentheses, then the terms.
CombineConstraints(text, terms) ==
  LET parts == (IF text = << >> THEN << >> ELSE <<<<Sym("(")>> \o text \o <<Sym(")")>>>>) \o terms
  IN  FoldLeft(LAMBDA acc, p : IF acc = << >> THEN p ELSE acc \o <<Sym("&&")>> \o p, << >>, parts)

----------------------------------------------------------------------------
\* decodeForbiddenConstraints: a clause is a pattern, as the bits it fixes.

Compatible(a, b) == \A bit \in DOMAIN a \cap DOMAIN b : a[bit] = b[bit]

CombineForbiddenClauses(left, right) ==
  FlattenSeq([i \in DOMAIN left |->
    LET fit == SelectSeq(right, LAMBDA b : Compatible(left[i], b))
    IN  [j \in DOMAIN fit |-> left[i] @@ fit[j]]])

\* The fields a name stands for, the high one first; a bit of a field is one too.
ConditionFields(unit, fields) ==
  LET last(name) == fields[Max(Named(fields, name))]
      names == CASE unit.k = "id" -> <<unit.v>> [] unit.k = "bit" -> <<unit.v[1]>> [] OTHER -> unit.v
      place(i) == IF unit.k = "bit"
                  THEN [start |-> last(names[i]).start + unit.v[2], end |-> last(names[i]).start + unit.v[2]]
                  ELSE [start |-> last(names[i]).start, end |-> last(names[i]).end]
  IN  IF \/ \E i \in DOMAIN names : Named(fields, names[i]) = {}
         \/ unit.k = "bit" /\ unit.v[2] >= Width(last(unit.v[1]))
      THEN << >> ELSE [i \in DOMAIN names |-> place(i)]

\* The clauses of a disjunction.
Either(left, more) == IF more.ok THEN Parsed(left \o more.node, more.rest) ELSE SyntaxError

Product(left, right) ==
  IF right.ok THEN Parsed(CombineForbiddenClauses(left, right.node), right.rest) ELSE SyntaxError

RECURSIVE ClauseOr(_, _), ClauseAnd(_, _), ClausePrimary(_, _), MoreFactors(_, _), MoreClauses(_, _)

\* The bits of places, most significant first.
Positions(places) ==
  FlattenSeq([i \in DOMAIN places |-> [j \in 1..Width(places[i]) |-> places[i].end - j + 1]])

\* The one clause of a comparison; as many bits as the fields have, not all open.
Comparison(positions, bits, rest) ==
  LET fixed == {i \in DOMAIN bits : bits[i] # "x"}
  IN  IF positions = << >> \/ Len(positions) # Len(bits) \/ fixed = {} THEN SyntaxError
      ELSE Parsed(<<[b \in {positions[i] : i \in fixed} |->
                       bits[CHOOSE i \in fixed : positions[i] = b]]>>, rest)

\* A comparison, or an expression in parentheses; the node is its clauses.
ClausePrimary(text, fields) ==
  IF At(text, "(") THEN Closed(ClauseOr(Tail(text), fields))
  ELSE IF /\ Len(text) >= 3 /\ text[1].k \in {"id", "bit", "cat"}
          /\ text[2].k = "==" /\ text[3].k = "bits"
  THEN Comparison(Positions(ConditionFields(text[1], fields)), text[3].v, SubSeq(text, 4, Len(text)))
  ELSE SyntaxError

\* A conjunction that cannot hold is rejected like one that cannot be read.
MoreFactors(left, fields) ==
  IF ~left.ok \/ left.node = << >> THEN SyntaxError
  ELSE IF At(left.rest, "&&") THEN MoreFactors(Product(left.node, ClausePrimary(Tail(left.rest), fields)), fields)
  ELSE left

ClauseAnd(text, fields) == MoreFactors(ClausePrimary(text, fields), fields)

\* The clauses of one side or the other.
MoreClauses(left, fields) ==
  IF left.ok /\ At(left.rest, "||") THEN Either(left.node, ClauseOr(Tail(left.rest), fields)) ELSE left

ClauseOr(text, fields) == MoreClauses(ClauseAnd(text, fields), fields)

AllClauses(p) ==
  IF p.ok /\ p.rest = << >> THEN [valid |-> TRUE, clauses |-> p.node]
  ELSE [valid |-> FALSE, clauses |-> << >>]

ClausesOf(cond, fields) == AllClauses(ClauseOr(cond, fields))

\* Mutant: a frame that cannot be read is passed over.
UnderFrames_ReadableOnly(context, clauses) ==
  FoldLeft(LAMBDA acc, frame : CombineForbiddenClauses(frame.clauses, acc), clauses,
           SelectSeq(context, LAMBDA frame : frame.valid))

\* The clauses of a guard under the frames around it.
UnderFrames(context, clauses) ==
  FoldLeft(LAMBDA acc, frame : IF frame.valid THEN CombineForbiddenClauses(frame.clauses, acc) ELSE << >>,
           clauses, context)

\* One line: an end closes the innermost frame, an if whose body starts on the
\* next line opens one, and a guard forbids.
ForbiddenLine(acc, line, own) ==
  CASE line.k = "end" /\ acc.context # << >> -> [acc EXCEPT !.context = Front(@)]
    [] line.k = "open" -> [acc EXCEPT !.context = Append(@, own)]
    [] line.k = "undef" /\ own.valid ->
         [acc EXCEPT !.found = @ \o UnderFrames(acc.context, own.clauses)]
    [] OTHER -> acc

DecodeForbiddenConstraints(code, fields) ==
  FlattenSeq([i \in DOMAIN code |->
    FoldLeft(LAMBDA acc, line : ForbiddenLine(acc, line, ClausesOf(line.v, fields)),
             [context |-> << >>, found |-> << >>], code[i]).found])
=============================================================================
