------------------------------ MODULE BitDiffs ------------------------------
(***************************************************************************)
(* bitdiffs: the conditions on fields that narrow an encoding beyond its   *)
(* fixed bits.  arm/bitdiffs.go reads them, ir/bitdiffs.go evaluates them  *)
(* on a word and folds the equalities among them into the bit pattern.     *)
(*                                                                         *)
(* Text is a sequence of lexical units [k |-> kind, v |-> value]: "id" a   *)
(* name, "bits" a bit string, "bit" one bit of a field, "cat" several      *)
(* fields one after the other, "word" anything else; every other kind is   *)
(* the punctuation itself.                                                 *)
(***************************************************************************)
EXTENDS BitPatterns

Kinds(text) == [i \in DOMAIN text |-> text[i].k]
Sym(k) == [k |-> k, v |-> << >>]
Id(name) == [k |-> "id", v |-> name]
BitString(bits) == [k |-> "bits", v |-> bits]
At(text, k) == text # << >> /\ Head(text).k = k

\* The tree.  Start and end are -1 until the field is resolved; == and != keep
\* their one value in alts too.
AndNode(kids) == [kind |-> "and", kids |-> kids]
NotNode(kid) == [kind |-> "not", kids |-> <<kid>>]
AtomNode(field, op, alts) ==
  [kind |-> "atom", field |-> field, op |-> op, alts |-> alts, start |-> -1, end |-> -1]

----------------------------------------------------------------------------
\* The parser: a result is [ok, node, rest].

SyntaxError == [ok |-> FALSE]
Parsed(node, rest) == [ok |-> TRUE, node |-> node, rest |-> rest]

\* A value stands by itself or in parentheses; node is its bits.
ParseValue(text) ==
  IF At(text, "bits") THEN Parsed(text[1].v, Tail(text))
  ELSE IF Len(text) >= 3 /\ Kinds(SubSeq(text, 1, 3)) = <<"(", "bits", ")">>
  THEN Parsed(text[2].v, SubSeq(text, 4, Len(text)))
  ELSE SyntaxError

\* node before the sequence of what follows it.
Preceded(node, more) == IF more.ok THEN Parsed(<<node>> \o more.node, more.rest) ELSE SyntaxError

\* node is the sequence of the values up to the brace.
RECURSIVE ParseAlternatives(_), AfterValue(_)
ParseAlternatives(text) ==
  IF At(text, "}") THEN Parsed(<< >>, Tail(text))
  ELSE IF At(text, ",") THEN ParseAlternatives(Tail(text))
  ELSE AfterValue(ParseValue(text))

AfterValue(v) == IF v.ok THEN Preceded(v.node, ParseAlternatives(v.rest)) ELSE SyntaxError

OneValue(v) == IF v.ok THEN Parsed(<<v.node>>, v.rest) ELSE SyntaxError

Atom(field, op, values) ==
  IF values.ok THEN Parsed(AtomNode(field, op, values.node), values.rest) ELSE SyntaxError

ParseAtom(text) ==
  IF At(text, "id") /\ (At(Tail(text), "==") \/ At(Tail(text), "!="))
  THEN Atom(text[1].v, text[2].k, OneValue(ParseValue(SubSeq(text, 3, Len(text)))))
  ELSE IF Len(text) >= 3 /\ Kinds(SubSeq(text, 1, 3)) = <<"id", "IN", "{">>
  THEN Atom(text[1].v, "IN", ParseAlternatives(SubSeq(text, 4, Len(text))))
  ELSE SyntaxError

RECURSIVE ParseExpr(_), ParseAnd(_), ParseUnary(_), Separated(_, _), AfterTerm(_, _)

\* What a separator keeps apart; node is the sequence of the trees.
Separated(text, sep) == AfterTerm(IF sep = "||" THEN ParseAnd(text) ELSE ParseUnary(text), sep)

AfterTerm(one, sep) ==
  IF ~one.ok THEN SyntaxError
  ELSE IF At(one.rest, sep) THEN Preceded(one.node, Separated(Tail(one.rest), sep))
  ELSE Parsed(<<one.node>>, one.rest)

\* A disjunction becomes !(!a && !b).
Disjoined(terms) ==
  IF ~terms.ok THEN SyntaxError
  ELSE IF Len(terms.node) = 1 THEN Parsed(terms.node[1], terms.rest)
  ELSE Parsed(NotNode(AndNode([i \in DOMAIN terms.node |-> NotNode(terms.node[i])])), terms.rest)

Conjoined(kids) ==
  IF ~kids.ok THEN SyntaxError
  ELSE IF Len(kids.node) = 1 THEN Parsed(kids.node[1], kids.rest)
  ELSE Parsed(AndNode(kids.node), kids.rest)

\* What stands before a closing parenthesis.
Closed(inner) ==
  IF inner.ok /\ At(inner.rest, ")") THEN Parsed(inner.node, Tail(inner.rest)) ELSE SyntaxError

Negated(inner) == IF inner.ok THEN Parsed(NotNode(inner.node), inner.rest) ELSE SyntaxError

ParseExpr(text) == Disjoined(Separated(text, "||"))

ParseAnd(text) == Conjoined(Separated(text, "&&"))

ParseUnary(text) ==
  IF At(text, "(") THEN Closed(ParseExpr(Tail(text)))
  ELSE IF At(text, "!")
  THEN IF At(Tail(text), "(") THEN Negated(Closed(ParseExpr(SubSeq(text, 3, Len(text))))) ELSE SyntaxError
  ELSE ParseAtom(text)

\* Nothing may be left.
Whole(tree) == IF tree.ok /\ tree.rest = << >> THEN tree ELSE SyntaxError

ParseBitDiffs(text) == Whole(ParseExpr(text))

----------------------------------------------------------------------------
\* Evaluation.

\* normalizeBitString: cut to the low bits, or padded with zeros.
Normalized(bits, width) ==
  IF Len(bits) <= width THEN Filled(width - Len(bits), "0") \o bits
  ELSE SubSeq(bits, Len(bits) - width + 1, Len(bits))

MatchBitString(got, bits) ==
  \A i \in DOMAIN got : Normalized(bits, Len(got))[i] \in {got[i], "x"}

Resolved(atom) == InRange(atom)

EvalAtom(atom, word) ==
  Resolved(atom) =>
    LET found == \E i \in DOMAIN atom.alts : MatchBitString(FieldBits(word, atom), atom.alts[i])
    IN  IF atom.op = "!=" THEN ~found ELSE found

RECURSIVE EvalBitDiffs(_, _)
EvalBitDiffs(n, word) ==
  CASE n.kind = "and" -> \A i \in DOMAIN n.kids : EvalBitDiffs(n.kids[i], word)
    [] n.kind = "not" -> ~EvalBitDiffs(n.kids[1], word)
    [] n.kind = "atom" -> EvalAtom(n, word)

\* tree is << >> or the one tree.
MatchWord(instr, word) ==
  /\ MatchBitPattern(PatternOf(instr), word)
  /\ \A i \in DOMAIN instr.tree : EvalBitDiffs(instr.tree[i], word)

----------------------------------------------------------------------------
\* Fields and pins.

\* The last field of a name gives an atom its place; the bits are normalised
\* to its width.  Unknown names keep -1.
RECURSIVE ResolveBitDiffFields(_, _)
ResolveBitDiffFields(n, fields) ==
  IF n.kind # "atom"
  THEN [n EXCEPT !.kids = [i \in DOMAIN @ |-> ResolveBitDiffFields(@[i], fields)]]
  ELSE IF Named(fields, n.field) = {} THEN n
  ELSE LET f == fields[Max(Named(fields, n.field))]
       IN  [n EXCEPT !.start = f.start, !.end = f.end,
                     !.alts = [i \in DOMAIN @ |-> Normalized(@[i], Width(f))]]

\* ResolveBitDiffFields reports an unknown field at the root only.
RootResolved(tree, fields) == tree.kind # "atom" \/ Named(fields, tree.field) # {}

\* walkPins: the equalities under an even number of negations, in order.
RECURSIVE Pins(_, _)
Pins(n, negated) ==
  CASE n.kind = "not" -> Pins(n.kids[1], ~negated)
    [] n.kind = "and" -> FlattenSeq([i \in DOMAIN n.kids |-> Pins(n.kids[i], negated)])
    [] n.kind = "atom" -> IF ~negated /\ n.op = "==" THEN <<n>> ELSE << >>

\* Mutant: only the field learns of the value.
PinEquality_FieldOnly(instr, atom) ==
  [instr EXCEPT !.fields = [k \in DOMAIN @ |-> IF @[k].name = atom.field /\ Resolved(atom)
                                               THEN [@[k] EXCEPT !.fixed = atom.alts[1]] ELSE @[k]]]

\* The value goes into the pattern, and into the first field of that range or
\* name when it leaves no bit open.
PinEquality(instr, atom) ==
  LET bits == Normalized(atom.alts[1], Width(atom))
      same == {k \in DOMAIN instr.fields : \/ instr.fields[k].name = atom.field
                                           \/ /\ instr.fields[k].start = atom.start
                                              /\ instr.fields[k].end = atom.end}
      fixed == IF "x" \in Range(bits) THEN << >> ELSE bits
      pinned(f) == [name |-> atom.field, start |-> atom.start, end |-> atom.end,
                    fixed |-> IF fixed = << >> THEN f.fixed ELSE fixed]
  IN  IF ~Resolved(atom) THEN instr
      ELSE [instr EXCEPT
              !.pattern = [b \in Bits |-> IF Covers(atom, b) /\ bits[atom.end - b + 1] # "x"
                                          THEN bits[atom.end - b + 1] ELSE @[b]],
              !.fields = IF same # {} THEN [@ EXCEPT ![Min(same)] = pinned(@)]
                         ELSE IF fixed = << >> THEN @
                         ELSE Append(@, pinned([fixed |-> << >>]))]

\* Operands whose field has become fixed are dropped.
WithoutFixed(instr) ==
  [instr EXCEPT !.operands =
     SelectSeq(@, LAMBDA op : \A k \in Named(instr.fields, op) : instr.fields[k].fixed = << >>)]

ApplyBitDiffPins(instr, tree) == WithoutFixed(FoldLeft(PinEquality, instr, Pins(tree, FALSE)))

\* A text that cannot be read narrows nothing.
WithTree(instr, tree) == [ApplyBitDiffPins(instr, tree) EXCEPT !.tree = <<tree>>]

Narrowed(instr, parsed) ==
  IF parsed.ok THEN WithTree(instr, ResolveBitDiffFields(parsed.node, instr.fields)) ELSE instr

ApplyBitDiffs(instr, text) ==
  IF text = << >> THEN instr ELSE Narrowed([instr EXCEPT !.bitdiffs = text], ParseBitDiffs(text))
=============================================================================
