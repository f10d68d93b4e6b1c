------------------------------- MODULE MCIForm -------------------------------
(***************************************************************************)
(* Pages with a known meaning, written as the architecture's XML is, for   *)
(* words of five bits.                                                     *)
(***************************************************************************)
EXTENDS IForm

MCWordBits == 5
MCSymbolLinks == {90}   \* <a href="...#WdOrWZR">

----------------------------------------------------------------------------
\* Conditions: <<"==", field, bits>>, <<"!=", field, bits>>, <<"IN", field, set>>,
\* <<"bit", field, n, c>>, <<"cat", fields, bits>>, <<"true">>, <<"&&", a, b>>, <<"||", a, b>>,
\* <<"!", a>>, <<"nofeature">> and <<"state">>, a test of the machine's state.

B(text) == BitString(text)
Alternatives(set) ==
  FoldLeft(LAMBDA acc, bits : acc \o (IF acc = << >> THEN << >> ELSE <<Sym(",")>>) \o <<B(bits)>>,
           << >>, set)

RECURSIVE Write(_)
Operand(e, op) == IF e[1] = "||" /\ op = "&&" THEN <<Sym("(")>> \o Write(e) \o <<Sym(")")>> ELSE Write(e)
Write(e) ==
  CASE e[1] \in {"==", "!="} -> <<Id(e[2]), Sym(e[1]), B(e[3])>>
    [] e[1] = "IN" -> <<Id(e[2]), Sym("IN"), Sym("{")>> \o Alternatives(e[3]) \o <<Sym("}")>>
    [] e[1] = "bit" -> <<[k |-> "bit", v |-> <<e[2], e[3]>>], Sym("=="), B(<<e[4]>>)>>
    [] e[1] = "cat" -> <<[k |-> "cat", v |-> e[2]], Sym("=="), B(e[3])>>
    [] e[1] \in {"&&", "||"} -> Operand(e[2], e[1]) \o <<Sym(e[1])>> \o Operand(e[3], e[1])
    [] e[1] = "!" -> <<Sym("!"), Sym("(")>> \o Write(e[2]) \o <<Sym(")")>>
    [] e[1] = "nofeature" -> <<Sym("!"), [k |-> "feature", v |-> "FEAT"]>>
    [] e[1] = "state" -> <<[k |-> "word", v |-> "InStreamingMode()"]>>

\* The boxes say where a field is.
Box(name, hi, bits) == [name |-> name, hi |-> hi, width |-> Len(bits), bits |-> bits, ne |-> << >>]
Carved(name, hi, ne) == [name |-> name, hi |-> hi, width |-> Len(ne), bits |-> Filled(Len(ne), "x"), ne |-> ne]
BitsOf(boxes, field, word) ==
  LET box == CHOOSE box \in Range(boxes) : box.name = field
  IN  [i \in 1..box.width |-> word[box.hi - i + 1]]
Agrees(got, bits) == \A i \in DOMAIN bits : bits[i] \in {"x", got[i]}

RECURSIVE MCHolds(_, _, _)
MCHolds(e, boxes, word) ==
  CASE e[1] = "==" -> Agrees(BitsOf(boxes, e[2], word), e[3])
    [] e[1] = "!=" -> ~Agrees(BitsOf(boxes, e[2], word), e[3])
    [] e[1] = "IN" -> \E i \in DOMAIN e[3] : Agrees(BitsOf(boxes, e[2], word), e[3][i])
    [] e[1] = "bit" -> Reverse(BitsOf(boxes, e[2], word))[e[3] + 1] = e[4]
    [] e[1] = "cat" -> Agrees(FlattenSeq([i \in DOMAIN e[2] |-> BitsOf(boxes, e[2][i], word)]), e[3])
    [] e[1] = "&&" -> MCHolds(e[2], boxes, word) /\ MCHolds(e[3], boxes, word)
    [] e[1] = "||" -> MCHolds(e[2], boxes, word) \/ MCHolds(e[3], boxes, word)
    [] e[1] = "!" -> ~MCHolds(e[2], boxes, word)
    [] e[1] = "true" -> TRUE
    [] OTHER -> FALSE   \* "nofeature", "state"

----------------------------------------------------------------------------
\* Pseudocode: <<"undef", e>>, <<"bare", e>> (the call on a line of its own),
\* <<"undef32", e>>, <<"act", e>>, <<"stmt">>, <<"if", e, items>>,
\* <<"else", e, items, items>> (the two branches), <<"case", field, bits, items>>.

Line(k, v, depth) == [k |-> k, v |-> v, depth |-> depth]

RECURSIVE LinesOf(_, _), Undefs(_, _, _)
LinesOf(items, d) ==
  FlattenSeq([i \in DOMAIN items |->
    LET it == items[i] IN
    CASE it[1] \in {"undef", "undef32", "act"} -> <<Line(it[1], Write(it[2]), d)>>
      [] it[1] = "bare" -> <<Line("open", Write(it[2]), d), Line("bare", << >>, d + 1), Line("end", << >>, d)>>
      [] it[1] = "if" -> <<Line("open", Write(it[2]), d)>> \o LinesOf(it[3], d + 1) \o <<Line("end", << >>, d)>>
      [] it[1] = "else" -> <<Line("open", Write(it[2]), d)>> \o LinesOf(it[3], d + 1)
                             \o <<Line("else", << >>, d)>> \o LinesOf(it[4], d + 1) \o <<Line("end", << >>, d)>>
      [] it[1] = "case" -> <<Line("case", << >>, d), Line("when", << >>, d + 1)>>
                             \o LinesOf(it[4], d + 2) \o <<Line("end", << >>, d)>>
      [] OTHER -> <<Line("stmt", << >>, d)>>])

Undefs(items, boxes, word) ==
  \E i \in DOMAIN items :
    LET it == items[i]
        true(e) == MCHolds(e, boxes, word)
    IN  CASE it[1] \in {"undef", "undef32", "bare"} -> true(it[2])
          [] it[1] = "if" -> true(it[2]) /\ Undefs(it[3], boxes, word)
          [] it[1] = "else" -> Undefs(IF true(it[2]) THEN it[3] ELSE it[4], boxes, word)
          [] it[1] = "case" -> true(<<"==", it[2], it[3]>>) /\ Undefs(it[4], boxes, word)
          [] OTHER -> FALSE

MCUndefined(class, word) == Undefs(class.items, class.boxes, word)

RECURSIVE GuardIn(_, _, _)
GuardIn(items, boxes, word) ==
  \E it \in Range(items) :
    CASE it[1] \in {"undef", "undef32", "bare"} -> MCHolds(it[2], boxes, word)
      [] it[1] = "if" -> GuardIn(it[3], boxes, word)
      [] it[1] = "else" -> GuardIn(it[3] \o it[4], boxes, word)
      [] it[1] = "case" -> GuardIn(it[4], boxes, word)
      [] OTHER -> FALSE

MCGuardHolds(class, word) == GuardIn(class.items, class.boxes, word)

----------------------------------------------------------------------------
\* Contents.

Template(comment, text, symbols) == [comment |-> comment, text |-> text, symbols |-> symbols]
Word(w) == [k |-> "word", v |-> w]
Symbol(name) == <<Sym("<"), Word(name), Sym(">")>>

\* "NAME <S>, <T>": the operands' text is part of the template's.
Spelling(comment, name, symbols) ==
  Template(comment,
    FoldLeft(LAMBDA acc, s : acc \o (IF Last(acc).k = " " THEN << >> ELSE <<Sym(","), Sym(" ")>>) \o s,
             <<Word(name)>> \o (IF symbols = << >> THEN << >> ELSE <<Sym(" ")>>), symbols),
    symbols)

Encoding(id, boxes, diffs, templates) ==
  [id |-> id, boxes |-> boxes, templates |-> templates, equivalent |-> << >>,
   bitdiffs |-> diffs,
   mnemonic |-> <<Word("OP")>>, aliasMnemonic |-> << >>, link |-> 0]

Class(isa, half, boxes, encodings, items) ==
  [isa |-> isa, half |-> half, boxes |-> boxes, encodings |-> encodings,
   code |-> IF items = << >> THEN << >> ELSE <<LinesOf(items, 0)>>,
   items |-> items]

Contents(classes) ==
  [alias |-> FALSE, aliasto |-> 0, listed |-> <<Word("OP")>>, absent |-> {}, classes |-> classes, tables |-> << >>]

----------------------------------------------------------------------------
\* The XML.

Open(name, attrs) == <<[kind |-> "start", name |-> name, attrs |-> attrs]>>
Close(name) == <<[kind |-> "end", name |-> name]>>
El(name, attrs, body) == Open(name, attrs) \o body \o Close(name)
Text(units) == <<[kind |-> "chars", text |-> units]>>
NoAttrs == [x \in {} |-> 0]
Each(seq, F(_)) == FlattenSeq([i \in DOMAIN seq |-> F(seq[i])])

\* Bits one by one, "should be" bits in parentheses when the box says so; a
\* run of open bits as one wide cell, and an exclusion too.
Cell(c) == El("c", NoAttrs, IF c = "-" THEN << >> ELSE IF c = "x" THEN Text(<<Word("x")>>) ELSE Text(<<Sym(" "), B(<<c>>)>>))
Wide(n, units) == El("c", [colspan |-> n], IF units = << >> THEN << >> ELSE Text(units))

Cells(box) ==
  CASE box.ne # << >> -> Wide(box.width, <<Sym("!="), B(box.ne)>>)
    [] box.ne = << >> /\ \A i \in DOMAIN box.bits : box.bits[i] = "x" -> Wide(box.width, << >>)
    [] box.ne = << >> /\ IsFixed(box) /\ box.width = 2 -> Wide(2, <<B(box.bits)>>)
    [] box.ne = << >> /\ IsFixed(box) /\ box.name = "" ->
         Each(box.bits, LAMBDA c : El("c", NoAttrs, Text(<<Sym("("), B(<<c>>), Sym(")")>>)))
    [] OTHER -> Each(box.bits, Cell)

BoxXml(box) ==
  El("box", [hibit |-> box.hi, width |-> box.width] @@ (IF box.name = "" THEN NoAttrs ELSE [name |-> box.name]),
     Cells(box))

\* Text and links in turn; a link holds its symbol.
TemplateXml(t) ==
  LET first == Head(t.text)
      gap(i) == IF i = 1 THEN <<first, Sym(" ")>> ELSE <<Sym(","), Sym(" ")>>
  IN  El("asmtemplate", IF t.comment = "" THEN NoAttrs ELSE [comment |-> t.comment],
        IF t.symbols = << >> THEN El("text", NoAttrs, Text(t.text))
        ELSE FlattenSeq([i \in DOMAIN t.symbols |->
               El("text", NoAttrs, Text(gap(i)))
                 \o El("a", [link |-> "op", field |-> "Rd", frag |-> 90], Text(t.symbols[i]))]))

EncodingXml(e) ==
  El("encoding", [name |-> e.id] @@ (IF e.bitdiffs = <<"true">> THEN NoAttrs ELSE [bitdiffs |-> Write(e.bitdiffs)]),
    El("docvars", NoAttrs,
       El("docvar", [key |-> "mnemonic", value |-> e.mnemonic], << >>)
         \o IF e.aliasMnemonic = << >> THEN << >> ELSE El("docvar", [key |-> "alias_mnemonic"], Text(e.aliasMnemonic)))
    \o Each(e.boxes, BoxXml)
    \o Each(e.templates, TemplateXml)
    \o IF e.link = 0 THEN << >>
       ELSE El("equivalent_to", NoAttrs,
              El("asmtemplate", NoAttrs,
                El("a", [frag |-> e.link, link |-> "op"], Text(<<Word("CANON")>>))
                  \o El("text", NoAttrs, Text(<<Sym(" ")>>))
                  \o Each(e.equivalent, LAMBDA s : El("a", [frag |-> 90, link |-> "op", field |-> "Rn"], Text(s))))
              \o El("aliascond", NoAttrs, Text(<<Word("Rn == Rd")>>))))

CodeXml(blocks) == El("ps_section", NoAttrs, Each(blocks, LAMBDA b : El("pstext", NoAttrs, Text(b))))

ClassXml(c) ==
  El("iclass", [isa |-> c.isa],
    El("arch_variants", NoAttrs, El("arch_variant", [feature |-> <<Word("FEAT")>>], << >>))
    \o El("regdiagram", [form |-> IF c.half THEN "16" ELSE "32"], Each(c.boxes, BoxXml))
    \o Each(c.encodings, EncodingXml)
    \o CodeXml(c.code))

\* The Operation's pseudocode and the descriptions follow the classes.
MCXml(doc) ==
  El("instructionsection", [type |-> IF doc.alias THEN "alias" ELSE "instruction"],
    El("docvars", NoAttrs, El("docvar", [key |-> "mnemonic", value |-> <<Word("HEADING")>>], << >>))
    \o (IF doc.aliasto = 0 THEN << >> ELSE El("aliasto", [encname |-> doc.aliasto], << >>))
    \o El("classes", NoAttrs, Each(doc.classes, ClassXml))
    \o Open("explanations", [tables |-> doc.tables])
    \o CodeXml(<< <<Line("undef", Write(<<"==", "op", <<"0">>>>), 0)>> >>))

----------------------------------------------------------------------------
\* Narrowed pages: a diagram, what the second of two encodings overrides, its
\* bitdiffs, the pseudocode.

Always == <<"true">>
X(n) == Filled(n, "x")
Fixed1 == Box("", 4, <<"1">>)
Diagrams == <<
  <<Fixed1, Box("sz", 3, X(2)), Box("op", 1, X(1)), Box("Rd", 0, X(1))>>,
  <<Fixed1, Box("sz", 3, <<"1", "x">>), Box("op", 1, X(1)), Box("Rd", 0, X(1))>>,
  <<Fixed1, Carved("sz", 3, <<"0", "0">>), Box("op", 1, <<"0">>), Box("Rd", 0, X(1))>> >>

Overrides == <<
  << >>,
  <<Box("op", 1, <<"1">>)>>,
  <<Box("sz", 3, <<"-", "0">>)>>,
  <<Carved("sz", 3, <<"1", "1">>), Box("", 1, <<"0", "-">>)>> >>

Sz(a, b) == <<"==", "sz", <<a, b>>>>
Op1 == <<"==", "op", <<"1">>>>
Rd0 == <<"==", "Rd", <<"0">>>>

Diffs == <<
  Always,
  Sz("0", "1"),
  <<"&&", Sz("1", "x"), <<"!=", "Rd", <<"1">>>>>>,
  <<"IN", "sz", <<<<"0", "x">>, <<"1", "1">>>>>>,
  <<"!", <<"&&", Sz("0", "0"), Op1>>>>,
  <<"!", <<"||", Sz("1", "1"), Rd0>>>>,
  <<"||", <<"!=", "sz", <<"0", "0">>>>, <<"!=", "Rd", <<"1">>>>>> >>

SzNot10 == <<"!=", "sz", <<"1", "0">>>>

Codes == <<
  << >>,
  << <<"undef", SzNot10>> >>,
  << <<"undef", <<"||", <<"nofeature">>, <<"!=", "sz", <<"1", "1">>>>>>>> >>,
  << <<"undef", <<"bit", "sz", 0, "0">>>> >>,
  << <<"undef", <<"IN", "sz", <<<<"0", "x">>>>>>>> >>,
  << <<"act", Op1>>, <<"undef", <<"IN", "sz", <<<<"0", "x">>>>>>>> >>,
  << <<"undef", <<"||", Sz("1", "0"), Sz("1", "1")>>>> >>,
  << <<"bare", SzNot10>>, <<"undef", <<"||", <<"&&", Op1, Rd0>>, Sz("1", "1")>>>> >>,
  << <<"undef", <<"state">>>>, <<"if", <<"state">>, << <<"undef", Sz("1", "1")>> >>>>,
     <<"undef", <<"||", Rd0, <<"nofeature">>>>>> >>,
  << <<"if", Op1, << <<"if", Rd0, << <<"undef", Sz("1", "1")>>, <<"stmt">> >>>>,
                     <<"undef", <<"||", Sz("1", "0"), Rd0>>>> >>>>,
     <<"undef", <<"cat", <<"sz", "op">>, <<"1", "x", "1">>>>>> >>,
  << <<"if", <<"||", Op1, Rd0>>, << <<"undef", <<"&&", <<"||", Sz("1", "0"), Sz("1", "1")>>, <<"bit", "Rd", 0, "1">>>>>> >>>>,
     <<"undef", <<"&&", Sz("1", "0"), Sz("1", "1")>>>> >>,
  << <<"case", "op", <<"1">>, << <<"act", Rd0>>, <<"stmt">> >>>>, <<"undef", Sz("1", "x")>> >> >>

\* Blocks other than an if around a guard or before it: where they do no harm,
\* and a guard in an else branch, after a case, in an arm of a case.
Guard11 == <<"undef", Sz("1", "1")>>

StraightCodes == <<
  << <<"else", Op1, << <<"undef", Rd0>>, Guard11 >>, << <<"stmt">> >>>>, <<"undef", Sz("1", "0")>> >>,
  << <<"case", "op", <<"1">>, << <<"if", Rd0, << <<"stmt">> >>>> >>>>, <<"if", Op1, << Guard11 >>>> >>,
  << <<"if", Rd0, << <<"case", "op", <<"1">>, << <<"stmt">> >>>> >>>>, <<"if", Op1, << Guard11 >>>> >> >>

MisreadCodes == <<
  << <<"else", Op1, << <<"stmt">> >>, << Guard11 >>>> >>,
  << <<"if", Op1, << <<"case", "Rd", <<"1">>, << <<"stmt">> >>>>, Guard11 >>>> >>,
  << <<"case", "op", <<"1">>, << Guard11 >>>> >> >>

NarrowedDoc(boxes, overrides, diffs, items) ==
  Contents(<<Class("A64", FALSE, boxes,
    <<Encoding(1, << >>, Always, <<Spelling("", "OP", <<Symbol("Rd")>>)>>),
      Encoding(2, overrides, diffs, <<Spelling("", "OP", << >>)>>)>>, items)>>)

NarrowedPages(diffs, codes) ==
  {NarrowedDoc(Diagrams[d], Overrides[o], diffs[n], codes[c]) :
     d \in DOMAIN Diagrams, o \in DOMAIN Overrides, n \in DOMAIN diffs, c \in DOMAIN codes}

----------------------------------------------------------------------------
\* Pages of two classes with different diagrams: what is read, and from where.

Inside == Spelling("Inside IT block", "OPC", <<Symbol("Rd")>>)
Outside == Spelling("Outside IT block", "OPS", <<Symbol("Rd"), Symbol("Rn")>>)
Plain == Spelling("", "OP", <<Symbol("Rd"), Symbol("Rn")>>)
Spellings == <<<<Plain>>, <<Inside, Outside>>, <<Outside, Inside>>>>

\* An alias names its target in an aliasto, by the links of its encodings, or not at all.
Aliases == <<
  [alias |-> FALSE, aliasto |-> 0, link |-> 0, name |-> << >>],
  [alias |-> TRUE, aliasto |-> 60, link |-> 50, name |-> <<Word("ALI")>>],
  [alias |-> TRUE, aliasto |-> 0, link |-> 50, name |-> <<Word("ALI")>>],
  [alias |-> TRUE, aliasto |-> 0, link |-> 0, name |-> << >>] >>

Linked(e, a, n) ==
  [e EXCEPT !.link = IF a.link = 0 THEN 0 ELSE a.link + n, !.aliasMnemonic = a.name,
            !.mnemonic = <<Word("OP"), Word("M")>>,
            !.equivalent = IF a.link = 0 THEN << >> ELSE <<Symbol("Rn"), Symbol("Rm")>>]

OtherBoxes == <<Box("M", 4, <<"0">>), Box("Rn", 3, X(2)), Box("sz", 1, X(2))>>

TwoClasses(isa1, isa2, spellings, a) ==
  LET first(id, n) == Linked(Encoding(id, << >>, Always, spellings), a, n)
      second(id, n) == Linked(Encoding(id, <<Box("Rn", 3, <<"-", "1">>)>>, Always, <<Plain>>), a, n)
  IN  [Contents(<<Class(isa1, FALSE, Diagrams[1], <<first(1, 1), [first(2, 2) EXCEPT !.bitdiffs = Op1]>>,
                        IF isa1 = "A64" THEN << <<"undef", SzNot10>> >> ELSE << >>),
                  Class(isa2, isa2 = "T32", OtherBoxes, <<second(3, 3), first(4, 4)>>,
                        IF isa2 = "A64" THEN << <<"undef", <<"==", "Rn", <<"0", "0">>>>>> >>
                        ELSE << <<"undef32", <<"==", "Rn", <<"1", "1">>>>>>, <<"stmt">> >>)>>)
         EXCEPT !.alias = a.alias, !.aliasto = a.aliasto, !.absent = {5},
                !.listed = <<Word("OP"), Sym(","), Word("OPS")>>]

StructuredPages ==
  {TwoClasses(isas[1], isas[2], Spellings[s], Aliases[a]) :
     isas \in {<<"A64", "A64">>, <<"A32", "T32">>, <<"T32", "A32">>},
     s \in DOMAIN Spellings, a \in DOMAIN Aliases}

----------------------------------------------------------------------------
\* Pages of the 32-bit sets: the operand's type comes from a table.

Row(bits, reserved) == [bits |-> <<bits>>, reserved |-> reserved]
Table(encodings, rows) ==
  [encodings |-> encodings, symbol |-> Symbol("size"), fields |-> <<"sz">>, valueFields |-> << >>, rows |-> rows]

Tables == <<
  << >>,
  <<Table({1}, <<Row(<<"0", "0">>, FALSE), Row(<<"0", "1">>, FALSE), Row(<<"1", "x">>, TRUE)>>),
    Table({2}, <<Row(<<"0", "1">>, FALSE), Row(<<"1", "x">>, FALSE)>>)>>,
  <<Table({1, 2}, <<Row(<<"x", "1">>, FALSE), Row(<<"1", "0">>, FALSE)>>)>> >>

Codes32 == <<
  << >>,
  << <<"undef32", <<"&&", Op1, Sz("0", "1")>>>>, <<"undef32", Rd0>> >>,
  << <<"if", <<"state">>, << <<"undef32", Sz("0", "1")>> >>>>, <<"undef32", <<"||", Sz("1", "1"), <<"!=", "Rd", <<"0">>>>>>>> >> >>

Arm32Doc(isa, tables, items, diffs) ==
  LET e(id, d) == Encoding(id, << >>, d, <<Spelling("", "VOP", <<Symbol("size"), Symbol("Rd")>>)>>)
  IN  [Contents(<<Class(isa, FALSE, Diagrams[1], <<e(1, Always), e(2, diffs)>>, items)>>)
         EXCEPT !.tables = tables]

Arm32Pages ==
  {Arm32Doc(isa, Tables[t], Codes32[c], diffs) :
     isa \in {"A32", "T32"}, t \in DOMAIN Tables, c \in DOMAIN Codes32,
     diffs \in {Diffs[1], Diffs[3], Diffs[7]}}

----------------------------------------------------------------------------
\* Every encoding of a page stands for some word.
Consistent(p) ==
  \A c \in Range(p.classes) : \A e \in Range(c.encodings) :
    \E word \in Words : Promised(p, c, e, word) /\ ~Undefined(c, word)

MCPages ==
  {p \in NarrowedPages(Diffs, Codes) \union NarrowedPages(<<Always>>, StraightCodes \o MisreadCodes)
           \union StructuredPages \union Arm32Pages : Consistent(p)}

\* Bitdiffs that offer a choice between two values.
MCDisjunctionPages ==
  {p \in NarrowedPages(<<<<"||", Op1, Rd0>>, <<"||", Sz("0", "1"), <<"!=", "Rd", <<"1">>>>>>>>, <<Codes[1]>>) : Consistent(p)}

\* A guard under another condition; the second of two there.
MCNestedPages ==
  {p \in NarrowedPages(<<Always>>,
     << << <<"if", Op1, << <<"undef", SzNot10>> >>>> >>,
        << <<"if", Op1, << <<"undef", Rd0>>, <<"undef", <<"IN", "sz", <<<<"0", "x">>>>>>>> >>>> >> >>) : Consistent(p)}
=============================================================================
