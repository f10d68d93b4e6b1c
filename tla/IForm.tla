-------------------------------- MODULE IForm --------------------------------
(***************************************************************************)
(* Pass 2 on one instruction page: every registered encoding of the page   *)
(* gets its fixed bits, fields and conditions from it; the catalog for the *)
(* code generators and the registry's word lookups are built on those.     *)
(***************************************************************************)
EXTENDS IFormParser

CONSTANTS
  Pages,             \* the contents of the pages
  Xml(_),            \* how a page is written
  Holds(_, _, _),    \* whether a condition on fields of boxes is true of a word
  Undefined(_, _),   \* whether a class's pseudocode makes a word UNDEFINED
  GuardHolds(_, _)   \* whether the condition of a guard in it, taken alone, is true of a word

\* A page: [alias, aliasto, listed, absent, classes, tables].  A class: [isa, half,
\* boxes, encodings, items, code], code the lines of items; an encoding: [id,
\* boxes, bitdiffs, templates, equivalent, mnemonic, aliasMnemonic, link].
\* absent are encodings the index gives to the page and the page lacks.
VARIABLES
  page,          \* one of the Pages
  instructions,  \* what the registry has, by encoding ID
  forms,         \* what parseIForm returned, by encoding ID
  catalog,       \* << >> before BuildCatalog
  shown          \* the last disassembly, << >> before the first

vars == <<page, instructions, forms, catalog, shown>>

----------------------------------------------------------------------------
\* ApplyParsedIForm.

\* The assembler spelling a template opens with.
LeadingMnemonic(template) ==
  LET t == Trim(template)
      stops == {i \in DOMAIN t : t[i].k \in {" ", "<", ",", "[", "{"}}
  IN  IF stops = {} THEN t ELSE SubSeq(t, 1, Min(stops) - 1)

\* Unnamed boxes get a name made from their place.
FieldName(box) ==
  IF box.name # "" THEN box.name
  ELSE (IF IsFixed(box) THEN "_const_" ELSE "_field_")
         \o ToString(BoxStart(box)) \o "_" \o ToString(box.hi)

BoxesToEncoding(boxes) ==
  LET placed == SelectSeq(boxes, LAMBDA box : BoxStart(box) >= 0)
  IN  [i \in DOMAIN placed |->
         [name |-> FieldName(placed[i]), start |-> BoxStart(placed[i]), end |-> placed[i].hi,
          fixed |-> IF IsFixed(placed[i]) THEN placed[i].bits ELSE << >>]]

\* Of boxes that overlap the last one with a fixed bit counts.
BoxesToBitPattern(boxes) ==
  [b \in Bits |->
     LET over == {k \in DOMAIN boxes : /\ OnWord(boxes[k]) /\ boxes[k].hi - b + 1 \in DOMAIN boxes[k].bits
                                       /\ boxes[k].bits[boxes[k].hi - b + 1] \in {"0", "1"}}
     IN  IF over = {} THEN "x" ELSE boxes[Max(over)].bits[boxes[Max(over)].hi - b + 1]]

BoxesToOperandHints(boxes) ==
  LET open == SelectSeq(boxes, LAMBDA box : box.name # "" /\ ~IsFixed(box) /\ BoxStart(box) >= 0)
  IN  [i \in DOMAIN open |-> open[i].name]

BoxExclusions(boxes) ==
  LET carved == SelectSeq(boxes, LAMBDA box : box.ne # << >> /\ box.name # "")
  IN  [i \in DOMAIN carved |-> <<Id(carved[i].name), Sym("!="), BitString(carved[i].ne)>>]

\* Mutant: the first of the page counts, whatever encodings it names.
ExplanationFor_OfPage(tables, id, symbol) ==
  LET described == SelectSeq(tables, LAMBDA e : e.symbol = symbol)
  IN  IF described = << >> THEN << >> ELSE <<described[1]>>

\* Explanations: [encodings, symbol, fields, valueFields, rows], a row
\* [bits, reserved].  Those that name the encoding come before the others, and
\* of one symbol the first counts.
ExplanationFor(tables, id, symbol) ==
  LET own == SelectSeq(tables, LAMBDA e : e.encodings = {} \/ id \in e.encodings)
      described == SelectSeq(own \o tables, LAMBDA e : e.symbol = symbol)
  IN  IF described = << >> THEN << >> ELSE <<described[1]>>

\* A condition on fields as a tree, << >> when it cannot be read or names no field.
FieldTree(parsed, fields) ==
  IF parsed.ok THEN IF RootResolved(parsed.node, fields)
                    THEN <<ResolveBitDiffFields(parsed.node, fields)>> ELSE << >>
  ELSE << >>

\* One row: its bits, one string for each of the selectors.
RowTree(row, selectors, fields) ==
  IF row.reserved \/ Len(row.bits) # Len(selectors) THEN << >>
  ELSE FieldTree(ParseBitDiffs(CombineConstraints(<< >>,
                   [i \in DOMAIN selectors |-> Equals(selectors[i], row.bits[i])])), fields)

\* The rows of a table that assign a value to the operand, as trees.
AssignedRows(table, fields) ==
  FlattenSeq([i \in DOMAIN table.rows |->
    RowTree(table.rows[i], IF table.valueFields # << >> THEN table.valueFields ELSE table.fields, fields)])

Barred(trees) == [i \in DOMAIN trees |-> NotNode(trees[i])]

\* One of the rows must hold.
AnyRow(rows) == IF rows = << >> THEN << >> ELSE <<NotNode(AndNode(Barred(rows)))>>

IsTypeSymbol(symbol) ==
  Kinds(symbol) = <<"<", "word", ">">> /\ symbol[2].v \in {"dt", "dt1", "dt2", "size"}

\* The words an operand's table assigns.
Tabulated(instr, table) ==
  FlattenSeq([i \in DOMAIN table |-> AnyRow(AssignedRows(table[i], instr.fields))])

\* The words a line does not call Undefined().
DefinedBy(instr, line) ==
  IF line.k # "undef32" \/ line.depth # 0 THEN << >>
  ELSE Barred(FieldTree(ParseBitDiffs(line.v), instr.fields))

Guarded(instr, guards) == IF guards = << >> THEN instr ELSE [instr EXCEPT !.tree = <<AndNode(guards)>>]

\* The 32-bit sets also bar the words whose type operand has no row, and what
\* the pseudocode calls Undefined().
Arm32AllocationConstraints(instr, form) ==
  LET symbols == SelectSeq([i \in DOMAIN form.asmOperands |-> form.asmOperands[i].symbol], IsTypeSymbol)
      lines == FlattenSeq(form.code)
  IN  Guarded(instr, instr.tree
        \o FlattenSeq([i \in DOMAIN symbols |->
                         Tabulated(instr, ExplanationFor(form.explanations, instr.id, symbols[i]))])
        \o FlattenSeq([i \in DOMAIN lines |-> DefinedBy(instr, lines[i])]))

\* Names: the template's own spelling for the assembler, the alias's for the
\* registry, whose Pass 1 name gives way where it lists several.
ApplyNames(instr, p) ==
  LET spelled == IF p.asm # << >> THEN LeadingMnemonic(p.asm) ELSE instr.asmMnemonic
      several == instr.mnemonic = << >> \/ "," \in Range(Kinds(instr.mnemonic))
  IN  [instr EXCEPT
         !.asm = IF p.asm # << >> THEN p.asm ELSE @,
         !.asmMnemonic = IF spelled # << >> THEN spelled
                         ELSE IF p.aliasMnemonic # << >> THEN p.aliasMnemonic ELSE p.mnemonic,
         !.mnemonic = IF p.aliasMnemonic # << >> THEN p.aliasMnemonic
                      ELSE IF p.mnemonic # << >> /\ several THEN p.mnemonic ELSE @]

ApplyBoxes(instr, p) ==
  IF p.boxes = << >> THEN instr
  ELSE [instr EXCEPT !.fields = BoxesToEncoding(p.boxes),
                     !.width = IF p.width # 0 THEN p.width ELSE 32,
                     !.isa = p.isa,
                     !.pattern = BoxesToBitPattern(p.boxes),
                     !.operands = BoxesToOperandHints(p.boxes)]

\* The box exclusions and what the pseudocode implies join the bitdiffs.
Constraints(p) ==
  CombineConstraints(p.bitdiffs,
    BoxExclusions(p.boxes) \o DecodeEqualityConstraints(p.code)
      \o DecodeBitPinConstraints(p.code, p.boxes) \o DecodeEnumeratedPinConstraints(p.code))

\* The rest of the form.
ApplyOrigin(instr, p) ==
  [instr EXCEPT
     !.aliasOf = IF p.isAlias THEN IF p.aliasOf # 0 THEN p.aliasOf ELSE -1 ELSE @,
     !.code = IF p.code # << >> THEN p.code ELSE @,
     !.features = @ \union p.features]

Allocated(instr, p) ==
  IF instr.isa \in {"A32", "T32"} THEN Arm32AllocationConstraints(instr, p) ELSE instr

ApplyParsedIForm(instr, p) ==
  ApplyOrigin(Allocated(ApplyBitDiffs(ApplyBoxes(ApplyNames(instr, p), p), Constraints(p)), p), p)

----------------------------------------------------------------------------
\* What is built on the resolved instructions.

\* buildDisasmForm's allocation checks, without their mutable bits.
Forbidden(instr, form) == DecodeForbiddenConstraints(form.code, instr.fields)

\* Sorted by ID.  free are the bits of a field the encoding leaves variable.
CatalogOf(instrs) ==
  LET ids == SetToSortSeq(DOMAIN instrs, <)
      entry(instr) ==
        [id |-> instr.id, mnemonic |-> instr.mnemonic, asmMnemonic |-> instr.asmMnemonic,
         pattern |-> PatternOf(instr), aliasOf |-> instr.aliasOf, asm |-> instr.asm,
         fixed |-> MaskOf(instr), word |-> FixedWord(instr),
         fields |-> [k \in DOMAIN instr.fields |->
                       [name |-> instr.fields[k].name, start |-> instr.fields[k].start,
                        end |-> instr.fields[k].end, fixed |-> instr.fields[k].fixed # << >>,
                        free |-> {b \in Bits : Covers(instr.fields[k], b)} \ DOMAIN MaskOf(instr)]],
         bitdiffs |-> instr.tree]
  IN  [i \in DOMAIN ids |-> entry(instrs[ids[i]])]

\* InstructionRegistry.MatchWord: most fixed bits first, then canonical
\* encodings before aliases, then by ID.
Specificity(instr) == Cardinality(DOMAIN MaskOf(instr))

Before(a, b) ==
  IF Specificity(a) # Specificity(b) THEN Specificity(a) > Specificity(b)
  ELSE IF (a.aliasOf # 0) # (b.aliasOf # 0) THEN a.aliasOf = 0
  ELSE a.id < b.id

Hits(instrs, word) ==
  LET ids == {id \in DOMAIN instrs : MatchWord(instrs[id], word)}
  IN  SetToSortSeq({instrs[id] : id \in ids}, Before)

----------------------------------------------------------------------------
\* The pipeline.

Classes == page.classes
EncodingsOf(c) == Range(Classes[c].encodings)
Ids == UNION {{e.id : e \in EncodingsOf(c)} : c \in DOMAIN Classes} \union page.absent

\* What Pass 1 left: the mnemonic, and bits without a place.
Provisional(id) ==
  [id |-> id, isa |-> "", width |-> 32, mnemonic |-> page.listed, asm |-> << >>,
   asmMnemonic |-> << >>, fields |-> << >>, pattern |-> NoPattern, operands |-> << >>,
   bitdiffs |-> << >>, tree |-> << >>, aliasOf |-> 0, code |-> << >>, features |-> {}]

Init ==
  /\ page \in Pages
  /\ instructions = [id \in Ids |-> Provisional(id)]
  /\ forms = << >> /\ catalog = << >> /\ shown = << >>

\* resolveIForm, by any worker in any order.
ResolveIForm(id) ==
  /\ catalog = << >> /\ id \notin DOMAIN forms
  /\ \E form \in {ParseIForm(Xml(page), id)} :
       /\ forms' = [k \in DOMAIN forms \union {id} |-> IF k = id THEN form ELSE forms[k]]
       /\ instructions' = [instructions EXCEPT ![id] = ApplyParsedIForm(@, form)]
  /\ UNCHANGED <<page, catalog, shown>>

BuildCatalog ==
  /\ DOMAIN forms = Ids /\ catalog = << >>
  /\ catalog' = CatalogOf(instructions)
  /\ UNCHANGED <<page, instructions, forms, shown>>

\* The first hit, its fields and the other hits; not ok without a hit.
Disassemble(word) ==
  /\ catalog # << >> /\ shown = << >>
  /\ \E hits \in {Hits(instructions, word)} :
       shown' = IF hits = << >> THEN << [ok |-> FALSE, word |-> word] >>
                ELSE << [ok |-> TRUE, word |-> word, best |-> hits[1].id,
                         fields |-> ExtractFields(word, hits[1].fields),
                         alternates |-> [i \in DOMAIN Tail(hits) |-> hits[i + 1].id]] >>
  /\ UNCHANGED <<page, instructions, forms, catalog>>

Next ==
  \/ \E id \in Ids : ResolveIForm(id)
  \/ BuildCatalog
  \/ \E word \in Words : Disassemble(word)

Spec == Init /\ [][Next]_vars

----------------------------------------------------------------------------
\* What the page says.

Written == DOMAIN forms \ page.absent
OwnClass(id) == Classes[CHOOSE c \in DOMAIN Classes : \E e \in EncodingsOf(c) : e.id = id]
Own(id) == CHOOSE e \in Range(OwnClass(id).encodings) : e.id = id

\* A box at bit b.
BitAt(box, b) == IF b \in BoxStart(box)..box.hi THEN box.bits[box.hi - b + 1] ELSE "-"

DiagramAllows(c, e, word) ==
  \A b \in Bits :
    LET said(boxes) == {BitAt(boxes[k], b) : k \in DOMAIN boxes} \ {"-"}
        pinned == said(e.boxes)
    IN  (IF pinned # {} THEN pinned ELSE said(c.boxes)) \subseteq {"x", word[b]}

\* The value a box excludes, stated by the encoding or else by the diagram.
Excluded(c, e, word) ==
  LET own == {box \in Range(e.boxes) : box.ne # << >>}
      place(box) == [start |-> BoxStart(box), end |-> box.hi]
      shared == {box \in Range(c.boxes) : box.ne # << >> /\ \A o \in own : place(o) # place(box)}
  IN  \E box \in own \union shared :
        \A i \in DOMAIN box.ne : box.ne[i] \in {"x", word[box.hi - i + 1]}

\* In the 32-bit sets, the tables of the operands have a row for the word.
Assigned(p, c, e, word) ==
  \A t \in Range(p.tables) :
    (c.isa # "A64" /\ e.id \in t.encodings) =>
      \E row \in Range(t.rows) : ~row.reserved /\ Holds(<<"==", t.fields[1], row.bits[1]>>, c.boxes, word)

Promised(p, c, e, word) ==
  /\ DiagramAllows(c, e, word) /\ ~Excluded(c, e, word)
  /\ Holds(e.bitdiffs, c.boxes, word) /\ Assigned(p, c, e, word)

\* A word that is an instance of the encoding, by its diagram, its exclusions,
\* its bitdiffs and its pseudocode, is matched by it: no condition is folded
\* into the fixed bits that does not hold of every such word
\* (decodeEqualityConstraints to applyBitDiffs, ApplyBitDiffPins).
NoWordLost ==
  \A id \in Written, word \in Words :
    (Promised(page, OwnClass(id), Own(id), word) /\ ~Undefined(OwnClass(id), word))
      => MatchWord(instructions[id], word)

\* A word an encoding matches is one its diagram, exclusions, bitdiffs and, in
\* the 32-bit sets, tables allow: nothing the page says is dropped on the way.
NothingAdded ==
  \A id \in Written, word \in Words :
    MatchWord(instructions[id], word) => Promised(page, OwnClass(id), Own(id), word)

\* The blocks that line i stands in, as the lines that open them.
Around(block, i) ==
  {j \in 1..(i - 1) : \A k \in (j + 1)..i : block[k].depth > block[j].depth}

\* No guard stands in an else branch or in an arm of a case, or in an if with
\* a case before it: there the frames are not those of the ifs around the guard.
OnlyUnderIfs(code) ==
  \A b \in DOMAIN code : \A i \in DOMAIN code[b], j \in DOMAIN code[b] :
    (code[b][i].k = "undef" /\ j \in Around(code[b], i)) =>
      code[b][j].k = "open" /\ \A k \in j..i : code[b][k].k # "case"

\* The grammar decodeForbiddenConstraints is documented to read: guards on one
\* line, == over bit strings, &&, || and parentheses.
InForbiddenGrammar(code) ==
  \A line \in UNION {Range(code[b]) : b \in DOMAIN code} :
    /\ line.k \notin {"bare", "undef32"}
    /\ line.k \in {"undef", "open"} =>
         Range(Kinds(line.v)) \subseteq {"id", "bit", "cat", "bits", "==", "&&", "||", "(", ")"}

\* The encoding has every field of its class under its name.
KeepsFields(id) ==
  \A box \in Range(OwnClass(id).boxes) : box.name # "" => Named(instructions[id].fields, box.name) # {}

IsBarred(id, word) == \E clause \in Range(Forbidden(instructions[id], forms[id])) : Compatible(clause, word)
Possible(id, word) == DiagramAllows(OwnClass(id), Own(id), word)

\* The allocation checks the disassembly model takes from the pseudocode bar no
\* word that no guard is about.  Where guards stand under ifs alone they bar only
\* words that the pseudocode makes UNDEFINED, whatever blocks end before the guard
\* and whether or not the conditions can be read; and where moreover every
\* condition is written in the documented grammar, on fields the encoding has,
\* they bar all of those (decodeForbiddenConstraints, its frames and clauses).
ForbiddenAsWritten ==
  \A id \in Written, word \in Words :
    Possible(id, word) =>
      LET class == OwnClass(id) IN
      /\ IsBarred(id, word) => GuardHolds(class, word)
      /\ OnlyUnderIfs(class.code) =>
           /\ IsBarred(id, word) => Undefined(class, word)
           /\ (InForbiddenGrammar(class.code) /\ KeepsFields(id) /\ Undefined(class, word)) => IsBarred(id, word)

\* An encoding is read from its own iclass and its own elements, whatever
\* stands before and after it on the page: instruction set, width, template,
\* operands, pseudocode, alias (the loop of parseIFormShared).
ReadsOwnClass ==
  \A id \in Written :
    LET f == forms[id] e == Own(id) c == OwnClass(id)
        outside == SelectSeq(e.templates, LAMBDA t : t.comment = "Outside IT block")
        own == IF c.isa = "T32" /\ outside # << >> THEN outside[1] ELSE e.templates[1]
        symbols(operands) == [i \in DOMAIN operands |-> operands[i].symbol]
    IN  /\ f.isa = c.isa /\ f.width = (IF c.half THEN 16 ELSE 32)
        /\ f.asm = own.text /\ symbols(f.asmOperands) = own.symbols
        /\ symbols(f.equivalentOperands) = e.equivalent
        /\ f.code = c.code
        /\ f.mnemonic = e.mnemonic /\ f.aliasMnemonic = e.aliasMnemonic
        /\ f.isAlias = page.alias
        /\ f.aliasOf = (IF page.aliasto # 0 THEN page.aliasto
                       ELSE IF page.alias THEN e.link ELSE 0)

\* A disassembled word is assembled again from what the catalog keeps of the
\* encoding shown: its fixed word, and the fields at the bits they leave free
\* (BuildCatalog, Disassemble, ExtractFields, PackFields).
AssemblesBack ==
  \A i \in DOMAIN shown : shown[i].ok =>
    LET s == shown[i]
        entry == CHOOSE e \in Range(catalog) : e.id = s.best
        instr == instructions[s.best]
        open == {k \in DOMAIN s.fields : ~s.fields[k].fixed}
        values == [name \in {s.fields[k].name : k \in open} |->
                     s.fields[CHOOSE k \in open : s.fields[k].name = name].value]
    IN  /\ entry.word.ok
        /\ PackFields(entry.word.word, instr.fields, values) = [ok |-> TRUE, word |-> s.word]
        /\ \A b \in Bits : (\A k \in DOMAIN entry.fields : b \notin entry.fields[k].free)
                            => entry.word.word[b] = s.word[b]
        /\ \A a \in Range(s.alternates) : ~Before(instructions[a], instr)
=============================================================================
