----------------------------- MODULE IFormParser -----------------------------
(***************************************************************************)
(* parseIForm: what an instruction page says of one of its encodings.  The *)
(* page is a sequence of XML tokens [kind, name, attrs] or, for character  *)
(* data, [kind, text]; text is in the units of BitDiffs, white space the   *)
(* unit " ".  Encoding IDs are numbers in the order of the strings, 0 the  *)
(* empty one.                                                              *)
(***************************************************************************)
EXTENDS DecodeGuards

CONSTANT SymbolLinks   \* fragments of links that name operand symbols

Attr(t, name, none) == IF name \in DOMAIN t.attrs THEN t.attrs[name] ELSE none

\* looksLikeEncodingID: symbols have no underscore, or begin like an operand.
LooksLikeEncodingID(frag) == frag # 0 /\ frag \notin SymbolLinks

\* strings.TrimSpace
Trim(text) ==
  LET dark == {i \in DOMAIN text : text[i].k # " "}
  IN  IF dark = {} THEN << >> ELSE SubSeq(text, Min(dark), Max(dark))

----------------------------------------------------------------------------
\* Boxes: [name, hi, width, bits, ne], name "" for none, bits most significant
\* first with "-" where the box leaves the diagram's bit, ne << >> for none.

\* cellBits
CellBits(text, span) ==
  LET t == Trim(text)
  IN  CASE t = << >> -> Filled(span, "-")
        [] Kinds(t) = <<"bits">> /\ Len(t[1].v) = 1 -> Filled(span, t[1].v[1])
        [] Kinds(t) = <<"(", "bits", ")">> /\ Len(t[2].v) = 1 -> Filled(span, t[2].v[1])
        [] Kinds(t) = <<"bits">> /\ Len(t[1].v) = span /\ IsBinary(t[1].v) -> t[1].v
        [] OTHER -> Filled(span, "x")

\* notEqValue; << >> where the code says false.
NotEqValue(text, span) ==
  LET t == Trim(text)
  IN  IF Kinds(t) = <<"!=", "bits">> /\ Len(t[2].v) <= span
      THEN Filled(span - Len(t[2].v), "x") \o t[2].v ELSE << >>

\* fixedFromBits: b.Fixed # nil.
IsFixed(box) == box.bits # << >> /\ \A i \in DOMAIN box.bits : box.bits[i] \in {"0", "1"}
BoxStart(box) == box.hi - box.width + 1
OnWord(box) == 0 <= BoxStart(box) /\ box.hi \in Bits

\* Overrides apply bit by bit to the diagram; their exclusions to the box of
\* the same place.
MergeBoxes(base, overrides) ==
  LET apply(pat, box) ==
        [b \in Bits |->
           IF /\ box.hi - b + 1 \in DOMAIN box.bits
              /\ box.bits[box.hi - b + 1] # "-"
           THEN box.bits[box.hi - b + 1] ELSE pat[b]]
      pat == FoldLeft(apply, NoPattern, base \o overrides)
      exclusions(box) == {k \in DOMAIN overrides : /\ overrides[k].ne # << >>
                                                   /\ overrides[k].hi = box.hi
                                                   /\ overrides[k].width = box.width}
  IN  [i \in DOMAIN base |->
         LET box == base[i]
         IN  [box EXCEPT
                !.ne = IF exclusions(box) = {} THEN @ ELSE overrides[Max(exclusions(box))].ne,
                !.bits = IF OnWord(box) THEN [j \in 1..box.width |-> pat[box.hi - j + 1]] ELSE @]]

----------------------------------------------------------------------------
\* The state of the loop.

\* ParsedIForm
NewForm(id) ==
  [id |-> id, isa |-> "", width |-> 0, mnemonic |-> << >>, aliasMnemonic |-> << >>,
   asm |-> << >>, asmSuffix |-> << >>, asmOperands |-> << >>,
   equivalentOperands |-> << >>, equivalentSuffix |-> << >>, explanations |-> << >>,
   bitdiffs |-> << >>, boxes |-> << >>, code |-> << >>, features |-> {},
   isAlias |-> FALSE, aliasOf |-> 0, aliasCond |-> << >>]

NewLoop(id) ==
  [id |-> id, out |-> NewForm(id), path |-> << >>, textStart |-> << >>, textTokens |-> << >>,
   inEncoding |-> FALSE, docvarKey |-> "",
   dst |-> "none", cBits |-> << >>, curSpan |-> 1,
   pending |-> << >>, encOperands |-> << >>, asmLiteral |-> << >>,
   asmVerbatim |-> << >>, textVerbatim |-> << >>, outsideIT |-> FALSE,
   diagram |-> << >>, iclassBase |-> << >>, lastDiagram |-> << >>, overrides |-> << >>,
   matched |-> FALSE, serial |-> 0, owner |-> 0, isa |-> "", width |-> 0]

Within(s, tag) == tag \in Range(s.path)
InAsm(s) == Within(s, "asmtemplate")

\* elementText: the chunks since the innermost element began, a blank between.
ElementText(s) ==
  LET own == SubSeq(s.textTokens, Last(s.textStart) + 1, Len(s.textTokens))
  IN  FoldLeft(LAMBDA acc, t : IF acc = << >> THEN t ELSE acc \o <<Sym(" ")>> \o t, << >>, own)

ApplyDocvar(out, key, value) ==
  CASE key = "alias_mnemonic" -> [out EXCEPT !.aliasMnemonic = value]
    [] key = "mnemonic" /\ out.mnemonic = << >> -> [out EXCEPT !.mnemonic = value]
    [] key \in {"feature", "extension"} -> [out EXCEPT !.features = @ \union {value}]
    [] OTHER -> out

----------------------------------------------------------------------------
\* Elements that begin.  s has the element on its path already.

StartIClass(s, t) ==
  [s EXCEPT !.serial = @ + 1, !.iclassBase = << >>, !.isa = Attr(t, "isa", ""), !.width = 32]

StartRegdiagram(s, t) ==
  IF Within(s, "iclass") /\ Attr(t, "form", "") = "16" THEN [s EXCEPT !.width = 16] ELSE s

StartEncoding(s, t) ==
  LET name == Attr(t, "name", 0)
      out == [s.out EXCEPT !.isa = s.isa, !.width = s.width, !.id = name,
                           !.bitdiffs = Attr(t, "bitdiffs", << >>)]
  IN  IF s.id = 0 \/ name = s.id
      THEN [s EXCEPT !.inEncoding = TRUE, !.outsideIT = FALSE, !.out = out, !.owner = s.serial,
                     !.overrides = << >>, !.matched = TRUE]
      ELSE [s EXCEPT !.inEncoding = FALSE]

\* A link is the alias's target, or an operand of the template.
StartLink(s, t) ==
  LET frag == Attr(t, "frag", 0)
      target == s.inEncoding /\ s.out.isAlias /\ s.out.aliasOf = 0 /\ LooksLikeEncodingID(frag)
  IN  [s EXCEPT !.out.aliasOf = IF target THEN frag ELSE @,
                !.pending = IF s.inEncoding /\ InAsm(s)
                            THEN <<[link |-> Attr(t, "link", ""), field |-> Attr(t, "field", "")]>>
                            ELSE @]

\* Boxes of a diagram, and overrides directly under the wanted encoding.
StartBox(s, t) ==
  LET dst == CASE Within(s, "regdiagram") -> "diagram"
               [] ~Within(s, "regdiagram") /\ s.inEncoding /\ Len(s.path) >= 2
                    /\ s.path[Len(s.path) - 1] = "encoding" -> "overrides"
               [] OTHER -> "none"
      width == Attr(t, "width", 0)
      box == [name |-> Attr(t, "name", ""), hi |-> Attr(t, "hibit", 0),
              width |-> IF width <= 0 THEN 1 ELSE width, bits |-> << >>, ne |-> << >>]
  IN  IF dst = "none" THEN [s EXCEPT !.dst = dst]
      ELSE [s EXCEPT !.dst = dst, ![dst] = Append(@, box), !.cBits = << >>]

StartCell(s, t) ==
  [s EXCEPT !.curSpan = IF s.dst # "none" /\ Attr(t, "colspan", 0) > 1 THEN t.attrs.colspan ELSE 1]

StartDocvar(s, t) ==
  LET key == Attr(t, "key", "") value == Attr(t, "value", << >>)
  IN  [s EXCEPT !.docvarKey = key,
                !.out = IF (s.inEncoding \/ s.id = 0) /\ key # "" /\ value # << >>
                        THEN ApplyDocvar(@, key, value) ELSE @]

\* The spelling outside of IT blocks replaces what the encoding gave so far.
StartAsmtemplate(s, t) ==
  LET outside == /\ s.inEncoding /\ s.isa = "T32" /\ ~s.outsideIT
                 /\ Attr(t, "comment", "") = "Outside IT block"
  IN  IF outside
      THEN [s EXCEPT !.asmVerbatim = << >>, !.outsideIT = TRUE,
                     !.out.asm = << >>, !.out.asmOperands = << >>]
      ELSE [s EXCEPT !.asmVerbatim = << >>]

Opened(s, name) == [s EXCEPT !.path = Append(@, name), !.textStart = Append(@, Len(s.textTokens))]

StartElement(s, t) ==
  CASE t.name = "instructionsection" ->
         [s EXCEPT !.out.isAlias = @ \/ Attr(t, "type", "") = "alias"]
    [] t.name = "aliasto" ->
         [s EXCEPT !.out.aliasOf = IF Attr(t, "encname", 0) # 0 THEN t.attrs.encname ELSE @]
    [] t.name = "iclass" -> StartIClass(s, t)
    [] t.name = "regdiagram" -> StartRegdiagram(s, t)
    [] t.name = "encoding" -> StartEncoding(s, t)
    [] t.name = "a" -> StartLink(s, t)
    [] t.name = "box" -> StartBox(s, t)
    [] t.name = "c" -> StartCell(s, t)
    [] t.name = "docvar" -> StartDocvar(s, t)
    [] t.name = "arch_variant" ->
         [s EXCEPT !.out.features = @ \union ({Attr(t, "feature", << >>)} \ {<< >>})]
    [] t.name = "asmtemplate" -> StartAsmtemplate(s, t)
    [] t.name = "text" -> [s EXCEPT !.textVerbatim = << >>]
    [] OTHER -> s

\* Explanations are decoded to their end at once: they stay off the path.
Start(s, t) ==
  IF t.name = "explanations" THEN [s EXCEPT !.out.explanations = t.attrs.tables]
  ELSE StartElement(Opened(s, t.name), t)

----------------------------------------------------------------------------
\* Elements that end.

EndEncoding(s) ==
  [s EXCEPT !.out.boxes = IF s.inEncoding THEN MergeBoxes(s.iclassBase, s.overrides) ELSE @,
            !.inEncoding = FALSE]

EndText(s) ==
  IF s.inEncoding /\ InAsm(s) THEN [s EXCEPT !.asmLiteral = s.textVerbatim] ELSE s

EndLink(s) ==
  IF s.pending = << >> THEN s
  ELSE LET operand == [symbol |-> ElementText(s), prefix |-> s.asmLiteral,
                       link |-> s.pending[1].link, field |-> s.pending[1].field]
       IN  [s EXCEPT !.encOperands = Append(@, operand), !.pending = << >>, !.asmLiteral = << >>]

\* Under equivalent_to the template spells the instruction behind the alias.
EndAsmtemplate(s) ==
  LET equivalent == Within(s, "equivalent_to")
      first == s.asmVerbatim # << >> /\ s.out.asm = << >>
      own == [s.out EXCEPT
                !.asm = IF first THEN s.asmVerbatim ELSE @,
                !.asmSuffix = IF first THEN s.asmLiteral ELSE @,
                !.asmOperands = IF @ = << >> THEN s.encOperands ELSE @]
      named == SelectSeq(s.encOperands, LAMBDA op : At(Trim(op.symbol), "<"))
      out == CASE s.inEncoding /\ ~equivalent -> own
               [] s.inEncoding /\ equivalent ->
                    [s.out EXCEPT !.equivalentOperands = @ \o named, !.equivalentSuffix = s.asmLiteral]
               [] OTHER -> IF s.id = 0 THEN [own EXCEPT !.asmOperands = s.out.asmOperands] ELSE s.out
  IN  [s EXCEPT !.out = out, !.encOperands = << >>, !.pending = << >>, !.asmLiteral = << >>]

\* Missing cells leave the diagram's bits.
EndBox(s) ==
  IF s.dst = "none" THEN s
  ELSE LET last == Len(s[s.dst])
           width == s[s.dst][last].width
           bits == SubSeq(s.cBits \o Filled(width, "-"), 1, width)
       IN  [s EXCEPT ![s.dst][last].bits = bits, !.dst = "none"]

Excluding(ne, value) == IF value = << >> THEN ne ELSE value

EndCell(s, text) ==
  IF s.dst = "none" THEN [s EXCEPT !.curSpan = 1]
  ELSE [s EXCEPT ![s.dst][Len(s[s.dst])].ne = Excluding(@, NotEqValue(text, s.curSpan)),
                 !.cBits = @ \o CellBits(text, s.curSpan), !.curSpan = 1]

\* Mutant: the pseudocode of every iclass.
EndPstext_AnyClass(s, text) ==
  IF text # << >> /\ Within(s, "iclass") THEN [s EXCEPT !.out.code = Append(@, text)] ELSE s

\* Pseudocode belongs to the iclass the encoding was found in.
EndPstext(s, text) ==
  IF text # << >> /\ Within(s, "iclass") /\ s.serial = s.owner
  THEN [s EXCEPT !.out.code = Append(@, text)] ELSE s

EndDocvar(s, text) ==
  [s EXCEPT !.docvarKey = "",
            !.out = IF s.docvarKey # "" /\ text # << >> /\ (s.inEncoding \/ s.id = 0)
                    THEN ApplyDocvar(@, s.docvarKey, text) ELSE @]

EndRegdiagram(s) ==
  IF s.diagram = << >> THEN s
  ELSE [s EXCEPT !.lastDiagram = s.diagram, !.diagram = << >>,
                 !.iclassBase = IF Within(s, "iclass") THEN s.diagram ELSE @]

EndElement(s, t) ==
  CASE t.name = "encoding" -> EndEncoding(s)
    [] t.name = "text" -> EndText(s)
    [] t.name = "a" -> EndLink(s)
    [] t.name = "asmtemplate" -> EndAsmtemplate(s)
    [] t.name = "aliascond" ->
         [s EXCEPT !.out.aliasCond = IF s.inEncoding THEN ElementText(s) ELSE @]
    [] t.name = "box" -> EndBox(s)
    [] t.name = "c" -> EndCell(s, ElementText(s))
    [] t.name = "pstext" -> EndPstext(s, ElementText(s))
    [] t.name = "docvar" -> EndDocvar(s, ElementText(s))
    [] t.name = "regdiagram" -> EndRegdiagram(s)
    [] OTHER -> s

\* With the outermost element gone its text is.
LeftElement(s) ==
  [s EXCEPT !.path = Front(@), !.textStart = Front(@),
            !.textTokens = IF Len(s.textStart) = 1 THEN << >> ELSE @]

End(s, t) == LeftElement(EndElement(s, t))

\* Templates keep their white space, other text is trimmed and may vanish.
CharData(s, t) ==
  [s EXCEPT !.asmVerbatim = IF InAsm(s) THEN @ \o t.text ELSE @,
            !.textVerbatim = IF InAsm(s) /\ Last(s.path) = "text" THEN @ \o t.text ELSE @,
            !.textTokens = IF Trim(t.text) = << >> THEN @ ELSE Append(@, Trim(t.text))]

Token(s, t) ==
  CASE t.kind = "start" -> Start(s, t)
    [] t.kind = "end" -> End(s, t)
    [] t.kind = "chars" -> CharData(s, t)

\* The loop over tokens[lo..hi], in halves so that it nests little.
RECURSIVE Loop(_, _, _, _), Rest(_, _, _, _)
Loop(s, tokens, lo, hi) ==
  IF lo = hi THEN Token(s, tokens[lo])
  ELSE Rest(Loop(s, tokens, lo, (lo + hi) \div 2), tokens, (lo + hi) \div 2 + 1, hi)

Rest(s, tokens, lo, hi) == IF s.serial >= 0 THEN Loop(s, tokens, lo, hi) ELSE s

\* An encoding the page does not have takes the last diagram.
FallbackBoxes(s) == MergeBoxes(IF s.lastDiagram # << >> THEN s.lastDiagram ELSE s.diagram, << >>)

FormOf(s) ==
  [s.out EXCEPT !.boxes =
     IF \/ s.matched /\ @ # << >>
        \/ s.lastDiagram = << >> /\ s.diagram = << >>
     THEN @ ELSE FallbackBoxes(s)]

ParseIForm(tokens, id) == FormOf(Loop(NewLoop(id), tokens, 1, Len(tokens)))
=============================================================================
