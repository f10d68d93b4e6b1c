---------------------------- MODULE EncodingIndex ----------------------------
(***************************************************************************)
(* Pass 1 of the Arm pipeline, token by token: the encoding indexes go     *)
(* through the streaming router, whose handlers turn table rows into       *)
(* partial instructions; these are added to the registry, then the aliases *)
(* the indexes leave out.  Pass 2 rewrites what is registered.             *)
(*                                                                         *)
(* The parser is made once: its scopes, sessions and results outlive the   *)
(* file they came from, and the 32-bit set has two index files.            *)
(***************************************************************************)
EXTENDS StreamingParser, AliasPages

CONSTANT Inputs   \* what Pass 1 may be run on

\* indexes are the index files, as XML tokens: the start of an element, its
\* end, character data as words, or "broken" where the decoder gives up.
\* pages are the instruction pages the alphabetic indexes list, page k of the
\* file named <<k>>; prepared says that the archive loader has scanned them
\* all.  forms are what Pass 2 parses from the pages, by encoding ID.

\* The character data of an index, and the values of its attributes, are words.
ASSUME InputsAssumption ==
  \A i \in Inputs :
    /\ i.indexes \in Seq(ToSet(i.indexes))
    /\ \A doc \in ToSet(i.indexes) :
         /\ doc \in Seq(ToSet(doc))
         /\ \A t \in ToSet(doc) :
              /\ t.kind = "text" => t.words \in Seq(STRING)
              /\ t.kind = "start" => \A name \in DOMAIN t.attr : t.attr[name] \in Seq(ToSet(t.attr[name]))
    /\ i.pages \in Seq(ToSet(i.pages))
    /\ \A page \in ToSet(i.pages) : page \in Seq(ToSet(page))

VARIABLES
  input,
  pc,          \* "open", "parse", "add", "aliases", "resolve", "done", "failed"
  current,     \* index files opened so far
  tokens,      \* what is left of the file
  elements,    \* elementStack, and with it pathStack
  textStart, textTokens,
  scope,       \* the engine's ScopeStack
  sessions,    \* of each handler, by path
  contexts,    \* the InstructionRowContexts made so far
  results,     \* the engine's ResultStore
  todo,        \* instructions about to be added
  registry,
  resolved     \* the places Pass 2 has rewritten

streamVars == <<tokens, elements, textStart, textTokens>>
engineVars == <<scope, sessions, contexts, results>>
vars == <<input, pc, current, streamVars, engineVars, todo, registry, resolved>>

Init ==
  /\ input \in Inputs /\ pc = "open" /\ current = 0
  /\ tokens = << >> /\ elements = << >> /\ textStart = << >> /\ textTokens = << >>
  /\ scope = NewScopeStack
  /\ sessions = [table |-> Empty, row |-> Empty, bitfield |-> Empty]
  /\ contexts = << >> /\ results = << >>
  /\ todo = << >> /\ registry = NewRegistry /\ resolved = {}

----------------------------------------------------------------------------
\* Parse: one file.

\* A new StreamingHandler over the same engine.
OpenIndex ==
  /\ pc = "open" /\ current < Len(input.indexes)
  /\ pc' = "parse" /\ current' = current + 1
  /\ tokens' = input.indexes[current + 1]
  /\ elements' = << >> /\ textStart' = << >> /\ textTokens' = << >>
  /\ UNCHANGED <<input, engineVars, todo, registry, resolved>>

NextToken(kind) == pc = "parse" /\ tokens # << >> /\ Head(tokens).kind = kind
Advance == tokens' = Tail(tokens) /\ UNCHANGED <<input, pc, current, todo, registry, resolved>>

\* Rows of an index that name an encoding and its page.
RealRow(e) ==
  /\ GetAttr(e, "undef") # <<"1">>
  /\ GetAttr(e, "class") = <<"instructiontable">>
  /\ GetAttr(e, "encname") # << >> /\ GetAttr(e, "iformfile") # << >>

Cell(e, path, class) == Select(path, "td") /\ GetAttr(e, "class") = <<class>>

\* A feature is a sequence of words; arch_version lists features of one word.
ArchFeatures(e) ==
  [k \in DOMAIN GetAttr(e, "arch_version") |-> <<GetAttr(e, "arch_version")[k]>>]

RowContext(e, s) ==
  [encodingID |-> GetAttr(e, "encname"), mnemonic |-> << >>,
   class |-> IF Visible(s, "instruction_table") THEN LoadFromScope(s, "instruction_table")
             ELSE << >>,
   iformFile |-> GetAttr(e, "iformfile"), fields |-> << >>,
   features |-> ArchFeatures(e)]

\* The handlers of an opening element, its own scope already pushed.
StartTable(e, path, pushed) ==
  /\ Select(path, "instructiontable")
  /\ sessions' = [sessions EXCEPT !.table = SessionStore(@, path, GetAttr(e, "iclass"))]
  /\ scope' = StoreInScope(pushed, "instruction_table", GetAttr(e, "iclass"))
  /\ UNCHANGED contexts

StartRow(e, path, pushed) ==
  /\ Select(path, "tr") /\ RealRow(e)
  /\ contexts' = Append(contexts, RowContext(e, pushed))
  /\ sessions' = [sessions EXCEPT !.row = SessionStore(@, path, Len(contexts) + 1)]
  /\ scope' = StoreInScope(pushed, "instruction_row", Len(contexts) + 1)

StartBitfield(e, path, pushed) ==
  /\ Cell(e, path, "bitfield")
  /\ sessions' = [sessions EXCEPT !.bitfield = SessionStore(@, path, GetAttr(e, "bitwidth"))]
  /\ scope' = pushed /\ UNCHANGED contexts

StartOther(e, path, pushed) ==
  /\ ~Select(path, "instructiontable") /\ ~Cell(e, path, "bitfield")
  /\ ~(Select(path, "tr") /\ RealRow(e))
  /\ scope' = pushed /\ UNCHANGED <<sessions, contexts>>

HandleStartElement ==
  /\ NextToken("start") /\ Advance
  /\ LET e == Head(tokens)
         path == Append(Path(elements), e.tag)
     IN  /\ elements' = Append(elements, e)
         /\ textStart' = Append(textStart, Len(textTokens))
         /\ \/ StartTable(e, path, Push(scope))
            \/ StartRow(e, path, Push(scope))
            \/ StartBitfield(e, path, Push(scope))
            \/ StartOther(e, path, Push(scope))
  /\ UNCHANGED <<textTokens, results>>

\* Character data that is only white space is dropped.
HandleCharData ==
  /\ NextToken("text") /\ Advance
  /\ textTokens' = textTokens \o Head(tokens).words
  /\ UNCHANGED <<elements, textStart, engineVars>>

----------------------------------------------------------------------------
\* The handlers of a closing element, its scope still the current one.

Text == SubSeq(textTokens, textStart[Len(textStart)] + 1, Len(textTokens))

EndTable(e, path) ==
  /\ Select(path, "instructiontable")
  /\ sessions' = [sessions EXCEPT !.table = SessionDelete(@, path)]
  /\ UNCHANGED <<contexts, results>>

\* The instruction is a copy of what its cells have collected.
EndRow(e, path) ==
  /\ Select(path, "tr") /\ SessionExists(sessions.row, path)
  /\ results' = Append(results, contexts[sessions.row[path]])
  /\ sessions' = [sessions EXCEPT !.row = SessionDelete(@, path)]
  /\ UNCHANGED contexts

BeforeComma(words) ==
  LET commas == {k \in DOMAIN words : words[k] = ","}
  IN  IF commas = {} THEN words ELSE SubSeq(words, 1, Min(commas) - 1)

RowInScope == Visible(scope, "instruction_row")
Row == LoadFromScope(scope, "instruction_row")

EndMnemonic(e, path) ==
  /\ Cell(e, path, "iformname") /\ RowInScope
  /\ contexts' = [contexts EXCEPT ![Row].mnemonic =
                    IF GetAttr(e, "iformid") # << >> THEN GetAttr(e, "iformid")
                    ELSE BeforeComma(Text)]
  /\ UNCHANGED <<sessions, results>>

\* A cell outside a row is collected by nobody, its session ends all the same.
EndBitfield(e, path) ==
  /\ Cell(e, path, "bitfield") /\ SessionExists(sessions.bitfield, path)
  /\ sessions' = [sessions EXCEPT !.bitfield = SessionDelete(@, path)]
  /\ contexts' = IF ~RowInScope THEN contexts
                 ELSE [contexts EXCEPT ![Row].fields =
                         Append(@, [name |-> GetAttr(e, "name"), value |-> Text,
                                    width |-> sessions.bitfield[path]])]
  /\ UNCHANGED results

EndFeature(e, path) ==
  /\ Select(path, "feat") /\ RowInScope
  /\ contexts' = [contexts EXCEPT ![Row].features = Append(@, Text)]
  /\ UNCHANGED <<sessions, results>>

EndOther(e, path) ==
  /\ ~Select(path, "instructiontable")
  /\ ~(Select(path, "tr") /\ SessionExists(sessions.row, path))
  /\ ~(Cell(e, path, "bitfield") /\ SessionExists(sessions.bitfield, path))
  /\ ~(RowInScope /\ (Select(path, "feat") \/ Cell(e, path, "iformname")))
  /\ UNCHANGED <<sessions, contexts, results>>

HandleEndElement ==
  /\ NextToken("end") /\ elements # << >> /\ Advance
  /\ LET e == elements[Len(elements)]
         path == Path(elements)
     IN  \/ EndTable(e, path)    \/ EndRow(e, path)
         \/ EndMnemonic(e, path) \/ EndBitfield(e, path)
         \/ EndFeature(e, path)  \/ EndOther(e, path)
  /\ scope' = Pop(scope)
  /\ elements' = SubSeq(elements, 1, Len(elements) - 1)
  /\ textStart' = SubSeq(textStart, 1, Len(textStart) - 1)
  /\ textTokens' = IF Len(textStart) = 1 THEN << >> ELSE textTokens

\* The decoder's own syntax errors: an end without a start, a file cut off
\* inside an element, or what it cannot read.  Any of them ends the pass.
Malformed ==
  /\ \/ NextToken("broken")
     \/ NextToken("end") /\ elements = << >>
     \/ pc = "parse" /\ tokens = << >> /\ elements # << >>
  /\ pc' = "failed"
  /\ UNCHANGED <<input, current, streamVars, engineVars, todo, registry, resolved>>

----------------------------------------------------------------------------
\* Around the parser.

\* The store still holds the rows of the files before.
EndOfIndex ==
  /\ pc = "parse" /\ tokens = << >> /\ elements = << >>
  /\ pc' = "add" /\ todo' = results
  /\ UNCHANGED <<input, current, streamVars, engineVars, registry, resolved>>

\* What Add rejects is dropped.
AddNext ==
  /\ pc \in {"add", "aliases"} /\ todo # << >>
  /\ registry' = Add(registry, Head(todo)) /\ todo' = Tail(todo)
  /\ UNCHANGED <<input, pc, current, streamVars, engineVars, resolved>>

IndexAdded ==
  /\ pc = "add" /\ todo = << >> /\ current < Len(input.indexes)
  /\ pc' = "open"
  /\ UNCHANGED <<input, current, streamVars, engineVars, todo, registry, resolved>>

\* A directory is scanned page by page, without the pages of the registry; an
\* archive brings the aliases of all its pages.
PagesToScan ==
  {k \in DOMAIN input.pages : input.prepared \/ <<k>> \notin CanonicalFiles(registry)}

Inspected(k) == InspectIFormMember(input.pages[k], <<k>>)

DiscoverAliases ==
  /\ pc = "add" /\ todo = << >> /\ current = Len(input.indexes)
  /\ IF \E k \in PagesToScan : Inspected(k).failed
     THEN pc' = "failed" /\ UNCHANGED todo
     ELSE /\ pc' = "aliases"
          /\ todo' = BuildAliases(registry, FlattenSeq(
                       [k \in DOMAIN input.pages |->
                          IF k \in PagesToScan THEN Inspected(k).aliases ELSE << >>]))
  /\ UNCHANGED <<input, current, streamVars, engineVars, registry, resolved>>

StartPass2 ==
  /\ pc = "aliases" /\ todo = << >>
  /\ pc' = "resolve"
  /\ UNCHANGED <<input, current, streamVars, engineVars, todo, registry, resolved>>

\* mergeFeatures: each name once.
Merged(old, new) ==
  LET all == old \o new
      first == SelectSeq([k \in DOMAIN all |-> k],
                         LAMBDA k : \A j \in 1..(k - 1) : all[j] # all[k])
  IN  [j \in DOMAIN first |-> all[first[j]]]

\* ApplyParsedIForm, as far as the registry knows what it rewrites; the comma
\* of a list does not survive BeforeComma, but it does in an iformid.
Applied(instr, form) ==
  [encodingID |-> instr.encodingID, class |-> instr.class,
   iformFile |-> instr.iformFile, fields |-> instr.fields,
   mnemonic |-> IF form.alias # << >> THEN form.alias
                ELSE IF form.mnemonic # << >> /\ "," \in ToSet(instr.mnemonic)
                THEN form.mnemonic ELSE instr.mnemonic,
   features |-> IF form.features = << >> THEN instr.features
                ELSE Merged(instr.features, form.features)]

\* The workers take the instructions in any order.
ResolveIForm ==
  /\ pc = "resolve"
  /\ \E k \in DOMAIN registry.instructions \ resolved :
       LET id == registry.instructions[k].encodingID
       IN  /\ resolved' = resolved \cup {k}
           /\ registry' = IF id \notin DOMAIN input.forms THEN registry
                          ELSE [registry EXCEPT !.instructions[k] = Applied(@, input.forms[id])]
  /\ UNCHANGED <<input, pc, current, streamVars, engineVars, todo>>

EndPass2 ==
  /\ pc = "resolve" /\ resolved = DOMAIN registry.instructions
  /\ pc' = "done"
  /\ UNCHANGED <<input, current, streamVars, engineVars, todo, registry, resolved>>

Stopped == pc \in {"done", "failed"} /\ UNCHANGED vars

Next ==
  \/ OpenIndex \/ HandleStartElement \/ HandleEndElement \/ HandleCharData
  \/ Malformed \/ EndOfIndex \/ AddNext \/ IndexAdded \/ DiscoverAliases
  \/ StartPass2 \/ ResolveIForm \/ EndPass2 \/ Stopped

Spec == Init /\ [][Next]_vars

----------------------------------------------------------------------------
\* What the files say.  Positions are those of tokens in an index.

Opening(doc) == {p \in DOMAIN doc : doc[p].kind = "start"}

Balance(doc, p, q) ==
  Cardinality({k \in p..q : doc[k].kind = "start"})
    - Cardinality({k \in p..q : doc[k].kind = "end"})

\* Where the element that opens at p ends.
EndsAt(doc, p) == Min({q \in p..Len(doc) : Balance(doc, p, q) = 0})

\* The elements around the one at p, and what is inside it.
Around(doc, p) == {q \in Opening(doc) : q < p /\ p < EndsAt(doc, q)}
Inside(doc, p) == {q \in Opening(doc) : q > p /\ q < EndsAt(doc, p)}

RowsOf(doc) == {p \in Opening(doc) : doc[p].tag = "tr" /\ RealRow(doc[p])}

WordsIn(doc, p) ==
  FlattenSeq([k \in 1..(EndsAt(doc, p) - p) |->
                IF doc[p + k].kind = "text" THEN doc[p + k].words ELSE << >>])

InOrder(doc, positions) ==
  SelectSeq([k \in DOMAIN doc |-> k], LAMBDA k : k \in positions)

Written(doc, row) ==
  LET tables == {q \in Around(doc, row) : doc[q].tag = "instructiontable"}
      names == {q \in Inside(doc, row) :
                  doc[q].tag = "td" /\ GetAttr(doc[q], "class") = <<"iformname">>}
      fields == InOrder(doc, {q \in Inside(doc, row) :
                  doc[q].tag = "td" /\ GetAttr(doc[q], "class") = <<"bitfield">>})
      features == InOrder(doc, {q \in Inside(doc, row) : doc[q].tag = "feat"})
  IN  [encodingID |-> GetAttr(doc[row], "encname"), iformFile |-> GetAttr(doc[row], "iformfile"),
       class |-> IF tables = {} THEN << >> ELSE GetAttr(doc[Max(tables)], "iclass"),
       mnemonic |-> IF names = {} THEN << >>
                    ELSE IF GetAttr(doc[Max(names)], "iformid") # << >>
                    THEN GetAttr(doc[Max(names)], "iformid")
                    ELSE BeforeComma(WordsIn(doc, Max(names))),
       fields |-> [k \in DOMAIN fields |->
                     [name |-> GetAttr(doc[fields[k]], "name"), value |-> WordsIn(doc, fields[k]),
                      width |-> GetAttr(doc[fields[k]], "bitwidth")]],
       features |-> ArchFeatures(doc[row]) \o
                    [k \in DOMAIN features |-> WordsIn(doc, features[k])]]

RowsWritten(doc) ==
  LET rows == InOrder(doc, RowsOf(doc))
  IN  [k \in DOMAIN rows |-> Written(doc, rows[k])]

AllWritten == FlattenSeq([k \in 1..current |-> RowsWritten(input.indexes[k])])
----------------------------------------------------------------------------
\* Properties.

\* What the parser keeps fits together: an element, a text mark and a scope for
\* each open element, scopes linked as the elements are nested, every popped one
\* empty and free to be used again, sessions only of elements that are open.
TypeOK ==
  /\ pc \in {"open", "parse", "add", "aliases", "resolve", "done", "failed"}
  /\ ScopesSound(scope)
  /\ Len(textStart) = Len(elements) /\ Len(scope.stack) = Len(elements)
  /\ \A k \in DOMAIN textStart : textStart[k] <= Len(textTokens)
  /\ \A h \in DOMAIN sessions : \A path \in DOMAIN sessions[h] : IsPrefix(path, Path(elements))
  /\ \A path \in DOMAIN sessions.row : sessions.row[path] \in DOMAIN contexts
  /\ resolved \subseteq DOMAIN registry.instructions

FirstValid(instrs) ==
  SelectSeq([k \in DOMAIN instrs |-> k],
            LAMBDA k : ValidInstruction(instrs[k])
                       /\ \A j \in 1..(k - 1) : ValidInstruction(instrs[j])
                                                => instrs[j].encodingID # instrs[k].encodingID)

FromIndexes ==
  LET keep == FirstValid(AllWritten) IN [k \in DOMAIN keep |-> AllWritten[keep[k]]]

\* The handlers collect what the index says (InstructionRowHandler and its
\* cells): each row that names an encoding gives one instruction, in order, with
\* the class of the table around it and the name, fields and features of its own
\* cells, whatever scopes and sessions earlier elements have left behind.  Pass 1
\* registers every valid one once, the first of an encoding ID, although the
\* rows of the first index are offered again after the second.
RowsAsWritten ==
  /\ pc = "add" => results = AllWritten
  /\ pc \in {"aliases", "resolve"} /\ resolved = {} =>
       SubSeq(registry.instructions, 1, Len(FromIndexes)) = FromIndexes

\* A mnemonic in capitals finds instructions of that name in any case.
NamesFound ==
  \A i \in ToSet(GetAll(registry)) :
    \A found \in GetByMnemonic(registry, Upper(i.mnemonic)) :
      /\ found # << >>
      /\ \A k \in ToSet(found) : Upper(GetAll(registry)[k].mnemonic) = Upper(i.mnemonic)

\* The statistics count the instructions of each class.
ClassesCounted ==
  \A c \in GetClasses(registry) :
    Statistics(registry).classDistribution[c]
      = Cardinality({k \in DOMAIN GetAll(registry) : GetAll(registry)[k].class = c})

LookupsAgree ==
  /\ NamesFound /\ ClassesCounted
  /\ Agrees(registry, GroupByClass(registry), LAMBDA i : {i.class})
  /\ Agrees(registry, GroupByFeature(registry), LAMBDA i : ToSet(i.features))
  /\ Agrees(registry, registry.byMnemonic, LAMBDA i : {i.mnemonic})

FoundByID ==
  /\ \A k \in DOMAIN registry.instructions :
       GetByEncodingID(registry, registry.instructions[k].encodingID) = {k}
  /\ DOMAIN registry.byEncodingID = {i.encodingID : i \in ToSet(registry.instructions)}

\* What Add keeps beside the list agrees with it, whatever is added, refused or
\* offered twice: until Pass 2 rewrites an instruction, the lookups by mnemonic,
\* the groups by class and feature and the statistics; and at all times an
\* encoding is found by its ID.
RegistryComplete ==
  /\ resolved = {} => LookupsAgree
  /\ FoundByID

\* What an alias page says of the encoding that opens at p.
Ends(page, p) ==
  IF page[p].selfClosing THEN p
  ELSE Min({q \in p..Len(page) :
              Cardinality({k \in p..q : page[k].kind = "open" /\ ~page[k].selfClosing})
                = Cardinality({k \in p..q : page[k].kind = "close"})})

Tags(page, name) == {p \in DOMAIN page : page[p].kind = "open" /\ page[p].name = name}

SaysOf(page, p, key) ==
  LET said == {q \in Tags(page, "docvar") :
                  Attribute(page[q], "key") = <<key>> /\ Attribute(page[q], "value") # << >>}
      own == {q \in said : p < q /\ q < Ends(page, p)}
      general == {q \in said : q < p /\ \A e \in Tags(page, "encoding") :
                                          q < e \/ Ends(page, e) < q}
  IN  IF own # {} THEN Attribute(page[Max(own)], "value")
      ELSE IF general # {} THEN Attribute(page[Max(general)], "value") ELSE << >>

Preferred(page, p) ==
  IF SaysOf(page, p, "alias_mnemonic") # << >> THEN SaysOf(page, p, "alias_mnemonic")
  ELSE SaysOf(page, p, "mnemonic")

Refers(page) ==
  IF Tags(page, "aliasto") = {} THEN << >>
  ELSE Attribute(page[Max(Tags(page, "aliasto"))], "refiform")

ClassOfPage(file) ==
  LET rows == SelectSeq(FromIndexes, LAMBDA i : i.iformFile = file)
  IN  IF rows = << >> THEN << >> ELSE Head(rows).class

PagesOfAliases ==
  {k \in DOMAIN input.pages :
     /\ \A i \in ToSet(FromIndexes) : i.iformFile # <<k>>
     /\ \E p \in Tags(input.pages[k], "instructionsection") :
          Attribute(input.pages[k][p], "type") = <<"alias">>}

\* DiscoverAliasEncodings: each named encoding of an alias page that has a
\* mnemonic is registered, with its own mnemonic or else its page's, and with the
\* class of the page it refers to, wherever the page says so; "It works
\* identically for an extracted directory and an in-memory tar corpus".
AliasesComplete ==
  pc = "resolve" /\ resolved = {} =>
    \A k \in PagesOfAliases : \A p \in Tags(input.pages[k], "encoding") :
      LET page == input.pages[k]
          id == Attribute(page[p], "name")
          class == ClassOfPage(Refers(page))
      IN  id # << >> /\ Preferred(page, p) # << >> =>
            \E i \in ToSet(registry.instructions) :
              /\ i.encodingID = id
              /\ i.iformFile = <<k>> =>
                   /\ i.mnemonic = Preferred(page, p)
                   /\ i.class = IF class = << >> THEN ClassFromEncodingID(id) ELSE class
=============================================================================
