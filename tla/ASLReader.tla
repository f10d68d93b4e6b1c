----------------------------- MODULE ASLReader -----------------------------
(***************************************************************************)
(* Lex and ParseInstructions, step by step: a text becomes tokens, the     *)
(* tokens get their layout, and each instruction is read in turn.          *)
(***************************************************************************)
EXTENDS ASLLayout

CONSTANTS
  Texts,                  \* what is read: [lexemes, meaning]
  ReadInstruction(_, _)   \* parser.instruction on tokens from a position

\* The characters of a text make no token of a kind that layout makes.
ASSUME TextsAssumption == \A text \in Texts : text.lexemes \in Seq(Lexeme)

VARIABLES source,  \* the text read
          stage,   \* "lex", "layout", "parse", "done", "error"
          tokens, pos,
          parsed   \* instructions read so far

vars == <<source, stage, tokens, pos, parsed>>

Init ==
  /\ source \in Texts
  /\ stage = "lex" /\ tokens = <<>> /\ pos = 1 /\ parsed = <<>>

Lex ==
  /\ stage = "lex"
  /\ \E lexed \in {SkipComments(source.lexemes)} :
       stage' = (IF lexed.ok THEN "layout" ELSE "error") /\ tokens' = lexed.tokens
  /\ UNCHANGED <<source, pos, parsed>>

LayOut ==
  /\ stage = "layout"
  /\ \E laid \in {Layout(tokens)} :
       stage' = (IF laid.ok THEN "parse" ELSE "error") /\ tokens' = laid.tokens
  /\ UNCHANGED <<source, pos, parsed>>

ParseNext ==
  /\ stage = "parse" /\ ~At(tokens, pos, "EOF")
  /\ \E r \in {IF Word(tokens, pos, "__instruction") THEN ReadInstruction(tokens, pos) ELSE Bad(pos)} :
       IF r.ok
       THEN pos' = r.pos /\ parsed' = Append(parsed, r.node) /\ UNCHANGED stage
       ELSE stage' = "error" /\ parsed' = <<>> /\ UNCHANGED pos
  /\ UNCHANGED <<source, tokens>>

Finish ==
  /\ stage = "parse" /\ At(tokens, pos, "EOF")
  /\ stage' = "done"
  /\ UNCHANGED <<source, tokens, pos, parsed>>

Next == Lex \/ LayOut \/ ParseNext \/ Finish

Spec == Init /\ [][Next]_vars
----------------------------------------------------------------------------

CountOf(t, kinds, n) == Cardinality({i \in 1..n : t[i].kind \in kinds})

\* Columns open and close as brackets do: each DEDENT closes an INDENT.
Balanced(t) ==
  /\ \A n \in DOMAIN t : CountOf(t, {"DEDENT"}, n) <= CountOf(t, {"INDENT"}, n)
  /\ CountOf(t, {"DEDENT"}, Len(t)) = CountOf(t, {"INDENT"}, Len(t))

\* What the parser relies on: one EOF, at the end, and blocks that are all
\* closed, whatever the indentation (layout in lex.go).
BlocksClosed ==
  stage \in {"parse", "done"} =>
    /\ Balanced(tokens)
    /\ \A i \in DOMAIN tokens : At(tokens, i, "EOF") <=> i = Len(tokens)

\* Layout puts its marks between the tokens and does nothing else: whatever the
\* columns, no token outside a comment is lost, repeated, changed or moved, so
\* the parser reads what was written (layout in lex.go).
TokensKept ==
  stage \in {"parse", "done"} =>
    LET words == SkipComments(source.lexemes).tokens IN
    /\ CountOf(tokens, LexemeKind, Len(tokens)) = Len(words)
    /\ \A i \in DOMAIN tokens :
         tokens[i].kind \in LexemeKind => tokens[i] = words[CountOf(tokens, LexemeKind, i)]

\* A text is read as what it says: the grammar's precedences, slices next to
\* comparisons, inline and indented bodies, wrapped argument lists, comments
\* and skipped bodies lose or move nothing, and a text that says nothing is
\* refused (ParseInstructions).
ReadsAsWritten ==
  /\ stage = "parse" => IsPrefix(parsed, source.meaning)
  /\ stage = "done" => parsed = source.meaning
  /\ stage = "error" => source.meaning = <<>>
=============================================================================
