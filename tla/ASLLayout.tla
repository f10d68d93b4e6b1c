----------------------------- MODULE ASLLayout -----------------------------
(***************************************************************************)
(* The lexer of ARM's specification language after characters have become  *)
(* lexemes (pkg/asl/lex.go): comments are dropped, and layout puts INDENT  *)
(* and DEDENT between the tokens.  Also how a parser walks the tokens.     *)
(*                                                                         *)
(* A lexeme is [kind, text, line, col]; how characters make lexemes is     *)
(* left out.  A parser is given tokens t and a position p and returns      *)
(* [ok, node, pos]; a node is a tuple that starts with its kind.           *)
(***************************************************************************)
EXTENDS Integers, Sequences, SequencesExt, FiniteSets

Token(kind, text, at) == [kind |-> kind, text |-> text, line |-> at.line, col |-> at.col]

\* What the characters of a text can make, the marks of comments included; the
\* kinds that layout makes are none of them.
LexemeKind == {"IDENT", "NAT", "HEX", "REAL", "BIN", "MASK", "STRING", "PUNCT", "SEE",
               "OPEN", "CLOSE", "LINE"}
Lexeme == [kind : LexemeKind, text : STRING, line : Nat, col : Nat]
LayoutKind == {"INDENT", "DEDENT", "EOF"}

Opens == {"(", "[", "{"}
Closes == {")", "]", "}"}

----------------------------------------------------------------------------
(* Comments.  Block comments nest; a line comment hides the rest of its    *)
(* line, unless it is inside a block comment.                              *)

Skipped(s, x) ==
  CASE s.depth > 0 /\ x.kind = "CLOSE" -> [s EXCEPT !.depth = @ - 1]
    [] s.depth > 0 /\ x.kind = "OPEN" -> [s EXCEPT !.depth = @ + 1]
    [] s.depth > 0 \/ x.line = s.hidden -> s
    [] x.kind = "OPEN" -> [s EXCEPT !.depth = 1]
    [] x.kind = "LINE" -> [s EXCEPT !.hidden = x.line]
    [] OTHER -> [s EXCEPT !.out = Append(@, x)]

SkipComments(lexemes) ==
  LET start == [depth |-> 0, hidden |-> 0, out |-> <<>>]
      after[k \in 0..Len(lexemes)] == IF k = 0 THEN start ELSE Skipped(after[k - 1], lexemes[k])
      end == after[Len(lexemes)]
  IN  [ok |-> end.depth = 0, tokens |-> end.out]

----------------------------------------------------------------------------
(* Layout: INDENT and DEDENT from the columns of the tokens that start a   *)
(* line outside brackets.                                                  *)

\* Blocks that a token at column col closes, of the open columns.
Closed(indents, col) == Cardinality({i \in 2..Len(indents) : col < indents[i]})

Copies(token, n) == [i \in 1..n |-> token]

Placed(s, x) ==
  LET top == Last(s.indents)
      closed == Closed(s.indents, x.col)
      left == SubSeq(s.indents, 1, Len(s.indents) - closed)
      starts == x.line # s.prev /\ s.nest = 0
      marks == IF ~starts THEN <<>>
               ELSE IF x.col > top THEN <<Token("INDENT", "", x)>>
               ELSE Copies(Token("DEDENT", "", x), closed)
      nesting == CASE x.kind = "PUNCT" /\ x.text \in Opens -> 1
                   [] x.kind = "PUNCT" /\ x.text \in Closes -> -1
                   [] OTHER -> 0
  IN  [ok |-> s.ok /\ (starts /\ x.col < top => x.col = Last(left)),
       indents |-> IF ~starts THEN s.indents
                   ELSE IF x.col > top THEN Append(s.indents, x.col) ELSE left,
       nest |-> s.nest + nesting, prev |-> x.line,
       out |-> s.out \o marks \o <<x>>]

LayoutStart == [ok |-> TRUE, indents |-> <<0>>, nest |-> 0, prev |-> -1, out |-> <<>>]
AllPlaced_WithoutLast(tokens) ==
  LET after[k \in 0..Len(tokens)] == IF k = 0 THEN LayoutStart ELSE Placed(after[k - 1], tokens[k])
  IN  after[Len(tokens) - 1]
AllPlaced(tokens) ==
  LET after[k \in 0..Len(tokens)] == IF k = 0 THEN LayoutStart ELSE Placed(after[k - 1], tokens[k])
  IN  after[Len(tokens)]

Layout_WithoutClosing(tokens) ==
  LET s == AllPlaced(tokens)
  IN  [ok |-> s.ok, tokens |-> Append(s.out, Token("EOF", "", [line |-> s.prev + 1, col |-> 0]))]
Layout(tokens) ==
  LET s == AllPlaced(tokens)
      eof == Token("EOF", "", [line |-> s.prev + 1, col |-> 0])
  IN  [ok |-> s.ok,
       tokens |-> s.out \o Copies([eof EXCEPT !.kind = "DEDENT"], Len(s.indents) - 1)
                        \o <<eof>>]

----------------------------------------------------------------------------
(* Walking the tokens. *)

Done(node, p) == [ok |-> TRUE, node |-> node, pos |-> p]
Bad(p) == [ok |-> FALSE, node |-> <<>>, pos |-> p]
On(r, K(_)) == IF r.ok THEN K(r) ELSE r

After(t, p) == IF p < Len(t) THEN p + 1 ELSE p
At(t, p, kind) == t[p].kind = kind
Is(t, p, text) == t[p].kind = "PUNCT" /\ t[p].text = text
Word(t, p, text) == t[p].kind = "IDENT" /\ t[p].text = text
Accepts(t, p, text) == Is(t, p, text) \/ Word(t, p, text)

\* expect: the result r stands if `text' follows, and then includes it.
Expect(t, r, text) ==
  On(r, LAMBDA x : IF Accepts(t, x.pos, text) THEN Done(x.node, After(t, x.pos)) ELSE Bad(x.pos))
Kind(t, p, kinds) == IF t[p].kind \in kinds THEN Done(t[p].text, After(t, p)) ELSE Bad(p)
=============================================================================
