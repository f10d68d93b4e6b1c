------------------------ MODULE MCASLInstructions ------------------------
(***************************************************************************)
(* Texts with a known meaning: a writer that puts down instructions with   *)
(* no more parentheses than ASL.g4's precedences ask for, in the layouts   *)
(* arm_instrs.asl uses.                                                    *)
(***************************************************************************)
EXTENDS ASLReader, ASLInstructions, TLC

W(text) == [kind |-> "IDENT", text |-> text]
P(text) == [kind |-> "PUNCT", text |-> text]
N(text) == [kind |-> "NAT", text |-> text]
B(text) == [kind |-> "BIN", text |-> text]

Rank(op) ==
  CASE op = "^" -> 6 [] op = "*" -> 5 [] op = "+" -> 4 [] op \in {":", "AND"} -> 3
    [] op \in {"<", ">", "=="} -> 2 [] op = "&&" -> 1

\* How tightly a written expression holds together; comparisons of
\* comparisons are put in parentheses.
Tightness(e) == CASE e[1] = "binary" -> Rank(e[2]) [] e[1] = "unary" -> 7 [] e[1] = "if" -> 0 [] OTHER -> 8

Between(parts, s) == FoldLeft(LAMBDA acc, x : IF acc = <<>> THEN x ELSE acc \o s \o x, <<>>, parts)

RECURSIVE Show(_, _), Wrap(_, _, _), ShowPart(_, _), Patt(_)
Wrap(e, min, slice) ==
  IF Tightness(e) < min \/ (slice /\ e[1] = "binary" /\ (Rank(e[2]) < 3 \/ e[2] = ":"))
  THEN <<P("(")>> \o Show(e, FALSE) \o <<P(")")>> ELSE Show(e, slice)

ShowPart(s, slice) ==
  CASE s[1] = "bit" -> Wrap(s[2], 1, slice)
    [] s[1] = "value" -> Wrap(s[2], 1, FALSE)
    [] s[1] = "range" -> Wrap(s[2], 1, FALSE) \o <<P("..")>> \o Wrap(s[3], 1, FALSE)
    [] OTHER -> Wrap(s[2], 1, slice) \o <<P(s[1])>> \o Wrap(s[3], 1, slice)

SliceParts(parts, slice) == Between([i \in DOMAIN parts |-> ShowPart(parts[i], slice)], <<P(",")>>)
Exprs(es) == Between([i \in DOMAIN es |-> Show(es[i], FALSE)], <<P(",")>>)
Dots(names) == Between([i \in DOMAIN names |-> <<W(names[i])>>], <<P(".")>>)

Show(e, slice) ==
  CASE e[1] = "name" -> Dots(e[2])
    [] e[1] = "literal" -> <<[kind |-> e[2], text |-> e[3]]>>
    [] e[1] = "unknown" -> Dots(e[2]) \o <<W("UNKNOWN")>>
    [] e[1] = "ignore" -> <<P("-")>>
    [] e[1] = "unary" -> <<IF e[2] = "NOT" THEN W("NOT") ELSE P(e[2])>> \o Wrap(e[3], 7, slice)
    [] e[1] = "binary" ->
         LET strict == IF Rank(e[2]) = 2 THEN 1 ELSE 0 IN
         Wrap(e[3], Rank(e[2]) + strict, slice)
         \o <<IF e[2] = "AND" THEN W("AND") ELSE P(e[2])>> \o Wrap(e[4], Rank(e[2]) + 1, slice)
    [] e[1] = "slice" -> Wrap(e[2], 8, slice) \o <<P("<")>> \o SliceParts(e[3], TRUE) \o <<P(">")>>
    [] e[1] = "index" -> Wrap(e[2], 8, slice) \o <<P("[")>> \o SliceParts(e[3], TRUE) \o <<P("]")>>
    [] e[1] = "member" -> Wrap(e[2], 8, slice) \o <<P("."), W(e[3])>>
    [] e[1] = "inmask" -> Wrap(e[2], 8, slice) \o <<W("IN"), B(e[3])>>
    [] e[1] = "inset" -> Wrap(e[2], 8, slice) \o <<W("IN"), P("{")>> \o SliceParts(e[3], FALSE) \o <<P("}")>>
    [] e[1] = "call" -> Dots(e[2]) \o <<P("(")>> \o Exprs(e[3]) \o <<P(")")>>
    [] e[1] = "tuple" -> <<P("(")>> \o Exprs(e[2]) \o <<P(")")>>
    [] e[1] = "if" ->
         Between([i \in DOMAIN e[2] |-> Show(e[2][i][1], FALSE) \o <<W("then")>> \o Show(e[2][i][2], FALSE)],
                 <<W("elsif")>>) \o <<W("else")>> \o Show(e[3], FALSE)

\* "if" is put before its first arm here, so that every arm is shown alike.
Written(e) == (IF e[1] = "if" THEN <<W("if")>> ELSE <<>>) \o Show(e, FALSE)

----------------------------------------------------------------------------
(* Statements as lines [col, words]; an inline body stays on its line. *)

Line(col, words) == <<[col |-> col, words |-> words]>>
Plain(s) == s[1] \notin {"cond", "case"}
Semi == <<P(";")>>

Words(s) ==
  CASE s[1] = "assign" -> Show(s[2], FALSE) \o <<P("=")>> \o Written(s[3]) \o Semi
    [] s[1] = "declare" -> <<W("bits"), P("("), N("4"), P(")")>> \o Between([i \in DOMAIN s[2] |-> <<W(s[2][i])>>], <<P(",")>>) \o Semi
    [] s[1] = "assert" -> <<W("assert")>> \o Written(s[2]) \o Semi
    [] s[1] = "end" -> <<IF s[2] = "see" THEN [kind |-> "SEE", text |-> "see"] ELSE W(s[2])>> \o Semi
    [] s[1] = "call" -> Show(s, FALSE) \o Semi

Patt(p) ==
  CASE p[1] = "any" -> <<P("-")>>
    [] p[1] = "label" -> <<B(p[2])>>
    [] p[1] = "tuple" -> <<P("(")>> \o Between([i \in DOMAIN p[2] |-> Patt(p[2][i])], <<P(",")>>) \o <<P(")")>>

RECURSIVE Lines(_, _, _)
Headed(head, body, col, inline) ==
  IF body # <<>> /\ inline /\ \A i \in DOMAIN body : Plain(body[i])
  THEN Line(col, head \o FlattenSeq([i \in DOMAIN body |-> Lines(<<body[i]>>, col, inline)[1].words]))
  ELSE Line(col, head) \o Lines(body, col + 4, inline)
Arm(s, i, col, inline) ==
  Headed(<<W(IF i = 1 THEN "if" ELSE "elsif")>> \o Show(s[2][i][1], FALSE) \o <<W("then")>>, s[2][i][2], col, inline)
Alt(a, col, inline) ==
  Headed(IF a[1] = <<<<"otherwise">>>> THEN <<W("otherwise")>>
         ELSE <<W("when")>> \o Between([i \in DOMAIN a[1] |-> Patt(a[1][i])], <<P(",")>>)
              \o (IF a[2] = <<>> THEN <<>> ELSE <<P("&&")>> \o Written(a[2][1])),
         a[3], col, inline)
Lines(stmts, col, inline) ==
  FlattenSeq([i \in DOMAIN stmts |->
    LET s == stmts[i] IN
    IF Plain(s) THEN Line(col, Words(s))
    ELSE IF s[1] = "cond"
    THEN FlattenSeq([k \in DOMAIN s[2] |-> Arm(s, k, col, inline)])
         \o (IF s[3] = <<>> THEN <<>> ELSE Headed(<<W("else")>>, s[3], col, inline))
    ELSE Line(col, <<W("case")>> \o Show(s[2], FALSE) \o <<W("of")>>)
         \o FlattenSeq([k \in DOMAIN s[3] |-> Alt(s[3][k], col + 4, inline)])])

EncodingLines(e, inline) ==
  Line(4, <<W("__encoding")>> \o Dots(e.name)) \o Line(8, <<W("__instruction_set"), W(e.set)>>)
  \o FlattenSeq([i \in DOMAIN e.fields |->
       Line(8, <<W("__field"), W(e.fields[i][1]), N(e.fields[i][2]), P("+:"), N(e.fields[i][3])>>)])
  \o Line(8, <<W("__opcode"), B(e.opcode)>>) \o Line(8, <<W("__guard")>> \o Written(e.guard))
  \o FlattenSeq([i \in DOMAIN e.unless |->
       Line(8, <<W("__unpredictable_unless"), N(e.unless[i][1]), P("=="), B(e.unless[i][2])>>)])
  \o Line(8, <<W("__decode")>>) \o Lines(e.decode, 12, inline)

InstructionLines(i, inline) ==
  Line(0, <<W("__instruction")>> \o Dots(i.name))
  \o FlattenSeq([k \in DOMAIN i.encodings |-> EncodingLines(i.encodings[k], inline)])
  \o Line(4, <<W("__postdecode")>>) \o Line(8, <<P("<")>>)
  \o Line(4, <<W("__execute"), W("__conditional")>>) \o Line(8, <<W("if"), P(">")>>) \o Line(12, <<W("else")>>)

\* Lexemes with their places.  A wrapped text breaks its lines after every
\* "(", and goes on at a column of no block.
Laid(lines, wrapped) ==
  FlattenSeq([i \in DOMAIN lines |->
    LET words == lines[i].words
        broken(k) == IF wrapped THEN Cardinality({j \in 1..(k - 1) : words[j] = P("(")}) ELSE 0
    IN  [k \in DOMAIN words |-> [kind |-> words[k].kind, text |-> words[k].text,
                                 line |-> 10 * i + broken(k),
                                 col |-> IF broken(k) > 0 THEN 2 + k ELSE lines[i].col + k - 1]]])

\* Comments: a nested one over two lines in front of the text, and one behind
\* the first line that hides a comment mark.
Commented(lexemes) ==
  LET mark(kind, line, col) == [kind |-> kind, text |-> "", line |-> line, col |-> col]
      first == SelectSeq(lexemes, LAMBDA x : x.line < 20)
      rest == SelectSeq(lexemes, LAMBDA x : x.line >= 20)
  IN  <<mark("OPEN", 1, 3), mark("OPEN", 1, 6), mark("CLOSE", 2, 0), mark("LINE", 2, 4), mark("CLOSE", 2, 8)>>
      \o first \o <<mark("LINE", 10, 80), mark("OPEN", 10, 83)>> \o rest

----------------------------------------------------------------------------
(* What is written. *)

A == <<"name", <<"a">>>>
Q == <<"name", <<"AArch64", "q">>>>
Three == <<"literal", "NAT", "3">>
Atoms == {A, Three}

\* Expressions whose operands are x and y, the parts of slices z.
Over(X, Y, Z) ==
  {<<"binary", op, x, y>> : op \in {"^", "+", ":", "AND", "<", ">", "&&"}, x \in X, y \in Y}
  \cup {<<"unary", op, x>> : op \in {"-", "NOT"}, x \in X}
  \cup {<<"slice", x, <<<<":", y, z>>>>>> : x \in X, y \in Y, z \in Z}
  \cup {<<"slice", x, <<<<"bit", y>>, <<"+:", z, A>>>>>> : x \in X, y \in Y, z \in Z}
  \cup {<<"index", x, <<<<"bit", y>>>>>> : x \in X, y \in Y}
  \cup {<<"member", x, "m">> : x \in X}
  \cup {<<"inmask", x, "01">> : x \in X}
  \cup {<<"inset", x, <<<<"value", y>>, <<"range", z, A>>>>>> : x \in X, y \in Y, z \in Z}
  \cup {<<"call", <<"f">>, <<x, y>>>> : x \in X, y \in Y}

Small == Atoms \cup {Q, <<"unknown", <<"bits">>>>, <<"call", <<"UInt">>, <<>>>>}
Simple == Over({A}, {Three}, {A})
Deep == Over(Simple, Atoms, {A}) \cup Over({A}, Simple, {A}) \cup Over({A}, {A}, Simple)
Conditionals == {<<"if", <<<<A, Three>>>>, e>> : e \in {A}}
           \cup {<<"if", <<<<A, e>>, <<e, A>>>>, Three>> : e \in Simple}

Set == <<"assign", A, Three>>
Get == <<"assign", <<"tuple", <<A, <<"ignore">>>>>>, <<"call", <<"f">>, <<A, Three>>>>>>
Leave == {<<"end", "UNDEFINED">>, <<"end", "see">>, <<"declare", <<"x", "y">>>>,
          <<"assert", A>>, <<"call", <<"f">>, <<A>>>>, Get}
Bodies == {<<s>> : s \in Leave} \cup {<<Set, Get>>, <<Get, <<"end", "UNDEFINED">>>>}
Conds == {<<"cond", <<<<A, b>>>>, <<>>>> : b \in Bodies}
         \cup {<<"cond", <<<<A, b>>, <<Q, <<Set>>>>>>, c>> : b, c \in Bodies}
Cases == {<<"case", <<"binary", ":", A, Q>>, <<<<<<<<"label", "01">>, <<"any">>>>, <<>>, b>>,
                                             <<<<<<"tuple", <<<<"label", "1">>, <<"any">>>>>>>>, <<A>>, <<Set>>>>,
                                             <<<<<<"otherwise">>>>, <<>>, c>>>>>> : b, c \in Bodies \cup {<<>>}}
Nested == {<<"cond", <<<<A, <<s>>>>>>, <<Set>>>> : s \in Conds} \cup
          {<<"cond", <<<<A, <<s, Set>>>>>>, <<s>>>> : s \in {Get} \cup {CHOOSE c \in Cases : TRUE}}

Enc(guard, decode) ==
  [name |-> <<"LDNT1", "P", "B">>, set |-> "A64", fields |-> <<<<"imm5", "16", "5">>>>, opcode |-> "0x",
   guard |-> guard, unless |-> <<<<"12", "0">>>>, decode |-> decode]
Instr(encodings) == [name |-> <<"LDNT1">>, encodings |-> encodings]

Bare == [Enc(A, <<>>) EXCEPT !.unless = <<>>, !.fields = <<>>]
Meanings ==
  {<<Instr(<<Enc(e, <<<<"assign", A, e>>>>)>>)>> : e \in Small \cup Simple \cup Deep \cup Conditionals}
  \cup {<<Instr(<<Enc(A, <<s, Set>>), Bare>>), Instr(<<Bare>>)>> : s \in Leave \cup Conds \cup Cases \cup Nested}

\* How a text is laid out, and what is then broken: a line out of its column,
\* a block that closes to no column, a comment that does not end, no keyword.
Styles == {[inline |-> FALSE, wrapped |-> TRUE, damage |-> "none"],
           [inline |-> TRUE, wrapped |-> FALSE, damage |-> "none"]}
Damages == [inline : {FALSE}, wrapped : {FALSE}, damage : {"shifted", "dedent", "open", "cut"}]

Damaged(lexemes, damage) ==
  CASE damage = "shifted" -> [i \in DOMAIN lexemes |-> IF lexemes[i].line = 30 THEN [lexemes[i] EXCEPT !.col = @ + 2] ELSE lexemes[i]]
    [] damage = "dedent" -> [i \in DOMAIN lexemes |-> IF lexemes[i].line >= 70 THEN [lexemes[i] EXCEPT !.col = @ + 2] ELSE lexemes[i]]
    [] damage = "open" -> <<[kind |-> "OPEN", text |-> "", line |-> 1, col |-> 0]>> \o lexemes
    [] damage = "cut" -> Tail(lexemes)
    [] OTHER -> lexemes

Finished(lexemes, style) ==
  IF style.inline THEN Commented(lexemes) ELSE Damaged(lexemes, style.damage)

Text(meaning, style) ==
  Finished(Laid(FlattenSeq([i \in DOMAIN meaning |-> InstructionLines(meaning[i], style.inline)]), style.wrapped),
           style)

MCTexts ==
  {[lexemes |-> Text(x[1], x[2]), meaning |-> IF x[2].damage = "none" THEN x[1] ELSE <<>>] :
     x \in (Meanings \X Styles) \cup ({<<Instr(<<Bare>>)>>} \X Damages)}
=============================================================================
