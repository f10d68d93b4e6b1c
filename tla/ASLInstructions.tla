-------------------------- MODULE ASLInstructions --------------------------
(***************************************************************************)
(* Statements, encodings and instructions of pkg/asl/parse.go.             *)
(***************************************************************************)
EXTENDS ASLParser

----------------------------------------------------------------------------
(* Statements. *)

RECURSIVE Block(_, _, _), Inline(_, _, _, _), Body(_, _), Stmt(_, _), CaseAlts(_, _, _),
          Patterns(_, _, _), Pattern(_, _), ElseIfs(_, _, _), Names(_, _, _), TypeEnd(_, _, _)

TypeWords == {"integer", "boolean", "bit", "bits", "real", "string", "array"}

\* A type word, or two identifiers in a row.
IsTypeStart(t, p) ==
  At(t, p, "IDENT") /\ (t[p].text \in TypeWords \/ (p < Len(t) /\ At(t, p + 1, "IDENT")))

\* After the parenthesised parameter of a type.
TypeEnd(t, p, depth) ==
  LET d == depth + (IF Is(t, p, "(") THEN 1 ELSE 0) - (IF Is(t, p, ")") THEN 1 ELSE 0) IN
  IF At(t, p, "EOF") THEN Bad(p)
  ELSE IF d = 0 THEN Done(<<>>, After(t, p))
  ELSE TypeEnd(t, After(t, p), d)

Names(t, p, names) ==
  On(Kind(t, p, {"IDENT"}), LAMBDA n :
     IF Is(t, n.pos, ",") THEN Names(t, After(t, n.pos), Append(names, n.node))
     ELSE Done(Append(names, n.node), n.pos))

Declaration(t, p) ==
  LET q == After(t, p) IN
  On(IF Is(t, q, "(") THEN TypeEnd(t, q, 0) ELSE Done(<<>>, q), LAMBDA type :
  On(Names(t, type.pos, <<>>), LAMBDA names :
     IF Accepts(t, names.pos, "=")
     THEN On(Expr(t, After(t, names.pos)), LAMBDA value :
             Done(<<"assign", <<"name", <<names.node[1]>>>>, value.node>>, value.pos))
     ELSE Done(<<"declare", names.node>>, names.pos)))

SimpleStmt(t, p) ==
  CASE Word(t, p, "UNDEFINED") \/ Word(t, p, "UNPREDICTABLE") -> Done(<<"end", t[p].text>>, After(t, p))
    [] At(t, p, "SEE") -> Done(<<"end", t[p].text>>, After(t, p))
    [] Word(t, p, "assert") ->
         On(Expr(t, After(t, p)), LAMBDA e : Done(<<"assert", e.node>>, e.pos))
    [] Word(t, p, "constant") -> Declaration(t, After(t, p))
    [] IsTypeStart(t, p) -> Declaration(t, p)
    [] OTHER ->
         On(Expr(t, p), LAMBDA target :
            IF Accepts(t, target.pos, "=")
            THEN On(Expr(t, After(t, target.pos)), LAMBDA value :
                    Done(<<"assign", target.node, value.node>>, value.pos))
            ELSE IF target.node[1] = "call" THEN target ELSE Bad(p))

\* A block's statements up to its DEDENT.
Block(t, p, stmts) ==
  IF At(t, p, "EOF") THEN Bad(p)
  ELSE IF At(t, p, "DEDENT") THEN Done(stmts, After(t, p))
  ELSE On(Stmt(t, p), LAMBDA s : Block(t, s.pos, Append(stmts, s.node)))

\* Statements written behind a "when" or "then": to the end of that line.
EndsInline == {"when", "otherwise", "elsif", "else"}
Inline(t, p, line, stmts) ==
  IF \/ t[p].line # line \/ t[p].kind \in {"DEDENT", "EOF", "INDENT"}
     \/ At(t, p, "IDENT") /\ t[p].text \in EndsInline
  THEN Done(stmts, p)
  ELSE On(Stmt(t, p), LAMBDA s : Inline(t, s.pos, line, Append(stmts, s.node)))

Body(t, p) ==
  IF At(t, p, "INDENT") THEN Block(t, After(t, p), <<>>) ELSE Inline(t, p, t[p].line, <<>>)

Pattern(t, p) ==
  CASE Is(t, p, "-") -> Done(<<"any">>, After(t, p))
    [] Is(t, p, "(") ->
         On(Expect(t, Patterns(t, After(t, p), <<>>), ")"), LAMBDA r :
            Done(<<"tuple", r.node>>, r.pos))
    [] t[p].kind \in {"NAT", "HEX", "BIN", "MASK", "IDENT"} ->
         Done(<<"label", t[p].text>>, After(t, p))
    [] OTHER -> Bad(p)

Patterns(t, p, found) ==
  IF Is(t, p, ")") \/ At(t, p, "EOF") THEN Done(found, p)
  ELSE On(Pattern(t, p), LAMBDA r :
          IF Accepts(t, r.pos, ",") THEN Patterns(t, After(t, r.pos), Append(found, r.node))
          ELSE Done(Append(found, r.node), r.pos))

\* The labels of a "when": at least one.
Labels(t, p) == IF Is(t, p, ")") THEN Bad(p) ELSE Patterns(t, p, <<>>)

CaseAlts(t, p, alts) ==
  LET guarded(labels) ==
        IF Accepts(t, labels.pos, "&&")
        THEN On(Expr(t, After(t, labels.pos)), LAMBDA g : Done(<<labels.node, <<g.node>>>>, g.pos))
        ELSE Done(<<labels.node, <<>>>>, labels.pos)
      head == CASE Word(t, p, "when") -> On(Labels(t, After(t, p)), guarded)
                [] Word(t, p, "otherwise") -> Done(<<<<<<"otherwise">>>>, <<>>>>, After(t, p))
                [] OTHER -> Bad(p)
  IN  IF At(t, p, "EOF") THEN Bad(p)
      ELSE IF At(t, p, "DEDENT") THEN Done(alts, After(t, p))
      ELSE On(head, LAMBDA h :
           On(Body(t, h.pos), LAMBDA b : CaseAlts(t, b.pos, Append(alts, h.node \o <<b.node>>))))

CaseStmt(t, p) ==
  On(Expect(t, Expr(t, After(t, p)), "of"), LAMBDA subject :
  On(Kind(t, subject.pos, {"INDENT"}), LAMBDA open :
  On(CaseAlts(t, open.pos, <<>>), LAMBDA alts :
     Done(<<"case", subject.node, alts.node>>, alts.pos))))

ElseIfs(t, p, arms) ==
  IF ~Word(t, p, "elsif") THEN Done(arms, p)
  ELSE On(Expect(t, Expr(t, After(t, p)), "then"), LAMBDA cond :
       On(Body(t, cond.pos), LAMBDA then :
          ElseIfs(t, then.pos, Append(arms, <<cond.node, then.node>>))))

\* An if and its elsif arms alike, then the else.
IfStmt(t, p) ==
  On(Expect(t, Expr(t, After(t, p)), "then"), LAMBDA cond :
  On(Body(t, cond.pos), LAMBDA then :
  On(ElseIfs(t, then.pos, <<<<cond.node, then.node>>>>), LAMBDA arms :
     IF Word(t, arms.pos, "else")
     THEN On(Body(t, After(t, arms.pos)), LAMBDA else :
             Done(<<"cond", arms.node, else.node>>, else.pos))
     ELSE Done(<<"cond", arms.node, <<>>>>, arms.pos))))

Stmt(t, p) ==
  CASE Word(t, p, "case") -> CaseStmt(t, p)
    [] Word(t, p, "if") -> IfStmt(t, p)
    [] OTHER -> On(SimpleStmt(t, p), LAMBDA s :
                   Done(s.node, IF Accepts(t, s.pos, ";") THEN After(t, s.pos) ELSE s.pos))

----------------------------------------------------------------------------
(* Instructions. *)

RECURSIVE SkipBlock(_, _, _), FieldsOf(_, _, _), Unless(_, _, _), Encodings(_, _, _),
          Dotted(_, _, _)

\* Over a balanced INDENT..DEDENT region, uninterpreted.
SkipBlock(t, p, depth) ==
  LET d == depth + (IF At(t, p, "INDENT") THEN 1 ELSE 0) - (IF At(t, p, "DEDENT") THEN 1 ELSE 0) IN
  IF At(t, p, "EOF") \/ (depth = 0 /\ ~At(t, p, "INDENT")) THEN p
  ELSE IF d = 0 THEN After(t, p)
  ELSE SkipBlock(t, After(t, p), d)

Dotted(t, p, name) ==
  IF ~Is(t, p, ".") THEN Done(name, p)
  ELSE LET q == After(t, p) IN
       IF t[q].kind \in {"IDENT", "NAT"} THEN Dotted(t, After(t, q), Append(name, t[q].text))
       ELSE Dotted(t, q, name)
DottedName(t, p) == On(Kind(t, p, {"IDENT"}), LAMBDA n : Dotted(t, n.pos, <<n.node>>))

FieldsOf(t, p, fields) ==
  IF ~Word(t, p, "__field") THEN Done(fields, p)
  ELSE On(Kind(t, After(t, p), {"IDENT"}), LAMBDA name :
       On(Expect(t, Kind(t, name.pos, {"NAT"}), "+:"), LAMBDA lo :
       On(Kind(t, lo.pos, {"NAT"}), LAMBDA width :
          FieldsOf(t, width.pos, Append(fields, <<name.node, lo.node, width.node>>)))))

Unless(t, p, bits) ==
  IF ~Word(t, p, "__unpredictable_unless") THEN Done(bits, p)
  ELSE On(Expect(t, Kind(t, After(t, p), {"NAT"}), "=="), LAMBDA bit :
       On(Kind(t, bit.pos, {"BIN"}), LAMBDA value :
          Unless(t, value.pos, Append(bits, <<bit.node, value.node>>))))

Encoding(t, p) ==
  On(DottedName(t, After(t, p)), LAMBDA name :
  On(Expect(t, Kind(t, name.pos, {"INDENT"}), "__instruction_set"), LAMBDA open :
  On(Kind(t, open.pos, {"IDENT"}), LAMBDA set :
  On(Expect(t, FieldsOf(t, set.pos, <<>>), "__opcode"), LAMBDA fields :
  On(Expect(t, Kind(t, fields.pos, {"BIN", "MASK"}), "__guard"), LAMBDA opcode :
  On(Expr(t, opcode.pos), LAMBDA guard :
  On(Expect(t, Unless(t, guard.pos, <<>>), "__decode"), LAMBDA unless :
  On(IF At(t, unless.pos, "INDENT") THEN Block(t, After(t, unless.pos), <<>>)
     ELSE Done(<<>>, unless.pos), LAMBDA decode :
  On(Kind(t, decode.pos, {"DEDENT"}), LAMBDA close :
     Done([name |-> name.node, set |-> set.node, fields |-> fields.node, opcode |-> opcode.node,
           guard |-> guard.node, unless |-> unless.node, decode |-> decode.node],
          close.pos))))))))))

Encodings(t, p, found) ==
  IF ~Word(t, p, "__encoding") THEN Done(found, p)
  ELSE On(Encoding(t, p), LAMBDA e : Encodings(t, e.pos, Append(found, e.node)))

\* The execute and postdecode bodies say what runs; an encoder needs neither.
Instruction(t, p) ==
  LET skipped(q, word) == IF Word(t, q, word) THEN SkipBlock(t, After(t, q), 0) ELSE q
      executed(q) == IF Word(t, q, "__execute") /\ Word(t, After(t, q), "__conditional")
                     THEN SkipBlock(t, q + 2, 0) ELSE skipped(q, "__execute")
  IN  On(DottedName(t, After(t, p)), LAMBDA name :
      On(Kind(t, name.pos, {"INDENT"}), LAMBDA open :
      On(Encodings(t, open.pos, <<>>), LAMBDA found :
      On(Kind(t, executed(skipped(found.pos, "__postdecode")), {"DEDENT"}), LAMBDA close :
         Done([name |-> name.node, encodings |-> found.node], close.pos)))))
=============================================================================
