----------------------------- MODULE ASLParser -----------------------------
(***************************************************************************)
(* The expressions of ARM's specification language (pkg/asl/expr.go), read *)
(* by precedence climbing.                                                 *)
(***************************************************************************)
EXTENDS ASLLayout

----------------------------------------------------------------------------
(* Expressions. *)

Precedence ==
  [op \in {"^", "*", "/", "+", "-", ">>", "<<", "QUOT", "REM", "DIV", "MOD", "OR", "EOR",
           "AND", "++", ":", "==", "!=", ">", ">=", "<", "<=", "&&", "||"} |->
     CASE op = "^" -> 6
       [] op \in {"*", "/"} -> 5
       [] op \in {"+", "-"} -> 4
       [] op \in {"==", "!=", ">", ">=", "<", "<="} -> 2
       [] op \in {"&&", "||"} -> 1
       [] OTHER -> 3]
WordOperators == {"QUOT", "REM", "DIV", "MOD", "OR", "EOR", "AND"}

\* ":" and ">" end the parts of a slice, so they are no operators inside one.
SliceOps == {op \in DOMAIN Precedence : Precedence[op] >= 3} \ {":"}

\* The operator at p, or "" where there is none.
OperatorAt(t, p, full) ==
  LET op == t[p].text IN
  IF /\ At(t, p, "PUNCT") \/ (At(t, p, "IDENT") /\ op \in WordOperators)
     /\ op \in (IF full THEN DOMAIN Precedence ELSE SliceOps)
  THEN op ELSE ""

Literals == {"NAT", "HEX", "REAL", "BIN", "MASK", "STRING"}

RECURSIVE Binary(_, _, _, _), Climb(_, _, _, _), Climb_RightAssociative(_, _, _, _),
          Unary(_, _, _), Postfix(_, _), Listed(_, _, _, _), Elements(_, _), Elsifs(_, _, _)

Expr(t, p) == Binary(t, p, 0, TRUE)
SliceExpr(t, p) == Binary(t, p, 0, FALSE)

Binary(t, p, min, full) ==
  On(Unary(t, p, full), LAMBDA left : Climb(t, left, min, full))

\* The loop of binary: `left' is the operand read so far.
Climb_RightAssociative(t, left, min, full) ==
  LET op == OperatorAt(t, left.pos, full) IN
  IF op = "" THEN left
  ELSE IF Precedence[op] < min THEN left
  ELSE On(Binary(t, After(t, left.pos), Precedence[op], full), LAMBDA right :
          Climb(t, Done(<<"binary", op, left.node, right.node>>, right.pos), min, full))
Climb(t, left, min, full) ==
  LET op == OperatorAt(t, left.pos, full) IN
  IF op = "" THEN left
  ELSE IF Precedence[op] < min THEN left
  ELSE On(Binary(t, After(t, left.pos), Precedence[op] + 1, full), LAMBDA right :
          Climb(t, Done(<<"binary", op, left.node, right.node>>, right.pos), min, full))

\* Comma separated items up to, but not including, the closer.
Slice(t, p) ==
  On(SliceExpr(t, p), LAMBDA first :
     IF Accepts(t, first.pos, ":") \/ Accepts(t, first.pos, "+:")
     THEN On(SliceExpr(t, After(t, first.pos)), LAMBDA second :
             Done(<<t[first.pos].text, first.node, second.node>>, second.pos))
     ELSE Done(<<"bit", first.node>>, first.pos))

SetElement(t, p) ==
  On(Expr(t, p), LAMBDA low :
     IF Accepts(t, low.pos, "..")
     THEN On(Expr(t, After(t, low.pos)), LAMBDA high : Done(<<"range", low.node, high.node>>, high.pos))
     ELSE Done(<<"value", low.node>>, low.pos))

Item(t, p, what) ==
  CASE what = "slice" -> Slice(t, p) [] what = "element" -> SetElement(t, p) [] OTHER -> Expr(t, p)

Listed(t, p, what, closer) ==
  IF Is(t, p, closer) \/ At(t, p, "EOF") THEN Done(<<>>, p)
  ELSE On(Item(t, p, what), LAMBDA r :
          IF Accepts(t, r.pos, ",")
          THEN On(Listed(t, After(t, r.pos), what, closer), LAMBDA rest :
                  Done(<<r.node>> \o rest.node, rest.pos))
          ELSE Done(<<r.node>>, r.pos))

\* A parenthesised list; a lone "-" stands for a discarded result.
Elements(t, p) ==
  LET ignored == Is(t, p, "-") /\ (Is(t, After(t, p), ",") \/ Is(t, After(t, p), ")"))
  IN  On(IF ignored THEN Done(<<"ignore">>, After(t, p)) ELSE Expr(t, p), LAMBDA r :
         IF Accepts(t, r.pos, ",")
         THEN On(Elements(t, After(t, r.pos)), LAMBDA rest :
                 Done(<<r.node>> \o rest.node, rest.pos))
         ELSE Done(<<r.node>>, r.pos))

\* The elsif arms of a conditional expression: pairs of condition and value.
Elsifs(t, p, arms) ==
  IF ~Word(t, p, "elsif") THEN Done(arms, p)
  ELSE On(Expect(t, Expr(t, After(t, p)), "then"), LAMBDA cond :
       On(Expr(t, cond.pos), LAMBDA value :
          Elsifs(t, value.pos, Append(arms, <<cond.node, value.node>>))))

IfExpr(t, p) ==
  On(Expect(t, Expr(t, After(t, p)), "then"), LAMBDA cond :
  On(Expr(t, cond.pos), LAMBDA then :
  On(Expect(t, Elsifs(t, then.pos, <<>>), "else"), LAMBDA arms :
  On(Expr(t, arms.pos), LAMBDA else :
     Done(<<"if", <<<<cond.node, then.node>>>> \o arms.node, else.node>>, else.pos)))))

Name(t, p) ==
  IF t[p].text \in {"AArch64", "AArch32"} /\ Is(t, After(t, p), ".")
  THEN On(Kind(t, p + 2, {"IDENT"}), LAMBDA r : Done(<<t[p].text, r.node>>, r.pos))
  ELSE Done(<<t[p].text>>, After(t, p))

\* r, unless UNKNOWN follows it: then an unknown of the type that was named.
OrUnknown(t, name, r) ==
  IF Word(t, r.pos, "UNKNOWN") THEN Done(<<"unknown", name>>, After(t, r.pos)) ELSE r

\* A name, what it is called with, or an UNKNOWN of that type.
NameOrCall(t, p) ==
  On(Name(t, p), LAMBDA n :
     IF Word(t, n.pos, "UNKNOWN") \/ ~Is(t, n.pos, "(")
     THEN OrUnknown(t, n.node, Done(<<"name", n.node>>, n.pos))
     ELSE On(Expect(t, Listed(t, After(t, n.pos), "expr", ")"), ")"), LAMBDA args :
             OrUnknown(t, n.node, Done(<<"call", n.node, args.node>>, args.pos))))

Primary(t, p) ==
  CASE t[p].kind \in Literals -> Done(<<"literal", t[p].kind, t[p].text>>, After(t, p))
    [] Is(t, p, "(") ->
         On(Expect(t, Elements(t, After(t, p)), ")"), LAMBDA r :
            Done(IF Len(r.node) = 1 THEN r.node[1] ELSE <<"tuple", r.node>>, r.pos))
    [] Word(t, p, "if") -> IfExpr(t, p)
    [] At(t, p, "IDENT") -> NameOrCall(t, p)
    [] OTHER -> Bad(p)

\* ".[a, b]" and ".<a, b>" stand for their first member.
Selected(t, p, closer) ==
  LET end == {q \in p..Len(t) : Is(t, q, closer)}
      stop == CHOOSE q \in end : \A k \in end : q <= k
      names == SelectSeq(SubSeq(t, p, stop - 1), LAMBDA x : x.kind = "IDENT")
  IN  IF end = {} THEN Bad(Len(t))
      ELSE Done(IF names = <<>> THEN "" ELSE names[1].text, After(t, stop))

\* "<" opens a slice if one closes, and is less-than otherwise.
Sliced(t, e, slices) ==
  IF slices.ok /\ Is(t, slices.pos, ">")
  THEN Postfix(t, Done(<<"slice", e.node, slices.node>>, After(t, slices.pos)))
  ELSE e

\* What may follow an operand e.
Postfix(t, e) ==
  LET p == e.pos
      q == After(t, p)
      member == IF Is(t, q, "[") \/ Is(t, q, "<")
                THEN Selected(t, After(t, q), IF Is(t, q, "<") THEN ">" ELSE "]")
                ELSE Kind(t, q, {"IDENT"})
  IN CASE Is(t, p, ".") ->
            On(member, LAMBDA m : Postfix(t, Done(<<"member", e.node, m.node>>, m.pos)))
       [] Is(t, p, "[") ->
            On(Expect(t, Listed(t, q, "slice", "]"), "]"), LAMBDA s :
               Postfix(t, Done(<<"index", e.node, s.node>>, s.pos)))
       [] Is(t, p, "<") -> Sliced(t, e, Listed(t, q, "slice", ">"))
       [] Word(t, p, "IN") ->
            IF At(t, q, "MASK") \/ At(t, q, "BIN")
            THEN Postfix(t, Done(<<"inmask", e.node, t[q].text>>, After(t, q)))
            ELSE On(Expect(t, Done(<<>>, q), "{"), LAMBDA o :
                 On(Expect(t, Listed(t, o.pos, "element", "}"), "}"), LAMBDA s :
                    Postfix(t, Done(<<"inset", e.node, s.node>>, s.pos))))
       [] OTHER -> e

Unary(t, p, full) ==
  IF Is(t, p, "-") \/ Is(t, p, "!") \/ Word(t, p, "NOT")
  THEN On(Unary(t, After(t, p), full), LAMBDA r : Done(<<"unary", t[p].text, r.node>>, r.pos))
  ELSE On(Primary(t, p), LAMBDA e : Postfix(t, e))
=============================================================================
