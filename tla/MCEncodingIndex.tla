--------------------------- MODULE MCEncodingIndex ---------------------------
(* Instances of EncodingIndex: files put together from elements. *)
EXTENDS EncodingIndex

MCUpperCase == "add" :> "ADD" @@ "sub" :> "SUB" @@ "subs" :> "SUBS"

----------------------------------------------------------------------------
\* Index files.

El(tag, attr, content) ==
  <<[kind |-> "start", tag |-> tag, attr |-> attr]>> \o content \o <<[kind |-> "end"]>>
Words(words) == <<[kind |-> "text", words |-> words]>>
NoAttr == [x \in {} |-> << >>]
Class(c) == "class" :> <<c>>

NameCell(id, words) ==
  El("td", Class("iformname") @@ "iformid" :> id, El("a", NoAttr, Words(words)))
FieldCell(name, width, words) ==
  El("td", Class("bitfield") @@ "name" :> name @@ "bitwidth" :> <<width>>, Words(words))
Feat(words) == El("feat", NoAttr, Words(words))

RowAttr(id, file) ==
  Class("instructiontable") @@ "encname" :> id @@ "iformfile" :> file

Add32 == <<"ADD", "32", "addsub">>
Sub32 == <<"SUB", "32", "dp", "2src">>

\* A plain row, one whose name is a list and which needs a feature, one without
\* a name, one repeating an encoding, and rows that are none.
Rows == <<
  El("tr", RowAttr(Add32, <<1>>) @@ "arch_version" :> <<"FEAT_A">>,
     FieldCell(<<"Rm">>, 5, << >>) \o NameCell(<<"ADD">>, <<"ADD", "(imm)">>)),
  El("tr", RowAttr(Sub32, <<2>>),
     NameCell(<< >>, <<"sub", ",", "subs">>) \o FieldCell(<< >>, 2, <<"0", "1">>)
       \o Feat(<<"FEAT_B">>)),
  El("tr", RowAttr(<<"NOP">>, <<3>>), FieldCell(<<"op">>, 1, <<"1">>)),
  El("tr", RowAttr(Add32, <<3>>), NameCell(<< >>, <<"ADDG">>)),
  El("tr", RowAttr(Sub32, <<2>>) @@ "undef" :> <<"1">>,
     FieldCell(<<"x">>, 3, << >>) \o NameCell(<<"UNDEF">>, << >>)),
  El("tr", Class("instructiontable") @@ "encname" :> << >>, Feat(<<"FEAT_C">>)) >>

Table(class, rows) == El("instructiontable", "iclass" :> class, rows)
Section(rows) == El("section", NoAttr, rows)
File(content) == El("encodingindex", NoAttr, Words(<< >>) \o content)

Listed == {<< >>} \cup {<<r>> : r \in ToSet(Rows)} \cup
          {<<r, q>> : r \in ToSet(Rows), q \in ToSet(Rows)}
Parts(few) ==
  {Table(c, FlattenSeq(rows)) : c \in {<<"addsub">>, <<"dp", "2src">>}, rows \in few}
    \cup {Section(FlattenSeq(rows)) : rows \in few}
OneRow == {<<Rows[k]>> : k \in 1..5}

Files == {File(p) : p \in Parts(Listed)} \cup {File(p \o q) : p \in Parts(OneRow), q \in Parts(OneRow)}

A32 == File(Table(<<"addsub">>, Rows[1] \o Rows[3] \o Rows[5]))
T32 == File(Table(<<"t32">>, Rows[4] \o Rows[2]))
CutOff == SubSeq(A32, 1, 8)
Broken == CutOff \o <<[kind |-> "broken"]>>
Overlong == A32 \o <<[kind |-> "end"]>> \o T32

----------------------------------------------------------------------------
\* Instruction pages.

Open(name, attr, content) ==
  <<[kind |-> "open", name |-> name, attr |-> attr, selfClosing |-> FALSE]>> \o content
    \o <<[kind |-> "close", name |-> name]>>
Single(name, attr) == <<[kind |-> "open", name |-> name, attr |-> attr, selfClosing |-> TRUE]>>
Skip == <<[kind |-> "skip"]>>

Var(key, value) == Single("docvar", "key" :> <<key>> @@ "value" :> value)
Enc(id, content) == Open("encoding", "name" :> id, content)
Page(type, content) == Skip \o Open("instructionsection", "type" :> <<type>>, content)
AliasTo(file) == Single("aliasto", "refiform" :> file)

Lsl == <<"LSL", "UBFM", "bitfield">>
Asr == <<"ASR", "ASRV", "dp", "2src">>

Canonical == Page("instruction", Enc(Add32, Var("mnemonic", <<"ADD">>)))
Vars == {<< >>, Var("alias_mnemonic", <<"PAGE">>), Var("mnemonic", <<"BASE">>)}
OwnVars == {<< >>, Open("docvars", NoAttr, Var("alias_mnemonic", <<"ONE">>)),
            Var("mnemonic", <<"OWN">>)}

AliasPage(page, own, own2, file, late) ==
  Page("alias",
    page \o (IF late THEN << >> ELSE AliasTo(file)) \o Enc(Lsl, own)
      \o Single("encoding", "name" :> << >>) \o Enc(Asr, own2) \o (IF late THEN AliasTo(file) ELSE << >>))

AliasPagesTried ==
  {AliasPage(p, o, o2, f, late) :
     p \in Vars, o \in OwnVars, o2 \in OwnVars, f \in {<<1>>, <<9>>}, late \in BOOLEAN}

BadPages ==
  {Page("alias", Enc(Lsl, << >>) \o <<[kind |-> "close", name |-> "x"]>>),
   Page("alias", Enc(Lsl, << >>) \o <<[kind |-> "broken"]>>),
   SubSeq(Canonical, 1, 3), Open("html", NoAttr, Enc(Lsl, Var("mnemonic", <<"NO">>)))}

----------------------------------------------------------------------------

Form(alias, mnemonic, features) ==
  [alias |-> alias, mnemonic |-> mnemonic, features |-> features]

Case(indexes, pages, prepared) ==
  [indexes |-> indexes, pages |-> pages, prepared |-> prepared,
   forms |-> Sub32 :> Form(<< >>, <<"SUB">>, <<<<"FEAT_B">>>>)
               @@ Lsl :> Form(<<"LSL">>, <<"UBFM">>, << >>)]

MCInputs ==
  {Case(<<f>>, <<Canonical>>, TRUE) : f \in Files}
    \cup {Case(<<A32, t>>, <<Canonical>>, FALSE) : t \in {A32, T32, Broken, CutOff, Overlong}}
    \cup {Case(<<A32>>, <<Canonical, p>>, prepared) : p \in AliasPagesTried, prepared \in BOOLEAN}
    \cup {Case(<<A32>>, <<Canonical, Canonical, p>>, FALSE) : p \in BadPages}
    \cup {Case(<<A32>>, <<p, Canonical>>, FALSE) : p \in BadPages}
=============================================================================
