--------------------------- MODULE CorpusOutcomes ---------------------------
(***************************************************************************)
(* What an archive alone determines about its load: the defects of its     *)
(* headers, the members read before the first of them, and the corpus or   *)
(* the errors a load may return.                                           *)
(***************************************************************************)
EXTENDS CorpusArchive

XMLBefore(a, p) == {q \in DOMAIN a.headers : q < p /\ a.headers[q].kind = "xml"}

\* The bytes of those members, counted one by one.
BytesRead(a, p) ==
  Cardinality(ByteTokens(XMLBefore(a, p), [q \in DOMAIN a.headers |-> a.headers[q].size]))

\* The member at p makes the reader give up, and why.
HeaderDefects(a, p) ==
  LET h == a.headers[p] IN
  {k \in {"corrupt", "badname"} : h.kind = k}
  \cup (IF h.kind # "xml" THEN {} ELSE
       {k \in {"size", "total", "duplicate", "short"} :
         \/ k = "size" /\ h.size > MaxMember
         \/ k = "total" /\ h.size <= MaxMember
            /\ BytesRead(a, p) + h.size > MaxTotal
         \/ k = "duplicate" /\ \E q \in XMLBefore(a, p) : a.headers[q].name = h.name
         \/ k = "short" /\ h.short /\ Hinted(a.hint, h.name)})

Defective(a) == {p \in DOMAIN a.headers : HeaderDefects(a, p) # {}}

\* Members read before the reader's first defect, or all of them.
Scanned(a) == LET bad == Defective(a) IN {p \in DOMAIN a.headers : \A q \in bad : p < q}

Prepared(a) == {p \in Scanned(a) : a.headers[p].kind = "xml"
                                   /\ Hinted(a.hint, a.headers[p].name)}
IsIndex(a, p) == IsEncodingIndex(a.headers[p].name)

ReadErrors(a) ==
  LET bad == Defective(a)
      first == {p \in bad : \A q \in bad : p <= q}
      broken == {p \in Prepared(a) : ~IsIndex(a, p) /\ a.headers[p].page = "malformed"}
  IN  (UNION {{Failure(k, p) : k \in HeaderDefects(a, p)} : p \in first})
      \cup {Failure("malformed", p) : p \in broken}

Roots(a) == {Front(a.headers[p].name) :
               p \in {q \in Scanned(a) : a.headers[q].kind = "xml" /\ IsIndex(a, q)}}

Entries(a, S) == {[name |-> a.headers[p].name, data |-> p] : p \in S}

CorpusOf(a, root) ==
  LET below == {p \in Prepared(a) : Under(a.headers[p].name, root)}
      forms == {p \in below : ~IsIndex(a, p) /\ a.headers[p].page \in {"iform", "alias"}}
      aliases == {p \in forms : a.headers[p].page = "alias"}
  IN  Corpus(root,
             Relative(Entries(a, {p \in below : IsIndex(a, p)}), root),
             Relative(Entries(a, forms), root),
             Relative(Entries(a, aliases), root),
             Cardinality({p \in Scanned(a) : a.headers[p].kind = "xml"}),
             Cardinality(forms), Cardinality(aliases))

JSONKinds(a) == {a.headers[p].kind : p \in Scanned(a)} \cap {"features", "instructions"}

\* Without an index the message names the JSON distribution it looks like.
NoIndex(json) == IF "instructions" \in json THEN "instructionsJSON"
                 ELSE IF "features" \in json THEN "featuresJSON" ELSE "noIndex"

Outcomes(a) ==
  LET errors == ReadErrors(a)
      selected == SelectCorpusRoot(Roots(a), a.hint)
  IN  IF errors # {} THEN errors
      ELSE IF Roots(a) = {} THEN {Failure(NoIndex(JSONKinds(a)), 0)}
      ELSE IF selected = {} THEN {Failure("roots", 0)}
      ELSE {CorpusOf(a, r) : r \in selected}
=============================================================================
