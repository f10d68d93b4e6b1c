--------------------------- MODULE MCARMPipeline ---------------------------
(***************************************************************************)
(* Instances of ARMPipeline: three encodings, of which a and b share a     *)
(* page, listed in the index with a duplicate and a malformed row, or      *)
(* found by the alias scan.                                                *)
(***************************************************************************)
EXTENDS ARMPipeline, TLC

CONSTANTS a, b, c

MCInstr == {a, b, c}
MCIFormFile == (a :> "ab") @@ (b :> "ab") @@ (c :> "c")

Good(i) == [id |-> i, ok |-> TRUE]
Malformed(i) == [id |-> i, ok |-> FALSE]
Pages(x, y, z) == (a :> x) @@ (b :> y) @@ (c :> z)

Base ==
  [rows |-> <<Good(a), Malformed(c), Good(b), Good(a)>>, aliases |-> <<Good(c), Good(b)>>,
   page |-> Pages("encoded", "encoded", "encoded"), invalid |-> {}, archive |-> FALSE,
   cancellable |-> FALSE, skipCodegen |-> FALSE, maxIForms |-> 0, cacheSize |-> 0,
   arm32 |-> FALSE, languages |-> <<"rust">>]

\* What cmd/mkasm runs: one language or the JSON export, no limits.
CLIInputs ==
  { [Base EXCEPT !.page = p, !.invalid = v, !.archive = r, !.skipCodegen = s,
                 !.arm32 = t] :
      p \in { Pages("encoded", "encoded", x) : x \in Page } \cup
            { Pages("error", "empty", "nofile") },
      v \in {{}, {b}}, r \in BOOLEAN, s \in BOOLEAN, t \in BOOLEAN }

\* What a caller of the library may ask for besides: limits, two languages,
\* a bounded cache, a context it cancels.
LibraryInputs ==
  { [Base EXCEPT !.page = p, !.cancellable = TRUE, !.maxIForms = m, !.cacheSize = z,
                 !.languages = l, !.skipCodegen = s] :
      p \in { Pages("encoded", "encoded", x) : x \in {"encoded", "error"} },
      m \in {0, 2}, z \in {0, 1},
      l \in { << >>, <<"rust", "go">>, <<"go", "unsupported">> }, s \in {FALSE} }
  \cup
  { [Base EXCEPT !.arm32 = TRUE, !.cacheSize = 2, !.languages = l] :
      l \in { <<"rust">>, <<"go">> } }

MCInputs == CLIInputs \cup LibraryInputs
LimitInputs == { [Base EXCEPT !.maxIForms = 2, !.cancellable = TRUE] }
=============================================================================
