--------------------------- MODULE MCCorpusLoader ---------------------------
(***************************************************************************)
(* Instances of CorpusLoader.  Sizes are in units of 2 KiB: the smallest   *)
(* buffer class is 2, then 4, then 8 (the largest member).  ISA-06 and     *)
(* ISA-03 are two dated releases of one series, T32-06 is another series,  *)
(* raw an undated directory.                                               *)
(***************************************************************************)
EXTENDS CorpusLoader

MCComponent == {"ISA-06", "ISA-03", "T32-06", "raw", "idx", "p", "q", "r", "s"}
MCIndexBase == {"idx"}
MCSeries == [c \in MCComponent |-> IF c = "T32-06" THEN "T32" ELSE "ISA"]
MCRelease == [c \in MCComponent |-> CASE c \in {"ISA-06", "T32-06"} -> 6
                                      [] c = "ISA-03" -> 3 [] OTHER -> 0]
MCBufferClass == {2, 4, 8}

XML(dir, base, size, page) ==
  [kind |-> "xml", name |-> Append(dir, base), size |-> size, short |-> FALSE,
   page |-> page]
Index(dir) == XML(dir, "idx", 1, "plain")
Other(kind) == [kind |-> kind, name |-> <<"s">>, size |-> 0, short |-> FALSE,
                page |-> "plain"]
Short(h) == [h EXCEPT !.short = TRUE]

June == <<"ISA-06">>
March == <<"ISA-03">>
Thumb == <<"T32-06">>
Top == << >>

\* Pages of both classes, with more of them than the channel, the workers
\* and the budget hold at once, and a malformed page first, in the middle or
\* last; a member larger than the budget.
BusyHeaders ==
  { <<Index(June), XML(June, "p", 2, x), XML(June, "q", 1, "alias"),
      XML(June, "r", 2, y), XML(June, "s", 2, "iform")>> : x, y \in {"iform", "malformed"} }
  \cup
  { <<XML(Top, "p", 1, "alias"), XML(Top, "q", 5, x), XML(Top, "r", 2, "iform"),
      Index(Top), y>> : x \in {"plain", "malformed"},
                        y \in {XML(Top, "s", 2, "alias"), Short(XML(Top, "s", 2, "iform"))} }
TooMuch == <<XML(Top, "p", 5, "alias"), XML(Top, "q", 5, "iform"), XML(Top, "r", 2, "plain")>>
BusyArchives == {[hint |-> NoHint, headers |-> h] : h \in BusyHeaders \cup {TooMuch}}

\* Every archive of at most two of these headers, and of three that end with
\* the June index, named after the June release or not at all: bad members,
\* two releases, two series.
Parts == {Index(June), Index(March), Index(Thumb), XML(June, "p", 2, "iform"),
          XML(Top, "p", 5, "alias"), XML(March, "q", 1, "malformed"),
          Short(XML(June, "q", 1, "alias")), XML(June, "q", 9, "iform"),
          Other("corrupt"), Other("badname"), Other("features"),
          Other("instructions"), Other("other")}
ScanArchives ==
  {[hint |-> g, headers |-> h] :
     g \in {NoHint, "ISA-06"}, h \in UNION {[1..n -> Parts] : n \in 0..2}
                          \cup {Append(s, Index(June)) : s \in [1..2 -> Parts]}}

MCArchives == BusyArchives \cup ScanArchives
=============================================================================
