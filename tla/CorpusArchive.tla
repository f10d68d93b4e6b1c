--------------------------- MODULE CorpusArchive ---------------------------
(***************************************************************************)
(* The archives the corpus loader reads, and the pure helpers it applies   *)
(* to them: name tests, the size class of a member's buffer, the choice of *)
(* the corpus root and the re-keying of prepared members below that root.  *)
(*                                                                         *)
(* An archive is the dated root its file name announces (hint) and the     *)
(* sequence of its tar headers.  A path is the sequence of its components. *)
(* The bytes of a member are abstracted to its position in the archive,    *)
(* which tells any two members apart.                                      *)
(***************************************************************************)
EXTENDS Integers, Sequences, FiniteSets, SequencesExt

CONSTANTS
  Component,    \* path components
  IndexBase,    \* the base names isEncodingIndex accepts
  Series,       \* Series[c]: c without its trailing -YYYY-MM
  Release,      \* Release[c]: the month number c is dated with, 0 if undated
  NoHint,       \* the archive's file name announces no dated root
  BufferClass,  \* the capacities memberBufferClass rounds a size up to
  MaxMember,    \* maxTarXMLFileSize
  MaxTotal,     \* maxTarXMLTotal
  Archives      \* the archives considered

Kind == {"corrupt", "badname", "other", "features", "instructions", "xml"}
Page == {"plain", "iform", "alias", "malformed"}

Header == [kind : Kind, name : Seq(Component), size : Nat,
           short : BOOLEAN, page : Page]
Archive == [hint : Component \cup {NoHint}, headers : Seq(Header)]

ASSUME BufferClassAssumption ==
  /\ BufferClass \subseteq Nat \ {0}
  /\ MaxMember \in BufferClass
ASSUME LimitAssumption == MaxTotal \in Nat
\* Names that cleanCorpusName accepts have at least one component.
ASSUME ArchivesAssumption ==
  /\ Archives \subseteq Archive
  /\ \A a \in Archives : \A p \in DOMAIN a.headers : a.headers[p].name # << >>

----------------------------------------------------------------------------

IsEncodingIndex(name) == Last(name) \in IndexBase

\* name lies below the directory root: what finish keeps and what the
\* loader's HasPrefix(name, rootHint+"/") tests.
Under(name, root) == IsStrictPrefix(root, name)

\* With a dated archive name only the members below that root are prepared.
Hinted(hint, name) == hint # NoHint => Under(name, <<hint>>)

\* The capacity a member of that size is stored in and charged for.
MemberBufferClass(size) ==
  CHOOSE c \in BufferClass :
    /\ size <= c
    /\ \A d \in BufferClass : size <= d => c <= d

Dated(root) == root # << >> /\ Release[Last(root)] > 0
SeriesOf(root) == Append(Front(root), Series[Last(root)])

\* The roots selectCorpusRoot may return; none when it reports an error.
SelectCorpusRoot(roots, hint) ==
  IF hint # NoHint THEN roots \cap {<<hint>>}
  ELSE IF Cardinality(roots) = 1 THEN roots
  ELSE IF \A r, s \in roots : Dated(r) /\ SeriesOf(r) = SeriesOf(s)
  THEN {r \in roots : \A s \in roots : Release[Last(s)] <= Release[Last(r)]}
  ELSE {}

\* A Go map from names to prepared data, as a set of entries; assignment
\* replaces the entry of that name.
Assign(map, name, data) ==
  {e \in map : e.name # name} \cup {[name |-> name, data |-> data]}

\* finish: entries below root, renamed relative to it.
Relative(map, root) ==
  {[e EXCEPT !.name = SubSeq(e.name, Len(root) + 1, Len(e.name))] :
     e \in {e \in map : Under(e.name, root)}}

\* One token per byte of a set of members.
ByteTokens(S, size) == UNION {{p} \X (1..size[p]) : p \in S}

----------------------------------------------------------------------------
\* What a load may return.

Pending == [status |-> "pending"]
Failure(kind, at) == [status |-> "error", kind |-> kind, at |-> at]

\* files and forms map a name to the member it was prepared from; aliases
\* are the names of the alias pages.  members, formPages and aliasPages are
\* the published counts.
Corpus(root, files, forms, aliases, members, formPages, aliasPages) ==
  [status |-> "corpus", root |-> root, files |-> files, forms |-> forms,
   aliases |-> aliases, members |-> members, formPages |-> formPages,
   aliasPages |-> aliasPages]
=============================================================================
