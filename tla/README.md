# mkasm in TLA+

mkasm reads Arm's machine-readable architecture (a directory or a `.tar.gz` of
XML pages) and an x86 catalog, builds an IR of every instruction encoding, and
generates decoders, encoders, an assembler and a disassembler in Go and Rust.
This directory models the parts of it whose correctness depends on order,
concurrency, failure or a combinatorial argument, model-checks them on small
instances with TLC, and proves what matters most for every instance with TLAPS.

Contents

1. The system
2. What makes it hard
3. Modules and plan
4. How each module corresponds to the code
5. Runs: what is checked, bounds, fairness
6. Proofs
7. Where the code departs from its documentation
8. What is not modelled

Paths are relative to the root of the repository; line numbers refer to the
commit the project was written from.

## 1. The system

| component | source | state it keeps | operations |
|---|---|---|---|
| corpus loader | `pkg/arm/xml_corpus.go` | tar position, job channel, in-flight byte budget, buffer arena, builder of parsed pages | `LoadTarXMLCorpusWithOptions`: scan, acquire, read, send; workers prepare and release; select root, publish |
| generation pipeline | `pkg/arm/arm_parser.go`, `iform_cache.go`, `cmd/mkasm/main.go` | registry, Pass 2 work channel and workers, form cache, IR merged so far, files written | Pass 1 index and alias scan, Pass 2 resolve, Pass 3 emit, validate, export, close |
| decision tree | `pkg/decoder/*`, `templates/go/decoder.tmpl`, `templates/rust/decoders.rs.tmpl` | tree of masks over candidate encodings | `BuildTree`, `Match`, generated `DecodeTree` and `Decode` |
| instruction registry | `pkg/arm/registry.go` | instructions by ID, and indexes by mnemonic and feature | `Add`, `GetBy…`, `MatchWord`, `Statistics` |
| instruction IR | `pkg/ir/*` | fields, bit pattern, bitdiffs of an encoding | pinned bits, field extraction, insertion |
| bitdiffs | `pkg/arm/bitdiffs.go`, `pkg/ir/bitdiffs.go` | expression tree over fields | parse, evaluate, pin |
| alias index | `pkg/arm/alias_index.go` | alias pages and their targets | scan, resolve conditions |
| instruction form parser | `pkg/arm/iform_parse.go` | boxes, class and encoding state of one page | merge boxes, apply to the IR |
| streaming XML router | `pkg/parse/*` | element, scope and handler stacks | start, end, character data |
| pseudocode parsers | `pkg/asl/*`, `pkg/arm/pseudocode_parser.go` | tokens, AST | parse, evaluate |
| disassembly model and renderer | `pkg/arm/disasm_*.go` | templates, operands, constraints | build, satisfy constraints, render |
| conformance samples | `pkg/arm/*conformance*.go` | sampled words | sample, self-check |
| typed assembler surface | `pkg/arm/rust_asm_model.go`, `operand_class.go`, `rust_api.go` | operand classes of every encoding | classify, name, prove fields covered |
| generated assembler runtime | `templates/rust/asm_support.rs.tmpl` | words, labels, fixups, errors | `label`, `bind`, `emit`, `finish` |
| code emitters | `pkg/arm/codegen*.go`, `templates/*` | none beyond one call | render files per language |
| x86 catalog and codec | `pkg/x86/*`, `templates/x86_rust/*` | catalog of encodings | import, decode, encode, relocate |
| JSON export | `cmd/mkasm/json.go` | none | write the IR |
| conformance and benchmark suites | `tests/conformance/*`, `tests/benchmarks/*` | none | compare with other tools |

How they interact.  `cmd/mkasm/main.go` opens the input: a tar is loaded whole
by the corpus loader, whose workers parse pages while the reader goroutine
walks the stream; a directory is read page by page.  The pipeline's Pass 1 fills
the registry from the encoding index and from the alias scan.  Pass 2 hands
instructions over a channel to workers, which look the form up in a mutex-
guarded cache or in the corpus and merge it into the IR of that instruction,
without a lock on the IR itself.  Pass 3 runs on the calling goroutine and reads
the whole IR: it builds decision trees, print models and typed surfaces, and
writes one language after the other.  Validation and the JSON export follow.
What was generated (decoder, assembler, x86 codec) is a program of its own;
its algorithms live in the templates.

What makes each component correct:

- *corpus loader*: never more bytes in flight than documented; every byte
  charged is given back; no buffer is shared; no partial corpus; every load
  returns; the result does not depend on the interleaving.
- *pipeline*: nothing is omitted silently; an error prevents generation; no two
  workers write one instruction; passes that read unlocked read final data;
  exported IR is validated IR; `run()` returns.
- *instruction form parser*: an encoding is read from its own class of the page;
  a word belongs to the encoding exactly when the page's diagram, exclusions,
  bitdiffs, tables and pseudocode say so.
- *decision tree*: a tree-driven decoder answers what scanning the table
  would, for every word, whatever masks the scoring heuristics prefer.
- *registry*: lookups by ID, mnemonic and feature agree.
- *bitdiffs*: evaluation agrees with the text; pinned bits are implied by it.
- *router*: what a handler stores for one element is not seen from another, also
  when scopes are recycled and the parser is reused for the next file.
- *alias index*: every encoding of an alias page becomes an instruction once, with
  what the page says of that encoding.
- *pseudocode parsers*: a text is read as the grammar groups it, however it is
  laid out; blocks close.
- *assembler*: a branch reaches its label or `finish` reports an error.
- *x86*: what `Encode` writes, `Decode` reads back; relocation keeps targets.
- *renderer, surfaces, emitters*: rendered text assembles to the same word.

## 2. What makes it hard

`PROJECT.json` lists each hazard with its line and the properties that watch it.
In short:

- a reader goroutine that waits on two things (a full channel and a byte
  budget) filled and drained by the same workers, and that must be woken by
  each of three events: a release, an error, a receive;
- buffers recycled through free lists while jobs still refer to them;
- several goroutines failing at once, with exactly one error kept and the rest
  of the queue drained;
- a context that may be cancelled between any two steps of Pass 2, and workers
  that give up without reporting;
- instructions mutated without a lock, safe only by the order of the passes;
- encodings whose don't-care bits lie under the mask of a switch and must be
  filed under every value they may take, within a replication budget;
- results of a generator that are themselves programs with boundaries: label
  distances, field widths, prefix bytes;
- a streaming parser whose scopes are recycled, whose sessions are found by path
  and which is reused for a second file;
- conditions written in four notations (box cells, `!=` constraints, bitdiffs,
  pseudocode), by different regular expressions folded into one bit pattern and
  one expression, where one that is folded too eagerly loses words;
- variable-length instructions that must be told apart byte by byte, in three
  modes in which the same bytes mean different things.

## 3. Modules and plan

Written, in this order:

| module | models | composed of |
|---|---|---|
| `CorpusArchive` | archives, names, buffer classes, root selection | |
| `CorpusOutcomes` | what an archive alone determines: its defects, its corpus | `CorpusArchive` |
| `CorpusLoad` | abstract: one step from an archive to its outcome | given archives and outcomes as parameters |
| `CorpusLoader` | reader, workers, channel, budget, arena, builder | `CorpusOutcomes`; implements `CorpusLoad` |
| `ARMPipeline` | `Parse` and `run()`: passes, worker pool, cache, cancellation | |
| `DecoderTree` | building the tree, and the three walks over it | |
| `TwosComplement` | integers and their bits: shifts, masks, what a field of bits stands for | |
| `Assembler` | instruction methods, labels, fixups and `finish` of the generated Rust assembler | `TwosComplement` |
| `X86Catalog` | records of opcodesDB, their import and validation | |
| `X86Codec` | `Encode`, `NewDecoder` and `Decode`, byte by byte | `X86Catalog` |
| `X86Sweep` | a catalog imported, instructions encoded, the bytes decoded as they arrive | `X86Codec` |
| `ASLLayout` | comments and layout of `pkg/asl`, and how its parsers walk tokens | |
| `ASLParser` | expressions | `ASLLayout` |
| `ASLInstructions` | statements, encodings and instructions | `ASLParser` |
| `ASLReader` | a text read step by step: lexed, laid out, parsed | `ASLLayout`; the instruction parser is a parameter |
| `Registry` | the instruction registry with its indexes, lookups and statistics | |
| `StreamingParser` | scope stack, sessions and element paths of the XML router | |
| `AliasPages` | scan of an instruction page for aliases, partial instructions from it | `Registry` |
| `EncodingIndex` | Pass 1 token by token, and Pass 2 rewriting what Pass 1 registered | `StreamingParser`, `AliasPages` |
| `BitPatterns` | patterns, fields, words; extraction and insertion | |
| `BitDiffs` | bitdiffs: parser, evaluation, resolution, pinning | `BitPatterns` |
| `DecodeGuards` | conditions taken from Decode pseudocode | `BitDiffs` |
| `IFormParser` | `parseIForm`: one instruction page for one encoding | `DecodeGuards` |
| `IForm` | Pass 2 on one page: parse, apply, catalog, disassemble | `IFormParser` |
| `SequenceLemmas` | induction, recursion, loops and sequences, for proofs | |
| `CorpusLoaderProofs`, `ARMPipelineProofs`, `DecoderTreeProofs` | theorems about those modules | each extends its module |
| `AssemblerProofs`, `ASLReaderProofs`, `EncodingIndexProofs`, `X86SweepProofs` | theorems about those modules | each extends its module and `SequenceLemmas` |
| `MC…` | the instances TLC checks | |

The order was chosen by what would hurt most if wrong: the loader (everything
is parsed by it, concurrently), the pipeline (what is generated and whether it
is complete), the decision tree (what the generated decoder answers), the
assembler (what the generated encoder writes); then the data the passes work on.
`ARMPipeline` keeps of a page only whether it parses and has bits; `EncodingIndex`
and `IForm` are its Pass 1 and its Pass 2 on one page in detail.

Next in the plan:

1. `Relocation`: the x86 relocation code of the generated crate, on `X86Codec`.
2. Operand templates and value tables: `disasm_model.go`'s conditions and the
   renderer's constraint solver, on `IForm`; a rendered word assembles again.
3. Register restrictions, writeback and memory-operation constraints of
   `iform_parse.go`.
4. The line-based pseudocode reader of `pkg/arm`.

Next among the proofs: what the rows of a well-formed index hold (`RowsAsWritten`)
and what the scan of an alias page finds, element by element (`AliasesComplete`; so
far only that it is a list).  Section 6 says what is out of reach.

## 4. How each module corresponds to the code

`PROJECT.json` maps every definition that models code to its lines; this
section says how to read them side by side.  Definitions named `..._Without…`
or `..._Instead…` are not part of the model: each is a fault a change to the
code could introduce, used to show that a property notices it.

### CorpusArchive, CorpusLoad, CorpusLoader

`LoadTarXMLCorpusWithOptions` has one reader goroutine (the caller) and
`Worker` goroutines.  What they share is a channel, a budget
(`inflightBudget`), an arena (`bufferArena`), a builder and a `sync.Once` error.

| code | model |
|---|---|
| tar headers in stream order | `archive.headers`, each `kind`, `name`, `size`, `short` (the stream ends in it), `page` (what parsing it gives) |
| name of the archive, `corpusRootHint` | `archive.hint` |
| position in the read loop | `rpc`, `pos` |
| job channel, capacity = workers | `jobs` (headers in flight; a receive takes the earliest), `closed` |
| worker goroutine | `wpc[w]`, `wjob[w]` |
| `inflightBudget.used/peak/stopped`, `cond.Wait` | `used`, `peak`, `stopping`, `parked` |
| arena free lists | `free[c]`, LIFO; `heap` are all buffers ever made with the member whose bytes they hold; `buf[p]` the buffer given to member p |
| `preparedCorpusBuilder` | `files`, `forms`, `aliases` |
| `firstErr` under `errOnce` | `firstErr` |

Each critical section and each channel operation is one action.  Work on data
that one goroutine owns (cleaning names, checking sizes) is part of the next
action that touches shared state, which is sound because nobody else can see
it.  A worker puts its buffer back (`PutBuffer`) before it releases its charge
(`ReleaseCharge`), as in the code, and both are separate steps.  `parked` is the
reader inside `cond.Wait`: any broadcast clears it, and the reader then
re-evaluates its condition (`AcquireParks`, `AcquireRefused`, `AcquireGranted`).

A member's bytes are represented by the position of the member they came from,
so that a buffer overwritten too early shows as a page parsed under the wrong
name.  The result of parsing is an input (`page`), because no parse depends on
another.  `CorpusLoad` is the specification: from an archive, in one step, to one
of the outcomes the archive allows.  Several are allowed only where the code
really chooses: which of several errors was first, and which of several roots
the map iteration in `selectXMLCorpusRoot` meets last.  Those outcomes are
computed from the headers alone in `CorpusOutcomes`, and handed to `CorpusLoad` as
a parameter (`Outcomes(_)`), which therefore says nothing of how a corpus is made.
`CorpusLoader` instantiates it as `Abstract`, `INSTANCE CorpusLoad WITH ...`, and
`ImplementsLoad` is its specification under that mapping.

The refinement mapping keeps `archive` and maps `outcome` to what the load has
returned, which stays open until the reader returns: every step of the reader, a
worker, a buffer or the budget is a stutter of `CorpusLoad` except the one that
returns.  That a load does return is `Terminates`.

### ARMPipeline

`Parse` runs on the calling goroutine (`pc`, `todo`); Pass 2 starts workers
(`wpc`, `wjob`).  `QueueInstr` and `QueueCancelled` are the two branches of the
`select` in the queue loop; both are enabled once the context is done, as Go
chooses among ready cases.  The channel holds the whole registry, so a send
never blocks.  The form cache is one set of keys: its mutex makes a store one
step, but a worker's lookup (`WorkerLoads`) and its store (`WorkerApplies`) are
two, with parsing between them.  The context may be cancelled at any point, and
a directory may lose a page at any point; both only happen where the input
says so (`cancellable`, `~archive`).  Pass 3's page reads follow the order in
which the generators call `loadIForm`.

`applied` and `resolved` stand for the writes to the shared `*ir.Instruction`
values: a worker that merges a form adds the instruction to `applied`, and to
`resolved` when the form had encoding bits.

### DecoderTree

A word is the set of its 1 bits.  A node is the sequence of masked values on the
way to it.  `Splits` are the masks the builder may choose; the score (an entropy
in floating point) only ranks them, so the model lets any of them be chosen,
which covers every ranking.  `BuildLeaf` and `BuildSwitch` are one call of
`buildNodeWithMask` or `buildNodeWithEntropy`; which of the two runs depends on
the share of fixed fields (`ByMask`).  `Match` is the generator's own walk,
`DecodeTree` and `Decode` are those of the generated Go and Rust decoders, which
add the encodings without fields (left out of the tree) to every leaf and, for
`Decode`, fall back to the flat table.  `Flat` is that table scan.
`ReplicationBudget` is the code's limit on how often candidates may be filed again:
`WithinBudget` counts the pairs of a key and a candidate filed under it
(`Filings`), and `ReplicationBounded` says of every level of the tree that it holds
at most the budget times what the level above holds.

### Assembler

The program modelled is the generated crate: any sequence of `label`, `bind` and
instruction methods, then `finish`.  A generated method is a *form*: the word it
fixes, and where its operand goes as `placementFor` computes it (`parts`, most
significant first, `start` of the first one stored, total `width`; scale, bias,
negation, range).  A form has one operand that can fail, because operands are
placed independently of each other; the model does not combine two failing
operands in one call.

| code | model |
|---|---|
| `words`, `labels`, `fixups`, `errors` | the same; a word is the set of its 1 bits |
| `field_bits` | `FieldBits` (its verdict), `Held`, `Layout` (what it writes) |
| `field_label` on an offset, on a label | `FieldLabel`; `FixupOf` |
| a method emitted by `emitEncodeBody` | `CallMethod`: record, place, push the fixup, emit |
| dispatch on an arrangement or spelling that returns early | verdict "operand": no word is emitted |
| `bind`, of any label number | `Bind`; numbers the assembler has not made are ignored |
| `finish` | `BeginFinish`, one `Patch` per fixup, `EndFinish` |

`calls` and `meant` are history variables: what the program asked for and where
each label was last bound.  The scale of a label is the literal 4 of
`emitEncodeBody`, not the scale of the operand; `NearBranchesReach` is about forms
whose operand counts in that unit too.

What the generator guarantees of a form is assumed and named after the function
that does it: `Placed` (`placementFor` computes start and width) and `Free`
(`freeSubRange` gives an operand only bits the encoding does not pin).  `Fits` is
the precondition of `ValuesReadBack`: the parts of a value take different bits, and
every value the method accepts is held exactly by its field.  Nothing in the
generated code checks it (a range is read from the operand's prose, or computed
from a register range in `placementFor`), so it is stated and not assumed; the
instance asserts it of every form it has (`MCFits`).  `TwosComplement` has the
conversions between a number and its bits (`BitsOf`, `SignedRead`), which read a
field from the most significant bit down and so are independent of the way
`field_bits` writes it.

### X86Catalog, X86Codec, X86Sweep

A byte is a number; a byte string a sequence, so that `src[n]` of the code is
`src[n + 1]`.  Bytes with a role have a name (`SizeByte` is 66 in hexadecimal,
`EvexByte` 62, ...).  A mask with its value is the set of the values it admits (`reg`,
`rm`), or of the prefixes it speaks of.  `Template` is what one syntax template of
opcodesDB says, `Encoding` what the catalog keeps of it, `Import` the
normalisation in between (`ImportFails` its errors) and `ValidCatalog` is
`Validate`.  `Encode(e, f)` gives the bytes of form `e` with the physical fields `f`,
or `Refused`.  `NewDecoder` files the forms under the opcodes they answer to
(`Keyed`) and sorts them (`Sorted`: a form's place is the number of those that
precede it); `Decode` reads the prefixes and escapes (`ParseHead`), takes the bucket
of that opcode (`Bucket`), matches each form in it (`MatchEncoding`, whose last
step `Ends` holds the length against 15 and the bytes that are there) and answers
the most specific, "short" when bytes are missing, or an error.

`X86Sweep` puts them into an order a caller may use: import, build a decoder,
encode some instructions behind each other, hand the bytes over one at a time.
What catalogs are made from is only assumed to be of those types
(`SourcesAssumption`).  `Encode` leaves some combinations to its caller (a register
above 7 outside 64-bit mode, a REX.W there, a field of a form without ModR/M);
`Representable` names them, and `SweepFindsInstructions` and `EncodingsDistinct`
are about the others.  `SweepInBounds` is about all: whatever was encoded, an
answer covers at least one byte and none that has not arrived, and the decoder
does not ask for more for ever.  `LongestWait` is how long it may: the limit of 15
is applied behind prefixes, ModR/M and displacement, so that 25 bytes can be too
few for a verdict.

### ASLLayout, ASLParser, ASLInstructions, ASLReader

The lexer's characters are left out: a text is a sequence of lexemes with kind,
line and column.  `SkipComments` and `Layout` are what the lexer does with them,
among it the INDENT and DEDENT of the block structure; in `ASLReader`, `Lex`,
`LayOut` and `ParseNext` are one action each, the last for one instruction.  A parser
is an operator from tokens and a position to a node and a position, one per
function of `parse.go` and `expr.go`.  Those operators are recursive; `ASLReader`
takes the one for an instruction as the parameter `ReadInstruction`, which the
instance gives as `Instruction` of `ASLInstructions`.  `TextsAssumption` says that
lexemes are of the kinds `lex.go` makes from characters: INDENT, DEDENT and EOF are
made by layout alone.

### Registry, StreamingParser, AliasPages, EncodingIndex

A `*ir.Instruction` is its place in the registry's list, so that the indexes
still lead to it after Pass 2 has rewritten it.  A scope is its place in `heap`;
`free` is the pool that `Pop` feeds.  `NextToken` reads one token of an index file
and runs every handler registered for it, in the order of registration:
`HandleStartElement`, `HandleCharData`, `HandleEndElement`.  `EndOfIndex` opens the
next file with the same parser; `AddNext` adds one instruction; `DiscoverAliases`
adds what the scan of the pages found; `ResolveIForm` is Pass 2 on one
instruction, in any order.  `Malformed` is the file the decoder gives up on: it
cannot read a token, an end tag closes no element, or the file ends inside one;
`EndOfIndex` is the end of any other file.  `InputsAssumption` says only that files,
pages, the words of text and the values of attributes are sequences.  `UpperCase` is
what `strings.ToUpper` makes of a word, for the words it changes.
Names that the code splits (`ADD_32_addsub`, `SUB, SUBS`) are sequences of words.

### BitPatterns, BitDiffs, DecodeGuards, IFormParser, IForm

A word gives each bit "0" or "1"; a pattern may also have "x".  A field's bits are
written most significant first, as the code's strings are.  Text (of a box, of a
bitdiffs attribute, of a template, of a condition) is a sequence of lexical
units; lines of pseudocode say which of the shapes that the code's regular
expressions distinguish they have, and how far they are indented.

`ParseIForm(tokens, id)` folds `Start`, `CharData` and `End` over the tokens of a
page, with the variables of `parseIFormShared` as the record `s`.  `IForm` has a
page, parses it for each registered encoding in any order (`ResolveIForm`:
`ApplyParsedIForm` with all the constraints it collects), builds the shared
catalog (`BuildCatalog`), and looks a word up (`Disassemble`).  What the page *says*
is a record of classes, encodings, boxes, bitdiffs and pseudocode, given a meaning
by `Promised` and `Undefined` on words, and written as XML by the instance
(`MCXml`); the properties compare that meaning with what the code has read.

## 5. Runs: what is checked, bounds, fairness

| run | instance | shows |
|---|---|---|
| `loader` | 2 workers, fair, a limit of 6 units, buffer classes 2, 4 and 8; every archive of up to 2 of 13 headers, and of 3 ending in an index, hinted or not; archives of 5 members, sound, malformed, truncated or larger than allowed | accounting, ownership of buffers, bounded arena, no lost wakeup, clean return; the loader implements `CorpusLoad`; every load returns |
| `pipeline` | 2 workers, fair, 3 encodings on 2 pages; what `cmd/mkasm` can ask for, and what only the library offers: limits, bounded cache, two languages, cancellation | completeness, refusal on errors, every job answered, forms reused, only validated IR exported, IR frozen after Pass 2; `run()` returns |
| `decoder_tree` | every choice of 3 encodings out of 14 shapes, 4-bit words, depth 2, every word, every walk | tree answers what the table does; narrowing; replication |
| `assembler` | programs of up to 5 calls and 4 words over one label and one that does not exist, fields of 2 and 3 bits; programs of one call with every value and offset around each limit | near branches reach, opcodes survive, `finish` refuses what had an error and names the first; what was stored reads back |
| `x86_sweep` | a legacy and a vector catalog, one that must be refused, one with a form twice; three modes; streams of up to 2 instructions | no answer claims bytes that are not there; instructions are found where they were written; no field is lost |
| `asl_reader` | expressions to two levels, every kind of statement inline and in blocks, wrapped lines, comments; four broken layouts | blocks close; every token outside comments is kept, in order; a text is read as what it says |
| `encoding_index` | index files of up to two sections and rows, a second index file, alias and broken pages, prepared or not | rows, registry and aliases are complete and as written |
| `iform` | three families of pages of 5-bit words: narrowed diagrams, two classes, 32-bit sets with tables; guards at the top, under ifs and among other blocks; every word | an encoding matches exactly its words; allocation checks of guards under ifs alone bar what is UNDEFINED, no more, and no less where the conditions are in the documented grammar; parts come from its own class; words assemble back |
| `silent_omission`, `far_label`, `iform_disjunction`, `iform_nested` | smallest inputs that show it | disagreements with the documentation, section 7 |

Each passing property has a variant of the code under which the same run finds it
violated; `PROJECT.json` lists them under "mutants".

Why the bounds are enough.

*Loader.*  The limit of 6 units holds one member of class 4 and one of class 2
but not two of class 4, so the reader parks, is woken by a release, and parks
again; a member of class 8 is larger than the limit and must be admitted alone.
Five members are more than channel (2), workers (2) and reader hold together.
Workers run the same code on the same shared state, and no step depends on more
than one other worker, so two show every pairwise race.  Positions in the archive
and names are few because the code compares names only for equality, prefix and
release order, and all three are met.  `MaxTotal`, the limit on uncompressed
bytes, is 11 units, which only the archive of two large members and one small one
exceeds.

*Pipeline.*  Three encodings: two that share a page and one apart, so that a
cache of size 1 evicts while another worker holds a form.  The index repeats a
row, contains one the registry rejects, and the alias scan repeats one of the
index.

*Tree.*  The fourteen shapes cover fields that overlap, pins outside fields,
pins without fields, fields without pins, an alias, encodings constrained
beyond their pins, and ones that match everything or nothing.  Three encodings
are the fewest in which a node can split, replicate one encoding and still have
several candidates in a child.  The depth limit of the code (31) is out of reach
there; that a leaf it cuts short stays complete is part of what is proved.

*Assembler.*  A field of two bits reaches two words back and one ahead, so that
four words hold targets at, within and beyond its limits in both directions, and
one of three bits starts at bit 0, next to the bits that are fixed.  Two
fixups of different widths and two bindings of one label fit in five calls.
Value forms cover every path of `field_bits`: one part, two parts, a literal run
between them, a scale, a bias, a count-down; the values run past both ends.
Its run follows `MCSpec`, which is `Spec` with the single-value programs kept
apart from the others: a value depends on no other call.

*x86.*  The catalogs hold forms that share an opcode (NOP and XCHG, BSR and
LZCNT, groups by `reg`), every map and escape, operand sizes that depend on mode
and prefix, VEX, XOP and EVEX with both register halves.  Registers are one below
8, one above, one above 15; addressing takes the bases and indexes that are
special (4, 5, 12, 13) and one that is not.  The second instruction of a stream is
one whose bytes a decoder could mistake for more of the first, so two suffice.
`MaxBytes` 15 is the code's own limit.

*Pseudocode.*  Two levels of operators meet every pair of precedences on either
side, and slices and comparisons in each other.  `Tightness` and the printers of
the instance are written from the grammar, not from the parser.

*Index.*  Two sections of two rows show a scope leaking from one to the next,
from a row to the table, and a recycled scope; two files show what the parser
keeps.  The pages of aliases vary where the mnemonic and the target stand.

*Instruction forms.*  Five bits hold an opcode bit, a field of two bits and two of
one; every combination of a diagram, an override by the encoding,
bitdiffs and a pseudocode fragment, filtered by `Consistent`: an encoding that
stands for no word does not occur in the architecture, and the code does not
look for it.  A condition on a feature or on the machine's state is written into
the pseudocode too, and its meaning is that of a machine that has the feature and
is in no special state: it makes no word UNDEFINED, so that a constraint the code
would take from it shows as a word lost.  `MisreadCodes` are the three places of a
guard whose check the code misreads (section 7) and `StraightCodes` the same blocks
around and before guards that it reads well; the pages of both are in the run.
`ForbiddenAsWritten` says by `OnlyUnderIfs`, from the indented lines alone, on which
pages the checks bar nothing but UNDEFINED words; on the others it only promises
that a barred word is one some guard is about (`GuardHolds`).
That no check is missing is said of conditions in the grammar the
function documents (`InForbiddenGrammar`): no inequality, no set, and not a guard
whose `EndOfDecode` stands on a line of its own, which the code passes over.  A
conjunction that cannot hold makes the code give up the whole condition
(`MoreFactors`); the pages have one, alone in its guard, where nothing is lost by it.

No run uses symmetry.

Fairness.  The `FairSpec` of the loader and of the pipeline assumes weak fairness
of each goroutine as a whole: the Go scheduler runs a runnable goroutine
eventually, and a goroutine blocked on a channel or condition variable is
runnable once the operation can proceed.  Nothing is assumed of the environment:
no context has to be cancelled and no page lost.  Weak fairness of a goroutine
suffices because no step of one is ever disabled for good by steps of others
except where the model says so (a worker waiting on a channel nobody closes).
The other modules have no fairness: the code is sequential, what must be reached
is part of an invariant on a state near the end (`Narrowing`, `RowsAsWritten`,
`SweepFindsInstructions`), and the caller need not go on (an assembler's `finish`).

Deadlock is checked where the system must not stop: loader, pipeline, tree,
assembler and index, whose ends are explicit stuttering actions.  It is off in
`x86_sweep`, `asl_reader` and the runs of `IForm`, which end when the stream, the
text or the page has been read.

## 6. Proofs

TLAPS checks every theorem for all values of the constants, under the
assumptions named in the modules (a finite non-empty set of workers, a positive
limit, ordered buffer classes the largest of which holds the largest member;
well-typed inputs; encodings numbered by naturals; what the generator guarantees
of a form; catalogs and texts of the types their readers produce).  No theorem about
a specification adds a hypothesis to those.

*SequenceLemmas.*  `Induct` is induction for sets of naturals, from the well-founded
order of the library, without an operator as a parameter; `Recursion` says that a
recurrence defines a function, `Iterated` and `LoopKeeps` the same of a loop over a
sequence and of what its rounds keep.  They give recursive functions of the models
(`AllPlaced`, `Tails`, `Covered`, ...) their equations.  The rest are the sequences of
whatever they hold (`IsSeq`), appended to, cut and joined.

*CorpusLoaderProofs*, the budget.  `LoaderInv == Shape /\ BudgetInv /\
StoppedByError`.  `BudgetExact` (the counter equals the bytes charged) is not
inductive alone: that releasing a member takes exactly one charge away needs
`Apart` (reader, channel and workers hold different members, all behind the
reader), and that the bound holds needs `Admitted` (a charged member fits the
largest class).  Sums of charges are counted as sets of byte tokens, so that
cardinality lemmas of the library apply instead of induction.  Theorems:
`TypesHold`, `BudgetIsExact`, `BudgetIsBounded`, `StopHasError`.

The same module, buffers and shutdown.  `ResourceInv` adds to `LoaderInv`:

- `ArenaInv`: who owns which buffer.  A buffer taken from a free list is unshared
  only if no member still refers to it and no list has it twice (`OneOwner`), nor
  two lists, which `ClassKept` excludes: `PutBuffer` files a buffer by its capacity.
  `Conserved` (a buffer is held or free) is what bounds their number; `Contents`
  says that until a worker has prepared a member the buffer still has that
  member's bytes.  The
  actions are sorted into four effects on the arena (`Rests`, `Takes`, `Fills`,
  `Recycles`), and each part of `ArenaInv` is proved once per effect.
- `ShareBound`: with more than one member charged, the sum is within the limit.
  `ArenaBounded` follows with `Conserved`: a buffer is made only when every other
  of its class is held by a charged member.
- `ShutInv` and `NoLostWakeup`: a worker leaves only when the channel is closed
  and empty, the reader returns only after all workers; while the reader is
  parked, nobody has stopped it and some member is charged, whose release will
  wake it.
- `BuilderInv`: what was prepared under a name are that member's bytes, from
  `Contents`.

Theorems: `BuffersAreUnshared`, `ArenaIsBounded`, `PreparedIsFaithful`,
`NoWakeupIsLost`, `ReturnsClean`.

The same module, the refinement.  `LoaderImplementsLoad` is the safety half of
"a load returns the corpus its archive determines": `Spec => ImplementsLoad`, the
abstract specification under the refinement mapping.  Only the step that returns
changes the abstract outcome, so the proof is that what is returned is one of
`Outcomes(archive)`.  `LoadInv` says, while no error has been recorded, that the
reader has met no defect (`NoDefectYet`), that its counters and sets are those of
the headers it has passed (`SumsOfPassed`), and that the builder holds exactly the
members sent and no longer waiting for a worker (`BuiltFromHandled`); and once an
error has been recorded, that the archive has it.  When the reader publishes,
`ShutInv` empties the channel and the workers, every member sent is handled, and
the builder's sets are those of the archive.

*ARMPipelineProofs.*  A chain of invariants, each proved with the help of the
earlier ones: `TypeInv` (types with the phase of the program), `FinalInv` (after
Pass 2 no worker is active, and errors have been counted), `ValidInv` (from
validation on the IR passes it), `CoverInv` (every row read so far is in the
registry or still in the list), `JobInv` (what was queued is in the channel, with
one worker, or handled, each exactly once), `AnswerInv` (a queued encoding that
left the channel was answered unless the context ended), `CacheInv` and
`ReuseInv`.  From them follow `ErrorsStopCodegen`, `IRIsFrozen`,
`SuccessIsOfValidIR`, `FullGenerationIsComplete`, `WorkersNeverShare`,
`JobsAreAnswered`, `CacheKeepsBound` and `FormsAreReused`.  They hold for any
number of workers, rows and cancellations.  `SuccessIsOfValidIR` rests on
`FinalInv`: validation looks at instructions that workers wrote without a lock, and
its verdict stays true only because none of them is running any more.

*DecoderTreeProofs.*  `TreeInv` says how a node relates to its parent
(`EdgeInv`: a node under key k of a switch holds exactly the candidates that may
have k under its mask, and every key that some candidate may have has a node).
`RouteInv` adds that the node a walk has reached holds every treed encoding that
matches the word: an encoding that matches a word has the word's own key among
its keys, whatever the mask.  `AnswerInv` concludes for the three walks.  The
theorems `DecodersAgree`, `LeavesAreComplete`, `TableNeverRescues` and
`PathsNarrow` therefore hold for words of any width, any catalog, any depth
limit and any scoring heuristic.  `ReplicationIsBounded` needs `LevelInv`, which
bounds a level by what the *switches* of the level above hold: when a leaf becomes
a switch both sides grow by that node, which `WithinBudget` checked.  The filings
of a node are counted as pairs, so that adding a node adds disjoint sets.

*EncodingIndexProofs.*  `ParserInStep` proves `TypeOK` of the index parser: elements
open, scopes pushed and sessions active correspond at every token, of any files.
`ScopeInv` is the part about recycling: a scope is in one place only (`OnePlace`:
not twice on the stack, not twice in the pool, not in both), so that `Pop`, which
clears the scope it returns to the pool, cannot clear one that is open.  Without
`OnePlace` soundness of the stack is not inductive.  The case that needs the three
ways a file can be `Malformed` is the end tag: a parser that went on after an
unbalanced one would pop a scope it does not have.  `RegistryIsComplete` proves
`RegistryComplete`.  `RegistryInv` is the part about IDs: each instruction is found
under its ID and no other, also after Pass 2 has rewritten it in place, since
`ResolveIForm` keeps the ID it was registered with.  `IndexesKept` is the part about
the other indexes, and says more of them than the property does: the entries of a
key are places of the list as long as it is now, in order (so that the next place
can only go to the end), and each once where they are counted (`Once`; an
instruction that names a feature twice is filed under it twice).  It is inductive
only if the features of whatever is added are a list, so `IndexInv` carries that
back to where rows are made: to the cells that append to them and to the aliases
found on pages, whose scan and assembly are shown to give lists
(`AliasesAreSeq`, `FlatIsSeq`, `AliasesBuilt`).  That a mnemonic in capitals finds its
instructions needs that capitals stay as they are (`UpperAssumption`).

*AssemblerProofs*, numbers.  `SignedReadsBack` and `UnsignedReadsBack`: a number within
the range of a field of any width, cut to its bits, reads back as itself.  The
argument is Horner's rule: having read the bits from the top down to b, one has the
number shifted right by b (`ReadsBack`).

The same module, the assembler.  `OrderInv`: each call that is not refused early has a word of
its own, in the order of the calls.  `FixupInv`: fixups come from calls
(`Sourced`), in order (`Ordered`), and a call without its fixup named a label that
is bound (`Covered`); each part has its own lemma for appending and dropping a
fixup.  `ErrorInv` and `ResultInv` tie the answer of `finish` to the first error or
the first fixup, and `LabelInv` ties labels to the history.  The theorems are
`TypesHold`, `FinishIsRight` (success only if every call was accepted, otherwise the
first error), `FixupsKeepOpcodes` (one patch changes one word, inside one field, because no two calls share a word) and
`LabelsArePatched` (a patch is never undone).  The last is what holds of every
branch, near or far, contiguous or split: its field holds the distance modulo the
field's width.

Two more follow with `KeptInv` (a word that waits for no label is as its call built
it).  `NearBranchesArrive`: a field's bits are free in the form (`Free`), so what
the field holds is the distance, and `SignedReadsBack` turns the bits into the
number.  `ValuesAreReadBack` has to put a value back together that was cut into
parts: the parts cover each bit of the value exactly once (`OnePart`, `SomePart`, by
induction on the sum of the widths below a part), different parts do not overlap
in the word (`Apart`), and literal runs were compared when the value was accepted,
so that the bits read (`HeldBits`) are the bits held; division by the scale and
the bias are then undone exactly (`ExactScale`).

*ASLReaderProofs*, whatever the texts and whatever reads an instruction.
`BlocksAreClosed`: the parser is given blocks that are all closed and one EOF, at the
end.  `TokensAreKept`: it is given the tokens outside comments, each once and in
order.  Both follow from what layout has done after k tokens (`LaidOut`): the marks
written so far nest, with one block open per column on the stack but the first
(`Nested`), no EOF is among them, and what is not a mark is the first k tokens
(`HoldsWords`).  One token adds DEDENTs, perhaps an INDENT, and itself; each of the
three is a lemma on counting (`MarksNest`, `MarksHold`, `WordHolds`).  That layout
cannot close a block twice rests on the columns popped being those counted
(`Closed`).  `HoldsWords` needs that a token is never itself a mark, hence
`TextsAssumption`; `SkipLeavesWords` carries it through the removal of comments.

*X86SweepProofs*, whatever the catalog, requests, stream and mode.
`DecodeStaysInside`: an answer with a form has one to fifteen bytes, all of them
there, and a form of the catalog; a decoder given more than `LongestWait` bytes does
not answer "short".  It follows the decoder: the head ends within 20 bytes and what
was given (`HeadSound`), ModR/M, SIB and displacement end within six more
(`ModRMEndBound`), a tail only moves the end on (`TailEnds`), `Ends` cuts it
(`EndsBound`), and the most specific of the matches is one of them
(`MostSpecificIsOne`, as specificity is bounded).  The table leads to forms
(`DecoderIsSound`): forms have different keys in the order they are sorted by, so
each place is held once (`RankedOnce`, a finite set ranked injectively), and a run of
equal keys ends where the table does (`RunFits`).  The invariant of the sweep,
`SweepInv`, adds that what is imported are encodings (`ImportSound`) and what is
encoded is a byte string (`EncodeIsSeq`), and that the lengths of the answers add up
to what was given, but for what is awaited (`TotalAppend`).  From it follows
`SweepStaysInBounds`.

Proved and not run, because a proof says more than a small instance and both
would say the same: the type invariants of `CorpusLoader`, `ARMPipeline`,
`DecoderTree` and `Assembler`, `StoppedByError`, `OneWorkerPerInstr`, `CacheBounded`
and `NoRescue`.

Only model-checked:

- liveness (`Terminates`, `RunReturns`), since the prover has no rule for fairness
  here;
- `RowsAsWritten`, which is not true of every file: were a row to stand inside a row,
  its cells would be collected by the inner one alone, and the rows come out in the
  order in which they end.  An index has no such rows, and every file of the
  instance is put together as an index is;
- `AliasesComplete`, which compares what the scan collects with what a whole page says,
  selected from it with `SelectSeq`, for which the provers have no rule;
- `SweepFindsInstructions` and `EncodingsDistinct`, which are not true of every
  catalog (two forms may claim the same bytes): the instance's forms are the
  architecture's, and what is shown is about the values of their bytes;
- `ReadsAsWritten` and the properties of `IForm`, whose parsers and evaluators are
  recursive operators over a grammar or an expression tree.

Induction itself is not what is missing: it is available for numbers in the form
of `Induct`, and a recursive *function* gets its equations from `Iterated`.  What a
recursive *operator* computes for every input stays out of reach.

## 7. Where the code departs from its documentation

Each is a run that ends in a counterexample.

- `silent_omission`: with `MaxIForms` set and the context cancelled after the
  queue was closed, a worker drops the job it took without an error, and `Parse`
  succeeds with a smaller artifact.
- `far_label`: `finish` masks a label's distance to the field's width.  The same
  distance given as an immediate offset is refused; given as a label it becomes
  a branch to another place, and `finish` succeeds.
- `iform_disjunction`: bitdiffs with `||` are kept as a doubly negated
  conjunction; the equalities under two negations are taken for unconditional
  ones, and both alternatives become fixed bits.
- `iform_nested`: the expression that folds an inequality guard into the encoding
  (`decodeEqualityRE`) is not anchored to the start of a line, so that a guard
  under another `if` is folded as if it always applied.  `decodeUndefIfRE`, which
  takes half of a field's values, is not anchored either: the first guard under
  the `if` escapes it, because the match begins at the `if` itself and cannot be
  read, and a second one is folded.  The run has a page of each, and either alone
  loses words.  `decodeBitPinRE` and `decodeTopLevelUndefIfRE` are anchored.

Seen while modelling, each part of a model as the code has it, without a run of
its own:

- The README's pipeline diagram puts validation before Pass 3; `run()` validates
  after `Parse` has returned, when Pass 3 has written the files (`ARMPipeline`).
- The form cache is keyed by page and encoding, so that a page of an input
  directory is parsed once per encoding on it.
- When the queue loop of Pass 2 sees the context done, it returns with the channel
  open; idle workers wait on it for ever (`QueueCancelled`).
- A label whose field is split (ADR's `immhi:immlo`) is written contiguously from
  the start of its first part, over the total width and with scale 4, which also
  writes bits that fix the opcode (`Patch`; `OpcodesKept` is about the others).
- After Pass 2 the registry's indexes by mnemonic and feature are those of Pass 1
  (`ResolveIForm` of `EncodingIndex`; of them `RegistryComplete` is about the time before).
- In the allocation checks every `end;` closes a frame, but only an `if` opens one,
  and `else` is ignored (`iform_parse.go:1076-1081`, `1113-1122`).  A `case` inside an
  `if` takes the frame of that `if` away, so that a later guard there counts as one at
  the top; a guard in an `else` branch is recorded under the condition instead of its
  negation; a guard in an arm of a `case` without the arm's value.  The checks then
  bar words that the pseudocode does not make UNDEFINED, although the comment at
  lines 1113-1116 says that a lost condition "would incorrectly make an inner
  allocation check unconditional".  The pages `MisreadCodes` have the three;
  without its condition `OnlyUnderIfs`, `ForbiddenAsWritten` is violated on each.
- A condition on a field the encoding lacks holds of every word, and under a
  negation rejects every word (`EvalAtom`).
- The features of a page's `arch_variant` elements are collected over all its
  classes.
- x86 `Encode` writes some fields it cannot express (section 4, `Representable`).

## 8. What is not modelled

`PROJECT.json` lists every component with its status.  Open, and in the plan of
section 3: the register restrictions, memory-operation and writeback constraints
and the operand tables of `iform_parse.go` and `disasm_model.go`, the renderer's
constraint solver and alias preconditions, the line-based pseudocode reader of
`pkg/arm`, the generated x86 crate and its relocation, the operand classes of the
typed assembler surface.  Left out for good:

- *code emitters* beyond which pages and instructions they read, and what the
  emitted decoders and assemblers do: text templates whose correctness is that
  the output compiles, which the repository tests by compiling it;
- *JSON export* beyond when it happens: pure formatting;
- *lexers*: characters into lexemes, of pseudocode, bitdiffs and XML;
- *streaming router* paths no handler of the repository takes: a handler that
  returns an error, with or without StopOnError, and middleware;
- *conformance samples* and the *conformance and benchmark suites*: they test
  generated code against external tools.

Simplified in what is modelled, where no property depends on it:

- `Word`: when an operand fails on a literal between its parts, `field_bits` has
  already written the earlier ones (`asm_support.rs.tmpl:615`); the model leaves the
  whole field alone.  Either word is in a program `finish` refuses.
- `Held` rounds down where Rust's division truncates: they differ for a value below
  the bias whose distance to it the scale does not divide, which `Fits` excludes.
- `InvalidEncoding` leaves out the limit of 12 operands (`model.go:226`), and
  `NewDecoder` the error for more than 65535 candidates (`decode.go:88`): the first
  needs operands, which the instances' encodings do not carry, the second a catalog
  far larger than theirs.
- `BuildAliases` leaves out the final sort by page and encoding
  (`alias_index.go:81`), which changes only the order.

Outside the inputs of the runs: two comparisons in one argument list (`a < b, c > d`)
among the pseudocode; alias pages that no index file names; a row Pass 1 refuses, as
far as the completeness of the generated output goes (the property speaks of the rows
it accepts).
