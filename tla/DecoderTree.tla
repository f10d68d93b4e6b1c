---------------------------- MODULE DecoderTree ----------------------------
(***************************************************************************)
(* pkg/decoder: building the decision tree of a catalog of encodings, and  *)
(* the three walks over it: decoder.Match of the generator, DecodeTree and *)
(* Decode of the generated Go and Rust decoders.                           *)
(*                                                                         *)
(* A word is the set of its bits that are 1, so a mask, a fixed value and  *)
(* a child key are sets of bits too, and word & mask is an intersection.   *)
(* A node of the tree is named by the keys on the way to it from the root. *)
(***************************************************************************)
EXTENDS Integers, Sequences, FiniteSets, FiniteSetsExt

CONSTANTS
  Width,     \* bits of an instruction word
  MaxDepth,  \* DefaultMaxDepth
  Instr,     \* encodings, in the order of their EncodingID
  Catalogs   \* the catalogs a tree may be built from

Bit == 0..(Width - 1)
Word == SUBSET Bit

\* A field the encoding names, with the value it is fixed to.
Field == [lo : Bit, hi : Bit, fixed : BOOLEAN, value : Word]

\* pins and ones are the fixed bits of BitPattern, empty if it has none;
\* accepted are the words the bitdiffs tree lets through.
Encoding == [fields : SUBSET Field, pins : Word, ones : Word, accepted : SUBSET Word,
             alias : BOOLEAN]

ASSUME WidthAssumption == Width \in Nat
ASSUME InstrAssumption == Instr \subseteq Nat /\ IsFiniteSet(Instr)
ASSUME CatalogsAssumption == Catalogs \subseteq [Instr -> Encoding]

NoInstr == -1

VARIABLES
  catalog,
  tree,      \* path -> the candidates filed there, and the mask switched on
  open,      \* paths whose buildNode call has not run
  ask, word, \* the walk asked for, "none" if there is none
  at,        \* the node it has reached
  result     \* its answer

vars == <<catalog, tree, open, ask, word, at, result>>

----------------------------------------------------------------------------
\* What an encoding fixes.

Span(f) == f.lo .. f.hi
FixedFields(i) == {f \in catalog[i].fields : f.fixed /\ f.lo <= f.hi}

\* pinnedBits: of the pattern, or of the fixed fields if it pins nothing.
PinnedBits(i) ==
  IF catalog[i].pins # {} THEN catalog[i].pins ELSE UNION {Span(f) : f \in FixedFields(i)}

PinnedValue(i) ==
  PinnedBits(i) \cap
    (IF catalog[i].pins # {} THEN catalog[i].ones
     ELSE UNION {f.value : f \in FixedFields(i)})

\* MatchWord, entry_matches: nothing matches an encoding that pins no bit.
Matches(i, w) ==
  /\ PinnedBits(i) # {} /\ w \cap PinnedBits(i) = PinnedValue(i)
  /\ w \in catalog[i].accepted

\* Encodings without fields are left out of the tree.
Treed == {i \in Instr : catalog[i].fields # {}}
Untreed == Instr \ Treed

----------------------------------------------------------------------------
\* Splitting a set of candidates.

\* Variants named ..._Without and ..._Instead are not part of the model: they
\* are faults a change to the code could introduce, kept to show that the
\* properties notice them.

\* eachMaskKey: every value of word & mask an encoding lets a word have.
Keys(i, mask) ==
  {(PinnedValue(i) \cap mask) \cup free : free \in SUBSET (mask \ PinnedBits(i))}

Group(cands, mask, key) == {i \in cands : key \in Keys(i, mask)}
GroupKeys(cands, mask) == UNION {Keys(i, mask) : i \in cands}

ReplicationBudget == 4

WithinBudget_WithoutLimit(cands, mask) == TRUE

\* replicationCost: the size the candidates grow to once each is filed under
\* all its keys, 2^n of them if the mask leaves n of its bits free.
Filings(cands, mask) == UNION {{i} \X Keys(i, mask) : i \in cands}

WithinBudget(cands, mask) ==
  Cardinality(Filings(cands, mask)) <= ReplicationBudget * Cardinality(cands)

\* The mask strategy takes over when 60% of the fields are fixed.
ByMask ==
  10 * MapThenSumSet(LAMBDA i : Cardinality({f \in catalog[i].fields : f.fixed}), Treed)
    >= 6 * MapThenSumSet(LAMBDA i : Cardinality(catalog[i].fields), Treed)

\* Masks over fields fixed in some candidate, or, by entropy, over up to eight
\* neighbouring bits that are in no field.
FieldMasks(cands) == UNION {{Span(f) : f \in FixedFields(i)} : i \in cands}
FreeRanges(cands) ==
  {m \in {lo .. hi : lo \in Bit, hi \in Bit} :
     /\ m # {} /\ Cardinality(m) <= 8
     /\ \A i \in cands : \A f \in catalog[i].fields : Span(f) \cap m = {}}

Shrinks_WithoutLargest(cands, mask) == TRUE

\* A mask that files everything under one key splits nothing.
Shrinks(cands, mask) == \A key \in GroupKeys(cands, mask) : Group(cands, mask, key) # cands

\* The score, an entropy, only ranks these masks: any of them may be taken.
Splits(cands) ==
  {m \in (IF ByMask THEN FieldMasks(cands) ELSE FreeRanges(cands)) :
     /\ WithinBudget(cands, m)
     /\ Cardinality(GroupKeys(cands, m)) > 1
     /\ Shrinks(cands, m)}

----------------------------------------------------------------------------
\* Building.

Children(p, mask) == {Append(p, key) : key \in GroupKeys(tree[p].cands, mask)}
KeyOf(p) == p[Len(p)]

\* One candidate, the depth limit and a set nothing splits end in a leaf that
\* keeps every candidate.
Leaf(p) ==
  \/ Cardinality(tree[p].cands) = 1 \/ Len(p) >= MaxDepth
  \/ Splits(tree[p].cands) = {}

BuildLeaf_WithoutCandidates(p) ==
  /\ Leaf(p)
  /\ open' = open \ {p}
  /\ tree' = [tree EXCEPT ![p].cands = {Min(tree[p].cands)}]

BuildLeaf(p) ==
  /\ Leaf(p)
  /\ open' = open \ {p}
  /\ UNCHANGED tree

BuildSwitch(p) ==
  /\ ~Leaf(p)
  /\ \E mask \in Splits(tree[p].cands) :
       /\ tree' = [q \in DOMAIN tree \cup Children(p, mask) |->
                     IF q = p THEN [tree[p] EXCEPT !.mask = mask]
                     ELSE IF q \in Children(p, mask)
                     THEN [cands |-> Group(tree[p].cands, mask, KeyOf(q)), mask |-> {}]
                     ELSE tree[q]]
       /\ open' = (open \ {p}) \cup Children(p, mask)

\* buildNodeWithMask and buildNodeWithEntropy; the order in which the
\* recursion visits the children does not reach the tree.
Build ==
  /\ \E p \in open : BuildLeaf(p) \/ BuildSwitch(p)
  /\ UNCHANGED <<catalog, ask, word, at, result>>

----------------------------------------------------------------------------
\* Walking.

NoAnswer == [best |-> NoInstr, hits |-> {}, via |-> "none"]
Unanswered == [NoAnswer EXCEPT !.via = "pending"]

\* betterEntry: more fixed bits, then canonical before alias, then the ID.
Better(a, b) ==
  LET na == Cardinality(PinnedBits(a))
      nb == Cardinality(PinnedBits(b))
  IN \/ na > nb
     \/ na = nb /\ ~catalog[a].alias /\ catalog[b].alias
     \/ na = nb /\ (catalog[a].alias <=> catalog[b].alias) /\ a < b

Best(hits) == CHOOSE a \in hits : \A b \in hits \ {a} : Better(a, b)

\* resolve: the winner and its peers among the matching candidates.
Resolve(cands, via) ==
  LET hits == {i \in cands : Matches(i, word)}
  IN IF hits = {} THEN NoAnswer ELSE [best |-> Best(hits), hits |-> hits, via |-> via]

\* What the flat matcher over the whole table answers.
Flat == Resolve(Instr, "table")

Ask(kind, w) ==
  /\ open = {} /\ ask = "none"
  /\ ask' = kind /\ word' = w
  /\ UNCHANGED <<catalog, tree, open, at, result>>

Walking == ask # "none" /\ result = Unanswered
IsSwitch(p) == p \in DOMAIN tree /\ tree[p].mask # {}
IsLeaf(p) == p \in DOMAIN tree /\ tree[p].mask = {}
EdgeFor(p) == Append(p, word \cap tree[p].mask)

Descend ==
  /\ Walking /\ IsSwitch(at) /\ EdgeFor(at) \in DOMAIN tree
  /\ at' = EdgeFor(at)
  /\ UNCHANGED <<catalog, tree, open, ask, word, result>>

LeafCandidates_WithoutUntreed(p) == tree[p].cands

\* The generated decoders add the encodings the tree leaves out.
LeafCandidates(p) == tree[p].cands \cup (IF ask = "Match" THEN {} ELSE Untreed)

AtLeaf == IF IsLeaf(at) THEN Resolve(LeafCandidates(at), "tree") ELSE NoAnswer

\* A leaf answers.  A leaf without a hit, a switch without an edge for the
\* word and an empty tree are misses, which Decode takes to the flat table.
Answer ==
  /\ Walking /\ ~(IsSwitch(at) /\ EdgeFor(at) \in DOMAIN tree)
  /\ result' = IF AtLeaf = NoAnswer /\ ask = "Decode" THEN Flat ELSE AtLeaf
  /\ UNCHANGED <<catalog, tree, open, ask, word, at>>

Return ==
  /\ result # Unanswered
  /\ ask' = "none" /\ word' = {} /\ at' = << >> /\ result' = Unanswered
  /\ UNCHANGED <<catalog, tree, open>>

----------------------------------------------------------------------------
Init ==
  /\ catalog \in Catalogs
  /\ tree = [p \in (IF Treed = {} THEN {} ELSE {<< >>}) |-> [cands |-> Treed, mask |-> {}]]
  /\ open = DOMAIN tree
  /\ ask = "none" /\ word = {} /\ at = << >> /\ result = Unanswered

Next == Build \/ Descend \/ Answer \/ Return
        \/ \E kind \in {"Match", "DecodeTree", "Decode"}, w \in Word : Ask(kind, w)

Spec == Init /\ [][Next]_vars

----------------------------------------------------------------------------
\* Properties.

\* The tree and the walk have their types; unbuilt nodes belong to the tree,
\* and every node has candidates.
TypeOK ==
  /\ catalog \in Catalogs
  /\ DOMAIN tree \subseteq Seq(Word)
  /\ \A p \in DOMAIN tree :
       tree[p] \in [cands : SUBSET Treed, mask : Word] /\ tree[p].cands # {}
  /\ open \subseteq DOMAIN tree
  /\ ask \in {"none", "Match", "DecodeTree", "Decode"}
  /\ word \in Word /\ at \in Seq(Word)
  /\ result \in [best : Instr \cup {NoInstr}, hits : SUBSET Instr,
                 via : {"pending", "none", "tree", "table"}]

Answered(kind) == ask = kind /\ result # Unanswered

\* Decode answers what the flat matcher over the whole table would, the same
\* winner and the same peers, and so does DecodeTree whenever it answers.
DecodeIsFlat ==
  Answered("Decode") \/ (Answered("DecodeTree") /\ result # NoAnswer) =>
    result.hits = Flat.hits /\ result.best = Flat.best

\* match.go:56: a leaf's candidates are complete for every word routed to it,
\* so Match reports exactly the matching encodings of the tree, or none.
MatchIsComplete == Answered("Match") => result.hits = {i \in Treed : Matches(i, word)}

\* The table is a fallback for encodings the tree leaves out and never
\* rescues a word the tree misroutes.
NoRescue == Answered("Decode") /\ result.via = "table" => result.hits \subseteq Untreed

\* Every switch leaves fewer candidates to each child, so no path is longer
\* than there are encodings, with or without the depth limit.
Narrowing ==
  \A p \in DOMAIN tree : Len(p) + Cardinality(tree[p].cands) <= Cardinality(Treed)

\* What is filed at a depth, a candidate once for every node that holds it.
FiledAt(d) == UNION {{p} \X tree[p].cands : p \in {q \in DOMAIN tree : Len(q) = d}}

\* The budget bounds what wildcards cost in the whole tree: no level files more
\* than four times the candidates of the one above, however its nodes split, so
\* depth d holds at most 4^d times the candidates there are.
ReplicationBounded ==
  /\ Cardinality(FiledAt(0)) <= Cardinality(Treed)
  /\ \A d \in 0..MaxDepth :
       Cardinality(FiledAt(d + 1)) <= ReplicationBudget * Cardinality(FiledAt(d))
=============================================================================
