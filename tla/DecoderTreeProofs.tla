------------------------- MODULE DecoderTreeProofs -------------------------
(***************************************************************************)
(* The decision tree answers what the flat table answers, for words of any *)
(* width, any depth limit and every catalog of encodings.                  *)
(*                                                                         *)
(* The argument is local to an edge.  A switch has an edge for every key   *)
(* one of its candidates can have, and files the candidate there (EdgeInv),*)
(* so a candidate that matches the word stays in the set the walk carries  *)
(* (RouteInv); and where the edge is missing, no candidate matched.        *)
(***************************************************************************)
EXTENDS DecoderTree, TLAPS, FiniteSetTheorems, WellFoundedInduction

\* Appending is injective and shows in the length and the last element.
LEMMA AppendFacts ==
  ASSUME NEW S, NEW p \in Seq(S), NEW a \in S
  PROVE  /\ Append(p, a) \in Seq(S)
         /\ Len(Append(p, a)) = Len(p) + 1
         /\ Append(p, a)[Len(Append(p, a))] = a
         /\ Append(p, a) # p
         /\ Append(p, a) # << >>
         /\ \A q \in Seq(S) : \A b \in S : Append(q, b) = Append(p, a) => q = p /\ b = a
<1>1. /\ Append(p, a) \in Seq(S) /\ Len(Append(p, a)) = Len(p) + 1
      /\ Append(p, a)[Len(Append(p, a))] = a /\ Append(p, a) # p /\ Append(p, a) # << >>
  OBVIOUS
<1>2. ASSUME NEW q \in Seq(S), NEW b \in S, Append(q, b) = Append(p, a)
      PROVE  q = p /\ b = a
  <2>1. Len(q) = Len(p)
    BY <1>2
  <2>2. \A k \in 1..Len(p) : q[k] = Append(q, b)[k] /\ p[k] = Append(p, a)[k]
    BY <2>1
  <2>3. q = p
    BY <1>2, <2>1, <2>2
  <2>4. b = Append(q, b)[Len(q) + 1] /\ a = Append(p, a)[Len(p) + 1]
    OBVIOUS
  <2>5. QED
    BY <1>2, <2>1, <2>3, <2>4
<1>3. QED
  BY <1>1, <1>2

----------------------------------------------------------------------------
\* Masks, keys and groups.

LEMMA CatalogTypes ==
  ASSUME catalog \in Catalogs, NEW i \in Instr
  PROVE  catalog[i] \in Encoding
BY CatalogsAssumption

LEMMA SpanInWord ==
  ASSUME catalog \in Catalogs, NEW i \in Instr, NEW f \in catalog[i].fields
  PROVE  Span(f) \in Word
<1>1. f \in Field
  BY CatalogTypes DEF Encoding
<1>2. f.lo \in 0..(Width - 1) /\ f.hi \in 0..(Width - 1)
  BY <1>1 DEF Field, Bit
<1>3. QED
  BY <1>2, WidthAssumption DEF Span, Word, Bit

LEMMA PinsInWord ==
  ASSUME catalog \in Catalogs, NEW i \in Instr
  PROVE  PinnedBits(i) \in Word /\ PinnedValue(i) \subseteq PinnedBits(i)
<1>1. catalog[i].pins \in Word
  BY CatalogTypes DEF Encoding
<1>2. UNION {Span(f) : f \in FixedFields(i)} \in Word
  BY SpanInWord DEF FixedFields, Word
<1>3. QED
  BY <1>1, <1>2 DEF PinnedBits, PinnedValue

LEMMA KeysInWord ==
  ASSUME catalog \in Catalogs, NEW i \in Instr, NEW mask \in Word, NEW key \in Keys(i, mask)
  PROVE  key \in Word
BY PinsInWord DEF Keys, Word

\* The key of a matching word is one the encoding is filed under.
LEMMA MatchingKey ==
  ASSUME NEW i \in Instr, NEW w \in Word, NEW mask \in Word, Matches(i, w)
  PROVE  w \cap mask \in Keys(i, mask)
<1>1. w \cap PinnedBits(i) = PinnedValue(i)
  BY DEF Matches
<1>2. w \cap mask = (PinnedValue(i) \cap mask) \cup ((w \cap mask) \ PinnedBits(i))
  BY <1>1
<1>3. (w \cap mask) \ PinnedBits(i) \in SUBSET (mask \ PinnedBits(i))
  OBVIOUS
<1>4. QED
  BY <1>2, <1>3 DEF Keys

\* A split is over a mask of the word that is not empty.
LEMMA SplitMask ==
  ASSUME catalog \in Catalogs, NEW cands \in SUBSET Instr, NEW mask \in Splits(cands)
  PROVE  mask \in Word /\ mask # {}
<1>1. mask \in FieldMasks(cands) \/ mask \in FreeRanges(cands)
  BY DEF Splits
<1>2. CASE mask \in FieldMasks(cands)
  <2>1. PICK i \in cands : mask \in {Span(f) : f \in FixedFields(i)}
    BY <1>2 DEF FieldMasks
  <2>2. PICK f \in FixedFields(i) : mask = Span(f)
    BY <2>1
  <2>3. f \in catalog[i].fields /\ f.lo <= f.hi
    BY <2>2 DEF FixedFields
  <2>4. mask \in Word
    BY <2>2, <2>3, SpanInWord
  <2>5. f.lo \in Int /\ f.hi \in Int
    <3>1. f \in Field
      BY <2>3, CatalogTypes DEF Encoding
    <3>2. QED
      BY <3>1, WidthAssumption DEF Field, Bit
  <2>6. f.lo \in Span(f)
    BY <2>3, <2>5 DEF Span
  <2>7. QED
    BY <2>2, <2>4, <2>6
<1>3. CASE mask \in FreeRanges(cands)
  <2>1. PICK lo \in Bit, hi \in Bit : mask = lo .. hi
    BY <1>3 DEF FreeRanges
  <2>2. mask # {}
    BY <1>3 DEF FreeRanges
  <2>3. QED
    BY <2>1, <2>2, WidthAssumption DEF Word, Bit
<1>4. QED
  BY <1>1, <1>2, <1>3

----------------------------------------------------------------------------
\* The tree.

\* A tree with candidates has a root that holds them all.
RootInv ==
  /\ Treed = {} => DOMAIN tree = {}
  /\ Treed # {} => << >> \in DOMAIN tree /\ tree[<< >>].cands = Treed

\* The nodes hang together, and only a switch has children.
ShapeInv ==
  /\ \A p \in open : tree[p].mask = {}
  /\ \A p \in Seq(Word) : \A key \in Word :
       Append(p, key) \in DOMAIN tree => p \in DOMAIN tree /\ tree[p].mask # {}

\* A switch files every candidate under every key it can have.
EdgeInv ==
  \A p \in DOMAIN tree : tree[p].mask # {} =>
    \A i \in tree[p].cands : \A key \in Keys(i, tree[p].mask) :
      Append(p, key) \in DOMAIN tree /\ i \in tree[Append(p, key)].cands

TreeInv == TypeOK /\ RootInv /\ ShapeInv /\ EdgeInv

\* What turning an unbuilt node into a switch does to the tree.
LEMMA SwitchFacts ==
  ASSUME TreeInv, NEW p \in open, NEW mask \in Splits(tree[p].cands),
         tree' = [q \in DOMAIN tree \cup Children(p, mask) |->
                     IF q = p THEN [tree[p] EXCEPT !.mask = mask]
                     ELSE IF q \in Children(p, mask)
                     THEN [cands |-> Group(tree[p].cands, mask, KeyOf(q)), mask |-> {}]
                     ELSE tree[q]]
  PROVE  /\ p \in DOMAIN tree /\ p \in Seq(Word) /\ tree[p].cands \subseteq Treed
         /\ mask \in Word /\ mask # {}
         /\ GroupKeys(tree[p].cands, mask) \subseteq Word
         /\ DOMAIN tree' = DOMAIN tree \cup Children(p, mask)
         /\ p \notin Children(p, mask) /\ DOMAIN tree \cap Children(p, mask) = {}
         /\ tree'[p] = [cands |-> tree[p].cands, mask |-> mask]
         /\ \A q \in DOMAIN tree \ {p} : tree'[q] = tree[q]
         /\ \A key \in GroupKeys(tree[p].cands, mask) :
              /\ Append(p, key) \in Children(p, mask)
              /\ tree'[Append(p, key)] = [cands |-> Group(tree[p].cands, mask, key), mask |-> {}]
         /\ \A q \in Children(p, mask) :
              \E key \in GroupKeys(tree[p].cands, mask) : q = Append(p, key)
<1> DEFINE C == Children(p, mask)
           K == GroupKeys(tree[p].cands, mask)
<1>1. p \in DOMAIN tree /\ p \in Seq(Word) /\ tree[p] \in [cands : SUBSET Treed, mask : Word]
  BY DEF TreeInv, TypeOK
<1>2. tree[p].cands \subseteq Instr
  BY <1>1 DEF Treed
<1>3. mask \in Word /\ mask # {}
  BY <1>2, SplitMask DEF TreeInv, TypeOK
<1>4. K \subseteq Word
  BY <1>2, <1>3, KeysInWord DEF GroupKeys, TreeInv, TypeOK
<1>5. \A q \in C : \E key \in K : q = Append(p, key)
  BY DEF Children
<1>6. \A key \in K : Append(p, key) \in C
  BY DEF Children
<1>7. p \notin C
  BY <1>1, <1>4, <1>5, AppendFacts
<1>8. ASSUME NEW q \in DOMAIN tree, q \in C PROVE FALSE
  <2>1. PICK key \in K : q = Append(p, key)
    BY <1>5, <1>8
  <2>2. tree[p].mask # {}
    BY <1>1, <1>4, <1>8, <2>1 DEF TreeInv, ShapeInv
  <2>3. QED
    BY <2>2 DEF TreeInv, ShapeInv
<1>9. DOMAIN tree' = DOMAIN tree \cup C
  OBVIOUS
<1>10. tree'[p] = [cands |-> tree[p].cands, mask |-> mask]
  <2>1. tree'[p] = [tree[p] EXCEPT !.mask = mask]
    BY <1>1
  <2>2. QED
    BY <1>1, <2>1
<1>11. \A q \in DOMAIN tree \ {p} : tree'[q] = tree[q]
  BY <1>8
<1>12. ASSUME NEW key \in K
       PROVE  tree'[Append(p, key)] = [cands |-> Group(tree[p].cands, mask, key), mask |-> {}]
  <2>1. Append(p, key) \in C /\ Append(p, key) # p
    BY <1>6, <1>7
  <2>2. KeyOf(Append(p, key)) = key
    BY <1>1, <1>4, AppendFacts DEF KeyOf
  <2>3. QED
    BY <2>1, <2>2
<1>13. QED
  BY <1>1, <1>3, <1>4, <1>5, <1>6, <1>7, <1>8, <1>9, <1>10, <1>11, <1>12

\* A child has candidates, those of its parent that can have its key.
LEMMA GroupFacts ==
  ASSUME NEW cands, NEW mask, NEW key \in GroupKeys(cands, mask)
  PROVE  Group(cands, mask, key) \subseteq cands /\ Group(cands, mask, key) # {}
BY DEF Group, GroupKeys

LEMMA KeysUnchanged ==
  ASSUME UNCHANGED catalog
  PROVE  \A i, m : Keys(i, m)' = Keys(i, m)
<1>1. \A i : FixedFields(i)' = FixedFields(i)
  BY DEF FixedFields
<1>2. \A i : PinnedBits(i)' = PinnedBits(i) /\ PinnedValue(i)' = PinnedValue(i)
  BY <1>1 DEF PinnedBits, PinnedValue
<1>3. QED
  BY <1>2 DEF Keys

LEMMA EdgesNext ==
  ASSUME UNCHANGED catalog,
         \A q \in DOMAIN tree' : tree'[q].mask # {} =>
           \A i \in tree'[q].cands : \A key \in Keys(i, tree'[q].mask) :
             Append(q, key) \in DOMAIN tree' /\ i \in tree'[Append(q, key)].cands
  PROVE  EdgeInv'
BY KeysUnchanged, Zenon DEF EdgeInv

LEMMA EdgesUnchanged ==
  ASSUME EdgeInv, UNCHANGED <<catalog, tree>>
  PROVE  EdgeInv'
<1>1. \A q \in DOMAIN tree' : tree'[q].mask # {} =>
        \A i \in tree'[q].cands : \A key \in Keys(i, tree'[q].mask) :
          Append(q, key) \in DOMAIN tree' /\ i \in tree'[Append(q, key)].cands
  BY DEF EdgeInv
<1>2. UNCHANGED catalog
  OBVIOUS
<1> QED
  BY <1>1, <1>2, EdgesNext, Zenon

LEMMA SwitchStep ==
  ASSUME TreeInv, NEW p \in open, BuildSwitch(p), UNCHANGED <<catalog, ask, word, at, result>>
  PROVE  TreeInv'
<1> DEFINE c == tree[p].cands
<1>1. PICK mask \in Splits(c) :
        /\ tree' = [q \in DOMAIN tree \cup Children(p, mask) |->
                     IF q = p THEN [tree[p] EXCEPT !.mask = mask]
                     ELSE IF q \in Children(p, mask)
                     THEN [cands |-> Group(tree[p].cands, mask, KeyOf(q)), mask |-> {}]
                     ELSE tree[q]]
        /\ open' = (open \ {p}) \cup Children(p, mask)
  BY DEF BuildSwitch
<1> DEFINE C == Children(p, mask)
           K == GroupKeys(c, mask)
<1>2. /\ p \in DOMAIN tree /\ p \in Seq(Word) /\ c \subseteq Treed
      /\ mask \in Word /\ mask # {} /\ K \subseteq Word
      /\ DOMAIN tree' = DOMAIN tree \cup C
      /\ p \notin C /\ DOMAIN tree \cap C = {}
      /\ tree'[p] = [cands |-> c, mask |-> mask]
      /\ \A q \in DOMAIN tree \ {p} : tree'[q] = tree[q]
      /\ \A key \in K : /\ Append(p, key) \in C
                        /\ tree'[Append(p, key)] = [cands |-> Group(c, mask, key), mask |-> {}]
      /\ \A q \in C : \E key \in K : q = Append(p, key)
  BY <1>1, SwitchFacts, Zenon
<1>3. UNCHANGED <<catalog, ask, word, at, result, Treed>>
  BY DEF Treed
<1>4. open' = (open \ {p}) \cup C
  BY <1>1
<1> HIDE DEF C, K, c
<1>leaf. \A q \in C : tree'[q].mask = {}
  <2> TAKE q \in C
  <2>1. PICK key \in K : q = Append(p, key)
    BY <1>2
  <2>2. tree'[q] = [cands |-> Group(c, mask, key), mask |-> {}]
    BY <1>2, <2>1
  <2>3. QED
    BY <2>2
<1>5. TypeOK'
  <2>1. DOMAIN tree' \subseteq Seq(Word)
    <3>1. ASSUME NEW q \in C PROVE q \in Seq(Word)
      <4>1. PICK key \in K : q = Append(p, key)
        BY <1>2
      <4>2. QED
        BY <1>2, <4>1, AppendFacts
    <3>2. QED
      BY <1>2, <3>1 DEF TreeInv, TypeOK
  <2>2. ASSUME NEW q \in DOMAIN tree'
        PROVE  tree'[q] \in [cands : SUBSET Treed, mask : Word] /\ tree'[q].cands # {}
    <3>1. CASE q \in DOMAIN tree \ {p}
      BY <1>2, <3>1 DEF TreeInv, TypeOK
    <3>2. CASE q = p
      BY <1>2, <3>2 DEF TreeInv, TypeOK, c
    <3>3. CASE q \in C
      <4>1. PICK key \in K : q = Append(p, key)
        BY <1>2, <3>3
      <4>2. Group(c, mask, key) \subseteq c /\ Group(c, mask, key) # {}
        BY GroupFacts DEF K
      <4>3. {} \in Word
        BY DEF Word
      <4>4. tree'[q] = [cands |-> Group(c, mask, key), mask |-> {}]
        BY <1>2, <4>1
      <4>5. Group(c, mask, key) \in SUBSET Treed
        BY <1>2, <4>2
      <4>6. QED
        BY <4>2, <4>3, <4>4, <4>5
    <3>4. QED
      BY <1>2, <3>1, <3>2, <3>3
  <2>3. open' \subseteq DOMAIN tree'
    BY <1>2, <1>4 DEF TreeInv, TypeOK
  <2>4. QED
    BY <1>3, <2>1, <2>2, <2>3 DEF TreeInv, TypeOK
<1>6. RootInv'
  BY <1>2, <1>3 DEF TreeInv, RootInv, c
<1>7. ShapeInv'
  <2>1. ASSUME NEW q \in open' PROVE tree'[q].mask = {}
    <3>1. CASE q \in open \ {p}
      BY <1>2, <3>1 DEF TreeInv, TypeOK, ShapeInv
    <3>2. CASE q \in C
      BY <3>2, <1>leaf
    <3>3. QED
      BY <1>4, <3>1, <3>2
  <2>2. ASSUME NEW q \in Seq(Word), NEW key \in Word, Append(q, key) \in DOMAIN tree'
        PROVE  q \in DOMAIN tree' /\ tree'[q].mask # {}
    <3>1. CASE Append(q, key) \in DOMAIN tree
      <4>1. q \in DOMAIN tree /\ tree[q].mask # {}
        BY <3>1 DEF TreeInv, ShapeInv
      <4>2. QED
        BY <1>2, <4>1
    <3>2. CASE Append(q, key) \in C
      <4>1. PICK k \in K : Append(q, key) = Append(p, k)
        BY <1>2, <3>2
      <4>2. k \in Word
        BY <1>2
      <4>3. q = p
        BY <1>2, <4>1, <4>2, AppendFacts
      <4>4. QED
        BY <1>2, <4>3
    <3>3. QED
      BY <1>2, <2>2, <3>1, <3>2
  <2>3. QED
    BY <2>1, <2>2 DEF ShapeInv
<1>8. EdgeInv'
  <2>1. SUFFICES ASSUME NEW q \in DOMAIN tree', tree'[q].mask # {},
                        NEW i \in tree'[q].cands, NEW key \in Keys(i, tree'[q].mask)
                 PROVE  /\ Append(q, key) \in DOMAIN tree'
                        /\ i \in tree'[Append(q, key)].cands
    BY <1>3, EdgesNext
  <2>2. CASE q = p
    <3>1. i \in c /\ key \in Keys(i, mask)
      BY <1>2, <2>1, <2>2
    <3>2. key \in K /\ i \in Group(c, mask, key)
      BY <3>1 DEF K, GroupKeys, Group
    <3>3. Append(p, key) \in C /\ tree'[Append(p, key)] = [cands |-> Group(c, mask, key), mask |-> {}]
      BY <1>2, <3>2, Zenon
    <3>4. tree'[Append(p, key)].cands = Group(c, mask, key)
      BY <3>3
    <3>5. QED
      BY <1>2, <2>2, <3>2, <3>3, <3>4
  <2>3. CASE q \in DOMAIN tree \ {p}
    <3>1. tree[q].mask # {} /\ i \in tree[q].cands /\ key \in Keys(i, tree[q].mask)
      BY <1>2, <2>1, <2>3
    <3>2. Append(q, key) \in DOMAIN tree /\ i \in tree[Append(q, key)].cands
      BY <2>3, <3>1 DEF TreeInv, EdgeInv
    <3>3. QED
      BY <1>2, <3>2 DEF c
  <2>4. CASE q \in C
    BY <1>leaf, <2>1, <2>4
  <2>5. QED
    BY <1>2, <2>2, <2>3, <2>4
<1>9. QED
  BY <1>5, <1>6, <1>7, <1>8 DEF TreeInv

LEMMA TreeInit == Init => TreeInv
<1> SUFFICES ASSUME Init PROVE TreeInv
  OBVIOUS
<1>1. Unanswered = [best |-> NoInstr, hits |-> {}, via |-> "pending"]
  BY DEF Unanswered, NoAnswer
<1>2. {} \in Word /\ << >> \in Seq(Word)
  BY DEF Word
<1>3. \A p \in DOMAIN tree : p = << >> /\ tree[p] = [cands |-> Treed, mask |-> {}] /\ Treed # {}
  BY DEF Init
<1>4. TypeOK
  <2>1. \A p \in DOMAIN tree :
          tree[p] \in [cands : SUBSET Treed, mask : Word] /\ tree[p].cands # {}
    <3> TAKE p \in DOMAIN tree
    <3>1. tree[p] = [cands |-> Treed, mask |-> {}] /\ Treed # {}
      BY <1>3
    <3>2. QED
      BY <1>2, <3>1
  <2>2. DOMAIN tree \subseteq Seq(Word)
    BY <1>2, <1>3
  <2>3. QED
    BY <1>1, <1>2, <2>1, <2>2 DEF Init, TypeOK
<1>5. RootInv
  BY DEF Init, RootInv
<1>6. ShapeInv
  <2>1. \A p \in open : tree[p].mask = {}
    BY <1>3 DEF Init
  <2>2. \A p \in Seq(Word) : \A key \in Word : Append(p, key) \notin DOMAIN tree
    <3> TAKE p \in Seq(Word)
    <3> TAKE key \in Word
    <3>1. Append(p, key) # << >>
      BY AppendFacts
    <3>2. QED
      BY <1>3, <3>1
  <2>3. QED
    BY <2>1, <2>2 DEF ShapeInv
<1>7. EdgeInv
  BY <1>3 DEF EdgeInv
<1>8. QED
  BY <1>4, <1>5, <1>6, <1>7 DEF TreeInv

----------------------------------------------------------------------------
\* The winner.

LEMMA LeastOf ==
  ASSUME NEW T \in SUBSET Nat, T # {}
  PROVE  \E m \in T : \A n \in T : m <= n
<1>1. PICK m \in T : \A n \in T : ~(<<n, m>> \in OpToRel(<, Nat))
  BY NatLessThanWellFounded, WFMin
<1>2. \A n \in T : m <= n
  <2> TAKE n \in T
  <2>1. m \in Nat /\ n \in Nat
    OBVIOUS
  <2>2. ~(<<n, m>> \in {ss \in Nat \X Nat : ss[1] < ss[2]})
    BY <1>1 DEF OpToRel
  <2>3. ~(n < m)
    BY <2>1, <2>2
  <2>4. QED
    BY <2>1, <2>3
<1>3. QED
  BY <1>2

\* Some hit is better than all others: the most fixed bits first, among those
\* a canonical encoding if there is one, and among these the first.
LEMMA BestIsAHit ==
  ASSUME catalog \in Catalogs, NEW hits \in SUBSET Instr, hits # {}
  PROVE  Best(hits) \in hits
<1> DEFINE Pins(i) == Cardinality(PinnedBits(i))
           Loose == {n \in Nat : \E i \in hits : n + Pins(i) = Width}
<1>1. IsFiniteSet(Bit) /\ Cardinality(Bit) = Width
  <2>1. 0 \in Int /\ Width - 1 \in Int
    BY WidthAssumption
  <2>2. IsFiniteSet(Bit) /\ Cardinality(Bit) = IF 0 > Width - 1 THEN 0 ELSE Width - 1 - 0 + 1
    BY <2>1, FS_Interval DEF Bit
  <2>3. QED
    BY <2>2, WidthAssumption
<1>2. ASSUME NEW i \in hits PROVE Pins(i) \in Nat /\ Pins(i) <= Width
  <2>1. PinnedBits(i) \subseteq Bit
    BY PinsInWord DEF Word
  <2>2. QED
    BY <1>1, <2>1, FS_Subset, FS_CardinalityType
<1> HIDE DEF Pins
<1>3. PICK least \in Loose : \A n \in Loose : least <= n
  <2>1. Loose # {}
    <3>1. PICK i \in hits : TRUE
      OBVIOUS
    <3>2. Width - Pins(i) \in Nat /\ (Width - Pins(i)) + Pins(i) = Width
      BY <1>2, WidthAssumption
    <3>3. QED
      BY <3>2
  <2>2. Loose \in SUBSET Nat
    OBVIOUS
  <2> HIDE DEF Loose
  <2>3. QED
    BY <2>1, <2>2, LeastOf
<1> DEFINE Top == {i \in hits : least + Pins(i) = Width}
           Canon == {i \in Top : ~catalog[i].alias}
           First == IF Canon = {} THEN Top ELSE Canon
<1>4. First \in SUBSET Nat /\ First # {} /\ First \subseteq Top
  BY InstrAssumption
<1>5. PICK a \in First : \A b \in First : a <= b
  <2> HIDE DEF First
  <2>1. QED
    BY <1>4, LeastOf
<1>6. ASSUME NEW b \in hits \ {a} PROVE Better(a, b)
  <2>1. a \in hits /\ least + Pins(a) = Width /\ a \in Nat /\ b \in Nat
    BY <1>4, <1>5, InstrAssumption
  <2>2. Pins(a) \in Nat /\ Pins(b) \in Nat /\ Pins(b) <= Width
    BY <1>2, <2>1
  <2>3. least <= Width - Pins(b)
    <3>1. Width - Pins(b) \in Loose
      BY <2>2, WidthAssumption
    <3>2. QED
      BY <1>3, <3>1
  <2>4. Pins(b) <= Pins(a)
    BY <1>3, <2>1, <2>2, <2>3, WidthAssumption
  <2>5. CASE b \notin Top
    <3>1. Pins(b) # Pins(a)
      BY <2>1, <2>5
    <3>2. Pins(a) > Pins(b)
      BY <2>2, <2>4, <3>1
    <3>3. QED
      BY <3>2 DEF Better, Pins
  <2>6. CASE b \in Top
    <3>1. Pins(a) = Pins(b)
      BY <1>3, <2>1, <2>2, <2>6, WidthAssumption
    <3>2. CASE b \in First
      <4>1. a < b
        BY <1>5, <2>1, <3>2
      <4>2. catalog[a].alias <=> catalog[b].alias
        <5>1. catalog[a].alias \in BOOLEAN /\ catalog[b].alias \in BOOLEAN
          BY <2>1, CatalogTypes DEF Encoding
        <5>2. CASE Canon = {}
          BY <1>5, <3>2, <5>2, <5>1
        <5>3. CASE Canon # {}
          BY <1>5, <3>2, <5>3, <5>1
        <5>4. QED
          BY <5>2, <5>3
      <4>3. QED
        BY <3>1, <4>1, <4>2 DEF Better, Pins
    <3>3. CASE b \notin First
      <4>1. ~catalog[a].alias /\ catalog[b].alias
        BY <1>5, <2>6, <3>3
      <4>2. QED
        BY <3>1, <4>1 DEF Better, Pins
    <3>4. QED
      BY <3>2, <3>3
  <2>7. QED
    BY <2>5, <2>6
<1>7. a \in hits
  BY <1>4, <1>5
<1>8. QED
  BY <1>6, <1>7 DEF Best

----------------------------------------------------------------------------
\* The walk.

Hits(cands) == {i \in cands : Matches(i, word)}

\* A walk is over a finished tree, and the node it is at holds every encoding
\* of the tree that matches the word.
RouteInv ==
  /\ ask = "none" => at = << >> /\ result = Unanswered
  /\ ask # "none" => open = {}
  /\ ask # "none" /\ Treed # {} =>
       at \in DOMAIN tree /\ Hits(Treed) \subseteq tree[at].cands

AnswerInv == DecodeIsFlat /\ MatchIsComplete /\ NoRescue

LEMMA ResolveFacts ==
  ASSUME NEW cands \in SUBSET Instr, NEW via \in {"tree", "table"}, catalog \in Catalogs
  PROVE  /\ Resolve(cands, via).hits = Hits(cands)
         /\ Hits(cands) = {} => Resolve(cands, via) = NoAnswer
         /\ Hits(cands) # {} => Resolve(cands, via) =
              [best |-> Best(Hits(cands)), hits |-> Hits(cands), via |-> via]
         /\ Resolve(cands, via) \in [best : Instr \cup {NoInstr}, hits : SUBSET Instr,
                                     via : {"none", "tree", "table"}]
<1>1. Hits(cands) \in SUBSET Instr
  BY DEF Hits
<1>2. CASE Hits(cands) = {}
  <2>1. Resolve(cands, via) = NoAnswer
    BY <1>2 DEF Resolve, Hits
  <2>2. QED
    BY <1>2, <2>1 DEF NoAnswer
<1>3. CASE Hits(cands) # {}
  <2>1. Resolve(cands, via) = [best |-> Best(Hits(cands)), hits |-> Hits(cands), via |-> via]
    BY <1>3 DEF Resolve, Hits
  <2>2. Best(Hits(cands)) \in Instr
    BY <1>1, <1>3, BestIsAHit
  <2>3. QED
    BY <1>1, <1>3, <2>1, <2>2
<1>4. QED
  BY <1>2, <1>3

\* A leaf that is reached has every match among its candidates; elsewhere the
\* walk ends only when the tree has no match.
LEMMA EndOfWalk ==
  ASSUME TreeInv, RouteInv, Walking, ~(IsSwitch(at) /\ EdgeFor(at) \in DOMAIN tree)
  PROVE  /\ IsLeaf(at) => /\ LeafCandidates(at) \in SUBSET Instr
                          /\ Hits(LeafCandidates(at)) =
                               IF ask = "Match" THEN Hits(Treed) ELSE Hits(Instr)
         /\ ~IsLeaf(at) => Hits(Treed) = {}
<1>1. CASE IsLeaf(at)
  <2>1. at \in DOMAIN tree /\ tree[at].cands \in SUBSET Treed /\ Treed # {}
    BY <1>1 DEF IsLeaf, TreeInv, TypeOK
  <2>2. Hits(Treed) \subseteq tree[at].cands
    BY <2>1 DEF RouteInv, Walking
  <2>3. Treed \cup Untreed = Instr /\ Treed \subseteq Instr
    BY DEF Treed, Untreed
  <2>4. QED
    BY <1>1, <2>1, <2>2, <2>3 DEF LeafCandidates, Hits
<1>2. CASE ~IsLeaf(at)
  <2>1. SUFFICES ASSUME NEW i \in Treed, Matches(i, word) PROVE FALSE
    BY <1>2 DEF Hits
  <2>2. at \in DOMAIN tree /\ i \in tree[at].cands
    BY <2>1 DEF RouteInv, Walking, Hits
  <2>3. tree[at].mask # {} /\ tree[at].mask \in Word /\ word \in Word /\ i \in Instr
    BY <1>2, <2>1, <2>2 DEF IsLeaf, TreeInv, TypeOK, Treed
  <2>4. word \cap tree[at].mask \in Keys(i, tree[at].mask)
    BY <2>1, <2>3, MatchingKey
  <2>5. EdgeFor(at) \in DOMAIN tree
    BY <2>2, <2>3, <2>4 DEF EdgeFor, TreeInv, EdgeInv
  <2>6. QED
    BY <2>2, <2>3, <2>5 DEF IsSwitch
<1>3. QED
  BY <1>1, <1>2

LEMMA DescendKeepsMatches ==
  ASSUME TreeInv, RouteInv, Descend
  PROVE  RouteInv'
<1>1. UNCHANGED <<catalog, tree, open, ask, word, result, Treed, Hits(Treed)>>
  BY DEF Descend, Treed, Hits, Matches, PinnedBits, PinnedValue, FixedFields
<1>2. at' = EdgeFor(at) /\ at' \in DOMAIN tree /\ ask # "none" /\ IsSwitch(at)
  BY DEF Descend, Walking
<1>3. ASSUME NEW i \in Treed, Matches(i, word) PROVE i \in tree[at'].cands
  <2>1. at \in DOMAIN tree /\ i \in tree[at].cands
    BY <1>2, <1>3 DEF RouteInv, Hits
  <2>2. tree[at].mask # {} /\ tree[at].mask \in Word /\ word \in Word /\ i \in Instr
    BY <1>2, <2>1 DEF IsSwitch, TreeInv, TypeOK, Treed
  <2>3. word \cap tree[at].mask \in Keys(i, tree[at].mask)
    BY <1>3, <2>2, MatchingKey
  <2>4. QED
    BY <1>2, <2>1, <2>2, <2>3 DEF EdgeFor, TreeInv, EdgeInv
<1>4. Hits(Treed) \subseteq tree[at'].cands
  BY <1>3 DEF Hits
<1>5. QED
  BY <1>1, <1>2, <1>4 DEF RouteInv

LEMMA AnswerStep ==
  ASSUME TreeInv, RouteInv, Answer
  PROVE  AnswerInv' /\ result' \in [best : Instr \cup {NoInstr}, hits : SUBSET Instr,
                                    via : {"none", "tree", "table"}]
<1>1. /\ UNCHANGED <<catalog, tree, open, ask, word, at>>
      /\ result' = IF AtLeaf = NoAnswer /\ ask = "Decode" THEN Flat ELSE AtLeaf
  BY DEF Answer
<1>2. UNCHANGED <<Flat, Hits(Treed), Hits(Instr), Treed, Untreed>>
  BY <1>1 DEF Flat, Resolve, Best, Better, Hits, Treed, Untreed, Matches, PinnedBits,
     PinnedValue, FixedFields
<1>3. catalog \in Catalogs /\ Instr \in SUBSET Instr
  BY DEF TreeInv, TypeOK
<1>4. /\ IsLeaf(at) => /\ LeafCandidates(at) \in SUBSET Instr
                       /\ Hits(LeafCandidates(at)) =
                            IF ask = "Match" THEN Hits(Treed) ELSE Hits(Instr)
      /\ ~IsLeaf(at) => Hits(Treed) = {}
  BY EndOfWalk, Zenon DEF Answer
<1>5. /\ Flat.hits = Hits(Instr) /\ Flat \in [best : Instr \cup {NoInstr}, hits : SUBSET Instr,
                                              via : {"none", "tree", "table"}]
      /\ Hits(Instr) = {} => Flat = NoAnswer
      /\ Hits(Instr) # {} => Flat = [best |-> Best(Hits(Instr)), hits |-> Hits(Instr), via |-> "table"]
  BY <1>3, ResolveFacts DEF Flat
<1>6. Hits(Instr) = Hits(Treed) \cup Hits(Untreed) /\ Hits(Untreed) \subseteq Untreed
  BY DEF Hits, Treed, Untreed
<1>7. NoAnswer = [best |-> NoInstr, hits |-> {}, via |-> "none"]
  BY DEF NoAnswer
<1>8. AnswerInv' = (/\ (ask = "Decode" /\ result' # Unanswered)
                         \/ (ask = "DecodeTree" /\ result' # Unanswered /\ result' # NoAnswer) =>
                         result'.hits = Flat.hits /\ result'.best = Flat.best
                    /\ ask = "Match" /\ result' # Unanswered => result'.hits = Hits(Treed)
                    /\ ask = "Decode" /\ result' # Unanswered /\ result'.via = "table" =>
                         result'.hits \subseteq Untreed)
  <2>1. {i \in Treed : Matches(i, word)}' = Hits(Treed)
    BY <1>2 DEF Hits
  <2>2. QED
    BY <1>1, <1>2, <2>1 DEF AnswerInv, DecodeIsFlat, MatchIsComplete, NoRescue, Answered,
       Unanswered, NoAnswer
<1> HIDE DEF Flat, Hits, NoAnswer, Unanswered
<1>9. CASE AtLeaf = NoAnswer /\ ask = "Decode"
  <2>1. result' = Flat
    BY <1>1, <1>9
  <2>2. Hits(Treed) = {}
    <3>1. CASE IsLeaf(at)
      <4>1. Resolve(LeafCandidates(at), "tree").hits = {}
        BY <1>7, <1>9, <3>1 DEF AtLeaf
      <4>2. Hits(LeafCandidates(at)) = {}
        BY <1>3, <1>4, <3>1, <4>1, ResolveFacts
      <4>3. QED
        BY <1>4, <1>6, <1>9, <3>1, <4>2
    <3>2. QED
      BY <1>4, <3>1
  <2>3. Flat.hits \subseteq Untreed
    BY <1>5, <1>6, <2>2
  <2>4. QED
    BY <1>5, <1>8, <1>9, <2>1, <2>3
<1>10. CASE ~(AtLeaf = NoAnswer /\ ask = "Decode") /\ IsLeaf(at)
  <2>1. result' = Resolve(LeafCandidates(at), "tree")
    BY <1>1, <1>10 DEF AtLeaf
  <2> DEFINE H == Hits(LeafCandidates(at))
  <2>2. /\ result'.hits = H
        /\ H = {} => result' = NoAnswer
        /\ H # {} => result' = [best |-> Best(H), hits |-> H, via |-> "tree"]
        /\ result' \in [best : Instr \cup {NoInstr}, hits : SUBSET Instr,
                        via : {"none", "tree", "table"}]
    BY <1>3, <1>4, <1>10, <2>1, ResolveFacts
  <2>3. ask = "Match" => result'.hits = Hits(Treed)
    BY <1>4, <1>10, <2>2
  <2>4. ask # "Match" => result'.hits = Flat.hits /\ result'.best = Flat.best
    <3>1. SUFFICES ASSUME ask # "Match"
                   PROVE  result'.hits = Flat.hits /\ result'.best = Flat.best
      OBVIOUS
    <3>2. H = Hits(Instr)
      BY <1>4, <1>10, <3>1
    <3>3. CASE H = {}
      BY <1>5, <2>2, <3>2, <3>3
    <3>4. CASE H # {}
      BY <1>5, <2>2, <3>2, <3>4
    <3>5. QED
      BY <3>3, <3>4
  <2>5. result'.via # "table"
    <3>1. CASE H = {}
      BY <1>7, <2>2, <3>1
    <3>2. CASE H # {}
      BY <2>2, <3>2
    <3>3. QED
      BY <3>1, <3>2
  <2>6. QED
    BY <1>8, <2>2, <2>3, <2>4, <2>5
<1>11. CASE ~(AtLeaf = NoAnswer /\ ask = "Decode") /\ ~IsLeaf(at)
  <2>1. AtLeaf = NoAnswer /\ ask # "Decode" /\ result' = NoAnswer
    BY <1>1, <1>11 DEF AtLeaf
  <2>2. Hits(Treed) = {} /\ result'.hits = {}
    BY <1>4, <1>7, <1>11, <2>1
  <2>3. result' \in [best : Instr \cup {NoInstr}, hits : SUBSET Instr,
                     via : {"none", "tree", "table"}]
    BY <1>7, <2>1
  <2>4. QED
    BY <1>8, <2>1, <2>2, <2>3
<1>12. QED
  BY <1>9, <1>10, <1>11

\* Build steps leave the walk alone, and steps of the walk the tree.
LEMMA BuildStep ==
  ASSUME TreeInv, RouteInv, AnswerInv, Build
  PROVE  TreeInv' /\ RouteInv' /\ AnswerInv'
<1>1. PICK p \in open : BuildLeaf(p) \/ BuildSwitch(p)
  BY DEF Build
<1>2. UNCHANGED <<catalog, ask, word, at, result>>
  BY DEF Build
<1>3. ask = "none" /\ result = Unanswered
  BY <1>1 DEF RouteInv
<1>4. TreeInv'
  <2>1. CASE BuildLeaf(p)
    <3>1. UNCHANGED <<catalog, ask, word, at, result, tree>> /\ open' = open \ {p}
      BY <1>2, <2>1 DEF BuildLeaf
    <3>2. TypeOK'
      BY <3>1 DEF TreeInv, TypeOK, Treed
    <3>3. RootInv' /\ ShapeInv'
      BY <3>1 DEF TreeInv, RootInv, ShapeInv, Treed
    <3>4. EdgeInv'
      BY <3>1, EdgesUnchanged DEF TreeInv
    <3>5. QED
      BY <3>2, <3>3, <3>4 DEF TreeInv
  <2>2. CASE BuildSwitch(p)
    BY <1>2, <2>2, SwitchStep
  <2>3. QED
    BY <1>1, <2>1, <2>2
<1>5. RouteInv' /\ AnswerInv'
  BY <1>2, <1>3 DEF RouteInv, AnswerInv, DecodeIsFlat, MatchIsComplete, NoRescue, Answered,
     Unanswered, NoAnswer
<1>6. QED
  BY <1>4, <1>5

LEMMA TreeUnchanged ==
  ASSUME TreeInv, UNCHANGED <<catalog, tree, open>>,
         ask' \in {"none", "Match", "DecodeTree", "Decode"}, word' \in Word, at' \in Seq(Word),
         result' \in [best : Instr \cup {NoInstr}, hits : SUBSET Instr,
                      via : {"pending", "none", "tree", "table"}]
  PROVE  TreeInv'
<1>1. TypeOK' /\ RootInv' /\ ShapeInv'
  BY DEF TreeInv, TypeOK, RootInv, ShapeInv, Treed
<1>2. EdgeInv'
  BY EdgesUnchanged DEF TreeInv
<1>3. QED
  BY <1>1, <1>2 DEF TreeInv

LEMMA TreeStep ==
  ASSUME TreeInv, RouteInv, AnswerInv, [Next]_vars
  PROVE  TreeInv' /\ RouteInv' /\ AnswerInv'
<1>1. CASE Build
  BY <1>1, BuildStep
<1>2. CASE Descend
  <2>1. UNCHANGED <<catalog, tree, open, ask, word, result>> /\ at' = EdgeFor(at) /\ IsSwitch(at)
    BY <1>2 DEF Descend
  <2>2. at' \in Seq(Word)
    <3>1. at \in Seq(Word) /\ tree[at].mask \in Word /\ word \in Word
      BY <2>1 DEF TreeInv, TypeOK, IsSwitch
    <3>2. QED
      BY <2>1, <3>1 DEF EdgeFor, Word
  <2>3. TreeInv'
    BY <2>1, <2>2, TreeUnchanged DEF TreeInv, TypeOK
  <2>4. result = Unanswered
    BY <1>2 DEF Descend, Walking
  <2>5. AnswerInv'
    BY <2>1, <2>4 DEF AnswerInv, DecodeIsFlat, MatchIsComplete, NoRescue, Answered,
       Unanswered, NoAnswer
  <2>6. QED
    BY <1>2, <2>3, <2>5, DescendKeepsMatches
<1>3. CASE Answer
  <2>1. UNCHANGED <<catalog, tree, open, ask, word, at>> /\ ask # "none"
    BY <1>3 DEF Answer, Walking
  <2>2. AnswerInv' /\ result' \in [best : Instr \cup {NoInstr}, hits : SUBSET Instr,
                                   via : {"none", "tree", "table"}]
    BY <1>3, AnswerStep
  <2>3. TreeInv'
    BY <2>1, <2>2, TreeUnchanged DEF TreeInv, TypeOK
  <2>4. RouteInv'
    BY <2>1 DEF RouteInv, Hits, Treed, Matches, PinnedBits, PinnedValue, FixedFields
  <2>5. QED
    BY <2>2, <2>3, <2>4
<1>4. CASE Return
  <2>1. /\ UNCHANGED <<catalog, tree, open>>
        /\ ask' = "none" /\ word' = {} /\ at' = << >> /\ result' = Unanswered
    BY <1>4 DEF Return
  <2>2. Unanswered = [best |-> NoInstr, hits |-> {}, via |-> "pending"]
    BY DEF Unanswered, NoAnswer
  <2>3. TreeInv'
    BY <2>1, <2>2, TreeUnchanged DEF Word
  <2>4. RouteInv'
    BY <2>1 DEF RouteInv, Unanswered, NoAnswer
  <2>5. AnswerInv'
    BY <2>1 DEF AnswerInv, DecodeIsFlat, MatchIsComplete, NoRescue, Answered, Unanswered, NoAnswer
  <2>6. QED
    BY <2>3, <2>4, <2>5
<1>5. ASSUME NEW kind \in {"Match", "DecodeTree", "Decode"}, NEW w \in Word, Ask(kind, w)
      PROVE  TreeInv' /\ RouteInv' /\ AnswerInv'
  <2>1. /\ UNCHANGED <<catalog, tree, open, at, result>> /\ ask' = kind /\ word' = w
        /\ open = {} /\ ask = "none"
    BY <1>5 DEF Ask
  <2>2. TreeInv'
    BY <2>1, TreeUnchanged DEF TreeInv, TypeOK
  <2>3. at' = << >> /\ result' = Unanswered
    BY <2>1 DEF RouteInv
  <2>4. RouteInv'
    <3>1. Treed # {} => << >> \in DOMAIN tree /\ tree[<< >>].cands = Treed
      BY DEF TreeInv, RootInv
    <3>2. Treed' = Treed
      BY <2>1 DEF Treed
    <3>3. Treed # {} => at' \in DOMAIN tree' /\ Hits(Treed)' \subseteq tree'[at'].cands
      BY <2>1, <2>3, <3>1, <3>2 DEF Hits
    <3>4. QED
      BY <2>1, <2>3, <3>2, <3>3 DEF RouteInv
  <2>5. AnswerInv'
    BY <2>3 DEF AnswerInv, DecodeIsFlat, MatchIsComplete, NoRescue, Answered, Unanswered, NoAnswer
  <2>6. QED
    BY <2>2, <2>4, <2>5
<1>6. CASE UNCHANGED vars
  <2>1. UNCHANGED <<catalog, tree, open, ask, word, at, result>>
    BY <1>6 DEF vars
  <2>2. TreeInv'
    BY <2>1, TreeUnchanged DEF TreeInv, TypeOK
  <2>3. RouteInv'
    BY <2>1 DEF RouteInv, Hits, Treed, Matches, PinnedBits, PinnedValue, FixedFields,
       Unanswered, NoAnswer
  <2>4. AnswerInv'
    <3>1. UNCHANGED <<Flat, {i \in Treed : Matches(i, word)}, Untreed>>
      BY <2>1 DEF Flat, Resolve, Best, Better, Treed, Untreed, Matches, PinnedBits, PinnedValue,
         FixedFields
    <3>2. QED
      BY <2>1, <3>1, Zenon DEF AnswerInv, DecodeIsFlat, MatchIsComplete, NoRescue, Answered,
         Unanswered, NoAnswer
  <2>5. QED
    BY <2>2, <2>3, <2>4
<1>7. QED
  BY <1>1, <1>2, <1>3, <1>4, <1>5, <1>6 DEF Next

LEMMA TreeHolds == Spec => [](TreeInv /\ RouteInv /\ AnswerInv)
<1>1. Init => RouteInv /\ AnswerInv
  BY DEF Init, RouteInv, AnswerInv, DecodeIsFlat, MatchIsComplete, NoRescue, Answered
<1>2. QED
  BY <1>1, TreeInit, TreeStep, PTL DEF Spec

\* Types of the tree and the walk, for every catalog and every width.
THEOREM TypesHold == Spec => []TypeOK
<1>1. TreeInv => TypeOK
  BY DEF TreeInv
<1>2. QED
  BY <1>1, TreeHolds, PTL

\* The tree answers what the flat table answers: the same winner and peers.
THEOREM DecodersAgree == Spec => []DecodeIsFlat
<1>1. AnswerInv => DecodeIsFlat
  BY DEF AnswerInv
<1>2. QED
  BY <1>1, TreeHolds, PTL

\* Match reports every matching encoding of the tree.
THEOREM LeavesAreComplete == Spec => []MatchIsComplete
<1>1. AnswerInv => MatchIsComplete
  BY DEF AnswerInv
<1>2. QED
  BY <1>1, TreeHolds, PTL

\* The table never rescues a word that the tree misroutes.
THEOREM TableNeverRescues == Spec => []NoRescue
<1>1. AnswerInv => NoRescue
  BY DEF AnswerInv
<1>2. QED
  BY <1>1, TreeHolds, PTL

----------------------------------------------------------------------------
\* Narrowing.

LEMMA NarrowStep ==
  ASSUME TreeInv, Narrowing, Build
  PROVE  Narrowing'
<1>1. PICK p \in open : BuildLeaf(p) \/ BuildSwitch(p)
  BY DEF Build
<1>2. Treed' = Treed /\ IsFiniteSet(Treed) /\ Cardinality(Treed) \in Nat
  BY InstrAssumption, FS_Subset, FS_CardinalityType DEF Build, Treed
<1>3. CASE BuildLeaf(p)
  BY <1>2, <1>3 DEF BuildLeaf, Narrowing
<1>4. CASE BuildSwitch(p)
  <2>1. PICK mask \in Splits(tree[p].cands) :
          tree' = [q \in DOMAIN tree \cup Children(p, mask) |->
                     IF q = p THEN [tree[p] EXCEPT !.mask = mask]
                     ELSE IF q \in Children(p, mask)
                     THEN [cands |-> Group(tree[p].cands, mask, KeyOf(q)), mask |-> {}]
                     ELSE tree[q]]
    BY <1>4 DEF BuildSwitch
  <2> DEFINE c == tree[p].cands
             K == GroupKeys(c, mask)
  <2>2. /\ p \in DOMAIN tree /\ p \in Seq(Word) /\ c \subseteq Treed /\ K \subseteq Word
        /\ DOMAIN tree' = DOMAIN tree \cup Children(p, mask)
        /\ tree'[p] = [cands |-> c, mask |-> mask]
        /\ \A q \in DOMAIN tree \ {p} : tree'[q] = tree[q]
        /\ \A key \in K : tree'[Append(p, key)] = [cands |-> Group(c, mask, key), mask |-> {}]
        /\ \A q \in Children(p, mask) : \E key \in K : q = Append(p, key)
    BY <2>1, SwitchFacts, Zenon
  <2>3. \A key \in K : Group(c, mask, key) # c
    BY DEF Splits, Shrinks
  <2>4. SUFFICES ASSUME NEW q \in DOMAIN tree'
                 PROVE  Len(q) + Cardinality(tree'[q].cands) <= Cardinality(Treed)
    BY <1>2 DEF Narrowing
  <2>5. CASE q \in DOMAIN tree \ {p}
    BY <2>2, <2>5 DEF Narrowing
  <2>6. CASE q = p
    BY <2>2, <2>6 DEF Narrowing
  <2>7. CASE q \in Children(p, mask)
    <3>1. PICK key \in K : q = Append(p, key)
      BY <2>2, <2>7
    <3>2. tree'[q] = [cands |-> Group(c, mask, key), mask |-> {}]
      BY <2>2, <3>1
    <3>3. IsFiniteSet(c) /\ Group(c, mask, key) \subseteq c /\ Group(c, mask, key) # c
      BY <1>2, <2>2, <2>3, FS_Subset DEF Group
    <3>4. /\ Cardinality(Group(c, mask, key)) \in Nat /\ Cardinality(c) \in Nat
          /\ Cardinality(Group(c, mask, key)) < Cardinality(c)
      BY <3>3, FS_Subset, FS_CardinalityType
    <3>5. Len(q) = Len(p) + 1 /\ Len(p) \in Nat
      BY <2>2, <3>1, AppendFacts
    <3>6. Len(p) + Cardinality(c) <= Cardinality(Treed)
      BY <2>2 DEF Narrowing
    <3>7. tree'[q].cands = Group(c, mask, key)
      BY <3>2
    <3> HIDE DEF c
    <3>8. QED
      BY <1>2, <3>4, <3>5, <3>6, <3>7
  <2>8. QED
    BY <2>2, <2>5, <2>6, <2>7
<1>5. QED
  BY <1>1, <1>3, <1>4

\* No path of the tree is longer than there are encodings.
THEOREM PathsNarrow == Spec => []Narrowing
<1>1. Init => Narrowing
  <2>1. SUFFICES ASSUME Init, NEW p \in DOMAIN tree
                 PROVE  Len(p) + Cardinality(tree[p].cands) <= Cardinality(Treed)
    BY DEF Narrowing
  <2>2. p = << >> /\ tree[p] = [cands |-> Treed, mask |-> {}]
    BY <2>1 DEF Init
  <2>3. Cardinality(Treed) \in Nat
    BY InstrAssumption, FS_Subset, FS_CardinalityType DEF Treed
  <2>4. QED
    BY <2>2, <2>3
<1>2. ASSUME TreeInv, Narrowing, [Next]_vars PROVE Narrowing'
  <2>1. CASE Build
    BY <1>2, <2>1, NarrowStep
  <2>2. CASE ~Build
    <3>1. UNCHANGED <<catalog, tree>>
      BY <1>2, <2>2 DEF Next, Descend, Answer, Return, Ask, vars
    <3>2. QED
      BY <1>2, <3>1 DEF Narrowing, Treed
  <2>3. QED
    BY <2>1, <2>2
<1>3. QED
  BY <1>1, <1>2, TreeHolds, PTL DEF Spec

----------------------------------------------------------------------------
\* Replication.

\* The candidates filed at the switches of a depth.
SwitchedAt(d) ==
  UNION {{p} \X tree[p].cands : p \in {q \in DOMAIN tree : Len(q) = d /\ tree[q].mask # {}}}

\* Only a node that became a switch filed anything below it: a level is bounded
\* by what the switches of the level above hold, not by all of that level.
LevelInv ==
  /\ Cardinality(FiledAt(0)) <= Cardinality(Treed)
  /\ \A d \in Nat :
       /\ IsFiniteSet(FiledAt(d))
       /\ Cardinality(FiledAt(d + 1)) <= ReplicationBudget * Cardinality(SwitchedAt(d))

LEMMA FiledElements ==
  \A d, x :
    /\ x \in FiledAt(d) <=>
         \E p \in DOMAIN tree : Len(p) = d /\ \E i \in tree[p].cands : x = <<p, i>>
    /\ x \in SwitchedAt(d) <=>
         \E p \in DOMAIN tree : /\ Len(p) = d /\ tree[p].mask # {}
                                /\ \E i \in tree[p].cands : x = <<p, i>>
BY DEF FiledAt, SwitchedAt

LEMMA SwitchedFiled == \A d : SwitchedAt(d) \subseteq FiledAt(d)
BY FiledElements

LEMMA TreedFinite ==
  /\ IsFiniteSet(Treed) /\ Cardinality(Treed) \in Nat
  /\ \A c \in SUBSET Treed : IsFiniteSet(c) /\ Cardinality(c) \in Nat
<1>1. IsFiniteSet(Treed)
  BY InstrAssumption, FS_Subset DEF Treed
<1>2. QED
  BY <1>1, FS_Subset, FS_CardinalityType

\* Pairing every member of a set with the same value counts the set again.
LEMMA PairCount ==
  ASSUME NEW p, NEW c, IsFiniteSet(c)
  PROVE  IsFiniteSet({p} \X c) /\ Cardinality({p} \X c) = Cardinality(c)
<1>1. IsFiniteSet({p}) /\ Cardinality({p}) = 1
  BY FS_Singleton
<1>2. IsFiniteSet({p} \X c) /\ Cardinality({p} \X c) = 1 * Cardinality(c)
  BY <1>1, FS_Product
<1>3. Cardinality(c) \in Nat
  BY FS_CardinalityType
<1>4. QED
  BY <1>2, <1>3

\* What the children of a split hold is what replicationCost counted.
LEMMA ChildrenCount ==
  ASSUME catalog \in Catalogs, NEW c \in SUBSET Treed, NEW mask \in Word, NEW p \in Seq(Word)
  PROVE  LET filed == UNION {{Append(p, key)} \X Group(c, mask, key) : key \in GroupKeys(c, mask)}
         IN  IsFiniteSet(filed) /\ IsFiniteSet(Filings(c, mask))
             /\ Cardinality(filed) <= Cardinality(Filings(c, mask))
<1> DEFINE filed == UNION {{Append(p, key)} \X Group(c, mask, key) : key \in GroupKeys(c, mask)}
           F == Filings(c, mask)
           f == [x \in F |-> <<Append(p, x[2]), x[1]>>]
<1>1. c \subseteq Instr
  BY DEF Treed
<1>2. \A x : x \in F <=> \E i \in c : \E key \in Keys(i, mask) : x = <<i, key>>
  BY DEF Filings
<1>3. \A x : x \in filed <=> \E key \in GroupKeys(c, mask) : \E i \in Group(c, mask, key) :
                               x = <<Append(p, key), i>>
  OBVIOUS
<1>4. \A x : x \in filed <=> \E i \in c : \E key \in Keys(i, mask) : x = <<Append(p, key), i>>
  BY <1>3 DEF GroupKeys, Group
<1>5. IsFiniteSet(F)
  <2>1. IsFiniteSet(Word)
    <3>1. IsFiniteSet(Bit)
      BY WidthAssumption, FS_Interval DEF Bit
    <3>2. QED
      BY <3>1, FS_SUBSET DEF Word
  <2>2. IsFiniteSet(c \X Word)
    BY <2>1, TreedFinite, FS_Product
  <2>3. F \subseteq c \X Word
    BY <1>1, <1>2, KeysInWord
  <2>4. QED
    BY <2>2, <2>3, FS_Subset
<1>6. f \in Surjection(F, filed)
  <2>1. \A i, key : <<i, key>> \in F => f[<<i, key>>] = <<Append(p, key), i>>
    OBVIOUS
  <2> HIDE DEF F, filed
  <2>2. ASSUME NEW x \in F PROVE f[x] \in filed
    <3>1. PICK i \in c : \E key \in Keys(i, mask) : x = <<i, key>>
      BY <1>2
    <3>2. PICK key \in Keys(i, mask) : x = <<i, key>>
      BY <3>1
    <3>3. <<Append(p, key), i>> \in filed
      BY <1>4
    <3>4. QED
      BY <2>1, <3>2, <3>3
  <2>3. ASSUME NEW y \in filed PROVE \E x \in F : f[x] = y
    <3>1. PICK i \in c : \E key \in Keys(i, mask) : y = <<Append(p, key), i>>
      BY <1>4
    <3>2. PICK key \in Keys(i, mask) : y = <<Append(p, key), i>>
      BY <3>1
    <3>3. <<i, key>> \in F
      BY <1>2
    <3>4. QED
      BY <2>1, <3>2, <3>3
  <2>4. QED
    BY <2>2, <2>3 DEF Surjection
<1>7. IsFiniteSet(filed) /\ Cardinality(filed) <= Cardinality(F)
  <2> HIDE DEF f, F, filed
  <2>1. QED
    BY <1>5, <1>6, FS_Surjection
<1>8. QED
  BY <1>5, <1>7

LEMMA LevelSwitch ==
  ASSUME TreeInv, LevelInv, NEW p \in open, BuildSwitch(p), UNCHANGED catalog
  PROVE  LevelInv'
<1> DEFINE c == tree[p].cands
<1>1. PICK mask \in Splits(c) :
        tree' = [q \in DOMAIN tree \cup Children(p, mask) |->
                     IF q = p THEN [tree[p] EXCEPT !.mask = mask]
                     ELSE IF q \in Children(p, mask)
                     THEN [cands |-> Group(tree[p].cands, mask, KeyOf(q)), mask |-> {}]
                     ELSE tree[q]]
  BY DEF BuildSwitch
<1> DEFINE C == Children(p, mask)
           K == GroupKeys(c, mask)
           new == UNION {{Append(p, key)} \X Group(c, mask, key) : key \in K}
<1>2. /\ p \in DOMAIN tree /\ p \in Seq(Word) /\ c \in SUBSET Treed
      /\ mask \in Word /\ mask # {} /\ K \subseteq Word
      /\ DOMAIN tree' = DOMAIN tree \cup C
      /\ p \notin C /\ DOMAIN tree \cap C = {}
      /\ tree'[p] = [cands |-> c, mask |-> mask]
      /\ \A q \in DOMAIN tree \ {p} : tree'[q] = tree[q]
      /\ \A key \in K : /\ Append(p, key) \in C
                        /\ tree'[Append(p, key)] = [cands |-> Group(c, mask, key), mask |-> {}]
      /\ \A q \in C : \E key \in K : q = Append(p, key)
  BY <1>1, SwitchFacts, Zenon
<1>3. tree[p].mask = {} /\ Treed' = Treed
  BY DEF TreeInv, ShapeInv, Treed
<1>4. Cardinality(Filings(c, mask)) <= ReplicationBudget * Cardinality(c)
  BY DEF Splits, WithinBudget
<1>5. IsFiniteSet(new) /\ IsFiniteSet(Filings(c, mask)) /\ Cardinality(new) <= Cardinality(Filings(c, mask))
  BY <1>2, ChildrenCount DEF TreeInv, TypeOK
<1>6. \A x : x \in new <=> \E key \in K : \E i \in Group(c, mask, key) : x = <<Append(p, key), i>>
  OBVIOUS
<1>7. \A q \in C : Len(q) = Len(p) + 1
  BY <1>2, AppendFacts
<1>8. PICK n \in Nat, m \in Nat : n = Len(p) /\ m = n + 1
  BY <1>2
<1> HIDE DEF new, K, C, c
<1>9. /\ tree'[p].cands = c /\ tree'[p].mask = mask
      /\ \A key \in K : /\ tree'[Append(p, key)].cands = Group(c, mask, key)
                        /\ tree'[Append(p, key)].mask = {}
  <2>1. tree'[p].cands = c /\ tree'[p].mask = mask
    BY <1>2
  <2>2. ASSUME NEW key \in K
        PROVE  /\ tree'[Append(p, key)].cands = Group(c, mask, key)
               /\ tree'[Append(p, key)].mask = {}
    <3>1. tree'[Append(p, key)] = [cands |-> Group(c, mask, key), mask |-> {}]
      BY <1>2
    <3>2. QED
      BY <3>1
  <2>3. QED
    BY <2>1, <2>2
<1>10. \A d \in Nat : d # m => FiledAt(d)' = FiledAt(d)
  <2> TAKE d \in Nat
  <2>1. HAVE d # m
  <2>2. \A q : q \in DOMAIN tree' /\ Len(q) = d <=> q \in DOMAIN tree /\ Len(q) = d
    BY <1>2, <1>7, <1>8, <2>1
  <2>3. \A q \in DOMAIN tree : tree'[q].cands = tree[q].cands
    BY <1>2, <1>9 DEF c
  <2>4. QED
    BY <2>2, <2>3, Zenon DEF FiledAt
<1>11. FiledAt(m)' = FiledAt(m) \cup new
  <2>1. \A q \in DOMAIN tree : tree'[q].cands = tree[q].cands
    BY <1>2, <1>9 DEF c
  <2>2. \A x : x \in new <=> \E q \in C : \E i \in tree'[q].cands : x = <<q, i>>
    <3>1. \A q \in C : \E key \in K : q = Append(p, key) /\ tree'[q].cands = Group(c, mask, key)
      BY <1>2, <1>9
    <3>2. \A key \in K : \E q \in C : q = Append(p, key) /\ tree'[q].cands = Group(c, mask, key)
      BY <1>2, <1>9
    <3>3. ASSUME NEW x, NEW q \in C, NEW i \in tree'[q].cands, x = <<q, i>> PROVE x \in new
      BY <1>6, <3>1, <3>3
    <3>4. ASSUME NEW x \in new PROVE \E q \in C : \E i \in tree'[q].cands : x = <<q, i>>
      <4>1. PICK key \in K : \E i \in Group(c, mask, key) : x = <<Append(p, key), i>>
        BY <1>6
      <4>2. PICK q \in C : q = Append(p, key) /\ tree'[q].cands = Group(c, mask, key)
        BY <3>2
      <4>3. QED
        BY <4>1, <4>2
    <3>5. QED
      BY <3>3, <3>4
  <2>3. \A x : x \in FiledAt(m)' <=>
                 \E q \in DOMAIN tree' : Len(q) = m /\ \E i \in tree'[q].cands : x = <<q, i>>
    BY DEF FiledAt
  <2>4. QED
    BY <1>2, <1>7, <1>8, <2>1, <2>2, <2>3, FiledElements
<1>12. \A d \in Nat : d # n => SwitchedAt(d)' = SwitchedAt(d)
  <2> TAKE d \in Nat
  <2>1. HAVE d # n
  <2>2. \A q \in C : tree'[q].mask = {}
    BY <1>2, <1>9
  <2>3. \A q : q \in DOMAIN tree' /\ Len(q) = d /\ tree'[q].mask # {} <=>
               q \in DOMAIN tree /\ Len(q) = d /\ tree[q].mask # {}
    BY <1>2, <1>8, <2>1, <2>2
  <2>4. \A q \in DOMAIN tree : Len(q) = d => tree'[q] = tree[q]
    BY <1>2, <1>8, <2>1
  <2>5. QED
    BY <2>3, <2>4 DEF SwitchedAt
<1>13. SwitchedAt(n)' = SwitchedAt(n) \cup ({p} \X c)
  <2>1. \A x : x \in SwitchedAt(n)' <=>
                 \E q \in DOMAIN tree' : /\ Len(q) = n /\ tree'[q].mask # {}
                                         /\ \E i \in tree'[q].cands : x = <<q, i>>
    BY DEF SwitchedAt
  <2>2. \A q \in C : Len(q) # n
    BY <1>7, <1>8
  <2>3. QED
    BY <1>2, <1>3, <1>8, <1>9, <2>1, <2>2, FiledElements
<1>14. SwitchedAt(n) \cap ({p} \X c) = {}
  BY <1>3, <1>8, FiledElements
<1>15. IsFiniteSet(c) /\ Cardinality(c) \in Nat
  BY <1>2, TreedFinite
<1>16. \A d \in Nat : /\ IsFiniteSet(SwitchedAt(d)) /\ IsFiniteSet(FiledAt(d))
                      /\ Cardinality(SwitchedAt(d)) \in Nat /\ Cardinality(FiledAt(d)) \in Nat
  BY SwitchedFiled, FS_Subset, FS_CardinalityType DEF LevelInv
<1>17. Cardinality(SwitchedAt(n)') = Cardinality(SwitchedAt(n)) + Cardinality(c)
  <2>1. IsFiniteSet({p} \X c) /\ Cardinality({p} \X c) = Cardinality(c)
    BY <1>15, PairCount
  <2>2. Cardinality(SwitchedAt(n) \cap ({p} \X c)) = 0
    BY <1>14, FS_EmptySet
  <2>3. Cardinality(SwitchedAt(n)') =
          Cardinality(SwitchedAt(n)) + Cardinality(c) - 0
    BY <1>8, <1>13, <1>16, <2>1, <2>2, FS_Union
  <2>4. QED
    BY <1>8, <1>15, <1>16, <2>3
<1>18. /\ IsFiniteSet(FiledAt(m)')
       /\ Cardinality(FiledAt(m)') <= Cardinality(FiledAt(m)) + Cardinality(new)
  <2> DEFINE A == FiledAt(m)
  <2>1. IsFiniteSet(A) /\ Cardinality(A) \in Nat
    BY <1>8, <1>16
  <2>2. Cardinality(new) \in Nat /\ IsFiniteSet(A \cap new)
    BY <1>5, <2>1, FS_CardinalityType, FS_Subset
  <2>3. Cardinality(A \cap new) \in Nat
    BY <2>2, FS_CardinalityType
  <2>4. /\ IsFiniteSet(A \cup new)
        /\ Cardinality(A \cup new) = Cardinality(A) + Cardinality(new) - Cardinality(A \cap new)
    BY <1>5, <2>1, FS_Union
  <2>5. QED
    BY <1>11, <2>1, <2>2, <2>3, <2>4
<1>19. Cardinality(FiledAt(m)') <= ReplicationBudget * Cardinality(SwitchedAt(n)')
  <2>1. Cardinality(FiledAt(m)) <= ReplicationBudget * Cardinality(SwitchedAt(n))
    BY <1>8 DEF LevelInv
  <2>2. Cardinality(new) \in Nat /\ Cardinality(new) <= ReplicationBudget * Cardinality(c)
    <3>1. Cardinality(new) \in Nat
      BY <1>5, FS_CardinalityType
    <3>2. Cardinality(Filings(c, mask)) \in Nat
      BY <1>5, FS_CardinalityType
    <3>3. QED
      BY <1>4, <1>5, <1>15, <3>1, <3>2 DEF ReplicationBudget
  <2>4. Cardinality(FiledAt(m)) \in Nat /\ Cardinality(SwitchedAt(n)) \in Nat
    BY <1>8, <1>16
  <2>5. IsFiniteSet(FiledAt(m)') /\ Cardinality(FiledAt(m)') \in Nat
    BY <1>18, FS_CardinalityType
  <2>6. QED
    BY <1>15, <1>17, <1>18, <2>1, <2>2, <2>4, <2>5 DEF ReplicationBudget
<1>20. Cardinality(FiledAt(0)') <= Cardinality(Treed')
  <2>1. 0 \in Nat /\ 0 # m
    BY <1>8
  <2>2. FiledAt(0)' = FiledAt(0)
    BY <1>10, <2>1, Zenon
  <2>3. Cardinality(FiledAt(0)') = Cardinality(FiledAt(0))
    BY <2>2, Zenon
  <2>4. QED
    BY <1>3, <2>3 DEF LevelInv
<1>21. ASSUME NEW d \in Nat
       PROVE  /\ IsFiniteSet(FiledAt(d)')
              /\ Cardinality(FiledAt(d + 1)') <= ReplicationBudget * Cardinality(SwitchedAt(d)')
  <2>1. IsFiniteSet(FiledAt(d)')
    BY <1>10, <1>16, <1>18
  <2>2. CASE d = n
    <3>1. d = n /\ d + 1 = m
      BY <1>8, <2>2
    <3>2. Cardinality(FiledAt(d + 1)') <= ReplicationBudget * Cardinality(SwitchedAt(d)')
      BY <1>19, <3>1
    <3>3. QED
      BY <2>1, <3>2
  <2>3. CASE d # n
    <3>1. FiledAt(d + 1)' = FiledAt(d + 1) /\ SwitchedAt(d)' = SwitchedAt(d)
      BY <1>8, <1>10, <1>12, <2>3
    <3>2. QED
      BY <2>1, <3>1 DEF LevelInv
  <2>4. QED
    BY <2>2, <2>3
<1>22. QED
  BY <1>20, <1>21 DEF LevelInv

\* A wildcard may be filed under many keys, yet no level of the tree holds more
\* than ReplicationBudget times the candidates of the level above.
THEOREM ReplicationIsBounded == Spec => []ReplicationBounded
<1>1. ASSUME Init PROVE LevelInv
  <2>1. \A d, x : x \in FiledAt(d) => d = 0 /\ x \in {<< >>} \X Treed
    BY <1>1, FiledElements DEF Init
  <2>2. IsFiniteSet({<< >>} \X Treed) /\ Cardinality({<< >>} \X Treed) = Cardinality(Treed)
    BY TreedFinite, PairCount
  <2>3. \A d : FiledAt(d) \in SUBSET ({<< >>} \X Treed)
    BY <2>1
  <2>4. \A d : IsFiniteSet(FiledAt(d)) /\ Cardinality(FiledAt(d)) <= Cardinality(Treed)
    BY <2>2, <2>3, FS_Subset
  <2>5. ASSUME NEW d \in Nat
        PROVE  Cardinality(FiledAt(d + 1)) <= ReplicationBudget * Cardinality(SwitchedAt(d))
    <3>1. FiledAt(d + 1) = {}
      BY <2>1
    <3>2. Cardinality(SwitchedAt(d)) \in Nat
      BY <2>4, SwitchedFiled, FS_Subset, FS_CardinalityType
    <3>3. Cardinality(FiledAt(d + 1)) = 0
      BY <3>1, FS_EmptySet
    <3>4. QED
      BY <3>2, <3>3 DEF ReplicationBudget
  <2>6. QED
    BY <2>4, <2>5 DEF LevelInv
<1>2. ASSUME TreeInv, LevelInv, [Next]_vars PROVE LevelInv'
  <2>1. CASE Build
    <3>1. PICK p \in open : BuildLeaf(p) \/ BuildSwitch(p)
      BY <2>1 DEF Build
    <3>2. UNCHANGED catalog
      BY <2>1 DEF Build
    <3>3. CASE BuildLeaf(p)
      BY <1>2, <3>2, <3>3 DEF BuildLeaf, LevelInv, FiledAt, SwitchedAt, Treed
    <3>4. CASE BuildSwitch(p)
      BY <1>2, <3>2, <3>4, LevelSwitch
    <3>5. QED
      BY <3>1, <3>3, <3>4
  <2>2. CASE ~Build
    <3>1. UNCHANGED <<catalog, tree>>
      BY <1>2, <2>2 DEF Next, Descend, Answer, Return, Ask, vars
    <3>2. QED
      BY <1>2, <3>1 DEF LevelInv, FiledAt, SwitchedAt, Treed
  <2>3. QED
    BY <2>1, <2>2
<1>3. ASSUME LevelInv PROVE ReplicationBounded
  <2>1. SUFFICES ASSUME NEW d \in 0..MaxDepth
                 PROVE  Cardinality(FiledAt(d + 1)) <= ReplicationBudget * Cardinality(FiledAt(d))
    BY <1>3 DEF LevelInv, ReplicationBounded
  <2>2. d \in Nat
    OBVIOUS
  <2>3. Cardinality(FiledAt(d + 1)) <= ReplicationBudget * Cardinality(SwitchedAt(d))
    BY <1>3, <2>2 DEF LevelInv
  <2>4. /\ IsFiniteSet(FiledAt(d)) /\ IsFiniteSet(FiledAt(d + 1))
        /\ IsFiniteSet(SwitchedAt(d)) /\ Cardinality(SwitchedAt(d)) <= Cardinality(FiledAt(d))
    BY <1>3, <2>2, SwitchedFiled, FS_Subset DEF LevelInv
  <2>5. /\ Cardinality(FiledAt(d)) \in Nat /\ Cardinality(SwitchedAt(d)) \in Nat
        /\ Cardinality(FiledAt(d + 1)) \in Nat
    BY <2>4, FS_CardinalityType
  <2>6. QED
    BY <2>3, <2>4, <2>5 DEF ReplicationBudget
<1>4. QED
  BY <1>1, <1>2, <1>3, TreeHolds, PTL DEF Spec
=============================================================================
