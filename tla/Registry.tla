------------------------------- MODULE Registry -------------------------------
(***************************************************************************)
(* pkg/arm/registry.go: the instructions in the order they were added, and *)
(* the indexes filled when they are.  An instruction is a pointer in the   *)
(* code: here its place in the registry, so that an index still leads to   *)
(* the instruction after a later pass has rewritten it.                    *)
(***************************************************************************)
EXTENDS Naturals, Sequences, SequencesExt, FiniteSets, FiniteSetsExt, TLC

CONSTANT UpperCase   \* for the words strings.ToUpper changes, what it makes of them

ASSUME UpperAssumption == \A w \in DOMAIN UpperCase : UpperCase[w] \notin DOMAIN UpperCase

\* strings.ToUpper on a mnemonic, which is a sequence of words.
Upper(m) == [k \in DOMAIN m |-> IF m[k] \in DOMAIN UpperCase THEN UpperCase[m[k]] ELSE m[k]]

NewRegistry ==
  [instructions |-> << >>, byEncodingID |-> << >>, byMnemonic |-> << >>,
   byClass |-> << >>, byFeature |-> << >>]

\* validateInstruction: the width is 32 for everything Pass 1 yields.
ValidInstruction(instr) == instr.encodingID # << >> /\ instr.mnemonic # << >>

\* index[key] = k
Put(index, key, k) ==
  [x \in DOMAIN index \cup {key} |-> IF x = key THEN k ELSE index[x]]

\* index[key] = append(index[key], k)
Filed(index, key, k) ==
  [x \in DOMAIN index \cup {key} |->
     (IF x \in DOMAIN index THEN index[x] ELSE << >>)
       \o (IF x = key THEN <<k>> ELSE << >>)]

\* A feature named twice files the instruction twice.
FiledUnder(index, keys, k) ==
  [x \in DOMAIN index \cup ToSet(keys) |->
     (IF x \in DOMAIN index THEN index[x] ELSE << >>)
       \o [j \in 1..Cardinality({i \in DOMAIN keys : keys[i] = x}) |-> k]]

Rejects_WithoutDuplicates(reg, instr) == ~ValidInstruction(instr)

Rejects(reg, instr) ==
  ~ValidInstruction(instr) \/ instr.encodingID \in DOMAIN reg.byEncodingID

Add(reg, instr) ==
  LET k == Len(reg.instructions) + 1
  IN  IF Rejects(reg, instr) THEN reg
      ELSE [instructions |-> Append(reg.instructions, instr),
            byEncodingID |-> Put(reg.byEncodingID, instr.encodingID, k),
            byMnemonic |-> Filed(reg.byMnemonic, instr.mnemonic, k),
            byClass |-> Filed(reg.byClass, instr.class, k),
            byFeature |-> FiledUnder(reg.byFeature, instr.features, k)]

----------------------------------------------------------------------------
\* Lookups.

GetByEncodingID(reg, id) ==
  IF id \in DOMAIN reg.byEncodingID THEN {reg.byEncodingID[id]} ELSE {}

\* Spelt exactly, or else any one spelling that differs only in case: the map
\* is walked in no order.
GetByMnemonic(reg, m) ==
  LET spelt == {x \in DOMAIN reg.byMnemonic : Upper(x) = Upper(m)}
  IN  IF m \in DOMAIN reg.byMnemonic THEN {reg.byMnemonic[m]}
      ELSE IF spelt = {} THEN {<< >>} ELSE {reg.byMnemonic[x] : x \in spelt}

GetAll(reg) == reg.instructions
Size(reg) == Len(reg.instructions)
GroupByClass(reg) == reg.byClass
GroupByFeature(reg) == reg.byFeature
GetMnemonics(reg) == DOMAIN reg.byMnemonic
GetClasses(reg) == DOMAIN reg.byClass
GetFeatures(reg) == DOMAIN reg.byFeature

\* mostCommon: whichever of the largest the walk over the map meets first.
Statistics(reg) ==
  [total |-> Len(reg.instructions),
   mnemonics |-> Cardinality(GetMnemonics(reg)),
   classes |-> Cardinality(GetClasses(reg)),
   features |-> Cardinality(GetFeatures(reg)),
   classDistribution |-> [c \in GetClasses(reg) |-> Len(reg.byClass[c])],
   featureUsage |-> [f \in GetFeatures(reg) |-> Len(reg.byFeature[f])],
   mostCommon |-> {m \in GetMnemonics(reg) : \A x \in GetMnemonics(reg) :
                     Len(reg.byMnemonic[x]) <= Len(reg.byMnemonic[m])}]

\* An index agrees with the instructions: under each key those that have it,
\* in the order they were added.
Agrees(reg, index, keysOf(_)) ==
  /\ DOMAIN index = UNION {keysOf(instr) : instr \in ToSet(reg.instructions)}
  /\ \A key \in DOMAIN index :
       /\ ToSet(index[key]) = {k \in DOMAIN reg.instructions : key \in keysOf(reg.instructions[k])}
       /\ \A i \in 2..Len(index[key]) : index[key][i - 1] <= index[key][i]
=============================================================================
