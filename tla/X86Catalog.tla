----------------------------- MODULE X86Catalog -----------------------------
(***************************************************************************)
(* The x86 catalog: what an opcodesDB record says of one syntax template,  *)
(* the normalised encoding it is imported as, and what a catalog must      *)
(* satisfy before a decoder is built from it (pkg/x86/opcodesdb.go,        *)
(* model.go).                                                              *)
(*                                                                         *)
(* A mask-and-value pair of the code is a set: reg and rm are the values   *)
(* the ModR/M field may take, prefixMask and prefixValue sets of prefixes. *)
(* FormID is a number that orders forms as their strings do.               *)
(***************************************************************************)
EXTENDS Integers, Sequences, SequencesExt, FiniteSets

Modes == {16, 32, 64}
EncodingKinds == {"legacy", "vex", "evex", "mvex", "xop", "3dnow"}
OpcodeMaps == {"primary", "0f", "0f38", "0f3a", "0f0f", "xop8", "xop9", "xopa"}

\* The prefixes with a mandatory role, by the number of their bit.
P66 == 0
PF3 == 1
PF2 == 2
MandatoryPrefixes == {P66, PF3, PF2}
NoPrefix == -1

Byte == 0..255
BitField(b, low, width) == (b \div 2^low) % 2^width
BitsOf(n, width) == {i \in 0..(width - 1) : BitField(n, i, 1) = 1}

----------------------------------------------------------------------------
(* Import of one template.                                                 *)

\* What a template says: op is -1 where no opcode parses, a prefix "" where the
\* field is absent, as are vl = 0, reg = -1 and rm = -1; mr is MR=1.
Template ==
  [id : STRING, form : Nat, mnemonic : STRING, op : Int, enc : STRING, map : STRING,
   prefix : [MandatoryPrefixes -> {"", "0", "1"}], mode : STRING, w : STRING, osz : STRING,
   vl : Nat, mr : BOOLEAN, mod : STRING, reg : -1..7, rm : -1..7,
   operands : Seq([type : STRING, in : STRING, symbol : STRING])]

TailWidths == {"8", "16", "32", "64", "z", "v", "address", "far"}

\* What it becomes.
Encoding ==
  [id : STRING, form : Nat, kind : EncodingKinds, map : OpcodeMaps, opcode : Byte,
   plusReg : BOOLEAN, mandatory : MandatoryPrefixes \cup {NoPrefix},
   prefixMask : SUBSET MandatoryPrefixes, prefixValue : SUBSET MandatoryPrefixes,
   modes : SUBSET Modes, w : {"any", "0", "1"}, operandSize : {0, 16, 32, 64},
   vectorLength : Nat, reserved : SUBSET (0..4), hasModRM : BOOLEAN,
   mod : {"any", "MEM", "REG"}, reg : SUBSET (0..7), rm : SUBSET (0..7),
   tail : Seq(TailWidths)]

TailWidth(o) ==
  CASE o.type = "MOFFS"           -> "address"
    [] o.in \in {"IB", "RB", "IS4"} -> "8"
    [] o.in \in {"IW", "RW"}      -> "16"
    [] o.in \in {"ID", "RD"}      -> "32"
    [] o.in \in {"IQ", "RQ"}      -> "64"
    [] o.in \in {"IZ", "RZ"}      -> "z"
    [] o.in \in {"IV", "RV"}      -> "v"
    [] o.in = "IDPP"              -> "far"
    [] OTHER                      -> "none"

\* IS4 keeps a register in the high half of the byte that IB names too.
Tails(operands) ==
  LET is4 == \E i \in DOMAIN operands : operands[i].in = "IS4"
      width(o) == IF is4 /\ o.in = "IB" THEN "none" ELSE TailWidth(o)
      kept[n \in 0..Len(operands)] ==
        IF n = 0 THEN <<>>
        ELSE IF width(operands[n]) = "none" THEN kept[n - 1]
        ELSE Append(kept[n - 1], width(operands[n]))
  IN  kept[Len(operands)]

\* Bits of vvvv, with EVEX.V' as bit 4, that no operand uses.
ReservedVVVV(kind, operands) ==
  LET named(S) == \E i \in DOMAIN operands : operands[i].symbol \in S
      all == IF kind \in {"vex", "xop"} THEN 0..3 ELSE IF kind = "evex" THEN 0..4 ELSE {}
  IN  IF \E i \in DOMAIN operands : operands[i].in = "VVVV" THEN {}
      ELSE IF named({"VMX", "VMY", "VMZ"}) THEN all \ {4} ELSE all

WrittenPrefixes(r, v) == {p \in MandatoryPrefixes : r.prefix[p] = v}

\* A legacy form with an operand size may carry 66 as its size override, so
\* that P66 = 0 does not forbid the byte.
SizeOverrides(r) ==
  r.enc = "legacy" /\ (r.osz # "" \/ r.mnemonic \in {"TZCNT", "LZCNT", "POPCNT"})

ImportFails(r) ==
  \/ r.op \notin Byte \/ r.enc \notin EncodingKinds \/ r.map \notin OpcodeMaps
  \/ Cardinality(WrittenPrefixes(r, "1")) > 1

Import(r) ==
  LET free == IF SizeOverrides(r) THEN {P66} ELSE {}
      required == WrittenPrefixes(r, "1")
  IN [id |-> r.id, form |-> r.form, kind |-> r.enc, map |-> r.map,
      opcode |-> r.op, plusReg |-> FALSE,
      mandatory |-> IF required = {} THEN NoPrefix ELSE CHOOSE p \in required : TRUE,
      prefixMask |-> (required \cup WrittenPrefixes(r, "0")) \ free,
      prefixValue |-> required \ free,
      modes |-> CASE r.mode = "64" -> {64} [] r.mode = "NO64" -> {16, 32} [] OTHER -> Modes,
      w |-> IF SizeOverrides(r) /\ r.osz = "Z" THEN "0"
            ELSE IF r.w \in {"0", "1"} THEN r.w ELSE "any",
      operandSize |-> CASE r.osz = "16" -> 16 [] r.osz = "32" -> 32
                        [] r.osz = "64" -> 64 [] OTHER -> 0,
      vectorLength |-> r.vl,
      reserved |-> ReservedVVVV(r.enc, r.operands),
      hasModRM |-> r.mr \/ r.mod # "" \/ r.reg # -1 \/ r.rm # -1,
      mod |-> IF r.mod \in {"MEM", "REG"} THEN r.mod ELSE "any",
      reg |-> IF r.reg = -1 THEN 0..7 ELSE {r.reg},
      rm |-> IF r.rm = -1 THEN 0..7 ELSE {r.rm},
      tail |-> Tails(r.operands)]

----------------------------------------------------------------------------
(* Catalog.Validate. *)

InvalidEncoding(e) ==
  \/ e.plusReg /\ e.opcode > 248
  \/ e.modes = {}
  \/ ~e.hasModRM /\ (e.mod # "any" \/ e.reg # 0..7 \/ e.rm # 0..7)
  \/ Len(e.tail) > 4

ValidCatalog(catalog) ==
  /\ catalog # <<>>
  /\ \A i, j \in DOMAIN catalog : catalog[i].form = catalog[j].form => i = j
  /\ \A i \in DOMAIN catalog : ~InvalidEncoding(catalog[i])

=============================================================================
