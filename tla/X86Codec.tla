------------------------------ MODULE X86Codec ------------------------------
(***************************************************************************)
(* The x86 codec: Encode writes one form with given physical fields,       *)
(* Decode finds the form at the start of some bytes (pkg/x86/encode.go,    *)
(* decode.go).                                                             *)
(*                                                                         *)
(* Bytes are numbers.  Offsets count bytes, as in the code, so that        *)
(* src[n + 1] is the code's src[n].  Displacements and immediates are      *)
(* below 2^31: the code's are 64 bits wide, but it only splits them.       *)
(***************************************************************************)
EXTENDS X86Catalog, TLC

CONSTANT MaxBytes  \* capacity of the caller's buffer

ASSUME BufferAssumption == MaxBytes \in Nat \ {0}

MaxLength == 15

----------------------------------------------------------------------------
(* Sizes that depend on the mode and on prefixes. *)

OperandBits(m, override, w) ==
  CASE m = 16 -> IF override THEN 32 ELSE 16
    [] m = 64 -> IF w THEN 64 ELSE IF override THEN 16 ELSE 32
    [] OTHER  -> IF override THEN 16 ELSE 32

AddressBits(m, override) ==
  CASE m = 16 -> IF override THEN 32 ELSE 16
    [] m = 64 -> IF override THEN 32 ELSE 64
    [] OTHER  -> IF override THEN 16 ELSE 32

TailBytes(width, m, override, w, address) ==
  CASE width = "8" -> 1 [] width = "16" -> 2 [] width = "32" -> 4 [] width = "64" -> 8
    [] width = "z" -> IF OperandBits(m, override, w) = 16 THEN 2 ELSE 4
    [] width = "v" -> OperandBits(m, override, w) \div 8
    [] width = "address" -> AddressBits(m, address) \div 8
    [] width = "far" -> IF OperandBits(m, override, w) = 16 THEN 4 ELSE 6
    [] OTHER -> 0

----------------------------------------------------------------------------
(* Encode.  Fields f are [mode, segment, address, mod, reg, rm, scale,     *)
(* index, base, sib, vvvv, mask, zeroing, broadcast, opcodeReg, disp, imm].*)

\* Bytes with a role of their own: 66, 67, 0F, 38, 3A, 40 to 4F, 62, C5, C4, 8F in
\* hexadecimal; F3 and F2 repeat, F0 locks.
SizeByte == 102
AddressByte == 103
Escape == 15
Escape38 == 56
Escape3A == 58
RexByte == 64
EvexByte == 98
Vex2Byte == 197
Vex3Byte == 196
XopByte == 143

\* 26, 2E, 36, 3E, 64 and 65.
Segments == {38, 46, 54, 62, 100, 101}
PrefixByte == (P66 :> SizeByte) @@ (PF3 :> 243) @@ (PF2 :> 242)
Flag(condition) == IF condition THEN 1 ELSE 0
Complement(b, width) == 2^width - 1 - (b % 2^width)
LittleEndian(value, n) ==
  [i \in 1..n |-> IF i > 4 THEN 0 ELSE (value \div 256^(i - 1)) % 256]

\* Fields the form or the family cannot take.
FieldsRefused(e, f) ==
  LET high == {f.reg, f.rm, f.index, f.base, f.vvvv} IN
  \/ f.mode \notin e.modes
  \/ f.segment # 0 /\ f.segment \notin Segments
  \/ e.operandSize = 64 /\ f.mode # 64
  \/ \E n \in high : n > 31
  \/ f.mask > 7 \/ f.opcodeReg > 15 \/ f.mod > 3 \/ f.scale > 3
  \/ e.kind # "evex" /\ (f.mask # 0 \/ f.zeroing \/ f.broadcast \/ \E n \in high : n > 15)
  \/ f.reg % 8 \notin e.reg \/ f.rm % 8 \notin e.rm
  \/ e.mod = "MEM" /\ f.mod = 3
  \/ e.mod = "REG" /\ f.mod # 3

SizeOverride(m, size) == IF m = 16 THEN size = 32 ELSE size = 16
Wide(e) == e.w = "1" \/ e.operandSize = 64

REX_WithoutIndex(e, f) ==
  IF f.mode # 64 THEN 0
  ELSE 8 * Flag(Wide(e)) + 4 * BitField(f.reg, 3, 1)
       + BitField(IF e.plusReg THEN f.opcodeReg ELSE IF f.sib THEN f.base ELSE f.rm, 3, 1)

REX(e, f) ==
  IF f.mode # 64 THEN 0
  ELSE 8 * Flag(Wide(e)) + 4 * BitField(f.reg, 3, 1)
       + (IF e.plusReg THEN BitField(f.opcodeReg, 3, 1)
          ELSE IF f.sib THEN 2 * BitField(f.index, 3, 1) + BitField(f.base, 3, 1)
          ELSE BitField(f.rm, 3, 1))

MapBytes ==
  [map \in {"primary", "0f", "0f38", "0f3a"} |->
     CASE map = "primary" -> <<>> [] map = "0f" -> <<Escape>>
       [] map = "0f38" -> <<Escape, Escape38>> [] map = "0f3a" -> <<Escape, Escape3A>>]

LegacyBytes(e, f) ==
  LET size == SizeOverride(f.mode, e.operandSize) /\ e.mandatory # P66
      rex == REX(e, f)
      either(i) == BitField(e.opcode, i, 1) = 1 \/ BitField(f.opcodeReg, i, 1) = 1
      opcode == IF e.plusReg
                THEN (e.opcode \div 8) * 8 + 4 * Flag(either(2)) + 2 * Flag(either(1))
                     + Flag(either(0))
                ELSE e.opcode
  IN  (IF size THEN <<SizeByte>> ELSE <<>>)
      \o (IF e.mandatory = NoPrefix THEN <<>> ELSE <<PrefixByte[e.mandatory]>>)
      \o (IF rex = 0 THEN <<>> ELSE <<RexByte + rex>>)
      \o MapBytes[e.map] \o <<opcode>>

VectorMaps == ("0f" :> 1) @@ ("0f38" :> 2) @@ ("0f3a" :> 3)
              @@ ("xop8" :> 8) @@ ("xop9" :> 9) @@ ("xopa" :> 10)

VectorBytes(e, f) ==
  LET evex == e.kind = "evex"
      not(n, i) == 1 - BitField(n, i, 1)
      r == not(f.reg, 3)
      x == IF evex /\ f.mod = 3 THEN not(f.rm, 4) ELSE not(f.index, 3)
      b == IF f.sib THEN not(f.base, 3) ELSE not(f.rm, 3)
      w == Flag(e.w = "1")
      rxb == 128 * r + 64 * x + 32 * b
      \* ~vvvv in bits 6..3 of the byte that also holds pp
      v == 8 * Complement(f.vvvv, 4) + (e.mandatory + 1)
      l == 4 * Flag(e.vectorLength = 256)
      ll == CASE e.vectorLength = 256 -> 1 [] e.vectorLength = 512 -> 2 [] OTHER -> 0
  IN CASE evex ->
            <<EvexByte, rxb + 16 * not(f.reg, 4) + (VectorMaps[e.map] % 4), 128 * w + v + 4,
              128 * Flag(f.zeroing) + 32 * ll + 16 * Flag(f.broadcast)
              + 8 * not(f.vvvv, 4) + f.mask, e.opcode>>
       [] e.kind = "vex" /\ e.map = "0f" /\ w = 0 /\ x = 1 /\ b = 1 ->
            <<Vex2Byte, 128 * r + v + l, e.opcode>>
       [] OTHER ->
            <<IF e.kind = "xop" THEN XopByte ELSE Vex3Byte, rxb + VectorMaps[e.map],
              128 * w + v + l, e.opcode>>

DisplacementBytes(m, base, bits) ==
  LET wide == IF bits = 16 THEN 2 ELSE 4 IN
  CASE m = 0 /\ base = (IF bits = 16 THEN 6 ELSE 5) -> wide
    [] m = 1 -> 1
    [] m = 2 -> wide
    [] OTHER -> 0

ModRMBytes(e, f) ==
  LET bits == AddressBits(f.mode, f.address)
      base == IF f.sib THEN f.base % 8 ELSE f.rm % 8
  IN  <<64 * f.mod + 8 * (f.reg % 8) + (f.rm % 8)>>
      \o (IF f.mod = 3 THEN <<>>
          ELSE (IF f.sib THEN <<64 * f.scale + 8 * (f.index % 8) + (f.base % 8)>> ELSE <<>>)
               \o LittleEndian(f.disp, DisplacementBytes(f.mod, base, bits)))

ImmediateBytes(e, f) ==
  LET override == e.mandatory = P66 \/ SizeOverride(f.mode, e.operandSize)
      width(i) == TailBytes(e.tail[i], f.mode, override, Wide(e), f.address)
      upto[n \in 0..Len(e.tail)] ==
        IF n = 0 THEN <<>> ELSE upto[n - 1] \o LittleEndian(f.imm[n], width(n))
  IN  upto[Len(e.tail)]

\* A form without an encoder, or a SIB byte where none can stand.
Unencodable(e, f) ==
  \/ e.kind \in {"mvex", "3dnow"}
  \/ e.map \notin DOMAIN (IF e.kind = "legacy" THEN MapBytes ELSE VectorMaps)
  \/ e.hasModRM /\ f.mod # 3 /\ f.sib
     /\ (AddressBits(f.mode, f.address) = 16 \/ f.rm % 8 # 4)

Refused == <<>>

\* The bytes of a form, or Refused; the kinds of refusal are not told apart.
Encode(e, f) ==
  IF FieldsRefused(e, f) \/ Unencodable(e, f) THEN Refused
  ELSE LET bytes == (IF f.segment = 0 THEN <<>> ELSE <<f.segment>>)
                    \o (IF f.address THEN <<AddressByte>> ELSE <<>>)
                    \o (IF e.kind = "legacy" THEN LegacyBytes(e, f) ELSE VectorBytes(e, f))
                    \o (IF e.hasModRM THEN ModRMBytes(e, f) ELSE <<>>)
                    \o ImmediateBytes(e, f)
       IN  IF Len(bytes) > MaxBytes \/ Len(bytes) > MaxLength THEN Refused ELSE bytes

----------------------------------------------------------------------------
(* parseHead: legacy prefixes, REX, and the escape or vector prefix.       *)
(* kind = "error" carries the reason; rex and at give the four extension   *)
(* bits and the byte after the prefixes to those who read registers.       *)

LegacyPrefix == {SizeByte, AddressByte, 240, 242, 243} \cup Segments
PrefixOfPP == <<{}, {P66}, {PF3}, {PF2}>>
HeadError(reason) == [kind |-> "error", reason |-> reason]

\* How many bytes the prefix loop consumes.
PrefixCount(src) ==
  LET end == IF Len(src) < MaxLength THEN Len(src) ELSE MaxLength
      stop == {n \in 0..(end - 1) : src[n + 1] \notin LegacyPrefix}
  IN  IF stop = {} THEN end ELSE CHOOSE n \in stop : \A k \in stop : n <= k

\* A byte that is an instruction of its own outside 64-bit mode unless what
\* follows could not be its ModR/M byte.
VectorEscape_InEveryMode(src, pos, m) == pos + 1 < Len(src)
VectorEscape(src, pos, m) ==
  m = 64 \/ (pos + 1 < Len(src) /\ BitField(src[pos + 2], 6, 2) = 3)

MapOfMmmmm(bits) ==
  LET found == {k \in DOMAIN VectorMaps : VectorMaps[k] = bits}
  IN  IF found = {} THEN "none" ELSE CHOOSE k \in found : TRUE

\* Head of a vector form whose prefix starts at pos and has `size' bytes;
\* map bits in byte `p0', w in `p1', vvvv and pp in `p2'.
VectorHead(src, pos, size, kind, map, w, v, length, high) ==
  IF pos + size >= Len(src) THEN HeadError("short")
  ELSE IF map = "none" \/ length = 0 THEN HeadError("unknown")
  ELSE [kind |-> kind, map |-> map, opcode |-> src[pos + size + 1],
        prefixes |-> PrefixOfPP[(v % 4) + 1], w |-> w, vectorLength |-> length,
        address |-> \E i \in 1..PrefixCount(src) : src[i] = AddressByte,
        baseExt |-> 0, vvvv |-> Complement(BitField(v, 3, 4), 4) + 16 * high,
        modrm |-> pos + size + 1]

LegacyHead(src, pos, prefixes, rex) ==
  LET escaped == src[pos + 1] = Escape
      second == src[pos + 2]
      map == IF ~escaped THEN "primary"
             ELSE CASE second = Escape38 -> "0f38" [] second = Escape3A -> "0f3a" [] OTHER -> "0f"
      at == pos + Len(MapBytes[map])
  IN  IF escaped /\ pos + 1 >= Len(src) THEN HeadError("short")
      ELSE IF escaped /\ second = Escape THEN HeadError("unknown")
      ELSE IF at >= Len(src) THEN HeadError("short")
      ELSE [kind |-> "legacy", map |-> map, opcode |-> src[at + 1],
            prefixes |-> {p \in MandatoryPrefixes : PrefixByte[p] \in prefixes},
            w |-> BitField(rex, 3, 1), vectorLength |-> 0, address |-> AddressByte \in prefixes,
            baseExt |-> BitField(rex, 0, 1), vvvv |-> 0, modrm |-> at + 1]

ParseHead(src, m) ==
  LET count == PrefixCount(src)
      prefixes == {src[i] : i \in 1..count}
      hasREX == m = 64 /\ count < Len(src) /\ src[count + 1] \div 16 = 4
      pos == IF hasREX THEN count + 1 ELSE count
      \* byte n after the escape, when it is there
      at(n) == IF pos + n < Len(src) THEN src[pos + n + 1] ELSE 0
      length(b) == IF BitField(b, 2, 1) = 1 THEN 256 ELSE 128
      evexLength == CASE BitField(at(3), 5, 2) = 0 -> 128 [] BitField(at(3), 5, 2) = 1 -> 256
                      [] BitField(at(3), 5, 2) = 2 -> 512 [] OTHER -> 0
      rex == IF hasREX THEN src[count + 1] ELSE 0
  IN CASE count >= MaxLength -> HeadError("long")
       [] count < MaxLength /\ pos >= Len(src) -> HeadError("short")
       [] OTHER ->
            CASE at(0) = Vex2Byte /\ VectorEscape(src, pos, m) ->
                   VectorHead(src, pos, 2, "vex", "0f", BitField(rex, 3, 1), at(1),
                              length(at(1)), 0)
              [] at(0) = Vex3Byte /\ VectorEscape(src, pos, m) ->
                   VectorHead(src, pos, 3, "vex", MapOfMmmmm(at(1) % 32), BitField(at(2), 7, 1),
                              at(2), length(at(2)), 0)
              [] at(0) = EvexByte /\ VectorEscape(src, pos, m) ->
                   VectorHead(src, pos, 4, "evex", MapOfMmmmm(at(1) % 8), BitField(at(2), 7, 1),
                              at(2), evexLength, 1 - BitField(at(3), 3, 1))
              [] at(0) = XopByte /\ at(1) % 32 >= 8 ->
                   VectorHead(src, pos, 3, "xop", MapOfMmmmm(at(1) % 32), BitField(at(2), 7, 1),
                              at(2), length(at(2)), 0)
              [] OTHER -> LegacyHead(src, pos, prefixes, rex)

----------------------------------------------------------------------------
(* Decode.  A match is a length, 0 for a mismatch, -1 where bytes ran out. *)

Mismatch == 0
Short == -1

\* Offset of the byte after ModR/M, SIB and displacement, or Mismatch, Short.
ModRMEnd(src, m, address, offset, e) ==
  LET modrm == src[offset + 1]
      mod == BitField(modrm, 6, 2)
      rm == modrm % 8
      bits == AddressBits(m, address)
      sib == bits # 16 /\ rm = 4
      base == IF sib THEN src[offset + 2] % 8 ELSE rm
      end == offset + 1 + Flag(sib) + DisplacementBytes(mod, base, bits)
  IN CASE offset >= Len(src) -> Short
       [] OTHER ->
            CASE \/ e.mod = "MEM" /\ mod = 3
                 \/ e.mod = "REG" /\ mod # 3
                 \/ BitField(modrm, 3, 3) \notin e.reg \/ rm \notin e.rm -> Mismatch
              [] OTHER ->
                   CASE mod = 3 -> offset + 1
                     [] mod # 3 /\ sib /\ offset + 1 >= Len(src) -> Short
                     [] OTHER -> IF end > Len(src) THEN Short ELSE end

HeadMatches(m, h, e) ==
  /\ m \in e.modes
  /\ h.prefixes \cap e.prefixMask = e.prefixValue
  /\ ~(e.id = "NOP" /\ h.opcode = 144 /\ h.baseExt # 0)
  /\ e.w # "any" => (e.w = "1") = (h.w = 1)
  /\ e.operandSize # 0 => e.operandSize = OperandBits(m, P66 \in h.prefixes, h.w = 1)
  /\ e.vectorLength # 0 => e.vectorLength = h.vectorLength
  /\ BitsOf(h.vvvv, 5) \cap e.reserved = {}

Ends_WithoutShort(src, end) == IF end > MaxLength THEN Mismatch ELSE end
Ends(src, end) ==
  IF end > MaxLength THEN Mismatch ELSE IF end > Len(src) THEN Short ELSE end

MatchEncoding(src, m, h, e) ==
  LET after == IF e.hasModRM THEN ModRMEnd(src, m, h.address, h.modrm, e) ELSE h.modrm
      upto[n \in 0..Len(e.tail)] ==
        IF n = 0 THEN after
        ELSE upto[n - 1] + TailBytes(e.tail[n], m, P66 \in h.prefixes, h.w = 1, h.address)
  IN  IF ~HeadMatches(m, h, e) THEN Mismatch
      ELSE IF after <= 0 THEN after
      ELSE Ends(src, upto[Len(e.tail)])

\* NewDecoder sorts (form, opcode) pairs by family, map and opcode, then by
\* form id, and remembers for each such key where its run of forms begins.
KindNumber ==
  [kind \in EncodingKinds |->
     CASE kind = "legacy" -> 0 [] kind = "vex" -> 1 [] kind = "evex" -> 2
       [] kind = "mvex" -> 3 [] kind = "xop" -> 4 [] kind = "3dnow" -> 5]
MapNumber ==
  [map \in OpcodeMaps |->
     CASE map = "primary" -> 0 [] map = "0f" -> 1 [] map = "0f38" -> 2 [] map = "0f3a" -> 3
       [] map = "0f0f" -> 4 [] map = "xop8" -> 5 [] map = "xop9" -> 6 [] map = "xopa" -> 7]
DispatchIndex(kind, map, opcode) == (KindNumber[kind] * 8 + MapNumber[map]) * 256 + opcode

Keyed(forms) ==
  UNION {{[index |-> i, form |-> forms[i].form,
           key |-> DispatchIndex(forms[i].kind, forms[i].map, forms[i].opcode + o)] :
             o \in (IF forms[i].plusReg THEN 0..7 ELSE {0})} : i \in DOMAIN forms}

Precedes(a, b) == a.key < b.key \/ (a.key = b.key /\ a.form < b.form)
Sorted(keyed) ==
  [k \in 1..Cardinality(keyed) |->
     CHOOSE a \in keyed : Cardinality({b \in keyed : Precedes(b, a)}) = k - 1]

NewDecoder(forms) ==
  LET sorted == Sorted(Keyed(forms))
      run(key) == {k \in DOMAIN sorted : sorted[k].key = key}
  IN  [candidates |-> [k \in DOMAIN sorted |-> sorted[k].index],
       buckets |-> [key \in {sorted[k].key : k \in DOMAIN sorted} |->
                      [start |-> Min(run(key)) - 1, count |-> Cardinality(run(key))]]]

\* The candidates Decode goes through, in their order.
Bucket(decoder, h) ==
  LET key == DispatchIndex(h.kind, h.map, h.opcode) IN
  IF key \notin DOMAIN decoder.buckets THEN <<>>
  ELSE LET b == decoder.buckets[key] IN
       SubSeq(decoder.candidates, b.start + 1, b.start + b.count)

Specificity(e) ==
  16 * Cardinality(e.prefixMask) + 8 * Flag(e.w # "any") + 8 * Flag(e.vectorLength # 0)
  + 8 * Flag(e.operandSize # 0) + 4 * Flag(e.mod # "any")
  + 6 * Flag(e.reg # 0..7) + 6 * Flag(e.rm # 0..7)

DecodeError(reason) == [form |-> 0, length |-> 0, alternatives |-> 0, reason |-> reason]

\* Of the most specific forms that match the first in the bucket.
MostSpecific(forms, bucket, matching) ==
  LET rank(k) == Specificity(forms[bucket[k]])
  IN  Min({k \in matching : \A j \in matching : rank(j) <= rank(k)})

Matched(bucket, lengths, best) ==
  [form |-> bucket[best], length |-> lengths[best],
   alternatives |-> Cardinality({k \in DOMAIN bucket : lengths[k] > 0}) - 1, reason |-> "none"]

\* The answer from the bucket when its k-th form matches with lengths[k].
Answer(forms, bucket, lengths) ==
  IF \E k \in DOMAIN bucket : lengths[k] > 0
  THEN Matched(bucket, lengths,
               MostSpecific(forms, bucket, {k \in DOMAIN bucket : lengths[k] > 0}))
  ELSE IF \E k \in DOMAIN bucket : lengths[k] = Short THEN DecodeError("short")
  ELSE DecodeError("unknown")

AmongBucket(forms, bucket, src, m, h) ==
  Answer(forms, bucket, [k \in DOMAIN bucket |-> MatchEncoding(src, m, h, forms[bucket[k]])])

WithHead(forms, decoder, src, m, h) ==
  IF h.kind = "error" THEN DecodeError(h.reason)
  ELSE AmongBucket(forms, Bucket(decoder, h), src, m, h)

\* The form, its length and how many others match, or why there is none.
Decode(forms, decoder, src, m) ==
  IF Len(src) = 0 THEN DecodeError("short") ELSE WithHead(forms, decoder, src, m, ParseHead(src, m))
=============================================================================
