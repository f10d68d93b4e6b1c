--------------------------- MODULE X86SweepProofs ---------------------------
(***************************************************************************)
(* Proofs about X86Sweep for every catalog, request and stream: what a     *)
(* decoder answers lies in the bytes it was given, and a sweep goes on.    *)
(***************************************************************************)
EXTENDS X86Sweep, SequenceLemmas, TLAPS

----------------------------------------------------------------------------
(* Sizes. *)

LEMMA AddressBitsAre == \A m, override : AddressBits(m, override) \in {16, 32, 64}
  BY DEF AddressBits

LEMMA OperandBitsAre == \A m, override, w : OperandBits(m, override, w) \in {16, 32, 64}
  BY DEF OperandBits

LEMMA TailBytesAre ==
  ASSUME NEW width, NEW m, NEW override, NEW w, NEW address
  PROVE  TailBytes(width, m, override, w, address) \in Nat
<1>1. AddressBits(m, address) \div 8 \in Nat
  BY AddressBitsAre
<1>2. OperandBits(m, override, w) \div 8 \in Nat
  BY OperandBitsAre
<1> QED
  BY <1>1, <1>2 DEF TailBytes

LEMMA DisplacementIs ==
  ASSUME NEW m, NEW base, NEW bits
  PROVE  DisplacementBytes(m, base, bits) \in 0..4
  BY DEF DisplacementBytes

----------------------------------------------------------------------------
(* The head of an instruction. *)

LEMMA Capped ==
  \A n \in Nat : LET c == IF n < MaxLength THEN n ELSE MaxLength IN c \in 0..15 /\ c <= n
  BY DEF MaxLength

LEMMA PrefixCountBound ==
  ASSUME NEW src, IsSeq(src)
  PROVE  PrefixCount(src) \in 0..MaxLength /\ PrefixCount(src) <= Len(src)
<1> DEFINE end == IF Len(src) < MaxLength THEN Len(src) ELSE MaxLength
           stop == {n \in 0..(end - 1) : src[n + 1] \notin LegacyPrefix}
<1>1. Len(src) \in Nat
  BY SeqShape
<1>2. end \in 0..15 /\ end <= Len(src)
  BY <1>1, Capped
<1>3. \A n \in stop : n \in Nat /\ n < end
  BY <1>2
<1>4. PrefixCount(src) = IF stop = {} THEN end ELSE CHOOSE n \in stop : \A k \in stop : n <= k
  BY DEF PrefixCount
<1> HIDE DEF stop, end
<1>5. stop # {} => (CHOOSE n \in stop : \A k \in stop : n <= k) \in stop
  BY <1>3, Least
<1>6. PrefixCount(src) = end \/ PrefixCount(src) \in stop
  BY <1>4, <1>5
<1> QED
  BY <1>1, <1>2, <1>3, <1>6 DEF MaxLength

\* A head says why there is none, "short" only of few bytes, or where the byte
\* after the opcode is.
HeadIsSound(src, h) ==
  \/ /\ h.kind = "error" /\ h.reason \in {"short", "unknown", "long"}
     /\ h.reason = "short" => Len(src) <= LongestWait
  \/ h.kind # "error" /\ h.modrm \in 1..20 /\ h.modrm <= Len(src)

LEMMA VectorHeadSound ==
  ASSUME NEW src, IsSeq(src), NEW pos \in 0..15, NEW size \in 2..4, NEW kind, kind # "error",
         NEW map, NEW w, NEW v, NEW length, NEW high
  PROVE  HeadIsSound(src, VectorHead(src, pos, size, kind, map, w, v, length, high))
<1> DEFINE h == VectorHead(src, pos, size, kind, map, w, v, length, high)
<1>1. Len(src) \in Nat
  BY SeqShape
<1>2. CASE pos + size >= Len(src)
  <2>1. h = HeadError("short")
    BY <1>2 DEF VectorHead
  <2>2. h.kind = "error" /\ h.reason = "short"
    BY <2>1 DEF HeadError
  <2> QED
    BY <1>1, <1>2, <2>2 DEF HeadIsSound, LongestWait
<1>3. CASE ~ (pos + size >= Len(src)) /\ (map = "none" \/ length = 0)
  <2>1. h = HeadError("unknown")
    BY <1>3 DEF VectorHead
  <2> QED
    BY <2>1 DEF HeadIsSound, HeadError
<1>4. CASE ~ (pos + size >= Len(src)) /\ ~ (map = "none" \/ length = 0)
  <2>1. h.kind = kind /\ h.modrm = pos + size + 1
    BY <1>4 DEF VectorHead
  <2>2. pos + size + 1 \in 1..20 /\ pos + size + 1 <= Len(src)
    BY <1>1, <1>4
  <2> QED
    BY <2>1, <2>2 DEF HeadIsSound
<1> QED
  BY <1>2, <1>3, <1>4

LEMMA MapBytesAre ==
  \A map \in {"primary", "0f", "0f38", "0f3a"} : IsSeq(MapBytes[map]) /\ Len(MapBytes[map]) \in 0..2
<1>1. /\ MapBytes["primary"] = << >> /\ MapBytes["0f"] = <<Escape>>
      /\ MapBytes["0f38"] = <<Escape, Escape38>> /\ MapBytes["0f3a"] = <<Escape, Escape3A>>
  BY DEF MapBytes
<1>2. /\ << >> \in Seq(Nat) /\ <<Escape>> \in Seq(Nat) /\ <<Escape, Escape38>> \in Seq(Nat)
      /\ <<Escape, Escape3A>> \in Seq(Nat)
  BY DEF Escape, Escape38, Escape3A
<1>4. \A s \in Seq(Nat) : IsSeq(s)
  BY MemberIsSeq
<1>5. /\ Len(<< >>) = 0 /\ Len(<<Escape>>) = 1 /\ Len(<<Escape, Escape38>>) = 2
      /\ Len(<<Escape, Escape3A>>) = 2
  OBVIOUS
<1>6. IsSeq(<< >>) /\ IsSeq(<<Escape>>) /\ IsSeq(<<Escape, Escape38>>) /\ IsSeq(<<Escape, Escape3A>>)
  BY <1>2, <1>4, Zenon
<1>7. ASSUME NEW map \in {"primary", "0f", "0f38", "0f3a"}
      PROVE  MapBytes[map] \in {<< >>, <<Escape>>, <<Escape, Escape38>>, <<Escape, Escape3A>>}
  BY <1>1
<1>8. ASSUME NEW s \in {<< >>, <<Escape>>, <<Escape, Escape38>>, <<Escape, Escape3A>>}
      PROVE  IsSeq(s) /\ Len(s) \in 0..2
  <2>1. IsSeq(s)
    BY <1>6
  <2>2. Len(s) = 0 \/ Len(s) = 1 \/ Len(s) = 2
    BY <1>5
  <2> QED
    BY <2>1, <2>2
<1> QED
  BY <1>7, <1>8, Zenon

LEMMA LegacyHeadSound ==
  ASSUME NEW src, IsSeq(src), NEW pos \in 0..15, pos < Len(src), NEW prefixes, NEW rex
  PROVE  HeadIsSound(src, LegacyHead(src, pos, prefixes, rex))
<1> DEFINE h == LegacyHead(src, pos, prefixes, rex)
           escaped == src[pos + 1] = Escape
           second == src[pos + 2]
           map == IF ~escaped THEN "primary"
                  ELSE CASE second = Escape38 -> "0f38" [] second = Escape3A -> "0f3a"
                         [] OTHER -> "0f"
           at == pos + Len(MapBytes[map])
<1>1. Len(src) \in Nat
  BY SeqShape
<1>2. map \in {"primary", "0f", "0f38", "0f3a"}
  OBVIOUS
<1>3. at \in 0..17
  <2> DEFINE n == Len(MapBytes[map])
  <2>1. n \in 0..2
    BY <1>2, MapBytesAre
  <2> HIDE DEF n
  <2>2. pos + n \in 0..17
    BY <2>1
  <2> QED
    BY <2>2 DEF n
<1>4. h = IF escaped /\ pos + 1 >= Len(src) THEN HeadError("short")
          ELSE IF escaped /\ second = Escape THEN HeadError("unknown")
          ELSE IF at >= Len(src) THEN HeadError("short")
          ELSE [kind |-> "legacy", map |-> map, opcode |-> src[at + 1],
                prefixes |-> {p \in MandatoryPrefixes : PrefixByte[p] \in prefixes},
                w |-> BitField(rex, 3, 1), vectorLength |-> 0, address |-> AddressByte \in prefixes,
                baseExt |-> BitField(rex, 0, 1), vvvv |-> 0, modrm |-> at + 1]
  BY DEF LegacyHead
<1> HIDE DEF h, at, map, escaped, second
<1>5. CASE escaped /\ pos + 1 >= Len(src)
  <2>1. h.kind = "error" /\ h.reason = "short"
    BY <1>4, <1>5 DEF HeadError
  <2> QED
    BY <1>1, <1>5, <2>1 DEF HeadIsSound, LongestWait, h
<1>6. CASE ~ (escaped /\ pos + 1 >= Len(src)) /\ escaped /\ second = Escape
  <2>1. h.kind = "error" /\ h.reason = "unknown"
    BY <1>4, <1>6 DEF HeadError
  <2> QED
    BY <2>1 DEF HeadIsSound, h
<1>7. CASE ~ (escaped /\ pos + 1 >= Len(src)) /\ ~ (escaped /\ second = Escape) /\ at >= Len(src)
  <2>1. h.kind = "error" /\ h.reason = "short"
    BY <1>4, <1>7 DEF HeadError
  <2> QED
    BY <1>1, <1>3, <1>7, <2>1 DEF HeadIsSound, LongestWait, h
<1>8. CASE /\ ~ (escaped /\ pos + 1 >= Len(src)) /\ ~ (escaped /\ second = Escape)
           /\ ~ (at >= Len(src))
  <2>1. h.kind = "legacy" /\ h.modrm = at + 1
    BY <1>4, <1>8
  <2>2. at + 1 \in 1..20 /\ at + 1 <= Len(src)
    BY <1>1, <1>3, <1>8
  <2> QED
    BY <2>1, <2>2 DEF HeadIsSound, h
<1> QED
  BY <1>5, <1>6, <1>7, <1>8

LEMMA HeadSound ==
  ASSUME NEW src, IsSeq(src), NEW m
  PROVE  HeadIsSound(src, ParseHead(src, m))
<1> DEFINE count == PrefixCount(src)
           prefixes == {src[i] : i \in 1..count}
           hasREX == m = 64 /\ count < Len(src) /\ src[count + 1] \div 16 = 4
           pos == IF hasREX THEN count + 1 ELSE count
           at(n) == IF pos + n < Len(src) THEN src[pos + n + 1] ELSE 0
           length(b) == IF BitField(b, 2, 1) = 1 THEN 256 ELSE 128
           evexLength == CASE BitField(at(3), 5, 2) = 0 -> 128 [] BitField(at(3), 5, 2) = 1 -> 256
                           [] BitField(at(3), 5, 2) = 2 -> 512 [] OTHER -> 0
           rex == IF hasREX THEN src[count + 1] ELSE 0
           vex2 == VectorHead(src, pos, 2, "vex", "0f", BitField(rex, 3, 1), at(1),
                              length(at(1)), 0)
           vex3 == VectorHead(src, pos, 3, "vex", MapOfMmmmm(at(1) % 32), BitField(at(2), 7, 1),
                              at(2), length(at(2)), 0)
           evex == VectorHead(src, pos, 4, "evex", MapOfMmmmm(at(1) % 8), BitField(at(2), 7, 1),
                              at(2), evexLength, 1 - BitField(at(3), 3, 1))
           xop == VectorHead(src, pos, 3, "xop", MapOfMmmmm(at(1) % 32), BitField(at(2), 7, 1),
                             at(2), length(at(2)), 0)
           legacy == LegacyHead(src, pos, prefixes, rex)
           found == CASE at(0) = Vex2Byte /\ VectorEscape(src, pos, m) -> vex2
                      [] at(0) = Vex3Byte /\ VectorEscape(src, pos, m) -> vex3
                      [] at(0) = EvexByte /\ VectorEscape(src, pos, m) -> evex
                      [] at(0) = XopByte /\ at(1) % 32 >= 8 -> xop
                      [] OTHER -> legacy
<1>1. Len(src) \in Nat
  BY SeqShape
<1>2. count \in Nat /\ count <= 15 /\ count <= Len(src)
  BY PrefixCountBound DEF MaxLength
<1>3. ParseHead(src, m) = CASE count >= MaxLength -> HeadError("long")
                            [] count < MaxLength /\ pos >= Len(src) -> HeadError("short")
                            [] OTHER -> found
  BY DEF ParseHead
<1>4. count < 15 => pos \in 0..15
  <2> HIDE DEF count
  <2> QED
    BY <1>2
<1>5. ASSUME pos \in 0..15, pos < Len(src) PROVE HeadIsSound(src, found)
  <2> HIDE DEF count, prefixes, hasREX, pos, at, length, evexLength, rex
  <2>a. /\ 2 \in 2..4 /\ 3 \in 2..4 /\ 4 \in 2..4
        /\ "vex" # "error" /\ "evex" # "error" /\ "xop" # "error"
    OBVIOUS
  <2>1. HeadIsSound(src, vex2)
    BY <1>5, <2>a, VectorHeadSound, Zenon
  <2>2. HeadIsSound(src, vex3)
    BY <1>5, <2>a, VectorHeadSound, Zenon
  <2>3. HeadIsSound(src, evex)
    BY <1>5, <2>a, VectorHeadSound, Zenon
  <2>4. HeadIsSound(src, xop)
    BY <1>5, <2>a, VectorHeadSound, Zenon
  <2>5. HeadIsSound(src, legacy)
    BY <1>5, LegacyHeadSound, Zenon
  <2>6. found \in {vex2, vex3, evex, xop, legacy}
    <3> HIDE DEF vex2, vex3, evex, xop, legacy
    <3> QED
      OBVIOUS
  <2> HIDE DEF found, vex2, vex3, evex, xop, legacy
  <2> QED
    BY <2>1, <2>2, <2>3, <2>4, <2>5, <2>6
<1> HIDE DEF count, pos, found
<1>6. CASE count >= MaxLength
  <2>1. ParseHead(src, m) = HeadError("long")
    BY <1>2, <1>3, <1>6 DEF MaxLength
  <2> QED
    BY <2>1 DEF HeadError, HeadIsSound
<1>7. CASE count < MaxLength /\ pos >= Len(src)
  <2>1. ParseHead(src, m) = HeadError("short")
    BY <1>2, <1>3, <1>7 DEF MaxLength
  <2>2. Len(src) <= 15
    BY <1>1, <1>2, <1>4, <1>7 DEF MaxLength
  <2> QED
    BY <1>1, <2>1, <2>2 DEF HeadError, HeadIsSound, LongestWait
<1>8. CASE ~ (count >= MaxLength) /\ ~ (count < MaxLength /\ pos >= Len(src))
  <2>1. ParseHead(src, m) = found
    BY <1>3, <1>8
  <2>2. pos \in 0..15 /\ pos < Len(src)
    BY <1>1, <1>2, <1>4, <1>8 DEF MaxLength
  <2> QED
    BY <1>5, <2>1, <2>2
<1> QED
  BY <1>6, <1>7, <1>8

----------------------------------------------------------------------------
(* The length of a form's match. *)

LEMMA ModRMEndBound ==
  ASSUME NEW src, IsSeq(src), NEW m, NEW address, NEW offset \in 1..20, NEW e
  PROVE  LET end == ModRMEnd(src, m, address, offset, e)
         IN  /\ end = Mismatch \/ end = Short \/ end \in 1..Len(src)
             /\ end = Short => Len(src) <= LongestWait
<1> DEFINE modrm == src[offset + 1]
           mod == BitField(modrm, 6, 2)
           rm == modrm % 8
           bits == AddressBits(m, address)
           sib == bits # 16 /\ rm = 4
           base == IF sib THEN src[offset + 2] % 8 ELSE rm
           disp == DisplacementBytes(mod, base, bits)
           end == offset + 1 + Flag(sib) + disp
           wrong == \/ e.mod = "MEM" /\ mod = 3
                    \/ e.mod = "REG" /\ mod # 3
                    \/ BitField(modrm, 3, 3) \notin e.reg \/ rm \notin e.rm
           r == ModRMEnd(src, m, address, offset, e)
<1>1. Len(src) \in Nat
  BY SeqShape
<1>2. r = CASE offset >= Len(src) -> Short
            [] OTHER ->
                 CASE wrong -> Mismatch
                   [] OTHER ->
                        CASE mod = 3 -> offset + 1
                          [] mod # 3 /\ sib /\ offset + 1 >= Len(src) -> Short
                          [] OTHER -> IF end > Len(src) THEN Short ELSE end
  BY DEF ModRMEnd
<1>3. disp \in 0..4
  BY DisplacementIs
<1>4. Flag(sib) \in 0..1
  BY DEF Flag
<1> HIDE DEF disp, sib, wrong, mod, r
<1>5. end \in 1..26
  <2> DEFINE f == Flag(sib)
  <2>1. f \in 0..1
    BY <1>4
  <2> HIDE DEF f
  <2>2. offset + 1 + f + disp \in 1..26
    BY <1>3, <2>1
  <2> QED
    BY <2>2 DEF f
<1> HIDE DEF end
<1> DEFINE Good == /\ r = Mismatch \/ r = Short \/ r \in 1..Len(src)
                   /\ r = Short => Len(src) <= 25
<1>6. CASE offset >= Len(src)
  <2>1. r = Short
    BY <1>2, <1>6
  <2> QED
    BY <1>1, <1>6, <2>1 DEF LongestWait, r
<1>7. CASE ~ (offset >= Len(src)) /\ wrong
  <2>1. r = Mismatch
    BY <1>2, <1>7
  <2> QED
    BY <2>1 DEF Mismatch, Short, r
<1>8. CASE ~ (offset >= Len(src)) /\ ~wrong /\ mod = 3
  <2>1. r = offset + 1
    BY <1>2, <1>8
  <2>2. offset + 1 \in 1..Len(src)
    BY <1>1, <1>8
  <2> QED
    BY <2>1, <2>2 DEF Short, r
<1>9. CASE ~ (offset >= Len(src)) /\ ~wrong /\ mod # 3 /\ sib /\ offset + 1 >= Len(src)
  <2>1. r = Short
    BY <1>2, <1>9
  <2> QED
    BY <1>1, <1>9, <2>1 DEF LongestWait, r
<1>10. CASE /\ ~ (offset >= Len(src)) /\ ~wrong /\ mod # 3
            /\ ~ (sib /\ offset + 1 >= Len(src))
  <2>1. r = IF end > Len(src) THEN Short ELSE end
    BY <1>2, <1>10
  <2>2. CASE end > Len(src)
    BY <1>1, <1>5, <2>1, <2>2 DEF LongestWait, r
  <2>3. CASE ~ (end > Len(src))
    <3>1. end \in 1..Len(src)
      BY <1>1, <1>5, <2>3
    <3> QED
      BY <2>1, <2>3, <3>1 DEF Short, r
  <2> QED
    BY <2>2, <2>3
<1> QED
  BY <1>6, <1>7, <1>8, <1>9, <1>10

\* A tail of any widths only moves the end on.
TailEnd(after, tail, m, override, w, address) ==
  LET upto[n \in 0..Len(tail)] ==
        IF n = 0 THEN after
        ELSE upto[n - 1] + TailBytes(tail[n], m, override, w, address)
  IN  upto[Len(tail)]

LEMMA TailEnds ==
  ASSUME NEW after \in Nat \ {0}, NEW tail \in Seq(TailWidths),
         NEW m, NEW override, NEW w, NEW address
  PROVE  TailEnd(after, tail, m, override, w, address) \in Nat \ {0}
<1> DEFINE N == Len(tail)
           S == Nat \ {0}
           size(k) == TailBytes(tail[k], m, override, w, address)
           step == [p \in (1..N) \X S |-> p[2] + size(p[1])]
           Def(g) == g = [n \in 0..N |-> IF n = 0 THEN after ELSE g[n - 1] + size(n)]
<1>1. N \in Nat
  BY LenProperties
<1>2. \A k \in 1..N : size(k) \in Nat
  BY TailBytesAre
<1> HIDE DEF N, size
<1>3. \A k \in 1..N, x \in S : step[<<k, x>>] = x + size(k) /\ x + size(k) \in S
  BY <1>2
<1>4. step \in [(1..N) \X S -> S]
  BY <1>3
<1> HIDE DEF step
<1>5. PICK g \in [0..N -> S] : Iterates(g, N, after, step)
  <2> HIDE DEF S
  <2> QED
    BY <1>1, <1>4, Iterated DEF S
<1>6. g[0] = after /\ \A k \in 1..N : g[k] = step[<<k, g[k - 1]>>]
  BY <1>5 DEF Iterates
<1>7. ASSUME NEW k \in 0..N
      PROVE  g[k] = IF k = 0 THEN after ELSE g[k - 1] + size(k)
  <2>1. k # 0 => k \in 1..N /\ k - 1 \in 0..N
    BY <1>1
  <2>2. k # 0 => g[k - 1] \in S
    BY <1>5, <2>1
  <2> QED
    BY <1>3, <1>6, <2>1, <2>2
<1>8. Def(g)
  BY <1>5, <1>7
<1> DEFINE upto == CHOOSE u : Def(u)
<1>9. Def(upto)
  <2> HIDE DEF Def
  <2> QED
    BY <1>8
<1> HIDE DEF upto
<1>10. upto[0] \in S
  BY <1>1, <1>9
<1>11. ASSUME NEW k \in 1..N, upto[k - 1] \in S PROVE upto[k] \in S
  <2>1. upto[k] = upto[k - 1] + size(k)
    BY <1>1, <1>9
  <2>2. size(k) \in Nat
    BY <1>2
  <2> QED
    BY <1>11, <2>1, <2>2
<1> HIDE DEF Def
<1>12. upto[N] \in S
  <2> HIDE DEF S
  <2> QED
    BY <1>1, <1>10, <1>11, LoopKeeps
<1> QED
  BY <1>12 DEF upto, Def, N, size, TailEnd

LEMMA EndsBound ==
  ASSUME NEW src, IsSeq(src), NEW end \in Nat \ {0}
  PROVE  /\ Ends(src, end) \in {Mismatch, Short} \cup (1..MaxLength)
         /\ Ends(src, end) \notin {Mismatch, Short} => Ends(src, end) <= Len(src)
         /\ Ends(src, end) = Short => Len(src) <= LongestWait
<1>1. Len(src) \in Nat
  BY SeqShape
<1>2. CASE end > MaxLength
  BY <1>2 DEF Ends, Mismatch, Short
<1>3. CASE ~ (end > MaxLength) /\ end > Len(src)
  <2>1. Ends(src, end) = Short
    BY <1>3 DEF Ends
  <2> QED
    BY <1>1, <1>3, <2>1 DEF MaxLength, LongestWait
<1>4. CASE ~ (end > MaxLength) /\ ~ (end > Len(src))
  <2>1. Ends(src, end) = end
    BY <1>4 DEF Ends
  <2>2. end \in 1..MaxLength /\ end <= Len(src)
    BY <1>1, <1>4 DEF MaxLength
  <2> QED
    BY <2>1, <2>2 DEF Short
<1> QED
  BY <1>2, <1>3, <1>4

\* A match has one to fifteen bytes, all of them given; bytes run out only of few.
MatchIsSound(src, n) ==
  /\ n \in {Mismatch, Short} \cup (1..MaxLength)
  /\ n \notin {Mismatch, Short} => n <= Len(src)
  /\ n = Short => Len(src) <= LongestWait

LEMMA MatchBound ==
  ASSUME NEW src, IsSeq(src), NEW m, NEW h, h.modrm \in 1..20, h.modrm <= Len(src),
         NEW e \in Encoding
  PROVE  MatchIsSound(src, MatchEncoding(src, m, h, e))
<1> DEFINE after == IF e.hasModRM THEN ModRMEnd(src, m, h.address, h.modrm, e) ELSE h.modrm
           upto[n \in 0..Len(e.tail)] ==
             IF n = 0 THEN after
             ELSE upto[n - 1] + TailBytes(e.tail[n], m, P66 \in h.prefixes, h.w = 1, h.address)
           r == MatchEncoding(src, m, h, e)
<1>1. Len(src) \in Nat
  BY SeqShape
<1>2. r = IF ~HeadMatches(m, h, e) THEN Mismatch
          ELSE IF after <= 0 THEN after ELSE Ends(src, upto[Len(e.tail)])
  BY DEF MatchEncoding
<1>3. /\ after = Mismatch \/ after = Short \/ after \in 1..Len(src)
      /\ after = Short => Len(src) <= LongestWait
  <2>1. CASE e.hasModRM
    <3>1. after = ModRMEnd(src, m, h.address, h.modrm, e)
      BY <2>1
    <3> QED
      BY <3>1, ModRMEndBound
  <2>2. CASE ~e.hasModRM
    <3>1. after = h.modrm
      BY <2>2
    <3> QED
      BY <1>1, <3>1 DEF Short
  <2> QED
    BY <2>1, <2>2
<1>4. e.tail \in Seq(TailWidths)
  BY DEF Encoding
<1>5. after \in 1..Len(src) => upto[Len(e.tail)] \in Nat \ {0}
  <2> SUFFICES ASSUME after \in 1..Len(src) PROVE upto[Len(e.tail)] \in Nat \ {0}
    OBVIOUS
  <2>1. after \in Nat \ {0}
    BY <1>1
  <2>2. TailEnd(after, e.tail, m, P66 \in h.prefixes, h.w = 1, h.address) \in Nat \ {0}
    <3> HIDE DEF after
    <3> QED
      BY <1>4, <2>1, TailEnds, Zenon
  <2> QED
    BY <2>2 DEF TailEnd
<1> HIDE DEF after, upto
<1>6. CASE ~HeadMatches(m, h, e)
  <2>1. r = Mismatch
    BY <1>2, <1>6
  <2> QED
    BY <2>1 DEF MatchIsSound, Mismatch, Short
<1>7. CASE HeadMatches(m, h, e) /\ after \in {Mismatch, Short}
  <2>1. r = after
    BY <1>2, <1>7 DEF Mismatch, Short
  <2> QED
    BY <1>3, <1>7, <2>1 DEF MatchIsSound
<1>8. CASE HeadMatches(m, h, e) /\ after \in 1..Len(src)
  <2>1. r = Ends(src, upto[Len(e.tail)])
    BY <1>1, <1>2, <1>8
  <2> QED
    BY <1>5, <1>8, <2>1, EndsBound DEF MatchIsSound
<1> QED
  BY <1>3, <1>6, <1>7, <1>8

----------------------------------------------------------------------------
(* The answer of a decoder. *)

LEMMA SpecificityBound ==
  ASSUME NEW e \in Encoding
  PROVE  Specificity(e) \in 0..100
<1>1. IsFiniteSet(0..2) /\ Cardinality(0..2) = 3
  <2>1. /\ IsFiniteSet(0..2)
        /\ Cardinality(0..2) = IF 0 > 2 THEN 0 ELSE 2 - 0 + 1
    BY 0 \in Int, 2 \in Int, FS_Interval, Zenon
  <2> QED
    BY <2>1
<1>2. e.prefixMask \in SUBSET (0..2)
  BY DEF Encoding, MandatoryPrefixes, P66, PF3, PF2
<1>3. IsFiniteSet(e.prefixMask) /\ Cardinality(e.prefixMask) <= 3
  BY <1>1, <1>2, FS_Subset
<1>4. Cardinality(e.prefixMask) \in Nat
  BY <1>3, FS_CardinalityType
<1>5. \A c : Flag(c) \in {0, 1}
  BY DEF Flag
<1> DEFINE n == Cardinality(e.prefixMask)
           f1 == Flag(e.w # "any")
           f2 == Flag(e.vectorLength # 0)
           f3 == Flag(e.operandSize # 0)
           f4 == Flag(e.mod # "any")
           f5 == Flag(e.reg # 0..7)
           f6 == Flag(e.rm # 0..7)
<1>6. Specificity(e) = 16 * n + 8 * f1 + 8 * f2 + 8 * f3 + 4 * f4 + 6 * f5 + 6 * f6
  BY DEF Specificity
<1>7. n \in 0..3 /\ f1 \in 0..1 /\ f2 \in 0..1 /\ f3 \in 0..1 /\ f4 \in 0..1 /\ f5 \in 0..1 /\ f6 \in 0..1
  BY <1>3, <1>4, <1>5
<1> HIDE DEF n, f1, f2, f3, f4, f5, f6
<1> QED
  BY <1>6, <1>7

LEMMA MostSpecificIsOne ==
  ASSUME NEW forms, NEW bucket, NEW matching, matching # {}, matching \subseteq Nat,
         \A k \in matching : forms[bucket[k]] \in Encoding
  PROVE  MostSpecific(forms, bucket, matching) \in matching
<1> DEFINE rank(k) == Specificity(forms[bucket[k]])
           T == {100 - rank(k) : k \in matching}
           most == {k \in matching : \A j \in matching : rank(j) <= rank(k)}
<1>1. \A k \in matching : rank(k) \in 0..100
  BY SpecificityBound
<1> HIDE DEF rank
<1>2. T \subseteq Nat /\ T # {}
  BY <1>1
<1>3. PICK t \in T : \A u \in T : t <= u
  <2> HIDE DEF T
  <2> QED
    BY <1>2, Least
<1>4. PICK k \in matching : t = 100 - rank(k)
  BY <1>3
<1>5. ASSUME NEW j \in matching PROVE rank(j) <= rank(k)
  <2>1. t <= 100 - rank(j)
    BY <1>3
  <2> QED
    BY <1>1, <1>4, <2>1
<1>6. most # {} /\ most \subseteq Nat
  BY <1>5
<1>7. MostSpecific(forms, bucket, matching) = CHOOSE x \in most : \A y \in most : x <= y
  BY DEF MostSpecific, Min, rank
<1>8. \E x \in most : \A y \in most : x <= y
  <2> HIDE DEF most
  <2> QED
    BY <1>6, Least
<1> QED
  BY <1>7, <1>8

\* What an answer says of the bytes it was given.
AnswerIsSound(forms, src, answer) ==
  /\ DOMAIN answer = {"form", "length", "alternatives", "reason"}
  /\ answer.reason = "none" =>
       /\ answer.form \in DOMAIN forms
       /\ answer.length \in 1..MaxLength /\ answer.length <= Len(src)
  /\ answer.reason = "short" => Len(src) <= LongestWait

LEMMA ErrorIsSound ==
  ASSUME NEW forms, NEW src, NEW reason \in {"short", "unknown", "long"},
         reason = "short" => Len(src) <= LongestWait
  PROVE  AnswerIsSound(forms, src, DecodeError(reason))
  BY DEF AnswerIsSound, DecodeError

LEMMA AnswerSound ==
  ASSUME NEW forms \in Seq(Encoding), NEW bucket \in Seq(DOMAIN forms), NEW src, NEW lengths,
         \A k \in DOMAIN bucket : MatchIsSound(src, lengths[k])
  PROVE  AnswerIsSound(forms, src, Answer(forms, bucket, lengths))
<1> DEFINE matching == {k \in DOMAIN bucket : lengths[k] > 0}
           answer == Answer(forms, bucket, lengths)
           best == MostSpecific(forms, bucket, matching)
<1>1. DOMAIN bucket \subseteq Nat /\ \A k \in DOMAIN bucket : bucket[k] \in DOMAIN forms
  BY LenProperties
<1>2. \A i \in DOMAIN forms : forms[i] \in Encoding
  BY LenProperties
<1>3. CASE matching # {}
  <2>1. answer = Matched(bucket, lengths, best)
    BY <1>3 DEF Answer
  <2>2. best \in matching
    <3>1. \A k \in matching : forms[bucket[k]] \in Encoding
      BY <1>1, <1>2
    <3>2. matching \subseteq Nat
      BY <1>1
    <3> HIDE DEF matching
    <3> QED
      BY <1>3, <3>1, <3>2, MostSpecificIsOne
  <2>3. answer.form = bucket[best] /\ answer.length = lengths[best] /\ answer.reason = "none"
    BY <2>1 DEF Matched
  <2>4. best \in DOMAIN bucket /\ lengths[best] > 0
    BY <2>2
  <2>5. lengths[best] \in 1..MaxLength /\ lengths[best] <= Len(src)
    BY <2>4 DEF MatchIsSound, Mismatch, Short
  <2>6. DOMAIN answer = {"form", "length", "alternatives", "reason"}
    BY <2>1 DEF Matched
  <2> HIDE DEF answer, best
  <2> QED
    BY <1>1, <2>3, <2>4, <2>5, <2>6 DEF AnswerIsSound, answer
<1>4. CASE matching = {} /\ \E k \in DOMAIN bucket : lengths[k] = Short
  <2>1. answer = DecodeError("short")
    BY <1>4 DEF Answer
  <2>2. Len(src) <= LongestWait
    BY <1>4 DEF MatchIsSound
  <2> QED
    BY <2>1, <2>2, ErrorIsSound
<1>5. CASE matching = {} /\ ~ \E k \in DOMAIN bucket : lengths[k] = Short
  <2>1. answer = DecodeError("unknown")
    BY <1>5 DEF Answer
  <2> QED
    BY <2>1, ErrorIsSound
<1> QED
  BY <1>3, <1>4, <1>5

\* The runs of a decoder's table lead to forms of its catalog.
DecoderIsSound(forms, d) ==
  /\ d.candidates \in Seq(DOMAIN forms)
  /\ \A key \in DOMAIN d.buckets :
       LET b == d.buckets[key]
       IN  b.start \in Nat /\ b.count \in Nat /\ b.start + b.count <= Len(d.candidates)

LEMMA BucketSound ==
  ASSUME NEW forms, NEW d, DecoderIsSound(forms, d), NEW h
  PROVE  Bucket(d, h) \in Seq(DOMAIN forms)
<1> DEFINE key == DispatchIndex(h.kind, h.map, h.opcode)
           b == d.buckets[key]
           c == d.candidates
<1>1. CASE key \notin DOMAIN d.buckets
  <2>1. Bucket(d, h) = << >>
    BY <1>1 DEF Bucket
  <2> QED
    BY <2>1
<1>2. CASE key \in DOMAIN d.buckets
  <2>1. Bucket(d, h) = SubSeq(c, b.start + 1, b.start + b.count)
    BY <1>2 DEF Bucket
  <2>2. /\ c \in Seq(DOMAIN forms) /\ b.start \in Nat /\ b.count \in Nat
        /\ b.start + b.count <= Len(c)
    BY <1>2 DEF DecoderIsSound
  <2> HIDE DEF b, c
  <2>3. \A i \in (b.start + 1)..(b.start + b.count) : c[i] \in DOMAIN forms
    BY <2>2, LenProperties
  <2>4. b.start + 1 \in Int /\ b.start + b.count \in Int
    BY <2>2
  <2>5. SubSeq(c, b.start + 1, b.start + b.count) \in Seq(DOMAIN forms)
    BY <2>3, <2>4, SubSeqProperties, Zenon
  <2> QED
    BY <2>1, <2>5
<1> QED
  BY <1>1, <1>2

\* Whatever the bytes are and however many: an instruction decoded from them has
\* one to fifteen bytes, all of them there, and a decoder that was given more than
\* LongestWait bytes does not ask for more (decode.go Decode).
THEOREM DecodeStaysInside ==
  ASSUME NEW forms \in Seq(Encoding), NEW d, DecoderIsSound(forms, d),
         NEW src, IsSeq(src), NEW m
  PROVE  AnswerIsSound(forms, src, Decode(forms, d, src, m))
<1> DEFINE h == ParseHead(src, m)
           bucket == Bucket(d, h)
           lengths == [k \in DOMAIN bucket |-> MatchEncoding(src, m, h, forms[bucket[k]])]
<1>1. CASE Len(src) = 0
  <2>1. Decode(forms, d, src, m) = DecodeError("short")
    BY <1>1 DEF Decode
  <2> QED
    BY <1>1, <2>1, ErrorIsSound DEF LongestWait
<1>2. HeadIsSound(src, h)
  BY HeadSound
<1>3. bucket \in Seq(DOMAIN forms)
  <2> HIDE DEF h
  <2> QED
    BY BucketSound
<1> HIDE DEF h, bucket
<1>4. CASE Len(src) # 0 /\ h.kind = "error"
  <2>1. Decode(forms, d, src, m) = DecodeError(h.reason)
    BY <1>4 DEF Decode, WithHead, h
  <2> QED
    BY <1>2, <1>4, <2>1, ErrorIsSound DEF HeadIsSound
<1>5. CASE Len(src) # 0 /\ h.kind # "error"
  <2>1. Decode(forms, d, src, m) = Answer(forms, bucket, lengths)
    BY <1>5 DEF Decode, WithHead, AmongBucket, h, bucket
  <2>2. h.modrm \in 1..20 /\ h.modrm <= Len(src)
    BY <1>2, <1>5 DEF HeadIsSound
  <2>3. ASSUME NEW k \in DOMAIN bucket PROVE MatchIsSound(src, lengths[k])
    <3>1. bucket[k] \in DOMAIN forms
      BY <1>3, LenProperties
    <3>2. forms[bucket[k]] \in Encoding
      BY <3>1, LenProperties
    <3>3. lengths[k] = MatchEncoding(src, m, h, forms[bucket[k]])
      OBVIOUS
    <3> HIDE DEF lengths
    <3> QED
      BY <2>2, <3>2, <3>3, MatchBound
  <2> HIDE DEF lengths
  <2> QED
    BY <1>3, <2>1, <2>3, AnswerSound
<1> QED
  BY <1>1, <1>4, <1>5

----------------------------------------------------------------------------
(* The table of a decoder. *)

\* Members of a finite set are ranked by how many come before them.
LEMMA RankedOnce ==
  ASSUME NEW S, IsFiniteSet(S), \A a \in S : a.key \in Int /\ a.form \in Int,
         \A a, b \in S : a.key = b.key /\ a.form = b.form => a = b
  PROVE  \A n \in 0..(Cardinality(S) - 1) :
           \E a \in S : Cardinality({b \in S : Precedes(b, a)}) = n
<1> DEFINE before(a) == {b \in S : Precedes(b, a)}
           N == Cardinality(S)
           rank == [a \in S |-> Cardinality(before(a))]
<1>1. \A a \in S : ~Precedes(a, a)
  BY DEF Precedes
<1>2. \A a, b, c \in S : Precedes(a, b) /\ Precedes(b, c) => Precedes(a, c)
  BY DEF Precedes
<1>3. \A a, b \in S : a # b => Precedes(a, b) \/ Precedes(b, a)
  BY DEF Precedes
<1> HIDE DEF N
<1>4. N \in Nat
  BY FS_CardinalityType DEF N
<1>5. ASSUME NEW a \in S
      PROVE  IsFiniteSet(before(a)) /\ Cardinality(before(a)) \in 0..(N - 1)
  <2>1. before(a) \in SUBSET S /\ before(a) # S
    BY <1>1
  <2> HIDE DEF before
  <2>2. /\ IsFiniteSet(before(a)) /\ Cardinality(before(a)) <= N
        /\ N = Cardinality(before(a)) => S = before(a)
    BY <2>1, FS_Subset DEF N
  <2>3. Cardinality(before(a)) \in Nat
    BY <2>2, FS_CardinalityType
  <2> QED
    BY <1>4, <2>1, <2>2, <2>3
<1>6. ASSUME NEW a \in S, NEW b \in S, Precedes(a, b)
      PROVE  Cardinality(before(a)) # Cardinality(before(b))
  <2>1. before(a) \in SUBSET before(b)
    BY <1>2, <1>6
  <2>2. a \in before(b) /\ a \notin before(a)
    BY <1>1, <1>6
  <2>3. IsFiniteSet(before(b))
    BY <1>5
  <2> HIDE DEF before
  <2> QED
    BY <2>1, <2>2, <2>3, FS_Subset
<1>7. rank \in [S -> 0..(N - 1)]
  <2> HIDE DEF before
  <2> QED
    BY <1>5
<1>8. rank \in Injection(S, 0..(N - 1))
  <2>1. ASSUME NEW a \in S, NEW b \in S, rank[a] = rank[b] PROVE a = b
    <3>1. Cardinality(before(a)) = Cardinality(before(b))
      BY <2>1
    <3> HIDE DEF before
    <3> QED
      BY <1>3, <1>6, <3>1
  <2> HIDE DEF rank
  <2> QED
    BY <1>7, <2>1 DEF Injection, IsInjective
<1>9. IsFiniteSet(0..(N - 1)) /\ Cardinality(0..(N - 1)) = N
  <2>1. /\ IsFiniteSet(0..(N - 1))
        /\ Cardinality(0..(N - 1)) = IF 0 > N - 1 THEN 0 ELSE (N - 1) - 0 + 1
    <3>1. 0 \in Int /\ N - 1 \in Int
      BY <1>4
    <3> QED
      BY <3>1, FS_Interval, Zenon
  <2> QED
    BY <1>4, <2>1
<1>10. rank \in Surjection(S, 0..(N - 1))
  <2> HIDE DEF rank
  <2> QED
    BY <1>8, <1>9, FS_Injection DEF N
<1>11. ASSUME NEW n \in 0..(N - 1) PROVE \E a \in S : Cardinality(before(a)) = n
  <2>1. \E a \in S : rank[a] = n
    <3> HIDE DEF rank
    <3> QED
      BY <1>10 DEF Surjection
  <2> QED
    BY <2>1
<1> QED
  BY <1>11 DEF N

LEMMA DispatchType ==
  ASSUME NEW kind \in EncodingKinds, NEW map \in OpcodeMaps, NEW opcode \in Int
  PROVE  DispatchIndex(kind, map, opcode) \in Int
<1>1. KindNumber[kind] \in Int
  BY DEF KindNumber, EncodingKinds
<1>2. MapNumber[map] \in Int
  BY DEF MapNumber, OpcodeMaps
<1> QED
  BY <1>1, <1>2 DEF DispatchIndex

LEMMA FinitelyMany ==
  ASSUME NEW S, IsFiniteSet(S), NEW f, DOMAIN f = S, f = [x \in S |-> f[x]]
  PROVE  IsFiniteSet({f[x] : x \in S})
<1> DEFINE T == {f[x] : x \in S}
<1>1. f \in [S -> T] /\ \A t \in T : \E x \in S : f[x] = t
  OBVIOUS
<1> HIDE DEF T
<1>2. f \in Surjection(S, T)
  BY <1>1 DEF Surjection
<1>3. IsFiniteSet(T)
  BY <1>2, FS_Surjection
<1> QED
  BY <1>3 DEF T

LEMMA KeyedOnce ==
  ASSUME NEW forms \in Seq(Encoding), ValidCatalog(forms)
  PROVE  /\ IsFiniteSet(Keyed(forms))
         /\ \A a \in Keyed(forms) : a.index \in DOMAIN forms /\ a.key \in Int /\ a.form \in Int
         /\ \A a, b \in Keyed(forms) : a.key = b.key /\ a.form = b.form => a = b
<1> DEFINE Offsets(i) == IF forms[i].plusReg THEN 0..7 ELSE {0}
           Entry(i, o) == [index |-> i, form |-> forms[i].form,
                           key |-> DispatchIndex(forms[i].kind, forms[i].map, forms[i].opcode + o)]
           Entries(i) == {Entry(i, o) : o \in Offsets(i)}
           All == {Entries(i) : i \in DOMAIN forms}
<1>1. Keyed(forms) = UNION All
  BY DEF Keyed
<1>2. \A i \in DOMAIN forms : forms[i] \in Encoding
  BY LenProperties
<1>3. IsFiniteSet(0..7) /\ IsFiniteSet({0})
  BY 0 \in Int, 7 \in Int, FS_Interval, FS_Singleton, Zenon
<1>4. \A i \in DOMAIN forms : IsFiniteSet(Offsets(i))
  BY <1>3
<1> HIDE DEF Entry
<1>5. ASSUME NEW i \in DOMAIN forms PROVE IsFiniteSet(Entries(i))
  <2>1. IsFiniteSet(Offsets(i))
    BY <1>4
  <2> DEFINE f == [o \in Offsets(i) |-> Entry(i, o)]
  <2> HIDE DEF Offsets
  <2>2. DOMAIN f = Offsets(i) /\ f = [o \in Offsets(i) |-> f[o]]
    OBVIOUS
  <2>3. Entries(i) = {f[o] : o \in Offsets(i)}
    OBVIOUS
  <2> HIDE DEF f, Entries
  <2> QED
    BY <2>1, <2>2, <2>3, FinitelyMany
<1>6. IsFiniteSet(DOMAIN forms)
  <2>1. DOMAIN forms = 1..Len(forms) /\ 1 \in Int /\ Len(forms) \in Int
    BY LenProperties
  <2> QED
    BY <2>1, FS_Interval
<1> HIDE DEF Entries
<1>7. IsFiniteSet(All)
  <2> DEFINE f == [i \in DOMAIN forms |-> Entries(i)]
  <2>1. DOMAIN f = DOMAIN forms /\ f = [i \in DOMAIN forms |-> f[i]]
    OBVIOUS
  <2>2. All = {f[i] : i \in DOMAIN forms}
    OBVIOUS
  <2> HIDE DEF f, All
  <2> QED
    BY <1>6, <2>1, <2>2, FinitelyMany
<1>8. IsFiniteSet(UNION All)
  <2>1. \A T \in All : IsFiniteSet(T)
    BY <1>5
  <2> HIDE DEF All
  <2> QED
    BY <1>7, <2>1, FS_UNION
<1>9. ASSUME NEW a \in UNION All
      PROVE  \E i \in DOMAIN forms : \E o \in Offsets(i) : a = Entry(i, o)
  <2>1. PICK i \in DOMAIN forms : a \in Entries(i)
    OBVIOUS
  <2> QED
    BY <2>1 DEF Entries
<1>10. ASSUME NEW i \in DOMAIN forms, NEW o \in Offsets(i)
       PROVE  /\ Entry(i, o).index = i /\ Entry(i, o).form = forms[i].form
              /\ Entry(i, o).key \in Int /\ Entry(i, o).form \in Int
  <2>a. o \in Int
    OBVIOUS
  <2>b. /\ forms[i].kind \in EncodingKinds /\ forms[i].map \in OpcodeMaps
        /\ forms[i].opcode \in 0..255 /\ forms[i].form \in Nat
    BY <1>2 DEF Encoding, Byte
  <2> HIDE DEF Offsets
  <2>1. /\ forms[i].kind \in EncodingKinds /\ forms[i].map \in OpcodeMaps
        /\ forms[i].opcode + o \in Int /\ forms[i].form \in Int
    <3> DEFINE c == forms[i].opcode
    <3>1. c \in 0..255
      BY <2>b
    <3> HIDE DEF c
    <3>2. c + o \in Int
      BY <2>a, <3>1
    <3>3. forms[i].form \in Int
      BY <2>b
    <3> QED
      BY <2>b, <3>2, <3>3 DEF c
  <2>2. DispatchIndex(forms[i].kind, forms[i].map, forms[i].opcode + o) \in Int
    BY <2>1, DispatchType
  <2> QED
    BY <2>1, <2>2 DEF Entry
<1> HIDE DEF All
<1>11. ASSUME NEW a \in UNION All
       PROVE  a.index \in DOMAIN forms /\ a.key \in Int /\ a.form \in Int
  <2>1. PICK i \in DOMAIN forms : \E o \in Offsets(i) : a = Entry(i, o)
    BY <1>9
  <2> QED
    BY <1>10, <2>1
<1>12. ASSUME NEW a \in UNION All, NEW b \in UNION All, a.key = b.key, a.form = b.form
       PROVE  a = b
  <2>a. PICK i \in DOMAIN forms : \E o \in Offsets(i) : a = Entry(i, o)
    BY <1>9
  <2>1. PICK o \in Offsets(i) : a = Entry(i, o)
    BY <2>a
  <2>b. PICK j \in DOMAIN forms : \E p \in Offsets(j) : b = Entry(j, p)
    BY <1>9
  <2>2. PICK p \in Offsets(j) : b = Entry(j, p)
    BY <2>b
  <2>3. forms[i].form = forms[j].form
    BY <1>10, <1>12, <2>1, <2>2
  <2>4. i = j
    BY <2>3 DEF ValidCatalog
  <2>5. Entry(i, o).key = Entry(i, p).key /\ Entry(i, o).form = Entry(i, p).form
    BY <1>12, <2>1, <2>2, <2>4
  <2>6. Entry(i, o) = Entry(i, p)
    BY <2>5 DEF Entry
  <2> QED
    BY <2>1, <2>2, <2>4, <2>6
<1> QED
  BY <1>1, <1>8, <1>11, <1>12

\* Of n places some hold a key: the first is followed by all the others.
LEMMA RunFits ==
  ASSUME NEW n \in Nat, NEW run, run \subseteq 1..n, run # {}
  PROVE  /\ Min(run) - 1 \in Nat /\ Cardinality(run) \in Nat
         /\ Min(run) - 1 + Cardinality(run) <= n
<1> DEFINE a == Min(run)
<1>1. a \in run /\ \A k \in run : a <= k
  <2>1. \E x \in run : \A y \in run : x <= y
    <3>1. run \subseteq Nat
      OBVIOUS
    <3> QED
      BY <3>1, Least
  <2>2. a = CHOOSE x \in run : \A y \in run : x <= y
    BY DEF Min
  <2> QED
    BY <2>1, <2>2
<1> HIDE DEF a
<1>2. a \in 1..n /\ run \subseteq a..n
  BY <1>1
<1>3. IsFiniteSet(a..n) /\ Cardinality(a..n) = n - a + 1
  <2>1. /\ IsFiniteSet(a..n)
        /\ Cardinality(a..n) = IF a > n THEN 0 ELSE n - a + 1
    <3>1. a \in Int /\ n \in Int
      BY <1>2
    <3> QED
      BY <3>1, FS_Interval, Zenon
  <2> QED
    BY <1>2, <2>1
<1>4. IsFiniteSet(run) /\ Cardinality(run) <= Cardinality(a..n)
  BY <1>2, <1>3, FS_Subset
<1>5. Cardinality(run) \in Nat
  BY <1>4, FS_CardinalityType
<1> QED
  BY <1>2, <1>3, <1>4, <1>5 DEF a

LEMMA NewDecoderSound ==
  ASSUME NEW forms \in Seq(Encoding), ValidCatalog(forms)
  PROVE  DecoderIsSound(forms, NewDecoder(forms))
<1> DEFINE S == Keyed(forms)
           N == Cardinality(S)
           sorted == Sorted(S)
           run(key) == {k \in DOMAIN sorted : sorted[k].key = key}
           d == NewDecoder(forms)
<1>1. /\ IsFiniteSet(S)
      /\ \A a \in S : a.index \in DOMAIN forms /\ a.key \in Int /\ a.form \in Int
      /\ \A a, b \in S : a.key = b.key /\ a.form = b.form => a = b
  BY KeyedOnce
<1>2. d = [candidates |-> [k \in DOMAIN sorted |-> sorted[k].index],
           buckets |-> [key \in {sorted[k].key : k \in DOMAIN sorted} |->
                          [start |-> Min(run(key)) - 1, count |-> Cardinality(run(key))]]]
  BY DEF NewDecoder
<1> HIDE DEF S
<1>3. N \in Nat
  BY <1>1, FS_CardinalityType
<1>4. DOMAIN sorted = 1..N
  BY DEF Sorted
<1>5. ASSUME NEW k \in 1..N PROVE sorted[k] \in S
  <2>1. k - 1 \in 0..(N - 1)
    BY <1>3
  <2>2. \E a \in S : Cardinality({b \in S : Precedes(b, a)}) = k - 1
    BY <1>1, <2>1, RankedOnce
  <2>3. sorted[k] = CHOOSE a \in S : Cardinality({b \in S : Precedes(b, a)}) = k - 1
    BY DEF Sorted
  <2> QED
    BY <2>2, <2>3
<1> HIDE DEF sorted, N, d
<1>6. d.candidates \in Seq(DOMAIN forms) /\ Len(d.candidates) = N
  <2>1. d.candidates = [k \in 1..N |-> sorted[k].index]
    BY <1>2, <1>4
  <2>2. d.candidates \in [1..N -> DOMAIN forms]
    BY <1>1, <1>5, <2>1
  <2>3. d.candidates \in Seq(DOMAIN forms)
    BY <1>3, <2>2, SeqDef
  <2>4. DOMAIN d.candidates = 1..Len(d.candidates) /\ Len(d.candidates) \in Nat
    BY <2>3, LenProperties
  <2>5. 1..N = 1..Len(d.candidates)
    BY <2>2, <2>4
  <2> QED
    BY <1>3, <2>3, <2>4, <2>5
<1>7. ASSUME NEW key \in DOMAIN d.buckets
      PROVE  LET b == d.buckets[key]
             IN  b.start \in Nat /\ b.count \in Nat /\ b.start + b.count <= N
  <2>1. /\ d.buckets[key].start = Min(run(key)) - 1
        /\ d.buckets[key].count = Cardinality(run(key))
    BY <1>2
  <2>2. run(key) \subseteq 1..N /\ run(key) # {}
    BY <1>2, <1>4
  <2> HIDE DEF run
  <2>3. /\ Min(run(key)) - 1 \in Nat /\ Cardinality(run(key)) \in Nat
        /\ Min(run(key)) - 1 + Cardinality(run(key)) <= N
    BY <1>3, <2>2, RunFits
  <2> QED
    BY <2>1, <2>3
<1> QED
  BY <1>6, <1>7 DEF DecoderIsSound, d

----------------------------------------------------------------------------
(* Import of a record. *)

LEMMA TailsAre ==
  ASSUME NEW operands, IsSeq(operands)
  PROVE  Tails(operands) \in Seq(TailWidths)
<1> DEFINE N == Len(operands)
           S == Seq(TailWidths)
           is4 == \E i \in DOMAIN operands : operands[i].in = "IS4"
           width(o) == IF is4 /\ o.in = "IB" THEN "none" ELSE TailWidth(o)
           next(k, t) == IF width(operands[k]) = "none" THEN t
                         ELSE Append(t, width(operands[k]))
           step == [p \in (1..N) \X S |-> next(p[1], p[2])]
           Def(g) == g = [n \in 0..N |->
                            IF n = 0 THEN << >>
                            ELSE IF width(operands[n]) = "none" THEN g[n - 1]
                            ELSE Append(g[n - 1], width(operands[n]))]
           kept == CHOOSE g : Def(g)
<1>1. N \in Nat
  BY SeqShape
<1>2. Tails(operands) = kept[N]
  BY DEF Tails
<1>3. ASSUME NEW k \in 1..N, NEW t \in S PROVE next(k, t) \in S
  <2>1. width(operands[k]) = "none" \/ width(operands[k]) \in TailWidths
    BY DEF TailWidth, TailWidths
  <2> HIDE DEF width
  <2> QED
    BY <2>1
<1> HIDE DEF N, width
<1>4. << >> \in S
  OBVIOUS
<1>5. step \in [(1..N) \X S -> S] /\ \A k \in 1..N, t \in S : step[<<k, t>>] = next(k, t)
  <2> HIDE DEF S, next
  <2> QED
    BY <1>3
<1> HIDE DEF step, S
<1>6. PICK g \in [0..N -> S] : Iterates(g, N, << >>, step)
  BY <1>1, <1>4, <1>5, Iterated
<1>7. g[0] = << >> /\ \A k \in 1..N : g[k] = step[<<k, g[k - 1]>>]
  BY <1>6 DEF Iterates
<1>8. ASSUME NEW k \in 0..N
      PROVE  g[k] = IF k = 0 THEN << >> ELSE next(k, g[k - 1])
  <2>1. k # 0 => k \in 1..N /\ k - 1 \in 0..N
    BY <1>1
  <2>2. k # 0 => g[k - 1] \in S
    BY <1>6, <2>1
  <2> HIDE DEF next
  <2> QED
    BY <1>5, <1>7, <2>1, <2>2
<1>9. Def(g)
  BY <1>6, <1>8
<1>10. Def(kept)
  <2> HIDE DEF Def
  <2> QED
    BY <1>9
<1> HIDE DEF kept
<1>11. kept[0] \in S
  BY <1>1, <1>4, <1>10
<1>12. ASSUME NEW k \in 1..N, kept[k - 1] \in S PROVE kept[k] \in S
  <2>a. k \in 0..N /\ k # 0
    BY <1>1
  <2>1. kept[k] = next(k, kept[k - 1])
    BY <1>10, <2>a, Zenon
  <2> HIDE DEF next
  <2> QED
    BY <1>3, <1>12, <2>1
<1> HIDE DEF Def
<1>13. kept[N] \in S
  BY <1>1, <1>11, <1>12, LoopKeeps
<1> QED
  BY <1>2, <1>13 DEF S

LEMMA ReservedAre ==
  ASSUME NEW kind, NEW operands
  PROVE  ReservedVVVV(kind, operands) \subseteq 0..4
<1> DEFINE all == IF kind \in {"vex", "xop"} THEN 0..3 ELSE IF kind = "evex" THEN 0..4 ELSE {}
<1>1. all \subseteq 0..4
  OBVIOUS
<1>2. ReservedVVVV(kind, operands) \in {{}, all, all \ {4}}
  BY DEF ReservedVVVV
<1> QED
  BY <1>1, <1>2

\* A record that is not refused becomes an encoding.
LEMMA ImportSound ==
  ASSUME NEW r \in Template, ~ImportFails(r)
  PROVE  Import(r) \in Encoding
<1> DEFINE free == IF SizeOverrides(r) THEN {P66} ELSE {}
           required == WrittenPrefixes(r, "1")
           e == Import(r)
<1>1. /\ r.id \in STRING /\ r.form \in Nat /\ r.vl \in Nat
      /\ r.reg \in -1..7 /\ r.rm \in -1..7
      /\ r.operands \in Seq([type : STRING, in : STRING, symbol : STRING])
  BY DEF Template
<1>2. r.op \in Byte /\ r.enc \in EncodingKinds /\ r.map \in OpcodeMaps
  BY DEF ImportFails
<1>3. required \subseteq MandatoryPrefixes /\ WrittenPrefixes(r, "0") \subseteq MandatoryPrefixes
  BY DEF WrittenPrefixes
<1>4. Tails(r.operands) \in Seq(TailWidths)
  <2>1. IsSeq(r.operands)
    BY <1>1, MemberIsSeq
  <2> QED
    BY <2>1, TailsAre
<1>5. ReservedVVVV(r.enc, r.operands) \in SUBSET (0..4)
  BY ReservedAre
<1> DEFINE mandatory == IF required = {} THEN NoPrefix ELSE CHOOSE p \in required : TRUE
           modes == CASE r.mode = "64" -> {64} [] r.mode = "NO64" -> {16, 32} [] OTHER -> Modes
           width == IF SizeOverrides(r) /\ r.osz = "Z" THEN "0"
                    ELSE IF r.w \in {"0", "1"} THEN r.w ELSE "any"
           size == CASE r.osz = "16" -> 16 [] r.osz = "32" -> 32
                     [] r.osz = "64" -> 64 [] OTHER -> 0
           modrm == r.mr \/ r.mod # "" \/ r.reg # -1 \/ r.rm # -1
           mod == IF r.mod \in {"MEM", "REG"} THEN r.mod ELSE "any"
           reg == IF r.reg = -1 THEN 0..7 ELSE {r.reg}
           rm == IF r.rm = -1 THEN 0..7 ELSE {r.rm}
           mask == (required \cup WrittenPrefixes(r, "0")) \ free
           value == required \ free
<1>6. mandatory \in MandatoryPrefixes \cup {NoPrefix}
  <2>1. required # {} => (CHOOSE p \in required : TRUE) \in required
    OBVIOUS
  <2> HIDE DEF required
  <2> QED
    BY <1>3, <2>1
<1>7. mask \in SUBSET MandatoryPrefixes /\ value \in SUBSET MandatoryPrefixes
  <2> HIDE DEF required, free
  <2> QED
    BY <1>3
<1>8. modes \in SUBSET Modes
  BY DEF Modes
<1>9. width \in {"any", "0", "1"} /\ size \in {0, 16, 32, 64} /\ modrm \in BOOLEAN
  OBVIOUS
<1>10. mod \in {"any", "MEM", "REG"}
  OBVIOUS
<1>11. reg \in SUBSET (0..7) /\ rm \in SUBSET (0..7)
  BY <1>1
<1>12. e = [id |-> r.id, form |-> r.form, kind |-> r.enc, map |-> r.map,
            opcode |-> r.op, plusReg |-> FALSE, mandatory |-> mandatory,
            prefixMask |-> mask, prefixValue |-> value, modes |-> modes, w |-> width,
            operandSize |-> size, vectorLength |-> r.vl,
            reserved |-> ReservedVVVV(r.enc, r.operands), hasModRM |-> modrm,
            mod |-> mod, reg |-> reg, rm |-> rm, tail |-> Tails(r.operands)]
  BY DEF Import
<1> HIDE DEF e, mandatory, mask, value, modes, width, size, modrm, mod, reg, rm
<1>13. e \in Encoding
  BY <1>1, <1>2, <1>4, <1>5, <1>6, <1>7, <1>8, <1>9, <1>10, <1>11, <1>12 DEF Encoding
<1> QED
  BY <1>13 DEF e

----------------------------------------------------------------------------
(* What Encode writes. *)

LEMMA TupleIsSeq ==
  ASSUME NEW a, NEW b, NEW c, NEW d, NEW e
  PROVE  /\ IsSeq(<<a>>) /\ IsSeq(<<a, b, c>>) /\ IsSeq(<<a, b, c, d>>)
         /\ IsSeq(<<a, b, c, d, e>>)
<1> DEFINE S == {a, b, c, d, e}
<1>1. \A s \in Seq(S) : IsSeq(s)
  <2> HIDE DEF S
  <2> QED
    BY MemberIsSeq
<1>2. <<a>> \in Seq(S) /\ <<a, b, c>> \in Seq(S)
  OBVIOUS
<1>3. <<a, b, c, d>> \in Seq(S)
  OBVIOUS
<1>4. <<a, b, c, d, e>> \in Seq(S)
  OBVIOUS
<1> HIDE DEF S
<1> QED
  BY <1>1, <1>2, <1>3, <1>4

LEMMA LittleEndianIsSeq ==
  ASSUME NEW value, NEW n \in Nat
  PROVE  IsSeq(LittleEndian(value, n))
<1> DEFINE s == LittleEndian(value, n)
<1>1. s = [i \in 1..n |-> s[i]]
  BY DEF LittleEndian
<1> HIDE DEF s
<1>2. IsSeq(s)
  BY <1>1, SeqByShape
<1> QED
  BY <1>2 DEF s

LEMMA ModRMBytesIsSeq ==
  ASSUME NEW e, NEW f
  PROVE  IsSeq(ModRMBytes(e, f))
<1> DEFINE bits == AddressBits(f.mode, f.address)
           base == IF f.sib THEN f.base % 8 ELSE f.rm % 8
           first == <<64 * f.mod + 8 * (f.reg % 8) + (f.rm % 8)>>
           sib == IF f.sib THEN <<64 * f.scale + 8 * (f.index % 8) + (f.base % 8)>> ELSE << >>
           disp == LittleEndian(f.disp, DisplacementBytes(f.mod, base, bits))
<1>1. ModRMBytes(e, f) = first \o (IF f.mod = 3 THEN << >> ELSE sib \o disp)
  BY DEF ModRMBytes
<1>2. IsSeq(first) /\ IsSeq(sib) /\ IsSeq(<< >>)
  BY TupleIsSeq, EmptyIsSeq
<1>3. IsSeq(disp)
  <2>1. DisplacementBytes(f.mod, base, bits) \in Nat
    BY DisplacementIs
  <2> QED
    BY <2>1, LittleEndianIsSeq
<1> HIDE DEF first, sib, disp
<1>4. IsSeq(sib \o disp)
  BY <1>2, <1>3, SeqConcat
<1>5. IsSeq(IF f.mod = 3 THEN << >> ELSE sib \o disp)
  BY <1>2, <1>4
<1> QED
  BY <1>1, <1>2, <1>5, SeqConcat

LEMMA LegacyBytesIsSeq ==
  ASSUME NEW e, NEW f, e.map \in DOMAIN MapBytes
  PROVE  IsSeq(LegacyBytes(e, f))
<1> DEFINE size == SizeOverride(f.mode, e.operandSize) /\ e.mandatory # P66
           rex == REX(e, f)
           either(i) == BitField(e.opcode, i, 1) = 1 \/ BitField(f.opcodeReg, i, 1) = 1
           opcode == IF e.plusReg
                     THEN (e.opcode \div 8) * 8 + 4 * Flag(either(2)) + 2 * Flag(either(1))
                          + Flag(either(0))
                     ELSE e.opcode
           s1 == IF size THEN <<SizeByte>> ELSE << >>
           s2 == IF e.mandatory = NoPrefix THEN << >> ELSE <<PrefixByte[e.mandatory]>>
           s3 == IF rex = 0 THEN << >> ELSE <<RexByte + rex>>
           s4 == MapBytes[e.map]
           s5 == <<opcode>>
<1>1. LegacyBytes(e, f) = s1 \o s2 \o s3 \o s4 \o s5
  BY DEF LegacyBytes
<1>2. IsSeq(s1) /\ IsSeq(s2) /\ IsSeq(s3) /\ IsSeq(s5)
  BY TupleIsSeq, EmptyIsSeq
<1>3. IsSeq(s4)
  <2>1. e.map \in {"primary", "0f", "0f38", "0f3a"}
    BY DEF MapBytes
  <2> QED
    BY <2>1, MapBytesAre
<1> HIDE DEF s1, s2, s3, s4, s5
<1>4. IsSeq(s1 \o s2)
  BY <1>2, SeqConcat
<1>5. IsSeq(s1 \o s2 \o s3)
  BY <1>2, <1>4, SeqConcat
<1>6. IsSeq(s1 \o s2 \o s3 \o s4)
  BY <1>3, <1>5, SeqConcat
<1>7. IsSeq(s1 \o s2 \o s3 \o s4 \o s5)
  BY <1>2, <1>6, SeqConcat
<1> QED
  BY <1>1, <1>7

LEMMA VectorBytesIsSeq ==
  ASSUME NEW e, NEW f
  PROVE  IsSeq(VectorBytes(e, f))
<1> DEFINE evex == e.kind = "evex"
           not(n, i) == 1 - BitField(n, i, 1)
           r == not(f.reg, 3)
           x == IF evex /\ f.mod = 3 THEN not(f.rm, 4) ELSE not(f.index, 3)
           b == IF f.sib THEN not(f.base, 3) ELSE not(f.rm, 3)
           w == Flag(e.w = "1")
           rxb == 128 * r + 64 * x + 32 * b
           v == 8 * Complement(f.vvvv, 4) + (e.mandatory + 1)
           l == 4 * Flag(e.vectorLength = 256)
           ll == CASE e.vectorLength = 256 -> 1 [] e.vectorLength = 512 -> 2 [] OTHER -> 0
           t1 == <<EvexByte, rxb + 16 * not(f.reg, 4) + (VectorMaps[e.map] % 4), 128 * w + v + 4,
                   128 * Flag(f.zeroing) + 32 * ll + 16 * Flag(f.broadcast)
                   + 8 * not(f.vvvv, 4) + f.mask, e.opcode>>
           t2 == <<Vex2Byte, 128 * r + v + l, e.opcode>>
           t3 == <<IF e.kind = "xop" THEN XopByte ELSE Vex3Byte, rxb + VectorMaps[e.map],
                   128 * w + v + l, e.opcode>>
           short == e.kind = "vex" /\ e.map = "0f" /\ w = 0 /\ x = 1 /\ b = 1
<1>1. VectorBytes(e, f) = CASE evex -> t1 [] short -> t2 [] OTHER -> t3
  BY DEF VectorBytes
<1>2. IsSeq(t1)
  <2> DEFINE p2 == rxb + 16 * not(f.reg, 4) + (VectorMaps[e.map] % 4)
             p3 == 128 * w + v + 4
             p4 == 128 * Flag(f.zeroing) + 32 * ll + 16 * Flag(f.broadcast)
                   + 8 * not(f.vvvv, 4) + f.mask
  <2>1. t1 = <<EvexByte, p2, p3, p4, e.opcode>>
    OBVIOUS
  <2> HIDE DEF p2, p3, p4, t1
  <2> QED
    BY <2>1, TupleIsSeq
<1>3. IsSeq(t2)
  BY TupleIsSeq
<1>4. IsSeq(t3)
  <2> DEFINE p1 == IF e.kind = "xop" THEN XopByte ELSE Vex3Byte
             p2 == rxb + VectorMaps[e.map]
             p3 == 128 * w + v + l
  <2>1. t3 = <<p1, p2, p3, e.opcode>>
    OBVIOUS
  <2> HIDE DEF p1, p2, p3, t3
  <2> QED
    BY <2>1, TupleIsSeq
<1>5. ~ (evex /\ short)
  OBVIOUS
<1> HIDE DEF t1, t2, t3, evex, short
<1> QED
  BY <1>1, <1>2, <1>3, <1>4, <1>5

LEMMA ImmediateBytesIsSeq ==
  ASSUME NEW e \in Encoding, NEW f
  PROVE  IsSeq(ImmediateBytes(e, f))
<1> DEFINE N == Len(e.tail)
           override == e.mandatory = P66 \/ SizeOverride(f.mode, e.operandSize)
           width(i) == TailBytes(e.tail[i], f.mode, override, Wide(e), f.address)
           bytes(i) == LittleEndian(f.imm[i], width(i))
           S == Seq(UNION {ToSet(bytes(i)) : i \in 1..N})
           step == [p \in (1..N) \X S |-> p[2] \o bytes(p[1])]
           Def(g) == g = [n \in 0..N |-> IF n = 0 THEN << >> ELSE g[n - 1] \o bytes(n)]
           upto == CHOOSE g : Def(g)
<1>1. N \in Nat
  <2>1. e.tail \in Seq(TailWidths)
    BY DEF Encoding
  <2> QED
    BY <2>1, LenProperties
<1>2. ImmediateBytes(e, f) = upto[N]
  BY DEF ImmediateBytes
<1>3. \A i \in 1..N : IsSeq(bytes(i))
  <2>1. \A i \in 1..N : width(i) \in Nat
    BY TailBytesAre
  <2> HIDE DEF width
  <2> QED
    BY <2>1, LittleEndianIsSeq
<1> HIDE DEF N, bytes
<1>4. ASSUME NEW i \in 1..N PROVE bytes(i) \in S
  <2> DEFINE V == UNION {ToSet(bytes(k)) : k \in 1..N}
  <2>1. ToSet(bytes(i)) \subseteq V
    OBVIOUS
  <2>2. bytes(i) \in Seq(ToSet(bytes(i)))
    BY <1>3 DEF IsSeq
  <2> HIDE DEF V
  <2>3. bytes(i) \in Seq(V)
    BY <2>1, <2>2, SeqMonotonic
  <2> QED
    BY <2>3 DEF V
<1>5. ASSUME NEW s \in S, NEW t \in S PROVE s \o t \in S
  BY ConcatProperties
<1>6. << >> \in S
  OBVIOUS
<1> HIDE DEF S
<1>7. ASSUME NEW k \in 1..N, NEW s \in S PROVE s \o bytes(k) \in S
  BY <1>4, <1>5
<1>8. step \in [(1..N) \X S -> S] /\ \A k \in 1..N, s \in S : step[<<k, s>>] = s \o bytes(k)
  BY <1>7
<1> HIDE DEF step
<1>9. PICK g \in [0..N -> S] : Iterates(g, N, << >>, step)
  BY <1>1, <1>6, <1>8, Iterated
<1>10. g[0] = << >> /\ \A k \in 1..N : g[k] = step[<<k, g[k - 1]>>]
  BY <1>9 DEF Iterates
<1>11. ASSUME NEW k \in 0..N
       PROVE  g[k] = IF k = 0 THEN << >> ELSE g[k - 1] \o bytes(k)
  <2>1. k # 0 => k \in 1..N /\ k - 1 \in 0..N
    BY <1>1
  <2>2. k # 0 => g[k - 1] \in S
    BY <1>9, <2>1
  <2> QED
    BY <1>8, <1>10, <2>1, <2>2
<1>12. Def(g)
  BY <1>9, <1>11
<1>13. Def(upto)
  <2> HIDE DEF Def
  <2> QED
    BY <1>12
<1> HIDE DEF upto
<1>14. upto[0] \in S
  BY <1>1, <1>6, <1>13
<1>15. ASSUME NEW k \in 1..N, upto[k - 1] \in S PROVE upto[k] \in S
  <2>1. k \in 0..N /\ k # 0
    BY <1>1
  <2>2. upto[k] = upto[k - 1] \o bytes(k)
    BY <1>13, <2>1, Zenon
  <2> QED
    BY <1>7, <1>15, <2>2
<1> HIDE DEF Def
<1>16. upto[N] \in S
  BY <1>1, <1>14, <1>15, LoopKeeps
<1> QED
  BY <1>2, <1>16, MemberIsSeq DEF S

LEMMA EncodeIsSeq ==
  ASSUME NEW e \in Encoding, NEW f
  PROVE  IsSeq(Encode(e, f))
<1> DEFINE s1 == IF f.segment = 0 THEN << >> ELSE <<f.segment>>
           s2 == IF f.address THEN <<AddressByte>> ELSE << >>
           s3 == IF e.kind = "legacy" THEN LegacyBytes(e, f) ELSE VectorBytes(e, f)
           s4 == IF e.hasModRM THEN ModRMBytes(e, f) ELSE << >>
           s5 == ImmediateBytes(e, f)
           bytes == s1 \o s2 \o s3 \o s4 \o s5
<1>1. CASE FieldsRefused(e, f) \/ Unencodable(e, f)
  <2>1. Encode(e, f) = << >>
    BY <1>1 DEF Encode, Refused
  <2> QED
    BY <2>1, EmptyIsSeq
<1>2. CASE ~ (FieldsRefused(e, f) \/ Unencodable(e, f))
  <2>1. Encode(e, f) = IF Len(bytes) > MaxBytes \/ Len(bytes) > MaxLength THEN Refused ELSE bytes
    BY <1>2 DEF Encode
  <2>2. IsSeq(s1) /\ IsSeq(s2)
    BY TupleIsSeq, EmptyIsSeq
  <2>3. IsSeq(s3)
    <3>1. e.kind = "legacy" => e.map \in DOMAIN MapBytes
      BY <1>2 DEF Unencodable
    <3> QED
      BY <3>1, LegacyBytesIsSeq, VectorBytesIsSeq
  <2>4. IsSeq(s4) /\ IsSeq(s5)
    BY ModRMBytesIsSeq, ImmediateBytesIsSeq, EmptyIsSeq
  <2> HIDE DEF s1, s2, s3, s4, s5
  <2>5. IsSeq(s1 \o s2)
    BY <2>2, SeqConcat
  <2>6. IsSeq(s1 \o s2 \o s3)
    BY <2>3, <2>5, SeqConcat
  <2>7. IsSeq(s1 \o s2 \o s3 \o s4)
    BY <2>4, <2>6, SeqConcat
  <2>8. IsSeq(bytes)
    BY <2>4, <2>7, SeqConcat
  <2> HIDE DEF bytes
  <2>9. IsSeq(Refused)
    BY EmptyIsSeq DEF Refused
  <2> QED
    BY <2>1, <2>8, <2>9
<1> QED
  BY <1>1, <1>2

----------------------------------------------------------------------------
(* The sweep. *)

LEMMA WindowIs ==
  ASSUME NEW s, IsSeq(s), NEW a \in Nat, NEW b \in Nat, a <= b, b <= Len(s)
  PROVE  IsSeq(SubSeq(s, a + 1, b)) /\ Len(SubSeq(s, a + 1, b)) = b - a
<1> DEFINE S == ToSet(s)
           t == SubSeq(s, a + 1, b)
<1>1. Len(s) \in Nat /\ DOMAIN s = 1..Len(s)
  BY SeqShape
<1>2. \A i \in (a + 1)..b : s[i] \in S
  BY <1>1 DEF ToSet
<1> HIDE DEF S
<1>3. a + 1 \in Int /\ b \in Int
  OBVIOUS
<1>4. t \in Seq(S) /\ Len(t) = IF a + 1 <= b THEN b - (a + 1) + 1 ELSE 0
  BY <1>2, <1>3, SubSeqProperties, Zenon
<1> HIDE DEF t
<1>5. Len(t) = b - a
  BY <1>4
<1> QED
  BY <1>4, <1>5, MemberIsSeq DEF t

\* What the answers so far have covered, and with one more.
Total(answers) ==
  LET upto[k \in 0..Len(answers)] == IF k = 0 THEN 0 ELSE upto[k - 1] + answers[k].length
  IN  upto[Len(answers)]

Adds(u, answers) ==
  u[0] = 0 /\ \A k \in 1..Len(answers) : u[k] = u[k - 1] + answers[k].length

LEMMA Totals ==
  ASSUME NEW answers, IsSeq(answers), \A k \in DOMAIN answers : answers[k].length \in Nat
  PROVE  \E u \in [0..Len(answers) -> Nat] :
           Adds(u, answers) /\ Total(answers) = u[Len(answers)]
<1> DEFINE N == Len(answers)
           size(k) == answers[k].length
           step == [p \in (1..N) \X Nat |-> p[2] + size(p[1])]
           Def(g) == g = [k \in 0..N |-> IF k = 0 THEN 0 ELSE g[k - 1] + size(k)]
           upto == CHOOSE g : Def(g)
<1>1. N \in Nat /\ \A k \in 1..N : size(k) \in Nat
  BY SeqShape
<1>2. Total(answers) = upto[N]
  BY DEF Total
<1> HIDE DEF N, size
<1>3. step \in [(1..N) \X Nat -> Nat] /\ \A k \in 1..N, x \in Nat : step[<<k, x>>] = x + size(k)
  BY <1>1
<1> HIDE DEF step
<1>4. PICK g \in [0..N -> Nat] : Iterates(g, N, 0, step)
  BY <1>1, <1>3, Iterated
<1>5. g[0] = 0 /\ \A k \in 1..N : g[k] = step[<<k, g[k - 1]>>]
  BY <1>4 DEF Iterates
<1>6. ASSUME NEW k \in 0..N PROVE g[k] = IF k = 0 THEN 0 ELSE g[k - 1] + size(k)
  <2>1. k # 0 => k \in 1..N /\ k - 1 \in 0..N
    BY <1>1
  <2>2. k # 0 => g[k - 1] \in Nat
    BY <1>4, <2>1
  <2> QED
    BY <1>3, <1>5, <2>1, <2>2
<1>7. Def(g)
  BY <1>4, <1>6
<1>8. Def(upto)
  <2> HIDE DEF Def
  <2> QED
    BY <1>7
<1> HIDE DEF upto
<1>9. upto[0] = 0 /\ \A k \in 1..N : upto[k] = upto[k - 1] + size(k)
  BY <1>1, <1>8
<1>10. DOMAIN upto = 0..N /\ upto = [k \in 0..N |-> upto[k]]
  BY <1>8
<1> HIDE DEF Def
<1>11. ASSUME NEW n \in 0..N PROVE upto[n] \in Nat
  <2>1. n \in Nat /\ \A k \in 1..n : k \in 1..N
    BY <1>1
  <2>2. upto[0] \in Nat
    BY <1>9
  <2>3. ASSUME NEW k \in 1..n, upto[k - 1] \in Nat PROVE upto[k] \in Nat
    BY <1>1, <1>9, <2>1, <2>3
  <2> QED
    BY <2>1, <2>2, <2>3, LoopKeeps
<1>12. upto \in [0..N -> Nat]
  BY <1>10, <1>11
<1>13. Adds(upto, answers)
  BY <1>9 DEF Adds, N, size
<1> QED
  BY <1>2, <1>12, <1>13 DEF N

LEMMA NothingCovered == Total(<< >>) = 0
<1>1. IsSeq(<< >>) /\ Len(<< >>) = 0 /\ DOMAIN << >> = {}
  BY EmptyIsSeq
<1>2. \A k \in DOMAIN << >> : << >>[k].length \in Nat
  BY <1>1
<1>3. PICK u \in [0..Len(<< >>) -> Nat] : Adds(u, << >>) /\ Total(<< >>) = u[Len(<< >>)]
  BY <1>1, <1>2, Totals, Zenon
<1> QED
  BY <1>1, <1>3 DEF Adds

LEMMA TotalAppend ==
  ASSUME NEW answers, IsSeq(answers), \A k \in DOMAIN answers : answers[k].length \in Nat,
         NEW a, a.length \in Nat
  PROVE  /\ Total(answers) \in Nat
         /\ Total(Append(answers, a)) = Total(answers) + a.length
<1> DEFINE N == Len(answers)
           more == Append(answers, a)
<1>1. N \in Nat /\ DOMAIN answers = 1..N
  BY SeqShape
<1>2. /\ IsSeq(more) /\ Len(more) = N + 1 /\ DOMAIN more = 1..(N + 1)
      /\ \A k \in 1..N : more[k] = answers[k]
      /\ more[N + 1] = a
  BY SeqAppend
<1>3. PICK u \in [0..N -> Nat] : Adds(u, answers) /\ Total(answers) = u[N]
  BY Totals
<1> HIDE DEF N, more
<1>4. \A k \in DOMAIN more : more[k].length \in Nat
  <2>1. \A k \in 1..(N + 1) : k \in 1..N \/ k = N + 1
    BY <1>1
  <2> QED
    BY <1>1, <1>2, <2>1
<1>5. PICK v \in [0..(N + 1) -> Nat] : Adds(v, more) /\ Total(more) = v[N + 1]
  <2>1. \E v \in [0..Len(more) -> Nat] : Adds(v, more) /\ Total(more) = v[Len(more)]
    BY <1>2, <1>4, Totals
  <2> QED
    BY <1>2, <2>1
<1> DEFINE T == {k \in Nat : k <= N => v[k] = u[k]}
<1>6. 0 \in T
  BY <1>3, <1>5 DEF Adds
<1>7. ASSUME NEW k \in Nat, k \in T PROVE k + 1 \in T
  <2> SUFFICES ASSUME k + 1 <= N PROVE v[k + 1] = u[k + 1]
    OBVIOUS
  <2>1. k + 1 \in 1..N /\ k + 1 \in 1..(N + 1) /\ (k + 1) - 1 = k /\ k <= N
    BY <1>1
  <2>2. u[k + 1] = u[k] + answers[k + 1].length
    BY <1>3, <2>1 DEF Adds, N
  <2>3. v[k + 1] = v[k] + more[k + 1].length
    BY <1>2, <1>5, <2>1 DEF Adds
  <2> QED
    BY <1>2, <1>7, <2>1, <2>2, <2>3
<1> HIDE DEF T
<1>8. v[N] = u[N]
  <2>1. N \in T
    BY <1>1, <1>6, <1>7, Induct
  <2> QED
    BY <1>1, <2>1 DEF T
<1>9. v[N + 1] = v[N] + a.length
  <2>1. N + 1 \in 1..(N + 1) /\ (N + 1) - 1 = N
    BY <1>1
  <2> QED
    BY <1>2, <1>5, <2>1 DEF Adds
<1>10. u[N] \in Nat
  BY <1>1, <1>3
<1> QED
  BY <1>3, <1>5, <1>8, <1>9, <1>10 DEF more

\* What a sweep relies on: the catalog holds encodings, the decoder's runs lead to
\* them, and the answers so far cover what was given but for what is awaited.
SweepInv ==
  /\ source \in [records : Seq(Template), forms : Seq(Encoding)]
  /\ catalog \in Seq(Encoding)
  /\ pc \in {"ready", "sweep"} => DecoderIsSound(catalog, decoder)
  /\ IsSeq(stream) /\ given \in Nat /\ given <= Len(stream)
  /\ IsSeq(swept)
  /\ given - Total(swept) \in 0..LongestWait
  /\ \A k \in DOMAIN swept :
       /\ swept[k].length \in Nat \ {0}
       /\ swept[k].reason = "none" =>
            swept[k].length <= MaxLength /\ swept[k].form \in DOMAIN catalog

LEMMA CoveredIs == Covered = Total(swept)
  BY DEF Covered, Total

LEMMA InitInv == Init => SweepInv
<1> SUFFICES ASSUME Init PROVE SweepInv
  OBVIOUS
<1>1. source \in [records : Seq(Template), forms : Seq(Encoding)]
  BY SourcesAssumption DEF Init
<1>2. catalog \in Seq(Encoding)
  BY <1>1 DEF Init
<1>3. IsSeq(stream) /\ given \in Nat /\ given <= Len(stream)
  BY EmptyIsSeq DEF Init
<1>4. IsSeq(swept) /\ DOMAIN swept = {}
  BY EmptyIsSeq DEF Init
<1>5. given - Total(swept) \in 0..LongestWait
  BY NothingCovered DEF Init, LongestWait
<1>6. pc \notin {"ready", "sweep"}
  BY DEF Init
<1> QED
  BY <1>1, <1>2, <1>3, <1>4, <1>5, <1>6 DEF SweepInv

LEMMA ImportKeeps ==
  ASSUME SweepInv, ImportRecord
  PROVE  SweepInv'
<1> DEFINE r == Head(source.records)
<1>1. source.records \in Seq(Template) /\ source.records # << >>
  BY DEF SweepInv, ImportRecord
<1>2. r \in Template /\ Tail(source.records) \in Seq(Template)
  BY <1>1
<1> HIDE DEF r
<1>3. UNCHANGED <<decoder, mode, emitted, stream, given, swept>> /\ pc = "import"
  BY DEF ImportRecord
<1>4. CASE ImportFails(r)
  <2>1. pc' = "refused" /\ UNCHANGED <<source, catalog>>
    BY <1>4 DEF ImportRecord, r
  <2> QED
    BY <1>3, <2>1 DEF SweepInv
<1>5. CASE ~ImportFails(r)
  <2>1. /\ catalog' = Append(catalog, Import(r)) /\ pc' = pc
        /\ source' = [source EXCEPT !.records = Tail(source.records)]
    BY <1>5 DEF ImportRecord, r
  <2>2. Import(r) \in Encoding
    BY <1>2, <1>5, ImportSound
  <2>3. catalog \in Seq(Encoding)
    BY DEF SweepInv
  <2>4. catalog' \in Seq(Encoding) /\ DOMAIN catalog \subseteq DOMAIN catalog'
    <3> DEFINE e == Import(r)
    <3> HIDE DEF e
    <3>1. e \in Encoding /\ catalog' = Append(catalog, e)
      BY <2>1, <2>2 DEF e
    <3>2. Len(catalog) \in Nat /\ DOMAIN catalog = 1..Len(catalog)
      BY <2>3, LenProperties
    <3>3. /\ Append(catalog, e) \in Seq(Encoding)
          /\ Len(Append(catalog, e)) = Len(catalog) + 1
      BY <2>3, <3>1, AppendProperties
    <3>4. DOMAIN catalog' = 1..(Len(catalog) + 1)
      BY <3>1, <3>3, LenProperties
    <3> QED
      BY <3>1, <3>2, <3>3, <3>4
  <2>5. source' \in [records : Seq(Template), forms : Seq(Encoding)]
    BY <1>2, <2>1 DEF SweepInv
  <2> QED
    BY <1>3, <2>1, <2>4, <2>5 DEF SweepInv
<1> QED
  BY <1>4, <1>5

LEMMA BuildKeeps ==
  ASSUME SweepInv, BuildDecoder
  PROVE  SweepInv'
<1>1. UNCHANGED <<source, catalog, mode, emitted, stream, given, swept>>
  BY DEF BuildDecoder
<1>2. catalog \in Seq(Encoding)
  BY DEF SweepInv
<1>3. pc' \in {"ready", "sweep"} => DecoderIsSound(catalog, decoder')
  <2>1. CASE ValidCatalog(catalog)
    <3>1. decoder' = NewDecoder(catalog)
      BY <2>1 DEF BuildDecoder
    <3> QED
      BY <1>2, <2>1, <3>1, NewDecoderSound
  <2>2. CASE ~ValidCatalog(catalog)
    BY <2>2 DEF BuildDecoder
  <2> QED
    BY <2>1, <2>2
<1> QED
  BY <1>1, <1>3 DEF SweepInv

LEMMA EncodeKeeps ==
  ASSUME SweepInv, EncodeNext
  PROVE  SweepInv'
<1>1. UNCHANGED <<pc, source, catalog, decoder, mode, given, swept>>
  BY DEF EncodeNext
<1>2. PICK i \in DOMAIN catalog : \E f : stream' = stream \o Encode(catalog[i], f)
  BY DEF EncodeNext
<1>3. PICK f : stream' = stream \o Encode(catalog[i], f)
  BY <1>2
<1>4. IsSeq(Encode(catalog[i], f))
  <2>1. catalog[i] \in Encoding
    BY LenProperties DEF SweepInv
  <2> QED
    BY <2>1, EncodeIsSeq
<1> DEFINE bytes == Encode(catalog[i], f)
<1>5. stream' = stream \o bytes /\ IsSeq(bytes)
  BY <1>3, <1>4
<1> HIDE DEF bytes
<1>6. IsSeq(stream) /\ given \in Nat /\ given <= Len(stream)
  BY DEF SweepInv
<1>7. IsSeq(stream') /\ Len(stream') = Len(stream) + Len(bytes)
  BY <1>5, <1>6, SeqConcat
<1>8. Len(stream) \in Nat /\ Len(bytes) \in Nat
  BY <1>5, <1>6, SeqShape
<1>9. given <= Len(stream')
  BY <1>6, <1>7, <1>8
<1> QED
  BY <1>1, <1>6, <1>7, <1>9 DEF SweepInv

\* One more answer, of the bytes from where the last one ended.
LEMMA ReceiveKeeps ==
  ASSUME SweepInv, Receive
  PROVE  SweepInv'
<1> DEFINE done == Total(swept)
           src == Append(Window, stream[given + 1])
           answer == Decode(catalog, decoder, src, mode)
           all == [answer EXCEPT !.length = given + 1 - Covered]
<1>1. UNCHANGED <<pc, source, catalog, decoder, mode, emitted, stream>>
  BY DEF Receive
<1>2. given' = given + 1 /\ given < Len(stream) /\ pc = "sweep"
  BY DEF Receive
<1>3. swept' = CASE answer.reason = "none" -> Append(swept, answer)
                 [] answer.reason = "short" -> swept
                 [] OTHER -> Append(swept, all)
  BY DEF Receive
<1>4. /\ catalog \in Seq(Encoding) /\ DecoderIsSound(catalog, decoder)
      /\ IsSeq(stream) /\ given \in Nat /\ IsSeq(swept)
      /\ given - done \in 0..25
  BY <1>2 DEF SweepInv, LongestWait
<1>5. \A k \in DOMAIN swept : swept[k].length \in Nat \ {0}
  BY DEF SweepInv
<1>6. done \in Nat /\ Covered = done
  <2> HIDE DEF done
  <2>1. \A k \in DOMAIN swept : swept[k].length \in Nat
    BY <1>5
  <2>2. Total(swept) \in Nat
    <3>1. PICK u \in [0..Len(swept) -> Nat] : Total(swept) = u[Len(swept)]
      BY <1>4, <2>1, Totals
    <3>2. Len(swept) \in 0..Len(swept)
      BY <1>4, SeqShape
    <3> QED
      BY <3>1, <3>2
  <2> QED
    BY <2>2, CoveredIs DEF done
<1>7. IsSeq(src) /\ Len(src) = given + 1 - done
  <2>1. done <= given /\ given <= Len(stream) /\ Len(stream) \in Nat
    <3>1. Len(stream) \in Nat
      BY <1>4, SeqShape
    <3> HIDE DEF done
    <3> QED
      BY <1>2, <1>4, <1>6, <3>1
  <2>2. IsSeq(Window) /\ Len(Window) = given - done
    <3>1. Window = SubSeq(stream, done + 1, given)
      BY <1>6 DEF Window
    <3> HIDE DEF done
    <3> QED
      BY <1>4, <1>6, <2>1, <3>1, WindowIs
  <2>3. IsSeq(src) /\ Len(src) = Len(Window) + 1
    BY <2>2, SeqAppend
  <2> HIDE DEF done, src
  <2> QED
    BY <1>4, <1>6, <2>2, <2>3
<1> HIDE DEF done, src
<1>8. AnswerIsSound(catalog, src, answer)
  BY <1>4, <1>7, DecodeStaysInside
<1> HIDE DEF answer
<1>9. given' <= Len(stream') /\ given' \in Nat
  BY <1>1, <1>2, <1>4, SeqShape
<1> DEFINE Claimed(a) == /\ a.length \in Nat \ {0}
                         /\ a.reason = "none" => a.length <= MaxLength /\ a.form \in DOMAIN catalog
<1>10. ASSUME NEW a, swept' = Append(swept, a), Claimed(a),
              given + 1 - done - a.length \in 0..25
       PROVE  SweepInv'
  <2>1. a.length \in Nat
    BY <1>10
  <2>2. Total(swept') = done + a.length
    <3>1. \A k \in DOMAIN swept : swept[k].length \in Nat
      BY <1>5
    <3>2. Total(Append(swept, a)) = Total(swept) + a.length
      BY <1>4, <2>1, <3>1, TotalAppend
    <3> QED
      BY <1>10, <3>2 DEF done
  <2>3. given' - Total(swept') \in 0..LongestWait
    <3> DEFINE n == a.length
    <3>1. n \in Nat /\ given + 1 - done - n \in 0..25 /\ Total(swept') = done + n
      BY <1>10, <2>1, <2>2
    <3> HIDE DEF n
    <3>2. given + 1 - (done + n) \in 0..25
      BY <1>4, <1>6, <3>1
    <3> DEFINE total == Total(swept')
    <3>3. given' = given + 1 /\ total = done + n
      BY <1>2, <3>1
    <3> HIDE DEF total
    <3>4. given' - total \in 0..LongestWait
      BY <1>4, <1>6, <3>1, <3>2, <3>3 DEF LongestWait
    <3> QED
      BY <3>4 DEF total
  <2>4. /\ IsSeq(swept') /\ DOMAIN swept' = 1..(Len(swept) + 1)
        /\ \A k \in 1..Len(swept) : swept'[k] = swept[k]
        /\ swept'[Len(swept) + 1] = a
    BY <1>4, <1>10, SeqAppend
  <2>5. Len(swept) \in Nat /\ DOMAIN swept = 1..Len(swept)
    BY <1>4, SeqShape
  <2>6. \A k \in DOMAIN swept : Claimed(swept[k])
    BY DEF SweepInv
  <2> HIDE DEF Claimed
  <2>7. \A k \in DOMAIN swept' : Claimed(swept'[k])
    <3>1. \A k \in 1..(Len(swept) + 1) : k \in 1..Len(swept) \/ k = Len(swept) + 1
      BY <2>5
    <3> QED
      BY <1>10, <2>4, <2>5, <2>6, <3>1
  <2> QED
    BY <1>1, <1>9, <2>3, <2>4, <2>7 DEF SweepInv, Claimed
<1>11. CASE answer.reason = "none"
  <2>1. swept' = Append(swept, answer)
    BY <1>3, <1>11
  <2>2. /\ answer.length \in 1..15 /\ answer.length <= Len(src)
        /\ answer.form \in DOMAIN catalog
    BY <1>8, <1>11 DEF AnswerIsSound, MaxLength
  <2>3. Claimed(answer)
    BY <2>2 DEF MaxLength
  <2>4. given + 1 - done - answer.length \in 0..25
    <3> DEFINE n == answer.length
    <3>1. n \in 1..15 /\ n <= given + 1 - done
      BY <1>7, <2>2
    <3> HIDE DEF n
    <3>2. given + 1 - done - n \in 0..25
      BY <1>4, <1>6, <3>1
    <3> QED
      BY <3>2 DEF n
  <2> QED
    BY <1>10, <2>1, <2>3, <2>4
<1>12. CASE answer.reason = "short"
  <2>1. swept' = swept
    BY <1>3, <1>12
  <2>2. Len(src) <= 25
    BY <1>8, <1>12 DEF AnswerIsSound, LongestWait
  <2>3. given' - done \in 0..LongestWait
    BY <1>2, <1>4, <1>6, <1>7, <2>2 DEF LongestWait
  <2> QED
    BY <1>1, <1>9, <2>1, <2>3 DEF SweepInv, done
<1>13. CASE answer.reason # "none" /\ answer.reason # "short"
  <2>1. swept' = Append(swept, all)
    BY <1>3, <1>13
  <2>2. all.length = given + 1 - done /\ all.reason = answer.reason
    BY <1>6, <1>8 DEF AnswerIsSound
  <2>3. given + 1 - done \in Nat \ {0} /\ given + 1 - done - (given + 1 - done) \in 0..25
    BY <1>4, <1>6
  <2> HIDE DEF all
  <2>4. Claimed(all)
    BY <1>13, <2>2, <2>3
  <2> QED
    BY <1>10, <2>1, <2>2, <2>3, <2>4
<1> QED
  BY <1>11, <1>12, <1>13

LEMMA NextKeepsInv == SweepInv /\ [Next]_vars => SweepInv'
<1> SUFFICES ASSUME SweepInv, [Next]_vars PROVE SweepInv'
  OBVIOUS
<1>1. CASE StartSweep
  BY <1>1 DEF StartSweep, SweepInv
<1>2. CASE UNCHANGED vars
  BY <1>2 DEF vars, SweepInv
<1> QED
  BY <1>1, <1>2, ImportKeeps, BuildKeeps, EncodeKeeps, ReceiveKeeps DEF Next

\* For every catalog, stream and way of cutting it: a sweep never claims bytes it
\* was not given nor none at all, and never waits for more than LongestWait bytes
\* (decode.go Decode).
THEOREM SweepStaysInBounds == Spec => []SweepInBounds
<1>1. SweepInv => SweepInBounds
  <2> SUFFICES ASSUME SweepInv PROVE SweepInBounds
    OBVIOUS
  <2>1. given - Covered \in 0..LongestWait
    BY CoveredIs DEF SweepInv
  <2>2. \A k \in DOMAIN swept : swept[k].length >= 1
    BY DEF SweepInv
  <2> QED
    BY <2>1, <2>2 DEF SweepInv, SweepInBounds
<1> QED
  BY <1>1, InitInv, NextKeepsInv, PTL DEF Spec
=============================================================================
