------------------------------ MODULE X86Sweep ------------------------------
(***************************************************************************)
(* The x86 codec at work: records are imported into a catalog, a decoder   *)
(* is built from it, instructions are encoded one behind the other, and a  *)
(* consumer that receives the bytes one at a time sweeps over them,        *)
(* decoding whenever a byte arrives and waiting when bytes are missing.    *)
(***************************************************************************)
EXTENDS X86Codec

CONSTANTS Sources,         \* what catalogs are made from: [records, forms]
          Requests(_, _, _),  \* fields tried for a form, in a mode, at a place
          MaxInstrs        \* instructions in a stream

ASSUME StreamAssumption == MaxInstrs \in Nat
ASSUME SourcesAssumption == Sources \subseteq [records : Seq(Template), forms : Seq(Encoding)]

VARIABLES pc,       \* "import", "ready", "sweep", "refused"
          source,   \* what is left to import
          catalog, decoder, mode,
          emitted,  \* history: the requests that were encoded, in order
          stream,   \* their bytes
          given,    \* bytes the consumer has
          swept     \* what it decoded

vars == <<pc, source, catalog, decoder, mode, emitted, stream, given, swept>>

NoDecoder == [candidates |-> <<>>, buckets |-> <<>>]

Init ==
  /\ pc = "import"
  /\ source \in Sources
  /\ catalog = source.forms
  /\ decoder = NoDecoder
  /\ mode \in Modes
  /\ emitted = <<>> /\ stream = <<>> /\ given = 0 /\ swept = <<>>

\* ParseOpcodesDB normalises the next record; one bad record refuses all.
ImportRecord ==
  /\ pc = "import" /\ source.records # <<>>
  /\ LET r == Head(source.records) IN
     IF ImportFails(r) THEN pc' = "refused" /\ UNCHANGED <<source, catalog>>
     ELSE /\ catalog' = Append(catalog, Import(r))
          /\ source' = [source EXCEPT !.records = Tail(@)]
          /\ UNCHANGED pc
  /\ UNCHANGED <<decoder, mode, emitted, stream, given, swept>>

\* ParseOpcodesDB and NewDecoder validate the catalog.
BuildDecoder ==
  /\ pc = "import" /\ source.records = <<>>
  /\ IF ValidCatalog(catalog)
     THEN pc' = "ready" /\ decoder' = NewDecoder(catalog)
     ELSE pc' = "refused" /\ UNCHANGED decoder
  /\ UNCHANGED <<source, catalog, mode, emitted, stream, given, swept>>

\* The caller encodes a form behind what it has written.
EncodeNext ==
  /\ pc = "ready" /\ Len(emitted) < MaxInstrs
  /\ \E i \in DOMAIN catalog : \E f \in Requests(catalog[i], mode, Len(emitted) + 1) :
       \E bytes \in {Encode(catalog[i], f)} \ {Refused} :
         /\ stream' = stream \o bytes
         /\ emitted' = Append(emitted, [form |-> i, fields |-> f, length |-> Len(bytes)])
  /\ UNCHANGED <<pc, source, catalog, decoder, mode, given, swept>>

StartSweep ==
  /\ pc = "ready" /\ emitted # <<>>
  /\ pc' = "sweep"
  /\ UNCHANGED <<source, catalog, decoder, mode, emitted, stream, given, swept>>

Covered ==
  LET upto[k \in 0..Len(swept)] == IF k = 0 THEN 0 ELSE upto[k - 1] + swept[k].length
  IN  upto[Len(swept)]
Window == SubSeq(stream, Covered + 1, given)

\* One more byte arrives and is decoded with those not yet consumed: a
\* decoded instruction is consumed, and so is the byte that fits no form.
Receive ==
  /\ pc = "sweep" /\ given < Len(stream)
  /\ given' = given + 1
  /\ \E answer \in {Decode(catalog, decoder, Append(Window, stream[given + 1]), mode)} :
       swept' = CASE answer.reason = "none" -> Append(swept, answer)
                  [] answer.reason = "short" -> swept
                  [] OTHER -> Append(swept, [answer EXCEPT !.length = given + 1 - Covered])
  /\ UNCHANGED <<pc, source, catalog, decoder, mode, emitted, stream>>

Next == ImportRecord \/ BuildDecoder \/ EncodeNext \/ StartSweep \/ Receive

Spec == Init /\ [][Next]_vars

----------------------------------------------------------------------------
(* The consumer may rely on the decoder's lengths. *)

\* The most bytes after which a decoder may still ask for more: 14 prefixes, a
\* REX, an EVEX prefix with its opcode, ModR/M, SIB and all but one byte of a
\* displacement.  The limit of 15 is only applied behind those.
LongestWait == 25

\* A sweep stays inside what it was given and goes on: no answer claims bytes that
\* have not arrived or none at all, whatever the bytes are and wherever they
\* stop, and the decoder does not ask for more for ever (decode.go Decode:
\* Length against ErrShortInstruction, over prefixes, ModR/M and tails).
SweepInBounds ==
  /\ given <= Len(stream)
  /\ given - Covered \in 0..LongestWait
  /\ \A k \in DOMAIN swept :
       /\ swept[k].length >= 1
       /\ swept[k].reason = "none" =>
            swept[k].length <= MaxLength /\ swept[k].form \in DOMAIN catalog

----------------------------------------------------------------------------
(* What the bytes of an encoding can hold.  Encode takes physical fields   *)
(* and does not refuse every combination the prefixes cannot express; these *)
(* are the ones its caller must not ask for.                               *)

Representable(e, f) ==
  /\ f.mode = 64 \/ \A n \in {f.reg, f.rm, f.index, f.base, f.vvvv, f.opcodeReg} : n < 8
  /\ f.mode = 64 \/ e.kind # "legacy" \/ ~Wide(e)
  /\ BitsOf(f.vvvv, 5) \cap e.reserved = {}
  /\ e.hasModRM \/ (f.reg < 8 /\ f.rm < 8 /\ f.index < 8 /\ f.base < 8)
  /\ (e.hasModRM /\ f.mod # 3) =>
       /\ f.rm < 16
       /\ AddressBits(f.mode, f.address) # 16 => (f.sib <=> f.rm % 8 = 4)

AllRepresentable ==
  \A k \in DOMAIN emitted : Representable(catalog[emitted[k].form], emitted[k].fields)

\* Bytes up to the end of the k-th encoded instruction.
EndOf(k) == SumFunctionOnSet([j \in DOMAIN emitted |-> emitted[j].length], 1..k)

\* A sweep finds the instructions that were encoded: however the bytes are
\* delivered, whatever follows an instruction and whatever the other forms
\* are, an instruction is decoded exactly when its last byte arrives; its
\* length is the encoded one's and its form constrains the bytes at least as
\* much as the form asked for (encode.go Encode against decode.go Decode).
SweepFindsInstructions ==
  (AllRepresentable /\ pc = "sweep") =>
    /\ Len(swept) = Cardinality({k \in DOMAIN emitted : EndOf(k) <= given})
    /\ \A k \in DOMAIN swept :
         /\ swept[k].reason = "none"
         /\ swept[k].length = emitted[k].length
         /\ Specificity(catalog[swept[k].form]) >= Specificity(catalog[emitted[k].form])

\* No physical field is lost: requests for one form that differ in what the
\* encoding can hold differ in their bytes (encode.go: ModR/M, SIB, REX and
\* the inverted bits of vector prefixes share registers of up to 5 bits).
EncodingsDistinct ==
  (pc = "ready" /\ emitted = <<>>) =>
    \A i \in DOMAIN catalog :
      LET asked == {f \in Requests(catalog[i], mode, 1) :
                      Representable(catalog[i], f) /\ Encode(catalog[i], f) # Refused}
      IN  Cardinality({Encode(catalog[i], f) : f \in asked}) = Cardinality(asked)
=============================================================================
