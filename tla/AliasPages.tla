------------------------------ MODULE AliasPages ------------------------------
(***************************************************************************)
(* pkg/arm/alias_index.go: the scanner that finds the encodings of a page  *)
(* and, on an alias page, what each is an alias of; and the partial        *)
(* instructions made from them.                                            *)
(*                                                                         *)
(* A page is the sequence of its tags: an open tag, with selfClosing, a    *)
(* close tag, "skip" for a comment, CDATA, instruction or declaration, and *)
(* "broken" for one that does not end.                                     *)
(***************************************************************************)
EXTENDS Naturals, Sequences, SequencesExt, FiniteSets, FiniteSetsExt, Registry

Attribute(tag, name) == IF name \in DOMAIN tag.attr THEN tag.attr[name] ELSE << >>

\* The state of the scan; aliases[cur] is the encoding that is open, 0 if none.
Scan0 ==
  [isIForm |-> FALSE, isAlias |-> FALSE, refIForm |-> << >>, pageAlias |-> << >>,
   pageCanon |-> << >>, cur |-> 0, stack |-> << >>, ids |-> << >>, aliases |-> << >>,
   stop |-> FALSE, failed |-> FALSE]

Fails(scan) == [scan EXCEPT !.stop = TRUE, !.failed = TRUE]

CloseTag(scan, tag) ==
  IF scan.stack = << >> \/ Last(scan.stack) # tag.name THEN Fails(scan)
  ELSE [scan EXCEPT !.stack = Front(@), !.cur = IF tag.name = "encoding" THEN 0 ELSE @]

EncodingTag(scan, tag, page) ==
  LET id == Attribute(tag, "name")
      alias == [encodingID |-> id, mnemonic |-> scan.pageAlias, canonical |-> scan.pageCanon,
                iformFile |-> page, refIForm |-> scan.refIForm]
  IN  [scan EXCEPT
         !.ids = IF id = << >> THEN @ ELSE Append(@, id),
         !.aliases = IF scan.isAlias THEN Append(@, alias) ELSE @,
         !.cur = IF scan.isAlias THEN Len(scan.aliases) + 1 ELSE @]

DocVar_OnPage(scan, tag) ==
  LET value == Attribute(tag, "value")
  IN  IF value = << >> THEN scan
      ELSE IF Attribute(tag, "key") = <<"alias_mnemonic">> THEN [scan EXCEPT !.pageAlias = value]
      ELSE IF Attribute(tag, "key") = <<"mnemonic">> THEN [scan EXCEPT !.pageCanon = value]
      ELSE scan

\* A variable of the page holds for the encodings after it, one of an encoding
\* for that encoding.
DocVar(scan, tag) ==
  LET value == Attribute(tag, "value")
      key == Attribute(tag, "key")
  IN  CASE value = << >> -> scan
        [] key = <<"alias_mnemonic">> /\ scan.cur = 0 -> [scan EXCEPT !.pageAlias = value]
        [] key = <<"alias_mnemonic">> /\ scan.cur # 0 ->
             [scan EXCEPT !.aliases[scan.cur].mnemonic = value]
        [] key = <<"mnemonic">> /\ scan.cur = 0 -> [scan EXCEPT !.pageCanon = value]
        [] key = <<"mnemonic">> /\ scan.cur # 0 ->
             [scan EXCEPT !.aliases[scan.cur].canonical = value]
        [] OTHER -> scan

Element(scan, tag, page) ==
  CASE tag.name = "instructionsection" ->
         [scan EXCEPT !.isAlias = Attribute(tag, "type") = <<"alias">>]
    [] tag.name = "aliasto" -> [scan EXCEPT !.refIForm = Attribute(tag, "refiform")]
    [] tag.name = "encoding" -> EncodingTag(scan, tag, page)
    [] tag.name = "docvar" -> DocVar(scan, tag)
    [] OTHER -> scan

\* The first element decides whether this is an instruction page at all.
OpenTag(scan, tag, page) ==
  LET opened == Element([scan EXCEPT !.isIForm = TRUE], tag, page)
  IN  IF ~scan.isIForm /\ tag.name # "instructionsection" THEN [scan EXCEPT !.stop = TRUE]
      ELSE IF ~tag.selfClosing THEN [opened EXCEPT !.stack = Append(@, tag.name)]
      ELSE IF tag.name = "encoding" THEN [opened EXCEPT !.cur = 0]
      ELSE opened

ScanTag(scan, tag, page) ==
  CASE scan.stop -> scan
    [] tag.kind = "skip" -> scan
    [] tag.kind = "broken" -> Fails(scan)
    [] tag.kind = "close" -> CloseTag(scan, tag)
    [] OTHER -> OpenTag(scan, tag, page)

\* What the reference of the page is, wherever it stands, is filled in last.
InspectIFormMember(tags, page) ==
  LET after[k \in 0..Len(tags)] ==
        IF k = 0 THEN Scan0 ELSE ScanTag(after[k - 1], tags[k], page)
      scan == after[Len(tags)]
  IN  [failed |-> scan.failed \/ (~scan.stop /\ scan.stack # << >>),
       isIForm |-> scan.isIForm,
       ids |-> scan.ids,
       aliases |-> IF ~scan.isAlias THEN << >>
                   ELSE [k \in DOMAIN scan.aliases |->
                           [scan.aliases[k] EXCEPT !.refIForm = scan.refIForm]]]

----------------------------------------------------------------------------
\* Partial instructions.

ClassWords ==
  {"dp", "ldst", "addsub", "log", "move", "cond", "float", "fp", "crypto", "perm",
   "comswap", "memop", "ldstexcl", "bitfield"}

\* An encoding ID is the sequence of its parts, and ends with its class.
ClassFromEncodingID(id) ==
  LET n == Len(id)
  IN  IF n < 2 THEN <<"alias">>
      ELSE IF n >= 3 /\ id[n - 1] \in ClassWords THEN <<id[n - 1], id[n]>>
      ELSE <<id[n]>>

MnemonicOf(alias) == IF alias.mnemonic = << >> THEN alias.canonical ELSE alias.mnemonic

ClassOf(reg, file) ==
  LET rows == SelectSeq(reg.instructions, LAMBDA instr : file # << >> /\ instr.iformFile = file)
  IN  IF rows = << >> THEN << >> ELSE Head(rows).class

CanonicalFiles(reg) == {instr.iformFile : instr \in ToSet(reg.instructions)} \ {<< >>}

\* buildAliasInstructions.  The encodings come sorted by page and ID.
Kept(encodings, k, canonical) ==
  /\ encodings[k].iformFile \notin canonical
  /\ MnemonicOf(encodings[k]) # << >> /\ encodings[k].encodingID # << >>
  /\ \A j \in 1..(k - 1) :
       ~(/\ encodings[j].iformFile = encodings[k].iformFile
         /\ encodings[j].encodingID = encodings[k].encodingID
         /\ MnemonicOf(encodings[j]) # << >>)

AliasInstruction(reg, alias) ==
  [encodingID |-> alias.encodingID, mnemonic |-> MnemonicOf(alias),
   class |-> IF ClassOf(reg, alias.refIForm) = << >> THEN ClassFromEncodingID(alias.encodingID)
             ELSE ClassOf(reg, alias.refIForm),
   iformFile |-> alias.iformFile, fields |-> << >>, features |-> << >>]

BuildAliases(reg, encodings) ==
  LET out[k \in 0..Len(encodings)] ==
        IF k = 0 THEN << >>
        ELSE IF Kept(encodings, k, CanonicalFiles(reg))
        THEN Append(out[k - 1], AliasInstruction(reg, encodings[k]))
        ELSE out[k - 1]
  IN  out[Len(encodings)]
=============================================================================
