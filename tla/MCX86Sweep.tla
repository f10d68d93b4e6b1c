----------------------------- MODULE MCX86Sweep -----------------------------
(***************************************************************************)
(* A catalog with a form for each path of the codec, after the forms of    *)
(* pkg/x86/codec_test.go and opcodesdb_test.go.                            *)
(***************************************************************************)
EXTENDS X86Sweep

NoMarks == [p \in MandatoryPrefixes |-> ""]
Only(p) == [q \in MandatoryPrefixes |-> IF q = p THEN "1" ELSE "0"]
None == [p \in MandatoryPrefixes |-> "0"]
Op(type, in, symbol) == [type |-> type, in |-> in, symbol |-> symbol]
RM == Op("REG", "RM", "GPR")

Plain(id, form, op) ==
  [id |-> id, form |-> form, mnemonic |-> id, op |-> op, enc |-> "legacy", map |-> "primary",
   prefix |-> NoMarks, mode |-> "", w |-> "", osz |-> "", vl |-> 0, mr |-> FALSE, mod |-> "",
   reg |-> -1, rm |-> -1, operands |-> <<>>]

Vector(id, form, op, enc, map, prefix, vl, mod, ops) ==
  [Plain(id, form, op) EXCEPT !.enc = enc, !.map = map, !.prefix = prefix, !.vl = vl,
     !.mr = TRUE, !.mod = mod, !.w = "0", !.operands = ops]

\* Legacy forms: sizes, tails, overlaps (NOP and XCHG, BSR and LZCNT).
LegacyRecords == <<
  [Plain("NOP", 1, \H90) EXCEPT !.prefix = None],
  Plain("XCHG", 2, \H90),
  [Plain("ADDM", 3, \H01) EXCEPT !.mr = TRUE, !.mod = "MEM"],
  [Plain("ADDR64", 4, \H01) EXCEPT !.mr = TRUE, !.mod = "REG", !.w = "1", !.mode = "64"],
  [Plain("ADDI16", 5, \H81) EXCEPT !.mr = TRUE, !.reg = 0, !.osz = "16", !.operands = <<RM, Op("IMM", "IZ", "S")>>],
  [Plain("ADDI32", 6, \H81) EXCEPT !.mr = TRUE, !.reg = 0, !.osz = "32", !.operands = <<RM, Op("IMM", "IZ", "S")>>],
  [Plain("ADDI64", 7, \H81) EXCEPT !.mr = TRUE, !.reg = 0, !.osz = "64", !.operands = <<RM, Op("IMM", "IZ", "S")>>],
  [Plain("MOVFS", 8, \HA0) EXCEPT !.operands = <<Op("MOFFS", "", "A")>>],
  [Plain("CALLFAR", 9, \H9A) EXCEPT !.mode = "NO64", !.operands = <<Op("PTR", "IDPP", "P")>>],
  [Plain("LDS", 10, \HC5) EXCEPT !.mode = "NO64", !.mr = TRUE, !.mod = "MEM"],
  [Plain("BOUND", 11, \H62) EXCEPT !.mode = "NO64", !.mr = TRUE, !.mod = "MEM"],
  [Plain("LES", 12, \HC4) EXCEPT !.mode = "NO64", !.mr = TRUE, !.mod = "MEM"],
  [Plain("POP", 13, \H8F) EXCEPT !.mr = TRUE, !.reg = 0],
  [Plain("BSR", 14, \HBD) EXCEPT !.map = "0f", !.mr = TRUE],
  [Plain("LZCNT", 15, \HBD) EXCEPT !.map = "0f", !.prefix = Only(PF3), !.mr = TRUE],
  [Plain("PSHUFB", 16, \H00) EXCEPT !.map = "0f38", !.prefix = Only(P66), !.mr = TRUE] >>

VectorRecords == <<
  Vector("VPADDD", 20, \HFE, "vex", "0f", Only(P66), 256, "REG", <<Op("VREG", "VVVV", "YMM"), RM>>),
  Vector("VMOVAPS", 21, \H28, "vex", "0f", None, 128, "MEM", <<RM>>),
  Vector("VBLENDVPS", 22, \H4A, "vex", "0f3a", Only(P66), 128, "", <<Op("VREG", "VVVV", "XMM"), RM, Op("VREG", "IS4", "XMM"), Op("IMM", "IB", "I")>>),
  Vector("VPGATHERDD", 23, \H90, "evex", "0f38", Only(P66), 512, "MEM", <<Op("MEM", "RM", "VMZ")>>),
  Vector("VPXORD", 24, \HEF, "evex", "0f", Only(P66), 512, "", <<Op("VREG", "VVVV", "ZMM"), RM>>),
  Vector("VFRCZPS", 25, \H80, "xop", "xop9", NoMarks, 128, "", <<RM>>),
  [Plain("POP", 13, \H8F) EXCEPT !.mr = TRUE, !.reg = 0],
  [Plain("LDS", 10, \HC5) EXCEPT !.mode = "NO64", !.mr = TRUE, !.mod = "MEM"],
  [Plain("LES", 12, \HC4) EXCEPT !.mode = "NO64", !.mr = TRUE, !.mod = "MEM"],
  [Plain("BOUND", 11, \H62) EXCEPT !.mode = "NO64", !.mr = TRUE, !.mod = "MEM"] >>

\* A form a library user builds: the register in the opcode byte.
PUSH == [id |-> "PUSH", form |-> 30, kind |-> "legacy", map |-> "primary", opcode |-> \H50,
         plusReg |-> TRUE, mandatory |-> NoPrefix, prefixMask |-> {}, prefixValue |-> {},
         modes |-> Modes, w |-> "any", operandSize |-> 0, vectorLength |-> 0, reserved |-> {},
         hasModRM |-> FALSE, mod |-> "any", reg |-> 0..7, rm |-> 0..7, tail |-> <<>>]

Conflicting == [Plain("BAD", 40, \H10) EXCEPT !.prefix = [p \in MandatoryPrefixes |-> "1"]]

MCSources == {[records |-> LegacyRecords, forms |-> <<PUSH>>],
              [records |-> VectorRecords, forms |-> <<>>],
              [records |-> <<Plain("NOP", 1, \H90), Conflicting>>, forms |-> <<>>],
              [records |-> <<>>, forms |-> <<PUSH, PUSH>>]}

----------------------------------------------------------------------------
Zero(e, m) ==
  [mode |-> m, segment |-> 0, address |-> FALSE, mod |-> 0, reg |-> 0, rm |-> 0, scale |-> 0,
   index |-> 0, base |-> 0, sib |-> FALSE, vvvv |-> 0, mask |-> 0, zeroing |-> FALSE,
   broadcast |-> FALSE, opcodeReg |-> 0, disp |-> \H66, imm |-> <<\HC5, 0, 0, 0>>]

Registers(e) == IF e.kind = "evex" THEN {1, 9, 18} ELSE {1, 9}
Used(e) == IF Cardinality(e.reg) = 1 THEN e.reg ELSE Registers(e)
VVVV(e) == IF e.reserved # {} \/ e.kind = "legacy" THEN {0}
           ELSE IF e.kind = "evex" THEN {0, 6, 9, 25} ELSE {0, 6, 9}

\* What may follow an instruction: a byte that is an instruction or begins one.
Followers(e, z) ==
  CASE e.id \in {"NOP", "PUSH"} -> {z}
    [] e.id = "VPADDD" -> {[z EXCEPT !.mod = 3, !.reg = 1]}
    [] e.id = "POP" -> {[z EXCEPT !.mod = 1, !.segment = \H2E]}
    [] OTHER -> {}

\* Register and memory forms, 16-bit and SIB addressing, with the extensions.
MCRequests(e, m, place) ==
  LET z == Zero(e, m) IN
  IF place > 1 THEN Followers(e, z)
  ELSE IF ~e.hasModRM
  THEN {[z EXCEPT !.opcodeReg = o, !.address = a, !.segment = s] :
          o \in (IF e.plusReg THEN {1, 9} ELSE {0}), a \in BOOLEAN, s \in {0, \H2E}}
  ELSE {[z EXCEPT !.mod = 3, !.reg = r, !.rm = b, !.vvvv = v] :
          r \in Used(e), b \in Registers(e), v \in VVVV(e)}
       \cup {[z EXCEPT !.mod = d, !.reg = r, !.rm = b, !.vvvv = v, !.address = a] :
          d \in 0..2, r \in Used(e), b \in {2, 4, 5, 6, 13}, v \in VVVV(e), a \in BOOLEAN}
       \cup {[z EXCEPT !.mod = d, !.reg = r, !.rm = 4, !.sib = TRUE, !.scale = 1,
                       !.base = b, !.index = i, !.segment = s] :
          d \in 0..2, r \in Used(e), b \in {3, 5, 13}, i \in {4, 12}, s \in {0, \H2E}}
=============================================================================
