------------------------------ MODULE Encoding ------------------------------
(***************************************************************************)
(* decode(), and the operands that the build_ir methods extract from the   *)
(* instruction word.                                                       *)
(*                                                                         *)
(* A word is the record of the six fields that the masks and shifts of the *)
(* code cut it into: bits 6-0 (op), 11-7 (rd), 14-12 (f3), 19-15 (rs1),    *)
(* 24-20 (rs2) and 31-25 (f7).  An immediate is a uint32_t in the code; it *)
(* is given here as the signed integer with the same 32 bits.              *)
(***************************************************************************)
EXTENDS Integers

Word == [op : 0 .. 127, rd : 0 .. 31, f3 : 0 .. 7, rs1 : 0 .. 31, rs2 : 0 .. 31, f7 : 0 .. 127]

opcode(w) == w.op
funct3(w) == w.f3
funct7(w) == w.f7

-----------------------------------------------------------------------------
(***************************************************************************)
(* decode: the switches over funct3, as tables from funct3 = 0 up, and     *)
(* those that look at funct7 as well.                                      *)
(***************************************************************************)
LoadKind   == <<"LB", "LH", "LW", "UNKNOWN", "LBU", "LHU", "UNKNOWN", "UNKNOWN">>
StoreKind  == <<"SB", "SH", "SW", "UNKNOWN", "UNKNOWN", "UNKNOWN", "UNKNOWN", "UNKNOWN">>
BranchKind == <<"BEQ", "BNE", "UNKNOWN", "UNKNOWN", "BLT", "BGE", "BLTU", "BGEU">>
ImmKind    == <<"ADDI", "UNKNOWN", "SLTI", "SLTIU", "XORI", "UNKNOWN", "ORI", "ANDI">>
RegKind    == <<"UNKNOWN", "SLL", "SLT", "SLTU", "XOR", "UNKNOWN", "OR", "AND">>

\* Mutant: the funct7 of SRAI is taken to be 0x10.
ImmShiftKindBit4(f3, f7) ==
  CASE f3 = 1 /\ f7 = 0  -> "SLLI"
    [] f3 = 5 /\ f7 = 0  -> "SRLI"
    [] f3 = 5 /\ f7 = 16 -> "SRAI"
    [] OTHER             -> "UNKNOWN"

ImmShiftKind(f3, f7) ==
  CASE f3 = 1 /\ f7 = 0  -> "SLLI"
    [] f3 = 5 /\ f7 = 0  -> "SRLI"
    [] f3 = 5 /\ f7 = 32 -> "SRAI"
    [] OTHER             -> "UNKNOWN"

\* For the other register operations the code does not look at funct7.
RegKind7(f3, f7) ==
  CASE f3 = 0 /\ f7 = 0  -> "ADD"
    [] f3 = 0 /\ f7 = 32 -> "SUB"
    [] f3 = 5 /\ f7 = 0  -> "SRL"
    [] f3 = 5 /\ f7 = 32 -> "SRA"
    [] OTHER             -> "UNKNOWN"

\* fm, pred and succ are bits 31-28, 27-24 and 23-20 of the word.  The test
\* for PAUSE compares the word with its low 12 bits cleared to 0x0000100F,
\* whose low 12 bits are not clear.
FenceKind(w) ==
  LET fm   == w.f7 \div 8
      pred == (w.f7 % 8) * 2 + w.rs2 \div 16
      succ == w.rs2 % 16
      high == <<w.f7, w.rs2, w.rs1, w.f3, 0, 0>>
  IN  IF fm = 8 /\ pred = 3 /\ succ = 3 THEN "FENCETSO"
      ELSE IF high = <<0, 0, 0, 1, 0, 15>> THEN "PAUSE"
      ELSE "FENCE"

\* Mutant: only bit 20 tells the two apart.
SystemKindBit20(w) == IF w.rs2 % 2 = 0 THEN "ECALL" ELSE "EBREAK"

SystemKind(w) ==
  CASE w.f7 = 0 /\ w.rs2 = 0 -> "ECALL"
    [] w.f7 = 0 /\ w.rs2 = 1 -> "EBREAK"
    [] OTHER                 -> "UNKNOWN"

decode(w) ==
  LET op == opcode(w)
      f3 == funct3(w)
      f7 == funct7(w)
  IN  CASE op = 55  -> "LUI"
        [] op = 23  -> "AUIPC"
        [] op = 111 -> "JAL"
        [] op = 103 -> IF f3 = 0 THEN "JALR" ELSE "UNKNOWN"
        [] op = 3   -> LoadKind[f3 + 1]
        [] op = 19  -> IF f3 \in {1, 5} THEN ImmShiftKind(f3, f7) ELSE ImmKind[f3 + 1]
        [] op = 99  -> BranchKind[f3 + 1]
        [] op = 35  -> StoreKind[f3 + 1]
        [] op = 51  -> IF f3 \in {0, 5} THEN RegKind7(f3, f7) ELSE RegKind[f3 + 1]
        [] op = 15  -> IF f3 = 0 THEN FenceKind(w) ELSE "UNKNOWN"
        [] op = 115 -> IF f3 = 0 THEN SystemKind(w) ELSE "UNKNOWN"
        [] OTHER    -> "UNKNOWN"

-----------------------------------------------------------------------------
(***************************************************************************)
(* The immediates.  SignExtend(v, n) is v with the sign of an n-valued     *)
(* field: the code tests its top bit and ors in the bits above it.         *)
(***************************************************************************)
SignExtend(v, n) == IF v >= n \div 2 THEN v - n ELSE v

ImmI(w) == SignExtend(w.f7 * 32 + w.rs2, 4096)
ImmS(w) == SignExtend(w.f7 * 32 + w.rd, 4096)

\* Mutant: bit 11 of the offset is not moved to its place.
ImmBNoBit11(w) ==
  SignExtend((w.f7 \div 64) * 4096 + (w.f7 % 64) * 32 + (w.rd \div 2) * 2, 8192)

ImmB(w) ==
  SignExtend((w.f7 \div 64) * 4096 + (w.rd % 2) * 2048
               + (w.f7 % 64) * 32 + (w.rd \div 2) * 2, 8192)

ImmU(w) == SignExtend(w.f7 * 8192 + w.rs2 * 256 + w.rs1 * 8 + w.f3, 1048576) * 4096

\* Mutant: the offset is not sign-extended.
ImmJUnsigned(w) ==
  (w.f7 \div 64) * 1048576 + (w.rs1 * 8 + w.f3) * 4096
    + (w.rs2 % 2) * 2048 + ((w.f7 % 64) * 16 + w.rs2 \div 2) * 2

\* The sign of the offset is its bit 20, but the code tests bit 19
\* (0x80000) and then sets bits 20 and up.
ImmJ(w) ==
  LET Offset == (w.f7 \div 64) * 1048576 + (w.rs1 * 8 + w.f3) * 4096
                  + (w.rs2 % 2) * 2048 + ((w.f7 % 64) * 16 + w.rs2 \div 2) * 2
  IN  IF (Offset \div 524288) % 2 = 1 THEN (Offset % 1048576) - 1048576 ELSE Offset

\* Mutant: the amount is not masked, and takes funct7 in.
ShamtUnmasked(w) == w.f7 * 32 + w.rs2

Shamt(w) == w.rs2

BranchWords == {"BEQ", "BNE", "BLT", "BGE", "BLTU", "BGEU"}

Imm(w) ==
  LET kind == decode(w)
  IN  CASE kind \in {"LUI", "AUIPC"}        -> ImmU(w)
        [] kind = "JAL"                     -> ImmJ(w)
        [] kind \in BranchWords             -> ImmB(w)
        [] kind \in {"SB", "SH", "SW"}      -> ImmS(w)
        [] kind \in {"SLLI", "SRLI", "SRAI"} -> Shamt(w)
        [] OTHER                            -> ImmI(w)

\* What generate() knows of a word.
Operands(w) == [op |-> decode(w), rd |-> w.rd, rs1 |-> w.rs1, rs2 |-> w.rs2, imm |-> Imm(w)]
=============================================================================
