---------------------------- MODULE MCTranslator ----------------------------
(***************************************************************************)
(* Every program of a few instructions, on bytes of four values: 8-bit     *)
(* words, three registers, a code segment and the stack segment.           *)
(***************************************************************************)
EXTENDS Translator, TLC

CONSTANT ProgramSize

MCSegmentData ==
  << [GuestAddress |-> 4, MemorySize |-> 4 * ProgramSize],
     [GuestAddress |-> 239, MemorySize |-> 16] >>

MCAndByte == << <<0,0,0,0>>, <<0,1,0,1>>, <<0,0,2,2>>, <<0,1,2,3>> >>
Table(t) == [p \in (0 .. 3) \X (0 .. 3) |-> t[p[1] + 1][p[2] + 1]]
MCAnd == Table(MCAndByte)
MCOr  == [p \in (0 .. 3) \X (0 .. 3) |-> p[1] + p[2] - MCAnd[p]]
MCXor == [p \in (0 .. 3) \X (0 .. 3) |-> p[1] + p[2] - 2 * MCAnd[p]]

I(op, rd, rs1, rs2, imm) ==
  [op |-> op, rd |-> rd, rs1 |-> rs1, rs2 |-> rs2, imm |-> imm]

\* Word w of memory is instruction w; every other word is UNKNOWN.
Code == <<
  I("ADDI", 1, 1, 0, 1),
  I("JAL", 0, 0, 0, -4),
  I("JAL", 0, 0, 0, -8),
  I("BEQ", 0, 0, 1, 8),
  I("JALR", 1, 1, 0, 5),
  I("SW", 0, 0, 1, 8),
  I("LW", 1, 1, 0, 8),
  I("SLL", 1, 1, 2, 0),
  I("ECALL", 0, 0, 0, 0),
  I("FENCE", 0, 0, 0, 0) >>

MCDecoded ==
  [w \in Val |-> IF w \in DOMAIN Code THEN Code[w] ELSE I("UNKNOWN", 0, 0, 0, 0)]

\* The image of a program: one word per instruction.
Image(p) ==
  << [o \in Allocation(1) |-> ByteOf(p[(o \div 4) + 1], o % 4)],
     [o \in Allocation(2) |-> 0] >>
MCImages == {Image(p) : p \in [1 .. ProgramSize -> 0 .. Len(Code)]}

MCGarbage == {0, 2}
=============================================================================
