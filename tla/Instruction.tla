---------------------------- MODULE Instruction ----------------------------
(***************************************************************************)
(* What the LLVM IR that generate() emits for one guest instruction does   *)
(* to the CPU state when it runs.  There is one operator for each build_ir *)
(* of the source, from the state s before the instruction to the state     *)
(* after it.                                                               *)
(*                                                                         *)
(* An instruction is a record of what the build_ir methods extract from    *)
(* the instruction word: its kind, the register numbers and the immediate. *)
(* The immediate is the sign-extended one, as a signed integer; for a      *)
(* shift by an immediate it is the shift amount.  Encoding.tla models the  *)
(* extraction.                                                             *)
(*                                                                         *)
(* u is a value the host happens to supply where the build leaves a result *)
(* undefined: the bytes a load reads past its segment, and the result of   *)
(* an LLVM shift by at least the width of the operand.                     *)
(***************************************************************************)
EXTENDS Memory

CONSTANTS
  NumRegs,                   \* 32 in the code
  XLEN,                      \* the number of bits of a uint32_t
  AndByte, OrByte, XorByte   \* LLVM's and, or and xor on one byte

Reg == 0 .. NumRegs - 1

ASSUME RegAssumption == NumRegs \in Nat /\ NumRegs > 2

\* The provers know nothing of ^, so what is needed of it is stated here.
ASSUME WidthAssumption ==
  XLEN \in Nat /\ 2 ^ XLEN = M /\ \A n \in 0 .. XLEN - 1 : 2 ^ n \in 1 .. M

ASSUME BitwiseAssumption ==
  {AndByte, OrByte, XorByte} \subseteq [ByteVal \X ByteVal -> ByteVal]

-----------------------------------------------------------------------------
(***************************************************************************)
(* The kinds of instruction.                                               *)
(***************************************************************************)
Branches    == {"BEQ", "BNE", "BLT", "BGE", "BLTU", "BGEU"}
Loads       == {"LB", "LH", "LW", "LBU", "LHU"}
Stores      == {"SB", "SH", "SW"}
ImmShifts   == {"SLLI", "SRLI", "SRAI"}
RegShifts   == {"SLL", "SRL", "SRA"}
ImmArith    == {"ADDI", "SLTI", "SLTIU", "XORI", "ORI", "ANDI"}
RegArith    == {"ADD", "SUB", "XOR", "OR", "AND", "SLT", "SLTU"}
NoEffect    == {"FENCE", "FENCETSO", "PAUSE", "EBREAK"}
NotAdvancing == {"UNKNOWN", "ECALL"}

Instr ==
  {"LUI", "AUIPC", "JAL", "JALR"} \cup Branches \cup Loads \cup Stores
    \cup ImmShifts \cup RegShifts \cup ImmArith \cup RegArith
    \cup NoEffect \cup NotAdvancing

\* What the encoding guarantees of an immediate: a shift amount is less than
\* the width, and bit 0 of a jump or branch offset is 0.
WellFormed(i) ==
  /\ i.op \in ImmShifts => i.imm \in 0 .. XLEN - 1
  /\ i.op \in Branches \cup {"JAL"} => i.imm % 2 = 0

Instruction ==
  {i \in [op : Instr, rd : Reg, rs1 : Reg, rs2 : Reg, imm : Int] : WellFormed(i)}

\* The CPUState: the registers, the PC and what the memory manager holds.
IsCPUState(s) ==
  /\ s = [Registers |-> s.Registers, PC |-> s.PC, Memory |-> s.Memory]
  /\ s.Registers \in [Reg -> Val]
  /\ s.PC \in Val
  /\ IsContents(s.Memory)

-----------------------------------------------------------------------------
(***************************************************************************)
(* Reading and writing the CPU state.  Register 0 is like any other.       *)
(***************************************************************************)
Put(s, r, v) == [s EXCEPT !.Registers[r] = v % M]

\* Mutant: the PC does not wrap around.
JumpNoWrap(s, t) == [s EXCEPT !.PC = t]

Jump(s, t)   == [s EXCEPT !.PC = t % M]
updatePC(s)  == Jump(s, s.PC + 4)

Signed(v)  == IF v < M \div 2 THEN v ELSE v - M
SExt(v, n) == IF v < n \div 2 THEN v ELSE v - n
ZExt(Cond) == IF Cond THEN 1 ELSE 0

Bytewise(f, a, b) ==
  LET B(k) == f[<<ByteOf(a, k), ByteOf(b, k)>>]
  IN  B(0) + Byte * (B(1) + Byte * (B(2) + Byte * B(3)))

-----------------------------------------------------------------------------
(***************************************************************************)
(* Upper immediates, jumps and branches.                                   *)
(***************************************************************************)
LUI(i, s)   == updatePC(Put(s, i.rd, i.imm))
AUIPC(i, s) == updatePC(Put(s, i.rd, i.imm + s.PC))

\* Mutant: the link is the address of the jump itself.
JALLinksItself(i, s) == Jump(Put(s, i.rd, s.PC), s.PC + i.imm)

JAL(i, s) == Jump(Put(s, i.rd, s.PC + 4), s.PC + i.imm)

\* Mutant: bit 0 of the target is not cleared.
JALRKeepsBit0(i, s) == Jump(Put(s, i.rd, s.PC + 4), s.Registers[i.rs1] + i.imm)

\* Mutant: the destination is written before the source is read.
JALRLinksFirst(i, s) ==
  LET t      == Put(s, i.rd, s.PC + 4)
      Target == t.Registers[i.rs1] + i.imm
  IN  Jump(t, Target - (Target % 2))

\* The source register is read before the destination is written.
JALR(i, s) ==
  LET Target == s.Registers[i.rs1] + i.imm
  IN  Jump(Put(s, i.rd, s.PC + 4), Target - (Target % 2))

Branch(i, s, Cond) == Jump(s, s.PC + (IF Cond THEN i.imm ELSE 4))

BEQ(i, s)  == Branch(i, s, s.Registers[i.rs1] = s.Registers[i.rs2])
BNE(i, s)  == Branch(i, s, s.Registers[i.rs1] # s.Registers[i.rs2])
BLT(i, s)  == Branch(i, s, Signed(s.Registers[i.rs1]) < Signed(s.Registers[i.rs2]))
BGE(i, s)  == Branch(i, s, Signed(s.Registers[i.rs1]) >= Signed(s.Registers[i.rs2]))
BLTU(i, s) == Branch(i, s, s.Registers[i.rs1] < s.Registers[i.rs2])
BGEU(i, s) == Branch(i, s, s.Registers[i.rs1] >= s.Registers[i.rs2])

-----------------------------------------------------------------------------
(***************************************************************************)
(* Loads and stores.  The memory functions do not report a fault: an       *)
(* access that no segment covers, or a store that leaves the host block of *)
(* its segment, is undefined behaviour of the translator itself.           *)
(***************************************************************************)
Address(i, s) == (s.Registers[i.rs1] + i.imm) % M

\* Mutants: updatePC is forgotten; the function called is write32.
LWNoAdvance(i, s, u) == Put(s, i.rd, read32(s.Memory, Address(i, s), u))
LWStores(i, s, u) ==
  updatePC([s EXCEPT !.Memory = write32(@, Address(i, s), s.Registers[i.rd])])

LB(i, s, u)  == updatePC(Put(s, i.rd, SExt(read8(s.Memory, Address(i, s), u), Byte)))
LH(i, s, u)  == updatePC(Put(s, i.rd, SExt(read16(s.Memory, Address(i, s), u), Byte * Byte)))
LW(i, s, u)  == updatePC(Put(s, i.rd, read32(s.Memory, Address(i, s), u)))
LBU(i, s, u) == updatePC(Put(s, i.rd, read8(s.Memory, Address(i, s), u)))
LHU(i, s, u) == updatePC(Put(s, i.rd, read16(s.Memory, Address(i, s), u)))

\* Mutant: updatePC is forgotten.
SWNoAdvance(i, s) ==
  [s EXCEPT !.Memory = write32(@, Address(i, s), s.Registers[i.rs2])]

SB(i, s) == updatePC([s EXCEPT !.Memory = write8(@, Address(i, s), s.Registers[i.rs2])])
SH(i, s) == updatePC([s EXCEPT !.Memory = write16(@, Address(i, s), s.Registers[i.rs2])])
SW(i, s) == updatePC([s EXCEPT !.Memory = write32(@, Address(i, s), s.Registers[i.rs2])])

Width == [LB |-> 1, LBU |-> 1, SB |-> 1, LH |-> 2, LHU |-> 2, SH |-> 2, LW |-> 4, SW |-> 4]

Faults(i, s) ==
  /\ i.op \in Loads \cup Stores
  /\ LET p == mapAddress(Address(i, s))
     IN  p # nullptr => (i.op \in Stores /\ ~InBlock(p, Width[i.op]))

-----------------------------------------------------------------------------
(***************************************************************************)
(* Arithmetic with an immediate.                                           *)
(***************************************************************************)
ADDI(i, s)  == updatePC(Put(s, i.rd, s.Registers[i.rs1] + i.imm))
SLTI(i, s)  == updatePC(Put(s, i.rd, ZExt(Signed(s.Registers[i.rs1]) < Signed(i.imm % M))))
SLTIU(i, s) == updatePC(Put(s, i.rd, ZExt(s.Registers[i.rs1] < i.imm % M)))
XORI(i, s)  == updatePC(Put(s, i.rd, Bytewise(XorByte, s.Registers[i.rs1], i.imm % M)))
ORI(i, s)   == updatePC(Put(s, i.rd, Bytewise(OrByte, s.Registers[i.rs1], i.imm % M)))
ANDI(i, s)  == updatePC(Put(s, i.rd, Bytewise(AndByte, s.Registers[i.rs1], i.imm % M)))
SLLI(i, s)  == updatePC(Put(s, i.rd, s.Registers[i.rs1] * 2 ^ i.imm))
SRLI(i, s)  == updatePC(Put(s, i.rd, s.Registers[i.rs1] \div 2 ^ i.imm))
SRAI(i, s)  == updatePC(Put(s, i.rd, Signed(s.Registers[i.rs1]) \div 2 ^ i.imm))

(***************************************************************************)
(* Arithmetic on two registers.  A shift takes the whole second register   *)
(* as its amount, and LLVM leaves a shift by XLEN or more undefined.  SLT  *)
(* and SLTU build both operands from RegSrc1.                              *)
(***************************************************************************)
Poison(i, s) == i.op \in RegShifts /\ s.Registers[i.rs2] >= XLEN

Shift(i, s, v, u) == updatePC(Put(s, i.rd, IF Poison(i, s) THEN u ELSE v))

\* Mutant: a logical shift is emitted for an arithmetic one.
SRALogical(i, s, u) == Shift(i, s, s.Registers[i.rs1] \div 2 ^ s.Registers[i.rs2], u)

ADD(i, s)    == updatePC(Put(s, i.rd, s.Registers[i.rs1] + s.Registers[i.rs2]))
SUB(i, s)    == updatePC(Put(s, i.rd, s.Registers[i.rs1] - s.Registers[i.rs2]))
SLL(i, s, u) == Shift(i, s, s.Registers[i.rs1] * 2 ^ s.Registers[i.rs2], u)
SRL(i, s, u) == Shift(i, s, s.Registers[i.rs1] \div 2 ^ s.Registers[i.rs2], u)
SRA(i, s, u) == Shift(i, s, Signed(s.Registers[i.rs1]) \div 2 ^ s.Registers[i.rs2], u)
XOR(i, s)    == updatePC(Put(s, i.rd, Bytewise(XorByte, s.Registers[i.rs1], s.Registers[i.rs2])))
OR(i, s)     == updatePC(Put(s, i.rd, Bytewise(OrByte, s.Registers[i.rs1], s.Registers[i.rs2])))
AND(i, s)    == updatePC(Put(s, i.rd, Bytewise(AndByte, s.Registers[i.rs1], s.Registers[i.rs2])))
SLT(i, s)    == updatePC(Put(s, i.rd, ZExt(Signed(s.Registers[i.rs1]) < Signed(s.Registers[i.rs1]))))
SLTU(i, s)   == updatePC(Put(s, i.rd, ZExt(s.Registers[i.rs1] < s.Registers[i.rs1])))

-----------------------------------------------------------------------------
(***************************************************************************)
(* The code that runs for one instruction.  Nothing is emitted for UNKNOWN *)
(* and ECALL, so these do not even advance the PC.                         *)
(***************************************************************************)
Upper(i, s) == CASE i.op = "LUI" -> LUI(i, s) [] i.op = "AUIPC" -> AUIPC(i, s)

Transfer(i, s) ==
  CASE i.op = "JAL"  -> JAL(i, s)  [] i.op = "JALR" -> JALR(i, s)
    [] i.op = "BEQ"  -> BEQ(i, s)  [] i.op = "BNE"  -> BNE(i, s)
    [] i.op = "BLT"  -> BLT(i, s)  [] i.op = "BGE"  -> BGE(i, s)
    [] i.op = "BLTU" -> BLTU(i, s) [] i.op = "BGEU" -> BGEU(i, s)

Access(i, s, u) ==
  CASE i.op = "LB"  -> LB(i, s, u)  [] i.op = "LH"  -> LH(i, s, u)
    [] i.op = "LW"  -> LW(i, s, u)  [] i.op = "LBU" -> LBU(i, s, u)
    [] i.op = "LHU" -> LHU(i, s, u) [] i.op = "SB"  -> SB(i, s)
    [] i.op = "SH"  -> SH(i, s)     [] i.op = "SW"  -> SW(i, s)

Immediate(i, s) ==
  CASE i.op = "ADDI"  -> ADDI(i, s)  [] i.op = "SLTI" -> SLTI(i, s)
    [] i.op = "SLTIU" -> SLTIU(i, s) [] i.op = "XORI" -> XORI(i, s)
    [] i.op = "ORI"   -> ORI(i, s)   [] i.op = "ANDI" -> ANDI(i, s)
    [] i.op = "SLLI"  -> SLLI(i, s)  [] i.op = "SRLI" -> SRLI(i, s)
    [] i.op = "SRAI"  -> SRAI(i, s)

Register(i, s, u) ==
  CASE i.op = "ADD" -> ADD(i, s)    [] i.op = "SUB"  -> SUB(i, s)
    [] i.op = "SLL" -> SLL(i, s, u) [] i.op = "SRL"  -> SRL(i, s, u)
    [] i.op = "SRA" -> SRA(i, s, u) [] i.op = "XOR"  -> XOR(i, s)
    [] i.op = "OR"  -> OR(i, s)     [] i.op = "AND"  -> AND(i, s)
    [] i.op = "SLT" -> SLT(i, s)    [] i.op = "SLTU" -> SLTU(i, s)

generate(i, s, u) ==
  CASE i.op \in {"LUI", "AUIPC"}           -> Upper(i, s)
    [] i.op \in {"JAL", "JALR"} \cup Branches -> Transfer(i, s)
    [] i.op \in Loads \cup Stores          -> Access(i, s, u)
    [] i.op \in ImmShifts \cup ImmArith    -> Immediate(i, s)
    [] i.op \in RegShifts \cup RegArith    -> Register(i, s, u)
    [] i.op \in NoEffect                   -> updatePC(s)
    [] i.op \in NotAdvancing               -> s
=============================================================================
