------------------------- MODULE InstructionProofs -------------------------
(***************************************************************************)
(* What the code generated for one instruction can do to the CPU state,    *)
(* and that it does what RV32I says, for every width, register count and   *)
(* memory layout.                                                          *)
(***************************************************************************)
EXTENDS GuestISA, MemoryProofs

LEMMA PutFacts ==
  ASSUME NEW s, IsCPUState(s), NEW r \in Reg, NEW v \in Int
  PROVE  /\ IsCPUState(Put(s, r, v))
         /\ Put(s, r, v).PC = s.PC
         /\ Put(s, r, v).Memory = s.Memory
<1>1. v % M \in Val
  BY ModVal
<1>2. Put(s, r, v) =
        [Registers |-> [s.Registers EXCEPT ![r] = v % M], PC |-> s.PC, Memory |-> s.Memory]
  BY DEF Put, IsCPUState
<1>3. [s.Registers EXCEPT ![r] = v % M] \in [Reg -> Val]
  BY <1>1 DEF IsCPUState
<1> QED
  BY <1>2, <1>3 DEF IsCPUState

LEMMA JumpFacts ==
  ASSUME NEW s, IsCPUState(s), NEW t \in Int
  PROVE  /\ IsCPUState(Jump(s, t))
         /\ Jump(s, t).PC = t % M
         /\ Jump(s, t).Memory = s.Memory
<1>1. t % M \in Val
  BY ModVal
<1>2. Jump(s, t) = [Registers |-> s.Registers, PC |-> t % M, Memory |-> s.Memory]
  BY DEF Jump, IsCPUState
<1> QED
  BY <1>1, <1>2 DEF IsCPUState

\* The common shape of generated code: a result for rd, then the next PC.
LEMMA ResultFacts ==
  ASSUME NEW s, IsCPUState(s), NEW r \in Reg, NEW v \in Int
  PROVE  /\ IsCPUState(updatePC(Put(s, r, v)))
         /\ updatePC(Put(s, r, v)).PC = (s.PC + 4) % M
         /\ updatePC(Put(s, r, v)).Memory = s.Memory
<1>1. IsCPUState(Put(s, r, v)) /\ Put(s, r, v).PC = s.PC /\ Put(s, r, v).Memory = s.Memory
  BY PutFacts
<1>2. s.PC + 4 \in Int
  BY MType DEF IsCPUState, Val
<1> QED
  BY <1>1, <1>2, JumpFacts DEF updatePC

\* The operands of an instruction.
LEMMA OperandFacts ==
  ASSUME NEW i \in Instruction, NEW s, IsCPUState(s)
  PROVE  /\ i.rd \in Reg /\ i.rs1 \in Reg /\ i.rs2 \in Reg /\ i.imm \in Int
         /\ i.op \in Instr
         /\ s.Registers[i.rs1] \in Val /\ s.Registers[i.rs2] \in Val
         /\ s.PC \in Val
         /\ s.Registers[i.rs1] \in Int /\ s.Registers[i.rs2] \in Int /\ s.PC \in Int
         /\ i.imm % M \in Val
         /\ Address(i, s) \in Val
<1>1. i.rd \in Reg /\ i.rs1 \in Reg /\ i.rs2 \in Reg /\ i.imm \in Int /\ i.op \in Instr
  BY DEF Instruction
<1>2. s.Registers[i.rs1] \in Val /\ s.Registers[i.rs2] \in Val /\ s.PC \in Val
  BY <1>1 DEF IsCPUState
<1>3. s.Registers[i.rs1] \in Int /\ s.Registers[i.rs2] \in Int /\ s.PC \in Int
  BY <1>2, MType DEF Val
<1>4. i.imm % M \in Val /\ Address(i, s) \in Val
  BY <1>1, <1>3, ModVal DEF Address
<1> QED
  BY <1>1, <1>2, <1>3, <1>4

LEMMA SignedType == ASSUME NEW v \in Val PROVE Signed(v) \in Int
BY MType DEF Signed, Val

LEMMA SExtType == ASSUME NEW v \in Val, NEW n \in Int PROVE SExt(v, n) \in Int
BY MType DEF SExt, Val

\* A bitwise operation on two uint32_t yields a uint32_t.
LEMMA BytewiseType ==
  ASSUME NEW f \in {AndByte, OrByte, XorByte}, NEW a \in Val, NEW b \in Val
  PROVE  Bytewise(f, a, b) \in Int
<1> DEFINE B(k) == f[<<ByteOf(a, k), ByteOf(b, k)>>]
<1>1. f \in [ByteVal \X ByteVal -> ByteVal]
  BY BitwiseAssumption
<1>2. ASSUME NEW k \in 0 .. 3 PROVE B(k) \in ByteVal
  BY <1>1, ByteOfType
<1>3. B(0) \in ByteVal /\ B(1) \in ByteVal /\ B(2) \in ByteVal /\ B(3) \in ByteVal
  BY <1>2
<1>4. Bytewise(f, a, b) = B(0) + Byte * (B(1) + Byte * (B(2) + Byte * B(3)))
  BY DEF Bytewise
<1> HIDE DEF B
<1>5. Bytewise(f, a, b) \in Val
  BY <1>3, <1>4, FourBytes
<1> QED
  BY <1>5, MType DEF Val

\* The powers of two that shifts use.
LEMMA PowerType ==
  ASSUME NEW n \in 0 .. XLEN - 1
  PROVE  2 ^ n \in Int /\ 2 ^ n >= 1
<1>1. 2 ^ n \in 1 .. M
  BY WidthAssumption
<1> QED
  BY <1>1, MType
-----------------------------------------------------------------------------
\* An instruction with an immediate operand writes an integer, reduced to a
\* uint32_t, to rd and advances the PC.
LEMMA ImmediateStep ==
  ASSUME NEW i \in Instruction, NEW s, IsCPUState(s),
         i.op \in ImmShifts \cup ImmArith
  PROVE  \E v \in Int : Immediate(i, s) = updatePC(Put(s, i.rd, v))
<1> DEFINE x == s.Registers[i.rs1]
           y == i.imm % M
<1>1. x \in Val /\ y \in Val /\ x \in Int /\ y \in Int /\ i.imm \in Int
  <2>1. x \in Val /\ y \in Val /\ i.imm \in Int
    BY OperandFacts
  <2> QED
    BY <2>1, MType DEF Val
<1>2. Signed(x) \in Int /\ Signed(y) \in Int
  BY <1>1, SignedType
<1>3. CASE i.op = "ADDI"
  <2>1. x + i.imm \in Int
    BY <1>1
  <2> QED
    BY <1>3, <2>1 DEF Immediate, ADDI
<1>4. CASE i.op = "SLTI"
  <2>1. ZExt(Signed(x) < Signed(y)) \in Int
    BY DEF ZExt
  <2> QED
    BY <1>4, <2>1 DEF Immediate, SLTI
<1>5. CASE i.op = "SLTIU"
  <2>1. ZExt(x < y) \in Int
    BY DEF ZExt
  <2> QED
    BY <1>5, <2>1 DEF Immediate, SLTIU
<1>6. CASE i.op = "XORI"
  <2>1. Bytewise(XorByte, x, y) \in Int
    BY <1>1, BytewiseType
  <2> QED
    BY <1>6, <2>1 DEF Immediate, XORI
<1>7. CASE i.op = "ORI"
  <2>1. Bytewise(OrByte, x, y) \in Int
    BY <1>1, BytewiseType
  <2> QED
    BY <1>7, <2>1 DEF Immediate, ORI
<1>8. CASE i.op = "ANDI"
  <2>1. Bytewise(AndByte, x, y) \in Int
    BY <1>1, BytewiseType
  <2> QED
    BY <1>8, <2>1 DEF Immediate, ANDI
<1>9. ASSUME i.op \in ImmShifts
      PROVE  x * 2 ^ i.imm \in Int /\ x \div 2 ^ i.imm \in Int /\ Signed(x) \div 2 ^ i.imm \in Int
  <2> DEFINE q == 2 ^ i.imm
  <2>1. q \in Int /\ q >= 1
    BY <1>9, PowerType DEF WellFormed, Instruction
  <2> HIDE DEF q
  <2>2. x * q \in Int /\ x \div q \in Int /\ Signed(x) \div q \in Int
    BY <1>1, <1>2, <2>1
  <2> QED
    BY <2>2 DEF q
<1>10. CASE i.op = "SLLI"
  <2>1. x * 2 ^ i.imm \in Int
    BY <1>9, <1>10 DEF ImmShifts
  <2> QED
    BY <1>10, <2>1 DEF Immediate, SLLI
<1>11. CASE i.op = "SRLI"
  <2>1. x \div 2 ^ i.imm \in Int
    BY <1>9, <1>11 DEF ImmShifts
  <2> QED
    BY <1>11, <2>1 DEF Immediate, SRLI
<1>12. CASE i.op = "SRAI"
  <2>1. Signed(x) \div 2 ^ i.imm \in Int
    BY <1>9, <1>12 DEF ImmShifts
  <2> QED
    BY <1>12, <2>1 DEF Immediate, SRAI
<1> QED
  BY <1>3, <1>4, <1>5, <1>6, <1>7, <1>8, <1>10, <1>11, <1>12 DEF ImmShifts, ImmArith

\* A shift by a register yields an integer, defined or not.
LEMMA ShiftStep ==
  ASSUME NEW i \in Instruction, NEW s, IsCPUState(s), NEW u \in Val,
         i.op \in RegShifts
  PROVE  \E v \in Int : Register(i, s, u) = updatePC(Put(s, i.rd, v))
<1> DEFINE x == s.Registers[i.rs1]
           n == s.Registers[i.rs2]
<1>1. x \in Val /\ n \in Val /\ x \in Int /\ n \in Int
  BY OperandFacts
<1>2. Signed(x) \in Int
  BY <1>1, SignedType
<1>3. u \in Int
  BY MType DEF Val
<1>4. ASSUME ~Poison(i, s)
      PROVE  x * 2 ^ n \in Int /\ x \div 2 ^ n \in Int /\ Signed(x) \div 2 ^ n \in Int
  <2> DEFINE q == 2 ^ n
  <2>1. n \in 0 .. XLEN - 1
    BY <1>1, <1>4, WidthAssumption, MType DEF Poison, Val
  <2>2. q \in Int /\ q >= 1
    BY <2>1, PowerType
  <2> HIDE DEF q
  <2>3. x * q \in Int /\ x \div q \in Int /\ Signed(x) \div q \in Int
    BY <1>1, <1>2, <2>2
  <2> QED
    BY <2>3 DEF q
<1>5. ASSUME NEW w, ~Poison(i, s) => w \in Int
      PROVE  \E v \in Int : Shift(i, s, w, u) = updatePC(Put(s, i.rd, v))
  BY <1>3, <1>5 DEF Shift
<1>6. CASE i.op = "SLL"
  BY <1>4, <1>5, <1>6 DEF Register, SLL
<1>7. CASE i.op = "SRL"
  BY <1>4, <1>5, <1>7 DEF Register, SRL
<1>8. CASE i.op = "SRA"
  BY <1>4, <1>5, <1>8 DEF Register, SRA
<1> QED
  BY <1>6, <1>7, <1>8 DEF RegShifts

LEMMA RegisterStep ==
  ASSUME NEW i \in Instruction, NEW s, IsCPUState(s), NEW u \in Val,
         i.op \in RegShifts \cup RegArith
  PROVE  \E v \in Int : Register(i, s, u) = updatePC(Put(s, i.rd, v))
<1> DEFINE x == s.Registers[i.rs1]
           y == s.Registers[i.rs2]
<1>1. x \in Val /\ y \in Val /\ x \in Int /\ y \in Int
  BY OperandFacts
<1>2. Signed(x) \in Int
  BY <1>1, SignedType
<1>3. CASE i.op \in RegShifts
  BY <1>3, ShiftStep
<1>4. CASE i.op = "ADD"
  <2>1. x + y \in Int
    BY <1>1
  <2> QED
    BY <1>4, <2>1 DEF Register, ADD
<1>5. CASE i.op = "SUB"
  <2>1. x - y \in Int
    BY <1>1
  <2> QED
    BY <1>5, <2>1 DEF Register, SUB
<1>6. CASE i.op = "XOR"
  <2>1. Bytewise(XorByte, x, y) \in Int
    BY <1>1, BytewiseType
  <2> QED
    BY <1>6, <2>1 DEF Register, XOR
<1>7. CASE i.op = "OR"
  <2>1. Bytewise(OrByte, x, y) \in Int
    BY <1>1, BytewiseType
  <2> QED
    BY <1>7, <2>1 DEF Register, OR
<1>8. CASE i.op = "AND"
  <2>1. Bytewise(AndByte, x, y) \in Int
    BY <1>1, BytewiseType
  <2> QED
    BY <1>8, <2>1 DEF Register, AND
<1>9. CASE i.op = "SLT"
  <2>1. ZExt(Signed(x) < Signed(x)) \in Int
    BY DEF ZExt
  <2> QED
    BY <1>9, <2>1 DEF Register, SLT
<1>10. CASE i.op = "SLTU"
  <2>1. ZExt(x < x) \in Int
    BY DEF ZExt
  <2> QED
    BY <1>10, <2>1 DEF Register, SLTU
<1> QED
  BY <1>3, <1>4, <1>5, <1>6, <1>7, <1>8, <1>9, <1>10 DEF RegArith

\* A load writes an integer to rd and advances the PC.
LEMMA LoadStep ==
  ASSUME NEW i \in Instruction, NEW s, IsCPUState(s), NEW u \in Val,
         i.op \in Loads, ~Faults(i, s)
  PROVE  \E v \in Int : Access(i, s, u) = updatePC(Put(s, i.rd, v))
<1> DEFINE a == Address(i, s)
<1>1. a \in Val /\ IsContents(s.Memory)
  BY OperandFacts DEF IsCPUState
<1>2. mapAddress(a) # nullptr
  BY DEF Faults
<1>3. /\ read8(s.Memory, a, u) \in Val
      /\ read16(s.Memory, a, u) \in Val
      /\ read32(s.Memory, a, u) \in Val
  BY <1>1, <1>2, ReadType
<1>4. Byte \in Int /\ Byte * Byte \in Int
  BY ByteAssumption
<1>5. /\ read8(s.Memory, a, u) \in Int
      /\ read16(s.Memory, a, u) \in Int
      /\ read32(s.Memory, a, u) \in Int
  BY <1>3, MType DEF Val
<1>6. SExt(read8(s.Memory, a, u), Byte) \in Int
  BY <1>3, <1>4, SExtType
<1>7. SExt(read16(s.Memory, a, u), Byte * Byte) \in Int
  BY <1>3, <1>4, SExtType
<1>8. CASE i.op = "LB"
  BY <1>6, <1>8 DEF Access, LB
<1>9. CASE i.op = "LH"
  BY <1>7, <1>9 DEF Access, LH
<1>10. CASE i.op = "LW"
  BY <1>5, <1>10 DEF Access, LW
<1>11. CASE i.op = "LBU"
  BY <1>5, <1>11 DEF Access, LBU
<1>12. CASE i.op = "LHU"
  BY <1>5, <1>12 DEF Access, LHU
<1> QED
  BY <1>8, <1>9, <1>10, <1>11, <1>12 DEF Loads

\* A store changes only memory, which keeps its extent, and advances the PC.
LEMMA StoreStep ==
  ASSUME NEW i \in Instruction, NEW s, IsCPUState(s), NEW u \in Val,
         i.op \in Stores, ~Faults(i, s)
  PROVE  /\ IsCPUState(Access(i, s, u))
         /\ Access(i, s, u).PC = (s.PC + 4) % M
<1> DEFINE a == Address(i, s)
           d == s.Registers[i.rs2]
<1>1. a \in Val /\ d \in Val /\ s.PC \in Int /\ IsContents(s.Memory)
  BY OperandFacts DEF IsCPUState
<1>2. mapAddress(a) # nullptr
  BY DEF Faults
<1>3. /\ IsContents(write8(s.Memory, a, d))
      /\ IsContents(write16(s.Memory, a, d))
      /\ IsContents(write32(s.Memory, a, d))
  BY <1>1, <1>2, WriteType
<1>4. ASSUME NEW m, IsContents(m)
      PROVE  /\ IsCPUState(updatePC([s EXCEPT !.Memory = m]))
             /\ updatePC([s EXCEPT !.Memory = m]).PC = (s.PC + 4) % M
  <2> DEFINE t == [s EXCEPT !.Memory = m]
  <2>1. t = [Registers |-> s.Registers, PC |-> s.PC, Memory |-> m]
    BY DEF IsCPUState
  <2>2. IsCPUState(t) /\ t.PC = s.PC
    BY <1>4, <2>1 DEF IsCPUState
  <2>3. s.PC + 4 \in Int
    BY <1>1
  <2> HIDE DEF t
  <2>4. IsCPUState(updatePC(t)) /\ updatePC(t).PC = (s.PC + 4) % M
    BY <2>2, <2>3, JumpFacts DEF updatePC
  <2> QED
    BY <2>4 DEF t
<1>5. CASE i.op = "SB"
  <2>1. Access(i, s, u) = updatePC([s EXCEPT !.Memory = write8(s.Memory, a, d)])
    BY <1>5 DEF Access, SB
  <2> QED
    BY <1>3, <1>4, <2>1
<1>6. CASE i.op = "SH"
  <2>1. Access(i, s, u) = updatePC([s EXCEPT !.Memory = write16(s.Memory, a, d)])
    BY <1>6 DEF Access, SH
  <2> QED
    BY <1>3, <1>4, <2>1
<1>7. CASE i.op = "SW"
  <2>1. Access(i, s, u) = updatePC([s EXCEPT !.Memory = write32(s.Memory, a, d)])
    BY <1>7 DEF Access, SW
  <2> QED
    BY <1>3, <1>4, <2>1
<1> QED
  BY <1>5, <1>6, <1>7 DEF Stores

-----------------------------------------------------------------------------
\* Reduction modulo M, which is even, keeps an even number even.
LEMMA EvenMod ==
  ASSUME NEW t \in Int, t % 2 = 0
  PROVE  (t % M) % 2 = 0
<1>1. PICK half \in Int : M = 2 * half /\ half >= 1
  <2>1. M = 2 * (M \div 2) /\ M \div 2 \in Int /\ M \div 2 >= 1
    BY MType
  <2> QED
    BY <2>1
<1>2. t = M * (t \div M) + (t % M) /\ t \div M \in Int /\ t % M \in Int
  BY MType
<1>3. M * (t \div M) = 2 * (half * (t \div M)) /\ half * (t \div M) \in Int
  BY <1>1, <1>2
<1> QED
  BY <1>2, <1>3

\* A jump or branch keeps the type, leaves memory alone, and lands on an even
\* address if it starts from one.
LEMMA TransferStep ==
  ASSUME NEW i \in Instruction, NEW s, IsCPUState(s),
         i.op \in {"JAL", "JALR"} \cup Branches
  PROVE  /\ IsCPUState(Transfer(i, s))
         /\ Transfer(i, s).Memory = s.Memory
         /\ s.PC % 2 = 0 => Transfer(i, s).PC % 2 = 0
<1>1. /\ i.rd \in Reg /\ i.imm \in Int /\ s.PC \in Int
      /\ s.Registers[i.rs1] \in Int
  BY OperandFacts
<1>2. \A t \in Int : t % 2 = 0 => (t % M) % 2 = 0
  BY EvenMod
<1>3. ASSUME NEW t \in Int
      PROVE  /\ IsCPUState(Jump(s, t))
             /\ Jump(s, t).Memory = s.Memory
             /\ Jump(s, t).PC = t % M
             /\ IsCPUState(Jump(Put(s, i.rd, s.PC + 4), t))
             /\ Jump(Put(s, i.rd, s.PC + 4), t).Memory = s.Memory
             /\ Jump(Put(s, i.rd, s.PC + 4), t).PC = t % M
  <2>1. s.PC + 4 \in Int
    BY <1>1
  <2>2. IsCPUState(Put(s, i.rd, s.PC + 4)) /\ Put(s, i.rd, s.PC + 4).Memory = s.Memory
    BY <1>1, <2>1, PutFacts
  <2> QED
    BY <2>2, JumpFacts
<1>4. CASE i.op = "JAL"
  <2> DEFINE t == s.PC + i.imm
  <2>1. t \in Int /\ (s.PC % 2 = 0 => t % 2 = 0)
    BY <1>1, <1>4 DEF WellFormed, Instruction
  <2>2. Transfer(i, s) = Jump(Put(s, i.rd, s.PC + 4), t)
    BY <1>4 DEF Transfer, JAL
  <2> HIDE DEF t
  <2> QED
    BY <1>2, <1>3, <2>1, <2>2
<1>5. CASE i.op = "JALR"
  <2> DEFINE r == s.Registers[i.rs1] + i.imm
             t == r - (r % 2)
  <2>1. r \in Int
    BY <1>1
  <2>2. t \in Int /\ t % 2 = 0
    <3> HIDE DEF r
    <3> QED
      BY <2>1
  <2>3. Transfer(i, s) = Jump(Put(s, i.rd, s.PC + 4), t)
    BY <1>5 DEF Transfer, JALR
  <2> HIDE DEF t
  <2> QED
    BY <1>2, <1>3, <2>2, <2>3
<1>6. CASE i.op \in Branches
  <2>1. ASSUME NEW Cond
        PROVE  /\ IsCPUState(Branch(i, s, Cond))
               /\ Branch(i, s, Cond).Memory = s.Memory
               /\ s.PC % 2 = 0 => Branch(i, s, Cond).PC % 2 = 0
    <3> DEFINE t == s.PC + (IF Cond THEN i.imm ELSE 4)
    <3>1. t \in Int /\ (s.PC % 2 = 0 => t % 2 = 0)
      BY <1>1, <1>6 DEF WellFormed, Instruction
    <3>2. Branch(i, s, Cond) = Jump(s, t)
      BY DEF Branch
    <3> HIDE DEF t
    <3> QED
      BY <1>2, <1>3, <3>1, <3>2
  <2>2. CASE i.op = "BEQ"
    BY <2>1, <2>2 DEF Transfer, BEQ
  <2>3. CASE i.op = "BNE"
    BY <2>1, <2>3 DEF Transfer, BNE
  <2>4. CASE i.op = "BLT"
    BY <2>1, <2>4 DEF Transfer, BLT
  <2>5. CASE i.op = "BGE"
    BY <2>1, <2>5 DEF Transfer, BGE
  <2>6. CASE i.op = "BLTU"
    BY <2>1, <2>6 DEF Transfer, BLTU
  <2>7. CASE i.op = "BGEU"
    BY <2>1, <2>7 DEF Transfer, BGEU
  <2> QED
    BY <1>6, <2>2, <2>3, <2>4, <2>5, <2>6, <2>7 DEF Branches
<1> QED
  BY <1>4, <1>5, <1>6
-----------------------------------------------------------------------------
\* An instruction that is no jump or branch, and for which code is generated,
\* keeps the type of the CPU state and moves the PC on by four.
LEMMA StraightStep ==
  ASSUME NEW i \in Instruction, NEW s, IsCPUState(s), NEW u \in Val,
         ~Faults(i, s),
         i.op \notin {"JAL", "JALR"} \cup Branches \cup NotAdvancing
  PROVE  /\ IsCPUState(generate(i, s, u))
         /\ generate(i, s, u).PC = (s.PC + 4) % M
         /\ i.op \notin Stores => generate(i, s, u).Memory = s.Memory
<1>1. i.rd \in Reg /\ i.imm \in Int /\ s.PC \in Int /\ i.op \in Instr
  BY OperandFacts
<1>2. ASSUME \E v \in Int : generate(i, s, u) = updatePC(Put(s, i.rd, v))
      PROVE  /\ IsCPUState(generate(i, s, u))
             /\ generate(i, s, u).PC = (s.PC + 4) % M
             /\ generate(i, s, u).Memory = s.Memory
  BY <1>1, <1>2, ResultFacts
<1>3. CASE i.op \in {"LUI", "AUIPC"}
  <2>1. \E v \in Int : Upper(i, s) = updatePC(Put(s, i.rd, v))
    <3>1. i.imm + s.PC \in Int
      BY <1>1
    <3> QED
      BY <1>1, <1>3, <3>1 DEF Upper, LUI, AUIPC
  <2>2. generate(i, s, u) = Upper(i, s)
    BY <1>3 DEF generate, Loads, Stores, ImmShifts, ImmArith, RegShifts,
                RegArith, NoEffect, NotAdvancing, Branches
  <2> QED
    BY <1>2, <2>1, <2>2
<1>4. CASE i.op \in Loads \cup Stores
  <2>1. generate(i, s, u) = Access(i, s, u)
    BY <1>4 DEF generate, Loads, Stores, ImmShifts, ImmArith, RegShifts,
                RegArith, NoEffect, NotAdvancing, Branches
  <2>2. CASE i.op \in Loads
    BY <1>2, <2>1, <2>2, LoadStep
  <2>3. CASE i.op \in Stores
    BY <2>1, <2>3, StoreStep
  <2> QED
    BY <1>4, <2>2, <2>3
<1>5. CASE i.op \in ImmShifts \cup ImmArith
  <2>1. generate(i, s, u) = Immediate(i, s)
    BY <1>5 DEF generate, Loads, Stores, ImmShifts, ImmArith, RegShifts,
                RegArith, NoEffect, NotAdvancing, Branches
  <2> QED
    BY <1>2, <1>5, <2>1, ImmediateStep
<1>6. CASE i.op \in RegShifts \cup RegArith
  <2>1. generate(i, s, u) = Register(i, s, u)
    BY <1>6 DEF generate, Loads, Stores, ImmShifts, ImmArith, RegShifts,
                RegArith, NoEffect, NotAdvancing, Branches
  <2> QED
    BY <1>2, <1>6, <2>1, RegisterStep
<1>7. CASE i.op \in NoEffect
  <2>1. generate(i, s, u) = updatePC(s)
    BY <1>7 DEF generate, Loads, Stores, ImmShifts, ImmArith, RegShifts,
                RegArith, NoEffect, NotAdvancing, Branches
  <2>2. s.PC + 4 \in Int
    BY <1>1
  <2> QED
    BY <2>1, <2>2, JumpFacts DEF updatePC
<1> QED
  BY <1>1, <1>3, <1>4, <1>5, <1>6, <1>7 DEF Instr

\* Nothing is generated for UNKNOWN and ECALL, so that nothing changes, not
\* even the PC.
LEMMA NotAdvancingStep ==
  ASSUME NEW i, NEW s, NEW u, i.op \in NotAdvancing
  PROVE  generate(i, s, u) = s
BY DEF generate, Loads, Stores, ImmShifts, ImmArith, RegShifts,
       RegArith, NoEffect, NotAdvancing, Branches

LEMMA JumpStep ==
  ASSUME NEW i, NEW s, NEW u, i.op \in {"JAL", "JALR"} \cup Branches
  PROVE  generate(i, s, u) = Transfer(i, s)
BY DEF generate, Loads, Stores, ImmShifts, ImmArith, RegShifts,
       RegArith, NoEffect, NotAdvancing, Branches

\* The code generated for an instruction turns a CPUState into a CPUState,
\* with 32-bit registers and PC and segments of the same extent, whatever an
\* undefined result turns out to be, as long as it does not fault; and it
\* leaves the PC even if it was.  Only a store changes memory.
THEOREM GenerateType ==
  ASSUME NEW i \in Instruction, NEW s, IsCPUState(s), NEW u \in Val,
         ~Faults(i, s)
  PROVE  /\ IsCPUState(generate(i, s, u))
         /\ i.op \notin Stores => generate(i, s, u).Memory = s.Memory
         /\ s.PC % 2 = 0 => generate(i, s, u).PC % 2 = 0
<1>1. CASE i.op \in NotAdvancing
  BY <1>1, NotAdvancingStep
<1>2. CASE i.op \in {"JAL", "JALR"} \cup Branches
  BY <1>2, JumpStep, TransferStep
<1>3. CASE i.op \notin {"JAL", "JALR"} \cup Branches \cup NotAdvancing
  <2>1. /\ IsCPUState(generate(i, s, u))
        /\ generate(i, s, u).PC = (s.PC + 4) % M
        /\ i.op \notin Stores => generate(i, s, u).Memory = s.Memory
    BY <1>3, StraightStep
  <2>2. s.PC \in Int
    BY OperandFacts
  <2>3. s.PC % 2 = 0 => (s.PC + 4) % 2 = 0
    BY <2>2
  <2>4. s.PC % 2 = 0 => ((s.PC + 4) % M) % 2 = 0
    BY <2>2, <2>3, EvenMod
  <2> QED
    BY <2>1, <2>4
<1> QED
  BY <1>1, <1>2, <1>3

-----------------------------------------------------------------------------
(***************************************************************************)
(* Powers of two.                                                          *)
(***************************************************************************)
Pow == [k \in 0 .. XLEN |-> 2 ^ k]

LEMMA WidthType == XLEN \in Nat /\ XLEN > 0 /\ ByteBits \in Nat /\ ByteBits > 0 /\ XLEN = 4 * ByteBits
BY WidthAssumption, ByteBitsAssumption DEF ByteBits

LEMMA PowBase ==
  /\ Pow[0] = 1
  /\ Pow[XLEN] = M
  /\ Pow[ByteBits] = Byte
  /\ \A k \in 0 .. XLEN - 1 : Pow[k + 1] = 2 * Pow[k]
<1>1. 0 \in 0 .. XLEN /\ XLEN \in 0 .. XLEN /\ ByteBits \in 0 .. XLEN
  BY WidthType
<1>2. \A k \in 0 .. XLEN - 1 : k \in 0 .. XLEN /\ k + 1 \in 0 .. XLEN
  BY WidthType
<1> QED
  BY <1>1, <1>2, PowerAssumption, WidthAssumption, ByteBitsAssumption DEF Pow

LEMMA PowType ==
  ASSUME NEW k \in 0 .. XLEN
  PROVE  Pow[k] \in Nat /\ Pow[k] >= 1
<1>1. CASE k = XLEN
  BY <1>1, PowBase, MType
<1>2. CASE k # XLEN
  <2>1. k \in 0 .. XLEN - 1
    BY <1>2, WidthType
  <2>2. 2 ^ k \in 1 .. M
    BY <2>1, WidthAssumption
  <2> QED
    BY <2>2, MType DEF Pow
<1> QED
  BY <1>1, <1>2

\* 2^(a+b) = 2^a * 2^b, by the least b for which it is wrong.
LEMMA PowSum ==
  ASSUME NEW a \in Nat, NEW b \in Nat, a + b <= XLEN
  PROVE  Pow[a + b] = Pow[a] * Pow[b]
<1> DEFINE Wrong == {c \in Nat : a + c <= XLEN /\ Pow[a + c] # Pow[a] * Pow[c]}
<1> SUFFICES ASSUME Wrong # {} PROVE FALSE
  OBVIOUS
<1>1. PICK c \in Wrong : \A d \in Wrong : c <= d
  BY FirstExists
<1>2. c \in Nat /\ a + c <= XLEN /\ Pow[a + c] # Pow[a] * Pow[c]
  OBVIOUS
<1>3. Pow[a] \in Nat
  BY PowType, <1>2, WidthType
<1>4. CASE c = 0
  BY <1>2, <1>3, <1>4, PowBase
<1>5. CASE c # 0
  <2>1. c - 1 \in Nat /\ a + (c - 1) <= XLEN /\ c - 1 < c
    BY <1>2, <1>5, WidthType
  <2>2. c - 1 \notin Wrong
    BY <1>1, <1>2, <2>1
  <2>3. Pow[a + (c - 1)] = Pow[a] * Pow[c - 1]
    BY <2>1, <2>2
  <2>4. a + (c - 1) \in 0 .. XLEN - 1 /\ c - 1 \in 0 .. XLEN - 1
    BY <1>2, <2>1, WidthType
  <2>5. Pow[(a + (c - 1)) + 1] = 2 * Pow[a + (c - 1)] /\ Pow[(c - 1) + 1] = 2 * Pow[c - 1]
    BY <2>4, PowBase
  <2>6. (a + (c - 1)) + 1 = a + c /\ (c - 1) + 1 = c
    BY <1>2
  <2>7. Pow[c - 1] \in Nat
    BY <2>4, PowType, WidthType
  <2>8. 2 * (Pow[a] * Pow[c - 1]) = Pow[a] * (2 * Pow[c - 1])
    BY <1>3, <2>7
  <2> QED
    BY <1>2, <2>3, <2>5, <2>6, <2>8
<1> QED
  BY <1>4, <1>5

\* n < 2^n.
LEMMA PowExceeds ==
  ASSUME NEW n \in 0 .. XLEN
  PROVE  n < Pow[n]
<1> DEFINE Wrong == {c \in 0 .. XLEN : ~(c < Pow[c])}
<1> SUFFICES ASSUME Wrong # {} PROVE FALSE
  OBVIOUS
<1>1. PICK c \in Wrong : \A d \in Wrong : c <= d
  <2>1. Wrong \in SUBSET Nat
    BY WidthType
  <2> HIDE DEF Wrong
  <2> QED
    BY <2>1, FirstExists
<1>2. c \in 0 .. XLEN /\ ~(c < Pow[c])
  OBVIOUS
<1>3. c # 0
  BY <1>2, PowBase
<1>4. c - 1 \in 0 .. XLEN - 1 /\ c - 1 \in 0 .. XLEN /\ c - 1 < c /\ (c - 1) + 1 = c
  BY <1>2, <1>3, WidthType
<1>5. c - 1 \notin Wrong
  BY <1>1, <1>2, <1>4
<1>6. c - 1 < Pow[c - 1] /\ Pow[c - 1] \in Nat
  BY <1>4, <1>5, PowType
<1>7. Pow[c] = 2 * Pow[c - 1]
  BY <1>4, PowBase
<1> QED
  BY <1>2, <1>4, <1>6, <1>7

-----------------------------------------------------------------------------
(***************************************************************************)
(* Quotients.                                                              *)
(***************************************************************************)
LEMMA DivMod ==
  ASSUME NEW v \in Int, NEW d \in Nat, d >= 1
  PROVE  /\ v = d * (v \div d) + (v % d)
         /\ v \div d \in Int /\ v % d \in 0 .. d - 1
OBVIOUS

LEMMA DivDiv ==
  ASSUME NEW v \in Int, NEW a \in Nat, a >= 1, NEW b \in Nat, b >= 1
  PROVE  (v \div a) \div b = v \div (a * b)
<1> DEFINE q == v \div a
           r == v % a
           p == q \div b
           s == q % b
<1>1. v = a * q + r /\ q \in Int /\ r \in 0 .. a - 1
  BY DivMod
<1>2. q = b * p + s /\ p \in Int /\ s \in 0 .. b - 1
  BY <1>1, DivMod
<1> HIDE DEF q, r, p, s
<1>3. v = (a * b) * p + (a * s + r)
  <2>1. a * (b * p + s) = (a * b) * p + a * s
    BY <1>2
  <2>2. a * s \in Int /\ (a * b) * p \in Int
    BY <1>2
  <2> QED
    BY <1>1, <1>2, <2>1, <2>2
<1>4. a * b \in Nat /\ a * b >= 1
  BY SMT
<1>5. a * s + r \in 0 .. a * b - 1
  <2>1. a * s \in Nat
    BY <1>2
  <2>2. b - 1 - s \in Nat
    BY <1>2
  <2>3. a * (b - 1 - s) \in Nat
    BY <2>2
  <2>4. a * b = a * s + a + a * (b - 1 - s)
    BY <1>2
  <2> QED
    BY <1>1, <1>4, <2>1, <2>3, <2>4
<1>6. v \div (a * b) = p
  <2> DEFINE d == a * b
             t == a * s + r
  <2>1. d \in Nat /\ d >= 1 /\ t \in 0 .. d - 1 /\ v = d * p + t
    BY <1>3, <1>4, <1>5
  <2> HIDE DEF d, t
  <2>2. v \div d = p
    BY <1>2, <2>1, DivUnique
  <2> QED
    BY <2>2 DEF d
<1> QED
  BY <1>6 DEF p, q

LEMMA DivAdd ==
  ASSUME NEW v \in Int, NEW q \in Int, NEW d \in Nat, d >= 1
  PROVE  (d * q + v) \div d = q + (v \div d)
<1> DEFINE p == v \div d
           r == v % d
<1>1. v = d * p + r /\ p \in Int /\ r \in 0 .. d - 1
  BY DivMod
<1> HIDE DEF p, r
<1>2. d * q + v = d * (q + p) + r
  <2>1. d * (q + p) = d * q + d * p /\ d * q \in Int /\ d * p \in Int
    BY <1>1
  <2> QED
    BY <1>1, <2>1
<1>3. q + p \in Int
  BY <1>1
<1>4. (d * q + v) \div d = q + p
  BY <1>1, <1>2, <1>3, DivUnique
<1> QED
  BY <1>4 DEF p

LEMMA ModAdd ==
  ASSUME NEW v \in Int, NEW q \in Int, NEW d \in Nat, d >= 1
  PROVE  (d * q + v) % d = v % d
<1> DEFINE p == v \div d
           r == v % d
<1>1. v = d * p + r /\ p \in Int /\ r \in 0 .. d - 1
  BY DivMod
<1> HIDE DEF p, r
<1>2. d * q + v = d * (q + p) + r
  <2>1. d * (q + p) = d * q + d * p /\ d * q \in Int /\ d * p \in Int
    BY <1>1
  <2> QED
    BY <1>1, <2>1
<1>3. q + p \in Int
  BY <1>1
<1>4. (d * q + v) % d = r
  BY <1>1, <1>2, <1>3, DivUnique
<1> QED
  BY <1>4 DEF r

LEMMA SmallDiv ==
  ASSUME NEW d \in Nat, d >= 1, NEW v \in 0 .. d - 1
  PROVE  v \div d = 0
OBVIOUS

-----------------------------------------------------------------------------
(***************************************************************************)
(* Bits.                                                                   *)
(***************************************************************************)
LEMMA BitIs ==
  ASSUME NEW v, NEW k \in Position
  PROVE  BitOf(v)[k] = (v \div Pow[k]) % 2 /\ k \in 0 .. XLEN /\ k \in Nat /\ k < XLEN
BY WidthType DEF BitOf, Position, Pow

LEMMA BitType ==
  ASSUME NEW v \in Int, NEW k \in Position
  PROVE  BitOf(v)[k] \in {0, 1}
<1>1. Pow[k] \in Nat /\ Pow[k] >= 1
  BY BitIs, PowType
<1>2. v \div Pow[k] \in Int
  BY <1>1
<1> QED
  BY <1>2, BitIs

LEMMA Quotients ==
  ASSUME NEW v \in Int, NEW n \in Nat, NEW k \in Nat, n + k <= XLEN
  PROVE  (v \div Pow[n]) \div Pow[k] = v \div Pow[n + k]
<1>1. n \in 0 .. XLEN /\ k \in 0 .. XLEN
  BY WidthType
<1>2. Pow[n] \in Nat /\ Pow[n] >= 1 /\ Pow[k] \in Nat /\ Pow[k] >= 1
  BY <1>1, PowType
<1>3. Pow[n + k] = Pow[n] * Pow[k]
  BY PowSum
<1> QED
  BY <1>2, <1>3, DivDiv

\* A uint32_t is determined by its bits: so are its quotients by the powers of
\* two, from the largest down.
LEMMA BitsDetermine ==
  ASSUME NEW v \in Val, NEW w \in Val, BitOf(v) = BitOf(w)
  PROVE  v = w
<1> DEFINE Q(x, j) == x \div Pow[XLEN - j]
           Wrong == {j \in 0 .. XLEN : Q(v, j) # Q(w, j)}
<1>0. v \in Int /\ w \in Int /\ v \in 0 .. M - 1 /\ w \in 0 .. M - 1
  BY MType DEF Val
<1>1. Wrong = {}
  <2> SUFFICES ASSUME Wrong # {} PROVE FALSE
    OBVIOUS
  <2>1. PICK j \in Wrong : \A d \in Wrong : j <= d
    <3>1. Wrong \in SUBSET Nat
      BY WidthType
    <3> HIDE DEF Wrong
    <3> QED
      BY <3>1, FirstExists
  <2>2. j \in 0 .. XLEN /\ Q(v, j) # Q(w, j)
    OBVIOUS
  <2>3. CASE j = 0
    <3>1. v \div M = 0 /\ w \div M = 0
      BY <1>0, MType, SmallDiv
    <3>2. XLEN - 0 = XLEN
      BY WidthType
    <3> QED
      BY <2>2, <2>3, <3>1, <3>2, PowBase
  <2>4. CASE j # 0
    <3> DEFINE k == XLEN - j
    <3>1. k \in Position /\ k \in Nat /\ k + 1 <= XLEN /\ j - 1 \in 0 .. XLEN /\ j - 1 < j /\ k + 1 = XLEN - (j - 1)
      BY <2>2, <2>4, WidthType DEF Position
    <3>2. j - 1 \notin Wrong
      BY <2>1, <2>2, <3>1
    <3>3. Q(v, j - 1) = Q(w, j - 1)
      BY <3>1, <3>2
    <3> HIDE DEF k
    <3>4. v \div Pow[k + 1] = w \div Pow[k + 1]
      BY <3>1, <3>3
    <3>5. Pow[1] = 2 /\ 1 \in Nat
      <4>1. 0 \in 0 .. XLEN - 1
        BY WidthType
      <4> QED
        BY <4>1, PowBase
    <3>6. ASSUME NEW x \in Int
          PROVE  x \div Pow[k] = 2 * (x \div Pow[k + 1]) + BitOf(x)[k]
      <4>1. (x \div Pow[k]) \div 2 = x \div Pow[k + 1]
        BY <3>1, <3>5, Quotients
      <4>2. Pow[k] \in Nat /\ Pow[k] >= 1
        BY <3>1, BitIs, PowType
      <4>3. x \div Pow[k] \in Int
        BY <4>2
      <4>4. x \div Pow[k] = 2 * ((x \div Pow[k]) \div 2) + ((x \div Pow[k]) % 2)
        BY <4>3
      <4> QED
        BY <3>1, <4>1, <4>4, BitIs
    <3>7. v \div Pow[k] = w \div Pow[k]
      BY <1>0, <3>4, <3>6
    <3> QED
      BY <2>2, <3>7 DEF k
  <2> QED
    BY <2>3, <2>4
<1>2. Q(v, XLEN) = Q(w, XLEN)
  <2>1. XLEN \in 0 .. XLEN
    BY WidthType
  <2> QED
    BY <1>1, <2>1
<1>3. XLEN - XLEN = 0
  BY WidthType
<1>4. v \div 1 = w \div 1
  BY <1>2, <1>3, PowBase
<1> QED
  BY <1>0, <1>4

\* The word with given bits is the only one with them.
LEMMA WordIs ==
  ASSUME NEW v \in Val, NEW bit, BitOf(v) = bit
  PROVE  Word(bit) = v
<1>1. Word(bit) \in Val /\ BitOf(Word(bit)) = bit
  BY DEF Word
<1> QED
  BY <1>1, BitsDetermine

\* The bits of v below n are those of v modulo 2^n.
LEMMA LowBits ==
  ASSUME NEW v \in Int, NEW n \in 0 .. XLEN, NEW k \in Nat, k < n
  PROVE  ((v % Pow[n]) \div Pow[k]) % 2 = (v \div Pow[k]) % 2
<1> DEFINE q == v \div Pow[n]
           r == v % Pow[n]
           h == Pow[n - k - 1]
<1>1. k \in 0 .. XLEN /\ k \in 0 .. XLEN - 1 /\ n - k - 1 \in Nat /\ n - k - 1 \in 0 .. XLEN
      /\ k + 1 \in Nat /\ (k + 1) + (n - k - 1) = n /\ n <= XLEN
  BY WidthType
<1>2. Pow[n] \in Nat /\ Pow[n] >= 1 /\ Pow[k] \in Nat /\ Pow[k] >= 1 /\ h \in Nat
  BY <1>1, PowType
<1>3. Pow[n] = Pow[k + 1] * h
  BY <1>1, PowSum
<1>4. Pow[k + 1] = 2 * Pow[k]
  BY <1>1, PowBase
<1>5. v = Pow[n] * q + r /\ q \in Int /\ r \in Int
  <2> DEFINE d == Pow[n]
  <2>1. d \in Nat /\ d >= 1
    BY <1>2
  <2> HIDE DEF d
  <2>2. v = d * (v \div d) + (v % d) /\ v \div d \in Int /\ v % d \in Int
    BY <2>1
  <2> QED
    BY <2>2 DEF d
<1> HIDE DEF q, r, h
<1>6. Pow[n] * q = Pow[k] * (2 * (h * q)) /\ h * q \in Int
  BY <1>2, <1>3, <1>4, <1>5
<1>7. v \div Pow[k] = 2 * (h * q) + (r \div Pow[k])
  <2> DEFINE e == 2 * (h * q)
             d == Pow[k]
  <2>1. e \in Int /\ d \in Nat /\ d >= 1 /\ v = d * e + r
    BY <1>2, <1>5, <1>6
  <2> HIDE DEF e, d
  <2>2. (d * e + r) \div d = e + (r \div d)
    BY <1>5, <2>1, DivAdd
  <2> QED
    BY <2>1, <2>2 DEF e, d
<1>8. r \div Pow[k] \in Int
  BY <1>2, <1>5
<1>9. (2 * (h * q) + (r \div Pow[k])) % 2 = (r \div Pow[k]) % 2
  BY <1>6, <1>8
<1> QED
  BY <1>7, <1>9 DEF r

\* Far bits of a number that is at most a sign extension of size bits.
LEMMA HighBits ==
  ASSUME NEW v \in Int, NEW size \in 0 .. XLEN, NEW k \in size .. XLEN,
         v \div Pow[size] \in {0, -1}
  PROVE  (v \div Pow[k]) % 2 = IF v \div Pow[size] = 0 THEN 0 ELSE 1
<1>1. size \in Nat /\ k - size \in Nat /\ k - size \in 0 .. XLEN /\ size + (k - size) = k /\ k <= XLEN
  BY WidthType
<1>2. (v \div Pow[size]) \div Pow[k - size] = v \div Pow[k]
  BY <1>1, Quotients
<1>3. Pow[k - size] \in Nat /\ Pow[k - size] >= 1
  BY <1>1, PowType
<1>4. \A d \in Nat : d >= 1 => 0 \div d = 0 /\ (-1) \div d = -1
  OBVIOUS
<1>5. 0 \div Pow[k - size] = 0 /\ (-1) \div Pow[k - size] = -1
  BY <1>3, <1>4
<1>6. \A x \in Int : (x = 0 => x % 2 = 0) /\ (x = -1 => x % 2 = 1)
  OBVIOUS
<1> QED
  BY <1>2, <1>5, <1>6

\* Sign extension from size bits.
LEMMA Extension ==
  ASSUME NEW size \in 1 .. XLEN, NEW v \in 0 .. Pow[size] - 1
  PROVE  /\ SExt(v, Pow[size]) \in Int
         /\ SExt(v, Pow[size]) % Pow[size] = v
         /\ SExt(v, Pow[size]) \div Pow[size] \in {0, -1}
         /\ BitOf(v)[size - 1] = IF SExt(v, Pow[size]) \div Pow[size] = 0 THEN 0 ELSE 1
<1> DEFINE n == Pow[size]
           half == Pow[size - 1]
<1>1. size - 1 \in 0 .. XLEN - 1 /\ (size - 1) + 1 = size /\ size \in 0 .. XLEN /\ size - 1 \in 0 .. XLEN
      /\ size - 1 \in Position
  BY WidthType DEF Position
<1>2. n = 2 * half /\ half \in Nat /\ half >= 1
  BY <1>1, PowBase, PowType
<1>3. BitOf(v)[size - 1] = (v \div half) % 2
  BY <1>1, BitIs
<1> HIDE DEF n, half
<1>4. v \in Nat /\ v <= n - 1 /\ n \in Nat /\ n >= 1
  BY <1>2 DEF n
<1>5. n \div 2 = half
  BY <1>2
<1>6. CASE v < half
  <2>1. SExt(v, n) = v
    BY <1>5, <1>6 DEF SExt
  <2>2. v \div n = 0 /\ v % n = v /\ v \div half = 0
    BY <1>2, <1>4, <1>6
  <2> QED
    BY <1>3, <1>4, <2>1, <2>2 DEF n
<1>7. CASE ~(v < half)
  <2>1. SExt(v, n) = v - n
    BY <1>5, <1>7 DEF SExt
  <2>2. v - n = n * (-1) + v /\ v \in 0 .. n - 1 /\ -1 \in Int
    BY <1>4
  <2>3. (n * (-1) + v) \div n = -1 /\ (n * (-1) + v) % n = v
    BY <1>4, <2>2, DivUnique
  <2>4. v = half * 1 + (v - half) /\ v - half \in 0 .. half - 1 /\ 1 \in Int
    BY <1>2, <1>4, <1>7
  <2>5. (half * 1 + (v - half)) \div half = 1
    BY <1>2, <2>4, DivUnique
  <2>6. 1 % 2 = 1 /\ v - n \in Int
    BY <1>4
  <2>7. (v - n) \div n = -1 /\ (v - n) % n = v /\ v \div half = 1
    BY <2>2, <2>3, <2>4, <2>5
  <2> QED
    BY <1>3, <2>1, <2>6, <2>7 DEF n
<1> QED
  BY <1>6, <1>7

\* Signed is sign extension from the whole width, and the order it gives is
\* that of the instruction set.
LEMMA SignedIs ==
  ASSUME NEW a \in Val
  PROVE  /\ Signed(a) = SExt(a, Pow[XLEN])
         /\ a \in 0 .. Pow[XLEN] - 1
         /\ Flip(a) = Signed(a) + M \div 2
         /\ Signed(a) \in Int
<1>1. a \in Int /\ 0 <= a /\ a < M /\ a \in 0 .. M - 1
  BY MType DEF Val
<1>2. Signed(a) = SExt(a, Pow[XLEN]) /\ a \in 0 .. Pow[XLEN] - 1
  BY <1>1, PowBase DEF Signed, SExt
<1> DEFINE H == M \div 2
<1>3. M = 2 * H /\ H \in Nat /\ H >= 1
  BY MType
<1> HIDE DEF H
<1>4. CASE a < H
  <2>1. (a + H) % M = a + H
    BY <1>1, <1>3, <1>4
  <2> QED
    BY <1>1, <1>2, <1>3, <1>4, <2>1 DEF Flip, Signed, H
<1>5. CASE ~(a < H)
  <2>1. a + H = M * 1 + (a + H - M) /\ a + H - M \in 0 .. M - 1 /\ 1 \in Int
    BY <1>1, <1>3, <1>5
  <2> DEFINE r == a + H - M
  <2> HIDE DEF r
  <2>2. r \in 0 .. M - 1 /\ M \in Nat /\ M >= 1 /\ 1 \in Int
    BY <2>1, MType DEF r
  <2>3. (M * 1 + r) % M = r
    BY ONLY <2>2, DivUnique
  <2>4. (a + H) % M = (a - M) + H
    BY <1>1, <1>3, <2>1, <2>3 DEF r
  <2> QED
    BY <1>1, <1>2, <1>3, <1>5, <2>4, MType DEF Flip, Signed, H
<1> QED
  BY <1>4, <1>5

LEMMA SignedLess ==
  ASSUME NEW a \in Val, NEW b \in Val
  PROVE  Signed(a) < Signed(b) <=> Less(a, b)
<1>1. /\ Flip(a) = Signed(a) + M \div 2 /\ Signed(a) \in Int
      /\ Flip(b) = Signed(b) + M \div 2 /\ Signed(b) \in Int
  BY SignedIs
<1>2. M \div 2 \in Int
  BY MType
<1> QED
  BY <1>1, <1>2 DEF Less

-----------------------------------------------------------------------------
(***************************************************************************)
(* Bytes and their bits.                                                   *)
(***************************************************************************)
LEMMA Split ==
  ASSUME NEW k \in Position
  PROVE  /\ k \div ByteBits \in 0 .. 3
         /\ k % ByteBits \in 0 .. ByteBits - 1
         /\ k = ByteBits * (k \div ByteBits) + (k % ByteBits)
         /\ k \in Nat
<1> DEFINE w == ByteBits
<1>1. w \in Nat /\ w > 0 /\ XLEN = 4 * w
  BY WidthType
<1>2. k \in Nat /\ k < 4 * w
  BY <1>1 DEF Position
<1> HIDE DEF w
<1> DEFINE q == k \div w
           r == k % w
<1>3. k = w * q + r /\ q \in Int /\ r \in 0 .. w - 1
  BY <1>1, <1>2, DivMod
<1> HIDE DEF q, r
<1>4. q <= 3
  <2>1. q >= 4 => w * q >= w * 4
    BY <1>1, <1>3
  <2> QED
    BY <1>1, <1>2, <1>3, <2>1
<1>5. q >= 0
  <2>1. q <= -1 => w * q <= w * (-1)
    BY <1>1, <1>3
  <2> QED
    BY <1>1, <1>2, <1>3, <2>1
<1> QED
  BY <1>2, <1>3, <1>4, <1>5 DEF q, r, w

LEMMA Place ==
  ASSUME NEW j \in 0 .. 3, NEW r \in 0 .. ByteBits - 1
  PROVE  /\ ByteBits * j + r \in Position
         /\ ByteBits * j \in Nat
         /\ r \in Nat /\ r < ByteBits /\ r \in Position
         /\ (ByteBits * j + r) \div ByteBits = j
         /\ (ByteBits * j + r) % ByteBits = r
<1> DEFINE w == ByteBits
<1>1. w \in Nat /\ w > 0 /\ w >= 1 /\ XLEN = 4 * w
  BY WidthType
<1> HIDE DEF w
<1>2. r \in 0 .. w - 1 /\ j \in Int
  BY DEF w
<1>3. (w * j + r) \div w = j /\ (w * j + r) % w = r
  BY <1>1, <1>2, DivUnique
<1>4. w * j \in Nat /\ w * j <= 3 * w
  BY <1>1
<1>5. w * j + r \in 0 .. 4 * w - 1
  BY <1>1, <1>2, <1>4
<1> QED
  BY <1>1, <1>2, <1>3, <1>4, <1>5 DEF Position, w

LEMMA WeightIs ==
  ASSUME NEW j \in 0 .. 3
  PROVE  Weight[j + 1] = Pow[ByteBits * j]
<1> DEFINE w == ByteBits
<1>1. w \in Nat /\ w > 0 /\ XLEN = 4 * w /\ Pow[w] = Byte /\ Pow[0] = 1 /\ Byte \in Nat
  BY WidthType, PowBase, ByteAssumption
<1> HIDE DEF w
<1>2. w + w <= XLEN /\ w + 2 * w <= XLEN /\ 2 * w \in Nat /\ w + w = 2 * w /\ w + 2 * w = 3 * w
  BY <1>1
<1>3. Pow[2 * w] = Byte * Byte
  BY <1>1, <1>2, PowSum
<1>4. Pow[3 * w] = Byte * (Byte * Byte)
  BY <1>1, <1>2, <1>3, PowSum
<1>5. Byte * (Byte * Byte) = Byte * Byte * Byte
  BY <1>1
<1>6. w * 0 = 0 /\ w * 1 = w /\ w * 2 = 2 * w /\ w * 3 = 3 * w
  BY <1>1
<1> QED
  BY <1>1, <1>3, <1>4, <1>5, <1>6 DEF Weight, w

\* The bits of a word are those of its bytes.
LEMMA ByteBit ==
  ASSUME NEW v \in Int, NEW j \in 0 .. 3, NEW r \in 0 .. ByteBits - 1
  PROVE  BitOf(v)[ByteBits * j + r] = BitOf(ByteOf(v, j))[r]
<1> DEFINE n == ByteBits * j
           w == v \div Pow[n]
<1>1. n + r \in Position /\ n \in Nat /\ r \in Nat /\ r < ByteBits /\ r \in Position
  BY Place
<1>2. n + r <= XLEN /\ n \in 0 .. XLEN /\ ByteBits \in 0 .. XLEN
  BY <1>1, WidthType DEF Position
<1>3. Pow[n] \in Nat /\ Pow[n] >= 1
  BY <1>2, PowType
<1>4. w \in Int
  BY <1>3
<1>5. ByteOf(v, j) = w % Pow[ByteBits]
  BY WeightIs, PowBase DEF ByteOf
<1>6. BitOf(v)[n + r] = (v \div Pow[n + r]) % 2
  BY <1>1, BitIs
<1>7. v \div Pow[n + r] = w \div Pow[r]
  BY <1>1, <1>2, Quotients
<1>8. BitOf(ByteOf(v, j))[r] = (ByteOf(v, j) \div Pow[r]) % 2
  BY <1>1, BitIs
<1> HIDE DEF w, n
<1>9. ((w % Pow[ByteBits]) \div Pow[r]) % 2 = (w \div Pow[r]) % 2
  BY <1>1, <1>2, <1>4, LowBits
<1>10. BitOf(v)[n + r] = BitOf(ByteOf(v, j))[r]
  BY <1>5, <1>6, <1>7, <1>8, <1>9
<1> QED
  BY <1>10 DEF n

\* A byte is a word whose bits from ByteBits on are 0.
LEMMA ByteIsWord ==
  ASSUME NEW b \in ByteVal
  PROVE  /\ b \in Val /\ b \in Int
         /\ \A k \in Position : k >= ByteBits => BitOf(b)[k] = 0
<1>1. 0 \in ByteVal /\ Byte \in Nat
  BY ByteAssumption DEF ByteVal
<1>2. b \in Int /\ b + Byte * 0 = b
  BY <1>1 DEF ByteVal
<1>3. b \in Val
  BY <1>1, <1>2, TwoBytes
<1>4. b \div Byte = 0
  BY <1>1, ByteAssumption, SmallDiv DEF ByteVal
<1>5. ASSUME NEW k \in Position, k >= ByteBits PROVE BitOf(b)[k] = 0
  <2>1. ByteBits \in 0 .. XLEN /\ k \in ByteBits .. XLEN
    BY <1>5, WidthType DEF Position
  <2>2. b \div Pow[ByteBits] \in {0, -1} /\ b \div Pow[ByteBits] = 0
    BY <1>4, PowBase
  <2>3. (b \div Pow[k]) % 2 = 0
    BY <1>2, <2>1, <2>2, HighBits
  <2> QED
    BY <2>3, BitIs
<1> QED
  BY <1>2, <1>3, <1>5

\* A word is determined by the bits that its bytes are to have.
LEMMA WordOfBytes ==
  ASSUME NEW v \in Val, NEW bit, bit = [k \in Position |-> bit[k]],
         \A j \in 0 .. 3 : \A r \in 0 .. ByteBits - 1 :
           bit[ByteBits * j + r] = BitOf(ByteOf(v, j))[r]
  PROVE  Word(bit) = v
<1>1. v \in Int
  BY MType DEF Val
<1>2. ASSUME NEW k \in Position PROVE BitOf(v)[k] = bit[k]
  <2> DEFINE j == k \div ByteBits
             r == k % ByteBits
  <2>1. j \in 0 .. 3 /\ r \in 0 .. ByteBits - 1 /\ k = ByteBits * j + r
    BY Split
  <2> HIDE DEF j, r
  <2>2. BitOf(v)[ByteBits * j + r] = BitOf(ByteOf(v, j))[r]
    BY <1>1, <2>1, ByteBit
  <2> QED
    BY <2>1, <2>2
<1>3. BitOf(v) = [k \in Position |-> BitOf(v)[k]]
  BY DEF BitOf
<1>4. BitOf(v) = bit
  BY <1>2, <1>3
<1> QED
  BY <1>4, WordIs

-----------------------------------------------------------------------------
(***************************************************************************)
(* Results that RV32I describes bit by bit.                                *)
(***************************************************************************)
\* The word v % M has the bits bit when v has them.
LEMMA WordOfBits ==
  ASSUME NEW v \in Int, NEW bit, bit = [k \in Position |-> bit[k]],
         \A k \in Position : bit[k] = (v \div Pow[k]) % 2
  PROVE  Word(bit) = v % M
<1>1. v % M \in Val
  BY ModVal
<1>2. ASSUME NEW k \in Position PROVE BitOf(v % M)[k] = bit[k]
  <2>1. BitOf(v % M)[k] = ((v % M) \div Pow[k]) % 2 /\ k \in Nat /\ k < XLEN
    BY BitIs
  <2>2. XLEN \in 0 .. XLEN /\ Pow[XLEN] = M
    BY WidthType, PowBase
  <2>3. ((v % Pow[XLEN]) \div Pow[k]) % 2 = (v \div Pow[k]) % 2
    BY <2>1, <2>2, LowBits
  <2> QED
    BY <2>1, <2>2, <2>3
<1>3. BitOf(v % M) = [k \in Position |-> BitOf(v % M)[k]]
  BY DEF BitOf
<1>4. BitOf(v % M) = bit
  BY <1>2, <1>3
<1> QED
  BY <1>1, <1>4, WordIs

LEMMA LeftShift ==
  ASSUME NEW a \in Val, NEW n \in 0 .. XLEN - 1
  PROVE  (a * Pow[n]) % M = ShiftedLeft(a, n) /\ a * Pow[n] \in Int
<1> DEFINE v == a * Pow[n]
           bit == [k \in Position |-> IF k >= n THEN BitOf(a)[k - n] ELSE 0]
<1>1. a \in Int /\ n \in Nat /\ n \in 0 .. XLEN /\ n < XLEN
  BY WidthType, MType DEF Val
<1>2. Pow[n] \in Nat /\ Pow[n] >= 1
  BY <1>1, PowType
<1>3. v \in Int
  BY <1>1, <1>2
<1>4. v \div Pow[n] = a
  <2> DEFINE d == Pow[n]
  <2>1. d \in Nat /\ d >= 1 /\ 0 \in 0 .. d - 1
    BY <1>2
  <2> HIDE DEF d
  <2>2. (d * a + 0) \div d = a
    BY <1>1, <2>1, DivUnique
  <2>3. d * a + 0 = a * d
    BY <1>1, <2>1
  <2> QED
    BY <2>2, <2>3 DEF d
<1>5. ASSUME NEW k \in Position PROVE bit[k] = (v \div Pow[k]) % 2
  <2>1. k \in Nat /\ k < XLEN /\ k \in 0 .. XLEN /\ k \in 0 .. XLEN - 1
    BY BitIs, WidthType
  <2>2. Pow[k] \in Nat /\ Pow[k] >= 1
    BY <2>1, PowType
  <2>3. CASE k >= n
    <3>1. k - n \in Nat /\ n + (k - n) = k /\ k <= XLEN /\ k - n \in Position
      BY <1>1, <2>1, <2>3, WidthType DEF Position
    <3> HIDE DEF v
    <3>2. (v \div Pow[n]) \div Pow[k - n] = v \div Pow[k]
      BY <1>1, <1>3, <3>1, Quotients
    <3>3. BitOf(a)[k - n] = (a \div Pow[k - n]) % 2
      BY <3>1, BitIs
    <3> QED
      BY <1>4, <2>3, <3>2, <3>3
  <2>4. CASE ~(k >= n)
    <3> DEFINE h == Pow[n - k - 1]
               d == Pow[k]
               e == a * h
    <3>1. n - k - 1 \in Nat /\ n - k - 1 \in 0 .. XLEN /\ k + 1 \in Nat /\ (k + 1) + (n - k - 1) = n /\ n <= XLEN
      BY <1>1, <2>1, <2>4, WidthType
    <3>2. Pow[n] = Pow[k + 1] * h /\ Pow[k + 1] = 2 * d /\ h \in Nat
      BY <2>1, <3>1, PowSum, PowBase, PowType
    <3> HIDE DEF h, d
    <3>3. d \in Nat /\ d >= 1 /\ e \in Int
      BY <1>1, <2>2, <3>2 DEF d
    <3>4. v = d * (2 * e)
      BY <1>1, <3>2, <3>3
    <3>5. 2 * e \in Int /\ 0 \in 0 .. d - 1
      BY <3>3
    <3> HIDE DEF e, v
    <3>6. (d * (2 * e) + 0) \div d = 2 * e
      BY <3>3, <3>5, DivUnique
    <3>7. d * (2 * e) + 0 = v /\ (2 * e) % 2 = 0
      BY <3>3, <3>4, <3>5
    <3> QED
      BY <2>4, <3>6, <3>7 DEF d
  <2> QED
    BY <2>3, <2>4
<1> HIDE DEF v
<1>6. Word(bit) = v % M
  <2>1. bit = [k \in Position |-> bit[k]]
    OBVIOUS
  <2> HIDE DEF bit
  <2> QED
    BY <1>3, <1>5, <2>1, WordOfBits
<1> QED
  BY <1>3, <1>6 DEF ShiftedLeft, v

\* A right shift of v, which is a zero or sign extension of a.
LEMMA RightShift ==
  ASSUME NEW a \in Val, NEW v \in Int, v % M = a, v \div M \in {0, -1},
         NEW n \in 0 .. XLEN - 1, NEW fill, fill = IF v \div M = 0 THEN 0 ELSE 1
  PROVE  (v \div Pow[n]) % M = ShiftedRight(a, n, fill) /\ v \div Pow[n] \in Int
<1> DEFINE w == v \div Pow[n]
           bit == [k \in Position |-> IF k + n \in Position THEN BitOf(a)[k + n] ELSE fill]
<1>1. n \in Nat /\ n \in 0 .. XLEN /\ n < XLEN /\ XLEN \in 0 .. XLEN /\ Pow[XLEN] = M
  BY WidthType, PowBase
<1>2. Pow[n] \in Nat /\ Pow[n] >= 1
  BY <1>1, PowType
<1>3. w \in Int
  BY <1>2
<1>4. ASSUME NEW k \in Position PROVE bit[k] = (w \div Pow[k]) % 2
  <2>1. k \in Nat /\ k < XLEN /\ k \in 0 .. XLEN
    BY BitIs
  <2>2. CASE k + n \in Position
    <3>1. n + k <= XLEN /\ n + k = k + n /\ k + n \in Nat /\ k + n < XLEN
      BY <1>1, <2>1, <2>2, BitIs
    <3>2. w \div Pow[k] = v \div Pow[k + n]
      BY <1>1, <2>1, <3>1, Quotients
    <3>3. ((v % Pow[XLEN]) \div Pow[k + n]) % 2 = (v \div Pow[k + n]) % 2
      BY <1>1, <3>1, LowBits
    <3>4. BitOf(a)[k + n] = (a \div Pow[k + n]) % 2
      BY <2>2, BitIs
    <3> HIDE DEF w
    <3> QED
      BY <1>1, <2>2, <3>2, <3>3, <3>4
  <2>3. CASE k + n \notin Position
    <3>1. XLEN - n \in Nat /\ XLEN - n \in 0 .. XLEN /\ k \in XLEN - n .. XLEN /\ n + (XLEN - n) <= XLEN
          /\ n + (XLEN - n) = XLEN
      BY <1>1, <2>1, <2>3, WidthType DEF Position
    <3>2. w \div Pow[XLEN - n] = v \div M
      BY <1>1, <3>1, Quotients
    <3> HIDE DEF w
    <3>3. (w \div Pow[k]) % 2 = IF w \div Pow[XLEN - n] = 0 THEN 0 ELSE 1
      BY <1>3, <3>1, <3>2, HighBits
    <3> QED
      BY <2>3, <3>2, <3>3
  <2> QED
    BY <2>2, <2>3
<1> HIDE DEF w
<1>5. Word(bit) = w % M
  <2>1. bit = [k \in Position |-> bit[k]]
    OBVIOUS
  <2> HIDE DEF bit
  <2> QED
    BY <1>3, <1>4, <2>1, WordOfBits
<1> QED
  BY <1>3, <1>5 DEF ShiftedRight, w

LEMMA SignExtension ==
  ASSUME NEW size \in 1 .. XLEN, NEW v \in 0 .. Pow[size] - 1
  PROVE  SExt(v, Pow[size]) % M = SignExtended(v, size)
<1> DEFINE x == SExt(v, Pow[size])
           fill == BitOf(v)[size - 1]
           bit == [k \in Position |-> IF k < size THEN BitOf(v)[k] ELSE fill]
<1>1. x \in Int /\ x % Pow[size] = v /\ x \div Pow[size] \in {0, -1}
      /\ fill = IF x \div Pow[size] = 0 THEN 0 ELSE 1
  BY Extension
<1>2. size \in 0 .. XLEN
  BY WidthType
<1> HIDE DEF x, fill
<1>3. ASSUME NEW k \in Position PROVE bit[k] = (x \div Pow[k]) % 2
  <2>1. k \in Nat /\ k < XLEN /\ BitOf(v)[k] = (v \div Pow[k]) % 2
    BY BitIs
  <2>2. CASE k < size
    <3>1. ((x % Pow[size]) \div Pow[k]) % 2 = (x \div Pow[k]) % 2
      BY <1>1, <1>2, <2>1, <2>2, LowBits
    <3> QED
      BY <1>1, <2>1, <2>2, <3>1
  <2>3. CASE ~(k < size)
    <3>1. k \in size .. XLEN
      BY <1>2, <2>1, <2>3, WidthType
    <3>2. (x \div Pow[k]) % 2 = IF x \div Pow[size] = 0 THEN 0 ELSE 1
      BY <1>1, <1>2, <3>1, HighBits
    <3> QED
      BY <1>1, <2>3, <3>2
  <2> QED
    BY <2>2, <2>3
<1>4. Word(bit) = x % M
  <2>1. bit = [k \in Position |-> bit[k]]
    OBVIOUS
  <2> HIDE DEF bit
  <2> QED
    BY <1>1, <1>3, <2>1, WordOfBits
<1> QED
  BY <1>4 DEF SignExtended, Extended, x, fill

LEMMA BytewiseBits ==
  ASSUME NEW f \in {AndByte, OrByte, XorByte}, NEW a \in Val, NEW b \in Val,
         NEW bit, bit = [k \in Position |-> bit[k]],
         \A j \in 0 .. 3 : \A r \in 0 .. ByteBits - 1 :
           bit[ByteBits * j + r] = BitOf(f[<<ByteOf(a, j), ByteOf(b, j)>>])[r]
  PROVE  Bytewise(f, a, b) \in Val /\ Word(bit) = Bytewise(f, a, b)
<1> DEFINE B(j) == f[<<ByteOf(a, j), ByteOf(b, j)>>]
           v == B(0) + Byte * (B(1) + Byte * (B(2) + Byte * B(3)))
<1>1. f \in [ByteVal \X ByteVal -> ByteVal]
  BY BitwiseAssumption
<1>2. ASSUME NEW j \in 0 .. 3 PROVE B(j) \in ByteVal
  BY <1>1, ByteOfType
<1>3. B(0) \in ByteVal /\ B(1) \in ByteVal /\ B(2) \in ByteVal /\ B(3) \in ByteVal
  BY <1>2
<1>4. Bytewise(f, a, b) = v
  BY DEF Bytewise
<1>5. \A j \in 0 .. 3 : \A r \in 0 .. ByteBits - 1 : bit[ByteBits * j + r] = BitOf(B(j))[r]
  OBVIOUS
<1> HIDE DEF B
<1>6. v \in Val
  BY <1>3, FourBytes
<1>7. ByteOf(v, 0) = B(0) /\ ByteOf(v, 1) = B(1) /\ ByteOf(v, 2) = B(2) /\ ByteOf(v, 3) = B(3)
  BY <1>3, FourByteDigits
<1>8. ASSUME NEW j \in 0 .. 3 PROVE ByteOf(v, j) = B(j)
  <2>1. j = 0 \/ j = 1 \/ j = 2 \/ j = 3
    OBVIOUS
  <2> HIDE DEF v
  <2> QED
    BY <1>7, <2>1
<1> HIDE DEF v
<1>9. Word(bit) = v
  <2>1. \A j \in 0 .. 3 : \A r \in 0 .. ByteBits - 1 : bit[ByteBits * j + r] = BitOf(ByteOf(v, j))[r]
    BY <1>5, <1>8
  <2> QED
    BY <1>6, <2>1, WordOfBytes
<1> QED
  BY <1>4, <1>6, <1>9

LEMMA BitwiseResults ==
  ASSUME NEW a \in Val, NEW b \in Val
  PROVE  /\ Bytewise(AndByte, a, b) \in Val
         /\ Bytewise(AndByte, a, b) =
              Word([k \in Position |-> IF BitOf(a)[k] = 1 /\ BitOf(b)[k] = 1 THEN 1 ELSE 0])
         /\ Bytewise(OrByte, a, b) \in Val
         /\ Bytewise(OrByte, a, b) =
              Word([k \in Position |-> IF BitOf(a)[k] = 1 \/ BitOf(b)[k] = 1 THEN 1 ELSE 0])
         /\ Bytewise(XorByte, a, b) \in Val
         /\ Bytewise(XorByte, a, b) =
              Word([k \in Position |-> IF BitOf(a)[k] # BitOf(b)[k] THEN 1 ELSE 0])
<1> DEFINE And == [k \in Position |-> IF BitOf(a)[k] = 1 /\ BitOf(b)[k] = 1 THEN 1 ELSE 0]
           Or  == [k \in Position |-> IF BitOf(a)[k] = 1 \/ BitOf(b)[k] = 1 THEN 1 ELSE 0]
           Xor == [k \in Position |-> IF BitOf(a)[k] # BitOf(b)[k] THEN 1 ELSE 0]
<1>1. a \in Int /\ b \in Int
  BY MType DEF Val
<1>2. ASSUME NEW j \in 0 .. 3, NEW r \in 0 .. ByteBits - 1
      PROVE  /\ ByteBits * j + r \in Position
             /\ ByteOf(a, j) \in ByteVal /\ ByteOf(b, j) \in ByteVal
             /\ BitOf(a)[ByteBits * j + r] = BitOf(ByteOf(a, j))[r]
             /\ BitOf(b)[ByteBits * j + r] = BitOf(ByteOf(b, j))[r]
  BY <1>1, Place, ByteOfType, ByteBit
<1>3. ASSUME NEW j \in 0 .. 3, NEW r \in 0 .. ByteBits - 1
      PROVE  /\ And[ByteBits * j + r] = BitOf(AndByte[<<ByteOf(a, j), ByteOf(b, j)>>])[r]
             /\ Or[ByteBits * j + r]  = BitOf(OrByte[<<ByteOf(a, j), ByteOf(b, j)>>])[r]
             /\ Xor[ByteBits * j + r] = BitOf(XorByte[<<ByteOf(a, j), ByteOf(b, j)>>])[r]
  <2> DEFINE x == ByteOf(a, j)
             y == ByteOf(b, j)
             k == ByteBits * j + r
  <2>1. k \in Position /\ x \in ByteVal /\ y \in ByteVal
        /\ BitOf(a)[k] = BitOf(x)[r] /\ BitOf(b)[k] = BitOf(y)[r]
    BY <1>2
  <2> HIDE DEF x, y, k
  <2>2. /\ BitOf(AndByte[<<x, y>>])[r] = IF BitOf(x)[r] = 1 /\ BitOf(y)[r] = 1 THEN 1 ELSE 0
        /\ BitOf(OrByte[<<x, y>>])[r]  = IF BitOf(x)[r] = 1 \/ BitOf(y)[r] = 1 THEN 1 ELSE 0
        /\ BitOf(XorByte[<<x, y>>])[r] = IF BitOf(x)[r] # BitOf(y)[r] THEN 1 ELSE 0
    BY <2>1, BitwiseMeaning
  <2>3. /\ And[k] = BitOf(AndByte[<<x, y>>])[r]
        /\ Or[k]  = BitOf(OrByte[<<x, y>>])[r]
        /\ Xor[k] = BitOf(XorByte[<<x, y>>])[r]
    BY <2>1, <2>2
  <2> QED
    BY <2>3 DEF x, y, k
<1>4. And = [k \in Position |-> And[k]] /\ Or = [k \in Position |-> Or[k]] /\ Xor = [k \in Position |-> Xor[k]]
  OBVIOUS
<1>5. /\ Bytewise(AndByte, a, b) \in Val /\ Bytewise(AndByte, a, b) = Word(And)
      /\ Bytewise(OrByte, a, b) \in Val  /\ Bytewise(OrByte, a, b) = Word(Or)
      /\ Bytewise(XorByte, a, b) \in Val /\ Bytewise(XorByte, a, b) = Word(Xor)
  <2> HIDE DEF And, Or, Xor
  <2>1. Bytewise(AndByte, a, b) \in Val /\ Word(And) = Bytewise(AndByte, a, b)
    <3>1. \A j \in 0 .. 3 : \A r \in 0 .. ByteBits - 1 :
            And[ByteBits * j + r] = BitOf(AndByte[<<ByteOf(a, j), ByteOf(b, j)>>])[r]
      BY <1>3
    <3>2. And = [k \in Position |-> And[k]] /\ AndByte \in {AndByte, OrByte, XorByte}
      BY <1>4
    <3> QED
      BY ONLY <3>1, <3>2, a \in Val, b \in Val, BytewiseBits
  <2>2. Bytewise(OrByte, a, b) \in Val /\ Word(Or) = Bytewise(OrByte, a, b)
    <3>1. \A j \in 0 .. 3 : \A r \in 0 .. ByteBits - 1 :
            Or[ByteBits * j + r] = BitOf(OrByte[<<ByteOf(a, j), ByteOf(b, j)>>])[r]
      BY <1>3
    <3>2. Or = [k \in Position |-> Or[k]] /\ OrByte \in {AndByte, OrByte, XorByte}
      BY <1>4
    <3> QED
      BY ONLY <3>1, <3>2, a \in Val, b \in Val, BytewiseBits
  <2>3. Bytewise(XorByte, a, b) \in Val /\ Word(Xor) = Bytewise(XorByte, a, b)
    <3>1. \A j \in 0 .. 3 : \A r \in 0 .. ByteBits - 1 :
            Xor[ByteBits * j + r] = BitOf(XorByte[<<ByteOf(a, j), ByteOf(b, j)>>])[r]
      BY <1>3
    <3>2. Xor = [k \in Position |-> Xor[k]] /\ XorByte \in {AndByte, OrByte, XorByte}
      BY <1>4
    <3> QED
      BY ONLY <3>1, <3>2, a \in Val, b \in Val, BytewiseBits
  <2> QED
    BY <2>1, <2>2, <2>3
<1> QED
  BY <1>5

\* Bit 0 of a jump target is cleared.
LEMMA ClearBit0 ==
  ASSUME NEW t \in Int
  PROVE  (t - (t % 2)) % M = Word([BitOf(t % M) EXCEPT ![0] = 0]) /\ t - (t % 2) \in Int
<1> DEFINE v == t - (t % 2)
           bit == [BitOf(t % M) EXCEPT ![0] = 0]
<1>1. v \in Int /\ v % 2 = 0 /\ v \div 2 = t \div 2 /\ v \div 1 = v
  OBVIOUS
<1>2. 0 \in Position /\ DOMAIN BitOf(t % M) = Position
  BY WidthType DEF Position, BitOf
<1>3. bit = [k \in Position |-> bit[k]]
  BY <1>2
<1>4. ASSUME NEW k \in Position PROVE bit[k] = (v \div Pow[k]) % 2
  <2>1. CASE k = 0
    BY <1>1, <1>2, <2>1, PowBase
  <2>2. CASE k # 0
    <3>1. k \in Nat /\ k < XLEN /\ k - 1 \in Nat /\ 1 + (k - 1) = k /\ k <= XLEN /\ 1 \in Nat
          /\ 0 \in 0 .. XLEN - 1 /\ XLEN \in 0 .. XLEN
      BY <2>2, BitIs, WidthType
    <3>2. Pow[1] = 2 /\ Pow[XLEN] = M
      <4>1. Pow[0 + 1] = 2 * Pow[0]
        BY <3>1, PowBase
      <4> QED
        BY <4>1, PowBase
    <3>3. bit[k] = ((t % M) \div Pow[k]) % 2
      BY <1>2, <2>2, BitIs
    <3>4. ((t % Pow[XLEN]) \div Pow[k]) % 2 = (t \div Pow[k]) % 2
      BY <3>1, LowBits
    <3>5. (t \div Pow[1]) \div Pow[k - 1] = t \div Pow[k]
      BY <3>1, Quotients
    <3> HIDE DEF v, bit
    <3>6. (v \div Pow[1]) \div Pow[k - 1] = v \div Pow[k]
      BY <1>1, <3>1, Quotients
    <3> QED
      BY <1>1, <3>2, <3>3, <3>4, <3>5, <3>6
  <2> QED
    BY <2>1, <2>2
<1> HIDE DEF v, bit
<1>5. Word(bit) = v % M
  BY <1>1, <1>3, <1>4, WordOfBits
<1> QED
  BY <1>1, <1>5 DEF v, bit

\* An immediate can be reduced to a uint32_t before it is added.
LEMMA AddImmediate ==
  ASSUME NEW a \in Int, NEW imm \in Int
  PROVE  (a + (imm % M)) % M = (a + imm) % M
<1> DEFINE q == imm \div M
           r == imm % M
<1>1. imm = M * q + r /\ q \in Int /\ r \in Int
  BY MType
<1>2. M \in Nat /\ M >= 1
  BY MType
<1> HIDE DEF q, r
<1>3. a + imm = M * q + (a + r) /\ a + r \in Int
  <2>1. M * q \in Int
    BY <1>1, <1>2
  <2> QED
    BY <1>1, <2>1
<1>4. (M * q + (a + r)) % M = (a + r) % M
  BY ONLY <1>1, <1>2, <1>3, ModAdd
<1> QED
  BY <1>3, <1>4 DEF r

-----------------------------------------------------------------------------
(***************************************************************************)
(* Memory.                                                                 *)
(***************************************************************************)
\* The bytes of an access that stays in the segment of its first byte are
\* consecutive cells of the segment.
LEMMA NearByte ==
  ASSUME NEW ea \in Val, mapAddress(ea) # nullptr, NEW n \in 1 .. 4,
         InBlock(mapAddress(ea), n),
         \A k \in 1 .. n - 1 : mapAddress(ea + k).Segment = mapAddress(ea).Segment,
         NEW j \in 0 .. n - 1
  PROVE  /\ ea + j \in Mapped /\ (ea + j) % M = ea + j
         /\ mapAddress(ea + j).Segment = mapAddress(ea).Segment
         /\ mapAddress(ea + j).Offset = mapAddress(ea).Offset + j
         /\ InBlock(mapAddress(ea), j + 1)
<1> DEFINE p == mapAddress(ea)
           q == mapAddress(ea + j)
<1>1. ea \in Int /\ 0 <= ea /\ ea < M /\ M \in Nat /\ M >= 2
  BY MType DEF Val
<1>2. p.Segment \in Segment /\ p.Offset \in Allocation(p.Segment)
  BY MapAddressInBlock
<1>3. p.Offset \in Int /\ SegmentData[p.Segment].MemorySize \in Nat
      /\ SegmentData[p.Segment].GuestAddress \in Nat
  BY <1>2, SegmentFields DEF Allocation
<1>4. p.Segment # 0
  BY <1>2 DEF Segment
<1>5. q.Segment = p.Segment
  <2>1. CASE j = 0
    <3>1. ea + j = ea
      BY <1>1, <2>1
    <3> QED
      BY <3>1
  <2>2. CASE j # 0
    <3>1. j \in 1 .. n - 1
      BY <2>2
    <3> QED
      BY <3>1
  <2> QED
    BY <2>1, <2>2
<1>6. q # nullptr
  BY <1>4, <1>5 DEF nullptr
<1>7. /\ Covers(p.Segment, ea) /\ p.Offset = ea - SegmentData[p.Segment].GuestAddress
      /\ Covers(q.Segment, ea + j) /\ q.Offset = (ea + j) - SegmentData[q.Segment].GuestAddress
  BY <1>6, MapAddressOffset
<1>8. InBlock(p, j + 1)
  <2>1. p.Offset + n <= SegmentData[p.Segment].MemorySize
    BY DEF InBlock
  <2> HIDE DEF p
  <2>2. p.Offset + (j + 1) <= SegmentData[p.Segment].MemorySize
    BY <1>3, <2>1
  <2> QED
    BY <2>2 DEF InBlock
<1>9. ea + j < M
  <2> DEFINE e == SegmentData[p.Segment].GuestAddress + SegmentData[p.Segment].MemorySize
  <2>1. ea + j < e % M /\ e \in Int
    BY <1>3, <1>5, <1>7 DEF Covers
  <2> HIDE DEF e
  <2>2. e % M \in 0 .. M - 1
    BY <1>1, <2>1
  <2> QED
    BY <1>1, <2>1, <2>2
<1>10. ea + j \in Val /\ (ea + j) % M = ea + j
  BY <1>1, <1>9 DEF Val
<1>11. q.Offset = p.Offset + j
  BY <1>1, <1>3, <1>5, <1>7
<1> QED
  BY <1>5, <1>6, <1>8, <1>10, <1>11 DEF Mapped

LEMMA LoadedByte ==
  ASSUME NEW s, NEW u,
         NEW ea \in Val, mapAddress(ea) # nullptr, NEW n \in 1 .. 4,
         InBlock(mapAddress(ea), n),
         \A k \in 1 .. n - 1 : mapAddress(ea + k).Segment = mapAddress(ea).Segment,
         NEW j \in 0 .. n - 1
  PROVE  LoadByte(s.Memory, mapAddress(ea), j, u) = Architectural(s).mem[(ea + j) % M]
<1>1. /\ ea + j \in Mapped /\ (ea + j) % M = ea + j
      /\ mapAddress(ea + j).Segment = mapAddress(ea).Segment
      /\ mapAddress(ea + j).Offset = mapAddress(ea).Offset + j
      /\ InBlock(mapAddress(ea), j + 1)
  BY NearByte
<1>2. LoadByte(s.Memory, mapAddress(ea), j, u) =
        s.Memory[mapAddress(ea).Segment][mapAddress(ea).Offset + j]
  BY <1>1 DEF LoadByte
<1>3. Architectural(s).mem[ea + j] = s.Memory[mapAddress(ea + j).Segment][mapAddress(ea + j).Offset]
  BY <1>1 DEF Architectural
<1> QED
  BY <1>1, <1>2, <1>3

\* The n bytes from ea, least significant first, are the word loaded.
LEMMA LoadedIs ==
  ASSUME NEW mem, NEW ea, NEW n \in 1 .. 4, NEW v \in Val,
         \A j \in 0 .. 3 : ByteOf(v, j) = IF j < n THEN mem[(ea + j) % M] ELSE 0
  PROVE  Loaded(mem, ea, n) = v
<1> DEFINE bit == [k \in Position |->
                     IF k < n * ByteBits
                     THEN BitOf(mem[(ea + (k \div ByteBits)) % M])[k % ByteBits]
                     ELSE 0]
<1>1. ASSUME NEW j \in 0 .. 3, NEW r \in 0 .. ByteBits - 1
      PROVE  bit[ByteBits * j + r] = BitOf(ByteOf(v, j))[r]
  <2> DEFINE k == ByteBits * j + r
  <2>1. k \in Position /\ k \div ByteBits = j /\ k % ByteBits = r /\ r \in Position /\ r \in Nat /\ r < ByteBits
        /\ k = ByteBits * j + r
    BY Place
  <2> HIDE DEF k
  <2>2. k < n * ByteBits <=> j < n
    <3> DEFINE w == ByteBits
    <3>1. w \in Nat /\ w > 0 /\ r \in Nat /\ r < w /\ k = w * j + r
      BY <2>1, WidthType
    <3> HIDE DEF w
    <3>2. j < n => w * (j + 1) <= w * n
      BY <3>1
    <3>3. ~(j < n) => w * j >= w * n
      BY <3>1
    <3>4. w * (j + 1) = w * j + w /\ w * n = n * w
      BY <3>1
    <3>5. w * j \in Int /\ w * n \in Int
      BY <3>1
    <3>6. k < n * w <=> j < n
      BY <3>1, <3>2, <3>3, <3>4, <3>5
    <3> QED
      BY <3>6 DEF w
  <2>3. bit[k] = IF j < n THEN BitOf(mem[(ea + j) % M])[r] ELSE 0
    BY <2>1, <2>2
  <2>4. BitOf(0)[r] = 0
    <3>1. Pow[r] \in Nat /\ Pow[r] >= 1 /\ BitOf(0)[r] = (0 \div Pow[r]) % 2
      BY <2>1, BitIs, PowType
    <3>2. 0 \div Pow[r] = 0
      BY <3>1
    <3> QED
      BY <3>1, <3>2
  <2>5. bit[k] = BitOf(ByteOf(v, j))[r]
    <3> HIDE DEF bit
    <3>1. CASE j < n
      BY <2>3, <3>1
    <3>2. CASE ~(j < n)
      BY <2>3, <2>4, <3>2
    <3> QED
      BY <3>1, <3>2
  <2> QED
    BY <2>1, <2>5
<1>2. bit = [k \in Position |-> bit[k]]
  OBVIOUS
<1>3. Loaded(mem, ea, n) = Word(bit)
  BY DEF Loaded
<1> HIDE DEF bit
<1> QED
  BY <1>1, <1>2, <1>3, WordOfBytes

\* Generated code and the instruction set agree on what a load puts in rd.
LEMMA LoadResults ==
  ASSUME NEW op \in Loads, NEW s, IsCPUState(s), NEW u \in Val,
         NEW ea \in Val, mapAddress(ea) # nullptr, InBlock(mapAddress(ea), Width[op]),
         \A k \in 1 .. Width[op] - 1 : mapAddress(ea + k).Segment = mapAddress(ea).Segment
  PROVE  LET m == s.Memory
             Result == LoadResult(op, Architectural(s).mem, ea)
         IN  /\ op = "LB"  => SExt(read8(m, ea, u), Byte) % M = Result
             /\ op = "LH"  => SExt(read16(m, ea, u), Byte * Byte) % M = Result
             /\ op = "LW"  => read32(m, ea, u) % M = Result
             /\ op = "LBU" => read8(m, ea, u) % M = Result
             /\ op = "LHU" => read16(m, ea, u) % M = Result
<1> DEFINE m == s.Memory
           mem == Architectural(s).mem
           n == Width[op]
           B(j) == LoadByte(m, mapAddress(ea), j, u)
<1>1. /\ n \in 1 .. 4
      /\ op \in {"LB", "LBU"} => n = 1
      /\ op \in {"LH", "LHU"} => n = 2
      /\ op = "LW" => n = 4
  BY DEF Loads, Width
<1>2. ASSUME NEW j \in 0 .. n - 1 PROVE B(j) = mem[(ea + j) % M]
  BY <1>1, LoadedByte
<1>3. B(0) \in ByteVal /\ B(1) \in ByteVal /\ B(2) \in ByteVal /\ B(3) \in ByteVal
  BY LoadByteType DEF IsCPUState
<1>4. /\ read8(m, ea, u) = B(0)
      /\ read16(m, ea, u) = B(0) + Byte * B(1)
      /\ read32(m, ea, u) = B(0) + Byte * (B(1) + Byte * (B(2) + Byte * B(3)))
  BY DEF read8, read16, read32
<1> HIDE DEF B, m, mem, n
<1>5. Byte \in Nat /\ Byte >= 2 /\ Byte * Byte \in Nat
  BY ByteAssumption
<1>6. \A v \in Val : v % M = v
  BY MType DEF Val
<1>7. /\ ByteBits \in 1 .. XLEN /\ Pow[ByteBits] = Byte /\ 1 * ByteBits = ByteBits
      /\ 2 * ByteBits \in 1 .. XLEN /\ Pow[2 * ByteBits] = Byte * Byte
  <2>1. ByteBits \in Nat /\ ByteBits + ByteBits <= XLEN /\ ByteBits + ByteBits = 2 * ByteBits
    BY WidthType
  <2>2. Pow[ByteBits + ByteBits] = Byte * Byte
    BY <2>1, PowSum, PowBase
  <2> QED
    BY <2>1, <2>2, WidthType, PowBase
<1>8. CASE op \in {"LB", "LBU"}
  <2>1. B(0) = mem[(ea + 0) % M] /\ n = 1
    BY <1>1, <1>2, <1>8
  <2>2. B(0) \in Val
    BY <1>3, ByteIsWord
  <2>3. \A j \in 0 .. 3 : ByteOf(B(0), j) = IF j < 1 THEN mem[(ea + j) % M] ELSE 0
    BY <1>3, <2>1, OneByteDigits
  <2>4. Loaded(mem, ea, 1) = B(0)
    BY <2>2, <2>3, LoadedIs
  <2>5. B(0) \in 0 .. Pow[ByteBits] - 1
    BY <1>3, <1>7 DEF ByteVal
  <2>6. SExt(B(0), Byte) % M = SignExtended(B(0), ByteBits)
    BY <1>7, <2>5, SignExtension
  <2>7. op # "LH" /\ op # "LW" /\ op # "LHU"
    BY <1>8
  <2>8. LoadResult(op, mem, ea) = IF op = "LB" THEN SignExtended(B(0), ByteBits) ELSE B(0)
    BY <1>7, <2>1, <2>4, <2>7 DEF LoadResult, n
  <2> QED
    BY <1>4, <1>6, <2>2, <2>6, <2>7, <2>8 DEF m, mem
<1>9. CASE op \in {"LH", "LHU"}
  <2> DEFINE v == B(0) + Byte * B(1)
  <2>1. B(0) = mem[(ea + 0) % M] /\ B(1) = mem[(ea + 1) % M] /\ n = 2
    BY <1>1, <1>2, <1>9
  <2>2. v \in Val
    BY <1>3, TwoBytes
  <2>3. ByteOf(v, 0) = B(0) /\ ByteOf(v, 1) = B(1) /\ ByteOf(v, 2) = 0 /\ ByteOf(v, 3) = 0
    BY <1>3, TwoByteDigits
  <2>4. v \in 0 .. Pow[2 * ByteBits] - 1
    BY <1>3, <1>5, <1>7, Horner DEF ByteVal
  <2> HIDE DEF v
  <2>5. \A j \in 0 .. 3 : ByteOf(v, j) = IF j < 2 THEN mem[(ea + j) % M] ELSE 0
    BY <2>1, <2>3
  <2>6. Loaded(mem, ea, 2) = v
    BY <2>2, <2>5, LoadedIs
  <2>7. SExt(v, Byte * Byte) % M = SignExtended(v, 2 * ByteBits)
    BY <1>7, <2>4, SignExtension
  <2>8. op # "LB" /\ op # "LW" /\ op # "LBU"
    BY <1>9
  <2>9. LoadResult(op, mem, ea) = IF op = "LH" THEN SignExtended(v, 2 * ByteBits) ELSE v
    BY <2>1, <2>6, <2>8 DEF LoadResult, n
  <2> QED
    BY <1>4, <1>6, <2>2, <2>7, <2>8, <2>9 DEF m, mem, v
<1>10. CASE op = "LW"
  <2> DEFINE v == B(0) + Byte * (B(1) + Byte * (B(2) + Byte * B(3)))
  <2>1. /\ B(0) = mem[(ea + 0) % M] /\ B(1) = mem[(ea + 1) % M]
        /\ B(2) = mem[(ea + 2) % M] /\ B(3) = mem[(ea + 3) % M] /\ n = 4
    BY <1>1, <1>2, <1>10
  <2>2. v \in Val
    BY <1>3, FourBytes
  <2>3. ByteOf(v, 0) = B(0) /\ ByteOf(v, 1) = B(1) /\ ByteOf(v, 2) = B(2) /\ ByteOf(v, 3) = B(3)
    BY <1>3, FourByteDigits
  <2> HIDE DEF v
  <2>4. \A j \in 0 .. 3 : ByteOf(v, j) = IF j < 4 THEN mem[(ea + j) % M] ELSE 0
    BY <2>1, <2>3
  <2>5. Loaded(mem, ea, 4) = v
    BY <2>2, <2>4, LoadedIs
  <2>6. LoadResult(op, mem, ea) = v
    BY <1>10, <2>1, <2>5 DEF LoadResult, n
  <2> QED
    BY <1>4, <1>6, <1>10, <2>2, <2>6 DEF m, mem, v
<1> QED
  BY <1>8, <1>9, <1>10 DEF Loads

\* Generated code and the instruction set agree on what a store leaves in
\* memory, seen through every address that is mapped.
LEMMA StoreResults ==
  ASSUME NEW s, IsCPUState(s), NEW n \in 1 .. 4, NEW d \in Val,
         NEW ea \in Val, mapAddress(ea) # nullptr, InBlock(mapAddress(ea), n),
         \A k \in 1 .. n - 1 : mapAddress(ea + k).Segment = mapAddress(ea).Segment,
         NEW t, t.Memory = StoreBytes(s.Memory, mapAddress(ea), n, d)
  PROVE  Architectural(t).mem = Stored(Architectural(s).mem, ea, n, d)
<1> DEFINE p == mapAddress(ea)
           m == s.Memory
           mem == Architectural(s).mem
           new == [o \in DOMAIN m[p.Segment] |->
                     IF o \in p.Offset .. p.Offset + n - 1
                     THEN ByteOf(d, o - p.Offset)
                     ELSE m[p.Segment][o]]
           G == SegmentData[p.Segment].GuestAddress
<1>1. /\ ea \in Int /\ 0 <= ea /\ ea < M /\ M \in Nat /\ M >= 2
      /\ \A a \in Mapped : a \in Int /\ 0 <= a /\ a < M
  BY MType DEF Val, Mapped
<1>2. /\ p.Segment \in Segment /\ p.Offset \in Allocation(p.Segment)
      /\ p.Offset = ea - G
  BY MapAddressInBlock, MapAddressOffset
<1>3. G \in Nat /\ p.Offset \in Int
  BY <1>2, SegmentFields DEF Allocation
<1>4. t.Memory = [m EXCEPT ![p.Segment] = new]
  BY DEF StoreBytes
<1>5. DOMAIN m = Segment /\ \A I \in Segment : DOMAIN m[I] = Allocation(I)
  BY DEF IsCPUState, IsContents
<1> HIDE DEF new
<1>6. ASSUME NEW a \in Mapped
      PROVE  /\ mapAddress(a).Segment \in Segment
             /\ mapAddress(a).Offset \in Allocation(mapAddress(a).Segment)
             /\ mapAddress(a).Offset = a - SegmentData[mapAddress(a).Segment].GuestAddress
             /\ mem[a] = m[mapAddress(a).Segment][mapAddress(a).Offset]
             /\ Architectural(t).mem[a] = t.Memory[mapAddress(a).Segment][mapAddress(a).Offset]
  <2>1. a \in Val /\ mapAddress(a) # nullptr
    BY DEF Mapped
  <2>2. mapAddress(a).Segment \in Segment /\ mapAddress(a).Offset \in Allocation(mapAddress(a).Segment)
    BY <2>1, MapAddressInBlock
  <2>3. mapAddress(a).Offset = a - SegmentData[mapAddress(a).Segment].GuestAddress
    BY <2>1, MapAddressOffset
  <2> QED
    BY <2>2, <2>3 DEF Architectural
<1>7. ASSUME NEW a \in Mapped, (a - ea) % M < n
      PROVE  Architectural(t).mem[a] = ByteOf(d, (a - ea) % M) /\ (a - ea) % M \in 0 .. 3
  <2> DEFINE j == (a - ea) % M
  <2>1. j \in 0 .. n - 1 /\ (a = ea + j \/ a = ea + j - M)
    <3> DEFINE e == a - ea
               f == e + M
    <3>1. e \in Int /\ -M < e /\ e < M /\ a = ea + e /\ j = e % M /\ j < n /\ j \in Nat
      BY <1>1, <1>7
    <3> HIDE DEF e, j
    <3>2. CASE e >= 0
      <4>1. e % M = e
        BY <1>1, <3>1, <3>2
      <4> QED
        BY <1>1, <3>1, <4>1
    <3>3. CASE e < 0
      <4>1. f \in 0 .. M - 1 /\ e = M * (-1) + f /\ -1 \in Int
        BY <1>1, <3>1, <3>3
      <4> HIDE DEF f
      <4>2. M \in Nat /\ M >= 1
        BY MType
      <4>3. (M * (-1) + f) % M = f
        BY ONLY <4>1, <4>2, DivUnique
      <4>4. j = e + M
        BY <3>1, <4>1, <4>3 DEF f
      <4> QED
        BY <1>1, <3>1, <4>4
    <3> QED
      BY <3>1, <3>2, <3>3
  <2> HIDE DEF j
  <2>2. /\ ea + j \in Mapped /\ (ea + j) % M = ea + j
        /\ mapAddress(ea + j).Segment = mapAddress(ea).Segment
        /\ mapAddress(ea + j).Offset = mapAddress(ea).Offset + j
    BY <2>1, NearByte
  <2>3. a = ea + j
    BY <1>1, <2>1, <2>2
  <2>4. mapAddress(a).Segment = p.Segment /\ mapAddress(a).Offset = p.Offset + j
    BY <2>2, <2>3
  <2> HIDE DEF p
  <2>5. p.Offset + j \in p.Offset .. p.Offset + n - 1 /\ (p.Offset + j) - p.Offset = j /\ j \in 0 .. 3
    BY <1>3, <2>1
  <2>6. p.Offset + j \in DOMAIN m[p.Segment]
    BY <1>2, <1>5, <1>6, <2>4
  <2>7. new[p.Offset + j] = ByteOf(d, j)
    BY <2>5, <2>6 DEF new
  <2> QED
    BY <1>2, <1>4, <1>5, <1>6, <2>4, <2>5, <2>7 DEF j
<1>8. ASSUME NEW a \in Mapped, ~((a - ea) % M < n)
      PROVE  Architectural(t).mem[a] = mem[a]
  <2> DEFINE q == mapAddress(a)
  <2>1. CASE q.Segment # p.Segment
    BY <1>2, <1>4, <1>5, <1>6, <2>1
  <2>2. CASE q.Segment = p.Segment
    <3>1. q.Offset = a - G /\ q.Offset \in DOMAIN m[p.Segment]
      BY <1>2, <1>5, <1>6, <2>2
    <3>2. mem[a] = m[q.Segment][q.Offset] /\ Architectural(t).mem[a] = t.Memory[q.Segment][q.Offset]
      BY <1>6
    <3> HIDE DEF q, p, G
    <3>3. q.Offset \notin p.Offset .. p.Offset + n - 1
      BY <1>1, <1>2, <1>3, <1>8, <3>1
    <3>4. new[q.Offset] = m[p.Segment][q.Offset]
      BY <3>1, <3>3 DEF new
    <3> QED
      BY <1>2, <1>4, <1>5, <2>2, <3>2, <3>4
  <2> QED
    BY <2>1, <2>2
<1>9. ASSUME NEW j \in 0 .. 3
      PROVE  Word([k \in Position |-> IF k < ByteBits THEN BitOf(d)[k + ByteBits * j] ELSE 0]) = ByteOf(d, j)
  <2> DEFINE b == ByteOf(d, j)
             bit == [k \in Position |-> IF k < ByteBits THEN BitOf(d)[k + ByteBits * j] ELSE 0]
  <2>1. b \in ByteVal /\ d \in Int
    BY ByteOfType, MType DEF Val
  <2>2. ASSUME NEW k \in Position PROVE BitOf(b)[k] = bit[k]
    <3>1. CASE k < ByteBits
      <4>1. k \in 0 .. ByteBits - 1
        BY <3>1, WidthType DEF Position
      <4>2. BitOf(d)[ByteBits * j + k] = BitOf(b)[k]
        BY <2>1, <4>1, ByteBit
      <4>3. ByteBits * j + k = k + ByteBits * j
        BY <4>1, Place
      <4> QED
        BY <3>1, <4>2, <4>3
    <3>2. CASE ~(k < ByteBits)
      <4>1. k >= ByteBits
        BY <3>2, WidthType DEF Position
      <4> HIDE DEF b
      <4> QED
        BY <2>1, <3>2, <4>1, ByteIsWord
    <3> QED
      BY <3>1, <3>2
  <2>3. BitOf(b) = bit
    BY <2>2 DEF BitOf
  <2>4. b \in Val
    BY <2>1, ByteIsWord
  <2> HIDE DEF b, bit
  <2>5. Word(bit) = b
    BY <2>3, <2>4, WordIs
  <2> QED
    BY <2>5 DEF b, bit
<1>10. DOMAIN mem = Mapped /\ Architectural(t).mem = [a \in Mapped |-> Architectural(t).mem[a]]
  BY DEF Architectural
<1>11. Stored(mem, ea, n, d) =
         [a \in Mapped |->
            IF (a - ea) % M < n
            THEN Word([k \in Position |->
                         IF k < ByteBits THEN BitOf(d)[k + ByteBits * ((a - ea) % M)] ELSE 0])
            ELSE mem[a]]
  BY <1>10 DEF Stored
<1>12. ASSUME NEW a \in Mapped PROVE Architectural(t).mem[a] = Stored(mem, ea, n, d)[a]
  <2>1. CASE (a - ea) % M < n
    <3>1. Stored(mem, ea, n, d)[a] =
            Word([k \in Position |->
                    IF k < ByteBits THEN BitOf(d)[k + ByteBits * ((a - ea) % M)] ELSE 0])
      BY <1>11, <2>1
    <3> QED
      BY <1>7, <1>9, <2>1, <3>1
  <2>2. CASE ~((a - ea) % M < n)
    <3>1. Stored(mem, ea, n, d)[a] = mem[a]
      BY <1>11, <2>2
    <3> QED
      BY <1>8, <2>2, <3>1
  <2> QED
    BY <2>1, <2>2
<1> HIDE DEF mem
<1>13. Stored(mem, ea, n, d) = [a \in Mapped |-> Stored(mem, ea, n, d)[a]]
  BY <1>11
<1>14. Architectural(t).mem = Stored(mem, ea, n, d)
  BY ONLY <1>10, <1>12, <1>13
<1> QED
  BY <1>14 DEF mem

-----------------------------------------------------------------------------
(***************************************************************************)
(* Whole instructions.  Both sides are brought to one form: rd written     *)
(* with w unless it is register 0, then the PC, memory as it was.          *)
(***************************************************************************)
Cleared(s) == [s.Registers EXCEPT ![0] = 0]

To(s, r, w, pc) ==
  [ x   |-> [Cleared(s) EXCEPT ![r] = IF r = 0 THEN 0 ELSE w],
    pc  |-> pc,
    mem |-> Architectural(s).mem ]

LEMMA ZeroedIs ==
  ASSUME NEW t
  PROVE  Zeroed(t) = [x |-> Cleared(t), pc |-> t.PC, mem |-> Architectural(t).mem]
<1> DEFINE m == Architectural(t)
<1>1. m = [x |-> t.Registers, pc |-> t.PC, mem |-> m.mem]
  BY DEF Architectural
<1> HIDE DEF m
<1>2. [m EXCEPT !.x[0] = 0] = [m EXCEPT !.x = [m.x EXCEPT ![0] = 0]]
  OBVIOUS
<1>3. [m EXCEPT !.x = [m.x EXCEPT ![0] = 0]] = [x |-> [m.x EXCEPT ![0] = 0], pc |-> m.pc, mem |-> m.mem]
  BY <1>1
<1>4. m.x = t.Registers /\ m.pc = t.PC
  BY <1>1
<1> QED
  BY <1>2, <1>3, <1>4 DEF Zeroed, Cleared, m

LEMMA JumpMatches ==
  ASSUME NEW s, IsCPUState(s), NEW t \in Int
  PROVE  Zeroed(Jump(s, t)) = [x |-> Cleared(s), pc |-> t % M, mem |-> Architectural(s).mem]
<1> DEFINE new == Jump(s, t)
<1>1. new = [Registers |-> s.Registers, PC |-> t % M, Memory |-> s.Memory]
  BY DEF Jump, IsCPUState
<1>2. Architectural(new).mem = Architectural(s).mem
  BY <1>1 DEF Architectural
<1>3. Zeroed(new) = [x |-> Cleared(new), pc |-> new.PC, mem |-> Architectural(new).mem]
  BY ZeroedIs
<1> QED
  BY <1>1, <1>2, <1>3 DEF Cleared

LEMMA PutMatches ==
  ASSUME NEW s, IsCPUState(s), NEW r \in Reg, NEW v \in Int, NEW t \in Int
  PROVE  Zeroed(Jump(Put(s, r, v), t)) = To(s, r, v % M, t % M)
<1> DEFINE regs == [s.Registers EXCEPT ![r] = v % M]
<1>1. Put(s, r, v) = [Registers |-> regs, PC |-> s.PC, Memory |-> s.Memory]
  BY DEF Put, IsCPUState
<1>2. Jump(Put(s, r, v), t) = [Registers |-> regs, PC |-> t % M, Memory |-> s.Memory]
  <2> HIDE DEF regs
  <2> QED
    BY <1>1 DEF Jump
<1>3. Architectural(Jump(Put(s, r, v), t)).mem = Architectural(s).mem
  BY <1>2 DEF Architectural
<1>4. [regs EXCEPT ![0] = 0] = [Cleared(s) EXCEPT ![r] = IF r = 0 THEN 0 ELSE v % M]
  <2>1. DOMAIN s.Registers = Reg /\ s.Registers \in [Reg -> Val]
    BY DEF IsCPUState
  <2>2. CASE r = 0
    BY <2>1, <2>2 DEF Cleared
  <2>3. CASE r # 0
    BY <2>1, <2>3 DEF Cleared
  <2> QED
    BY <2>2, <2>3
<1> HIDE DEF regs
<1> DEFINE new == Jump(Put(s, r, v), t)
<1>5. Zeroed(new) = [x |-> Cleared(new), pc |-> new.PC, mem |-> Architectural(new).mem]
  BY ZeroedIs
<1>6. new.Registers = regs /\ new.PC = t % M
  BY <1>2
<1>7. Cleared(new) = [Cleared(s) EXCEPT ![r] = IF r = 0 THEN 0 ELSE v % M]
  BY <1>4, <1>6 DEF Cleared
<1> QED
  BY <1>3, <1>5, <1>6, <1>7 DEF To

LEMMA WriteMatches ==
  ASSUME NEW s, IsCPUState(s), NEW r \in Reg, NEW v \in Int
  PROVE  Zeroed(updatePC(Put(s, r, v))) = To(s, r, v % M, (s.PC + 4) % M)
<1>1. Put(s, r, v).PC = s.PC /\ s.PC + 4 \in Int
  BY PutFacts, MType DEF IsCPUState, Val
<1>2. updatePC(Put(s, r, v)) = Jump(Put(s, r, v), s.PC + 4)
  BY <1>1 DEF updatePC
<1> QED
  BY <1>1, <1>2, PutMatches

\* Register 0 holds 0 if the instruction reads it.
SourcesHold(ins, s) == 0 \in Sources(ins) => s.Registers[0] = 0

\* What the instruction set says, kind by kind.
LEMMA ISAIs ==
  ASSUME NEW ins \in Instruction, NEW s, IsCPUState(s), SourcesHold(ins, s)
  PROVE  LET a    == s.Registers[ins.rs1]
             b    == s.Registers[ins.rs2]
             imm  == ins.imm % M
             ea   == (a + imm) % M
             next == (s.PC + 4) % M
             mem  == Architectural(s).mem
             isa  == ISA(ins, Zeroed(s))
         IN  /\ ins.op = "LUI"   => isa = To(s, ins.rd, imm, next)
             /\ ins.op = "AUIPC" => isa = To(s, ins.rd, (s.PC + imm) % M, next)
             /\ ins.op = "JAL"   => isa = To(s, ins.rd, next, (s.PC + imm) % M)
             /\ ins.op = "JALR"  => isa = To(s, ins.rd, next, Word([BitOf(ea) EXCEPT ![0] = 0]))
             /\ ins.op \in Branches =>
                  isa = [x |-> Cleared(s),
                         pc |-> IF Taken(ins.op, a, b) THEN (s.PC + imm) % M ELSE next,
                         mem |-> mem]
             /\ ins.op \in Loads => isa = To(s, ins.rd, LoadResult(ins.op, mem, ea), next)
             /\ ins.op \in Stores =>
                  isa = [x |-> Cleared(s), pc |-> next, mem |-> Stored(mem, ea, Width[ins.op], b)]
             /\ ins.op \in ImmArith \cup ImmShifts => isa = To(s, ins.rd, Arithmetic(ins.op, a, imm), next)
             /\ ins.op \in RegArith \cup RegShifts => isa = To(s, ins.rd, Arithmetic(ins.op, a, b), next)
             /\ ins.op \in Fences => isa = [x |-> Cleared(s), pc |-> next, mem |-> mem]
<1> DEFINE m == Zeroed(s)
           X(r) == IF r = 0 THEN 0 ELSE m.x[r]
<1>1. m.x = Cleared(s) /\ m.pc = s.PC /\ m.mem = Architectural(s).mem
  BY ZeroedIs
<1>2. /\ ins.rs1 \in Sources(ins) => X(ins.rs1) = s.Registers[ins.rs1]
      /\ ins.rs2 \in Sources(ins) => X(ins.rs2) = s.Registers[ins.rs2]
  BY <1>1, OperandFacts DEF Cleared, SourcesHold, IsCPUState
<1> HIDE DEF m
<1> USE DEF Sources, Branches, Loads, Stores, ImmShifts, RegShifts, ImmArith, RegArith, Fences
<1> DEFINE a    == s.Registers[ins.rs1]
           b    == s.Registers[ins.rs2]
           imm  == ins.imm % M
           ea   == (a + imm) % M
           next == (s.PC + 4) % M
           W(w, pc) == [x |-> [Cleared(s) EXCEPT ![ins.rd] = IF ins.rd = 0 THEN 0 ELSE w],
                        pc |-> pc, mem |-> m.mem]
<1>3. /\ ins.op = "LUI"   => ISA(ins, m) = W(imm, next)
      /\ ins.op = "AUIPC" => ISA(ins, m) = W((s.PC + imm) % M, next)
      /\ ins.op = "JAL"   => ISA(ins, m) = W(next, (s.PC + imm) % M)
      /\ ins.op = "JALR"  => ISA(ins, m) = W(next, Word([BitOf(ea) EXCEPT ![0] = 0]))
  BY <1>1, <1>2 DEF ISA
<1>4. ins.op \in Branches =>
        ISA(ins, m) = [x |-> Cleared(s),
                       pc |-> IF Taken(ins.op, a, b) THEN (s.PC + imm) % M ELSE next,
                       mem |-> m.mem]
  BY <1>1, <1>2 DEF ISA
<1>5. ins.op \in Loads => ISA(ins, m) = W(LoadResult(ins.op, m.mem, ea), next)
  BY <1>1, <1>2 DEF ISA
<1>6. ins.op \in Stores =>
        ISA(ins, m) = [x |-> Cleared(s), pc |-> next, mem |-> Stored(m.mem, ea, Width[ins.op], b)]
  BY <1>1, <1>2 DEF ISA
<1>7. ins.op \in ImmArith \cup ImmShifts => ISA(ins, m) = W(Arithmetic(ins.op, a, imm), next)
  BY <1>1, <1>2 DEF ISA
<1>8. ins.op \in RegArith \cup RegShifts => ISA(ins, m) = W(Arithmetic(ins.op, a, b), next)
  BY <1>1, <1>2 DEF ISA
<1>9. ins.op \in Fences => ISA(ins, m) = [x |-> Cleared(s), pc |-> next, mem |-> m.mem]
  BY <1>1, <1>2 DEF ISA
<1> QED
  BY <1>1, <1>3, <1>4, <1>5, <1>6, <1>7, <1>8, <1>9 DEF To, m

Agrees(ins, s, u) == Zeroed(generate(ins, s, u)) = ISA(ins, Zeroed(s))

LEMMA GenerateIs ==
  ASSUME NEW ins, NEW s, NEW u
  PROVE  /\ ins.op \in {"LUI", "AUIPC"} => generate(ins, s, u) = Upper(ins, s)
         /\ ins.op \in {"JAL", "JALR"} \cup Branches => generate(ins, s, u) = Transfer(ins, s)
         /\ ins.op \in Loads \cup Stores => generate(ins, s, u) = Access(ins, s, u)
         /\ ins.op \in ImmShifts \cup ImmArith => generate(ins, s, u) = Immediate(ins, s)
         /\ ins.op \in RegShifts \cup RegArith => generate(ins, s, u) = Register(ins, s, u)
         /\ ins.op \in NoEffect => generate(ins, s, u) = updatePC(s)
BY DEF generate, Loads, Stores, ImmShifts, ImmArith, RegShifts,
       RegArith, NoEffect, NotAdvancing, Branches

LEMMA UpperAgrees ==
  ASSUME NEW ins \in Instruction, NEW s, IsCPUState(s), SourcesHold(ins, s), NEW u,
         ins.op \in {"LUI", "AUIPC"}
  PROVE  Agrees(ins, s, u)
<1>1. ins.rd \in Reg /\ ins.imm \in Int /\ s.PC \in Int
  BY OperandFacts
<1>2. CASE ins.op = "LUI"
  <2>1. generate(ins, s, u) = updatePC(Put(s, ins.rd, ins.imm))
    BY <1>2, GenerateIs DEF Upper, LUI
  <2>2. Zeroed(updatePC(Put(s, ins.rd, ins.imm))) = To(s, ins.rd, ins.imm % M, (s.PC + 4) % M)
    BY <1>1, WriteMatches
  <2> QED
    BY <1>2, <2>1, <2>2, ISAIs DEF Agrees
<1>3. CASE ins.op = "AUIPC"
  <2> DEFINE v == ins.imm + s.PC
  <2>1. generate(ins, s, u) = updatePC(Put(s, ins.rd, v))
    BY <1>3, GenerateIs DEF Upper, AUIPC
  <2>2. v \in Int /\ v % M = (s.PC + (ins.imm % M)) % M
    <3>1. v \in Int /\ v = s.PC + ins.imm
      BY <1>1
    <3> HIDE DEF v
    <3>2. (s.PC + (ins.imm % M)) % M = (s.PC + ins.imm) % M
      BY <1>1, AddImmediate
    <3> QED
      BY <3>1, <3>2
  <2> HIDE DEF v
  <2>3. Zeroed(updatePC(Put(s, ins.rd, v))) = To(s, ins.rd, v % M, (s.PC + 4) % M)
    BY <1>1, <2>2, WriteMatches
  <2> QED
    BY <1>3, <2>1, <2>2, <2>3, ISAIs DEF Agrees
<1> QED
  BY <1>2, <1>3

LEMMA JumpAgrees ==
  ASSUME NEW ins \in Instruction, NEW s, IsCPUState(s), SourcesHold(ins, s), NEW u,
         ins.op \in {"JAL", "JALR"}
  PROVE  Agrees(ins, s, u)
<1>1. ins.rd \in Reg /\ ins.imm \in Int /\ s.PC \in Int /\ s.PC + 4 \in Int /\ s.Registers[ins.rs1] \in Int
  <2>1. ins.rd \in Reg /\ ins.imm \in Int /\ s.PC \in Int /\ s.Registers[ins.rs1] \in Int
    BY OperandFacts
  <2> QED
    BY <2>1
<1>2. CASE ins.op = "JAL"
  <2> DEFINE t == s.PC + ins.imm
  <2>1. generate(ins, s, u) = Jump(Put(s, ins.rd, s.PC + 4), t)
    BY <1>2, JumpStep DEF Transfer, JAL
  <2>2. t \in Int /\ t % M = (s.PC + (ins.imm % M)) % M
    <3>1. t \in Int
      BY <1>1
    <3>2. (s.PC + (ins.imm % M)) % M = (s.PC + ins.imm) % M
      BY <1>1, AddImmediate
    <3> QED
      BY <3>1, <3>2
  <2> HIDE DEF t
  <2>3. Zeroed(Jump(Put(s, ins.rd, s.PC + 4), t)) = To(s, ins.rd, (s.PC + 4) % M, t % M)
    BY <1>1, <2>2, PutMatches
  <2> QED
    BY <1>2, <2>1, <2>2, <2>3, ISAIs DEF Agrees
<1>3. CASE ins.op = "JALR"
  <2> DEFINE r == s.Registers[ins.rs1] + ins.imm
             t == r - (r % 2)
  <2>1. generate(ins, s, u) = Jump(Put(s, ins.rd, s.PC + 4), t)
    BY <1>3, JumpStep DEF Transfer, JALR
  <2>2. r \in Int /\ r % M = (s.Registers[ins.rs1] + (ins.imm % M)) % M
    <3>1. r \in Int
      BY <1>1
    <3>2. (s.Registers[ins.rs1] + (ins.imm % M)) % M = (s.Registers[ins.rs1] + ins.imm) % M
      BY <1>1, AddImmediate
    <3> QED
      BY <3>1, <3>2
  <2> HIDE DEF r
  <2>3. t \in Int /\ t % M = Word([BitOf(r % M) EXCEPT ![0] = 0])
    BY <2>2, ClearBit0
  <2> HIDE DEF t
  <2>4. Zeroed(Jump(Put(s, ins.rd, s.PC + 4), t)) = To(s, ins.rd, (s.PC + 4) % M, t % M)
    BY <1>1, <2>3, PutMatches
  <2> QED
    BY <1>3, <2>1, <2>2, <2>3, <2>4, ISAIs DEF Agrees
<1> QED
  BY <1>2, <1>3

LEMMA BranchAgrees ==
  ASSUME NEW ins \in Instruction, NEW s, IsCPUState(s), SourcesHold(ins, s), NEW u,
         ins.op \in Branches
  PROVE  Agrees(ins, s, u)
<1> DEFINE a == s.Registers[ins.rs1]
           b == s.Registers[ins.rs2]
           Cond == Taken(ins.op, a, b)
           t == s.PC + (IF Cond THEN ins.imm ELSE 4)
<1>1. ins.imm \in Int /\ s.PC \in Int /\ a \in Val /\ b \in Val /\ a \in Int /\ b \in Int
  BY OperandFacts
<1>2. Signed(a) < Signed(b) <=> Less(a, b)
  BY <1>1, SignedLess
<1>3. Signed(a) >= Signed(b) <=> ~Less(a, b)
  <2>1. Signed(a) \in Int /\ Signed(b) \in Int
    BY <1>1, SignedType
  <2> QED
    BY <1>2, <2>1
<1>4. generate(ins, s, u) = Branch(ins, s, Cond)
  <2>1. generate(ins, s, u) = Transfer(ins, s)
    BY JumpStep
  <2>2. CASE ins.op = "BEQ"
    BY <2>1, <2>2 DEF Transfer, BEQ, Taken
  <2>3. CASE ins.op = "BNE"
    BY <2>1, <2>3 DEF Transfer, BNE, Taken
  <2>4. CASE ins.op = "BLT"
    <3>1. Cond = Less(a, b)
      BY <2>4 DEF Taken
    <3> QED
      BY <1>2, <2>1, <2>4, <3>1 DEF Transfer, BLT, Branch
  <2>5. CASE ins.op = "BGE"
    <3>1. Cond = ~Less(a, b)
      BY <2>5 DEF Taken
    <3> QED
      BY <1>3, <2>1, <2>5, <3>1 DEF Transfer, BGE, Branch
  <2>6. CASE ins.op = "BLTU"
    BY <2>1, <2>6 DEF Transfer, BLTU, Taken
  <2>7. CASE ins.op = "BGEU"
    <3>1. Cond = ~(a < b)
      BY <2>7 DEF Taken
    <3>2. a >= b <=> ~(a < b)
      BY <1>1
    <3> QED
      BY <2>1, <2>7, <3>1, <3>2 DEF Transfer, BGEU, Branch
  <2> QED
    BY <2>2, <2>3, <2>4, <2>5, <2>6, <2>7 DEF Branches
<1>5. generate(ins, s, u) = Jump(s, t)
  BY <1>4 DEF Branch
<1>6. t \in Int /\ t % M = IF Cond THEN (s.PC + (ins.imm % M)) % M ELSE (s.PC + 4) % M
  <2>1. t \in Int /\ t = IF Cond THEN s.PC + ins.imm ELSE s.PC + 4
    BY <1>1
  <2> HIDE DEF t, Cond
  <2>2. (s.PC + (ins.imm % M)) % M = (s.PC + ins.imm) % M
    BY <1>1, AddImmediate
  <2> QED
    BY <2>1, <2>2
<1> HIDE DEF t
<1>7. Zeroed(Jump(s, t)) = [x |-> Cleared(s), pc |-> t % M, mem |-> Architectural(s).mem]
  BY <1>6, JumpMatches
<1> QED
  BY <1>5, <1>6, <1>7, ISAIs DEF Agrees

LEMMA FenceAgrees ==
  ASSUME NEW ins \in Instruction, NEW s, IsCPUState(s), SourcesHold(ins, s), NEW u,
         ins.op \in Fences
  PROVE  Agrees(ins, s, u)
<1>1. generate(ins, s, u) = Jump(s, s.PC + 4)
  BY GenerateIs DEF updatePC, Fences, NoEffect
<1>2. s.PC + 4 \in Int
  BY MType DEF IsCPUState, Val
<1>3. Zeroed(Jump(s, s.PC + 4)) = [x |-> Cleared(s), pc |-> (s.PC + 4) % M, mem |-> Architectural(s).mem]
  BY <1>2, JumpMatches
<1> QED
  BY <1>1, <1>3, ISAIs DEF Agrees

\* The arithmetic of the instruction set in the terms of the source.
LEMMA ArithmeticIs ==
  ASSUME NEW op, NEW a \in Val, NEW b \in Val
  PROVE  LET n == b % XLEN
         IN  /\ op \in {"ADD", "ADDI"}   => Arithmetic(op, a, b) = (a + b) % M
             /\ op = "SUB"               => Arithmetic(op, a, b) = (a - b) % M
             /\ op \in {"SLT", "SLTI"}   => Arithmetic(op, a, b) = ZExt(Signed(a) < Signed(b)) % M
             /\ op \in {"SLTU", "SLTIU"} => Arithmetic(op, a, b) = ZExt(a < b) % M
             /\ op \in {"AND", "ANDI"}   => Arithmetic(op, a, b) = Bytewise(AndByte, a, b) % M
             /\ op \in {"OR", "ORI"}     => Arithmetic(op, a, b) = Bytewise(OrByte, a, b) % M
             /\ op \in {"XOR", "XORI"}   => Arithmetic(op, a, b) = Bytewise(XorByte, a, b) % M
             /\ op \in {"SLL", "SLLI"}   => Arithmetic(op, a, b) = (a * 2 ^ n) % M
             /\ op \in {"SRL", "SRLI"}   => Arithmetic(op, a, b) = (a \div 2 ^ n) % M
             /\ op \in {"SRA", "SRAI"}   => Arithmetic(op, a, b) = (Signed(a) \div 2 ^ n) % M
<1> DEFINE n == b % XLEN
<1>1. a \in Int /\ b \in Int /\ 0 <= a /\ a < M /\ M \in Nat /\ M >= 2
  BY MType DEF Val
<1>2. n \in 0 .. XLEN - 1
  BY <1>1, WidthType
<1>3. Pow[n] = 2 ^ n
  BY <1>2, WidthType DEF Pow
<1>4. \A v \in Val : v % M = v
  BY MType DEF Val
<1>5. ZExt(TRUE) % M = 1 /\ ZExt(FALSE) % M = 0
  BY <1>1 DEF ZExt
<1> HIDE DEF n
<1>6. op \in {"ADD", "ADDI"} => Arithmetic(op, a, b) = (a + b) % M
  BY DEF Arithmetic
<1>7. op = "SUB" => Arithmetic(op, a, b) = (a - b) % M
  BY DEF Arithmetic
<1>8. op \in {"SLT", "SLTI"} => Arithmetic(op, a, b) = ZExt(Signed(a) < Signed(b)) % M
  <2>1. op \in {"SLT", "SLTI"} => Arithmetic(op, a, b) = IF Less(a, b) THEN 1 ELSE 0
    BY DEF Arithmetic
  <2>2. ZExt(Signed(a) < Signed(b)) = IF Less(a, b) THEN 1 ELSE 0
    BY SignedLess DEF ZExt
  <2> QED
    BY <1>1, <2>1, <2>2
<1>9. op \in {"SLTU", "SLTIU"} => Arithmetic(op, a, b) = ZExt(a < b) % M
  <2>1. op \in {"SLTU", "SLTIU"} => Arithmetic(op, a, b) = IF a < b THEN 1 ELSE 0
    BY DEF Arithmetic
  <2> QED
    BY <1>1, <2>1 DEF ZExt
<1>10. /\ op \in {"AND", "ANDI"} => Arithmetic(op, a, b) = Bytewise(AndByte, a, b) % M
       /\ op \in {"OR", "ORI"}   => Arithmetic(op, a, b) = Bytewise(OrByte, a, b) % M
       /\ op \in {"XOR", "XORI"} => Arithmetic(op, a, b) = Bytewise(XorByte, a, b) % M
  <2>1. op \in {"AND", "ANDI"} => Arithmetic(op, a, b) =
          Word([k \in Position |-> IF BitOf(a)[k] = 1 /\ BitOf(b)[k] = 1 THEN 1 ELSE 0])
    BY DEF Arithmetic
  <2>2. op \in {"OR", "ORI"} => Arithmetic(op, a, b) =
          Word([k \in Position |-> IF BitOf(a)[k] = 1 \/ BitOf(b)[k] = 1 THEN 1 ELSE 0])
    BY DEF Arithmetic
  <2>3. op \in {"XOR", "XORI"} => Arithmetic(op, a, b) =
          Word([k \in Position |-> IF BitOf(a)[k] # BitOf(b)[k] THEN 1 ELSE 0])
    BY DEF Arithmetic
  <2> QED
    BY <1>4, <2>1, <2>2, <2>3, BitwiseResults
<1>11. op \in {"SLL", "SLLI"} => Arithmetic(op, a, b) = (a * 2 ^ n) % M
  <2>1. op \in {"SLL", "SLLI"} => Arithmetic(op, a, b) = ShiftedLeft(a, n)
    BY DEF Arithmetic, n
  <2> QED
    BY <1>2, <1>3, <2>1, LeftShift
<1>12. op \in {"SRL", "SRLI"} => Arithmetic(op, a, b) = (a \div 2 ^ n) % M
  <2>1. op \in {"SRL", "SRLI"} => Arithmetic(op, a, b) = ShiftedRight(a, n, 0)
    BY DEF Arithmetic, n
  <2>2. a \div M = 0 /\ a % M = a
    BY <1>1
  <2>3. (a \div Pow[n]) % M = ShiftedRight(a, n, 0)
    BY <1>1, <1>2, <2>2, RightShift
  <2> QED
    BY <1>3, <2>1, <2>3
<1>13. op \in {"SRA", "SRAI"} => Arithmetic(op, a, b) = (Signed(a) \div 2 ^ n) % M
  <2> DEFINE x == Signed(a)
             fill == BitOf(a)[XLEN - 1]
  <2>1. op \in {"SRA", "SRAI"} => Arithmetic(op, a, b) = ShiftedRight(a, n, fill)
    BY DEF Arithmetic, n
  <2>2. x = SExt(a, Pow[XLEN]) /\ a \in 0 .. Pow[XLEN] - 1 /\ x \in Int
    BY SignedIs
  <2>3. XLEN \in 1 .. XLEN /\ Pow[XLEN] = M
    BY WidthType, PowBase
  <2> HIDE DEF x, fill
  <2>4. x % M = a /\ x \div M \in {0, -1} /\ fill = IF x \div M = 0 THEN 0 ELSE 1
    BY <2>2, <2>3, Extension DEF fill
  <2>5. (x \div Pow[n]) % M = ShiftedRight(a, n, fill)
    BY <1>2, <2>2, <2>4, RightShift
  <2> QED
    BY <1>3, <2>1, <2>5 DEF x
<1> QED
  BY <1>6, <1>7, <1>8, <1>9, <1>10, <1>11, <1>12, <1>13 DEF n

LEMMA ImmediateAgrees ==
  ASSUME NEW ins \in Instruction, NEW s, IsCPUState(s), SourcesHold(ins, s), NEW u,
         ins.op \in ImmShifts \cup ImmArith
  PROVE  Agrees(ins, s, u)
<1> DEFINE a == s.Registers[ins.rs1]
           y == ins.imm % M
           R == Arithmetic(ins.op, a, y)
<1>1. ins.rd \in Reg /\ ins.imm \in Int /\ a \in Val /\ a \in Int /\ y \in Val /\ y \in Int
  <2>1. ins.rd \in Reg /\ ins.imm \in Int /\ a \in Val /\ a \in Int /\ y \in Val
    BY OperandFacts
  <2> QED
    BY <2>1, MType DEF Val
<1>2. generate(ins, s, u) = Immediate(ins, s)
  BY GenerateIs
<1>3. ISA(ins, Zeroed(s)) = To(s, ins.rd, R, (s.PC + 4) % M)
  BY ISAIs
<1> HIDE DEF R
<1>4. ASSUME NEW v \in Int, Immediate(ins, s) = updatePC(Put(s, ins.rd, v)), v % M = R
      PROVE  Agrees(ins, s, u)
  <2>1. Zeroed(updatePC(Put(s, ins.rd, v))) = To(s, ins.rd, v % M, (s.PC + 4) % M)
    BY <1>1, WriteMatches
  <2> QED
    BY <1>2, <1>3, <1>4, <2>1 DEF Agrees
<1>5. CASE ins.op = "ADDI"
  <2> DEFINE v == a + ins.imm
  <2>1. v \in Int
    BY <1>1
  <2>2. (a + y) % M = v % M
    BY <1>1, AddImmediate
  <2>3. R = (a + y) % M
    BY <1>1, <1>5, ArithmeticIs DEF R
  <2>4. Immediate(ins, s) = updatePC(Put(s, ins.rd, v))
    BY <1>5 DEF Immediate, ADDI
  <2> HIDE DEF v
  <2> QED
    BY <1>4, <2>1, <2>2, <2>3, <2>4
<1>6. CASE ins.op \in {"SLTI", "SLTIU"}
  <2> DEFINE v == IF ins.op = "SLTI" THEN ZExt(Signed(a) < Signed(y)) ELSE ZExt(a < y)
  <2>1. v \in Int
    BY DEF ZExt
  <2>2. R = v % M
    BY <1>1, <1>6, ArithmeticIs DEF R
  <2>3. Immediate(ins, s) = updatePC(Put(s, ins.rd, v))
    BY <1>6 DEF Immediate, SLTI, SLTIU
  <2> HIDE DEF v
  <2> QED
    BY <1>4, <2>1, <2>2, <2>3
<1>7. CASE ins.op \in {"ANDI", "ORI", "XORI"}
  <2> DEFINE f == CASE ins.op = "ANDI" -> AndByte [] ins.op = "ORI" -> OrByte [] ins.op = "XORI" -> XorByte
             v == Bytewise(f, a, y)
  <2>1. /\ ins.op = "ANDI" => f = AndByte
        /\ ins.op = "ORI" => f = OrByte
        /\ ins.op = "XORI" => f = XorByte
    BY <1>7
  <2> HIDE DEF f
  <2>2. v \in Int
    BY <1>1, <1>7, <2>1, BytewiseType
  <2>3. R = v % M
    BY <1>1, <1>7, <2>1, ArithmeticIs DEF R
  <2>4. Immediate(ins, s) = updatePC(Put(s, ins.rd, v))
    BY <1>7, <2>1 DEF Immediate, ANDI, ORI, XORI
  <2> HIDE DEF v
  <2> QED
    BY <1>4, <2>2, <2>3, <2>4
<1>8. CASE ins.op \in ImmShifts
  <2> DEFINE n == ins.imm
             d == 2 ^ n
             v == CASE ins.op = "SLLI" -> a * d [] ins.op = "SRLI" -> a \div d [] ins.op = "SRAI" -> Signed(a) \div d
  <2>1. n \in 0 .. XLEN - 1
    BY <1>8 DEF Instruction, WellFormed
  <2>2. y % XLEN = n
    <3>1. XLEN < M
      BY PowExceeds, PowBase, WidthType
    <3>2. n % M = n /\ n % XLEN = n
      BY <2>1, <3>1, WidthType, MType
    <3> QED
      BY <3>2
  <2>3. d \in Int /\ d >= 1
    BY <2>1, PowerType
  <2>4. R = (CASE ins.op = "SLLI" -> a * d [] ins.op = "SRLI" -> a \div d [] ins.op = "SRAI" -> Signed(a) \div d) % M
    <3>1. /\ ins.op = "SLLI" => R = (a * 2 ^ (y % XLEN)) % M
          /\ ins.op = "SRLI" => R = (a \div 2 ^ (y % XLEN)) % M
          /\ ins.op = "SRAI" => R = (Signed(a) \div 2 ^ (y % XLEN)) % M
      BY <1>1, ArithmeticIs DEF R
    <3> HIDE DEF n, y
    <3> QED
      BY <1>8, <2>2, <3>1 DEF ImmShifts
  <2>5. v \in Int
    <3> HIDE DEF d
    <3>1. a * d \in Int /\ a \div d \in Int /\ Signed(a) \div d \in Int
      BY <1>1, <2>3, SignedType
    <3> QED
      BY <1>8, <3>1 DEF ImmShifts
  <2>6. Immediate(ins, s) = updatePC(Put(s, ins.rd, v))
    BY <1>8 DEF Immediate, SLLI, SRLI, SRAI, ImmShifts
  <2>7. R = v % M
    BY <2>4
  <2> HIDE DEF v
  <2> QED
    BY <1>4, <2>5, <2>6, <2>7
<1> QED
  BY <1>5, <1>6, <1>7, <1>8 DEF ImmShifts, ImmArith

\* SLT and SLTU agree when their operands are the same register, and a shift by
\* a register when its amount is less than the width.
LEMMA RegisterAgrees ==
  ASSUME NEW ins \in Instruction, NEW s, IsCPUState(s), SourcesHold(ins, s), NEW u,
         ins.op \in RegShifts \cup RegArith, ~Poison(ins, s),
         Compares(ins.op) => ins.rs1 = ins.rs2
  PROVE  Agrees(ins, s, u)
<1> DEFINE a == s.Registers[ins.rs1]
           b == s.Registers[ins.rs2]
           R == Arithmetic(ins.op, a, b)
<1>1. ins.rd \in Reg /\ a \in Val /\ a \in Int /\ b \in Val /\ b \in Int
  BY OperandFacts
<1>2. generate(ins, s, u) = Register(ins, s, u)
  BY GenerateIs
<1>3. ISA(ins, Zeroed(s)) = To(s, ins.rd, R, (s.PC + 4) % M)
  BY ISAIs
<1> HIDE DEF R
<1>4. ASSUME NEW v \in Int, Register(ins, s, u) = updatePC(Put(s, ins.rd, v)), v % M = R
      PROVE  Agrees(ins, s, u)
  <2>1. Zeroed(updatePC(Put(s, ins.rd, v))) = To(s, ins.rd, v % M, (s.PC + 4) % M)
    BY <1>1, WriteMatches
  <2> QED
    BY <1>2, <1>3, <1>4, <2>1 DEF Agrees
<1>5. CASE ins.op \in {"ADD", "SUB"}
  <2> DEFINE v == IF ins.op = "ADD" THEN a + b ELSE a - b
  <2>1. v \in Int
    BY <1>1
  <2>2. R = v % M
    BY <1>1, <1>5, ArithmeticIs DEF R
  <2>3. Register(ins, s, u) = updatePC(Put(s, ins.rd, v))
    BY <1>5 DEF Register, ADD, SUB
  <2> HIDE DEF v
  <2> QED
    BY <1>4, <2>1, <2>2, <2>3
<1>6. CASE Compares(ins.op)
  <2> DEFINE v == IF ins.op = "SLT" THEN ZExt(Signed(a) < Signed(a)) ELSE ZExt(a < a)
  <2>1. v \in Int
    BY DEF ZExt
  <2>2. ins.op \in {"SLT", "SLTU"} /\ a = b
    BY <1>6 DEF Compares
  <2>3. R = v % M
    BY <1>1, <2>2, ArithmeticIs DEF R
  <2>4. Register(ins, s, u) = updatePC(Put(s, ins.rd, v))
    BY <2>2 DEF Register, SLT, SLTU
  <2> HIDE DEF v
  <2> QED
    BY <1>4, <2>1, <2>3, <2>4
<1>7. CASE ins.op \in {"AND", "OR", "XOR"}
  <2> DEFINE f == CASE ins.op = "AND" -> AndByte [] ins.op = "OR" -> OrByte [] ins.op = "XOR" -> XorByte
             v == Bytewise(f, a, b)
  <2>1. /\ ins.op = "AND" => f = AndByte
        /\ ins.op = "OR" => f = OrByte
        /\ ins.op = "XOR" => f = XorByte
    BY <1>7
  <2> HIDE DEF f
  <2>2. v \in Int
    BY <1>1, <1>7, <2>1, BytewiseType
  <2>3. R = v % M
    BY <1>1, <1>7, <2>1, ArithmeticIs DEF R
  <2>4. Register(ins, s, u) = updatePC(Put(s, ins.rd, v))
    BY <1>7, <2>1 DEF Register, AND, OR, XOR
  <2> HIDE DEF v
  <2> QED
    BY <1>4, <2>2, <2>3, <2>4
<1>8. CASE ins.op \in RegShifts
  <2> DEFINE n == b
             d == 2 ^ n
             v == CASE ins.op = "SLL" -> a * d [] ins.op = "SRL" -> a \div d [] ins.op = "SRA" -> Signed(a) \div d
  <2>1. n \in 0 .. XLEN - 1
    BY <1>1, <1>8, WidthType, MType DEF Poison, Val
  <2>2. b % XLEN = n
    BY <2>1, WidthType
  <2>3. d \in Int /\ d >= 1
    BY <2>1, PowerType
  <2>4. R = (CASE ins.op = "SLL" -> a * d [] ins.op = "SRL" -> a \div d [] ins.op = "SRA" -> Signed(a) \div d) % M
    <3>1. /\ ins.op = "SLL" => R = (a * 2 ^ (b % XLEN)) % M
          /\ ins.op = "SRL" => R = (a \div 2 ^ (b % XLEN)) % M
          /\ ins.op = "SRA" => R = (Signed(a) \div 2 ^ (b % XLEN)) % M
      BY <1>1, ArithmeticIs DEF R
    <3> QED
      BY <1>8, <2>2, <3>1 DEF RegShifts
  <2>5. v \in Int
    <3> HIDE DEF d
    <3>1. a * d \in Int /\ a \div d \in Int /\ Signed(a) \div d \in Int
      BY <1>1, <2>3, SignedType
    <3> QED
      BY <1>8, <3>1 DEF RegShifts
  <2>6. Register(ins, s, u) = updatePC(Put(s, ins.rd, v))
    BY <1>8 DEF Register, Shift, SLL, SRL, SRA, RegShifts
  <2>7. R = v % M
    BY <2>4
  <2> HIDE DEF v
  <2> QED
    BY <1>4, <2>5, <2>6, <2>7
<1> QED
  BY <1>5, <1>6, <1>7, <1>8 DEF RegShifts, RegArith, Compares

\* The access of ins from s stays in the segment of its first byte.
Stays(ins, s) ==
  ins.op \in Loads \cup Stores => InOneSegment(Address(ins, s), Width[ins.op])

LEMMA AccessFacts ==
  ASSUME NEW ins \in Instruction, NEW s, IsCPUState(s), ~Faults(ins, s), Stays(ins, s),
         ins.op \in Loads \cup Stores
  PROVE  LET ea == Address(ins, s)
         IN  /\ ea \in Val /\ mapAddress(ea) # nullptr /\ InBlock(mapAddress(ea), Width[ins.op])
             /\ \A k \in 1 .. Width[ins.op] - 1 : mapAddress(ea + k).Segment = mapAddress(ea).Segment
             /\ ea = (s.Registers[ins.rs1] + (ins.imm % M)) % M
<1>1. s.Registers[ins.rs1] \in Int /\ ins.imm \in Int /\ Address(ins, s) \in Val
  BY OperandFacts
<1>2. (s.Registers[ins.rs1] + (ins.imm % M)) % M = (s.Registers[ins.rs1] + ins.imm) % M
  BY <1>1, AddImmediate
<1>3. Address(ins, s) = (s.Registers[ins.rs1] + ins.imm) % M
  BY DEF Address
<1>4. mapAddress(Address(ins, s)) # nullptr
  BY DEF Faults
<1> QED
  BY <1>1, <1>2, <1>3, <1>4 DEF Stays, InOneSegment

LEMMA LoadAgrees ==
  ASSUME NEW ins \in Instruction, NEW s, IsCPUState(s), SourcesHold(ins, s), NEW u \in Val,
         ~Faults(ins, s), Stays(ins, s), ins.op \in Loads
  PROVE  Agrees(ins, s, u)
<1> DEFINE ea == Address(ins, s)
           m == s.Memory
           R == LoadResult(ins.op, Architectural(s).mem, ea)
           v == CASE ins.op = "LB"  -> SExt(read8(m, ea, u), Byte)
                  [] ins.op = "LH"  -> SExt(read16(m, ea, u), Byte * Byte)
                  [] ins.op = "LW"  -> read32(m, ea, u)
                  [] ins.op = "LBU" -> read8(m, ea, u)
                  [] ins.op = "LHU" -> read16(m, ea, u)
<1>1. /\ ea \in Val /\ mapAddress(ea) # nullptr /\ InBlock(mapAddress(ea), Width[ins.op])
      /\ \A k \in 1 .. Width[ins.op] - 1 : mapAddress(ea + k).Segment = mapAddress(ea).Segment
      /\ ea = (s.Registers[ins.rs1] + (ins.imm % M)) % M
  BY AccessFacts
<1>2. generate(ins, s, u) = Access(ins, s, u)
  BY GenerateIs
<1>3. ISA(ins, Zeroed(s)) = To(s, ins.rd, R, (s.PC + 4) % M)
  BY <1>1, ISAIs
<1>4. /\ ins.op = "LB"  => SExt(read8(m, ea, u), Byte) % M = R
      /\ ins.op = "LH"  => SExt(read16(m, ea, u), Byte * Byte) % M = R
      /\ ins.op = "LW"  => read32(m, ea, u) % M = R
      /\ ins.op = "LBU" => read8(m, ea, u) % M = R
      /\ ins.op = "LHU" => read16(m, ea, u) % M = R
  <2> HIDE DEF ea
  <2> QED
    BY <1>1, LoadResults
<1> HIDE DEF R
<1>5. Access(ins, s, u) = updatePC(Put(s, ins.rd, v))
  BY DEF Access, LB, LH, LW, LBU, LHU, Loads
<1>6. v % M = R
  <2> HIDE DEF ea, m
  <2> QED
    BY <1>4 DEF Loads
<1>7. v \in Int
  <2>1. /\ read8(m, ea, u) \in Val /\ read16(m, ea, u) \in Val /\ read32(m, ea, u) \in Val
    BY <1>1, ReadType DEF IsCPUState
  <2> HIDE DEF ea, m
  <2>2. /\ read8(m, ea, u) \in Int /\ read16(m, ea, u) \in Int /\ read32(m, ea, u) \in Int
    BY <2>1, MType DEF Val
  <2>3. Byte \in Int /\ Byte * Byte \in Int
    BY ByteAssumption
  <2>4. SExt(read8(m, ea, u), Byte) \in Int /\ SExt(read16(m, ea, u), Byte * Byte) \in Int
    BY <2>1, <2>3, SExtType
  <2> QED
    BY <2>2, <2>4 DEF Loads
<1>8. ins.rd \in Reg
  BY OperandFacts
<1> HIDE DEF v
<1>9. Zeroed(updatePC(Put(s, ins.rd, v))) = To(s, ins.rd, v % M, (s.PC + 4) % M)
  BY <1>7, <1>8, WriteMatches
<1> QED
  BY <1>2, <1>3, <1>5, <1>6, <1>9 DEF Agrees

LEMMA StoreIs ==
  ASSUME NEW ins \in Instruction, NEW s, IsCPUState(s), NEW u, ins.op \in Stores
  PROVE  generate(ins, s, u) =
           [ Registers |-> s.Registers,
             PC        |-> (s.PC + 4) % M,
             Memory    |-> StoreBytes(s.Memory, mapAddress(Address(ins, s)), Width[ins.op], s.Registers[ins.rs2]) ]
<1> DEFINE w == StoreBytes(s.Memory, mapAddress(Address(ins, s)), Width[ins.op], s.Registers[ins.rs2])
<1>1. generate(ins, s, u) = Access(ins, s, u)
  BY GenerateIs
<1>2. Access(ins, s, u) = updatePC([s EXCEPT !.Memory = w])
  BY DEF Access, SB, SH, SW, write8, write16, write32, Stores, Width
<1> HIDE DEF w
<1>3. [s EXCEPT !.Memory = w] = [Registers |-> s.Registers, PC |-> s.PC, Memory |-> w]
  BY DEF IsCPUState
<1>4. updatePC([s EXCEPT !.Memory = w]) = [Registers |-> s.Registers, PC |-> (s.PC + 4) % M, Memory |-> w]
  <2> DEFINE t == [s EXCEPT !.Memory = w]
  <2>1. t = [Registers |-> s.Registers, PC |-> s.PC, Memory |-> w]
    BY <1>3
  <2> HIDE DEF t
  <2>2. updatePC(t) = [t EXCEPT !.PC = (t.PC + 4) % M]
    BY DEF updatePC, Jump
  <2> QED
    BY <2>1, <2>2 DEF t
<1> QED
  BY <1>1, <1>2, <1>4 DEF w

LEMMA StoreAgrees ==
  ASSUME NEW ins \in Instruction, NEW s, IsCPUState(s), SourcesHold(ins, s), NEW u \in Val,
         ~Faults(ins, s), Stays(ins, s), ins.op \in Stores
  PROVE  Agrees(ins, s, u)
<1> DEFINE ea == Address(ins, s)
           n == Width[ins.op]
           d == s.Registers[ins.rs2]
           t == generate(ins, s, u)
<1>1. /\ ea \in Val /\ mapAddress(ea) # nullptr /\ InBlock(mapAddress(ea), n)
      /\ \A k \in 1 .. n - 1 : mapAddress(ea + k).Segment = mapAddress(ea).Segment
      /\ ea = (s.Registers[ins.rs1] + (ins.imm % M)) % M
  BY AccessFacts
<1>2. t = [Registers |-> s.Registers, PC |-> (s.PC + 4) % M, Memory |-> StoreBytes(s.Memory, mapAddress(ea), n, d)]
  BY StoreIs
<1>3. d \in Val
  BY OperandFacts
<1>4. n \in 1 .. 4
  BY DEF Stores, Width
<1>5. ISA(ins, Zeroed(s)) =
        [x |-> Cleared(s), pc |-> (s.PC + 4) % M, mem |-> Stored(Architectural(s).mem, ea, n, d)]
  BY <1>1, ISAIs
<1> HIDE DEF ea, n, d, t
<1>6. t.Memory = StoreBytes(s.Memory, mapAddress(ea), n, d) /\ t.Registers = s.Registers /\ t.PC = (s.PC + 4) % M
  BY <1>2
<1>7. Architectural(t).mem = Stored(Architectural(s).mem, ea, n, d)
  BY <1>1, <1>3, <1>4, <1>6, StoreResults
<1>8. Cleared(t) = Cleared(s)
  BY <1>6 DEF Cleared
<1>9. Zeroed(t) = [x |-> Cleared(t), pc |-> t.PC, mem |-> Architectural(t).mem]
  BY ZeroedIs
<1> QED
  BY <1>5, <1>6, <1>7, <1>8, <1>9 DEF Agrees, t

\* The code generated for an instruction does what the instruction set says,
\* from any CPU state and whatever u an undefined read would return: unless it
\* faults, is a shift by too much, compares two registers, leaves the segment of
\* its first byte, or reads a register 0 that was written; or traps in the
\* instruction set, as an illegal instruction, ECALL, EBREAK and a jump to an
\* address that is not a multiple of 4 do.  What it does to register 0 itself is
\* left out.
THEOREM GenerateImplementsISA ==
  ASSUME NEW ins \in Instruction, NEW s, IsCPUState(s), SourcesHold(ins, s), NEW u \in Val,
         ~Faults(ins, s), ~Poison(ins, s), ~Traps(ins, Zeroed(s)), Stays(ins, s),
         Compares(ins.op) => ins.rs1 = ins.rs2
  PROVE  Zeroed(generate(ins, s, u)) = ISA(ins, Zeroed(s))
<1> SUFFICES Agrees(ins, s, u)
  BY DEF Agrees
<1>1. CASE ins.op \in {"LUI", "AUIPC"}
  BY <1>1, UpperAgrees
<1>2. CASE ins.op \in {"JAL", "JALR"}
  BY <1>2, JumpAgrees
<1>3. CASE ins.op \in Branches
  BY <1>3, BranchAgrees
<1>4. CASE ins.op \in Loads
  BY <1>4, LoadAgrees
<1>5. CASE ins.op \in Stores
  BY <1>5, StoreAgrees
<1>6. CASE ins.op \in ImmShifts \cup ImmArith
  BY <1>6, ImmediateAgrees
<1>7. CASE ins.op \in RegShifts \cup RegArith
  BY <1>7, RegisterAgrees
<1>8. CASE ins.op \in Fences
  BY <1>8, FenceAgrees
<1>9. ins.op \in Instr /\ ins.op \notin {"UNKNOWN", "ECALL", "EBREAK"}
  BY DEF Instruction, Traps
<1> QED
  BY <1>1, <1>2, <1>3, <1>4, <1>5, <1>6, <1>7, <1>8, <1>9 DEF Instr, NoEffect, NotAdvancing, Fences

\* Register 0 keeps its value unless it is the destination.
LEMMA KeepsZero ==
  ASSUME NEW ins \in Instruction, NEW s, IsCPUState(s), NEW u \in Val,
         ~Faults(ins, s), ins.op \notin NotAdvancing, ~WritesZero(ins)
  PROVE  generate(ins, s, u).Registers[0] = s.Registers[0]
<1>1. /\ ins.rd \in Reg /\ ins.op \in Instr
      /\ ins.rd # 0 \/ ins.op \in Stores \cup Branches \cup NoEffect
  BY OperandFacts DEF WritesZero
<1>2. ASSUME NEW v, NEW t, ins.rd # 0 PROVE Jump(Put(s, ins.rd, v), t).Registers[0] = s.Registers[0]
  <2>1. Put(s, ins.rd, v) =
          [Registers |-> [s.Registers EXCEPT ![ins.rd] = v % M], PC |-> s.PC, Memory |-> s.Memory]
    BY DEF Put, IsCPUState
  <2> DEFINE p == Put(s, ins.rd, v)
  <2>2. p.Registers[0] = s.Registers[0]
    BY <1>2, <2>1 DEF IsCPUState
  <2> HIDE DEF p
  <2>3. Jump(p, t).Registers = p.Registers
    BY DEF Jump
  <2> QED
    BY <2>2, <2>3 DEF p
<1>3. ASSUME NEW t PROVE Jump(s, t).Registers[0] = s.Registers[0]
  BY DEF Jump
<1>4. ASSUME NEW v, ins.rd # 0 PROVE updatePC(Put(s, ins.rd, v)).Registers[0] = s.Registers[0]
  BY <1>2, <1>4 DEF updatePC
<1>5. CASE ins.op \in {"LUI", "AUIPC"}
  <2>1. ins.rd # 0
    BY <1>1, <1>5 DEF Stores, Branches, NoEffect
  <2>2. \E v : generate(ins, s, u) = updatePC(Put(s, ins.rd, v))
    BY <1>5, GenerateIs DEF Upper, LUI, AUIPC
  <2> QED
    BY <1>4, <2>1, <2>2
<1>6. CASE ins.op \in {"JAL", "JALR"}
  <2>1. ins.rd # 0
    BY <1>1, <1>6 DEF Stores, Branches, NoEffect
  <2>2. \E v, t : generate(ins, s, u) = Jump(Put(s, ins.rd, v), t)
    BY <1>6, JumpStep DEF Transfer, JAL, JALR
  <2> QED
    BY <1>2, <2>1, <2>2
<1>7. CASE ins.op \in Branches
  <2>1. \E t : generate(ins, s, u) = Jump(s, t)
    BY <1>7, JumpStep DEF Transfer, Branches, Branch, BEQ, BNE, BLT, BGE, BLTU, BGEU
  <2> QED
    BY <1>3, <2>1
<1>8. CASE ins.op \in Loads \cup ImmShifts \cup ImmArith \cup RegShifts \cup RegArith
  <2>1. ins.rd # 0
    BY <1>1, <1>8 DEF Loads, ImmShifts, ImmArith, RegShifts, RegArith, Stores, Branches, NoEffect
  <2>2. \E v : generate(ins, s, u) = updatePC(Put(s, ins.rd, v))
    <3>1. CASE ins.op \in Loads
      BY <3>1, GenerateIs, LoadStep
    <3>2. CASE ins.op \in ImmShifts \cup ImmArith
      BY <3>2, GenerateIs, ImmediateStep
    <3>3. CASE ins.op \in RegShifts \cup RegArith
      BY <3>3, GenerateIs, RegisterStep
    <3> QED
      BY <1>8, <3>1, <3>2, <3>3
  <2> QED
    BY <1>4, <2>1, <2>2
<1>9. CASE ins.op \in Stores
  BY <1>9, StoreIs
<1>10. CASE ins.op \in NoEffect
  BY <1>3, <1>10, GenerateIs DEF updatePC
<1> QED
  BY <1>1, <1>5, <1>6, <1>7, <1>8, <1>9, <1>10 DEF Instr
=============================================================================
