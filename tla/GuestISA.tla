------------------------------ MODULE GuestISA ------------------------------
(***************************************************************************)
(* What the RV32I base instruction set says an instruction does, written   *)
(* from the instruction set and not from the translator: bit by bit, with  *)
(* register 0 reading as zero and never written, on a flat memory of the   *)
(* guest addresses that are mapped.                                        *)
(*                                                                         *)
(* Architectural(s) is the guest's view of a CPUState of the translator.   *)
(***************************************************************************)
EXTENDS Instruction

Mapped == {a \in Val : mapAddress(a) # nullptr}

Architectural(s) ==
  [ x   |-> s.Registers,
    pc  |-> s.PC,
    mem |-> [a \in Mapped |->
               LET p == mapAddress(a) IN s.Memory[p.Segment][p.Offset]] ]

\* The same with register 0 as the instruction set has it.
Zeroed(s) == [Architectural(s) EXCEPT !.x[0] = 0]

-----------------------------------------------------------------------------
(***************************************************************************)
(* Words as bits.                                                          *)
(***************************************************************************)
Position == 0 .. XLEN - 1
BitOf(v) == [k \in Position |-> (v \div 2 ^ k) % 2]
Word(bit) == CHOOSE v \in Val : BitOf(v) = bit

Flip(v) == (v + M \div 2) % M
Less(a, b) == Flip(a) < Flip(b)

Extended(v, size, fill) ==
  Word([k \in Position |-> IF k < size THEN BitOf(v)[k] ELSE fill])
SignExtended(v, size) == Extended(v, size, BitOf(v)[size - 1])

ShiftedLeft(v, n)  == Word([k \in Position |-> IF k >= n THEN BitOf(v)[k - n] ELSE 0])
ShiftedRight(v, n, fill) ==
  Word([k \in Position |-> IF k + n \in Position THEN BitOf(v)[k + n] ELSE fill])

\* A word is four bytes.
ByteBits == XLEN \div 4
ASSUME ByteBitsAssumption == XLEN = 4 * ByteBits /\ ByteBits > 0 /\ 2 ^ ByteBits = Byte

\* What the provers need to know of ^, besides WidthAssumption.
ASSUME PowerAssumption == 2 ^ 0 = 1 /\ \A k \in 0 .. XLEN - 1 : 2 ^ (k + 1) = 2 * 2 ^ k

\* LLVM's and, or and xor on a byte are what their names say, bit by bit.
ASSUME BitwiseMeaning ==
  \A a, b \in ByteVal : \A k \in 0 .. ByteBits - 1 :
    /\ BitOf(AndByte[<<a, b>>])[k] = IF BitOf(a)[k] = 1 /\ BitOf(b)[k] = 1 THEN 1 ELSE 0
    /\ BitOf(OrByte[<<a, b>>])[k]  = IF BitOf(a)[k] = 1 \/ BitOf(b)[k] = 1 THEN 1 ELSE 0
    /\ BitOf(XorByte[<<a, b>>])[k] = IF BitOf(a)[k] # BitOf(b)[k] THEN 1 ELSE 0

-----------------------------------------------------------------------------
(***************************************************************************)
(* The result that an instruction writes to rd, from the values a and b of *)
(* its source operands.                                                    *)
(***************************************************************************)
Arithmetic(op, a, b) ==
  LET A == BitOf(a)
      B == BitOf(b)
      n == b % XLEN
  IN  CASE op \in {"ADD", "ADDI"}   -> (a + b) % M
        [] op = "SUB"               -> (a - b) % M
        [] op \in {"SLT", "SLTI"}   -> IF Less(a, b) THEN 1 ELSE 0
        [] op \in {"SLTU", "SLTIU"} -> IF a < b THEN 1 ELSE 0
        [] op \in {"AND", "ANDI"}   -> Word([k \in Position |-> IF A[k] = 1 /\ B[k] = 1 THEN 1 ELSE 0])
        [] op \in {"OR", "ORI"}     -> Word([k \in Position |-> IF A[k] = 1 \/ B[k] = 1 THEN 1 ELSE 0])
        [] op \in {"XOR", "XORI"}   -> Word([k \in Position |-> IF A[k] # B[k] THEN 1 ELSE 0])
        [] op \in {"SLL", "SLLI"}   -> ShiftedLeft(a, n)
        [] op \in {"SRL", "SRLI"}   -> ShiftedRight(a, n, 0)
        [] op \in {"SRA", "SRAI"}   -> ShiftedRight(a, n, A[XLEN - 1])

Taken(op, a, b) ==
  CASE op = "BEQ"  -> a = b       [] op = "BNE"  -> a # b
    [] op = "BLT"  -> Less(a, b)  [] op = "BGE"  -> ~Less(a, b)
    [] op = "BLTU" -> a < b       [] op = "BGEU" -> ~(a < b)

\* Little-endian: the bits of the byte at ea are the lowest.
Loaded(mem, ea, n) ==
  Word([k \in Position |->
          IF k < n * ByteBits
          THEN BitOf(mem[(ea + k \div ByteBits) % M])[k % ByteBits]
          ELSE 0])

LoadResult(op, mem, ea) ==
  LET v    == Loaded(mem, ea, Width[op])
      size == Width[op] * ByteBits
  IN  IF op \in {"LB", "LH"} THEN SignExtended(v, size) ELSE v

Stored(mem, ea, n, v) ==
  [a \in DOMAIN mem |->
     IF (a - ea) % M < n
     THEN Word([k \in Position |->
                  IF k < ByteBits THEN BitOf(v)[k + ByteBits * ((a - ea) % M)] ELSE 0])
     ELSE mem[a]]

-----------------------------------------------------------------------------
(***************************************************************************)
(* The instruction on the architectural state m.  ECALL, EBREAK and        *)
(* illegal instructions trap and are not defined here.  An access to       *)
(* memory need not be aligned: the instruction set lets it be exact.       *)
(***************************************************************************)
\* They order the accesses of several harts; PAUSE is a hint.
Fences == {"FENCE", "FENCETSO", "PAUSE"}

ISA(i, m) ==
  LET x(r)  == IF r = 0 THEN 0 ELSE m.x[r]
      a     == x(i.rs1)
      b     == x(i.rs2)
      imm   == i.imm % M
      ea    == (a + imm) % M
      next  == (m.pc + 4) % M
      To(pc, v) == [x |-> [m.x EXCEPT ![i.rd] = IF i.rd = 0 THEN 0 ELSE v],
                    pc |-> pc, mem |-> m.mem]
      Write(v)  == To(next, v)
      Goto(pc)  == [x |-> m.x, pc |-> pc, mem |-> m.mem]
  IN  CASE i.op = "LUI"   -> Write(imm)
        [] i.op = "AUIPC" -> Write((m.pc + imm) % M)
        [] i.op = "JAL"   -> To((m.pc + imm) % M, next)
        [] i.op = "JALR"  -> To(Word([BitOf(ea) EXCEPT ![0] = 0]), next)
        [] i.op \in Branches -> Goto(IF Taken(i.op, a, b) THEN (m.pc + imm) % M ELSE next)
        [] i.op \in Loads  -> Write(LoadResult(i.op, m.mem, ea))
        [] i.op \in Stores -> [x |-> m.x, pc |-> next, mem |-> Stored(m.mem, ea, Width[i.op], b)]
        [] i.op \in ImmArith \cup ImmShifts -> Write(Arithmetic(i.op, a, imm))
        [] i.op \in RegArith \cup RegShifts -> Write(Arithmetic(i.op, a, b))
        [] i.op \in Fences -> Goto(next)

\* There are no instructions of two bytes in RV32I, so a jump, or a branch that
\* is taken, raises an exception if its target is not a multiple of 4, and no
\* instruction is at such an address.
Misaligned(a) == a % 4 # 0

Traps(i, m) ==
  \/ i.op \in {"UNKNOWN", "ECALL", "EBREAK"}
  \/ Misaligned(m.pc)
  \/ i.op \in {"JAL", "JALR"} \cup Branches /\ Misaligned(ISA(i, m).pc)

-----------------------------------------------------------------------------
(***************************************************************************)
(* What tells apart where the translator does something else.              *)
(***************************************************************************)
Compares(op) == op \in {"SLT", "SLTU"}

\* The registers an instruction reads.
Sources(i) ==
  IF i.op \in Stores \cup Branches \cup RegArith \cup RegShifts THEN {i.rs1, i.rs2}
  ELSE IF i.op \in {"JALR"} \cup Loads \cup ImmArith \cup ImmShifts THEN {i.rs1}
  ELSE {}

\* A result goes to register 0, which keeps it.
WritesZero(i) == i.rd = 0 /\ i.op \notin Stores \cup Branches \cup NoEffect

\* The n bytes from address a, which is mapped, are shown by one segment: an
\* access of the translator finds its segment by the first byte alone.
InOneSegment(a, n) ==
  LET p == mapAddress(a)
  IN  InBlock(p, n) /\ \A k \in 1 .. n - 1 : mapAddress(a + k).Segment = p.Segment
=============================================================================
