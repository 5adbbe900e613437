----------------------------- MODULE ISAProofs ------------------------------
(***************************************************************************)
(* The properties of the run on single instructions, for every width,      *)
(* register count, memory layout and CPU state.                            *)
(***************************************************************************)
EXTENDS MCInstruction, InstructionProofs

-----------------------------------------------------------------------------
(***************************************************************************)
(* The specification of the run from every CPU state, whatever register 0  *)
(* holds, and with every instruction, where TLC takes a sample of them.    *)
(* Garbage is any set of values.                                           *)
(***************************************************************************)
AnyInit ==
  /\ i \in Instruction
  /\ IsCPUState(before)
  /\ after = before
  /\ ran = FALSE

AnySpec == AnyInit /\ [][Next]_vars

Inductive ==
  /\ i \in Instruction
  /\ IsCPUState(before)
  /\ ran \in BOOLEAN
  /\ ~ran => after = before
  /\ ran => ~Faults(i, before) /\ \E u \in Garbage : after = generate(i, before, u)

LEMMA LargeM == M >= 16
<1>1. Byte \in Nat /\ Byte >= 2
  BY ByteAssumption
<1>2. Byte * Byte \in Nat /\ Byte * Byte >= 4
  BY <1>1
<1>3. (Byte * Byte) * (Byte * Byte) >= 16
  BY <1>2
<1>4. M = (Byte * Byte) * (Byte * Byte)
  BY <1>1 DEF M
<1> QED
  BY <1>3, <1>4

LEMMA InductiveInvariant == AnySpec => []Inductive
<1>1. AnyInit => Inductive
  BY DEF AnyInit, Inductive
<1>2. Inductive /\ [Next]_vars => Inductive'
  <2> SUFFICES ASSUME Inductive, [Next]_vars PROVE Inductive'
    OBVIOUS
  <2>1. CASE Next
    BY <2>1 DEF Inductive, Next, Run
  <2>2. CASE UNCHANGED vars
    BY <2>2 DEF Inductive, vars
  <2> QED
    BY <2>1, <2>2
<1> QED
  BY <1>1, <1>2, PTL DEF AnySpec

\* Whatever instruction runs, on whatever CPU state and undefined value, the
\* state after it is a CPUState: registers and PC of 32 bits, segments of the
\* same extent.
THEOREM InstructionTypeCorrect == AnySpec => []TypeOK
<1>1. ASSUME Inductive PROVE TypeOK
  <2>1. CASE ~ran
    BY <1>1, <2>1 DEF Inductive, TypeOK
  <2>2. CASE ran
    BY <1>1, <2>2, GarbageAssumption, GenerateType DEF Inductive, TypeOK
  <2> QED
    BY <2>1, <2>2
<1> QED
  BY <1>1, InductiveInvariant, PTL

\* What the named differences leave: the code does what RV32I says, register 0
\* aside, and that register keeps its value unless a result goes to it.
LEMMA RanAgrees ==
  ASSUME Inductive, ran, ~Differs, Contained
  PROVE  /\ Zeroed(after) = Expected
         /\ ~WritesZero(i) => after.Registers[0] = before.Registers[0]
<1>1. /\ i \in Instruction /\ IsCPUState(before) /\ ~Faults(i, before)
  BY DEF Inductive
<1>2. PICK u \in Garbage : after = generate(i, before, u)
  BY DEF Inductive
<1>3. u \in Val
  BY GarbageAssumption
<1>4. /\ SourcesHold(i, before) /\ ~Poison(i, before)
      /\ ~Traps(i, Zeroed(before))
      /\ Compares(i.op) => i.rs1 = i.rs2
  BY DEF Differs, SourcesHold
<1>5. Stays(i, before)
  BY DEF Stays, Contained
<1>6. Zeroed(after) = ISA(i, Zeroed(before))
  BY <1>1, <1>2, <1>3, <1>4, <1>5, GenerateImplementsISA
<1>7. i.op \notin NotAdvancing
  BY <1>4 DEF Traps, NotAdvancing
<1>8. ~WritesZero(i) => after.Registers[0] = before.Registers[0]
  BY <1>1, <1>2, <1>3, <1>7, KeepsZero
<1> QED
  BY <1>6, <1>8 DEF Expected

\* An instruction whose destination is register 0 differs from RV32I in that
\* register alone: the next PC, the other registers and memory are right.
THEOREM OnlyZeroDiffers == AnySpec => []OnlyZeroRegisterDiffers
<1>1. ASSUME Inductive PROVE OnlyZeroRegisterDiffers
  BY <1>1, RanAgrees DEF OnlyZeroRegisterDiffers
<1> QED
  BY <1>1, InductiveInvariant, PTL

\* Everywhere but in the cases that Differs names, among them every trap of
\* RV32I, generated code computes from any CPU state the result, the next PC,
\* every register and every byte of memory that RV32I says, bit by bit.
THEOREM ISAImplemented == AnySpec => []ImplementsISA
<1>1. ASSUME Inductive PROVE ImplementsISA
  BY <1>1, RanAgrees DEF ImplementsISA
<1> QED
  BY <1>1, InductiveInvariant, PTL

\* The sample that TLC runs is part of AnySpec: the theorems above speak of
\* every step that the run takes.
THEOREM RunIsCovered ==
  ASSUME NumRegs = 3, SegmentData = MCSegmentData
  PROVE  Spec => AnySpec
<1>1. Init => AnyInit
  <2> SUFFICES ASSUME Init PROVE AnyInit
    OBVIOUS
  <2>1. /\ i \in Instructions /\ before \in CPUStates
        /\ after = before /\ ran = FALSE
    BY DEF Init
  <2>2. i \in Instruction
    <3>1. PICK op \in Instr :
            i \in [op : {op}, rd : {0, 1}, rs1 : {0, 1}, rs2 : {1, 2}, imm : Immediates(op)]
      BY <2>1 DEF Instructions
    <3>2. i.op = op /\ i.imm \in Immediates(op)
      BY <3>1
    <3>3. {0, 1, 2} \subseteq Reg
      BY DEF Reg
    <3>4. Immediates(op) \subseteq Int
      BY WidthType DEF Immediates
    <3>5. op \in ImmShifts => i.imm \in 0 .. XLEN - 1
      <4> SUFFICES ASSUME op \in ImmShifts PROVE Immediates(op) = 0 .. XLEN - 1
        BY <3>2
      <4>1. op \notin Branches \cup {"JAL"} /\ op \notin RegArith \cup RegShifts \cup NoEffect \cup NotAdvancing
        BY DEF ImmShifts, Branches, RegArith, RegShifts, NoEffect, NotAdvancing
      <4> QED
        BY <4>1, Zenon DEF Immediates
    <3>6. op \in Branches \cup {"JAL"} => i.imm % 2 = 0
      <4> SUFFICES ASSUME op \in Branches \cup {"JAL"} PROVE i.imm % 2 = 0
        OBVIOUS
      <4>1. op \notin ImmShifts /\ op \notin RegArith \cup RegShifts \cup NoEffect \cup NotAdvancing
        BY DEF ImmShifts, Branches, RegArith, RegShifts, NoEffect, NotAdvancing
      <4>2. Immediates(op) = {-8, -2, 4, 6}
        BY <4>1, Zenon DEF Immediates
      <4> QED
        BY <3>2, <4>2
    <3> QED
      BY <3>1, <3>2, <3>3, <3>4, <3>5, <3>6 DEF Instruction, WellFormed
  <2>3. IsCPUState(before)
    <3>1. /\ before.Registers \in [Reg -> Val] /\ before.PC \in {4, 12}
          /\ before.Memory \in Contents
          /\ before = [Registers |-> before.Registers, PC |-> before.PC, Memory |-> before.Memory]
      BY <2>1 DEF CPUStates
    <3>2. 4 \in Val /\ 12 \in Val
      BY LargeM, MType DEF Val
    <3>3. IsContents(before.Memory)
      <4>1. PICK ones \in {{0, 3, 4}, {1, 2, 5}} :
              before.Memory = << [o \in Allocation(1) |-> IF o \in ones THEN 1 ELSE 0],
                                 [o \in Allocation(2) |-> IF o \in ones THEN 0 ELSE 1] >>
        BY <3>1 DEF Contents
      <4>2. Segment = {1, 2}
        BY DEF Segment, MCSegmentData
      <4>3. 0 \in ByteVal /\ 1 \in ByteVal
        BY ByteAssumption DEF ByteVal
      <4> QED
        BY <4>1, <4>2, <4>3 DEF IsContents
    <3> QED
      BY <3>1, <3>2, <3>3 DEF IsCPUState
  <2> QED
    BY <2>1, <2>2, <2>3 DEF AnyInit
<1> QED
  BY <1>1, PTL DEF Spec, AnySpec
=============================================================================
