--------------------------- MODULE MCInstruction ---------------------------
(***************************************************************************)
(* generate() against the instruction set: one step of every instruction   *)
(* from every value of two registers, on 4-bit words, with a register 0    *)
(* that may have been written, and memory in two segments that overlap.    *)
(***************************************************************************)
EXTENDS GuestISA, FiniteSets

CONSTANT Garbage  \* the values an undefined result may take

ASSUME GarbageAssumption == Garbage \subseteq Val /\ Garbage # {}

VARIABLES i, before, after, ran
vars == <<i, before, after, ran>>

MCSegmentData ==
  << [GuestAddress |-> 2, MemorySize |-> 6], [GuestAddress |-> 6, MemorySize |-> 5] >>

MCAnd == [p \in ByteVal \X ByteVal |-> p[1] * p[2]]
MCOr  == [p \in ByteVal \X ByteVal |-> IF p = <<0, 0>> THEN 0 ELSE 1]
MCXor == [p \in ByteVal \X ByteVal |-> IF p[1] = p[2] THEN 0 ELSE 1]

MCGarbage == {0, 9}

Contents ==
  { << [o \in Allocation(1) |-> IF o \in ones THEN 1 ELSE 0],
       [o \in Allocation(2) |-> IF o \in ones THEN 0 ELSE 1] >> :
    ones \in {{0, 3, 4}, {1, 2, 5}} }

CPUStates ==
  [ Registers : {x \in [Reg -> Val] : x[0] \in {0, 5}},
    PC : {4, 12}, Memory : Contents ]

\* The immediates that the encoding allows an instruction.
Immediates(op) ==
  CASE op \in Branches \cup {"JAL"} -> {-8, -2, 4, 6}
    [] op \in ImmShifts -> 0 .. XLEN - 1
    [] op \in RegArith \cup RegShifts \cup NoEffect \cup NotAdvancing -> {0}
    [] OTHER -> {-8, -3, -1, 0, 1, 7}

Instructions ==
  UNION { [op : {op}, rd : {0, 1}, rs1 : {0, 1}, rs2 : {1, 2}, imm : Immediates(op)] : op \in Instr }

\* Registers that an instruction does not read are not varied, nor is memory
\* that it does not access.
Relevant(j, s) ==
  /\ j.op \notin Stores \cup Branches \cup RegArith \cup RegShifts =>
       s.Registers[2] = 0 /\ j.rs2 = 2
  /\ j.op \notin Loads \cup Stores => s.Memory = CHOOSE m \in Contents : TRUE
  /\ j.op \in Stores \cup Branches => j.rd = 1

Init ==
  /\ i \in Instructions
  /\ before \in {s \in CPUStates : Relevant(i, s)}
  /\ after = before
  /\ ran = FALSE

Run ==
  /\ ~ran
  /\ ~Faults(i, before)
  /\ \E u \in Garbage : after' = generate(i, before, u)
  /\ ran' = TRUE
  /\ UNCHANGED <<i, before>>

Next == Run
Spec == Init /\ [][Next]_vars

-----------------------------------------------------------------------------
\* The state after an instruction is a CPUState: 32-bit registers and PC, and
\* segments of the same extent.
TypeOK == IsCPUState(after)

\* Where the translator and RV32I differ: a register 0 is read that was
\* written; SLT and SLTU compare rs1 with itself; the amount of a register
\* shift is not reduced to its low bits; there are no traps, neither for ECALL,
\* EBREAK and UNKNOWN nor for a jump to an address that is not a multiple of 4.
Differs ==
  \/ 0 \in Sources(i) /\ before.Registers[0] # 0
  \/ Compares(i.op) /\ i.rs1 # i.rs2
  \/ Poison(i, before)
  \/ Traps(i, Zeroed(before))

\* A load or store all of whose bytes are in the segment of its first byte.
Contained ==
  i.op \in Loads \cup Stores => InOneSegment(Address(i, before), Width[i.op])

\* What registers, PC and memory are to be, but for register 0.
Expected == ISA(i, Zeroed(before))

\* Everywhere else generated code does exactly what the instruction set says:
\* result, next PC, every other register and every byte of memory.
ImplementsISA ==
  ran /\ ~Differs /\ ~WritesZero(i) /\ Contained
    => Zeroed(after) = Expected /\ after.Registers[0] = before.Registers[0]

\* A result that goes to register 0, which keeps it, changes nothing else: the
\* next PC, the other registers and memory are as the instruction set says.
OnlyZeroRegisterDiffers ==
  ran /\ ~Differs /\ WritesZero(i) /\ Contained => Zeroed(after) = Expected

\* SLT and SLTU set rd to 1 when rs1 is less than rs2.
ComparesSources ==
  (/\ ran
   /\ Compares(i.op)
   /\ i.rd # 0
   /\ 0 \in Sources(i) => before.Registers[0] = 0)
    => Zeroed(after) = Expected
=============================================================================
