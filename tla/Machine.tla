------------------------------ MODULE Machine ------------------------------
(***************************************************************************)
(* The translator implements a RISC-V machine: the interpreter of          *)
(* Interpreter with RV32I as its instruction set and a flat memory.        *)
(*                                                                         *)
(* Register 0 of the translator keeps what is written to it, which does no *)
(* harm until it is read.  So the machine knows of register 0 only whether *)
(* it is tainted: whether the translator may hold something else than 0.   *)
(***************************************************************************)
EXTENDS Refinement, GuestISA

VARIABLE strayed  \* whether code ran that does not do what RV32I says

mvars == <<hvars, strayed>>

-----------------------------------------------------------------------------
(***************************************************************************)
(* The machine that the guest is to see: m is the architectural state.     *)
(***************************************************************************)
GuestView(s) == [m |-> Zeroed(s), tainted |-> s.Registers[0] # 0]

EffectiveAddress(i, m) == (m.x[i.rs1] + i.imm) % M
Accesses(i) == i.op \in Loads \cup Stores
Unmapped(i, m) == Accesses(i) /\ EffectiveAddress(i, m) \notin Mapped

\* A word that is not all in one segment may be fetched as anything.
FetchedAt(mem, a) ==
  IF a \notin Mapped THEN {}
  ELSE IF InOneSegment(a, 4) THEN {Decoded[Loaded(mem, a, 4)]}
  ELSE {Decoded[w] : w \in Val}

\* The translator does not follow RV32I where an instruction reads a register
\* 0 that was written, where SLT or SLTU compares two registers, where the
\* amount of a register shift is out of range, where a load or a store crosses
\* the end of a segment, and at traps, which the translator does not have: an
\* illegal instruction, ECALL, EBREAK, or a jump to the middle of a word.
FollowsISA(i, c) ==
  /\ ~(c.tainted /\ 0 \in Sources(i))
  /\ Compares(i.op) => i.rs1 = i.rs2
  /\ i.op \in RegShifts => c.m.x[i.rs2] < XLEN
  /\ ~Traps(i, c.m)
  /\ Accesses(i) /\ ~Unmapped(i, c.m) => InOneSegment(EffectiveAddress(i, c.m), Width[i.op])

MachineStarts == {GuestView(s) : s \in Starts}
MachineBytes(c) == WordAt(c.m.pc)
MachineFetches(c) == FetchedAt(c.m.mem, c.m.pc)
MachineFaults(i, c) == Unmapped(i, c.m)
\* An instruction that writes a result to register 0 may taint it.
MachineSteps(i, c) ==
  {[m |-> ISA(i, c.m), tainted |-> b] : b \in IF WritesZero(i) THEN BOOLEAN ELSE {c.tainted}}
MachineWrites(i, c) ==
  IF i.op \in Stores
  THEN EffectiveAddress(i, c.m) .. EffectiveAddress(i, c.m) + Width[i.op] - 1
  ELSE {}

\* Straight-line code ahead leaves the memory, or LLVM may fail.
MachineHostFails(c) ==
  \/ JITMayFail
  \/ \E k \in 0 .. Threshold - 1 :
       /\ (c.m.pc + 4 * k) % M \notin Mapped
       /\ \A j \in 0 .. k - 1 :
            \E i \in FetchedAt(c.m.mem, (c.m.pc + 4 * j) % M) : i.op \notin Terminators

-----------------------------------------------------------------------------
(***************************************************************************)
(* The translator, with a record of whether it has strayed from RV32I.     *)
(***************************************************************************)
Stray ==
  strayed' = (strayed \/ Patched(State.PC) \/ ~FollowsISA(Current, GuestView(State)))

MInit == HInit /\ strayed = FALSE

MNext ==
  \/ (HExecute \/ HAccessFault) /\ Stray
  \/ Unwatched /\ UNCHANGED strayed

MSpec == MInit /\ [][MNext]_mvars

-----------------------------------------------------------------------------
(***************************************************************************)
(* Properties.                                                             *)
(***************************************************************************)

\* What the guest sees of the translator is a RISC-V machine: registers, PC
\* and every byte of memory are those of RV32I at each step, through blocks,
\* cache and generated code, until the program runs code that it stored or
\* comes to one of the places that FollowsISA names.  That register 0 can be
\* written shows only when it is read afterwards.
RISCV == INSTANCE Interpreter WITH
  Starts <- MachineStarts, CodeBytes <- MachineBytes, Found <- MachineFetches,
  Implemented <- FollowsISA, Fails <- MachineFaults, Effects <- MachineSteps,
  Writes <- MachineWrites, HostFails <- MachineHostFails,
  cpu <- GuestView(State),
  status <- IF strayed THEN "lost" ELSE IF mode \in {"exit", "wild"} THEN "stopped" ELSE "running"
ImplementsRISCV == RISCV!Spec
=============================================================================
