-------------------------- MODULE RefinementProofs --------------------------
(***************************************************************************)
(* The translator implements the interpreter, for every memory layout,     *)
(* every program, every Threshold and whether or not LLVM may fail.        *)
(***************************************************************************)
EXTENDS Machine, TranslatorProofs

-----------------------------------------------------------------------------
(***************************************************************************)
(* The history adds nothing to what the translator does.                   *)
(***************************************************************************)
LEMMA HistoryOnly == HNext => Next
BY DEF HNext, HExecute, HAccessFault, Unwatched, Next

\* What is proved of the translator holds of it with its history.
LEMMA HistoryInvariance == HSpec => []IInv
<1>1. HInit => IInv
  BY InitInv DEF HInit
<1>2. IInv /\ [HNext]_hvars => IInv'
  <2>1. [HNext]_hvars => [Next]_vars
    BY HistoryOnly DEF hvars
  <2> QED
    BY <2>1, NextInv
<1> QED
  BY <1>1, <1>2, PTL DEF HSpec

-----------------------------------------------------------------------------
(***************************************************************************)
(* What a store does to memory.                                            *)
(***************************************************************************)
LEMMA StoreMemory ==
  ASSUME NEW i \in Instruction, NEW s, IsCPUState(s), NEW u \in Val, i.op \in Stores
  PROVE  /\ generate(i, s, u).Memory =
              StoreBytes(s.Memory, mapAddress(Address(i, s)), Width[i.op], s.Registers[i.rs2])
         /\ Width[i.op] \in 1 .. 4
<1> DEFINE a == Address(i, s)
           d == s.Registers[i.rs2]
<1>1. s.PC \in Int
  BY OperandFacts
<1>2. generate(i, s, u) = Access(i, s, u)
  BY DEF generate, Loads, Stores, ImmShifts, ImmArith, RegShifts,
         RegArith, NoEffect, NotAdvancing, Branches
<1>3. ASSUME NEW m PROVE updatePC([s EXCEPT !.Memory = m]).Memory = m
  BY DEF updatePC, Jump, IsCPUState
<1>4. CASE i.op = "SB"
  <2>1. Access(i, s, u) = updatePC([s EXCEPT !.Memory = write8(s.Memory, a, d)])
    BY <1>4 DEF Access, SB
  <2>2. Width[i.op] = 1
    BY <1>4 DEF Width
  <2>3. generate(i, s, u).Memory = write8(s.Memory, a, d)
    BY <1>2, <1>3, <2>1
  <2> QED
    BY <2>2, <2>3 DEF write8
<1>5. CASE i.op = "SH"
  <2>1. Access(i, s, u) = updatePC([s EXCEPT !.Memory = write16(s.Memory, a, d)])
    BY <1>5 DEF Access, SH
  <2>2. Width[i.op] = 2
    BY <1>5 DEF Width
  <2>3. generate(i, s, u).Memory = write16(s.Memory, a, d)
    BY <1>2, <1>3, <2>1
  <2> QED
    BY <2>2, <2>3 DEF write16
<1>6. CASE i.op = "SW"
  <2>1. Access(i, s, u) = updatePC([s EXCEPT !.Memory = write32(s.Memory, a, d)])
    BY <1>6 DEF Access, SW
  <2>2. Width[i.op] = 4
    BY <1>6 DEF Width
  <2>3. generate(i, s, u).Memory = write32(s.Memory, a, d)
    BY <1>2, <1>3, <2>1
  <2> QED
    BY <2>2, <2>3 DEF write32
<1> QED
  BY <1>4, <1>5, <1>6 DEF Stores

-----------------------------------------------------------------------------
(***************************************************************************)
(* Every instruction of the cache whose word was not stored to is fresh.   *)
(***************************************************************************)

\* A step only adds to the bytes that were stored to.
LEMMA StoredGrows ==
  ASSUME [HNext]_hvars
  PROVE  /\ stored \subseteq stored'
         /\ \A a : Patched(a) => Patched(a)'
<1>1. stored \subseteq stored'
  BY DEF HNext, HExecute, HAccessFault, Unwatched, hvars
<1> QED
  BY <1>1 DEF Patched

\* A store that runs leaves the words alone that it does not patch.
LEMMA StoreKeepsWord ==
  ASSUME IInv, HExecute, Current.op \in Stores,
         NEW a \in Val, NEW i, InMemory(a, i), ~Patched(a)'
  PROVE  InMemory(a, i)'
<1>1. /\ Current \in Instruction /\ IsCPUState(State) /\ ~Faults(Current, State)
  BY CurrentType DEF HExecute, Execute
<1> DEFINE e == Address(Current, State)
           n == Width[Current.op]
           d == State.Registers[Current.rs2]
<1>2. PICK u \in Garbage : State' = generate(Current, State, u)
  BY DEF HExecute, Execute
<1>3. e \in Val /\ d \in Val /\ IsContents(State.Memory) /\ mapAddress(e) # nullptr
  BY <1>1, OperandFacts DEF IsCPUState, Faults
<1>4. State'.Memory = StoreBytes(State.Memory, mapAddress(e), n, d) /\ n \in 1 .. 4
  BY <1>1, <1>2, StoreMemory, GarbageAssumption
<1>5. (a .. a + 3) \cap (e .. e + n - 1) = {}
  BY DEF HExecute, Writes, Patched, WordAt
<1>6. mapAddress(a) # nullptr
  BY DEF InMemory
<1>7. PICK w \in Garbage : i = Decoded[read32(State.Memory, a, w)]
  BY DEF InMemory
<1>8. read32(State'.Memory, a, w) = read32(State.Memory, a, w)
  <2> HIDE DEF e, n, d
  <2> QED
    BY <1>3, <1>4, <1>5, <1>6, ReadKept, GarbageAssumption
<1> QED
  BY <1>6, <1>7, <1>8 DEF InMemory

LEMMA AddressOfType ==
  ASSUME IInv, NEW n \in DOMAIN JIT, NEW k \in Nat
  PROVE  AddressOf(n, k) \in Val
<1>1. n \in Names
  BY DEF IInv, TypeOK
<1>2. StartPC(n) + 4 * (k - 1) \in Int
  BY <1>1, MType DEF Names, FuncName, StartPC, Val
<1> QED
  BY <1>2, ModVal DEF AddressOf

LEMMA FreshKept ==
  ASSUME IInv, Fresh, [HNext]_hvars
  PROVE  Fresh'
<1>1. [Next]_vars
  BY HistoryOnly DEF hvars
<1> SUFFICES ASSUME NEW n \in DOMAIN JIT', NEW k \in 1 .. Len(JIT'[n]),
                    ~Patched(AddressOf(n, k))'
             PROVE  InMemory(AddressOf(n, k), JIT[n][k])'
  BY DEF Fresh, AddressOf
<1>2. CASE n \notin DOMAIN JIT
  <2>1. Coherent(n)'
    BY <1>1, <1>2, NewBlockCoherent
  <2> QED
    BY <2>1 DEF Coherent, AddressOf
<1>3. CASE n \in DOMAIN JIT
  <2> DEFINE a == AddressOf(n, k)
  <2>0. PICK i : i = JIT[n][k]
    OBVIOUS
  <2>1. JIT'[n] = JIT[n]
    BY <1>1, <1>3, JITGrows
  <2>2. ~Patched(a)' /\ ~Patched(a)
    BY StoredGrows DEF AddressOf
  <2>3. InMemory(a, i)
    BY <1>3, <2>0, <2>1, <2>2 DEF Fresh
  <2>4. a \in Val
    <3>1. Len(JIT[n]) \in Nat
      BY <1>3 DEF IInv, TypeOK
    <3> QED
      BY <1>3, <2>1, <3>1, AddressOfType
  <2>5. CASE HExecute /\ Current.op \in Stores
    <3>1. InMemory(a, i)'
      BY <2>2, <2>3, <2>4, <2>5, StoreKeepsWord
    <3> QED
      BY <2>0, <2>1, <3>1 DEF InMemory
  <2>6. CASE ~(HExecute /\ Current.op \in Stores)
    <3>1. State'.Memory = State.Memory
      <4>1. CASE HExecute
        <5>1. ~(mode = "run" /\ Current.op \in Stores)
          BY <2>6, <4>1
        <5> QED
          BY <1>1, <5>1, MemoryKept
      <4>2. CASE ~HExecute
        BY <4>2 DEF HNext, HAccessFault, Unwatched, hvars, vars, Find, BeginTranslate,
             TranslateInstr, FetchFault, AddModule, AddModuleFails, Call, LookupFails,
             AccessFault, Return, Terminated
      <4> QED
        BY <4>1, <4>2
    <3> QED
      BY <2>0, <2>1, <2>3, <3>1 DEF InMemory
  <2> QED
    BY <2>5, <2>6
<1> QED
  BY <1>2, <1>3

-----------------------------------------------------------------------------
(***************************************************************************)
(* While nothing is lost, the PC is where the block is.                    *)
(***************************************************************************)
LEMMA OnTrackKept ==
  ASSUME IInv, HTypeOK, OnTrack, [HNext]_hvars
  PROVE  OnTrack'
<1>1. CASE HExecute
  <2>1. frame \in [Name : Names \cup {NoFrame.Name}, Index : Nat]
    BY DEF IInv, TypeOK
  <2>2. frame'.Index = frame.Index + 1 /\ frame.Index \in Nat /\ Block' = Block /\ mode = "run"
    BY <1>1, <2>1 DEF HExecute, Execute, Block
  <2>3. ~lost' => ~lost /\ Advances(Current)
    BY <1>1 DEF HExecute, Watch
  <2>4. ASSUME ~lost', NEW k \in 1 .. frame'.Index - 1
        PROVE  Advances(Block[k])
    <3>1. k = frame.Index \/ k \in 1 .. frame.Index - 1
      BY <2>2
    <3> QED
      BY <2>2, <2>3, <2>4, <3>1 DEF OnTrack, Current
  <2> QED
    BY <2>2, <2>4 DEF OnTrack, Advances
<1>2. CASE HAccessFault
  BY <1>2 DEF HAccessFault, AccessFault, OnTrack
<1>3. CASE Call /\ Unwatched
  <2>1. frame'.Index = 1
    BY <1>3 DEF Call
  <2> QED
    BY <2>1 DEF OnTrack
<1>4. CASE Unwatched /\ ~Call
  <2>1. mode' # "run" \/ UNCHANGED vars
    BY <1>4 DEF Unwatched, Find, BeginTranslate, TranslateInstr, FetchFault,
         AddModule, AddModuleFails, LookupFails, Return, Terminated
  <2>2. lost' = lost
    BY <1>4 DEF Unwatched
  <2> QED
    BY <2>1, <2>2 DEF OnTrack, vars, Block, Advances
<1>5. CASE UNCHANGED hvars
  BY <1>5 DEF OnTrack, hvars, vars, Block, Advances
<1> QED
  BY <1>1, <1>2, <1>3, <1>4, <1>5 DEF HNext

LEMMA HTypeKept ==
  ASSUME IInv, HTypeOK, [HNext]_hvars
  PROVE  HTypeOK'
<1>1. CASE HExecute
  <2>1. Current \in Instruction /\ IsCPUState(State)
    BY <1>1, CurrentType DEF HExecute, Execute
  <2>2. Address(Current, State) \in Int
    BY <2>1, OperandFacts, MType DEF Val
  <2>3. Writes(Current, State) \subseteq Int
    BY <2>2 DEF Writes, Width, Stores
  <2> QED
    BY <1>1, <2>3 DEF HTypeOK, HExecute, Watch
<1>2. CASE ~HExecute
  BY <1>2 DEF HNext, HAccessFault, Unwatched, hvars, HTypeOK, Watch
<1> QED
  BY <1>1, <1>2

LEMMA HistoryInductive == HSpec => []HInv
<1>1. HInit => HInv
  <2> SUFFICES ASSUME HInit PROVE HInv
    OBVIOUS
  <2>1. DOMAIN JIT = {} /\ mode = "dispatch" /\ stored = {} /\ lost = FALSE
    BY DEF HInit, Init
  <2> QED
    BY <2>1 DEF HInv, HTypeOK, Fresh, OnTrack
<1>2. IInv /\ HInv /\ [HNext]_hvars => HInv'
  BY FreshKept, OnTrackKept, HTypeKept DEF HInv
<1> QED
  BY <1>1, <1>2, HistoryInvariance, PTL DEF HSpec

\* The cache of translated blocks, from which nothing is ever removed, is up
\* to date but for the words that the program stored to itself: a store to
\* data, or to a part of an overlapping segment, never makes it stale.
THEOREM AlwaysFresh == HSpec => []Fresh
<1>1. HInv => Fresh
  BY DEF HInv
<1> QED
  BY <1>1, HistoryInductive, PTL

\* So the cache of a program that stores to no word of a translated block is
\* intact as a whole, wherever its data lies.
Unmodified == \A n \in DOMAIN JIT : \A k \in 1 .. Len(JIT[n]) : ~Patched(AddressOf(n, k))

THEOREM IntactUnlessModified == HSpec => [](Unmodified => CodeIntact)
<1>1. Fresh /\ Unmodified => CodeIntact
  BY DEF Fresh, Unmodified, CodeIntact, Coherent, AddressOf
<1> QED
  BY <1>1, AlwaysFresh, PTL

-----------------------------------------------------------------------------
(***************************************************************************)
(* The interpreter takes every step of the translator, or stays put.       *)
(***************************************************************************)
LEMMA PCAtCurrent ==
  ASSUME IInv, OnTrack, ~lost, mode = "run", frame.Index <= Len(Block)
  PROVE  State.PC = AddressOf(frame.Name, frame.Index)
<1> DEFINE x == frame.Index
<1>1. /\ frame.Name \in DOMAIN JIT /\ x \in 1 .. Len(Block) /\ Len(Block) \in Nat
      /\ x \in Nat /\ x >= 1
  BY CurrentType
<1>2. \A k \in 1 .. x - 1 : Block[k].op \notin Terminators
  <2>1. \A k \in 1 .. Len(Block) - 1 : Block[k].op \notin Terminators
    BY <1>1 DEF IInv, BlockShape, Block
  <2> QED
    BY <1>1, <2>1
<1>3. State.PC = (StartPC(frame.Name) + 4 * Cardinality(Advanced)) % M
  BY <1>2 DEF IInv, PCTracksBlock
<1>4. \A k \in 1 .. x - 1 : Block[k].op \notin NotAdvancing
  BY DEF OnTrack, Advances
<1>5. Cardinality(Advanced) = x - 1
  BY <1>1, <1>4, AllAdvanced
<1> QED
  BY <1>3, <1>5 DEF AddressOf

\* The instruction that runs is one that the interpreter may fetch.
LEMMA CurrentFound ==
  ASSUME IInv, OnTrack, Fresh, ~lost, mode = "run", frame.Index <= Len(Block),
         ~Patched(State.PC)
  PROVE  Current \in FoundIn(State)
<1>1. State.PC = AddressOf(frame.Name, frame.Index)
  BY PCAtCurrent
<1>2. frame.Name \in DOMAIN JIT /\ frame.Index \in 1 .. Len(Block)
  BY CurrentType
<1>3. InMemory(State.PC, Current)
  BY <1>1, <1>2 DEF Fresh, Block, Current
<1> QED
  BY <1>3 DEF InMemory, FoundIn, FoundAt

LEMMA LostStep ==
  ASSUME lost, HNext
  PROVE  Guest!Lost
<1>1. lost' = TRUE
  BY DEF HNext, HExecute, HAccessFault, Unwatched, Watch
<1> QED
  BY <1>1 DEF Guest!Lost

\* Translated code runs an instruction.
LEMMA ExecuteStep ==
  ASSUME IInv, HInv, ~lost, HExecute
  PROVE  Guest!Step \/ Guest!GetLost
<1>1. /\ mode = "run" /\ mode' = "run" /\ frame.Index <= Len(Block)
      /\ ~Faults(Current, State)
      /\ lost' = (Patched(State.PC) \/ ~Advances(Current))
      /\ stored' = stored \cup Writes(Current, State)
  BY DEF HExecute, Execute, Watch
<1>2. ~Patched(State.PC) => Current \in FoundIn(State)
  BY <1>1, CurrentFound DEF HInv
<1>3. State' \in Effects(Current, State)
  BY DEF HExecute, Execute, Effects
<1>4. Patched(State.PC) <=> Guest!Patched
  BY DEF Patched, Guest!Patched, PCBytes
<1>5. CASE lost'
  <2>1. Guest!Patched \/ \E i \in FoundIn(State) : ~Advances(i)
    BY <1>1, <1>2, <1>4, <1>5
  <2> QED
    BY <1>1, <1>5, <2>1 DEF Guest!GetLost, Implemented
<1>6. CASE ~lost'
  <2>1. ~Guest!Patched /\ Advances(Current) /\ Current \in FoundIn(State)
    BY <1>1, <1>2, <1>4, <1>6
  <2> QED
    BY <1>1, <1>3, <1>6, <2>1 DEF Guest!Step, Implemented
<1> QED
  BY <1>5, <1>6

\* A load or store of translated code goes wrong.
LEMMA AccessFaultStep ==
  ASSUME IInv, HInv, ~lost, HAccessFault
  PROVE  Guest!Fault \/ Guest!GetLost
<1>1. /\ mode = "run" /\ mode' = "wild" /\ frame.Index <= Len(Block)
      /\ Faults(Current, State)
      /\ lost' = (Patched(State.PC) \/ ~Advances(Current))
      /\ UNCHANGED <<State, stored>>
  BY DEF HAccessFault, AccessFault, Watch
<1>2. ~Patched(State.PC) => Current \in FoundIn(State)
  BY <1>1, CurrentFound DEF HInv
<1>3. Patched(State.PC) <=> Guest!Patched
  BY DEF Patched, Guest!Patched, PCBytes
<1>4. CASE lost'
  <2>1. Guest!Patched \/ \E i \in FoundIn(State) : ~Advances(i)
    BY <1>1, <1>2, <1>3, <1>4
  <2> QED
    BY <1>1, <1>4, <2>1 DEF Guest!GetLost, Implemented
<1>5. CASE ~lost'
  <2>1. ~Guest!Patched /\ Current \in FoundIn(State)
    BY <1>1, <1>2, <1>3, <1>5
  <2> QED
    BY <1>1, <1>5, <2>1 DEF Guest!Fault
<1> QED
  BY <1>4, <1>5

\* generateFunc follows straight-line code to an address that is not mapped.
LEMMA RunsOutAhead ==
  ASSUME IInv, FetchFault
  PROVE  RunsOut(State)
<1> DEFINE b == gen.Block
           n == Len(b)
<1>1. /\ b \in Seq(Instruction) /\ n \in Nat /\ n < Threshold /\ gen.Continue
      /\ mode = "translate" /\ mapAddress(gen.TempPC) = nullptr
  BY DEF IInv, TypeOK, FetchFault, More
<1>2. /\ gen.TempPC = (State.PC + 4 * n) % M
      /\ \A k \in 1 .. n :
           /\ b[k].op \in Terminators <=> (k = n /\ ~gen.Continue)
           /\ InMemory((State.PC + 4 * (k - 1)) % M, b[k])
  BY <1>1 DEF IInv, Building
<1>3. ASSUME NEW j \in 0 .. n - 1
      PROVE  \E i \in FoundAt(State.Memory, (State.PC + 4 * j) % M) : i.op \notin Terminators
  <2>1. j + 1 \in 1 .. n /\ (j + 1) - 1 = j
    BY <1>1
  <2>2. /\ b[j + 1].op \notin Terminators
        /\ InMemory((State.PC + 4 * j) % M, b[j + 1])
    BY <1>1, <1>2, <2>1
  <2> QED
    BY <2>2 DEF InMemory, FoundAt
<1>4. n \in 0 .. Threshold - 1
  BY <1>1, ThresholdAssumption
<1> HIDE DEF n
<1> QED
  BY <1>1, <1>2, <1>3, <1>4 DEF RunsOut

\* main ends, or runs into undefined behaviour of its own, only where the host
\* may stop the interpreter.
LEMMA HostMayFail ==
  ASSUME IInv, FetchFault \/ AddModuleFails \/ LookupFails
  PROVE  HostFails(State)
<1>1. CASE FetchFault
  BY <1>1, RunsOutAhead DEF HostFails
<1>2. CASE AddModuleFails
  BY <1>2 DEF AddModuleFails, IInv, NoDuplicateSymbol, HostFails
<1>3. CASE LookupFails
  <2>1. State.PC \in DOMAIN PCToFunc
    BY <1>3 DEF LookupFails, IInv, Looking
  <2>2. PCToFunc[State.PC] \in DOMAIN JIT
    BY <1>3, <2>1 DEF LookupFails, IInv, NamesResolve
  <2> QED
    BY <1>3, <2>2 DEF LookupFails, HostFails
<1> QED
  BY <1>1, <1>2, <1>3

LEMMA HostFaultStep ==
  ASSUME IInv, ~lost, UNCHANGED <<stored, lost>>,
         FetchFault \/ AddModuleFails \/ LookupFails
  PROVE  Guest!HostFault
<1>1. /\ mode \in {"translate", "lookup"} /\ mode' \in {"exit", "wild"}
      /\ State' = State
  BY DEF FetchFault, AddModuleFails, LookupFails
<1> QED
  BY <1>1, HostMayFail DEF Guest!HostFault

\* The other steps of main are not seen by the guest.
LEMMA InternalStep ==
  ASSUME ~lost, UNCHANGED <<stored, lost>>,
         \/ Find \/ BeginTranslate \/ TranslateInstr \/ AddModule
         \/ Call \/ Return \/ Terminated \/ UNCHANGED vars
  PROVE  UNCHANGED Guest!vars
<1>1. /\ State' = State
      /\ mode' \in {"exit", "wild"} <=> mode \in {"exit", "wild"}
  BY DEF Find, BeginTranslate, TranslateInstr, AddModule, Call, Return, Terminated, vars
<1> QED
  BY <1>1 DEF Guest!vars

\* Translated in blocks, ahead of the program, and kept for ever, the program
\* still runs as an interpreter would run it one instruction at a time from
\* the memory as it is: until it runs a word that it has itself stored to, or
\* an instruction that is not implemented.
THEOREM Implements == HSpec => ImplementsInterpreter
<1>1. HInit => Guest!Init
  BY DEF HInit, Init, Guest!Init, Starts
<1>2. IInv /\ HInv /\ [HNext]_hvars => [Guest!Next]_(Guest!vars)
  <2> SUFFICES ASSUME IInv, HInv, [HNext]_hvars
               PROVE  Guest!Next \/ UNCHANGED Guest!vars
    OBVIOUS
  <2>1. CASE UNCHANGED hvars
    BY <2>1 DEF hvars, vars, Guest!vars
  <2>2. CASE HNext /\ lost
    BY <2>2, LostStep DEF Guest!Next
  <2>3. CASE HExecute /\ ~lost
    BY <2>3, ExecuteStep DEF Guest!Next
  <2>4. CASE HAccessFault /\ ~lost
    BY <2>4, AccessFaultStep DEF Guest!Next
  <2>5. CASE Unwatched /\ ~lost
    <3>1. CASE FetchFault \/ AddModuleFails \/ LookupFails
      BY <2>5, <3>1, HostFaultStep DEF Unwatched, Guest!Next
    <3>2. CASE ~(FetchFault \/ AddModuleFails \/ LookupFails)
      BY <2>5, <3>2, InternalStep DEF Unwatched
    <3> QED
      BY <3>1, <3>2
  <2> QED
    BY <2>1, <2>2, <2>3, <2>4, <2>5 DEF HNext
<1> QED
  BY <1>1, <1>2, HistoryInvariance, HistoryInductive, PTL
     DEF HSpec, ImplementsInterpreter, Guest!Spec

-----------------------------------------------------------------------------
(***************************************************************************)
(* The translator as a RISC-V machine.                                     *)
(***************************************************************************)
MInv == strayed \in BOOLEAN /\ (lost => strayed)

LEMMA MachineOnly == [MNext]_mvars => [HNext]_hvars
BY DEF MNext, mvars, hvars, HNext

LEMMA MachineHistory == MSpec => HSpec
<1>1. MInit => HInit
  BY DEF MInit
<1> QED
  BY <1>1, MachineOnly, PTL DEF MSpec, HSpec

LEMMA MachineInvariance == MSpec => []MInv
<1>1. MInit => MInv
  BY DEF MInit, HInit, MInv
<1>2. MInv /\ [MNext]_mvars => MInv'
  <2> SUFFICES ASSUME MInv, [MNext]_mvars PROVE MInv'
    OBVIOUS
  <2>1. CASE (HExecute \/ HAccessFault) /\ Stray
    <3>1. ~Advances(Current) => ~FollowsISA(Current, GuestView(State))
      BY DEF Advances, FollowsISA, Traps, NotAdvancing
    <3>2. lost' = (lost \/ Patched(State.PC) \/ ~Advances(Current))
      BY <2>1 DEF HExecute, HAccessFault, Watch
    <3> QED
      BY <2>1, <3>1, <3>2, Zenon DEF MInv, Stray
  <2>2. CASE Unwatched /\ UNCHANGED strayed
    BY <2>2 DEF MInv, Unwatched
  <2>3. CASE UNCHANGED mvars
    BY <2>3 DEF MInv, mvars, hvars
  <2> QED
    BY <2>1, <2>2, <2>3 DEF MNext
<1> QED
  BY <1>1, <1>2, PTL DEF MSpec

LEMMA ViewIs ==
  ASSUME NEW s
  PROVE  LET c == GuestView(s)
         IN  /\ c = [m |-> Zeroed(s), tainted |-> s.Registers[0] # 0]
             /\ c.m = Zeroed(s) /\ c.tainted = (s.Registers[0] # 0)
             /\ c.m.x = Cleared(s) /\ c.m.pc = s.PC /\ c.m.mem = Architectural(s).mem
<1>1. Zeroed(s) = [x |-> Cleared(s), pc |-> s.PC, mem |-> Architectural(s).mem]
  BY ZeroedIs
<1> QED
  BY <1>1 DEF GuestView

\* The word that the translator fetches is the one in flat memory.
LEMMA FetchMatches ==
  ASSUME NEW s, IsCPUState(s), NEW a \in Val, NEW i \in FoundAt(s.Memory, a)
  PROVE  i \in FetchedAt(Architectural(s).mem, a)
<1> DEFINE mem == Architectural(s).mem
<1>1. mapAddress(a) # nullptr
  BY DEF FoundAt
<1>2. PICK u \in Garbage : i = Decoded[read32(s.Memory, a, u)]
  BY <1>1 DEF FoundAt
<1>3. u \in Val /\ IsContents(s.Memory)
  BY GarbageAssumption DEF IsCPUState
<1>4. read32(s.Memory, a, u) \in Val
  BY <1>1, <1>3, ReadType
<1>5. a \in Mapped
  BY <1>1 DEF Mapped
<1>6. CASE InOneSegment(a, 4)
  <2>1. "LW" \in Loads /\ Width["LW"] = 4
    BY DEF Loads, Width
  <2>2. InBlock(mapAddress(a), 4) /\ \A k \in 1 .. 4 - 1 : mapAddress(a + k).Segment = mapAddress(a).Segment
    BY <1>6 DEF InOneSegment
  <2>3. read32(s.Memory, a, u) % M = LoadResult("LW", mem, a)
    BY <1>1, <1>3, <2>1, <2>2, LoadResults
  <2>4. LoadResult("LW", mem, a) = Loaded(mem, a, 4)
    BY <2>1 DEF LoadResult
  <2>5. read32(s.Memory, a, u) % M = read32(s.Memory, a, u)
    BY <1>4, MType DEF Val
  <2> QED
    BY <1>2, <1>5, <1>6, <2>3, <2>4, <2>5 DEF FetchedAt
<1>7. CASE ~InOneSegment(a, 4)
  BY <1>2, <1>4, <1>5, <1>7 DEF FetchedAt
<1> QED
  BY <1>6, <1>7

\* An instruction that does not read a tainted register 0 reads what the
\* machine has in its registers, and accesses what the machine would.
LEMMA ReadsMatch ==
  ASSUME NEW i \in Instruction, NEW s, IsCPUState(s), FollowsISA(i, GuestView(s))
  PROVE  /\ SourcesHold(i, s)
         /\ ~Poison(i, s)
         /\ Accesses(i) =>
              /\ EffectiveAddress(i, GuestView(s).m) = Address(i, s)
              /\ Address(i, s) \in Val
              /\ mapAddress(Address(i, s)) # nullptr => Stays(i, s)
<1> DEFINE c == GuestView(s)
<1>1. c.m.x = Cleared(s) /\ c.tainted = (s.Registers[0] # 0)
  BY ViewIs
<1>2. SourcesHold(i, s)
  BY <1>1 DEF FollowsISA, SourcesHold
<1>3. \A r \in Sources(i) : r \in Reg /\ Cleared(s)[r] = s.Registers[r]
  BY <1>2, OperandFacts DEF Sources, SourcesHold, Cleared, IsCPUState
<1>4. ~Poison(i, s)
  <2> SUFFICES ASSUME i.op \in RegShifts PROVE ~(s.Registers[i.rs2] >= XLEN)
    BY DEF Poison
  <2>1. c.m.x[i.rs2] < XLEN
    BY DEF FollowsISA
  <2>2. i.rs2 \in Sources(i)
    BY DEF Sources
  <2>3. s.Registers[i.rs2] < XLEN /\ s.Registers[i.rs2] \in Int
    BY <1>1, <1>3, <2>1, <2>2, OperandFacts
  <2> QED
    BY <2>3, WidthType
<1>5. CASE Accesses(i)
  <2>1. i.rs1 \in Sources(i)
    BY <1>5 DEF Accesses, Sources
  <2>2. EffectiveAddress(i, c.m) = Address(i, s)
    BY <1>1, <1>3, <2>1 DEF EffectiveAddress, Address
  <2>3. Address(i, s) \in Val
    BY OperandFacts
  <2>4. mapAddress(Address(i, s)) # nullptr => Stays(i, s)
    BY <1>5, <2>2, <2>3 DEF Unmapped, Mapped, FollowsISA, Stays
  <2> QED
    BY <1>2, <1>4, <2>2, <2>3, <2>4
<1> QED
  BY <1>2, <1>4, <1>5

\* What the code for an instruction does is a step of the machine.
LEMMA CodeFollows ==
  ASSUME NEW i \in Instruction, NEW s, IsCPUState(s), NEW u \in Val,
         ~Faults(i, s), FollowsISA(i, GuestView(s))
  PROVE  /\ GuestView(generate(i, s, u)) \in MachineSteps(i, GuestView(s))
         /\ ~MachineFaults(i, GuestView(s))
         /\ MachineWrites(i, GuestView(s)) = Writes(i, s)
<1> DEFINE c == GuestView(s)
           t == generate(i, s, u)
<1>1. /\ c.m = Zeroed(s) /\ c.tainted = (s.Registers[0] # 0)
      /\ GuestView(t) = [m |-> Zeroed(t), tainted |-> t.Registers[0] # 0]
  BY ViewIs
<1>2. Accesses(i) => mapAddress(Address(i, s)) # nullptr
  BY DEF Accesses, Faults
<1>3. /\ SourcesHold(i, s) /\ ~Poison(i, s)
      /\ Accesses(i) => EffectiveAddress(i, c.m) = Address(i, s) /\ Address(i, s) \in Val
  BY ReadsMatch
<1>4. Stays(i, s)
  BY <1>2, ReadsMatch DEF Stays, Accesses
<1>5. /\ ~Traps(i, Zeroed(s)) /\ i.op \notin NotAdvancing
      /\ Compares(i.op) => i.rs1 = i.rs2
  BY <1>1 DEF FollowsISA, Traps, NotAdvancing
<1>6. Zeroed(t) = ISA(i, c.m)
  BY <1>1, <1>3, <1>4, <1>5, GenerateImplementsISA
<1>7. ~WritesZero(i) => t.Registers[0] = s.Registers[0]
  BY <1>5, KeepsZero
<1>8. GuestView(t) \in MachineSteps(i, c)
  <2> HIDE DEF t, c
  <2>1. (t.Registers[0] # 0) \in IF WritesZero(i) THEN BOOLEAN ELSE {c.tainted}
    BY <1>1, <1>7
  <2> QED
    BY <1>1, <1>6, <2>1 DEF MachineSteps
<1>9. ~MachineFaults(i, c)
  BY <1>2, <1>3 DEF MachineFaults, Unmapped, Mapped
<1>10. MachineWrites(i, c) = Writes(i, s)
  BY <1>3 DEF MachineWrites, Writes, Accesses
<1> QED
  BY <1>8, <1>9, <1>10

\* What runs is what the machine fetches, and a patched word is one for both.
LEMMA CurrentFetched ==
  ASSUME IInv, HInv, ~lost, mode = "run", frame.Index <= Len(Block)
  PROVE  /\ ~Patched(State.PC) => Current \in MachineFetches(GuestView(State))
         /\ Patched(State.PC) <=> RISCV!Patched
<1>1. Current \in Instruction /\ IsCPUState(State) /\ State.PC \in Val
  BY CurrentType DEF IsCPUState
<1>2. GuestView(State).m.pc = State.PC /\ GuestView(State).m.mem = Architectural(State).mem
  BY ViewIs
<1>3. ASSUME ~Patched(State.PC) PROVE Current \in MachineFetches(GuestView(State))
  <2>1. Current \in FoundAt(State.Memory, State.PC)
    BY <1>3, CurrentFound DEF HInv, FoundIn
  <2> QED
    BY <1>1, <1>2, <2>1, FetchMatches DEF MachineFetches
<1>4. Patched(State.PC) <=> RISCV!Patched
  BY <1>2 DEF Patched, RISCV!Patched, MachineBytes
<1> QED
  BY <1>3, <1>4

LEMMA MachineExecuteStep ==
  ASSUME IInv, HInv, ~lost, ~strayed, HExecute, Stray
  PROVE  RISCV!Step \/ RISCV!GetLost
<1> DEFINE c == GuestView(State)
<1>1. /\ mode = "run" /\ mode' = "run" /\ frame.Index <= Len(Block)
      /\ ~Faults(Current, State)
      /\ stored' = stored \cup Writes(Current, State)
      /\ Current \in Instruction /\ IsCPUState(State)
  BY CurrentType DEF HExecute, Execute
<1>2. strayed' = (Patched(State.PC) \/ ~FollowsISA(Current, c))
  BY DEF Stray
<1>3. /\ ~Patched(State.PC) => Current \in MachineFetches(c)
      /\ Patched(State.PC) <=> RISCV!Patched
  BY <1>1, CurrentFetched
<1>4. CASE strayed'
  <2>1. RISCV!Patched \/ \E i \in MachineFetches(c) : ~FollowsISA(i, c)
    BY <1>2, <1>3, <1>4
  <2> QED
    BY <1>1, <1>4, <2>1 DEF RISCV!GetLost
<1>5. CASE ~strayed'
  <2>1. ~RISCV!Patched /\ FollowsISA(Current, c) /\ Current \in MachineFetches(c)
    BY <1>2, <1>3, <1>5
  <2>2. PICK u \in Garbage : State' = generate(Current, State, u)
    BY DEF HExecute, Execute
  <2>3. u \in Val
    BY GarbageAssumption
  <2>4. /\ GuestView(State') \in MachineSteps(Current, c)
        /\ ~MachineFaults(Current, c)
        /\ MachineWrites(Current, c) = Writes(Current, State)
    BY <1>1, <2>1, <2>2, <2>3, CodeFollows
  <2>5. GuestView(State)' \in MachineSteps(Current, c)
    BY <2>4
  <2> HIDE DEF c
  <2> QED
    BY <1>1, <1>5, <2>1, <2>4, <2>5 DEF RISCV!Step, c
<1> QED
  BY <1>4, <1>5

LEMMA MachineFaultStep ==
  ASSUME IInv, HInv, ~lost, ~strayed, HAccessFault, Stray
  PROVE  RISCV!Fault \/ RISCV!GetLost
<1> DEFINE c == GuestView(State)
<1>1. /\ mode = "run" /\ mode' = "wild" /\ frame.Index <= Len(Block)
      /\ Faults(Current, State)
      /\ UNCHANGED <<State, stored>>
      /\ Current \in Instruction /\ IsCPUState(State)
  BY CurrentType DEF HAccessFault, AccessFault
<1>2. strayed' = (Patched(State.PC) \/ ~FollowsISA(Current, c))
  BY DEF Stray
<1>3. /\ ~Patched(State.PC) => Current \in MachineFetches(c)
      /\ Patched(State.PC) <=> RISCV!Patched
  BY <1>1, CurrentFetched
<1>4. CASE strayed'
  <2>1. RISCV!Patched \/ \E i \in MachineFetches(c) : ~FollowsISA(i, c)
    BY <1>2, <1>3, <1>4
  <2> QED
    BY <1>1, <1>4, <2>1 DEF RISCV!GetLost
<1>5. CASE ~strayed'
  <2>1. ~RISCV!Patched /\ FollowsISA(Current, c) /\ Current \in MachineFetches(c)
    BY <1>2, <1>3, <1>5
  <2>2. /\ Accesses(Current)
        /\ mapAddress(Address(Current, State)) # nullptr =>
             Current.op \in Stores /\ ~InBlock(mapAddress(Address(Current, State)), Width[Current.op])
    BY <1>1 DEF Faults, Accesses
  <2>3. /\ EffectiveAddress(Current, c.m) = Address(Current, State)
        /\ mapAddress(Address(Current, State)) # nullptr => Stays(Current, State)
    BY <1>1, <2>1, <2>2, ReadsMatch
  <2>4. mapAddress(Address(Current, State)) = nullptr
    BY <2>2, <2>3 DEF Stays, InOneSegment
  <2>5. MachineFaults(Current, c)
    BY <2>2, <2>3, <2>4 DEF MachineFaults, Unmapped, Mapped
  <2>6. GuestView(State)' = c
    BY <1>1
  <2> HIDE DEF c
  <2> QED
    BY <1>1, <1>5, <2>1, <2>5, <2>6 DEF RISCV!Fault, c
<1> QED
  BY <1>4, <1>5

LEMMA MachineHostFaultStep ==
  ASSUME IInv, ~strayed, UNCHANGED <<stored, strayed>>,
         FetchFault \/ AddModuleFails \/ LookupFails
  PROVE  RISCV!HostFault
<1> DEFINE c == GuestView(State)
<1>1. /\ mode \in {"translate", "lookup"} /\ mode' \in {"exit", "wild"}
      /\ State' = State
  BY DEF FetchFault, AddModuleFails, LookupFails
<1>2. c.m.pc = State.PC /\ c.m.mem = Architectural(State).mem
  BY ViewIs
<1>3. IsCPUState(State) /\ State.PC \in Int
  BY MType DEF IInv, TypeOK, IsCPUState, Val
<1>4. MachineHostFails(c)
  <2>1. HostFails(State)
    BY HostMayFail
  <2>2. CASE JITMayFail
    BY <2>2 DEF MachineHostFails
  <2>3. CASE RunsOut(State)
    <3>1. PICK k \in 0 .. Threshold - 1 :
            /\ mapAddress((State.PC + 4 * k) % M) = nullptr
            /\ \A j \in 0 .. k - 1 :
                 \E i \in FoundAt(State.Memory, (State.PC + 4 * j) % M) : i.op \notin Terminators
      BY <2>3 DEF RunsOut
    <3>2. (State.PC + 4 * k) % M \notin Mapped
      BY <3>1 DEF Mapped
    <3>3. ASSUME NEW j \in 0 .. k - 1
          PROVE  \E i \in FetchedAt(Architectural(State).mem, (State.PC + 4 * j) % M) : i.op \notin Terminators
      <4>1. PICK i \in FoundAt(State.Memory, (State.PC + 4 * j) % M) : i.op \notin Terminators
        BY <3>1
      <4>2. (State.PC + 4 * j) % M \in Val
        BY <1>3, ModVal
      <4>3. i \in FetchedAt(Architectural(State).mem, (State.PC + 4 * j) % M)
        BY <1>3, <4>2, FetchMatches
      <4> QED
        BY <4>1, <4>3
    <3> HIDE DEF c
    <3> QED
      BY <1>2, <3>2, <3>3 DEF MachineHostFails
  <2> QED
    BY <2>1, <2>2, <2>3 DEF HostFails
<1>5. GuestView(State)' = c
  BY <1>1
<1> HIDE DEF c
<1> QED
  BY <1>1, <1>4, <1>5 DEF RISCV!HostFault, c

LEMMA MachineInternalStep ==
  ASSUME ~strayed, UNCHANGED <<stored, strayed>>,
         \/ Find \/ BeginTranslate \/ TranslateInstr \/ AddModule
         \/ Call \/ Return \/ Terminated \/ UNCHANGED vars
  PROVE  UNCHANGED RISCV!vars
<1>1. /\ State' = State
      /\ mode' \in {"exit", "wild"} <=> mode \in {"exit", "wild"}
  BY DEF Find, BeginTranslate, TranslateInstr, AddModule, Call, Return, Terminated, vars
<1>2. GuestView(State)' = GuestView(State)
  BY <1>1
<1> QED
  BY <1>1, <1>2 DEF RISCV!vars

\* The guest sees a RISC-V machine with a flat memory, for every program,
\* layout and Threshold: decoding aside, nothing that the translator does is
\* seen, until the program runs what it stored or comes to one of the places
\* where generated code is known to differ from RV32I.
THEOREM ImplementsMachine == MSpec => ImplementsRISCV
<1>1. MInit => RISCV!Init
  <2> SUFFICES ASSUME MInit PROVE RISCV!Init
    OBVIOUS
  <2>1. State \in Starts /\ stored = {} /\ strayed = FALSE /\ mode = "dispatch"
    BY DEF MInit, HInit, Init, Starts
  <2>2. GuestView(State) \in MachineStarts
    BY <2>1 DEF MachineStarts
  <2> QED
    BY <2>1, <2>2 DEF RISCV!Init
<1>2. IInv /\ HInv /\ MInv /\ [MNext]_mvars => [RISCV!Next]_(RISCV!vars)
  <2> SUFFICES ASSUME IInv, HInv, MInv, [MNext]_mvars
               PROVE  RISCV!Next \/ UNCHANGED RISCV!vars
    OBVIOUS
  <2>1. CASE UNCHANGED mvars
    <3>1. State' = State /\ mode' = mode /\ stored' = stored /\ strayed' = strayed
      BY <2>1 DEF mvars, hvars, vars
    <3>2. GuestView(State)' = GuestView(State)
      BY <3>1
    <3> QED
      BY <3>1, <3>2 DEF RISCV!vars
  <2>2. CASE MNext /\ strayed
    <3>1. strayed' = TRUE
      BY <2>2 DEF MNext, Stray
    <3> QED
      BY <2>2, <3>1 DEF RISCV!Next, RISCV!Lost
  <2>3. CASE MNext /\ ~strayed
    <3>1. ~lost
      BY <2>3 DEF MInv
    <3>2. CASE HExecute /\ Stray
      BY <2>3, <3>1, <3>2, MachineExecuteStep DEF RISCV!Next
    <3>3. CASE HAccessFault /\ Stray
      BY <2>3, <3>1, <3>3, MachineFaultStep DEF RISCV!Next
    <3>4. CASE Unwatched /\ UNCHANGED strayed
      <4>1. UNCHANGED <<stored, strayed>>
        BY <3>4 DEF Unwatched
      <4>2. CASE FetchFault \/ AddModuleFails \/ LookupFails
        BY <2>3, <4>1, <4>2, MachineHostFaultStep DEF RISCV!Next
      <4>3. CASE ~(FetchFault \/ AddModuleFails \/ LookupFails)
        BY <2>3, <3>4, <4>1, <4>3, MachineInternalStep DEF Unwatched
      <4> QED
        BY <4>2, <4>3
    <3> QED
      BY <2>3, <3>2, <3>3, <3>4 DEF MNext
  <2> QED
    BY <2>1, <2>2, <2>3
<1> QED
  BY <1>1, <1>2, MachineHistory, HistoryInvariance, HistoryInductive, MachineInvariance, PTL
     DEF MSpec, ImplementsRISCV, RISCV!Spec
=============================================================================
