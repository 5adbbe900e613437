----------------------------- MODULE Translator -----------------------------
(***************************************************************************)
(* The main loop of the translator and generateFunc: find the translation  *)
(* of the block at the guest PC, translate the block if there is none,     *)
(* look the function up in the JIT, call it, and start again.              *)
(*                                                                         *)
(* A translated block is the sequence of the instructions it was generated *)
(* from.  It runs one instruction per step, so that what it sees of the    *)
(* CPU state in the middle of the block is part of the model.              *)
(***************************************************************************)
EXTENDS Instruction, FiniteSets

CONSTANTS
  Decoded,     \* the instruction that a word of guest memory decodes to
  Images,      \* what the segments may hold when the program starts
  EntryPoint,  \* the entry point of the ELF file
  Threshold,   \* the most instructions in a block
  Garbage,     \* the values an undefined result may take
  JITMayFail   \* whether LLVM may report an error

ASSUME DecodedAssumption == Decoded \in [Val -> Instruction]
ASSUME ImagesAssumption == \A m \in Images : IsContents(m)
ASSUME EntryAssumption == EntryPoint \in Val /\ EntryPoint % 2 = 0
ASSUME ThresholdAssumption == Threshold \in Nat /\ Threshold > 0
ASSUME GarbageAssumption == Garbage \subseteq Val /\ Garbage # {}
ASSUME JITAssumption == JITMayFail \in BOOLEAN

VARIABLES
  State,     \* the CPUState
  PCToFunc,  \* the name of the function for each PC met so far
  JIT,       \* the functions the JIT holds, by name
  gen,       \* the locals of generateFunc
  frame,     \* where the function that was called is
  mode       \* what main is doing

vars == <<State, PCToFunc, JIT, gen, frame, mode>>

\* Mutant: a block goes on after JALR.
TerminatorsNoJALR == Branches \cup {"JAL"}

Terminators == Branches \cup {"JAL", "JALR"}

FuncName(PC) == <<"block_", PC>>
Names == {FuncName(PC) : PC \in Val}

NoGen   == [TempPC |-> 0, Continue |-> FALSE, Block |-> <<>>]
NoFrame == [Name |-> <<"", 0>>, Index |-> 0]

\* std::unordered_map::insert leaves a key that is present alone.
Insert(f, k, v) == [x \in DOMAIN f \cup {k} |-> IF x \in DOMAIN f THEN f[x] ELSE v]

-----------------------------------------------------------------------------
Init ==
  /\ \E m \in Images :
       State = [Registers |-> [r \in Reg |-> IF r = 2 THEN (-16) % M ELSE 0],
                PC |-> EntryPoint, Memory |-> m]
  /\ PCToFunc = <<>>
  /\ JIT = <<>>
  /\ gen = NoGen
  /\ frame = NoFrame
  /\ mode = "dispatch"

-----------------------------------------------------------------------------
(***************************************************************************)
(* main: the block at the PC has been translated.                          *)
(***************************************************************************)
Find ==
  /\ mode = "dispatch"
  /\ State.PC \in DOMAIN PCToFunc
  /\ mode' = "lookup"
  /\ UNCHANGED <<State, PCToFunc, JIT, gen, frame>>

(***************************************************************************)
(* generateFunc.  The name is entered in PCToFunc before there is a        *)
(* function of that name.                                                  *)
(***************************************************************************)
\* Mutants: the block is translated whether or not there is one; the first
\* fetch is from the next PC.
BeginTranslateAlways ==
  /\ mode = "dispatch"
  /\ PCToFunc' = Insert(PCToFunc, State.PC, FuncName(State.PC))
  /\ gen' = [TempPC |-> State.PC, Continue |-> TRUE, Block |-> <<>>]
  /\ mode' = "translate"
  /\ UNCHANGED <<State, JIT, frame>>

BeginTranslateNextPC ==
  /\ mode = "dispatch"
  /\ State.PC \notin DOMAIN PCToFunc
  /\ PCToFunc' = Insert(PCToFunc, State.PC, FuncName(State.PC))
  /\ gen' = [TempPC |-> (State.PC + 4) % M, Continue |-> TRUE, Block |-> <<>>]
  /\ mode' = "translate"
  /\ UNCHANGED <<State, JIT, frame>>

BeginTranslate ==
  /\ mode = "dispatch"
  /\ State.PC \notin DOMAIN PCToFunc
  /\ PCToFunc' = Insert(PCToFunc, State.PC, FuncName(State.PC))
  /\ gen' = [TempPC |-> State.PC, Continue |-> TRUE, Block |-> <<>>]
  /\ mode' = "translate"
  /\ UNCHANGED <<State, JIT, frame>>

\* Mutant: a block may have one instruction too many.
MoreOffByOne == gen.Continue /\ Len(gen.Block) <= Threshold

More == gen.Continue /\ Len(gen.Block) < Threshold

\* Mutants: the fetch address stays behind; a word that is not decoded is
\* tried again.
TranslateInstrSamePC ==
  /\ mode = "translate"
  /\ More
  /\ mapAddress(gen.TempPC) # nullptr
  /\ \E u \in Garbage :
       LET i == Decoded[read32(State.Memory, gen.TempPC, u)]
       IN  gen' = [gen EXCEPT !.Continue = i.op \notin Terminators, !.Block = Append(@, i)]
  /\ UNCHANGED <<State, PCToFunc, JIT, frame, mode>>

TranslateInstrRetries ==
  /\ mode = "translate"
  /\ More
  /\ mapAddress(gen.TempPC) # nullptr
  /\ \E u \in Garbage :
       LET i == Decoded[read32(State.Memory, gen.TempPC, u)]
       IN  gen' = IF i.op = "UNKNOWN"
                  THEN gen
                  ELSE [TempPC   |-> (gen.TempPC + 4) % M,
                        Continue |-> i.op \notin Terminators,
                        Block    |-> Append(gen.Block, i)]
  /\ UNCHANGED <<State, PCToFunc, JIT, frame, mode>>

TranslateInstr ==
  /\ mode = "translate"
  /\ More
  /\ mapAddress(gen.TempPC) # nullptr
  /\ \E u \in Garbage :
       LET i == Decoded[read32(State.Memory, gen.TempPC, u)]
       IN  gen' = [TempPC   |-> (gen.TempPC + 4) % M,
                   Continue |-> i.op \notin Terminators,
                   Block    |-> Append(gen.Block, i)]
  /\ UNCHANGED <<State, PCToFunc, JIT, frame, mode>>

\* The fetch goes through the null pointer: undefined behaviour.
FetchFault ==
  /\ mode = "translate"
  /\ More
  /\ mapAddress(gen.TempPC) = nullptr
  /\ mode' = "wild"
  /\ UNCHANGED <<State, PCToFunc, JIT, gen, frame>>

\* addIRModule refuses a function whose name the JIT already holds.
AddModule ==
  /\ mode = "translate"
  /\ ~More
  /\ FuncName(State.PC) \notin DOMAIN JIT
  /\ JIT' = Insert(JIT, FuncName(State.PC), gen.Block)
  /\ PCToFunc' = Insert(PCToFunc, State.PC, FuncName(State.PC))
  /\ gen' = NoGen
  /\ mode' = "lookup"
  /\ UNCHANGED <<State, frame>>

\* Mutant: main goes on as if the block were there.
AddModuleFailsUnnoticed ==
  /\ mode = "translate"
  /\ ~More
  /\ JITMayFail \/ FuncName(State.PC) \in DOMAIN JIT
  /\ gen' = NoGen
  /\ mode' = "lookup"
  /\ UNCHANGED <<State, PCToFunc, JIT, frame>>

AddModuleFails ==
  /\ mode = "translate"
  /\ ~More
  /\ JITMayFail \/ FuncName(State.PC) \in DOMAIN JIT
  /\ gen' = NoGen
  /\ mode' = "exit"
  /\ UNCHANGED <<State, PCToFunc, JIT, frame>>

-----------------------------------------------------------------------------
(***************************************************************************)
(* main: look the function up and call it.  The result of the lookup is    *)
(* used unchecked, so a failed lookup is undefined behaviour.              *)
(***************************************************************************)
Call ==
  /\ mode = "lookup"
  /\ PCToFunc[State.PC] \in DOMAIN JIT
  /\ frame' = [Name |-> PCToFunc[State.PC], Index |-> 1]
  /\ mode' = "run"
  /\ UNCHANGED <<State, PCToFunc, JIT, gen>>

LookupFails ==
  /\ mode = "lookup"
  /\ JITMayFail \/ PCToFunc[State.PC] \notin DOMAIN JIT
  /\ mode' = "wild"
  /\ UNCHANGED <<State, PCToFunc, JIT, gen, frame>>

(***************************************************************************)
(* The translated code.                                                    *)
(***************************************************************************)
Block   == JIT[frame.Name]
Current == Block[frame.Index]

Execute ==
  /\ mode = "run"
  /\ frame.Index <= Len(Block)
  /\ ~Faults(Current, State)
  /\ \E u \in Garbage : State' = generate(Current, State, u)
  /\ frame' = [frame EXCEPT !.Index = @ + 1]
  /\ UNCHANGED <<PCToFunc, JIT, gen, mode>>

AccessFault ==
  /\ mode = "run"
  /\ frame.Index <= Len(Block)
  /\ Faults(Current, State)
  /\ mode' = "wild"
  /\ UNCHANGED <<State, PCToFunc, JIT, gen, frame>>

Return ==
  /\ mode = "run"
  /\ frame.Index > Len(Block)
  /\ frame' = NoFrame
  /\ mode' = "dispatch"
  /\ UNCHANGED <<State, PCToFunc, JIT, gen>>

-----------------------------------------------------------------------------
(***************************************************************************)
(* The loop has no exit of its own: it ends when the JIT fails, and        *)
(* nothing is said of what happens after undefined behaviour.              *)
(***************************************************************************)
Terminated ==
  /\ mode \in {"exit", "wild"}
  /\ UNCHANGED vars

Next ==
  \/ Find \/ BeginTranslate \/ TranslateInstr \/ FetchFault
  \/ AddModule \/ AddModuleFails \/ Call \/ LookupFails
  \/ Execute \/ AccessFault \/ Return
  \/ Terminated

Spec == Init /\ [][Next]_vars

\* There is one host thread, and nothing it does waits.
FairSpec == Spec /\ WF_vars(Next)

-----------------------------------------------------------------------------
(***************************************************************************)
(* Properties.                                                             *)
(***************************************************************************)
Modes == {"dispatch", "translate", "lookup", "run", "exit", "wild"}

\* Every variable keeps its type; the CPUState that generated code writes
\* keeps its 32-bit registers and PC and the extent of its segments.
TypeOK ==
  /\ IsCPUState(State)
  /\ DOMAIN PCToFunc \subseteq Val /\ PCToFunc \in [DOMAIN PCToFunc -> Names]
  /\ DOMAIN JIT \subseteq Names /\ JIT \in [DOMAIN JIT -> Seq(Instruction)]
  /\ gen \in [TempPC : Val, Continue : BOOLEAN, Block : Seq(Instruction)]
  /\ frame \in [Name : Names \cup {NoFrame.Name}, Index : Nat]
  /\ mode \in Modes

\* generateFunc enters the name of a function in PCToFunc before the function
\* exists, and main looks names up without checking the result.  Whenever main
\* is in a position to look a name up, every name entered is in the JIT: the
\* only one that may be missing is that of the block being translated, or of
\* the one whose translation ended the program.
NamesResolve ==
  \A PC \in DOMAIN PCToFunc :
    /\ PCToFunc[PC] = FuncName(PC)
    /\ \/ PCToFunc[PC] \in DOMAIN JIT
       \/ PC = State.PC /\ mode \in {"translate", "exit", "wild"}

\* The JIT never holds a function that main cannot find, and no block is
\* translated a second time, so addIRModule never sees a duplicate symbol.
NoDuplicateSymbol ==
  /\ \A n \in DOMAIN JIT : \E PC \in DOMAIN PCToFunc : PCToFunc[PC] = n
  /\ mode = "translate" => FuncName(State.PC) \notin DOMAIN JIT

\* A block that was generated has between one and Threshold instructions, only
\* its last may transfer control, and it stops short of Threshold only at such
\* an instruction.
BlockShape ==
  \A n \in DOMAIN JIT :
    LET b == JIT[n]
    IN  /\ Len(b) \in 1 .. Threshold
        /\ \A k \in 1 .. Len(b) - 1 : b[k].op \notin Terminators
        /\ Len(b) < Threshold => b[Len(b)].op \in Terminators

\* The address that a function was generated for.
StartPC(n) == n[2]

\* The instructions of the running block, before the current one, that
\* advanced the PC.
Advanced == {k \in 1 .. frame.Index - 1 : Block[k].op \notin NotAdvancing}

\* Until a block transfers control, the PC that its code keeps in memory, four
\* at a time, is the address of the block plus four for each instruction it
\* has run, not counting those for which generate() emits nothing.
PCTracksBlock ==
  (mode = "run" /\ \A k \in 1 .. frame.Index - 1 : Block[k].op \notin Terminators)
    => State.PC = (StartPC(frame.Name) + 4 * Cardinality(Advanced)) % M

\* i is what the bytes at guest address a decode to now.
InMemory(a, i) ==
  /\ mapAddress(a) # nullptr
  /\ \E u \in Garbage : i = Decoded[read32(State.Memory, a, u)]

\* The block of function n is still the one that translating again would give.
Coherent(n) ==
  \A k \in 1 .. Len(JIT[n]) : InMemory((StartPC(n) + 4 * (k - 1)) % M, JIT[n][k])

\* Every block that the JIT holds is still a translation of the code in memory.
\* So it is in a program that does not modify itself, whatever lies next to its
\* code: the test program's stack frames, or a segment that overlaps it.
CodeIntact == \A n \in DOMAIN JIT : Coherent(n)

\* A block starts its life as a translation of what memory holds.
TranslatedAsFetched ==
  [][\A n \in DOMAIN JIT' \ DOMAIN JIT : Coherent(n)']_vars

\* As long as no store has changed the code a block was made from, and no
\* instruction of it failed to advance the PC, the instruction it runs next
\* is the one an interpreter would fetch at the PC.
RunsInstructionAtPC ==
  (/\ mode = "run"
   /\ frame.Index <= Len(Block)
   /\ Coherent(frame.Name)
   /\ \A k \in 1 .. frame.Index - 1 : Block[k].op \notin NotAdvancing)
    => InMemory(State.PC, Current)

\* A translation stops describing memory only because a store was executed:
\* nothing else, and no later translation, touches a block or the code.
StaleOnlyByStore ==
  [][\A n \in DOMAIN JIT : Coherent(n) =>
       \/ n \in DOMAIN JIT' /\ Coherent(n)'
       \/ mode = "run" /\ Current.op \in Stores]_vars

\* The PC is always even: branch and JAL offsets are, and JALR clears bit 0.
PCEven == State.PC % 2 = 0

Halted == mode \in {"exit", "wild"}

\* Every time main looks for the block at the PC, that block is called, unless
\* the program ends first.
DispatchServed ==
  mode = "dispatch" ~>
    \/ mode = "run" /\ frame.Index = 1 /\ frame.Name = FuncName(State.PC)
    \/ Halted

-----------------------------------------------------------------------------
(***************************************************************************)
(* What the safety properties rest on: where main and generateFunc are.    *)
(***************************************************************************)

\* The block generateFunc has so far was fetched from consecutive addresses,
\* from the PC on, and goes on until a terminator or Threshold instructions.
Building ==
  mode = "translate" =>
    LET b == gen.Block
    IN  /\ State.PC \in DOMAIN PCToFunc
        /\ gen.TempPC = (State.PC + 4 * Len(b)) % M
        /\ Len(b) <= Threshold
        /\ \A k \in 1 .. Len(b) :
             /\ b[k].op \in Terminators <=> (k = Len(b) /\ ~gen.Continue)
             /\ InMemory((State.PC + 4 * (k - 1)) % M, b[k])
        /\ ~gen.Continue => b # <<>>

\* A function runs, or has just ended, in a block the JIT holds.
Running ==
  mode = "run" => frame.Name \in DOMAIN JIT /\ frame.Index \in 1 .. Len(Block) + 1

\* main looks up a name that it entered.
Looking == mode = "lookup" => State.PC \in DOMAIN PCToFunc

\* The inductive invariant.
IInv ==
  /\ TypeOK
  /\ Building
  /\ Running
  /\ Looking
  /\ NamesResolve
  /\ NoDuplicateSymbol
  /\ BlockShape
  /\ PCTracksBlock
  /\ PCEven
=============================================================================
