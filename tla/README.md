# A verification of dbtranslator

dbtranslator runs 32-bit RISC-V programs by translating them, one basic block
at a time, to LLVM IR that a JIT compiles for the host. This directory holds
TLA+ models of the translator, their TLC configurations, and theorems about
them that TLAPS checks. Paths below are relative to `src/dbtranslator/`.

## 1. The system

| Part | Source | State | Operations |
|---|---|---|---|
| Guest memory | `include/dbtranslator/Memory.h`, `src/Memory.cpp`, `tests/Memory.ll` | the segments: guest address, size, host block | `mapAddress`, `read8/16/32`, `write8/16/32` |
| Decoder | `decode` in `src/Instruction.cpp` | none | instruction word to kind |
| Code generation | the `build_ir` methods and `generate` in `src/Instruction.cpp` | none of its own; the code it emits changes the CPU state | one per kind of instruction |
| CPU state | `include/dbtranslator/CPU.h`, `src/CPU.cpp` | 32 registers, PC, pointer to the memory | `dump` |
| Main loop | `main` in `tests/Main.cpp` | CPU state, `PCToFunc`, the JIT | find, translate, look up, call |
| Translation | `generateFunc` in `tests/Main.cpp` | the block under construction | fetch, decode, generate, add the module |
| Loader | `parseElf` in `src/Binary.cpp` | builds the segments | once, at the start |
| Start-up | `main` in `tests/Main.cpp`, before the loop | arguments, the JIT | once, at the start |
| LLVM glue | `tests/Main.cpp` | none | optimise, declare the memory functions, create the JIT |

`main` keeps one map from guest PCs to function names. When the PC has no
entry, `generateFunc` fetches words through `read32` from that PC on, decodes
and generates each, and stops after a jump or branch or after `--threshold`
instructions (64). It gives the function to the JIT. `main` looks the name up
and calls the function with the CPU state; the function returns with the PC of
the next block in the CPU state. Generated code reaches memory through the six
functions of `Memory.ll`, the translator itself through those of `Memory.cpp`.

There is one thread. What is hard is not concurrency but state that is used
later than it was computed (a cached block, an entered name, a PC in memory),
arithmetic at the edges of 32 bits, undefined behaviour of the host, and 47
hand-written code generators that repeat the same few steps. `hazards` in
`PROJECT.json` lists each place, with the properties that watch it.

What makes each part correct:

- memory: the segment list behaves as one flat store of bytes;
- decoder: it accepts exactly the listing of RV32I, and the operands are those
  that were encoded;
- code generation: the code does what the instruction set says, or where it does
  not, that is one of a few named places;
- translation and dispatch: a name that is looked up exists, no block is
  translated twice, a block is what memory held, and what runs is what an
  interpreter would run at the PC, until a store changes the code;
- the translator as a whole: the guest cannot tell it from an interpreter, nor,
  where the generated code follows the instruction set, from a RISC-V machine;
- loading: the guest finds in memory what the file says, and a stack;
- progress: translation ends, and each dispatch is served or the program ends.

## 2. The modules

| Module | Models | How it corresponds |
|---|---|---|
| `Memory` | `Memory.h`, `Memory.cpp` | operators; the layout is the constant `SegmentData`, contents are passed as `m[I][o]`, the byte at offset `o` of segment `I` |
| `GuestMemory` | the accessors of `Memory.ll` and `Memory.cpp` as actions | `Memory` (contents) and `Access` (the last call, as its caller saw it) |
| `FlatMemory` | nothing in the code: what the memory promises | a flat store cut into regions |
| `Encoding` | `decode` and the operand extraction | a word is the record of its six fields |
| `Instruction` | the 37 `build_ir` methods that compute, the no-operations and `generate` | one operator per method, from CPU state to CPU state |
| `GuestISA` | nothing in the code: RV32I, bit by bit | the reference that `Instruction` is compared with: `ISA` for the instructions that do not trap, `Traps` for those that do |
| `Translator` | `main` from the loop on, and `generateFunc` | variables `State`, `PCToFunc`, `JIT`, `gen` (the locals of `generateFunc`), `frame` (the running function), `mode` |
| `Interpreter` | nothing in the code: what the translator promises the guest | a machine that fetches, decodes and executes at the PC; parameterised by the instruction set |
| `Refinement` | `Translator` with two history variables, and the mapping to `Interpreter` | `stored`: the addresses the guest has stored to; `lost`: whether it ran code of which `Interpreter` says nothing |
| `Machine` | `Refinement` with one more history variable, and the mapping to `Interpreter` with the instructions of `GuestISA` | `strayed`: whether it ran code that does not do what RV32I says; `FollowsISA` lists the places where that can happen |
| `Loader` | `parseElf` | `File` (what the ELF file holds), `Reader` (what ELFIO made of it), `Layout` and `Contents` (the segments), one action per turn of the loop |
| `Startup` | `main` up to the first call of `generateFunc` | extends `Loader`; one action per call that may fail |
| `MemoryProofs`, `GuestMemoryProofs`, `EncodingProofs`, `TranslatorProofs`, `StartupProofs` | | lemmas and theorems about the modules of the same name |
| `InstructionProofs`, `ISAProofs` | | `Instruction` alone and against `GuestISA`; the properties of run `instruction` |
| `RefinementProofs` | | `Refinement` and `Machine` |
| `MC...` | | instances for TLC |

`Translator` extends `Instruction`, which extends `Memory`; `Machine` joins
`Refinement` with `GuestISA`, and `MCFib` joins `Translator` with `Encoding`.
`Startup` ends where `Translator` begins: it instantiates `Memory` with the
segments it builds, and `ReadyForLoop` says that these satisfy what `Translator` assumes of its constants and initial state
(that the entry point is even is up to the file).

The actions of `Translator` are the steps between which something can go
wrong: `Find` and `BeginTranslate` (lines 195-197 and the start of
`generateFunc`, the entry in `PCToFunc` included), `TranslateInstr` (one turn
of the loop 101-121), `AddModule` and `AddModuleFails` (127-130 with 198-202),
`Call` and `LookupFails` (204), `Execute` (one guest instruction of the
function called at 205) and `Return`. A block is kept as the sequence of its
instructions, and runs one at a time, so that a store in a block can change
code, that of its own block included.

In `Loader` and `Startup` an action is a call that main or `parseElf` makes.
ELFIO is external: of a file it reads a prefix of the program headers, or
nothing, and returns a null pointer as the data of a segment without any.
Files are 64-bit, as ELFIO's getters are; `Address` and `Size` are the 32 bits
that the translator keeps. Bytes that `memcpy` reads past the data of the file
come from `Fill`, or fault (`CopyFault`).

Undefined behaviour:

- The null pointer of `mapAddress` is always dereferenced, `Memory.ll` tells
  the optimiser that it does not occur, a store past the end of a segment
  overwrites the host heap, and a failed lookup is dereferenced. Nothing is
  said of what follows: these steps (`FetchFault`, `AccessFault`,
  `LookupFails`; `NullAccess`, `WriteOverrun`; `CopyFault`, `NoMemoryImpl`) lead to a state with no successor but itself.
- A load past the end of a segment reads whatever the host heap holds, and
  LLVM's result of a shift by 32 or more is arbitrary: a value from `Garbage`.

Scaling: a byte has `Byte` values, 256 in the code, and a word is four bytes,
so `M = Byte^4` addresses and values. All arithmetic wraps at `M` where the
code computes in `uint32_t`. `Byte` is 2, 4 or 8 in the runs, and any even
number in the theorems. Every edge (wrap, sign, partial word) is there at
any size; immediates are taken modulo `M` as the code takes them modulo 2^32.

## 3. The runs

| Run | Question | Bounds | States |
|---|---|---|---|
| `memory` | does the segment list implement a flat store? | 16 addresses; five segments that overlap, touch, wrap and end one short of the top | 1,024 |
| `encoding` | does `decode` accept the listing and nothing else; are immediates what was encoded? | every opcode and field value that a test in the code or the listing distinguishes; all 13-bit values and those around powers of two up to 2^20 | 27,023 |
| `encoding_jal` | is the JAL offset right over its whole range? **No**: -1048576 comes out positive | the same | |
| `encoding_pause` | does the PAUSE hint decode to PAUSE? **No** | the same | |
| `instruction` | does generated code do what RV32I says? | every kind of instruction, 4-bit words, every value of two registers, register 0 unwritten or holding 5, `rd` and `rs1` among 0 and 1 (so that a destination may be a source), PC 4 or 12 and offsets that lead to multiples of 4, past them, and around the end of the address space, two values for undefined results, two overlapping segments | 645,664 |
| `instruction_slt` | do SLT and SLTU compare their sources? **No** | the same | |
| `translator` | is every block that runs the right one, and does it get called? | every program of 3 words from 11 (one of each shape: arithmetic, jumps, branch, call, load and store of code, undefined shift, ECALL, FENCE, UNKNOWN); 8-bit words; Threshold 2, so that both ends of a block occur; the JIT may fail | 73,161 |
| `refinement` | can the guest tell the translator from an interpreter, or from a RISC-V machine? | the programs of `translator`, with a JIT that does not fail | 60,882 |
| `fib` | does the repository's test program run to the end? | its 42 words and 7 segments, 12-bit addresses, Threshold 64, s = 5 | 248 |
| `fib_x0` | does it compute fib_recursion(5)? **No** | the same | |
| `startup` | what does the loop find in memory? | 8-bit addresses, a stack of 32 bytes; five files: PT_PHDR inside PT_LOAD, a header that hides part of the next, data shorter than the segment or absent, a segment at the top of memory, 64-bit addresses and sizes; each read whole, in part or not at all; two fillings of unwritten memory | 500 |
| `startup_threshold` | can `--threshold` be used? **No** | the same | |

What the passing runs show:

- **memory.** `ImplementsFlat` is a refinement: each sequence of calls is one
  of the flat store. First match decides between overlapping segments, for
  loads and stores alike; an access is exact inside the segment of its first
  byte; beyond it a load gets anything and a store fails. A segment whose
  range ends at 2^32 is not mapped at all. No bound on the sequence of calls:
  the state space is closed. The view leaves out the last access, which no
  later step reads.
- **encoding.** The words of the listing decode to their instruction
  (`DecodesListing`), all others to UNKNOWN, with the leniencies that
  `Lenient` names (`RefusesTheRest`). Immediates come out as assembled
  (`ImmediateRoundTrip`), JAL offsets within 512 KiB (`NearJumps`).
  `OperandsWellFormed` is what `Translator` assumes of `Decoded`, checked with
  the parameters of the code (32 bits, 32 registers).
- **instruction.** `Differs` names where the translator and RV32I differ: an
  instruction reads a register 0 that is not 0; SLT or SLTU compares two
  registers; a register shift has an amount of 32 or more; or RV32I traps. Traps
  are an illegal instruction, ECALL, EBREAK, and a jump or taken branch to an
  address that is not a multiple of 4, which raises an exception since RV32I has
  no instructions of two bytes. The translator has no traps: EBREAK is a
  no-operation, UNKNOWN and ECALL are skipped without advancing the PC, and after
  a misaligned jump it goes on at the target. What it does there is modelled in
  `Translator`, and not compared with anything. `ImplementsISA` shows that
  everywhere else they agree on the whole architectural state, except for
  accesses that leave the segment of their first byte (`Contained`), which
  `memory` is about. `OnlyZeroRegisterDiffers` shows that a result for x0 has no
  effect but on x0. Data accesses that are not aligned are not among the
  differences: RV32I lets an implementation make them exact, and the loads and
  stores of `Memory.ll` are taken to be so although they promise LLVM an
  alignment of 2 or 4, as they are in the code for the x86 host that the file
  targets.
- **translator.** See the properties in `Translator.tla`. The programs modify
  themselves, loop, fall off the end of the code, wrap around address 0 into
  the stack, and make every block length.
- **fib.** `CodeIntact`: the stack of the recursion, which lies above the code,
  never reaches it, with the overlapping segments `parseElf` makes of PT_PHDR
  and PT_LOAD. `MainReturns`: all calls return.

- **refinement.** `ImplementsInterpreter`: blocks, the cache that is never
  invalidated and the fetching ahead change nothing that the guest sees, until
  it runs bytes that it has stored (they may be old or new) or an instruction
  for which nothing is generated (the PC then stays behind). With a JIT that
  does not fail, the translator stops only where the interpreter faults or
  where straight-line code ahead leaves the memory within `Threshold`
  instructions, even if the program would never get there. `Fresh` is the
  reason: a cached instruction is that of the word in memory unless one of the
  bytes of that very word has been stored to. The model is that of
  `translator`, so its bounds have the same cases. The run is of `MSpec`, which is
  `HSpec` with the variable `strayed` (`MachineHistory`).
- **refinement, as a RISC-V machine.** `ImplementsRISCV`: `ImplementsISA` and
  `ImplementsInterpreter` joined. Step by step,
  registers, PC and every byte of memory are those of a machine that does what
  RV32I says on a flat memory, through blocks, cache and generated code, until
  the program runs code that it stored or comes to one of five places: it reads
  a register 0 that was written, compares two registers with SLT or SLTU,
  shifts by a register that holds 32 or more, crosses the end of a segment, or
  comes to a trap of RV32I (an illegal instruction, ECALL, EBREAK, or a jump or
  taken branch to an address that is not a multiple of 4). Register 0 itself is left out of the machine's state but for one
  bit, whether something other than 0 may be in it, so a program may write to it
  as long as it does not read it. The programs meet all of these places but the
  comparison and EBREAK, some of them by a JALR to the middle of a word; 11 instructions are too few to compare all of RV32I, which is what
  `instruction` is for.
- **startup.** `LinkedImage`: although every header is mapped, whatever its
  type, the guest reads what the file has wherever no earlier header shows
  something else. `StackReady`: below the stack pointer, words can be stored
  without leaving the stack's block, whose range ends one short of 2^32 and so
  does not wrap. `UnreadableNeverRuns`: a file that cannot be read, which
  nothing checks, faults at the first fetch. `ReadyForLoop` is what
  `Translator` takes for granted.

What the failing runs show (`findings`): the sign of JAL offsets is taken from
the wrong bit; a `--threshold` on the command line throws an exception that nothing catches;
PAUSE can never be decoded (harmless: FENCE generates the same
code); SLT and SLTU compare `rs1` with itself; and x0 keeps what is written to
it, by which the repository's own test program returns a wrong result, since
`li` is an addition to x0 and `j` writes its link there.

Deadlock is checked except where the model really ends: `memory` after
undefined behaviour, and `instruction` after its one step.

Fairness is `WF_vars(Next)`, in `translator` and `fib` only: one host
thread runs the loop, nothing in it waits for anything, so whenever a step is
possible some step is taken. Nothing is assumed about which: the JIT may fail
whenever it may.

Each property of a passing run has a mutant (`mutants`): an operator with a
plausible mistake, defined above the one that it replaces, with which TLC finds
the property violated. They are marked `Mutant` in the modules, and are no
part of the model.

## 4. The theorems

All are proved for every segment layout (`SegmentAssumption`), every even byte
size, any number of registers above two, any `Decoded` that yields well-formed
instructions, any contents, entry point and `Threshold > 0`. The assumptions
stand in the module that declares the constant, and TLC evaluates them in every
run that reaches it.

The provers know nothing of `^`, nor of the tables that stand for LLVM's bitwise
operations on a byte. What is needed is assumed: `WidthAssumption`
(`2^XLEN = M`), and for the comparison with RV32I `PowerAssumption` (`2^0 = 1`,
`2^(k+1) = 2 * 2^k`), `ByteBitsAssumption` (a word is four bytes of `ByteBits`
bits) and `BitwiseMeaning` (the tables are and, or and xor, bit by bit). All of
them are true of the code's sizes.

- `MemoryProofs`: `MapAddressInBlock` (a pointer that `mapAddress` returns lies
  in the host block of a segment; by the existence of a first match and the
  arithmetic of the wrapping end), `ReadType`, `WriteType`, `ReadKept` (a
  store leaves `read32` alone at addresses whose bytes it does not touch) and
  `ReadWritten` (`read32` after `write32` inside a block yields the word that
  was written, whatever the segments overlap: both find the same segment).
- `GuestMemoryProofs`: `MemoryTypeCorrect`, `MemoryIsFlat` (`Spec =>
  ImplementsFlat`). The region of an address is the segment that `mapAddress`
  finds; an access that starts in a region is exact on its bytes in the region,
  because first match sends every address of the region to the same block at
  consecutive offsets (`RegionIsSegment`, `NearInBlock`); and the digits of a
  word in base `Byte` are unique, so that what a load returns determines the
  bytes (`digits`).
- `InstructionProofs`: `GenerateType`: the code for any instruction that does
  not fault takes a CPU state to a CPU state, keeps an even PC even, and
  changes memory only if it is a store. One lemma per shape of generated code;
  `StraightStep` and `TransferStep` also give the next PC.
  `GenerateImplementsISA`: with register 0 read as 0, the code for any
  instruction takes a CPU state to the one that `GuestISA` says, unless it
  reads a register 0 that is not 0, or is one of the cases that `Differs` names:
  `~Traps` is a hypothesis of the theorem, and with it EBREAK and misaligned
  targets are excluded and not claimed.
- `ISAProofs`: `InstructionTypeCorrect`, `ISAImplemented` and
  `OnlyZeroDiffers`, the properties of run `instruction`, of a specification
  that starts in any CPU state, register 0 written or not, with any instruction
  and any set of values for undefined results; `RunIsCovered` says that
  the run's specification is an instance.
- `EncodingProofs`: one theorem for each property of run `encoding`, for every
  word and every immediate, and `FarJumpsGoAstray`: where `NearJumps` ends, JAL
  offsets are wrong without exception: 2^20 too low forwards, 2^21 too high
  backwards. `EveryWordWellFormed` is what
  `Translator` assumes of `Decoded`.
- `TranslatorProofs`: `Invariance`, and from it every safety property of
  `translator`: `TypeOK`, `NamesResolve`, `NoDuplicateSymbol`, `BlockShape`,
  `PCTracksBlock`, `PCEven`, `RunsInstructionAtPC`, and the action properties
  `TranslatedAsFetched` and `StaleOnlyByStore`.
- `RefinementProofs`: `AlwaysFresh`; `IntactUnlessModified` (a program that
  never stores to a byte of code it has run finds every cached block to be what
  memory holds: `CodeIntact`, which `fib` checks of one program); `Implements`
  (`HSpec => ImplementsInterpreter`) and `ImplementsMachine` (`MSpec =>
  ImplementsRISCV`), which says of the whole translator, for every program, what
  the other modules say of its parts.
- `StartupProofs`: `AlwaysLoading`, and from it `LoopIsReady`, `ImageIsLinked`,
  `StackIsReady` and `UnreadableFaults`, for every set of files, byte size and
  stack size.

The inductive invariant `IInv` of `Translator` adds to the properties what they rest on:
`Building` (the block under construction holds the words from the PC up to
`TempPC`, has no terminator before its end, and is no longer than `Threshold`),
`Running` (the frame points into a block of the JIT), `Looking` (the PC that is
looked up has been entered). `NamesResolve` needs `NoDuplicateSymbol`'s
counterpart for the step that adds a module, `NoDuplicateSymbol` needs that
names are injective, `PCTracksBlock` needs `BlockShape` and that
`((a + 4n) mod M) + 4` and `a + 4(n + 1)` agree modulo `M`. `RunsInstructionAtPC`
follows from `PCTracksBlock` and `BlockShape`: if no earlier instruction of the
block was a terminator or left the PC behind, the count of those that advanced it is
the index. TLC checks `IInv` in `translator`.

The refinement rests on `IInv` with two more: `Fresh`, kept because a store
changes only words it touches (`ReadKept`) and adds them to `stored`, and a new
block is what memory holds; and `OnTrack` (while nothing is lost, each
instruction run so far has advanced the PC), which with `PCTracksBlock` makes
the PC the address of the current instruction. So `Execute` is `Step`,
or `GetLost`; `AccessFault` is `Fault`; `FetchFault` is `HostFault`, because the
block under construction is straight-line code from the PC to the address that
is not mapped (`RunsOut`); all other steps stutter.

The invariant of `Startup` says how far `parseElf` is: segment `I` is header
`I` with the bytes of the file, the stack comes last, once. The rest is
arithmetic on the wrapping end of a range: it covers no address outside the
header's range (`CoversIsTaken`), and all of it if it ends below 2^32.

**From generated code to bits.** The code computes with words and bytes, the
instruction set with bits. A word is determined by its bits (`BitsDetermine`, by
induction on the number of bits, as a least counterexample, since the library's
induction theorems cannot be instantiated), so it is enough to compare bit by
bit; bit `k` is the parity of the quotient by `2^k`, and quotients of sums and
products by powers of two give shifts, extensions, the four bytes of a word and
the cleared bit of JALR (`LeftShift`, `SignExtension`, `WordOfBytes`,
`ClearBit0`). One lemma per shape of instruction (`...Agrees`) puts these together with
the registers.

**The machine.** `ImplementsMachine` follows `Implements` step by step, with the
machine's fetch, memory and instructions in place of the translator's own. It
needs only that `lost` implies `strayed` (`MInv`), and four facts: where a word
is in one segment, what `read32` returns is what the flat memory holds
(`FetchMatches`); registers that are read hold what the machine holds
(`ReadsMatch`); there `GenerateImplementsISA` gives the step (`CodeFollows`);
and register 0 changes only where it is the destination (`KeepsZero`).

**Only model-checked:**

- liveness (`DispatchServed`, `MainReturns`), which is out of the
  provers' reach;
- that the test program never stores to its code. `IntactUnlessModified` has
  this as its hypothesis, and `fib` checks it for s = 5; a proof for every s would
  reason about the stack of one recursive program;
- the failing runs, whose traces TLC finds, `encoding_jal` excepted
  (`FarJumpsGoAstray`).

## 5. Not modelled

- LLVM: the optimiser and the code generator are taken to preserve the meaning
  of the IR, with undefined results arbitrary. `addIRModule` and `lookup`
  appear as steps that may fail.
- `dump`, `InstrToLiteral` and other output.
- What ELFIO and argparse do inside: `Loader` and `Startup` have what they
  return.
- How the JIT links a block to the memory implementation, and that the LLVM
  types of `CPU.cpp` and `Memory.cpp` are laid out as the C++ structs are: both
  are the work of the two compilers, field by field in the same order, and there
  is no state to model.
- Files whose contents the host changes while they are read.
- Traps of RV32I. The code has none: ECALL and EBREAK have no effect in it, so no
  system calls exist, and jumps are not checked. Each is modelled as what the
  code does, and named as a difference from RV32I.
- Each `build_ir`'s own copy of the operand extraction. The copies of one format
  have the same text, so `ImmI`, `ImmS` and `ImmB` stand for all of them; should
  one be edited, the model of that instruction has to get its own.

## 6. Plan

1. Done: `Memory`, `FlatMemory`, `Encoding`, `Instruction`, `GuestISA`,
   `Translator`, their runs, the test program, the theorems above.
2. Done: `Interpreter` and `Refinement`, with the step simulation as a theorem;
   `Loader` and `Startup`, with theorems; `ImplementsFlat` as a theorem.
3. Done: the listing, RV32I and the refinement to a RISC-V machine as theorems.
4. To come: a finer interpreter that also says what happens after an instruction
   for which nothing is generated: how far the PC stays behind, and when a block
   that ends makes the guest run instructions again.
5. To come: the machine with the decoder of `Encoding` in place of any well-formed `Decoded`,
   which needs the two to share one type of instruction.
