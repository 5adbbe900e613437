------------------------------ MODULE Startup -------------------------------
(***************************************************************************)
(* main, up to the first block: the command line, the JIT with the memory  *)
(* implementation, the ELF file, the CPU state, and the first call of      *)
(* generateFunc, from which on Translator is the model.                    *)
(***************************************************************************)
EXTENDS Loader

CONSTANTS
  NumRegs,  \* 32 in the code
  Files     \* the ELF files there may be

VARIABLES
  Args,     \* "given" if there is a --threshold on the command line
  State     \* the registers and the PC

vars == <<loaderVars, Args, State>>

Reg == 0 .. NumRegs - 1

ASSUME RegAssumption == NumRegs \in Nat /\ NumRegs > 2
ASSUME FilesAssumption == Files \subseteq ElfFile

NoState == [Registers |-> <<>>, PC |-> 0]

Init ==
  /\ File \in Files
  /\ Args \in {"given", "default"}
  /\ Reader = Empty
  /\ Layout = <<>>
  /\ Contents = <<>>
  /\ State = NoState
  /\ thrown = "none"
  /\ phase = "parse_args"

Goto(p) ==
  /\ phase' = p
  /\ UNCHANGED <<File, Reader, Layout, Contents, thrown, Args, State>>

-----------------------------------------------------------------------------
\* An argument that is missing or unknown; or --help, which exits at once.
ParseArgs == phase = "parse_args" /\ \E p \in {"jit", "exit"} : Goto(p)

\* LLJIT may not be created, or refuse the memory implementation.
InitializeLLJIT == phase = "jit" /\ \E p \in {"load", "exit"} : Goto(p)

\* parseIRFile returns a null module for a file that it cannot read, which is
\* passed on unchecked.
NoMemoryImpl == phase = "jit" /\ Goto("wild")

ParseElf == parseElf /\ UNCHANGED <<Args, State>>

\* Mutant: the stack pointer is left at zero.
StartNoStack ==
  /\ phase = "loaded"
  /\ State' = [Registers |-> [r \in Reg |-> 0], PC |-> Reader.entry % M]
  /\ phase' = "loop"
  /\ UNCHANGED <<File, Reader, Layout, Contents, thrown, Args>>

Start ==
  /\ phase = "loaded"
  /\ State' = [Registers |-> [r \in Reg |-> IF r = 2 THEN (-16) % M ELSE 0],
               PC |-> Reader.entry % M]
  /\ phase' = "loop"
  /\ UNCHANGED <<File, Reader, Layout, Contents, thrown, Args>>

\* The threshold is asked for as an int for every block that is translated.
\* The default is an int; an argument is a string, unless scan says otherwise.
GetThreshold ==
  /\ phase = "loop"
  /\ \/ Args = "default" /\ phase' = "generateFunc" /\ UNCHANGED thrown
     \/ Args = "given" /\ phase' = "aborted" /\ thrown' = "bad_any_cast"
  /\ UNCHANGED <<File, Reader, Layout, Contents, Args, State>>

Done == phase \in {"generateFunc", "exit", "wild", "aborted"} /\ UNCHANGED vars

Next ==
  \/ ParseArgs \/ InitializeLLJIT \/ NoMemoryImpl
  \/ ParseElf \/ Start \/ GetThreshold \/ Done

Spec == Init /\ [][Next]_vars

-----------------------------------------------------------------------------
(***************************************************************************)
(* Properties.                                                             *)
(***************************************************************************)
Running == phase \in {"loop", "generateFunc"}

\* What Translator takes for granted of the segments and of the state: each is
\* the 32-bit part of what the file says, and every segment holds the bytes
\* that its size promises.
ReadyForLoop ==
  Running =>
    /\ Layout \in Seq(Mem!SegmentManager)
    /\ Mem!IsContents(Contents)
    /\ State.Registers \in [Reg -> Mem!Val]
    /\ State.PC \in Mem!Val

\* Header g puts nothing but byte b at address a.
Allows(g, a, b) ==
  LET o == a - Address(g)
  IN  o \in 0 .. Size(g) - 1 => o < Len(g.data) /\ g.data[o + 1] = b

\* Although every program header is mapped, whatever it is for, and the first
\* one that covers an address wins, the guest reads at an address what the
\* file has for it, if the segment ends below 2^32 and the headers before it
\* that cover the address, PT_PHDR for one, have the same byte there.
LinkedImage ==
  Running => \A I \in DOMAIN Reader.segments :
    LET h == Reader.segments[I]
        End == h.virtual_address + h.memory_size
    IN  End < M => \A o \in 0 .. h.memory_size - 1 :
          LET a == h.virtual_address + o
          IN  /\ o < Len(h.data)
              /\ \A J \in 1 .. I - 1 : Allows(Reader.segments[J], a, h.data[o + 1])
              => /\ Mem!mapAddress(a) # Mem!nullptr
                 /\ Mem!read8(Contents, a, 0) = h.data[o + 1]

\* Address a belongs to a program header.
Taken(a) ==
  \E I \in DOMAIN Reader.segments :
    LET h == Reader.segments[I] IN a - Address(h) \in 0 .. Size(h) - 1

\* The words below the stack pointer, down to the bottom of the stack, can be
\* stored to without leaving the block of the stack, although that begins at
\* an odd address and its end is one short of the end of the address space.
StackReady ==
  Running => \A a \in Mem!Val :
    LET p == Mem!mapAddress(a)
    IN  /\ M - 1 - StackSize <= a /\ a < State.Registers[2]
        /\ ~Taken(a)
        => p.Segment = Len(Layout) /\ Mem!InBlock(p, 4)

\* A file that ELFIO cannot make anything of does not run: the entry point is
\* then 0, where nothing is mapped, so that the first fetch already faults.
UnreadableNeverRuns ==
  Running /\ Reader = Empty => Mem!mapAddress(State.PC) = Mem!nullptr

\* An option that the help text offers can be used.
ThresholdAccepted == Args = "given" => thrown # "bad_any_cast"

-----------------------------------------------------------------------------
(***************************************************************************)
(* What the properties rest on: how far parseElf is.                       *)
(***************************************************************************)
Phases == {"parse_args", "jit", "load", "copy", "loaded", "loop", "generateFunc",
           "exit", "wild", "aborted"}

TypeOK ==
  /\ File \in ElfFile
  /\ Reader \in ElfFile
  /\ Layout \in Seq(Mem!SegmentManager)
  /\ Contents = [I \in Mem!Segment |-> Contents[I]]
  /\ Mem!IsContents(Contents)
  /\ phase \in Phases

\* Segment I is header I, with the bytes that the file has for it.
FromHeader(I) ==
  LET h == Reader.segments[I]
  IN  /\ Layout[I] = [GuestAddress |-> Address(h), MemorySize |-> Size(h)]
      /\ \A o \in 0 .. Size(h) - 1 : o < Len(h.data) => Contents[I][o] = h.data[o + 1]

StackSegment == [GuestAddress |-> M - 1 - StackSize, MemorySize |-> StackSize]

Loading ==
  /\ phase \in {"parse_args", "jit", "load"} => Layout = <<>>
  /\ phase = "copy" => Len(Layout) <= Len(Reader.segments)
  /\ \A I \in DOMAIN Layout : I <= Len(Reader.segments) => FromHeader(I)
  /\ phase \in {"loaded", "loop", "generateFunc"} =>
       /\ Len(Layout) = Len(Reader.segments) + 1
       /\ Layout[Len(Layout)] = StackSegment

Started ==
  Running => State = [Registers |-> [r \in Reg |-> IF r = 2 THEN (-16) % M ELSE 0],
                      PC |-> Reader.entry % M]

\* At every point of parseElf, segment after segment has been copied from its
\* header and the stack comes last, once; and main changes neither afterwards.
IInv == TypeOK /\ Loading /\ Started
=============================================================================
