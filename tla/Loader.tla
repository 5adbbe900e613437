------------------------------- MODULE Loader -------------------------------
(***************************************************************************)
(* parseElf: the program headers of the ELF file, read by ELFIO, become    *)
(* the segments of the guest memory, one after the other, and a segment    *)
(* for the stack comes last.                                               *)
(*                                                                         *)
(* A program header is a record of what ELFIO returns for it.  Addresses   *)
(* and sizes are 64 bits wide there; the translator keeps 32 of them.      *)
(* data is what the file holds for the segment: ELFIO returns a null       *)
(* pointer for none.                                                       *)
(***************************************************************************)
EXTENDS Integers, Sequences

CONSTANTS
  Byte,       \* how many values a byte takes
  StackSize,  \* 2^24 in the code
  Fill        \* what memory that nothing was written to may be filled with

VARIABLES
  File,       \* what the ELF file holds: [entry, segments]
  Reader,     \* what ELFIO made of it
  Layout,     \* the segments so far, and
  Contents,   \* what they hold
  phase,      \* what main is doing
  thrown      \* the exception that ended the program

loaderVars == <<File, Reader, Layout, Contents, phase, thrown>>

\* The guest memory that the segments make up.
Mem == INSTANCE Memory WITH SegmentData <- Layout

M == Mem!M

ASSUME ByteAssumption == Byte \in Nat /\ Byte >= 2 /\ Byte % 2 = 0
ASSUME StackAssumption == StackSize \in 1 .. M - 2
ASSUME FillAssumption == Fill \subseteq Mem!ByteVal /\ Fill # {}

ProgramHeader ==
  [flags : Nat, virtual_address : Nat, memory_size : Nat, data : Seq(Mem!ByteVal)]
ElfFile == [entry : Nat, segments : Seq(ProgramHeader)]
Empty   == [entry |-> 0, segments |-> <<>>]

-----------------------------------------------------------------------------
(***************************************************************************)
(* ELFIO stops at the first program header that it cannot read and keeps   *)
(* those before it; of a file without an ELF header it keeps nothing.      *)
(* parseElf does not look at the result.                                   *)
(***************************************************************************)
Load ==
  /\ phase = "load"
  /\ \/ Reader' = Empty
     \/ \E n \in 0 .. Len(File.segments) :
          Reader' = [File EXCEPT !.segments = SubSeq(@, 1, n)]
  /\ phase' = "copy"
  /\ UNCHANGED <<File, Layout, Contents, thrown>>

AddSegment(G, N, bytes) ==
  /\ Layout' = Append(Layout, [GuestAddress |-> G, MemorySize |-> N])
  /\ Contents' = Append(Contents, bytes)
  /\ UNCHANGED <<File, Reader, thrown>>

\* The 32 bits of an address or a size that are kept.
Address(h) == h.virtual_address % M
Size(h)    == h.memory_size % M

\* The program header that the loop of parseElf is at.
Copying == phase = "copy" /\ Len(Layout) < Len(Reader.segments)
Header  == Reader.segments[Len(Layout) + 1]

\* memcpy reads past the data of the file if the segment is larger.
Copied(u) ==
  [o \in 0 .. Size(Header) - 1 |-> IF o < Len(Header.data) THEN Header.data[o + 1] ELSE u]

\* Mutants: only headers with the flags PT_LOAD are copied; the size keeps
\* its 64 bits.
CopySegmentIfLoad ==
  /\ Copying
  /\ Size(Header) > 0 => Header.data # <<>>
  /\ \E u \in Fill :
       IF Header.flags = 1
       THEN AddSegment(Address(Header), Size(Header), Copied(u))
       ELSE AddSegment(0, 0, <<>>)
  /\ UNCHANGED phase

CopySegmentAnySize ==
  /\ Copying
  /\ Size(Header) > 0 => Header.data # <<>>
  /\ \E u \in Fill : AddSegment(Address(Header), Header.memory_size, Copied(u))
  /\ UNCHANGED phase

CopySegment ==
  /\ Copying
  /\ Size(Header) > 0 => Header.data # <<>>
  /\ \E u \in Fill : AddSegment(Address(Header), Size(Header), Copied(u))
  /\ UNCHANGED phase

\* The bytes that memcpy reads past the data of the file need not be there.
CopyFault ==
  /\ Copying
  /\ Size(Header) > Len(Header.data)
  /\ phase' = "wild"
  /\ UNCHANGED <<File, Reader, Layout, Contents, thrown>>

\* operator new may fail for any of the segments.
AllocationFails ==
  /\ phase = "copy"
  /\ thrown' = "bad_alloc"
  /\ phase' = "aborted"
  /\ UNCHANGED <<File, Reader, Layout, Contents>>

\* Mutants: the stack ends where the address space does; its address is
\* never set.
AddStackToTheEnd ==
  /\ phase = "copy"
  /\ Len(Layout) = Len(Reader.segments)
  /\ \E u \in Fill : AddSegment(M - StackSize, StackSize, [o \in 0 .. StackSize - 1 |-> u])
  /\ phase' = "loaded"

AddStackAtZero ==
  /\ phase = "copy"
  /\ Len(Layout) = Len(Reader.segments)
  /\ \E u \in Fill : AddSegment(0, StackSize, [o \in 0 .. StackSize - 1 |-> u])
  /\ phase' = "loaded"

AddStack ==
  /\ phase = "copy"
  /\ Len(Layout) = Len(Reader.segments)
  /\ \E u \in Fill : AddSegment((-1 - StackSize) % M, StackSize, [o \in 0 .. StackSize - 1 |-> u])
  /\ phase' = "loaded"

parseElf == Load \/ CopySegment \/ CopyFault \/ AllocationFails \/ AddStack
=============================================================================
