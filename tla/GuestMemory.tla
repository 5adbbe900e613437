---------------------------- MODULE GuestMemory ----------------------------
(***************************************************************************)
(* The segmented memory as its callers see it: any sequence of calls of    *)
(* the six accessors, by generateFunc fetching an instruction word and by  *)
(* translated code.                                                        *)
(***************************************************************************)
EXTENDS Memory

CONSTANTS
  Images,  \* what the segments may hold at the start
  Garbage  \* what the host heap may hold past a segment

ASSUME ImagesAssumption == \A m \in Images : IsContents(m)
ASSUME GarbageAssumption == Garbage \subseteq Val /\ Garbage # {}

VARIABLES
  Memory,  \* what the segments hold
  Access   \* the last access, as its caller saw it

vars == <<Memory, Access>>

Size == {1, 2, 4}
Ops  == {"none", "read", "write", "undefined"}
NoAccess == [op |-> "none", Addr |-> 0, Size |-> 1, Data |-> 0]

Init ==
  /\ Memory \in Images
  /\ Access = NoAccess

-----------------------------------------------------------------------------
(***************************************************************************)
(* An access that is undefined behaviour is the last one: nothing is said  *)
(* of what follows it.                                                     *)
(***************************************************************************)
Defined == Access.op # "undefined"

Done(op, Addr, n, Data) ==
  Access' = [op |-> op, Addr |-> Addr, Size |-> n, Data |-> Data]

Reads(Addr, n, v) ==
  /\ Done("read", Addr, n, v)
  /\ UNCHANGED Memory

Read8(Addr) ==
  /\ Defined
  /\ mapAddress(Addr) # nullptr
  /\ \E u \in Garbage : Reads(Addr, 1, read8(Memory, Addr, u))

Read16(Addr) ==
  /\ Defined
  /\ mapAddress(Addr) # nullptr
  /\ \E u \in Garbage : Reads(Addr, 2, read16(Memory, Addr, u))

Read32(Addr) ==
  /\ Defined
  /\ mapAddress(Addr) # nullptr
  /\ \E u \in Garbage : Reads(Addr, 4, read32(Memory, Addr, u))

\* A write of n bytes stays in the block that its first byte is in.
Writable(Addr, n) ==
  mapAddress(Addr) # nullptr /\ InBlock(mapAddress(Addr), n)

Write8(Addr, Data) ==
  /\ Defined
  /\ Writable(Addr, 1)
  /\ Memory' = write8(Memory, Addr, Data)
  /\ Done("write", Addr, 1, Data)

Write16(Addr, Data) ==
  /\ Defined
  /\ Writable(Addr, 2)
  /\ Memory' = write16(Memory, Addr, Data)
  /\ Done("write", Addr, 2, Data)

Write32(Addr, Data) ==
  /\ Defined
  /\ Writable(Addr, 4)
  /\ Memory' = write32(Memory, Addr, Data)
  /\ Done("write", Addr, 4, Data)

\* An access through the null pointer.
NullAccess(Addr, n) ==
  /\ Defined
  /\ mapAddress(Addr) = nullptr
  /\ Done("undefined", Addr, n, 0)
  /\ UNCHANGED Memory

\* A write that runs past the block of its segment.
WriteOverrun(Addr, n) ==
  /\ Defined
  /\ mapAddress(Addr) # nullptr
  /\ ~Writable(Addr, n)
  /\ Done("undefined", Addr, n, 0)
  /\ UNCHANGED Memory

Next ==
  \E Addr \in Val :
    \/ Read8(Addr) \/ Read16(Addr) \/ Read32(Addr)
    \/ \E Data \in 0 .. Byte - 1 : Write8(Addr, Data)
    \/ \E Data \in 0 .. Byte * Byte - 1 : Write16(Addr, Data)
    \/ \E Data \in Val : Write32(Addr, Data)
    \/ \E n \in Size : NullAccess(Addr, n) \/ WriteOverrun(Addr, n)

Spec == Init /\ [][Next]_vars

-----------------------------------------------------------------------------
(***************************************************************************)
(* Properties.                                                             *)
(***************************************************************************)

\* Segments keep their extent and hold bytes.
TypeOK ==
  /\ IsContents(Memory)
  /\ Access \in [op : Ops, Addr : Val, Size : Size, Data : Val]

\* The guest addresses at which segment I can be seen.  A segment that
\* reaches the end of the address space is not mapped at all: the end that
\* mapAddress compares with wraps around.
Span(I) ==
  LET G == SegmentData[I].GuestAddress
      N == SegmentData[I].MemorySize
  IN  {a \in Val : G <= a /\ a < G + N /\ G + N < M}

\* An address shows the byte of the first segment that spans it.
SegmentOf ==
  [a \in Val |->
     LET Spanning == {I \in Segment : a \in Span(I)}
     IN  IF Spanning = {} THEN 0
         ELSE CHOOSE I \in Spanning : \A J \in Spanning : I <= J]

FlatView ==
  [a \in {b \in Val : SegmentOf[b] # 0} |->
     Memory[SegmentOf[a]][a - SegmentData[SegmentOf[a]].GuestAddress]]

\* The segmented memory implements the flat one, whatever the segments: they
\* may overlap, touch or reach the end of the address space.  A byte that one
\* segment hides from another is never seen, and no store reaches a byte
\* outside its own range.
Flat == INSTANCE FlatMemory WITH
  Region <- SegmentOf, flat <- FlatView, last <- Access
ImplementsFlat == Flat!Spec
=============================================================================
