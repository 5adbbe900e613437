--------------------------- MODULE StartupProofs ----------------------------
(***************************************************************************)
(* Startup for every set of ELF files, byte size and stack size: parseElf  *)
(* hands over memory that Translator can use, and the guest sees the file  *)
(* in it.                                                                  *)
(***************************************************************************)
EXTENDS Startup, SequenceTheorems, WellFoundedInduction, TLAPS

\* There are at least 16 addresses, so that the stack pointer is one.
LEMMA SixteenAddresses == M \in Nat /\ M >= 16
<1>1. Byte \in Nat /\ Byte >= 2
  BY ByteAssumption
<1>2. Byte * Byte \in Nat /\ Byte * Byte >= 4
  BY <1>1
<1>3. (Byte * Byte) * Byte \in Nat /\ (Byte * Byte) * Byte >= 8
  BY <1>1, <1>2
<1>4. ((Byte * Byte) * Byte) * Byte \in Nat /\ ((Byte * Byte) * Byte) * Byte >= 16
  BY <1>1, <1>3
<1> QED
  BY <1>4 DEF M, Mem!M

\* What is left of 64 bits when 32 are kept is an address.
LEMMA LowerHalf == ASSUME NEW v \in Int PROVE v % M \in Mem!Val
BY SixteenAddresses DEF Mem!Val, M

\* Where the stack begins and what the stack pointer is.
LEMMA StackNumbers ==
  /\ (-1 - StackSize) % M = M - 1 - StackSize
  /\ (-16) % M = M - 16
  /\ StackSize \in 1 .. M - 2
  /\ StackSegment \in Mem!SegmentManager
<1>1. M \in Nat /\ M >= 16 /\ StackSize \in 1 .. M - 2
  BY SixteenAddresses, StackAssumption
<1>2. (-1 - StackSize) % M = M - 1 - StackSize
  BY <1>1
<1>3. (-16) % M = M - 16
  BY <1>1
<1> QED
  BY <1>1, <1>2, <1>3 DEF StackSegment, Mem!SegmentManager, Mem!Val, M

\* The program headers that parseElf sees have the types of ELFIO's getters.
LEMMA HeaderTypes ==
  ASSUME TypeOK, NEW I \in DOMAIN Reader.segments
  PROVE  /\ Reader.segments[I] \in ProgramHeader
         /\ Address(Reader.segments[I]) \in Mem!Val
         /\ Size(Reader.segments[I]) \in Mem!Val
<1>1. Reader.segments \in Seq(ProgramHeader)
  BY DEF TypeOK, ElfFile
<1>2. Reader.segments[I] \in ProgramHeader
  BY <1>1
<1>3. /\ Reader.segments[I].virtual_address \in Int
      /\ Reader.segments[I].memory_size \in Int
  BY <1>2 DEF ProgramHeader
<1> QED
  BY <1>2, <1>3, LowerHalf DEF Address, Size

\* A segment added to the memory is its last one, and the others stay.
LEMMA SegmentAdded ==
  ASSUME TypeOK, NEW G \in Mem!Val, NEW N \in Mem!Val,
         NEW bytes \in [0 .. N - 1 -> Mem!ByteVal],
         AddSegment(G, N, bytes)
  PROVE  /\ Layout' \in Seq(Mem!SegmentManager)
         /\ Contents' = [I \in Mem!Segment' |-> Contents'[I]]
         /\ Mem!IsContents(Contents)'
         /\ Len(Layout') = Len(Layout) + 1
         /\ \A I \in 1 .. Len(Layout) :
              Layout'[I] = Layout[I] /\ Contents'[I] = Contents[I]
         /\ Layout'[Len(Layout) + 1] = [GuestAddress |-> G, MemorySize |-> N]
         /\ Contents'[Len(Layout) + 1] = bytes
<1> DEFINE seg == [GuestAddress |-> G, MemorySize |-> N]
           n   == Len(Layout)
           S   == {Contents[I] : I \in 1 .. n} \cup {bytes}
<1>1. seg \in Mem!SegmentManager /\ Layout \in Seq(Mem!SegmentManager)
  BY DEF TypeOK, Mem!SegmentManager
<1>2. n \in Nat
  BY <1>1
<1>3. Contents \in Seq(S) /\ Len(Contents) = n
  <2>1. Contents = [I \in 1 .. n |-> Contents[I]]
    BY DEF TypeOK, Mem!Segment
  <2>2. Contents \in [1 .. n -> S]
    BY <2>1
  <2> QED
    BY <1>2, <2>2
<1>4. Layout' = Append(Layout, seg) /\ Contents' = Append(Contents, bytes)
  BY DEF AddSegment
<1>5. /\ Layout' \in Seq(Mem!SegmentManager)
      /\ Len(Layout') = n + 1
      /\ \A I \in 1 .. n : Layout'[I] = Layout[I]
      /\ Layout'[n + 1] = seg
  BY <1>1, <1>4, AppendProperties
<1>6. /\ Contents' \in Seq(S)
      /\ Len(Contents') = n + 1
      /\ \A I \in 1 .. n : Contents'[I] = Contents[I]
      /\ Contents'[n + 1] = bytes
  <2>1. bytes \in S
    OBVIOUS
  <2> HIDE DEF S
  <2> QED
    BY <1>3, <1>4, <2>1, AppendProperties
<1>7. Contents' \in [1 .. n + 1 -> S]
  <2> HIDE DEF S
  <2> QED
    BY <1>6, LenProperties
<1>8. Contents' = [I \in Mem!Segment' |-> Contents'[I]]
  BY <1>5, <1>7 DEF Mem!Segment
<1>9. Mem!IsContents(Contents)'
  <2>1. DOMAIN Contents' = 1 .. n + 1
    BY <1>7
  <2>2. ASSUME NEW I \in 1 .. n + 1
        PROVE  Contents'[I] \in [0 .. Layout'[I].MemorySize - 1 -> Mem!ByteVal]
    <3>1. CASE I = n + 1
      BY <1>5, <1>6, <3>1
    <3>2. CASE I # n + 1
      <4>1. I \in 1 .. n
        BY <1>2, <3>2
      <4>2. Contents[I] \in [0 .. Layout[I].MemorySize - 1 -> Mem!ByteVal]
        BY <4>1 DEF TypeOK, Mem!IsContents, Mem!Segment, Mem!Allocation
      <4> QED
        BY <1>5, <1>6, <4>1, <4>2
    <3> QED
      BY <3>1, <3>2
  <2> QED
    BY <1>5, <2>1, <2>2 DEF Mem!IsContents, Mem!Segment, Mem!Allocation
<1> QED
  BY <1>5, <1>6, <1>8, <1>9

-----------------------------------------------------------------------------
\* Nothing is loaded when main begins.
LEMMA InitIInv == Init => IInv
<1> SUFFICES ASSUME Init PROVE IInv
  OBVIOUS
<1>1. Empty \in ElfFile
  BY DEF Empty, ElfFile
<1>2. TypeOK
  <2>1. File \in ElfFile
    BY FilesAssumption DEF Init
  <2>2. Contents = [I \in 1 .. 0 |-> Contents[I]] /\ DOMAIN Contents = 1 .. 0
    BY DEF Init
  <2>3. Layout = <<>> /\ Len(Layout) = 0
    BY DEF Init
  <2> QED
    BY <1>1, <2>1, <2>2, <2>3 DEF Init, TypeOK, Phases, Mem!IsContents, Mem!Segment
<1> QED
  BY <1>2 DEF Init, IInv, Loading, Started, Running

\* ELFIO reads a prefix of the program headers, or nothing.
LEMMA LoadStep == ASSUME IInv, Load PROVE IInv'
<1>1. Reader' \in ElfFile
  <2>1. Empty \in ElfFile
    BY DEF Empty, ElfFile
  <2>2. ASSUME NEW n \in 0 .. Len(File.segments)
        PROVE  [File EXCEPT !.segments = SubSeq(@, 1, n)] \in ElfFile
    <3>1. File \in ElfFile /\ File.segments \in Seq(ProgramHeader)
      BY DEF IInv, TypeOK, ElfFile
    <3>2. \A i \in 1 .. n : File.segments[i] \in ProgramHeader
      BY <3>1
    <3>3. SubSeq(File.segments, 1, n) \in Seq(ProgramHeader)
      BY <3>2, SubSeqProperties
    <3> QED
      BY <3>1, <3>3 DEF ElfFile
  <2> QED
    BY <2>1, <2>2 DEF Load
<1>2. TypeOK'
  BY <1>1 DEF Load, IInv, TypeOK, Phases, Mem!IsContents, Mem!Segment, Mem!Allocation
<1>3. Layout' = <<>> /\ Len(Layout') = 0
  BY DEF Load, IInv, Loading
<1>4. Len(Reader'.segments) \in Nat
  BY <1>1 DEF ElfFile
<1>5. Loading'
  BY <1>3, <1>4 DEF Load, Loading
<1>6. Started'
  BY DEF Load, Started, Running
<1> QED
  BY <1>2, <1>5, <1>6 DEF IInv

\* The segment of a header has the bytes of the file, as far as they go.
LEMMA CopyStep ==
  ASSUME IInv, CopySegment, State' = State
  PROVE  IInv'
<1> DEFINE k == Len(Layout) + 1
<1>1. /\ TypeOK
      /\ phase = "copy" /\ phase' = "copy"
      /\ Reader' = Reader /\ File' = File
  BY DEF IInv, CopySegment, Copying, AddSegment
<1>2. k \in 1 .. Len(Reader.segments) /\ k \in DOMAIN Reader.segments /\ Len(Layout) \in Nat
  <2>1. Layout \in Seq(Mem!SegmentManager) /\ Reader.segments \in Seq(ProgramHeader)
    BY <1>1 DEF TypeOK, ElfFile
  <2> QED
    BY <2>1 DEF CopySegment, Copying
<1>3. /\ Header \in ProgramHeader
      /\ Address(Header) \in Mem!Val
      /\ Size(Header) \in Mem!Val
      /\ Header = Reader.segments[k]
  BY <1>1, <1>2, HeaderTypes DEF Header
<1>4. PICK u \in Fill : AddSegment(Address(Header), Size(Header), Copied(u))
  BY DEF CopySegment
<1>5. Copied(u) \in [0 .. Size(Header) - 1 -> Mem!ByteVal]
  <2>1. u \in Mem!ByteVal
    BY FillAssumption
  <2>2. Header.data \in Seq(Mem!ByteVal)
    BY <1>3 DEF ProgramHeader
  <2>3. Size(Header) \in Nat
    BY <1>3, SixteenAddresses DEF Mem!Val, M
  <2>4. ASSUME NEW o \in 0 .. Size(Header) - 1
        PROVE  (IF o < Len(Header.data) THEN Header.data[o + 1] ELSE u) \in Mem!ByteVal
    BY <2>1, <2>2, <2>3
  <2> QED
    BY <2>4 DEF Copied
<1>6. /\ Layout' \in Seq(Mem!SegmentManager)
      /\ Contents' = [I \in Mem!Segment' |-> Contents'[I]]
      /\ Mem!IsContents(Contents)'
      /\ Len(Layout') = Len(Layout) + 1
      /\ \A I \in 1 .. Len(Layout) :
           Layout'[I] = Layout[I] /\ Contents'[I] = Contents[I]
      /\ Layout'[k] = [GuestAddress |-> Address(Header), MemorySize |-> Size(Header)]
      /\ Contents'[k] = Copied(u)
  BY <1>1, <1>3, <1>4, <1>5, SegmentAdded
<1>7. TypeOK'
  BY <1>1, <1>6 DEF TypeOK
<1>8. DOMAIN Layout = 1 .. Len(Layout) /\ DOMAIN Layout' = 1 .. k
  BY <1>1, <1>6 DEF TypeOK
<1>9. ASSUME NEW I \in 1 .. k PROVE FromHeader(I)'
  <2>1. CASE I = k
    <3>1. ASSUME NEW o \in 0 .. Size(Header) - 1, o < Len(Header.data)
          PROVE  Contents'[k][o] = Header.data[o + 1]
      BY <1>6, <3>1 DEF Copied
    <3> QED
      BY <1>1, <1>3, <1>6, <2>1, <3>1 DEF FromHeader, Address, Size
  <2>2. CASE I # k
    <3>1. I \in 1 .. Len(Layout) /\ I <= Len(Reader.segments)
      BY <1>2, <2>2
    <3>2. FromHeader(I)
      BY <1>1, <1>8, <3>1 DEF IInv, Loading
    <3> QED
      BY <1>1, <1>6, <3>1, <3>2 DEF FromHeader, Address, Size
  <2> QED
    BY <2>1, <2>2
<1>10. Loading'
  BY <1>1, <1>2, <1>6, <1>8, <1>9 DEF Loading
<1>11. Started'
  BY <1>1 DEF Started, Running
<1> QED
  BY <1>7, <1>10, <1>11 DEF IInv

\* The stack is the last segment, and ends one short of the address space.
LEMMA StackStep ==
  ASSUME IInv, AddStack, State' = State
  PROVE  IInv'
<1> DEFINE k == Len(Layout) + 1
<1>1. /\ TypeOK
      /\ phase = "copy" /\ phase' = "loaded"
      /\ Reader' = Reader /\ File' = File
      /\ Len(Layout) = Len(Reader.segments)
      /\ Len(Layout) \in Nat
  <2>1. Layout \in Seq(Mem!SegmentManager)
    BY DEF IInv, TypeOK
  <2> QED
    BY <2>1 DEF IInv, AddStack, AddSegment
<1>2. PICK u \in Fill :
        AddSegment(M - 1 - StackSize, StackSize, [o \in 0 .. StackSize - 1 |-> u])
  BY StackNumbers DEF AddStack
<1>3. M - 1 - StackSize \in Mem!Val /\ StackSize \in Mem!Val
  BY SixteenAddresses, StackNumbers DEF Mem!Val, M
<1>4. [o \in 0 .. StackSize - 1 |-> u] \in [0 .. StackSize - 1 -> Mem!ByteVal]
  BY FillAssumption
<1>5. /\ Layout' \in Seq(Mem!SegmentManager)
      /\ Contents' = [I \in Mem!Segment' |-> Contents'[I]]
      /\ Mem!IsContents(Contents)'
      /\ Len(Layout') = Len(Layout) + 1
      /\ \A I \in 1 .. Len(Layout) :
           Layout'[I] = Layout[I] /\ Contents'[I] = Contents[I]
      /\ Layout'[k] = StackSegment
  BY <1>1, <1>2, <1>3, <1>4, SegmentAdded DEF StackSegment
<1>6. TypeOK'
  BY <1>1, <1>5 DEF TypeOK, Phases
<1>7. DOMAIN Layout = 1 .. Len(Layout)
  BY <1>1 DEF TypeOK
<1>8. ASSUME NEW I \in 1 .. Len(Layout) PROVE FromHeader(I)'
  <2>1. FromHeader(I)
    BY <1>1, <1>7 DEF IInv, Loading
  <2> QED
    BY <1>1, <1>5, <2>1 DEF FromHeader, Address, Size
<1>9. Loading'
  BY <1>1, <1>5, <1>8, SixteenAddresses DEF Loading, StackSegment
<1>10. Started'
  BY <1>1 DEF Started, Running
<1> QED
  BY <1>6, <1>9, <1>10 DEF IInv

\* A step that leaves the memory and the headers alone.
LEMMA OtherStep ==
  ASSUME IInv,
         UNCHANGED <<File, Reader, Layout, Contents>>,
         phase' \in Phases,
         phase' \in {"parse_args", "jit", "load"} => phase \in {"parse_args", "jit", "load"},
         phase' # "copy",
         phase' \in {"loaded", "loop", "generateFunc"} =>
           phase \in {"loaded", "loop", "generateFunc"},
         Started'
  PROVE  IInv'
<1>1. TypeOK'
  BY DEF IInv, TypeOK, Mem!IsContents, Mem!Segment, Mem!Allocation
<1>2. Loading'
  BY DEF IInv, Loading, FromHeader, Address, Size
<1> QED
  BY <1>1, <1>2 DEF IInv

\* Each step of main and parseElf keeps the memory in step with the headers.
THEOREM LoadingInductive == IInv /\ [Next]_vars => IInv'
<1> SUFFICES ASSUME IInv, [Next]_vars PROVE IInv'
  OBVIOUS
<1>1. CASE ParseArgs
  BY <1>1, OtherStep DEF ParseArgs, Goto, Phases, Started, Running
<1>2. CASE InitializeLLJIT
  BY <1>2, OtherStep DEF InitializeLLJIT, Goto, Phases, Started, Running
<1>3. CASE NoMemoryImpl
  BY <1>3, OtherStep DEF NoMemoryImpl, Goto, Phases, Started, Running
<1>4. CASE ParseElf
  <2>1. CASE Load
    BY <2>1, LoadStep
  <2>2. CASE CopySegment
    BY <1>4, <2>2, CopyStep DEF ParseElf
  <2>3. CASE CopyFault
    BY <2>3, OtherStep DEF CopyFault, Phases, Started, Running
  <2>4. CASE AllocationFails
    BY <2>4, OtherStep DEF AllocationFails, Phases, Started, Running
  <2>5. CASE AddStack
    BY <1>4, <2>5, StackStep DEF ParseElf
  <2> QED
    BY <1>4, <2>1, <2>2, <2>3, <2>4, <2>5 DEF ParseElf, parseElf
<1>5. CASE Start
  BY <1>5, OtherStep DEF Start, Phases, Started, Running
<1>6. CASE GetThreshold
  BY <1>6, OtherStep DEF GetThreshold, IInv, Phases, Started, Running
<1>7. CASE UNCHANGED vars
  BY <1>7 DEF vars, loaderVars, IInv, TypeOK, Loading, Started, Running, FromHeader,
              Address, Size, Mem!IsContents, Mem!Segment, Mem!Allocation
<1> QED
  BY <1>1, <1>2, <1>3, <1>4, <1>5, <1>6, <1>7 DEF Next, Done

\* How far parseElf is tells what the memory holds, whatever the file.
THEOREM AlwaysLoading == Spec => []IInv
BY InitIInv, LoadingInductive, PTL DEF Spec

-----------------------------------------------------------------------------
\* What the loop starts with: the shape of the memory and of the CPU state.
LEMMA AtLoop ==
  ASSUME IInv, Running
  PROVE  /\ TypeOK
         /\ Len(Reader.segments) \in Nat
         /\ DOMAIN Reader.segments = 1 .. Len(Reader.segments)
         /\ Len(Layout) = Len(Reader.segments) + 1
         /\ Mem!Segment = 1 .. Len(Reader.segments) + 1
         /\ Layout[Len(Layout)] = StackSegment
         /\ \A I \in DOMAIN Reader.segments : FromHeader(I)
         /\ State = [Registers |-> [r \in Reg |-> IF r = 2 THEN (-16) % M ELSE 0],
                     PC |-> Reader.entry % M]
<1>1. TypeOK /\ phase \in {"loop", "generateFunc"}
  BY DEF IInv, Running
<1>2. Reader.segments \in Seq(ProgramHeader) /\ Layout \in Seq(Mem!SegmentManager)
  BY <1>1 DEF TypeOK, ElfFile
<1>3. /\ Len(Layout) = Len(Reader.segments) + 1
      /\ Layout[Len(Layout)] = StackSegment
  BY <1>1 DEF IInv, Loading
<1>4. \A I \in DOMAIN Reader.segments : FromHeader(I)
  BY <1>2, <1>3 DEF IInv, Loading
<1> QED
  BY <1>1, <1>2, <1>3, <1>4 DEF IInv, Started, Mem!Segment

\* The loop starts with segments and a CPU state that Translator can use.
THEOREM LoopIsReady == Spec => []ReadyForLoop
<1>1. ASSUME IInv, Running
      PROVE  /\ Layout \in Seq(Mem!SegmentManager)
             /\ Mem!IsContents(Contents)
             /\ State.Registers \in [Reg -> Mem!Val]
             /\ State.PC \in Mem!Val
  <2>1. TypeOK
    BY <1>1 DEF IInv
  <2>2. State = [Registers |-> [r \in Reg |-> IF r = 2 THEN (-16) % M ELSE 0],
                 PC |-> Reader.entry % M]
    BY <1>1, AtLoop
  <2>3. Reader.entry \in Int
    BY <2>1 DEF TypeOK, ElfFile
  <2>4. (-16) % M \in Mem!Val /\ 0 \in Mem!Val /\ Reader.entry % M \in Mem!Val
    <3>1. -16 \in Int
      OBVIOUS
    <3>2. 0 \in Mem!Val
      BY SixteenAddresses DEF Mem!Val, M
    <3> QED
      BY <2>3, <3>1, <3>2, LowerHalf
  <2> QED
    BY <2>1, <2>2, <2>4 DEF TypeOK
<1>2. IInv => ReadyForLoop
  BY <1>1 DEF ReadyForLoop
<1> QED
  BY <1>2, AlwaysLoading, PTL

\* A segment covers no address outside the range its header gives, also when
\* the end of the range wraps.
LEMMA CoversIsTaken ==
  ASSUME IInv, Running, NEW I \in DOMAIN Reader.segments, NEW a \in Mem!Val,
         Mem!Covers(I, a)
  PROVE  /\ a - Address(Reader.segments[I]) \in 0 .. Size(Reader.segments[I]) - 1
         /\ Layout[I] = [GuestAddress |-> Address(Reader.segments[I]),
                         MemorySize   |-> Size(Reader.segments[I])]
<1> DEFINE G == Address(Reader.segments[I])
           N == Size(Reader.segments[I])
<1>1. FromHeader(I) /\ TypeOK
  BY AtLoop
<1>2. Layout[I] = [GuestAddress |-> G, MemorySize |-> N]
  BY <1>1 DEF FromHeader
<1>3. G \in Mem!Val /\ N \in Mem!Val
  BY <1>1, HeaderTypes
<1>4. G <= a /\ a < (G + N) % M
  BY <1>2 DEF Mem!Covers, M
<1> HIDE DEF G, N
<1>5. M \in Nat /\ M >= 16 /\ G \in 0 .. M - 1 /\ N \in 0 .. M - 1 /\ a \in 0 .. M - 1
  BY <1>3, SixteenAddresses DEF Mem!Val, M
<1>6. G + N < M
  <2>1. CASE G + N >= M
    <3>1. (G + N) % M = G + N - M
      BY <1>5, <2>1
    <3> QED
      BY <1>4, <1>5, <3>1
  <2> QED
    BY <1>5, <2>1
<1>7. a < G + N
  BY <1>4, <1>5, <1>6
<1>8. a - G \in 0 .. N - 1
  BY <1>4, <1>5, <1>7
<1> QED
  BY <1>2, <1>8 DEF G, N

\* Addresses that only the stack covers are mapped to it.
THEOREM StackIsReady == Spec => []StackReady
<1>1. ASSUME IInv, Running, NEW a \in Mem!Val,
             M - 1 - StackSize <= a, a < State.Registers[2], ~Taken(a)
      PROVE  /\ Mem!mapAddress(a).Segment = Len(Layout)
             /\ Mem!InBlock(Mem!mapAddress(a), 4)
  <2> DEFINE k    == Len(Layout)
             Hits == {I \in Mem!Segment : Mem!Covers(I, a)}
  <2>1. M \in Nat /\ M >= 16 /\ StackSize \in 1 .. M - 2 /\ a \in 0 .. M - 1
    BY SixteenAddresses, StackNumbers DEF Mem!Val, M
  <2>2. State.Registers[2] = M - 16
    <3>1. 2 \in Reg
      BY RegAssumption DEF Reg
    <3>2. State.Registers = [r \in Reg |-> IF r = 2 THEN (-16) % M ELSE 0]
      BY <1>1, AtLoop
    <3> QED
      BY <3>1, <3>2, StackNumbers
  <2>3. Layout[k] = StackSegment /\ k \in Mem!Segment
    BY <1>1, AtLoop
  <2>4. Mem!Covers(k, a)
    <3>1. (M - 1 - StackSize + StackSize) % M = M - 1
      BY <2>1
    <3>2. a < M - 1
      BY <1>1, <2>1, <2>2
    <3>3. /\ Layout[k].GuestAddress = M - 1 - StackSize
          /\ Layout[k].MemorySize = StackSize
      BY <2>3 DEF StackSegment
    <3> QED
      BY <1>1, <3>1, <3>2, <3>3 DEF Mem!Covers, M
  <2>5. ASSUME NEW I \in Hits PROVE I = k
    <3>1. CASE I \in DOMAIN Reader.segments
      <4>1. Mem!Covers(I, a)
        BY <2>5
      <4>2. a - Address(Reader.segments[I]) \in 0 .. Size(Reader.segments[I]) - 1
        BY <1>1, <3>1, <4>1, CoversIsTaken
      <4> QED
        BY <1>1, <3>1, <4>2 DEF Taken
    <3> QED
      BY <1>1, <3>1, AtLoop
  <2>6. Hits = {k}
    BY <2>3, <2>4, <2>5
  <2>7. Mem!mapAddress(a) = [Segment |-> k, Offset |-> a - Layout[k].GuestAddress]
    <3>1. (CHOOSE I \in {k} : \A J \in {k} : I <= J) = k
      <4>1. k \in Nat
        BY <1>1, AtLoop
      <4> QED
        BY <4>1
    <3> QED
      BY <2>6, <3>1 DEF Mem!mapAddress
  <2>8. a - (M - 1 - StackSize) + 4 <= StackSize
    BY <1>1, <2>1, <2>2
  <2> QED
    BY <2>3, <2>7, <2>8 DEF Mem!InBlock, StackSegment
<1>2. IInv => StackReady
  BY <1>1 DEF StackReady
<1> QED
  BY <1>2, AlwaysLoading, PTL

\* With no program header the entry point is 0, which the stack stays clear of.
THEOREM UnreadableFaults == Spec => []UnreadableNeverRuns
<1>1. ASSUME IInv, Running, Reader = Empty
      PROVE  Mem!mapAddress(State.PC) = Mem!nullptr
  <2>1. M \in Nat /\ M >= 16 /\ StackSize \in 1 .. M - 2
    BY SixteenAddresses, StackNumbers
  <2>2. State.PC = 0
    <3>1. State.PC = 0 % M
      BY <1>1, AtLoop DEF Empty
    <3> QED
      BY <2>1, <3>1
  <2>3. Len(Layout) = 1 /\ Mem!Segment = {1} /\ Layout[1] = StackSegment
    <3>1. Len(Reader.segments) = 0
      BY <1>1 DEF Empty
    <3>2. 1 .. Len(Reader.segments) + 1 = {1} /\ Len(Reader.segments) + 1 = 1
      BY <3>1
    <3> QED
      BY <1>1, <3>2, AtLoop
  <2>4. ~ Mem!Covers(1, 0)
    BY <2>1, <2>3 DEF Mem!Covers, StackSegment
  <2> QED
    BY <2>2, <2>3, <2>4 DEF Mem!mapAddress
<1>2. IInv => UnreadableNeverRuns
  BY <1>1 DEF UnreadableNeverRuns
<1> QED
  BY <1>2, AlwaysLoading, PTL

\* Some segment is the first of those that cover an address.
LEMMA FirstHit ==
  ASSUME NEW Hits \in SUBSET Nat, Hits # {}
  PROVE  \E I \in Hits : \A J \in Hits : I <= J
<1>1. PICK I \in Hits : \A J \in Hits : ~ (<<J, I>> \in OpToRel(<, Nat))
  BY WFMin, NatLessThanWellFounded
<1>2. \A J \in Hits : ~ (J < I)
  BY <1>1 DEF OpToRel
<1> QED
  BY <1>2

\* The guest sees the file, where no earlier header has something else.
THEOREM ImageIsLinked == Spec => []LinkedImage
<1>1. ASSUME IInv, Running, NEW I \in DOMAIN Reader.segments,
             Reader.segments[I].virtual_address + Reader.segments[I].memory_size < M,
             NEW o \in 0 .. Reader.segments[I].memory_size - 1,
             o < Len(Reader.segments[I].data),
             \A J \in 1 .. I - 1 :
               Allows(Reader.segments[J], Reader.segments[I].virtual_address + o,
                      Reader.segments[I].data[o + 1])
      PROVE  /\ Mem!mapAddress(Reader.segments[I].virtual_address + o) # Mem!nullptr
             /\ Mem!read8(Contents, Reader.segments[I].virtual_address + o, 0)
                  = Reader.segments[I].data[o + 1]
  <2> DEFINE h == Reader.segments[I]
             a == h.virtual_address + o
             b == h.data[o + 1]
             Hits == {J \in Mem!Segment : Mem!Covers(J, a)}
             First == CHOOSE J \in Hits : \A K \in Hits : J <= K
  <2>1. /\ M \in Nat /\ M >= 16
        /\ h.virtual_address \in Nat /\ h.memory_size \in Nat
    <3>1. h \in ProgramHeader
      BY <1>1, AtLoop, HeaderTypes
    <3> QED
      BY <3>1, SixteenAddresses DEF ProgramHeader
  <2>2. Address(h) = h.virtual_address /\ Size(h) = h.memory_size /\ a \in Mem!Val
    <3>1. /\ h.virtual_address \in 0 .. M - 1 /\ h.memory_size \in 0 .. M - 1
          /\ a \in 0 .. M - 1
      BY <1>1, <2>1
    <3>2. h.virtual_address % M = h.virtual_address /\ h.memory_size % M = h.memory_size
      BY <2>1, <3>1
    <3> QED
      BY <3>1, <3>2 DEF Address, Size, Mem!Val, M
  <2>3. Layout[I] = [GuestAddress |-> h.virtual_address, MemorySize |-> h.memory_size]
    BY <1>1, <2>2, AtLoop DEF FromHeader
  <2>4. I \in Mem!Segment /\ Mem!Segment \in SUBSET Nat
    BY <1>1, AtLoop
  <2>5. Mem!Covers(I, a)
    <3> DEFINE End == h.virtual_address + h.memory_size
    <3>1. End % M = End
      <4>1. End \in 0 .. M - 1
        BY <1>1, <2>1
      <4> HIDE DEF End
      <4> QED
        BY <2>1, <4>1
    <3>2. h.virtual_address <= a /\ a < End
      BY <2>1
    <3>3. /\ Layout[I].GuestAddress = h.virtual_address
          /\ Layout[I].MemorySize = h.memory_size
      BY <2>3
    <3> HIDE DEF h, a
    <3> QED
      BY <3>1, <3>2, <3>3 DEF Mem!Covers, M
  <2>6. I \in Hits /\ Hits \in SUBSET Nat
    BY <2>4, <2>5
  <2>7. First \in Hits /\ \A K \in Hits : First <= K
    <3> HIDE DEF Hits
    <3>1. \E J \in Hits : \A K \in Hits : J <= K
      BY <2>6, FirstHit
    <3> QED
      BY <3>1
  <2>8. First <= I /\ First \in DOMAIN Reader.segments
    <3> HIDE DEF First
    <3>1. First <= I
      BY <2>6, <2>7
    <3> QED
      BY <1>1, <2>7, <3>1, AtLoop
  <2>9. Mem!mapAddress(a) = [Segment |-> First, Offset |-> a - Layout[First].GuestAddress]
    BY <2>6 DEF Mem!mapAddress
  <2> DEFINE g == Reader.segments[First]
  <2>10. /\ a - Address(g) \in 0 .. Size(g) - 1
         /\ Layout[First] = [GuestAddress |-> Address(g), MemorySize |-> Size(g)]
    <3> HIDE DEF First, a
    <3>1. Mem!Covers(First, a)
      BY <2>7
    <3> QED
      BY <1>1, <2>2, <2>8, <3>1, CoversIsTaken
  <2>11. FromHeader(First)
    <3> HIDE DEF First
    <3> QED
      BY <1>1, <2>8, AtLoop
  <2>12. a - Address(g) < Len(g.data) /\ g.data[a - Address(g) + 1] = b
    <3>1. CASE First = I
      <4> HIDE DEF First
      <4>1. g = h /\ Address(g) = h.virtual_address
        BY <2>2, <3>1
      <4>2. a - Address(g) = o
        BY <2>1, <4>1
      <4> QED
        BY <1>1, <4>1, <4>2
    <3>2. CASE First # I
      <4>1. First \in 1 .. I - 1
        <5> HIDE DEF First
        <5> QED
          BY <1>1, <2>8, <3>2, AtLoop
      <4>2. Allows(g, a, b)
        <5> HIDE DEF First
        <5> QED
          BY <1>1, <4>1
      <4> QED
        BY <2>10, <4>2 DEF Allows
    <3> QED
      BY <3>1, <3>2
  <2>13. Contents[First][a - Address(g)] = b
    BY <2>10, <2>11, <2>12 DEF FromHeader
  <2> HIDE DEF First, a, b
  <2>14. /\ Mem!mapAddress(a).Segment = First
         /\ Mem!mapAddress(a).Offset = a - Address(g)
    BY <2>9, <2>10
  <2>15. Mem!InBlock(Mem!mapAddress(a), 0 + 1) /\ Mem!mapAddress(a).Offset \in Nat
    <3>1. Size(g) \in Int
      BY <1>1, <2>8, AtLoop, HeaderTypes, SixteenAddresses DEF Mem!Val, M
    <3> QED
      BY <2>10, <2>14, <3>1 DEF Mem!InBlock
  <2>16. Mem!read8(Contents, a, 0) = Contents[First][a - Address(g) + 0]
    BY <2>14, <2>15 DEF Mem!read8, Mem!LoadByte
  <2>17. Mem!read8(Contents, a, 0) = b
    BY <2>13, <2>14, <2>15, <2>16
  <2>18. Mem!mapAddress(a) # Mem!nullptr
    <3>1. Mem!nullptr.Segment = 0
      BY DEF Mem!nullptr
    <3>2. First # 0
      BY <1>1, <2>8, AtLoop
    <3> QED
      BY <2>14, <3>1, <3>2
  <2> QED
    BY <2>17, <2>18 DEF a, b
<1>2. IInv => LinkedImage
  BY <1>1 DEF LinkedImage
<1> QED
  BY <1>2, AlwaysLoading, PTL
=============================================================================
