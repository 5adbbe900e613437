------------------------- MODULE GuestMemoryProofs --------------------------
(***************************************************************************)
(* The segmented memory implements the flat one, for every layout of the   *)
(* segments and every size of a byte.                                      *)
(***************************************************************************)
EXTENDS GuestMemory, MemoryProofs

-----------------------------------------------------------------------------
(***************************************************************************)
(* The address map against the regions of the flat memory.                 *)
(***************************************************************************)

\* The comparison with an end that wraps around is the range of a segment
\* that ends below M, and nothing for one that does not.
LEMMA CoversSpan ==
  ASSUME NEW I \in Segment, NEW a \in Val
  PROVE  Covers(I, a) <=> a \in Span(I)
<1> DEFINE G == SegmentData[I].GuestAddress
           N == SegmentData[I].MemorySize
<1>1. G \in 0 .. M - 1 /\ N \in 0 .. M - 1 /\ a \in 0 .. M - 1 /\ M \in Nat /\ M >= 2
  <2>1. SegmentData[I] \in SegmentManager
    BY SegmentAssumption DEF Segment
  <2> QED
    BY <2>1, MType DEF SegmentManager, Val
<1>2. Covers(I, a) <=> G <= a /\ a < (G + N) % M
  BY DEF Covers
<1>3. a \in Span(I) <=> G <= a /\ a < G + N /\ G + N < M
  BY DEF Span
<1> HIDE DEF G, N
<1>4. CASE G + N < M
  <2>1. (G + N) % M = G + N
    BY <1>1, <1>4
  <2> QED
    BY <1>2, <1>3, <1>4, <2>1
<1>5. CASE G + N >= M
  <2>1. (M * 1 + (G + N - M)) % M = G + N - M
    <3> DEFINE r == G + N - M
    <3>1. r \in 0 .. M - 1
      BY <1>1, <1>5
    <3> HIDE DEF r
    <3>2. (M * 1 + r) % M = r
      BY <1>1, <3>1, DivUnique
    <3> QED
      BY <3>2 DEF r
  <2>2. M * 1 + (G + N - M) = G + N
    BY <1>1
  <2>3. (G + N) % M < G
    BY <1>1, <2>1, <2>2
  <2> QED
    BY <1>1, <1>2, <1>3, <1>5, <2>3
<1> QED
  BY <1>1, <1>4, <1>5

\* The region of an address is the segment that mapAddress finds.
LEMMA RegionIsSegment ==
  ASSUME NEW a \in Val
  PROVE  /\ SegmentOf[a] = mapAddress(a).Segment
         /\ mapAddress(a) = nullptr <=> SegmentOf[a] = 0
<1> DEFINE Hits     == {I \in Segment : Covers(I, a)}
           Spanning == {I \in Segment : a \in Span(I)}
           First    == CHOOSE I \in Hits : \A J \in Hits : I <= J
<1>1. Hits = Spanning
  BY CoversSpan
<1>2. SegmentOf[a] = IF Hits = {} THEN 0 ELSE First
  <2>1. SegmentOf[a] = IF Spanning = {} THEN 0
                       ELSE CHOOSE I \in Spanning : \A J \in Spanning : I <= J
    BY DEF SegmentOf
  <2> QED
    BY <1>1, <2>1
<1>3. CASE Hits = {}
  BY <1>2, <1>3 DEF mapAddress, nullptr
<1>4. CASE Hits # {}
  <2>1. mapAddress(a).Segment = First
    BY <1>4 DEF mapAddress
  <2>2. \E I \in Hits : \A J \in Hits : I <= J
    <3>1. Hits \in SUBSET Nat
      BY DEF Segment
    <3> QED
      BY <1>4, <3>1, FirstExists
  <2>3. First \in Hits
    BY <2>2
  <2>4. First \in Segment
    BY <2>3
  <2>5. First # 0
    <3> HIDE DEF First
    <3> QED
      BY <2>4 DEF Segment
  <2> QED
    BY <1>2, <1>4, <2>1, <2>5 DEF nullptr
<1> QED
  BY <1>3, <1>4

\* The byte of the flat memory at an address that is mapped.
LEMMA FlatByte ==
  ASSUME NEW a \in Val, mapAddress(a) # nullptr
  PROVE  /\ a \in DOMAIN FlatView
         /\ FlatView[a] = Memory[mapAddress(a).Segment][mapAddress(a).Offset]
<1>1. SegmentOf[a] # 0 /\ SegmentOf[a] = mapAddress(a).Segment
  BY RegionIsSegment
<1>2. mapAddress(a).Offset = a - SegmentData[SegmentOf[a]].GuestAddress
  BY <1>1, MapAddressOffset
<1>3. a \in {b \in Val : SegmentOf[b] # 0}
  BY <1>1
<1>4. FlatView[a] = Memory[SegmentOf[a]][a - SegmentData[SegmentOf[a]].GuestAddress]
  BY <1>3 DEF FlatView
<1> QED
  BY <1>1, <1>2, <1>3, <1>4 DEF FlatView

\* Two addresses in a region are as far apart as their host pointers.
LEMMA SameRegion ==
  ASSUME NEW a \in Val, mapAddress(a) # nullptr,
         NEW b \in Val, SegmentOf[b] = SegmentOf[a]
  PROVE  /\ mapAddress(b) # nullptr
         /\ mapAddress(b).Segment = mapAddress(a).Segment
         /\ mapAddress(b).Offset = mapAddress(a).Offset + (b - a)
         /\ mapAddress(a).Offset \in Int
<1>1. /\ mapAddress(b) # nullptr
      /\ mapAddress(b).Segment = mapAddress(a).Segment
  BY RegionIsSegment
<1> DEFINE G == SegmentData[mapAddress(a).Segment].GuestAddress
<1>2. /\ mapAddress(a).Offset = a - G
      /\ mapAddress(b).Offset = b - G
  BY <1>1, MapAddressOffset
<1>3. G \in Int /\ a \in Int /\ b \in Int
  <2>1. mapAddress(a).Segment \in Segment
    BY MapAddressInBlock
  <2> QED
    BY <2>1, SegmentFields, MType DEF Val
<1> HIDE DEF G
<1> QED
  BY <1>1, <1>2, <1>3

\* A byte of an access that is in the region of the first one is in its block.
LEMMA NearInBlock ==
  ASSUME NEW a \in Val, mapAddress(a) # nullptr, NEW k \in Nat, Flat!Near(a, a + k)
  PROVE  /\ InBlock(mapAddress(a), k + 1)
         /\ a + k \in Val
         /\ mapAddress(a + k) # nullptr
         /\ mapAddress(a + k).Segment = mapAddress(a).Segment
         /\ mapAddress(a + k).Offset = mapAddress(a).Offset + k
<1>1. a + k \in Val /\ SegmentOf[a + k] = SegmentOf[a]
  BY DEF Flat!Near, Flat!Address, SegmentOf
<1>2. a \in Int
  BY MType DEF Val
<1> DEFINE b == a + k
<1>3. b \in Val /\ b - a = k
  BY <1>1, <1>2
<1>4. /\ mapAddress(b) # nullptr
      /\ mapAddress(b).Segment = mapAddress(a).Segment
      /\ mapAddress(b).Offset = mapAddress(a).Offset + k
      /\ mapAddress(a).Offset \in Int
  <2> HIDE DEF b
  <2> QED
    BY <1>1, <1>3, SameRegion DEF b
<1>5. /\ mapAddress(b).Segment \in Segment
      /\ mapAddress(b).Offset \in Allocation(mapAddress(b).Segment)
  <2> HIDE DEF b
  <2> QED
    BY <1>3, <1>4, MapAddressInBlock
<1> DEFINE N == SegmentData[mapAddress(a).Segment].MemorySize
<1>6. N \in Nat /\ mapAddress(a).Offset + k \in 0 .. N - 1
  BY <1>4, <1>5, SegmentFields DEF Allocation
<1>7. mapAddress(a).Offset + (k + 1) <= N
  <2> HIDE DEF N
  <2> QED
    BY <1>4, <1>6
<1> QED
  BY <1>1, <1>4, <1>7 DEF InBlock

-----------------------------------------------------------------------------
(***************************************************************************)
(* Type correctness.                                                       *)
(***************************************************************************)

\* What a store may be given is a uint32_t.
LEMMA NarrowData ==
  /\ 0 .. Byte - 1 \subseteq Val
  /\ 0 .. Byte * Byte - 1 \subseteq Val
<1>1. Byte \in Nat /\ Byte >= 2
  BY ByteAssumption
<1>2. Byte * Byte \in Nat /\ Byte * Byte >= Byte
  BY <1>1
<1>3. M = (Byte * Byte) * (Byte * Byte)
  BY <1>1 DEF M
<1>4. \A q \in Nat : q <= q * q
  OBVIOUS
<1>5. Byte * Byte <= M
  BY <1>2, <1>3, <1>4
<1> QED
  BY <1>1, <1>2, <1>5, MType DEF Val

\* A step is a read, a write or an access that is undefined.
LEMMA StepKinds ==
  ASSUME Next
  PROVE  /\ Defined
         /\ \E Addr \in Val, n \in Size :
              \/ \E u \in Garbage :
                   /\ mapAddress(Addr) # nullptr
                   /\ \/ n = 1 /\ Reads(Addr, n, read8(Memory, Addr, u))
                      \/ n = 2 /\ Reads(Addr, n, read16(Memory, Addr, u))
                      \/ n = 4 /\ Reads(Addr, n, read32(Memory, Addr, u))
              \/ \E Data \in Val :
                   /\ Writable(Addr, n)
                   /\ Memory' = StoreBytes(Memory, mapAddress(Addr), n, Data)
                   /\ Done("write", Addr, n, Data)
              \/ NullAccess(Addr, n)
              \/ WriteOverrun(Addr, n)
<1>1. PICK Addr \in Val :
        \/ Read8(Addr) \/ Read16(Addr) \/ Read32(Addr)
        \/ \E Data \in 0 .. Byte - 1 : Write8(Addr, Data)
        \/ \E Data \in 0 .. Byte * Byte - 1 : Write16(Addr, Data)
        \/ \E Data \in Val : Write32(Addr, Data)
        \/ \E n \in Size : NullAccess(Addr, n) \/ WriteOverrun(Addr, n)
  BY DEF Next
<1>2. CASE Read8(Addr) \/ Read16(Addr) \/ Read32(Addr)
  BY <1>2 DEF Read8, Read16, Read32, Size
<1>3. CASE \E Data \in 0 .. Byte - 1 : Write8(Addr, Data)
  BY <1>3, NarrowData DEF Write8, write8, Size
<1>4. CASE \E Data \in 0 .. Byte * Byte - 1 : Write16(Addr, Data)
  BY <1>4, NarrowData DEF Write16, write16, Size
<1>5. CASE \E Data \in Val : Write32(Addr, Data)
  BY <1>5 DEF Write32, write32, Size
<1>6. CASE \E n \in Size : NullAccess(Addr, n) \/ WriteOverrun(Addr, n)
  BY <1>6 DEF NullAccess, WriteOverrun
<1> QED
  BY <1>1, <1>2, <1>3, <1>4, <1>5, <1>6

LEMMA StepType == ASSUME TypeOK, Next PROVE TypeOK'
<1>1. PICK Addr \in Val, n \in Size :
        \/ \E u \in Garbage :
             /\ mapAddress(Addr) # nullptr
             /\ \/ n = 1 /\ Reads(Addr, n, read8(Memory, Addr, u))
                \/ n = 2 /\ Reads(Addr, n, read16(Memory, Addr, u))
                \/ n = 4 /\ Reads(Addr, n, read32(Memory, Addr, u))
        \/ \E Data \in Val :
             /\ Writable(Addr, n)
             /\ Memory' = StoreBytes(Memory, mapAddress(Addr), n, Data)
             /\ Done("write", Addr, n, Data)
        \/ NullAccess(Addr, n)
        \/ WriteOverrun(Addr, n)
  BY StepKinds
<1>2. IsContents(Memory)
  BY DEF TypeOK
<1>3. ASSUME NEW u \in Garbage, mapAddress(Addr) # nullptr,
             \/ n = 1 /\ Reads(Addr, n, read8(Memory, Addr, u))
             \/ n = 2 /\ Reads(Addr, n, read16(Memory, Addr, u))
             \/ n = 4 /\ Reads(Addr, n, read32(Memory, Addr, u))
      PROVE  TypeOK'
  <2>1. /\ read8(Memory, Addr, u) \in Val
        /\ read16(Memory, Addr, u) \in Val
        /\ read32(Memory, Addr, u) \in Val
    BY <1>2, <1>3, ReadType, GarbageAssumption
  <2>2. PICK v \in Val : Reads(Addr, n, v)
    BY <1>3, <2>1
  <2> QED
    BY <1>2, <2>2 DEF Reads, Done, TypeOK, Ops
<1>4. ASSUME NEW Data \in Val, Writable(Addr, n),
             Memory' = StoreBytes(Memory, mapAddress(Addr), n, Data),
             Done("write", Addr, n, Data)
      PROVE  TypeOK'
  <2>1. IsContents(StoreBytes(Memory, mapAddress(Addr), n, Data))
    BY <1>2, <1>4, WriteType DEF Writable, Size, write8, write16, write32
  <2> QED
    BY <1>4, <2>1 DEF Done, TypeOK, Ops
<1>5. CASE NullAccess(Addr, n) \/ WriteOverrun(Addr, n)
  <2>1. 0 \in Val
    BY MType DEF Val
  <2> QED
    BY <1>2, <1>5, <2>1 DEF NullAccess, WriteOverrun, Done, TypeOK, Ops
<1> QED
  BY <1>1, <1>3, <1>4, <1>5

\* No access changes the extent of a segment, and what a segment holds and a
\* read returns are bytes and numbers of 32 bits.
THEOREM MemoryTypeCorrect == Spec => []TypeOK
<1>1. Init => TypeOK
  <2>1. 0 \in Val
    BY MType DEF Val
  <2> QED
    BY <2>1, ImagesAssumption DEF Init, NoAccess, TypeOK, Ops, Size
<1>2. TypeOK /\ [Next]_vars => TypeOK'
  <2>1. ASSUME TypeOK, UNCHANGED vars PROVE TypeOK'
    BY <2>1 DEF vars, TypeOK
  <2> QED
    BY <2>1, StepType
<1> QED
  BY <1>1, <1>2, PTL DEF Spec

-----------------------------------------------------------------------------
(***************************************************************************)
(* Every access is one of the flat memory.                                 *)
(***************************************************************************)
LEMMA PlaceIsByteOf ==
  ASSUME NEW v, NEW k
  PROVE  Flat!Place(v, k) = ByteOf(v, k)
BY DEF Flat!Place, Flat!Power, ByteOf, Weight

\* The digits of what is read are the bytes that were loaded.
LEMMA ReadDigits ==
  ASSUME NEW m, IsContents(m), NEW a \in Val, mapAddress(a) # nullptr, NEW u \in Val,
         NEW n \in Size, NEW v,
         \/ n = 1 /\ v = read8(m, a, u)
         \/ n = 2 /\ v = read16(m, a, u)
         \/ n = 4 /\ v = read32(m, a, u)
  PROVE  /\ \A k \in 0 .. n - 1 : ByteOf(v, k) = LoadByte(m, mapAddress(a), k, u)
         /\ \A k \in n .. 3 : ByteOf(v, k) = 0
<1> DEFINE B(k) == LoadByte(m, mapAddress(a), k, u)
<1>1. B(0) \in ByteVal /\ B(1) \in ByteVal /\ B(2) \in ByteVal /\ B(3) \in ByteVal
  BY LoadByteType
<1>2. CASE n = 1
  <2>1. v = B(0)
    BY <1>2 DEF read8
  <2>2. ByteOf(v, 0) = B(0) /\ \A k \in 1 .. 3 : ByteOf(v, k) = 0
    BY <1>1, <2>1, OneByteDigits
  <2> HIDE DEF B
  <2>3. \A k \in 0 .. n - 1 : ByteOf(v, k) = B(k)
    BY <1>2, <2>2
  <2> QED
    BY <1>2, <2>2, <2>3 DEF B
<1>3. CASE n = 2
  <2>1. v = B(0) + Byte * B(1)
    BY <1>3 DEF read16
  <2> HIDE DEF B
  <2>2. /\ ByteOf(v, 0) = B(0) /\ ByteOf(v, 1) = B(1)
        /\ ByteOf(v, 2) = 0 /\ ByteOf(v, 3) = 0
    BY <1>1, <2>1, TwoByteDigits
  <2>3. \A k \in 0 .. n - 1 : ByteOf(v, k) = B(k)
    <3>1. \A k \in 0 .. n - 1 : k = 0 \/ k = 1
      BY <1>3
    <3> QED
      BY <2>2, <3>1
  <2>4. \A k \in n .. 3 : ByteOf(v, k) = 0
    <3>1. \A k \in n .. 3 : k = 2 \/ k = 3
      BY <1>3
    <3> QED
      BY <2>2, <3>1
  <2> QED
    BY <2>3, <2>4 DEF B
<1>4. CASE n = 4
  <2>1. v = B(0) + Byte * (B(1) + Byte * (B(2) + Byte * B(3)))
    BY <1>4 DEF read32
  <2> HIDE DEF B
  <2>2. /\ ByteOf(v, 0) = B(0) /\ ByteOf(v, 1) = B(1)
        /\ ByteOf(v, 2) = B(2) /\ ByteOf(v, 3) = B(3)
    BY <1>1, <2>1, FourByteDigits
  <2>3. \A k \in 0 .. n - 1 : ByteOf(v, k) = B(k)
    <3>1. \A k \in 0 .. n - 1 : k = 0 \/ k = 1 \/ k = 2 \/ k = 3
      BY <1>4
    <3> QED
      BY <2>2, <3>1
  <2> QED
    BY <1>4, <2>3 DEF B
<1> QED
  BY <1>2, <1>3, <1>4 DEF Size

LEMMA MappedIs ==
  ASSUME NEW a \in Val
  PROVE  a \in Flat!Mapped <=> mapAddress(a) # nullptr
<1>1. DOMAIN SegmentOf = Val
  BY DEF SegmentOf
<1> QED
  BY <1>1, RegionIsSegment DEF Flat!Mapped, Flat!Address

LEMMA LoadIsFlat ==
  ASSUME TypeOK, NEW a \in Val, mapAddress(a) # nullptr, NEW u \in Garbage, NEW n \in Size,
         \/ n = 1 /\ Reads(a, n, read8(Memory, a, u))
         \/ n = 2 /\ Reads(a, n, read16(Memory, a, u))
         \/ n = 4 /\ Reads(a, n, read32(Memory, a, u))
  PROVE  Flat!Load(a, n)
<1>1. IsContents(Memory) /\ u \in Val /\ n \in Nat /\ a \in Int
  BY GarbageAssumption, MType DEF TypeOK, Size, Val
<1>2. PICK v : /\ \/ n = 1 /\ v = read8(Memory, a, u)
                  \/ n = 2 /\ v = read16(Memory, a, u)
                  \/ n = 4 /\ v = read32(Memory, a, u)
               /\ Reads(a, n, v)
  OBVIOUS
<1>3. /\ \A k \in 0 .. n - 1 : ByteOf(v, k) = LoadByte(Memory, mapAddress(a), k, u)
      /\ \A k \in n .. 3 : ByteOf(v, k) = 0
  BY <1>1, <1>2, ReadDigits
<1>4. /\ Access'.op = "read" /\ Access'.Addr = a /\ Access'.Size = n /\ Access'.Data = v
      /\ Memory' = Memory
  BY <1>2 DEF Reads, Done
<1>5. ASSUME NEW b \in Flat!Bytes(a, n), Flat!Near(a, b)
      PROVE  Flat!Place(v, b - a) = FlatView[b]
  <2> DEFINE k == b - a
  <2>1. k \in 0 .. n - 1 /\ k \in Nat /\ a + k = b
    BY <1>1 DEF Flat!Bytes
  <2> HIDE DEF k
  <2>2. /\ InBlock(mapAddress(a), k + 1)
        /\ b \in Val /\ mapAddress(b) # nullptr
        /\ mapAddress(b).Segment = mapAddress(a).Segment
        /\ mapAddress(b).Offset = mapAddress(a).Offset + k
    BY <1>5, <2>1, NearInBlock
  <2>3. LoadByte(Memory, mapAddress(a), k, u) = FlatView[b]
    BY <2>2, FlatByte DEF LoadByte
  <2> QED
    BY <1>3, <2>1, <2>3, PlaceIsByteOf DEF k
<1>6. \A k \in n .. 3 : Flat!Place(v, k) = 0
  BY <1>3, PlaceIsByteOf
<1>7. FlatView' = FlatView
  BY <1>4 DEF FlatView
<1>8. a \in Flat!Mapped
  BY MappedIs
<1> QED
  BY <1>4, <1>5, <1>6, <1>7, <1>8 DEF Flat!Load

LEMMA StoreIsFlat ==
  ASSUME TypeOK, NEW a \in Val, NEW n \in Size, NEW Data \in Val, Writable(a, n),
         Memory' = StoreBytes(Memory, mapAddress(a), n, Data),
         Done("write", a, n, Data)
  PROVE  Flat!Store(a, n)
<1> DEFINE p == mapAddress(a)
           new == [o \in DOMAIN Memory[p.Segment] |->
                     IF o \in p.Offset .. p.Offset + n - 1
                     THEN ByteOf(Data, o - p.Offset)
                     ELSE Memory[p.Segment][o]]
<1>1. /\ IsContents(Memory) /\ n \in Nat /\ a \in Int
      /\ p # nullptr /\ p.Segment \in Segment /\ p.Offset \in Int
  <2>1. p # nullptr
    BY DEF Writable
  <2>2. p.Segment \in Segment /\ p.Offset \in Allocation(p.Segment)
    BY <2>1, MapAddressInBlock
  <2> QED
    BY <2>1, <2>2, MType DEF TypeOK, Size, Val, Allocation
<1>2. /\ Access'.op = "write" /\ Access'.Addr = a /\ Access'.Size = n /\ Access'.Data = Data
  BY DEF Done
<1>3. Memory' = [Memory EXCEPT ![p.Segment] = new]
  BY DEF StoreBytes
<1>4. ASSUME NEW b \in Flat!Mapped
      PROVE  Memory'[SegmentOf[b]][b - SegmentData[SegmentOf[b]].GuestAddress]
               = IF b \in Flat!Bytes(a, n) /\ Flat!Near(a, b)
                 THEN Flat!Place(Data, b - a)
                 ELSE FlatView[b]
  <2> DEFINE q == mapAddress(b)
  <2>1. b \in Val /\ q # nullptr /\ b \in Int
    BY MappedIs, MType DEF Flat!Mapped, Flat!Address, SegmentOf, Val
  <2>2. /\ q.Segment \in Segment /\ q.Offset \in Allocation(q.Segment)
        /\ SegmentOf[b] = q.Segment /\ SegmentOf[a] = p.Segment
        /\ q.Offset = b - SegmentData[q.Segment].GuestAddress
    BY <2>1, MapAddressInBlock, MapAddressOffset, RegionIsSegment
  <2>3. FlatView[b] = Memory[q.Segment][q.Offset]
    BY <2>1, FlatByte
  <2>4. Flat!Near(a, b) <=> q.Segment = p.Segment
    BY <2>1, <2>2 DEF Flat!Near, Flat!Address, SegmentOf
  <2>5. DOMAIN Memory = Segment /\ DOMAIN Memory[q.Segment] = Allocation(q.Segment)
    BY <1>1, <2>2 DEF IsContents
  <2>6. CASE q.Segment = p.Segment
    <3>1. q.Offset = p.Offset + (b - a)
      BY <1>1, <2>1, <2>2, <2>6, SameRegion
    <3>2. Memory'[q.Segment] = new
      <4> HIDE DEF new, p, q
      <4> QED
        BY <1>3, <2>2, <2>5, <2>6
    <3>3. new[q.Offset] = IF q.Offset \in p.Offset .. p.Offset + n - 1
                          THEN ByteOf(Data, q.Offset - p.Offset)
                          ELSE Memory[p.Segment][q.Offset]
      <4> HIDE DEF p, q
      <4> QED
        BY <2>2, <2>5, <2>6
    <3>4. /\ q.Offset - p.Offset = b - a
          /\ q.Offset \in p.Offset .. p.Offset + n - 1 <=> b \in Flat!Bytes(a, n)
      <4> HIDE DEF p, q
      <4> QED
        BY <1>1, <2>1, <3>1 DEF Flat!Bytes
    <3> HIDE DEF new, p, q
    <3>5. Memory'[q.Segment][q.Offset] =
            IF b \in Flat!Bytes(a, n) THEN ByteOf(Data, b - a) ELSE Memory[q.Segment][q.Offset]
      BY <2>6, <3>2, <3>3, <3>4
    <3> QED
      BY <2>2, <2>3, <2>4, <2>6, <3>5, PlaceIsByteOf
  <2>7. CASE q.Segment # p.Segment
    <3> HIDE DEF new, p, q
    <3>1. Memory'[q.Segment] = Memory[q.Segment]
      BY <1>3, <2>2, <2>5, <2>7
    <3> QED
      BY <2>2, <2>3, <2>4, <2>7, <3>1
  <2> QED
    BY <2>6, <2>7
<1>5. Flat!Mapped = {b \in Val : SegmentOf[b] # 0}
  BY DEF Flat!Mapped, Flat!Address, SegmentOf
<1>6. FlatView' = [b \in Flat!Mapped |->
        Memory'[SegmentOf[b]][b - SegmentData[SegmentOf[b]].GuestAddress]]
  BY <1>5 DEF FlatView
<1>7. FlatView' = [b \in Flat!Mapped |-> IF b \in Flat!Bytes(a, n) /\ Flat!Near(a, b)
                                        THEN Flat!Place(Data, b - a)
                                        ELSE FlatView[b]]
  BY <1>4, <1>6
<1>8. a \in Flat!Mapped
  BY <1>1, MappedIs
<1> QED
  BY <1>2, <1>7, <1>8 DEF Flat!Store

LEMMA FailIsFlat ==
  ASSUME NEW a \in Val, NEW n \in Size, NullAccess(a, n) \/ WriteOverrun(a, n)
  PROVE  Flat!Fail(a, n)
<1>1. Access'.op = "undefined" /\ Access'.Addr = a /\ Access'.Size = n /\ Memory' = Memory
  BY DEF NullAccess, WriteOverrun, Done
<1>2. FlatView' = FlatView
  BY <1>1 DEF FlatView
<1>3. CASE NullAccess(a, n)
  <2>1. a \notin Flat!Mapped
    BY <1>3, MappedIs DEF NullAccess
  <2> QED
    BY <1>1, <1>2, <2>1 DEF Flat!Fail
<1>4. CASE WriteOverrun(a, n)
  <2>1. mapAddress(a) # nullptr /\ ~InBlock(mapAddress(a), n)
    BY <1>4 DEF WriteOverrun, Writable
  <2>2. ~Flat!Whole(a, n)
    <3> SUFFICES ASSUME Flat!Whole(a, n) PROVE FALSE
      OBVIOUS
    <3> DEFINE k == n - 1
    <3>1. k \in Nat /\ k + 1 = n /\ a + k \in Flat!Bytes(a, n)
      BY MType DEF Size, Val, Flat!Bytes
    <3> HIDE DEF k
    <3>2. Flat!Near(a, a + k)
      BY <3>1 DEF Flat!Whole
    <3>3. InBlock(mapAddress(a), k + 1)
      BY <2>1, <3>1, <3>2, NearInBlock
    <3> QED
      BY <2>1, <3>1, <3>3
  <2> QED
    BY <1>1, <1>2, <2>2 DEF Flat!Fail
<1> QED
  BY <1>3, <1>4

\* Whatever the segments, overlapping, touching or reaching the end of the
\* address space, the accessors behave as one flat store of bytes: a load
\* returns the last bytes stored at its addresses, and a store changes no
\* other address.
THEOREM MemoryIsFlat == Spec => ImplementsFlat
<1>1. Init => Flat!Init
  <2> SUFFICES ASSUME Init PROVE Flat!Init
    OBVIOUS
  <2>1. Access.op = "none" /\ IsContents(Memory)
    BY ImagesAssumption DEF Init, NoAccess
  <2>2. Flat!Mapped = {b \in Val : SegmentOf[b] # 0}
    BY DEF Flat!Mapped, Flat!Address, SegmentOf
  <2>3. ASSUME NEW b \in Flat!Mapped PROVE FlatView[b] \in 0 .. Byte - 1
    <3>1. b \in Val /\ mapAddress(b) # nullptr
      BY <2>2, <2>3, MappedIs
    <3>2. /\ FlatView[b] = Memory[mapAddress(b).Segment][mapAddress(b).Offset]
          /\ mapAddress(b).Segment \in Segment
          /\ mapAddress(b).Offset \in Allocation(mapAddress(b).Segment)
      BY <3>1, FlatByte, MapAddressInBlock
    <3> QED
      BY <2>1, <3>2 DEF IsContents, ByteVal
  <2>4. FlatView = [b \in Flat!Mapped |-> FlatView[b]]
    BY <2>2 DEF FlatView
  <2>5. FlatView \in [Flat!Mapped -> 0 .. Byte - 1]
    BY <2>3, <2>4
  <2> QED
    BY <2>1, <2>5 DEF Flat!Init
<1>2. TypeOK /\ [Next]_vars => [Flat!Next]_(Flat!vars)
  <2> SUFFICES ASSUME TypeOK, [Next]_vars
               PROVE  Flat!Next \/ UNCHANGED Flat!vars
    OBVIOUS
  <2>1. CASE UNCHANGED vars
    BY <2>1 DEF vars, Flat!vars, FlatView
  <2>2. CASE Next
    <3>1. PICK Addr \in Val, n \in Size :
            \/ \E u \in Garbage :
                 /\ mapAddress(Addr) # nullptr
                 /\ \/ n = 1 /\ Reads(Addr, n, read8(Memory, Addr, u))
                    \/ n = 2 /\ Reads(Addr, n, read16(Memory, Addr, u))
                    \/ n = 4 /\ Reads(Addr, n, read32(Memory, Addr, u))
            \/ \E Data \in Val :
                 /\ Writable(Addr, n)
                 /\ Memory' = StoreBytes(Memory, mapAddress(Addr), n, Data)
                 /\ Done("write", Addr, n, Data)
            \/ NullAccess(Addr, n)
            \/ WriteOverrun(Addr, n)
      BY <2>2, StepKinds
    <3>2. Flat!Load(Addr, n) \/ Flat!Store(Addr, n) \/ Flat!Fail(Addr, n)
      BY <3>1, LoadIsFlat, StoreIsFlat, FailIsFlat
    <3>3. Access.op # "undefined"
      BY <2>2, StepKinds DEF Defined
    <3>4. Addr \in Flat!Address /\ n \in {1, 2, 4}
      BY DEF Flat!Address, SegmentOf, Size
    <3> QED
      BY <3>2, <3>3, <3>4 DEF Flat!Next
  <2> QED
    BY <2>1, <2>2
<1> QED
  BY <1>1, <1>2, MemoryTypeCorrect, PTL DEF Spec, ImplementsFlat, Flat!Spec
=============================================================================
