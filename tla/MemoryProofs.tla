---------------------------- MODULE MemoryProofs ----------------------------
(***************************************************************************)
(* Facts about the address map and the accessors that hold for every       *)
(* layout of the segments.                                                 *)
(***************************************************************************)
EXTENDS Memory, WellFoundedInduction, TLAPS

\* The number of addresses is even and at least two.
LEMMA MType == M \in Nat /\ M >= 2 /\ M % 2 = 0
<1>1. Byte \in Nat /\ Byte >= 2 /\ Byte % 2 = 0
  BY ByteAssumption
<1>2. PICK half \in Nat : Byte = 2 * half
  <2>1. Byte \div 2 \in Nat /\ Byte = 2 * (Byte \div 2)
    BY <1>1
  <2> QED
    BY <2>1
<1> DEFINE rest == Byte * Byte * Byte
<1>3. rest \in Nat /\ rest >= 1
  <2>1. Byte * Byte \in Nat /\ Byte * Byte >= 1
    BY <1>1
  <2> QED
    BY <1>1, <2>1
<1>4. M = 2 * (half * rest) /\ half \in Nat /\ half >= 1
  BY <1>1, <1>2 DEF M
<1>5. half * rest \in Nat /\ half * rest >= 1
  BY <1>3, <1>4
<1> QED
  BY <1>4, <1>5

\* Arithmetic modulo M stays among the values of a uint32_t.
LEMMA ModVal == ASSUME NEW v \in Int PROVE v % M \in Val
BY MType DEF Val

\* Some segment is the first of those that cover an address.
LEMMA FirstExists ==
  ASSUME NEW Hits \in SUBSET Nat, Hits # {}
  PROVE  \E I \in Hits : \A J \in Hits : I <= J
<1>1. PICK I \in Hits : \A J \in Hits : ~ (<<J, I>> \in OpToRel(<, Nat))
  BY WFMin, NatLessThanWellFounded
<1>2. \A J \in Hits : ~ (J < I)
  BY <1>1 DEF OpToRel
<1> QED
  BY <1>2

\* A host pointer that mapAddress returns points into the block of a segment,
\* whatever the segments, the wrap-around of their ends included.
THEOREM MapAddressInBlock ==
  ASSUME NEW Addr \in Val, mapAddress(Addr) # nullptr
  PROVE  /\ mapAddress(Addr).Segment \in Segment
         /\ mapAddress(Addr).Offset \in Allocation(mapAddress(Addr).Segment)
<1> DEFINE Hits  == {I \in Segment : Covers(I, Addr)}
           First == CHOOSE I \in Hits : \A J \in Hits : I <= J
<1>1. Hits # {} /\ Hits \in SUBSET Nat
  BY DEF mapAddress, Segment
<1>2. First \in Hits
  <2>1. \E I \in Hits : \A J \in Hits : I <= J
    BY <1>1, FirstExists
  <2> QED
    BY <2>1
<1>3. mapAddress(Addr) =
        [Segment |-> First, Offset |-> Addr - SegmentData[First].GuestAddress]
  BY <1>1 DEF mapAddress
<1> DEFINE G == SegmentData[First].GuestAddress
           N == SegmentData[First].MemorySize
<1>4. G \in Val /\ N \in Val
  <2>1. First \in 1 .. Len(SegmentData)
    BY <1>2 DEF Segment
  <2>2. SegmentData[First] \in SegmentManager
    <3> HIDE DEF First
    <3> QED
      BY <2>1, SegmentAssumption
  <2> QED
    BY <2>2 DEF SegmentManager
<1>5. G <= Addr /\ Addr < (G + N) % M
  BY <1>2 DEF Covers
<1>6. Addr - G \in 0 .. N - 1
  <2> HIDE DEF G, N
  <2>1. (G + N) % M <= G + N
    BY <1>4, MType DEF Val
  <2> QED
    BY <1>4, <1>5, <2>1, MType DEF Val
<1> QED
  BY <1>2, <1>3, <1>6 DEF Allocation
-----------------------------------------------------------------------------
\* A digit of a number is a byte.
LEMMA ByteOfType ==
  ASSUME NEW v \in Val, NEW k \in 0 .. 3
  PROVE  ByteOf(v, k) \in ByteVal
<1>1. Byte \in Nat /\ Byte >= 2
  BY ByteAssumption
<1>2. \A W \in Nat : W >= 1 => (v \div W) % Byte \in ByteVal
  <2> SUFFICES ASSUME NEW W \in Nat, W >= 1 PROVE (v \div W) % Byte \in ByteVal
    OBVIOUS
  <2>1. v \div W \in Int
    BY MType DEF Val
  <2> QED
    BY <1>1, <2>1 DEF ByteVal
<1>3. /\ Byte * Byte \in Nat /\ Byte * Byte >= 1
      /\ Byte * Byte * Byte \in Nat /\ Byte * Byte * Byte >= 1
  <2>1. Byte * Byte \in Nat /\ Byte * Byte >= 1
    BY <1>1
  <2> QED
    BY <1>1, <2>1
<1>4. Weight[k + 1] \in Nat /\ Weight[k + 1] >= 1
  <2>1. CASE k = 0 BY <2>1 DEF Weight
  <2>2. CASE k = 1 BY <1>1, <2>2 DEF Weight
  <2>3. CASE k = 2 BY <1>3, <2>3 DEF Weight
  <2>4. CASE k = 3 BY <1>3, <2>4 DEF Weight
  <2> QED
    BY <2>1, <2>2, <2>3, <2>4
<1> QED
  BY <1>2, <1>4 DEF ByteOf

\* One more low-order byte in front of a number of n values.
LEMMA Horner ==
  ASSUME NEW n \in Nat, NEW low \in ByteVal, NEW high \in 0 .. n - 1
  PROVE  low + Byte * high \in 0 .. Byte * n - 1
<1>1. Byte \in Nat /\ Byte >= 2
  BY ByteAssumption
<1>2. Byte * high + Byte <= Byte * n /\ 0 <= Byte * high
  <2>1. high + 1 <= n /\ high \in Nat
    OBVIOUS
  <2>2. Byte * (high + 1) <= Byte * n
    BY <1>1, <2>1
  <2>3. Byte * (high + 1) = Byte * high + Byte
    BY <1>1, <2>1
  <2>4. 0 <= Byte * high
    BY <1>1, <2>1
  <2> QED
    BY <2>2, <2>3, <2>4
<1>3. Byte * high \in Int /\ Byte * n \in Int
  BY <1>1
<1> QED
  BY <1>1, <1>2, <1>3 DEF ByteVal

\* Two bytes, or four, make a uint32_t.
LEMMA TwoBytes ==
  ASSUME NEW b0 \in ByteVal, NEW b1 \in ByteVal
  PROVE  b0 + Byte * b1 \in Val
<1>1. Byte \in Nat /\ Byte >= 2
  BY ByteAssumption
<1>2. b0 + Byte * b1 \in 0 .. Byte * Byte - 1
  BY <1>1, Horner DEF ByteVal
<1>3. Byte * Byte \in Nat /\ Byte * Byte >= 1
  BY <1>1
<1>4. M = (Byte * Byte) * (Byte * Byte)
  BY <1>1 DEF M
<1>5. \A q \in Nat : q >= 1 => q <= q * q
  OBVIOUS
<1>6. Byte * Byte <= M
  BY <1>3, <1>4, <1>5
<1> QED
  BY <1>2, <1>3, <1>6, MType DEF Val

LEMMA FourBytes ==
  ASSUME NEW b0 \in ByteVal, NEW b1 \in ByteVal, NEW b2 \in ByteVal, NEW b3 \in ByteVal
  PROVE  b0 + Byte * (b1 + Byte * (b2 + Byte * b3)) \in Val
<1>1. Byte \in Nat /\ Byte >= 2
  BY ByteAssumption
<1> DEFINE n2 == Byte * Byte
           n3 == Byte * n2
           h2 == b2 + Byte * b3
           h1 == b1 + Byte * h2
<1>2. n2 \in Nat /\ h2 \in 0 .. n2 - 1
  BY <1>1, Horner DEF ByteVal
<1>3. n3 \in Nat /\ h1 \in 0 .. n3 - 1
  <2> HIDE DEF n2, h2
  <2>1. n3 \in Nat
    BY <1>1, <1>2
  <2>2. b1 + Byte * h2 \in 0 .. Byte * n2 - 1
    BY <1>2, Horner
  <2> QED
    BY <2>1, <2>2
<1>4. b0 + Byte * h1 \in 0 .. Byte * n3 - 1
  <2> HIDE DEF n3, h1
  <2> QED
    BY <1>1, <1>3, Horner
<1>5. Byte * n3 = M
  BY <1>1 DEF M
<1> QED
  BY <1>4, <1>5 DEF Val

\* A byte that is read, from the block or past it, is a byte.
LEMMA LoadByteType ==
  ASSUME NEW m, IsContents(m), NEW Addr \in Val, mapAddress(Addr) # nullptr,
         NEW k \in 0 .. 3, NEW u \in Val
  PROVE  LoadByte(m, mapAddress(Addr), k, u) \in ByteVal
<1> DEFINE p == mapAddress(Addr)
<1>1. p.Segment \in Segment /\ p.Offset \in Allocation(p.Segment)
  BY MapAddressInBlock
<1>2. CASE InBlock(p, k + 1)
  <2> HIDE DEF p
  <2> DEFINE N == SegmentData[p.Segment].MemorySize
  <2>1. N \in Nat
    <3>1. SegmentData[p.Segment] \in SegmentManager
      BY <1>1, SegmentAssumption DEF Segment
    <3> QED
      BY <3>1, MType DEF SegmentManager, Val
  <2>2. p.Offset + k \in Allocation(p.Segment)
    <3> HIDE DEF N
    <3>1. p.Offset \in 0 .. N - 1 /\ p.Offset + (k + 1) <= N
      BY <1>1, <1>2 DEF Allocation, InBlock, N
    <3>2. p.Offset + k \in 0 .. N - 1
      BY <2>1, <3>1
    <3> QED
      BY <3>2 DEF Allocation, N
  <2>3. m[p.Segment] \in [Allocation(p.Segment) -> ByteVal]
    BY <1>1 DEF IsContents
  <2> QED
    BY <1>2, <2>2, <2>3 DEF LoadByte, p
<1>3. CASE ~InBlock(p, k + 1)
  BY <1>3, ByteOfType DEF LoadByte
<1> QED
  BY <1>2, <1>3

\* Whatever is read is a uint32_t.
THEOREM ReadType ==
  ASSUME NEW m, IsContents(m), NEW Addr \in Val, mapAddress(Addr) # nullptr, NEW u \in Val
  PROVE  /\ read8(m, Addr, u) \in ByteVal
         /\ read8(m, Addr, u) \in Val
         /\ read16(m, Addr, u) \in Val
         /\ read32(m, Addr, u) \in Val
<1>1. \A k \in 0 .. 3 : LoadByte(m, mapAddress(Addr), k, u) \in ByteVal
  BY LoadByteType
<1>2. read8(m, Addr, u) \in ByteVal
  BY <1>1 DEF read8
<1>3. 0 \in ByteVal
  BY ByteAssumption DEF ByteVal
<1>4. read8(m, Addr, u) \in Val
  <2>1. read8(m, Addr, u) + Byte * 0 \in Val
    BY <1>2, <1>3, TwoBytes
  <2>2. read8(m, Addr, u) + Byte * 0 = read8(m, Addr, u)
    BY <1>2, ByteAssumption DEF ByteVal
  <2> QED
    BY <2>1, <2>2
<1>5. read16(m, Addr, u) \in Val
  BY <1>1, TwoBytes DEF read16
<1>6. read32(m, Addr, u) \in Val
  BY <1>1, FourBytes DEF read32
<1> QED
  BY <1>2, <1>4, <1>5, <1>6

\* A store through a pointer that mapAddress returned leaves every segment
\* with its extent, filled with bytes.
THEOREM WriteType ==
  ASSUME NEW m, IsContents(m), NEW Addr \in Val, mapAddress(Addr) # nullptr, NEW Data \in Val
  PROVE  /\ IsContents(write8(m, Addr, Data))
         /\ IsContents(write16(m, Addr, Data))
         /\ IsContents(write32(m, Addr, Data))
<1> DEFINE p == mapAddress(Addr)
<1>1. p.Segment \in Segment /\ p.Offset \in Allocation(p.Segment)
  BY MapAddressInBlock
<1>2. ASSUME NEW n \in 1 .. 4 PROVE IsContents(StoreBytes(m, p, n, Data))
  <2> HIDE DEF p
  <2> DEFINE new == [o \in DOMAIN m[p.Segment] |->
                       IF o \in p.Offset .. p.Offset + n - 1
                       THEN ByteOf(Data, o - p.Offset)
                       ELSE m[p.Segment][o]]
  <2>1. m[p.Segment] \in [Allocation(p.Segment) -> ByteVal]
    BY <1>1 DEF IsContents
  <2>2. p.Offset \in Int
    BY <1>1 DEF Allocation
  <2>3. ASSUME NEW o \in Allocation(p.Segment), o \in p.Offset .. p.Offset + n - 1
        PROVE  ByteOf(Data, o - p.Offset) \in ByteVal
    <3>1. o - p.Offset \in 0 .. 3
      BY <2>2, <2>3
    <3> QED
      BY <3>1, ByteOfType
  <2>4. new \in [Allocation(p.Segment) -> ByteVal]
    BY <2>1, <2>3
  <2>5. StoreBytes(m, p, n, Data) = [m EXCEPT ![p.Segment] = new]
    BY DEF StoreBytes
  <2> HIDE DEF new
  <2> QED
    BY <1>1, <2>4, <2>5 DEF IsContents
<1> QED
  BY <1>2 DEF write8, write16, write32

-----------------------------------------------------------------------------
(***************************************************************************)
(* Reads after stores elsewhere.                                           *)
(***************************************************************************)

\* A host pointer is the guest address, less that of its segment.
LEMMA MapAddressOffset ==
  ASSUME NEW Addr, mapAddress(Addr) # nullptr
  PROVE  LET p == mapAddress(Addr)
         IN  /\ Covers(p.Segment, Addr)
             /\ p.Offset = Addr - SegmentData[p.Segment].GuestAddress
<1> DEFINE Hits  == {I \in Segment : Covers(I, Addr)}
           First == CHOOSE I \in Hits : \A J \in Hits : I <= J
<1>1. Hits # {} /\ Hits \in SUBSET Nat
  BY DEF mapAddress, Segment
<1>2. First \in Hits
  <2>1. \E I \in Hits : \A J \in Hits : I <= J
    BY <1>1, FirstExists
  <2> QED
    BY <2>1
<1>3. mapAddress(Addr) =
        [Segment |-> First, Offset |-> Addr - SegmentData[First].GuestAddress]
  BY <1>1 DEF mapAddress
<1> QED
  BY <1>2, <1>3

\* The layout of a segment is two uint32_t.
LEMMA SegmentFields ==
  ASSUME NEW I \in Segment
  PROVE  SegmentData[I].GuestAddress \in Nat /\ SegmentData[I].MemorySize \in Nat
<1>1. SegmentData[I] \in SegmentManager
  BY SegmentAssumption DEF Segment
<1> QED
  BY <1>1, MType DEF SegmentManager, Val

\* A byte that is in the block of a segment is one of its cells.
LEMMA OffsetInBlock ==
  ASSUME NEW Addr \in Val, mapAddress(Addr) # nullptr, NEW k \in Nat,
         InBlock(mapAddress(Addr), k + 1)
  PROVE  mapAddress(Addr).Offset + k \in Allocation(mapAddress(Addr).Segment)
<1> DEFINE p == mapAddress(Addr)
           N == SegmentData[p.Segment].MemorySize
<1>1. p.Segment \in Segment /\ p.Offset \in Allocation(p.Segment)
  BY MapAddressInBlock
<1>2. N \in Nat
  BY <1>1, SegmentFields
<1>3. p.Offset \in 0 .. N - 1 /\ p.Offset + (k + 1) <= N
  BY <1>1 DEF Allocation, InBlock
<1> HIDE DEF p, N
<1>4. p.Offset + k \in 0 .. N - 1
  BY <1>2, <1>3
<1> QED
  BY <1>4 DEF Allocation, p, N

\* A word none of whose bytes is stored to reads as before, whether or not the
\* two are in the same segment, or in segments that overlap.
THEOREM ReadKept ==
  ASSUME NEW m, IsContents(m), NEW n \in 1 .. 4, NEW Data \in Val, NEW u \in Val,
         NEW e \in Val, mapAddress(e) # nullptr,
         NEW a \in Val, mapAddress(a) # nullptr,
         (a .. a + 3) \cap (e .. e + n - 1) = {}
  PROVE  read32(StoreBytes(m, mapAddress(e), n, Data), a, u) = read32(m, a, u)
<1>1. ASSUME NEW k \in 0 .. 3
      PROVE  LoadByte(StoreBytes(m, mapAddress(e), n, Data), mapAddress(a), k, u)
               = LoadByte(m, mapAddress(a), k, u)
  <2> DEFINE p == mapAddress(e)
             q == mapAddress(a)
             o == q.Offset + k
             new == [x \in DOMAIN m[p.Segment] |->
                       IF x \in p.Offset .. p.Offset + n - 1
                       THEN ByteOf(Data, x - p.Offset)
                       ELSE m[p.Segment][x]]
  <2>1. CASE InBlock(q, k + 1)
    <3>1. /\ p.Segment \in Segment /\ q.Segment \in Segment
          /\ p.Offset = e - SegmentData[p.Segment].GuestAddress
          /\ q.Offset = a - SegmentData[q.Segment].GuestAddress
      BY MapAddressInBlock, MapAddressOffset
    <3>2. o \in Allocation(q.Segment)
      BY <2>1, OffsetInBlock
    <3>3. DOMAIN m = Segment /\ DOMAIN m[q.Segment] = Allocation(q.Segment)
      BY <3>1 DEF IsContents
    <3>4. StoreBytes(m, p, n, Data) = [m EXCEPT ![p.Segment] = new]
      BY DEF StoreBytes
    <3>5. CASE q.Segment = p.Segment
      <4> DEFINE G == SegmentData[p.Segment].GuestAddress
      <4>1. G \in Int /\ a \in Int /\ e \in Int
        BY <3>1, SegmentFields, MType DEF Val
      <4>2. p.Offset = e - G /\ q.Offset = a - G
        BY <3>1, <3>5
      <4>3. o \notin p.Offset .. p.Offset + n - 1
        <5> HIDE DEF G, p, q
        <5> QED
          BY <4>1, <4>2
      <4>4. new[o] = m[q.Segment][o]
        <5> HIDE DEF p, q, o
        <5> QED
          BY <3>2, <3>3, <3>5, <4>3
      <4> HIDE DEF new, p, q, o
      <4>5. [m EXCEPT ![p.Segment] = new][q.Segment] = new
        BY <3>1, <3>3, <3>5
      <4> QED
        BY <2>1, <3>4, <4>4, <4>5 DEF LoadByte, p, q, o
    <3>6. CASE q.Segment # p.Segment
      <4> HIDE DEF new, p, q
      <4>1. [m EXCEPT ![p.Segment] = new][q.Segment] = m[q.Segment]
        BY <3>1, <3>3, <3>6
      <4> QED
        BY <2>1, <3>4, <4>1 DEF LoadByte, p, q
    <3> QED
      BY <3>5, <3>6
  <2>2. CASE ~InBlock(q, k + 1)
    BY <2>2 DEF LoadByte
  <2> QED
    BY <2>1, <2>2
<1> QED
  BY <1>1 DEF read32

-----------------------------------------------------------------------------
(***************************************************************************)
(* Digits.                                                                 *)
(***************************************************************************)

\* A quotient and a remainder that is small enough are the quotient and the
\* remainder.
LEMMA DivUnique ==
  ASSUME NEW d \in Nat, d >= 1, NEW q \in Int, NEW r \in 0 .. d - 1
  PROVE  (d * q + r) \div d = q /\ (d * q + r) % d = r
<1> DEFINE x == d * q + r
           e == x \div d
           s == x % d
           k == q - e
<1>1. x \in Int /\ d * q \in Int
  OBVIOUS
<1>2. x = d * e + s /\ e \in Int /\ s \in 0 .. d - 1
  <2> HIDE DEF x
  <2> QED
    BY <1>1
<1>3. d * k = s - r /\ k \in Int
  <2> HIDE DEF e, s
  <2>1. d * k = d * q - d * e /\ k \in Int /\ d * e \in Int
    BY <1>2
  <2>2. x = d * q + r
    OBVIOUS
  <2> HIDE DEF x, k
  <2> QED
    BY <1>1, <1>2, <2>1, <2>2
<1> HIDE DEF k, s
<1>4. k = 0
  <2>1. k >= 1 => d * k >= d
    BY <1>3
  <2>2. k <= -1 => d * k <= -d
    BY <1>3
  <2> QED
    BY <1>2, <1>3, <2>1, <2>2
<1>5. e = q
  <2> HIDE DEF e
  <2> QED
    BY <1>2, <1>4 DEF k
<1>6. s = r
  <2>1. d * 0 = 0
    OBVIOUS
  <2> QED
    BY <1>2, <1>3, <1>4, <2>1
<1> QED
  BY <1>5, <1>6 DEF s

\* Dividing by a multiple of Byte drops the lowest digit first.
LEMMA DropDigit ==
  ASSUME NEW W \in Nat, W >= 1, NEW low \in ByteVal, NEW high \in Nat
  PROVE  (low + Byte * high) \div (Byte * W) = high \div W
<1> DEFINE q == high \div W
           r == high % W
           d == Byte * W
           t == Byte * r + low
<1>1. Byte \in Nat /\ Byte >= 2 /\ low \in 0 .. Byte - 1
  BY ByteAssumption DEF ByteVal
<1>2. high = W * q + r /\ q \in Int /\ r \in 0 .. W - 1
  OBVIOUS
<1> HIDE DEF q, r
<1>3. d \in Nat /\ d >= 1
  BY <1>1
<1>4. t \in 0 .. d - 1
  <2>1. low + Byte * r \in 0 .. Byte * W - 1
    BY <1>2, Horner
  <2>2. Byte * r \in Int
    BY <1>1, <1>2
  <2> QED
    BY <1>1, <2>1, <2>2
<1>5. low + Byte * high = d * q + t
  <2>1. Byte * (W * q + r) = Byte * (W * q) + Byte * r
    BY <1>1, <1>2
  <2>2. Byte * (W * q) = (Byte * W) * q
    BY <1>1, <1>2
  <2>3. (Byte * W) * q \in Int /\ Byte * r \in Int
    BY <1>1, <1>2
  <2>4. Byte * high = (Byte * W) * q + Byte * r
    BY <1>2, <2>1, <2>2
  <2> QED
    BY <1>1, <2>3, <2>4
<1>6. (d * q + t) \div d = q
  <2> HIDE DEF d, t
  <2> QED
    BY <1>2, <1>3, <1>4, DivUnique
<1> QED
  BY <1>5, <1>6 DEF q

\* The digits of a number of one byte or more.
LEMMA LowDigit ==
  ASSUME NEW low \in ByteVal, NEW high \in Nat
  PROVE  ByteOf(low + Byte * high, 0) = low
<1>1. Byte \in Nat /\ Byte >= 1 /\ low \in 0 .. Byte - 1
  BY ByteAssumption DEF ByteVal
<1>2. Byte * high + low = low + Byte * high /\ Byte * high + low \in Int
  BY <1>1
<1>3. (Byte * high + low) % Byte = low
  BY <1>1, DivUnique
<1>4. (Byte * high + low) \div 1 = Byte * high + low
  BY <1>2
<1> QED
  BY <1>2, <1>3, <1>4 DEF ByteOf, Weight

LEMMA NextDigit ==
  ASSUME NEW low \in ByteVal, NEW high \in Nat, NEW k \in 0 .. 2
  PROVE  ByteOf(low + Byte * high, k + 1) = ByteOf(high, k)
<1>1. Byte \in Nat /\ Byte >= 1
  BY ByteAssumption
<1>2. /\ Byte * Byte \in Nat /\ Byte * Byte >= 1
      /\ Byte * Byte * Byte = Byte * (Byte * Byte)
  BY <1>1
<1>3. Weight[k + 1] \in Nat /\ Weight[k + 1] >= 1 /\ Weight[k + 2] = Byte * Weight[k + 1]
  <2>1. CASE k = 0 BY <1>1, <2>1 DEF Weight
  <2>2. CASE k = 1 BY <1>1, <2>2 DEF Weight
  <2>3. CASE k = 2 BY <1>2, <2>3 DEF Weight
  <2> QED
    BY <2>1, <2>2, <2>3
<1>4. (low + Byte * high) \div (Byte * Weight[k + 1]) = high \div Weight[k + 1]
  BY <1>3, DropDigit
<1>5. (k + 1) + 1 = k + 2
  OBVIOUS
<1> QED
  BY <1>3, <1>4, <1>5 DEF ByteOf

\* A byte has no other digits.
LEMMA ZeroDigits == ASSUME NEW k \in 0 .. 3 PROVE ByteOf(0, k) = 0
<1>1. Byte \in Nat /\ Byte >= 1
  BY ByteAssumption
<1>2. /\ Byte * Byte \in Nat /\ Byte * Byte >= 1
      /\ Byte * Byte * Byte \in Nat /\ Byte * Byte * Byte >= 1
  <2>1. Byte * Byte \in Nat /\ Byte * Byte >= 1
    BY <1>1
  <2> QED
    BY <1>1, <2>1
<1>3. Weight[k + 1] \in Nat /\ Weight[k + 1] >= 1
  <2>1. CASE k = 0 BY <1>1, <2>1 DEF Weight
  <2>2. CASE k = 1 BY <1>1, <2>2 DEF Weight
  <2>3. CASE k = 2 BY <1>2, <2>3 DEF Weight
  <2>4. CASE k = 3 BY <1>2, <2>4 DEF Weight
  <2> QED
    BY <2>1, <2>2, <2>3, <2>4
<1>4. \A W \in Nat : W >= 1 => 0 \div W = 0
  OBVIOUS
<1>5. 0 % Byte = 0
  BY <1>1
<1> QED
  BY <1>3, <1>4, <1>5 DEF ByteOf

LEMMA OneByteDigits ==
  ASSUME NEW b \in ByteVal
  PROVE  ByteOf(b, 0) = b /\ \A k \in 1 .. 3 : ByteOf(b, k) = 0
<1>1. Byte \in Nat /\ b \in Nat /\ b + Byte * 0 = b
  BY ByteAssumption DEF ByteVal
<1>2. ByteOf(b, 0) = b
  BY <1>1, LowDigit
<1>3. ASSUME NEW k \in 1 .. 3 PROVE ByteOf(b, k) = 0
  <2> DEFINE j == k - 1
  <2>1. j \in 0 .. 2 /\ j + 1 = k
    OBVIOUS
  <2> HIDE DEF j
  <2>2. ByteOf(b + Byte * 0, j + 1) = ByteOf(0, j)
    BY <2>1, NextDigit
  <2>3. ByteOf(0, j) = 0
    BY <2>1, ZeroDigits
  <2> QED
    BY <1>1, <2>1, <2>2, <2>3
<1> QED
  BY <1>2, <1>3

LEMMA TwoByteDigits ==
  ASSUME NEW b0 \in ByteVal, NEW b1 \in ByteVal
  PROVE  LET v == b0 + Byte * b1
         IN  /\ ByteOf(v, 0) = b0 /\ ByteOf(v, 1) = b1
             /\ ByteOf(v, 2) = 0 /\ ByteOf(v, 3) = 0
<1>1. b1 \in Nat
  BY DEF ByteVal
<1>2. ByteOf(b1, 0) = b1 /\ ByteOf(b1, 1) = 0 /\ ByteOf(b1, 2) = 0
  BY OneByteDigits
<1>3. ByteOf(b0 + Byte * b1, 0) = b0
  BY <1>1, LowDigit
<1>4. \A k \in 0 .. 2 : ByteOf(b0 + Byte * b1, k + 1) = ByteOf(b1, k)
  BY <1>1, NextDigit
<1>5. /\ ByteOf(b0 + Byte * b1, 0 + 1) = b1
      /\ ByteOf(b0 + Byte * b1, 1 + 1) = 0
      /\ ByteOf(b0 + Byte * b1, 2 + 1) = 0
  BY <1>2, <1>4
<1> QED
  BY <1>3, <1>5

LEMMA FourByteDigits ==
  ASSUME NEW b0 \in ByteVal, NEW b1 \in ByteVal, NEW b2 \in ByteVal, NEW b3 \in ByteVal
  PROVE  LET v == b0 + Byte * (b1 + Byte * (b2 + Byte * b3))
         IN  /\ ByteOf(v, 0) = b0 /\ ByteOf(v, 1) = b1
             /\ ByteOf(v, 2) = b2 /\ ByteOf(v, 3) = b3
<1> DEFINE h2 == b2 + Byte * b3
           h1 == b1 + Byte * h2
           v  == b0 + Byte * h1
<1>1. Byte \in Nat /\ b1 \in Nat /\ b2 \in Nat /\ b3 \in Nat
  BY ByteAssumption DEF ByteVal
<1>2. h2 \in Nat
  BY <1>1
<1>3. h1 \in Nat
  <2> HIDE DEF h2
  <2> QED
    BY <1>1, <1>2
<1>4. ByteOf(h2, 0) = b2 /\ ByteOf(h2, 1) = b3
  BY TwoByteDigits
<1> HIDE DEF h2
<1>5. ByteOf(h1, 0) = b1 /\ \A k \in 0 .. 2 : ByteOf(h1, k + 1) = ByteOf(h2, k)
  BY <1>2, LowDigit, NextDigit
<1>6. ByteOf(h1, 0 + 1) = b2 /\ ByteOf(h1, 1 + 1) = b3
  BY <1>4, <1>5
<1> HIDE DEF h1
<1>7. ByteOf(v, 0) = b0 /\ \A k \in 0 .. 2 : ByteOf(v, k + 1) = ByteOf(h1, k)
  BY <1>3, LowDigit, NextDigit
<1>8. /\ ByteOf(v, 0 + 1) = b1 /\ ByteOf(v, 1 + 1) = b2 /\ ByteOf(v, 2 + 1) = b3
  BY <1>5, <1>6, <1>7
<1> QED
  BY <1>7, <1>8 DEF v, h1, h2

\* A word is made of its four bytes.
LEMMA WordDigits ==
  ASSUME NEW v \in Val
  PROVE  ByteOf(v, 0) + Byte * (ByteOf(v, 1) + Byte * (ByteOf(v, 2) + Byte * ByteOf(v, 3))) = v
<1> DEFINE b0 == v % Byte     h1 == v \div Byte
           b1 == h1 % Byte    h2 == h1 \div Byte
           b2 == h2 % Byte    b3 == h2 \div Byte
<1>1. Byte \in Nat /\ Byte >= 2 /\ v \in Nat /\ v < M
  BY ByteAssumption, MType DEF Val
<1>2. v = b0 + Byte * h1 /\ b0 \in 0 .. Byte - 1 /\ h1 \in Nat
  BY <1>1
<1> HIDE DEF b0, h1
<1>3. h1 = b1 + Byte * h2 /\ b1 \in 0 .. Byte - 1 /\ h2 \in Nat
  BY <1>1, <1>2
<1> HIDE DEF b1, h2
<1>4. h2 = b2 + Byte * b3 /\ b2 \in 0 .. Byte - 1 /\ b3 \in Nat
  BY <1>1, <1>3
<1> HIDE DEF b2, b3
<1>5. b3 < Byte
  <2> SUFFICES ASSUME b3 >= Byte PROVE FALSE
    BY <1>1, <1>4
  <2>1. Byte * b3 >= Byte * Byte /\ Byte * Byte \in Nat /\ Byte * b3 \in Nat
    BY <1>1, <1>4
  <2>2. h2 >= Byte * Byte
    BY <1>4, <2>1
  <2>3. Byte * h2 >= Byte * (Byte * Byte) /\ Byte * (Byte * Byte) \in Nat /\ Byte * h2 \in Nat
    BY <1>1, <1>3, <2>1, <2>2
  <2>4. h1 >= Byte * (Byte * Byte)
    BY <1>3, <2>3
  <2>5. Byte * h1 >= Byte * (Byte * (Byte * Byte)) /\ Byte * h1 \in Nat
    BY <1>1, <1>2, <2>3, <2>4
  <2>6. M = Byte * (Byte * (Byte * Byte))
    BY <1>1 DEF M
  <2>7. v >= Byte * h1
    BY <1>2, <2>5
  <2> QED
    BY <1>1, <2>3, <2>5, <2>6, <2>7, MType
<1>6. b0 \in ByteVal /\ b1 \in ByteVal /\ b2 \in ByteVal /\ b3 \in ByteVal
  BY <1>1, <1>2, <1>3, <1>4, <1>5 DEF ByteVal
<1>7. v = b0 + Byte * (b1 + Byte * (b2 + Byte * b3))
  BY <1>2, <1>3, <1>4
<1>8. ByteOf(v, 0) = b0 /\ ByteOf(v, 1) = b1 /\ ByteOf(v, 2) = b2 /\ ByteOf(v, 3) = b3
  BY <1>6, <1>7, FourByteDigits
<1> QED
  BY <1>7, <1>8

\* A word that was stored is what a load from the same address returns, if the
\* store stays in the block of its segment, however segments overlap.
THEOREM ReadWritten ==
  ASSUME NEW m, IsContents(m), NEW a \in Val, mapAddress(a) # nullptr,
         InBlock(mapAddress(a), 4), NEW Data \in Val, NEW u \in Val
  PROVE  read32(write32(m, a, Data), a, u) = Data
<1> DEFINE p == mapAddress(a)
           new == StoreBytes(m, p, 4, Data)
<1>1. p.Segment \in Segment /\ p.Offset \in Nat /\ SegmentData[p.Segment].MemorySize \in Nat
  BY MapAddressInBlock, SegmentFields DEF Allocation
<1>2. ASSUME NEW k \in 0 .. 3 PROVE LoadByte(new, p, k, u) = ByteOf(Data, k)
  <2>1. InBlock(p, k + 1)
    <3>1. p.Offset + 4 <= SegmentData[p.Segment].MemorySize
      BY DEF InBlock
    <3> HIDE DEF p
    <3> QED
      BY <1>1, <3>1 DEF InBlock
  <2>2. p.Offset + k \in Allocation(p.Segment)
    BY <2>1, OffsetInBlock
  <2>3. DOMAIN m = Segment /\ DOMAIN m[p.Segment] = Allocation(p.Segment)
    BY <1>1 DEF IsContents
  <2> HIDE DEF p
  <2>4. /\ p.Offset + k \in p.Offset .. p.Offset + 4 - 1
        /\ (p.Offset + k) - p.Offset = k
    BY <1>1
  <2>5. new[p.Segment][p.Offset + k] = ByteOf(Data, k)
    BY <1>1, <2>2, <2>3, <2>4 DEF StoreBytes
  <2> QED
    BY <2>1, <2>5 DEF LoadByte
<1> HIDE DEF p, new
<1>3. /\ LoadByte(new, p, 0, u) = ByteOf(Data, 0)
      /\ LoadByte(new, p, 1, u) = ByteOf(Data, 1)
      /\ LoadByte(new, p, 2, u) = ByteOf(Data, 2)
      /\ LoadByte(new, p, 3, u) = ByteOf(Data, 3)
  BY <1>2
<1>4. read32(new, a, u) = Data
  BY <1>3, WordDigits DEF read32, p
<1> QED
  BY <1>4 DEF write32, new, p
=============================================================================
