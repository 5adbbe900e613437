------------------------------- MODULE Memory -------------------------------
(***************************************************************************)
(* The guest memory of the translator: an array of segments, each a block  *)
(* of host memory that shows at a guest address, and the six accessors     *)
(* that translated code and the translator itself go through.              *)
(*                                                                         *)
(* Sizes are scaled.  A byte has Byte values (256 in the code), a uint32_t *)
(* is four bytes and so has M == Byte^4 values, and every address computed *)
(* in the code as a uint32_t is computed here modulo M.                    *)
(*                                                                         *)
(* The layout never changes once the ELF file is loaded, so it is a        *)
(* constant; what the segments hold is passed to the operators as m, with  *)
(* m[I][o] the byte at offset o of the host block of segment I.            *)
(***************************************************************************)
EXTENDS Integers, Sequences

CONSTANTS
  Byte,        \* how many values a byte takes
  SegmentData  \* the segments, in the order mapAddress tries them

M == Byte * Byte * Byte * Byte
Val == 0 .. M - 1
ByteVal == 0 .. Byte - 1

SegmentManager == [GuestAddress : Val, MemorySize : Val]
Segment == 1 .. Len(SegmentData)

\* Byte is a power of two in the code; that it is even is all that matters.
ASSUME ByteAssumption == Byte \in Nat /\ Byte >= 2 /\ Byte % 2 = 0
ASSUME SegmentAssumption == SegmentData \in Seq(SegmentManager)

\* The host offsets that operator new gave segment I.
Allocation(I) == 0 .. SegmentData[I].MemorySize - 1

\* What the segments can hold.
IsContents(m) ==
  /\ DOMAIN m = Segment
  /\ \A I \in Segment : m[I] \in [Allocation(I) -> ByteVal]

-----------------------------------------------------------------------------
(***************************************************************************)
(* mapAddress: the first segment whose range holds the guest address.  The *)
(* end of the range is a uint32_t and wraps.                               *)
(***************************************************************************)
\* Mutant: the range is taken to include its end.
CoversItsEnd(I, Addr) ==
  /\ SegmentData[I].GuestAddress <= Addr
  /\ Addr <= (SegmentData[I].GuestAddress + SegmentData[I].MemorySize) % M

Covers(I, Addr) ==
  /\ SegmentData[I].GuestAddress <= Addr
  /\ Addr < (SegmentData[I].GuestAddress + SegmentData[I].MemorySize) % M

nullptr == [Segment |-> 0, Offset |-> 0]

mapAddress(Addr) ==
  LET Hits  == {I \in Segment : Covers(I, Addr)}
      First == CHOOSE I \in Hits : \A J \in Hits : I <= J
  IN  IF Hits = {}
      THEN nullptr
      ELSE [Segment |-> First, Offset |-> Addr - SegmentData[First].GuestAddress]

\* The access of n bytes through host pointer p stays in the block p points into.
InBlock(p, n) == p.Offset + n <= SegmentData[p.Segment].MemorySize

-----------------------------------------------------------------------------
(***************************************************************************)
(* Loads and stores through a host pointer, little-endian.  Only the first *)
(* byte of an access is checked against the segment, so an access may run  *)
(* past the host block: u stands for what the host heap holds there.       *)
(***************************************************************************)
Weight == <<1, Byte, Byte * Byte, Byte * Byte * Byte>>

\* Mutant: a narrow store is not truncated.
ByteOfUntruncated(v, k) == v \div Weight[k + 1]

ByteOf(v, k) == (v \div Weight[k + 1]) % Byte

LoadByte(m, p, k, u) ==
  IF InBlock(p, k + 1) THEN m[p.Segment][p.Offset + k] ELSE ByteOf(u, k)

StoreBytes(m, p, n, Data) ==
  [m EXCEPT ![p.Segment] =
     [o \in DOMAIN m[p.Segment] |->
        IF o \in p.Offset .. p.Offset + n - 1
        THEN ByteOf(Data, o - p.Offset)
        ELSE m[p.Segment][o]]]

read8(m, Addr, u) == LoadByte(m, mapAddress(Addr), 0, u)

read16(m, Addr, u) ==
  LET p == mapAddress(Addr)
  IN  LoadByte(m, p, 0, u) + Byte * LoadByte(m, p, 1, u)

read32(m, Addr, u) ==
  LET p == mapAddress(Addr)
  IN  LoadByte(m, p, 0, u) + Byte * (LoadByte(m, p, 1, u)
        + Byte * (LoadByte(m, p, 2, u) + Byte * LoadByte(m, p, 3, u)))

write8(m, Addr, Data)  == StoreBytes(m, mapAddress(Addr), 1, Data)
write16(m, Addr, Data) == StoreBytes(m, mapAddress(Addr), 2, Data)
write32(m, Addr, Data) == StoreBytes(m, mapAddress(Addr), 4, Data)
=============================================================================
