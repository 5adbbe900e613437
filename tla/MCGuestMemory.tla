---------------------------- MODULE MCGuestMemory ----------------------------
(***************************************************************************)
(* Sixteen guest addresses and bytes of two values.  The first two         *)
(* segments overlap, the third touches the second, the fourth would end at *)
(* 2^32 (so that its end wraps to 0 and it covers nothing), and the fifth  *)
(* ends one byte below that, as the stack segment does.                    *)
(***************************************************************************)
EXTENDS GuestMemory

MCSegmentData ==
  << [GuestAddress |-> 2,  MemorySize |-> 4],
     [GuestAddress |-> 4,  MemorySize |-> 3],
     [GuestAddress |-> 7,  MemorySize |-> 2],
     [GuestAddress |-> 14, MemorySize |-> 2],
     [GuestAddress |-> 13, MemorySize |-> 2] >>

\* The bytes of the second segment that the first one hides are not zero.
MCImages ==
  {[I \in Segment |-> [o \in Allocation(I) |-> IF I = 2 /\ o \in {0, 1} THEN 1 ELSE 0]]}

\* Nothing depends on the last access except whether it was undefined.
MCView == <<Memory, Defined>>

MCGarbage == {0, M - 1}
=============================================================================
