----------------------------- MODULE FlatMemory -----------------------------
(***************************************************************************)
(* What the segmented memory promises its users: a flat store of bytes, on *)
(* the guest addresses that are mapped, cut into regions.  An access is    *)
(* exact on the bytes that are in the region of its first byte.  Beyond    *)
(* the region a load returns anything and a store is lost, or fails; no    *)
(* access writes a byte outside its own range.  An access to an address    *)
(* that is not mapped fails.  Nothing follows a failure.                   *)
(***************************************************************************)
EXTENDS Integers

CONSTANTS
  Byte,    \* how many values a byte takes
  Region   \* the region of each address; 0 if it is not mapped

VARIABLES
  flat,    \* the byte at each mapped address
  last     \* the last access: [op, Addr, Size, Data]

vars == <<flat, last>>

Address == DOMAIN Region
Mapped  == {a \in Address : Region[a] # 0}
Bytes(a, n) == a .. a + n - 1

\* Address b is in the region of address a.
Near(a, b)  == b \in Address /\ Region[b] = Region[a]
Whole(a, n) == \A b \in Bytes(a, n) : Near(a, b)

Power == <<1, Byte, Byte * Byte, Byte * Byte * Byte>>
Place(v, k) == (v \div Power[k + 1]) % Byte

Init ==
  /\ flat \in [Mapped -> 0 .. Byte - 1]
  /\ last.op = "none"

Load(a, n) ==
  /\ last'.op = "read" /\ last'.Addr = a /\ last'.Size = n
  /\ a \in Mapped
  /\ \A b \in Bytes(a, n) : Near(a, b) => Place(last'.Data, b - a) = flat[b]
  /\ \A k \in n .. 3 : Place(last'.Data, k) = 0
  /\ flat' = flat

Store(a, n) ==
  /\ last'.op = "write" /\ last'.Addr = a /\ last'.Size = n
  /\ a \in Mapped
  /\ flat' = [b \in Mapped |-> IF b \in Bytes(a, n) /\ Near(a, b)
                               THEN Place(last'.Data, b - a)
                               ELSE flat[b]]

Fail(a, n) ==
  /\ last'.op = "undefined" /\ last'.Addr = a /\ last'.Size = n
  /\ a \notin Mapped \/ ~Whole(a, n)
  /\ flat' = flat

Next ==
  /\ last.op # "undefined"
  /\ \E a \in Address, n \in {1, 2, 4} : Load(a, n) \/ Store(a, n) \/ Fail(a, n)

Spec == Init /\ [][Next]_vars
=============================================================================
