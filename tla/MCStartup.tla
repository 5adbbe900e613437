----------------------------- MODULE MCStartup ------------------------------
(***************************************************************************)
(* Addresses of 8 bits and bytes of 2.  The files hold a PT_PHDR that lies *)
(* within a PT_LOAD, as in the test program; a segment that hides part of  *)
(* the next; a segment whose data is shorter, as for .bss, or absent; one  *)
(* that ends at the end of the address space; and, in a 64-bit file, sizes *)
(* and addresses that do not fit.                                          *)
(***************************************************************************)
EXTENDS Startup

\* A program header with the given flags, address, size and data.
Phdr(f, a, n, d) ==
  [flags |-> f, virtual_address |-> a, memory_size |-> n, data |-> d]

PtPhdr == Phdr(4, 18, 2, <<2, 3>>)
Text   == Phdr(5, 16, 6, <<1, 0, 2, 3, 1, 1>>)
Data   == Phdr(6, 20, 4, <<3, 2, 1, 0>>)
Bss    == Phdr(6, 40, 4, <<2>>)
AllBss == Phdr(6, 48, 2, <<>>)
Stack  == Phdr(6, 0, 0, <<>>)
Top    == Phdr(1, 252, 4, <<1, 2, 3, 1>>)
High   == Phdr(6, 224, 4, <<1, 1, 2, 2>>)
Large  == Phdr(5, 256 + 32, 256 + 3, <<1, 2, 3, 0>>)

MCFiles ==
  { [entry |-> 16,       segments |-> <<PtPhdr, Text, Stack>>],
    [entry |-> 20,       segments |-> <<Text, Data, Bss>>],
    [entry |-> 48,       segments |-> <<Data, AllBss, Text>>],
    [entry |-> 252,      segments |-> <<Top, High>>],
    [entry |-> 256 + 33, segments |-> <<Large, Text>>] }
=============================================================================
