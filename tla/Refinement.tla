----------------------------- MODULE Refinement -----------------------------
(***************************************************************************)
(* The translator implements an interpreter.  Two history variables record *)
(* what the interpreter leaves open: they are changed along with the steps *)
(* of Translator and no step depends on them.                              *)
(***************************************************************************)
EXTENDS Translator

VARIABLES
  stored,  \* the guest addresses that translated code has stored to
  lost     \* whether code ran of which the interpreter says nothing

hvars == <<vars, stored, lost>>

-----------------------------------------------------------------------------
(***************************************************************************)
(* The guest as an interpreter sees it.                                    *)
(***************************************************************************)
WordAt(a) == a .. a + 3

FoundAt(m, a) ==
  IF mapAddress(a) = nullptr THEN {} ELSE {Decoded[read32(m, a, u)] : u \in Garbage}

Starts ==
  { [Registers |-> [r \in Reg |-> IF r = 2 THEN (-16) % M ELSE 0],
     PC |-> EntryPoint, Memory |-> m] : m \in Images }

PCBytes(s) == WordAt(s.PC)
FoundIn(s) == FoundAt(s.Memory, s.PC)
Advances(i) == i.op \notin NotAdvancing
Implemented(i, s) == Advances(i)
Effects(i, s) == {generate(i, s, u) : u \in Garbage}
Writes(i, s) ==
  IF i.op \in Stores THEN Address(i, s) .. Address(i, s) + Width[i.op] - 1 ELSE {}

\* Straight-line code leads from the PC to an address that is not mapped,
\* within Threshold instructions.
RunsOut(s) ==
  \E k \in 0 .. Threshold - 1 :
    /\ mapAddress((s.PC + 4 * k) % M) = nullptr
    /\ \A j \in 0 .. k - 1 :
         \E i \in FoundAt(s.Memory, (s.PC + 4 * j) % M) : i.op \notin Terminators

HostFails(s) == JITMayFail \/ RunsOut(s)

-----------------------------------------------------------------------------
(***************************************************************************)
(* The translator with its history.                                        *)
(***************************************************************************)
Patched(a) == WordAt(a) \cap stored # {}

Watch == lost' = (lost \/ Patched(State.PC) \/ ~Advances(Current))

HInit == Init /\ stored = {} /\ lost = FALSE

HExecute ==
  /\ Execute
  /\ Watch
  /\ stored' = stored \cup Writes(Current, State)

HAccessFault ==
  /\ AccessFault
  /\ Watch
  /\ UNCHANGED stored

Unwatched ==
  /\ \/ Find \/ BeginTranslate \/ TranslateInstr \/ FetchFault
     \/ AddModule \/ AddModuleFails \/ Call \/ LookupFails
     \/ Return \/ Terminated
  /\ UNCHANGED <<stored, lost>>

HNext == HExecute \/ HAccessFault \/ Unwatched

HSpec == HInit /\ [][HNext]_hvars

-----------------------------------------------------------------------------
(***************************************************************************)
(* Properties.                                                             *)
(***************************************************************************)
AddressOf(n, k) == (StartPC(n) + 4 * (k - 1)) % M

\* However long ago an instruction was translated, the code generated for it
\* is that of the word now in memory, unless the program has stored to one of
\* the bytes of that very word: the cache needs no other invalidation.
Fresh ==
  \A n \in DOMAIN JIT : \A k \in 1 .. Len(JIT[n]) :
    ~Patched(AddressOf(n, k)) => InMemory(AddressOf(n, k), JIT[n][k])

\* While nothing is lost, every instruction of the block that has run has
\* advanced the PC.
OnTrack ==
  (mode = "run" /\ ~lost) => \A k \in 1 .. frame.Index - 1 : Advances(Block[k])

HTypeOK == stored \subseteq Int /\ lost \in BOOLEAN

\* What the refinement rests on, with the inductive invariant of Translator.
HInv == HTypeOK /\ Fresh /\ OnTrack

\* The translator, with its blocks, its cache that is never invalidated, its
\* fetching ahead of the program and its failures, is indistinguishable from
\* an interpreter, until the program runs code that it has stored, or an
\* instruction for which nothing is generated.  It stops only where the
\* interpreter would, or where straight-line code ahead leaves the memory, or
\* where LLVM fails.
Guest == INSTANCE Interpreter WITH
  CodeBytes <- PCBytes, Found <- FoundIn, Fails <- Faults,
  cpu <- State,
  status <- IF lost THEN "lost" ELSE IF mode \in {"exit", "wild"} THEN "stopped" ELSE "running"
ImplementsInterpreter == Guest!Spec
=============================================================================
