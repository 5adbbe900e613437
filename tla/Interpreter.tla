----------------------------- MODULE Interpreter -----------------------------
(***************************************************************************)
(* What the translator promises the guest: to be a machine that fetches    *)
(* the instruction at the PC from memory as it is now, carries it out, and *)
(* goes on.  There are no blocks, no cache and no JIT.                     *)
(*                                                                         *)
(* Two things are left open.  Bytes that the program has stored may or may *)
(* not be seen by a fetch, and not all instructions are implemented: once  *)
(* the program runs either, anything may follow.  And the host may stop    *)
(* the machine where HostFails allows it.                                  *)
(*                                                                         *)
(* The machine is the same for every instruction set, so what it fetches   *)
(* and what an instruction does are parameters.                            *)
(***************************************************************************)
CONSTANTS
  Starts,           \* the states the machine may start in
  CodeBytes(_),     \* the addresses of the instruction at the PC of a state
  Found(_),         \* the instructions that these bytes may be
  Implemented(_, _), \* whether an instruction is implemented, in a state
  Fails(_, _),      \* whether an instruction fails in a state
  Effects(_, _),    \* the states an instruction may lead to from a state
  Writes(_, _),     \* the addresses an instruction stores to in a state
  HostFails(_)      \* whether the host may stop the machine in a state

VARIABLES
  cpu,     \* the state of the guest
  stored,  \* the addresses the program has stored to
  status   \* "running", "stopped" or "lost"

vars == <<cpu, stored, status>>

Patched == CodeBytes(cpu) \cap stored # {}

Init ==
  /\ cpu \in Starts
  /\ stored = {}
  /\ status = "running"

Step ==
  /\ status = "running"
  /\ ~Patched
  /\ \E i \in Found(cpu) :
       /\ Implemented(i, cpu)
       /\ ~Fails(i, cpu)
       /\ cpu' \in Effects(i, cpu)
       /\ stored' = stored \cup Writes(i, cpu)
  /\ status' = status

Fault ==
  /\ status = "running"
  /\ ~Patched
  /\ \E i \in Found(cpu) : Fails(i, cpu)
  /\ status' = "stopped"
  /\ UNCHANGED <<cpu, stored>>

HostFault ==
  /\ status = "running"
  /\ HostFails(cpu)
  /\ status' = "stopped"
  /\ UNCHANGED <<cpu, stored>>

GetLost ==
  /\ status = "running"
  /\ Patched \/ \E i \in Found(cpu) : ~Implemented(i, cpu)
  /\ status' = "lost"

Lost ==
  /\ status = "lost"
  /\ status' = "lost"

Next == Step \/ Fault \/ HostFault \/ GetLost \/ Lost

Spec == Init /\ [][Next]_vars
=============================================================================
