----------------------------- MODULE MCMachine -----------------------------
(***************************************************************************)
(* The programs of MCTranslator, compared with an interpreter and with a   *)
(* RISC-V machine.  MSpec is HSpec of Refinement with one more variable.   *)
(***************************************************************************)
EXTENDS MCTranslator, Machine
=============================================================================
