----------------------------- MODULE MCEncoding -----------------------------
(***************************************************************************)
(* decode() and the immediates against the tables of the RV32I base        *)
(* instruction set: its opcode listing, and its instruction formats        *)
(* written as an assembler.  The variable ranges over instruction words,   *)
(* and n over the values of an immediate.                                  *)
(***************************************************************************)
EXTENDS Encoding

VARIABLES word, n

\* What generate() expects of the operands it is given, with the parameters
\* of the code.
Generate == INSTANCE Instruction WITH
  Byte <- 256, SegmentData <- <<>>, NumRegs <- 32, XLEN <- 32,
  AndByte <- <<>>, OrByte <- <<>>, XorByte <- <<>>

-----------------------------------------------------------------------------
(***************************************************************************)
(* The listing: <<name, op, f3, f7>>, with Free where the field is free.    *)
(***************************************************************************)
Free == -1
Listing == {
  <<"LUI", 55, Free, Free>>, <<"AUIPC", 23, Free, Free>>, <<"JAL", 111, Free, Free>>,
  <<"JALR", 103, 0, Free>>,
  <<"BEQ", 99, 0, Free>>, <<"BNE", 99, 1, Free>>, <<"BLT", 99, 4, Free>>,
  <<"BGE", 99, 5, Free>>, <<"BLTU", 99, 6, Free>>, <<"BGEU", 99, 7, Free>>,
  <<"LB", 3, 0, Free>>, <<"LH", 3, 1, Free>>, <<"LW", 3, 2, Free>>,
  <<"LBU", 3, 4, Free>>, <<"LHU", 3, 5, Free>>,
  <<"SB", 35, 0, Free>>, <<"SH", 35, 1, Free>>, <<"SW", 35, 2, Free>>,
  <<"ADDI", 19, 0, Free>>, <<"SLTI", 19, 2, Free>>, <<"SLTIU", 19, 3, Free>>,
  <<"XORI", 19, 4, Free>>, <<"ORI", 19, 6, Free>>, <<"ANDI", 19, 7, Free>>,
  <<"SLLI", 19, 1, 0>>, <<"SRLI", 19, 5, 0>>, <<"SRAI", 19, 5, 32>>,
  <<"ADD", 51, 0, 0>>, <<"SUB", 51, 0, 32>>, <<"SLL", 51, 1, 0>>,
  <<"SLT", 51, 2, 0>>, <<"SLTU", 51, 3, 0>>, <<"XOR", 51, 4, 0>>,
  <<"SRL", 51, 5, 0>>, <<"SRA", 51, 5, 32>>, <<"OR", 51, 6, 0>>,
  <<"AND", 51, 7, 0>>, <<"FENCE", 15, 0, Free>> }

\* The words that the listing gives in full; FENCE.TSO ignores rd and rs1.
Exact ==
  [op : {15}, f3 : {0}, rd : 0 .. 31, rs1 : 0 .. 31, rs2 : {19}, f7 : {65}] \X {"FENCETSO"}
    \cup [op : {15}, f3 : {0}, rd : {0}, rs1 : {0}, rs2 : {16}, f7 : {0}] \X {"PAUSE"}
    \cup [op : {115}, f3 : {0}, rd : {0}, rs1 : {0}, rs2 : {0}, f7 : {0}] \X {"ECALL"}
    \cup [op : {115}, f3 : {0}, rd : {0}, rs1 : {0}, rs2 : {1}, f7 : {0}] \X {"EBREAK"}

Matches(row, w) == row[2] = w.op /\ row[3] \in {Free, w.f3} /\ row[4] \in {Free, w.f7}

Expected(w) ==
  LET exact == {e \in Exact : e[1] = w}
      rows  == {row \in Listing : Matches(row, w)}
  IN  IF exact # {} THEN (CHOOSE e \in exact : TRUE)[2]
      ELSE IF rows # {} THEN (CHOOSE row \in rows : TRUE)[1]
      ELSE "UNKNOWN"

-----------------------------------------------------------------------------
(***************************************************************************)
(* The formats: which bits of an immediate v go to which field.  The bits  *)
(* of weight unit to unit * size / 2 make a number below size.             *)
(***************************************************************************)
Bits(v, unit, size) == (v \div unit) % size

Fields(rd, f3, rs1, rs2, f7) ==
  [op |-> 0, rd |-> rd, f3 |-> f3, rs1 |-> rs1, rs2 |-> rs2, f7 |-> f7]

FormatI(v) == Fields(0, 0, 0, Bits(v, 1, 32), Bits(v, 32, 128))
FormatS(v) == Fields(Bits(v, 1, 32), 0, 0, 0, Bits(v, 32, 128))
FormatB(v) ==
  Fields(2 * Bits(v, 2, 16) + Bits(v, 2048, 2), 0, 0, 0, 64 * Bits(v, 4096, 2) + Bits(v, 32, 64))
FormatU(v) == Fields(0, Bits(v, 1, 8), Bits(v, 8, 32), Bits(v, 256, 32), Bits(v, 8192, 128))
FormatJ(v) ==
  Fields(0, Bits(v, 4096, 8), Bits(v, 32768, 32),
         2 * Bits(v, 2, 16) + Bits(v, 2048, 2), 64 * Bits(v, 1048576, 2) + Bits(v, 32, 64))

-----------------------------------------------------------------------------
(***************************************************************************)
(* The words and the values tried.                                         *)
(***************************************************************************)
\* The values of a signed field that takes 2 * half values.
Fits(v, half) == -half <= v /\ v < half

Words ==
  [op : {3, 15, 19, 23, 35, 51, 55, 99, 103, 111, 115, 0, 127},
   rd : {0, 1, 31}, f3 : 0 .. 7, rs1 : {0, 31},
   rs2 : {0, 1, 16, 19, 31}, f7 : {0, 1, 32, 64, 65, 127}]

Values == {v \in {s * 2 ^ k + d : s \in {-1, 1}, k \in 0 .. 20, d \in -3 .. 3} :
             v \in Int /\ Fits(v, 1048576)}

Init ==
  \/ word \in Words /\ n = 0
  \/ word = Fields(0, 0, 0, 0, 0) /\ n \in (-4096 .. 4095) \cup Values

Next == UNCHANGED <<word, n>>
Spec == Init /\ [][Next]_<<word, n>>

-----------------------------------------------------------------------------
\* Every word of the listing decodes to its instruction.  PAUSE is left to
\* PauseDecodes: it decodes to FENCE, of which it is a hint.
DecodesListing ==
  Expected(word) \notin {"UNKNOWN", "PAUSE"} => decode(word) = Expected(word)

\* A word outside the listing is UNKNOWN, except that funct7 is not looked at
\* for six register operations, nor rd and rs1 for ECALL and EBREAK.
Lenient ==
  \/ decode(word) \in {"SLL", "SLT", "SLTU", "XOR", "OR", "AND"} /\ funct7(word) # 0
  \/ decode(word) \in {"ECALL", "EBREAK"} /\ <<word.rd, word.rs1>> # <<0, 0>>
RefusesTheRest ==
  Expected(word) = "UNKNOWN" => decode(word) = "UNKNOWN" \/ Lenient

\* The immediate that build_ir extracts is the one that was assembled.
ImmediateRoundTrip ==
  /\ Fits(n, 2048) => ImmI(FormatI(n)) = n /\ ImmS(FormatS(n)) = n
  /\ Fits(n, 4096) /\ n % 2 = 0 => ImmB(FormatB(n)) = n
  /\ Fits(n, 524288) => ImmU(FormatU(n)) = n * 4096

\* Within 512 KiB either way a JAL offset is extracted as it was assembled.
NearJumps ==
  Fits(n, 524288) /\ n % 2 = 0 => ImmJ(FormatJ(n)) = n

\* Whatever the word, decode() and the extraction of operands hand generate()
\* only what Translator.tla assumes of Decoded: shift amounts below 32, and
\* branch and JAL offsets that keep the PC even.
OperandsWellFormed ==
  /\ word \in Word
  /\ Operands(word) \in Generate!Instruction

\* A JAL offset has bits 20 to 1, bit 31 of the word being its bit 20 and its
\* sign, and so reaches 1 MiB either way.
JumpRange ==
  Fits(n, 1048576) /\ n % 2 = 0 => ImmJ(FormatJ(n)) = n

\* The word of the PAUSE hint decodes to PAUSE.
PauseDecodes == Expected(word) = "PAUSE" => decode(word) = "PAUSE"
=============================================================================
