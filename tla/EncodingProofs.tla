--------------------------- MODULE EncodingProofs ---------------------------
(***************************************************************************)
(* decode() and the extraction of operands, for every instruction word and *)
(* for every value of an immediate.                                        *)
(*                                                                         *)
(* Bounds are written as inequalities where they are large: the provers    *)
(* take a membership in an interval between two numbers apart.             *)
(***************************************************************************)
EXTENDS MCEncoding, TLAPS

USE DEF Fits, opcode, funct3, funct7

-----------------------------------------------------------------------------
(***************************************************************************)
(* The immediates.  An offset is put together again from the quotients of  *)
(* the value by the units of the fields, one digit at a time.              *)
(***************************************************************************)
\* The value of 12 bits in the I and S formats.
LEMMA RoundTripI ==
  ASSUME NEW v \in Int, Fits(v, 2048)
  PROVE  ImmI(FormatI(v)) = v /\ ImmS(FormatS(v)) = v
<1>1. FormatI(v).f7 = (v \div 32) % 128 /\ FormatI(v).rs2 = v % 32
  BY DEF FormatI, Fields, Bits
<1>2. FormatS(v).f7 = (v \div 32) % 128 /\ FormatS(v).rd = v % 32
  BY DEF FormatS, Fields, Bits
<1>3. SignExtend(((v \div 32) % 128) * 32 + (v % 32), 4096) = v
  BY DEF SignExtend
<1> QED
  BY <1>1, <1>2, <1>3 DEF ImmI, ImmS

\* The even value of 13 bits in the B format.
LEMMA RoundTripB ==
  ASSUME NEW v \in Int, Fits(v, 4096), v % 2 = 0
  PROVE  ImmB(FormatB(v)) = v
BY SMTT(60) DEF ImmB, FormatB, Fields, Bits, SignExtend

\* The 20 high bits of the U format.
LEMMA RoundTripU ==
  ASSUME NEW v \in Int, Fits(v, 524288)
  PROVE  ImmU(FormatU(v)) = v * 4096
<1>1. /\ FormatU(v).f7 = (v \div 8192) % 128
      /\ FormatU(v).rs2 = (v \div 256) % 32
      /\ FormatU(v).rs1 = (v \div 8) % 32
      /\ FormatU(v).f3 = v % 8
  BY SMT DEF FormatU, Fields, Bits
<1> DEFINE a == v \div 8
           b == v \div 256
           c == v \div 8192
<1>2. v = 8 * a + (v % 8) /\ a \in Int
  BY SMT
<1>3. a = 32 * b + (a % 32) /\ b \in Int
  BY SMT
<1>4. b = 32 * c + (b % 32) /\ c \in Int
  BY SMT
<1>5. c % 128 = (IF v >= 0 THEN c ELSE c + 128) /\ (v % 8) \in Int
  BY SMT
<1>6. ImmU(FormatU(v)) = SignExtend((c % 128) * 8192 + (b % 32) * 256 + (a % 32) * 8 + (v % 8), 1048576) * 4096
  BY <1>1, SMT DEF ImmU
<1> DEFINE x == (c % 128) * 8192 + (b % 32) * 256 + (a % 32) * 8 + (v % 8)
<1>7. x = IF v >= 0 THEN v ELSE v + 1048576
  <2> HIDE DEF a, b, c
  <2> QED
    BY <1>2, <1>3, <1>4, <1>5, SMT
<1> HIDE DEF x
<1>8. SignExtend(x, 1048576) = v
  BY <1>7, SMT DEF SignExtend
<1> QED
  BY <1>6, <1>8, SMT DEF x

\* The whole range of JAL offsets: the sign is taken from bit 19, and a sign in
\* bit 20 is lost with it.
LEMMA RoundTripJ ==
  ASSUME NEW v \in Int, Fits(v, 1048576), v % 2 = 0
  PROVE  ImmJ(FormatJ(v)) = IF Fits(v, 524288) THEN v
                            ELSE IF v >= 0 THEN v - 1048576 ELSE v + 2097152
<1> DEFINE a == v \div 2
           b == v \div 32
           c == v \div 2048
           d == v \div 4096
           e == v \div 32768
           f == v \div 1048576
<1>1. /\ FormatJ(v).f7 = 64 * (f % 2) + (b % 64)
      /\ FormatJ(v).rs2 = 2 * (a % 16) + (c % 2)
      /\ FormatJ(v).rs1 = e % 32
      /\ FormatJ(v).f3 = d % 8
  BY SMT DEF FormatJ, Fields, Bits
<1>2. /\ v = 2 * a /\ a = 16 * b + (a % 16) /\ b = 64 * c + (b % 64)
      /\ c = 2 * d + (c % 2) /\ d = 8 * e + (d % 8) /\ e = 32 * f + (e % 32)
      /\ f = (IF v >= 0 THEN 0 ELSE -1)
  BY SMT
<1>3. /\ a \in Int /\ b \in Int /\ c \in Int /\ d \in Int /\ e \in Int /\ f \in Int
      /\ a % 16 \in 0 .. 15 /\ b % 64 \in 0 .. 63 /\ c % 2 \in 0 .. 1
      /\ d % 8 \in 0 .. 7 /\ e % 32 \in 0 .. 31
  BY SMT
<1> DEFINE w == FormatJ(v)
           Offset == (w.f7 \div 64) * 1048576 + (w.rs1 * 8 + w.f3) * 4096
                       + (w.rs2 % 2) * 2048 + ((w.f7 % 64) * 16 + (w.rs2 \div 2)) * 2
<1>4. w.f7 \div 64 = f % 2 /\ w.f7 % 64 = b % 64 /\ w.rs2 \div 2 = a % 16 /\ w.rs2 % 2 = c % 2
  <2> HIDE DEF a, b, c, d, e, f, w
  <2> QED
    BY <1>1, <1>3, SMT DEF w
<1>5. Offset = IF v >= 0 THEN v ELSE v + 2097152
  <2> HIDE DEF a, b, c, d, e, f, w
  <2> QED
    BY <1>1, <1>2, <1>3, <1>4, SMT DEF w
<1>6. ImmJ(w) = IF (Offset \div 524288) % 2 = 1 THEN (Offset % 1048576) - 1048576 ELSE Offset
  BY SMT DEF ImmJ
<1> HIDE DEF Offset, w
<1> QED
  BY <1>5, <1>6, SMT DEF w

-----------------------------------------------------------------------------
(***************************************************************************)
(* decode().                                                               *)
(***************************************************************************)
\* The switch over the opcode.
LEMMA DecodeTables ==
  ASSUME NEW w \in Word
  PROVE  /\ w.op = 55  => decode(w) = "LUI"
         /\ w.op = 23  => decode(w) = "AUIPC"
         /\ w.op = 111 => decode(w) = "JAL"
         /\ w.op = 103 => decode(w) = (IF w.f3 = 0 THEN "JALR" ELSE "UNKNOWN")
         /\ w.op = 3   => decode(w) = LoadKind[w.f3 + 1]
         /\ w.op = 19  => decode(w) = (IF w.f3 \in {1, 5} THEN ImmShiftKind(w.f3, w.f7)
                                       ELSE ImmKind[w.f3 + 1])
         /\ w.op = 99  => decode(w) = BranchKind[w.f3 + 1]
         /\ w.op = 35  => decode(w) = StoreKind[w.f3 + 1]
         /\ w.op = 51  => decode(w) = (IF w.f3 \in {0, 5} THEN RegKind7(w.f3, w.f7)
                                       ELSE RegKind[w.f3 + 1])
         /\ w.op = 15  => decode(w) = (IF w.f3 = 0 THEN FenceKind(w) ELSE "UNKNOWN")
         /\ w.op = 115 => decode(w) = (IF w.f3 = 0 THEN SystemKind(w) ELSE "UNKNOWN")
         /\ w.op \notin {55, 23, 111, 103, 3, 19, 99, 35, 51, 15, 115} => decode(w) = "UNKNOWN"
BY DEF decode

LEMMA WordFields ==
  ASSUME NEW w \in Word
  PROVE  /\ w.op \in 0 .. 127 /\ w.rd \in 0 .. 31 /\ w.f3 \in 0 .. 7
         /\ w.rs1 \in 0 .. 31 /\ w.rs2 \in 0 .. 31 /\ w.f7 \in 0 .. 127
BY DEF Word

\* FENCE.TSO is one combination of fm, pred and succ, and PAUSE none: the word
\* that is compared with 0x0000100F has its low bits cleared.
LEMMA FenceDecodes ==
  ASSUME NEW w \in Word
  PROVE  FenceKind(w) = IF w.f7 = 65 /\ w.rs2 = 19 THEN "FENCETSO" ELSE "FENCE"
<1>1. (w.f7 \div 8 = 8 /\ (w.f7 % 8) * 2 + (w.rs2 \div 16) = 3 /\ w.rs2 % 16 = 3)
        <=> (w.f7 = 65 /\ w.rs2 = 19)
  BY WordFields
<1> QED
  BY <1>1 DEF FenceKind

\* A row of the listing that matches a word is what it decodes to, FENCE.TSO
\* apart.
LEMMA RowDecodes ==
  ASSUME NEW w \in Word, NEW row \in Listing, Matches(row, w), ~(w.op = 15 /\ w.f7 = 65 /\ w.rs2 = 19)
  PROVE  decode(w) = row[1]
BY DecodeTables, FenceDecodes, WordFields DEF Listing, Matches, Free, LoadKind, StoreKind, BranchKind, ImmKind, ImmShiftKind, RegKind, RegKind7

\* So is a word that the listing gives in full.
LEMMA ExactDecodes ==
  ASSUME NEW w \in Word, NEW e \in Exact, e[1] = w, e[2] # "PAUSE"
  PROVE  decode(w) = e[2]
BY DecodeTables, FenceDecodes, WordFields DEF Exact, SystemKind

LEMMA FenceTSOIsExact ==
  ASSUME NEW w \in Word, w.op = 15, w.f3 = 0, w.f7 = 65, w.rs2 = 19
  PROVE  <<w, "FENCETSO">> \in Exact
BY DEF Word, Exact

\* An exact word goes before a row, and any row that matches will do: which of
\* them CHOOSE takes makes no difference.
LEMMA Decoding ==
  ASSUME NEW w \in Word
  PROVE  Expected(w) \notin {"UNKNOWN", "PAUSE"} => decode(w) = Expected(w)
<1> DEFINE exact == {e \in Exact : e[1] = w}
           rows  == {row \in Listing : Matches(row, w)}
<1>1. CASE exact # {}
  <2>1. PICK e \in exact : Expected(w) = e[2]
    BY <1>1 DEF Expected
  <2> QED
    BY <2>1, ExactDecodes
<1>2. CASE exact = {} /\ rows # {}
  <2>1. PICK row \in rows : Expected(w) = row[1]
    BY <1>2 DEF Expected
  <2>2. ~(w.op = 15 /\ w.f3 = 0 /\ w.f7 = 65 /\ w.rs2 = 19)
    <3>1. ASSUME w.op = 15, w.f3 = 0, w.f7 = 65, w.rs2 = 19
          PROVE  <<w, "FENCETSO">> \in exact
      BY <3>1, FenceTSOIsExact
    <3> QED
      BY <1>2, <3>1
  <2>3. w.op = 15 => w.f3 = 0
    BY <2>1 DEF Listing, Matches, Free
  <2> QED
    BY <2>1, <2>2, <2>3, RowDecodes
<1>3. CASE exact = {} /\ rows = {}
  BY <1>3 DEF Expected
<1> QED
  BY <1>1, <1>2, <1>3

\* Contrapositive: a word that decodes to an instruction matches a row.
LEMMA Refusing ==
  ASSUME NEW w \in Word, Expected(w) = "UNKNOWN"
  PROVE  \/ decode(w) = "UNKNOWN"
         \/ decode(w) \in {"SLL", "SLT", "SLTU", "XOR", "OR", "AND"} /\ funct7(w) # 0
         \/ decode(w) \in {"ECALL", "EBREAK"} /\ <<w.rd, w.rs1>> # <<0, 0>>
<1> DEFINE exact == {e \in Exact : e[1] = w}
           rows  == {row \in Listing : Matches(row, w)}
<1>1. exact = {} /\ rows = {}
  <2>1. \A e \in Exact : e[2] # "UNKNOWN"
    BY DEF Exact
  <2>2. \A row \in Listing : row[1] # "UNKNOWN"
    BY DEF Listing
  <2> QED
    BY <2>1, <2>2 DEF Expected
<1>2. \A row \in Listing : ~Matches(row, w)
  BY <1>1
<1>3. \A e \in Exact : e[1] # w
  BY <1>1
<1>4. CASE w.op \in {55, 23, 111, 103}
  BY <1>2, <1>4, DecodeTables DEF Listing, Matches, Free
<1>5. CASE w.op = 3
  BY <1>2, <1>5, DecodeTables, WordFields DEF Listing, Matches, Free, LoadKind
<1>6. CASE w.op = 19
  BY <1>2, <1>6, DecodeTables, WordFields DEF Listing, Matches, Free, ImmKind, ImmShiftKind
<1>7. CASE w.op = 99
  BY <1>2, <1>7, DecodeTables, WordFields DEF Listing, Matches, Free, BranchKind
<1>8. CASE w.op = 35
  BY <1>2, <1>8, DecodeTables, WordFields DEF Listing, Matches, Free, StoreKind
<1>9. CASE w.op = 51
  BY <1>2, <1>9, DecodeTables, WordFields DEF Listing, Matches, Free, RegKind, RegKind7
<1>10. CASE w.op = 15
  BY <1>2, <1>10, DecodeTables, WordFields DEF Listing, Matches, Free
<1>11. CASE w.op = 115
  <2>1. ASSUME w.f3 = 0, w.rd = 0, w.rs1 = 0, w.f7 = 0, w.rs2 \in {0, 1}
        PROVE FALSE
    <3>1. w = [op |-> 115, f3 |-> 0, rd |-> 0, rs1 |-> 0, rs2 |-> w.rs2, f7 |-> 0]
      BY <1>11, <2>1 DEF Word
    <3>2. <<w, "ECALL">> \in Exact \/ <<w, "EBREAK">> \in Exact
      BY <2>1, <3>1 DEF Exact
    <3> QED
      BY <1>3, <3>2
  <2> QED
    BY <1>11, <2>1, DecodeTables, WordFields DEF SystemKind
<1> QED
  BY <1>4, <1>5, <1>6, <1>7, <1>8, <1>9, <1>10, <1>11, DecodeTables

\* Each entry of the tables is a kind of instruction that generate() knows.
LEMMA KindOfWord ==
  ASSUME NEW w \in Word
  PROVE  decode(w) \in Generate!Instr
<1>1. CASE w.op \in {55, 23, 111, 103}
  BY <1>1, DecodeTables DEF Generate!Instr, Generate!NotAdvancing
<1>2. CASE w.op \in {3, 35}
  BY <1>2, DecodeTables, WordFields DEF Generate!Instr, Generate!NotAdvancing, Generate!Loads, Generate!Stores, LoadKind, StoreKind
<1>3. CASE w.op = 99
  BY <1>3, DecodeTables, WordFields DEF Generate!Instr, Generate!NotAdvancing, Generate!Branches, BranchKind
<1>4. CASE w.op = 19
  BY <1>4, DecodeTables, WordFields
     DEF Generate!Instr, Generate!NotAdvancing, Generate!ImmShifts, Generate!ImmArith, ImmKind, ImmShiftKind
<1>5. CASE w.op = 51
  BY <1>5, DecodeTables, WordFields
     DEF Generate!Instr, Generate!NotAdvancing, Generate!RegShifts, Generate!RegArith, RegKind, RegKind7
<1>6. CASE w.op = 15
  BY <1>6, DecodeTables, FenceDecodes DEF Generate!Instr, Generate!NotAdvancing, Generate!NoEffect
<1>7. CASE w.op = 115
  BY <1>7, DecodeTables, WordFields DEF Generate!Instr, Generate!NotAdvancing, Generate!NoEffect, SystemKind
<1>8. CASE w.op \notin {55, 23, 111, 103, 3, 19, 99, 35, 51, 15, 115}
  BY <1>8, DecodeTables DEF Generate!Instr, Generate!NotAdvancing
<1> QED
  BY <1>1, <1>2, <1>3, <1>4, <1>5, <1>6, <1>7, <1>8

\* Branch and JAL offsets are even, being twice an integer.
LEMMA ImmediateTypes ==
  ASSUME NEW w \in Word
  PROVE  /\ ImmI(w) \in Int /\ ImmS(w) \in Int /\ ImmU(w) \in Int
         /\ ImmB(w) \in Int /\ ImmB(w) % 2 = 0
         /\ ImmJ(w) \in Int /\ ImmJ(w) % 2 = 0
         /\ Shamt(w) \in 0 .. 31
<1>1. /\ w.rd \in Int /\ w.f3 \in Int /\ w.rs1 \in Int /\ w.rs2 \in Int /\ w.f7 \in Int
      /\ w.rd >= 0 /\ w.rd < 32
  BY WordFields
<1>2. \A v, k \in Int : SignExtend(v, k) \in Int
  BY DEF SignExtend
<1>3. ImmI(w) \in Int /\ ImmS(w) \in Int
  <2>1. w.f7 * 32 + w.rs2 \in Int /\ w.f7 * 32 + w.rd \in Int
    BY <1>1
  <2>2. /\ SignExtend(w.f7 * 32 + w.rs2, 4096) \in Int
        /\ SignExtend(w.f7 * 32 + w.rd, 4096) \in Int
    BY <2>1, SMT DEF SignExtend
  <2> QED
    BY <2>2 DEF ImmI, ImmS
<1>4. ImmU(w) \in Int
  <2>1. w.f7 * 8192 + w.rs2 * 256 + w.rs1 * 8 + w.f3 \in Int
    BY <1>1, SMT
  <2>2. SignExtend(w.f7 * 8192 + w.rs2 * 256 + w.rs1 * 8 + w.f3, 1048576) \in Int
    BY <1>2, <2>1, SMT
  <2> QED
    BY <2>2, SMT DEF ImmU
<1>5. ImmB(w) \in Int /\ ImmB(w) % 2 = 0
  <2> DEFINE half == (w.f7 \div 64) * 2048 + (w.rd % 2) * 1024 + (w.f7 % 64) * 16 + (w.rd \div 2)
  <2>1. half \in Int
    BY <1>1
  <2>2. ImmB(w) = SignExtend(2 * half, 8192)
    BY <1>1, SMT DEF ImmB
  <2> HIDE DEF half
  <2> QED
    BY <2>1, <2>2, SMT DEF SignExtend
<1>6. ImmJ(w) \in Int /\ ImmJ(w) % 2 = 0
  <2> DEFINE half == (w.f7 \div 64) * 524288 + (w.rs1 * 8 + w.f3) * 2048
                       + (w.rs2 % 2) * 1024 + (w.f7 % 64) * 16 + (w.rs2 \div 2)
  <2>1. half \in Int
    BY <1>1, SMT
  <2>2. ImmJ(w) = IF ((2 * half) \div 524288) % 2 = 1 THEN ((2 * half) % 1048576) - 1048576 ELSE 2 * half
    BY <1>1, SMT DEF ImmJ
  <2> HIDE DEF half
  <2> QED
    BY <2>1, <2>2, SMT
<1> QED
  BY <1>3, <1>4, <1>5, <1>6, WordFields DEF Shamt

LEMMA OperandsOfWord ==
  ASSUME NEW w \in Word
  PROVE  Operands(w) \in Generate!Instruction
<1>1. /\ Imm(w) \in Int
      /\ decode(w) \in Generate!ImmShifts => Imm(w) \in 0 .. 31
      /\ decode(w) \in Generate!Branches \cup {"JAL"} => Imm(w) % 2 = 0
  BY ImmediateTypes DEF Imm, BranchWords, Generate!ImmShifts, Generate!Branches
<1>2. Operands(w) \in [op : Generate!Instr, rd : Generate!Reg, rs1 : Generate!Reg, rs2 : Generate!Reg, imm : Int]
  BY <1>1, KindOfWord, WordFields DEF Operands, Generate!Reg
<1>3. Generate!WellFormed(Operands(w))
  BY <1>1 DEF Generate!WellFormed, Operands
<1> QED
  BY <1>2, <1>3 DEF Generate!Instruction

-----------------------------------------------------------------------------
(***************************************************************************)
(* The properties of MCEncoding, for each of the 2^32 words and for every  *)
(* immediate, of which the run tries some.                                 *)
(***************************************************************************)
\* decode() returns the instruction of every word of the RV32I listing.
THEOREM EveryListedWordDecodes == ASSUME word \in Word PROVE DecodesListing
BY Decoding DEF DecodesListing

\* decode() returns UNKNOWN for every other word, save for the ones that
\* Lenient names, where it does not look at a field that the listing fixes.
THEOREM EveryOtherWordRefused == ASSUME word \in Word PROVE RefusesTheRest
BY Refusing DEF RefusesTheRest, Lenient

\* build_ir gets every I, S, B and U immediate back as it was assembled.
THEOREM ImmediatesAsAssembled == ASSUME n \in Int PROVE ImmediateRoundTrip
BY RoundTripI, RoundTripB, RoundTripU DEF ImmediateRoundTrip

\* JALInstruction gets every offset within 512 KiB back as it was assembled.
THEOREM NearJumpsAsAssembled == ASSUME n \in Int PROVE NearJumps
<1>1. Fits(n, 524288) => Fits(n, 1048576)
  BY SMT
<1> QED
  BY <1>1, RoundTripJ DEF NearJumps

\* It gets no offset beyond that right: a jump forwards comes out 1 MiB lower,
\* backwards, and a jump backwards 2 MiB higher, forwards.
THEOREM FarJumpsGoAstray ==
  ASSUME n \in Int, Fits(n, 1048576), ~Fits(n, 524288), n % 2 = 0
  PROVE  ImmJ(FormatJ(n)) = IF n >= 0 THEN n - 1048576 ELSE n + 2097152
BY RoundTripJ

\* The operands of any word are ones that generate() is made for, which is
\* what Translator.tla assumes of Decoded.
THEOREM EveryWordWellFormed == ASSUME word \in Word PROVE OperandsWellFormed
BY OperandsOfWord DEF OperandsWellFormed

\* In the states of the run, all of these hold.
THEOREM EncodingCorrect ==
  Spec => [](DecodesListing /\ RefusesTheRest /\ ImmediateRoundTrip /\ NearJumps /\ OperandsWellFormed)
<1> DEFINE Inv == word \in Word /\ n \in Int
<1>1. Init => Inv
  <2>1. word \in Words => word \in Word
    BY DEF Words, Word
  <2>2. Fields(0, 0, 0, 0, 0) \in Word
    BY DEF Fields, Word
  <2>3. n \in -4096 .. 4095 => n \in Int
    OBVIOUS
  <2>4. n \in Values => n \in Int
    BY DEF Values
  <2> QED
    BY <2>1, <2>2, <2>3, <2>4 DEF Init
<1>2. Inv /\ [Next]_<<word, n>> => Inv'
  BY DEF Next
<1>3. Inv => DecodesListing /\ RefusesTheRest /\ ImmediateRoundTrip /\ NearJumps /\ OperandsWellFormed
  BY EveryListedWordDecodes, EveryOtherWordRefused, ImmediatesAsAssembled,
     NearJumpsAsAssembled, EveryWordWellFormed
<1> QED
  BY <1>1, <1>2, <1>3, PTL DEF Spec
====
