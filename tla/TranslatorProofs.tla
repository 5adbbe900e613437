-------------------------- MODULE TranslatorProofs --------------------------
(***************************************************************************)
(* The safety properties of the main loop, for every memory layout, every  *)
(* program, every Threshold and every value an undefined result may take.  *)
(***************************************************************************)
EXTENDS Translator, InstructionProofs, FiniteSetTheorems

-----------------------------------------------------------------------------
(***************************************************************************)
(* Arithmetic modulo M.                                                    *)
(***************************************************************************)

\* Multiples of M do not count.
LEMMA ModShift ==
  ASSUME NEW q \in Int, NEW y \in Int
  PROVE  (M * q + y) % M = y % M
<1> DEFINE x == M * q + y
           d == x \div M
           e == y \div M
           k == q + e - d
<1>1. M \in Int /\ M >= 2
  BY MType
<1>2. M * q \in Int /\ x \in Int
  BY <1>1
<1>3. x = M * d + (x % M) /\ d \in Int /\ x % M \in 0 .. M - 1
  <2> HIDE DEF x
  <2> QED
    BY <1>1, <1>2
<1>4. y = M * e + (y % M) /\ e \in Int /\ y % M \in 0 .. M - 1
  BY <1>1
<1>5. M * k = (x % M) - (y % M) /\ k \in Int
  <2> HIDE DEF d, e
  <2>1. M * k = M * q + M * e - M * d /\ k \in Int
    BY <1>1, <1>3, <1>4
  <2>2. M * e \in Int /\ M * d \in Int
    BY <1>1, <1>3, <1>4
  <2>3. M * q + M * e + (y % M) = M * d + (x % M)
    <3>1. x = M * q + y
      OBVIOUS
    <3> HIDE DEF x
    <3> QED
      BY <1>2, <1>3, <1>4, <2>2, <3>1
  <2> HIDE DEF x, k
  <2> QED
    BY <1>2, <1>3, <1>4, <2>1, <2>2, <2>3
<1>6. k = 0
  <2> DEFINE r1 == x % M
             r2 == y % M
  <2>1. M * k = r1 - r2 /\ k \in Int /\ r1 \in 0 .. M - 1 /\ r2 \in 0 .. M - 1
    BY <1>3, <1>4, <1>5
  <2> HIDE DEF k, r1, r2
  <2>2. k >= 1 => M * k >= M
    BY <1>1, <2>1
  <2>3. k <= -1 => M * k <= -M
    BY <1>1, <2>1
  <2> QED
    BY <1>1, <2>1, <2>2, <2>3
<1>7. M * 0 = 0
  BY <1>1
<1> HIDE DEF x, k
<1>8. x % M = y % M
  BY <1>3, <1>4, <1>5, <1>6, <1>7
<1> QED
  BY <1>8 DEF x

\* The address of the next instruction.
LEMMA NextAddress ==
  ASSUME NEW a \in Int, NEW n \in Int
  PROVE  (((a + 4 * n) % M) + 4) % M = (a + 4 * (n + 1)) % M
<1> DEFINE x == a + 4 * n
<1>1. x \in Int /\ a + 4 * (n + 1) = x + 4
  OBVIOUS
<1> HIDE DEF x
<1> DEFINE q == x \div M
           r == x % M
<1>2. x = M * q + r /\ q \in Int /\ r \in Int /\ M * q \in Int
  BY <1>1, MType
<1> HIDE DEF q
<1>3. (M * q + (r + 4)) % M = (r + 4) % M
  <2> HIDE DEF r
  <2> QED
    BY <1>2, ModShift
<1>4. M * q + (r + 4) = x + 4
  <2> HIDE DEF r
  <2> QED
    BY <1>2
<1> QED
  BY <1>1, <1>3, <1>4 DEF x

\* An address is its own residue.
LEMMA OwnAddress == ASSUME NEW a \in Val PROVE (a + 4 * 0) % M = a
<1>1. a \in 0 .. M - 1 /\ M \in Int /\ M >= 2
  BY MType DEF Val
<1> QED
  BY <1>1

-----------------------------------------------------------------------------
(***************************************************************************)
(* The two maps of main, PCToFunc and the symbol table of the JIT.         *)
(***************************************************************************)
\* A key that is present is left alone.
LEMMA InsertAgain ==
  ASSUME NEW f, NEW S, f \in [DOMAIN f -> S], NEW k \in DOMAIN f, NEW v
  PROVE  Insert(f, k, v) = f
BY DEF Insert

\* Two blocks never share a name.
LEMMA FuncNameInjective ==
  ASSUME NEW p, NEW q, FuncName(p) = FuncName(q)
  PROVE  p = q
<1>1. <<"block_", p>>[2] = <<"block_", q>>[2]
  BY DEF FuncName
<1> QED
  BY <1>1
-----------------------------------------------------------------------------
(***************************************************************************)
(* The initial states.                                                     *)
(***************************************************************************)
LEMMA InitInv == Init => IInv
<1> SUFFICES ASSUME Init PROVE IInv
  OBVIOUS
<1> USE DEF Init
<1>1. State.PC = EntryPoint /\ State.PC \in Val /\ IsCPUState(State)
  <2>1. PICK m \in Images :
          State = [Registers |-> [r \in Reg |-> IF r = 2 THEN (-16) % M ELSE 0],
                   PC |-> EntryPoint, Memory |-> m]
    OBVIOUS
  <2>2. (-16) % M \in Val /\ 0 \in Val
    BY ModVal, MType DEF Val
  <2>3. State.Registers \in [Reg -> Val]
    BY <2>1, <2>2
  <2> QED
    BY <2>1, <2>3, EntryAssumption, ImagesAssumption DEF IsCPUState
<1>2. DOMAIN PCToFunc = {} /\ DOMAIN JIT = {} /\ mode = "dispatch"
  OBVIOUS
<1>3. TypeOK
  <2>1. PCToFunc \in [DOMAIN PCToFunc -> Names] /\ JIT \in [DOMAIN JIT -> Seq(Instruction)]
    OBVIOUS
  <2>2. gen \in [TempPC : Val, Continue : BOOLEAN, Block : Seq(Instruction)]
    BY MType DEF NoGen, Val
  <2>3. frame \in [Name : Names \cup {NoFrame.Name}, Index : Nat]
    BY DEF NoFrame
  <2> QED
    BY <1>1, <1>2, <2>1, <2>2, <2>3 DEF TypeOK, Modes
<1>4. Building /\ Running /\ Looking /\ PCTracksBlock
  BY <1>2 DEF Building, Running, Looking, PCTracksBlock
<1>5. NamesResolve /\ NoDuplicateSymbol /\ BlockShape
  BY <1>2 DEF NamesResolve, NoDuplicateSymbol, BlockShape
<1>6. PCEven
  BY <1>1, EntryAssumption DEF PCEven
<1> QED
  BY <1>3, <1>4, <1>5, <1>6 DEF IInv

-----------------------------------------------------------------------------
(***************************************************************************)
(* The steps of main that only change what main is doing.                  *)
(***************************************************************************)
LEMMA FindInv == ASSUME IInv, Find PROVE IInv'
<1> USE DEF IInv, Find
<1>1. TypeOK'
  BY DEF TypeOK, Modes
<1>2. Building' /\ Running' /\ PCTracksBlock'
  BY DEF Building, Running, PCTracksBlock
<1>3. Looking'
  BY DEF Looking
<1>4. NamesResolve'
  BY DEF NamesResolve
<1>5. NoDuplicateSymbol' /\ BlockShape' /\ PCEven'
  BY DEF NoDuplicateSymbol, BlockShape, PCEven
<1> QED
  BY <1>1, <1>2, <1>3, <1>4, <1>5

LEMMA FetchFaultInv == ASSUME IInv, FetchFault PROVE IInv'
<1> USE DEF IInv, FetchFault
<1>1. TypeOK'
  BY DEF TypeOK, Modes
<1>2. Building' /\ Running' /\ Looking' /\ PCTracksBlock'
  BY DEF Building, Running, Looking, PCTracksBlock
<1>3. NamesResolve'
  BY DEF NamesResolve
<1>4. NoDuplicateSymbol' /\ BlockShape' /\ PCEven'
  BY DEF NoDuplicateSymbol, BlockShape, PCEven
<1> QED
  BY <1>1, <1>2, <1>3, <1>4

LEMMA LookupFailsInv == ASSUME IInv, LookupFails PROVE IInv'
<1> USE DEF IInv, LookupFails
<1>1. TypeOK'
  BY DEF TypeOK, Modes
<1>2. Building' /\ Running' /\ Looking' /\ PCTracksBlock'
  BY DEF Building, Running, Looking, PCTracksBlock
<1>3. NamesResolve'
  BY DEF NamesResolve
<1>4. NoDuplicateSymbol' /\ BlockShape' /\ PCEven'
  BY DEF NoDuplicateSymbol, BlockShape, PCEven
<1> QED
  BY <1>1, <1>2, <1>3, <1>4

LEMMA AccessFaultInv == ASSUME IInv, AccessFault PROVE IInv'
<1> USE DEF IInv, AccessFault
<1>1. TypeOK'
  BY DEF TypeOK, Modes
<1>2. Building' /\ Running' /\ Looking' /\ PCTracksBlock'
  BY DEF Building, Running, Looking, PCTracksBlock
<1>3. NamesResolve'
  BY DEF NamesResolve
<1>4. NoDuplicateSymbol' /\ BlockShape' /\ PCEven'
  BY DEF NoDuplicateSymbol, BlockShape, PCEven
<1> QED
  BY <1>1, <1>2, <1>3, <1>4

LEMMA AddModuleFailsInv == ASSUME IInv, AddModuleFails PROVE IInv'
<1> USE DEF IInv, AddModuleFails
<1>1. TypeOK'
  <2>1. NoGen \in [TempPC : Val, Continue : BOOLEAN, Block : Seq(Instruction)]
    BY MType DEF NoGen, Val
  <2> QED
    BY <2>1 DEF TypeOK, Modes
<1>2. Building' /\ Running' /\ Looking' /\ PCTracksBlock'
  BY DEF Building, Running, Looking, PCTracksBlock
<1>3. NamesResolve'
  BY DEF NamesResolve
<1>4. NoDuplicateSymbol' /\ BlockShape' /\ PCEven'
  BY DEF NoDuplicateSymbol, BlockShape, PCEven
<1> QED
  BY <1>1, <1>2, <1>3, <1>4

LEMMA ReturnInv == ASSUME IInv, Return PROVE IInv'
<1> USE DEF IInv, Return
<1>1. TypeOK'
  <2>1. NoFrame \in [Name : Names \cup {NoFrame.Name}, Index : Nat]
    BY DEF NoFrame
  <2> QED
    BY <2>1 DEF TypeOK, Modes
<1>2. Building' /\ Running' /\ Looking' /\ PCTracksBlock'
  BY DEF Building, Running, Looking, PCTracksBlock
<1>3. NamesResolve'
  BY DEF NamesResolve
<1>4. NoDuplicateSymbol' /\ BlockShape' /\ PCEven'
  BY DEF NoDuplicateSymbol, BlockShape, PCEven
<1> QED
  BY <1>1, <1>2, <1>3, <1>4

-----------------------------------------------------------------------------
(***************************************************************************)
(* Translation.                                                            *)
(***************************************************************************)
LEMMA BeginTranslateInv == ASSUME IInv, BeginTranslate PROVE IInv'
<1> USE DEF IInv, BeginTranslate
<1>1. State.PC \in Val /\ FuncName(State.PC) \in Names
  BY DEF TypeOK, IsCPUState, Names
<1>2. /\ PCToFunc \in [DOMAIN PCToFunc -> Names]
      /\ State.PC \notin DOMAIN PCToFunc
  BY DEF TypeOK
<1>3. /\ DOMAIN PCToFunc' = DOMAIN PCToFunc \cup {State.PC}
      /\ PCToFunc' \in [DOMAIN PCToFunc' -> Names]
      /\ \A PC \in DOMAIN PCToFunc : PCToFunc'[PC] = PCToFunc[PC]
      /\ PCToFunc'[State.PC] = FuncName(State.PC)
  <2> DEFINE k == State.PC
             v == FuncName(k)
  <2>1. PCToFunc' = Insert(PCToFunc, k, v)
    OBVIOUS
  <2> HIDE DEF k, v
  <2> QED
    BY <1>1, <1>2, <2>1, SMT DEF Insert, k, v
<1>4. gen' = [TempPC |-> State.PC, Continue |-> TRUE, Block |-> <<>>]
  OBVIOUS
<1>5. TypeOK'
  <2>1. gen' \in [TempPC : Val, Continue : BOOLEAN, Block : Seq(Instruction)]
    BY <1>1, <1>4
  <2> QED
    BY <1>1, <1>3, <2>1 DEF TypeOK, Modes
<1>6. Building'
  <2>1. gen'.Block = <<>> /\ gen'.TempPC = State.PC /\ gen'.Continue
    BY <1>4
  <2>2. Len(gen'.Block) = 0 /\ (State.PC + 4 * 0) % M = State.PC
    BY <1>1, <2>1, OwnAddress
  <2> QED
    BY <1>3, <2>1, <2>2, ThresholdAssumption DEF Building
<1>7. Running' /\ Looking' /\ PCTracksBlock'
  BY DEF Running, Looking, PCTracksBlock
<1>8. NamesResolve'
  BY <1>3 DEF NamesResolve
<1>9. NoDuplicateSymbol'
  <2>1. ASSUME FuncName(State.PC) \in DOMAIN JIT PROVE FALSE
    <3>1. PICK PC \in DOMAIN PCToFunc : PCToFunc[PC] = FuncName(State.PC)
      BY <2>1 DEF NoDuplicateSymbol
    <3>2. FuncName(PC) = FuncName(State.PC)
      BY <3>1 DEF NamesResolve
    <3> QED
      BY <1>2, <3>2, FuncNameInjective
  <2>2. \A n \in DOMAIN JIT : \E PC \in DOMAIN PCToFunc' : PCToFunc'[PC] = n
    BY <1>3 DEF NoDuplicateSymbol
  <2> QED
    BY <2>1, <2>2 DEF NoDuplicateSymbol
<1>10. BlockShape' /\ PCEven'
  BY DEF BlockShape, PCEven
<1> QED
  BY <1>5, <1>6, <1>7, <1>8, <1>9, <1>10

LEMMA TranslateInstrInv == ASSUME IInv, TranslateInstr PROVE IInv'
<1> USE DEF IInv, TranslateInstr
<1> DEFINE a == gen.TempPC
           b == gen.Block
<1>1. /\ mode = "translate" /\ gen.Continue /\ Len(b) < Threshold
      /\ UNCHANGED <<State, PCToFunc, JIT, frame, mode>>
      /\ mapAddress(a) # nullptr
  BY DEF More
<1>2. PICK u \in Garbage :
        LET i == Decoded[read32(State.Memory, a, u)]
        IN  gen' = [TempPC   |-> (a + 4) % M,
                    Continue |-> i.op \notin Terminators,
                    Block    |-> Append(b, i)]
  OBVIOUS
<1> DEFINE i == Decoded[read32(State.Memory, a, u)]
           c == Append(b, i)
<1>3. /\ gen'.TempPC = (a + 4) % M
      /\ gen'.Continue = (i.op \notin Terminators)
      /\ gen'.Block = c
      /\ gen' = [TempPC |-> (a + 4) % M, Continue |-> i.op \notin Terminators, Block |-> c]
  BY <1>2
<1>4. a \in Val /\ b \in Seq(Instruction) /\ State.PC \in Val /\ State.PC \in Int
  BY MType DEF TypeOK, IsCPUState, Val
<1>5. i \in Instruction
  <2>1. read32(State.Memory, a, u) \in Val
    BY <1>1, <1>4, ReadType, GarbageAssumption DEF TypeOK, IsCPUState
  <2> QED
    BY <2>1, DecodedAssumption
<1> HIDE DEF i
<1>6. /\ c \in Seq(Instruction) /\ Len(c) = Len(b) + 1 /\ Len(b) \in Nat
      /\ \A k \in 1 .. Len(b) : c[k] = b[k]
      /\ c[Len(b) + 1] = i
  BY <1>4, <1>5
<1> HIDE DEF c
<1>7. TypeOK'
  <2>1. (a + 4) % M \in Val
    <3>1. a + 4 \in Int
      BY <1>4, MType DEF Val
    <3> QED
      BY <3>1, ModVal
  <2> HIDE DEF a
  <2>2. gen' \in [TempPC : Val, Continue : BOOLEAN, Block : Seq(Instruction)]
    BY <1>3, <1>6, <2>1
  <2> QED
    BY <1>1, <2>2 DEF TypeOK
<1>8. Building'
  <2>1. /\ State.PC \in DOMAIN PCToFunc
        /\ a = (State.PC + 4 * Len(b)) % M
        /\ \A k \in 1 .. Len(b) :
             /\ b[k].op \in Terminators <=> (k = Len(b) /\ ~gen.Continue)
             /\ InMemory((State.PC + 4 * (k - 1)) % M, b[k])
    BY <1>1 DEF Building
  <2>2. gen'.TempPC = (State.PC + 4 * Len(c)) % M
    <3>1. (((State.PC + 4 * Len(b)) % M) + 4) % M = (State.PC + 4 * (Len(b) + 1)) % M
      <4> DEFINE p == State.PC
                 n == Len(b)
      <4>1. p \in Int /\ n \in Int
        BY <1>4, <1>6
      <4> HIDE DEF p, n
      <4>2. (((p + 4 * n) % M) + 4) % M = (p + 4 * (n + 1)) % M
        BY <4>1, NextAddress
      <4> QED
        BY <4>2 DEF p, n
    <3> QED
      BY <1>3, <1>6, <2>1, <3>1
  <2>3. InMemory(a, i)
    BY <1>1 DEF InMemory, i
  <2> HIDE DEF a, b
  <2>4. ASSUME NEW k \in 1 .. Len(c)
        PROVE  /\ c[k].op \in Terminators <=> (k = Len(c) /\ i.op \in Terminators)
               /\ InMemory((State.PC + 4 * (k - 1)) % M, c[k])
    <3>1. CASE k = Len(c)
      <4>1. c[k] = i /\ k - 1 = Len(b)
        BY <1>6, <3>1
      <4> QED
        BY <2>1, <2>3, <3>1, <4>1
    <3>2. CASE k # Len(c)
      <4>1. k \in 1 .. Len(b) /\ c[k] = b[k]
        BY <1>6, <3>2
      <4>2. b[k].op \notin Terminators
        BY <1>1, <2>1, <4>1
      <4> QED
        BY <2>1, <3>2, <4>1, <4>2
    <3> QED
      BY <3>1, <3>2
  <2>5. Len(c) <= Threshold /\ c # <<>>
    BY <1>1, <1>6, ThresholdAssumption DEF b
  <2>6. ASSUME NEW k \in 1 .. Len(c)
        PROVE  InMemory((State.PC + 4 * (k - 1)) % M, gen.Block[k])'
    <3>1. InMemory((State.PC + 4 * (k - 1)) % M, c[k])
      BY <2>4
    <3> QED
      BY <1>1, <1>3, <3>1 DEF InMemory
  <2> QED
    BY <1>1, <1>3, <2>1, <2>2, <2>4, <2>5, <2>6 DEF Building
<1>9. Running' /\ Looking' /\ PCTracksBlock'
  BY <1>1 DEF Running, Looking, PCTracksBlock
<1>10. NamesResolve' /\ NoDuplicateSymbol' /\ BlockShape' /\ PCEven'
  BY <1>1 DEF NamesResolve, NoDuplicateSymbol, BlockShape, PCEven
<1> QED
  BY <1>7, <1>8, <1>9, <1>10

\* The second insert of generateFunc does nothing.
LEMMA AddModuleInv == ASSUME IInv, AddModule PROVE IInv'
<1> USE DEF IInv, AddModule
<1> DEFINE name == FuncName(State.PC)
           b == gen.Block
<1>1. /\ mode = "translate" /\ mode' = "lookup" /\ UNCHANGED <<State, frame>>
      /\ gen' = NoGen /\ name \notin DOMAIN JIT
      /\ ~(gen.Continue /\ Len(b) < Threshold)
  BY DEF More
<1>2. PCToFunc' = PCToFunc
  <2>1. State.PC \in DOMAIN PCToFunc
    BY <1>1 DEF Building
  <2>2. PCToFunc = [x \in DOMAIN PCToFunc |-> PCToFunc[x]]
    BY DEF TypeOK
  <2>3. DOMAIN PCToFunc \cup {State.PC} = DOMAIN PCToFunc
    BY <2>1
  <2> QED
    BY <2>1, <2>2, <2>3 DEF Insert
<1>3. State.PC \in Val /\ name \in Names /\ b \in Seq(Instruction) /\ Len(b) \in Nat
  BY DEF TypeOK, IsCPUState, Names
<1>4. /\ DOMAIN JIT' = DOMAIN JIT \cup {name}
      /\ JIT' \in [DOMAIN JIT' -> Seq(Instruction)]
      /\ \A n \in DOMAIN JIT : JIT'[n] = JIT[n]
      /\ JIT'[name] = b
  <2>1. JIT' = Insert(JIT, name, b) /\ JIT \in [DOMAIN JIT -> Seq(Instruction)]
    BY DEF TypeOK
  <2> HIDE DEF name, b
  <2> QED
    BY <1>1, <1>3, <2>1, SMT DEF Insert
<1>5. TypeOK'
  <2>1. NoGen \in [TempPC : Val, Continue : BOOLEAN, Block : Seq(Instruction)]
    BY MType DEF NoGen, Val
  <2> QED
    BY <1>1, <1>2, <1>3, <1>4, <2>1 DEF TypeOK, Modes
<1>6. Building' /\ Running' /\ PCTracksBlock'
  BY <1>1 DEF Building, Running, PCTracksBlock
<1>7. Looking'
  BY <1>1, <1>2 DEF Building, Looking
<1>8. NamesResolve'
  BY <1>1, <1>2, <1>4 DEF NamesResolve
<1>9. NoDuplicateSymbol'
  <2>1. State.PC \in DOMAIN PCToFunc /\ PCToFunc[State.PC] = name
    BY <1>1 DEF Building, NamesResolve
  <2> QED
    BY <1>1, <1>2, <1>4, <2>1 DEF NoDuplicateSymbol
<1>10. BlockShape'
  <2>1. /\ Len(b) \in 1 .. Threshold
        /\ \A k \in 1 .. Len(b) - 1 : b[k].op \notin Terminators
        /\ Len(b) < Threshold => b[Len(b)].op \in Terminators
    <3>1. /\ Len(b) <= Threshold
          /\ \A k \in 1 .. Len(b) : b[k].op \in Terminators <=> (k = Len(b) /\ ~gen.Continue)
          /\ ~gen.Continue => b # <<>>
      BY <1>1 DEF Building
    <3>2. b # <<>> => Len(b) >= 1
      BY <1>3
    <3> HIDE DEF b
    <3>3. Len(b) \in 1 .. Threshold
      BY <1>1, <1>3, <3>1, <3>2, ThresholdAssumption
    <3> QED
      BY <1>1, <3>1, <3>3
  <2> HIDE DEF name, b
  <2> QED
    BY <1>4, <2>1 DEF BlockShape
<1>11. PCEven'
  BY <1>1 DEF PCEven
<1> QED
  BY <1>5, <1>6, <1>7, <1>8, <1>9, <1>10, <1>11

-----------------------------------------------------------------------------
(***************************************************************************)
(* Execution.                                                              *)
(***************************************************************************)
LEMMA CallInv == ASSUME IInv, Call PROVE IInv'
<1> USE DEF IInv, Call
<1>1. /\ State.PC \in DOMAIN PCToFunc /\ State.PC \in Val
      /\ PCToFunc[State.PC] = FuncName(State.PC)
      /\ FuncName(State.PC) \in DOMAIN JIT
      /\ FuncName(State.PC) \in Names
  BY DEF Looking, NamesResolve, TypeOK, IsCPUState, Names
<1>2. frame'.Name = FuncName(State.PC) /\ frame'.Index = 1
  BY <1>1
<1>3. TypeOK'
  <2>1. frame' \in [Name : Names \cup {NoFrame.Name}, Index : Nat]
    BY <1>1
  <2> QED
    BY <2>1 DEF TypeOK, Modes
<1>4. Building' /\ Looking'
  BY DEF Building, Looking
<1>5. Running'
  <2>1. Len(JIT[FuncName(State.PC)]) \in Nat
    BY <1>1 DEF TypeOK
  <2> QED
    BY <1>1, <1>2, <2>1 DEF Running, Block
<1>6. PCTracksBlock'
  <2>1. Advanced' = {}
    BY <1>2 DEF Advanced
  <2>2. Cardinality(Advanced') = 0
    BY <2>1, FS_EmptySet
  <2>3. StartPC(frame'.Name) = State.PC
    BY <1>2 DEF StartPC, FuncName
  <2>4. (State.PC + 4 * 0) % M = State.PC
    BY <1>1, OwnAddress
  <2> QED
    BY <2>2, <2>3, <2>4 DEF PCTracksBlock
<1>7. NamesResolve'
  BY DEF NamesResolve
<1>8. NoDuplicateSymbol' /\ BlockShape' /\ PCEven'
  BY DEF NoDuplicateSymbol, BlockShape, PCEven
<1> QED
  BY <1>3, <1>4, <1>5, <1>6, <1>7, <1>8

\* The instruction that runs, and the state it runs in.
LEMMA CurrentType ==
  ASSUME IInv, mode = "run", frame.Index <= Len(Block)
  PROVE  /\ frame.Name \in DOMAIN JIT /\ Block \in Seq(Instruction)
         /\ frame.Index \in 1 .. Len(Block) /\ Len(Block) \in Nat
         /\ frame.Name \in Names
         /\ Current \in Instruction
         /\ IsCPUState(State) /\ State.PC \in Int
<1>1. frame.Name \in DOMAIN JIT /\ frame.Index \in 1 .. Len(Block) + 1
  BY DEF IInv, Running
<1>2. Block \in Seq(Instruction) /\ frame.Name \in Names /\ frame.Index \in Nat
  BY <1>1 DEF IInv, TypeOK, Block
<1>3. frame.Index \in 1 .. Len(Block) /\ Len(Block) \in Nat
  BY <1>1, <1>2
<1>4. Current \in Instruction
  BY <1>2, <1>3 DEF Current
<1>5. IsCPUState(State) /\ State.PC \in Int
  BY MType DEF IInv, TypeOK, IsCPUState, Val
<1> QED
  BY <1>1, <1>2, <1>3, <1>4, <1>5

LEMMA ExecuteInv == ASSUME IInv, Execute PROVE IInv'
<1> USE DEF Execute
<1>1. /\ frame.Name \in DOMAIN JIT /\ Block \in Seq(Instruction)
      /\ frame.Index \in 1 .. Len(Block) /\ Len(Block) \in Nat
      /\ frame.Name \in Names
      /\ Current \in Instruction
      /\ IsCPUState(State) /\ State.PC \in Int
  BY CurrentType
<1>2. /\ frame'.Name = frame.Name /\ frame'.Index = frame.Index + 1
      /\ frame' \in [Name : Names \cup {NoFrame.Name}, Index : Nat]
      /\ Block' = Block
  <2>1. frame \in [Name : Names \cup {NoFrame.Name}, Index : Nat]
    BY DEF IInv, TypeOK
  <2>2. frame' = [frame EXCEPT !.Index = frame.Index + 1]
    OBVIOUS
  <2>3. frame'.Name = frame.Name /\ frame'.Index = frame.Index + 1
    BY <2>1, <2>2
  <2> QED
    BY <2>1, <2>2, <2>3 DEF Block
<1>3. PICK u \in Garbage : State' = generate(Current, State, u)
  OBVIOUS
<1>4. u \in Val
  BY GarbageAssumption
<1>5. IsCPUState(State') /\ (State.PC % 2 = 0 => State'.PC % 2 = 0)
  BY <1>1, <1>3, <1>4, GenerateType
<1>6. TypeOK'
  BY <1>2, <1>5 DEF IInv, TypeOK
<1>7. Building' /\ Looking'
  BY DEF Building, Looking
<1>8. Running'
  BY <1>1, <1>2 DEF IInv, Running
<1>9. PCTracksBlock'
  <2> DEFINE x == frame.Index
  <2>1. x \in Nat /\ x >= 1 /\ Current = Block[x]
    BY <1>1 DEF Current
  <2>2. SUFFICES ASSUME \A k \in 1 .. x : Block[k].op \notin Terminators
                 PROVE  State'.PC = (StartPC(frame.Name) + 4 * Cardinality(Advanced')) % M
    <3>1. frame'.Index - 1 = x
      BY <1>2, <2>1
    <3> QED
      BY <1>2, <2>2, <3>1 DEF PCTracksBlock
  <2>3. Current.op \notin Terminators
    BY <2>1, <2>2
  <2>4. State.PC = (StartPC(frame.Name) + 4 * Cardinality(Advanced)) % M
    <3>1. \A k \in 1 .. x - 1 : Block[k].op \notin Terminators
      BY <2>1, <2>2
    <3> QED
      BY <3>1 DEF IInv, PCTracksBlock
  <2>5. Advanced' = {k \in 1 .. x : Block[k].op \notin NotAdvancing}
    <3>1. frame'.Index - 1 = x
      BY <1>2, <2>1
    <3> QED
      BY <1>2, <3>1 DEF Advanced
  <2>6. Advanced = {k \in 1 .. x - 1 : Block[k].op \notin NotAdvancing}
    BY DEF Advanced
  <2>7. CASE Current.op \in NotAdvancing
    <3>1. State' = State
      BY <1>3, <2>7, NotAdvancingStep
    <3>2. Advanced' = Advanced
      BY <2>1, <2>5, <2>6, <2>7
    <3> QED
      BY <2>4, <3>1, <3>2
  <2>8. CASE Current.op \notin NotAdvancing
    <3>1. State'.PC = (State.PC + 4) % M
      BY <1>1, <1>3, <1>4, <2>3, <2>8, StraightStep DEF Terminators
    <3>2. Advanced' = Advanced \cup {x} /\ x \notin Advanced
      BY <2>1, <2>5, <2>6, <2>8
    <3>3. IsFiniteSet(Advanced) /\ Cardinality(Advanced) \in Nat
      <4>1. IsFiniteSet(1 .. x - 1)
        <5> DEFINE top == x - 1
        <5>1. 1 \in Int /\ top \in Int
          BY <2>1
        <5> HIDE DEF top
        <5>2. IsFiniteSet(1 .. top)
          BY <5>1, FS_Interval
        <5> QED
          BY <5>2 DEF top
      <4>2. Advanced \in SUBSET (1 .. x - 1)
        BY <2>6
      <4>3. IsFiniteSet(Advanced)
        BY <4>1, <4>2, FS_Subset
      <4> QED
        BY <4>3, FS_CardinalityType
    <3>4. Cardinality(Advanced') = Cardinality(Advanced) + 1
      BY <3>2, <3>3, FS_AddElement
    <3>5. StartPC(frame.Name) \in Int
      BY <1>1, MType DEF Names, FuncName, StartPC, Val
    <3>6. (((StartPC(frame.Name) + 4 * Cardinality(Advanced)) % M) + 4) % M
            = (StartPC(frame.Name) + 4 * (Cardinality(Advanced) + 1)) % M
      <4> DEFINE p == StartPC(frame.Name)
                 n == Cardinality(Advanced)
      <4>1. p \in Int /\ n \in Int
        BY <3>3, <3>5
      <4> HIDE DEF p, n
      <4>2. (((p + 4 * n) % M) + 4) % M = (p + 4 * (n + 1)) % M
        BY <4>1, NextAddress
      <4> QED
        BY <4>2 DEF p, n
    <3> QED
      BY <2>4, <3>1, <3>4, <3>6
  <2> QED
    BY <2>7, <2>8
<1>10. NamesResolve' /\ NoDuplicateSymbol'
  BY DEF IInv, NamesResolve, NoDuplicateSymbol
<1>11. BlockShape'
  BY DEF IInv, BlockShape
<1>12. PCEven'
  BY <1>5 DEF IInv, PCEven
<1> QED
  BY <1>6, <1>7, <1>8, <1>9, <1>10, <1>11, <1>12 DEF IInv

-----------------------------------------------------------------------------
(***************************************************************************)
(* The invariant, and what follows from it.                                *)
(***************************************************************************)
LEMMA StutterInv == ASSUME IInv, UNCHANGED vars PROVE IInv'
<1> USE DEF vars
<1>1. TypeOK' /\ Building' /\ Running' /\ Looking'
  BY DEF IInv, TypeOK, Building, InMemory, Running, Block, Looking
<1>2. NamesResolve' /\ NoDuplicateSymbol' /\ BlockShape'
  BY DEF IInv, NamesResolve, NoDuplicateSymbol, BlockShape
<1>3. PCTracksBlock' /\ PCEven'
  BY DEF IInv, PCTracksBlock, Advanced, Block, PCEven
<1> QED
  BY <1>1, <1>2, <1>3 DEF IInv

LEMMA NextInv == ASSUME IInv, [Next]_vars PROVE IInv'
<1>1. CASE Find
  BY <1>1, FindInv
<1>2. CASE BeginTranslate
  BY <1>2, BeginTranslateInv
<1>3. CASE TranslateInstr
  BY <1>3, TranslateInstrInv
<1>4. CASE FetchFault
  BY <1>4, FetchFaultInv
<1>5. CASE AddModule
  BY <1>5, AddModuleInv
<1>6. CASE AddModuleFails
  BY <1>6, AddModuleFailsInv
<1>7. CASE Call
  BY <1>7, CallInv
<1>8. CASE LookupFails
  BY <1>8, LookupFailsInv
<1>9. CASE Execute
  BY <1>9, ExecuteInv
<1>10. CASE AccessFault
  BY <1>10, AccessFaultInv
<1>11. CASE Return
  BY <1>11, ReturnInv
<1>12. CASE Terminated
  BY <1>12, StutterInv DEF Terminated
<1>13. CASE UNCHANGED vars
  BY <1>13, StutterInv
<1> QED
  BY <1>1, <1>2, <1>3, <1>4, <1>5, <1>6, <1>7, <1>8, <1>9, <1>10, <1>11, <1>12, <1>13
     DEF Next

\* The invariant holds throughout, in every instance of the translator.
THEOREM Invariance == Spec => []IInv
<1>1. Init => IInv
  BY InitInv
<1>2. IInv /\ [Next]_vars => IInv'
  BY NextInv
<1> QED
  BY <1>1, <1>2, PTL DEF Spec

\* Generated code keeps the CPU state within its type and the two maps keep
\* theirs.
THEOREM TypeCorrect == Spec => []TypeOK
<1>1. IInv => TypeOK
  BY DEF IInv
<1> QED
  BY <1>1, Invariance, PTL

\* A name that main looks up is in the JIT, although generateFunc enters it
\* before the function exists.
THEOREM NamesAlwaysResolve == Spec => []NamesResolve
<1>1. IInv => NamesResolve
  BY DEF IInv
<1> QED
  BY <1>1, Invariance, PTL

\* addIRModule is never given a name that the JIT already has.
THEOREM NeverDuplicate == Spec => []NoDuplicateSymbol
<1>1. IInv => NoDuplicateSymbol
  BY DEF IInv
<1> QED
  BY <1>1, Invariance, PTL

\* The loop of generateFunc ends a block at the first jump or branch, or at
\* Threshold instructions, and not before.
THEOREM BlocksWellShaped == Spec => []BlockShape
<1>1. IInv => BlockShape
  BY DEF IInv
<1> QED
  BY <1>1, Invariance, PTL

\* The PC that straight-line code keeps in memory counts its instructions.
THEOREM PCAlwaysTracks == Spec => []PCTracksBlock
<1>1. IInv => PCTracksBlock
  BY DEF IInv
<1> QED
  BY <1>1, Invariance, PTL

\* No jump or branch ever makes the PC odd.
THEOREM PCAlwaysEven == Spec => []PCEven
<1>1. IInv => PCEven
  BY DEF IInv
<1> QED
  BY <1>1, Invariance, PTL

-----------------------------------------------------------------------------
(***************************************************************************)
(* What runs is what an interpreter would run.                             *)
(***************************************************************************)

\* In a block whose earlier instructions all advanced the PC, as many have
\* done so as there are.
LEMMA AllAdvanced ==
  ASSUME NEW x \in Nat, x >= 1, frame.Index = x,
         \A k \in 1 .. x - 1 : Block[k].op \notin NotAdvancing
  PROVE  Cardinality(Advanced) = x - 1
<1>1. Advanced = 1 .. x - 1
  BY DEF Advanced
<1> DEFINE top == x - 1
<1>2. 1 \in Int /\ top \in Int /\ (IF 1 > top THEN 0 ELSE top - 1 + 1) = top
  OBVIOUS
<1> HIDE DEF top
<1>3. Cardinality(1 .. top) = IF 1 > top THEN 0 ELSE top - 1 + 1
  BY <1>2, FS_Interval
<1> QED
  BY <1>1, <1>2, <1>3 DEF top

\* The invariant implies that the next instruction is the one at the PC.
LEMMA RunsAtPC == ASSUME IInv PROVE RunsInstructionAtPC
<1> SUFFICES ASSUME mode = "run",
                    frame.Index <= Len(Block),
                    Coherent(frame.Name),
                    \A k \in 1 .. frame.Index - 1 : Block[k].op \notin NotAdvancing
             PROVE  InMemory(State.PC, Current)
  BY DEF RunsInstructionAtPC
<1> DEFINE x == frame.Index
<1>1. /\ frame.Name \in DOMAIN JIT /\ x \in 1 .. Len(Block) /\ Len(Block) \in Nat
      /\ x \in Nat /\ x >= 1
  BY CurrentType
<1>2. \A k \in 1 .. x - 1 : Block[k].op \notin Terminators
  <2>1. \A k \in 1 .. Len(Block) - 1 : Block[k].op \notin Terminators
    BY <1>1 DEF IInv, BlockShape, Block
  <2> QED
    BY <1>1, <2>1
<1>3. State.PC = (StartPC(frame.Name) + 4 * Cardinality(Advanced)) % M
  BY <1>2 DEF IInv, PCTracksBlock
<1>4. Cardinality(Advanced) = x - 1
  BY <1>1, AllAdvanced
<1>5. InMemory((StartPC(frame.Name) + 4 * (x - 1)) % M, JIT[frame.Name][x])
  BY <1>1 DEF Coherent, Block
<1> QED
  BY <1>3, <1>4, <1>5 DEF Current, Block

\* As long as its block is a translation of the code in memory, a function
\* executes what an interpreter would fetch at the PC that it maintains.
THEOREM RunsWhatMemoryHolds == Spec => []RunsInstructionAtPC
<1>1. IInv => RunsInstructionAtPC
  BY RunsAtPC
<1> QED
  BY <1>1, Invariance, PTL

-----------------------------------------------------------------------------
(***************************************************************************)
(* When a translation describes memory.                                    *)
(***************************************************************************)

\* Only AddModule changes the JIT: it adds one name, and keeps the others.
LEMMA JITGrows ==
  ASSUME IInv, [Next]_vars
  PROVE  /\ AddModule \/ JIT' = JIT
         /\ \A n \in DOMAIN JIT : n \in DOMAIN JIT' /\ JIT'[n] = JIT[n]
<1>1. AddModule \/ JIT' = JIT
  BY DEF Next, vars, Find, BeginTranslate, TranslateInstr, FetchFault, AddModuleFails,
         Call, LookupFails, Execute, AccessFault, Return, Terminated
<1>2. CASE AddModule
  BY <1>2 DEF AddModule, Insert
<1> QED
  BY <1>1, <1>2

\* Memory changes only when a store runs.
LEMMA MemoryKept ==
  ASSUME IInv, [Next]_vars, ~(mode = "run" /\ Current.op \in Stores)
  PROVE  State'.Memory = State.Memory
<1>1. CASE Execute
  <2>1. /\ Current \in Instruction /\ IsCPUState(State)
        /\ Current.op \notin Stores /\ ~Faults(Current, State)
    BY <1>1, CurrentType DEF Execute
  <2>2. PICK u \in Garbage : State' = generate(Current, State, u)
    BY <1>1 DEF Execute
  <2>3. u \in Val
    BY GarbageAssumption
  <2> QED
    BY <2>1, <2>2, <2>3, GenerateType
<1>2. CASE ~Execute
  BY <1>2 DEF Next, vars, Find, BeginTranslate, TranslateInstr, FetchFault, AddModule,
              AddModuleFails, Call, LookupFails, AccessFault, Return, Terminated
<1> QED
  BY <1>1, <1>2

LEMMA NewBlockCoherent ==
  ASSUME IInv, [Next]_vars, NEW n \in DOMAIN JIT' \ DOMAIN JIT
  PROVE  Coherent(n)'
<1>1. AddModule
  BY JITGrows
<1> DEFINE b == gen.Block
<1>2. /\ n = FuncName(State.PC) /\ JIT'[n] = b
      /\ State' = State /\ mode = "translate"
  BY <1>1 DEF AddModule, Insert
<1>3. StartPC(n) = State.PC
  BY <1>2 DEF StartPC, FuncName
<1>4. ASSUME NEW k \in 1 .. Len(b)
      PROVE  InMemory((StartPC(n) + 4 * (k - 1)) % M, JIT[n][k])'
  <2>1. InMemory((State.PC + 4 * (k - 1)) % M, b[k])
    BY <1>2 DEF IInv, Building
  <2> HIDE DEF b
  <2> QED
    BY <1>2, <1>3, <2>1 DEF InMemory
<1> QED
  BY <1>2, <1>4 DEF Coherent

LEMMA CoherenceKept ==
  ASSUME IInv, [Next]_vars, NEW n \in DOMAIN JIT, Coherent(n),
         ~(mode = "run" /\ Current.op \in Stores)
  PROVE  n \in DOMAIN JIT' /\ Coherent(n)'
<1>1. n \in DOMAIN JIT' /\ JIT'[n] = JIT[n]
  BY JITGrows
<1>2. State'.Memory = State.Memory
  BY MemoryKept
<1>3. ASSUME NEW k \in 1 .. Len(JIT[n])
      PROVE  InMemory((StartPC(n) + 4 * (k - 1)) % M, JIT[n][k])'
  <2>1. InMemory((StartPC(n) + 4 * (k - 1)) % M, JIT[n][k])
    BY DEF Coherent
  <2> QED
    BY <1>1, <1>2, <2>1 DEF InMemory
<1> QED
  BY <1>1, <1>3 DEF Coherent

\* A block starts its life as a translation of what memory holds, although it
\* is fetched one word at a time.
THEOREM TranslatesMemory == Spec => TranslatedAsFetched
<1>1. IInv /\ [Next]_vars => [\A n \in DOMAIN JIT' \ DOMAIN JIT : Coherent(n)']_vars
  BY NewBlockCoherent
<1> QED
  BY <1>1, Invariance, PTL DEF Spec, TranslatedAsFetched

\* Only a store can make a translation stale.
THEOREM OnlyStoresMakeStale == Spec => StaleOnlyByStore
<1>1. IInv /\ [Next]_vars =>
        [\A n \in DOMAIN JIT : Coherent(n) =>
           \/ n \in DOMAIN JIT' /\ Coherent(n)'
           \/ mode = "run" /\ Current.op \in Stores]_vars
  BY CoherenceKept
<1> QED
  BY <1>1, Invariance, PTL DEF Spec, StaleOnlyByStore
=============================================================================
