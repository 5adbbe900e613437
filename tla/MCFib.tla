-------------------------------- MODULE MCFib --------------------------------
(***************************************************************************)
(* The repository's test program, tests/riscv-binaries/fibonacci, run by   *)
(* the translator: the segments of fib-recursion.out as parseElf lays them *)
(* out, and its 42 words of code as Encoding decodes them.                 *)
(*                                                                         *)
(* Bytes have 8 values, so words have 12 bits and guest addresses are the  *)
(* ones of the ELF file modulo 4096, which keeps the segments apart.  A    *)
(* word of code is stored as its number in the list.                       *)
(***************************************************************************)
EXTENDS Translator

E == INSTANCE Encoding

CONSTANT s0  \* the value of the variable s of fib-recursion.c

MCSegmentData ==
  << [GuestAddress |-> 52,   MemorySize |-> 192],    \* PT_PHDR
     [GuestAddress |-> 0,    MemorySize |-> 244],    \* PT_LOAD R
     [GuestAddress |-> 244,  MemorySize |-> 168],    \* PT_LOAD R E
     [GuestAddress |-> 412,  MemorySize |-> 4],      \* PT_LOAD RW
     [GuestAddress |-> 0,    MemorySize |-> 0],      \* PT_GNU_STACK
     [GuestAddress |-> 0,    MemorySize |-> 28],     \* PT_RISCV_ATTRIBUTES
     [GuestAddress |-> 3839, MemorySize |-> 256] >>  \* the stack

W(op, rd, f3, rs1, rs2, f7) ==
  [op |-> op, rd |-> rd, f3 |-> f3, rs1 |-> rs1, rs2 |-> rs2, f7 |-> f7]

Code == <<
  W(111, 1, 0, 0, 28, 3),         \* jal ra, main   <- _start
  W(111, 0, 0, 0, 0, 0),          \* j .
  W(19, 2, 0, 2, 0, 127),         \* addi sp, sp, -32   <- fib_recursion
  W(35, 28, 2, 2, 1, 0),          \* sw ra, 28(sp)
  W(35, 24, 2, 2, 8, 0),          \* sw s0, 24(sp)
  W(19, 8, 0, 2, 0, 1),           \* addi s0, sp, 32
  W(35, 16, 2, 8, 10, 127),       \* sw a0, -16(s0)
  W(3, 11, 2, 8, 16, 127),        \* lw a1, -16(s0)
  W(19, 10, 0, 0, 1, 0),          \* li a0, 1
  W(99, 20, 4, 10, 11, 0),        \* blt a0, a1, .LBB0_2
  W(111, 0, 0, 0, 4, 0),          \* j .LBB0_1
  W(19, 10, 0, 0, 1, 0),          \* li a0, 1   <- .LBB0_1
  W(35, 20, 2, 8, 10, 127),       \* sw a0, -12(s0)
  W(111, 0, 0, 0, 20, 1),         \* j .LBB0_3
  W(3, 10, 2, 8, 16, 127),        \* lw a0, -16(s0)   <- .LBB0_2
  W(19, 10, 0, 10, 30, 127),      \* addi a0, a0, -2
  W(111, 1, 7, 31, 9, 126),       \* jal ra, fib
  W(35, 12, 2, 8, 10, 127),       \* sw a0, -20(s0)
  W(3, 10, 2, 8, 16, 127),        \* lw a0, -16(s0)
  W(19, 10, 0, 10, 31, 127),      \* addi a0, a0, -1
  W(111, 1, 7, 31, 25, 125),      \* jal ra, fib
  W(19, 11, 0, 10, 0, 0),         \* mv a1, a0
  W(3, 10, 2, 8, 12, 127),        \* lw a0, -20(s0)
  W(51, 10, 0, 10, 11, 0),        \* add a0, a0, a1
  W(35, 20, 2, 8, 10, 127),       \* sw a0, -12(s0)
  W(111, 0, 0, 0, 4, 0),          \* j .LBB0_3
  W(3, 10, 2, 8, 20, 127),        \* lw a0, -12(s0)   <- .LBB0_3
  W(3, 1, 2, 2, 28, 0),           \* lw ra, 28(sp)
  W(3, 8, 2, 2, 24, 0),           \* lw s0, 24(sp)
  W(19, 2, 0, 2, 0, 1),           \* addi sp, sp, 32
  W(103, 0, 0, 1, 0, 0),          \* ret
  W(19, 2, 0, 2, 16, 127),        \* addi sp, sp, -16   <- main
  W(35, 12, 2, 2, 1, 0),          \* sw ra, 12(sp)
  W(35, 8, 2, 2, 8, 0),           \* sw s0, 8(sp)
  W(19, 8, 0, 2, 16, 0),          \* addi s0, sp, 16
  W(55, 10, 2, 2, 0, 0),          \* lui a0, %hi(s)
  W(3, 10, 2, 10, 28, 12),        \* lw a0, %lo(s)(a0)
  W(111, 1, 7, 31, 21, 123),      \* jal ra, fib
  W(3, 1, 2, 2, 12, 0),           \* lw ra, 12(sp)
  W(3, 8, 2, 2, 8, 0),            \* lw s0, 8(sp)
  W(19, 2, 0, 2, 16, 0),          \* addi sp, sp, 16
  W(103, 0, 0, 1, 0, 0) >>        \* ret

NoWord == W(0, 0, 0, 0, 0, 0)
MCDecoded == [w \in Val |-> E!Operands(IF w \in DOMAIN Code THEN Code[w] ELSE NoWord)]

MCImages ==
  { [J \in Segment |->
       [o \in Allocation(J) |->
          CASE J = 3 -> ByteOf((o \div 4) + 1, o % 4)
            [] J = 4 -> ByteOf(s0, o)
            [] OTHER -> 0]] }

Bitwise2(f(_, _)) ==
  [p \in ByteVal \X ByteVal |->
     LET B(k) == f((p[1] \div 2 ^ k) % 2, (p[2] \div 2 ^ k) % 2)
     IN  B(0) + 2 * B(1) + 4 * B(2)]
MCAnd == LET f(a, b) == a * b IN Bitwise2(f)
MCOr  == LET f(a, b) == a + b - a * b IN Bitwise2(f)
MCXor == LET f(a, b) == (a + b) % 2 IN Bitwise2(f)
MCGarbage == {0}

Fibonacci[k \in Nat] == IF k <= 1 THEN 1 ELSE Fibonacci[k - 1] + Fibonacci[k - 2]

BackInStart == mode = "dispatch" /\ State.PC = EntryPoint + 4

\* main returns to _start.
MainReturns == <>BackInStart

\* When the program is back in _start, at the endless loop after the call of
\* main, register a0 holds fib_recursion(s) as fib-recursion.c defines it.
FibResult == BackInStart => State.Registers[10] = Fibonacci[s0]
=============================================================================
