---------------------------- MODULE DumbcCodegen ----------------------------
(***************************************************************************)
(* The code generator of dumbc (main.c): compile_expression_into_ir turns  *)
(* a tree into instructions over a fixed pool of registers, and            *)
(* compile_instructions_to_x86_64 prints them as assembly.                 *)
(*                                                                         *)
(* The recursion of compile_expression_into_ir is the variable todo: the   *)
(* work its pending calls have left, next task first.  "gen" compiles an   *)
(* expression into a register; "mulconst" and "op" are what a unary minus  *)
(* and a binary node emit once their operands are compiled.                *)
(*                                                                         *)
(* reg_t is a number: OUT_REG = 0 ("rax"), REG1 = 1 ("rbx"), REG2 = 2, ... *)
(* register_free exists but has no caller: a register stays allocated.     *)
(***************************************************************************)
EXTENDS DumbcAst, FiniteSets

CONSTANTS
  Trees,       \* the expressions to compile
  MaxRegs,     \* MAX_REGS, 6
  InitialCap,  \* first capacity of the instruction vector, 16
  ChunkSlots   \* instructions in an arena chunk: ARENA_CHUNK_SIZE / 16, 256

ASSUME CodegenAssumption ==
  /\ MaxRegs \in Nat /\ MaxRegs >= 3
  /\ InitialCap \in Nat \ {0}
  /\ ChunkSlots \in Nat
  /\ \E D \in SUBSET (1..ChunkSlots) :  \* doubling InitialCap comes to ChunkSlots
       InitialCap \in D /\ \A c \in D : c = ChunkSlots \/ 2 * c \in D

Regs == 0..(MaxRegs - 1)
OUT_REG == 0
REG1 == 1
REG2 == 2

E_BADREGISTER == 8
E_OOM == 99
CRASH == 139    \* the process dies on uninitialised memory

VARIABLES
  root,     \* the expression, constant after Init
  phase,    \* "ir", "asm", "done"
  todo,     \* pending work of compile_expression_into_ir
  regUsed,  \* the registers r with reg_used[r]
  code,     \* inst->data[0 .. len - 1]
  cap,      \* inst->cap
  asm,      \* the lines printed for code, up to now
  err       \* what main returns if it stops here

vars == <<root, phase, todo, regUsed, code, cap, asm, err>>

-----------------------------------------------------------------------------
(* Instructions.  Operand fields a and b; lit is the place of a literal.   *)

MovLiteral(at, r)   == [t |-> "MOV_LITERAL", a |-> r, b |-> r, lit |-> at]
MovRegister(from, to) == [t |-> "MOV_REGISTER", a |-> to, b |-> from, lit |-> 0]
MulConstant(r)      == [t |-> "MUL_CONSTANT", a |-> r, b |-> r, lit |-> 0]
BinaryInstruction(op, ra, rb) ==
  [t |-> CASE op = "add" -> "ADD_BINARY" [] op = "sub" -> "SUB_BINARY"
           [] op = "mul" -> "MUL_BINARY",
   a |-> ra, b |-> rb, lit |-> 0]

Gen(e, r)        == [do |-> "gen", expr |-> e, op |-> "", a |-> r, b |-> r, reg |-> r]
MulConstTask(r)  == [do |-> "mulconst", expr |-> Junk, op |-> "", a |-> r, b |-> r, reg |-> r]
OpTask(op, l, r, to) ==
  [do |-> "op", expr |-> Junk, op |-> op, a |-> l, b |-> r, reg |-> to]

(***************************************************************************)
(* register_allocate takes the first register not in use.                  *)
(***************************************************************************)
FreeRegs(u) == {r \in Regs : r \notin u}

FirstFree(u) == CHOOSE r \in FreeRegs(u) : \A q \in FreeRegs(u) : r <= q

(***************************************************************************)
(* push_instruction grows the vector when the slot after the next one is   *)
(* its last: CapFor(len, c) is the capacity after a push on a vector of    *)
(* length len and capacity c.                                              *)
(***************************************************************************)
CapFor_GrowsLate(len, c) ==
  IF len > c THEN IF c = 0 THEN InitialCap ELSE 2 * c ELSE c

CapFor(len, c) ==
  IF len + 1 >= c THEN IF c = 0 THEN InitialCap ELSE 2 * c ELSE c

PushInstruction(i) ==
  /\ code' = Append(code, i)
  /\ cap' = CapFor(Len(code), cap)

PushTwo(i, j) ==
  /\ code' = code \o <<i, j>>
  /\ cap' = CapFor(Len(code) + 1, CapFor(Len(code), cap))

-----------------------------------------------------------------------------
\* main compiles the root into REG1, with every register free.
Init ==
  /\ root \in Trees
  /\ phase = "ir"
  /\ todo = <<Gen(root, REG1)>>
  /\ regUsed = {}
  /\ code = <<>>
  /\ cap = 0
  /\ asm = <<>>
  /\ err = 0

Fail(e) ==
  /\ err' = e
  /\ phase' = "done"
  /\ UNCHANGED <<root, todo, code, cap, asm>>

Compiling == phase = "ir" /\ todo # <<>>
Compiles(op) == Compiling /\ todo[1].do = "gen" /\ todo[1].expr.op = op

GenLiteral ==
  /\ Compiles("num")
  /\ PushInstruction(MovLiteral(todo[1].expr.at, todo[1].reg))
  /\ todo' = Tail(todo)
  /\ UNCHANGED <<root, phase, regUsed, asm, err>>

GenUnaryPlus ==
  /\ Compiles("pos")
  /\ todo' = <<Gen(todo[1].expr.args[1], todo[1].reg)>> \o Tail(todo)
  /\ UNCHANGED <<root, phase, regUsed, code, cap, asm, err>>

GenUnaryMinus ==
  /\ Compiles("neg")
  /\ todo' = <<Gen(todo[1].expr.args[1], todo[1].reg), MulConstTask(todo[1].reg)>>
             \o Tail(todo)
  /\ UNCHANGED <<root, phase, regUsed, code, cap, asm, err>>

GenBinary_FreesRight ==
  /\ \E op \in {"add", "sub", "mul"} : Compiles(op)
  /\ LET e == todo[1].expr
         left == FirstFree(regUsed)
         right == FirstFree(regUsed \cup {left})
     IN IF Cardinality(FreeRegs(regUsed)) < 2
        THEN /\ Fail(E_BADREGISTER)
             /\ regUsed' = Regs
        ELSE /\ regUsed' = regUsed \cup {left}
             /\ todo' = <<Gen(e.args[1], left), Gen(e.args[2], right),
                          OpTask(e.op, left, right, todo[1].reg)>> \o Tail(todo)
             /\ UNCHANGED <<root, phase, code, cap, asm, err>>

GenBinary_SwapsOperands ==
  /\ \E op \in {"add", "sub", "mul"} : Compiles(op)
  /\ LET e == todo[1].expr
         left == FirstFree(regUsed)
         right == FirstFree(regUsed \cup {left})
     IN IF Cardinality(FreeRegs(regUsed)) < 2
        THEN /\ Fail(E_BADREGISTER)
             /\ regUsed' = Regs
        ELSE /\ regUsed' = regUsed \cup {left, right}
             /\ todo' = <<Gen(e.args[2], left), Gen(e.args[1], right),
                          OpTask(e.op, left, right, todo[1].reg)>> \o Tail(todo)
             /\ UNCHANGED <<root, phase, code, cap, asm, err>>

\* The three binary cases differ only in the instruction they emit.  Both
\* registers are taken before the operands are compiled.
GenBinary ==
  /\ \E op \in {"add", "sub", "mul"} : Compiles(op)
  /\ LET e == todo[1].expr
         left == FirstFree(regUsed)
         right == FirstFree(regUsed \cup {left})
     IN IF Cardinality(FreeRegs(regUsed)) < 2
        THEN /\ Fail(E_BADREGISTER)
             /\ regUsed' = Regs
        ELSE /\ regUsed' = regUsed \cup {left, right}
             /\ todo' = <<Gen(e.args[1], left), Gen(e.args[2], right),
                          OpTask(e.op, left, right, todo[1].reg)>> \o Tail(todo)
             /\ UNCHANGED <<root, phase, code, cap, asm, err>>

\* The switch on the type of an expression_t nobody wrote: no case applies, or
\* the literal case reads through whatever v holds.
GenJunk ==
  /\ Compiles("junk")
  /\ \/ /\ todo' = Tail(todo)
        /\ UNCHANGED <<root, phase, regUsed, code, cap, asm, err>>
     \/ /\ PushInstruction(MovLiteral(0, todo[1].reg))
        /\ todo' = Tail(todo)
        /\ UNCHANGED <<root, phase, regUsed, asm, err>>
     \/ Fail(CRASH) /\ UNCHANGED regUsed

EmitMulConstant ==
  /\ Compiling
  /\ todo[1].do = "mulconst"
  /\ PushInstruction(MulConstant(todo[1].reg))
  /\ todo' = Tail(todo)
  /\ UNCHANGED <<root, phase, regUsed, asm, err>>

\* The instruction of a binary node leaves its result in the left register;
\* it is copied when the caller asked for another one.
EmitBinary ==
  /\ Compiling
  /\ todo[1].do = "op"
  /\ LET o == todo[1]
         i == BinaryInstruction(o.op, o.a, o.b)
     IN IF o.a # o.reg THEN PushTwo(i, MovRegister(o.a, o.reg)) ELSE PushInstruction(i)
  /\ todo' = Tail(todo)
  /\ UNCHANGED <<root, phase, regUsed, asm, err>>

\* Every emit_* function returns E_OOM when the arena has no memory for it.
EmitFails ==
  /\ Compiling
  /\ todo[1].do \in {"mulconst", "op"} \/ Compiles("num")
  /\ Fail(E_OOM)
  /\ UNCHANGED regUsed

IrDone ==
  /\ phase = "ir"
  /\ todo = <<>>
  /\ phase' = "asm"
  /\ UNCHANGED <<root, todo, regUsed, code, cap, asm, err>>

-----------------------------------------------------------------------------
(***************************************************************************)
(* The x86 line printed for an instruction: opcode, destination, source.   *)
(* A negation is "neg rax" and a subtraction "sub rax, rbx" whatever their *)
(* registers are; a subtraction is refused unless they are REG1 and REG2.  *)
(***************************************************************************)
Printed(t, to, from, lit) == [t |-> t, a |-> to, b |-> from, lit |-> lit]

Lower_MulAdds(i) ==
  CASE i.t = "MOV_LITERAL"  -> Printed("mov", i.a, i.a, i.lit)
    [] i.t = "MOV_REGISTER" -> Printed("movr", i.a, i.b, 0)
    [] i.t = "MUL_CONSTANT" -> Printed("neg", OUT_REG, OUT_REG, 0)
    [] i.t \in {"ADD_BINARY", "MUL_BINARY"} -> Printed("add", i.a, i.b, 0)
    [] i.t = "SUB_BINARY"   -> Printed("sub", OUT_REG, REG1, 0)

Lower(i) ==
  CASE i.t = "MOV_LITERAL"  -> Printed("mov", i.a, i.a, i.lit)
    [] i.t = "MOV_REGISTER" -> Printed("movr", i.a, i.b, 0)
    [] i.t = "MUL_CONSTANT" -> Printed("neg", OUT_REG, OUT_REG, 0)
    [] i.t = "ADD_BINARY"   -> Printed("add", i.a, i.b, 0)
    [] i.t = "MUL_BINARY"   -> Printed("imul", i.a, i.b, 0)
    [] i.t = "SUB_BINARY"   -> Printed("sub", OUT_REG, REG1, 0)

Refused_SwappedRegs(i) == i.t = "SUB_BINARY" /\ (i.a # OUT_REG \/ i.b # REG1)

Refused(i) == i.t = "SUB_BINARY" /\ (i.a # REG1 \/ i.b # REG2)

PrintInstruction ==
  /\ phase = "asm"
  /\ Len(asm) < Len(code)
  /\ LET i == code[Len(asm) + 1]
     IN IF Refused(i)
        THEN Fail(E_BADREGISTER)
        ELSE /\ asm' = Append(asm, Lower(i))
             /\ UNCHANGED <<root, phase, todo, code, cap, err>>
  /\ UNCHANGED regUsed

\* The call of print_number, which prints rax, and the exit.
PrintEpilogue ==
  /\ phase = "asm"
  /\ Len(asm) = Len(code)
  /\ phase' = "done"
  /\ UNCHANGED <<root, todo, regUsed, code, cap, asm, err>>

Next ==
  \/ GenLiteral \/ GenUnaryPlus \/ GenUnaryMinus \/ GenBinary \/ GenJunk
  \/ EmitMulConstant \/ EmitBinary \/ EmitFails \/ IrDone
  \/ PrintInstruction \/ PrintEpilogue

Spec == Init /\ [][Next]_vars

-----------------------------------------------------------------------------
(* Properties *)

\* Every register that waits in a task or stands in an instruction is one of the pool's.
TypeOK ==
  /\ phase \in {"ir", "asm", "done"}
  /\ \A k \in 1..Len(todo) :
       /\ todo[k].do \in {"gen", "mulconst", "op"}
       /\ {todo[k].a, todo[k].b, todo[k].reg} \subseteq Regs
  /\ regUsed \subseteq Regs
  /\ \A k \in 1..Len(code) : code[k].a \in Regs /\ code[k].b \in Regs
  /\ cap \in Nat
  /\ Len(asm) <= Len(code)
  /\ err \in {0, E_BADREGISTER, E_OOM, CRASH}

\* A register is promised to one use at a time: the operand registers of the
\* binary nodes being compiled are all different, so that compiling a right
\* operand, however deep, never overwrites a left one already computed.
PendingOperandsApart ==
  \A k \in 1..Len(todo) : todo[k].do = "op" =>
    /\ todo[k].a # todo[k].b
    /\ \A j \in 1..Len(todo) : todo[j].do = "op" /\ j # k =>
         {todo[j].a, todo[j].b} \cap {todo[k].a, todo[k].b} = {}

\* push_instruction writes inside the array it has, and the array it asks the
\* arena for, which does not check, fits a chunk while the program is shorter.
VectorInBounds ==
  /\ Len(code) <= cap
  /\ Len(code) < ChunkSlots => cap <= ChunkSlots
=============================================================================
