--------------------------- MODULE DumbcSemantics ---------------------------
(***************************************************************************)
(* What the code of DumbcCodegen computes, against what the expression     *)
(* means.  Both are terms: the meaning of a tree is the tree without its   *)
(* unary pluses, and running instructions builds a term in each register.  *)
(* The integers behind the terms, their width included, are left out: two  *)
(* programs that build the same term compute the same number.              *)
(***************************************************************************)
EXTENDS DumbcCodegen

CONSTANT MaxDepth  \* how deep the expressions are nested

\* The operands of the nodes of S.
Operands(S) == UNION { { e.args[k] : k \in DOMAIN e.args } : e \in S }

\* The nodes d levels below the roots.
Level[d \in 0..MaxDepth] == IF d = 0 THEN Trees ELSE Operands(Level[d - 1])

Exprs == UNION { Level[d] : d \in 0..MaxDepth }

\* What the parse functions write in an expression_t, or nothing.
IsNode(e) ==
  \/ e = Literal(e.at) \/ e = Junk
  \/ e.op = "pos" /\ e = UnaryPlus(e.args[1])
  \/ e.op = "neg" /\ e = UnaryMinus(e.args[1])
  \/ e.op = "add" /\ e = BinaryPlus(e.args[1], e.args[2])
  \/ e.op = "sub" /\ e = BinaryMinus(e.args[1], e.args[2])
  \/ e.op = "mul" /\ e = BinaryMul(e.args[1], e.args[2])

ASSUME TreesAssumption ==
  /\ MaxDepth \in Nat
  /\ Operands(Level[MaxDepth]) = {}
  /\ \A e \in Exprs : IsNode(e)

Binary(op, l, r) == [op |-> op, at |-> 0, args |-> <<l, r>>]

Meaning[e \in Exprs] ==
  CASE e.op = "pos" -> Meaning[e.args[1]]
    [] e.op = "neg" -> UnaryMinus(Meaning[e.args[1]])
    [] e.op \in {"add", "sub", "mul"} -> Binary(e.op, Meaning[e.args[1]], Meaning[e.args[2]])
    [] OTHER -> e

\* The nodes of a tree whose operation is in ops.
Count(e, ops) ==
  LET C[x \in Exprs] ==
        (IF x.op \in ops THEN 1 ELSE 0)
        + (IF x.args = <<>> THEN 0 ELSE C[x.args[1]])
        + (IF Len(x.args) = 2 THEN C[x.args[2]] ELSE 0)
  IN C[e]

Binaries(e) == Count(e, {"add", "sub", "mul"})

Unwritten == [op |-> "unwritten", at |-> 0, args |-> <<>>]

NoRegister == [r \in Regs |-> Unwritten]

\* The effect on the registers of an instruction of the intermediate code, and of the
\* line printed for one.
Execute(regs, i) ==
  [regs EXCEPT ![i.a] =
    CASE i.t \in {"MOV_LITERAL", "mov"}   -> Literal(i.lit)
      [] i.t \in {"MOV_REGISTER", "movr"} -> regs[i.b]
      [] i.t \in {"MUL_CONSTANT", "neg"}  -> UnaryMinus(regs[i.a])
      [] i.t \in {"ADD_BINARY", "add"}    -> Binary("add", regs[i.a], regs[i.b])
      [] i.t \in {"SUB_BINARY", "sub"}    -> Binary("sub", regs[i.a], regs[i.b])
      [] i.t \in {"MUL_BINARY", "imul"}   -> Binary("mul", regs[i.a], regs[i.b])]

\* The registers after a program.
Run(program) ==
  LET R[k \in 0..Len(program)] ==
        IF k = 0 THEN NoRegister ELSE Execute(R[k - 1], program[k])
  IN R[Len(program)]

WellFormed(e) == Count(e, {"junk"}) = 0

-----------------------------------------------------------------------------
(* Properties *)

\* The intermediate code is right: it leaves in REG1, the register main asks
\* for, the value of the expression, for every shape of tree.
IRCorrect ==
  phase = "asm" /\ WellFormed(root) => Run(code)[REG1] = Meaning[root]

\* What makes a compilation fail, memory apart: more binary operators than pairs
\* of registers (none is ever freed), or any subtraction, since the allocator
\* never gives the pair (REG1, REG2) the printer insists on.
CompilesWithinRegisters ==
  phase = "done" /\ WellFormed(root) /\ err # E_OOM =>
    (err = 0 <=> 2 * Binaries(root) <= MaxRegs /\ Count(root, {"sub"}) = 0)

\* An expression without the unary operators around it.
Unwrapped[e \in Exprs] == IF e.op \in {"pos", "neg"} THEN Unwrapped[e.args[1]] ELSE e

\* The expressions whose negations all apply to rax: around the whole binary
\* expression, or around its left operand.
NegationsInRax(e) ==
  LET b == Unwrapped[e]
  IN /\ Binaries(b) > 0
     /\ Count(Unwrapped[b.args[1]], {"neg"}) = 0
     /\ Count(b.args[2], {"neg"}) = 0

\* What ./out prints is the value of the expression when an operator remains
\* once outer signs are removed and every negation applies to rax; the printed
\* assembly negates rax whatever register the code generator named.
PrintsTheValue ==
  phase = "done" /\ err = 0 /\ WellFormed(root) /\ NegationsInRax(root) =>
    Run(asm)[OUT_REG] = Meaning[root]

\* "Printing the stuff that were in rax" (main.c:1379): the code computes into
\* rax what is printed from it.
PrintsWhatIsInRax ==
  phase = "done" /\ err = 0 /\ WellFormed(root) =>
    \E k \in 1..Len(asm) : asm[k].a = OUT_REG
=============================================================================
