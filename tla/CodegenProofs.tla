----------------------------- MODULE CodegenProofs -----------------------------
(***************************************************************************)
(* For every set of expressions, of any size, and any number of registers: *)
(* the operands of the binary nodes under compilation are in registers of  *)
(* their own; the instruction vector is written inside its array, which    *)
(* fits its chunk; the intermediate code computes the value of its         *)
(* expression; the compiler refuses just what needs more registers than    *)
(* there are, or subtracts; and what is printed is that value, if what is  *)
(* negated is in rax.                                                      *)
(***************************************************************************)
EXTENDS DumbcSemantics, ProofLemmas

(***************************************************************************)
(* The invariant, of tasks t with the registers u in use, and of a vector  *)
(* c of capacity n.  The operands of a new node are apart from the pending *)
(* ones because these are in use (Held).  The capacity is a doubling of    *)
(* InitialCap, one of the set D, while the program is shorter than a chunk.*)
(***************************************************************************)
IsTask(x) == x.do \in {"gen", "mulconst", "op"} /\ {x.a, x.b, x.reg} \subseteq Regs

Held(t, u) == \A k \in 1..Len(t) : t[k].do = "op" => {t[k].a, t[k].b} \subseteq u

Apart(t) ==
  \A k \in 1..Len(t) : t[k].do = "op" =>
    /\ t[k].a # t[k].b
    /\ \A j \in 1..Len(t) : t[j].do = "op" /\ j # k => {t[j].a, t[j].b} \cap {t[k].a, t[k].b} = {}

TodoOK(t, u) ==
  /\ IsSeq(t)
  /\ \A k \in 1..Len(t) : IsTask(t[k])
  /\ u \subseteq Regs
  /\ Held(t, u)
  /\ Apart(t)

Doublings(D) ==
  /\ D \subseteq 1..ChunkSlots /\ InitialCap \in D
  /\ \A c \in D : c = ChunkSlots \/ 2 * c \in D

CodeOK(c, n, D) ==
  /\ IsSeq(c)
  /\ \A k \in 1..Len(c) : c[k].a \in Regs /\ c[k].b \in Regs
  /\ n \in Nat
  /\ Len(c) <= n
  /\ Len(c) < ChunkSlots => n \in D \cup {0}

PrintOK ==
  /\ phase \in {"ir", "asm", "done"}
  /\ IsSeq(asm)
  /\ Len(asm) <= Len(code)
  /\ err \in {0, E_BADREGISTER, E_OOM, CRASH}

IInv(D) == TodoOK(todo, regUsed) /\ CodeOK(code, cap, D) /\ PrintOK

-----------------------------------------------------------------------------
(* Sequences whose elements have no common type *)

LEMMA IsSeqConcat ==
  ASSUME NEW s, IsSeq(s), NEW t, IsSeq(t)
  PROVE  /\ IsSeq(s \o t) /\ Len(s) \in Nat /\ Len(t) \in Nat /\ Len(s \o t) = Len(s) + Len(t)
         /\ \A k \in 1..Len(s) : (s \o t)[k] = s[k]
         /\ \A k \in 1..Len(t) : (s \o t)[Len(s) + k] = t[k]
<1>1. PICK S : s \in Seq(S)
  BY DEF IsSeq
<1>2. PICK T : t \in Seq(T)
  BY DEF IsSeq
<1>3. s \in Seq(S \cup T) /\ t \in Seq(S \cup T)
  BY <1>1, <1>2
<1>4. s \o t \in Seq(S \cup T)
  BY <1>3
<1> QED
  BY <1>3, <1>4 DEF IsSeq

\* Two elements appended at once or one after the other.
LEMMA TwoAppends ==
  ASSUME NEW c, IsSeq(c), NEW i, NEW j
  PROVE  c \o <<i, j>> = Append(Append(c, i), j)
<1>1. PICK T : c \in Seq(T)
  BY DEF IsSeq
<1>2. c \in Seq(T \cup {i, j})
  BY <1>1
<1> QED
  BY <1>2

\* A sequence without its first element.
LEMMA IsSeqTail ==
  ASSUME NEW s, IsSeq(s), s # <<>>
  PROVE  /\ IsSeq(Tail(s)) /\ Len(s) \in Nat \ {0} /\ Len(Tail(s)) = Len(s) - 1
         /\ \A k \in 1..(Len(s) - 1) : Tail(s)[k] = s[k + 1]
<1>1. PICK T : s \in Seq(T)
  BY DEF IsSeq
<1>2. Tail(s) \in Seq(T)
  BY <1>1
<1> QED
  BY <1>1, <1>2 DEF IsSeq

-----------------------------------------------------------------------------
(* Registers *)

\* register_allocate returns a register that is not in use, if there is one.
LEMMA FirstFreeIsFree ==
  ASSUME NEW u, FreeRegs(u) # {}
  PROVE  FirstFree(u) \in FreeRegs(u) /\ \A q \in FreeRegs(u) : FirstFree(u) <= q
<1>1. FreeRegs(u) \subseteq Nat
  BY CodegenAssumption DEF FreeRegs, Regs
<1> QED
  BY <1>1, Least DEF FirstFree

\* The two registers a binary node takes are different, and neither was in use.
LEMMA OperandRegisters ==
  ASSUME NEW u, ~ (Cardinality(FreeRegs(u)) < 2)
  PROVE  LET left == FirstFree(u)
             right == FirstFree(u \cup {left})
         IN left \in Regs \ u /\ right \in Regs \ u /\ left # right
<1> DEFINE left == FirstFree(u)
           right == FirstFree(u \cup {left})
<1>1. Cardinality({}) = 0
  BY FS_EmptySet
<1>2. FreeRegs(u) # {}
  BY <1>1
<1>3. left \in FreeRegs(u)
  BY <1>2, FirstFreeIsFree
<1>4. FreeRegs(u \cup {left}) # {}
  <2>1. SUFFICES ASSUME FreeRegs(u \cup {left}) = {} PROVE FALSE
    OBVIOUS
  <2> HIDE DEF left
  <2>2. FreeRegs(u) = {left}
    BY <1>3, <2>1 DEF FreeRegs
  <2>3. Cardinality({left}) = 1
    BY FS_Singleton
  <2> QED
    BY <2>2, <2>3
<1>5. right \in FreeRegs(u \cup {left})
  BY <1>4, FirstFreeIsFree
<1> QED
  BY <1>3, <1>5 DEF FreeRegs

-----------------------------------------------------------------------------
(* Tasks *)

\* The first task makes room for the tasks f, of which at most one is of a binary node;
\* its operands were not in use.
LEMMA TaskReplaced ==
  ASSUME NEW t, NEW u, TodoOK(t, u), t # <<>>,
         NEW f, IsSeq(f), \A k \in 1..Len(f) : IsTask(f[k]),
         \A k \in 1..Len(f) : f[k].do = "op" =>
           f[k].a \notin u /\ f[k].b \notin u /\ f[k].a # f[k].b,
         \A j, k \in 1..Len(f) : f[j].do = "op" /\ f[k].do = "op" => j = k,
         NEW v, u \subseteq v, v \subseteq Regs, Held(f, v)
  PROVE  TodoOK(f \o Tail(t), v)
<1> DEFINE s == f \o Tail(t)
           n == Len(f)
           m == Len(t)
<1>1. /\ IsSeq(Tail(t)) /\ m \in Nat \ {0} /\ Len(Tail(t)) = m - 1
      /\ \A k \in 1..(m - 1) : Tail(t)[k] = t[k + 1]
  BY IsSeqTail DEF TodoOK
<1>2. /\ IsSeq(s) /\ n \in Nat /\ Len(s) = n + (m - 1)
      /\ \A k \in 1..n : s[k] = f[k]
      /\ \A k \in 1..(m - 1) : s[n + k] = t[k + 1]
  BY <1>1, IsSeqConcat
<1> HIDE DEF s, n, m
<1>3. \A k \in 1..Len(s) : k \in 1..n \/ (k \notin 1..n /\ k - n \in 1..(m - 1) /\ k = n + (k - n))
  BY <1>1, <1>2
<1>4. \A k \in 1..Len(s) : \/ k \in 1..n /\ s[k] = f[k]
                           \/ k \notin 1..n /\ k - n + 1 \in 1..m /\ s[k] = t[k - n + 1]
  <2>1. \A k \in 1..(m - 1) : k + 1 \in 1..m
    BY <1>1
  <2> QED
    BY <1>2, <1>3, <2>1
<1>5. \A k \in 1..Len(s) : IsTask(s[k])
  BY <1>4 DEF TodoOK, n, m
<1>6. Held(s, v)
  BY <1>4 DEF TodoOK, Held, n, m
<1>7. Apart(s)
  <2>1. SUFFICES ASSUME NEW k \in 1..Len(s), s[k].do = "op"
                 PROVE  /\ s[k].a # s[k].b
                        /\ \A j \in 1..Len(s) : s[j].do = "op" /\ j # k =>
                             {s[j].a, s[j].b} \cap {s[k].a, s[k].b} = {}
    BY DEF Apart
  <2>2. s[k].a # s[k].b
    BY <1>4, <2>1 DEF TodoOK, Apart, n, m
  <2>3. ASSUME NEW j \in 1..Len(s), s[j].do = "op", j # k
        PROVE  {s[j].a, s[j].b} \cap {s[k].a, s[k].b} = {}
    <3>1. CASE j \in 1..n /\ k \in 1..n
      BY <1>4, <2>1, <2>3, <3>1 DEF n
    <3>2. CASE j \in 1..n /\ k \notin 1..n
      BY <1>4, <2>1, <2>3, <3>2 DEF TodoOK, Held, n, m
    <3>3. CASE j \notin 1..n /\ k \in 1..n
      BY <1>4, <2>1, <2>3, <3>3 DEF TodoOK, Held, n, m
    <3>4. CASE j \notin 1..n /\ k \notin 1..n
      <4>1. j - n + 1 # k - n + 1
        BY <1>2, <2>3
      <4> QED
        BY <1>4, <2>1, <2>3, <3>4, <4>1 DEF TodoOK, Apart, m
    <3> QED
      BY <3>1, <3>2, <3>3, <3>4
  <2> QED
    BY <2>2, <2>3
<1> QED
  BY <1>2, <1>5, <1>6, <1>7 DEF TodoOK, s

\* The first task is done.
LEMMA TaskDone ==
  ASSUME NEW t, NEW u, TodoOK(t, u), t # <<>>
  PROVE  TodoOK(Tail(t), u)
<1>1. /\ IsSeq(Tail(t)) /\ Len(t) \in Nat \ {0} /\ Len(Tail(t)) = Len(t) - 1
      /\ \A k \in 1..(Len(t) - 1) : Tail(t)[k] = t[k + 1]
  BY IsSeqTail DEF TodoOK
<1>2. \A k \in 1..Len(Tail(t)) : k + 1 \in 1..Len(t) /\ Tail(t)[k] = t[k + 1]
  BY <1>1
<1>3. \A j, k \in 1..Len(Tail(t)) : j # k => j + 1 # k + 1
  BY <1>1
<1> QED
  BY <1>1, <1>2, <1>3 DEF TodoOK, Held, Apart

-----------------------------------------------------------------------------
(* The vector *)

LEMMA PushOK ==
  ASSUME NEW D, Doublings(D), NEW c, NEW n, CodeOK(c, n, D),
         NEW i, i.a \in Regs, i.b \in Regs
  PROVE  CodeOK(Append(c, i), CapFor(Len(c), n), D) /\ Len(c) \in Nat /\ Len(Append(c, i)) = Len(c) + 1
<1> DEFINE m == Len(c)
           n2 == CapFor(m, n)
<1>1. /\ IsSeq(Append(c, i)) /\ m \in Nat /\ Len(Append(c, i)) = m + 1
      /\ \A k \in 1..m : Append(c, i)[k] = c[k]
      /\ Append(c, i)[m + 1] = i
  BY IsSeqAppend DEF CodeOK
<1>2. \A k \in 1..Len(Append(c, i)) : Append(c, i)[k].a \in Regs /\ Append(c, i)[k].b \in Regs
  BY <1>1 DEF CodeOK
<1>3. n \in Nat /\ m <= n /\ (m < ChunkSlots => n \in D \cup {0})
  BY DEF CodeOK
<1>4. InitialCap \in Nat \ {0} /\ ChunkSlots \in Nat
  BY CodegenAssumption
<1> HIDE DEF m
<1>5. n2 \in Nat /\ m + 1 <= n2
  BY <1>1, <1>3, <1>4 DEF CapFor
<1>6. m + 1 < ChunkSlots => n2 \in D \cup {0}
  BY <1>1, <1>3, <1>4 DEF CapFor, Doublings
<1> QED
  BY <1>1, <1>2, <1>5, <1>6 DEF CodeOK, m

\* Two instructions are pushed, each into a vector that was grown for it.
LEMMA PushTwoOK ==
  ASSUME NEW D, Doublings(D), NEW c, NEW n, CodeOK(c, n, D),
         NEW i, i.a \in Regs, i.b \in Regs, NEW j, j.a \in Regs, j.b \in Regs
  PROVE  /\ CodeOK(c \o <<i, j>>, CapFor(Len(c) + 1, CapFor(Len(c), n)), D)
         /\ Len(c) \in Nat /\ Len(c \o <<i, j>>) = Len(c) + 2
<1> DEFINE d == Append(c, i)
           p == CapFor(Len(c), n)
<1>1. CodeOK(d, p, D) /\ Len(c) \in Nat /\ Len(d) = Len(c) + 1
  BY PushOK
<1>2. /\ CodeOK(Append(d, j), CapFor(Len(c) + 1, p), D)
      /\ Len(Append(d, j)) = Len(c) + 2
  <2> HIDE DEF d, p
  <2>1. CodeOK(Append(d, j), CapFor(Len(d), p), D) /\ Len(Append(d, j)) = Len(d) + 1
    BY <1>1, PushOK
  <2> QED
    BY <1>1, <2>1
<1>3. Append(Append(c, i), j) = c \o <<i, j>>
  BY TwoAppends DEF CodeOK
<1> QED
  BY <1>1, <1>2, <1>3

-----------------------------------------------------------------------------

LEMMA IInvImplies ==
  ASSUME NEW D, Doublings(D), IInv(D)
  PROVE  TypeOK /\ PendingOperandsApart /\ VectorInBounds
<1>1. TypeOK
  BY DEF IInv, TodoOK, IsTask, CodeOK, PrintOK, TypeOK
<1>2. PendingOperandsApart
  BY DEF IInv, TodoOK, Apart, PendingOperandsApart
<1>3. VectorInBounds
  BY CodegenAssumption DEF IInv, CodeOK, Doublings, VectorInBounds
<1> QED
  BY <1>1, <1>2, <1>3

\* The first invariant holds before anything is compiled.
LEMMA InitIInv ==
  ASSUME NEW D, Doublings(D), Init
  PROVE  IInv(D)
<1>1. REG1 \in Regs
  BY CodegenAssumption DEF REG1, Regs
<1>2. /\ Gen(root, REG1).do = "gen" /\ Gen(root, REG1).a = REG1
      /\ Gen(root, REG1).b = REG1 /\ Gen(root, REG1).reg = REG1
  BY DEF Gen
<1>3. todo = <<Gen(root, REG1)>>
  BY DEF Init
<1>4. IsSeq(todo) /\ Len(todo) = 1 /\ todo[1] = Gen(root, REG1)
  <2> HIDE DEF Gen
  <2>1. todo \in Seq({Gen(root, REG1)})
    BY <1>3
  <2> QED
    BY <1>3, <2>1 DEF IsSeq
<1>5. TodoOK(todo, regUsed)
  BY <1>1, <1>2, <1>4 DEF Init, TodoOK, IsTask, Held, Apart
<1>6. IsSeq(<<>>)
  <2>1. <<>> \in Seq({})
    OBVIOUS
  <2> QED
    BY <2>1 DEF IsSeq
<1>7. CodeOK(code, cap, D) /\ PrintOK
  BY <1>6 DEF Init, CodeOK, PrintOK
<1> QED
  BY <1>5, <1>7 DEF IInv

-----------------------------------------------------------------------------
(* The steps *)

\* What the task, the instructions and the failures of the model are.
LEMMA TasksAre ==
  ASSUME NEW e, NEW r \in Regs
  PROVE  /\ IsTask(Gen(e, r)) /\ Gen(e, r).do = "gen"
         /\ IsTask(MulConstTask(r)) /\ MulConstTask(r).do = "mulconst"
  BY DEF IsTask, Gen, MulConstTask

\* The registers of the instructions made by the helpers are those they are given.
LEMMA InstructionsAre ==
  ASSUME NEW r \in Regs, NEW q \in Regs
  PROVE  /\ \A at : MovLiteral(at, r).a \in Regs /\ MovLiteral(at, r).b \in Regs
         /\ MovRegister(r, q).a \in Regs /\ MovRegister(r, q).b \in Regs
         /\ MulConstant(r).a \in Regs /\ MulConstant(r).b \in Regs
         /\ \A op : BinaryInstruction(op, r, q).a \in Regs /\ BinaryInstruction(op, r, q).b \in Regs
  BY DEF MovLiteral, MovRegister, MulConstant, BinaryInstruction

\* A sequence of one or two tasks.
LEMMA IsSeqOne ==
  ASSUME NEW x
  PROVE  IsSeq(<<x>>) /\ Len(<<x>>) = 1 /\ <<x>>[1] = x
<1>1. <<x>> \in Seq({x})
  OBVIOUS
<1> QED
  BY <1>1 DEF IsSeq

LEMMA IsSeqTwo ==
  ASSUME NEW x, NEW y
  PROVE  IsSeq(<<x, y>>) /\ Len(<<x, y>>) = 2 /\ <<x, y>>[1] = x /\ <<x, y>>[2] = y
<1>1. <<x, y>> \in Seq({x, y})
  OBVIOUS
<1> QED
  BY <1>1 DEF IsSeq

\* A sequence of three tasks.
LEMMA IsSeqThree ==
  ASSUME NEW x, NEW y, NEW z
  PROVE  /\ IsSeq(<<x, y, z>>) /\ Len(<<x, y, z>>) = 3
         /\ <<x, y, z>>[1] = x /\ <<x, y, z>>[2] = y /\ <<x, y, z>>[3] = z
<1>1. <<x, y, z>> \in Seq({x, y, z})
  OBVIOUS
<1> QED
  BY <1>1 DEF IsSeq

\* The task at the head of the list.
LEMMA HeadTask ==
  ASSUME NEW D, IInv(D), Compiling
  PROVE  todo # <<>> /\ todo[1].a \in Regs /\ todo[1].b \in Regs /\ todo[1].reg \in Regs
<1>1. Len(todo) \in Nat \ {0}
  BY IsSeqTail DEF IInv, TodoOK, Compiling
<1> QED
  BY <1>1 DEF IInv, TodoOK, IsTask, Compiling

\* A step that fails changes nothing but the error and the phase, and may mark every
\* register as used.
LEMMA FailInv ==
  ASSUME NEW D, IInv(D), NEW e \in {E_BADREGISTER, E_OOM, CRASH}, Fail(e),
         regUsed' = regUsed \/ regUsed' = Regs
  PROVE  IInv(D)'
<1>1. UNCHANGED <<todo, code, cap, asm>> /\ phase' = "done" /\ err' = e
  BY DEF Fail
<1>2. TodoOK(todo, regUsed')
  BY DEF IInv, TodoOK, Held
<1> QED
  BY <1>1, <1>2 DEF IInv, PrintOK

\* A push leaves what is printed a prefix.
LEMMA PushInv ==
  ASSUME NEW D, Doublings(D), IInv(D), NEW i, i.a \in Regs, i.b \in Regs, PushInstruction(i),
         UNCHANGED <<phase, asm, err>>
  PROVE  CodeOK(code, cap, D)' /\ PrintOK'
<1>1. CodeOK(code', cap', D) /\ Len(code) \in Nat /\ Len(code') = Len(code) + 1
  BY PushOK DEF IInv, PushInstruction
<1>2. Len(asm) \in Nat
  BY DEF IInv, PrintOK, IsSeq
<1> QED
  BY <1>1, <1>2 DEF IInv, PrintOK

\* The registers of a binary node are new, so that its operands and every pending one
\* are apart.
LEMMA GenBinaryInv ==
  ASSUME NEW D, IInv(D), GenBinary
  PROVE  IInv(D)'
<1> DEFINE left == FirstFree(regUsed)
           right == FirstFree(regUsed \cup {left})
           e == todo[1].expr
           x == Gen(e.args[1], left)
           y == Gen(e.args[2], right)
           z == OpTask(e.op, left, right, todo[1].reg)
           f == <<x, y, z>>
           v == regUsed \cup {left, right}
<1>1. Compiling
  BY DEF GenBinary, Compiles
<1>2. CASE Cardinality(FreeRegs(regUsed)) < 2
  <2>1. Fail(E_BADREGISTER) /\ regUsed' = Regs
    BY <1>2 DEF GenBinary
  <2> QED
    BY <2>1, FailInv
<1>3. CASE ~ (Cardinality(FreeRegs(regUsed)) < 2)
  <2>1. regUsed' = v /\ todo' = f \o Tail(todo) /\ UNCHANGED <<phase, code, cap, asm, err>>
    BY <1>3 DEF GenBinary
  <2>2. left \in Regs \ regUsed /\ right \in Regs \ regUsed /\ left # right
    BY <1>3, OperandRegisters
  <2>3. todo # <<>> /\ todo[1].reg \in Regs
    BY <1>1, HeadTask
  <2>4. IsTask(z) /\ z.do = "op" /\ z.a = left /\ z.b = right
    <3> HIDE DEF left, right
    <3> QED
      BY <2>2, <2>3 DEF IsTask, OpTask
  <2>5. IsTask(x) /\ x.do = "gen" /\ IsTask(y) /\ y.do = "gen"
    BY <2>2, TasksAre
  <2>6. IsSeq(f) /\ Len(f) = 3 /\ f[1] = x /\ f[2] = y /\ f[3] = z
    BY IsSeqThree
  <2>7. regUsed \subseteq v /\ v \subseteq Regs
    BY <2>2 DEF IInv, TodoOK
  <2>8. left \in v /\ right \in v
    OBVIOUS
  <2> HIDE DEF f, x, y, z, v, left, right
  <2>9. \A k \in 1..Len(f) : IsTask(f[k]) /\ (f[k].do = "op" => k = 3)
    BY <2>4, <2>5, <2>6
  <2>10. TodoOK(f \o Tail(todo), v)
    <3>1. Held(f, v)
      BY <2>4, <2>6, <2>8, <2>9 DEF Held
    <3>2. \A k \in 1..Len(f) : f[k].do = "op" =>
            f[k].a \notin regUsed /\ f[k].b \notin regUsed /\ f[k].a # f[k].b
      BY <2>2, <2>4, <2>6, <2>9
    <3>3. TodoOK(todo, regUsed)
      BY DEF IInv
    <3> QED
      BY <2>3, <2>6, <2>7, <2>9, <3>1, <3>2, <3>3, TaskReplaced
  <2> QED
    BY <2>1, <2>10 DEF IInv, PrintOK
<1> QED
  BY <1>2, <1>3

\* Every step keeps the first invariant.
LEMMA NextIInv ==
  ASSUME NEW D, Doublings(D), IInv(D), [Next]_vars
  PROVE  IInv(D)'
<1>1. TodoOK(todo, regUsed)
  BY DEF IInv
<1>2. CASE GenLiteral
  <2>1. Compiling /\ PushInstruction(MovLiteral(todo[1].expr.at, todo[1].reg))
        /\ todo' = Tail(todo) /\ UNCHANGED <<phase, regUsed, asm, err>>
    BY <1>2 DEF GenLiteral, Compiles
  <2>2. todo # <<>> /\ todo[1].reg \in Regs
    BY <2>1, HeadTask
  <2>3. CodeOK(code, cap, D)' /\ PrintOK'
    <3>1. /\ MovLiteral(todo[1].expr.at, todo[1].reg).a \in Regs
          /\ MovLiteral(todo[1].expr.at, todo[1].reg).b \in Regs
      BY <2>2, InstructionsAre
    <3> QED
      BY <2>1, <3>1, PushInv
  <2> QED
    BY <1>1, <2>1, <2>2, <2>3, TaskDone DEF IInv
<1>3. CASE GenUnaryPlus
  <2> DEFINE x == Gen(todo[1].expr.args[1], todo[1].reg)
             f == <<x>>
  <2>1. Compiling /\ todo' = f \o Tail(todo) /\ UNCHANGED <<phase, regUsed, code, cap, asm, err>>
    BY <1>3 DEF GenUnaryPlus, Compiles
  <2>2. todo # <<>> /\ IsTask(x) /\ x.do = "gen"
    BY <2>1, HeadTask, TasksAre
  <2>3. IsSeq(f) /\ Len(f) = 1 /\ f[1] = x
    BY IsSeqOne
  <2> HIDE DEF f, x
  <2>4. \A k \in 1..Len(f) : IsTask(f[k]) /\ f[k].do # "op"
    BY <2>2, <2>3
  <2>5. Held(f, regUsed)
    BY <2>4 DEF Held
  <2>6. TodoOK(f \o Tail(todo), regUsed)
    BY <1>1, <2>2, <2>3, <2>4, <2>5, TaskReplaced DEF TodoOK
  <2> QED
    BY <2>1, <2>6 DEF IInv, PrintOK
<1>4. CASE GenUnaryMinus
  <2> DEFINE x == Gen(todo[1].expr.args[1], todo[1].reg)
             y == MulConstTask(todo[1].reg)
             f == <<x, y>>
  <2>1. Compiling /\ todo' = f \o Tail(todo) /\ UNCHANGED <<phase, regUsed, code, cap, asm, err>>
    BY <1>4 DEF GenUnaryMinus, Compiles
  <2>2. todo # <<>> /\ IsTask(x) /\ x.do = "gen" /\ IsTask(y) /\ y.do = "mulconst"
    BY <2>1, HeadTask, TasksAre
  <2>3. IsSeq(f) /\ Len(f) = 2 /\ f[1] = x /\ f[2] = y
    BY IsSeqTwo
  <2> HIDE DEF f, x, y
  <2>4. \A k \in 1..Len(f) : IsTask(f[k]) /\ f[k].do # "op"
    BY <2>2, <2>3
  <2>5. Held(f, regUsed)
    BY <2>4 DEF Held
  <2>6. TodoOK(f \o Tail(todo), regUsed)
    BY <1>1, <2>2, <2>3, <2>4, <2>5, TaskReplaced DEF TodoOK
  <2> QED
    BY <2>1, <2>6 DEF IInv, PrintOK
<1>5. CASE GenBinary
  BY <1>5, GenBinaryInv
<1>6. CASE GenJunk
  <2>1. Compiling /\ todo # <<>> /\ todo[1].reg \in Regs
    BY <1>6, HeadTask DEF GenJunk, Compiles
  <2>2. TodoOK(Tail(todo), regUsed)
    BY <1>1, <2>1, TaskDone
  <2>3. CASE todo' = Tail(todo) /\ UNCHANGED <<root, phase, regUsed, code, cap, asm, err>>
    BY <2>2, <2>3 DEF IInv, PrintOK
  <2>4. CASE /\ PushInstruction(MovLiteral(0, todo[1].reg)) /\ todo' = Tail(todo)
             /\ UNCHANGED <<root, phase, regUsed, asm, err>>
    <3>1. MovLiteral(0, todo[1].reg).a \in Regs /\ MovLiteral(0, todo[1].reg).b \in Regs
      BY <2>1, InstructionsAre
    <3>2. CodeOK(code, cap, D)' /\ PrintOK'
      BY <2>4, <3>1, PushInv
    <3> QED
      BY <2>2, <2>4, <3>2 DEF IInv
  <2>5. CASE Fail(CRASH) /\ UNCHANGED regUsed
    BY <2>5, FailInv
  <2> QED
    BY <1>6, <2>3, <2>4, <2>5 DEF GenJunk
<1>7. CASE EmitMulConstant
  <2>1. Compiling /\ PushInstruction(MulConstant(todo[1].reg))
        /\ todo' = Tail(todo) /\ UNCHANGED <<phase, regUsed, asm, err>>
    BY <1>7 DEF EmitMulConstant
  <2>2. todo # <<>> /\ todo[1].reg \in Regs
    BY <2>1, HeadTask
  <2>3. CodeOK(code, cap, D)' /\ PrintOK'
    BY <2>1, <2>2, InstructionsAre, PushInv
  <2> QED
    BY <1>1, <2>1, <2>2, <2>3, TaskDone DEF IInv
<1>8. CASE EmitBinary
  <2> DEFINE o == todo[1]
             i == BinaryInstruction(o.op, o.a, o.b)
             j == MovRegister(o.a, o.reg)
  <2>1. /\ Compiling /\ todo' = Tail(todo) /\ UNCHANGED <<phase, regUsed, asm, err>>
        /\ PushTwo(i, j) \/ PushInstruction(i)
    BY <1>8 DEF EmitBinary
  <2>2. todo # <<>> /\ o.a \in Regs /\ o.b \in Regs /\ o.reg \in Regs
    BY <2>1, HeadTask
  <2>3. i.a \in Regs /\ i.b \in Regs /\ j.a \in Regs /\ j.b \in Regs
    BY <2>2, InstructionsAre
  <2> HIDE DEF i, j
  <2>4. CASE PushInstruction(i)
    <3>1. CodeOK(code, cap, D)' /\ PrintOK'
      BY <2>1, <2>3, <2>4, PushInv
    <3> QED
      BY <1>1, <2>1, <2>2, <3>1, TaskDone DEF IInv
  <2>5. CASE PushTwo(i, j)
    <3>1. CodeOK(code', cap', D) /\ Len(code) \in Nat /\ Len(code') = Len(code) + 2
      BY <2>3, <2>5, PushTwoOK DEF IInv, PushTwo
    <3>2. Len(asm) \in Nat
      BY DEF IInv, PrintOK, IsSeq
    <3>3. PrintOK'
      BY <2>1, <3>1, <3>2 DEF IInv, PrintOK
    <3> QED
      BY <1>1, <2>1, <2>2, <3>1, <3>3, TaskDone DEF IInv
  <2> QED
    BY <2>1, <2>4, <2>5
<1>9. CASE EmitFails
  BY <1>9, FailInv DEF EmitFails
<1>10. CASE IrDone
  BY <1>10 DEF IrDone, IInv, PrintOK
<1>11. CASE PrintInstruction
  <2> DEFINE i == code[Len(asm) + 1]
  <2>1. CASE Refused(i)
    BY <1>11, <2>1, FailInv DEF PrintInstruction
  <2>2. CASE ~ Refused(i)
    <3>1. /\ asm' = Append(asm, Lower(i)) /\ Len(asm) < Len(code)
          /\ UNCHANGED <<phase, todo, code, cap, err, regUsed>>
      BY <1>11, <2>2 DEF PrintInstruction
    <3>2. Len(code) \in Nat
      BY DEF IInv, CodeOK, IsSeq
    <3>3. IsSeq(asm') /\ Len(asm) \in Nat /\ Len(asm') = Len(asm) + 1
      BY <3>1, IsSeqAppend DEF IInv, PrintOK
    <3> QED
      BY <3>1, <3>2, <3>3 DEF IInv, PrintOK
  <2> QED
    BY <2>1, <2>2
<1>12. CASE PrintEpilogue
  BY <1>12 DEF PrintEpilogue, IInv, PrintOK
<1>13. CASE UNCHANGED vars
  BY <1>13 DEF vars, IInv, PrintOK
<1> QED
  BY <1>2, <1>3, <1>4, <1>5, <1>6, <1>7, <1>8, <1>9, <1>10, <1>11, <1>12, <1>13 DEF Next

\* The three properties that follow from the first invariant.
LEMMA CodegenInvariants == Spec => [](TypeOK /\ PendingOperandsApart /\ VectorInBounds)
<1>1. PICK D : Doublings(D)
  BY CodegenAssumption DEF Doublings
<1>2. Init => IInv(D)
  BY <1>1, InitIInv
<1>3. IInv(D) /\ [Next]_vars => IInv(D)'
  BY <1>1, NextIInv
<1>4. IInv(D) => TypeOK /\ PendingOperandsApart /\ VectorInBounds
  BY <1>1, IInvImplies
<1> QED
  BY <1>2, <1>3, <1>4, PTL DEF Spec

\* The tasks, registers, instructions and errors of compile_expression_into_ir keep
\* their type, whatever expression it is given.
THEOREM CodegenTypeOK == Spec => []TypeOK
<1>1. TypeOK /\ PendingOperandsApart /\ VectorInBounds => TypeOK
  OBVIOUS
<1> QED
  BY <1>1, CodegenInvariants, PTL

\* The operands of the binary nodes being compiled are in registers of their own, for
\* any depth of the expression and any number of registers.
THEOREM CodegenOperandsApart == Spec => []PendingOperandsApart
<1>1. TypeOK /\ PendingOperandsApart /\ VectorInBounds => PendingOperandsApart
  OBVIOUS
<1> QED
  BY <1>1, CodegenInvariants, PTL

\* push_instruction writes inside the array it has, and the array fits its chunk as long
\* as the program is shorter than the chunk.
THEOREM CodegenVectorInBounds == Spec => []VectorInBounds
<1>1. TypeOK /\ PendingOperandsApart /\ VectorInBounds => VectorInBounds
  OBVIOUS
<1> QED
  BY <1>1, CodegenInvariants, PTL

-----------------------------------------------------------------------------
(***************************************************************************)
(* Expressions.  Level, Meaning, Count and Unwrapped are recursive         *)
(* functions; their equations follow once functions that satisfy them are  *)
(* known to exist, which is an induction over the levels.                  *)
(***************************************************************************)

IsLevel(n, L) == L = [d \in 0..n |-> IF d = 0 THEN Trees ELSE Operands(L[d - 1])]

\* One level more.
LEMMA LevelExtends ==
  ASSUME NEW n \in Nat, NEW L, IsLevel(n, L)
  PROVE  \E K : IsLevel(n + 1, K)
<1> DEFINE K == [d \in 0..(n + 1) |-> IF d <= n THEN L[d] ELSE Operands(L[n])]
           J == [d \in 0..(n + 1) |-> IF d = 0 THEN Trees ELSE Operands(K[d - 1])]
<1>1. ASSUME NEW d \in 0..(n + 1) PROVE K[d] = J[d]
  <2>1. CASE d = 0
    BY <2>1 DEF IsLevel
  <2>2. CASE d # 0 /\ d <= n
    <3>1. d \in 0..n /\ d - 1 \in 0..(n + 1) /\ d - 1 <= n
      BY <2>2
    <3>2. L[d] = Operands(L[d - 1])
      BY <2>2, <3>1 DEF IsLevel
    <3> QED
      BY <2>2, <3>1, <3>2
  <2>3. CASE d = n + 1
    <3>1. d - 1 = n /\ ~ (d <= n) /\ d # 0 /\ n \in 0..(n + 1) /\ n <= n
      BY <2>3
    <3>2. K[d] = Operands(L[n]) /\ K[n] = L[n]
      BY <3>1
    <3>3. J[d] = Operands(K[d - 1])
      BY <3>1
    <3> QED
      BY <3>1, <3>2, <3>3
  <2> QED
    BY <2>1, <2>2, <2>3
<1>2. K = J
  BY <1>1
<1> QED
  BY <1>2 DEF IsLevel

\* Levels down to any depth.
LEMMA LevelIs == ASSUME NEW n \in Nat PROVE \E L : IsLevel(n, L)
<1> SUFFICES ASSUME ~ \E L : IsLevel(n, L) PROVE FALSE
  OBVIOUS
<1> DEFINE B == { k \in Nat : ~ \E L : IsLevel(k, L) }
<1>1. PICK k \in B : \A j \in B : k <= j
  <2>1. B \in SUBSET Nat /\ B # {}
    OBVIOUS
  <2> QED
    BY <2>1, Least
<1>2. CASE k = 0
  <2>1. IsLevel(0, [d \in 0..0 |-> Trees])
    BY DEF IsLevel
  <2> QED
    BY <1>2, <2>1
<1>3. CASE k # 0
  <2>1. k - 1 \in Nat /\ k - 1 + 1 = k /\ ~ (k <= k - 1)
    BY <1>3
  <2> QED
    BY <1>1, <2>1, LevelExtends
<1> QED
  BY <1>2, <1>3

\* The equations of Level.
LEMMA LevelSteps ==
  /\ Level[0] = Trees
  /\ \A d \in 0..(MaxDepth - 1) : d + 1 \in 0..MaxDepth /\ Level[d + 1] = Operands(Level[d])
<1>1. IsLevel(MaxDepth, Level)
  BY LevelIs, TreesAssumption DEF Level, IsLevel
<1>2. MaxDepth \in Nat
  BY TreesAssumption
<1>3. Level[0] = Trees
  BY <1>1, <1>2 DEF IsLevel
<1>4. ASSUME NEW d \in 0..(MaxDepth - 1)
      PROVE  d + 1 \in 0..MaxDepth /\ Level[d + 1] = Operands(Level[d])
  <2>1. d + 1 \in 0..MaxDepth /\ d + 1 # 0 /\ (d + 1) - 1 = d
    BY <1>2
  <2> QED
    BY <1>1, <2>1 DEF IsLevel
<1> QED
  BY <1>3, <1>4

\* The expressions nested no deeper than n.
Upto(n) == UNION { Level[d] : d \in (MaxDepth - n)..MaxDepth }

\* What every node has below it, and how induction goes over expressions.
LEMMA Operand ==
  /\ Trees \subseteq Exprs
  /\ Exprs = Upto(MaxDepth)
  /\ \A x \in Upto(0) : \A k \in DOMAIN x.args : FALSE
  /\ \A n \in 0..(MaxDepth - 1) : \A x \in Upto(n + 1) : \A k \in DOMAIN x.args : x.args[k] \in Upto(n)
  /\ \A n \in 0..MaxDepth : Upto(n) \subseteq Exprs
  /\ \A x \in Exprs : \A k \in DOMAIN x.args : x.args[k] \in Exprs
<1>1. MaxDepth \in Nat /\ \A x \in Level[MaxDepth] : \A k \in DOMAIN x.args : FALSE
  <2>1. ASSUME NEW x \in Level[MaxDepth], NEW k \in DOMAIN x.args PROVE FALSE
    <3>1. x.args[k] \in Operands(Level[MaxDepth])
      BY DEF Operands
    <3> QED
      BY <3>1, TreesAssumption
  <2> QED
    BY <2>1, TreesAssumption
<1>2. Trees \subseteq Exprs
  BY <1>1, LevelSteps DEF Exprs
<1>3. Exprs = Upto(MaxDepth)
  BY <1>1 DEF Exprs, Upto
<1>4. \A x \in Upto(0) : \A k \in DOMAIN x.args : FALSE
  BY <1>1 DEF Upto
<1>5. ASSUME NEW n \in 0..(MaxDepth - 1), NEW x \in Upto(n + 1), NEW k \in DOMAIN x.args
      PROVE  x.args[k] \in Upto(n)
  <2>1. PICK d \in (MaxDepth - (n + 1))..MaxDepth : x \in Level[d]
    BY DEF Upto
  <2>2. d # MaxDepth
    BY <1>1, <2>1
  <2>3. d \in 0..(MaxDepth - 1) /\ d + 1 \in (MaxDepth - n)..MaxDepth
    BY <1>1, <2>2
  <2>4. x.args[k] \in Level[d + 1]
    BY <2>1, <2>3, LevelSteps DEF Operands
  <2> QED
    BY <2>3, <2>4 DEF Upto
<1>6. \A n \in 0..MaxDepth : Upto(n) \subseteq Exprs
  <2>1. \A n \in 0..MaxDepth : (MaxDepth - n)..MaxDepth \subseteq 0..MaxDepth
    BY <1>1
  <2> QED
    BY <2>1 DEF Upto, Exprs
<1>7. ASSUME NEW x \in Exprs, NEW k \in DOMAIN x.args PROVE x.args[k] \in Exprs
  <2>1. PICK d \in 0..MaxDepth : x \in Level[d]
    BY DEF Exprs
  <2>2. d # MaxDepth
    BY <1>1, <2>1
  <2>3. d \in 0..(MaxDepth - 1)
    BY <1>1, <2>2
  <2>4. x.args[k] \in Level[d + 1] /\ d + 1 \in 0..MaxDepth
    BY <2>1, <2>3, LevelSteps DEF Operands
  <2> QED
    BY <2>4 DEF Exprs
<1> QED
  BY <1>2, <1>3, <1>4, <1>5, <1>6, <1>7

\* The shapes of nodes.
LEMMA NodeShape ==
  ASSUME NEW e \in Exprs
  PROVE  /\ e.op \in {"num", "junk", "pos", "neg", "add", "sub", "mul"}
         /\ e.op \in {"num", "junk"} => e.args = <<>> /\ Len(e.args) = 0
         /\ e.op = "num" => e = Literal(e.at)
         /\ e.op \in {"pos", "neg"} => Len(e.args) = 1 /\ e.args # <<>> /\ 1 \in DOMAIN e.args
         /\ e.op \in {"add", "sub", "mul"} =>
              Len(e.args) = 2 /\ e.args # <<>> /\ 1 \in DOMAIN e.args /\ 2 \in DOMAIN e.args
<1>1. IsNode(e)
  BY TreesAssumption
<1>2. CASE e = Literal(e.at)
  BY <1>2 DEF Literal
<1>3. CASE e = Junk
  BY <1>3 DEF Junk
<1>4. CASE e.op = "pos" /\ e = UnaryPlus(e.args[1])
  BY <1>4 DEF UnaryPlus
<1>5. CASE e.op = "neg" /\ e = UnaryMinus(e.args[1])
  BY <1>5 DEF UnaryMinus
<1>6. CASE e.op = "add" /\ e = BinaryPlus(e.args[1], e.args[2])
  BY <1>6 DEF BinaryPlus
<1>7. CASE e.op = "sub" /\ e = BinaryMinus(e.args[1], e.args[2])
  BY <1>7 DEF BinaryMinus
<1>8. CASE e.op = "mul" /\ e = BinaryMul(e.args[1], e.args[2])
  BY <1>8 DEF BinaryMul
<1> QED
  BY <1>1, <1>2, <1>3, <1>4, <1>5, <1>6, <1>7, <1>8 DEF IsNode

\* Meaning, Count and Unwrapped say what they make of a node from what they make
\* of its operands.
MeaningStep(x, M) ==
  CASE x.op = "pos" -> M[x.args[1]]
    [] x.op = "neg" -> UnaryMinus(M[x.args[1]])
    [] x.op \in {"add", "sub", "mul"} -> Binary(x.op, M[x.args[1]], M[x.args[2]])
    [] OTHER -> x

IsMeaning(S, M) == M = [x \in S |-> MeaningStep(x, M)]

CountStep(x, ops, C) ==
  (IF x.op \in ops THEN 1 ELSE 0)
  + (IF x.args = <<>> THEN 0 ELSE C[x.args[1]])
  + (IF Len(x.args) = 2 THEN C[x.args[2]] ELSE 0)

IsCount(S, ops, C) == C = [x \in S |-> CountStep(x, ops, C)]

UnwrappedStep(x, U) == IF x.op \in {"pos", "neg"} THEN U[x.args[1]] ELSE x

IsUnwrapped(S, U) == U = [x \in S |-> UnwrappedStep(x, U)]

\* The operands of an expression that are looked at.
LEMMA StepsAgree ==
  ASSUME NEW x \in Exprs, NEW F, NEW G, \A k \in DOMAIN x.args : F[x.args[k]] = G[x.args[k]]
  PROVE  /\ MeaningStep(x, F) = MeaningStep(x, G)
         /\ UnwrappedStep(x, F) = UnwrappedStep(x, G)
         /\ \A ops : CountStep(x, ops, F) = CountStep(x, ops, G)
<1>1. x.op \in {"num", "junk"} => x.args = <<>> /\ Len(x.args) = 0
  BY NodeShape
<1>2. x.op \in {"pos", "neg"} => Len(x.args) = 1 /\ 1 \in DOMAIN x.args
  BY NodeShape
<1>3. x.op \in {"add", "sub", "mul"} => 1 \in DOMAIN x.args /\ 2 \in DOMAIN x.args
  BY NodeShape
<1>4. x.op \in {"num", "junk", "pos", "neg", "add", "sub", "mul"}
  BY NodeShape
<1>5. MeaningStep(x, F) = MeaningStep(x, G)
  BY <1>2, <1>3 DEF MeaningStep
<1>6. UnwrappedStep(x, F) = UnwrappedStep(x, G)
  BY <1>2 DEF UnwrappedStep
<1>7. \A ops : CountStep(x, ops, F) = CountStep(x, ops, G)
  BY <1>1, <1>2, <1>3, <1>4 DEF CountStep
<1> QED
  BY <1>5, <1>6, <1>7

\* A function for the expressions of a depth gives one for those one deeper.
LEMMA StepsExtend ==
  ASSUME NEW S \in SUBSET Exprs, NEW T \in SUBSET Exprs, S \subseteq T,
         \A x \in T : \A k \in DOMAIN x.args : x.args[k] \in S
  PROVE  /\ (\E M : IsMeaning(S, M)) => \E M : IsMeaning(T, M)
         /\ (\E U : IsUnwrapped(S, U)) => \E U : IsUnwrapped(T, U)
         /\ \A ops : (\E C : IsCount(S, ops, C)) => \E C : IsCount(T, ops, C)
<1>1. ASSUME NEW M, IsMeaning(S, M) PROVE \E K : IsMeaning(T, K)
  <2> DEFINE K == [x \in T |-> MeaningStep(x, M)]
  <2>1. \A x \in S : K[x] = M[x]
    BY <1>1 DEF IsMeaning
  <2>2. \A x \in T : MeaningStep(x, M) = MeaningStep(x, K)
    <3> HIDE DEF K
    <3> QED
      BY <2>1, StepsAgree
  <2>3. K = [x \in T |-> MeaningStep(x, K)]
    BY <2>2
  <2> QED
    BY <2>3 DEF IsMeaning
<1>2. ASSUME NEW M, IsUnwrapped(S, M) PROVE \E K : IsUnwrapped(T, K)
  <2> DEFINE K == [x \in T |-> UnwrappedStep(x, M)]
  <2>1. \A x \in S : K[x] = M[x]
    BY <1>2 DEF IsUnwrapped
  <2>2. \A x \in T : UnwrappedStep(x, M) = UnwrappedStep(x, K)
    <3> HIDE DEF K
    <3> QED
      BY <2>1, StepsAgree
  <2>3. K = [x \in T |-> UnwrappedStep(x, K)]
    BY <2>2
  <2> QED
    BY <2>3 DEF IsUnwrapped
<1>3. ASSUME NEW ops, NEW M, IsCount(S, ops, M) PROVE \E K : IsCount(T, ops, K)
  <2> DEFINE K == [x \in T |-> CountStep(x, ops, M)]
  <2>1. \A x \in S : K[x] = M[x]
    BY <1>3 DEF IsCount
  <2>2. \A x \in T : CountStep(x, ops, M) = CountStep(x, ops, K)
    <3> HIDE DEF K
    <3> QED
      BY <2>1, StepsAgree
  <2>3. K = [x \in T |-> CountStep(x, ops, K)]
    BY <2>2
  <2> QED
    BY <2>3 DEF IsCount
<1> QED
  BY <1>1, <1>2, <1>3

\* Functions that satisfy the equations of Meaning, Unwrapped and Count exist on all the
\* expressions.
LEMMA StepsHaveFunctions ==
  /\ \E M : IsMeaning(Exprs, M)
  /\ \E U : IsUnwrapped(Exprs, U)
  /\ \A ops : \E C : IsCount(Exprs, ops, C)
<1> DEFINE Good(n) == /\ \E M : IsMeaning(Upto(n), M)
                      /\ \E U : IsUnwrapped(Upto(n), U)
                      /\ \A ops : \E C : IsCount(Upto(n), ops, C)
           B == { n \in 0..MaxDepth : ~ Good(n) }
<1>0. MaxDepth \in Nat
  BY TreesAssumption
<1>1. Good(0)
  <2>1. {} \in SUBSET Exprs /\ Upto(0) \in SUBSET Exprs
    BY <1>0, Operand
  <2>2. \A x \in Upto(0) : \A k \in DOMAIN x.args : x.args[k] \in {}
    BY Operand
  <2>3. (\E M : IsMeaning({}, M)) /\ (\E U : IsUnwrapped({}, U)) /\ \A ops : \E C : IsCount({}, ops, C)
    <3>1. \A F : [x \in {} |-> 0] = [x \in {} |-> MeaningStep(x, F)]
      OBVIOUS
    <3>2. \A F : [x \in {} |-> 0] = [x \in {} |-> UnwrappedStep(x, F)]
      OBVIOUS
    <3>3. \A ops, F : [x \in {} |-> 0] = [x \in {} |-> CountStep(x, ops, F)]
      OBVIOUS
    <3> QED
      BY <3>1, <3>2, <3>3 DEF IsMeaning, IsUnwrapped, IsCount
  <2>4. {} \subseteq Upto(0)
    OBVIOUS
  <2> QED
    BY <2>1, <2>2, <2>3, <2>4, StepsExtend
<1>2. ASSUME NEW n \in 0..(MaxDepth - 1), Good(n) PROVE Good(n + 1)
  <2>1. n \in 0..MaxDepth /\ n + 1 \in 0..MaxDepth
    BY <1>0
  <2>2. Upto(n) \in SUBSET Exprs /\ Upto(n + 1) \in SUBSET Exprs
    BY <2>1, Operand
  <2>3. Upto(n) \subseteq Upto(n + 1)
    <3>1. (MaxDepth - n)..MaxDepth \subseteq (MaxDepth - (n + 1))..MaxDepth
      BY <1>0
    <3> QED
      BY <3>1 DEF Upto
  <2>4. \A x \in Upto(n + 1) : \A k \in DOMAIN x.args : x.args[k] \in Upto(n)
    BY Operand
  <2> QED
    BY <1>2, <2>2, <2>3, <2>4, StepsExtend
<1> HIDE DEF Good
<1>3. B = {}
  <2> SUFFICES ASSUME B # {} PROVE FALSE
    OBVIOUS
  <2>1. PICK n \in B : \A j \in B : n <= j
    <3>1. B \in SUBSET Nat
      BY <1>0
    <3> QED
      BY <3>1, Least
  <2>2. n # 0
    BY <1>1, <2>1
  <2>3. n - 1 \in 0..(MaxDepth - 1) /\ n - 1 \in 0..MaxDepth /\ (n - 1) + 1 = n /\ ~ (n <= n - 1)
    BY <1>0, <2>1, <2>2
  <2>4. Good(n - 1)
    BY <2>1, <2>3
  <2> QED
    BY <1>2, <2>1, <2>3, <2>4
<1>4. Good(MaxDepth)
  BY <1>0, <1>3
<1> QED
  BY <1>4, Operand DEF Good

\* The equations.
LEMMA ExprSteps ==
  ASSUME NEW e \in Exprs
  PROVE  /\ e.op = "pos" => Meaning[e] = Meaning[e.args[1]]
         /\ e.op = "neg" => Meaning[e] = UnaryMinus(Meaning[e.args[1]])
         /\ e.op \in {"add", "sub", "mul"} =>
              Meaning[e] = Binary(e.op, Meaning[e.args[1]], Meaning[e.args[2]])
         /\ e.op = "num" => Meaning[e] = e
         /\ e.op \in {"pos", "neg"} => Unwrapped[e] = Unwrapped[e.args[1]]
         /\ e.op \notin {"pos", "neg"} => Unwrapped[e] = e
<1>1. IsMeaning(Exprs, Meaning)
  BY StepsHaveFunctions DEF Meaning, IsMeaning, MeaningStep
<1>2. IsUnwrapped(Exprs, Unwrapped)
  BY StepsHaveFunctions DEF Unwrapped, IsUnwrapped, UnwrappedStep
<1>3. Meaning[e] = MeaningStep(e, Meaning)
  BY <1>1 DEF IsMeaning
<1>4. Unwrapped[e] = UnwrappedStep(e, Unwrapped)
  BY <1>2 DEF IsUnwrapped
<1> QED
  BY <1>3, <1>4 DEF MeaningStep, UnwrappedStep

\* Count is such a function.
LEMMA CountUnfold ==
  ASSUME NEW ops, NEW e \in Exprs
  PROVE  \E C : IsCount(Exprs, ops, C) /\ \A x : Count(x, ops) = C[x]
<1> DEFINE C == CHOOSE C : IsCount(Exprs, ops, C)
<1>1. IsCount(Exprs, ops, C)
  BY StepsHaveFunctions
<1>2. \A x : Count(x, ops) = C[x]
  BY DEF Count, IsCount, CountStep
<1> HIDE DEF C
<1> QED
  BY <1>1, <1>2

\* The equation of Count.
LEMMA CountSteps ==
  ASSUME NEW ops, NEW e \in Exprs
  PROVE  Count(e, ops) = (IF e.op \in ops THEN 1 ELSE 0)
                         + (IF e.args = <<>> THEN 0 ELSE Count(e.args[1], ops))
                         + (IF Len(e.args) = 2 THEN Count(e.args[2], ops) ELSE 0)
<1>1. PICK C : IsCount(Exprs, ops, C) /\ \A x : Count(x, ops) = C[x]
  BY CountUnfold
<1>2. C[e] = CountStep(e, ops, C)
  BY <1>1 DEF IsCount
<1> QED
  BY <1>1, <1>2 DEF CountStep

\* What is counted is a number, since no expression is nested deeper than MaxDepth.
LEMMA CountNat ==
  ASSUME NEW ops
  PROVE  \A e \in Exprs : Count(e, ops) \in Nat
<1> DEFINE Good(n) == \A e \in Upto(n) : Count(e, ops) \in Nat
           B == { n \in 0..MaxDepth : ~ Good(n) }
<1>0. MaxDepth \in Nat
  BY TreesAssumption
<1>1. ASSUME NEW e \in Exprs, \A k \in DOMAIN e.args : Count(e.args[k], ops) \in Nat
      PROVE  Count(e, ops) \in Nat
  <2>1. e.args # <<>> => 1 \in DOMAIN e.args
    BY NodeShape
  <2>2. Len(e.args) = 2 => 2 \in DOMAIN e.args
    BY NodeShape
  <2>3. /\ e.args # <<>> => Count(e.args[1], ops) \in Nat
        /\ Len(e.args) = 2 => Count(e.args[2], ops) \in Nat
    BY <1>1, <2>1, <2>2
  <2> QED
    BY <2>3, CountSteps
<1>2. Good(0)
  <2>1. Upto(0) \subseteq Exprs
    BY <1>0, Operand
  <2> QED
    BY <1>1, <2>1, Operand
<1>3. ASSUME NEW n \in 0..(MaxDepth - 1), Good(n) PROVE Good(n + 1)
  <2>1. n + 1 \in 0..MaxDepth
    BY <1>0
  <2> QED
    BY <1>1, <1>3, <2>1, Operand
<1> HIDE DEF Good
<1>4. B = {}
  <2> SUFFICES ASSUME B # {} PROVE FALSE
    OBVIOUS
  <2>1. PICK n \in B : \A j \in B : n <= j
    <3>1. B \in SUBSET Nat
      BY <1>0
    <3> QED
      BY <3>1, Least
  <2>2. n # 0
    BY <1>2, <2>1
  <2>3. n - 1 \in 0..(MaxDepth - 1) /\ n - 1 \in 0..MaxDepth /\ (n - 1) + 1 = n /\ ~ (n <= n - 1)
    BY <1>0, <2>1, <2>2
  <2>4. Good(n - 1)
    BY <2>1, <2>3
  <2> QED
    BY <1>3, <2>1, <2>3, <2>4
<1>5. Good(MaxDepth)
  BY <1>0, <1>4
<1> QED
  BY <1>5, Operand DEF Good

\* What is not in a tree is not in its operands.
LEMMA CountOperands ==
  ASSUME NEW ops, NEW e \in Exprs
  PROVE  /\ Count(e, ops) \in Nat
         /\ e.op \in {"num", "junk"} => Count(e, ops) = IF e.op \in ops THEN 1 ELSE 0
         /\ e.op \in {"pos", "neg"} =>
              /\ e.args[1] \in Exprs /\ Count(e.args[1], ops) \in Nat
              /\ Count(e, ops) = (IF e.op \in ops THEN 1 ELSE 0) + Count(e.args[1], ops)
         /\ e.op \in {"add", "sub", "mul"} =>
              /\ e.args[1] \in Exprs /\ Count(e.args[1], ops) \in Nat
              /\ e.args[2] \in Exprs /\ Count(e.args[2], ops) \in Nat
              /\ Count(e, ops) = (IF e.op \in ops THEN 1 ELSE 0) + Count(e.args[1], ops) + Count(e.args[2], ops)
<1>1. e.op \in {"pos", "neg"} => e.args[1] \in Exprs /\ Len(e.args) = 1 /\ e.args # <<>>
  BY NodeShape, Operand
<1>2. e.op \in {"add", "sub", "mul"} =>
        e.args[1] \in Exprs /\ e.args[2] \in Exprs /\ Len(e.args) = 2 /\ e.args # <<>>
  BY NodeShape, Operand
<1>3. e.op \in {"num", "junk"} => e.args = <<>> /\ Len(e.args) = 0
  BY NodeShape
<1>4. Count(e, ops) \in Nat
  BY CountNat
<1>5. e.op \in {"num", "junk"} => Count(e, ops) = IF e.op \in ops THEN 1 ELSE 0
  BY <1>3, CountSteps
<1>6. e.op \in {"pos", "neg"} =>
        /\ Count(e.args[1], ops) \in Nat
        /\ Count(e, ops) = (IF e.op \in ops THEN 1 ELSE 0) + Count(e.args[1], ops)
  BY <1>1, CountSteps, CountNat
<1>7. e.op \in {"add", "sub", "mul"} =>
        /\ Count(e.args[1], ops) \in Nat /\ Count(e.args[2], ops) \in Nat
        /\ Count(e, ops) = (IF e.op \in ops THEN 1 ELSE 0) + Count(e.args[1], ops) + Count(e.args[2], ops)
  BY <1>2, CountSteps, CountNat
<1> QED
  BY <1>1, <1>2, <1>4, <1>5, <1>6, <1>7

-----------------------------------------------------------------------------
(* Running programs *)

\* R has the registers after each of the first n instructions of p.
IsRun(n, p, R) == R = [k \in 0..n |-> IF k = 0 THEN NoRegister ELSE Execute(R[k - 1], p[k])]

\* One instruction more.
LEMMA RunExtends ==
  ASSUME NEW n \in Nat, NEW p, NEW R, IsRun(n, p, R)
  PROVE  \E Q : IsRun(n + 1, p, Q)
<1> DEFINE Q == [k \in 0..(n + 1) |-> IF k <= n THEN R[k] ELSE Execute(R[n], p[n + 1])]
           P == [k \in 0..(n + 1) |-> IF k = 0 THEN NoRegister ELSE Execute(Q[k - 1], p[k])]
<1>1. ASSUME NEW k \in 0..(n + 1) PROVE Q[k] = P[k]
  <2>1. CASE k = 0
    BY <2>1 DEF IsRun
  <2>2. CASE k # 0 /\ k <= n
    <3>1. k \in 0..n /\ k - 1 \in 0..(n + 1) /\ k - 1 <= n
      BY <2>2
    <3>2. R[k] = Execute(R[k - 1], p[k])
      BY <2>2, <3>1 DEF IsRun
    <3> QED
      BY <2>2, <3>1, <3>2
  <2>3. CASE k = n + 1
    <3>1. k - 1 = n /\ ~ (k <= n) /\ k # 0 /\ n \in 0..(n + 1) /\ n <= n
      BY <2>3
    <3>2. Q[k] = Execute(R[n], p[k]) /\ Q[n] = R[n]
      BY <2>3, <3>1
    <3>3. P[k] = Execute(Q[k - 1], p[k])
      BY <3>1
    <3> QED
      BY <3>1, <3>2, <3>3
  <2> QED
    BY <2>1, <2>2, <2>3
<1>2. Q = P
  BY <1>1
<1> QED
  BY <1>2 DEF IsRun

\* A run of any length.
LEMMA RunIs == ASSUME NEW n \in Nat, NEW p PROVE \E R : IsRun(n, p, R)
<1> SUFFICES ASSUME ~ \E R : IsRun(n, p, R) PROVE FALSE
  OBVIOUS
<1> DEFINE B == { k \in Nat : ~ \E R : IsRun(k, p, R) }
<1>1. PICK k \in B : \A j \in B : k <= j
  <2>1. B \in SUBSET Nat /\ B # {}
    OBVIOUS
  <2> QED
    BY <2>1, Least
<1>2. CASE k = 0
  <2>1. IsRun(0, p, [j \in 0..0 |-> NoRegister])
    BY DEF IsRun
  <2> QED
    BY <1>2, <2>1
<1>3. CASE k # 0
  <2>1. k - 1 \in Nat /\ k - 1 + 1 = k /\ ~ (k <= k - 1)
    BY <1>3
  <2> QED
    BY <1>1, <2>1, RunExtends
<1> QED
  BY <1>2, <1>3

\* Two programs with the same beginning.
LEMMA RunsAgree ==
  ASSUME NEW n \in Nat, NEW m \in Nat, n <= m, NEW p, NEW q, NEW Q, NEW R,
         IsRun(n, p, Q), IsRun(m, q, R), \A k \in 1..n : p[k] = q[k]
  PROVE  Q[n] = R[n]
<1> SUFFICES ASSUME Q[n] # R[n] PROVE FALSE
  OBVIOUS
<1> DEFINE B == { k \in 0..n : Q[k] # R[k] }
<1>1. PICK k \in B : \A j \in B : k <= j
  <2>1. B \in SUBSET Nat /\ B # {}
    OBVIOUS
  <2> QED
    BY <2>1, Least
<1>2. CASE k = 0
  BY <1>1, <1>2 DEF IsRun
<1>3. CASE k # 0
  <2>1. k - 1 \in 0..n /\ k \in 1..n /\ k \in 0..m /\ ~ (k <= k - 1)
    BY <1>3
  <2>2. Q[k - 1] = R[k - 1]
    BY <1>1, <2>1
  <2>3. Q[k] = Execute(Q[k - 1], p[k]) /\ R[k] = Execute(R[k - 1], q[k])
    BY <1>3, <2>1 DEF IsRun
  <2> QED
    BY <1>1, <2>1, <2>2, <2>3
<1> QED
  BY <1>2, <1>3

\* One instruction more.
LEMMA RunSteps ==
  /\ Run(<<>>) = NoRegister
  /\ \A p, i : IsSeq(p) => Run(Append(p, i)) = Execute(Run(p), i)
<1>1. \A p : Run(p) = (CHOOSE R : IsRun(Len(p), p, R))[Len(p)]
  BY DEF Run, IsRun
<1>2. Run(<<>>) = NoRegister
  <2> DEFINE R == CHOOSE R : IsRun(0, <<>>, R)
  <2>1. IsRun(0, <<>>, R)
    BY RunIs
  <2>2. R[0] = NoRegister
    <3> HIDE DEF R
    <3> QED
      BY <2>1 DEF IsRun
  <2>3. Len(<<>>) = 0
    OBVIOUS
  <2> HIDE DEF R
  <2>4. Run(<<>>) = R[0]
    BY <1>1, <2>3 DEF R
  <2> QED
    BY <2>2, <2>4
<1>3. ASSUME NEW p, NEW i, IsSeq(p) PROVE Run(Append(p, i)) = Execute(Run(p), i)
  <2> DEFINE n == Len(p)
             q == Append(p, i)
             Q == CHOOSE R : IsRun(n, p, R)
             R == CHOOSE R : IsRun(n + 1, q, R)
  <2>1. n \in Nat /\ Len(q) = n + 1 /\ q[n + 1] = i /\ \A k \in 1..n : p[k] = q[k]
    BY <1>3, IsSeqAppend
  <2>2. IsRun(n, p, Q) /\ IsRun(n + 1, q, R)
    <3> HIDE DEF n, q
    <3>1. n + 1 \in Nat
      BY <2>1
    <3>2. (\E X : IsRun(n, p, X)) /\ (\E X : IsRun(n + 1, q, X))
      BY <2>1, <3>1, RunIs
    <3> QED
      BY <3>2
  <2>3. Run(p) = Q[n] /\ Run(q) = R[n + 1]
    BY <1>1, <2>1
  <2> HIDE DEF Q, R, q, n
  <2>4. Q[n] = R[n]
    BY <2>1, <2>2, RunsAgree
  <2>5. R[n + 1] = Execute(R[n], q[n + 1])
    <3>1. n + 1 \in 0..(n + 1) /\ n + 1 # 0 /\ (n + 1) - 1 = n
      BY <2>1
    <3> QED
      BY <2>2, <3>1 DEF IsRun
  <2> QED
    BY <2>1, <2>3, <2>4, <2>5 DEF q
<1> QED
  BY <1>2, <1>3

\* Registers of any content.
IsRegs(f) == f = [q \in Regs |-> f[q]]

\* An instruction changes the register it writes, and that one as its kind says.
LEMMA ExecuteIs ==
  ASSUME NEW f, IsRegs(f), NEW i, i.a \in Regs
  PROVE  /\ IsRegs(Execute(f, i))
         /\ \A q \in Regs : q # i.a => Execute(f, i)[q] = f[q]
         /\ i.t \in {"MOV_LITERAL", "mov"}   => Execute(f, i)[i.a] = Literal(i.lit)
         /\ i.t \in {"MOV_REGISTER", "movr"} => Execute(f, i)[i.a] = f[i.b]
         /\ i.t \in {"MUL_CONSTANT", "neg"}  => Execute(f, i)[i.a] = UnaryMinus(f[i.a])
         /\ i.t \in {"ADD_BINARY", "add"} => Execute(f, i)[i.a] = Binary("add", f[i.a], f[i.b])
         /\ i.t \in {"SUB_BINARY", "sub"} => Execute(f, i)[i.a] = Binary("sub", f[i.a], f[i.b])
         /\ i.t \in {"MUL_BINARY", "imul"} => Execute(f, i)[i.a] = Binary("mul", f[i.a], f[i.b])
<1> DEFINE v == CASE i.t \in {"MOV_LITERAL", "mov"}   -> Literal(i.lit)
                  [] i.t \in {"MOV_REGISTER", "movr"} -> f[i.b]
                  [] i.t \in {"MUL_CONSTANT", "neg"}  -> UnaryMinus(f[i.a])
                  [] i.t \in {"ADD_BINARY", "add"}    -> Binary("add", f[i.a], f[i.b])
                  [] i.t \in {"SUB_BINARY", "sub"}    -> Binary("sub", f[i.a], f[i.b])
                  [] i.t \in {"MUL_BINARY", "imul"}   -> Binary("mul", f[i.a], f[i.b])
<1>1. Execute(f, i) = [f EXCEPT ![i.a] = v]
  BY DEF Execute
<1>2. DOMAIN f = Regs
  BY DEF IsRegs
<1> HIDE DEF v
<1>3. Execute(f, i) = [q \in Regs |-> IF q = i.a THEN v ELSE f[q]]
  BY <1>1, <1>2
<1>4. IsRegs(Execute(f, i)) /\ Execute(f, i)[i.a] = v /\ \A q \in Regs : q # i.a => Execute(f, i)[q] = f[q]
  BY <1>3 DEF IsRegs
<1> QED
  BY <1>4 DEF v

-----------------------------------------------------------------------------
(***************************************************************************)
(* What the tasks that are left will have done.  Effect says what a task   *)
(* makes of the registers f: compiling an expression has the effect of the *)
(* code that comes of it, its meaning in the register asked for.  That is  *)
(* so of the intermediate code ("ir"); in the printed assembly ("inner") a *)
(* negation is one of rax, and as long as no binary node was met ("outer") *)
(* what the first expression comes to is waited for in rax, too.  A flow F *)
(* of the tasks t has the registers after each of them.                    *)
(***************************************************************************)
Target(s, x) ==
  IF s = "outer" \/ (s = "inner" /\ x.do = "mulconst") THEN OUT_REG ELSE x.reg

Names(s, x) == IF x.do = "op" THEN {x.a, x.b, x.reg} ELSE {Target(s, x)}

Effect(s, f, x) ==
  [q \in Regs |->
     CASE x.do = "gen" /\ q = Target(s, x) -> Meaning[x.expr]
       [] x.do = "mulconst" /\ q = Target(s, x) -> UnaryMinus(f[q])
       [] x.do = "op" /\ q \in {x.a, x.reg} -> Binary(x.op, f[x.a], f[x.b])
       [] OTHER -> f[q]]

Flow(s, t, F, f) == F[0] = f /\ \A k \in 1..Len(t) : F[k] = Effect(s, F[k - 1], t[k])

\* A sum S of the binary nodes compiled so far, m, and those in the tasks t.
Weight(x) == IF x.do = "gen" THEN Binaries(x.expr) ELSE 0

Sums(t, S, m) == S[0] = m /\ \A k \in 1..Len(t) : S[k] = S[k - 1] + Weight(t[k])

\* The registers of the result.
LEMMA Constants ==
  /\ OUT_REG = 0 /\ REG1 = 1 /\ OUT_REG \in Regs /\ REG1 \in Regs
  /\ Regs \subseteq Nat
BY CodegenAssumption DEF OUT_REG, REG1, Regs

\* A task leaves alone the registers it does not name.
LEMMA EffectLocal ==
  ASSUME NEW s, NEW f, NEW g, NEW x, IsTask(x), NEW X, Names(s, x) \cap X = {},
         \A q \in Regs \ X : f[q] = g[q]
  PROVE  /\ \A q \in Regs \cap X : Effect(s, f, x)[q] = f[q]
         /\ \A q \in Regs \ X : Effect(s, f, x)[q] = Effect(s, g, x)[q]
<1>1. x.a \in Regs /\ x.b \in Regs /\ x.reg \in Regs /\ x.do \in {"gen", "mulconst", "op"}
  BY DEF IsTask
<1>2. CASE x.do = "op"
  <2>1. x.a \in Regs \ X /\ x.b \in Regs \ X /\ x.reg \in Regs \ X
    BY <1>1, <1>2 DEF Names
  <2>2. f[x.a] = g[x.a] /\ f[x.b] = g[x.b]
    BY <2>1
  <2> QED
    BY <1>2, <2>1, <2>2 DEF Effect
<1>3. CASE x.do # "op"
  <2>1. Target(s, x) \notin X
    BY <1>3 DEF Names
  <2> HIDE DEF Target
  <2> QED
    BY <1>3, <2>1 DEF Effect
<1> QED
  BY <1>2, <1>3

\* The tasks r in the place of the first.
LEMMA Replaced ==
  ASSUME NEW t, IsSeq(t), t # <<>>, NEW r, IsSeq(r)
  PROVE  /\ IsSeq(r \o Tail(t)) /\ Len(r) \in Nat /\ Len(t) \in Nat \ {0}
         /\ Len(r \o Tail(t)) = Len(r) + Len(t) - 1
         /\ \A k \in 1..Len(r) : (r \o Tail(t))[k] = r[k]
         /\ \A k \in (Len(r) + 1)..(Len(r) + Len(t) - 1) :
              k - Len(r) + 1 \in 2..Len(t) /\ (r \o Tail(t))[k] = t[k - Len(r) + 1]
         /\ \A j \in 2..Len(t) :
              j + Len(r) - 1 \in 1..(Len(r) + Len(t) - 1) /\ (r \o Tail(t))[j + Len(r) - 1] = t[j]
<1>1. /\ IsSeq(Tail(t)) /\ Len(t) \in Nat \ {0} /\ Len(Tail(t)) = Len(t) - 1
      /\ \A k \in 1..(Len(t) - 1) : Tail(t)[k] = t[k + 1]
  BY IsSeqTail
<1>2. /\ IsSeq(r \o Tail(t)) /\ Len(r) \in Nat /\ Len(r \o Tail(t)) = Len(r) + (Len(t) - 1)
      /\ \A k \in 1..Len(r) : (r \o Tail(t))[k] = r[k]
      /\ \A k \in 1..(Len(t) - 1) : (r \o Tail(t))[Len(r) + k] = t[k + 1]
  <2> DEFINE u == Tail(t)
  <2> HIDE DEF u
  <2>1. IsSeq(u) /\ Len(u) = Len(t) - 1 /\ \A k \in 1..(Len(t) - 1) : u[k] = t[k + 1]
    BY <1>1 DEF u
  <2>2. /\ IsSeq(r \o u) /\ Len(r) \in Nat /\ Len(r \o u) = Len(r) + Len(u)
        /\ \A k \in 1..Len(r) : (r \o u)[k] = r[k]
        /\ \A k \in 1..Len(u) : (r \o u)[Len(r) + k] = u[k]
    <3>1. IsSeq(r) /\ IsSeq(u)
      BY <2>1
    <3> QED
      BY ONLY <3>1, IsSeqConcat
  <2> QED
    BY <2>1, <2>2 DEF u
<1> DEFINE n == Len(r)
           m == Len(t)
           z == r \o Tail(t)
<1> HIDE DEF z, n, m
<1>3. n \in Nat /\ m \in Nat \ {0} /\ \A k \in 1..(m - 1) : z[n + k] = t[k + 1]
  BY <1>1, <1>2 DEF n, m, z
<1>4. ASSUME NEW k \in (n + 1)..(n + m - 1) PROVE k - n + 1 \in 2..m /\ z[k] = t[k - n + 1]
  <2>1. k - n \in 1..(m - 1) /\ k = n + (k - n) /\ k - n + 1 \in 2..m
    BY <1>3
  <2> QED
    BY <1>3, <2>1
<1>5. ASSUME NEW j \in 2..m PROVE j + n - 1 \in 1..(n + m - 1) /\ z[j + n - 1] = t[j]
  <2>1. j - 1 \in 1..(m - 1) /\ j + n - 1 = n + (j - 1) /\ (j - 1) + 1 = j /\ j + n - 1 \in 1..(n + m - 1)
    BY <1>3
  <2> QED
    BY <1>3, <2>1
<1>6. Len(z) = n + m - 1
  BY <1>1, <1>2, <1>3 DEF n, m, z
<1> QED
  BY <1>2, <1>3, <1>4, <1>5, <1>6 DEF n, m, z

\* Tasks; registers f and g that are the same but for X; and tasks t whose others than
\* the first do not know of the registers X, and mean the same for s and s2.
TasksOK(t) == IsSeq(t) /\ \A k \in 1..Len(t) : IsTask(t[k])

SameBut(f, g, X) == \A q \in Regs \ X : f[q] = g[q]

Unconcerned(s, s2, t, X) ==
  \A k \in 2..Len(t) :
    /\ Names(s2, t[k]) \cap X = {}
    /\ \A h : Effect(s, h, t[k]) = Effect(s2, h, t[k])

\* A flow goes on when the first task is replaced by others that have its effect, but
\* for registers X that no later task knows of.
LEMMA FlowReplaced ==
  ASSUME NEW s, NEW t, TasksOK(t), t # <<>>, NEW f, NEW F, Flow(s, t, F, f),
         NEW r, IsSeq(r), NEW s2, NEW g, NEW G, Flow(s2, r, G, g),
         NEW X, SameBut(G[Len(r)], F[1], X), Unconcerned(s, s2, t, X)
  PROVE  \E P : /\ Flow(s2, r \o Tail(t), P, g)
                /\ SameBut(P[Len(r \o Tail(t))], F[Len(t)], X)
<1> DEFINE z == r \o Tail(t)
           n == Len(r)
           m == Len(t)
           P == [k \in 0..(n + m - 1) |->
                   IF k <= n THEN G[k]
                   ELSE [q \in Regs |-> IF q \in X THEN G[n][q] ELSE F[k - n + 1][q]]]
<1>1. /\ n \in Nat /\ m \in Nat \ {0} /\ Len(z) = n + m - 1
      /\ \A k \in 1..n : z[k] = r[k]
      /\ \A k \in (n + 1)..(n + m - 1) : k - n + 1 \in 2..m /\ z[k] = t[k - n + 1]
  BY Replaced DEF TasksOK
<1>2. P[0] = g
  BY <1>1 DEF Flow
<1>3. \A k \in n..(n + m - 1) :
        /\ \A q \in Regs \ X : P[k][q] = F[k - n + 1][q]
        /\ \A q \in Regs \cap X : P[k][q] = G[n][q]
  <2>1. P[n] = G[n] /\ n - n + 1 = 1
    BY <1>1
  <2>0. \A q \in Regs \ X : G[n][q] = F[1][q]
    BY DEF SameBut
  <2>2. ASSUME NEW k \in (n + 1)..(n + m - 1)
        PROVE  P[k] = [q \in Regs |-> IF q \in X THEN G[n][q] ELSE F[k - n + 1][q]]
    BY <1>1
  <2>3. \A k \in n..(n + m - 1) : k = n \/ k \in (n + 1)..(n + m - 1)
    BY <1>1
  <2> HIDE DEF P, n, m
  <2>4. ASSUME NEW k \in n..(n + m - 1)
        PROVE  /\ \A q \in Regs \ X : P[k][q] = F[k - n + 1][q]
               /\ \A q \in Regs \cap X : P[k][q] = G[n][q]
    <3>1. CASE k = n
      BY <2>0, <2>1, <3>1
    <3>2. CASE k \in (n + 1)..(n + m - 1)
      BY <2>2, <3>2
    <3> QED
      BY <2>3, <3>1, <3>2
  <2> QED
    BY <2>4
<1>4. ASSUME NEW k \in 1..(n + m - 1) PROVE P[k] = Effect(s2, P[k - 1], z[k])
  <2>1. CASE k \in 1..n
    <3>1. k - 1 \in 0..(n + m - 1) /\ k - 1 <= n /\ k <= n /\ k \in 0..(n + m - 1)
      BY <1>1, <2>1
    <3>2. P[k] = G[k] /\ P[k - 1] = G[k - 1]
      BY <3>1
    <3> QED
      BY <1>1, <2>1, <3>2 DEF Flow
  <2>2. CASE k \in (n + 1)..(n + m - 1)
    <3> DEFINE j == k - n + 1
               x == t[j]
    <3>1. /\ j \in 2..m /\ j \in 1..m /\ z[k] = x /\ k - 1 \in n..(n + m - 1) /\ (k - 1) - n + 1 = j - 1
          /\ k \in n..(n + m - 1)
      BY <1>1, <2>2
    <3>2. F[j] = Effect(s2, F[j - 1], x)
      <4> HIDE DEF j
      <4> QED
        BY <3>1 DEF Flow, Unconcerned
    <3>3. IsTask(x) /\ Names(s2, x) \cap X = {}
      <4> HIDE DEF j
      <4> QED
        BY <3>1 DEF TasksOK, Unconcerned
    <3>4. /\ \A q \in Regs \ X : P[k - 1][q] = F[j - 1][q]
          /\ \A q \in Regs \cap X : P[k - 1][q] = G[n][q]
      <4> HIDE DEF P, j, n, m
      <4>1. /\ \A q \in Regs \ X : P[k - 1][q] = F[(k - 1) - n + 1][q]
            /\ \A q \in Regs \cap X : P[k - 1][q] = G[n][q]
        BY ONLY <1>3, <3>1
      <4> QED
        BY ONLY <4>1, <3>1
    <3>5. P[k] = [q \in Regs |-> IF q \in X THEN G[n][q] ELSE F[j][q]]
      <4>1. k \in 0..(n + m - 1) /\ ~ (k <= n)
        BY <1>1, <2>2
      <4> QED
        BY <4>1
    <3> HIDE DEF P, x, j
    <3>6. /\ \A q \in Regs \cap X : Effect(s2, P[k - 1], x)[q] = P[k - 1][q]
          /\ \A q \in Regs \ X : Effect(s2, P[k - 1], x)[q] = Effect(s2, F[j - 1], x)[q]
      BY <3>3, <3>4, EffectLocal
    <3>7. \A q \in Regs : Effect(s2, P[k - 1], x)[q] = IF q \in X THEN G[n][q] ELSE F[j][q]
      BY <3>2, <3>4, <3>6
    <3>8. Effect(s2, P[k - 1], x) = [q \in Regs |-> Effect(s2, P[k - 1], x)[q]]
      BY DEF Effect
    <3> QED
      BY <3>1, <3>5, <3>7, <3>8
  <2> QED
    BY <1>1, <2>1, <2>2
<1>5. Flow(s2, z, P, g)
  BY <1>1, <1>2, <1>4 DEF Flow
<1>6. \A q \in Regs \ X : P[Len(z)][q] = F[m][q]
  <2>1. n + m - 1 \in n..(n + m - 1) /\ (n + m - 1) - n + 1 = m
    BY <1>1
  <2> HIDE DEF P, n, m, z
  <2> QED
    BY <1>1, <1>3, <2>1
<1> QED
  BY <1>5, <1>6 DEF SameBut

\* The tasks r in the place of the first keep the sum, when theirs is what the first had.
LEMMA SumsReplaced ==
  ASSUME NEW t, IsSeq(t), t # <<>>, NEW m, NEW S, Sums(t, S, m),
         NEW r, IsSeq(r), NEW l, NEW Q, Sums(r, Q, l), Q[Len(r)] = S[1]
  PROVE  \E P : Sums(r \o Tail(t), P, l) /\ P[Len(r \o Tail(t))] = S[Len(t)]
<1> DEFINE z == r \o Tail(t)
           a == Len(r)
           b == Len(t)
           P == [k \in 0..(a + b - 1) |-> IF k <= a THEN Q[k] ELSE S[k - a + 1]]
<1>1. /\ a \in Nat /\ b \in Nat \ {0} /\ Len(z) = a + b - 1
      /\ \A k \in 1..a : z[k] = r[k]
      /\ \A k \in (a + 1)..(a + b - 1) : k - a + 1 \in 2..b /\ z[k] = t[k - a + 1]
  BY Replaced
<1>2. P[0] = l
  BY <1>1 DEF Sums
<1>3. ASSUME NEW k \in 1..(a + b - 1) PROVE P[k] = P[k - 1] + Weight(z[k])
  <2>1. CASE k \in 1..a
    <3>1. k - 1 \in 0..(a + b - 1) /\ k - 1 <= a /\ k <= a /\ k \in 0..(a + b - 1)
      BY <1>1, <2>1
    <3>2. P[k] = Q[k] /\ P[k - 1] = Q[k - 1]
      BY <3>1
    <3> QED
      BY <1>1, <2>1, <3>2 DEF Sums
  <2>2. CASE k \in (a + 1)..(a + b - 1)
    <3> DEFINE j == k - a + 1
    <3>1. j \in 1..b /\ z[k] = t[j] /\ k \in 0..(a + b - 1) /\ ~ (k <= a)
      BY <1>1, <2>2
    <3>2. P[k] = S[j]
      BY <3>1
    <3>3. P[k - 1] = S[j - 1]
      <4>1. CASE k = a + 1
        <5>1. k - 1 \in 0..(a + b - 1) /\ k - 1 <= a /\ k - 1 = a /\ j - 1 = 1
          BY <1>1, <4>1
        <5> QED
          BY <5>1
      <4>2. CASE k # a + 1
        <5>1. k - 1 \in 0..(a + b - 1) /\ ~ (k - 1 <= a) /\ (k - 1) - a + 1 = j - 1
          BY <1>1, <2>2, <4>2
        <5> QED
          BY <5>1
      <4> QED
        BY <4>1, <4>2
    <3> HIDE DEF j
    <3>4. S[j] = S[j - 1] + Weight(t[j])
      BY <3>1 DEF Sums
    <3> QED
      BY <3>1, <3>2, <3>3, <3>4
  <2> QED
    BY <1>1, <2>1, <2>2
<1>4. P[Len(z)] = S[b]
  <2>1. CASE b = 1
    BY <1>1, <2>1
  <2>2. CASE b # 1
    <3>1. a + b - 1 \in 0..(a + b - 1) /\ ~ (a + b - 1 <= a) /\ (a + b - 1) - a + 1 = b
      <4> HIDE DEF P, z, a, b
      <4>1. a \in Nat /\ b \in Nat \ {0, 1}
        BY <1>1, <2>2
      <4> QED
        BY <4>1
    <3>2. P[a + b - 1] = S[(a + b - 1) - a + 1]
      BY <3>1
    <3> HIDE DEF P, z, a, b
    <3> QED
      BY <1>1, <3>1, <3>2
  <2> QED
    BY <2>1, <2>2
<1> QED
  BY <1>1, <1>2, <1>3, <1>4 DEF Sums

\* No sum is less than its first part.
LEMMA SumsGrow ==
  ASSUME NEW t, IsSeq(t), t # <<>>, NEW m \in Nat, NEW S, Sums(t, S, m),
         \A k \in 1..Len(t) : Weight(t[k]) \in Nat
  PROVE  S[Len(t)] \in Nat /\ m + Weight(t[1]) <= S[Len(t)]
<1>1. Len(t) \in Nat \ {0}
  BY IsSeqTail
<1> DEFINE Low == m + Weight(t[1])
           B == { k \in 1..Len(t) : ~ (S[k] \in Nat /\ Low <= S[k]) }
<1>2. SUFFICES ASSUME B # {} PROVE FALSE
  <2>1. Len(t) \in 1..Len(t)
    BY <1>1
  <2> QED
    BY <1>2, <2>1
<1>3. PICK k \in B : \A j \in B : k <= j
  <2>1. B \in SUBSET Nat
    BY <1>1
  <2> QED
    BY <1>2, <2>1, Least
<1>4. S[k] = S[k - 1] + Weight(t[k]) /\ k \in 1..Len(t) /\ Weight(t[k]) \in Nat
  BY <1>3 DEF Sums
<1>5. CASE k = 1
  BY <1>3, <1>4, <1>5 DEF Sums
<1>6. CASE k # 1
  <2>1. k - 1 \in 1..Len(t) /\ ~ (k <= k - 1)
    BY <1>1, <1>4, <1>6
  <2>2. S[k - 1] \in Nat /\ Low <= S[k - 1]
    BY <1>3, <2>1
  <2>3. Low \in Nat
    <3>1. 1 \in 1..Len(t)
      BY <1>1
    <3> QED
      BY <3>1
  <2> HIDE DEF Low
  <2>4. S[k] \in Nat /\ Low <= S[k]
    BY <1>4, <2>2, <2>3
  <2> QED
    BY <1>3, <2>4
<1> QED
  BY <1>5, <1>6

-----------------------------------------------------------------------------
(* The registers once the code c has run, as it is or as it is printed.      *)

Low(c) == [k \in 1..Len(c) |-> Lower(c[k])]

Emitted(s, i) == IF s = "ir" THEN i ELSE Lower(i)

State(s, c) == Run(IF s = "ir" THEN c ELSE Low(c))

\* Printing goes line by line.
LEMMA LowSteps ==
  /\ Low(<<>>) = <<>>
  /\ \A c, i : IsSeq(c) => IsSeq(Low(c)) /\ Len(Low(c)) = Len(c) /\ Low(Append(c, i)) = Append(Low(c), Lower(i))
<1>1. Low(<<>>) = <<>>
  <2>1. Len(<<>>) = 0 /\ 1..0 = {}
    OBVIOUS
  <2>2. Low(<<>>) = [k \in {} |-> Lower(<<>>[k])]
    BY <2>1 DEF Low
  <2> QED
    BY <2>2
<1>2. ASSUME NEW c, NEW i, IsSeq(c)
      PROVE  IsSeq(Low(c)) /\ Len(Low(c)) = Len(c) /\ Low(Append(c, i)) = Append(Low(c), Lower(i))
  <2> DEFINE T == { Lower(c[k]) : k \in 1..Len(c) } \cup {Lower(i)}
             d == Append(c, i)
             n == Len(c)
  <2>1. /\ n \in Nat /\ Len(d) = n + 1 /\ \A k \in 1..n : d[k] = c[k]
        /\ d[n + 1] = i
    BY <1>2, IsSeqAppend
  <2>2. Low(c) \in [1..n -> T]
    BY DEF Low
  <2>3. Low(c) \in Seq(T) /\ Len(Low(c)) = n
    <3> HIDE DEF T, n
    <3> QED
      BY <2>1, <2>2
  <2>4. Lower(i) \in T
    OBVIOUS
  <2>5. Low(d) \in Seq(T) /\ Len(Low(d)) = n + 1 /\ \A k \in 1..(n + 1) : Low(d)[k] = Lower(d[k])
    <3>1. Low(d) = [k \in 1..(n + 1) |-> Lower(d[k])]
      BY <2>1 DEF Low
    <3>2. \A k \in 1..(n + 1) : k \in 1..n \/ k = n + 1
      BY <2>1
    <3>3. \A k \in 1..(n + 1) : Lower(d[k]) \in T
      BY <2>1, <3>2
    <3> HIDE DEF T, n, d
    <3> QED
      BY <2>1, <3>1, <3>3
  <2>6. Append(Low(c), Lower(i)) \in Seq(T) /\ Len(Append(Low(c), Lower(i))) = n + 1
        /\ \A k \in 1..n : Append(Low(c), Lower(i))[k] = Low(c)[k]
        /\ Append(Low(c), Lower(i))[n + 1] = Lower(i)
    <3> HIDE DEF T, n, d
    <3> QED
      BY <2>3, <2>4, AppendProperties
  <2>7. \A k \in 1..(n + 1) : Low(d)[k] = Append(Low(c), Lower(i))[k]
    <3>1. ASSUME NEW k \in 1..n PROVE Lower(d[k]) = Low(c)[k]
      BY <2>1 DEF Low
    <3>2. \A k \in 1..(n + 1) : k \in 1..n \/ k = n + 1
      BY <2>1
    <3> HIDE DEF T, n, d
    <3> QED
      BY <2>1, <2>5, <2>6, <3>1, <3>2
  <2>8. IsSeq(Low(c))
    BY <2>3 DEF IsSeq
  <2> QED
    <3> HIDE DEF T, n, d
    <3>1. Low(d) = Append(Low(c), Lower(i))
      BY <2>1, <2>5, <2>6, <2>7, SeqEqual
    <3> QED
      BY <2>3, <2>8, <3>1 DEF d, n
<1> QED
  BY <1>1, <1>2

\* One instruction more is executed as it is emitted.
LEMMA StateSteps ==
  ASSUME NEW s
  PROVE  /\ State(s, <<>>) = NoRegister /\ IsRegs(NoRegister)
         /\ \A c, i : IsSeq(c) => State(s, Append(c, i)) = Execute(State(s, c), Emitted(s, i))
<1>1. IsRegs(NoRegister)
  BY DEF IsRegs, NoRegister
<1>2. State(s, <<>>) = NoRegister
  BY LowSteps, RunSteps DEF State
<1>3. ASSUME NEW c, NEW i, IsSeq(c) PROVE State(s, Append(c, i)) = Execute(State(s, c), Emitted(s, i))
  <2>1. Low(Append(c, i)) = Append(Low(c), Lower(i)) /\ IsSeq(Low(c))
    BY <1>3, LowSteps
  <2> QED
    BY <1>3, <2>1, RunSteps DEF State, Emitted
<1> QED
  BY <1>1, <1>2, <1>3

-----------------------------------------------------------------------------
(* The instructions of a task have its effect.                               *)

LEMMA LoweredIs ==
  ASSUME NEW s \in {"ir", "inner"}, NEW r \in Regs, NEW q \in Regs
  PROVE  /\ \A at : LET i == Emitted(s, MovLiteral(at, r))
                    IN i.t \in {"MOV_LITERAL", "mov"} /\ i.a = r /\ i.lit = at
         /\ LET i == Emitted(s, MovRegister(r, q)) IN i.t \in {"MOV_REGISTER", "movr"} /\ i.a = q /\ i.b = r
         /\ LET i == Emitted(s, MulConstant(r))
            IN i.t \in {"MUL_CONSTANT", "neg"} /\ i.a = IF s = "ir" THEN r ELSE OUT_REG
         /\ LET i == Emitted(s, BinaryInstruction("add", r, q))
            IN i.t \in {"ADD_BINARY", "add"} /\ i.a = r /\ i.b = q
         /\ LET i == Emitted(s, BinaryInstruction("mul", r, q))
            IN i.t \in {"MUL_BINARY", "imul"} /\ i.a = r /\ i.b = q
         /\ s = "ir" => LET i == Emitted(s, BinaryInstruction("sub", r, q))
                        IN i.t \in {"SUB_BINARY", "sub"} /\ i.a = r /\ i.b = q
<1>1. CASE s = "ir"
  BY <1>1 DEF Emitted, MovLiteral, MovRegister, MulConstant, BinaryInstruction
<1>2. CASE s = "inner"
  BY <1>2 DEF Emitted, Lower, Printed, MovLiteral, MovRegister, MulConstant, BinaryInstruction
<1> QED
  BY <1>1, <1>2

\* The load of a literal has the effect of compiling it.
LEMMA LiteralEffect ==
  ASSUME NEW s \in {"ir", "inner"}, NEW f, IsRegs(f), NEW x, IsTask(x), x.do = "gen",
         NEW at, Meaning[x.expr] = Literal(at)
  PROVE  /\ Execute(f, Emitted(s, MovLiteral(at, x.reg))) = Effect(s, f, x)
         /\ IsRegs(Effect(s, f, x))
<1> DEFINE i == Emitted(s, MovLiteral(at, x.reg))
           g == Execute(f, i)
<1>1. x.reg \in Regs
  BY DEF IsTask
<1>2. i.t \in {"MOV_LITERAL", "mov"} /\ i.a = x.reg /\ i.lit = at
  BY <1>1, LoweredIs
<1> HIDE DEF i
<1>3. IsRegs(g) /\ g[x.reg] = Literal(at) /\ \A q \in Regs : q # x.reg => g[q] = f[q]
  BY <1>1, <1>2, ExecuteIs
<1> HIDE DEF g
<1>4. \A q \in Regs : Effect(s, f, x)[q] = g[q]
  BY <1>1, <1>3 DEF Effect, Target
<1>5. Effect(s, f, x) = [q \in Regs |-> Effect(s, f, x)[q]]
  BY DEF Effect
<1>6. g = Effect(s, f, x)
  BY <1>3, <1>4, <1>5 DEF IsRegs
<1> QED
  BY <1>3, <1>6 DEF g, i

\* A multiplication by -1 has the effect of its task; printed, it negates rax.
LEMMA MulConstEffect ==
  ASSUME NEW s \in {"ir", "inner"}, NEW f, IsRegs(f), NEW x, IsTask(x), x.do = "mulconst"
  PROVE  /\ Execute(f, Emitted(s, MulConstant(x.reg))) = Effect(s, f, x)
         /\ IsRegs(Effect(s, f, x))
<1> DEFINE i == Emitted(s, MulConstant(x.reg))
           g == Execute(f, i)
           o == Target(s, x)
<1>1. x.reg \in Regs
  BY DEF IsTask
<1>2. i.t \in {"MUL_CONSTANT", "neg"} /\ i.a = o /\ o \in Regs
  <2>1. i.t \in {"MUL_CONSTANT", "neg"} /\ i.a = IF s = "ir" THEN x.reg ELSE OUT_REG
    BY <1>1, LoweredIs
  <2>2. o = IF s = "ir" THEN x.reg ELSE OUT_REG
    BY DEF Target
  <2>3. o \in Regs
    BY <1>1, <2>2, Constants
  <2> HIDE DEF i, o
  <2> QED
    BY <2>1, <2>2, <2>3
<1> HIDE DEF i, o
<1>3. IsRegs(g) /\ g[o] = UnaryMinus(f[o]) /\ \A q \in Regs : q # o => g[q] = f[q]
  BY <1>2, ExecuteIs
<1> HIDE DEF g
<1>4. \A q \in Regs : Effect(s, f, x)[q] = g[q]
  BY <1>1, <1>3 DEF Effect, o
<1>5. Effect(s, f, x) = [q \in Regs |-> Effect(s, f, x)[q]]
  BY DEF Effect
<1>6. g = Effect(s, f, x)
  BY <1>3, <1>4, <1>5 DEF IsRegs
<1> QED
  BY <1>3, <1>6 DEF g, i

\* An operation, with the move to the register asked for when it is another, has the
\* effect of its task, but for a printed subtraction.
LEMMA BinaryEffect ==
  ASSUME NEW s \in {"ir", "inner"}, NEW f, IsRegs(f), NEW x, IsTask(x), x.do = "op",
         x.op \in {"add", "sub", "mul"}, s = "ir" \/ x.op # "sub"
  PROVE  LET g == Execute(f, Emitted(s, BinaryInstruction(x.op, x.a, x.b)))
         IN /\ IsRegs(g)
            /\ x.a = x.reg => g = Effect(s, f, x)
            /\ x.a # x.reg => Execute(g, Emitted(s, MovRegister(x.a, x.reg))) = Effect(s, f, x)
            /\ IsRegs(Effect(s, f, x))
<1> DEFINE i == Emitted(s, BinaryInstruction(x.op, x.a, x.b))
           j == Emitted(s, MovRegister(x.a, x.reg))
           g == Execute(f, i)
           h == Execute(g, j)
           v == Binary(x.op, f[x.a], f[x.b])
<1>1. x.reg \in Regs /\ x.a \in Regs /\ x.b \in Regs
  BY DEF IsTask
<1>2. /\ i.a = x.a /\ i.b = x.b
      /\ \/ x.op = "add" /\ i.t \in {"ADD_BINARY", "add"}
         \/ x.op = "mul" /\ i.t \in {"MUL_BINARY", "imul"}
         \/ x.op = "sub" /\ i.t \in {"SUB_BINARY", "sub"}
  BY <1>1, LoweredIs
<1>3. j.t \in {"MOV_REGISTER", "movr"} /\ j.a = x.reg /\ j.b = x.a
  BY <1>1, LoweredIs
<1> HIDE DEF i, j
<1>4. IsRegs(g) /\ \A q \in Regs : q # x.a => g[q] = f[q]
  BY <1>1, <1>2, ExecuteIs
<1>5. g[x.a] = v
  <2>1. i.a \in Regs
    BY <1>1, <1>2
  <2>2. /\ i.t \in {"ADD_BINARY", "add"} => g[i.a] = Binary("add", f[i.a], f[i.b])
        /\ i.t \in {"SUB_BINARY", "sub"} => g[i.a] = Binary("sub", f[i.a], f[i.b])
        /\ i.t \in {"MUL_BINARY", "imul"} => g[i.a] = Binary("mul", f[i.a], f[i.b])
    BY <2>1, ExecuteIs
  <2> HIDE DEF g
  <2>3. CASE x.op = "add"
    BY <1>2, <2>2, <2>3
  <2>4. CASE x.op = "mul"
    BY <1>2, <2>2, <2>4
  <2>5. CASE x.op = "sub"
    BY <1>2, <2>2, <2>5
  <2> QED
    BY <2>3, <2>4, <2>5
<1> HIDE DEF g
<1>6. IsRegs(h) /\ h[x.reg] = g[x.a] /\ \A q \in Regs : q # x.reg => h[q] = g[q]
  <2>1. j.a \in Regs /\ IsRegs(g)
    BY <1>1, <1>3, <1>4
  <2>2. /\ IsRegs(h) /\ \A q \in Regs : q # j.a => h[q] = g[q]
        /\ j.t \in {"MOV_REGISTER", "movr"} => h[j.a] = g[j.b]
    BY <2>1, ExecuteIs
  <2> HIDE DEF h
  <2> QED
    BY <1>3, <2>2
<1> HIDE DEF h
<1>7. \A q \in Regs : Effect(s, f, x)[q] = IF q \in {x.a, x.reg} THEN v ELSE f[q]
  BY DEF Effect
<1>8. Effect(s, f, x) = [q \in Regs |-> Effect(s, f, x)[q]]
  BY DEF Effect
<1>9. IsRegs(Effect(s, f, x))
  BY <1>8 DEF IsRegs
<1> HIDE DEF v
<1>10. ASSUME x.a = x.reg PROVE g = Effect(s, f, x)
  <2>1. \A q \in Regs : g[q] = Effect(s, f, x)[q]
    BY <1>4, <1>5, <1>7, <1>10
  <2> QED
    BY <1>4, <1>8, <2>1 DEF IsRegs
<1>11. ASSUME x.a # x.reg PROVE h = Effect(s, f, x)
  <2>1. \A q \in Regs : h[q] = Effect(s, f, x)[q]
    BY <1>1, <1>4, <1>5, <1>6, <1>7, <1>11
  <2> QED
    BY <1>6, <1>8, <2>1 DEF IsRegs
<1> QED
  BY <1>4, <1>9, <1>10, <1>11 DEF g, h, i, j

-----------------------------------------------------------------------------
(* The flow of the tasks t, once the code c has run, comes to the value of e. *)

Out(s) == IF s = "ir" THEN REG1 ELSE OUT_REG

FlowOK(s, t, c, e) == \E F : Flow(s, t, F, State(s, c)) /\ F[Len(t)][Out(s)] = Meaning[e]

\* The empty sequence is one.
LEMMA IsSeqEmpty == IsSeq(<<>>) /\ Len(<<>>) = 0
<1>1. IsSeq(<<>>)
  <2>1. <<>> \in Seq({})
    OBVIOUS
  <2> QED
    BY <2>1 DEF IsSeq
<1>2. Len(<<>>) = 0
  OBVIOUS
<1> QED
  BY <1>1, <1>2

\* It is the unit of concatenation.
LEMMA EmptyConcat == ASSUME NEW t, IsSeq(t) PROVE <<>> \o t = t
<1>1. PICK T : t \in Seq(T)
  BY DEF IsSeq
<1> QED
  BY <1>1

\* The flows and sums of few tasks.
LEMMA FlowsOf ==
  ASSUME NEW s, NEW f, NEW x, NEW y, NEW z
  PROVE  \E G : /\ Flow(s, <<>>, G, f) /\ G[0] = f
                /\ Flow(s, <<x>>, G, f) /\ G[1] = Effect(s, f, x)
                /\ Flow(s, <<x, y>>, G, f) /\ G[2] = Effect(s, Effect(s, f, x), y)
                /\ Flow(s, <<x, y, z>>, G, f)
                /\ G[3] = Effect(s, Effect(s, Effect(s, f, x), y), z)
<1> DEFINE g == Effect(s, f, x)
           h == Effect(s, g, y)
           i == Effect(s, h, z)
           G == [k \in 0..3 |-> CASE k = 0 -> f [] k = 1 -> g [] k = 2 -> h [] k = 3 -> i]
<1>1. G[0] = f /\ G[1] = Effect(s, G[0], x) /\ G[2] = Effect(s, G[1], y) /\ G[3] = Effect(s, G[2], z)
  <2>1. G[0] = f /\ G[1] = g /\ G[2] = h /\ G[3] = i
    <3> HIDE DEF g, h, i
    <3> QED
      OBVIOUS
  <2> QED
    BY <2>1
<1>2. G[1] = g /\ G[2] = h /\ G[3] = i
  BY <1>1
<1> HIDE DEF G
<1>3. 1..0 = {} /\ 1..1 = {1} /\ 1..2 = {1, 2} /\ 1..3 = {1, 2, 3} /\ 1 - 1 = 0 /\ 2 - 1 = 1 /\ 3 - 1 = 2
  OBVIOUS
<1>4. Flow(s, <<>>, G, f)
  BY <1>1, <1>3, IsSeqEmpty DEF Flow
<1>5. Flow(s, <<x>>, G, f)
  BY <1>1, <1>3, IsSeqOne DEF Flow
<1>6. Flow(s, <<x, y>>, G, f)
  BY <1>1, <1>3, IsSeqTwo DEF Flow
<1>7. Flow(s, <<x, y, z>>, G, f)
  BY <1>1, <1>3, IsSeqThree DEF Flow
<1> QED
  BY <1>1, <1>2, <1>4, <1>5, <1>6, <1>7

\* The sums of up to three tasks.
LEMMA SumsOf ==
  ASSUME NEW m, NEW x, NEW y, NEW z
  PROVE  \E Q : /\ Sums(<<>>, Q, m) /\ Q[0] = m
                /\ Sums(<<x>>, Q, m) /\ Q[1] = m + Weight(x)
                /\ Sums(<<x, y>>, Q, m) /\ Q[2] = m + Weight(x) + Weight(y)
                /\ Sums(<<x, y, z>>, Q, m) /\ Q[3] = m + Weight(x) + Weight(y) + Weight(z)
<1> DEFINE g == m + Weight(x)
           h == g + Weight(y)
           i == h + Weight(z)
           Q == [k \in 0..3 |-> CASE k = 0 -> m [] k = 1 -> g [] k = 2 -> h [] k = 3 -> i]
<1>1. Q[0] = m /\ Q[1] = g /\ Q[2] = h /\ Q[3] = i
  <2> HIDE DEF g, h, i
  <2> QED
    OBVIOUS
<1>2. Q[0] = m /\ Q[1] = Q[0] + Weight(x) /\ Q[2] = Q[1] + Weight(y) /\ Q[3] = Q[2] + Weight(z)
  BY <1>1
<1> HIDE DEF Q
<1>3. 1..0 = {} /\ 1..1 = {1} /\ 1..2 = {1, 2} /\ 1..3 = {1, 2, 3} /\ 1 - 1 = 0 /\ 2 - 1 = 1 /\ 3 - 1 = 2
  OBVIOUS
<1>4. Sums(<<>>, Q, m)
  BY <1>2, <1>3, IsSeqEmpty DEF Sums
<1>5. Sums(<<x>>, Q, m)
  BY <1>2, <1>3, IsSeqOne DEF Sums
<1>6. Sums(<<x, y>>, Q, m)
  BY <1>2, <1>3, IsSeqTwo DEF Sums
<1>7. Sums(<<x, y, z>>, Q, m)
  BY <1>2, <1>3, IsSeqThree DEF Sums
<1> QED
  BY <1>1, <1>4, <1>5, <1>6, <1>7

\* The flows of up to three tasks.
LEMMA FlowNone == ASSUME NEW s, NEW f PROVE \E G : Flow(s, <<>>, G, f) /\ G[0] = f
<1>1. PICK G : Flow(s, <<>>, G, f) /\ G[0] = f /\ Flow(s, <<f, f, f>>, G, f)
  BY FlowsOf
<1> QED
  BY <1>1

LEMMA FlowOne ==
  ASSUME NEW s, NEW f, NEW x
  PROVE  \E G : Flow(s, <<x>>, G, f) /\ G[1] = Effect(s, f, x)
<1>1. PICK G : Flow(s, <<x>>, G, f) /\ G[1] = Effect(s, f, x) /\ Flow(s, <<x, x, x>>, G, f)
  BY FlowsOf
<1> QED
  BY <1>1

LEMMA FlowTwo ==
  ASSUME NEW s, NEW f, NEW x, NEW y
  PROVE  \E G : Flow(s, <<x, y>>, G, f) /\ G[2] = Effect(s, Effect(s, f, x), y)
<1>1. PICK G : /\ Flow(s, <<x, y>>, G, f) /\ G[2] = Effect(s, Effect(s, f, x), y)
               /\ Flow(s, <<x, y, y>>, G, f)
  BY FlowsOf
<1> QED
  BY <1>1

LEMMA FlowThree ==
  ASSUME NEW s, NEW f, NEW x, NEW y, NEW z
  PROVE  \E G : Flow(s, <<x, y, z>>, G, f) /\ G[3] = Effect(s, Effect(s, Effect(s, f, x), y), z)
<1>1. PICK G : /\ Flow(s, <<>>, G, f) /\ G[0] = f
               /\ Flow(s, <<x>>, G, f) /\ G[1] = Effect(s, f, x)
               /\ Flow(s, <<x, y>>, G, f) /\ G[2] = Effect(s, Effect(s, f, x), y)
               /\ Flow(s, <<x, y, z>>, G, f)
               /\ G[3] = Effect(s, Effect(s, Effect(s, f, x), y), z)
  BY FlowsOf
<1> QED
  BY <1>1

\* The same sums, one at a time.
LEMMA SumNone == ASSUME NEW m PROVE \E Q : Sums(<<>>, Q, m) /\ Q[0] = m
<1>1. PICK Q : Sums(<<>>, Q, m) /\ Q[0] = m /\ Sums(<<m, m, m>>, Q, m)
  BY SumsOf
<1> QED
  BY <1>1

LEMMA SumOne ==
  ASSUME NEW m, NEW x
  PROVE  \E Q : Sums(<<x>>, Q, m) /\ Q[1] = m + Weight(x)
<1>1. PICK Q : Sums(<<x>>, Q, m) /\ Q[1] = m + Weight(x) /\ Sums(<<x, x, x>>, Q, m)
  BY SumsOf
<1> QED
  BY <1>1

LEMMA SumTwo ==
  ASSUME NEW m, NEW x, NEW y
  PROVE  \E Q : Sums(<<x, y>>, Q, m) /\ Q[2] = m + Weight(x) + Weight(y)
<1>1. PICK Q : Sums(<<x, y>>, Q, m) /\ Q[2] = m + Weight(x) + Weight(y) /\ Sums(<<x, y, y>>, Q, m)
  BY SumsOf
<1> QED
  BY <1>1

LEMMA SumThree ==
  ASSUME NEW m, NEW x, NEW y, NEW z
  PROVE  \E Q : Sums(<<x, y, z>>, Q, m) /\ Q[3] = m + Weight(x) + Weight(y) + Weight(z)
<1>1. PICK Q : /\ Sums(<<>>, Q, m) /\ Q[0] = m
               /\ Sums(<<x>>, Q, m) /\ Q[1] = m + Weight(x)
               /\ Sums(<<x, y>>, Q, m) /\ Q[2] = m + Weight(x) + Weight(y)
               /\ Sums(<<x, y, z>>, Q, m) /\ Q[3] = m + Weight(x) + Weight(y) + Weight(z)
  BY SumsOf
<1> QED
  BY <1>1

\* The first task is done, and the code has its effect.
LEMMA FlowPops ==
  ASSUME NEW s, NEW t, TasksOK(t), t # <<>>, NEW c, NEW e, FlowOK(s, t, c, e),
         NEW d, State(s, d) = Effect(s, State(s, c), t[1])
  PROVE  FlowOK(s, Tail(t), d, e)
<1>1. PICK F : Flow(s, t, F, State(s, c)) /\ F[Len(t)][Out(s)] = Meaning[e]
  BY DEF FlowOK
<1>2. IsSeq(Tail(t)) /\ Len(t) \in Nat \ {0}
  BY IsSeqTail DEF TasksOK
<1>3. F[1] = State(s, d)
  <2>1. 1 \in 1..Len(t) /\ 1 - 1 = 0
    BY <1>2
  <2>2. F[1] = Effect(s, F[1 - 1], t[1]) /\ F[0] = State(s, c)
    BY <1>1, <2>1 DEF Flow
  <2> QED
    BY <2>1, <2>2
<1>4. PICK G : Flow(s, <<>>, G, State(s, d)) /\ G[0] = State(s, d)
  BY FlowNone
<1>5. SameBut(G[Len(<<>>)], F[1], {})
  BY <1>3, <1>4, IsSeqEmpty DEF SameBut
<1>6. Unconcerned(s, s, t, {})
  BY DEF Unconcerned
<1>7. PICK P : /\ Flow(s, <<>> \o Tail(t), P, State(s, d))
               /\ SameBut(P[Len(<<>> \o Tail(t))], F[Len(t)], {})
  <2> DEFINE r == <<>>
  <2>1. IsSeq(r) /\ Flow(s, r, G, State(s, d)) /\ SameBut(G[Len(r)], F[1], {})
    BY <1>4, <1>5, IsSeqEmpty
  <2> HIDE DEF r
  <2>2. \E P : Flow(s, r \o Tail(t), P, State(s, d)) /\ SameBut(P[Len(r \o Tail(t))], F[Len(t)], {})
    BY <1>1, <1>6, <2>1, FlowReplaced
  <2> QED
    BY <2>2 DEF r
<1>8. <<>> \o Tail(t) = Tail(t)
  BY <1>2, EmptyConcat
<1>9. Out(s) \in Regs
  BY Constants DEF Out
<1> QED
  BY <1>1, <1>7, <1>8, <1>9 DEF FlowOK, SameBut

\* The first task is replaced by others.
LEMMA FlowGrows ==
  ASSUME NEW s, NEW t, TasksOK(t), t # <<>>, NEW c, NEW e, FlowOK(s, t, c, e),
         NEW r, IsSeq(r), NEW s2, State(s2, c) = State(s, c), Out(s2) = Out(s),
         NEW G, Flow(s2, r, G, State(s, c)),
         NEW X, Out(s) \notin X, SameBut(G[Len(r)], Effect(s, State(s, c), t[1]), X),
         Unconcerned(s, s2, t, X)
  PROVE  FlowOK(s2, r \o Tail(t), c, e)
<1>1. PICK F : Flow(s, t, F, State(s, c)) /\ F[Len(t)][Out(s)] = Meaning[e]
  BY DEF FlowOK
<1>2. Len(t) \in Nat \ {0}
  BY IsSeqTail DEF TasksOK
<1>3. F[1] = Effect(s, State(s, c), t[1])
  <2>1. 1 \in 1..Len(t) /\ 1 - 1 = 0
    BY <1>2
  <2>2. F[1] = Effect(s, F[1 - 1], t[1]) /\ F[0] = State(s, c)
    BY <1>1, <2>1 DEF Flow
  <2> QED
    BY <2>1, <2>2
<1>4. PICK P : /\ Flow(s2, r \o Tail(t), P, State(s, c))
               /\ SameBut(P[Len(r \o Tail(t))], F[Len(t)], X)
  BY <1>1, <1>3, FlowReplaced
<1>5. Out(s) \in Regs
  BY Constants DEF Out
<1> QED
  BY <1>1, <1>4, <1>5 DEF FlowOK, SameBut

-----------------------------------------------------------------------------
(* What an expression and the tasks it comes to do to the registers.         *)

LEMMA PlusEffect ==
  ASSUME NEW s, NEW f, NEW x, x.do = "gen", x.expr \in Exprs, x.expr.op = "pos"
  PROVE  Effect(s, f, Gen(x.expr.args[1], x.reg)) = Effect(s, f, x)
<1> DEFINE y == Gen(x.expr.args[1], x.reg)
<1>1. y.do = "gen" /\ y.expr = x.expr.args[1] /\ y.reg = x.reg
  BY DEF Gen
<1> HIDE DEF y
<1>2. Meaning[y.expr] = Meaning[x.expr]
  BY <1>1, ExprSteps
<1>3. Target(s, y) = Target(s, x)
  BY <1>1 DEF Target
<1>4. \A q \in Regs : Effect(s, f, y)[q] = Effect(s, f, x)[q]
  BY <1>1, <1>2, <1>3 DEF Effect
<1>5. Effect(s, f, y) = [q \in Regs |-> Effect(s, f, y)[q]] /\ Effect(s, f, x) = [q \in Regs |-> Effect(s, f, x)[q]]
  BY DEF Effect
<1> QED
  BY <1>4, <1>5 DEF y

\* A negation has the effect of its operand and then of the multiplication by -1.
LEMMA MinusEffect ==
  ASSUME NEW s, NEW f, NEW x, IsTask(x), x.do = "gen", x.expr \in Exprs, x.expr.op = "neg",
         s \in {"ir", "outer"} \/ x.reg = OUT_REG
  PROVE  Effect(s, Effect(s, f, Gen(x.expr.args[1], x.reg)), MulConstTask(x.reg)) = Effect(s, f, x)
<1> DEFINE y == Gen(x.expr.args[1], x.reg)
           z == MulConstTask(x.reg)
           g == Effect(s, f, y)
           o == Target(s, x)
<1>1. y.do = "gen" /\ y.expr = x.expr.args[1] /\ y.reg = x.reg /\ z.do = "mulconst" /\ z.reg = x.reg
  BY DEF Gen, MulConstTask
<1> HIDE DEF y, z
<1>2. UnaryMinus(Meaning[y.expr]) = Meaning[x.expr]
  BY <1>1, ExprSteps
<1>3. Target(s, y) = o /\ Target(s, z) = o
  BY <1>1 DEF Target
<1>4. o \in Regs
  BY Constants DEF IsTask, Target
<1> HIDE DEF o
<1>5. \A q \in Regs : g[q] = IF q = o THEN Meaning[y.expr] ELSE f[q]
  BY <1>1, <1>3 DEF Effect
<1> HIDE DEF g
<1>6. \A q \in Regs : Effect(s, g, z)[q] = IF q = o THEN UnaryMinus(g[q]) ELSE g[q]
  BY <1>1, <1>3 DEF Effect
<1>7. \A q \in Regs : Effect(s, f, x)[q] = IF q = o THEN Meaning[x.expr] ELSE f[q]
  BY DEF Effect, o
<1>8. \A q \in Regs : Effect(s, g, z)[q] = Effect(s, f, x)[q]
  BY <1>2, <1>4, <1>5, <1>6, <1>7
<1>9. Effect(s, g, z) = [q \in Regs |-> Effect(s, g, z)[q]] /\ Effect(s, f, x) = [q \in Regs |-> Effect(s, f, x)[q]]
  BY DEF Effect
<1> QED
  BY <1>8, <1>9 DEF y, z, g

\* A binary node has the effect of its operands and then of the operation, except in the
\* two registers that were free.
LEMMA BinaryEffects ==
  ASSUME NEW s \in {"ir", "inner"}, NEW f, NEW x, IsTask(x), x.do = "gen", x.expr \in Exprs,
         x.expr.op \in {"add", "sub", "mul"},
         NEW l \in Regs, NEW r \in Regs, l # r
  PROVE  LET g == Effect(s, Effect(s, Effect(s, f, Gen(x.expr.args[1], l)), Gen(x.expr.args[2], r)),
                         OpTask(x.expr.op, l, r, x.reg))
         IN /\ \A q \in Regs \ ({l, r} \ {x.reg}) : g[q] = Effect(s, f, x)[q]
            /\ l = OUT_REG /\ r = x.reg => \A q \in Regs \ {r} : g[q] = Effect("outer", f, x)[q]
<1> DEFINE y == Gen(x.expr.args[1], l)
           z == Gen(x.expr.args[2], r)
           o == OpTask(x.expr.op, l, r, x.reg)
           h == Effect(s, f, y)
           i == Effect(s, h, z)
           g == Effect(s, i, o)
           v == Binary(x.expr.op, Meaning[y.expr], Meaning[z.expr])
<1>1. /\ y.do = "gen" /\ y.expr = x.expr.args[1] /\ y.reg = l
      /\ z.do = "gen" /\ z.expr = x.expr.args[2] /\ z.reg = r
      /\ o.do = "op" /\ o.op = x.expr.op /\ o.a = l /\ o.b = r /\ o.reg = x.reg
  BY DEF Gen, OpTask
<1> HIDE DEF y, z, o
<1>2. Meaning[x.expr] = v
  BY <1>1, ExprSteps
<1>3. Target(s, y) = l /\ Target(s, z) = r /\ Target(s, x) = x.reg /\ Target("outer", x) = OUT_REG
  BY <1>1 DEF Target
<1>4. \A q \in Regs : h[q] = IF q = l THEN Meaning[y.expr] ELSE f[q]
  BY <1>1, <1>3 DEF Effect
<1> HIDE DEF h
<1>5. \A q \in Regs : i[q] = IF q = r THEN Meaning[z.expr] ELSE h[q]
  BY <1>1, <1>3 DEF Effect
<1> HIDE DEF i
<1>6. \A q \in Regs : g[q] = IF q \in {l, x.reg} THEN Binary(x.expr.op, i[l], i[r]) ELSE i[q]
  BY <1>1 DEF Effect
<1> HIDE DEF g
<1>7. i[l] = Meaning[y.expr] /\ i[r] = Meaning[z.expr]
  BY <1>4, <1>5
<1>8. \A q \in Regs : Effect(s, f, x)[q] = IF q = x.reg THEN v ELSE f[q]
  BY <1>2, <1>3 DEF Effect
<1>9. \A q \in Regs : Effect("outer", f, x)[q] = IF q = OUT_REG THEN v ELSE f[q]
  BY <1>2, <1>3 DEF Effect
<1>10. \A q \in Regs : g[q] = IF q \in {l, x.reg} THEN v ELSE IF q = r THEN Meaning[z.expr] ELSE f[q]
  <2>1. Binary(x.expr.op, i[l], i[r]) = v
    BY <1>7
  <2> HIDE DEF v
  <2> QED
    BY <1>4, <1>5, <1>6, <2>1
<1> HIDE DEF v
<1>11. \A q \in Regs \ ({l, r} \ {x.reg}) : g[q] = Effect(s, f, x)[q]
  BY <1>8, <1>10
<1>12. l = OUT_REG /\ r = x.reg => \A q \in Regs \ {r} : g[q] = Effect("outer", f, x)[q]
  BY <1>9, <1>10
<1> QED
  BY <1>11, <1>12 DEF g, i, h, y, z, o

-----------------------------------------------------------------------------
(***************************************************************************)
(* The invariant of the compilation of e, with tasks t, registers u in use *)
(* and code c, after m binary nodes.  The registers in use are the first   *)
(* 2 * m, and every task names some of them, or REG1 before there are any. *)
(* What the code has computed and the tasks will (FlowOK) is the value of  *)
(* e in the register asked for, in REG1 for the intermediate code and, if  *)
(* negations are of rax only, in rax for the printed assembly.             *)
(***************************************************************************)
Even(n) == \E i \in Nat : n = 2 * i

Wanted(x, m) ==
  /\ x.do = "gen" => x.expr \in Exprs /\ WellFormed(x.expr)
  /\ x.do = "op" => x.op \in {"add", "sub", "mul"} /\ Even(x.a)
  /\ x.reg \in IF m = 0 THEN {REG1} ELSE 0..(2 * m - 1)

\* A subtraction names an even register, never REG1.
CodeFlows(c) ==
  /\ IsSeq(c)
  /\ \A k \in 1..Len(c) : c[k].t = "SUB_BINARY" => Even(c[k].a)
  /\ IsRegs(State("ir", c)) /\ IsRegs(State("inner", c))

SumOK(e, t, m) == \E S : Sums(t, S, m) /\ S[Len(t)] = Binaries(e)

Subtracts(x) ==
  \/ x.do = "gen" /\ Count(x.expr, {"sub"}) > 0
  \/ x.do = "op" /\ x.op = "sub"

Subtraction(c) == \E k \in 1..Len(c) : c[k].t = "SUB_BINARY"

SubOK(e, t, c) ==
  Count(e, {"sub"}) > 0 <=> Subtraction(c) \/ \E k \in 1..Len(t) : Subtracts(t[k])

NegatesRax(x) ==
  x.do = "gen" => \/ Count(x.expr, {"neg"}) = 0
                  \/ x.reg = OUT_REG /\ Count(Unwrapped[x.expr], {"neg"}) = 0

Plain(e) == NegationsInRax(e) /\ Count(e, {"sub"}) = 0

RaxOK(e, t, c, m) ==
  IF m = 0
  THEN /\ c = <<>> /\ t # <<>>
       /\ t[1].do = "gen" /\ Unwrapped[t[1].expr] = Unwrapped[e]
       /\ \A k \in 2..Len(t) : t[k].do = "mulconst"
       /\ FlowOK("outer", t, c, e)
  ELSE /\ \A k \in 1..Len(t) : NegatesRax(t[k])
       /\ FlowOK("inner", t, c, e)

IrOK(e, t, u, c, m) ==
  /\ e \in Exprs
  /\ m \in Nat /\ 2 * m <= MaxRegs /\ u = 0..(2 * m - 1)
  /\ TodoOK(t, u)
  /\ \A k \in 1..Len(t) : Wanted(t[k], m)
  /\ CodeFlows(c)
  /\ FlowOK("ir", t, c, e)
  /\ SumOK(e, t, m)
  /\ SubOK(e, t, c)
  /\ Plain(e) => RaxOK(e, t, c, m)

\* The elements of tasks whose first made room for r.
LEMMA Elements ==
  ASSUME NEW t, IsSeq(t), t # <<>>, NEW r, IsSeq(r)
  PROVE  /\ \A k \in 1..Len(r \o Tail(t)) :
              \/ k \in 1..Len(r) /\ (r \o Tail(t))[k] = r[k]
              \/ \E j \in 2..Len(t) : (r \o Tail(t))[k] = t[j]
         /\ \A k \in 1..Len(r) : k \in 1..Len(r \o Tail(t)) /\ (r \o Tail(t))[k] = r[k]
         /\ \A j \in 2..Len(t) : \E k \in 1..Len(r \o Tail(t)) : (r \o Tail(t))[k] = t[j]
         /\ 1..Len(t) = {1} \cup 2..Len(t)
         /\ 2..Len(t) \subseteq 1..Len(t)
<1> DEFINE z == r \o Tail(t)
           n == Len(r)
           m == Len(t)
<1>1. /\ n \in Nat /\ m \in Nat \ {0} /\ Len(z) = n + m - 1
      /\ \A k \in 1..n : z[k] = r[k]
      /\ \A k \in (n + 1)..(n + m - 1) : k - n + 1 \in 2..m /\ z[k] = t[k - n + 1]
      /\ \A j \in 2..m : j + n - 1 \in 1..(n + m - 1) /\ z[j + n - 1] = t[j]
  BY Replaced
<1> HIDE DEF z, n, m
<1>2. \A k \in 1..Len(z) : k \in 1..n \/ k \in (n + 1)..(n + m - 1)
  BY <1>1
<1>3. \A k \in 1..n : k \in 1..Len(z)
  BY <1>1
<1>4. 1..m = {1} \cup 2..m /\ 2..m \subseteq 1..m
  BY <1>1
<1>5. \A k \in 1..Len(z) : (k \in 1..n /\ z[k] = r[k]) \/ \E j \in 2..m : z[k] = t[j]
  BY <1>1, <1>2
<1>6. \A j \in 2..m : \E k \in 1..Len(z) : z[k] = t[j]
  BY <1>1
<1> QED
  BY <1>1, <1>3, <1>4, <1>5, <1>6 DEF z, n, m

\* Whose other tasks are the same, and the first subtracts as much as its substitutes.
LEMMA SubReplaced ==
  ASSUME NEW e, NEW t, IsSeq(t), t # <<>>, NEW c, SubOK(e, t, c), NEW r, IsSeq(r), NEW d,
         Subtraction(d) \/ (\E k \in 1..Len(r) : Subtracts(r[k])) <=> Subtraction(c) \/ Subtracts(t[1])
  PROVE  SubOK(e, r \o Tail(t), d)
<1> DEFINE z == r \o Tail(t)
           Rest == \E j \in 2..Len(t) : Subtracts(t[j])
<1>1. (\E k \in 1..Len(t) : Subtracts(t[k])) <=> Subtracts(t[1]) \/ Rest
  BY Elements
<1>2. (\E k \in 1..Len(z) : Subtracts(z[k])) <=> (\E k \in 1..Len(r) : Subtracts(r[k])) \/ Rest
  <2>1. ASSUME NEW k \in 1..Len(z), Subtracts(z[k])
        PROVE  (\E j \in 1..Len(r) : Subtracts(r[j])) \/ Rest
    BY <2>1, Elements
  <2>2. ASSUME NEW k \in 1..Len(r), Subtracts(r[k])
        PROVE  \E j \in 1..Len(z) : Subtracts(z[j])
    BY <2>2, Elements
  <2>3. ASSUME NEW j \in 2..Len(t), Subtracts(t[j])
        PROVE  \E k \in 1..Len(z) : Subtracts(z[k])
    <3>1. PICK k \in 1..Len(z) : z[k] = t[j]
      BY Elements
    <3> QED
      BY <2>3, <3>1
  <2> QED
    BY <2>1, <2>2, <2>3
<1> HIDE DEF z
<1> QED
  BY <1>1, <1>2 DEF SubOK, z

\* A task is replaced by tasks that stand for as many binary nodes.
LEMMA SumReplaced ==
  ASSUME NEW e, NEW t, IsSeq(t), t # <<>>, NEW m, SumOK(e, t, m), NEW r, IsSeq(r),
         NEW n, NEW Q, Sums(r, Q, n), Q[Len(r)] = m + Weight(t[1])
  PROVE  SumOK(e, r \o Tail(t), n)
<1>1. PICK S : Sums(t, S, m) /\ S[Len(t)] = Binaries(e)
  BY DEF SumOK
<1>2. S[1] = m + Weight(t[1])
  <2>1. 1 \in 1..Len(t) /\ 1 - 1 = 0
    BY IsSeqTail
  <2>2. S[1] = S[1 - 1] + Weight(t[1]) /\ S[0] = m
    BY <1>1, <2>1 DEF Sums
  <2> QED
    BY <2>1, <2>2
<1>3. \E P : Sums(r \o Tail(t), P, n) /\ P[Len(r \o Tail(t))] = S[Len(t)]
  BY <1>1, <1>2, SumsReplaced
<1> QED
  BY <1>1, <1>3 DEF SumOK

\* The first task is replaced, with no code.
LEMMA IrGrows ==
  ASSUME NEW e, NEW t, NEW u, NEW c, NEW m, IrOK(e, t, u, c, m), t # <<>>,
         NEW n \in Nat, m <= n, 2 * n <= MaxRegs, NEW r, IsSeq(r),
         TodoOK(r \o Tail(t), 0..(2 * n - 1)),
         \A k \in 1..Len(r) : Wanted(r[k], n),
         FlowOK("ir", r \o Tail(t), c, e),
         NEW Q, Sums(r, Q, n), Q[Len(r)] = m + Weight(t[1]),
         (\E k \in 1..Len(r) : Subtracts(r[k])) <=> Subtracts(t[1]),
         Plain(e) => RaxOK(e, r \o Tail(t), c, n)
  PROVE  IrOK(e, r \o Tail(t), 0..(2 * n - 1), c, n)
<1> DEFINE z == r \o Tail(t)
<1>1. IsSeq(t)
  BY DEF IrOK, TodoOK
<1>2. \A k \in 1..Len(z) : Wanted(z[k], n)
  <2>1. ASSUME NEW x, Wanted(x, m) PROVE Wanted(x, n)
    <3>1. x.reg \in IF n = 0 THEN {REG1} ELSE 0..(2 * n - 1)
      <4>1. m \in Nat
        BY DEF IrOK
      <4> QED
        BY <2>1, <4>1, Constants DEF Wanted
    <3> QED
      BY <2>1, <3>1 DEF Wanted
  <2>2. \A j \in 2..Len(t) : Wanted(t[j], n)
    BY <1>1, <2>1, Elements DEF IrOK
  <2> QED
    BY <1>1, <2>2, Elements
<1>3. SumOK(e, z, n)
  BY <1>1, SumReplaced DEF IrOK
<1>4. SubOK(e, z, c)
  BY <1>1, SubReplaced DEF IrOK
<1> HIDE DEF z
<1> QED
  BY <1>2, <1>3, <1>4 DEF IrOK, z

\* The first task is done, with new code.
LEMMA IrPops ==
  ASSUME NEW e, NEW t, NEW u, NEW c, NEW m, IrOK(e, t, u, c, m), t # <<>>,
         NEW d, CodeFlows(d), State("ir", d) = Effect("ir", State("ir", c), t[1]),
         Weight(t[1]) = 0, Subtraction(d) <=> Subtraction(c) \/ Subtracts(t[1]),
         Plain(e) => m # 0 /\ State("inner", d) = Effect("inner", State("inner", c), t[1])
  PROVE  IrOK(e, Tail(t), u, d, m)
<1>1. IsSeq(t) /\ TasksOK(t) /\ m \in Nat
  BY DEF IrOK, TodoOK, TasksOK
<1>2. IsSeq(<<>>) /\ Len(<<>>) = 0 /\ <<>> \o Tail(t) = Tail(t)
  BY <1>1, IsSeqEmpty, IsSeqTail, EmptyConcat
<1>3. TodoOK(Tail(t), u)
  BY TaskDone DEF IrOK
<1>4. \A k \in 1..Len(Tail(t)) : k + 1 \in 1..Len(t) /\ Tail(t)[k] = t[k + 1]
  BY <1>1, IsSeqTail
<1>5. \A k \in 1..Len(Tail(t)) : Wanted(Tail(t)[k], m)
  BY <1>4 DEF IrOK
<1>6. FlowOK("ir", Tail(t), d, e)
  BY <1>1, FlowPops DEF IrOK
<1>7. SumOK(e, Tail(t), m)
  <2> DEFINE r == <<>>
  <2>1. PICK Q : Sums(r, Q, m) /\ Q[0] = m
    BY SumNone
  <2>2. Q[Len(r)] = m + Weight(t[1]) /\ IsSeq(r)
    BY <1>1, <1>2, <2>1
  <2> HIDE DEF r
  <2>3. SumOK(e, r \o Tail(t), m)
    BY <1>1, <2>1, <2>2, SumReplaced DEF IrOK
  <2> QED
    BY <1>2, <2>3 DEF r
<1>8. SubOK(e, Tail(t), d)
  <2> DEFINE r == <<>>
  <2>1. IsSeq(r) /\ 1..Len(r) = {} /\ r \o Tail(t) = Tail(t)
    BY <1>2
  <2> HIDE DEF r
  <2>2. SubOK(e, r \o Tail(t), d)
    BY <1>1, <2>1, SubReplaced DEF IrOK
  <2> QED
    BY <2>1, <2>2
<1>9. Plain(e) => RaxOK(e, Tail(t), d, m)
  <2>1. SUFFICES ASSUME Plain(e) PROVE RaxOK(e, Tail(t), d, m)
    OBVIOUS
  <2>2. m # 0 /\ FlowOK("inner", t, c, e) /\ \A k \in 1..Len(t) : NegatesRax(t[k])
    BY <2>1 DEF IrOK, RaxOK
  <2>3. FlowOK("inner", Tail(t), d, e)
    BY <1>1, <2>1, <2>2, FlowPops
  <2> QED
    BY <1>4, <2>2, <2>3 DEF RaxOK
<1> QED
  BY <1>3, <1>5, <1>6, <1>7, <1>8, <1>9 DEF IrOK

-----------------------------------------------------------------------------
(* One lemma for what compile_expression_into_ir does with each first task.  *)

LEMMA HeadIs ==
  ASSUME NEW e, NEW t, NEW u, NEW c, NEW m, IrOK(e, t, u, c, m), t # <<>>
  PROVE  /\ m \in Nat /\ e \in Exprs /\ IsSeq(t) /\ TasksOK(t) /\ CodeFlows(c) /\ u = 0..(2 * m - 1)
         /\ IsTask(t[1]) /\ Wanted(t[1], m) /\ t[1].reg \in Regs
         /\ t[1].do = "gen" => t[1].expr \in Exprs /\ t[1].expr.op # "junk"
         /\ m = 0 => t[1].reg = REG1 /\ t[1].do # "op"
<1>1. IsSeq(t) /\ Len(t) \in Nat \ {0} /\ m \in Nat
  BY IsSeqTail DEF IrOK, TodoOK
<1>2. 1 \in 1..Len(t)
  BY <1>1
<1>3. IsTask(t[1]) /\ Wanted(t[1], m) /\ t[1].reg \in Regs
  BY <1>2 DEF IrOK, TodoOK, IsTask
<1>4. TasksOK(t)
  BY DEF IrOK, TodoOK, TasksOK
<1>5. ASSUME t[1].do = "gen" PROVE t[1].expr \in Exprs /\ t[1].expr.op # "junk"
  <2>1. t[1].expr \in Exprs /\ Count(t[1].expr, {"junk"}) = 0
    BY <1>3, <1>5 DEF Wanted, WellFormed
  <2> QED
    BY <2>1, CountOperands
<1>6. ASSUME m = 0 PROVE t[1].reg = REG1 /\ t[1].do # "op"
  <2>1. Held(t, u) /\ u = {}
    BY <1>6 DEF IrOK, TodoOK
  <2> QED
    BY <1>2, <1>3, <1>6, <2>1 DEF Held, Wanted
<1> QED
  BY <1>1, <1>3, <1>4, <1>5, <1>6 DEF IrOK

\* An instruction more.
LEMMA CodeAppended ==
  ASSUME NEW c, CodeFlows(c), NEW i, i.a \in Regs, Emitted("inner", i).a \in Regs,
         i.t = "SUB_BINARY" => Even(i.a)
  PROVE  /\ CodeFlows(Append(c, i))
         /\ \A s : State(s, Append(c, i)) = Execute(State(s, c), Emitted(s, i))
         /\ Subtraction(Append(c, i)) <=> Subtraction(c) \/ i.t = "SUB_BINARY"
<1> DEFINE d == Append(c, i)
           n == Len(c)
<1>1. /\ IsSeq(d) /\ n \in Nat /\ Len(d) = n + 1 /\ \A k \in 1..n : d[k] = c[k]
      /\ d[n + 1] = i
  BY IsSeqAppend DEF CodeFlows
<1>2. \A s : State(s, d) = Execute(State(s, c), Emitted(s, i))
  BY StateSteps DEF CodeFlows
<1> HIDE DEF d, n
<1>3. /\ \A k \in 1..Len(d) : k \in 1..n \/ k = n + 1
      /\ \A k \in 1..n : k \in 1..Len(d)
      /\ n + 1 \in 1..Len(d)
  BY <1>1
<1>4. \A k \in 1..Len(d) : d[k].t = "SUB_BINARY" => Even(d[k].a)
  BY <1>1, <1>3 DEF CodeFlows, n
<1>5. Subtraction(d) <=> Subtraction(c) \/ i.t = "SUB_BINARY"
  <2>1. ASSUME Subtraction(d) PROVE Subtraction(c) \/ i.t = "SUB_BINARY"
    BY <1>1, <1>3, <2>1 DEF Subtraction, n
  <2>2. ASSUME Subtraction(c) PROVE Subtraction(d)
    <3>1. PICK k \in 1..n : c[k].t = "SUB_BINARY"
      BY <2>2 DEF Subtraction, n
    <3> QED
      BY <1>1, <1>3, <3>1 DEF Subtraction
  <2>3. ASSUME i.t = "SUB_BINARY" PROVE Subtraction(d)
    BY <1>1, <1>3, <2>3 DEF Subtraction
  <2> QED
    BY <2>1, <2>2, <2>3
<1>6. IsRegs(State("ir", d)) /\ IsRegs(State("inner", d))
  <2>1. Emitted("ir", i).a \in Regs
    BY DEF Emitted
  <2>2. IsRegs(Execute(State("ir", c), Emitted("ir", i)))
    BY <2>1, ExecuteIs DEF CodeFlows
  <2>3. IsRegs(Execute(State("inner", c), Emitted("inner", i)))
    BY ExecuteIs DEF CodeFlows
  <2> QED
    BY <1>2, <2>2, <2>3
<1> QED
  BY <1>1, <1>2, <1>4, <1>5, <1>6 DEF CodeFlows, d

\* A literal is loaded.
LEMMA LiteralOK ==
  ASSUME NEW e, NEW t, NEW u, NEW c, NEW m, IrOK(e, t, u, c, m), t # <<>>,
         t[1].do = "gen", t[1].expr.op = "num"
  PROVE  IrOK(e, Tail(t), u, Append(c, MovLiteral(t[1].expr.at, t[1].reg)), m)
<1> DEFINE x == t[1]
           i == MovLiteral(x.expr.at, x.reg)
           d == Append(c, i)
<1>1. /\ m \in Nat /\ e \in Exprs /\ CodeFlows(c) /\ x.reg \in Regs
      /\ IsTask(x) /\ x.expr \in Exprs /\ x.do = "gen" /\ x.expr.op = "num"
  BY HeadIs
<1>2. i.a = x.reg /\ i.t = "MOV_LITERAL"
  BY DEF MovLiteral
<1>3. Emitted("inner", i).a = x.reg
  BY <1>1, LoweredIs
<1>4. Meaning[x.expr] = Literal(x.expr.at) /\ Unwrapped[x.expr] = x.expr
  BY <1>1, ExprSteps, NodeShape
<1>5. Binaries(x.expr) = 0 /\ Count(x.expr, {"sub"}) = 0
  BY <1>1, CountOperands DEF Binaries
<1> HIDE DEF i, x
<1>6. /\ CodeFlows(d) /\ \A s : State(s, d) = Execute(State(s, c), Emitted(s, i))
      /\ Subtraction(d) <=> Subtraction(c)
  BY <1>1, <1>2, <1>3, CodeAppended
<1> HIDE DEF d
<1>7. ASSUME NEW s \in {"ir", "inner"} PROVE State(s, d) = Effect(s, State(s, c), x)
  <2>1. IsRegs(State(s, c))
    BY <1>1, <1>7 DEF CodeFlows
  <2>2. Execute(State(s, c), Emitted(s, i)) = Effect(s, State(s, c), x)
    BY <1>1, <1>4, <2>1, LiteralEffect DEF i
  <2> QED
    BY <1>6, <2>2
<1>8. Plain(e) => m # 0
  <2>1. SUFFICES ASSUME Plain(e), m = 0 PROVE FALSE
    OBVIOUS
  <2>2. Unwrapped[x.expr] = Unwrapped[e]
    BY <2>1 DEF IrOK, RaxOK, x
  <2>3. Binaries(Unwrapped[e]) > 0
    BY <2>1 DEF Plain, NegationsInRax
  <2> QED
    BY <1>4, <1>5, <2>2, <2>3
<1>9. Weight(x) = 0 /\ ~ Subtracts(x)
  BY <1>1, <1>5 DEF Weight, Subtracts
<1> QED
  BY <1>6, <1>7, <1>8, <1>9, IrPops DEF d, i, x

\* What was computed is multiplied by -1.
LEMMA MulConstOK ==
  ASSUME NEW e, NEW t, NEW u, NEW c, NEW m, IrOK(e, t, u, c, m), t # <<>>, t[1].do = "mulconst"
  PROVE  IrOK(e, Tail(t), u, Append(c, MulConstant(t[1].reg)), m)
<1> DEFINE x == t[1]
           i == MulConstant(x.reg)
           d == Append(c, i)
<1>1. m \in Nat /\ CodeFlows(c) /\ x.reg \in Regs /\ IsTask(x) /\ x.do = "mulconst"
  BY HeadIs
<1>2. i.a = x.reg /\ i.t = "MUL_CONSTANT"
  BY DEF MulConstant
<1>3. Emitted("inner", i).a \in Regs
  <2>1. \A r \in Regs : Emitted("inner", MulConstant(r)).a = OUT_REG
    BY LoweredIs
  <2>2. OUT_REG \in Regs
    BY Constants
  <2> QED
    BY <1>1, <2>1, <2>2
<1> HIDE DEF i, x
<1>4. /\ CodeFlows(d) /\ \A s : State(s, d) = Execute(State(s, c), Emitted(s, i))
      /\ Subtraction(d) <=> Subtraction(c)
  BY <1>1, <1>2, <1>3, CodeAppended
<1> HIDE DEF d
<1>5. ASSUME NEW s \in {"ir", "inner"} PROVE State(s, d) = Effect(s, State(s, c), x)
  <2>1. IsRegs(State(s, c))
    BY <1>1, <1>5 DEF CodeFlows
  <2>2. Execute(State(s, c), Emitted(s, i)) = Effect(s, State(s, c), x)
    BY <1>1, <2>1, MulConstEffect DEF i
  <2> QED
    BY <1>4, <2>2
<1>6. Plain(e) => m # 0
  BY <1>1 DEF IrOK, RaxOK, x
<1>7. Weight(x) = 0 /\ ~ Subtracts(x)
  BY <1>1 DEF Weight, Subtracts
<1> QED
  BY <1>4, <1>5, <1>6, <1>7, IrPops DEF d, i, x

\* The instruction of a binary node, and the copy of its result if there is one.
LEMMA OpOK ==
  ASSUME NEW e, NEW t, NEW u, NEW c, NEW m, IrOK(e, t, u, c, m), t # <<>>, t[1].do = "op"
  PROVE  LET i == BinaryInstruction(t[1].op, t[1].a, t[1].b)
             j == MovRegister(t[1].a, t[1].reg)
         IN /\ t[1].a = t[1].reg => IrOK(e, Tail(t), u, Append(c, i), m)
            /\ t[1].a # t[1].reg => IrOK(e, Tail(t), u, Append(Append(c, i), j), m)
<1> DEFINE x == t[1]
           i == BinaryInstruction(x.op, x.a, x.b)
           j == MovRegister(x.a, x.reg)
           b == Append(c, i)
           d == Append(b, j)
<1>1. /\ m \in Nat /\ m # 0 /\ CodeFlows(c) /\ x.reg \in Regs /\ x.a \in Regs /\ x.b \in Regs
      /\ IsTask(x) /\ x.do = "op" /\ x.op \in {"add", "sub", "mul"} /\ Even(x.a)
  BY HeadIs DEF IsTask, Wanted
<1>2. i.a = x.a /\ (i.t = "SUB_BINARY" <=> x.op = "sub")
  BY <1>1 DEF BinaryInstruction
<1>3. j.a = x.reg /\ j.t = "MOV_REGISTER"
  BY DEF MovRegister
<1>4. Emitted("inner", i).a \in Regs
  <2>1. CASE x.op = "add"
    BY <1>1, <2>1, LoweredIs
  <2>2. CASE x.op = "mul"
    BY <1>1, <2>2, LoweredIs
  <2>3. CASE x.op = "sub"
    BY <1>1, <2>3, Constants DEF Emitted, Lower, Printed, BinaryInstruction
  <2> QED
    BY <1>1, <2>1, <2>2, <2>3
<1>5. Emitted("inner", j).a \in Regs
  BY <1>1, LoweredIs
<1> HIDE DEF i, j, x
<1>6. /\ CodeFlows(b) /\ \A s : State(s, b) = Execute(State(s, c), Emitted(s, i))
      /\ Subtraction(b) <=> Subtraction(c) \/ x.op = "sub"
  BY <1>1, <1>2, <1>4, CodeAppended
<1> HIDE DEF b
<1>7. /\ CodeFlows(d) /\ \A s : State(s, d) = Execute(State(s, b), Emitted(s, j))
      /\ Subtraction(d) <=> Subtraction(b)
  BY <1>1, <1>3, <1>5, <1>6, CodeAppended
<1> HIDE DEF d
<1>8. ASSUME NEW s \in {"ir", "inner"}, s = "ir" \/ x.op # "sub"
      PROVE  /\ x.a = x.reg => State(s, b) = Effect(s, State(s, c), x)
             /\ x.a # x.reg => State(s, d) = Effect(s, State(s, c), x)
  <2>1. IsRegs(State(s, c))
    BY <1>1, <1>8 DEF CodeFlows
  <2>2. LET g == Execute(State(s, c), Emitted(s, i))
        IN /\ x.a = x.reg => g = Effect(s, State(s, c), x)
           /\ x.a # x.reg => Execute(g, Emitted(s, j)) = Effect(s, State(s, c), x)
    BY <1>1, <1>8, <2>1, BinaryEffect DEF i, j
  <2> QED
    BY <1>6, <1>7, <2>2
<1>9. Weight(x) = 0 /\ (Subtracts(x) <=> x.op = "sub")
  BY <1>1 DEF Weight, Subtracts
<1>10. Plain(e) => x.op # "sub"
  <2>1. SUFFICES ASSUME Plain(e), x.op = "sub" PROVE FALSE
    OBVIOUS
  <2>2. 1 \in 1..Len(t)
    BY IsSeqTail DEF IrOK, TodoOK
  <2>3. \E k \in 1..Len(t) : Subtracts(t[k])
    BY <1>9, <2>1, <2>2 DEF x
  <2> QED
    BY <2>1, <2>3 DEF IrOK, SubOK, Plain
<1>11. ASSUME x.a = x.reg PROVE IrOK(e, Tail(t), u, b, m)
  <2>1. State("ir", b) = Effect("ir", State("ir", c), t[1]) /\ Weight(t[1]) = 0
        /\ (Subtraction(b) <=> Subtraction(c) \/ Subtracts(t[1]))
        /\ (Plain(e) => m # 0 /\ State("inner", b) = Effect("inner", State("inner", c), t[1]))
    BY <1>1, <1>6, <1>8, <1>9, <1>10, <1>11 DEF x
  <2> QED
    BY <1>6, <2>1, IrPops
<1>12. ASSUME x.a # x.reg PROVE IrOK(e, Tail(t), u, d, m)
  <2>1. State("ir", d) = Effect("ir", State("ir", c), t[1]) /\ Weight(t[1]) = 0
        /\ (Subtraction(d) <=> Subtraction(c) \/ Subtracts(t[1]))
        /\ (Plain(e) => m # 0 /\ State("inner", d) = Effect("inner", State("inner", c), t[1]))
    BY <1>1, <1>6, <1>7, <1>8, <1>9, <1>10, <1>12 DEF x
  <2> QED
    BY <1>7, <2>1, IrPops
<1> QED
  BY <1>11, <1>12 DEF d, b, i, j, x

\* A first task replaced by tasks that have its effect.
LEMMA GrowsSame ==
  ASSUME NEW s, NEW t, TasksOK(t), t # <<>>, NEW c, NEW e, FlowOK(s, t, c, e),
         NEW r, IsSeq(r), NEW G, Flow(s, r, G, State(s, c)),
         G[Len(r)] = Effect(s, State(s, c), t[1])
  PROVE  FlowOK(s, r \o Tail(t), c, e)
<1>1. Out(s) \notin {} /\ SameBut(G[Len(r)], Effect(s, State(s, c), t[1]), {})
  BY DEF SameBut
<1>2. Unconcerned(s, s, t, {})
  BY DEF Unconcerned
<1> QED
  BY <1>1, <1>2, FlowGrows

\* The tasks in the place of the first negate rax only, if it did.
LEMMA RaxGrows ==
  ASSUME NEW e, NEW t, IsSeq(t), t # <<>>, NEW c, NEW m, RaxOK(e, t, c, m), NEW r, IsSeq(r),
         Len(r) # 0
  PROVE  /\ /\ m = 0 /\ r[1].do = "gen" /\ Unwrapped[r[1].expr] = Unwrapped[e]
            /\ \A k \in 2..Len(r) : r[k].do = "mulconst"
            /\ FlowOK("outer", r \o Tail(t), c, e)
            => RaxOK(e, r \o Tail(t), c, 0)
         /\ \A n : /\ n # 0 /\ \A k \in 1..Len(r) : NegatesRax(r[k])
                   /\ FlowOK("inner", r \o Tail(t), c, e)
                   => RaxOK(e, r \o Tail(t), c, n)
<1> DEFINE z == r \o Tail(t)
<1>1. /\ \A k \in 1..Len(z) : (k \in 1..Len(r) /\ z[k] = r[k]) \/ \E j \in 2..Len(t) : z[k] = t[j]
      /\ \A k \in 1..Len(r) : k \in 1..Len(z) /\ z[k] = r[k]
      /\ 1..Len(t) = {1} \cup 2..Len(t)
  BY Elements
<1>2. /\ IsSeq(z) /\ Len(r) \in Nat \ {0} /\ Len(t) \in Nat \ {0} /\ Len(z) = Len(r) + Len(t) - 1
  BY Replaced
<1> HIDE DEF z
<1>3. ASSUME /\ m = 0 /\ r[1].do = "gen" /\ Unwrapped[r[1].expr] = Unwrapped[e]
             /\ \A k \in 2..Len(r) : r[k].do = "mulconst"
             /\ FlowOK("outer", z, c, e)
      PROVE  RaxOK(e, z, c, 0)
  <2>1. z # <<>>
    <3>1. Len(z) # 0 /\ Len(<<>>) = 0
      BY <1>2
    <3> QED
      BY <3>1
  <2>2. 1 \in 1..Len(r) /\ \A k \in 2..Len(z) : k \in 1..Len(z) /\ (k \in 1..Len(r) => k \in 2..Len(r))
    BY <1>2
  <2>3. \A k \in 2..Len(z) : z[k].do = "mulconst"
    BY <1>1, <1>3, <2>2 DEF RaxOK
  <2>4. c = <<>>
    BY <1>3 DEF RaxOK
  <2> QED
    BY <1>1, <1>3, <2>1, <2>2, <2>3, <2>4 DEF RaxOK
<1>4. ASSUME NEW n, n # 0, \A k \in 1..Len(r) : NegatesRax(r[k]), FlowOK("inner", z, c, e)
      PROVE  RaxOK(e, z, c, n)
  <2>1. \A j \in 2..Len(t) : NegatesRax(t[j])
    BY <1>1 DEF RaxOK, NegatesRax
  <2>2. \A k \in 1..Len(z) : NegatesRax(z[k])
    BY <1>1, <1>4, <2>1
  <2> QED
    BY <1>4, <2>2 DEF RaxOK
<1> QED
  BY <1>3, <1>4 DEF z

\* A unary plus is its operand.
LEMMA PlusOK ==
  ASSUME NEW e, NEW t, NEW u, NEW c, NEW m, IrOK(e, t, u, c, m), t # <<>>,
         t[1].do = "gen", t[1].expr.op = "pos"
  PROVE  IrOK(e, <<Gen(t[1].expr.args[1], t[1].reg)>> \o Tail(t), u, c, m)
<1> DEFINE x == t[1]
           a == x.expr.args[1]
           y == Gen(a, x.reg)
           r == <<y>>
<1>1. /\ m \in Nat /\ TasksOK(t) /\ IsSeq(t) /\ u = 0..(2 * m - 1) /\ x.reg \in Regs
      /\ IsTask(x) /\ Wanted(x, m) /\ x.expr \in Exprs /\ x.do = "gen" /\ x.expr.op = "pos"
  BY HeadIs
<1>2. /\ a \in Exprs /\ Unwrapped[a] = Unwrapped[x.expr]
      /\ \A ops : "pos" \notin ops => Count(x.expr, ops) = Count(a, ops)
  BY <1>1, CountOperands, ExprSteps
<1>3. y.do = "gen" /\ y.expr = a /\ y.reg = x.reg /\ IsTask(y)
  BY <1>1 DEF Gen, IsTask
<1>4. IsSeq(r) /\ Len(r) = 1 /\ r[1] = y
  BY IsSeqOne
<1>5. \A s, f : Effect(s, f, y) = Effect(s, f, x)
  BY <1>1, PlusEffect
<1>6. PICK Q : Sums(r, Q, m) /\ Q[1] = m + Weight(y)
  BY SumOne
<1>7. \A s : \E G : Flow(s, r, G, State(s, c)) /\ G[1] = Effect(s, State(s, c), y)
  BY FlowOne
<1> HIDE DEF x, y, r, a
<1>8. \A s : FlowOK(s, t, c, e) => FlowOK(s, r \o Tail(t), c, e)
  <2>1. SUFFICES ASSUME NEW s, FlowOK(s, t, c, e) PROVE FlowOK(s, r \o Tail(t), c, e)
    OBVIOUS
  <2>2. PICK G : Flow(s, r, G, State(s, c)) /\ G[1] = Effect(s, State(s, c), y)
    BY <1>7
  <2>3. G[Len(r)] = Effect(s, State(s, c), t[1])
    BY <1>4, <1>5, <2>2 DEF x
  <2> QED
    BY <1>1, <1>4, <2>1, <2>2, <2>3, GrowsSame
<1>9. Weight(y) = Weight(x) /\ (Subtracts(y) <=> Subtracts(x))
  BY <1>1, <1>2, <1>3 DEF Weight, Binaries, Subtracts
<1>10. Wanted(y, m)
  BY <1>1, <1>2, <1>3 DEF Wanted, WellFormed
<1>11. 1..Len(r) = {1}
  BY <1>4
<1>12. TodoOK(r \o Tail(t), 0..(2 * m - 1))
  <2>1. u \subseteq u /\ u \subseteq Regs /\ Held(r, u)
    BY <1>3, <1>4, <1>11 DEF Held, IrOK, TodoOK
  <2>2. TodoOK(t, u)
    BY DEF IrOK
  <2>3. \A k \in 1..Len(r) : IsTask(r[k]) /\ r[k].do # "op"
    BY <1>3, <1>4, <1>11
  <2>4. TodoOK(r \o Tail(t), u)
    BY <1>4, <2>1, <2>2, <2>3, TaskReplaced
  <2> QED
    BY <1>1, <2>4
<1>13. Plain(e) => RaxOK(e, r \o Tail(t), c, m)
  <2>1. SUFFICES ASSUME Plain(e) PROVE RaxOK(e, r \o Tail(t), c, m)
    OBVIOUS
  <2>2. RaxOK(e, t, c, m)
    BY <2>1 DEF IrOK
  <2>3. CASE m = 0
    <3>1. /\ r[1].do = "gen" /\ Unwrapped[r[1].expr] = Unwrapped[e]
          /\ \A k \in 2..Len(r) : r[k].do = "mulconst"
          /\ FlowOK("outer", r \o Tail(t), c, e)
      BY <1>2, <1>3, <1>4, <1>8, <2>2, <2>3 DEF RaxOK, x
    <3> QED
      BY <1>1, <1>4, <2>2, <2>3, <3>1, RaxGrows
  <2>4. CASE m # 0
    <3>1. FlowOK("inner", r \o Tail(t), c, e) /\ NegatesRax(x)
      <4>1. 1 \in 1..Len(t)
        BY <1>1, IsSeqTail
      <4> QED
        BY <1>8, <2>2, <2>4, <4>1 DEF RaxOK, x
    <3>2. NegatesRax(y)
      BY <1>1, <1>2, <1>3, <3>1 DEF NegatesRax
    <3>3. \A k \in 1..Len(r) : NegatesRax(r[k])
      BY <1>4, <1>11, <3>2
    <3> QED
      BY <1>1, <1>4, <2>2, <2>4, <3>1, <3>3, RaxGrows
  <2> QED
    BY <2>3, <2>4
<1>14. /\ \A k \in 1..Len(r) : Wanted(r[k], m)
       /\ (\E k \in 1..Len(r) : Subtracts(r[k])) <=> Subtracts(t[1])
       /\ Q[Len(r)] = m + Weight(t[1])
       /\ FlowOK("ir", r \o Tail(t), c, e)
       /\ m <= m /\ 2 * m <= MaxRegs
  BY <1>1, <1>4, <1>6, <1>8, <1>9, <1>10, <1>11 DEF IrOK, x
<1>15. IrOK(e, r \o Tail(t), 0..(2 * m - 1), c, m)
  BY <1>1, <1>4, <1>6, <1>12, <1>13, <1>14, IrGrows
<1> QED
  BY <1>1, <1>15 DEF r, y, x, a

\* A unary minus is its operand, multiplied by -1 afterwards.
LEMMA MinusOK ==
  ASSUME NEW e, NEW t, NEW u, NEW c, NEW m, IrOK(e, t, u, c, m), t # <<>>,
         t[1].do = "gen", t[1].expr.op = "neg"
  PROVE  IrOK(e, <<Gen(t[1].expr.args[1], t[1].reg), MulConstTask(t[1].reg)>> \o Tail(t), u, c, m)
<1> DEFINE x == t[1]
           a == x.expr.args[1]
           y == Gen(a, x.reg)
           w == MulConstTask(x.reg)
           r == <<y, w>>
<1>1. /\ m \in Nat /\ TasksOK(t) /\ IsSeq(t) /\ u = 0..(2 * m - 1) /\ x.reg \in Regs
      /\ IsTask(x) /\ Wanted(x, m) /\ x.expr \in Exprs /\ x.do = "gen" /\ x.expr.op = "neg"
  BY HeadIs
<1>2. /\ a \in Exprs /\ Unwrapped[a] = Unwrapped[x.expr]
      /\ \A ops : "neg" \notin ops => Count(x.expr, ops) = Count(a, ops)
      /\ Count(x.expr, {"neg"}) # 0
  <2>1. Count(a, {"neg"}) \in Nat /\ Count(x.expr, {"neg"}) = 1 + Count(a, {"neg"})
    BY <1>1, CountOperands
  <2> QED
    BY <1>1, <2>1, CountOperands, ExprSteps
<1>3. /\ y.do = "gen" /\ y.expr = a /\ y.reg = x.reg /\ IsTask(y)
      /\ w.do = "mulconst" /\ w.reg = x.reg /\ IsTask(w)
  BY <1>1 DEF Gen, MulConstTask, IsTask
<1>4. IsSeq(r) /\ Len(r) = 2 /\ r[1] = y /\ r[2] = w
  BY IsSeqTwo
<1>5. \A s, f : s \in {"ir", "outer"} \/ x.reg = OUT_REG => Effect(s, Effect(s, f, y), w) = Effect(s, f, x)
  BY <1>1, MinusEffect
<1>6. PICK Q : Sums(r, Q, m) /\ Q[2] = m + Weight(y) + Weight(w)
  BY SumTwo
<1>7. \A s : \E G : Flow(s, r, G, State(s, c)) /\ G[2] = Effect(s, Effect(s, State(s, c), y), w)
  BY FlowTwo
<1> HIDE DEF x, y, w, r, a
<1>8. \A s : /\ s \in {"ir", "outer"} \/ x.reg = OUT_REG
             /\ FlowOK(s, t, c, e)
             => FlowOK(s, r \o Tail(t), c, e)
  <2>1. SUFFICES ASSUME NEW s, FlowOK(s, t, c, e), s \in {"ir", "outer"} \/ x.reg = OUT_REG
                 PROVE  FlowOK(s, r \o Tail(t), c, e)
    OBVIOUS
  <2>2. PICK G : Flow(s, r, G, State(s, c)) /\ G[2] = Effect(s, Effect(s, State(s, c), y), w)
    BY <1>7
  <2>3. G[Len(r)] = Effect(s, State(s, c), t[1])
    BY <1>4, <1>5, <2>1, <2>2 DEF x
  <2> QED
    BY <1>1, <1>4, <2>1, <2>2, <2>3, GrowsSame
<1>9. /\ Weight(y) = Weight(x) /\ Weight(w) = 0 /\ Weight(x) \in Nat
      /\ (Subtracts(y) <=> Subtracts(x)) /\ ~ Subtracts(w)
  BY <1>1, <1>2, <1>3, CountNat DEF Weight, Binaries, Subtracts
<1>10. Wanted(y, m) /\ Wanted(w, m)
  BY <1>1, <1>2, <1>3 DEF Wanted, WellFormed
<1>11. 1..Len(r) = {1, 2}
  BY <1>4
<1>12. TodoOK(r \o Tail(t), 0..(2 * m - 1))
  <2>1. u \subseteq u /\ u \subseteq Regs /\ Held(r, u)
    BY <1>3, <1>4, <1>11 DEF Held, IrOK, TodoOK
  <2>2. TodoOK(t, u)
    BY DEF IrOK
  <2>3. \A k \in 1..Len(r) : IsTask(r[k]) /\ r[k].do # "op"
    BY <1>3, <1>4, <1>11
  <2>4. TodoOK(r \o Tail(t), u)
    BY <1>4, <2>1, <2>2, <2>3, TaskReplaced
  <2> QED
    BY <1>1, <2>4
<1>13. Plain(e) => RaxOK(e, r \o Tail(t), c, m)
  <2>1. SUFFICES ASSUME Plain(e) PROVE RaxOK(e, r \o Tail(t), c, m)
    OBVIOUS
  <2>2. RaxOK(e, t, c, m)
    BY <2>1 DEF IrOK
  <2>3. CASE m = 0
    <3>1. /\ r[1].do = "gen" /\ Unwrapped[r[1].expr] = Unwrapped[e]
          /\ FlowOK("outer", r \o Tail(t), c, e)
      BY <1>2, <1>3, <1>4, <1>8, <2>2, <2>3 DEF RaxOK, x
    <3>2. \A k \in 2..Len(r) : r[k].do = "mulconst"
      <4>1. 2..Len(r) = {2}
        BY <1>4
      <4> QED
        BY <1>3, <1>4, <4>1
    <3> QED
      BY <1>1, <1>4, <2>2, <2>3, <3>1, <3>2, RaxGrows
  <2>4. CASE m # 0
    <3>1. FlowOK("inner", t, c, e) /\ NegatesRax(x)
      <4>1. 1 \in 1..Len(t)
        BY <1>1, IsSeqTail
      <4> QED
        BY <2>2, <2>4, <4>1 DEF RaxOK, x
    <3>2. x.reg = OUT_REG /\ NegatesRax(y) /\ NegatesRax(w)
      BY <1>1, <1>2, <1>3, <3>1 DEF NegatesRax
    <3>3. \A k \in 1..Len(r) : NegatesRax(r[k])
      BY <1>4, <1>11, <3>2
    <3>4. FlowOK("inner", r \o Tail(t), c, e)
      BY <1>8, <3>1, <3>2
    <3>5. IsSeq(t) /\ IsSeq(r) /\ Len(r) # 0
      BY <1>1, <1>4
    <3> QED
      BY <2>2, <2>4, <3>3, <3>4, <3>5, RaxGrows
  <2> QED
    BY <2>3, <2>4
<1>14. /\ \A k \in 1..Len(r) : Wanted(r[k], m)
       /\ (\E k \in 1..Len(r) : Subtracts(r[k])) <=> Subtracts(t[1])
  BY <1>4, <1>9, <1>10, <1>11 DEF x
<1>15. /\ Q[Len(r)] = m + Weight(t[1])
       /\ FlowOK("ir", r \o Tail(t), c, e)
       /\ m <= m /\ 2 * m <= MaxRegs
  BY <1>1, <1>4, <1>6, <1>8, <1>9 DEF IrOK, x
<1>16. IrOK(e, r \o Tail(t), 0..(2 * m - 1), c, m)
  BY <1>1, <1>4, <1>6, <1>12, <1>13, <1>14, <1>15, IrGrows
<1> QED
  BY <1>1, <1>16 DEF r, y, w, x, a


\* After m binary nodes the registers 2 * m and 2 * m + 1 are next, if there are two.
LEMMA NextRegisters ==
  ASSUME NEW m \in Nat, 2 * m <= MaxRegs, NEW u, u = 0..(2 * m - 1)
  PROVE  /\ Cardinality(FreeRegs(u)) < 2 => MaxRegs < 2 * (m + 1)
         /\ ~ (Cardinality(FreeRegs(u)) < 2) =>
              /\ 2 * (m + 1) <= MaxRegs
              /\ FirstFree(u) = 2 * m
              /\ FirstFree(u \cup {FirstFree(u)}) = 2 * m + 1
              /\ u \cup {2 * m, 2 * m + 1} = 0..(2 * (m + 1) - 1)
<1> DEFINE a == 2 * m
<1>1. MaxRegs \in Nat /\ a \in Nat
  BY CodegenAssumption
<1>2. FreeRegs(u) = a..(MaxRegs - 1)
  BY <1>1 DEF FreeRegs, Regs
<1>3. Cardinality(a..(MaxRegs - 1)) = IF a > MaxRegs - 1 THEN 0 ELSE (MaxRegs - 1) - a + 1
  <2>1. a \in Int /\ MaxRegs - 1 \in Int
    BY <1>1
  <2> HIDE DEF a
  <2> QED
    BY <2>1, FS_Interval
<1>4. Cardinality(FreeRegs(u)) < 2 => MaxRegs < 2 * (m + 1)
  BY <1>1, <1>2, <1>3
<1>5. ASSUME ~ (Cardinality(FreeRegs(u)) < 2)
      PROVE  /\ 2 * (m + 1) <= MaxRegs
             /\ FirstFree(u) = a
             /\ FirstFree(u \cup {FirstFree(u)}) = a + 1
             /\ u \cup {a, a + 1} = 0..(2 * (m + 1) - 1)
  <2>1. 2 * (m + 1) <= MaxRegs
    BY <1>1, <1>2, <1>3, <1>5
  <2>2. FirstFree(u) = a
    <3>1. a \in FreeRegs(u) /\ \A q \in FreeRegs(u) : a <= q
      BY <1>1, <1>2, <2>1
    <3>2. FirstFree(u) \in FreeRegs(u) /\ \A q \in FreeRegs(u) : FirstFree(u) <= q
      BY <3>1, FirstFreeIsFree
    <3> HIDE DEF a
    <3>3. FirstFree(u) <= a /\ a <= FirstFree(u) /\ FirstFree(u) \in Int
      BY <1>1, <1>2, <3>1, <3>2
    <3> QED
      BY <1>1, <3>3
  <2>3. FirstFree(u \cup {a}) = a + 1
    <3> DEFINE v == u \cup {a}
    <3>1. FreeRegs(v) = (a + 1)..(MaxRegs - 1)
      BY <1>1 DEF FreeRegs, Regs
    <3>2. a + 1 \in FreeRegs(v) /\ \A q \in FreeRegs(v) : a + 1 <= q
      <4>1. a + 1 <= MaxRegs - 1
        BY <1>1, <2>1
      <4> HIDE DEF a, v
      <4> QED
        BY <1>1, <3>1, <4>1
    <3> HIDE DEF v
    <3>3. FirstFree(v) \in FreeRegs(v) /\ \A q \in FreeRegs(v) : FirstFree(v) <= q
      BY <3>2, FirstFreeIsFree
    <3> HIDE DEF a
    <3>4. FirstFree(v) <= a + 1 /\ a + 1 <= FirstFree(v) /\ FirstFree(v) \in Int
      BY <1>1, <3>1, <3>2, <3>3
    <3> QED
      BY <1>1, <3>4 DEF v
  <2>4. u \cup {a, a + 1} = 0..(2 * (m + 1) - 1)
    BY <1>1
  <2> QED
    BY <2>1, <2>2, <2>3, <2>4
<1> QED
  BY <1>4, <1>5

\* A binary node takes the two first free registers for its operands.
LEMMA BinaryOK ==
  ASSUME NEW e, NEW t, NEW u, NEW c, NEW m, IrOK(e, t, u, c, m), t # <<>>,
         t[1].do = "gen", t[1].expr.op \in {"add", "sub", "mul"},
         ~ (Cardinality(FreeRegs(u)) < 2)
  PROVE  LET left == FirstFree(u)
             right == FirstFree(u \cup {left})
         IN IrOK(e, <<Gen(t[1].expr.args[1], left), Gen(t[1].expr.args[2], right),
                      OpTask(t[1].expr.op, left, right, t[1].reg)>> \o Tail(t),
                 u \cup {left, right}, c, m + 1)
<1> DEFINE x == t[1]
           l == FirstFree(u)
           q == FirstFree(u \cup {l})
           a == x.expr.args[1]
           b == x.expr.args[2]
           y == Gen(a, l)
           w == Gen(b, q)
           o == OpTask(x.expr.op, l, q, x.reg)
           r == <<y, w, o>>
           n == m + 1
           v == u \cup {l, q}
<1>1. /\ m \in Nat /\ TasksOK(t) /\ IsSeq(t) /\ u = 0..(2 * m - 1) /\ x.reg \in Regs
      /\ IsTask(x) /\ Wanted(x, m) /\ x.expr \in Exprs /\ x.do = "gen"
      /\ x.expr.op \in {"add", "sub", "mul"} /\ 2 * m <= MaxRegs
      /\ m = 0 => x.reg = REG1
  BY HeadIs DEF IrOK
<1>2. /\ a \in Exprs /\ b \in Exprs /\ Unwrapped[x.expr] = x.expr
      /\ \A ops : /\ Count(a, ops) \in Nat /\ Count(b, ops) \in Nat
                  /\ Count(x.expr, ops) = (IF x.expr.op \in ops THEN 1 ELSE 0) + Count(a, ops) + Count(b, ops)
  BY <1>1, CountOperands, ExprSteps
<1>3. /\ 2 * n <= MaxRegs /\ l = 2 * m /\ q = 2 * m + 1 /\ v = 0..(2 * n - 1)
  BY <1>1, NextRegisters
<1>4. l \in Regs \ u /\ q \in Regs \ u /\ l # q
  BY OperandRegisters
<1>5. /\ y.do = "gen" /\ y.expr = a /\ y.reg = l /\ IsTask(y)
      /\ w.do = "gen" /\ w.expr = b /\ w.reg = q /\ IsTask(w)
      /\ o.do = "op" /\ o.op = x.expr.op /\ o.a = l /\ o.b = q /\ o.reg = x.reg /\ IsTask(o)
  <2> HIDE DEF l, q
  <2> QED
    BY <1>1, <1>4 DEF Gen, OpTask, IsTask
<1>6. IsSeq(r) /\ Len(r) = 3 /\ r[1] = y /\ r[2] = w /\ r[3] = o
  BY IsSeqThree
<1>7. ASSUME NEW s \in {"ir", "inner"}, NEW f
      PROVE  LET g == Effect(s, Effect(s, Effect(s, f, y), w), o)
             IN /\ SameBut(g, Effect(s, f, x), {l, q} \ {x.reg})
                /\ l = OUT_REG /\ q = x.reg => SameBut(g, Effect("outer", f, x), {q})
  <2> HIDE DEF l, q
  <2> QED
    BY <1>1, <1>4, BinaryEffects DEF SameBut
<1>8. PICK Q : Sums(r, Q, n) /\ Q[3] = n + Weight(y) + Weight(w) + Weight(o)
  <2> HIDE DEF y, w, o, n
  <2> QED
    BY SumThree
<1>9. \A s : \E G : Flow(s, r, G, State(s, c)) /\ G[3] = Effect(s, Effect(s, Effect(s, State(s, c), y), w), o)
  <2> HIDE DEF y, w, o
  <2> QED
    BY FlowThree
<1> HIDE DEF x, y, w, o, r, a, b, l, q, v
<1>10. 1..Len(r) = {1, 2, 3} /\ n \in Nat /\ n # 0 /\ m <= n /\ Len(r) # 0
  BY <1>1, <1>6
<1>11. \A j \in 2..Len(t) : j \in 1..Len(t) /\ IsTask(t[j]) /\ Wanted(t[j], m) /\ (t[j].do = "op" => {t[j].a, t[j].b} \subseteq u)
  <2>1. Len(t) \in Nat
    BY <1>1 DEF IsSeq
  <2> QED
    BY <2>1 DEF IrOK, TodoOK, Held
<1>12. TodoOK(r \o Tail(t), v)
  <2>1. TodoOK(t, u) /\ u \subseteq Regs
    BY DEF IrOK, TodoOK
  <2>2. u \subseteq v /\ v \subseteq Regs /\ l \in v /\ q \in v
    BY <1>4, <2>1 DEF v
  <2>3. Held(r, v)
    BY <1>5, <1>6, <1>10, <2>2 DEF Held
  <2>4. \A k \in 1..Len(r) : IsTask(r[k])
    BY <1>5, <1>6, <1>10
  <2>5. \A k \in 1..Len(r) : r[k].do = "op" => k = 3
    BY <1>5, <1>6, <1>10
  <2>6. \A k \in 1..Len(r) : r[k].do = "op" => r[k].a \notin u /\ r[k].b \notin u /\ r[k].a # r[k].b
    BY <1>4, <1>5, <1>6, <2>5
  <2> QED
    BY <1>6, <2>1, <2>2, <2>3, <2>4, <2>5, <2>6, TaskReplaced
<1>13. ASSUME NEW s \in {"ir", "inner"}, s = "inner" => m # 0, FlowOK(s, t, c, e)
       PROVE  FlowOK(s, r \o Tail(t), c, e)
  <2> DEFINE X == {l, q} \ {x.reg}
  <2>1. PICK G : Flow(s, r, G, State(s, c)) /\ G[3] = Effect(s, Effect(s, Effect(s, State(s, c), y), w), o)
    BY <1>9
  <2>2. SameBut(G[Len(r)], Effect(s, State(s, c), t[1]), X)
    BY <1>6, <1>7, <2>1 DEF x
  <2>3. Out(s) \notin X
    <3>1. CASE m = 0
      BY <1>1, <1>13, <3>1 DEF Out
    <3>2. CASE m # 0
      <4>1. OUT_REG # l /\ OUT_REG # q /\ REG1 # l /\ REG1 # q
        BY <1>1, <1>3, <3>2, Constants
      <4> QED
        BY <4>1 DEF Out
    <3> QED
      BY <3>1, <3>2
  <2>4. \A j \in 2..Len(t) : Names(s, t[j]) \cap X = {}
    <3>1. CASE m = 0
      <4>1. u = {} /\ s = "ir"
        BY <1>1, <1>13, <3>1
      <4>2. \A j \in 2..Len(t) : t[j].do # "op" /\ t[j].reg = REG1
        BY <1>11, <3>1, <4>1 DEF Wanted
      <4> QED
        BY <1>1, <3>1, <4>1, <4>2 DEF Names, Target
    <3>2. CASE m # 0
      <4>1. OUT_REG \in u
        BY <1>1, <3>2, Constants
      <4>2. \A j \in 2..Len(t) : t[j].reg \in u
        BY <1>1, <1>11, <3>2 DEF Wanted
      <4>3. \A j \in 2..Len(t) : Names(s, t[j]) \subseteq u
        BY <1>11, <4>1, <4>2 DEF Names, Target
      <4>4. u \cap X = {}
        BY <1>4
      <4> HIDE DEF X
      <4> QED
        BY <4>3, <4>4
    <3> QED
      BY <3>1, <3>2
  <2> HIDE DEF X
  <2>5. Unconcerned(s, s, t, X)
    BY <2>4 DEF Unconcerned
  <2> QED
    BY <1>1, <1>6, <1>13, <2>1, <2>2, <2>3, <2>5, FlowGrows
<1>14. ASSUME m = 0, FlowOK("outer", t, c, e), \A k \in 2..Len(t) : t[k].do = "mulconst"
       PROVE  FlowOK("inner", r \o Tail(t), c, e)
  <2>1. l = OUT_REG /\ q = REG1 /\ x.reg = q /\ OUT_REG \notin {q}
    BY <1>1, <1>3, <1>14, Constants
  <2>2. State("inner", c) = State("outer", c) /\ Out("inner") = Out("outer") /\ Out("outer") = OUT_REG
    BY DEF State, Out
  <2>3. PICK G : /\ Flow("inner", r, G, State("inner", c))
                 /\ G[3] = Effect("inner", Effect("inner", Effect("inner", State("inner", c), y), w), o)
    BY <1>9
  <2>4. SameBut(G[Len(r)], Effect("outer", State("outer", c), t[1]), {q})
    BY <1>6, <1>7, <2>1, <2>2, <2>3 DEF x
  <2>5. Unconcerned("outer", "inner", t, {q})
    <3>1. SUFFICES ASSUME NEW k \in 2..Len(t)
                   PROVE  /\ Names("inner", t[k]) \cap {q} = {}
                          /\ \A h : Effect("outer", h, t[k]) = Effect("inner", h, t[k])
      BY DEF Unconcerned
    <3>2. t[k].do = "mulconst"
      BY <1>14
    <3>3. Target("inner", t[k]) = OUT_REG /\ Target("outer", t[k]) = OUT_REG
      BY <3>2 DEF Target
    <3>4. Names("inner", t[k]) \cap {q} = {}
      BY <2>1, <3>2, <3>3 DEF Names
    <3>5. \A h : Effect("outer", h, t[k]) = Effect("inner", h, t[k])
      BY <3>2, <3>3 DEF Effect
    <3> QED
      BY <3>4, <3>5
  <2>6. Flow("inner", r, G, State("outer", c)) /\ Out("outer") \notin {q}
    BY <2>1, <2>2, <2>3
  <2> QED
    BY <1>1, <1>6, <1>14, <2>2, <2>4, <2>5, <2>6, FlowGrows
<1>15. \A k \in 1..Len(r) : Wanted(r[k], n)
  <2>1. Count(a, {"junk"}) = 0 /\ Count(b, {"junk"}) = 0
    <3>1. Count(x.expr, {"junk"}) = 0
      BY <1>1 DEF Wanted, WellFormed
    <3> QED
      BY <1>2, <3>1
  <2>2. l \in 0..(2 * n - 1) /\ q \in 0..(2 * n - 1) /\ x.reg \in 0..(2 * n - 1)
    BY <1>1, <1>3, Constants DEF Wanted, n
  <2>3. Even(l)
    BY <1>1, <1>3 DEF Even
  <2> HIDE DEF n
  <2>4. Wanted(y, n) /\ Wanted(w, n)
    BY <1>2, <1>5, <1>10, <2>1, <2>2 DEF Wanted, WellFormed
  <2>5. Wanted(o, n)
    BY <1>1, <1>5, <1>10, <2>2, <2>3 DEF Wanted
  <2> QED
    BY <1>6, <1>10, <2>4, <2>5
<1>16. Q[Len(r)] = m + Weight(t[1])
  <2>1. Weight(y) = Binaries(a) /\ Weight(w) = Binaries(b) /\ Weight(o) = 0 /\ Weight(x) = Binaries(x.expr)
    BY <1>1, <1>5 DEF Weight
  <2>2. Binaries(a) \in Nat /\ Binaries(b) \in Nat /\ Binaries(x.expr) = 1 + Binaries(a) + Binaries(b)
    BY <1>1, <1>2 DEF Binaries
  <2> QED
    BY <1>1, <1>6, <1>8, <2>1, <2>2 DEF x
<1>17. (\E k \in 1..Len(r) : Subtracts(r[k])) <=> Subtracts(t[1])
  <2>1. /\ Subtracts(y) <=> Count(a, {"sub"}) > 0
        /\ Subtracts(w) <=> Count(b, {"sub"}) > 0
        /\ Subtracts(o) <=> x.expr.op = "sub"
        /\ Subtracts(x) <=> Count(x.expr, {"sub"}) > 0
    BY <1>1, <1>5 DEF Subtracts
  <2>2. Count(x.expr, {"sub"}) > 0 <=> Count(a, {"sub"}) > 0 \/ Count(b, {"sub"}) > 0 \/ x.expr.op = "sub"
    BY <1>2
  <2>3. Subtracts(x) <=> Subtracts(y) \/ Subtracts(w) \/ Subtracts(o)
    BY <2>1, <2>2
  <2> QED
    BY <1>6, <1>10, <2>3 DEF x
<1>18. Plain(e) => RaxOK(e, r \o Tail(t), c, n)
  <2>1. SUFFICES ASSUME Plain(e) PROVE RaxOK(e, r \o Tail(t), c, n)
    OBVIOUS
  <2>2. RaxOK(e, t, c, m)
    BY <2>1 DEF IrOK
  <2>3. NegatesRax(y) /\ NegatesRax(w) /\ NegatesRax(o)
    <3>1. CASE m = 0
      <4>1. x.expr = Unwrapped[e]
        BY <1>2, <2>2, <3>1 DEF RaxOK, x
      <4>2. Count(Unwrapped[a], {"neg"}) = 0 /\ Count(b, {"neg"}) = 0
        BY <2>1, <4>1 DEF Plain, NegationsInRax, a, b
      <4>3. l = OUT_REG
        BY <1>1, <1>3, <3>1, Constants
      <4> QED
        BY <1>5, <4>2, <4>3 DEF NegatesRax
    <3>2. CASE m # 0
      <4>1. NegatesRax(x)
        <5>1. 1 \in 1..Len(t)
          BY <1>1, IsSeqTail
        <5> QED
          BY <2>2, <3>2, <5>1 DEF RaxOK, x
      <4>2. Count(x.expr, {"neg"}) = 0
        BY <1>1, <1>2, <4>1 DEF NegatesRax
      <4>3. Count(a, {"neg"}) = 0 /\ Count(b, {"neg"}) = 0
        BY <1>2, <4>2
      <4> QED
        BY <1>5, <4>3 DEF NegatesRax
    <3> QED
      BY <3>1, <3>2
  <2>4. FlowOK("inner", r \o Tail(t), c, e)
    <3>1. CASE m = 0
      BY <1>14, <2>2, <3>1 DEF RaxOK
    <3>2. CASE m # 0
      BY <1>13, <2>2, <3>2 DEF RaxOK
    <3> QED
      BY <3>1, <3>2
  <2>5. \A k \in 1..Len(r) : NegatesRax(r[k])
    BY <1>6, <1>10, <2>3
  <2> HIDE DEF n
  <2> QED
    BY <1>1, <1>6, <1>10, <2>2, <2>4, <2>5, RaxGrows
<1>19. FlowOK("ir", r \o Tail(t), c, e)
  BY <1>13 DEF IrOK
<1>20. IrOK(e, r \o Tail(t), 0..(2 * n - 1), c, n)
  <2> HIDE DEF n
  <2>1. TodoOK(r \o Tail(t), 0..(2 * n - 1))
    BY <1>3, <1>12
  <2>2. 2 * n <= MaxRegs /\ n \in Nat /\ m <= n
    BY <1>3, <1>10
  <2> QED
    BY <1>6, <1>8, <1>15, <1>16, <1>17, <1>18, <1>19, <2>1, <2>2, IrGrows
<1> QED
  BY <1>3, <1>20 DEF r, y, w, o, x, a, b, v, l, q

\* The binary node that finds no two registers is one too many.
LEMMA BinaryFails ==
  ASSUME NEW e, NEW t, NEW u, NEW c, NEW m, IrOK(e, t, u, c, m), t # <<>>,
         t[1].do = "gen", t[1].expr.op \in {"add", "sub", "mul"},
         Cardinality(FreeRegs(u)) < 2
  PROVE  ~ (2 * Binaries(e) <= MaxRegs)
<1>1. /\ m \in Nat /\ IsSeq(t) /\ u = 0..(2 * m - 1) /\ 2 * m <= MaxRegs /\ t[1].expr \in Exprs
  BY HeadIs DEF IrOK
<1>2. MaxRegs < 2 * (m + 1)
  BY <1>1, NextRegisters
<1>3. Weight(t[1]) \in Nat /\ Weight(t[1]) > 0
  <2>1. /\ Count(t[1].expr.args[1], {"add", "sub", "mul"}) \in Nat
        /\ Count(t[1].expr.args[2], {"add", "sub", "mul"}) \in Nat
        /\ Weight(t[1]) = 1 + Count(t[1].expr.args[1], {"add", "sub", "mul"})
                            + Count(t[1].expr.args[2], {"add", "sub", "mul"})
    BY <1>1, CountOperands DEF Weight, Binaries
  <2> QED
    BY <2>1
<1>4. PICK S : Sums(t, S, m) /\ S[Len(t)] = Binaries(e)
  BY DEF IrOK, SumOK
<1>5. \A k \in 1..Len(t) : Weight(t[k]) \in Nat
  BY CountNat DEF IrOK, Wanted, Weight, Binaries
<1>6. S[Len(t)] \in Nat /\ m + Weight(t[1]) <= S[Len(t)]
  BY <1>1, <1>4, <1>5, SumsGrow
<1> QED
  BY <1>1, <1>2, <1>3, <1>4, <1>6, CodegenAssumption

-----------------------------------------------------------------------------
(***************************************************************************)
(* The second invariant: while an expression is compiled, IrOK; once it is *)
(* compiled, what its code computes and whether it can be printed; when    *)
(* the compiler is done, what it promises.                                 *)
(***************************************************************************)
Compiled(e, c) ==
  /\ CodeFlows(c)
  /\ Run(c)[REG1] = Meaning[e]
  /\ 2 * Binaries(e) <= MaxRegs
  /\ Count(e, {"sub"}) > 0 <=> Subtraction(c)
  /\ Plain(e) => Run(Low(c))[OUT_REG] = Meaning[e]

Lowered(p, c) ==
  /\ IsSeq(p) /\ Len(p) <= Len(c)
  /\ \A k \in 1..Len(p) : p[k] = Lower(c[k]) /\ c[k].t # "SUB_BINARY"

ValueOK ==
  /\ root \in Exprs
  /\ WellFormed(root) /\ phase = "ir" =>
       (\E m : IrOK(root, todo, regUsed, code, m)) /\ asm = <<>> /\ err = 0
  /\ WellFormed(root) /\ phase = "asm" => Compiled(root, code) /\ Lowered(asm, code) /\ err = 0
  /\ CompilesWithinRegisters
  /\ PrintsTheValue

\* The second invariant holds before anything is compiled.
LEMMA InitValueOK ==
  ASSUME Init
  PROVE  ValueOK
<1> DEFINE y == Gen(root, REG1)
           t == <<y>>
           c == <<>>
<1>1. root \in Exprs /\ phase = "ir" /\ asm = <<>> /\ err = 0 /\ todo = t /\ regUsed = {} /\ code = c
  BY Operand DEF Init
<1>2. CompilesWithinRegisters /\ PrintsTheValue
  BY <1>1 DEF CompilesWithinRegisters, PrintsTheValue
<1>3. ASSUME WellFormed(root) PROVE IrOK(root, t, {}, c, 0)
  <2>1. /\ y.do = "gen" /\ y.expr = root /\ y.reg = REG1 /\ IsTask(y)
    BY Constants DEF Gen, IsTask
  <2>2. IsSeq(t) /\ Len(t) = 1 /\ t[1] = y
    BY IsSeqOne
  <2>3. IsSeq(c) /\ Len(c) = 0
    BY IsSeqEmpty
  <2>4. \A s : State(s, c) = NoRegister
    BY StateSteps
  <2>5. IsRegs(NoRegister)
    BY StateSteps
  <2>6. \A s : \E G : Flow(s, t, G, State(s, c)) /\ G[1] = Effect(s, State(s, c), y)
    BY FlowOne
  <2>7. PICK Q : Sums(t, Q, 0) /\ Q[1] = 0 + Weight(y)
    BY SumOne
  <2>8. c = <<>>
    OBVIOUS
  <2> HIDE DEF y, t, c
  <2>9. 1..Len(t) = {1} /\ 2..Len(t) = {} /\ 1..Len(c) = {}
    BY <2>2, <2>3
  <2>10. TodoOK(t, {})
    BY <2>1, <2>2, <2>9 DEF TodoOK, Held, Apart
  <2>11. \A k \in 1..Len(t) : Wanted(t[k], 0)
    BY <1>1, <1>3, <2>1, <2>2, <2>9 DEF Wanted
  <2>12. CodeFlows(c)
    BY <2>3, <2>4, <2>5, <2>9 DEF CodeFlows
  <2>13. ASSUME NEW s \in {"ir", "outer"} PROVE FlowOK(s, t, c, root)
    <3>1. PICK G : Flow(s, t, G, State(s, c)) /\ G[1] = Effect(s, State(s, c), y)
      BY <2>6
    <3>2. Out(s) = Target(s, y) /\ Out(s) \in Regs
      BY <2>1, <2>13, Constants DEF Out, Target
    <3>3. G[Len(t)][Out(s)] = Meaning[root]
      BY <2>1, <2>2, <3>1, <3>2 DEF Effect
    <3> QED
      BY <3>1, <3>3 DEF FlowOK
  <2>14. SumOK(root, t, 0)
    <3>1. Weight(y) = Binaries(root) /\ Binaries(root) \in Nat
      BY <1>1, <2>1, CountNat DEF Weight, Binaries
    <3> QED
      BY <2>2, <2>7, <3>1 DEF SumOK
  <2>15. SubOK(root, t, c)
    BY <2>1, <2>2, <2>9 DEF SubOK, Subtraction, Subtracts
  <2>16. RaxOK(root, t, c, 0)
    <3>1. t # <<>>
      <4>1. Len(t) # 0 /\ Len(<<>>) = 0
        BY <2>2
      <4> QED
        BY <4>1
    <3> QED
      BY <2>1, <2>2, <2>8, <2>9, <2>13, <3>1 DEF RaxOK
  <2>17. 0 \in Nat /\ 2 * 0 <= MaxRegs /\ {} = 0..(2 * 0 - 1)
    BY CodegenAssumption
  <2> QED
    BY <1>1, <2>10, <2>11, <2>12, <2>13, <2>14, <2>15, <2>16, <2>17 DEF IrOK
<1> HIDE DEF t, c
<1> QED
  BY <1>1, <1>2, <1>3 DEF ValueOK

\* A task that is left is one more reason to go on.
LEMMA IrValueOK ==
  ASSUME NEW m, IrOK(root, todo, regUsed, code, m)', ValueOK, UNCHANGED <<root, phase, asm, err>>, phase = "ir"
  PROVE  ValueOK'
<1>1. root \in Exprs /\ (WellFormed(root) => asm = <<>> /\ err = 0)
  BY DEF ValueOK
<1> QED
  BY <1>1 DEF ValueOK, CompilesWithinRegisters, PrintsTheValue

\* All the code is there.
LEMMA IrDoneOK ==
  ASSUME NEW m, IrOK(root, <<>>, regUsed, code, m)
  PROVE  Compiled(root, code)
<1>1. Len(<<>>) = 0 /\ 1..0 = {}
  OBVIOUS
<1>2. ASSUME NEW s, FlowOK(s, <<>>, code, root) PROVE State(s, code)[Out(s)] = Meaning[root]
  BY <1>1, <1>2 DEF FlowOK, Flow
<1>3. Run(code)[REG1] = Meaning[root]
  BY <1>2 DEF IrOK, State, Out
<1>4. 2 * Binaries(root) <= MaxRegs
  BY <1>1 DEF IrOK, SumOK, Sums
<1>5. Count(root, {"sub"}) > 0 <=> Subtraction(code)
  BY <1>1 DEF IrOK, SubOK
<1>6. Plain(root) => Run(Low(code))[OUT_REG] = Meaning[root]
  BY <1>2 DEF IrOK, RaxOK, State, Out
<1> QED
  BY <1>3, <1>4, <1>5, <1>6 DEF IrOK, Compiled

\* compile_expression_into_ir keeps the second invariant.
LEMMA IrStepValueOK ==
  ASSUME ValueOK, WellFormed(root), phase = "ir",
         GenLiteral \/ GenUnaryPlus \/ GenUnaryMinus \/ GenBinary \/ GenJunk
         \/ EmitMulConstant \/ EmitBinary \/ EmitFails \/ IrDone
  PROVE  ValueOK'
<1>1. PICK m : IrOK(root, todo, regUsed, code, m)
  BY DEF ValueOK
<1>2. root \in Exprs /\ asm = <<>> /\ err = 0
  BY DEF ValueOK
<1>3. todo # <<>> => IsSeq(code) /\ (todo[1].do = "gen" => todo[1].expr.op # "junk")
  BY <1>1, HeadIs DEF CodeFlows
<1>4. CASE GenLiteral
  <2>1. /\ todo # <<>> /\ todo[1].do = "gen" /\ todo[1].expr.op = "num"
        /\ code' = Append(code, MovLiteral(todo[1].expr.at, todo[1].reg))
        /\ todo' = Tail(todo) /\ UNCHANGED <<root, phase, regUsed, asm, err>>
    BY <1>4 DEF GenLiteral, Compiles, Compiling, PushInstruction
  <2>2. IrOK(root', todo', regUsed', code', m)
    BY <1>1, <2>1, LiteralOK
  <2> QED
    BY <2>1, <2>2, IrValueOK
<1>5. CASE GenUnaryPlus
  <2>1. /\ todo # <<>> /\ todo[1].do = "gen" /\ todo[1].expr.op = "pos"
        /\ todo' = <<Gen(todo[1].expr.args[1], todo[1].reg)>> \o Tail(todo)
        /\ UNCHANGED <<root, phase, regUsed, code, asm, err>>
    BY <1>5 DEF GenUnaryPlus, Compiles, Compiling
  <2>2. IrOK(root', todo', regUsed', code', m)
    BY <1>1, <2>1, PlusOK
  <2> QED
    BY <2>1, <2>2, IrValueOK
<1>6. CASE GenUnaryMinus
  <2>1. /\ todo # <<>> /\ todo[1].do = "gen" /\ todo[1].expr.op = "neg"
        /\ todo' = <<Gen(todo[1].expr.args[1], todo[1].reg), MulConstTask(todo[1].reg)>> \o Tail(todo)
        /\ UNCHANGED <<root, phase, regUsed, code, asm, err>>
    BY <1>6 DEF GenUnaryMinus, Compiles, Compiling
  <2>2. IrOK(root', todo', regUsed', code', m)
    BY <1>1, <2>1, MinusOK
  <2> QED
    BY <2>1, <2>2, IrValueOK
<1>7. CASE GenBinary
  <2>1. todo # <<>> /\ todo[1].do = "gen" /\ todo[1].expr.op \in {"add", "sub", "mul"}
    BY <1>7 DEF GenBinary, Compiles, Compiling
  <2>2. CASE Cardinality(FreeRegs(regUsed)) < 2
    <3>1. Fail(E_BADREGISTER)
      BY <1>7, <2>2 DEF GenBinary
    <3>2. root' = root /\ phase' = "done" /\ err' = 8
      BY <3>1 DEF Fail, E_BADREGISTER
    <3>3. ~ (2 * Binaries(root) <= MaxRegs)
      BY <1>1, <2>1, <2>2, BinaryFails
    <3> QED
      BY <1>2, <3>2, <3>3 DEF ValueOK, CompilesWithinRegisters, PrintsTheValue
  <2>3. CASE ~ (Cardinality(FreeRegs(regUsed)) < 2)
    <3> DEFINE left == FirstFree(regUsed)
               right == FirstFree(regUsed \cup {left})
    <3>1. /\ todo' = <<Gen(todo[1].expr.args[1], left), Gen(todo[1].expr.args[2], right),
                       OpTask(todo[1].expr.op, left, right, todo[1].reg)>> \o Tail(todo)
          /\ regUsed' = regUsed \cup {left, right}
          /\ UNCHANGED <<root, phase, code, asm, err>>
      BY <1>7, <2>3 DEF GenBinary
    <3>2. IrOK(root', todo', regUsed', code', m + 1)
      BY <1>1, <2>1, <2>3, <3>1, BinaryOK
    <3> QED
      BY <3>1, <3>2, IrValueOK
  <2> QED
    BY <2>2, <2>3
<1>8. CASE GenJunk
  BY <1>3, <1>8 DEF GenJunk, Compiles, Compiling
<1>9. CASE EmitMulConstant
  <2>1. /\ todo # <<>> /\ todo[1].do = "mulconst"
        /\ code' = Append(code, MulConstant(todo[1].reg))
        /\ todo' = Tail(todo) /\ UNCHANGED <<root, phase, regUsed, asm, err>>
    BY <1>9 DEF EmitMulConstant, Compiling, PushInstruction
  <2>2. IrOK(root', todo', regUsed', code', m)
    BY <1>1, <2>1, MulConstOK
  <2> QED
    BY <2>1, <2>2, IrValueOK
<1>10. CASE EmitBinary
  <2> DEFINE i == BinaryInstruction(todo[1].op, todo[1].a, todo[1].b)
             j == MovRegister(todo[1].a, todo[1].reg)
  <2>1. /\ todo # <<>> /\ todo[1].do = "op"
        /\ todo' = Tail(todo) /\ UNCHANGED <<root, phase, regUsed, asm, err>>
        /\ todo[1].a # todo[1].reg => code' = code \o <<i, j>>
        /\ todo[1].a = todo[1].reg => code' = Append(code, i)
    BY <1>10 DEF EmitBinary, Compiling, PushInstruction, PushTwo
  <2>2. code \o <<i, j>> = Append(Append(code, i), j)
    <3> HIDE DEF i, j
    <3> QED
      BY <1>3, <2>1, TwoAppends
  <2>3. /\ todo[1].a = todo[1].reg => IrOK(root, Tail(todo), regUsed, Append(code, i), m)
        /\ todo[1].a # todo[1].reg => IrOK(root, Tail(todo), regUsed, Append(Append(code, i), j), m)
    BY <1>1, <2>1, OpOK
  <2> HIDE DEF i, j
  <2>4. IrOK(root', todo', regUsed', code', m)
    BY <2>1, <2>2, <2>3
  <2> QED
    BY <2>1, <2>4, IrValueOK
<1>11. CASE EmitFails
  <2>1. root' = root /\ phase' = "done" /\ err' = E_OOM /\ E_OOM # 0
    BY <1>11 DEF EmitFails, Fail, E_OOM
  <2> QED
    BY <1>2, <2>1 DEF ValueOK, CompilesWithinRegisters, PrintsTheValue
<1>12. CASE IrDone
  <2>1. todo = <<>> /\ phase' = "asm" /\ UNCHANGED <<root, code, asm, err>>
    BY <1>12 DEF IrDone
  <2>2. Compiled(root, code)
    BY <1>1, <2>1, IrDoneOK
  <2>3. Lowered(asm, code)
    <3>1. IsSeq(asm) /\ Len(asm) = 0 /\ 1..Len(asm) = {} /\ Len(code) \in Nat
      BY <1>2, <2>2, IsSeqEmpty DEF Compiled, CodeFlows, IsSeq
    <3> QED
      BY <3>1 DEF Lowered
  <2> QED
    BY <1>2, <2>1, <2>2, <2>3 DEF ValueOK, CompilesWithinRegisters, PrintsTheValue
<1> QED
  BY <1>4, <1>5, <1>6, <1>7, <1>8, <1>9, <1>10, <1>11, <1>12

\* compile_instructions_to_x86_64 keeps it.
LEMMA AsmStepValueOK ==
  ASSUME ValueOK, WellFormed(root), phase = "asm", PrintInstruction \/ PrintEpilogue
  PROVE  ValueOK'
<1>1. root \in Exprs /\ err = 0 /\ Compiled(root, code) /\ Lowered(asm, code)
  BY DEF ValueOK
<1>2. /\ IsSeq(asm) /\ Len(asm) \in Nat /\ IsSeq(code) /\ Len(code) \in Nat /\ Len(asm) <= Len(code)
      /\ \A k \in 1..Len(asm) : asm[k] = Lower(code[k]) /\ code[k].t # "SUB_BINARY"
      /\ \A k \in 1..Len(code) : code[k].t = "SUB_BINARY" => Even(code[k].a)
  BY <1>1 DEF Compiled, CodeFlows, Lowered, IsSeq
<1>3. CASE PrintInstruction
  <2> DEFINE n == Len(asm) + 1
             i == code[n]
  <2>1. n \in 1..Len(code) /\ Len(asm) < Len(code)
    BY <1>2, <1>3 DEF PrintInstruction
  <2>2. CASE Refused(i)
    <3>1. root' = root /\ phase' = "done" /\ err' = 8
      BY <1>3, <2>2 DEF PrintInstruction, Fail, E_BADREGISTER
    <3>2. Count(root, {"sub"}) # 0
      BY <1>1, <2>1, <2>2 DEF Compiled, Subtraction, Refused
    <3> QED
      BY <1>1, <3>1, <3>2 DEF ValueOK, CompilesWithinRegisters, PrintsTheValue
  <2>3. CASE ~ Refused(i)
    <3>1. asm' = Append(asm, Lower(i)) /\ UNCHANGED <<root, phase, code, err>>
      BY <1>3, <2>3 DEF PrintInstruction
    <3>2. i.t # "SUB_BINARY"
      <4>1. SUFFICES ASSUME i.t = "SUB_BINARY" PROVE FALSE
        OBVIOUS
      <4>2. i.a = 1
        BY <2>3, <4>1 DEF Refused, REG1
      <4>3. PICK h \in Nat : i.a = 2 * h
        BY <1>2, <2>1, <4>1 DEF Even
      <4> HIDE DEF i
      <4> QED
        BY <4>2, <4>3
    <3>3. /\ IsSeq(asm') /\ Len(asm') = n /\ \A k \in 1..Len(asm) : asm'[k] = asm[k]
          /\ asm'[n] = Lower(i)
      BY <1>2, <3>1, IsSeqAppend
    <3>4. \A k \in 1..n : k \in 1..Len(asm) \/ k = n
      BY <1>2
    <3>5. \A k \in 1..n : asm'[k] = Lower(code[k]) /\ code[k].t # "SUB_BINARY"
      BY <1>2, <3>2, <3>3, <3>4
    <3>6. Lowered(asm', code')
      BY <1>2, <2>1, <3>1, <3>3, <3>5 DEF Lowered
    <3> QED
      BY <1>1, <3>1, <3>6 DEF ValueOK, CompilesWithinRegisters, PrintsTheValue
  <2> QED
    BY <2>2, <2>3
<1>4. CASE PrintEpilogue
  <2>1. Len(asm) = Len(code) /\ phase' = "done" /\ UNCHANGED <<root, code, asm, err>>
    BY <1>4 DEF PrintEpilogue
  <2>2. Count(root, {"sub"}) = 0
    <3>1. ~ Subtraction(code)
      BY <1>2, <2>1 DEF Subtraction
    <3>2. Count(root, {"sub"}) \in Nat
      BY <1>1, CountNat
    <3> QED
      BY <1>1, <3>1, <3>2 DEF Compiled
  <2>3. asm = Low(code)
    <3> DEFINE n == Len(code)
               T == { Lower(code[k]) : k \in 1..n }
    <3>1. Low(code) = [k \in 1..n |-> Lower(code[k])]
      BY DEF Low
    <3>2. \A k \in 1..n : asm[k] = Lower(code[k]) /\ Lower(code[k]) \in T
      BY <1>2, <2>1
    <3>3. asm \in Seq(T)
      <4>1. asm = [k \in 1..n |-> asm[k]]
        <5>1. PICK S : asm \in Seq(S)
          BY <1>2 DEF IsSeq
        <5> QED
          BY <2>1, <5>1
      <4> HIDE DEF T, n
      <4>2. n \in Nat
        BY <1>2 DEF n
      <4> QED
        BY <3>2, <4>1, <4>2
    <3>4. Low(code) \in Seq(T) /\ Len(Low(code)) = n /\ \A k \in 1..n : Low(code)[k] = Lower(code[k])
      <4>1. n \in Nat
        BY <1>2
      <4> HIDE DEF T, n
      <4> QED
        BY <3>1, <3>2, <4>1
    <3> HIDE DEF T
    <3> QED
      BY <2>1, <3>2, <3>3, <3>4, SeqEqual
  <2>4. CompilesWithinRegisters'
    BY <1>1, <2>1, <2>2 DEF CompilesWithinRegisters, Compiled
  <2>5. PrintsTheValue'
    <3>1. NegationsInRax(root) => Run(asm)[OUT_REG] = Meaning[root]
      BY <1>1, <2>2, <2>3 DEF Compiled, Plain
    <3> QED
      BY <2>1, <3>1 DEF PrintsTheValue
  <2> QED
    BY <1>1, <2>1, <2>4, <2>5 DEF ValueOK
<1> QED
  BY <1>3, <1>4

\* Every step keeps it.
LEMMA NextValueOK ==
  ASSUME ValueOK, [Next]_vars
  PROVE  ValueOK'
<1>1. root' = root
  BY DEF Next, vars, GenLiteral, GenUnaryPlus, GenUnaryMinus, GenBinary, GenJunk, EmitMulConstant,
         EmitBinary, EmitFails, IrDone, PrintInstruction, PrintEpilogue, Fail
<1>2. CASE UNCHANGED vars
  BY <1>2 DEF vars, ValueOK, CompilesWithinRegisters, PrintsTheValue
<1>3. CASE ~ WellFormed(root)
  BY <1>1, <1>3 DEF ValueOK, CompilesWithinRegisters, PrintsTheValue
<1>4. CASE Next /\ WellFormed(root)
  <2>1. CASE GenLiteral \/ GenUnaryPlus \/ GenUnaryMinus \/ GenBinary \/ GenJunk
             \/ EmitMulConstant \/ EmitBinary \/ EmitFails \/ IrDone
    <3>1. phase = "ir"
      BY <2>1 DEF GenLiteral, GenUnaryPlus, GenUnaryMinus, GenBinary, GenJunk, EmitMulConstant,
                  EmitBinary, EmitFails, IrDone, Compiles, Compiling
    <3> QED
      BY <1>4, <2>1, <3>1, IrStepValueOK
  <2>2. CASE PrintInstruction \/ PrintEpilogue
    <3>1. phase = "asm"
      BY <2>2 DEF PrintInstruction, PrintEpilogue
    <3> QED
      BY <1>4, <2>2, <3>1, AsmStepValueOK
  <2> QED
    BY <1>4, <2>1, <2>2 DEF Next
<1> QED
  BY <1>2, <1>3, <1>4

\* The second invariant is one.
LEMMA CodegenValues == Spec => []ValueOK
<1>1. Init => ValueOK
  BY InitValueOK
<1>2. ValueOK /\ [Next]_vars => ValueOK'
  BY NextValueOK
<1> QED
  BY <1>1, <1>2, PTL DEF Spec

\* The intermediate code of an expression leaves its value in REG1: no operand is
\* overwritten before it is used, whatever the shape of the tree and its depth.
THEOREM CodegenIRCorrect == Spec => []IRCorrect
<1>1. ValueOK => IRCorrect
  BY DEF ValueOK, IRCorrect, Compiled
<1> QED
  BY <1>1, CodegenValues, PTL

\* Memory apart, a compilation succeeds just when there is a pair of registers for each
\* binary operator and no subtraction.
THEOREM CodegenCompilesWithinRegisters == Spec => []CompilesWithinRegisters
<1>1. ValueOK => CompilesWithinRegisters
  BY DEF ValueOK
<1> QED
  BY <1>1, CodegenValues, PTL

\* What the program prints is the value of the expression when every negation in it is
\* of what is in rax.
THEOREM CodegenPrintsTheValue == Spec => []PrintsTheValue
<1>1. ValueOK => PrintsTheValue
  BY DEF ValueOK
<1> QED
  BY <1>1, CodegenValues, PTL
=============================================================================
