----------------------------- MODULE MonkeyProofs -----------------------------
(***************************************************************************)
(* For every set of lines and any number of them: a let binds in the       *)
(* environment of the innermost running call and in no other; environments *)
(* nest, so that every search through them ends; and an error is kept      *)
(* nowhere, neither by a name nor inside an object, but ends its line.     *)
(***************************************************************************)
EXTENDS MonkeyEval, ProofLemmas

(***************************************************************************)
(* e is the environment of the last call among the first m frames of s, or *)
(* that of the REPL if there is none.                                      *)
(***************************************************************************)
IsScope(s, m, e) ==
  \/ e = 1 /\ \A i \in 1..m : s[i].k # "call"
  \/ \E j \in 1..m : /\ s[j].k = "call" /\ s[j].env = e
                     /\ \A i \in (j + 1)..m : s[i].k # "call"

\* The frames that remember the environment they are to go on in.
HasEnv(f) ==
  f.k \in {"let", "left", "indexed", "if", "callee", "args", "elements", "key", "pair", "block"}

(***************************************************************************)
(* The invariant: every suspended part of an Eval will go on in the        *)
(* environment of the call it belongs to, and the innermost one runs there.*)
(***************************************************************************)
Scoped(s) == IsSeq(s) /\ \A k \in 1..Len(s) : HasEnv(s[k]) => IsScope(s, k, s[k].env)

StackInv ==
  /\ Scoped(stack)
  /\ ctl.mode = "eval" => IsScope(stack, Len(stack), ctl.env)

ScopeInv == StackInv /\ IsSeq(envs)

\* What a step may do to the environments there are.
Binds == \A e \in 1..Len(envs) : envs'[e] # envs[e] => e = Running

-----------------------------------------------------------------------------

\* The scope at a frame depends on the frames up to it only.
LEMMA ScopeAgrees ==
  ASSUME NEW s, NEW t, NEW m \in Nat, NEW e, IsScope(s, m, e), \A i \in 1..m : t[i] = s[i]
  PROVE  IsScope(t, m, e)
<1>1. CASE e = 1 /\ \A i \in 1..m : s[i].k # "call"
  BY <1>1 DEF IsScope
<1>2. CASE \E j \in 1..m : /\ s[j].k = "call" /\ s[j].env = e
                           /\ \A i \in (j + 1)..m : s[i].k # "call"
  <2>1. PICK j \in 1..m : /\ s[j].k = "call" /\ s[j].env = e
                          /\ \A i \in (j + 1)..m : s[i].k # "call"
    BY <1>2
  <2>2. \A i \in (j + 1)..m : i \in 1..m
    OBVIOUS
  <2>3. \A i \in (j + 1)..m : t[i].k # "call"
    BY <2>1, <2>2
  <2> QED
    BY <2>1, <2>3 DEF IsScope
<1> QED
  BY <1>1, <1>2 DEF IsScope

\* One frame more, not a call's, or less, and the scope is the same.
LEMMA ScopeGrows ==
  ASSUME NEW s, NEW m \in Nat, NEW e, s[m + 1].k # "call"
  PROVE  IsScope(s, m, e) <=> IsScope(s, m + 1, e)
<1>1. \A i \in 1..(m + 1) : i \in 1..m \/ i = m + 1
  OBVIOUS
<1>2. ASSUME IsScope(s, m, e) PROVE IsScope(s, m + 1, e)
  <2>1. CASE e = 1 /\ \A i \in 1..m : s[i].k # "call"
    BY <1>1, <2>1 DEF IsScope
  <2>2. CASE \E j \in 1..m : /\ s[j].k = "call" /\ s[j].env = e
                             /\ \A i \in (j + 1)..m : s[i].k # "call"
    <3>1. PICK j \in 1..m : /\ s[j].k = "call" /\ s[j].env = e
                            /\ \A i \in (j + 1)..m : s[i].k # "call"
      BY <2>2
    <3>2. \A i \in (j + 1)..(m + 1) : i \in (j + 1)..m \/ i = m + 1
      OBVIOUS
    <3>3. \A i \in (j + 1)..(m + 1) : s[i].k # "call"
      BY <3>1, <3>2
    <3> QED
      BY <3>1, <3>3 DEF IsScope
  <2> QED
    BY <1>2, <2>1, <2>2 DEF IsScope
<1>3. ASSUME IsScope(s, m + 1, e) PROVE IsScope(s, m, e)
  <2>1. CASE e = 1 /\ \A i \in 1..(m + 1) : s[i].k # "call"
    BY <2>1 DEF IsScope
  <2>2. CASE \E j \in 1..(m + 1) : /\ s[j].k = "call" /\ s[j].env = e
                                   /\ \A i \in (j + 1)..(m + 1) : s[i].k # "call"
    <3>1. PICK j \in 1..(m + 1) : /\ s[j].k = "call" /\ s[j].env = e
                                  /\ \A i \in (j + 1)..(m + 1) : s[i].k # "call"
      BY <2>2
    <3>2. j \in 1..m
      BY <1>1, <3>1
    <3>3. \A i \in (j + 1)..m : s[i].k # "call"
      BY <3>1, <3>2
    <3> QED
      BY <3>1, <3>2, <3>3 DEF IsScope
  <2> QED
    BY <1>3, <2>1, <2>2 DEF IsScope
<1> QED
  BY <1>2, <1>3

\* A frame pushed: its environment is that of the scope below it, unless it is a call's.
LEMMA ScopedPush ==
  ASSUME NEW s, Scoped(s), NEW f,
         HasEnv(f) => IsScope(s, Len(s), f.env)
  PROVE  /\ Scoped(Append(s, f)) /\ Len(Append(s, f)) = Len(s) + 1
         /\ f.k # "call" => \A e : IsScope(s, Len(s), e) => IsScope(Append(s, f), Len(s) + 1, e)
         /\ f.k = "call" => IsScope(Append(s, f), Len(s) + 1, f.env)
<1> DEFINE t == Append(s, f)
           m == Len(s)
<1>1. /\ IsSeq(t) /\ m \in Nat /\ Len(t) = m + 1
      /\ \A k \in 1..m : t[k] = s[k]
      /\ t[m + 1] = f
  BY IsSeqAppend DEF Scoped
<1> HIDE DEF t
<1>2. ASSUME NEW e, IsScope(s, m, e), f.k # "call" PROVE IsScope(t, m + 1, e)
  <2>1. IsScope(t, m, e)
    BY <1>1, <1>2, ScopeAgrees
  <2> QED
    BY <1>1, <1>2, <2>1, ScopeGrows
<1>3. ASSUME NEW k \in 1..(m + 1), HasEnv(t[k]) PROVE IsScope(t, k, t[k].env)
  <2>1. CASE k = m + 1
    BY <1>1, <1>2, <1>3, <2>1 DEF HasEnv
  <2>2. CASE k \in 1..m
    <3>1. IsScope(s, k, t[k].env) /\ k \in Nat
      BY <1>1, <1>3, <2>2 DEF Scoped
    <3>2. \A i \in 1..k : t[i] = s[i]
      BY <1>1, <2>2
    <3> QED
      BY <3>1, <3>2, ScopeAgrees
  <2> QED
    BY <1>1, <2>1, <2>2
<1>4. Scoped(t)
  BY <1>1, <1>3 DEF Scoped
<1>5. ASSUME f.k = "call" PROVE IsScope(t, m + 1, f.env)
  BY <1>1, <1>5 DEF IsScope
<1> QED
  BY <1>1, <1>2, <1>4, <1>5 DEF t

\* A frame popped.
LEMMA ScopedPop ==
  ASSUME NEW s, Scoped(s), s # <<>>
  PROVE  /\ Scoped(Front(s)) /\ Len(Front(s)) = Len(s) - 1 /\ Last(s) = s[Len(s)]
         /\ HasEnv(Last(s)) => /\ IsScope(s, Len(s), Last(s).env)
                               /\ IsScope(Front(s), Len(Front(s)), Last(s).env)
<1> DEFINE t == Front(s)
           m == Len(s) - 1
<1>1. /\ IsSeq(t) /\ m \in Nat /\ Len(t) = m /\ Len(s) = m + 1
      /\ \A k \in 1..m : t[k] = s[k]
      /\ Last(s) = s[m + 1]
  BY IsSeqFront DEF Scoped
<1> HIDE DEF t, m
<1>2. ASSUME NEW k \in 1..m, HasEnv(t[k]) PROVE IsScope(t, k, t[k].env)
  <2>1. IsScope(s, k, t[k].env) /\ k \in Nat
    BY <1>1, <1>2 DEF Scoped
  <2>2. \A i \in 1..k : t[i] = s[i]
    BY <1>1
  <2> QED
    BY <2>1, <2>2, ScopeAgrees
<1>3. ASSUME HasEnv(Last(s)) PROVE IsScope(s, m + 1, Last(s).env) /\ IsScope(t, m, Last(s).env)
  <2>1. IsScope(s, m + 1, Last(s).env)
    BY <1>1, <1>3 DEF Scoped
  <2>2. IsScope(s, m, Last(s).env)
    BY <1>1, <1>3, <2>1, ScopeGrows DEF HasEnv
  <2> QED
    BY <1>1, <2>1, <2>2, ScopeAgrees
<1> QED
  BY <1>1, <1>2, <1>3 DEF Scoped, t, m

\* There is one scope at a time, the one Running finds.
LEMMA RunningIsScope ==
  ASSUME Scoped(stack), NEW e, IsScope(stack, Len(stack), e)
  PROVE  Running = e
<1> DEFINE calls == { k \in 1..Len(stack) : stack[k].k = "call" }
<1>1. CASE e = 1 /\ \A i \in 1..Len(stack) : stack[i].k # "call"
  <2>1. calls = {}
    BY <1>1
  <2> QED
    BY <1>1, <2>1 DEF Running
<1>2. CASE \E j \in 1..Len(stack) : /\ stack[j].k = "call" /\ stack[j].env = e
                                    /\ \A i \in (j + 1)..Len(stack) : stack[i].k # "call"
  <2>1. PICK j \in 1..Len(stack) : /\ stack[j].k = "call" /\ stack[j].env = e
                                   /\ \A i \in (j + 1)..Len(stack) : stack[i].k # "call"
    BY <1>2
  <2>2. Len(stack) \in Nat
    BY DEF Scoped, IsSeq
  <2>3. j \in calls /\ \A i \in calls : i <= j
    BY <2>1, <2>2
  <2>4. (CHOOSE k \in calls : \A i \in calls : i <= k) = j
    <3> DEFINE last == CHOOSE k \in calls : \A i \in calls : i <= k
    <3>1. last \in calls /\ \A i \in calls : i <= last
      BY <2>3
    <3> HIDE DEF last
    <3>2. last <= j /\ j <= last /\ last \in Nat /\ j \in Nat
      BY <2>2, <2>3, <3>1
    <3> QED
      BY <3>2 DEF last
  <2>5. calls # {}
    BY <2>3
  <2> QED
    BY <2>1, <2>4, <2>5 DEF Running
<1> QED
  BY <1>1, <1>2 DEF IsScope

-----------------------------------------------------------------------------
(* What the steps have in common *)

LEMMA ValueIsNotEval ==
  ASSUME NEW o, Value(o)
  PROVE  ctl'.mode # "eval"
BY DEF Value, Panic

LEMMA TopScope ==
  ASSUME StackInv, NEW k, Takes(k)
  PROVE  /\ stack # <<>> /\ top.k = k /\ ctl.mode = "value" /\ Scoped(callers)
         /\ HasEnv(top) => /\ IsScope(callers, Len(callers), top.env)
                           /\ IsScope(stack, Len(stack), top.env)
<1>1. stack # <<>> /\ top.k = k /\ ctl.mode = "value"
  BY DEF Takes, Returned
<1> QED
  BY <1>1, ScopedPop DEF StackInv, top, callers

\* An Eval returns to its caller.
LEMMA PopValue ==
  ASSUME StackInv, NEW k, Takes(k), stack' = callers, ctl'.mode # "eval"
  PROVE  StackInv'
BY TopScope DEF StackInv

\* The caller goes on with another of its parts, and may wait for it.
LEMMA PopEvaluate ==
  ASSUME StackInv, NEW k, Takes(k), HasEnv(top), ctl'.env = top.env,
         \/ stack' = callers
         \/ \E f : /\ stack' = Append(callers, f) /\ f.k # "call"
                   /\ HasEnv(f) => f.env = top.env
  PROVE  StackInv'
<1>1. Scoped(callers) /\ IsScope(callers, Len(callers), top.env)
  BY TopScope
<1>2. CASE stack' = callers
  BY <1>1, <1>2 DEF StackInv
<1>3. CASE \E f : /\ stack' = Append(callers, f) /\ f.k # "call"
                  /\ HasEnv(f) => f.env = top.env
  <2>1. PICK f : /\ stack' = Append(callers, f) /\ f.k # "call"
                 /\ HasEnv(f) => f.env = top.env
    BY <1>3
  <2>2. /\ Scoped(Append(callers, f)) /\ Len(Append(callers, f)) = Len(callers) + 1
        /\ IsScope(Append(callers, f), Len(callers) + 1, top.env)
    BY <1>1, <2>1, ScopedPush
  <2> QED
    BY <2>1, <2>2 DEF StackInv
<1> QED
  BY <1>2, <1>3

\* Eval calls itself on a part, or for the body of a function.
LEMMA PushInv ==
  ASSUME StackInv, NEW s, Scoped(s), NEW f, NEW n, NEW e, Push(s, f, n, e),
         HasEnv(f) => f.env = e,
         IF f.k = "call" THEN f.env = e ELSE IsScope(s, Len(s), e)
  PROVE  StackInv'
<1>1. CASE stack' = Append(s, f) /\ ctl' = [mode |-> "eval", node |-> n, env |-> e]
  <2>1. HasEnv(f) => IsScope(s, Len(s), f.env)
    BY DEF HasEnv
  <2>2. /\ Scoped(Append(s, f)) /\ Len(Append(s, f)) = Len(s) + 1
        /\ IsScope(Append(s, f), Len(s) + 1, e)
    BY <2>1, ScopedPush
  <2> QED
    BY <1>1, <2>2 DEF StackInv
<1>2. CASE UNCHANGED stack /\ ctl' = [mode |-> "overflow"]
  BY <1>2 DEF StackInv
<1> QED
  BY <1>1, <1>2 DEF Push, Evaluate

LEMMA NextKeyInv ==
  ASSUME StackInv, NEW s, Scoped(s), NEW pairs, NEW left, NEW done, NEW e,
         IsScope(s, Len(s), e), NextKey(pairs, left, done, s, e)
  PROVE  StackInv'
<1>1. PICK i \in left : Push(s, [k |-> "key", pairs |-> pairs, left |-> left \ {i}, at |-> i,
                                 done |-> done, env |-> e], pairs[i][1], e)
  BY DEF NextKey
<1> QED
  BY <1>1, PushInv

-----------------------------------------------------------------------------
(* The steps *)

LEMMA ReadLineInv == StackInv /\ ReadLine => StackInv'
<1> SUFFICES ASSUME StackInv, ReadLine PROVE StackInv'
  OBVIOUS
<1>1. Scoped(<<>>) /\ Len(<<>>) = 0 /\ IsScope(<<>>, 0, 1)
  BY DEF Scoped, IsSeq, IsScope
<1>2. CASE stack' = <<>> /\ ctl' = [mode |-> "prompt", o |-> Nil]
  BY <1>1, <1>2 DEF StackInv
<1>3. CASE Push(<<>>, [k |-> "program", rest |-> Tail(line')], Head(line'), 1)
  BY <1>1, <1>3, PushInv DEF HasEnv
<1> QED
  BY <1>2, <1>3 DEF ReadLine

LEMMA EvalPartInv == StackInv /\ EvalPart => StackInv'
<1> SUFFICES ASSUME StackInv, EvalPart PROVE StackInv'
  OBVIOUS
<1>1. ctl.mode = "eval"
  BY DEF EvalPart, At
<1>2. Scoped(stack) /\ IsScope(stack, Len(stack), ctl.env)
  BY <1>1 DEF StackInv
<1>3. ASSUME NEW f, NEW n, Push(stack, f, n, ctl.env), f.k # "call", HasEnv(f) => f.env = ctl.env
      PROVE  StackInv'
  BY <1>2, <1>3, PushInv
<1>4. CASE Push(stack, [k |-> "let", n |-> node.n, env |-> ctl.env], node.value, ctl.env)
  BY <1>3, <1>4
<1>5. CASE Push(stack, [k |-> "return"], node.value, ctl.env)
  BY <1>3, <1>5 DEF HasEnv
<1>6. CASE Push(stack, [k |-> "prefix", op |-> node.op], node.right, ctl.env)
  BY <1>3, <1>6 DEF HasEnv
<1>7. CASE Push(stack, [k |-> "left", op |-> node.op, right |-> node.right, env |-> ctl.env],
                node.left, ctl.env)
  BY <1>3, <1>7
<1>8. CASE Push(stack, [k |-> "if", then |-> node.then, else |-> node.else, env |-> ctl.env],
                node.cond, ctl.env)
  BY <1>3, <1>8
<1>9. CASE Push(stack, [k |-> "indexed", index |-> node.index, env |-> ctl.env], node.left, ctl.env)
  BY <1>3, <1>9
<1>10. CASE Push(stack, [k |-> "callee", args |-> node.args, env |-> ctl.env], node.fn, ctl.env)
  BY <1>3, <1>10
<1>11. CASE Push(stack, [k |-> "elements", done |-> <<>>, rest |-> Tail(node.elements),
                         env |-> ctl.env], Head(node.elements), ctl.env)
  BY <1>3, <1>11
<1>12. CASE Push(stack, [k |-> "block", rest |-> Tail(node.stmts), env |-> ctl.env],
                 Head(node.stmts), ctl.env)
  BY <1>3, <1>12
<1> QED
  BY <1>4, <1>5, <1>6, <1>7, <1>8, <1>9, <1>10, <1>11, <1>12 DEF EvalPart

LEMMA EvalHashInv == StackInv /\ EvalHash => StackInv'
BY NextKeyInv DEF EvalHash, At, StackInv

LEMMA LeavesInv == StackInv /\ (EvalLeaf \/ EvalNew) => StackInv'
<1> SUFFICES ASSUME StackInv, EvalLeaf \/ EvalNew PROVE StackInv'
  OBVIOUS
<1>1. UNCHANGED stack /\ \E o : Value(o)
  BY DEF EvalLeaf, EvalNew
<1> QED
  BY <1>1, ValueIsNotEval DEF StackInv

\* The steps that hand an object to the caller.
LEMMA PopsInv ==
  ASSUME StackInv,
         \/ ErrorReturned \/ LetReturned \/ ReturnReturned \/ PrefixReturned \/ RightReturned
         \/ IndexReturned \/ CallReturned
  PROVE  StackInv'
<1>1. CASE ErrorReturned
  <2>1. stack # <<>> /\ stack' = callers /\ ctl' = ctl /\ ctl.mode = "value"
    BY <1>1 DEF ErrorReturned
  <2> QED
    BY <2>1, ScopedPop DEF StackInv, callers
<1>2. CASE LetReturned
  <2>1. Takes("let") /\ stack' = callers /\ ctl' = ctl
    BY <1>2 DEF LetReturned
  <2>2. ctl'.mode # "eval"
    BY <2>1, TopScope
  <2> QED
    BY <2>1, <2>2, PopValue
<1>3. CASE ReturnReturned
  BY <1>3, ValueIsNotEval, PopValue DEF ReturnReturned
<1>4. CASE PrefixReturned
  BY <1>4, ValueIsNotEval, PopValue DEF PrefixReturned
<1>5. CASE RightReturned
  BY <1>5, ValueIsNotEval, PopValue DEF RightReturned
<1>6. CASE IndexReturned
  BY <1>6, ValueIsNotEval, PopValue DEF IndexReturned
<1>7. CASE CallReturned
  BY <1>7, ValueIsNotEval, PopValue DEF CallReturned
<1> QED
  BY <1>1, <1>2, <1>3, <1>4, <1>5, <1>6, <1>7

\* Those that go on with the second operand, with a branch, or with a value for a key.
LEMMA SecondPartInv ==
  ASSUME StackInv, LeftReturned \/ IndexedReturned \/ ConditionReturned \/ KeyReturned
  PROVE  StackInv'
<1>1. CASE LeftReturned
  <2>1. Takes("left") /\ ctl'.env = top.env
        /\ stack' = Append(callers, [k |-> "right", op |-> top.op, left |-> object])
    BY <1>1 DEF LeftReturned, Evaluate
  <2>2. HasEnv(top)
    BY <2>1, TopScope DEF HasEnv
  <2> QED
    BY <2>1, <2>2, PopEvaluate DEF HasEnv
<1>2. CASE IndexedReturned
  <2>1. Takes("indexed") /\ ctl'.env = top.env
        /\ stack' = Append(callers, [k |-> "index", left |-> object])
    BY <1>2 DEF IndexedReturned, Evaluate
  <2>2. HasEnv(top)
    BY <2>1, TopScope DEF HasEnv
  <2> QED
    BY <2>1, <2>2, PopEvaluate DEF HasEnv
<1>3. CASE ConditionReturned
  <2>1. Takes("if") /\ stack' = callers
    BY <1>3 DEF ConditionReturned
  <2>2. HasEnv(top)
    BY <2>1, TopScope DEF HasEnv
  <2>3. \/ Evaluate(top.then, top.env)
        \/ Evaluate(top.else, top.env)
        \/ Value(NULL)
    BY <1>3 DEF ConditionReturned
  <2>4. CASE Evaluate(top.then, top.env) \/ Evaluate(top.else, top.env)
    BY <2>1, <2>2, <2>4, PopEvaluate DEF Evaluate
  <2>5. CASE Value(NULL)
    BY <2>1, <2>5, ValueIsNotEval, PopValue
  <2> QED
    BY <2>3, <2>4, <2>5
<1>4. CASE KeyReturned
  <2>1. Takes("key")
    BY <1>4 DEF KeyReturned
  <2>2. HasEnv(top)
    BY <2>1, TopScope DEF HasEnv
  <2>3. CASE Hashable(object)
    <3> DEFINE f == [k |-> "pair", key |-> object, pairs |-> top.pairs, left |-> top.left,
                     done |-> top.done, env |-> top.env]
    <3>1. stack' = Append(callers, f) /\ ctl'.env = top.env
      BY <1>4, <2>3 DEF KeyReturned, Evaluate
    <3>2. f.k # "call" /\ f.env = top.env
      OBVIOUS
    <3> QED
      BY <2>1, <2>2, <3>1, <3>2, PopEvaluate
  <2>4. CASE ~ Hashable(object)
    <3>1. stack' = callers /\ \E o : Value(o)
      BY <1>4, <2>4 DEF KeyReturned
    <3> QED
      BY <2>1, <3>1, ValueIsNotEval, PopValue
  <2> QED
    BY <2>3, <2>4
<1> QED
  BY <1>1, <1>2, <1>3, <1>4

LEMMA PairReturnedInv == StackInv /\ PairReturned => StackInv'
<1> SUFFICES ASSUME StackInv, PairReturned PROVE StackInv'
  OBVIOUS
<1> DEFINE done == Bind(top.done, top.key, object)
<1>1. Takes("pair")
  BY DEF PairReturned
<1>2. Scoped(callers) /\ IsScope(callers, Len(callers), top.env)
  BY <1>1, TopScope DEF HasEnv
<1>3. CASE top.left # {}
  <2>1. NextKey(top.pairs, top.left, done, callers, top.env)
    BY <1>3 DEF PairReturned
  <2> QED
    BY <1>2, <2>1, NextKeyInv
<1>4. CASE top.left = {}
  <2>1. stack' = callers /\ Value(Hash(done, made + 1))
    BY <1>4 DEF PairReturned
  <2> QED
    BY <1>1, <2>1, ValueIsNotEval, PopValue
<1> QED
  BY <1>3, <1>4

\* A callee, or the arguments and elements that are evaluated one by one.
LEMMA ApplyInv ==
  ASSUME StackInv, NEW k, Takes(k), HasEnv(top), NEW fn, NEW args, Apply(fn, args, top.env)
  PROVE  StackInv'
<1>1. Scoped(callers)
  BY TopScope
<1>2. CASE Panic /\ UNCHANGED stack
  BY <1>2 DEF Panic, StackInv
<1>3. CASE Push(callers, [k |-> "call", env |-> Len(envs) + 1], fn.lit.body, Len(envs) + 1)
  BY <1>1, <1>3, PushInv
<1>4. CASE stack' = callers /\ \E o : Value(o)
  BY <1>4, ValueIsNotEval, PopValue
<1> QED
  BY <1>2, <1>3, <1>4 DEF Apply

LEMMA ArgumentsInv ==
  ASSUME StackInv, NEW k, Takes(k), HasEnv(top), NEW fn, NEW done, NEW rest,
         Arguments(fn, done, rest, top.env)
  PROVE  StackInv'
<1>1. CASE rest = <<>>
  BY <1>1, ApplyInv DEF Arguments
<1>2. CASE rest # <<>>
  <2> DEFINE f == [k |-> "args", fn |-> fn, done |-> done, rest |-> Tail(rest), env |-> top.env]
  <2>1. stack' = Append(callers, f) /\ ctl'.env = top.env
    BY <1>2 DEF Arguments, Evaluate
  <2>2. f.k # "call" /\ f.env = top.env
    OBVIOUS
  <2> QED
    BY <2>1, <2>2, PopEvaluate
<1> QED
  BY <1>1, <1>2

LEMMA ListsInv ==
  ASSUME StackInv, CalleeReturned \/ ArgumentReturned \/ ElementReturned \/ BlockReturned
  PROVE  StackInv'
<1>1. CASE CalleeReturned
  <2>1. Takes("callee") /\ Arguments(object, <<>>, top.args, top.env)
    BY <1>1 DEF CalleeReturned
  <2> QED
    BY <2>1, TopScope, ArgumentsInv DEF HasEnv
<1>2. CASE ArgumentReturned
  <2>1. Takes("args") /\ Arguments(top.fn, Append(top.done, object), top.rest, top.env)
    BY <1>2 DEF ArgumentReturned
  <2> QED
    BY <2>1, TopScope, ArgumentsInv DEF HasEnv
<1>3. CASE ElementReturned
  <2> DEFINE done == Append(top.done, object)
             f == [k |-> "elements", done |-> done, rest |-> Tail(top.rest), env |-> top.env]
  <2>1. Takes("elements")
    BY <1>3 DEF ElementReturned
  <2>2. CASE top.rest = <<>>
    <3>1. stack' = callers /\ Value(Array(done, made + 1))
      BY <1>3, <2>2 DEF ElementReturned
    <3> QED
      BY <2>1, <3>1, ValueIsNotEval, PopValue
  <2>3. CASE top.rest # <<>>
    <3>1. stack' = Append(callers, f) /\ ctl'.env = top.env
      BY <1>3, <2>3 DEF ElementReturned, Evaluate
    <3>2. f.k # "call" /\ f.env = top.env
      OBVIOUS
    <3> QED
      BY <2>1, <3>1, <3>2, TopScope, PopEvaluate DEF HasEnv
  <2> QED
    BY <2>2, <2>3
<1>4. CASE BlockReturned
  <2> DEFINE f == [k |-> "block", rest |-> Tail(top.rest), env |-> top.env]
  <2>1. Takes("block")
    BY <1>4 DEF BlockReturned
  <2>2. CASE object.t = "RETURN_VALUE" \/ top.rest = <<>>
    <3>1. stack' = callers /\ ctl' = ctl
      BY <1>4, <2>2 DEF BlockReturned
    <3> QED
      BY <2>1, <3>1, TopScope, PopValue
  <2>3. CASE ~ (object.t = "RETURN_VALUE" \/ top.rest = <<>>)
    <3>1. stack' = Append(callers, f) /\ ctl'.env = top.env
      BY <1>4, <2>3 DEF BlockReturned, Evaluate
    <3>2. f.k # "call" /\ f.env = top.env
      OBVIOUS
    <3> QED
      BY <2>1, <3>1, <3>2, TopScope, PopEvaluate DEF HasEnv
  <2> QED
    BY <2>2, <2>3
<1> QED
  BY <1>1, <1>2, <1>3, <1>4

LEMMA ProgramReturnedInv == StackInv /\ ProgramReturned => StackInv'
<1> SUFFICES ASSUME StackInv, ProgramReturned PROVE StackInv'
  OBVIOUS
<1> DEFINE f == [k |-> "program", rest |-> Tail(top.rest)]
<1>1. Scoped(<<>>) /\ Len(<<>>) = 0 /\ IsScope(<<>>, 0, 1)
  BY DEF Scoped, IsSeq, IsScope
<1>2. Append(<<>>, f) = <<f>> /\ Len(<<f>>) = 1
  OBVIOUS
<1>3. Scoped(<<f>>) /\ IsScope(<<f>>, 1, 1)
  BY <1>1, <1>2, ScopedPush DEF HasEnv
<1>4. \/ stack' = <<f>> /\ ctl'.env = 1
      \/ stack' = <<>> /\ ctl'.mode # "eval"
  BY DEF ProgramReturned, Evaluate, Panic
<1> QED
  BY <1>1, <1>2, <1>3, <1>4 DEF StackInv

-----------------------------------------------------------------------------

\* Only a let and a call touch the environments.
LEMMA NextBinds == ScopeInv /\ Next => Binds /\ IsSeq(envs')
<1> SUFFICES ASSUME ScopeInv, Next PROVE Binds /\ IsSeq(envs')
  OBVIOUS
<1>1. CASE UNCHANGED envs
  BY <1>1 DEF Binds, ScopeInv
<1>2. CASE LetReturned
  <2>1. Takes("let") /\ envs' = Set(envs, top.env, top.n, object)
    BY <1>2 DEF LetReturned
  <2>2. IsScope(stack, Len(stack), top.env)
    BY <2>1, TopScope DEF ScopeInv, HasEnv
  <2>3. Running = top.env
    BY <2>2, RunningIsScope DEF ScopeInv, StackInv
  <2> DEFINE new == [store |-> Bind(envs[top.env].store, top.n, object), outer |-> envs[top.env].outer]
  <2>4. envs' = [envs EXCEPT ![top.env] = new]
    BY <2>1 DEF Set
  <2>5. PICK T : envs \in Seq(T)
    BY DEF ScopeInv, IsSeq
  <2> HIDE DEF new
  <2>6. envs' \in Seq(T \cup {new})
    <3>1. Len(envs) \in Nat /\ envs \in [1..Len(envs) -> T]
      BY <2>5
    <3>2. envs' \in [1..Len(envs) -> T \cup {new}]
      BY <2>4, <3>1
    <3> QED
      BY <3>1, <3>2
  <2>7. \A e \in 1..Len(envs) : e # top.env => envs'[e] = envs[e]
    BY <2>4, <2>5
  <2> QED
    BY <2>3, <2>6, <2>7 DEF Binds, IsSeq
<1>3. ASSUME NEW fn, NEW args, NEW e, Apply(fn, args, e)
      PROVE  Binds /\ IsSeq(envs')
  <2>1. UNCHANGED envs \/ envs' = Append(envs, Extend(fn, args, e))
    BY <1>3 DEF Apply
  <2>2. CASE UNCHANGED envs
    BY <2>2 DEF Binds, ScopeInv
  <2>3. CASE envs' = Append(envs, Extend(fn, args, e))
    BY <2>3, IsSeqAppend DEF Binds, ScopeInv
  <2> QED
    BY <2>1, <2>2, <2>3
<1>4. ASSUME NEW fn, NEW done, NEW rest, NEW e, Arguments(fn, done, rest, e)
      PROVE  Binds /\ IsSeq(envs')
  <2>1. CASE rest = <<>>
    BY <1>3, <1>4, <2>1 DEF Arguments
  <2>2. CASE rest # <<>>
    BY <1>1, <1>4, <2>2 DEF Arguments
  <2> QED
    BY <2>1, <2>2
<1>5. CASE CalleeReturned
  BY <1>4, <1>5 DEF CalleeReturned
<1>6. CASE ArgumentReturned
  BY <1>4, <1>6 DEF ArgumentReturned
<1> QED
  BY <1>1, <1>2, <1>5, <1>6 DEF Next, ReadLine, EvalLeaf, EvalNew, EvalPart, EvalHash, ErrorReturned,
     ReturnReturned, PrefixReturned, LeftReturned, RightReturned, IndexedReturned, IndexReturned,
     KeyReturned, PairReturned, ConditionReturned, ElementReturned, CallReturned, BlockReturned,
     ProgramReturned

LEMMA ScopeInitInv == Init => ScopeInv
<1> SUFFICES ASSUME Init PROVE ScopeInv
  OBVIOUS
<1>1. IsSeq(stack) /\ Len(stack) = 0
  BY DEF Init, IsSeq
<1>2. envs \in Seq({NewEnvironment(0)})
  BY DEF Init
<1>3. ctl.mode = "prompt"
  BY DEF Init
<1> QED
  BY <1>1, <1>2, <1>3 DEF ScopeInv, StackInv, Scoped, IsSeq

LEMMA ScopeNextInv == ScopeInv /\ [Next]_vars => ScopeInv'
<1> SUFFICES ASSUME ScopeInv, [Next]_vars PROVE ScopeInv'
  OBVIOUS
<1>1. CASE Next
  <2>1. StackInv'
    BY <1>1, ReadLineInv, LeavesInv, EvalPartInv, EvalHashInv, PopsInv, SecondPartInv, PairReturnedInv,
       ListsInv, ProgramReturnedInv DEF Next, ScopeInv
  <2> QED
    BY <1>1, <2>1, NextBinds DEF ScopeInv
<1>2. CASE UNCHANGED vars
  BY <1>2 DEF vars, ScopeInv, StackInv
<1> QED
  BY <1>1, <1>2

\* What a closure has captured never changes after the call that made it has returned, and
\* no callee changes its caller's variables (evaluator.go 28-35, 127-148).
THEOREM MonkeyOnlyTheRunningCallBinds == Spec => OnlyTheRunningCallBinds
<1>1. ScopeInv /\ [Next]_vars => [Binds]_vars
  BY NextBinds
<1>2. Spec => [][Binds]_vars
  BY <1>1, ScopeInitInv, ScopeNextInv, PTL DEF Spec
<1> QED
  BY <1>2 DEF OnlyTheRunningCallBinds, Binds

-----------------------------------------------------------------------------
(* Errors *)

\* A map to objects of K.
MapIn(f, K) == \A x \in DOMAIN f : f[x] \in K

\* An environment holds objects of K and is enclosed by one made before it, or by none.
EnvOK(env, e, K) == MapIn(env.store, K) /\ env.outer \in 0..(e - 1)

\* All of them.
EnvsOK(es, K) == IsSeq(es) /\ \A e \in 1..Len(es) : EnvOK(es[e], e, K)

\* So the search through the enclosing ones comes to an end, with an object of K or the error
\* of an unknown name.
LEMMA GetFinds ==
  ASSUME NEW K, NEW es, EnvsOK(es, K), NEW env \in 0..Len(es), NEW n
  PROVE  Get(es, env, n) \in K \cup {Error}
<1> DEFINE N == Len(es)
           At1(f, e) == IF e = 0 THEN Error
                       ELSE IF n \in DOMAIN es[e].store THEN es[e].store[n] ELSE f[es[e].outer]
           Defined(k) == \E f : f = [e \in 0..k |-> At1(f, e)]
           Look == CHOOSE f : f = [e \in 0..N |-> At1(f, e)]
<1>1. N \in Nat
  BY DEF EnvsOK, IsSeq
<1>2. \A e \in 1..N : es[e].outer \in 0..(e - 1)
  BY DEF EnvsOK, EnvOK
<1>3. Defined(N)
  <2>1. SUFFICES ASSUME { k \in 0..N : ~ Defined(k) } # {} PROVE FALSE
    <3> HIDE DEF Defined
    <3> QED
      BY <1>1, <2>1
  <2>2. { k \in 0..N : ~ Defined(k) } \subseteq Nat
    OBVIOUS
  <2>3. PICK m \in { k \in 0..N : ~ Defined(k) } :
           \A k \in { j \in 0..N : ~ Defined(j) } : m <= k
    <3> HIDE DEF Defined
    <3> QED
      BY <2>1, <2>2, Least
  <2>4. Defined(0)
    <3> DEFINE f == [e \in 0..0 |-> Error]
    <3>1. f = [e \in 0..0 |-> At1(f, e)]
      BY \A e \in 0..0 : e = 0
    <3> QED
      BY <3>1
  <2>5. m \in 1..N /\ m - 1 \in 0..N /\ Defined(m - 1)
    <3> HIDE DEF Defined
    <3>1. m # 0 /\ m \in 0..N
      BY <2>3, <2>4
    <3>2. m - 1 \in 0..N /\ ~ (m <= m - 1)
      BY <1>1, <3>1
    <3> QED
      BY <1>1, <2>3, <3>1, <3>2
  <2>6. PICK f : f = [e \in 0..(m - 1) |-> At1(f, e)]
    BY <2>5
  <2> DEFINE g == [e \in 0..m |-> IF e = m THEN At1(f, m) ELSE f[e]]
  <2>7. \A e \in 0..m : g[e] = At1(g, e)
    <3>1. ASSUME NEW e \in 0..m PROVE g[e] = At1(g, e)
      <4>1. CASE e = 0
        BY <2>5, <2>6, <4>1
      <4>2. CASE e # 0
        <5> DEFINE o == es[e].outer
        <5>1. e \in 1..N /\ o \in 0..(e - 1) /\ o \in 0..(m - 1) /\ o \in 0..m /\ o # m
          BY <1>1, <1>2, <2>5, <4>2
        <5>2. g[o] = f[o]
          BY <5>1
        <5>3. At1(g, e) = At1(f, e)
          BY <4>2, <5>2
        <5>4. g[e] = At1(f, e)
          <6>1. CASE e = m
            BY <6>1
          <6>2. CASE e # m
            <7>1. e \in 0..(m - 1) /\ g[e] = f[e]
              BY <2>5, <6>2
            <7> QED
              BY <2>6, <7>1
          <6> QED
            BY <6>1, <6>2
        <5> QED
          BY <5>3, <5>4
      <4> QED
        BY <4>1, <4>2
    <3> QED
      BY <3>1
  <2>8. g = [e \in 0..m |-> At1(g, e)]
    <3> HIDE DEF At1
    <3>1. g = [e \in 0..m |-> g[e]]
      OBVIOUS
    <3> HIDE DEF g
    <3> QED
      BY <2>7, <3>1
  <2>9. Defined(m)
    BY <2>8
  <2> QED
    BY <2>3, <2>9
<1>4. Look = [e \in 0..N |-> At1(Look, e)]
  BY <1>3
<1>5. Get(es, env, n) = Look[env]
  BY DEF Get
<1> HIDE DEF Look
<1>6. \A e \in 0..N : Look[e] \in K \cup {Error}
  <2>1. SUFFICES ASSUME { e \in 0..N : Look[e] \notin K \cup {Error} } # {} PROVE FALSE
    OBVIOUS
  <2>2. PICK m \in { e \in 0..N : Look[e] \notin K \cup {Error} } :
           \A e \in { j \in 0..N : Look[j] \notin K \cup {Error} } : m <= e
    <3>1. { e \in 0..N : Look[e] \notin K \cup {Error} } \subseteq Nat
      OBVIOUS
    <3> QED
      BY <2>1, <3>1, Least
  <2>3. Look[m] = At1(Look, m)
    BY <1>4
  <2>4. m \in 1..N /\ n \notin DOMAIN es[m].store
    <3>1. m # 0 /\ m \in 1..N
      BY <1>1, <2>3
    <3>2. MapIn(es[m].store, K)
      BY <3>1 DEF EnvsOK, EnvOK
    <3> QED
      BY <2>3, <3>1, <3>2 DEF MapIn
  <2>5. Look[m] = Look[es[m].outer] /\ es[m].outer \in 0..(m - 1)
    BY <1>2, <2>3, <2>4
  <2> QED
    BY <1>1, <2>2, <2>4, <2>5
<1> QED
  BY <1>5, <1>6

\* A map with one binding more.
LEMMA BindIn ==
  ASSUME NEW K, NEW f, MapIn(f, K), NEW x, NEW o \in K
  PROVE  MapIn(Bind(f, x, o), K)
BY DEF MapIn, Bind

\* An object that is not an error and is made of objects of K.
ObjectOK(o, K, n) ==
  /\ o # Error
  /\ o.t = "ARRAY" => o.elements \in Seq(K)
  /\ o.t = "HASH" => MapIn(o.pairs, K)
  /\ o.t = "RETURN_VALUE" => o.o \in K
  /\ o.t = "FUNCTION" => o.env \in 1..n
  /\ o.t = "BUILTIN" => o.name \in Builtins

\* A suspended part of an Eval keeps objects of K only, for one of the n environments.
FrameOK(f, K, n) ==
  /\ HasEnv(f) \/ f.k = "call" => f.env \in 1..n
  /\ f.k \in {"right", "index"} => f.left \in K
  /\ f.k = "args" => f.fn \in K
  /\ f.k \in {"args", "elements"} => f.done \in Seq(K)
  /\ f.k \in {"key", "pair"} => MapIn(f.done, K)

\* All objects, all frames, and what is evaluated or passed back at the moment.
ObjectsOK(K, n) == \A o \in K : ObjectOK(o, K, n)
FramesOK(s, K, n) == IsSeq(s) /\ \A k \in 1..Len(s) : FrameOK(s[k], K, n)
CtlOK(c, K, n) ==
  /\ c.mode = "eval" => c.env \in 1..n
  /\ c.mode = "value" => c.o \in K \cup {Error}

(***************************************************************************)
(* The invariant: some set K, of objects made of objects of K and none of  *)
(* them an error, has whatever an environment or a suspended part of an    *)
(* Eval keeps, at any depth.                                               *)
(***************************************************************************)
Heap(K) ==
  /\ ObjectsOK(K, Len(envs))
  /\ EnvsOK(envs, K) /\ envs # <<>>
  /\ FramesOK(stack, K, Len(envs))
  /\ CtlOK(ctl, K, Len(envs))

HeapInv == \E K : Heap(K)

\* More objects and more environments take nothing away.
LEMMA OKGrows ==
  ASSUME NEW K, NEW L, K \subseteq L, NEW n \in Nat, NEW m \in Nat, n <= m
  PROVE  /\ \A o : ObjectOK(o, K, n) => ObjectOK(o, L, m)
         /\ \A f : FrameOK(f, K, n) => FrameOK(f, L, m)
         /\ \A s : FramesOK(s, K, n) => FramesOK(s, L, m)
         /\ \A s : EnvsOK(s, K) => EnvsOK(s, L)
<1>1. Seq(K) \subseteq Seq(L) /\ 1..n \subseteq 1..m
  OBVIOUS
<1>2. \A f : MapIn(f, K) => MapIn(f, L)
  BY DEF MapIn
<1>3. ASSUME NEW f, FrameOK(f, K, n) PROVE FrameOK(f, L, m)
  BY <1>1, <1>2, <1>3 DEF FrameOK
<1>4. ASSUME NEW o, ObjectOK(o, K, n) PROVE ObjectOK(o, L, m)
  BY <1>1, <1>2, <1>4 DEF ObjectOK
<1>5. \A s : FramesOK(s, K, n) => FramesOK(s, L, m)
  BY <1>3 DEF FramesOK
<1>6. \A s : EnvsOK(s, K) => EnvsOK(s, L)
  BY <1>2 DEF EnvsOK, EnvOK
<1> QED
  BY <1>3, <1>4, <1>5, <1>6

\* One frame more, one frame less.
LEMMA FramesPush ==
  ASSUME NEW K, NEW n, NEW s, FramesOK(s, K, n), NEW f, FrameOK(f, K, n)
  PROVE  FramesOK(Append(s, f), K, n)
<1>1. /\ IsSeq(Append(s, f)) /\ Len(s) \in Nat /\ Len(Append(s, f)) = Len(s) + 1
      /\ \A k \in 1..Len(s) : Append(s, f)[k] = s[k]
      /\ Append(s, f)[Len(s) + 1] = f
  BY IsSeqAppend DEF FramesOK
<1>2. \A k \in 1..(Len(s) + 1) : k \in 1..Len(s) \/ k = Len(s) + 1
  BY <1>1
<1> QED
  BY <1>1, <1>2 DEF FramesOK

LEMMA FramesPop ==
  ASSUME NEW K, NEW n, NEW s, FramesOK(s, K, n), s # <<>>
  PROVE  FramesOK(Front(s), K, n) /\ FrameOK(Last(s), K, n)
<1>1. /\ IsSeq(Front(s)) /\ Len(s) \in Nat \ {0} /\ Len(Front(s)) = Len(s) - 1
      /\ \A k \in 1..(Len(s) - 1) : Front(s)[k] = s[k]
      /\ Last(s) = s[Len(s)]
  BY IsSeqFront DEF FramesOK
<1>2. Len(s) \in 1..Len(s) /\ \A k \in 1..(Len(s) - 1) : k \in 1..Len(s)
  BY <1>1
<1> QED
  BY <1>1, <1>2 DEF FramesOK

-----------------------------------------------------------------------------
(* What the steps have in common *)

\* There is the environment of the REPL.
LEMMA HeapLen == ASSUME NEW K, Heap(K) PROVE Len(envs) \in Nat /\ 1 \in 1..Len(envs)
BY DEF Heap, EnvsOK, IsSeq

\* A value, old or new, for the caller or a frame of it.
LEMMA ValueHeap ==
  ASSUME NEW K, Heap(K), NEW o, o \in {Error, Crash} \/ ObjectOK(o, K, Len(envs)), Value(o),
         UNCHANGED envs, FramesOK(stack', K, Len(envs))
  PROVE  HeapInv'
<1> DEFINE n == Len(envs)
           M == IF ObjectOK(o, K, n) THEN K \cup {o} ELSE K
<1>1. n \in Nat
  BY HeapLen
<1>2. PICK L : K \subseteq L /\ ObjectsOK(L, n) /\ CtlOK(ctl', L, n)
  <2>1. \A x \in M : ObjectOK(x, K, n)
    BY DEF Heap, ObjectsOK
  <2>2. CtlOK(ctl', M, n)
    BY DEF Value, Panic, CtlOK
  <2>3. K \subseteq M
    OBVIOUS
  <2> HIDE DEF M
  <2>4. ObjectsOK(M, n)
    BY <1>1, <2>1, <2>3, OKGrows DEF ObjectsOK
  <2> QED
    BY <2>2, <2>3, <2>4
<1>3. /\ \A s : FramesOK(s, K, n) => FramesOK(s, L, n)
      /\ \A s : EnvsOK(s, K) => EnvsOK(s, L)
  <2>1. K \subseteq L /\ n <= n
    BY <1>1, <1>2
  <2> HIDE DEF n
  <2> QED
    BY <1>1, <2>1, OKGrows, Zenon
<1>4. EnvsOK(envs, L) /\ FramesOK(stack', L, n)
  BY <1>3 DEF Heap
<1>5. Heap(L)'
  BY <1>2, <1>4 DEF Heap
<1> QED
  BY <1>5 DEF HeapInv

\* A node to evaluate in an environment there is.
LEMMA EvaluateHeap ==
  ASSUME NEW K, Heap(K), NEW nd, NEW e \in 1..Len(envs), Evaluate(nd, e),
         UNCHANGED envs, FramesOK(stack', K, Len(envs))
  PROVE  HeapInv'
<1>1. CtlOK(ctl', K, Len(envs))
  BY DEF Evaluate, CtlOK
<1> QED
  BY <1>1 DEF Heap, HeapInv

\* The same with a new frame below it.
LEMMA PushHeap ==
  ASSUME NEW K, Heap(K), NEW s, FramesOK(s, K, Len(envs)), NEW f, FrameOK(f, K, Len(envs)),
         NEW nd, NEW e \in 1..Len(envs), Push(s, f, nd, e), UNCHANGED envs
  PROVE  HeapInv'
<1>1. CASE stack' = Append(s, f) /\ Evaluate(nd, e)
  BY <1>1, FramesPush, EvaluateHeap
<1>2. CASE ctl' = [mode |-> "overflow"] /\ UNCHANGED stack
  <2>1. CtlOK(ctl', K, Len(envs))
    BY <1>2 DEF CtlOK
  <2> QED
    BY <1>2, <2>1 DEF Heap, HeapInv
<1> QED
  BY <1>1, <1>2 DEF Push

\* The next key of a hash.
LEMMA NextKeyHeap ==
  ASSUME NEW K, Heap(K), NEW s, FramesOK(s, K, Len(envs)), NEW pairs, NEW left,
         NEW done, MapIn(done, K), NEW e \in 1..Len(envs), NextKey(pairs, left, done, s, e),
         UNCHANGED envs
  PROVE  HeapInv'
<1>1. PICK i \in left : Push(s, [k |-> "key", pairs |-> pairs, left |-> left \ {i}, at |-> i,
                                 done |-> done, env |-> e], pairs[i][1], e)
  BY DEF NextKey
<1> DEFINE f == [k |-> "key", pairs |-> pairs, left |-> left \ {i}, at |-> i,
                 done |-> done, env |-> e]
<1>2. FrameOK(f, K, Len(envs))
  BY DEF FrameOK
<1> HIDE DEF f
<1> QED
  BY <1>1, <1>2, PushHeap DEF f

\* What is known of a caller that goes on: it may hold what its frame holds, and the object
\* it takes is no error.
LEMMA TakesHeap ==
  ASSUME NEW K, Heap(K), NEW k, Takes(k)
  PROVE  /\ ctl.mode = "value" /\ stack # <<>> /\ top.k = k
         /\ FramesOK(callers, K, Len(envs)) /\ FrameOK(top, K, Len(envs))
         /\ HasEnv(top) => top.env \in 1..Len(envs)
         /\ k \in Checks => object \in K /\ ObjectOK(object, K, Len(envs))
<1>1. ctl.mode = "value" /\ stack # <<>> /\ top.k = k /\ (k \in Checks => object # Error)
  BY DEF Takes, Returned
<1>2. FramesOK(callers, K, Len(envs)) /\ FrameOK(top, K, Len(envs))
  BY <1>1, FramesPop DEF Heap, callers, top
<1>3. object \in K \cup {Error}
  BY <1>1 DEF Heap, CtlOK, object
<1> QED
  BY <1>1, <1>2, <1>3 DEF FrameOK, Heap, ObjectsOK

-----------------------------------------------------------------------------
(* The steps *)

\* Objects that are made of no others.
LEMMA SimpleObjects ==
  ASSUME NEW K, NEW n
  PROVE  /\ \A v : ObjectOK(Integer(v), K, n)
         /\ \A b : ObjectOK(Bool(b), K, n)
         /\ \A x : ObjectOK(String(x), K, n)
         /\ ObjectOK(NULL, K, n) /\ ObjectOK(Nil, K, n)
         /\ \A name \in Builtins : ObjectOK(Builtin(name), K, n)
BY DEF ObjectOK, Integer, Bool, String, NULL, Nil, Builtin, Error

\* And those that are.
LEMMA CompoundObjects ==
  ASSUME NEW K, NEW n, NEW id
  PROVE  /\ \A os \in Seq(K) : ObjectOK(Array(os, id), K, n)
         /\ \A ps : MapIn(ps, K) => ObjectOK(Hash(ps, id), K, n)
         /\ \A o \in K : ObjectOK(ReturnValue(o, id), K, n)
         /\ \A lit, e : e \in 1..n => ObjectOK(Function(lit, e, id), K, n)
<1>1. ASSUME NEW os \in Seq(K) PROVE ObjectOK(Array(os, id), K, n)
  <2>1. Array(os, id).t = "ARRAY" /\ Array(os, id).elements = os
    BY DEF Array
  <2> QED
    BY <2>1 DEF ObjectOK, Error
<1>2. ASSUME NEW ps, MapIn(ps, K) PROVE ObjectOK(Hash(ps, id), K, n)
  <2>1. Hash(ps, id).t = "HASH" /\ Hash(ps, id).pairs = ps
    BY DEF Hash
  <2> QED
    BY <1>2, <2>1 DEF ObjectOK, Error
<1>3. ASSUME NEW o \in K PROVE ObjectOK(ReturnValue(o, id), K, n)
  <2>1. ReturnValue(o, id).t = "RETURN_VALUE" /\ ReturnValue(o, id).o = o
    BY DEF ReturnValue
  <2> QED
    BY <2>1 DEF ObjectOK, Error
<1>4. ASSUME NEW lit, NEW e \in 1..n PROVE ObjectOK(Function(lit, e, id), K, n)
  <2>1. Function(lit, e, id).t = "FUNCTION" /\ Function(lit, e, id).env = e
    BY DEF Function
  <2> QED
    BY <2>1 DEF ObjectOK, Error
<1> QED
  BY <1>1, <1>2, <1>3, <1>4

LEMMA EmptyIn == ASSUME NEW K PROVE <<>> \in Seq(K) /\ MapIn(<<>>, K)
BY DEF MapIn

LEMMA ReadLineHeap == ASSUME NEW K, Heap(K), ReadLine PROVE HeapInv'
<1> DEFINE n == Len(envs)
<1>1. FramesOK(<<>>, K, n) /\ UNCHANGED envs
  BY DEF FramesOK, IsSeq, ReadLine
<1>2. CASE stack' = <<>> /\ ctl' = [mode |-> "prompt", o |-> Nil]
  <2>1. CtlOK(ctl', K, n)
    BY <1>2 DEF CtlOK
  <2> QED
    BY <1>1, <1>2, <2>1 DEF Heap, HeapInv
<1>3. CASE Push(<<>>, [k |-> "program", rest |-> Tail(line')], Head(line'), 1)
  <2> DEFINE f == [k |-> "program", rest |-> Tail(line')]
  <2>1. FrameOK(f, K, n)
    BY DEF FrameOK, HasEnv
  <2> HIDE DEF f
  <2> QED
    BY <1>1, <1>3, <2>1, PushHeap, HeapLen DEF f
<1> QED
  BY <1>2, <1>3 DEF ReadLine

LEMMA EvalLeafHeap == ASSUME NEW K, Heap(K), EvalLeaf PROVE HeapInv'
<1> DEFINE n == Len(envs)
<1>1. UNCHANGED <<envs, stack>> /\ FramesOK(stack', K, n)
  BY DEF EvalLeaf, Heap
<1>2. ASSUME NEW o, Value(o), o \in {Error, Crash} \/ ObjectOK(o, K, n) PROVE HeapInv'
  BY <1>1, <1>2, ValueHeap
<1>3. ASSUME At("id") PROVE LET o == Lookup(envs, ctl.env, node.n)
                            IN o = Error \/ ObjectOK(o, K, n)
  <2>1. ctl.env \in 1..n /\ n \in Nat
    BY <1>3, HeapLen DEF At, Heap, CtlOK
  <2>2. Get(envs, ctl.env, node.n) \in K \cup {Error}
    BY <2>1, GetFinds DEF Heap
  <2>3. \/ Lookup(envs, ctl.env, node.n) \in K \cup {Error}
        \/ \E name \in Builtins : Lookup(envs, ctl.env, node.n) = Builtin(name)
    BY <2>2 DEF Lookup
  <2> QED
    BY <2>3, SimpleObjects DEF Heap, ObjectsOK
<1>4. \/ \E v : Value(Integer(v))
      \/ \E b : Value(Bool(b))
      \/ \E s : Value(String(s))
      \/ Value(Nil)
      \/ At("id") /\ Value(Lookup(envs, ctl.env, node.n))
  BY DEF EvalLeaf
<1> QED
  BY <1>2, <1>3, <1>4, SimpleObjects

LEMMA EvalNewHeap == ASSUME NEW K, Heap(K), EvalNew PROVE HeapInv'
<1> DEFINE n == Len(envs)
<1>1. UNCHANGED <<envs, stack>> /\ FramesOK(stack', K, n)
  BY DEF EvalNew, Heap
<1>2. ASSUME NEW o, Value(o), ObjectOK(o, K, n) PROVE HeapInv'
  BY <1>1, <1>2, ValueHeap
<1>3. At("fn") => ctl.env \in 1..n
  BY DEF At, Heap, CtlOK
<1>4. \/ At("fn") /\ Value(Function(node, ctl.env, made + 1))
      \/ Value(Array(<<>>, made + 1))
      \/ Value(Hash(<<>>, made + 1))
  BY DEF EvalNew
<1> QED
  BY <1>2, <1>3, <1>4, CompoundObjects, EmptyIn

LEMMA EvalPartHeap == ASSUME NEW K, Heap(K), EvalPart PROVE HeapInv'
<1>1. ctl.env \in 1..Len(envs) /\ FramesOK(stack, K, Len(envs)) /\ UNCHANGED envs
  BY DEF EvalPart, At, Heap, CtlOK
<1>2. ASSUME NEW f, NEW nd, Push(stack, f, nd, ctl.env), FrameOK(f, K, Len(envs)) PROVE HeapInv'
  BY <1>1, <1>2, PushHeap
<1>4. CASE Push(stack, [k |-> "let", n |-> node.n, env |-> ctl.env], node.value, ctl.env)
  BY <1>1, <1>2, <1>4 DEF FrameOK
<1>5. CASE Push(stack, [k |-> "return"], node.value, ctl.env)
  BY <1>2, <1>5 DEF FrameOK, HasEnv
<1>6. CASE Push(stack, [k |-> "prefix", op |-> node.op], node.right, ctl.env)
  BY <1>2, <1>6 DEF FrameOK, HasEnv
<1>7. CASE Push(stack, [k |-> "left", op |-> node.op, right |-> node.right, env |-> ctl.env],
                node.left, ctl.env)
  BY <1>1, <1>2, <1>7 DEF FrameOK
<1>8. CASE Push(stack, [k |-> "if", then |-> node.then, else |-> node.else, env |-> ctl.env],
                node.cond, ctl.env)
  BY <1>1, <1>2, <1>8 DEF FrameOK
<1>9. CASE Push(stack, [k |-> "indexed", index |-> node.index, env |-> ctl.env], node.left, ctl.env)
  BY <1>1, <1>2, <1>9 DEF FrameOK
<1>10. CASE Push(stack, [k |-> "callee", args |-> node.args, env |-> ctl.env], node.fn, ctl.env)
  BY <1>1, <1>2, <1>10 DEF FrameOK
<1>11. CASE Push(stack, [k |-> "elements", done |-> <<>>, rest |-> Tail(node.elements),
                         env |-> ctl.env], Head(node.elements), ctl.env)
  BY <1>1, <1>2, <1>11, EmptyIn DEF FrameOK
<1>12. CASE Push(stack, [k |-> "block", rest |-> Tail(node.stmts), env |-> ctl.env],
                 Head(node.stmts), ctl.env)
  BY <1>1, <1>2, <1>12 DEF FrameOK
<1> QED
  BY <1>4, <1>5, <1>6, <1>7, <1>8, <1>9, <1>10, <1>11, <1>12 DEF EvalPart

LEMMA EvalHashHeap == ASSUME NEW K, Heap(K), EvalHash PROVE HeapInv'
BY NextKeyHeap, EmptyIn DEF EvalHash, At, Heap, CtlOK

LEMMA ErrorReturnedHeap == ASSUME NEW K, Heap(K), ErrorReturned PROVE HeapInv'
<1>1. stack # <<>> /\ stack' = callers /\ UNCHANGED <<envs, ctl>>
  BY DEF ErrorReturned
<1>2. FramesOK(callers, K, Len(envs))
  BY <1>1, FramesPop DEF Heap, callers
<1> QED
  BY <1>1, <1>2 DEF Heap, HeapInv

LEMMA LetReturnedHeap == ASSUME NEW K, Heap(K), LetReturned PROVE HeapInv'
<1> DEFINE n == Len(envs)
           new == [store |-> Bind(envs[top.env].store, top.n, object), outer |-> envs[top.env].outer]
<1>1. Takes("let") /\ stack' = callers /\ UNCHANGED ctl /\ envs' = [envs EXCEPT ![top.env] = new]
  BY DEF LetReturned, Set
<1>2. FramesOK(callers, K, n) /\ top.env \in 1..n /\ object \in K
  BY <1>1, TakesHeap DEF HasEnv, Checks, Operand
<1>3. EnvOK(envs[top.env], top.env, K)
  BY <1>2 DEF Heap, EnvsOK
<1>4. EnvOK(new, top.env, K)
  BY <1>2, <1>3, BindIn DEF EnvOK
<1>5. PICK T : envs \in Seq(T)
  BY DEF Heap, EnvsOK, IsSeq
<1> HIDE DEF new
<1>6. /\ IsSeq(envs') /\ Len(envs') = n /\ n \in Nat
      /\ \A e \in 1..n : envs'[e] = IF e = top.env THEN new ELSE envs[e]
  <2>1. n \in Nat /\ envs \in [1..n -> T]
    BY <1>5
  <2>2. envs' \in [1..n -> T \cup {new}]
    BY <1>1, <2>1
  <2>3. envs' \in Seq(T \cup {new}) /\ Len(envs') = n
    BY <2>1, <2>2
  <2>4. \A e \in 1..n : envs'[e] = IF e = top.env THEN new ELSE envs[e]
    BY <1>1, <2>1
  <2> QED
    BY <2>1, <2>3, <2>4 DEF IsSeq
<1>7. EnvsOK(envs', K)
  BY <1>4, <1>6 DEF Heap, EnvsOK
<1>8. envs' # <<>>
  BY <1>2, <1>6
<1> QED
  BY <1>1, <1>2, <1>6, <1>7, <1>8 DEF Heap, HeapInv

\* What the operators give is an error, a panic or an object of no others.
LEMMA OperatorsHeap ==
  ASSUME NEW K, NEW n
  PROVE  /\ \A op, o : EvalPrefix(op, o) \in {Error, Crash} \/ ObjectOK(EvalPrefix(op, o), K, n)
         /\ \A op, l, r : EvalInfix(op, l, r) \in {Error, Crash} \/ ObjectOK(EvalInfix(op, l, r), K, n)
<1>1. \A op, o : \/ EvalPrefix(op, o) \in {Error, Crash}
                 \/ \E b : EvalPrefix(op, o) = Bool(b)
                 \/ \E v : EvalPrefix(op, o) = Integer(v)
  <2>1. \A o : \E b : Bang(o) = Bool(b)
    BY Zenon DEF Bang
  <2> QED
    BY <2>1 DEF EvalPrefix
<1>2. \A op, a, b : \/ EvalIntegerInfix(op, a, b) \in {Error, Crash}
                    \/ \E x : EvalIntegerInfix(op, a, b) = Bool(x)
                    \/ \E v : EvalIntegerInfix(op, a, b) = Integer(v)
  BY DEF EvalIntegerInfix
<1>3. \A op, l, r : \/ EvalInfix(op, l, r) \in {Error, Crash}
                    \/ \E x : EvalInfix(op, l, r) = Bool(x)
                    \/ \E x : EvalInfix(op, l, r) = String(x)
                    \/ EvalInfix(op, l, r) = EvalIntegerInfix(op, l.v, r.v)
  BY DEF EvalInfix
<1> QED
  BY <1>1, <1>2, <1>3, SimpleObjects

LEMMA PopsHeap ==
  ASSUME NEW K, Heap(K), ReturnReturned \/ PrefixReturned \/ RightReturned \/ IndexReturned \/ CallReturned
  PROVE  HeapInv'
<1> DEFINE n == Len(envs)
<1>1. ASSUME NEW k, Takes(k), stack' = callers, UNCHANGED envs, NEW o, Value(o),
             o \in {Error, Crash} \/ ObjectOK(o, K, n)
      PROVE  HeapInv'
  BY <1>1, TakesHeap, ValueHeap
<1>2. CASE ReturnReturned
  <2>1. Takes("return") /\ object \in K
    BY <1>2, TakesHeap DEF ReturnReturned, Checks, Operand
  <2> QED
    BY <1>1, <1>2, <2>1, CompoundObjects DEF ReturnReturned
<1>3. CASE PrefixReturned
  BY <1>1, <1>3, OperatorsHeap DEF PrefixReturned
<1>4. CASE RightReturned
  BY <1>1, <1>4, OperatorsHeap DEF RightReturned
<1>5. CASE IndexReturned
  <2>1. Takes("index") /\ top.left \in K /\ ObjectOK(top.left, K, n)
    BY <1>5, TakesHeap DEF IndexReturned, FrameOK, Heap, ObjectsOK
  <2> DEFINE l == top.left
             i == object
  <2>2. ASSUME l.t = "ARRAY", i.v \in 0..(Len(l.elements) - 1) PROVE l.elements[i.v + 1] \in K
    <3>1. l.elements \in Seq(K)
      BY <2>1, <2>2 DEF ObjectOK
    <3> HIDE DEF l, i
    <3>2. i.v + 1 \in 1..Len(l.elements)
      BY <2>2, <3>1
    <3> QED
      BY <3>1, <3>2
  <2>3. ASSUME l.t = "HASH", i \in DOMAIN l.pairs PROVE l.pairs[i] \in K
    BY <2>1, <2>3 DEF ObjectOK, MapIn
  <2>4. EvalIndex(l, i) \in {Error, Crash, NULL} \cup K
    <3> HIDE DEF l, i
    <3> QED
      BY <2>2, <2>3 DEF EvalIndex
  <2>5. EvalIndex(l, i) \in {Error, Crash} \/ ObjectOK(EvalIndex(l, i), K, n)
    BY <2>4, SimpleObjects DEF Heap, ObjectsOK
  <2> QED
    BY <1>1, <1>5, <2>5 DEF IndexReturned
<1>6. CASE CallReturned
  <2>1. Takes("call") /\ object \in K /\ ObjectOK(object, K, n)
    BY <1>6, TakesHeap DEF CallReturned, Checks, Operand
  <2> DEFINE o == IF object.t = "RETURN_VALUE" THEN object.o ELSE object
  <2>2. o \in K
    BY <2>1 DEF ObjectOK
  <2>3. ObjectOK(o, K, n)
    BY <2>2 DEF Heap, ObjectsOK
  <2> QED
    BY <1>1, <1>6, <2>1, <2>3 DEF CallReturned
<1> QED
  BY <1>2, <1>3, <1>4, <1>5, <1>6

LEMMA SecondPartHeap ==
  ASSUME NEW K, Heap(K), LeftReturned \/ IndexedReturned \/ ConditionReturned \/ KeyReturned
  PROVE  HeapInv'
<1> DEFINE n == Len(envs)
<1>1. ASSUME NEW k, Takes(k), HasEnv(top), NEW f, FrameOK(f, K, n), stack' = Append(callers, f),
             NEW nd, Evaluate(nd, top.env), UNCHANGED envs
      PROVE  HeapInv'
  BY <1>1, TakesHeap, FramesPush, EvaluateHeap
<1>2. CASE LeftReturned
  <2> DEFINE f == [k |-> "right", op |-> top.op, left |-> object]
  <2>1. Takes("left") /\ top.k = "left" /\ object \in K
    BY <1>2, TakesHeap DEF LeftReturned, Checks, Operand
  <2>2. FrameOK(f, K, n) /\ HasEnv(top)
    BY <2>1 DEF FrameOK, HasEnv
  <2> QED
    BY <1>1, <1>2, <2>1, <2>2 DEF LeftReturned
<1>3. CASE IndexedReturned
  <2> DEFINE f == [k |-> "index", left |-> object]
  <2>1. Takes("indexed") /\ top.k = "indexed" /\ object \in K
    BY <1>3, TakesHeap DEF IndexedReturned, Checks, Operand
  <2>2. FrameOK(f, K, n) /\ HasEnv(top)
    BY <2>1 DEF FrameOK, HasEnv
  <2> QED
    BY <1>1, <1>3, <2>1, <2>2 DEF IndexedReturned
<1>4. CASE ConditionReturned
  <2>1. /\ Takes("if") /\ top.env \in 1..n /\ FramesOK(callers, K, n)
        /\ stack' = callers /\ UNCHANGED envs
    BY <1>4, TakesHeap DEF ConditionReturned, HasEnv
  <2>2. \/ Evaluate(top.then, top.env)
        \/ Evaluate(top.else, top.env)
        \/ Value(NULL)
    BY <1>4 DEF ConditionReturned
  <2> QED
    BY <2>1, <2>2, EvaluateHeap, ValueHeap, SimpleObjects
<1>5. CASE KeyReturned
  <2>1. Takes("key") /\ top.k = "key" /\ FrameOK(top, K, n) /\ FramesOK(callers, K, n) /\ UNCHANGED envs
    BY <1>5, TakesHeap DEF KeyReturned
  <2>2. CASE Hashable(object)
    <3> DEFINE f == [k |-> "pair", key |-> object, pairs |-> top.pairs, left |-> top.left,
                     done |-> top.done, env |-> top.env]
    <3>1. FrameOK(f, K, n) /\ HasEnv(top)
      BY <2>1 DEF FrameOK, HasEnv
    <3> QED
      BY <1>1, <1>5, <2>1, <2>2, <3>1 DEF KeyReturned
  <2>3. CASE ~ Hashable(object)
    <3>1. stack' = callers /\ (Value(Crash) \/ Value(Error))
      BY <1>5, <2>3 DEF KeyReturned
    <3> QED
      BY <2>1, <3>1, ValueHeap
  <2> QED
    BY <2>2, <2>3
<1> QED
  BY <1>2, <1>3, <1>4, <1>5

LEMMA PairReturnedHeap == ASSUME NEW K, Heap(K), PairReturned PROVE HeapInv'
<1> DEFINE n == Len(envs)
           done == Bind(top.done, top.key, object)
<1>1. Takes("pair") /\ UNCHANGED envs
  BY DEF PairReturned
<1>2. top.k = "pair" /\ FrameOK(top, K, n) /\ FramesOK(callers, K, n) /\ object \in K /\ top.env \in 1..n
  BY <1>1, TakesHeap DEF Checks, Operand, HasEnv
<1>3. MapIn(done, K)
  BY <1>2, BindIn DEF FrameOK
<1>4. CASE top.left # {}
  <2>1. NextKey(top.pairs, top.left, done, callers, top.env)
    BY <1>4 DEF PairReturned
  <2> HIDE DEF done
  <2> QED
    BY <1>1, <1>2, <1>3, <2>1, NextKeyHeap
<1>5. CASE top.left = {}
  <2>1. Value(Hash(done, made + 1)) /\ stack' = callers
    BY <1>5 DEF PairReturned
  <2> HIDE DEF done
  <2>2. ObjectOK(Hash(done, made + 1), K, n)
    BY <1>3, CompoundObjects
  <2> QED
    BY <1>1, <1>2, <2>1, <2>2, ValueHeap
<1> QED
  BY <1>4, <1>5

\* The environment of a call holds its arguments only.
LEMMA ExtendOK ==
  ASSUME NEW K, NEW n \in Nat, NEW fn, fn.env \in 1..n, NEW args \in Seq(K),
         DOMAIN fn.lit.params \subseteq DOMAIN args, NEW env
  PROVE  EnvOK(Extend(fn, args, env), n + 1, K)
<1> DEFINE params == fn.lit.params
           At2(m) == { i \in DOMAIN params : params[i] = m }
           Index(m) == CHOOSE i \in DOMAIN params :
                         params[i] = m /\ \A j \in DOMAIN params : params[j] = m => j <= i
<1>1. ASSUME NEW m \in ToSet(params) PROVE Index(m) \in DOMAIN params
  <2>1. At2(m) # {} /\ At2(m) \subseteq 1..Len(args) /\ Len(args) \in Nat
    BY DEF ToSet
  <2>2. \E i \in At2(m) : \A j \in At2(m) : j <= i
    <3> HIDE DEF At2
    <3> QED
      BY <2>1, Greatest
  <2>3. \E i \in DOMAIN params : params[i] = m /\ \A j \in DOMAIN params : params[j] = m => j <= i
    BY <2>2
  <2> QED
    BY <2>3
<1>2. \A m \in ToSet(params) : args[Index(m)] \in K
  <2> HIDE DEF Index
  <2> QED
    BY <1>1
<1>3. Bindings(params, args) = [m \in ToSet(params) |-> args[Index(m)]]
  BY DEF Bindings
<1> HIDE DEF Index
<1>4. MapIn(Bindings(params, args), K)
  BY <1>2, <1>3 DEF MapIn
<1>5. Extend(fn, args, env).store = Bindings(params, args) /\ Extend(fn, args, env).outer = fn.env
  BY DEF Extend
<1> QED
  BY <1>4, <1>5 DEF EnvOK

LEMMA BuiltinsHeap ==
  ASSUME NEW K, NEW n, ObjectsOK(K, n), NEW name \in Builtins, NEW args \in Seq(K), NEW id
  PROVE  LET r == CallBuiltin(name, args, id) IN r \in {Error, Crash} \/ ObjectOK(r, K, n)
<1> DEFINE r == CallBuiltin(name, args, id)
           o == args[1]
           m == Len(o.elements)
<1>1. CASE name = "puts"
  BY <1>1, SimpleObjects DEF CallBuiltin
<1>2. CASE name # "puts" /\ Len(args) # (IF name = "push" THEN 2 ELSE 1)
  BY <1>2 DEF CallBuiltin
<1>3. CASE name # "puts" /\ Len(args) = (IF name = "push" THEN 2 ELSE 1)
  <2>1. o \in K /\ (name = "push" => args[2] \in K)
    BY <1>3
  <2>2. ObjectOK(o, K, n)
    BY <2>1 DEF ObjectsOK
  <2>3. CASE o = Nil \/ o.t # "ARRAY"
    <3>1. r \in {Crash, Error, Integer(Len(o.s))}
      BY <1>3, <2>3 DEF CallBuiltin
    <3> HIDE DEF o, r
    <3> QED
      BY <3>1, SimpleObjects DEF r
  <2>4. CASE o # Nil /\ o.t = "ARRAY"
    <3>1. o.elements \in Seq(K)
      BY <2>2, <2>4 DEF ObjectOK
    <3>2. CASE name = "len"
      <4>1. r = Integer(m)
        BY <1>3, <2>4, <3>2 DEF CallBuiltin
      <4> HIDE DEF r, m
      <4> QED
        BY <4>1, SimpleObjects DEF r
    <3>3. CASE name = "push"
      <4> DEFINE pushed == Append(o.elements, args[2])
      <4>1. r = Array(pushed, id)
        BY <1>3, <2>4, <3>3 DEF CallBuiltin
      <4>2. pushed \in Seq(K)
        BY <2>1, <3>1, <3>3
      <4> HIDE DEF r, pushed
      <4> QED
        BY <4>1, <4>2, CompoundObjects DEF r
    <3>4. CASE name \in {"first", "last", "rest"} /\ m = 0
      <4>1. r = NULL
        BY <1>3, <2>4, <3>4 DEF CallBuiltin
      <4> HIDE DEF r
      <4> QED
        BY <4>1, SimpleObjects DEF r
    <3>5. CASE name \in {"first", "last"} /\ m # 0
      <4>1. r = o.elements[1] \/ r = o.elements[m]
        BY <1>3, <2>4, <3>5 DEF CallBuiltin
      <4>2. r \in K
        BY <3>1, <3>5, <4>1
      <4> HIDE DEF r
      <4> QED
        BY <4>2 DEF r, ObjectsOK
    <3>6. CASE name = "rest" /\ m # 0
      <4> DEFINE rest == Tail(o.elements)
      <4>1. r = Array(rest, id)
        BY <1>3, <2>4, <3>6 DEF CallBuiltin
      <4>2. rest \in Seq(K)
        BY <3>1, <3>6
      <4> HIDE DEF r, rest
      <4> QED
        BY <4>1, <4>2, CompoundObjects DEF r
    <3>7. name \in {"len", "push", "first", "last", "rest"}
      BY <1>3 DEF Builtins
    <3> QED
      BY <3>2, <3>3, <3>4, <3>5, <3>6, <3>7
  <2> QED
    BY <2>3, <2>4
<1> QED
  BY <1>1, <1>2, <1>3

LEMMA ApplyHeap ==
  ASSUME NEW K, Heap(K), FramesOK(callers, K, Len(envs)), NEW fn \in K, NEW args \in Seq(K),
         NEW e, Apply(fn, args, e)
  PROVE  HeapInv'
<1> DEFINE n == Len(envs)
<1>1. n \in Nat /\ ObjectOK(fn, K, n)
  BY HeapLen DEF Heap, ObjectsOK
<1>2. CASE Panic /\ UNCHANGED <<envs, stack>>
  <2>1. CtlOK(ctl', K, n)
    BY <1>2 DEF Panic, CtlOK
  <2> QED
    BY <1>2, <2>1 DEF Heap, HeapInv
<1>3. CASE /\ fn.t = "FUNCTION" /\ DOMAIN fn.lit.params \subseteq DOMAIN args
           /\ envs' = Append(envs, Extend(fn, args, e))
           /\ Push(callers, [k |-> "call", env |-> n + 1], fn.lit.body, n + 1)
  <2> DEFINE new == Extend(fn, args, e)
             f == [k |-> "call", env |-> n + 1]
  <2>1. EnvOK(new, n + 1, K)
    BY <1>1, <1>3, ExtendOK DEF ObjectOK
  <2>2. IsSeq(envs)
    BY DEF Heap, EnvsOK
  <2> HIDE DEF new
  <2>3. /\ IsSeq(envs') /\ Len(envs') = n + 1
        /\ \A k \in 1..n : envs'[k] = envs[k]
        /\ envs'[n + 1] = new
    BY <1>3, <2>2, IsSeqAppend DEF new
  <2>4. EnvsOK(envs', K) /\ envs' # <<>>
    <3>1. \A k \in 1..(n + 1) : k \in 1..n \/ k = n + 1
      BY <1>1
    <3>2. \A k \in 1..(n + 1) : EnvOK(envs'[k], k, K)
      BY <2>1, <2>3, <3>1 DEF Heap, EnvsOK
    <3>3. Len(envs') # 0
      BY <1>1, <2>3
    <3> QED
      BY <2>3, <3>2, <3>3 DEF EnvsOK
  <2>5. n + 1 \in Nat /\ n <= n + 1 /\ K \subseteq K
    BY <1>1
  <2>6. /\ ObjectsOK(K, n + 1)
        /\ FramesOK(stack, K, n + 1) /\ FramesOK(callers, K, n + 1)
    <3> HIDE DEF n
    <3>1. \A o : ObjectOK(o, K, n) => ObjectOK(o, K, n + 1)
      BY <1>1, <2>5, OKGrows, Zenon
    <3>2. \A s : FramesOK(s, K, n) => FramesOK(s, K, n + 1)
      BY <1>1, <2>5, OKGrows, Zenon
    <3> QED
      BY <3>1, <3>2 DEF Heap, ObjectsOK, n
  <2>7. FrameOK(f, K, n + 1)
    BY <1>1 DEF FrameOK
  <2>8. CASE stack' = Append(callers, f) /\ Evaluate(fn.lit.body, n + 1)
    <3>1. FramesOK(stack', K, n + 1)
      BY <2>6, <2>7, <2>8, FramesPush
    <3>2. CtlOK(ctl', K, n + 1)
      BY <1>1, <2>8 DEF Evaluate, CtlOK
    <3> QED
      BY <2>3, <2>4, <2>6, <3>1, <3>2 DEF Heap, HeapInv
  <2>9. CASE UNCHANGED stack /\ ctl' = [mode |-> "overflow"]
    <3>1. CtlOK(ctl', K, n + 1)
      BY <2>9 DEF CtlOK
    <3> QED
      BY <2>3, <2>4, <2>6, <2>9, <3>1 DEF Heap, HeapInv
  <2> QED
    BY <1>3, <2>8, <2>9 DEF Push
<1>4. CASE /\ fn.t = "BUILTIN" /\ stack' = callers /\ UNCHANGED envs
           /\ Value(CallBuiltin(fn.name, args, made + 1))
  <2>1. fn.name \in Builtins /\ ObjectsOK(K, n)
    BY <1>1, <1>4 DEF ObjectOK, Heap
  <2> QED
    BY <1>4, <2>1, BuiltinsHeap, ValueHeap
<1>5. CASE stack' = callers /\ UNCHANGED envs /\ (Value(Crash) \/ Value(Error))
  BY <1>5, ValueHeap
<1> QED
  BY <1>2, <1>3, <1>4, <1>5 DEF Apply

LEMMA ArgumentsHeap ==
  ASSUME NEW K, Heap(K), FramesOK(callers, K, Len(envs)), NEW fn \in K, NEW done \in Seq(K),
         NEW rest, NEW e \in 1..Len(envs), Arguments(fn, done, rest, e)
  PROVE  HeapInv'
<1>1. CASE rest = <<>>
  BY <1>1, ApplyHeap DEF Arguments
<1>2. CASE rest # <<>>
  <2> DEFINE f == [k |-> "args", fn |-> fn, done |-> done, rest |-> Tail(rest), env |-> e]
  <2>1. stack' = Append(callers, f) /\ Evaluate(Head(rest), e) /\ UNCHANGED envs
    BY <1>2 DEF Arguments
  <2>2. FrameOK(f, K, Len(envs))
    BY DEF FrameOK
  <2> HIDE DEF f
  <2>3. FramesOK(stack', K, Len(envs))
    BY <2>1, <2>2, FramesPush
  <2> QED
    BY <2>1, <2>3, EvaluateHeap
<1> QED
  BY <1>1, <1>2

LEMMA ListsHeap ==
  ASSUME NEW K, Heap(K), CalleeReturned \/ ArgumentReturned \/ ElementReturned \/ BlockReturned
  PROVE  HeapInv'
<1> DEFINE n == Len(envs)
<1>1. CASE CalleeReturned
  <2>1. Takes("callee") /\ Arguments(object, <<>>, top.args, top.env)
    BY <1>1 DEF CalleeReturned
  <2>2. object \in K /\ top.env \in 1..n /\ FramesOK(callers, K, n)
    BY <2>1, TakesHeap DEF Checks, Operand, HasEnv
  <2> QED
    BY <2>1, <2>2, ArgumentsHeap, EmptyIn
<1>2. CASE ArgumentReturned
  <2>1. Takes("args") /\ Arguments(top.fn, Append(top.done, object), top.rest, top.env)
    BY <1>2 DEF ArgumentReturned
  <2>2. object \in K /\ top.env \in 1..n /\ FramesOK(callers, K, n) /\ top.fn \in K /\ top.done \in Seq(K)
    BY <2>1, TakesHeap DEF Checks, Operand, HasEnv, FrameOK
  <2>3. Append(top.done, object) \in Seq(K)
    BY <2>2
  <2> QED
    BY <2>1, <2>2, <2>3, ArgumentsHeap
<1>3. CASE ElementReturned
  <2> DEFINE done == Append(top.done, object)
             f == [k |-> "elements", done |-> done, rest |-> Tail(top.rest), env |-> top.env]
  <2>1. Takes("elements") /\ UNCHANGED envs
    BY <1>3 DEF ElementReturned
  <2>2. object \in K /\ top.env \in 1..n /\ FramesOK(callers, K, n) /\ top.done \in Seq(K)
    BY <2>1, TakesHeap DEF Checks, Operand, HasEnv, FrameOK
  <2>3. done \in Seq(K)
    BY <2>2
  <2>4. CASE top.rest = <<>>
    <3>1. Value(Array(done, made + 1)) /\ stack' = callers
      BY <1>3, <2>4 DEF ElementReturned
    <3> HIDE DEF done
    <3>2. ObjectOK(Array(done, made + 1), K, n)
      BY <2>3, CompoundObjects
    <3> QED
      BY <2>1, <2>2, <3>1, <3>2, ValueHeap
  <2>5. CASE top.rest # <<>>
    <3>1. stack' = Append(callers, f) /\ Evaluate(Head(top.rest), top.env)
      BY <1>3, <2>5 DEF ElementReturned
    <3> HIDE DEF done
    <3>2. FrameOK(f, K, n)
      BY <2>2, <2>3 DEF FrameOK
    <3>3. FramesOK(stack', K, n)
      BY <2>2, <3>1, <3>2, FramesPush
    <3> QED
      BY <2>1, <2>2, <3>1, <3>3, EvaluateHeap
  <2> QED
    BY <2>4, <2>5
<1>4. CASE BlockReturned
  <2> DEFINE f == [k |-> "block", rest |-> Tail(top.rest), env |-> top.env]
  <2>1. Takes("block") /\ UNCHANGED envs
    BY <1>4 DEF BlockReturned
  <2>2. top.env \in 1..n /\ FramesOK(callers, K, n)
    BY <2>1, TakesHeap DEF HasEnv
  <2>3. CASE object.t = "RETURN_VALUE" \/ top.rest = <<>>
    <3>1. stack' = callers /\ UNCHANGED ctl
      BY <1>4, <2>3 DEF BlockReturned
    <3> QED
      BY <2>1, <2>2, <3>1 DEF Heap, HeapInv
  <2>4. CASE ~ (object.t = "RETURN_VALUE" \/ top.rest = <<>>)
    <3>1. stack' = Append(callers, f) /\ Evaluate(Head(top.rest), top.env)
      BY <1>4, <2>4 DEF BlockReturned
    <3>2. FrameOK(f, K, n)
      BY <2>2 DEF FrameOK
    <3>3. FramesOK(stack', K, n)
      BY <2>2, <3>1, <3>2, FramesPush
    <3> QED
      BY <2>1, <2>2, <3>1, <3>3, EvaluateHeap
  <2> QED
    BY <2>3, <2>4
<1> QED
  BY <1>1, <1>2, <1>3, <1>4

LEMMA ProgramReturnedHeap == ASSUME NEW K, Heap(K), ProgramReturned PROVE HeapInv'
<1> DEFINE n == Len(envs)
           f == [k |-> "program", rest |-> Tail(top.rest)]
<1>1. FramesOK(<<>>, K, n) /\ FrameOK(f, K, n) /\ Append(<<>>, f) = <<f>>
  BY DEF FramesOK, IsSeq, FrameOK, HasEnv
<1>2. FramesOK(<<f>>, K, n)
  <2> HIDE DEF f
  <2>1. FramesOK(Append(<<>>, f), K, n)
    BY <1>1, FramesPush
  <2> QED
    BY <1>1, <2>1
<1>3. \/ stack' = <<f>> /\ Evaluate(Head(top.rest), 1)
      \/ stack' = <<>> /\ ctl'.mode \notin {"eval", "value"}
  BY DEF ProgramReturned, Panic
<1>4. UNCHANGED envs
  BY DEF ProgramReturned
<1>5. CASE stack' = <<f>> /\ Evaluate(Head(top.rest), 1)
  BY <1>2, <1>4, <1>5, HeapLen, EvaluateHeap
<1>6. CASE stack' = <<>> /\ ctl'.mode \notin {"eval", "value"}
  <2>1. CtlOK(ctl', K, n)
    BY <1>6 DEF CtlOK
  <2> QED
    BY <1>1, <1>4, <1>6, <2>1 DEF Heap, HeapInv
<1> QED
  BY <1>3, <1>5, <1>6

LEMMA HeapInit == Init => HeapInv
<1> SUFFICES ASSUME Init PROVE Heap({})
  BY DEF HeapInv
<1>1. envs \in Seq({NewEnvironment(0)}) /\ Len(envs) = 1 /\ envs[1] = [store |-> <<>>, outer |-> 0]
  BY DEF Init, NewEnvironment
<1>2. EnvOK(envs[1], 1, {})
  BY <1>1, EmptyIn DEF EnvOK
<1>3. EnvsOK(envs, {}) /\ envs # <<>>
  <2>1. IsSeq(envs)
    BY <1>1 DEF IsSeq
  <2>2. \A e \in 1..Len(envs) : e = 1
    BY <1>1
  <2>3. Len(envs) # Len(<<>>)
    BY <1>1
  <2> QED
    BY <1>2, <2>1, <2>2, <2>3, Zenon DEF EnvsOK
<1>4. FramesOK(stack, {}, Len(envs))
  BY DEF Init, FramesOK, IsSeq
<1>5. CtlOK(ctl, {}, Len(envs))
  BY DEF Init, CtlOK
<1> QED
  BY <1>3, <1>4, <1>5 DEF Heap, ObjectsOK

LEMMA HeapNext == HeapInv /\ [Next]_vars => HeapInv'
<1> SUFFICES ASSUME HeapInv, [Next]_vars PROVE HeapInv'
  OBVIOUS
<1>1. PICK K : Heap(K)
  BY DEF HeapInv
<1>2. CASE Next
  BY <1>1, <1>2, ReadLineHeap, EvalLeafHeap, EvalNewHeap, EvalPartHeap, EvalHashHeap, ErrorReturnedHeap,
     LetReturnedHeap, PopsHeap, SecondPartHeap, PairReturnedHeap, ListsHeap, ProgramReturnedHeap DEF Next
<1>3. CASE UNCHANGED vars
  BY <1>1, <1>3 DEF vars, Heap, HeapInv
<1> QED
  BY <1>2, <1>3

\* What is kept is of K, and what is in K neither is nor holds an error.
LEMMA HeapKeepsNoError == HeapInv => ErrorsAreNeverKept
<1> SUFFICES ASSUME NEW K, Heap(K) PROVE ErrorsAreNeverKept
  BY DEF HeapInv
<1> DEFINE Holds(o) ==
             CASE o.t = "ARRAY" -> Error \in ToSet(o.elements)
               [] o.t = "HASH" -> Error \in Range(o.pairs)
               [] o.t = "RETURN_VALUE" -> o.o = Error
               [] OTHER -> FALSE
           Kept(O) == Error \in O \/ \E o \in O : Holds(o)
<1>1. ASSUME NEW o \in K PROVE ~ Holds(o)
  <2>1. ObjectOK(o, K, Len(envs)) /\ Error \notin K
    BY DEF Heap, ObjectsOK, ObjectOK
  <2>2. o.t = "ARRAY" => ToSet(o.elements) \subseteq K
    BY <2>1 DEF ObjectOK, ToSet
  <2>3. o.t = "HASH" => Range(o.pairs) \subseteq K
    BY <2>1 DEF ObjectOK, MapIn, Range
  <2> QED
    BY <2>1, <2>2, <2>3 DEF ObjectOK
<1>2. ~ Holds(Error)
  BY DEF Error
<1>3. Error \notin K
  BY DEF Heap, ObjectsOK, ObjectOK
<1> HIDE DEF Holds
<1>4. ASSUME NEW O, O \subseteq K PROVE ~ Kept(O)
  BY <1>1, <1>3, <1>4
<1> HIDE DEF Kept
<1>5. \A e \in 1..Len(envs) : ~ Kept(Range(envs[e].store))
  <2> SUFFICES ASSUME NEW e \in 1..Len(envs) PROVE ~ Kept(Range(envs[e].store))
    OBVIOUS
  <2>1. Range(envs[e].store) \subseteq K
    BY DEF Heap, EnvsOK, EnvOK, MapIn, Range
  <2> QED
    BY <1>4, <2>1
<1>6. ASSUME NEW k \in 1..Len(stack)
      PROVE  /\ stack[k].k \in {"right", "index"} => ~ Kept({stack[k].left})
             /\ stack[k].k = "args" => ~ Kept({stack[k].fn} \cup ToSet(stack[k].done))
             /\ stack[k].k = "elements" => ~ Kept(ToSet(stack[k].done))
             /\ stack[k].k = "pair" => ~ Kept(Range(stack[k].done))
  <2>1. FrameOK(stack[k], K, Len(envs))
    BY DEF Heap, FramesOK
  <2>2. stack[k].k \in {"args", "elements"} => ToSet(stack[k].done) \subseteq K
    BY <2>1 DEF FrameOK, ToSet
  <2>3. stack[k].k = "pair" => Range(stack[k].done) \subseteq K
    BY <2>1 DEF FrameOK, MapIn, Range
  <2>4. stack[k].k \in {"right", "index"} => {stack[k].left} \subseteq K
    BY <2>1 DEF FrameOK
  <2>5. stack[k].k = "args" => {stack[k].fn} \cup ToSet(stack[k].done) \subseteq K
    BY <2>1, <2>2 DEF FrameOK
  <2> QED
    BY <1>4, <2>2, <2>3, <2>4, <2>5
<1>7. ctl.mode = "value" => ~ Holds(object)
  BY <1>1, <1>2 DEF Heap, CtlOK, object
<1> QED
  BY <1>5, <1>6, <1>7 DEF ErrorsAreNeverKept, Kept, Holds

\* An error ends the line it happens in: none is bound to a name, kept in an array, a hash
\* or a returned value, or taken for an operand (evaluator.go 28-101, 395-401).
THEOREM MonkeyErrorsAreNeverKept == Spec => []ErrorsAreNeverKept
BY HeapInit, HeapNext, HeapKeepsNoError, PTL DEF Spec

\* Every environment is enclosed by one made before it, the REPL's at the end, and what
\* is evaluated runs in one there is: Get's way out through them is finite, and it never
\* comes upon an environment that is not there (environment.go 3-24).
EnvironmentsNest ==
  /\ \A e \in 1..Len(envs) : envs[e].outer \in 0..(e - 1)
  /\ ctl.mode = "eval" => ctl.env \in 1..Len(envs)

\* A lookup ends, whatever closures the lines have made (environment.go 3-24).
THEOREM MonkeyEnvironmentsNest == Spec => []EnvironmentsNest
<1>1. HeapInv => EnvironmentsNest
  BY DEF HeapInv, Heap, EnvsOK, EnvOK, CtlOK, EnvironmentsNest
<1> QED
  BY <1>1, HeapInit, HeapNext, PTL DEF Spec
=============================================================================
