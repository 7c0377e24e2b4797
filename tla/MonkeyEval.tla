------------------------------ MODULE MonkeyEval ------------------------------
(***************************************************************************)
(* The evaluator of monkey (monkey/evaluator/evaluator.go) under its REPL  *)
(* (repl.go): Eval is recursive, and here the Go stack is explicit.  ctl   *)
(* is what the innermost Eval does, stack what the callers wait for, one   *)
(* frame for each; envs are the environments, linked to the enclosing one. *)
(*                                                                         *)
(* Everything that == compares by its pointer carries the number of its    *)
(* allocation, id.  Go's nil, which an empty block evaluates to, is an     *)
(* object here.  A line with parser errors is not evaluated: it ends in    *)
(* MonkeyParser.  What puts prints is left out.                            *)
(***************************************************************************)
EXTENDS MonkeyAst, Integers, SequencesExt

CONSTANTS Lines,     \* the lines that can be read, sequences of statements
          MaxLines,  \* bound: lines read
          MaxStack   \* frames of the Go stack

ASSUME EvalAssumption == MaxLines \in Nat /\ MaxStack \in Nat

-----------------------------------------------------------------------------
(* Objects and environments *)

Integer(v) == [t |-> "INTEGER", v |-> v]
Bool(b) == [t |-> "BOOLEAN", b |-> b]
String(s) == [t |-> "STRING", s |-> s]
NULL == [t |-> "NULL"]
Nil == [t |-> "nil"]
Error == [t |-> "ERROR"]
Builtin(name) == [t |-> "BUILTIN", name |-> name]
Function(lit, env, id) == [t |-> "FUNCTION", lit |-> lit, env |-> env, id |-> id]

\* A nil in it makes the Inspect of an object panic.
Shows(o) == IF o.t \in {"ARRAY", "HASH", "RETURN_VALUE"} THEN o.shows ELSE o # Nil

ReturnValue(o, id) == [t |-> "RETURN_VALUE", o |-> o, shows |-> Shows(o), id |-> id]
Array(os, id) ==
  [t |-> "ARRAY", elements |-> os, shows |-> \A i \in DOMAIN os : Shows(os[i]), id |-> id]
\* ps: a function from keys, which are compared by their values, to objects.
Hash(ps, id) ==
  [t |-> "HASH", pairs |-> ps, shows |-> \A k \in DOMAIN ps : Shows(ps[k]), id |-> id]

Hashable(o) == o.t \in {"INTEGER", "BOOLEAN", "STRING"}

\* What Go does instead of returning an object.
Crash == [t |-> "panic"]

VARIABLES
  envs,    \* envs[1] is the REPL's; outer is 0 for it, else an earlier one
  stack,
  ctl,     \* "eval" node in env, "value", or "prompt", "panicked", "overflow"
  made,    \* objects allocated that have an id
  lines,   \* lines read
  line,    \* history: the line being evaluated
  before,  \* history: the environments, and made, when it was read
  leaked   \* history: a ReturnValue was taken for an operand

vars == <<envs, stack, ctl, made, lines, line, before, leaked>>

NewEnvironment(outer) == [store |-> <<>>, outer |-> outer]

Get(es, env, n) ==
  LET Look[e \in 0..Len(es)] ==
        IF e = 0 THEN Error
        ELSE IF n \in DOMAIN es[e].store THEN es[e].store[n] ELSE Look[es[e].outer]
  IN Look[env]

\* f with x mapped to o, in the place of what it was mapped to, if it was.
Bind(f, x, o) == [y \in DOMAIN f \cup {x} |-> IF y = x THEN o ELSE f[y]]

Set_WhereFound(es, env, n, o) ==
  LET Owner[e \in 0..Len(es)] ==
        IF e = 0 THEN env
        ELSE IF n \in DOMAIN es[e].store THEN e ELSE Owner[es[e].outer]
      at == Owner[env]
  IN [es EXCEPT ![at] = [store |-> Bind(es[at].store, n, o), outer |-> es[at].outer]]

\* A let always binds in the environment it is in.
Set(es, env, n, o) ==
  [es EXCEPT ![env] = [store |-> Bind(es[env].store, n, o), outer |-> es[env].outer]]

Init ==
  /\ envs = <<NewEnvironment(0)>>
  /\ stack = <<>>
  /\ ctl = [mode |-> "prompt", o |-> Nil]
  /\ made = 0
  /\ lines = 0
  /\ line = <<>>
  /\ before = [envs |-> envs, made |-> 0]
  /\ leaked = FALSE

Evaluate(n, e) == ctl' = [mode |-> "eval", node |-> n, env |-> e]
Panic == ctl' = [mode |-> "panicked"]
Value(o) == IF o = Crash THEN Panic ELSE ctl' = [mode |-> "value", o |-> o]

\* Eval calls itself; a full Go stack ends the process.
Push(frames, frame, n, e) ==
  IF Len(frames) < MaxStack
  THEN stack' = Append(frames, frame) /\ Evaluate(n, e)
  ELSE ctl' = [mode |-> "overflow"] /\ UNCHANGED stack

-----------------------------------------------------------------------------
(* Eval *)

\* Start: a line without parser errors is evaluated in the one environment.
ReadLine ==
  /\ ctl.mode = "prompt"
  /\ lines < MaxLines
  /\ lines' = lines + 1
  /\ line' \in Lines
  /\ before' = [envs |-> envs, made |-> made]
  /\ IF line' = <<>>
     THEN stack' = <<>> /\ ctl' = [mode |-> "prompt", o |-> Nil]
     ELSE Push(<<>>, [k |-> "program", rest |-> Tail(line')], Head(line'), 1)
  /\ UNCHANGED <<envs, made, leaked>>

\* The innermost Eval is at a node of kind k.
At(k) == ctl.mode = "eval" /\ ctl.node.k = k

node == ctl.node

Builtins == {"len", "first", "last", "rest", "push", "puts"}

\* A name that is not bound may be a built-in's.
Lookup(es, env, n) ==
  IF Get(es, env, n) = Error /\ n \in Builtins THEN Builtin(n) ELSE Get(es, env, n)

EvalLeaf ==
  /\ \/ At("int") /\ Value(Integer(node.v))
     \/ At("bool") /\ Value(Bool(node.b))
     \/ At("string") /\ Value(String(node.s))
     \/ At("id") /\ Value(Lookup(envs, ctl.env, node.n))
     \/ At("block") /\ node.stmts = <<>> /\ Value(Nil)
  /\ UNCHANGED <<envs, stack, made, lines, line, before, leaked>>

EvalNew ==
  /\ \/ At("fn") /\ Value(Function(node, ctl.env, made + 1))
     \/ At("array") /\ node.elements = <<>> /\ Value(Array(<<>>, made + 1))
     \/ At("hash") /\ node.pairs = <<>> /\ Value(Hash(<<>>, made + 1))
  /\ made' = made + 1
  /\ UNCHANGED <<envs, stack, lines, line, before, leaked>>

\* The nodes that evaluate a part of theirs first.
EvalPart ==
  /\ \/ At("let") /\ Push(stack, [k |-> "let", n |-> node.n, env |-> ctl.env], node.value, ctl.env)
     \/ At("return") /\ Push(stack, [k |-> "return"], node.value, ctl.env)
     \/ At("prefix") /\ Push(stack, [k |-> "prefix", op |-> node.op], node.right, ctl.env)
     \/ At("infix") /\ Push(stack, [k |-> "left", op |-> node.op, right |-> node.right,
                                    env |-> ctl.env], node.left, ctl.env)
     \/ At("if") /\ Push(stack, [k |-> "if", then |-> node.then, else |-> node.else,
                                 env |-> ctl.env], node.cond, ctl.env)
     \/ At("index") /\ Push(stack, [k |-> "indexed", index |-> node.index, env |-> ctl.env],
                            node.left, ctl.env)
     \/ At("call") /\ Push(stack, [k |-> "callee", args |-> node.args, env |-> ctl.env],
                           node.fn, ctl.env)
     \/ /\ At("array") /\ node.elements # <<>>
        /\ Push(stack, [k |-> "elements", done |-> <<>>, rest |-> Tail(node.elements), env |-> ctl.env],
                Head(node.elements), ctl.env)
     \/ /\ At("block") /\ node.stmts # <<>>
        /\ Push(stack, [k |-> "block", rest |-> Tail(node.stmts), env |-> ctl.env],
                Head(node.stmts), ctl.env)
  /\ UNCHANGED <<envs, made, lines, line, before, leaked>>

\* The pairs are a Go map: each turn of the loop over it takes any of those left.
NextKey(pairs, left, done, frames, env) ==
  \E i \in left :
    Push(frames, [k |-> "key", pairs |-> pairs, left |-> left \ {i}, at |-> i, done |-> done,
                  env |-> env], pairs[i][1], env)

EvalHash ==
  /\ At("hash") /\ node.pairs # <<>>
  /\ NextKey(node.pairs, DOMAIN node.pairs, <<>>, stack, ctl.env)
  /\ UNCHANGED <<envs, made, lines, line, before, leaked>>

-----------------------------------------------------------------------------
(* An Eval has returned an object, and the innermost caller goes on *)

top == Last(stack)
callers == Front(stack)
object == ctl.o

\* The frames that take the object for an operand.
Operand == {"let", "return", "prefix", "left", "right", "if", "callee", "args", "elements",
            "indexed", "index", "key", "pair"}

Returned(k) == ctl.mode = "value" /\ stack # <<>> /\ top.k = k

\* The callers that return an error they are given.
Checks_NotInLet == (Operand \ {"let"}) \cup {"block", "call"}
Checks == Operand \cup {"block", "call"}

\* isError: the caller returns the error in its turn, and nothing of it is kept.
ErrorReturned ==
  /\ ctl.mode = "value" /\ object = Error
  /\ stack # <<>> /\ top.k \in Checks
  /\ stack' = callers
  /\ UNCHANGED <<envs, ctl, made, lines, line, before, leaked>>

Takes(k) ==
  /\ Returned(k)
  /\ object # Error \/ k \notin Checks
  /\ leaked' = (leaked \/ (k \in Operand /\ object.t = "RETURN_VALUE"))
  /\ UNCHANGED <<lines, line, before>>

\* A let evaluates to its value, a ReturnValue included, which then ends the block.
LetReturned ==
  /\ Takes("let")
  /\ envs' = Set(envs, top.env, top.n, object)
  /\ stack' = callers
  /\ UNCHANGED <<ctl, made>>

ReturnReturned ==
  /\ Takes("return")
  /\ Value(ReturnValue(object, made + 1))
  /\ made' = made + 1
  /\ stack' = callers
  /\ UNCHANGED envs

\* A switch on the singletons: everything else, Go's nil too, is false after "!"
\* and true in a condition.
Bang(o) == Bool(o \in {Bool(FALSE), NULL})
IsTruthy(o) == o \notin {Bool(FALSE), NULL}

EvalPrefix(op, o) ==
  CASE op = "!" -> Bang(o)
    [] op = "-" /\ o = Nil -> Crash
    [] op = "-" /\ o.t = "INTEGER" -> Integer(- o.v)
    [] OTHER -> Error

PrefixReturned ==
  /\ Takes("prefix")
  /\ Value(EvalPrefix(top.op, object))
  /\ stack' = callers
  /\ UNCHANGED <<envs, made>>

LeftReturned ==
  /\ Takes("left")
  /\ stack' = Append(callers, [k |-> "right", op |-> top.op, left |-> object])
  /\ Evaluate(top.right, top.env)
  /\ UNCHANGED <<envs, made>>

\* Go's division rounds towards zero.
Quotient(a, b) ==
  LET Magnitude(x) == IF x < 0 THEN - x ELSE x
      q == Magnitude(a) \div Magnitude(b)
  IN IF (a < 0) = (b < 0) THEN q ELSE - q

EvalIntegerInfix(op, a, b) ==
  CASE op = "+" -> Integer(a + b)
    [] op = "-" -> Integer(a - b)
    [] op = "*" -> Integer(a * b)
    [] op = "/" -> IF b = 0 THEN Crash ELSE Integer(Quotient(a, b))
    [] op = "<" -> Bool(a < b)
    [] op = ">" -> Bool(a > b)
    [] op = "==" -> Bool(a = b)
    [] op = "!=" -> Bool(a # b)
    [] OTHER -> Error

\* The cases in their order: what is not two strings or two integers is compared by its
\* pointer.  Type is called on the right operand only where the left one, or the operator,
\* has not settled the case.
EvalInfix(op, l, r) ==
  CASE l = Nil -> Crash
    [] l # Nil /\ r = Nil ->
         IF l.t \notin {"STRING", "INTEGER"} /\ op \in {"==", "!="} THEN Bool(op = "!=")
         ELSE Crash
    [] l.t = "STRING" /\ r.t = "STRING" -> IF op = "+" THEN String(l.s \o r.s) ELSE Error
    [] l.t = "INTEGER" /\ r.t = "INTEGER" -> EvalIntegerInfix(op, l.v, r.v)
    [] OTHER -> IF op \in {"==", "!="} THEN Bool((op = "==") = (l = r)) ELSE Error

RightReturned ==
  /\ Takes("right")
  /\ Value(EvalInfix(top.op, top.left, object))
  /\ stack' = callers
  /\ UNCHANGED <<envs, made>>

IndexedReturned ==
  /\ Takes("indexed")
  /\ stack' = Append(callers, [k |-> "index", left |-> object])
  /\ Evaluate(top.index, top.env)
  /\ UNCHANGED <<envs, made>>

\* An index out of an array and a key not in a hash are NULL.
EvalIndex(l, i) ==
  CASE l = Nil \/ (i = Nil /\ l.t \in {"ARRAY", "HASH"}) -> Crash
    [] l.t = "ARRAY" /\ i.t = "INTEGER" ->
         IF i.v \in 0..(Len(l.elements) - 1) THEN l.elements[i.v + 1] ELSE NULL
    [] l.t = "HASH" /\ Hashable(i) -> IF i \in DOMAIN l.pairs THEN l.pairs[i] ELSE NULL
    [] OTHER -> Error

IndexReturned ==
  /\ Takes("index")
  /\ Value(EvalIndex(top.left, object))
  /\ stack' = callers
  /\ UNCHANGED <<envs, made>>

KeyReturned ==
  /\ Takes("key")
  /\ IF Hashable(object)
     THEN /\ stack' = Append(callers, [k |-> "pair", key |-> object, pairs |-> top.pairs,
                                       left |-> top.left, done |-> top.done, env |-> top.env])
          /\ Evaluate(top.pairs[top.at][2], top.env)
     ELSE stack' = callers /\ Value(IF object = Nil THEN Crash ELSE Error)
  /\ UNCHANGED <<envs, made>>

\* Of equal keys the last one evaluated keeps its value.
PairReturned ==
  /\ Takes("pair")
  /\ LET done == Bind(top.done, top.key, object)
     IN IF top.left # {}
        THEN NextKey(top.pairs, top.left, done, callers, top.env) /\ UNCHANGED made
        ELSE /\ Value(Hash(done, made + 1))
             /\ made' = made + 1
             /\ stack' = callers
  /\ UNCHANGED envs

ConditionReturned ==
  /\ Takes("if")
  /\ CASE IsTruthy(object) -> Evaluate(top.then, top.env)
       [] ~ IsTruthy(object) /\ top.else # NoBlock -> Evaluate(top.else, top.env)
       [] OTHER -> Value(NULL)
  /\ stack' = callers
  /\ UNCHANGED <<envs, made>>

\* The parameters are bound in turn: of two with one name the last counts.
Bindings(params, args) ==
  [n \in ToSet(params) |->
     args[CHOOSE i \in DOMAIN params :
            params[i] = n /\ \A j \in DOMAIN params : params[j] = n => j <= i]]

Extend_Caller(fn, args, env) == [store |-> Bindings(fn.lit.params, args), outer |-> env]

\* extendFunctionEnv encloses the function's environment, not the caller's.
Extend(fn, args, env) == [store |-> Bindings(fn.lit.params, args), outer |-> fn.env]

\* The built-ins look at the number of their arguments before anything else, and at the
\* Type of the first one.  Arrays are copied, never changed.
CallBuiltin(name, args, id) ==
  CASE name = "puts" -> IF \A i \in DOMAIN args : Shows(args[i]) THEN NULL ELSE Crash
    [] name # "puts" /\ Len(args) # (IF name = "push" THEN 2 ELSE 1) -> Error
    [] OTHER ->
       LET o == args[1]
           n == Len(o.elements)
       IN IF o = Nil THEN Crash
          ELSE IF name = "len" /\ o.t = "STRING" THEN Integer(Len(o.s))
          ELSE IF o.t # "ARRAY" THEN Error
          ELSE CASE name = "len" -> Integer(n)
                 [] name = "push" -> Array(Append(o.elements, args[2]), id)
                 [] name \in {"first", "last", "rest"} /\ n = 0 -> NULL
                 [] name = "first" /\ n # 0 -> o.elements[1]
                 [] name = "last" /\ n # 0 -> o.elements[n]
                 [] name = "rest" /\ n # 0 -> Array(Tail(o.elements), id)

\* applyFunction.  args[paramIdx] is past the end with fewer arguments than
\* parameters; further arguments are not looked at.
Apply(fn, args, env) ==
  CASE fn.t = "FUNCTION" /\ ~ (DOMAIN fn.lit.params \subseteq DOMAIN args) -> Panic /\ UNCHANGED <<envs, stack, made>>
    [] fn.t = "FUNCTION" /\ DOMAIN fn.lit.params \subseteq DOMAIN args ->
         LET callee == Len(envs) + 1
         IN /\ envs' = Append(envs, Extend(fn, args, env))
            /\ Push(callers, [k |-> "call", env |-> callee], fn.lit.body, callee)
            /\ UNCHANGED made
    [] fn.t = "BUILTIN" ->
         /\ Value(CallBuiltin(fn.name, args, made + 1))
         /\ made' = made + 1
         /\ stack' = callers
         /\ UNCHANGED envs
    [] OTHER -> Value(IF fn = Nil THEN Crash ELSE Error) /\ stack' = callers /\ UNCHANGED <<envs, made>>

\* evalExpressions: the arguments from left to right.
Arguments(fn, done, rest, env) ==
  IF rest = <<>>
  THEN Apply(fn, done, env)
  ELSE /\ stack' = Append(callers, [k |-> "args", fn |-> fn, done |-> done,
                                    rest |-> Tail(rest), env |-> env])
       /\ Evaluate(Head(rest), env)
       /\ UNCHANGED <<envs, made>>

CalleeReturned == Takes("callee") /\ Arguments(object, <<>>, top.args, top.env)

ArgumentReturned ==
  Takes("args") /\ Arguments(top.fn, Append(top.done, object), top.rest, top.env)

\* evalExpressions, on the elements of an array.
ElementReturned ==
  /\ Takes("elements")
  /\ LET done == Append(top.done, object)
     IN IF top.rest = <<>>
        THEN Value(Array(done, made + 1)) /\ made' = made + 1 /\ stack' = callers
        ELSE /\ stack' = Append(callers, [k |-> "elements", done |-> done, rest |-> Tail(top.rest),
                                          env |-> top.env])
             /\ Evaluate(Head(top.rest), top.env)
             /\ UNCHANGED made
  /\ UNCHANGED envs

CallReturned_NotUnwrapped ==
  /\ Takes("call")
  /\ Value(object)
  /\ stack' = callers
  /\ UNCHANGED <<envs, made>>

\* unwrapReturnValue takes off one ReturnValue.
CallReturned ==
  /\ Takes("call")
  /\ Value(IF object.t = "RETURN_VALUE" THEN object.o ELSE object)
  /\ stack' = callers
  /\ UNCHANGED <<envs, made>>

\* A ReturnValue is passed on as it is, through all the blocks of a function.
BlockReturned ==
  /\ Takes("block")
  /\ IF object.t = "RETURN_VALUE" \/ top.rest = <<>>
     THEN stack' = callers /\ UNCHANGED ctl
     ELSE /\ stack' = Append(callers, [k |-> "block", rest |-> Tail(top.rest), env |-> top.env])
          /\ Evaluate(Head(top.rest), top.env)
  /\ UNCHANGED <<envs, made>>

\* evalProgram ends at a ReturnValue and at an error.  The REPL prints the result with
\* Inspect, if it is not nil.
ProgramReturned ==
  /\ Takes("program")
  /\ LET result == IF object.t = "RETURN_VALUE" THEN object.o ELSE object
     IN CASE object.t \notin {"RETURN_VALUE", "ERROR"} /\ top.rest # <<>> ->
               /\ stack' = <<[k |-> "program", rest |-> Tail(top.rest)]>>
               /\ Evaluate(Head(top.rest), 1)
          [] result = Nil \/ Shows(result) -> ctl' = [mode |-> "prompt", o |-> result] /\ stack' = <<>>
          [] OTHER -> Panic /\ stack' = <<>>
  /\ UNCHANGED <<envs, made>>

Next ==
  \/ ReadLine \/ EvalLeaf \/ EvalNew \/ EvalPart \/ EvalHash
  \/ ErrorReturned
  \/ LetReturned \/ ReturnReturned \/ PrefixReturned \/ LeftReturned \/ RightReturned
  \/ IndexedReturned \/ IndexReturned \/ KeyReturned \/ PairReturned
  \/ ConditionReturned \/ CalleeReturned \/ ArgumentReturned \/ ElementReturned
  \/ CallReturned \/ BlockReturned \/ ProgramReturned

Spec == Init /\ [][Next]_vars

-----------------------------------------------------------------------------
(* Properties *)

\* The environment of the innermost call that has not returned.
Running ==
  LET calls == { k \in 1..Len(stack) : stack[k].k = "call" }
  IN IF calls = {} THEN 1 ELSE stack[CHOOSE k \in calls : \A j \in calls : j <= k].env

\* Only the innermost call binds, and only in its own environment (or for its
\* callee, in a new one): what a closure has captured never changes after the
\* call that made it has returned, and no callee changes its caller's variables.
OnlyTheRunningCallBinds ==
  [][\A e \in 1..Len(envs) : envs'[e] # envs[e] => e = Running]_vars

\* The one way a ReturnValue first gets to an operand is a return in a block of the operand
\* itself, "let x = if (true) { return 5 }": no call, name, element or pair of earlier
\* lines hands one on, whatever returns there were in their blocks and functions.
ReturnsLeakFromBlocks ==
  [][/\ ctl'.mode = "value" /\ ctl'.o.t = "RETURN_VALUE"
     /\ stack' # <<>> /\ Last(stack').k \in Operand
     /\ ~ leaked'
     => Returned("block")]_vars

\* An error always ends the line: none is bound to a name, kept in an array, a hash or a
\* returned value, as an argument or as a left operand, whatever the nesting.
ErrorsAreNeverKept ==
  LET Holds(o) ==
        CASE o.t = "ARRAY" -> Error \in ToSet(o.elements)
          [] o.t = "HASH" -> Error \in Range(o.pairs)
          [] o.t = "RETURN_VALUE" -> o.o = Error
          [] OTHER -> FALSE
      Kept(O) == Error \in O \/ \E o \in O : Holds(o)
  IN /\ \A e \in 1..Len(envs) : ~ Kept(Range(envs[e].store))
     /\ \A k \in 1..Len(stack) :
          /\ stack[k].k \in {"right", "index"} => ~ Kept({stack[k].left})
          /\ stack[k].k = "args" => ~ Kept({stack[k].fn} \cup ToSet(stack[k].done))
          /\ stack[k].k = "elements" => ~ Kept(ToSet(stack[k].done))
          /\ stack[k].k = "pair" => ~ Kept(Range(stack[k].done))
     /\ ctl.mode = "value" => ~ Holds(object)
=============================================================================
