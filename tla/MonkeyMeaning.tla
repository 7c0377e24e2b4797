---------------------------- MODULE MonkeyMeaning ----------------------------
(***************************************************************************)
(* What a line of monkey means, as an interpreter in one piece, against    *)
(* which MonkeyEval is checked: names are bound where they are written,    *)
(* errors and returns end everything up to the line or the call around     *)
(* them at once, wherever they stand.                                      *)
(*                                                                         *)
(* An outcome of a node is the object it evaluates to, or an abrupt end:   *)
(* an error, a return with its object, a panic.  There is one outcome for  *)
(* each order in which the pairs of the hashes in it can be taken.  What   *)
(* an operator or a built-in makes of its operands is MonkeyEval's.        *)
(***************************************************************************)
EXTENDS MonkeyEval

Abrupt(o) == o.t \in {"ERROR", "RETURN_VALUE", "panic"}

\* h is the heap: the environments, and how many objects were made.
Outcome(h, o) == [heap |-> h, o |-> o]
Only(h, o) == { Outcome(h, o) }
Made(h, o) == { Outcome([h EXCEPT !.made = @ + 1], o) }

\* Go on with the objects of some outcomes, but for the abrupt ends.
Then(R, Continue(_, _)) ==
  UNION { IF Abrupt(r.o) THEN {r} ELSE Continue(r.heap, r.o) : r \in R }

RECURSIVE Meaning(_, _, _), Sequence(_, _, _), Values(_, _, _, _, _), Pairs(_, _, _, _, _)

\* The statements of a block or a line; an empty one has no value.
Sequence(h, stmts, env) ==
  CASE stmts = <<>> -> Only(h, Nil)
    [] Len(stmts) = 1 -> Meaning(h, Head(stmts), env)
    [] OTHER -> Then(Meaning(h, Head(stmts), env), LAMBDA h1, o : Sequence(h1, Tail(stmts), env))

\* The objects of the expressions from left to right, and what the callee, or an array, makes of them.
Values(h, done, exps, env, fn) ==
  IF exps # <<>>
  THEN Then(Meaning(h, Head(exps), env), LAMBDA h1, o : Values(h1, Append(done, o), Tail(exps), env, fn))
  ELSE
  LET id == h.made + 1
  IN CASE fn.t = "list" -> Made(h, Array(done, id))
       [] fn.t = "BUILTIN" -> Made(h, CallBuiltin(fn.name, done, id))
       [] fn.t = "FUNCTION" ->
            IF Len(done) < Len(fn.lit.params) THEN Only(h, Crash)
            ELSE LET callee == Len(h.envs) + 1
                     scope == FoldLeft(LAMBDA es, i : Set(es, callee, fn.lit.params[i], done[i]),
                                       Append(h.envs, NewEnvironment(fn.env)),
                                       [i \in DOMAIN fn.lit.params |-> i])
                 IN { IF r.o.t = "RETURN_VALUE" THEN Outcome(r.heap, r.o.o) ELSE r :
                      r \in Sequence([h EXCEPT !.envs = scope], fn.lit.body.stmts, callee) }
       [] OTHER -> Only(h, IF fn = Nil THEN Crash ELSE Error)

\* The pairs left of a hash, in any order.
Pairs(h, pairs, left, done, env) ==
  IF left = {} THEN Made(h, Hash(done, h.made + 1))
  ELSE UNION { Then(Meaning(h, pairs[i][1], env), LAMBDA h1, key :
                 IF ~ Hashable(key) THEN Only(h1, IF key = Nil THEN Crash ELSE Error)
                 ELSE Then(Meaning(h1, pairs[i][2], env), LAMBDA h2, o :
                        Pairs(h2, pairs, left \ {i}, Bind(done, key, o), env)))
               : i \in left }

Meaning(h, n, env) ==
  CASE n.k = "int" -> Only(h, Integer(n.v))
    [] n.k = "bool" -> Only(h, Bool(n.b))
    [] n.k = "string" -> Only(h, String(n.s))
    [] n.k = "fn" -> Made(h, Function(n, env, h.made + 1))
    [] n.k = "id" -> Only(h, Lookup(h.envs, env, n.n))
    [] n.k = "block" -> Sequence(h, n.stmts, env)
    [] n.k = "array" -> Values(h, <<>>, n.elements, env, [t |-> "list"])
    [] n.k = "hash" -> Pairs(h, n.pairs, DOMAIN n.pairs, <<>>, env)
    [] n.k = "let" ->
         Then(Meaning(h, n.value, env), LAMBDA h1, o :
           Only([h1 EXCEPT !.envs = Set(@, env, n.n, o)], o))
    [] n.k = "return" ->
         Then(Meaning(h, n.value, env), LAMBDA h1, o : Made(h1, ReturnValue(o, h1.made + 1)))
    [] n.k = "prefix" ->
         Then(Meaning(h, n.right, env), LAMBDA h1, o : Only(h1, EvalPrefix(n.op, o)))
    [] n.k = "infix" ->
         Then(Meaning(h, n.left, env), LAMBDA h1, l :
           Then(Meaning(h1, n.right, env), LAMBDA h2, r : Only(h2, EvalInfix(n.op, l, r))))
    [] n.k = "index" ->
         Then(Meaning(h, n.left, env), LAMBDA h1, l :
           Then(Meaning(h1, n.index, env), LAMBDA h2, i : Only(h2, EvalIndex(l, i))))
    [] n.k = "if" ->
         Then(Meaning(h, n.cond, env), LAMBDA h1, o :
           IF IsTruthy(o) THEN Meaning(h1, n.then, env)
           ELSE IF n.else = NoBlock THEN Only(h1, NULL)
           ELSE Meaning(h1, n.else, env))
    [] n.k = "call" ->
         Then(Meaning(h, n.fn, env), LAMBDA h1, f : Values(h1, <<>>, n.args, env, f))

\* What the line leaves and gives to Inspect, which panics on a nil inside.
LineMeanings ==
  LET Printed(o) == IF o = Nil \/ Shows(o) THEN o ELSE Crash
  IN { Outcome(r.heap, Printed(IF r.o.t = "RETURN_VALUE" THEN r.o.o ELSE r.o))
       : r \in Sequence(before, line, 1) }

-----------------------------------------------------------------------------
(* Properties *)

\* A line prints what it means and leaves the environments it should, across calls,
\* closures, errors and returns, as long as no return inside an operand has left
\* a ReturnValue where a value was wanted; and the process panics exactly on
\* the lines that divide by zero, call with too few arguments, use the nil of
\* an empty block or print it in an array or a hash.
LinesMeanWhatTheySay ==
  lines > 0 /\ ~ leaked =>
    /\ ctl.mode = "prompt" => Outcome([envs |-> envs, made |-> made], ctl.o) \in LineMeanings
    /\ ctl.mode = "panicked" => Crash \in { r.o : r \in LineMeanings }
=============================================================================
