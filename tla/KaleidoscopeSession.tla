-------------------------- MODULE KaleidoscopeSession --------------------------
(***************************************************************************)
(* The read-eval loop of kaleidoscope/src/main.cpp from parsed items on:   *)
(* the three handlers, the code generation they call, and the three        *)
(* tables that must agree: FunctionProtos, the functions of TheModule and  *)
(* the symbols of the JIT.                                                 *)
(*                                                                         *)
(* Of a body only what the tables are asked about is kept: the variables   *)
(* and the calls that are the operands of its operators.  A binary         *)
(* operator generates both operands even when the first one fails, so a    *)
(* body is the set of its operands.  The arguments of a call are numbers.  *)
(***************************************************************************)
EXTENDS Naturals, FiniteSets, Sequences, Functions

CONSTANTS Names,       \* identifiers of functions
          Host,        \* those the process itself exports (putchard, printd, sin)
          ParamLists,  \* the parameter lists of prototypes, each without repetition
          Bodies,      \* sets of operands
          MaxTimes     \* bound: items that give one name

Variable(v) == [kind |-> "variable", name |-> v]
Call(f, n) == [kind |-> "call", name |-> f, args |-> n]

ASSUME SessionAssumption ==
  /\ IsFiniteSet(Names)
  /\ Host \subseteq Names
  /\ MaxTimes \in Nat

VARIABLES
  protos,    \* FunctionProtos: the parameters last given for each name
  module,    \* TheModule: the parameters of each function declared in it
  jit,       \* the compiled functions: how many parameters, which calls
  imported,  \* the symbols of the process a lookup has brought into the JIT
  mode,      \* "ready" at the prompt, "exited" by ExitOnErr, "diverged" in FP()
  times      \* history: how many definitions and externs gave each name

vars == <<protos, module, jit, imported, mode, times>>

named == { f \in Names : times[f] > 0 }
repeated == { f \in Names : times[f] > 1 }

Empty == [f \in {} |-> <<>>]

With(g, f, x) == [k \in DOMAIN g \cup {f} |-> IF k = f THEN x ELSE g[k]]

Init ==
  /\ protos = Empty
  /\ module = Empty
  /\ jit = Empty
  /\ imported = {}
  /\ mode = "ready"
  /\ times = [f \in Names |-> 0]

Named(f) ==
  /\ times[f] < MaxTimes
  /\ times' = [times EXCEPT ![f] = @ + 1]

Calls(body) == { t \in body : t.kind = "call" }

CalleesOf(terms) == { t.name : t \in terms }

GetFunctions_Always(ps, mod, S) ==
  [f \in DOMAIN mod \cup S |->
     IF f \in DOMAIN mod THEN mod[f] ELSE IF f \in DOMAIN ps THEN ps[f] ELSE <<>>]

\* The module after getFunction of each name of S: the module's own function, else
\* one declared from its prototype, else none.
GetFunctions(ps, mod, S) ==
  [f \in DOMAIN mod \cup (S \cap DOMAIN ps) |->
     IF f \in DOMAIN mod THEN mod[f] ELSE ps[f]]

Generates_AnyArguments(mod, params, body) ==
  \A t \in body :
    \/ t.kind = "variable" /\ t.name \in Range(params)
    \/ t.kind = "call" /\ t.name \in DOMAIN mod

\* Body->codegen() succeeds: every variable is a parameter, and every call is to a
\* function of the module with as many parameters as it has arguments.
Generates(mod, params, body) ==
  \A t \in body :
    \/ t.kind = "variable" /\ t.name \in Range(params)
    \/ t.kind = "call" /\ t.name \in DOMAIN mod /\ Len(mod[t.name]) = t.args

-----------------------------------------------------------------------------
(* The JIT *)

Duplicate_DefinedOnly(f) == f \in DOMAIN jit

\* CompileLayer.add refuses a symbol the library has.
Duplicate(f) == f \in DOMAIN jit \cup imported

\* What the functions of S call.
Callees(S) == UNION { CalleesOf(jit[f].calls) : f \in S \cap DOMAIN jit }

\* All that a lookup of a function that calls S has to resolve: S and what is
\* called from there, directly or not.
Needed(S) ==
  { f \in Names :
      \A T \in SUBSET Names : S \subseteq T /\ Callees(T) \subseteq T => f \in T }

Loops(S) == \E f \in Needed(S) : f \in Needed(Callees({f}))

-----------------------------------------------------------------------------
(* The handlers *)

\* Function::Create gives the new function another name when the module has one of
\* this name: the declaration there stays as it is.
HandleExtern(f, params) ==
  /\ mode = "ready"
  /\ module' = IF f \in DOMAIN module THEN module ELSE With(module, f, params)
  /\ protos' = With(protos, f, params)
  /\ Named(f)
  /\ UNCHANGED <<jit, imported, mode>>

\* FunctionAST::codegen stores the prototype before it knows the body is good, and
\* a declaration of the module is taken with the parameters it has.
Prototyped(f, params) == With(protos, f, params)

\* The module with f and all that the body looks up.
Generated(f, params, body) ==
  LET ps == Prototyped(f, params)
  IN GetFunctions(ps, GetFunctions(ps, module, {f}), CalleesOf(Calls(body)))

HandleDefinition(f, params, body) ==
  /\ mode = "ready"
  /\ LET mod == Generated(f, params, body)
     IN /\ Generates(mod, mod[f], body)
        /\ IF Duplicate(f)
           THEN mode' = "exited" /\ UNCHANGED <<jit, module>>
           ELSE /\ jit' = With(jit, f, [arity |-> Len(mod[f]), calls |-> Calls(body)])
                /\ module' = Empty
                /\ UNCHANGED mode
  /\ protos' = Prototyped(f, params)
  /\ Named(f)
  /\ UNCHANGED imported

\* eraseFromParent takes the function out of the module; the declarations its body
\* brought in stay, and so does its prototype.
DefinitionFails(f, params, body) ==
  /\ mode = "ready"
  /\ LET mod == Generated(f, params, body)
     IN /\ ~ Generates(mod, mod[f], body)
        /\ module' = [g \in DOMAIN mod \ {f} |-> mod[g]]
  /\ protos' = Prototyped(f, params)
  /\ Named(f)
  /\ UNCHANGED <<jit, imported, mode>>

\* An expression is the body of __anon_expr, a name no identifier has.  Its module
\* is added, looked up, which resolves all it needs, run, and removed again.
HandleTopLevelExpression(body) ==
  /\ mode = "ready"
  /\ LET callees == CalleesOf(Calls(body))
         mod == GetFunctions(protos, module, callees)
         needed == Needed(callees)
     IN IF ~ Generates(mod, <<>>, body)
        THEN module' = mod /\ UNCHANGED <<imported, mode>>
        ELSE /\ module' = Empty
             /\ imported' = imported \cup ((needed \cap Host) \ DOMAIN jit)
             /\ mode' = IF ~ needed \subseteq DOMAIN jit \cup Host THEN "exited"
                        ELSE IF Loops(needed) THEN "diverged"
                        ELSE "ready"
  /\ UNCHANGED <<protos, jit, times>>

Next ==
  \/ \E f \in Names, params \in ParamLists : HandleExtern(f, params)
  \/ \E f \in Names, params \in ParamLists, body \in Bodies :
       HandleDefinition(f, params, body) \/ DefinitionFails(f, params, body)
  \/ \E body \in Bodies : HandleTopLevelExpression(body)

Spec == Init /\ [][Next]_vars

-----------------------------------------------------------------------------
(* Properties *)

TypeOK ==
  /\ DOMAIN protos = named /\ Range(protos) \subseteq ParamLists
  /\ DOMAIN module \subseteq named /\ Range(module) \subseteq ParamLists
  /\ DOMAIN jit \subseteq named
  /\ \A f \in DOMAIN jit : jit[f].arity \in { Len(p) : p \in ParamLists }
  /\ imported \subseteq (named \cap Host) \ DOMAIN jit
  /\ mode \in {"ready", "exited", "diverged"}
  /\ times \in [Names -> 0..MaxTimes]

\* Compiled code passes every function it calls as many arguments as that function
\* was compiled with, as long as each name is given by one item only.
CallsMatchWhenNamedOnce ==
  \A f \in DOMAIN jit : \A t \in jit[f].calls :
    t.name \in DOMAIN jit \ repeated => t.args = jit[t.name].arity

\* The session is only ended by an error when a name was given twice or when some
\* prototype has neither a definition nor a symbol of the process behind it.
ExitsAreExplained ==
  mode = "exited" =>
    \/ repeated # {}
    \/ ~ DOMAIN protos \subseteq DOMAIN jit \cup Host

\* With every name given once an evaluation can only fail to return through a
\* function that calls itself: there is no mutual recursion.
DivergesBySelfCall ==
  mode = "diverged" /\ repeated = {} => \E f \in DOMAIN jit : f \in Callees({f})

\* What main.cpp:492 checks for, "If argument mismatch error", for all compiled
\* calls.
CallsMatchDefinitions ==
  \A f \in DOMAIN jit : \A t \in jit[f].calls :
    t.name \in DOMAIN jit => t.args = jit[t.name].arity
=============================================================================
