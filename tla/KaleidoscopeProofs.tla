--------------------------- MODULE KaleidoscopeProofs ---------------------------
(***************************************************************************)
(* The session: for any names, prototypes and bodies, and any number of    *)
(* repetitions, as long as each name is given once the tables of           *)
(* KaleidoscopeSession agree                                               *)
(* and compiled calls pass what their callees take, and an evaluation that *)
(* does not return went through a function that calls itself; and a        *)
(* session only ends with an error that has a cause the user can see.      *)
(*                                                                         *)
(* The front end: for any texts, the tokens are the text, every turn of    *)
(* the main loop goes forward, none reads over a semicolon, and each reads *)
(* what the grammar derives, with the tree it gives.                       *)
(***************************************************************************)
EXTENDS KaleidoscopeSession, KaleidoscopeGrammar, ProofLemmas

(***************************************************************************)
(* The invariant.  A name given once has one parameter list, and the three *)
(* tables hold it: the module (ModuleAgrees), the JIT (JitAgrees) and the  *)
(* calls compiled so far (CallsKnown), which in addition never name what   *)
(* has no prototype.                                                       *)
(***************************************************************************)
ModuleAgrees == \A g \in DOMAIN module : times[g] = 1 => module[g] = protos[g]

JitAgrees == \A g \in DOMAIN jit : times[g] = 1 => jit[g].arity = Len(protos[g])

CallsKnown ==
  \A g \in DOMAIN jit : \A t \in jit[g].calls :
    t.name \in named /\ (times[t.name] = 1 => t.args = Len(protos[t.name]))

IInv == TypeOK /\ ModuleAgrees /\ JitAgrees /\ CallsKnown /\ ExitsAreExplained

\* The invariant holds at the first prompt.
LEMMA InitIInv == Init => IInv
<1> SUFFICES ASSUME Init PROVE IInv
  OBVIOUS
<1>1. named = {} /\ repeated = {}
  BY DEF Init, named, repeated
<1>2. times \in [Names -> 0..MaxTimes]
  BY SessionAssumption DEF Init
<1> QED
  BY <1>1, <1>2 DEF Init, IInv, TypeOK, ModuleAgrees, JitAgrees, CallsKnown,
     ExitsAreExplained, Empty, Range

\* Giving a name once more: which names have now been given once.
LEMMA NamedFacts ==
  ASSUME TypeOK, NEW f \in Names, Named(f)
  PROVE  /\ times' \in [Names -> 0..MaxTimes]
         /\ named' = named \cup {f}
         /\ \A g \in Names : g # f => times'[g] = times[g]
         /\ times'[f] = 1 => f \notin named
         /\ repeated \subseteq repeated'
<1>1. \A g \in Names : times[g] \in Nat
  BY SessionAssumption DEF TypeOK
<1>2. times[f] + 1 \in 0..MaxTimes
  BY <1>1, SessionAssumption DEF Named, TypeOK
<1>3. times' \in [Names -> 0..MaxTimes]
  BY <1>2 DEF Named, TypeOK
<1>4. \A g \in Names : times'[g] = IF g = f THEN times[g] + 1 ELSE times[g]
  BY DEF Named, TypeOK
<1>5. named' = named \cup {f}
  BY <1>1, <1>4 DEF named
<1>6. repeated \subseteq repeated'
  BY <1>1, <1>4 DEF repeated
<1> QED
  BY <1>1, <1>3, <1>4, <1>5, <1>6 DEF named

\* What the module holds once f and the callees of a body were looked up: only names
\* that were given, f among them, and those given once with their prototype.
LEMMA GeneratedFacts ==
  ASSUME IInv, NEW f \in Names, NEW params \in ParamLists, NEW body, Named(f),
         NEW mod, mod = Generated(f, params, body)
  PROVE  /\ f \in DOMAIN mod
         /\ DOMAIN mod \subseteq named'
         /\ \A g \in DOMAIN mod : mod[g] \in ParamLists
         /\ \A g \in DOMAIN mod : times'[g] = 1 => mod[g] = Prototyped(f, params)[g]
<1> DEFINE ps == Prototyped(f, params)
           first == GetFunctions(ps, module, {f})
<1>1. TypeOK /\ ModuleAgrees
  BY DEF IInv
<1>2. /\ DOMAIN ps = named \cup {f}
      /\ ps[f] = params
      /\ \A g \in named : g # f => ps[g] = protos[g]
  BY <1>1 DEF Prototyped, With, TypeOK
<1>3. \A g \in DOMAIN ps : ps[g] \in ParamLists
  BY <1>1, <1>2 DEF TypeOK, Range
<1>4. /\ DOMAIN first = DOMAIN module \cup {f}
      /\ \A g \in DOMAIN first : first[g] = IF g \in DOMAIN module THEN module[g] ELSE ps[g]
  BY <1>2 DEF GetFunctions
<1>5. /\ DOMAIN first \subseteq DOMAIN mod
      /\ DOMAIN mod \subseteq DOMAIN first \cup DOMAIN ps
      /\ \A g \in DOMAIN mod : mod[g] = IF g \in DOMAIN first THEN first[g] ELSE ps[g]
  BY DEF Generated, GetFunctions
<1>6. \A g \in DOMAIN mod : mod[g] = IF g \in DOMAIN module THEN module[g] ELSE ps[g]
  BY <1>4, <1>5
<1>7. DOMAIN mod \subseteq named'
  BY <1>1, <1>2, <1>4, <1>5, NamedFacts DEF TypeOK
<1>8. \A g \in DOMAIN mod : mod[g] \in ParamLists
  <2> HIDE DEF ps, first
  <2> SUFFICES ASSUME NEW g \in DOMAIN mod PROVE mod[g] \in ParamLists
    OBVIOUS
  <2>1. CASE g \in DOMAIN module
    <3>1. module[g] \in ParamLists
      BY <1>1, <2>1 DEF TypeOK, Range
    <3> QED
      BY <1>6, <2>1, <3>1
  <2>2. CASE g \notin DOMAIN module
    <3>1. f \in DOMAIN ps
      BY <1>2
    <3>2. g \in DOMAIN ps
      BY <1>4, <1>5, <2>2, <3>1
    <3> QED
      BY <1>3, <1>6, <2>2, <3>2
  <2> QED
    BY <2>1, <2>2
<1>9. ASSUME NEW g \in DOMAIN mod, times'[g] = 1
      PROVE  mod[g] = ps[g]
  <2>1. CASE g \in DOMAIN module
    <3>1. g \in named
      BY <1>1, <2>1 DEF TypeOK
    <3>2. g # f
      BY <1>1, <1>9, <3>1, NamedFacts
    <3>3. times[g] = 1
      BY <1>1, <1>9, <3>1, <3>2, NamedFacts DEF named
    <3>4. module[g] = protos[g]
      BY <1>1, <2>1, <3>3 DEF ModuleAgrees
    <3> QED
      BY <1>2, <1>6, <2>1, <3>1, <3>2, <3>4
  <2>2. CASE g \notin DOMAIN module
    BY <1>6, <2>2
  <2> QED
    BY <2>1, <2>2
<1> QED
  BY <1>4, <1>5, <1>7, <1>8, <1>9

\* Giving f the prototype params keeps what is known of every name given once, and of
\* all that was compiled before.
LEMMA GivenFacts ==
  ASSUME IInv, NEW f \in Names, NEW params \in ParamLists, Named(f),
         protos' = Prototyped(f, params)
  PROVE  /\ DOMAIN protos' = named' /\ Range(protos') \subseteq ParamLists
         /\ named \subseteq named'
         /\ \A g \in named : times'[g] = 1 => times[g] = 1 /\ protos'[g] = protos[g]
         /\ \A g \in DOMAIN jit : times'[g] = 1 => jit[g].arity = Len(protos'[g])
         /\ \A g \in DOMAIN jit : \A t \in jit[g].calls :
              t.name \in named' /\ (times'[t.name] = 1 => t.args = Len(protos'[t.name]))
<1>1. TypeOK BY DEF IInv
<1>2. /\ DOMAIN protos' = named \cup {f}
      /\ protos'[f] = params
      /\ \A g \in named : g # f => protos'[g] = protos[g]
  BY <1>1 DEF Prototyped, With, TypeOK
<1>3. named' = named \cup {f}
  BY <1>1, NamedFacts
<1>4. Range(protos') \subseteq ParamLists
  BY <1>1, <1>2 DEF TypeOK, Range
<1>5. \A g \in named : times'[g] = 1 => times[g] = 1 /\ protos'[g] = protos[g]
  BY <1>1, <1>2, NamedFacts DEF named
<1>6. \A g \in DOMAIN jit : times'[g] = 1 => jit[g].arity = Len(protos'[g])
  BY <1>1, <1>5 DEF IInv, JitAgrees, TypeOK
<1>7. \A g \in DOMAIN jit : \A t \in jit[g].calls :
        t.name \in named' /\ (times'[t.name] = 1 => t.args = Len(protos'[t.name]))
  BY <1>3, <1>5 DEF IInv, CallsKnown
<1> QED
  BY <1>2, <1>3, <1>4, <1>5, <1>6, <1>7

-----------------------------------------------------------------------------
LEMMA ExternKeepsIInv ==
  ASSUME IInv, NEW f \in Names, NEW params \in ParamLists, HandleExtern(f, params)
  PROVE  IInv'
<1>1. TypeOK /\ ModuleAgrees BY DEF IInv
<1>2. Named(f) /\ protos' = Prototyped(f, params) /\ jit' = jit
      /\ imported' = imported /\ mode' = mode /\ mode = "ready"
  BY DEF HandleExtern, Prototyped
<1>3. /\ DOMAIN module' \subseteq named'
      /\ \A g \in DOMAIN module' :
           module'[g] = IF g \in DOMAIN module THEN module[g] ELSE params
      /\ \A g \in DOMAIN module' : g \in DOMAIN module \/ g = f
  BY <1>1, <1>2, NamedFacts DEF HandleExtern, With, TypeOK
<1>4. Range(module') \subseteq ParamLists
  BY <1>1, <1>3 DEF TypeOK, Range
<1>5. TypeOK'
  BY <1>1, <1>2, <1>3, <1>4, NamedFacts, GivenFacts DEF TypeOK
<1>6. ModuleAgrees'
  <2> SUFFICES ASSUME NEW g \in DOMAIN module', times'[g] = 1
               PROVE  module'[g] = protos'[g]
    BY DEF ModuleAgrees
  <2>1. CASE g \in DOMAIN module
    BY <1>1, <1>2, <1>3, <2>1, GivenFacts DEF TypeOK, ModuleAgrees
  <2>2. CASE g \notin DOMAIN module
    BY <1>2, <1>3, <2>2 DEF Prototyped, With
  <2> QED BY <2>1, <2>2
<1>7. JitAgrees' /\ CallsKnown'
  BY <1>2, GivenFacts DEF JitAgrees, CallsKnown
<1>8. ExitsAreExplained'
  BY <1>2 DEF ExitsAreExplained
<1> QED BY <1>5, <1>6, <1>7, <1>8 DEF IInv

LEMMA DefinitionFailsKeepsIInv ==
  ASSUME IInv, NEW f \in Names, NEW params \in ParamLists, NEW body,
         DefinitionFails(f, params, body)
  PROVE  IInv'
<1>1. TypeOK BY DEF IInv
<1>2. Named(f) /\ protos' = Prototyped(f, params) /\ jit' = jit
      /\ imported' = imported /\ mode' = mode /\ mode = "ready"
  BY DEF DefinitionFails
<1> DEFINE mod == Generated(f, params, body)
<1>3. module' = [g \in DOMAIN mod \ {f} |-> mod[g]]
  BY DEF DefinitionFails
<1> mod = Generated(f, params, body)
  OBVIOUS
<1> HIDE DEF mod
<1>4. /\ DOMAIN mod \subseteq named'
      /\ \A g \in DOMAIN mod : mod[g] \in ParamLists
      /\ \A g \in DOMAIN mod : times'[g] = 1 => mod[g] = protos'[g]
  BY <1>2, GeneratedFacts
<1>5. /\ DOMAIN module' \subseteq DOMAIN mod
      /\ \A g \in DOMAIN module' : module'[g] = mod[g]
  BY <1>3
<1>6. DOMAIN module' \subseteq named' /\ Range(module') \subseteq ParamLists
  BY <1>4, <1>5 DEF Range
<1>7. TypeOK'
  BY <1>1, <1>2, <1>6, NamedFacts, GivenFacts DEF TypeOK
<1>8. ModuleAgrees'
  BY <1>4, <1>5 DEF ModuleAgrees
<1>9. JitAgrees' /\ CallsKnown'
  BY <1>2, GivenFacts DEF JitAgrees, CallsKnown
<1>10. ExitsAreExplained'
  BY <1>2 DEF ExitsAreExplained
<1> QED BY <1>7, <1>8, <1>9, <1>10 DEF IInv

\* A definition that is compiled: the new entry of the JIT has the parameters of the
\* module's function, and its calls were checked against the module.
LEMMA DefinitionKeepsIInv ==
  ASSUME IInv, NEW f \in Names, NEW params \in ParamLists, NEW body,
         HandleDefinition(f, params, body)
  PROVE  IInv'
<1>1. TypeOK BY DEF IInv
<1>2. Named(f) /\ protos' = Prototyped(f, params) /\ imported' = imported
      /\ mode = "ready"
  BY DEF HandleDefinition
<1> DEFINE mod == Generated(f, params, body)
           new == [arity |-> Len(mod[f]), calls |-> Calls(body)]
<1>3. /\ Generates(mod, mod[f], body)
      /\ Duplicate(f) => mode' = "exited" /\ jit' = jit /\ module' = module
      /\ ~ Duplicate(f) => jit' = With(jit, f, new) /\ module' = Empty /\ mode' = mode
  BY DEF HandleDefinition
<1> /\ mod = Generated(f, params, body)
    /\ new.arity = Len(mod[f]) /\ new.calls = Calls(body)
  OBVIOUS
<1> HIDE DEF mod, new
<1>4. /\ f \in DOMAIN mod
      /\ DOMAIN mod \subseteq named'
      /\ \A g \in DOMAIN mod : mod[g] \in ParamLists
      /\ \A g \in DOMAIN mod : times'[g] = 1 => mod[g] = protos'[g]
  BY <1>2, GeneratedFacts
<1>5. new.arity = Len(mod[f]) /\ new.calls = Calls(body)
  OBVIOUS
<1>6. \A t \in Calls(body) : t.name \in DOMAIN mod /\ t.args = Len(mod[t.name])
  BY <1>3 DEF Generates, Calls
<1>7. CASE Duplicate(f)
  <2>1. mode' = "exited" /\ jit' = jit /\ module' = module
    BY <1>3, <1>7
  <2>2. TypeOK'
    BY <1>1, <1>2, <2>1, NamedFacts, GivenFacts DEF TypeOK
  <2>3. ModuleAgrees'
    BY <1>1, <2>1, <1>2, GivenFacts DEF IInv, ModuleAgrees, TypeOK
  <2>4. JitAgrees' /\ CallsKnown'
    BY <1>2, <2>1, GivenFacts DEF JitAgrees, CallsKnown
  <2>5. f \in repeated'
    <3>1. f \in named
      BY <1>1, <1>7 DEF Duplicate, TypeOK
    <3>2. times[f] \in Nat \ {0} /\ times'[f] = times[f] + 1
      BY <1>1, <1>2, <3>1, SessionAssumption DEF named, Named, TypeOK
    <3> QED BY <3>2 DEF repeated
  <2>6. ExitsAreExplained'
    BY <2>5 DEF ExitsAreExplained
  <2> QED BY <2>2, <2>3, <2>4, <2>6 DEF IInv
<1>8. CASE ~ Duplicate(f)
  <2>1. jit' = With(jit, f, new) /\ module' = Empty /\ mode' = mode
    BY <1>3, <1>8
  <2>2. /\ DOMAIN jit' = DOMAIN jit \cup {f}
        /\ jit'[f] = new
        /\ \A g \in DOMAIN jit : jit'[g] = jit[g]
    BY <1>8, <2>1 DEF With, Duplicate
  <2>3. DOMAIN module' = {} /\ Range(module') = {}
    BY <2>1 DEF Empty, Range
  <2>4. \A g \in DOMAIN jit' : jit'[g].arity \in { Len(p) : p \in ParamLists }
    BY <1>1, <1>4, <1>5, <2>2 DEF TypeOK
  <2>5. f \notin imported
    BY <1>8 DEF Duplicate
  <2>6. DOMAIN jit' \subseteq named'
    BY <1>1, <1>2, <2>2, NamedFacts DEF TypeOK
  <2>7. TypeOK'
    BY <1>1, <1>2, <2>1, <2>2, <2>3, <2>4, <2>5, <2>6, NamedFacts, GivenFacts DEF TypeOK
  <2>8. ModuleAgrees'
    BY <2>3 DEF ModuleAgrees
  <2>9. JitAgrees'
    BY <1>2, <1>4, <1>5, <2>2, GivenFacts DEF JitAgrees
  <2>10. CallsKnown'
    BY <1>2, <1>4, <1>5, <1>6, <2>2, GivenFacts DEF CallsKnown
  <2>11. ExitsAreExplained'
    BY <1>2, <2>1 DEF ExitsAreExplained
  <2> QED BY <2>7, <2>8, <2>9, <2>10, <2>11 DEF IInv
<1> QED BY <1>7, <1>8

\* All that a lookup resolves has a prototype, when what it starts from has.
LEMMA NeededIsNamed ==
  ASSUME IInv, NEW S \in SUBSET named
  PROVE  Needed(S) \subseteq named
<1>1. named \in SUBSET Names
  BY DEF named
<1>2. Callees(named) \subseteq named
  BY DEF IInv, CallsKnown, Callees, CalleesOf
<1> QED BY <1>1, <1>2 DEF Needed

LEMMA ExpressionKeepsIInv ==
  ASSUME IInv, NEW body, HandleTopLevelExpression(body)
  PROVE  IInv'
<1>1. TypeOK BY DEF IInv
<1> DEFINE callees == CalleesOf(Calls(body))
           mod == GetFunctions(protos, module, callees)
           needed == Needed(callees)
<1>2. /\ mode = "ready" /\ protos' = protos /\ jit' = jit /\ times' = times
      /\ named' = named /\ repeated' = repeated
  BY DEF HandleTopLevelExpression, named, repeated
<1>3. /\ ~ Generates(mod, <<>>, body) =>
           module' = mod /\ imported' = imported /\ mode' = mode
      /\ Generates(mod, <<>>, body) =>
           /\ module' = Empty
           /\ imported' = imported \cup ((needed \cap Host) \ DOMAIN jit)
           /\ mode' \in {"exited", "diverged", "ready"}
           /\ mode' = "exited" => ~ needed \subseteq DOMAIN jit \cup Host
  BY DEF HandleTopLevelExpression
<1>4. /\ DOMAIN mod \subseteq named
      /\ \A g \in DOMAIN mod : mod[g] \in ParamLists
      /\ \A g \in DOMAIN mod : times[g] = 1 => mod[g] = protos[g]
  BY <1>1 DEF GetFunctions, TypeOK, IInv, ModuleAgrees, Range
<1>5. Generates(mod, <<>>, body) => callees \subseteq DOMAIN mod
  BY DEF Generates, Calls, CalleesOf
<1>6. Generates(mod, <<>>, body) => needed \subseteq named
  BY <1>4, <1>5, NeededIsNamed
<1> HIDE DEF mod, needed, callees
<1>7. JitAgrees' /\ CallsKnown'
  BY <1>2 DEF IInv, JitAgrees, CallsKnown
<1>8. CASE ~ Generates(mod, <<>>, body)
  <2>1. module' = mod /\ imported' = imported /\ mode' = mode
    BY <1>3, <1>8
  <2>2. TypeOK'
    BY <1>1, <1>2, <1>4, <2>1 DEF TypeOK, Range
  <2>3. ModuleAgrees' /\ ExitsAreExplained'
    BY <1>2, <1>4, <2>1 DEF ModuleAgrees, ExitsAreExplained
  <2> QED BY <1>7, <2>2, <2>3 DEF IInv
<1>9. CASE Generates(mod, <<>>, body)
  <2>1. DOMAIN module' = {} /\ Range(module') = {}
    BY <1>3, <1>9 DEF Empty, Range
  <2>2. imported' \subseteq (named \cap Host) \ DOMAIN jit
    BY <1>1, <1>3, <1>6, <1>9 DEF TypeOK
  <2>3. TypeOK'
    BY <1>1, <1>2, <1>3, <1>9, <2>1, <2>2 DEF TypeOK
  <2>4. ModuleAgrees'
    BY <2>1 DEF ModuleAgrees
  <2>5. ExitsAreExplained'
    <3>1. mode' = "exited" => ~ DOMAIN protos \subseteq DOMAIN jit \cup Host
      BY <1>1, <1>3, <1>6, <1>9 DEF TypeOK
    <3> QED BY <1>2, <3>1 DEF ExitsAreExplained
  <2> QED BY <1>7, <2>3, <2>4, <2>5 DEF IInv
<1> QED BY <1>8, <1>9

-----------------------------------------------------------------------------
\* Every item keeps the invariant.
LEMMA NextKeepsIInv == IInv /\ [Next]_vars => IInv'
<1> SUFFICES ASSUME IInv, [Next]_vars PROVE IInv'
  OBVIOUS
<1>1. ASSUME NEW f \in Names, NEW params \in ParamLists, HandleExtern(f, params)
      PROVE  IInv'
  BY <1>1, ExternKeepsIInv
<1>2. ASSUME NEW f \in Names, NEW params \in ParamLists, NEW body \in Bodies,
             HandleDefinition(f, params, body)
      PROVE  IInv'
  BY <1>2, DefinitionKeepsIInv
<1>3. ASSUME NEW f \in Names, NEW params \in ParamLists, NEW body \in Bodies,
             DefinitionFails(f, params, body)
      PROVE  IInv'
  BY <1>3, DefinitionFailsKeepsIInv
<1>4. ASSUME NEW body \in Bodies, HandleTopLevelExpression(body)
      PROVE  IInv'
  BY <1>4, ExpressionKeepsIInv
<1>5. CASE UNCHANGED vars
  BY <1>5 DEF vars, IInv, TypeOK, ModuleAgrees, JitAgrees, CallsKnown,
     ExitsAreExplained, named, repeated
<1> QED BY <1>1, <1>2, <1>3, <1>4, <1>5 DEF Next

\* The invariant holds in every session.
LEMMA SessionIInv == Spec => []IInv
  BY InitIInv, NextKeepsIInv, PTL DEF Spec

\* The three tables keep their types: the prototypes are those of the names given,
\* and nothing is in the module or the JIT that was not given.
THEOREM SessionTypeOK == Spec => []TypeOK
<1>1. IInv => TypeOK BY DEF IInv
<1> QED BY <1>1, SessionIInv, PTL

\* Compiled calls match the compiled functions whose name was given once: what the
\* check of CallExprAST::codegen is for.
THEOREM SessionCallsMatch == Spec => []CallsMatchWhenNamedOnce
<1>1. IInv => CallsMatchWhenNamedOnce
  <2> SUFFICES ASSUME IInv, NEW g \in DOMAIN jit, NEW t \in jit[g].calls,
                      t.name \in DOMAIN jit \ repeated
               PROVE  t.args = jit[t.name].arity
    BY DEF CallsMatchWhenNamedOnce
  <2>1. t.name \in named
    BY DEF IInv, CallsKnown
  <2>2. times[t.name] = 1
    BY <2>1, SessionAssumption DEF IInv, TypeOK, named, repeated
  <2> QED BY <2>2 DEF IInv, CallsKnown, JitAgrees
<1> QED BY <1>1, SessionIInv, PTL

\* ExitOnErr ends a session only after a name was given twice or while a prototype
\* has nothing behind it.
THEOREM SessionExitsAreExplained == Spec => []ExitsAreExplained
<1>1. IInv => ExitsAreExplained BY DEF IInv
<1> QED BY <1>1, SessionIInv, PTL

-----------------------------------------------------------------------------
(***************************************************************************)
(* Why a call graph without self calls has no cycle: a function can only   *)
(* call what was named before it was compiled.  While names are given once *)
(* the function compiled last is called by no other, so in every set of    *)
(* compiled functions there is one that calls none of the others.          *)
(***************************************************************************)
CallsDescend ==
  repeated = {} =>
    \A S \in SUBSET DOMAIN jit : S # {} => \E f \in S : Callees({f}) \cap S \subseteq {f}

\* The callees of one function, in the terms of the table.
LEMMA CalleesOfOne ==
  ASSUME NEW f
  PROVE  /\ f \in DOMAIN jit => Callees({f}) = CalleesOf(jit[f].calls)
         /\ f \notin DOMAIN jit => Callees({f}) = {}
BY DEF Callees

\* Callees is the union over the functions of a set, and names only what was given.
LEMMA CalleesOfAll ==
  ASSUME IInv, NEW S
  PROVE  /\ \A g : g \in Callees(S) <=> \E f \in S : g \in Callees({f})
         /\ Callees(S) \subseteq Names
<1>1. \A g : g \in Callees(S) <=> \E f \in S \cap DOMAIN jit : g \in CalleesOf(jit[f].calls)
  BY DEF Callees
<1>2. \A f \in DOMAIN jit : CalleesOf(jit[f].calls) \subseteq Names
  BY DEF IInv, CallsKnown, CalleesOf, named
<1>3. \A g : g \in Callees(S) => \E f \in S : g \in Callees({f})
  BY <1>1, CalleesOfOne
<1>4. \A g : (\E f \in S : g \in Callees({f})) => g \in Callees(S)
  BY <1>1, CalleesOfOne
<1> QED
  BY <1>1, <1>2, <1>3, <1>4

\* What a lookup has to resolve is closed under calls, and is no more than any set that is.
LEMMA NeededIsClosed ==
  ASSUME IInv, NEW S \in SUBSET Names
  PROVE  /\ S \subseteq Needed(S) /\ Needed(S) \subseteq Names /\ Callees(Needed(S)) \subseteq Needed(S)
         /\ \A T \in SUBSET Names : S \subseteq T /\ Callees(T) \subseteq T => Needed(S) \subseteq T
<1>1. /\ S \subseteq Needed(S) /\ Needed(S) \subseteq Names
      /\ \A T \in SUBSET Names : S \subseteq T /\ Callees(T) \subseteq T => Needed(S) \subseteq T
  BY DEF Needed
<1>2. ASSUME NEW g \in Callees(Needed(S)) PROVE g \in Needed(S)
  <2>1. PICK f \in Needed(S) : g \in Callees({f})
    BY CalleesOfAll
  <2>2. g \in Names
    BY <2>1, CalleesOfAll
  <2>3. ASSUME NEW T \in SUBSET Names, S \subseteq T, Callees(T) \subseteq T PROVE g \in T
    <3>1. f \in T
      BY <1>1, <2>1, <2>3
    <3>2. g \in Callees(T)
      BY <2>1, <3>1, CalleesOfAll
    <3> QED
      BY <2>3, <3>2
  <2> QED
    BY <2>2, <2>3 DEF Needed
<1> QED
  BY <1>1, <1>2

\* A function that needs itself calls something that needs it, or calls it.
LEMMA NeedsThrough ==
  ASSUME IInv, NEW h, NEW f \in Needed(Callees({h}))
  PROVE  f \in Callees({h}) \/ \E k \in Callees({h}) : f \in Needed(Callees({k}))
<1> DEFINE T == Callees({h}) \cup UNION { Needed(Callees({k})) : k \in Callees({h}) }
<1>1. \A k : Callees({k}) \in SUBSET Names
  BY CalleesOfAll
<1>2. ASSUME NEW k PROVE Needed(Callees({k})) \subseteq Names
  <2>1. Callees({k}) \in SUBSET Names
    BY <1>1
  <2> QED
    BY <2>1, NeededIsClosed
<1>3. T \in SUBSET Names /\ Callees({h}) \subseteq T
  BY <1>1, <1>2
<1>4. ASSUME NEW g \in Callees(T) PROVE g \in T
  <2>1. PICK k \in T : g \in Callees({k})
    <3> HIDE DEF T
    <3> QED
      BY CalleesOfAll
  <2>2. CASE k \in Callees({h})
    <3>1. g \in Needed(Callees({k}))
      BY <1>1, <2>1, NeededIsClosed
    <3> QED
      BY <2>2, <3>1
  <2>3. ASSUME NEW j \in Callees({h}), k \in Needed(Callees({j})) PROVE g \in T
    <3>1. g \in Callees(Needed(Callees({j})))
      BY <2>1, <2>3, CalleesOfAll
    <3>2. g \in Needed(Callees({j}))
      BY <1>1, <3>1, NeededIsClosed
    <3> QED
      BY <3>2
  <2> QED
    BY <2>2, <2>3
<1>5. Needed(Callees({h})) \subseteq T
  <2> HIDE DEF T
  <2> QED
    BY <1>1, <1>3, <1>4, NeededIsClosed
<1> QED
  BY <1>5

\* Nothing is needed by nothing.
LEMMA NothingNeeded == Needed({}) = {}
<1>1. Callees({}) \subseteq {}
  BY DEF Callees
<1> QED
  BY <1>1 DEF Needed

\* So an evaluation that does not return has a function that calls itself.
LEMMA LoopsBySelfCall ==
  ASSUME IInv, CallsDescend, repeated = {}, NEW S, Loops(S)
  PROVE  \E f \in DOMAIN jit : f \in Callees({f})
<1> SUFFICES ASSUME \A f \in DOMAIN jit : f \notin Callees({f}) PROVE FALSE
  OBVIOUS
<1>1. PICK f : f \in Needed(Callees({f}))
  BY DEF Loops
<1>2. \A k, g : g \in Needed(Callees({k})) => k \in DOMAIN jit
  BY CalleesOfOne, NothingNeeded
<1> DEFINE C == { h \in DOMAIN jit : f \in Needed(Callees({h})) }
<1>3. f \in C /\ C \in SUBSET DOMAIN jit
  BY <1>1, <1>2
<1>4. PICK h \in C : Callees({h}) \cap C \subseteq {h}
  <2> HIDE DEF C
  <2> QED
    BY <1>3 DEF CallsDescend
<1>5. Callees({h}) \cap C = {}
  BY <1>4
<1>6. f \in Callees({h}) \/ \E k \in Callees({h}) : f \in Needed(Callees({k}))
  BY <1>4, NeedsThrough
<1>7. \A k : f \in Needed(Callees({k})) => k \in C
  BY <1>2
<1> QED
  BY <1>3, <1>5, <1>6, <1>7

\* A new function is called by none of those compiled before it.
LEMMA DefinitionKeepsDescent ==
  ASSUME IInv, CallsDescend, NEW f \in Names, NEW params \in ParamLists, NEW body,
         HandleDefinition(f, params, body), repeated' = {}
  PROVE  CallsDescend'
<1>1. TypeOK /\ Named(f)
  BY DEF IInv, HandleDefinition
<1>2. f \notin named /\ repeated = {} /\ times'[f] \in Nat
  <2>1. times[f] \in Nat /\ times'[f] = times[f] + 1
    BY <1>1, SessionAssumption DEF TypeOK, Named
  <2>2. ~ (times'[f] > 1)
    BY DEF repeated
  <2>3. repeated \subseteq repeated'
    BY <1>1, NamedFacts
  <2> QED
    BY <2>1, <2>2, <2>3 DEF named
<1>3. ~ Duplicate(f)
  BY <1>1, <1>2 DEF Duplicate, TypeOK
<1>4. PICK new : jit' = With(jit, f, new)
  BY <1>3 DEF HandleDefinition
<1>5. /\ DOMAIN jit' = DOMAIN jit \cup {f} /\ f \notin DOMAIN jit
      /\ \A g \in DOMAIN jit : jit'[g] = jit[g]
  BY <1>1, <1>2, <1>4 DEF With, TypeOK
<1>6. \A g \in DOMAIN jit : Callees({g})' = Callees({g}) /\ f \notin Callees({g})
  <2> TAKE g \in DOMAIN jit
  <2>1. Callees({g}) = CalleesOf(jit[g].calls)
    BY DEF Callees
  <2>2. Callees({g})' = CalleesOf(jit'[g].calls)
    BY <1>5 DEF Callees
  <2>3. f \notin CalleesOf(jit[g].calls)
    BY <1>2 DEF IInv, CallsKnown, CalleesOf
  <2> QED
    BY <1>5, <2>1, <2>2, <2>3
<1> SUFFICES ASSUME NEW S \in SUBSET DOMAIN jit', S # {}
             PROVE  \E g \in S : Callees({g})' \cap S \subseteq {g}
  BY DEF CallsDescend
<1>7. CASE S \subseteq {f}
  BY <1>7
<1>8. CASE ~ (S \subseteq {f})
  <2>1. S \ {f} \in SUBSET DOMAIN jit /\ S \ {f} # {}
    BY <1>5, <1>8
  <2>2. PICK g \in S \ {f} : Callees({g}) \cap (S \ {f}) \subseteq {g}
    BY <1>2, <2>1 DEF CallsDescend
  <2>3. Callees({g})' \cap S \subseteq {g}
    BY <1>6, <2>1, <2>2
  <2> QED
    BY <2>2, <2>3
<1> QED
  BY <1>7, <1>8

\* When the compiled functions stay as they are, so does the order.
LEMMA SameKeepsDescent ==
  ASSUME CallsDescend, jit' = jit, repeated' = {} => repeated = {}
  PROVE  CallsDescend'
<1>1. \A S : Callees(S)' = Callees(S)
  BY DEF Callees
<1> QED
  BY <1>1 DEF CallsDescend

\* The inductive invariant behind DivergesBySelfCall.
DescentInv == IInv /\ CallsDescend /\ DivergesBySelfCall

\* A step that is not an evaluation.
LEMMA QuietDescent ==
  ASSUME DescentInv, IInv', jit' = jit, repeated' = {} => repeated = {},
         mode' = "diverged" => mode = "diverged"
  PROVE  DescentInv'
<1>1. CallsDescend'
  BY SameKeepsDescent DEF DescentInv
<1>2. \A S : Callees(S)' = Callees(S)
  BY DEF Callees
<1> QED
  BY <1>1, <1>2 DEF DescentInv, DivergesBySelfCall

\* Every entry of the user keeps it: only a definition adds calls, and those name what
\* was compiled before, the function itself, or what is only declared.
LEMMA NextKeepsDescent == DescentInv /\ [Next]_vars => DescentInv'
<1> SUFFICES ASSUME DescentInv, [Next]_vars PROVE DescentInv'
  OBVIOUS
<1>0. IInv /\ IInv' /\ CallsDescend /\ TypeOK
  BY NextKeepsIInv DEF DescentInv, IInv
<1>1. ASSUME NEW f \in Names, NEW params \in ParamLists, HandleExtern(f, params)
      PROVE  DescentInv'
  <2>1. repeated \subseteq repeated'
    BY <1>0, <1>1, NamedFacts DEF HandleExtern
  <2> QED
    BY <1>0, <1>1, <2>1, QuietDescent DEF HandleExtern
<1>2. ASSUME NEW f \in Names, NEW params \in ParamLists, NEW body \in Bodies,
             HandleDefinition(f, params, body)
      PROVE  DescentInv'
  <2>1. mode' # "diverged"
    BY <1>2 DEF HandleDefinition
  <2>2. CASE repeated' = {}
    BY <1>0, <1>2, <2>1, <2>2, DefinitionKeepsDescent DEF DescentInv, DivergesBySelfCall
  <2>3. CASE repeated' # {}
    BY <1>0, <2>1, <2>3 DEF DescentInv, DivergesBySelfCall, CallsDescend
  <2> QED
    BY <2>2, <2>3
<1>3. ASSUME NEW f \in Names, NEW params \in ParamLists, NEW body \in Bodies,
             DefinitionFails(f, params, body)
      PROVE  DescentInv'
  <2>1. repeated \subseteq repeated'
    BY <1>0, <1>3, NamedFacts DEF DefinitionFails
  <2> QED
    BY <1>0, <1>3, <2>1, QuietDescent DEF DefinitionFails
<1>4. ASSUME NEW body \in Bodies, HandleTopLevelExpression(body)
      PROVE  DescentInv'
  <2>1. /\ jit' = jit /\ times' = times /\ repeated' = repeated
        /\ mode' = "diverged" => mode = "diverged" \/ \E S : Loops(S)
    BY <1>4 DEF HandleTopLevelExpression, repeated
  <2>2. CallsDescend'
    BY <1>0, <2>1, SameKeepsDescent
  <2>3. \A S : Callees(S)' = Callees(S)
    BY <2>1 DEF Callees
  <2>4. DivergesBySelfCall'
    <3> SUFFICES ASSUME mode' = "diverged", repeated = {}
                 PROVE  \E f \in DOMAIN jit : f \in Callees({f})
      BY <2>1, <2>3 DEF DivergesBySelfCall
    <3>1. CASE mode = "diverged"
      BY <3>1 DEF DescentInv, DivergesBySelfCall
    <3>2. CASE \E S : Loops(S)
      BY <1>0, <3>2, LoopsBySelfCall
    <3> QED
      BY <2>1, <3>1, <3>2
  <2> QED
    BY <1>0, <2>2, <2>4 DEF DescentInv
<1>5. CASE UNCHANGED vars
  BY <1>0, <1>5, QuietDescent DEF vars, repeated
<1> QED
  BY <1>1, <1>2, <1>3, <1>4, <1>5 DEF Next

\* With every name given once, FP() (main.cpp 648) does not return only when a compiled
\* function calls itself: mutual recursion needs a second definition.
THEOREM SessionDivergesBySelfCall == Spec => []DivergesBySelfCall
<1>1. Init => DescentInv
  BY InitIInv DEF Init, DescentInv, CallsDescend, DivergesBySelfCall, Empty
<1>2. DescentInv => DivergesBySelfCall
  BY DEF DescentInv
<1> QED
  BY <1>1, <1>2, NextKeepsDescent, PTL DEF Spec

-----------------------------------------------------------------------------
(***************************************************************************)
(* The front end.  The lexer first: what it skips are blanks and closed    *)
(* comments.                                                               *)
(***************************************************************************)

Places == 1..(Len(text) + 1)
IsText == text \in Seq(STRING \ {"EOF", "eof", "identifier", "number", "def", "extern"})

\* What a place can be.
LEMMA PlacesAre ==
  ASSUME IsText
  PROVE  /\ Len(text) \in Nat
         /\ \A p \in Places : p \in Nat /\ p >= 1 /\ p <= Len(text) + 1
         /\ \A p \in 1..Len(text) : p \in Places /\ Char(p) = text[p]
              /\ text[p] \notin {"EOF", "eof", "identifier", "number", "def", "extern"}
         /\ Len(text) + 1 \in Places /\ Char(Len(text) + 1) = "EOF"
         /\ \A p \in Places : p # Len(text) + 1 => p \in 1..Len(text)
         /\ \A p \in Places : Char(p) = "EOF" <=> p = Len(text) + 1
<1>1. Len(text) \in Nat /\ \A p \in 1..Len(text) : text[p] \notin {"EOF", "eof", "identifier", "number", "def", "extern"}
  BY DEF IsText
<1> QED
  BY <1>1 DEF Places, Char

\* A loop that reads on until a character of its own kind comes to the first one, if one
\* comes.
LEMMA FirstPlace ==
  ASSUME IsText, NEW p \in Places, NEW Stops, Stops \subseteq Places,
         \E q \in Stops : q >= p
  PROVE  \E q \in p..(Len(text) + 1) : q \in Stops /\ \A r \in p..(q - 1) : r \notin Stops
<1> DEFINE S == { q \in Stops : q >= p }
<1>1. S \in SUBSET Nat /\ S # {}
  BY PlacesAre
<1>2. PICK q \in S : \A k \in S : q <= k
  BY <1>1, Least
<1> QED
  BY <1>2, PlacesAre

LEMMA AfterIs ==
  ASSUME IsText, NEW p \in Places, NEW S, "EOF" \notin S
  PROVE  /\ After(p, S) \in Places /\ After(p, S) >= p
         /\ Char(After(p, S)) \notin S
         /\ \A r \in p..(After(p, S) - 1) : Char(r) \in S /\ r \in 1..Len(text)
<1> DEFINE Stops == { q \in Places : Char(q) \notin S }
<1>1. Stops \subseteq Places /\ Len(text) + 1 \in Stops /\ Len(text) + 1 >= p
  BY PlacesAre
<1>2. \E q \in p..(Len(text) + 1) : q \in Stops /\ \A r \in p..(q - 1) : r \notin Stops
  <2> HIDE DEF Stops
  <2> QED
    BY <1>1, FirstPlace
<1>3. \E q \in p..(Len(text) + 1) : Char(q) \notin S /\ \A r \in p..(q - 1) : Char(r) \in S
  BY <1>2, PlacesAre DEF Places
<1>4. /\ After(p, S) \in p..(Len(text) + 1)
      /\ Char(After(p, S)) \notin S /\ \A r \in p..(After(p, S) - 1) : Char(r) \in S
  BY <1>3 DEF After
<1> QED
  BY <1>4, PlacesAre DEF Places

LEMMA CommentEndIs ==
  ASSUME IsText, NEW p \in Places
  PROVE  /\ CommentEnd(p) \in Places /\ CommentEnd(p) >= p
         /\ Char(CommentEnd(p)) \in {"newline", "EOF"}
         /\ \A r \in p..(CommentEnd(p) - 1) : Char(r) \notin {"newline", "EOF"} /\ r \in 1..Len(text)
<1> DEFINE Stops == { q \in Places : Char(q) \in {"newline", "EOF"} }
<1>1. Stops \subseteq Places /\ Len(text) + 1 \in Stops /\ Len(text) + 1 >= p
  BY PlacesAre
<1>2. \E q \in p..(Len(text) + 1) : q \in Stops /\ \A r \in p..(q - 1) : r \notin Stops
  <2> HIDE DEF Stops
  <2> QED
    BY <1>1, FirstPlace
<1>3. \E q \in p..(Len(text) + 1) : /\ Char(q) \in {"newline", "EOF"}
                                    /\ \A r \in p..(q - 1) : Char(r) \notin {"newline", "EOF"}
  BY <1>2, PlacesAre DEF Places
<1>4. /\ CommentEnd(p) \in p..(Len(text) + 1)
      /\ Char(CommentEnd(p)) \in {"newline", "EOF"}
      /\ \A r \in p..(CommentEnd(p) - 1) : Char(r) \notin {"newline", "EOF"}
  BY <1>3 DEF CommentEnd
<1> QED
  BY <1>4, PlacesAre DEF Places

-----------------------------------------------------------------------------
\* The function of SkipTo.
Skipped(F, p) ==
  LET q == After(p, Blanks) IN IF Char(q) = "#" THEN F[CommentEnd(q)] ELSE q

IsSkip(S, F) == F = [p \in S |-> Skipped(F, p)]

\* A comment is further on than what stands before it.
LEMMA SkipGoesOn ==
  ASSUME IsText, NEW p \in Places, Char(After(p, Blanks)) = "#"
  PROVE  CommentEnd(After(p, Blanks)) \in Places /\ CommentEnd(After(p, Blanks)) > p
<1> DEFINE q == After(p, Blanks)
<1>1. q \in Places /\ q >= p
  BY AfterIs DEF Blanks
<1>2. Char(q) \notin {"newline", "EOF"}
  OBVIOUS
<1> HIDE DEF q
<1>3. CommentEnd(q) \in Places /\ CommentEnd(q) >= q /\ CommentEnd(q) # q
  BY <1>1, <1>2, CommentEndIs
<1>4. CommentEnd(q) > p
  BY <1>1, <1>3, PlacesAre
<1> QED
  BY <1>3, <1>4 DEF q

LEMMA SkipExists ==
  ASSUME IsText
  PROVE  \E F : IsSkip(Places, F)
<1> DEFINE Near(k) == { p \in Places : Len(text) + 1 - p < k }
           Good(k) == \E F : IsSkip(Near(k), F)
           B == { k \in Nat : ~ Good(k) }
<1>1. Good(0)
  <2>1. Near(0) = {}
    BY PlacesAre
  <2>2. \A F : [p \in {} |-> 0] = [p \in {} |-> Skipped(F, p)]
    OBVIOUS
  <2> QED
    BY <2>1, <2>2 DEF IsSkip
<1>2. ASSUME NEW k \in Nat, Good(k) PROVE Good(k + 1)
  <2>1. PICK F : IsSkip(Near(k), F)
    BY <1>2
  <2> DEFINE E == [p \in Near(k + 1) |-> Skipped(F, p)]
  <2>2. Near(k) \subseteq Near(k + 1)
    BY PlacesAre
  <2>3. \A p \in Near(k) : E[p] = F[p]
    BY <2>1, <2>2 DEF IsSkip
  <2>4. \A p \in Near(k + 1) : Skipped(F, p) = Skipped(E, p)
    <3> SUFFICES ASSUME NEW p \in Near(k + 1), Char(After(p, Blanks)) = "#"
                 PROVE  F[CommentEnd(After(p, Blanks))] = E[CommentEnd(After(p, Blanks))]
      BY DEF Skipped
    <3>1. CommentEnd(After(p, Blanks)) \in Places /\ CommentEnd(After(p, Blanks)) > p
      BY SkipGoesOn
    <3>2. CommentEnd(After(p, Blanks)) \in Near(k)
      BY <3>1, PlacesAre
    <3> QED
      BY <2>3, <3>2
  <2>5. E = [p \in Near(k + 1) |-> Skipped(E, p)]
    BY <2>4
  <2> QED
    BY <2>5 DEF IsSkip
<1> HIDE DEF Good
<1>3. B = {}
  <2> SUFFICES ASSUME B # {} PROVE FALSE
    OBVIOUS
  <2>1. PICK k \in B : \A j \in B : k <= j
    BY Least
  <2>2. k # 0
    BY <1>1, <2>1
  <2>3. k - 1 \in Nat /\ (k - 1) + 1 = k /\ ~ (k <= k - 1)
    BY <2>1, <2>2
  <2>4. Good(k - 1)
    BY <2>1, <2>3
  <2> QED
    BY <1>2, <2>1, <2>3, <2>4
<1>4. Good(Len(text) + 1)
  BY <1>3, PlacesAre
<1>5. Near(Len(text) + 1) = Places
  BY PlacesAre
<1> QED
  BY <1>4, <1>5 DEF Good

\* gettok calls itself after a comment.
LEMMA SkipToIs ==
  ASSUME IsText, NEW p \in Places
  PROVE  SkipTo(p) = IF Char(After(p, Blanks)) = "#" THEN SkipTo(CommentEnd(After(p, Blanks)))
                     ELSE After(p, Blanks)
<1> DEFINE F == CHOOSE f : IsSkip(Places, f)
<1>1. IsSkip(Places, F)
  BY SkipExists
<1>2. \A q : SkipTo(q) = F[q]
  BY DEF SkipTo, IsSkip, Skipped, Places
<1> HIDE DEF F
<1>3. F[p] = Skipped(F, p)
  BY <1>1 DEF IsSkip
<1> QED
  BY <1>2, <1>3 DEF Skipped

-----------------------------------------------------------------------------
\* What holds at a place when it holds at all later ones holds everywhere.
LEMMA Backwards ==
  ASSUME IsText, NEW G,
         \A p \in Places : (\A q \in Places : q > p => q \in G) => p \in G
  PROVE  \A p \in Places : p \in G
<1> DEFINE B == { p \in Places : p \notin G }
           K == { Len(text) + 1 - p : p \in B }
<1> SUFFICES ASSUME B # {} PROVE FALSE
  OBVIOUS
<1>1. K \in SUBSET Nat /\ K # {}
  <2>1. Len(text) \in Nat /\ \A p \in B : p \in Nat /\ p <= Len(text) + 1
    BY PlacesAre
  <2> HIDE DEF B
  <2>2. \A p \in B : Len(text) + 1 - p \in Nat
    BY <2>1
  <2> QED
    BY <2>2
<1>2. PICK k \in K : \A j \in K : k <= j
  BY <1>1, Least
<1>3. PICK p \in B : k = Len(text) + 1 - p
  BY <1>2
<1>4. ASSUME NEW q \in Places, q > p PROVE q \in G
  <2>1. Len(text) + 1 - q < k
    BY <1>3, <1>4, PlacesAre
  <2>2. ~ (k <= Len(text) + 1 - q)
    BY <1>3, <1>4, <2>1, PlacesAre
  <2> QED
    BY <1>2, <2>2
<1> QED
  BY <1>3, <1>4

\* In a comment that begins at L or later.
Hidden(L, p) == \E q \in L..p : text[q] = "#" /\ \A r \in q..p : text[r] # "newline"

\* What gettok skips is blanks and comments, and a comment it leaves has ended.
Skips(p, S) ==
  /\ S \in Places /\ S >= p
  /\ Char(S) \notin Blanks \cup {"#"}
  /\ \A r \in p..(S - 1) : r \in 1..Len(text) /\ (text[r] \in Blanks \/ Hidden(p, r))
  /\ \A q \in p..(S - 1) : text[q] = "#" => S = Len(text) + 1 \/ \E r \in q..(S - 1) : text[r] = "newline"

LEMMA SkipToSkips ==
  ASSUME IsText
  PROVE  \A p \in Places : Skips(p, SkipTo(p))
<1> DEFINE G == { p \in Places : Skips(p, SkipTo(p)) }
<1>1. ASSUME NEW p \in Places, \A q \in Places : q > p => q \in G PROVE p \in G
  <2> DEFINE a == After(p, Blanks)
             c == CommentEnd(a)
             S == SkipTo(p)
  <2>1. /\ a \in Places /\ a >= p /\ Char(a) \notin Blanks
        /\ \A r \in p..(a - 1) : r \in 1..Len(text) /\ text[r] \in Blanks
    BY AfterIs, PlacesAre DEF Blanks
  <2>2. CASE Char(a) # "#"
    <3>1. S = a
      BY <2>2, SkipToIs
    <3>2. \A r \in p..(a - 1) : text[r] # "#"
      BY <2>1 DEF Blanks
    <3> HIDE DEF a, S
    <3>3. Skips(p, S)
      BY <2>1, <2>2, <3>1, <3>2 DEF Skips
    <3> QED
      BY <3>3 DEF S
  <2>3. CASE Char(a) = "#"
    <3>1. S = SkipTo(c) /\ c \in Places /\ c > p
      BY <2>3, SkipToIs, SkipGoesOn
    <3>2. Skips(c, SkipTo(c))
      BY <1>1, <3>1
    <3>3. /\ Char(c) \in {"newline", "EOF"} /\ c >= a
          /\ \A r \in a..(c - 1) : Char(r) \notin {"newline", "EOF"} /\ r \in 1..Len(text)
      BY <2>1, CommentEndIs
    <3> HIDE DEF a, c, S
    <3>4. Skips(c, S) /\ a \in Nat /\ c \in Nat /\ p \in Nat /\ S \in Nat /\ Len(text) \in Nat
      BY <2>1, <3>1, <3>2, PlacesAre DEF Skips
    <3>5. a # Len(text) + 1 /\ a \in 1..Len(text) /\ text[a] = "#" /\ a < c
      BY <2>1, <2>3, <3>3, <3>4, PlacesAre
    <3>6. \A r \in a..(c - 1) : text[r] # "newline" /\ r \in 1..Len(text)
      BY <3>3, PlacesAre
    <3>7. S \in Places /\ S >= p /\ S >= c /\ Char(S) \notin Blanks \cup {"#"}
      BY <3>1, <3>4 DEF Skips
    <3>8. ASSUME NEW r \in p..(S - 1) PROVE r \in 1..Len(text) /\ (text[r] \in Blanks \/ Hidden(p, r))
      <4>1. CASE r < a
        BY <2>1, <3>4, <4>1
      <4>2. CASE a <= r /\ r < c
        <5>1. \A s \in a..r : text[s] # "newline"
          BY <3>4, <3>6, <4>2
        <5>2. a \in p..r
          BY <2>1, <3>4, <4>2
        <5>3. r \in a..(c - 1)
          BY <3>4, <4>2
        <5> QED
          BY <3>5, <3>6, <5>1, <5>2, <5>3 DEF Hidden
      <4>3. CASE c <= r
        <5>1. r \in c..(S - 1)
          BY <3>4, <4>3
        <5>2. \A q \in c..r : q \in p..r
          BY <3>1, <3>4
        <5> QED
          BY <3>4, <5>1, <5>2 DEF Hidden, Skips
      <4> QED
        BY <3>4, <4>1, <4>2, <4>3
    <3>9. ASSUME NEW q \in p..(S - 1), text[q] = "#", S # Len(text) + 1
          PROVE  \E r \in q..(S - 1) : text[r] = "newline"
      <4>1. CASE q < a
        BY <2>1, <3>4, <3>9, <4>1 DEF Blanks
      <4>2. CASE a <= q /\ q < c
        <5>1. c # Len(text) + 1
          BY <3>4, <3>7, <3>9, PlacesAre
        <5>2. text[c] = "newline"
          BY <3>1, <3>3, <5>1, PlacesAre
        <5>3. c # S
          BY <3>1, <3>7, <5>1, <5>2, PlacesAre DEF Blanks
        <5>4. c \in q..(S - 1)
          BY <3>4, <3>7, <4>2, <5>3
        <5> QED
          BY <5>2, <5>4
      <4>3. CASE c <= q
        <5>1. q \in c..(S - 1)
          BY <3>4, <4>3
        <5> QED
          BY <3>4, <3>9, <5>1 DEF Skips
      <4> QED
        BY <3>4, <4>1, <4>2, <4>3
    <3>10. Skips(p, S)
      BY <3>7, <3>8, <3>9 DEF Skips
    <3> QED
      BY <3>10 DEF S
  <2> QED
    BY <2>2, <2>3
<1> HIDE DEF G
<1>2. \A p \in Places : p \in G
  BY <1>1, Backwards
<1> QED
  BY <1>2 DEF G

-----------------------------------------------------------------------------
\* What the property says of a token, but for the order of the tokens.
Reads(tok) ==
  CASE tok.t \in {"identifier", "def", "extern"} ->
         /\ text[tok.from] \in Letters
         /\ \A p \in tok.from..(tok.next - 1) : text[p] \in Letters \cup Digits
         /\ Char(tok.next) \notin Letters \cup (Digits \ {"."})
         /\ tok.t = "identifier" <=> tok.w \notin DOMAIN Keywords
    [] tok.t = "number" ->
         (\A p \in tok.from..(tok.next - 1) : text[p] \in Digits) /\ Char(tok.next) \notin Digits
    [] tok.t = "eof" -> TRUE
    [] OTHER -> tok.w = <<tok.t>>

LEMMA gettokReads ==
  ASSUME IsText, NEW L \in Places
  PROVE  LET tok == gettok(L)
         IN /\ Skips(L, tok.from)
            /\ tok.next \in Places
            /\ tok.t = "eof" => tok.next = tok.from /\ tok.from = Len(text) + 1
            /\ tok.t # "eof" => tok.next > tok.from
            /\ \A p \in tok.from..(tok.next - 1) : p \in 1..Len(text) /\ text[p] \notin Blanks \cup {"#"}
            /\ Reads(tok)
<1> DEFINE S == SkipTo(L)
           tok == gettok(L)
<1>1. Skips(L, S) /\ S \in Places /\ Char(S) \notin Blanks \cup {"#"} /\ S \in Nat /\ Len(text) \in Nat
  BY SkipToSkips, PlacesAre DEF Skips
<1>2. CASE Char(S) \in Letters
  <2> DEFINE Word == Letters \cup (Digits \ {"."})
             q == After(S, Word)
             word == SubSeq(text, S, q - 1)
             t == IF word \in DOMAIN Keywords THEN Keywords[word] ELSE "identifier"
  <2>1. "EOF" \notin Word /\ Char(S) \in Word
    BY <1>2, LexerAssumption
  <2>2. /\ q \in Places /\ q >= S /\ Char(q) \notin Word
        /\ \A r \in S..(q - 1) : Char(r) \in Word /\ r \in 1..Len(text)
    <3> HIDE DEF Word
    <3> QED
      BY <1>1, <2>1, AfterIs
  <2>0. Char(S) \notin Digits /\ Char(S) # "EOF"
    BY <1>2, LexerAssumption
  <2>3. tok = Token(t, S, q)
    BY <1>2, <2>0 DEF gettok
  <2>4. t \in {"identifier", "def", "extern"} /\ (t = "identifier" <=> word \notin DOMAIN Keywords)
    BY LexerAssumption
  <2>5. tok.t = t /\ tok.w = word /\ tok.from = S /\ tok.next = q
    <3> HIDE DEF t, q, tok, S
    <3> QED
      BY <2>3 DEF Token
  <2>6. q # S /\ q \in Nat
    BY <2>1, <2>2, PlacesAre
  <2>7. S \in 1..Len(text) /\ text[S] \in Letters
    <3>1. S # Len(text) + 1
      BY <1>2, LexerAssumption, PlacesAre
    <3> QED
      BY <1>1, <1>2, <3>1, PlacesAre
  <2>8. \A r \in S..(q - 1) : text[r] \in Word /\ r \in 1..Len(text)
    BY <2>2, PlacesAre
  <2>9. \A x \in Word : x \in Letters \cup Digits /\ x \notin Blanks \cup {"#"}
    BY LexerAssumption
  <2>10. Char(q) \notin Letters \cup (Digits \ {"."})
    BY <2>2
  <2> HIDE DEF Word, t, word, q, tok, S
  <2>11. q > S
    BY <1>1, <2>2, <2>6
  <2>12. Reads(tok)
    BY <2>4, <2>5, <2>7, <2>8, <2>9, <2>10 DEF Reads
  <2>13. t # "eof"
    BY <2>4
  <2> QED
    BY <1>1, <2>2, <2>5, <2>8, <2>9, <2>11, <2>12, <2>13 DEF tok
<1>3. CASE Char(S) \notin Letters /\ Char(S) \in Digits
  <2> DEFINE q == After(S, Digits)
  <2>1. "EOF" \notin Digits
    BY LexerAssumption
  <2>2. /\ q \in Places /\ q >= S /\ Char(q) \notin Digits
        /\ \A r \in S..(q - 1) : Char(r) \in Digits /\ r \in 1..Len(text)
    BY <1>1, <2>1, AfterIs
  <2>3. tok = Token("number", S, q)
    BY <1>3, <2>1 DEF gettok
  <2>4. tok.t = "number" /\ tok.from = S /\ tok.next = q
    <3> HIDE DEF q, tok, S
    <3> QED
      BY <2>3 DEF Token
  <2>5. q # S /\ q \in Nat
    BY <1>3, <2>2, PlacesAre
  <2>6. \A r \in S..(q - 1) : text[r] \in Digits /\ r \in 1..Len(text)
    BY <2>2, PlacesAre
  <2>7. \A x \in Digits : x \notin Blanks \cup {"#"}
    BY LexerAssumption
  <2> HIDE DEF q, tok, S
  <2>8. q > S
    BY <1>1, <2>2, <2>5
  <2>9. Reads(tok)
    BY <2>2, <2>4, <2>6 DEF Reads
  <2> QED
    BY <1>1, <2>2, <2>4, <2>6, <2>7, <2>8, <2>9 DEF tok
<1>4. CASE Char(S) = "EOF"
  <2>1. Char(S) \notin Letters /\ Char(S) \notin Digits
    BY <1>4, LexerAssumption
  <2>2. tok = Token("eof", S, S)
    BY <1>4, <2>1 DEF gettok
  <2>3. tok.t = "eof" /\ tok.from = S /\ tok.next = S
    BY <2>2 DEF Token
  <2>4. S = Len(text) + 1
    BY <1>1, <1>4, PlacesAre
  <2> HIDE DEF tok, S
  <2>5. Reads(tok)
    BY <2>3 DEF Reads
  <2> QED
    BY <1>1, <2>3, <2>4, <2>5 DEF tok
<1>5. CASE Char(S) \notin Letters /\ Char(S) \notin Digits /\ Char(S) # "EOF"
  <2>1. tok = Token(Char(S), S, S + 1)
    BY <1>5 DEF gettok
  <2>2. tok.t = Char(S) /\ tok.from = S /\ tok.next = S + 1 /\ tok.w = SubSeq(text, S, (S + 1) - 1)
    <3> HIDE DEF tok, S
    <3> QED
      BY <2>1 DEF Token
  <2>3. S \in 1..Len(text)
    BY <1>1, <1>5, PlacesAre
  <2>4. Char(S) = text[S] /\ text[S] \notin {"EOF", "eof", "identifier", "number", "def", "extern"}
    BY <2>3, PlacesAre
  <2> HIDE DEF tok, S
  <2>5. SubSeq(text, S, (S + 1) - 1) = <<text[S]>>
    <3>1. (S + 1) - 1 = S
      BY <1>1
    <3>2. \A i \in S..S : text[i] \in {text[S]}
      BY <2>3
    <3>3. /\ SubSeq(text, S, S) \in Seq({text[S]}) /\ Len(SubSeq(text, S, S)) = 1
          /\ SubSeq(text, S, S)[1] = text[S]
      <4>1. \A i \in 1..(S - S + 1) : SubSeq(text, S, S)[i] = text[S + i - 1]
        BY <2>3, <3>2, SubSeqProperties
      <4>2. Len(SubSeq(text, S, S)) = S - S + 1 /\ SubSeq(text, S, S) \in Seq({text[S]})
        BY <2>3, <3>2, SubSeqProperties
      <4> QED
        BY <2>3, <4>1, <4>2
    <3>4. SubSeq(text, S, S) = <<text[S]>>
      <4>1. <<text[S]>> \in Seq({text[S]}) /\ Len(<<text[S]>>) = 1 /\ <<text[S]>>[1] = text[S]
        OBVIOUS
      <4>2. \A i \in 1..Len(SubSeq(text, S, S)) : i = 1
        BY <3>3
      <4>3. \A i \in 1..Len(SubSeq(text, S, S)) : SubSeq(text, S, S)[i] = <<text[S]>>[i]
        BY <3>3, <4>1, <4>2
      <4> QED
        BY <3>3, <4>1, <4>3, SeqEqual, Zenon
    <3> QED
      BY <3>1, <3>4
  <2>6. Reads(tok)
    BY <2>2, <2>4, <2>5 DEF Reads
  <2>7. S + 1 \in Places /\ S + 1 > S /\ \A p \in S..((S + 1) - 1) : p = S
    BY <1>1, <2>3 DEF Places
  <2> QED
    BY <1>1, <2>2, <2>3, <2>4, <2>6, <2>7 DEF tok
<1> QED
  BY <1>2, <1>3, <1>4, <1>5

-----------------------------------------------------------------------------
\* The function of Tokens.
Listed(F, L) ==
  LET tok == gettok(L) IN <<tok>> \o IF tok.t = "eof" THEN <<>> ELSE F[tok.next]

IsFrom(S, F) == F = [L \in S |-> Listed(F, L)]

\* gettok goes on in the text, but for its end.
LEMMA gettokGoesOn ==
  ASSUME IsText, NEW L \in Places, gettok(L).t # "eof"
  PROVE  gettok(L).next \in Places /\ gettok(L).next > L
<1> DEFINE tok == gettok(L)
<1>1. Skips(L, tok.from) /\ tok.next \in Places /\ tok.next > tok.from
  BY gettokReads
<1> HIDE DEF tok
<1>2. tok.next > L
  BY <1>1, PlacesAre DEF Skips
<1> QED
  BY <1>1, <1>2 DEF tok

LEMMA FromExists ==
  ASSUME IsText
  PROVE  \E F : IsFrom(Places, F)
<1> DEFINE Near(k) == { L \in Places : Len(text) + 1 - L < k }
           Good(k) == \E F : IsFrom(Near(k), F)
           B == { k \in Nat : ~ Good(k) }
<1>1. Good(0)
  <2>1. Near(0) = {}
    BY PlacesAre
  <2>2. \A F : [L \in {} |-> 0] = [L \in {} |-> Listed(F, L)]
    OBVIOUS
  <2> QED
    BY <2>1, <2>2 DEF IsFrom
<1>2. ASSUME NEW k \in Nat, Good(k) PROVE Good(k + 1)
  <2>1. PICK F : IsFrom(Near(k), F)
    BY <1>2
  <2> DEFINE E == [L \in Near(k + 1) |-> Listed(F, L)]
  <2>2. Near(k) \subseteq Near(k + 1)
    BY PlacesAre
  <2>3. \A L \in Near(k) : E[L] = F[L]
    BY <2>1, <2>2 DEF IsFrom
  <2>4. \A L \in Near(k + 1) : Listed(F, L) = Listed(E, L)
    <3> SUFFICES ASSUME NEW L \in Near(k + 1), gettok(L).t # "eof"
                 PROVE  F[gettok(L).next] = E[gettok(L).next]
      BY DEF Listed
    <3>1. gettok(L).next \in Places /\ gettok(L).next > L
      BY gettokGoesOn
    <3>2. gettok(L).next \in Near(k)
      BY <3>1, PlacesAre
    <3> QED
      BY <2>3, <3>2
  <2>5. E = [L \in Near(k + 1) |-> Listed(E, L)]
    BY <2>4
  <2> QED
    BY <2>5 DEF IsFrom
<1> HIDE DEF Good
<1>3. B = {}
  <2> SUFFICES ASSUME B # {} PROVE FALSE
    OBVIOUS
  <2>1. PICK k \in B : \A j \in B : k <= j
    BY Least
  <2>2. k # 0
    BY <1>1, <2>1
  <2>3. k - 1 \in Nat /\ (k - 1) + 1 = k /\ ~ (k <= k - 1)
    BY <2>1, <2>2
  <2>4. Good(k - 1)
    BY <2>1, <2>3
  <2> QED
    BY <1>2, <2>1, <2>3, <2>4
<1>4. Good(Len(text) + 1)
  BY <1>3, PlacesAre
<1>5. Near(Len(text) + 1) = Places
  BY PlacesAre
<1> QED
  BY <1>4, <1>5 DEF Good

\* The tokens from LastChar on.
From == CHOOSE F : IsFrom(Places, F)

LEMMA FromIs ==
  ASSUME IsText
  PROVE  /\ Tokens = From[1]
         /\ \A L \in Places : From[L] = Listed(From, L)
<1>1. IsFrom(Places, From)
  BY FromExists DEF From
<1>2. Tokens = From[1]
  BY DEF Tokens, From, IsFrom, Listed, Places
<1> QED
  BY <1>1, <1>2 DEF IsFrom

\* One more in front.
LEMMA IsSeqCons ==
  ASSUME NEW s, IsSeq(s), NEW x
  PROVE  /\ IsSeq(<<x>> \o s) /\ Len(s) \in Nat /\ Len(<<x>> \o s) = Len(s) + 1
         /\ (<<x>> \o s)[1] = x
         /\ \A k \in 1..Len(s) : (<<x>> \o s)[k + 1] = s[k]
<1>1. PICK T : s \in Seq(T)
  BY DEF IsSeq
<1> DEFINE U == T \cup {x}
<1>2. s \in Seq(U) /\ <<x>> \in Seq(U) /\ Len(s) \in Nat /\ Len(<<x>>) = 1 /\ <<x>>[1] = x
  BY <1>1
<1> HIDE DEF U
<1>3. /\ <<x>> \o s \in Seq(U)
      /\ Len(<<x>> \o s) = 1 + Len(s)
      /\ \A i \in 1..(1 + Len(s)) : (<<x>> \o s)[i] = IF i <= 1 THEN <<x>>[i] ELSE s[i - 1]
  BY <1>2, ConcatProperties
<1>4. (<<x>> \o s)[1] = x
  BY <1>2, <1>3
<1>5. ASSUME NEW k \in 1..Len(s) PROVE (<<x>> \o s)[k + 1] = s[k]
  <2>1. k + 1 \in 1..(1 + Len(s)) /\ ~ (k + 1 <= 1) /\ (k + 1) - 1 = k
    BY <1>2
  <2> QED
    BY <1>3, <2>1
<1> QED
  BY <1>2, <1>3, <1>4, <1>5 DEF IsSeq

-----------------------------------------------------------------------------
(***************************************************************************)
(* The tokens from a place on are the text from there on.  A character is  *)
(* of a comment, or not, whatever stood before the place: what gettok      *)
(* skips ends before the token it returns, and no token has a "#" in it.   *)
(***************************************************************************)
Covers(L, ts) ==
  \A p \in 1..Len(text) : p >= L =>
    (text[p] \notin Blanks /\ ~ Hidden(L, p) <=> \E k \in 1..Len(ts) : p \in ts[k].from..(ts[k].next - 1))

Ordered(L, ts) ==
  \A k \in 1..Len(ts) :
    /\ ts[k].from \in Places /\ ts[k].next \in Places /\ ts[k].from >= L
    /\ k > 1 => ts[k - 1].next <= ts[k].from
    /\ ts[k].t = "eof" => k = Len(ts)
    /\ Reads(ts[k])

Ends(ts) == Len(ts) >= 1 /\ ts[Len(ts)].t = "eof"

Tells(L, ts) == IsSeq(ts) /\ Covers(L, ts) /\ Ordered(L, ts)

\* One token, up to n, from LastChar on.
LEMMA OneToken ==
  ASSUME IsText, NEW L \in Places, NEW S, Skips(L, S), NEW n \in Places, n >= S, n > S \/ S = Len(text) + 1,
         \A p \in S..(n - 1) : p \in 1..Len(text) /\ text[p] \notin Blanks \cup {"#"},
         NEW p \in 1..Len(text), p >= L
  PROVE  /\ p < S => ~ (text[p] \notin Blanks /\ ~ Hidden(L, p))
         /\ p \in S..(n - 1) => text[p] \notin Blanks /\ ~ Hidden(L, p)
         /\ p >= n => (Hidden(L, p) <=> Hidden(n, p))
<1>0. L \in Nat /\ S \in Nat /\ n \in Nat /\ p \in Nat /\ Len(text) \in Nat /\ S <= Len(text) + 1 /\ S >= L
  BY PlacesAre DEF Skips
<1>1. p < S => ~ (text[p] \notin Blanks /\ ~ Hidden(L, p))
  BY <1>0 DEF Skips
<1>2. ASSUME NEW q \in L..p, text[q] = "#", \A r \in q..p : text[r] # "newline", p >= S
      PROVE  q >= n
  <2>1. q \notin S..(n - 1)
    BY <1>2
  <2>2. CASE q < S
    <3>1. q \in L..(S - 1)
      BY <1>0, <2>2
    <3>2. S # Len(text) + 1
      BY <1>0, <1>2
    <3>3. PICK r \in q..(S - 1) : text[r] = "newline"
      BY <1>2, <3>1, <3>2 DEF Skips
    <3>4. r \in q..p
      BY <1>0, <1>2, <3>3
    <3> QED
      BY <1>2, <3>3, <3>4
  <2> QED
    BY <1>0, <2>1, <2>2
<1>3. ASSUME p \in S..(n - 1) PROVE text[p] \notin Blanks /\ ~ Hidden(L, p)
  <2>1. p >= S /\ p < n
    BY <1>0, <1>3
  <2>2. ~ Hidden(L, p)
    BY <1>0, <1>2, <2>1 DEF Hidden
  <2> QED
    BY <1>3, <2>2
<1>4. ASSUME p >= n PROVE Hidden(L, p) <=> Hidden(n, p)
  <2>1. p >= S
    BY <1>0, <1>4
  <2>2. Hidden(L, p) => Hidden(n, p)
    BY <1>0, <1>2, <2>1 DEF Hidden
  <2>3. \A q \in n..p : q \in L..p
    BY <1>0
  <2> QED
    BY <2>2, <2>3 DEF Hidden
<1> QED
  BY <1>1, <1>3, <1>4

LEMMA FromTells ==
  ASSUME IsText
  PROVE  \A L \in Places : Tells(L, From[L]) /\ Ends(From[L])
<1> DEFINE G == { L \in Places : Tells(L, From[L]) /\ Ends(From[L]) }
<1>1. ASSUME NEW L \in Places, \A q \in Places : q > L => q \in G PROVE L \in G
  <2> DEFINE tok == gettok(L)
             S == tok.from
             n == tok.next
             rest == IF tok.t = "eof" THEN <<>> ELSE From[n]
             ts == <<tok>> \o rest
  <2>1. From[L] = ts
    BY FromIs DEF Listed
  <2>2. /\ Skips(L, S) /\ n \in Places
        /\ tok.t = "eof" => n = S /\ S = Len(text) + 1
        /\ tok.t # "eof" => n > S
        /\ \A p \in S..(n - 1) : p \in 1..Len(text) /\ text[p] \notin Blanks \cup {"#"}
        /\ Reads(tok)
    BY gettokReads
  <2>3. Tells(n, rest)
    <3>1. CASE tok.t = "eof"
      <4>1. rest = <<>> /\ n = Len(text) + 1
        BY <2>2, <3>1
      <4>2. IsSeq(<<>>) /\ Len(<<>>) = 0
        BY DEF IsSeq
      <4> HIDE DEF rest, n, tok
      <4> QED
        BY <4>1, <4>2, PlacesAre DEF Tells, Covers, Ordered
    <3>2. CASE tok.t # "eof"
      <4>1. n \in Places /\ n > L
        BY <3>2, gettokGoesOn
      <4> QED
        BY <1>1, <3>2, <4>1
    <3> QED
      BY <3>1, <3>2
  <2>4. tok.t = "eof" => rest = <<>>
    OBVIOUS
  <2> HIDE DEF rest
  <2>5. /\ IsSeq(ts) /\ Len(rest) \in Nat /\ Len(ts) = Len(rest) + 1 /\ ts[1] = tok
        /\ \A k \in 1..Len(rest) : ts[k + 1] = rest[k]
    BY <2>3, IsSeqCons DEF Tells
  <2> HIDE DEF ts, tok
  <2>6. /\ L \in Nat /\ S \in Nat /\ n \in Nat /\ Len(text) \in Nat
        /\ S \in Places /\ S >= L /\ n >= S /\ (n > S \/ S = Len(text) + 1)
    BY <2>2, PlacesAre DEF Skips
  <2>7. ASSUME NEW k \in 2..Len(ts) PROVE k - 1 \in 1..Len(rest) /\ ts[k] = rest[k - 1] /\ k - 1 \in 1..Len(ts)
    <3>1. k - 1 \in 1..Len(rest) /\ (k - 1) + 1 = k
      BY <2>5
    <3>2. ts[(k - 1) + 1] = rest[k - 1]
      BY <2>5, <3>1
    <3> QED
      BY <2>5, <3>1, <3>2
  <2>8. Ordered(L, ts)
    <3> SUFFICES ASSUME NEW k \in 1..Len(ts)
                 PROVE  /\ ts[k].from \in Places /\ ts[k].next \in Places /\ ts[k].from >= L
                        /\ k > 1 => ts[k - 1].next <= ts[k].from
                        /\ ts[k].t = "eof" => k = Len(ts)
                        /\ Reads(ts[k])
      BY DEF Ordered
    <3>1. CASE k = 1
      <4>1. tok.t = "eof" => Len(ts) = 1
        BY <2>4, <2>5
      <4> QED
        BY <2>2, <2>5, <2>6, <3>1, <4>1
    <3>2. CASE k > 1
      <4>1. k \in 2..Len(ts) /\ k \in Nat
        BY <2>5, <3>2
      <4>2. k - 1 \in 1..Len(rest) /\ ts[k] = rest[k - 1]
        BY <2>7, <4>1
      <4> DEFINE j == k - 1
      <4>3. /\ rest[j].from \in Places /\ rest[j].next \in Places /\ rest[j].from >= n
            /\ j > 1 => rest[j - 1].next <= rest[j].from
            /\ rest[j].t = "eof" => j = Len(rest)
            /\ Reads(rest[j])
        BY <2>3, <4>2 DEF Tells, Ordered
      <4>4. rest[j].from \in Nat
        BY <4>3, PlacesAre
      <4>5. ts[k - 1].next <= ts[k].from
        <5>1. CASE k = 2
          BY <2>5, <2>6, <4>2, <4>3, <4>4, <5>1
        <5>2. CASE k # 2
          <6>1. k - 1 \in 2..Len(ts) /\ j > 1
            BY <2>5, <4>1, <5>2
          <6>2. ts[k - 1] = rest[j - 1]
            BY <2>7, <6>1
          <6> QED
            BY <4>2, <4>3, <6>1, <6>2
        <5> QED
          BY <5>1, <5>2
      <4>6. rest[j].from >= L
        BY <2>6, <4>3, <4>4
      <4>7. ts[k].t = "eof" => k = Len(ts)
        BY <2>5, <4>1, <4>2, <4>3
      <4> QED
        BY <4>2, <4>3, <4>5, <4>6, <4>7
    <3> QED
      BY <2>5, <3>1, <3>2
  <2>9. Covers(L, ts)
    <3> SUFFICES ASSUME NEW p \in 1..Len(text), p >= L
                 PROVE  text[p] \notin Blanks /\ ~ Hidden(L, p) <=>
                          \E k \in 1..Len(ts) : p \in ts[k].from..(ts[k].next - 1)
      BY DEF Covers
    <3>1. /\ p < S => ~ (text[p] \notin Blanks /\ ~ Hidden(L, p))
          /\ p \in S..(n - 1) => text[p] \notin Blanks /\ ~ Hidden(L, p)
          /\ p >= n => (Hidden(L, p) <=> Hidden(n, p))
      BY <2>2, <2>6, OneToken
    <3>2. (\E k \in 1..Len(ts) : p \in ts[k].from..(ts[k].next - 1)) <=>
            p \in S..(n - 1) \/ \E k \in 1..Len(rest) : p \in rest[k].from..(rest[k].next - 1)
      <4>1. \A k \in 1..Len(rest) : k + 1 \in 1..Len(ts)
        BY <2>5
      <4>2. 1 \in 1..Len(ts) /\ \A k \in 1..Len(ts) : k = 1 \/ k \in 2..Len(ts)
        BY <2>5
      <4> QED
        BY <2>5, <2>7, <4>1, <4>2
    <3>3. \A k \in 1..Len(rest) : p \in rest[k].from..(rest[k].next - 1) => p >= n
      <4> SUFFICES ASSUME NEW k \in 1..Len(rest), p \in rest[k].from..(rest[k].next - 1)
                   PROVE  p >= n
        OBVIOUS
      <4>1. rest[k].from \in Places /\ rest[k].next \in Places /\ rest[k].from >= n
        BY <2>3 DEF Tells, Ordered
      <4>2. rest[k].from \in Nat /\ rest[k].next \in Nat
        BY <4>1, PlacesAre
      <4> QED
        BY <2>6, <4>1, <4>2
    <3>4. p >= n => (text[p] \notin Blanks /\ ~ Hidden(n, p) <=>
                       \E k \in 1..Len(rest) : p \in rest[k].from..(rest[k].next - 1))
      BY <2>3 DEF Tells, Covers
    <3>5. p < S \/ p \in S..(n - 1) \/ p >= n
      BY <2>6
    <3>6. p < S => p \notin S..(n - 1) /\ ~ (p >= n)
      BY <2>6
    <3>7. p >= n => p \notin S..(n - 1)
      BY <2>6
    <3> QED
      BY <3>1, <3>2, <3>3, <3>4, <3>5, <3>6, <3>7
  <2>10. Tells(L, ts)
    BY <2>5, <2>8, <2>9 DEF Tells
  <2>11. Ends(ts)
    <3>1. CASE tok.t = "eof"
      BY <2>4, <2>5, <3>1 DEF Ends
    <3>2. CASE tok.t # "eof"
      <4>1. Ends(rest)
        BY <1>1, <3>2, gettokGoesOn DEF rest, tok
      <4>2. Len(rest) \in 1..Len(rest)
        BY <2>5, <4>1 DEF Ends
      <4>3. ts[Len(rest) + 1] = rest[Len(rest)]
        BY <2>5, <4>2
      <4> QED
        BY <2>5, <4>1, <4>3 DEF Ends
    <3> QED
      BY <3>1, <3>2
  <2> QED
    BY <2>1, <2>10, <2>11
<1> HIDE DEF G
<1>2. \A L \in Places : L \in G
  BY <1>1, Backwards
<1> QED
  BY <1>2 DEF G

\* The tokens are the text: every character that is neither blank nor in a comment is of
\* exactly one token, in the order of the text, and words and numbers end where gettok's
\* loops over isalnum and over digits and points end.
LEMMA TextTold ==
  ASSUME IsText, tokens = Tokens
  PROVE  TokensAreTheText
<1>1. Tells(1, tokens)
  BY FromTells, FromIs, PlacesAre DEF Places
<1>2. DOMAIN tokens = 1..Len(tokens) /\ Len(tokens) \in Nat
  BY <1>1 DEF Tells, IsSeq
<1> DEFINE Code == { p \in 1..Len(text) : text[p] \notin Blanks /\ ~ InComment(p) }
           Of(tok) == tok.from..(tok.next - 1)
<1>3. \A p \in 1..Len(text) : InComment(p) <=> Hidden(1, p)
  BY DEF InComment, Hidden
<1>4. \A p \in 1..Len(text) : p \in Code <=> \E k \in 1..Len(tokens) : p \in Of(tokens[k])
  BY <1>1, <1>3 DEF Tells, Covers
<1>5. \A k \in 1..Len(tokens) : Of(tokens[k]) \subseteq 1..Len(text)
  <2> TAKE k \in 1..Len(tokens)
  <2>1. tokens[k].from \in Places /\ tokens[k].next \in Places
    BY <1>1 DEF Tells, Ordered
  <2> QED
    BY <2>1, PlacesAre
<1>6. Code = UNION { Of(tok) : tok \in ToSet(tokens) }
  <2>1. Code \subseteq 1..Len(text)
    OBVIOUS
  <2> HIDE DEF Code, Of
  <2> QED
    BY <1>2, <1>4, <1>5, <2>1, SMTT(20), ZenonT(30) DEF ToSet
<1>7. ASSUME NEW k \in DOMAIN tokens
      PROVE  LET tok == tokens[k]
             IN /\ k > 1 => tokens[k - 1].next <= tok.from
                /\ CASE tok.t \in {"identifier", "def", "extern"} ->
                          /\ text[tok.from] \in Letters
                          /\ \A p \in Of(tok) : text[p] \in Letters \cup Digits
                          /\ Char(tok.next) \notin Letters \cup (Digits \ {"."})
                          /\ tok.t = "identifier" <=> tok.w \notin DOMAIN Keywords
                     [] tok.t = "number" ->
                          (\A p \in Of(tok) : text[p] \in Digits) /\ Char(tok.next) \notin Digits
                     [] tok.t = "eof" -> k = Len(tokens)
                     [] OTHER -> tok.w = <<tok.t>>
  <2>1. /\ k > 1 => tokens[k - 1].next <= tokens[k].from
        /\ tokens[k].t = "eof" => k = Len(tokens)
        /\ Reads(tokens[k])
    BY <1>1, <1>2 DEF Tells, Ordered
  <2> DEFINE tok == tokens[k]
  <2> HIDE DEF tok
  <2>2. Reads(tok) /\ (tok.t = "eof" => k = Len(tokens))
    BY <2>1 DEF tok
  <2>3. CASE tok.t \in {"identifier", "def", "extern"}
    BY <2>1, <2>2, <2>3 DEF Reads, tok
  <2>4. CASE tok.t = "number"
    BY <2>1, <2>2, <2>4 DEF Reads, tok
  <2>5. CASE tok.t = "eof"
    BY <2>1, <2>2, <2>5 DEF Reads, tok
  <2>6. CASE tok.t \notin {"identifier", "def", "extern", "number", "eof"}
    BY <2>1, <2>2, <2>6 DEF Reads, tok
  <2> QED
    BY <2>3, <2>4, <2>5, <2>6
<1> QED
  BY <1>6, <1>7 DEF TokensAreTheText

\* The tokens, for the parser: there is a first one, and the last one alone is tok_eof.
Tokened ==
  /\ Len(tokens) \in Nat \ {0}
  /\ DOMAIN tokens = 1..Len(tokens)
  /\ \A k \in 1..Len(tokens) : tokens[k].t = "eof" <=> k = Len(tokens)

LEMMA TextTokened ==
  ASSUME IsText, tokens = Tokens
  PROVE  Tokened
<1>1. Tells(1, tokens) /\ Ends(tokens)
  BY FromTells, FromIs, PlacesAre DEF Places
<1>2. DOMAIN tokens = 1..Len(tokens) /\ Len(tokens) \in Nat
  BY <1>1 DEF Tells, IsSeq
<1>3. Len(tokens) \in 1..Len(tokens) /\ tokens[Len(tokens)].t = "eof"
  BY <1>1, <1>2 DEF Ends
<1>4. \A k \in 1..Len(tokens) : tokens[k].t = "eof" => k = Len(tokens)
  BY <1>1 DEF Tells, Ordered
<1> QED
  <2>1. Len(tokens) \in Nat \ {0}
    BY <1>2, <1>3
  <2>2. ASSUME NEW k \in 1..Len(tokens) PROVE tokens[k].t = "eof" <=> k = Len(tokens)
    BY <1>3, <1>4
  <2> QED
    BY <1>2, <2>1, <2>2 DEF Tokened

\* A turn of the loop reads nothing anew, and is recorded.
LEMMA LoopKeeps ==
  ASSUME [MainLoop]_parserVars, IsSeq(turns)
  PROVE  text' = text /\ tokens' = tokens /\ IsSeq(turns') /\ (turns' = <<>> => turns = <<>>)
<1>1. text' = text /\ tokens' = tokens /\ (turns' = turns \/ \E e : turns' = Append(turns, e))
  <2>1. CASE MainLoop
    BY <2>1 DEF MainLoop, SemicolonTurn, DefinitionTurn, ExternTurn, ExpressionTurn, Return, Handle, Turn
  <2> QED
    BY <2>1 DEF parserVars
<1>2. CASE turns' = turns
  BY <1>1, <1>2
<1>3. ASSUME NEW e, turns' = Append(turns, e) PROVE IsSeq(turns') /\ turns' # <<>>
  <2>1. IsSeq(turns') /\ Len(turns') = Len(turns) + 1 /\ Len(turns) \in Nat
    BY <1>3, IsSeqAppend
  <2> QED
    BY <2>1
<1> QED
  BY <1>1, <1>2, <1>3

\* gettok returns the text, whatever the text: every character that is neither blank nor
\* in a comment belongs to exactly one token, in order, and words and numbers are as long
\* as they can be.
THEOREM KaleidoscopeTokensAreTheText == ParserSpec => []TokensAreTheText
<1> DEFINE Told == TokensAreTheText /\ IsSeq(turns)
<1>1. ParserInit => Told
  <2> SUFFICES ASSUME ParserInit PROVE Told
    OBVIOUS
  <2>1. IsText /\ tokens = Tokens
    BY LexerAssumption DEF ParserInit, IsText
  <2>2. IsSeq(turns)
    BY DEF ParserInit, IsSeq
  <2> QED
    BY <2>1, <2>2, TextTold
<1>2. Told /\ [MainLoop]_parserVars => Told'
  <2> SUFFICES ASSUME Told, [MainLoop]_parserVars PROVE Told'
    OBVIOUS
  <2>1. text' = text /\ tokens' = tokens /\ IsSeq(turns') /\ (turns' = <<>> => turns = <<>>)
    BY LoopKeeps
  <2>2. TokensAreTheText'
    BY <2>1 DEF TokensAreTheText, InComment, Char
  <2>3. (IsSeq(turns))'
    BY <2>1 DEF IsSeq
  <2> QED
    BY <2>2, <2>3
<1>3. Told => TokensAreTheText
  OBVIOUS
<1> HIDE DEF Told
<1> QED
  BY <1>1, <1>2, <1>3, PTL DEF ParserSpec

-----------------------------------------------------------------------------
(***************************************************************************)
(* The recursion of the parser.  A call goes on behind its token, but for  *)
(* an expression, which begins with a primary, and arguments, which begin  *)
(* with an expression: so the calls have a measure that falls.             *)
(***************************************************************************)
Rank(function) == CASE function = "arguments" -> 2 [] function = "expression" -> 1 [] OTHER -> 0

Far(call) == 3 * (Len(tokens) - call[3]) + Rank(call[1])

NoSemicolon(i, j) == \A k \in i..(j - 1) : tokens[k].t # ";"

LEMMA NoSemicolonIs ==
  ASSUME NEW i \in Int
  PROVE  /\ NoSemicolon(i, i)
         /\ tokens[i].t # ";" => NoSemicolon(i, i + 1)
<1>1. \A k \in i..(i - 1) : FALSE
  OBVIOUS
<1>2. \A k \in i..((i + 1) - 1) : k = i
  OBVIOUS
<1> QED
  BY <1>1, <1>2 DEF NoSemicolon

LEMMA NoSemicolonJoin ==
  ASSUME NEW i \in Int, NEW j \in Int, NEW k \in Int, NoSemicolon(i, j), NoSemicolon(j, k)
  PROVE  NoSemicolon(i, k)
<1> SUFFICES ASSUME NEW l \in i..(k - 1) PROVE tokens[l].t # ";"
  BY DEF NoSemicolon
<1>1. l \in i..(j - 1) \/ l \in j..(k - 1)
  OBVIOUS
<1> QED
  BY <1>1 DEF NoSemicolon

LEMMA ResultIs ==
  ASSUME NEW tree, NEW cur
  PROVE  /\ Ok(tree, cur).ok = TRUE
         /\ Ok(tree, cur).tree = tree /\ Ok(tree, cur).cur = cur
         /\ Fail(cur).ok = FALSE /\ Fail(cur).cur = cur
BY DEF Ok, Fail

\* Where the call of a function can end: behind its first token when it read something,
\* and a semicolon is not among what it has read.
ParserEnds(function, i, r) ==
  /\ r.cur \in 1..Len(tokens) /\ r.cur >= i
  /\ r.ok \in BOOLEAN
  /\ r.ok /\ function # "binoprhs" => r.cur > i
  /\ r.ok /\ function \in {"binoprhs", "arguments"} => IsSeq(r.tree)
  /\ NoSemicolon(i, r.cur)

ParserFunctions == {"primary", "binoprhs", "expression", "arguments"}

LEMMA CallIs ==
  ASSUME Tokened
  PROVE  /\ \A f \in ParserFunctions : \A q \in 0..41 : \A i \in 1..Len(tokens) :
              LET call == <<f, q, i>>
              IN /\ call \in ParseCalls /\ call[1] = f /\ call[2] = q /\ call[3] = i
                 /\ Far(call) = 3 * (Len(tokens) - i) + Rank(f)
         /\ \A call \in ParseCalls : /\ call[1] \in ParserFunctions /\ call[2] \in 0..41 /\ call[3] \in 1..Len(tokens)
                                     /\ call = <<call[1], call[2], call[3]>>
                                     /\ Far(call) \in 0..(3 * Len(tokens) + 2)
<1>1. Len(tokens) \in Nat \ {0} /\ DOMAIN tokens = 1..Len(tokens)
  BY DEF Tokened
<1>2. ASSUME NEW f \in ParserFunctions, NEW q \in 0..41, NEW i \in 1..Len(tokens)
      PROVE  /\ <<f, q, i>> \in ParseCalls
             /\ Far(<<f, q, i>>) = 3 * (Len(tokens) - i) + Rank(f)
  BY <1>1 DEF ParseCalls, Far, ParserFunctions
<1>3. ASSUME NEW call \in ParseCalls
      PROVE  /\ call[1] \in ParserFunctions /\ call[2] \in 0..41 /\ call[3] \in 1..Len(tokens)
             /\ call = <<call[1], call[2], call[3]>>
  BY <1>1, <1>3 DEF ParseCalls, ParserFunctions
<1>4. ASSUME NEW call \in ParseCalls PROVE Far(call) \in 0..(3 * Len(tokens) + 2)
  <2>1. Rank(call[1]) \in 0..2
    BY DEF Rank
  <2> QED
    BY <1>1, <1>3, <2>1 DEF Far
<1> QED
  BY <1>2, <1>3, <1>4

\* The tokens in reach of one that is not the last.
LEMMA NextIs ==
  ASSUME Tokened, NEW i \in 1..Len(tokens)
  PROVE  /\ getNextToken(i) \in 1..Len(tokens) /\ i \in Nat
         /\ tokens[i].t # "eof" => getNextToken(i) = i + 1 /\ i < Len(tokens) /\ i + 1 \in 1..Len(tokens)
         /\ tokens[i].t = "eof" => getNextToken(i) = i
<1>1. Len(tokens) \in Nat \ {0} /\ (tokens[i].t = "eof" <=> i = Len(tokens))
  BY DEF Tokened
<1>2. i \in Nat /\ i >= 1 /\ i <= Len(tokens)
  BY <1>1
<1>3. CASE tokens[i].t = "eof"
  BY <1>1, <1>2, <1>3 DEF getNextToken
<1>4. CASE tokens[i].t # "eof"
  <2>1. i # Len(tokens)
    BY <1>1, <1>4
  <2>2. i < Len(tokens) /\ i + 1 \in 1..Len(tokens)
    BY <1>1, <1>2, <2>1
  <2> QED
    BY <1>2, <1>4, <2>2 DEF getNextToken
<1> QED
  BY <1>3, <1>4

LEMMA PrecedenceIs ==
  ASSUME NEW i
  PROVE  /\ GetTokPrecedence(i) \in {-1, 10, 20, 40}
         /\ GetTokPrecedence(i) = 10 <=> tokens[i].t = "<"
         /\ GetTokPrecedence(i) = 20 <=> tokens[i].t \in {"+", "-"}
         /\ GetTokPrecedence(i) = 40 <=> tokens[i].t = "*"
         /\ GetTokPrecedence(i) = -1 <=> tokens[i].t \notin {"<", "+", "-", "*"}
<1> DEFINE t == tokens[i].t
<1>1. DOMAIN BinopPrecedence = {"<", "+", "-", "*"}
  BY DEF BinopPrecedence
<1>2. BinopPrecedence["<"] = 10 /\ BinopPrecedence["*"] = 40 /\ BinopPrecedence["+"] = 20 /\ BinopPrecedence["-"] = 20
  BY DEF BinopPrecedence
<1>3. GetTokPrecedence(i) = IF t \in {"<", "+", "-", "*"} THEN BinopPrecedence[t] ELSE -1
  BY <1>1 DEF GetTokPrecedence
<1> HIDE DEF t
<1>4. CASE t = "<"
  BY <1>2, <1>3, <1>4 DEF t
<1>5. CASE t \in {"+", "-"}
  BY <1>2, <1>3, <1>5 DEF t
<1>6. CASE t = "*"
  BY <1>2, <1>3, <1>6 DEF t
<1>7. CASE t \notin {"<", "+", "-", "*"}
  BY <1>3, <1>7 DEF t
<1> QED
  BY <1>4, <1>5, <1>6, <1>7

-----------------------------------------------------------------------------
\* P and Q have the same results for the calls of a measure below m, and those end well.
Known(P, Q, m) ==
  \A call \in ParseCalls : Far(call) < m => P[call] = Q[call] /\ ParserEnds(call[1], call[3], P[call])

\* The calls at i of a lower rank than this one, and all behind it.
Before(P, Q, i, rank) == Known(P, Q, 3 * (Len(tokens) - i) + rank)

LEMMA KnownCall ==
  ASSUME Tokened, NEW P, NEW Q, NEW m, Known(P, Q, m),
         NEW f \in ParserFunctions, NEW q \in 0..41, NEW i \in 1..Len(tokens),
         3 * (Len(tokens) - i) + Rank(f) < m
  PROVE  P[<<f, q, i>>] = Q[<<f, q, i>>] /\ ParserEnds(f, i, P[<<f, q, i>>])
<1> DEFINE call == <<f, q, i>>
<1>1. call \in ParseCalls /\ call[1] = f /\ call[3] = i /\ Far(call) < m
  BY CallIs
<1> HIDE DEF call
<1>2. P[call] = Q[call] /\ ParserEnds(f, i, P[call])
  BY <1>1 DEF Known
<1> QED
  BY <1>2 DEF call

LEMMA Nearer ==
  ASSUME NEW n \in Int, NEW i \in Int, NEW j \in Int, NEW a \in Int, NEW b \in Int,
         a >= 0, a <= 2, b >= 0, b <= 2
  PROVE  /\ j > i => 3 * (n - j) + a < 3 * (n - i) + b
         /\ a < b => 3 * (n - i) + a < 3 * (n - i) + b
OBVIOUS

LEMMA RankIs ==
  /\ \A f : Rank(f) \in Int /\ Rank(f) >= 0 /\ Rank(f) <= 2
  /\ Rank("primary") = 0 /\ Rank("binoprhs") = 0 /\ Rank("expression") = 1 /\ Rank("arguments") = 2
BY DEF Rank

LEMMA PlaceIs ==
  ASSUME Tokened, NEW i \in 1..Len(tokens)
  PROVE  i \in Int /\ Len(tokens) \in Int /\ i >= 1 /\ i <= Len(tokens)
BY DEF Tokened

\* The call has one result, and it ends well.
Settled(P, Q, f, q, j) == P[<<f, q, j>>] = Q[<<f, q, j>>] /\ ParserEnds(f, j, P[<<f, q, j>>])

\* The calls behind a token are nearer than any at it.
LEMMA LaterCall ==
  ASSUME Tokened, NEW P, NEW Q, NEW i \in 1..Len(tokens), NEW rank \in {0, 1, 2},
         Before(P, Q, i, rank),
         NEW f \in ParserFunctions, NEW q \in 0..41, NEW j \in 1..Len(tokens),
         j > i \/ (j = i /\ Rank(f) < rank)
  PROVE  Settled(P, Q, f, q, j)
<1>1. Rank(f) \in Int /\ Rank(f) >= 0 /\ Rank(f) <= 2
  BY RankIs
<1>2. 3 * (Len(tokens) - j) + Rank(f) < 3 * (Len(tokens) - i) + rank
  <2>0. rank \in Int /\ rank >= 0 /\ rank <= 2
    OBVIOUS
  <2>1. i \in Int /\ j \in Int /\ Len(tokens) \in Int
    BY PlaceIs
  <2> QED
    BY <1>1, <2>0, <2>1, Nearer
<1> QED
  BY <1>2, KnownCall DEF Before, Settled

LEMMA ExpressionAgrees ==
  ASSUME Tokened, NEW P, NEW Q, NEW i \in 1..Len(tokens), Before(P, Q, i, 1)
  PROVE  ParseExpression(P, i) = ParseExpression(Q, i) /\ ParserEnds("expression", i, ParseExpression(P, i))
<1> DEFINE lhs == P[<<"primary", 0, i>>]
           rhs == P[<<"binoprhs", 0, lhs.cur>>]
           r == ParseExpression(P, i)
<1>0. /\ i \in Int /\ Len(tokens) \in Int /\ 0 \in 0..41 /\ 0 \in {0, 1, 2} /\ 1 \in {0, 1, 2} /\ 2 \in {0, 1, 2}
      /\ "primary" \in ParserFunctions /\ "binoprhs" \in ParserFunctions
      /\ "expression" \in ParserFunctions /\ "arguments" \in ParserFunctions
  BY PlaceIs DEF ParserFunctions
<1>1. lhs = Q[<<"primary", 0, i>>] /\ ParserEnds("primary", i, lhs)
  <2>1. Settled(P, Q, "primary", 0, i)
    BY <1>0, RankIs, LaterCall
  <2> QED
    BY <2>1 DEF Settled
<1>2. CASE ~ lhs.ok
  <2>1. r = lhs /\ ParseExpression(Q, i) = lhs
    BY <1>1, <1>2 DEF ParseExpression
  <2> HIDE DEF r, lhs
  <2>2. ParserEnds("expression", i, lhs)
    BY <1>1, <1>2 DEF ParserEnds
  <2> QED
    BY <2>1, <2>2 DEF r
<1>3. CASE lhs.ok
  <2>1. lhs.cur \in 1..Len(tokens) /\ lhs.cur > i /\ lhs.cur \in Int /\ NoSemicolon(i, lhs.cur)
    <3> HIDE DEF lhs
    <3> QED
      BY <1>1, <1>3, PlaceIs DEF ParserEnds
  <2>2. rhs = Q[<<"binoprhs", 0, lhs.cur>>] /\ ParserEnds("binoprhs", lhs.cur, rhs)
    <3> HIDE DEF lhs
    <3>1. Settled(P, Q, "binoprhs", 0, lhs.cur)
      BY <1>0, <2>1, LaterCall
    <3> QED
      BY <3>1 DEF Settled
  <2>3. r = IF ~ rhs.ok THEN rhs ELSE Ok(Merge(lhs.tree, rhs.tree), rhs.cur)
    BY <1>3 DEF ParseExpression
  <2>4. ParseExpression(Q, i) = IF ~ rhs.ok THEN rhs ELSE Ok(Merge(lhs.tree, rhs.tree), rhs.cur)
    BY <1>1, <1>3, <2>2 DEF ParseExpression
  <2> HIDE DEF lhs, rhs, r
  <2>5. r.cur = rhs.cur /\ r.ok \in BOOLEAN
    BY <2>2, <2>3 DEF ParserEnds, Ok, Fail
  <2>6. rhs.cur \in 1..Len(tokens) /\ rhs.cur >= lhs.cur /\ rhs.cur \in Int /\ NoSemicolon(lhs.cur, rhs.cur)
    BY <2>2, PlaceIs DEF ParserEnds
  <2>7. NoSemicolon(i, rhs.cur) /\ rhs.cur > i
    BY <1>0, <2>1, <2>6, NoSemicolonJoin
  <2>8. ParserEnds("expression", i, r)
    BY <1>0, <2>5, <2>6, <2>7 DEF ParserEnds
  <2> QED
    BY <2>3, <2>4, <2>8 DEF r
<1> QED
  BY <1>2, <1>3

LEMMA ArgumentsAgree ==
  ASSUME Tokened, NEW P, NEW Q, NEW i \in 1..Len(tokens), Before(P, Q, i, 2)
  PROVE  ParseArguments(P, i) = ParseArguments(Q, i) /\ ParserEnds("arguments", i, ParseArguments(P, i))
<1> DEFINE arg == P[<<"expression", 0, i>>]
           next == getNextToken(arg.cur)
           rest == P[<<"arguments", 0, next>>]
           r == ParseArguments(P, i)
<1>0. /\ i \in Int /\ Len(tokens) \in Int /\ 0 \in 0..41 /\ 0 \in {0, 1, 2} /\ 1 \in {0, 1, 2} /\ 2 \in {0, 1, 2}
      /\ "primary" \in ParserFunctions /\ "binoprhs" \in ParserFunctions
      /\ "expression" \in ParserFunctions /\ "arguments" \in ParserFunctions
  BY PlaceIs DEF ParserFunctions
<1>1. arg = Q[<<"expression", 0, i>>] /\ ParserEnds("expression", i, arg)
  <2>1. Settled(P, Q, "expression", 0, i)
    BY <1>0, RankIs, LaterCall
  <2> QED
    BY <2>1 DEF Settled
<1>2. /\ arg.cur \in 1..Len(tokens) /\ arg.cur >= i /\ arg.cur \in Int /\ NoSemicolon(i, arg.cur)
      /\ arg.ok \in BOOLEAN /\ (arg.ok => arg.cur > i)
  <2> HIDE DEF arg
  <2> QED
    BY <1>1, PlaceIs DEF ParserEnds
<1>3. tokens[arg.cur].t \in {")", ","} => next = arg.cur + 1 /\ next \in 1..Len(tokens) /\ NoSemicolon(arg.cur, next)
  <2> HIDE DEF arg
  <2> QED
    BY <1>2, NextIs, NoSemicolonIs
<1>4. CASE ~ arg.ok
  <2>1. r = arg /\ ParseArguments(Q, i) = arg
    BY <1>1, <1>4 DEF ParseArguments
  <2> HIDE DEF r, arg
  <2>2. ParserEnds("arguments", i, arg)
    BY <1>1, <1>4 DEF ParserEnds
  <2> QED
    BY <2>1, <2>2 DEF r
<1>5. CASE arg.ok /\ tokens[arg.cur].t = ")"
  <2>1. r = Ok(<<arg.tree>>, next) /\ r = ParseArguments(Q, i)
    BY <1>1, <1>5 DEF ParseArguments
  <2>2. IsSeq(<<arg.tree>>)
    <3> HIDE DEF arg
    <3>1. <<arg.tree>> \in Seq({arg.tree})
      OBVIOUS
    <3> QED
      BY <3>1 DEF IsSeq
  <2> HIDE DEF arg, r, next
  <2>3. r.ok = TRUE /\ r.cur = next /\ r.tree = <<arg.tree>>
    BY <2>1 DEF Ok
  <2>4. next > i /\ next >= i /\ next \in 1..Len(tokens) /\ NoSemicolon(i, next)
    <3>1. next \in Int
      BY <1>3, <1>5, PlaceIs
    <3> QED
      BY <1>0, <1>2, <1>3, <1>5, <3>1, NoSemicolonJoin
  <2>5. ParserEnds("arguments", i, r)
    BY <2>2, <2>3, <2>4 DEF ParserEnds
  <2> QED
    BY <2>1, <2>5 DEF r
<1>6. CASE arg.ok /\ tokens[arg.cur].t = ","
  <2>1. next \in 1..Len(tokens) /\ next > i /\ next \in Int /\ NoSemicolon(i, next)
    <3> HIDE DEF arg, next
    <3>1. next = arg.cur + 1 /\ next \in 1..Len(tokens) /\ NoSemicolon(arg.cur, next)
      BY <1>3, <1>6
    <3>2. next \in Int /\ next > i
      BY <1>0, <1>2, <3>1
    <3> QED
      BY <1>0, <1>2, <3>1, <3>2, NoSemicolonJoin
  <2>2. rest = Q[<<"arguments", 0, next>>] /\ ParserEnds("arguments", next, rest)
    <3> HIDE DEF next
    <3>1. Settled(P, Q, "arguments", 0, next)
      BY <1>0, <2>1, LaterCall
    <3> QED
      BY <3>1 DEF Settled
  <2>3. r = IF rest.ok THEN Ok(<<arg.tree>> \o rest.tree, rest.cur) ELSE rest
    BY <1>6 DEF ParseArguments
  <2>4. ParseArguments(Q, i) = IF rest.ok THEN Ok(<<arg.tree>> \o rest.tree, rest.cur) ELSE rest
    BY <1>1, <1>6, <2>2 DEF ParseArguments
  <2> HIDE DEF rest, r, next, arg
  <2>5. rest.ok => IsSeq(<<arg.tree>> \o rest.tree)
    BY <2>2, IsSeqCons DEF ParserEnds
  <2>6. r.ok \in BOOLEAN /\ r.cur = rest.cur /\ (r.ok => IsSeq(r.tree))
    BY <2>2, <2>3, <2>5 DEF ParserEnds, Ok, Fail
  <2>7. rest.cur \in 1..Len(tokens) /\ rest.cur \in Int /\ rest.cur >= next /\ NoSemicolon(next, rest.cur)
    BY <2>2, PlaceIs DEF ParserEnds
  <2>8. rest.cur > i /\ rest.cur >= i /\ NoSemicolon(i, rest.cur)
    BY <1>0, <2>1, <2>7, NoSemicolonJoin
  <2>9. ParserEnds("arguments", i, r)
    BY <2>6, <2>7, <2>8 DEF ParserEnds
  <2> QED
    BY <2>3, <2>4, <2>9 DEF r
<1>7. CASE arg.ok /\ tokens[arg.cur].t \notin {")", ","}
  <2>1. r = Fail(arg.cur) /\ r = ParseArguments(Q, i)
    BY <1>1, <1>7 DEF ParseArguments
  <2> HIDE DEF r, arg
  <2>2. ParserEnds("arguments", i, r)
    BY <1>2, <2>1 DEF ParserEnds, Ok, Fail
  <2> QED
    BY <2>1, <2>2 DEF r
<1> QED
  BY <1>2, <1>4, <1>5, <1>6, <1>7

\* A token that is not the last, nor a semicolon, has one behind it.
LEMMA StepOver ==
  ASSUME Tokened, NEW i \in 1..Len(tokens), tokens[i].t \notin {"eof", ";"}
  PROVE  /\ getNextToken(i) = i + 1 /\ i + 1 \in 1..Len(tokens) /\ i + 1 \in Int /\ i \in Int
         /\ NoSemicolon(i, i + 1)
BY NextIs, PlaceIs, NoSemicolonIs

LEMMA ParenAgrees ==
  ASSUME Tokened, NEW P, NEW Q, NEW i \in 1..Len(tokens), Before(P, Q, i, 0), tokens[i].t = "("
  PROVE  ParseParenExpr(P, i) = ParseParenExpr(Q, i) /\ ParserEnds("primary", i, ParseParenExpr(P, i))
<1> DEFINE v == P[<<"expression", 0, i + 1>>]
           next == getNextToken(v.cur)
           r == ParseParenExpr(P, i)
<1>0. /\ i \in Int /\ 0 \in 0..41 /\ 0 \in {0, 1, 2} /\ "expression" \in ParserFunctions
      /\ getNextToken(i) = i + 1 /\ i + 1 \in 1..Len(tokens) /\ i + 1 \in Int /\ i + 1 > i
      /\ NoSemicolon(i, i + 1)
  <2>1. /\ getNextToken(i) = i + 1 /\ i + 1 \in 1..Len(tokens) /\ i + 1 \in Int /\ i \in Int
        /\ NoSemicolon(i, i + 1)
    BY StepOver
  <2> QED
    BY <2>1 DEF ParserFunctions
<1>1. v = Q[<<"expression", 0, i + 1>>] /\ ParserEnds("expression", i + 1, v)
  <2>1. Settled(P, Q, "expression", 0, i + 1)
    BY <1>0, LaterCall
  <2> QED
    BY <2>1 DEF Settled
<1>2. /\ v.cur \in 1..Len(tokens) /\ v.cur >= i + 1 /\ v.cur \in Int /\ NoSemicolon(i, v.cur)
      /\ v.ok \in BOOLEAN
  <2> HIDE DEF v
  <2>1. /\ v.cur \in 1..Len(tokens) /\ v.cur >= i + 1 /\ v.cur \in Int /\ NoSemicolon(i + 1, v.cur)
        /\ v.ok \in BOOLEAN
    BY <1>1, PlaceIs DEF ParserEnds
  <2> QED
    BY <1>0, <2>1, NoSemicolonJoin
<1>3. CASE ~ v.ok
  <2>1. r = v /\ ParseParenExpr(Q, i) = v
    BY <1>0, <1>1, <1>3 DEF ParseParenExpr
  <2> HIDE DEF r, v
  <2>2. ParserEnds("primary", i, v)
    BY <1>0, <1>2, <1>3 DEF ParserEnds
  <2> QED
    BY <2>1, <2>2 DEF r
<1>4. CASE v.ok /\ tokens[v.cur].t # ")"
  <2>1. r = Fail(v.cur) /\ ParseParenExpr(Q, i) = r
    BY <1>0, <1>1, <1>4 DEF ParseParenExpr
  <2> HIDE DEF r, v
  <2>2. ParserEnds("primary", i, r)
    BY <1>0, <1>2, <2>1 DEF ParserEnds, Fail
  <2> QED
    BY <2>1, <2>2 DEF r
<1>5. CASE v.ok /\ tokens[v.cur].t = ")"
  <2>1. r = Ok(v.tree, next) /\ ParseParenExpr(Q, i) = r
    BY <1>0, <1>1, <1>5 DEF ParseParenExpr
  <2> HIDE DEF r, v
  <2>2. next = v.cur + 1 /\ next \in 1..Len(tokens) /\ next \in Int /\ NoSemicolon(v.cur, next)
    BY <1>2, <1>5, StepOver
  <2> HIDE DEF next
  <2>3. NoSemicolon(i, next)
    BY <1>0, <1>2, <2>2, NoSemicolonJoin
  <2>4. ParserEnds("primary", i, r)
    BY <1>0, <1>2, <2>1, <2>2, <2>3 DEF ParserEnds, Ok
  <2> QED
    BY <2>1, <2>4 DEF r
<1> QED
  BY <1>2, <1>3, <1>4, <1>5

LEMMA IdentifierAgrees ==
  ASSUME Tokened, NEW P, NEW Q, NEW i \in 1..Len(tokens), Before(P, Q, i, 0), tokens[i].t = "identifier"
  PROVE  ParseIdentifierExpr(P, i) = ParseIdentifierExpr(Q, i) /\ ParserEnds("primary", i, ParseIdentifierExpr(P, i))
<1> DEFINE open == i + 1
           first == i + 2
           args == P[<<"arguments", 0, first>>]
           r == ParseIdentifierExpr(P, i)
<1>0. /\ i \in Int /\ 0 \in 0..41 /\ 0 \in {0, 1, 2} /\ "arguments" \in ParserFunctions
      /\ getNextToken(i) = open /\ open \in 1..Len(tokens) /\ open \in Int /\ open > i
      /\ NoSemicolon(i, open)
  <2>1. /\ getNextToken(i) = i + 1 /\ i + 1 \in 1..Len(tokens) /\ i + 1 \in Int /\ i \in Int
        /\ NoSemicolon(i, i + 1)
    BY StepOver
  <2> QED
    BY <2>1 DEF ParserFunctions
<1>1. CASE tokens[open].t # "("
  <2>1. r = Ok(VariableExpr(tokens[i].w), open) /\ ParseIdentifierExpr(Q, i) = r
    BY <1>0, <1>1 DEF ParseIdentifierExpr
  <2> HIDE DEF r, open
  <2>2. ParserEnds("primary", i, r)
    BY <1>0, <2>1 DEF ParserEnds, Ok
  <2> QED
    BY <2>1, <2>2 DEF r
<1>2. CASE tokens[open].t = "("
  <2>1. /\ getNextToken(open) = first /\ first \in 1..Len(tokens) /\ first \in Int /\ first > i
        /\ NoSemicolon(i, first)
    <3>1. /\ getNextToken(open) = open + 1 /\ open + 1 \in 1..Len(tokens) /\ open + 1 \in Int
          /\ NoSemicolon(open, open + 1)
      <4> HIDE DEF open
      <4> QED
        BY <1>0, <1>2, StepOver
    <3>2. open + 1 = first
      BY <1>0
    <3> HIDE DEF open, first
    <3> QED
      BY <1>0, <3>1, <3>2, NoSemicolonJoin
  <2>2. CASE tokens[first].t = ")"
    <3> DEFINE next == i + 3
    <3>1. /\ getNextToken(first) = next /\ next \in 1..Len(tokens) /\ next \in Int
          /\ NoSemicolon(i, next)
      <4>1. /\ getNextToken(first) = first + 1 /\ first + 1 \in 1..Len(tokens) /\ first + 1 \in Int
            /\ NoSemicolon(first, first + 1)
        <5> HIDE DEF first
        <5> QED
          BY <2>1, <2>2, StepOver
      <4>2. first + 1 = next
        BY <1>0
      <4> HIDE DEF first, next
      <4> QED
        BY <1>0, <2>1, <4>1, <4>2, NoSemicolonJoin
    <3>2. r = Ok(CallExpr(tokens[i].w, <<>>), next) /\ ParseIdentifierExpr(Q, i) = r
      BY <1>0, <1>2, <2>1, <2>2, <3>1 DEF ParseIdentifierExpr
    <3>3. next > i
      BY <1>0
    <3> HIDE DEF r, open, first, next
    <3>4. ParserEnds("primary", i, r)
      BY <1>0, <3>1, <3>2, <3>3 DEF ParserEnds, Ok
    <3> QED
      BY <3>2, <3>4 DEF r
  <2>3. CASE tokens[first].t # ")"
    <3>1. args = Q[<<"arguments", 0, first>>] /\ ParserEnds("arguments", first, args)
      <4> HIDE DEF first
      <4>1. Settled(P, Q, "arguments", 0, first)
        BY <1>0, <2>1, LaterCall
      <4> QED
        BY <4>1 DEF Settled
    <3>2. r = IF args.ok THEN Ok(CallExpr(tokens[i].w, args.tree), args.cur) ELSE args
      BY <1>0, <1>2, <2>1, <2>3 DEF ParseIdentifierExpr
    <3>3. ParseIdentifierExpr(Q, i) = IF args.ok THEN Ok(CallExpr(tokens[i].w, args.tree), args.cur) ELSE args
      BY <1>0, <1>2, <2>1, <2>3, <3>1 DEF ParseIdentifierExpr
    <3> HIDE DEF r, open, first, args
    <3>4. args.cur \in 1..Len(tokens) /\ args.cur \in Int /\ args.cur >= first /\ NoSemicolon(first, args.cur)
      BY <3>1, PlaceIs DEF ParserEnds
    <3>5. NoSemicolon(i, args.cur) /\ args.cur > i
      BY <1>0, <2>1, <3>4, NoSemicolonJoin
    <3>6. r.ok \in BOOLEAN /\ r.cur = args.cur
      BY <3>1, <3>2 DEF ParserEnds, Ok
    <3>7. ParserEnds("primary", i, r)
      BY <1>0, <3>4, <3>5, <3>6 DEF ParserEnds
    <3> QED
      BY <3>2, <3>3, <3>7 DEF r
  <2> QED
    BY <2>2, <2>3
<1> QED
  BY <1>1, <1>2

LEMMA PrimaryAgrees ==
  ASSUME Tokened, NEW P, NEW Q, NEW i \in 1..Len(tokens), Before(P, Q, i, 0)
  PROVE  ParsePrimary(P, i) = ParsePrimary(Q, i) /\ ParserEnds("primary", i, ParsePrimary(P, i))
<1>1. CASE tokens[i].t = "identifier"
  BY <1>1, IdentifierAgrees DEF ParsePrimary
<1>2. CASE tokens[i].t = "("
  BY <1>2, ParenAgrees DEF ParsePrimary
<1>3. CASE tokens[i].t = "number"
  <2> DEFINE r == Ok(NumberExpr, i + 1)
  <2>1. getNextToken(i) = i + 1 /\ i + 1 \in 1..Len(tokens) /\ i \in Int /\ NoSemicolon(i, i + 1)
    BY <1>3, StepOver
  <2>2. ParsePrimary(P, i) = r /\ ParsePrimary(Q, i) = r
    BY <1>3, <2>1 DEF ParsePrimary
  <2>3. i + 1 > i /\ i + 1 >= i
    BY <2>1
  <2>4. r.ok = TRUE /\ r.cur = i + 1
    BY DEF Ok
  <2> HIDE DEF r
  <2>5. ParserEnds("primary", i, r)
    BY <2>1, <2>3, <2>4 DEF ParserEnds
  <2> QED
    BY <2>2, <2>5
<1>4. CASE tokens[i].t \notin {"identifier", "(", "number"}
  <2>1. ParsePrimary(P, i) = Fail(i) /\ ParsePrimary(Q, i) = Fail(i)
    BY <1>4 DEF ParsePrimary
  <2>2. ParserEnds("primary", i, Fail(i))
    <3>1. i \in Int /\ i >= i /\ NoSemicolon(i, i)
      <4>1. i \in Int
        BY PlaceIs
      <4>2. i >= i
        BY <4>1
      <4>3. NoSemicolon(i, i)
        BY <4>1, NoSemicolonIs
      <4> QED
        BY <4>1, <4>2, <4>3
    <3>2. Fail(i).ok = FALSE /\ Fail(i).cur = i
      BY DEF Fail
    <3> QED
      BY <3>1, <3>2 DEF ParserEnds
  <2> QED
    BY <2>1, <2>2
<1> QED
  BY <1>1, <1>2, <1>3, <1>4

LEMMA BinOpRHSAgrees ==
  ASSUME Tokened, NEW P, NEW Q, NEW i \in 1..Len(tokens), Before(P, Q, i, 0), NEW q \in 0..41
  PROVE  ParseBinOpRHS(P, q, i) = ParseBinOpRHS(Q, q, i) /\ ParserEnds("binoprhs", i, ParseBinOpRHS(P, q, i))
<1> DEFINE prec == GetTokPrecedence(i)
           primary == P[<<"primary", 0, i + 1>>]
           pending == P[<<"binoprhs", prec + 1, primary.cur>>]
           tighter == Ok(Merge(primary.tree, pending.tree), pending.cur)
           rhs == CASE ~ primary.ok \/ prec >= GetTokPrecedence(primary.cur) -> primary
                    [] OTHER -> IF pending.ok THEN tighter ELSE pending
           rest == P[<<"binoprhs", q, rhs.cur>>]
           operand == [op |-> tokens[i].t, rhs |-> rhs.tree]
           r == ParseBinOpRHS(P, q, i)
<1>0. i \in Int /\ q \in Int /\ q >= 0 /\ prec \in {-1, 10, 20, 40}
  <2>1. i \in Int
    BY PlaceIs
  <2>2. prec \in {-1, 10, 20, 40}
    BY PrecedenceIs
  <2> HIDE DEF prec
  <2> QED
    BY <2>1, <2>2
<1>1. CASE prec < q
  <2>1. r = Ok(<<>>, i) /\ ParseBinOpRHS(Q, q, i) = r
    <3>1. ~ (prec >= q)
      BY <1>0, <1>1
    <3> QED
      BY <1>1, <3>1 DEF ParseBinOpRHS
  <2>2. IsSeq(<<>>)
    BY DEF IsSeq
  <2> HIDE DEF r
  <2>3. ParserEnds("binoprhs", i, r)
    <3>1. i >= i /\ NoSemicolon(i, i)
      <4>1. i >= i
        BY <1>0
      <4>2. NoSemicolon(i, i)
        BY <1>0, NoSemicolonIs
      <4> QED
        BY <4>1, <4>2
    <3>2. r.ok = TRUE /\ r.cur = i /\ r.tree = <<>>
      BY <2>1 DEF Ok
    <3> QED
      BY <2>2, <3>1, <3>2 DEF ParserEnds
  <2> QED
    BY <2>1, <2>3 DEF r
<1>2. CASE prec >= q
  <2>0. /\ getNextToken(i) = i + 1 /\ i + 1 \in 1..Len(tokens) /\ i + 1 \in Int /\ i + 1 > i /\ NoSemicolon(i, i + 1)
        /\ prec \in {10, 20, 40} /\ prec + 1 \in 0..41 /\ ~ (prec < q)
    <3>1. prec \in {10, 20, 40}
      BY <1>0, <1>2
    <3>2. tokens[i].t \in {"<", "+", "-", "*"}
      BY <3>1, PrecedenceIs
    <3>3. prec + 1 \in 0..41 /\ ~ (prec < q)
      <4> HIDE DEF prec
      <4> QED
        BY <1>0, <1>2, <3>1
    <3>4. /\ getNextToken(i) = i + 1 /\ i + 1 \in 1..Len(tokens) /\ i + 1 \in Int /\ i \in Int
          /\ NoSemicolon(i, i + 1)
      BY <3>2, StepOver
    <3>5. i + 1 > i
      BY <1>0
    <3> QED
      BY <3>1, <3>3, <3>4, <3>5
  <2>1. primary = Q[<<"primary", 0, i + 1>>] /\ ParserEnds("primary", i + 1, primary)
    <3>1. "primary" \in ParserFunctions /\ 0 \in 0..41 /\ 0 \in {0, 1, 2}
      BY DEF ParserFunctions
    <3>2. Settled(P, Q, "primary", 0, i + 1)
      BY <2>0, <3>1, LaterCall
    <3> QED
      BY <3>2 DEF Settled
  <2>2. /\ primary.cur \in 1..Len(tokens) /\ primary.cur \in Int /\ primary.cur >= i + 1
        /\ NoSemicolon(i, primary.cur) /\ primary.ok \in BOOLEAN /\ primary.cur > i
    <3> HIDE DEF primary
    <3>1. /\ primary.cur \in 1..Len(tokens) /\ primary.cur \in Int /\ primary.cur >= i + 1
          /\ NoSemicolon(i + 1, primary.cur) /\ primary.ok \in BOOLEAN
      BY <2>1, PlaceIs DEF ParserEnds
    <3> QED
      BY <1>0, <2>0, <3>1, NoSemicolonJoin
  <2>3. pending = Q[<<"binoprhs", prec + 1, primary.cur>>] /\ ParserEnds("binoprhs", primary.cur, pending)
    <3>1. "binoprhs" \in ParserFunctions /\ 0 \in {0, 1, 2}
      BY DEF ParserFunctions
    <3>2. Settled(P, Q, "binoprhs", prec + 1, primary.cur)
      <4> HIDE DEF primary, prec
      <4> QED
        BY <2>0, <2>2, <3>1, LaterCall
    <3> QED
      BY <3>2 DEF Settled
  <2>4. /\ pending.cur \in 1..Len(tokens) /\ pending.cur \in Int /\ pending.cur >= primary.cur
        /\ NoSemicolon(i, pending.cur) /\ pending.ok \in BOOLEAN /\ pending.cur > i
    <3> HIDE DEF pending, primary
    <3>1. /\ pending.cur \in 1..Len(tokens) /\ pending.cur \in Int /\ pending.cur >= primary.cur
          /\ NoSemicolon(primary.cur, pending.cur) /\ pending.ok \in BOOLEAN
      BY <2>3, PlaceIs DEF ParserEnds
    <3> QED
      BY <1>0, <2>2, <3>1, NoSemicolonJoin
  <2>5. /\ rhs.cur \in 1..Len(tokens) /\ rhs.cur \in Int /\ rhs.cur > i
        /\ NoSemicolon(i, rhs.cur) /\ rhs.ok \in BOOLEAN
    <3>1. tighter.cur = pending.cur /\ tighter.ok = TRUE
      BY DEF Ok
    <3> HIDE DEF tighter, pending, primary, prec
    <3> QED
      BY <2>2, <2>4, <3>1
  <2>6. /\ r = CASE ~ rhs.ok -> rhs
                 [] OTHER -> IF rest.ok THEN Ok(<<operand>> \o rest.tree, rest.cur) ELSE rest
    BY <1>2, <2>0 DEF ParseBinOpRHS
  <2> DEFINE rhsQ == CASE ~ primary.ok \/ prec >= GetTokPrecedence(primary.cur) -> primary
                    [] OTHER -> LET p == Q[<<"binoprhs", prec + 1, primary.cur>>]
                                IN IF p.ok THEN Ok(Merge(primary.tree, p.tree), p.cur) ELSE p
             restQ == Q[<<"binoprhs", q, rhs.cur>>]
  <2>7. rhsQ = rhs
    <3> HIDE DEF primary, prec
    <3> QED
      BY <2>3
  <2>8. ParseBinOpRHS(Q, q, i) = CASE ~ rhs.ok -> rhs
                 [] OTHER -> IF restQ.ok THEN Ok(<<operand>> \o restQ.tree, restQ.cur) ELSE restQ
    <3>1. ParseBinOpRHS(Q, q, i) = CASE ~ rhsQ.ok -> rhsQ
                 [] OTHER -> LET more == Q[<<"binoprhs", q, rhsQ.cur>>]
                             IN IF more.ok THEN Ok(<<[op |-> tokens[i].t, rhs |-> rhsQ.tree]>> \o more.tree, more.cur) ELSE more
      BY <1>2, <2>0, <2>1 DEF ParseBinOpRHS
    <3> HIDE DEF rhs, rhsQ
    <3> QED
      BY <2>7, <3>1
  <2> HIDE DEF rhsQ
  <2>9. rest = restQ /\ ParserEnds("binoprhs", rhs.cur, rest)
    <3>1. "binoprhs" \in ParserFunctions /\ 0 \in {0, 1, 2}
      BY DEF ParserFunctions
    <3>2. Settled(P, Q, "binoprhs", q, rhs.cur)
      <4> HIDE DEF rhs
      <4> QED
        BY <2>5, <3>1, LaterCall
    <3> QED
      BY <3>2 DEF Settled
  <2> HIDE DEF rhs
  <2>10. ParseBinOpRHS(Q, q, i) = r
    BY <2>6, <2>8, <2>9
  <2> HIDE DEF rest, restQ, operand, r
  <2>11. CASE ~ rhs.ok
    <3>1. r = rhs
      BY <2>6, <2>11
    <3>2. ParserEnds("binoprhs", i, rhs)
      BY <1>0, <2>5, <2>11 DEF ParserEnds
    <3> QED
      BY <2>10, <3>1, <3>2 DEF r
  <2>12. CASE rhs.ok
    <3>1. r = IF rest.ok THEN Ok(<<operand>> \o rest.tree, rest.cur) ELSE rest
      BY <2>6, <2>12
    <3>2. rest.ok => IsSeq(<<operand>> \o rest.tree)
      BY <2>9, IsSeqCons DEF ParserEnds
    <3>3. r.ok \in BOOLEAN /\ r.cur = rest.cur /\ (r.ok => IsSeq(r.tree))
      BY <2>9, <3>1, <3>2 DEF ParserEnds, Ok
    <3>4. rest.cur \in 1..Len(tokens) /\ rest.cur \in Int /\ rest.cur >= rhs.cur /\ NoSemicolon(rhs.cur, rest.cur)
      BY <2>9, PlaceIs DEF ParserEnds
    <3>5. rest.cur > i /\ rest.cur >= i /\ NoSemicolon(i, rest.cur)
      BY <1>0, <2>5, <3>4, NoSemicolonJoin
    <3>6. ParserEnds("binoprhs", i, r)
      BY <3>3, <3>4, <3>5 DEF ParserEnds
    <3> QED
      BY <2>10, <3>6 DEF r
  <2> QED
    BY <2>11, <2>12
<1> QED
  BY <1>0, <1>1, <1>2

LEMMA ParsedAgrees ==
  ASSUME Tokened, NEW P, NEW Q, NEW call \in ParseCalls, Known(P, Q, Far(call))
  PROVE  /\ Parsed(P, call[1], call[2], call[3]) = Parsed(Q, call[1], call[2], call[3])
         /\ ParserEnds(call[1], call[3], Parsed(P, call[1], call[2], call[3]))
<1> DEFINE f == call[1]
           q == call[2]
           i == call[3]
<1>1. f \in ParserFunctions /\ q \in 0..41 /\ i \in 1..Len(tokens)
  BY CallIs
<1>2. Before(P, Q, i, Rank(f))
  BY DEF Far, Before
<1> HIDE DEF f, q, i
<1>3. CASE f = "primary"
  <2>1. Before(P, Q, i, 0)
    BY <1>2, <1>3, RankIs
  <2> QED
    BY <1>1, <1>3, <2>1, PrimaryAgrees DEF Parsed, f, q, i
<1>4. CASE f = "binoprhs"
  <2>1. Before(P, Q, i, 0)
    BY <1>2, <1>4, RankIs
  <2> QED
    BY <1>1, <1>4, <2>1, BinOpRHSAgrees DEF Parsed, f, q, i
<1>5. CASE f = "expression"
  <2>1. Before(P, Q, i, 1)
    BY <1>2, <1>5, RankIs
  <2> QED
    BY <1>1, <1>5, <2>1, ExpressionAgrees DEF Parsed, f, q, i
<1>6. CASE f = "arguments"
  <2>1. Before(P, Q, i, 2)
    BY <1>2, <1>6, RankIs
  <2> QED
    BY <1>1, <1>6, <2>1, ArgumentsAgree DEF Parsed, f, q, i
<1> QED
  BY <1>1, <1>3, <1>4, <1>5, <1>6 DEF ParserFunctions

IsParse(S, P) == P = [call \in S |-> Parsed(P, call[1], call[2], call[3])]

\* The results of the calls of a measure exist, and so those of all.
LEMMA ParseExists ==
  ASSUME Tokened
  PROVE  \E P : IsParse(ParseCalls, P)
<1> DEFINE Near(k) == { call \in ParseCalls : Far(call) < k }
           Good(k) == \E P : /\ IsParse(Near(k), P)
                             /\ \A call \in Near(k) : ParserEnds(call[1], call[3], P[call])
           B == { k \in Nat : ~ Good(k) }
<1>0. \A call \in ParseCalls : Far(call) \in 0..(3 * Len(tokens) + 2)
  BY CallIs
<1>1. Good(0)
  <2>1. Near(0) = {}
    BY <1>0
  <2>2. \A P : [call \in {} |-> 0] = [call \in {} |-> Parsed(P, call[1], call[2], call[3])]
    OBVIOUS
  <2> QED
    BY <2>1, <2>2 DEF IsParse
<1>2. ASSUME NEW k \in Nat, Good(k) PROVE Good(k + 1)
  <2>1. PICK P : IsParse(Near(k), P) /\ \A call \in Near(k) : ParserEnds(call[1], call[3], P[call])
    BY <1>2
  <2> DEFINE Q == [call \in Near(k + 1) |-> Parsed(P, call[1], call[2], call[3])]
  <2>2. Near(k) \subseteq Near(k + 1)
    BY <1>0
  <2>3. \A call \in Near(k) : Q[call] = P[call]
    BY <2>1, <2>2 DEF IsParse
  <2>4. ASSUME NEW call \in Near(k + 1)
        PROVE  /\ Parsed(P, call[1], call[2], call[3]) = Parsed(Q, call[1], call[2], call[3])
               /\ ParserEnds(call[1], call[3], Parsed(P, call[1], call[2], call[3]))
    <3>1. \A c \in ParseCalls : Far(c) < Far(call) => c \in Near(k)
      BY <1>0
    <3> HIDE DEF Q
    <3>2. Known(P, Q, Far(call))
      BY <2>1, <2>3, <3>1 DEF Known
    <3> QED
      BY <3>2, ParsedAgrees
  <2>5. Q = [call \in Near(k + 1) |-> Parsed(Q, call[1], call[2], call[3])]
    BY <2>4
  <2>6. \A call \in Near(k + 1) : ParserEnds(call[1], call[3], Q[call])
    BY <2>4
  <2> QED
    BY <2>5, <2>6 DEF IsParse
<1> HIDE DEF Good
<1>3. B = {}
  <2> SUFFICES ASSUME B # {} PROVE FALSE
    OBVIOUS
  <2>1. PICK k \in B : \A j \in B : k <= j
    BY Least
  <2>2. k # 0
    BY <1>1, <2>1
  <2>3. k - 1 \in Nat /\ (k - 1) + 1 = k /\ ~ (k <= k - 1)
    BY <2>1, <2>2
  <2>4. Good(k - 1)
    BY <2>1, <2>3
  <2> QED
    BY <1>2, <2>1, <2>3, <2>4
<1>4. Good(3 * Len(tokens) + 3)
  BY <1>3 DEF Tokened
<1>5. Near(3 * Len(tokens) + 3) = ParseCalls
  <2>1. ASSUME NEW call \in ParseCalls PROVE Far(call) < 3 * Len(tokens) + 3
    <3>1. Far(call) \in 0..(3 * Len(tokens) + 2) /\ Len(tokens) \in Nat
      BY <1>0 DEF Tokened
    <3> QED
      BY <3>1
  <2> QED
    BY <2>1
<1> QED
  BY <1>4, <1>5 DEF Good

\* What a function of the parser returns is what its body makes of what its calls return.
LEMMA ParseIs ==
  ASSUME Tokened, NEW f \in ParserFunctions, NEW q \in 0..41, NEW i \in 1..Len(tokens)
  PROVE  Parse[<<f, q, i>>] = Parsed(Parse, f, q, i)
<1>1. IsParse(ParseCalls, Parse)
  BY ParseExists DEF Parse, IsParse
<1>2. <<f, q, i>> \in ParseCalls
  BY CallIs
<1> QED
  BY <1>1, <1>2 DEF IsParse

\* Every call ends well.
LEMMA ParseEnds ==
  ASSUME Tokened, NEW f \in ParserFunctions, NEW q \in 0..41, NEW i \in 1..Len(tokens)
  PROVE  ParserEnds(f, i, Parse[<<f, q, i>>])
<1> DEFINE Bad == { call \in ParseCalls : ~ ParserEnds(call[1], call[3], Parse[call]) }
           K == { Far(call) : call \in Bad }
<1>0. \A call \in ParseCalls : Far(call) \in Nat
  BY CallIs
<1>1. Bad = {}
  <2> SUFFICES ASSUME Bad # {} PROVE FALSE
    OBVIOUS
  <2>1. K \in SUBSET Nat /\ K # {}
    BY <1>0
  <2>2. PICK k \in K : \A j \in K : k <= j
    BY <2>1, Least
  <2>3. PICK call \in Bad : k = Far(call)
    BY <2>2
  <2>4. Known(Parse, Parse, Far(call))
    <3> SUFFICES ASSUME NEW c \in ParseCalls, Far(c) < Far(call), c \in Bad PROVE FALSE
      BY DEF Known
    <3>1. ~ (Far(call) <= Far(c))
      BY <1>0
    <3> QED
      BY <2>2, <2>3, <3>1
  <2>5. ParserEnds(call[1], call[3], Parsed(Parse, call[1], call[2], call[3]))
    BY <2>4, ParsedAgrees
  <2>6. Parse[call] = Parsed(Parse, call[1], call[2], call[3])
    <3>1. IsParse(ParseCalls, Parse)
      BY ParseExists DEF Parse, IsParse
    <3> QED
      BY <3>1 DEF IsParse
  <2> QED
    BY <2>5, <2>6
<1> DEFINE call == <<f, q, i>>
<1>2. call \in ParseCalls /\ call[1] = f /\ call[3] = i
  BY CallIs
<1> HIDE DEF call
<1>3. ParserEnds(call[1], call[3], Parse[call])
  BY <1>1, <1>2
<1> QED
  BY <1>2, <1>3 DEF call

-----------------------------------------------------------------------------
\* The first token behind i that is not an identifier is the last of a prototype.
LEMMA ParametersAre ==
  ASSUME Tokened, NEW i \in 1..Len(tokens), i + 1 \in 1..Len(tokens)
  PROVE  LET args == ParseParameters(i)
         IN /\ args.close \in (i + 1)..Len(tokens)
            /\ tokens[args.close].t # "identifier"
            /\ \A l \in (i + 1)..(args.close - 1) : tokens[l].t = "identifier"
            /\ args.params = [k \in 1..(args.close - i - 1) |-> tokens[i + k].w]
<1> DEFINE S == { k \in (i + 1)..Len(tokens) : tokens[k].t # "identifier" }
           close == CHOOSE k \in (i + 1)..Len(tokens) :
                      /\ tokens[k].t # "identifier"
                      /\ \A l \in (i + 1)..(k - 1) : tokens[l].t = "identifier"
<1>0. i \in Int /\ Len(tokens) \in Nat /\ i >= 1
  BY PlaceIs DEF Tokened
<1>1. S \in SUBSET Nat /\ S # {}
  <2>1. Len(tokens) \in (i + 1)..Len(tokens) /\ Len(tokens) \in 1..Len(tokens)
    BY <1>0
  <2>2. tokens[Len(tokens)].t = "eof"
    BY <2>1 DEF Tokened
  <2> QED
    BY <1>0, <2>1, <2>2
<1>2. PICK m \in S : \A k \in S : m <= k
  BY <1>1, Least
<1>3. \E k \in (i + 1)..Len(tokens) : /\ tokens[k].t # "identifier"
                                     /\ \A l \in (i + 1)..(k - 1) : tokens[l].t = "identifier"
  <2>1. ASSUME NEW l \in (i + 1)..(m - 1) PROVE tokens[l].t = "identifier"
    <3>1. l \in (i + 1)..Len(tokens) /\ ~ (m <= l)
      BY <1>0, <1>2
    <3> QED
      BY <1>2, <3>1
  <2> QED
    BY <1>2, <2>1
<1>4. /\ close \in (i + 1)..Len(tokens)
      /\ tokens[close].t # "identifier"
      /\ \A l \in (i + 1)..(close - 1) : tokens[l].t = "identifier"
  BY <1>3
<1>5. ParseParameters(i) = [params |-> [k \in 1..(close - i - 1) |-> tokens[i + k].w], close |-> close]
  BY DEF ParseParameters
<1> HIDE DEF close
<1> QED
  BY <1>4, <1>5

\* A prototype read from i on: the name, the parenthesis, the parameters up to the other.
LEMMA PrototypeIs ==
  ASSUME Tokened, NEW i \in 1..Len(tokens)
  PROVE  LET r == ParsePrototype(i)
             close == ParseParameters(i + 1).close
         IN /\ ParserEnds("primary", i, r)
            /\ r.ok => /\ tokens[i].t = "identifier" /\ tokens[i + 1].t = "(" /\ i + 1 \in 1..Len(tokens)
                       /\ close \in (i + 2)..Len(tokens) /\ tokens[close].t = ")" /\ r.cur = close + 1
                       /\ \A l \in (i + 2)..(close - 1) : tokens[l].t = "identifier"
                       /\ r.tree = Prototype(tokens[i].w, [k \in 1..(close - (i + 1) - 1) |-> tokens[(i + 1) + k].w])
            /\ (/\ tokens[i].t = "identifier" /\ tokens[i + 1].t = "("
                /\ \E m \in (i + 2)..Len(tokens) : /\ tokens[m].t = ")"
                                                  /\ \A l \in (i + 2)..(m - 1) : tokens[l].t = "identifier")
               => r.ok
<1> DEFINE r == ParsePrototype(i)
           open == i + 1
           args == ParseParameters(open)
           close == args.close
           next == getNextToken(close)
<1>0. i \in Int /\ i >= i /\ NoSemicolon(i, i)
  <2>1. i \in Int
    BY PlaceIs
  <2>2. i >= i
    BY <2>1
  <2> QED
    BY <2>1, <2>2, NoSemicolonIs
<1>1. CASE tokens[i].t # "identifier"
  <2>1. r = Fail(i)
    BY <1>1 DEF ParsePrototype
  <2>2. r.ok = FALSE /\ r.cur = i
    BY <2>1 DEF Fail
  <2> HIDE DEF r
  <2>3. ParserEnds("primary", i, r)
    BY <1>0, <2>2 DEF ParserEnds
  <2> QED
    BY <1>1, <2>2, <2>3 DEF r
<1>2. CASE tokens[i].t = "identifier"
  <2>1. /\ getNextToken(i) = open /\ open \in 1..Len(tokens) /\ open \in Int
        /\ NoSemicolon(i, open)
    BY <1>2, StepOver
  <2>2. open > i /\ open >= i
    BY <1>0
  <2>3. CASE tokens[open].t # "("
    <3>1. r = Fail(open)
      BY <1>2, <2>1, <2>3 DEF ParsePrototype
    <3>2. r.ok = FALSE /\ r.cur = open
      BY <3>1 DEF Fail
    <3> HIDE DEF r
    <3>3. ParserEnds("primary", i, r)
      BY <2>1, <2>2, <3>2 DEF ParserEnds
    <3> QED
      BY <2>3, <3>2, <3>3 DEF r
  <2>4. CASE tokens[open].t = "("
    <3>1. open + 1 \in 1..Len(tokens) /\ open + 1 = i + 2 /\ NoSemicolon(open, open + 1)
      <4>1. open + 1 \in 1..Len(tokens) /\ NoSemicolon(open, open + 1)
        BY <2>1, <2>4, StepOver
      <4> QED
        BY <1>0, <4>1
    <3>2. /\ close \in (i + 2)..Len(tokens)
          /\ tokens[close].t # "identifier"
          /\ \A l \in (i + 2)..(close - 1) : tokens[l].t = "identifier"
          /\ args.params = [k \in 1..(close - open - 1) |-> tokens[open + k].w]
      <4>1. /\ close \in (open + 1)..Len(tokens)
            /\ tokens[close].t # "identifier"
            /\ \A l \in (open + 1)..(close - 1) : tokens[l].t = "identifier"
            /\ args.params = [k \in 1..(close - open - 1) |-> tokens[open + k].w]
        <5> HIDE DEF open
        <5> QED
          BY <2>1, <3>1, ParametersAre
      <4> QED
        BY <3>1, <4>1
    <3> HIDE DEF args
    <3>3. close \in 1..Len(tokens) /\ close \in Int /\ close > i /\ NoSemicolon(i, close)
      <4>1. close \in 1..Len(tokens) /\ close \in Int /\ close > i
        <5> HIDE DEF close
        <5>1. Len(tokens) \in Int
          BY PlaceIs
        <5> QED
          BY <1>0, <3>2, <5>1
      <4>2. ASSUME NEW l \in i..(close - 1) PROVE tokens[l].t # ";"
        <5>1. l = i \/ l = i + 1 \/ l \in (i + 2)..(close - 1)
          BY <1>0, <4>1
        <5> QED
          BY <1>2, <2>4, <3>2, <5>1
      <4> QED
        BY <4>1, <4>2 DEF NoSemicolon
    <3>4. CASE tokens[close].t # ")"
      <4>1. r = Fail(close)
        BY <1>2, <2>1, <2>4, <3>4 DEF ParsePrototype, args
      <4>2. r.ok = FALSE /\ r.cur = close
        BY <4>1 DEF Fail
      <4>3. ASSUME NEW m \in (i + 2)..Len(tokens), tokens[m].t = ")",
                   \A l \in (i + 2)..(m - 1) : tokens[l].t = "identifier"
            PROVE  FALSE
        <5>1. m < close \/ m = close \/ close < m
          BY <3>3
        <5>2. m < close => m \in (i + 2)..(close - 1)
          BY <1>0, <3>3
        <5>3. close < m => close \in (i + 2)..(m - 1)
          BY <1>0, <3>2, <3>3
        <5> QED
          BY <3>2, <3>4, <4>3, <5>1, <5>2, <5>3
      <4> HIDE DEF r, close
      <4>4. ParserEnds("primary", i, r)
        <5>1. close >= i
          BY <1>0, <3>3
        <5> QED
          BY <3>3, <4>2, <5>1 DEF ParserEnds
      <4> QED
        BY <4>2, <4>3, <4>4 DEF r
    <3>5. CASE tokens[close].t = ")"
      <4>1. r = Ok(Prototype(tokens[i].w, args.params), next)
        BY <1>2, <2>1, <2>4, <3>5 DEF ParsePrototype, args
      <4>2. next = close + 1 /\ next \in 1..Len(tokens) /\ next \in Int /\ NoSemicolon(close, next)
        <5> HIDE DEF close
        <5> QED
          BY <3>3, <3>5, StepOver
      <4>3. r.ok = TRUE /\ r.cur = next /\ r.tree = Prototype(tokens[i].w, args.params)
        <5> HIDE DEF r, next
        <5> QED
          BY <4>1 DEF Ok
      <4>4. next > i /\ next >= i /\ NoSemicolon(i, next)
        <5> HIDE DEF close, next
        <5>1. next > i /\ next >= i
          BY <1>0, <3>3, <4>2
        <5> QED
          BY <1>0, <3>3, <4>2, <5>1, NoSemicolonJoin
      <4> HIDE DEF r, next
      <4>5. ParserEnds("primary", i, r)
        BY <4>2, <4>3, <4>4 DEF ParserEnds
      <4> QED
        BY <1>2, <2>1, <2>4, <3>2, <3>5, <4>2, <4>3, <4>5 DEF r, args
    <3> QED
      BY <3>4, <3>5
  <2> QED
    BY <2>3, <2>4
<1> QED
  BY <1>1, <1>2

-----------------------------------------------------------------------------
\* What one item reads.
LEMMA DefinitionEnds ==
  ASSUME Tokened, NEW i \in 1..Len(tokens), tokens[i].t = "def"
  PROVE  ParserEnds("primary", i, ParseDefinition(i))
<1> DEFINE proto == ParsePrototype(i + 1)
           body == Parse[<<"expression", 0, proto.cur>>]
           r == ParseDefinition(i)
<1>1. /\ getNextToken(i) = i + 1 /\ i + 1 \in 1..Len(tokens) /\ i + 1 \in Int /\ i \in Int
      /\ NoSemicolon(i, i + 1) /\ i + 1 > i
  <2>1. /\ getNextToken(i) = i + 1 /\ i + 1 \in 1..Len(tokens) /\ i + 1 \in Int /\ i \in Int
        /\ NoSemicolon(i, i + 1)
    BY StepOver
  <2> QED
    BY <2>1
<1>2. ParserEnds("primary", i + 1, proto)
  BY <1>1, PrototypeIs
<1>3. /\ proto.cur \in 1..Len(tokens) /\ proto.cur \in Int /\ proto.cur > i /\ proto.cur >= i
      /\ NoSemicolon(i, proto.cur) /\ proto.ok \in BOOLEAN
  <2> HIDE DEF proto
  <2>1. /\ proto.cur \in 1..Len(tokens) /\ proto.cur \in Int /\ proto.cur >= i + 1
        /\ NoSemicolon(i + 1, proto.cur) /\ proto.ok \in BOOLEAN
    BY <1>2, PlaceIs DEF ParserEnds
  <2>2. proto.cur > i /\ proto.cur >= i
    BY <1>1, <2>1
  <2> QED
    BY <1>1, <2>1, <2>2, NoSemicolonJoin
<1>4. ParserEnds("expression", proto.cur, body)
  <2> HIDE DEF proto
  <2>1. "expression" \in ParserFunctions /\ 0 \in 0..41
    BY DEF ParserFunctions
  <2> QED
    BY <1>3, <2>1, ParseEnds
<1>5. /\ body.cur \in 1..Len(tokens) /\ body.cur > i /\ body.cur >= i
      /\ NoSemicolon(i, body.cur) /\ body.ok \in BOOLEAN
  <2> HIDE DEF body, proto
  <2>1. /\ body.cur \in 1..Len(tokens) /\ body.cur \in Int /\ body.cur >= proto.cur
        /\ NoSemicolon(proto.cur, body.cur) /\ body.ok \in BOOLEAN
    BY <1>4, PlaceIs DEF ParserEnds
  <2>2. body.cur > i /\ body.cur >= i
    BY <1>1, <1>3, <2>1
  <2> QED
    BY <1>1, <1>3, <2>1, <2>2, NoSemicolonJoin
<1>6. r = IF ~ proto.ok THEN proto ELSE IF ~ body.ok THEN body ELSE Ok(Function(proto.tree, body.tree), body.cur)
  BY <1>1 DEF ParseDefinition
<1> HIDE DEF proto, body, r
<1>7. /\ r.cur \in 1..Len(tokens) /\ r.cur > i /\ r.cur >= i
      /\ NoSemicolon(i, r.cur) /\ r.ok \in BOOLEAN
  <2>1. CASE ~ proto.ok \/ ~ body.ok
    BY <1>3, <1>5, <1>6, <2>1
  <2>2. CASE proto.ok /\ body.ok
    BY <1>5, <1>6, <2>2 DEF Ok
  <2> QED
    BY <2>1, <2>2
<1>8. ParserEnds("primary", i, r)
  BY <1>7 DEF ParserEnds
<1> QED
  BY <1>8 DEF r

LEMMA ExternEnds ==
  ASSUME Tokened, NEW i \in 1..Len(tokens), tokens[i].t = "extern"
  PROVE  ParserEnds("primary", i, ParseExtern(i))
<1> DEFINE r == ParsePrototype(i + 1)
<1>1. /\ getNextToken(i) = i + 1 /\ i + 1 \in 1..Len(tokens) /\ i + 1 \in Int /\ i \in Int
      /\ NoSemicolon(i, i + 1)
  BY StepOver
<1>2. ParserEnds("primary", i + 1, r)
  BY <1>1, PrototypeIs
<1>3. ParseExtern(i) = r
  BY <1>1 DEF ParseExtern
<1> HIDE DEF r
<1>4. /\ r.cur \in 1..Len(tokens) /\ r.cur \in Int /\ r.cur >= i + 1
      /\ NoSemicolon(i + 1, r.cur) /\ r.ok \in BOOLEAN
  BY <1>2, PlaceIs DEF ParserEnds
<1>5. r.cur > i /\ r.cur >= i
  BY <1>1, <1>4
<1>6. NoSemicolon(i, r.cur)
  BY <1>1, <1>4, NoSemicolonJoin
<1>7. ParserEnds("primary", i, r)
  BY <1>4, <1>5, <1>6 DEF ParserEnds
<1> QED
  BY <1>3, <1>7

LEMMA TopLevelEnds ==
  ASSUME Tokened, NEW i \in 1..Len(tokens)
  PROVE  ParserEnds("primary", i, ParseTopLevelExpr(i))
<1> DEFINE e == Parse[<<"expression", 0, i>>]
           r == ParseTopLevelExpr(i)
<1>1. ParserEnds("expression", i, e)
  <2>1. "expression" \in ParserFunctions /\ 0 \in 0..41
    BY DEF ParserFunctions
  <2> QED
    BY <2>1, ParseEnds
<1>2. r = IF e.ok THEN Ok(Anonymous(e.tree), e.cur) ELSE e
  BY DEF ParseTopLevelExpr
<1> HIDE DEF r, e
<1>3. r.cur = e.cur /\ r.ok = e.ok
  <2>1. CASE e.ok
    <3>1. e.ok = TRUE
      BY <1>1, <2>1 DEF ParserEnds
    <3> QED
      BY <1>2, <3>1 DEF Ok
  <2>2. CASE ~ e.ok
    BY <1>2, <2>2
  <2> QED
    BY <2>1, <2>2
<1>4. ParserEnds("primary", i, r)
  BY <1>1, <1>3 DEF ParserEnds
<1> QED
  BY <1>4 DEF r

-----------------------------------------------------------------------------
(***************************************************************************)
(* A turn of the loop: it goes forward, and the last token it goes over is *)
(* the only one that can be a semicolon.                                   *)
(***************************************************************************)
Turned(e) ==
  /\ turns' = Append(turns, e)
  /\ e.from = CurTok /\ e.to = CurTok'
  /\ CurTok' \in 1..Len(tokens) /\ CurTok' > CurTok
  /\ NoSemicolon(CurTok, CurTok' - 1)

LEMMA NoSemicolonLess ==
  ASSUME NEW i \in Int, NEW j \in Int, NoSemicolon(i, j)
  PROVE  NoSemicolon(i, j - 1)
<1>1. \A k \in i..((j - 1) - 1) : k \in i..(j - 1)
  OBVIOUS
<1> QED
  BY <1>1 DEF NoSemicolon

\* A handler, whatever its function has returned.
LEMMA HandleTurns ==
  ASSUME Tokened, CurTok \in 1..Len(tokens), tokens[CurTok].t # "eof", NEW r, ParserEnds("primary", CurTok, r), Handle(r)
  PROVE  \E e : /\ Turned(e)
                /\ r.ok => e.got = "item" /\ e.item = r.tree /\ CurTok' = r.cur
                /\ ~ r.ok => e.got = "error"
<1>0. /\ CurTok \in Int /\ r.cur \in 1..Len(tokens) /\ r.cur \in Int /\ r.cur >= CurTok
      /\ (r.ok => r.cur > CurTok) /\ NoSemicolon(CurTok, r.cur)
  BY PlaceIs DEF ParserEnds
<1>1. CASE r.ok
  <2> DEFINE e == [from |-> CurTok, to |-> r.cur, got |-> "item", item |-> r.tree]
  <2>1. turns' = Append(turns, e) /\ CurTok' = r.cur
    BY <1>1 DEF Handle, Turn
  <2>3. e.from = CurTok /\ e.to = r.cur /\ e.got = "item" /\ e.item = r.tree
    OBVIOUS
  <2> HIDE DEF e
  <2>4. NoSemicolon(CurTok, r.cur - 1)
    BY <1>0, NoSemicolonLess
  <2>5. Turned(e)
    BY <1>0, <1>1, <2>1, <2>3, <2>4 DEF Turned
  <2> QED
    BY <1>1, <2>1, <2>3, <2>5
<1>2. CASE ~ r.ok
  <2> DEFINE to == getNextToken(r.cur)
             e == [from |-> CurTok, to |-> to, got |-> "error"]
  <2>1. turns' = Append(turns, e) /\ CurTok' = to
    BY <1>2 DEF Handle, Turn, Recover
  <2>3. e.from = CurTok /\ e.to = to /\ e.got = "error"
    OBVIOUS
  <2>4. to \in 1..Len(tokens) /\ to \in Int /\ to > CurTok /\ (to = r.cur \/ to = r.cur + 1)
    <3>1. to \in 1..Len(tokens) /\ (tokens[r.cur].t # "eof" => to = r.cur + 1)
          /\ (tokens[r.cur].t = "eof" => to = r.cur)
      BY <1>0, NextIs
    <3>2. tokens[r.cur].t = "eof" => r.cur # CurTok
      OBVIOUS
    <3> HIDE DEF to
    <3>3. to \in Int
      BY <3>1, PlaceIs
    <3> QED
      BY <1>0, <3>1, <3>2, <3>3
  <2> HIDE DEF e, to
  <2>5. NoSemicolon(CurTok, to - 1)
    <3>1. CASE to = r.cur
      BY <1>0, <3>1, NoSemicolonLess
    <3>2. CASE to = r.cur + 1
      <4>1. to - 1 = r.cur
        BY <1>0, <3>2
      <4> QED
        BY <1>0, <4>1
    <3> QED
      BY <2>4, <3>1, <3>2
  <2>6. Turned(e)
    BY <2>1, <2>3, <2>4, <2>5 DEF Turned
  <2> QED
    BY <1>2, <2>3, <2>6
<1> QED
  BY <1>1, <1>2

LEMMA LoopTurns ==
  ASSUME Tokened, CurTok \in 1..Len(tokens), MainLoop
  PROVE  (turns' = turns /\ CurTok' = CurTok) \/ \E e : Turned(e)
<1>1. CASE SemicolonTurn
  <2> DEFINE e == [from |-> CurTok, to |-> CurTok + 1, got |-> "nothing"]
  <2>1. getNextToken(CurTok) = CurTok + 1 /\ CurTok + 1 \in 1..Len(tokens) /\ CurTok \in Int
    BY <1>1, NextIs, PlaceIs DEF SemicolonTurn
  <2>2. turns' = Append(turns, e) /\ CurTok' = CurTok + 1
    BY <1>1, <2>1 DEF SemicolonTurn, Turn
  <2>4. e.from = CurTok /\ e.to = CurTok + 1
    OBVIOUS
  <2> HIDE DEF e
  <2>5. NoSemicolon(CurTok, (CurTok + 1) - 1) /\ CurTok + 1 > CurTok
    <3>1. (CurTok + 1) - 1 = CurTok /\ CurTok + 1 > CurTok
      BY <2>1
    <3> QED
      BY <2>1, <3>1, NoSemicolonIs
  <2>6. Turned(e)
    BY <2>1, <2>2, <2>4, <2>5 DEF Turned
  <2> QED
    BY <2>6
<1>2. CASE DefinitionTurn
  BY <1>2, DefinitionEnds, HandleTurns DEF DefinitionTurn
<1>3. CASE ExternTurn
  BY <1>3, ExternEnds, HandleTurns DEF ExternTurn
<1>4. CASE ExpressionTurn
  BY <1>4, TopLevelEnds, HandleTurns DEF ExpressionTurn
<1>5. CASE Return
  BY <1>5 DEF Return
<1> QED
  BY <1>1, <1>2, <1>3, <1>4, <1>5 DEF MainLoop

\* The turns are where the loop has been.
ParserInv == Tokened /\ CurTok \in 1..Len(tokens) /\ IsSeq(turns)

LEMMA ParserInvHolds == ParserSpec => []ParserInv
<1>1. ParserInit => ParserInv
  <2> SUFFICES ASSUME ParserInit PROVE ParserInv
    OBVIOUS
  <2>1. IsText /\ tokens = Tokens
    BY LexerAssumption DEF ParserInit, IsText
  <2>2. Tokened
    BY <2>1, TextTokened
  <2>3. CurTok \in 1..Len(tokens)
    <3>1. CurTok = 1 /\ Len(tokens) \in Nat \ {0}
      BY <2>2 DEF ParserInit, Tokened
    <3> QED
      BY <3>1
  <2>4. IsSeq(turns)
    BY DEF ParserInit, IsSeq
  <2> QED
    BY <2>2, <2>3, <2>4 DEF ParserInv
<1>2. ParserInv /\ [MainLoop]_parserVars => ParserInv'
  <2> SUFFICES ASSUME ParserInv, [MainLoop]_parserVars PROVE ParserInv'
    OBVIOUS
  <2>1. tokens' = tokens /\ IsSeq(turns')
    BY LoopKeeps DEF ParserInv
  <2>2. CurTok' \in 1..Len(tokens)
    <3>1. CASE MainLoop
      BY <3>1, LoopTurns DEF ParserInv, Turned
    <3> QED
      BY <3>1 DEF ParserInv, parserVars
  <2>3. Tokened'
    BY <2>1 DEF ParserInv, Tokened
  <2>4. (IsSeq(turns))'
    BY <2>1 DEF IsSeq
  <2> QED
    BY <2>1, <2>2, <2>3, <2>4 DEF ParserInv
<1> QED
  BY <1>1, <1>2, PTL DEF ParserSpec

\* Every turn of the loop goes forward in the text, one that ends in an error too.
THEOREM KaleidoscopeTurnsGoForward == ParserSpec => TurnsGoForward
<1>1. ParserInv /\ [MainLoop]_parserVars => [turns' # turns => CurTok' > CurTok]_parserVars
  <2> SUFFICES ASSUME ParserInv, [MainLoop]_parserVars, turns' # turns PROVE CurTok' > CurTok
    OBVIOUS
  <2>1. MainLoop
    BY DEF parserVars
  <2> QED
    BY <2>1, LoopTurns DEF ParserInv, Turned
<1> QED
  BY <1>1, ParserInvHolds, PTL DEF ParserSpec, TurnsGoForward

\* A semicolon is never read into an item, nor skipped together with what follows it.
THEOREM KaleidoscopeSemicolonsResynchronise == ParserSpec => []SemicolonsResynchronise
<1>1. ParserInit => SemicolonsResynchronise
  <2> SUFFICES ASSUME ParserInit PROVE SemicolonsResynchronise
    OBVIOUS
  <2>1. CurTok - 1 = 0
    BY DEF ParserInit
  <2>2. 2..(CurTok - 1) = {}
    BY <2>1
  <2> QED
    BY <2>2 DEF SemicolonsResynchronise
<1>2. ParserInv /\ SemicolonsResynchronise /\ [MainLoop]_parserVars => SemicolonsResynchronise'
  <2> SUFFICES ASSUME ParserInv, SemicolonsResynchronise, [MainLoop]_parserVars
               PROVE  SemicolonsResynchronise'
    OBVIOUS
  <2>0. tokens' = tokens /\ Tokened /\ CurTok \in 1..Len(tokens) /\ CurTok \in Int /\ IsSeq(turns)
    BY LoopKeeps, PlaceIs DEF ParserInv
  <2>1. CASE turns' = turns /\ CurTok' = CurTok
    BY <2>0, <2>1 DEF SemicolonsResynchronise, ToSet
  <2>2. ASSUME NEW e, Turned(e) PROVE SemicolonsResynchronise'
    <3>1. /\ turns' = Append(turns, e) /\ e.from = CurTok
          /\ CurTok' \in Int /\ CurTok' > CurTok /\ NoSemicolon(CurTok, CurTok' - 1)
      BY <2>0, <2>2, PlaceIs DEF Turned
    <3>2. /\ Len(turns) \in Nat /\ Len(turns') = Len(turns) + 1
          /\ \A k \in 1..Len(turns) : turns'[k] = turns[k]
          /\ turns'[Len(turns) + 1] = e /\ IsSeq(turns')
      BY <2>0, <3>1, IsSeqAppend
    <3>3. DOMAIN turns = 1..Len(turns) /\ DOMAIN turns' = 1..Len(turns')
      BY <2>0, <3>2 DEF IsSeq
    <3>4. ToSet(turns) \subseteq ToSet(turns') /\ e \in ToSet(turns')
      <4>1. \A k \in 1..Len(turns) : k \in 1..Len(turns')
        BY <3>2
      <4>2. Len(turns) + 1 \in 1..Len(turns')
        BY <3>2
      <4> QED
        BY <3>2, <3>3, <4>1, <4>2 DEF ToSet
    <3>5. ASSUME NEW k \in 2..(CurTok' - 1), tokens[k - 1].t = ";"
          PROVE  \E turn \in ToSet(turns') : turn.from = k
      <4>1. CASE k < CurTok
        <5>1. k \in 2..(CurTok - 1)
          BY <2>0, <4>1
        <5>2. \E turn \in ToSet(turns) : turn.from = k
          BY <3>5, <5>1 DEF SemicolonsResynchronise
        <5> QED
          BY <3>4, <5>2
      <4>2. CASE k = CurTok
        BY <3>1, <3>4, <4>2
      <4>3. CASE k > CurTok
        <5> DEFINE to == CurTok'
        <5>1. to \in Int /\ k \in 2..(to - 1) /\ k > CurTok
          BY <3>1, <3>5, <4>3
        <5>2. NoSemicolon(CurTok, to - 1)
          BY <3>1
        <5> HIDE DEF to
        <5>3. k - 1 \in CurTok..((to - 1) - 1)
          BY <2>0, <5>1
        <5> QED
          BY <3>5, <5>2, <5>3 DEF NoSemicolon
      <4> QED
        BY <2>0, <4>1, <4>2, <4>3
    <3> QED
      BY <2>0, <3>5 DEF SemicolonsResynchronise
  <2>3. CASE UNCHANGED parserVars
    BY <2>1, <2>3 DEF parserVars
  <2>4. CASE MainLoop
    BY <2>0, <2>1, <2>2, <2>4, LoopTurns
  <2> QED
    BY <2>3, <2>4
<1> QED
  BY <1>1, <1>2, ParserInvHolds, PTL DEF ParserSpec

-----------------------------------------------------------------------------
(***************************************************************************)
(* What Merge computes.                                                    *)
(***************************************************************************)
IsMerge(n, lhs, operands, F) ==
  F = [k \in 0..n |-> IF k = 0 THEN lhs ELSE BinaryExpr(operands[k].op, F[k - 1], operands[k].rhs)]

LEMMA MergeExists ==
  ASSUME NEW lhs, NEW operands, NEW n \in Nat
  PROVE  \E F : IsMerge(n, lhs, operands, F)
<1> DEFINE Good(k) == \E F : IsMerge(k, lhs, operands, F)
           B == { k \in Nat : ~ Good(k) }
<1>1. Good(0)
  <2>1. IsMerge(0, lhs, operands, [k \in 0..0 |-> lhs])
    BY DEF IsMerge
  <2> QED
    BY <2>1
<1>2. ASSUME NEW k \in Nat, Good(k) PROVE Good(k + 1)
  <2>1. PICK F : IsMerge(k, lhs, operands, F)
    BY <1>2
  <2> DEFINE Step(G, l) == IF l = 0 THEN lhs ELSE BinaryExpr(operands[l].op, G[l - 1], operands[l].rhs)
             G == [l \in 0..(k + 1) |-> Step(F, l)]
  <2>2. F = [l \in 0..k |-> Step(F, l)]
    BY <2>1 DEF IsMerge
  <2> HIDE DEF Step
  <2>3. \A l \in 0..k : l \in 0..(k + 1) /\ F[l] = G[l]
    BY <2>2
  <2>4. ASSUME NEW l \in 0..(k + 1) PROVE Step(F, l) = Step(G, l)
    <3>1. CASE l = 0
      BY <3>1 DEF Step
    <3>2. CASE l # 0
      <4>1. l - 1 \in 0..k
        BY <3>2
      <4>2. F[l - 1] = G[l - 1]
        BY <2>3, <4>1
      <4> HIDE DEF G
      <4> QED
        BY <3>2, <4>2 DEF Step
    <3> QED
      BY <3>1, <3>2
  <2>5. G = [l \in 0..(k + 1) |-> Step(G, l)]
    BY <2>4
  <2> HIDE DEF G
  <2>6. IsMerge(k + 1, lhs, operands, G)
    BY <2>5 DEF IsMerge, Step
  <2> QED
    BY <2>6
<1> HIDE DEF Good
<1>3. B = {}
  <2> SUFFICES ASSUME B # {} PROVE FALSE
    OBVIOUS
  <2>1. PICK k \in B : \A j \in B : k <= j
    BY Least
  <2>2. k # 0
    BY <1>1, <2>1
  <2>3. k - 1 \in Nat /\ (k - 1) + 1 = k /\ ~ (k <= k - 1)
    BY <2>1, <2>2
  <2>4. Good(k - 1)
    BY <2>1, <2>3
  <2> QED
    BY <1>2, <2>1, <2>3, <2>4
<1> QED
  BY <1>3 DEF Good

LEMMA MergeIs ==
  ASSUME NEW lhs, NEW operands, Len(operands) \in Nat
  PROVE  \E F : IsMerge(Len(operands), lhs, operands, F) /\ Merge(lhs, operands) = F[Len(operands)]
<1> DEFINE F == CHOOSE G : IsMerge(Len(operands), lhs, operands, G)
<1>1. IsMerge(Len(operands), lhs, operands, F)
  BY MergeExists
<1>2. Merge(lhs, operands) = F[Len(operands)]
  BY DEF Merge, IsMerge
<1> QED
  BY <1>1, <1>2

LEMMA MergeAt ==
  ASSUME NEW n \in Nat, NEW lhs, NEW operands, NEW F, IsMerge(n, lhs, operands, F)
  PROVE  /\ F[0] = lhs
         /\ \A k \in 1..n : F[k] = BinaryExpr(operands[k].op, F[k - 1], operands[k].rhs)
BY DEF IsMerge

LEMMA MergeNone ==
  ASSUME NEW lhs
  PROVE  Merge(lhs, <<>>) = lhs
<1>1. Len(<<>>) = 0
  OBVIOUS
<1>2. PICK F : IsMerge(0, lhs, <<>>, F) /\ Merge(lhs, <<>>) = F[0]
  BY <1>1, MergeIs
<1> QED
  BY <1>2, MergeAt

\* The first operand is merged first.
LEMMA MergeFirst ==
  ASSUME NEW lhs, NEW operand, NEW operands, IsSeq(operands)
  PROVE  Merge(lhs, <<operand>> \o operands) = Merge(BinaryExpr(operand.op, lhs, operand.rhs), operands)
<1> DEFINE all == <<operand>> \o operands
           n == Len(operands)
           merged == BinaryExpr(operand.op, lhs, operand.rhs)
<1>1. n \in Nat /\ Len(all) = n + 1 /\ all[1] = operand /\ \A k \in 1..n : all[k + 1] = operands[k]
  BY IsSeqCons
<1> HIDE DEF all, n, merged
<1>2. PICK F : IsMerge(n + 1, lhs, all, F) /\ Merge(lhs, all) = F[n + 1]
  <2>1. Len(all) \in Nat
    BY <1>1
  <2>2. \E F : IsMerge(Len(all), lhs, all, F) /\ Merge(lhs, all) = F[Len(all)]
    BY <2>1, MergeIs
  <2> QED
    BY <1>1, <2>2
<1>3. PICK G : IsMerge(n, merged, operands, G) /\ Merge(merged, operands) = G[n]
  BY <1>1, MergeIs DEF n
<1>4. F[0] = lhs /\ \A k \in 1..(n + 1) : F[k] = BinaryExpr(all[k].op, F[k - 1], all[k].rhs)
  BY <1>1, <1>2, MergeAt
<1>5. G[0] = merged /\ \A k \in 1..n : G[k] = BinaryExpr(operands[k].op, G[k - 1], operands[k].rhs)
  BY <1>1, <1>3, MergeAt
<1> DEFINE B == { k \in 0..n : F[k + 1] # G[k] }
<1>6. F[0 + 1] = G[0]
  <2>1. 1 \in 1..(n + 1) /\ 1 - 1 = 0 /\ 0 + 1 = 1
    BY <1>1
  <2>2. F[1] = BinaryExpr(all[1].op, F[1 - 1], all[1].rhs)
    BY <1>4, <2>1
  <2> QED
    BY <1>1, <1>4, <1>5, <2>1, <2>2 DEF merged
<1>7. ASSUME NEW k \in 1..n, F[(k - 1) + 1] = G[k - 1] PROVE F[k + 1] = G[k]
  <2>1. k + 1 \in 1..(n + 1) /\ (k + 1) - 1 = k /\ (k - 1) + 1 = k
    BY <1>1
  <2>2. F[k + 1] = BinaryExpr(all[k + 1].op, F[(k + 1) - 1], all[k + 1].rhs)
    BY <1>4, <2>1
  <2> QED
    BY <1>1, <1>5, <1>7, <2>1, <2>2
<1>8. B = {}
  <2> SUFFICES ASSUME B # {} PROVE FALSE
    OBVIOUS
  <2>0. B \in SUBSET Nat
    BY <1>1
  <2>1. PICK k \in B : \A j \in B : k <= j
    BY <2>0, Least
  <2>2. k # 0
    BY <1>6, <2>1
  <2>3. k \in 1..n /\ k - 1 \in 0..n /\ ~ (k <= k - 1)
    BY <1>1, <2>1, <2>2
  <2>4. F[(k - 1) + 1] = G[k - 1]
    BY <2>1, <2>3
  <2> QED
    BY <1>7, <2>1, <2>3, <2>4
<1>9. n \in 0..n
  BY <1>1
<1> QED
  BY <1>2, <1>3, <1>8, <1>9 DEF all, merged

-----------------------------------------------------------------------------
(***************************************************************************)
(* The trees of the grammar.  Those of a span come from those of shorter   *)
(* spans, and of lower levels on the same one.                             *)
(***************************************************************************)
Height(level) ==
  CASE level = "primary" -> 0 [] level = "product" -> 1 [] level = "sum" -> 2
    [] level = "comparison" -> 3 [] OTHER -> 4

Size(level, i, j) == 5 * ((j - i) + Len(tokens) + 1) + Height(level)

LEMMA HeightIs ==
  /\ \A level : Height(level) \in 0..4
  /\ Height("primary") = 0 /\ Height("product") = 1 /\ Height("sum") = 2
  /\ Height("comparison") = 3 /\ Height("list") = 4
BY DEF Height

LEMMA SpanIs ==
  ASSUME Tokened
  PROVE  /\ \A s \in Spans : /\ s[1] \in Levels /\ s[2] \in 1..(Len(tokens) + 1) /\ s[3] \in 0..Len(tokens)
                             /\ s = <<s[1], s[2], s[3]>>
                             /\ Size(s[1], s[2], s[3]) \in 0..(10 * Len(tokens) + 4)
         /\ \A level \in Levels, i \in 1..(Len(tokens) + 1), j \in 0..Len(tokens) :
              LET s == <<level, i, j>> IN s \in Spans /\ s[1] = level /\ s[2] = i /\ s[3] = j
<1>1. ASSUME NEW s \in Spans
      PROVE  /\ s[1] \in Levels /\ s[2] \in 1..(Len(tokens) + 1) /\ s[3] \in 0..Len(tokens)
             /\ s = <<s[1], s[2], s[3]>>
  BY <1>1 DEF Spans
<1>2. ASSUME NEW s \in Spans PROVE Size(s[1], s[2], s[3]) \in 0..(10 * Len(tokens) + 4)
  <2> DEFINE h == Height(s[1])
             i == s[2]
             j == s[3]
  <2>1. h \in 0..4
    BY HeightIs
  <2>2. Len(tokens) \in Nat /\ i \in 1..(Len(tokens) + 1) /\ j \in 0..Len(tokens)
    BY <1>1 DEF Tokened
  <2> HIDE DEF h, i, j
  <2>3. 5 * ((j - i) + Len(tokens) + 1) + h \in 0..(10 * Len(tokens) + 4)
    BY <2>1, <2>2
  <2> QED
    BY <2>3 DEF Size, h, i, j
<1> QED
  BY <1>1, <1>2 DEF Spans

\* The operators of a level between two operands.
BinaryTrees(D, i, j, left, ops, right) ==
  UNION { { BinaryExpr(tokens[m].t, a, b) : a \in D[<<left, i, m - 1>>], b \in D[<<right, m + 1, j>>] }
          : m \in { k \in (i + 1)..(j - 1) : tokens[k].t \in ops } }

ListTrees(D, i, j) ==
  { <<a>> : a \in D[<<"comparison", i, j>>] }
  \cup UNION { { <<a>> \o as : a \in D[<<"comparison", i, m - 1>>], as \in D[<<"list", m + 1, j>>] }
               : m \in { k \in (i + 1)..(j - 1) : tokens[k].t = "," } }

\* A list of a span is one of ListTrees.
LEMMA DerivedList ==
  ASSUME NEW D, NEW i \in Int, NEW j \in Int, i <= j
  PROVE  Derived(D, "list", i, j) = ListTrees(D, i, j)
<1>1. ~ (i > j)
  OBVIOUS
<1> QED
  BY <1>1 DEF Derived, ListTrees

LEMMA DerivedIs ==
  ASSUME NEW D, NEW i \in Int, NEW j \in Int
  PROVE  /\ i > j => \A level : Derived(D, level, i, j) = {}
         /\ i <= j => /\ Derived(D, "comparison", i, j) =
                           D[<<"sum", i, j>>] \cup BinaryTrees(D, i, j, "comparison", {"<"}, "sum")
                      /\ Derived(D, "sum", i, j) =
                           D[<<"product", i, j>>] \cup BinaryTrees(D, i, j, "sum", {"+", "-"}, "product")
                      /\ Derived(D, "product", i, j) =
                           D[<<"primary", i, j>>] \cup BinaryTrees(D, i, j, "product", {"*"}, "primary")
                      /\ Derived(D, "list", i, j) = ListTrees(D, i, j)
<1>1. i > j => \A level : Derived(D, level, i, j) = {}
  <2> SUFFICES ASSUME i > j, NEW level PROVE Derived(D, level, i, j) = {}
    OBVIOUS
  <2>1. ~ (i <= j)
    OBVIOUS
  <2> QED
    BY <2>1 DEF Derived
<1>2. i <= j => ~ (i > j)
  OBVIOUS
<1>3. i <= j => Derived(D, "comparison", i, j) =
                           D[<<"sum", i, j>>] \cup BinaryTrees(D, i, j, "comparison", {"<"}, "sum")
  BY <1>2 DEF Derived, BinaryTrees
<1>4. i <= j => Derived(D, "sum", i, j) =
                           D[<<"product", i, j>>] \cup BinaryTrees(D, i, j, "sum", {"+", "-"}, "product")
  BY <1>2 DEF Derived, BinaryTrees
<1>5. i <= j => Derived(D, "product", i, j) =
                           D[<<"primary", i, j>>] \cup BinaryTrees(D, i, j, "product", {"*"}, "primary")
  BY <1>2 DEF Derived, BinaryTrees
<1>6. i <= j => Derived(D, "list", i, j) = ListTrees(D, i, j)
  BY DerivedList
<1> QED
  BY <1>1, <1>3, <1>4, <1>5, <1>6

LEMMA PrimaryIs ==
  ASSUME NEW D, NEW i \in Int, NEW j \in Int, i <= j
  PROVE  LET Is == Derived(D, "primary", i, j)
         IN /\ tokens[i].t = "number" => Is = IF i = j THEN {NumberExpr} ELSE {}
            /\ tokens[i].t = "(" => Is = IF i + 1 < j /\ tokens[j].t = ")" THEN D[<<"comparison", i + 1, j - 1>>] ELSE {}
            /\ tokens[i].t = "identifier" =>
                 /\ i = j => Is = {VariableExpr(tokens[i].w)}
                 /\ i # j => Is = IF i + 1 < j /\ tokens[i + 1].t = "(" /\ tokens[j].t = ")"
                                  THEN { CallExpr(tokens[i].w, args) :
                                         args \in IF i + 2 = j THEN { <<>> } ELSE D[<<"list", i + 2, j - 1>>] }
                                  ELSE {}
            /\ tokens[i].t \notin {"number", "(", "identifier"} => Is = {}
<1>1. ~ (i > j) /\ (i = j => ~ (i + 1 < j))
  OBVIOUS
<1> DEFINE Is == Derived(D, "primary", i, j)
<1>2. tokens[i].t = "number" => Is = IF i = j THEN {NumberExpr} ELSE {}
  BY <1>1 DEF Derived
<1>3. tokens[i].t = "(" => Is = IF i + 1 < j /\ tokens[j].t = ")" THEN D[<<"comparison", i + 1, j - 1>>] ELSE {}
  BY <1>1 DEF Derived
<1>4. tokens[i].t = "identifier" /\ i = j => Is = {VariableExpr(tokens[i].w)}
  BY <1>1 DEF Derived
<1>5. tokens[i].t = "identifier" /\ i # j =>
        Is = IF i + 1 < j /\ tokens[i + 1].t = "(" /\ tokens[j].t = ")"
             THEN { CallExpr(tokens[i].w, args) :
                    args \in IF i + 2 = j THEN { <<>> } ELSE D[<<"list", i + 2, j - 1>>] }
             ELSE {}
  BY <1>1 DEF Derived
<1>6. tokens[i].t \notin {"number", "(", "identifier"} => Is = {}
  BY <1>1 DEF Derived
<1> HIDE DEF Is
<1> QED
  BY <1>2, <1>3, <1>4, <1>5, <1>6 DEF Is

Agreed(D, E, m) == \A s \in Spans : Size(s[1], s[2], s[3]) < m => D[s] = E[s]

InSpan(i, j) == i \in 1..(Len(tokens) + 1) /\ j \in 0..Len(tokens)

Smaller(l, m, n, level, i, j) == n - m < j - i \/ (n - m = j - i /\ Height(l) < Height(level))

LEMMA InSpanIs ==
  ASSUME Tokened, NEW i, NEW j, InSpan(i, j)
  PROVE  /\ i \in Int /\ j \in Int /\ Len(tokens) \in Nat
         /\ i >= 1 /\ i <= Len(tokens) + 1 /\ j >= 0 /\ j <= Len(tokens)
<1>1. Len(tokens) \in Nat
  BY DEF Tokened
<1> QED
  BY <1>1 DEF InSpan

\* The spans a production looks at.
LEMMA PartIs ==
  ASSUME Tokened, NEW i, NEW j, InSpan(i, j)
  PROVE  /\ \A m \in (i + 1)..(j - 1) : \A l, level :
              /\ InSpan(i, m - 1) /\ Smaller(l, i, m - 1, level, i, j)
              /\ InSpan(m + 1, j) /\ Smaller(l, m + 1, j, level, i, j)
         /\ i + 1 < j => \A l, level : /\ InSpan(i + 1, j - 1) /\ Smaller(l, i + 1, j - 1, level, i, j)
                                       /\ InSpan(i + 2, j - 1) /\ Smaller(l, i + 2, j - 1, level, i, j)
         /\ \A l, level : Height(l) < Height(level) => Smaller(l, i, j, level, i, j)
<1> DEFINE n == Len(tokens)
<1>1. /\ i \in Int /\ j \in Int /\ n \in Nat /\ i >= 1 /\ i <= n + 1 /\ j >= 0 /\ j <= n
  BY InSpanIs
<1>2. \A a, b : InSpan(a, b) <=> a \in 1..(n + 1) /\ b \in 0..n
  BY DEF InSpan
<1> HIDE DEF n
<1>3. ASSUME NEW m \in (i + 1)..(j - 1), NEW l, NEW level
      PROVE  /\ InSpan(i, m - 1) /\ Smaller(l, i, m - 1, level, i, j)
             /\ InSpan(m + 1, j) /\ Smaller(l, m + 1, j, level, i, j)
  <2>1. /\ m \in Int /\ m - 1 \in 0..n /\ m + 1 \in 1..(n + 1) /\ i \in 1..(n + 1) /\ j \in 0..n
        /\ (m - 1) - i < j - i /\ j - (m + 1) < j - i
    BY <1>1
  <2> QED
    BY <1>2, <2>1 DEF Smaller
<1>4. ASSUME i + 1 < j, NEW l, NEW level
      PROVE  /\ InSpan(i + 1, j - 1) /\ Smaller(l, i + 1, j - 1, level, i, j)
             /\ InSpan(i + 2, j - 1) /\ Smaller(l, i + 2, j - 1, level, i, j)
  <2>1. /\ i + 1 \in 1..(n + 1) /\ i + 2 \in 1..(n + 1) /\ j - 1 \in 0..n
        /\ (j - 1) - (i + 1) < j - i /\ (j - 1) - (i + 2) < j - i
    BY <1>1, <1>4
  <2> QED
    BY <1>2, <2>1 DEF Smaller
<1>5. \A l, level : Height(l) < Height(level) => Smaller(l, i, j, level, i, j)
  BY DEF Smaller
<1> QED
  BY <1>3, <1>4, <1>5

LEMMA SizeFalls ==
  ASSUME Tokened, NEW level, NEW i, NEW j, InSpan(i, j), NEW l, NEW m, NEW n, InSpan(m, n),
         Smaller(l, m, n, level, i, j)
  PROVE  Size(l, m, n) < Size(level, i, j)
<1> DEFINE a == Height(l)
           b == Height(level)
           t == Len(tokens)
<1>1. a \in 0..4 /\ b \in 0..4 /\ t \in Nat /\ (n - m < j - i \/ (n - m = j - i /\ a < b))
  BY HeightIs, InSpanIs DEF Smaller
<1>2. m \in Int /\ n \in Int /\ i \in Int /\ j \in Int
  BY InSpanIs
<1> HIDE DEF a, b, t
<1>3. 5 * ((n - m) + t + 1) + a < 5 * ((j - i) + t + 1) + b
  BY <1>1, <1>2
<1> QED
  BY <1>3 DEF Size, a, b, t

LEMMA SmallerAgrees ==
  ASSUME Tokened, NEW D, NEW E, NEW level, NEW i, NEW j, InSpan(i, j),
         Agreed(D, E, Size(level, i, j)),
         NEW l \in Levels, NEW m, NEW n, InSpan(m, n), Smaller(l, m, n, level, i, j)
  PROVE  D[<<l, m, n>>] = E[<<l, m, n>>]
<1>1. Size(l, m, n) < Size(level, i, j)
  BY SizeFalls
<1> DEFINE s == <<l, m, n>>
<1>2. s \in Spans /\ s[1] = l /\ s[2] = m /\ s[3] = n
  BY SpanIs DEF InSpan
<1> HIDE DEF s
<1>3. D[s] = E[s]
  BY <1>1, <1>2 DEF Agreed
<1> QED
  BY <1>3 DEF s

LEMMA SplitAgrees ==
  ASSUME Tokened, NEW D, NEW E, NEW level, NEW i, NEW j, InSpan(i, j), Agreed(D, E, Size(level, i, j)),
         NEW left \in Levels, NEW right \in Levels
  PROVE  \A m \in (i + 1)..(j - 1) : /\ D[<<left, i, m - 1>>] = E[<<left, i, m - 1>>]
                                     /\ D[<<right, m + 1, j>>] = E[<<right, m + 1, j>>]
<1> TAKE m \in (i + 1)..(j - 1)
<1>1. /\ InSpan(i, m - 1) /\ Smaller(left, i, m - 1, level, i, j)
      /\ InSpan(m + 1, j) /\ Smaller(right, m + 1, j, level, i, j)
  BY PartIs
<1>2. D[<<left, i, m - 1>>] = E[<<left, i, m - 1>>]
  BY <1>1, SmallerAgrees
<1>3. D[<<right, m + 1, j>>] = E[<<right, m + 1, j>>]
  BY <1>1, SmallerAgrees
<1> QED
  BY <1>2, <1>3

LEMMA BinaryAgrees ==
  ASSUME Tokened, NEW D, NEW E, NEW level \in Levels, NEW i, NEW j, InSpan(i, j),
         Agreed(D, E, Size(level, i, j)), NEW left \in Levels, NEW right \in Levels, NEW ops
  PROVE  BinaryTrees(D, i, j, left, ops, right) = BinaryTrees(E, i, j, left, ops, right)
<1> DEFINE At(F, m) == { BinaryExpr(tokens[m].t, a, b) : a \in F[<<left, i, m - 1>>], b \in F[<<right, m + 1, j>>] }
<1>1. \A m \in (i + 1)..(j - 1) : At(D, m) = At(E, m)
  <2>1. \A m \in (i + 1)..(j - 1) : /\ D[<<left, i, m - 1>>] = E[<<left, i, m - 1>>]
                                    /\ D[<<right, m + 1, j>>] = E[<<right, m + 1, j>>]
    BY SplitAgrees
  <2> QED
    BY <2>1
<1>2. \A F : BinaryTrees(F, i, j, left, ops, right)
               = UNION { At(F, m) : m \in { k \in (i + 1)..(j - 1) : tokens[k].t \in ops } }
  BY DEF BinaryTrees
<1> HIDE DEF At
<1>3. { At(D, m) : m \in { k \in (i + 1)..(j - 1) : tokens[k].t \in ops } }
        = { At(E, m) : m \in { k \in (i + 1)..(j - 1) : tokens[k].t \in ops } }
  BY <1>1
<1> QED
  BY <1>2, <1>3

LEMMA ListAgrees ==
  ASSUME Tokened, NEW D, NEW E, NEW i, NEW j, InSpan(i, j),
         i <= j, Agreed(D, E, Size("list", i, j))
  PROVE  ListTrees(D, i, j) = ListTrees(E, i, j)
<1> DEFINE Longer(a, as) == <<a>> \o as
           At(F, m) == { Longer(a, as) : a \in F[<<"comparison", i, m - 1>>], as \in F[<<"list", m + 1, j>>] }
<1>0. "list" \in Levels /\ "comparison" \in Levels
  BY DEF Levels
<1>1. \A m \in (i + 1)..(j - 1) : At(D, m) = At(E, m)
  <2>1. \A m \in (i + 1)..(j - 1) : /\ D[<<"comparison", i, m - 1>>] = E[<<"comparison", i, m - 1>>]
                                    /\ D[<<"list", m + 1, j>>] = E[<<"list", m + 1, j>>]
    BY <1>0, SplitAgrees
  <2> HIDE DEF Longer
  <2> QED
    BY <2>1
<1>2. \A F : ListTrees(F, i, j)
               = { <<a>> : a \in F[<<"comparison", i, j>>] }
                 \cup UNION { At(F, m) : m \in { k \in (i + 1)..(j - 1) : tokens[k].t = "," } }
  BY DEF ListTrees
<1> HIDE DEF At
<1>3. { At(D, m) : m \in { k \in (i + 1)..(j - 1) : tokens[k].t = "," } }
        = { At(E, m) : m \in { k \in (i + 1)..(j - 1) : tokens[k].t = "," } }
  BY <1>1
<1>4. D[<<"comparison", i, j>>] = E[<<"comparison", i, j>>]
  <2>1. Height("comparison") < Height("list")
    BY HeightIs
  <2>2. Smaller("comparison", i, j, "list", i, j)
    BY <2>1, PartIs
  <2> QED
    BY <1>0, <2>2, SmallerAgrees
<1> QED
  BY <1>2, <1>3, <1>4

LEMMA PrimaryAgree ==
  ASSUME Tokened, NEW D, NEW E, NEW i, NEW j, InSpan(i, j),
         i <= j, Agreed(D, E, Size("primary", i, j))
  PROVE  Derived(D, "primary", i, j) = Derived(E, "primary", i, j)
<1>0. "list" \in Levels /\ "comparison" \in Levels /\ i \in Int /\ j \in Int
  BY InSpanIs DEF Levels
<1>1. i + 1 < j => D[<<"comparison", i + 1, j - 1>>] = E[<<"comparison", i + 1, j - 1>>]
  <2> SUFFICES ASSUME i + 1 < j PROVE D[<<"comparison", i + 1, j - 1>>] = E[<<"comparison", i + 1, j - 1>>]
    OBVIOUS
  <2>1. InSpan(i + 1, j - 1) /\ Smaller("comparison", i + 1, j - 1, "primary", i, j)
    BY PartIs
  <2> QED
    BY <1>0, <2>1, SmallerAgrees
<1>2. i + 1 < j => D[<<"list", i + 2, j - 1>>] = E[<<"list", i + 2, j - 1>>]
  <2> SUFFICES ASSUME i + 1 < j PROVE D[<<"list", i + 2, j - 1>>] = E[<<"list", i + 2, j - 1>>]
    OBVIOUS
  <2>1. InSpan(i + 2, j - 1) /\ Smaller("list", i + 2, j - 1, "primary", i, j)
    BY PartIs
  <2> QED
    BY <1>0, <2>1, SmallerAgrees
<1>3. CASE tokens[i].t = "number"
  <2>1. \A F : Derived(F, "primary", i, j) = IF i = j THEN {NumberExpr} ELSE {}
    BY <1>0, <1>3, PrimaryIs
  <2> QED
    BY <2>1
<1>4. CASE tokens[i].t = "("
  <2>1. \A F : Derived(F, "primary", i, j) =
                 IF i + 1 < j /\ tokens[j].t = ")" THEN F[<<"comparison", i + 1, j - 1>>] ELSE {}
    BY <1>0, <1>4, PrimaryIs
  <2> QED
    BY <1>1, <2>1
<1>5. CASE tokens[i].t = "identifier" /\ i = j
  BY <1>0, <1>5, PrimaryIs
<1>6. CASE tokens[i].t = "identifier" /\ i # j
  <2> DEFINE Is(F) == IF i + 1 < j /\ tokens[i + 1].t = "(" /\ tokens[j].t = ")"
                      THEN { CallExpr(tokens[i].w, args) :
                             args \in IF i + 2 = j THEN { <<>> } ELSE F[<<"list", i + 2, j - 1>>] }
                      ELSE {}
  <2>1. Is(D) = Is(E)
    BY <1>2
  <2>2. \A F : Derived(F, "primary", i, j) = Is(F)
    BY <1>0, <1>6, PrimaryIs
  <2> HIDE DEF Is
  <2> QED
    BY <2>1, <2>2
<1>7. CASE tokens[i].t \notin {"number", "(", "identifier"}
  BY <1>0, <1>7, PrimaryIs
<1> QED
  BY <1>3, <1>4, <1>5, <1>6, <1>7

LEMMA DerivedAgrees ==
  ASSUME Tokened, NEW D, NEW E, NEW s \in Spans, Agreed(D, E, Size(s[1], s[2], s[3]))
  PROVE  Derived(D, s[1], s[2], s[3]) = Derived(E, s[1], s[2], s[3])
<1> DEFINE level == s[1]
           i == s[2]
           j == s[3]
<1>1. level \in Levels /\ InSpan(i, j) /\ Agreed(D, E, Size(level, i, j))
  BY SpanIs DEF InSpan
<1> HIDE DEF level, i, j
<1>2. i \in Int /\ j \in Int
  BY <1>1, InSpanIs
<1>3. CASE i > j
  <2>1. \A F : Derived(F, level, i, j) = {}
    BY <1>2, <1>3, DerivedIs
  <2> QED
    BY <2>1 DEF level, i, j
<1>4. CASE i <= j
  <2>0. {"list", "comparison", "sum", "product", "primary"} = Levels
    BY DEF Levels
  <2>1. CASE level = "comparison"
    <3>1. D[<<"sum", i, j>>] = E[<<"sum", i, j>>]
      <4>1. Height("sum") < Height(level)
        BY <2>1, HeightIs
      <4>2. Smaller("sum", i, j, level, i, j) /\ "sum" \in Levels
        BY <1>1, <2>0, <4>1, PartIs
      <4> QED
        BY <1>1, <4>2, SmallerAgrees
    <3>2. BinaryTrees(D, i, j, "comparison", {"<"}, "sum") = BinaryTrees(E, i, j, "comparison", {"<"}, "sum")
      BY <1>1, <1>4, <2>0, BinaryAgrees
    <3>3. \A F : Derived(F, "comparison", i, j) = F[<<"sum", i, j>>] \cup BinaryTrees(F, i, j, "comparison", {"<"}, "sum")
      BY <1>2, <1>4, DerivedIs
    <3>4. Derived(D, "comparison", i, j) = Derived(E, "comparison", i, j)
      BY <3>1, <3>2, <3>3
    <3> QED
      BY <2>1, <3>4 DEF level, i, j
  <2>2. CASE level = "sum"
    <3>1. D[<<"product", i, j>>] = E[<<"product", i, j>>]
      <4>1. Height("product") < Height(level)
        BY <2>2, HeightIs
      <4>2. Smaller("product", i, j, level, i, j) /\ "product" \in Levels
        BY <1>1, <2>0, <4>1, PartIs
      <4> QED
        BY <1>1, <4>2, SmallerAgrees
    <3>2. BinaryTrees(D, i, j, "sum", {"+", "-"}, "product") = BinaryTrees(E, i, j, "sum", {"+", "-"}, "product")
      BY <1>1, <1>4, <2>0, BinaryAgrees
    <3>3. \A F : Derived(F, "sum", i, j) = F[<<"product", i, j>>] \cup BinaryTrees(F, i, j, "sum", {"+", "-"}, "product")
      BY <1>2, <1>4, DerivedIs
    <3>4. Derived(D, "sum", i, j) = Derived(E, "sum", i, j)
      BY <3>1, <3>2, <3>3
    <3> QED
      BY <2>2, <3>4 DEF level, i, j
  <2>3. CASE level = "product"
    <3>1. D[<<"primary", i, j>>] = E[<<"primary", i, j>>]
      <4>1. Height("primary") < Height(level)
        BY <2>3, HeightIs
      <4>2. Smaller("primary", i, j, level, i, j) /\ "primary" \in Levels
        BY <1>1, <2>0, <4>1, PartIs
      <4> QED
        BY <1>1, <4>2, SmallerAgrees
    <3>2. BinaryTrees(D, i, j, "product", {"*"}, "primary") = BinaryTrees(E, i, j, "product", {"*"}, "primary")
      BY <1>1, <1>4, <2>0, BinaryAgrees
    <3>3. \A F : Derived(F, "product", i, j) = F[<<"primary", i, j>>] \cup BinaryTrees(F, i, j, "product", {"*"}, "primary")
      BY <1>2, <1>4, DerivedIs
    <3>4. Derived(D, "product", i, j) = Derived(E, "product", i, j)
      BY <3>1, <3>2, <3>3
    <3> QED
      BY <2>3, <3>4 DEF level, i, j
  <2>4. CASE level = "primary"
    <3>1. Derived(D, "primary", i, j) = Derived(E, "primary", i, j)
      BY <1>1, <1>4, <2>4, PrimaryAgree
    <3> QED
      BY <2>4, <3>1 DEF level, i, j
  <2>5. CASE level = "list"
    <3>0. \A F : Derived(F, "list", i, j) = ListTrees(F, i, j)
      BY <1>2, <1>4, DerivedList
    <3>1. Derived(D, "list", i, j) = Derived(E, "list", i, j)
      BY <1>1, <1>4, <2>5, <3>0, ListAgrees
    <3> QED
      BY <2>5, <3>1 DEF level, i, j
  <2> QED
    BY <1>1, <2>0, <2>1, <2>2, <2>3, <2>4, <2>5
<1> QED
  BY <1>2, <1>3, <1>4

IsTrees(S, D) == D = [s \in S |-> Derived(D, s[1], s[2], s[3])]

LEMMA TreesExist ==
  ASSUME Tokened
  PROVE  \E D : IsTrees(Spans, D)
<1> DEFINE Near(k) == { s \in Spans : Size(s[1], s[2], s[3]) < k }
           Good(k) == \E D : IsTrees(Near(k), D)
           B == { k \in Nat : ~ Good(k) }
<1>0. \A s \in Spans : Size(s[1], s[2], s[3]) \in 0..(10 * Len(tokens) + 4)
  BY SpanIs
<1>1. Good(0)
  <2>1. Near(0) = {}
    BY <1>0
  <2>2. \A D : [s \in {} |-> 0] = [s \in {} |-> Derived(D, s[1], s[2], s[3])]
    OBVIOUS
  <2> QED
    BY <2>1, <2>2 DEF IsTrees
<1>2. ASSUME NEW k \in Nat, Good(k) PROVE Good(k + 1)
  <2>1. PICK D : IsTrees(Near(k), D)
    BY <1>2
  <2> DEFINE E == [s \in Near(k + 1) |-> Derived(D, s[1], s[2], s[3])]
  <2>2. Near(k) \subseteq Near(k + 1)
    BY <1>0
  <2>3. \A s \in Near(k) : E[s] = D[s]
    BY <2>1, <2>2 DEF IsTrees
  <2>4. ASSUME NEW s \in Near(k + 1)
        PROVE  Derived(D, s[1], s[2], s[3]) = Derived(E, s[1], s[2], s[3])
    <3>1. \A c \in Spans : Size(c[1], c[2], c[3]) < Size(s[1], s[2], s[3]) => c \in Near(k)
      BY <1>0
    <3> HIDE DEF E
    <3>2. Agreed(D, E, Size(s[1], s[2], s[3]))
      BY <2>3, <3>1 DEF Agreed
    <3> QED
      BY <3>2, DerivedAgrees
  <2>5. E = [s \in Near(k + 1) |-> Derived(E, s[1], s[2], s[3])]
    BY <2>4
  <2> QED
    BY <2>5 DEF IsTrees
<1> HIDE DEF Good
<1>3. B = {}
  <2> SUFFICES ASSUME B # {} PROVE FALSE
    OBVIOUS
  <2>1. PICK k \in B : \A j \in B : k <= j
    BY Least
  <2>2. k # 0
    BY <1>1, <2>1
  <2>3. k - 1 \in Nat /\ (k - 1) + 1 = k /\ ~ (k <= k - 1)
    BY <2>1, <2>2
  <2>4. Good(k - 1)
    BY <2>1, <2>3
  <2> QED
    BY <1>2, <2>1, <2>3, <2>4
<1>4. Good(10 * Len(tokens) + 5)
  <2>1. Len(tokens) \in Nat
    BY DEF Tokened
  <2>2. 10 * Len(tokens) + 5 \in Nat
    BY <2>1
  <2> QED
    BY <1>3, <2>2
<1>5. Near(10 * Len(tokens) + 5) = Spans
  <2>1. ASSUME NEW s \in Spans PROVE Size(s[1], s[2], s[3]) < 10 * Len(tokens) + 5
    <3>1. Size(s[1], s[2], s[3]) \in 0..(10 * Len(tokens) + 4) /\ Len(tokens) \in Nat
      BY <1>0 DEF Tokened
    <3> QED
      BY <3>1
  <2> QED
    BY <2>1
<1> QED
  BY <1>4, <1>5 DEF Good

LEMMA TreesIs ==
  ASSUME Tokened, NEW level \in Levels, NEW i \in 1..(Len(tokens) + 1), NEW j \in 0..Len(tokens)
  PROVE  Trees[<<level, i, j>>] = Derived(Trees, level, i, j)
<1>1. IsTrees(Spans, Trees)
  BY TreesExist DEF Trees, IsTrees
<1>2. <<level, i, j>> \in Spans
  BY SpanIs
<1> QED
  BY <1>1, <1>2 DEF IsTrees

-----------------------------------------------------------------------------
(***************************************************************************)
(* The grammar, one level at a time.  Low is the lowest level whose        *)
(* operators bind at least as tightly as ExprPrec says.                    *)
(***************************************************************************)
Low(q) == CASE q <= 10 -> "comparison"
            [] 10 < q /\ q <= 20 -> "sum"
            [] 20 < q /\ q <= 40 -> "product"
            [] 40 < q -> "primary"

\* A tree of a binary level, whose operator is at m.
IsBinary(t, p, i, m, j) ==
  /\ m \in (i + 1)..(j - 1) /\ GetTokPrecedence(m) = p
  /\ \E a \in Trees[<<Low(p), i, m - 1>>], b \in Trees[<<Low(p + 1), m + 1, j>>] :
       t = BinaryExpr(tokens[m].t, a, b)

LEMMA LowIs ==
  /\ Low(10) = "comparison" /\ Low(11) = "sum" /\ Low(20) = "sum" /\ Low(21) = "product"
  /\ Low(40) = "product" /\ Low(41) = "primary" /\ Low(0) = "comparison"
  /\ \A q \in Int : /\ q <= 10 => Low(q) = Low(10)
                    /\ 10 < q /\ q <= 20 => Low(q) = Low(20)
                    /\ 20 < q /\ q <= 40 => Low(q) = Low(40)
                    /\ 40 < q => Low(q) = Low(41)
BY DEF Low

LEMMA TreesAre ==
  ASSUME Tokened, NEW level \in Levels, NEW i, NEW j, InSpan(i, j)
  PROVE  Trees[<<level, i, j>>] = Derived(Trees, level, i, j)
BY TreesIs DEF InSpan

LEMMA LevelsAre ==
  "comparison" \in Levels /\ "sum" \in Levels /\ "product" \in Levels /\ "primary" \in Levels /\ "list" \in Levels
BY DEF Levels

LEMMA EmptySpan ==
  ASSUME Tokened, NEW level \in Levels, NEW i, NEW j, InSpan(i, j), i > j
  PROVE  Trees[<<level, i, j>>] = {}
<1>1. i \in Int /\ j \in Int
  BY InSpanIs
<1>2. Derived(Trees, level, i, j) = {}
  BY <1>1, DerivedIs
<1> QED
  BY <1>2, TreesAre

LEMMA BinaryTreesAre ==
  ASSUME NEW i, NEW j, NEW p, NEW ops, \A m : tokens[m].t \in ops <=> GetTokPrecedence(m) = p, NEW t
  PROVE  t \in BinaryTrees(Trees, i, j, Low(p), ops, Low(p + 1)) <=> \E m : IsBinary(t, p, i, m, j)
<1> DEFINE Made(m, a, b) == BinaryExpr(tokens[m].t, a, b)
           At(m) == { Made(m, a, b) : a \in Trees[<<Low(p), i, m - 1>>], b \in Trees[<<Low(p + 1), m + 1, j>>] }
<1>1. BinaryTrees(Trees, i, j, Low(p), ops, Low(p + 1))
        = UNION { At(m) : m \in { k \in (i + 1)..(j - 1) : tokens[k].t \in ops } }
  BY DEF BinaryTrees
<1>2. \A m : IsBinary(t, p, i, m, j) <=>
              /\ m \in (i + 1)..(j - 1) /\ GetTokPrecedence(m) = p
              /\ \E a \in Trees[<<Low(p), i, m - 1>>], b \in Trees[<<Low(p + 1), m + 1, j>>] : t = Made(m, a, b)
  BY DEF IsBinary
<1> HIDE DEF Made
<1>3. \A m : t \in At(m) <=>
              \E a \in Trees[<<Low(p), i, m - 1>>], b \in Trees[<<Low(p + 1), m + 1, j>>] : t = Made(m, a, b)
  OBVIOUS
<1> HIDE DEF At
<1>4. t \in BinaryTrees(Trees, i, j, Low(p), ops, Low(p + 1)) <=>
        \E m : m \in (i + 1)..(j - 1) /\ tokens[m].t \in ops /\ t \in At(m)
  BY <1>1
<1>5. \A m : tokens[m].t \in ops <=> GetTokPrecedence(m) = p
  OBVIOUS
<1> QED
  BY <1>2, <1>3, <1>4, <1>5, Zenon

LEMMA LevelIs ==
  ASSUME Tokened, NEW i, NEW j, InSpan(i, j), NEW p \in {10, 20, 40}, NEW t
  PROVE  t \in Trees[<<Low(p), i, j>>] <=>
           t \in Trees[<<Low(p + 1), i, j>>] \/ \E m : IsBinary(t, p, i, m, j)
<1>1. i \in Int /\ j \in Int
  BY InSpanIs
<1>2. CASE i > j
  <2>1. Trees[<<Low(p), i, j>>] = {}
    BY <1>2, LowIs, LevelsAre, EmptySpan
  <2>2. Trees[<<Low(p + 1), i, j>>] = {}
    <3>1. p + 1 \in {11, 21, 41}
      OBVIOUS
    <3> QED
      BY <1>2, <3>1, LowIs, LevelsAre, EmptySpan
  <2>3. \A m : m \notin (i + 1)..(j - 1)
    BY <1>1, <1>2
  <2> QED
    BY <2>1, <2>2, <2>3 DEF IsBinary
<1>3. CASE i <= j
  <2>1. CASE p = 10
    <3>1. \A m : tokens[m].t \in {"<"} <=> GetTokPrecedence(m) = 10
      BY PrecedenceIs
    <3>2. t \in BinaryTrees(Trees, i, j, Low(10), {"<"}, Low(11)) <=> \E m : IsBinary(t, 10, i, m, j)
      <4>1. t \in BinaryTrees(Trees, i, j, Low(10), {"<"}, Low(10 + 1)) <=> \E m : IsBinary(t, 10, i, m, j)
        BY <3>1, BinaryTreesAre
      <4>2. 10 + 1 = 11
        OBVIOUS
      <4> QED
        BY <4>1, <4>2
    <3>3. Trees[<<"comparison", i, j>>]
            = Trees[<<"sum", i, j>>] \cup BinaryTrees(Trees, i, j, "comparison", {"<"}, "sum")
      <4>1. Derived(Trees, "comparison", i, j)
              = Trees[<<"sum", i, j>>] \cup BinaryTrees(Trees, i, j, "comparison", {"<"}, "sum")
        BY <1>1, <1>3, DerivedIs
      <4> QED
        BY <4>1, TreesAre, LevelsAre
    <3> QED
      BY <2>1, <3>2, <3>3, LowIs
  <2>2. CASE p = 20
    <3>1. \A m : tokens[m].t \in {"+", "-"} <=> GetTokPrecedence(m) = 20
      BY PrecedenceIs
    <3>2. t \in BinaryTrees(Trees, i, j, Low(20), {"+", "-"}, Low(21)) <=> \E m : IsBinary(t, 20, i, m, j)
      <4>1. t \in BinaryTrees(Trees, i, j, Low(20), {"+", "-"}, Low(20 + 1)) <=> \E m : IsBinary(t, 20, i, m, j)
        BY <3>1, BinaryTreesAre
      <4>2. 20 + 1 = 21
        OBVIOUS
      <4> QED
        BY <4>1, <4>2
    <3>3. Trees[<<"sum", i, j>>]
            = Trees[<<"product", i, j>>] \cup BinaryTrees(Trees, i, j, "sum", {"+", "-"}, "product")
      <4>1. Derived(Trees, "sum", i, j)
              = Trees[<<"product", i, j>>] \cup BinaryTrees(Trees, i, j, "sum", {"+", "-"}, "product")
        BY <1>1, <1>3, DerivedIs
      <4> QED
        BY <4>1, TreesAre, LevelsAre
    <3> QED
      BY <2>2, <3>2, <3>3, LowIs
  <2>3. CASE p = 40
    <3>1. \A m : tokens[m].t \in {"*"} <=> GetTokPrecedence(m) = 40
      BY PrecedenceIs
    <3>2. t \in BinaryTrees(Trees, i, j, Low(40), {"*"}, Low(41)) <=> \E m : IsBinary(t, 40, i, m, j)
      <4>1. t \in BinaryTrees(Trees, i, j, Low(40), {"*"}, Low(40 + 1)) <=> \E m : IsBinary(t, 40, i, m, j)
        BY <3>1, BinaryTreesAre
      <4>2. 40 + 1 = 41
        OBVIOUS
      <4> QED
        BY <4>1, <4>2
    <3>3. Trees[<<"product", i, j>>]
            = Trees[<<"primary", i, j>>] \cup BinaryTrees(Trees, i, j, "product", {"*"}, "primary")
      <4>1. Derived(Trees, "product", i, j)
              = Trees[<<"primary", i, j>>] \cup BinaryTrees(Trees, i, j, "product", {"*"}, "primary")
        BY <1>1, <1>3, DerivedIs
      <4> QED
        BY <4>1, TreesAre, LevelsAre
    <3> QED
      BY <2>3, <3>2, <3>3, LowIs
  <2> QED
    BY <2>1, <2>2, <2>3
<1> QED
  BY <1>1, <1>2, <1>3

\* What binds tighter is also a tree of a lower level.
LEMMA LowerLevel ==
  ASSUME Tokened, NEW i, NEW j, InSpan(i, j), NEW q \in 0..41, NEW r \in 0..41, q <= r,
         NEW t \in Trees[<<Low(r), i, j>>]
  PROVE  t \in Trees[<<Low(q), i, j>>]
<1>1. /\ t \in Trees[<<"primary", i, j>>] => t \in Trees[<<"product", i, j>>]
      /\ t \in Trees[<<"product", i, j>>] => t \in Trees[<<"sum", i, j>>]
      /\ t \in Trees[<<"sum", i, j>>] => t \in Trees[<<"comparison", i, j>>]
  <2>1. \A p \in {10, 20, 40} : t \in Trees[<<Low(p + 1), i, j>>] => t \in Trees[<<Low(p), i, j>>]
    BY LevelIs
  <2>2. 10 + 1 = 11 /\ 20 + 1 = 21 /\ 40 + 1 = 41
    OBVIOUS
  <2>3. /\ t \in Trees[<<Low(11), i, j>>] => t \in Trees[<<Low(10), i, j>>]
        /\ t \in Trees[<<Low(21), i, j>>] => t \in Trees[<<Low(20), i, j>>]
        /\ t \in Trees[<<Low(41), i, j>>] => t \in Trees[<<Low(40), i, j>>]
    BY <2>1, <2>2
  <2> QED
    BY <2>3, LowIs
<1>2. CASE r <= 10
  <2>1. q <= 10
    BY <1>2
  <2> QED
    BY <1>2, <2>1 DEF Low
<1>3. CASE 10 < r /\ r <= 20
  <2>1. q <= 10 \/ (10 < q /\ q <= 20)
    BY <1>3
  <2> QED
    BY <1>1, <1>3, <2>1, LowIs
<1>4. CASE 20 < r /\ r <= 40
  <2>1. q <= 10 \/ (10 < q /\ q <= 20) \/ (20 < q /\ q <= 40)
    BY <1>4
  <2> QED
    BY <1>1, <1>4, <2>1, LowIs
<1>5. CASE 40 < r
  <2>1. q <= 10 \/ (10 < q /\ q <= 20) \/ (20 < q /\ q <= 40) \/ 40 < q
    OBVIOUS
  <2> QED
    BY <1>1, <1>5, <2>1, LowIs
<1> QED
  BY <1>2, <1>3, <1>4, <1>5

\* An operator between its operands.
LEMMA OperatorJoins ==
  ASSUME Tokened, NEW i, NEW j, InSpan(i, j), NEW p \in {10, 20, 40}, NEW m \in (i + 1)..(j - 1),
         GetTokPrecedence(m) = p, NEW a \in Trees[<<Low(p), i, m - 1>>], NEW b \in Trees[<<Low(p + 1), m + 1, j>>]
  PROVE  BinaryExpr(tokens[m].t, a, b) \in Trees[<<Low(p), i, j>>]
<1>1. IsBinary(BinaryExpr(tokens[m].t, a, b), p, i, m, j)
  BY DEF IsBinary
<1> QED
  BY <1>1, LevelIs

\* Arguments.
Longer(a, as) == <<a>> \o as

IsList(args, i, j) ==
  \/ \E a \in Trees[<<"comparison", i, j>>] : args = <<a>>
  \/ \E m \in (i + 1)..(j - 1) :
       /\ tokens[m].t = ","
       /\ \E a \in Trees[<<"comparison", i, m - 1>>], as \in Trees[<<"list", m + 1, j>>] : args = Longer(a, as)

LEMMA ListIs ==
  ASSUME Tokened, NEW i, NEW j, InSpan(i, j), NEW args
  PROVE  args \in Trees[<<"list", i, j>>] <=> IsList(args, i, j)
<1>1. i \in Int /\ j \in Int
  BY InSpanIs
<1>2. CASE i > j
  <2>1. Trees[<<"list", i, j>>] = {} /\ Trees[<<"comparison", i, j>>] = {}
    BY <1>2, LevelsAre, EmptySpan
  <2>2. \A m : m \notin (i + 1)..(j - 1)
    BY <1>1, <1>2
  <2> QED
    BY <2>1, <2>2 DEF IsList
<1>3. CASE i <= j
  <2>1. Trees[<<"list", i, j>>] = ListTrees(Trees, i, j)
    <3>1. Derived(Trees, "list", i, j) = ListTrees(Trees, i, j)
      BY <1>1, <1>3, DerivedList
    <3> QED
      BY <3>1, TreesAre, LevelsAre
  <2> DEFINE At(m) == { Longer(a, as) : a \in Trees[<<"comparison", i, m - 1>>], as \in Trees[<<"list", m + 1, j>>] }
  <2>2. ListTrees(Trees, i, j) = { <<a>> : a \in Trees[<<"comparison", i, j>>] }
                                 \cup UNION { At(m) : m \in { k \in (i + 1)..(j - 1) : tokens[k].t = "," } }
    BY DEF ListTrees, Longer
  <2>3. \A m : args \in At(m) <=> \E a \in Trees[<<"comparison", i, m - 1>>], as \in Trees[<<"list", m + 1, j>>] :
                                    args = Longer(a, as)
    OBVIOUS
  <2> HIDE DEF At
  <2>4. args \in Trees[<<"list", i, j>>] <=>
           \/ \E a \in Trees[<<"comparison", i, j>>] : args = <<a>>
           \/ \E m \in (i + 1)..(j - 1) : tokens[m].t = "," /\ args \in At(m)
    BY <2>1, <2>2
  <2>5. args \in Trees[<<"list", i, j>>] <=>
           \/ \E a \in Trees[<<"comparison", i, j>>] : args = <<a>>
           \/ \E m \in (i + 1)..(j - 1) :
                /\ tokens[m].t = ","
                /\ \E a \in Trees[<<"comparison", i, m - 1>>], as \in Trees[<<"list", m + 1, j>>] : args = Longer(a, as)
    BY <2>3, <2>4
  <2> QED
    BY <2>5 DEF IsList
<1>4. i > j \/ i <= j
  BY <1>1
<1> QED
  BY <1>2, <1>3, <1>4, Zenon

\* What a primary can be.
LEMMA PrimaryTreesAre ==
  ASSUME Tokened, NEW i, NEW j, InSpan(i, j), i <= j
  PROVE  LET Is == Trees[<<"primary", i, j>>]
         IN /\ tokens[i].t = "number" => Is = IF i = j THEN {NumberExpr} ELSE {}
            /\ tokens[i].t = "(" =>
                 Is = IF i + 1 < j /\ tokens[j].t = ")" THEN Trees[<<"comparison", i + 1, j - 1>>] ELSE {}
            /\ tokens[i].t = "identifier" =>
                 /\ i = j => Is = {VariableExpr(tokens[i].w)}
                 /\ i # j => Is = IF i + 1 < j /\ tokens[i + 1].t = "(" /\ tokens[j].t = ")"
                                  THEN { CallExpr(tokens[i].w, args) :
                                         args \in IF i + 2 = j THEN { <<>> } ELSE Trees[<<"list", i + 2, j - 1>>] }
                                  ELSE {}
            /\ tokens[i].t \notin {"number", "(", "identifier"} => Is = {}
<1>1. i \in Int /\ j \in Int
  BY InSpanIs
<1>2. Trees[<<"primary", i, j>>] = Derived(Trees, "primary", i, j)
  BY TreesAre, LevelsAre
<1>3. LET Is == Derived(Trees, "primary", i, j)
      IN /\ tokens[i].t = "number" => Is = IF i = j THEN {NumberExpr} ELSE {}
         /\ tokens[i].t = "(" =>
              Is = IF i + 1 < j /\ tokens[j].t = ")" THEN Trees[<<"comparison", i + 1, j - 1>>] ELSE {}
         /\ tokens[i].t = "identifier" =>
              /\ i = j => Is = {VariableExpr(tokens[i].w)}
              /\ i # j => Is = IF i + 1 < j /\ tokens[i + 1].t = "(" /\ tokens[j].t = ")"
                               THEN { CallExpr(tokens[i].w, args) :
                                      args \in IF i + 2 = j THEN { <<>> } ELSE Trees[<<"list", i + 2, j - 1>>] }
                               ELSE {}
         /\ tokens[i].t \notin {"number", "(", "identifier"} => Is = {}
  BY <1>1, PrimaryIs
<1> QED
  BY <1>2, <1>3, Zenon

-----------------------------------------------------------------------------
(***************************************************************************)
(* The equations of the parser: what each function returns, by what the    *)
(* functions it calls return.                                              *)
(***************************************************************************)
LEMMA FunctionsAre ==
  /\ "primary" \in ParserFunctions /\ "binoprhs" \in ParserFunctions
  /\ "expression" \in ParserFunctions /\ "arguments" \in ParserFunctions
BY DEF ParserFunctions

\* What the results of the parser's calls have in common.
LEMMA ResultsAre ==
  ASSUME Tokened, NEW f \in ParserFunctions, NEW q \in 0..41, NEW i \in 1..Len(tokens)
  PROVE  LET r == Parse[<<f, q, i>>]
         IN /\ r.cur \in 1..Len(tokens) /\ r.cur \in Int /\ r.cur >= i /\ r.ok \in BOOLEAN
            /\ r.ok /\ f # "binoprhs" => r.cur > i
            /\ r.ok /\ f \in {"binoprhs", "arguments"} => IsSeq(r.tree)
<1> DEFINE r == Parse[<<f, q, i>>]
<1>1. ParserEnds(f, i, r)
  BY ParseEnds
<1> HIDE DEF r
<1>2. r.cur \in 1..Len(tokens)
  BY <1>1 DEF ParserEnds
<1>3. r.cur \in Int
  BY <1>2, PlaceIs
<1> QED
  BY <1>1, <1>3 DEF ParserEnds, r

LEMMA ExpressionParsed ==
  ASSUME Tokened, NEW i \in 1..Len(tokens)
  PROVE  LET r == Parse[<<"expression", 0, i>>]
             lhs == Parse[<<"primary", 0, i>>]
             rhs == Parse[<<"binoprhs", 0, lhs.cur>>]
         IN /\ r.ok <=> lhs.ok /\ rhs.ok
            /\ r.ok => r.tree = Merge(lhs.tree, rhs.tree) /\ r.cur = rhs.cur
<1> DEFINE r == Parse[<<"expression", 0, i>>]
           lhs == Parse[<<"primary", 0, i>>]
           rhs == Parse[<<"binoprhs", 0, lhs.cur>>]
<1>1. r = ParseExpression(Parse, i)
  <2>1. r = Parsed(Parse, "expression", 0, i)
    BY ParseIs, FunctionsAre
  <2> QED
    BY <2>1 DEF Parsed
<1>2. r = CASE ~ lhs.ok -> lhs [] lhs.ok /\ ~ rhs.ok -> rhs [] OTHER -> Ok(Merge(lhs.tree, rhs.tree), rhs.cur)
  BY <1>1 DEF ParseExpression
<1> HIDE DEF r, lhs, rhs
<1>3. CASE ~ lhs.ok
  BY <1>2, <1>3 DEF r, lhs, rhs
<1>4. CASE lhs.ok /\ ~ rhs.ok
  BY <1>2, <1>4 DEF r, lhs, rhs
<1>5. CASE lhs.ok /\ rhs.ok
  <2>1. r = Ok(Merge(lhs.tree, rhs.tree), rhs.cur)
    BY <1>2, <1>5
  <2>2. r.ok = TRUE /\ r.tree = Merge(lhs.tree, rhs.tree) /\ r.cur = rhs.cur
    BY <2>1 DEF Ok, Fail
  <2> QED
    BY <1>5, <2>2 DEF r, lhs, rhs
<1> QED
  BY <1>3, <1>4, <1>5

LEMMA ArgumentsParsed ==
  ASSUME Tokened, NEW i \in 1..Len(tokens)
  PROVE  LET r == Parse[<<"arguments", 0, i>>]
             arg == Parse[<<"expression", 0, i>>]
             next == arg.cur + 1
             rest == Parse[<<"arguments", 0, next>>]
         IN /\ r.ok => arg.ok /\ tokens[arg.cur].t \in {")", ","} /\ next \in 1..Len(tokens)
            /\ arg.ok /\ tokens[arg.cur].t = ")" => r.ok /\ r.tree = <<arg.tree>> /\ r.cur = next
            /\ arg.ok /\ tokens[arg.cur].t = "," =>
                 /\ r.ok <=> rest.ok
                 /\ r.ok => r.tree = <<arg.tree>> \o rest.tree /\ r.cur = rest.cur
<1> DEFINE r == Parse[<<"arguments", 0, i>>]
           arg == Parse[<<"expression", 0, i>>]
           next == arg.cur + 1
           rest == Parse[<<"arguments", 0, next>>]
<1>0. arg.cur \in 1..Len(tokens) /\ 0 \in 0..41
  BY ResultsAre, FunctionsAre
<1>1. r = ParseArguments(Parse, i)
  <2>1. r = Parsed(Parse, "arguments", 0, i)
    BY ParseIs, FunctionsAre
  <2> QED
    BY <2>1 DEF Parsed
<1>2. CASE ~ arg.ok
  <2>1. r = arg
    BY <1>1, <1>2 DEF ParseArguments
  <2> HIDE DEF r, arg, next, rest
  <2> QED
    BY <1>2, <2>1 DEF r, arg, next, rest
<1>3. CASE arg.ok /\ tokens[arg.cur].t = ")"
  <2>1. getNextToken(arg.cur) = next /\ next \in 1..Len(tokens)
    <3> HIDE DEF arg
    <3> QED
      BY <1>0, <1>3, StepOver
  <2>2. r = Ok(<<arg.tree>>, next)
    BY <1>1, <1>3, <2>1 DEF ParseArguments
  <2> DEFINE one == <<arg.tree>>
  <2> HIDE DEF r, arg, next, rest, one
  <2>3. r.ok = TRUE /\ r.tree = one /\ r.cur = next
    BY <2>2 DEF Ok, Fail, one
  <2> QED
    BY <1>3, <2>1, <2>3 DEF r, arg, next, rest, one
<1>4. CASE arg.ok /\ tokens[arg.cur].t = ","
  <2>1. getNextToken(arg.cur) = next /\ next \in 1..Len(tokens)
    <3> HIDE DEF arg
    <3> QED
      BY <1>0, <1>4, StepOver
  <2>2. r = IF rest.ok THEN Ok(<<arg.tree>> \o rest.tree, rest.cur) ELSE rest
    BY <1>1, <1>4, <2>1 DEF ParseArguments
  <2> DEFINE all == <<arg.tree>> \o rest.tree
  <2> HIDE DEF r, arg, next, rest, all
  <2>3. (r.ok <=> rest.ok) /\ (r.ok => r.tree = all /\ r.cur = rest.cur)
    <3>1. CASE rest.ok
      <4>1. r = Ok(all, rest.cur)
        BY <2>2, <3>1 DEF all
      <4>2. r.ok = TRUE /\ r.tree = all /\ r.cur = rest.cur
        BY <4>1 DEF Ok, Fail
      <4> QED
        BY <3>1, <4>2
    <3>2. CASE ~ rest.ok
      BY <2>2, <3>2
    <3> QED
      BY <3>1, <3>2
  <2> QED
    BY <1>4, <2>1, <2>3 DEF r, arg, next, rest, all
<1>5. CASE arg.ok /\ tokens[arg.cur].t \notin {")", ","}
  <2>1. r = Fail(arg.cur)
    BY <1>1, <1>5 DEF ParseArguments
  <2>2. ~ r.ok
    BY <2>1 DEF Ok, Fail
  <2> HIDE DEF r, arg, next, rest
  <2> QED
    BY <1>5, <2>2 DEF r, arg, next, rest
<1> QED
  BY <1>2, <1>3, <1>4, <1>5

\* Whether or not an operator behind it takes it for its left operand, the right operand
\* is the primary merged with the operands that bind tighter.
LEMMA OperandsParsed ==
  ASSUME Tokened, NEW i \in 1..Len(tokens), NEW q \in 0..41
  PROVE  LET r == Parse[<<"binoprhs", q, i>>]
             prec == GetTokPrecedence(i)
             primary == Parse[<<"primary", 0, i + 1>>]
             pending == Parse[<<"binoprhs", prec + 1, primary.cur>>]
             rest == Parse[<<"binoprhs", q, pending.cur>>]
         IN /\ prec < q => r.ok /\ r.tree = <<>> /\ r.cur = i
            /\ prec >= q => /\ prec \in {10, 20, 40} /\ i + 1 \in 1..Len(tokens)
                            /\ r.ok <=> primary.ok /\ pending.ok /\ rest.ok
                            /\ r.ok => /\ r.tree = <<[op |-> tokens[i].t,
                                                      rhs |-> Merge(primary.tree, pending.tree)]>> \o rest.tree
                                       /\ r.cur = rest.cur
<1> DEFINE r == Parse[<<"binoprhs", q, i>>]
           prec == GetTokPrecedence(i)
           primary == Parse[<<"primary", 0, i + 1>>]
           pending == Parse[<<"binoprhs", prec + 1, primary.cur>>]
           rest == Parse[<<"binoprhs", q, pending.cur>>]
           operand == [op |-> tokens[i].t, rhs |-> Merge(primary.tree, pending.tree)]
           all == <<operand>> \o rest.tree
<1>0. prec \in {-1, 10, 20, 40} /\ q \in Int /\ q >= 0
  BY PrecedenceIs
<1>1. r = ParseBinOpRHS(Parse, q, i)
  <2>1. r = Parsed(Parse, "binoprhs", q, i)
    BY ParseIs, FunctionsAre
  <2> QED
    BY <2>1 DEF Parsed
<1>2. CASE prec < q
  <2>1. r = Ok(<<>>, i)
    <3>1. ~ (prec >= q)
      <4> HIDE DEF prec
      <4> QED
        BY <1>0, <1>2
    <3> QED
      BY <1>1, <1>2, <3>1 DEF ParseBinOpRHS
  <2> DEFINE none == <<>>
  <2> HIDE DEF r, none
  <2>2. r.ok = TRUE /\ r.tree = none /\ r.cur = i
    BY <2>1 DEF Ok, none
  <2>3. ~ (prec >= q)
    <3> HIDE DEF prec
    <3> QED
      BY <1>0, <1>2
  <2> HIDE DEF r, primary, pending, rest, prec
  <2> QED
    BY <2>2, <2>3 DEF r, primary, pending, rest, prec, none
<1>3. CASE prec >= q
  <2>1. prec \in {10, 20, 40} /\ ~ (prec < q) /\ prec + 1 \in 0..41
    <3> HIDE DEF prec
    <3> QED
      BY <1>0, <1>3
  <2>2. getNextToken(i) = i + 1 /\ i + 1 \in 1..Len(tokens)
    <3>1. tokens[i].t \notin {"eof", ";"}
      BY <2>1, PrecedenceIs
    <3> QED
      BY <3>1, StepOver
  <2>3. primary.cur \in 1..Len(tokens) /\ primary.ok \in BOOLEAN
    BY <2>2, ResultsAre, FunctionsAre
  <2>4. pending.cur \in 1..Len(tokens) /\ pending.ok \in BOOLEAN
    <3> HIDE DEF primary, prec
    <3> QED
      BY <2>1, <2>3, ResultsAre, FunctionsAre
  <2> DEFINE bound == GetTokPrecedence(primary.cur)
             right == CASE ~ primary.ok \/ prec >= bound -> primary
                        [] OTHER -> IF pending.ok THEN Ok(Merge(primary.tree, pending.tree), pending.cur) ELSE pending
             more == Parse[<<"binoprhs", q, right.cur>>]
  <2>5. r = CASE prec < q -> Ok(<<>>, i)
              [] prec >= q /\ ~ right.ok -> right
              [] OTHER -> IF more.ok THEN Ok(<<[op |-> tokens[i].t, rhs |-> right.tree]>> \o more.tree, more.cur)
                          ELSE more
    BY <1>1, <2>2 DEF ParseBinOpRHS
  <2>6. bound \in {-1, 10, 20, 40}
    <3> HIDE DEF primary
    <3> QED
      BY PrecedenceIs
  <2>7. bound <= prec => pending.ok /\ pending.tree = <<>> /\ pending.cur = primary.cur
    <3> SUFFICES ASSUME bound <= prec PROVE pending.ok /\ pending.tree = <<>> /\ pending.cur = primary.cur
      OBVIOUS
    <3>1. pending = ParseBinOpRHS(Parse, prec + 1, primary.cur)
      <4> HIDE DEF primary, prec
      <4>1. pending = Parsed(Parse, "binoprhs", prec + 1, primary.cur)
        BY <2>1, <2>3, ParseIs, FunctionsAre
      <4> QED
        BY <4>1 DEF Parsed
    <3>2. bound < prec + 1
      <4> HIDE DEF bound, prec
      <4> QED
        BY <2>1, <2>6
    <3>3. pending = Ok(<<>>, primary.cur)
      <4>1. ~ (bound >= prec + 1)
        <5> HIDE DEF bound, prec
        <5> QED
          BY <2>1, <2>6
      <4> HIDE DEF pending, primary, prec
      <4> QED
        BY <3>1, <3>2, <4>1 DEF ParseBinOpRHS
    <3> DEFINE none == <<>>
    <3> HIDE DEF pending, primary, prec, none
    <3>4. pending.ok = TRUE /\ pending.tree = none /\ pending.cur = primary.cur
      BY <3>3 DEF Ok, none
    <3> QED
      BY <3>4 DEF none
  <2> HIDE DEF r, primary, pending, prec, bound
  <2>8. CASE ~ primary.ok
    <3>1. right = primary
      BY <2>8
    <3>2. r = primary
      BY <2>1, <2>5, <2>8, <3>1, <1>3
    <3> QED
      BY <2>1, <2>2, <2>8, <3>2 DEF r, primary, pending, prec
  <2>9. CASE primary.ok /\ ~ pending.ok
    <3>1. ~ (bound <= prec)
      BY <2>7, <2>9
    <3>2. ~ (prec >= bound)
      BY <2>1, <2>6, <3>1
    <3>3. right = pending
      BY <2>9, <3>2
    <3>4. r = pending
      BY <2>1, <2>5, <2>9, <3>3, <1>3
    <3> QED
      BY <2>1, <2>2, <2>9, <3>4 DEF r, primary, pending, prec
  <2>10. CASE primary.ok /\ pending.ok
    <3> DEFINE merged == Merge(primary.tree, pending.tree)
    <3>1. right.ok /\ right.tree = merged /\ right.cur = pending.cur
      <4>1. CASE prec >= bound
        <5>1. bound <= prec
          BY <2>1, <2>6, <4>1
        <5>2. right = primary
          BY <4>1
        <5>3. merged = primary.tree
          BY <2>7, <5>1, MergeNone
        <5> HIDE DEF right
        <5> QED
          BY <2>7, <2>10, <5>1, <5>2, <5>3
      <4>2. CASE ~ (prec >= bound)
        <5>1. right = Ok(merged, pending.cur)
          BY <2>10, <4>2
        <5> HIDE DEF right, merged
        <5> QED
          BY <5>1 DEF Ok, Fail
      <4> QED
        BY <4>1, <4>2
    <3>2. more = rest
      BY <3>1
    <3>3. <<[op |-> tokens[i].t, rhs |-> right.tree]>> \o more.tree = all
      BY <3>1, <3>2
    <3> HIDE DEF right, more, rest
    <3>4. r = IF rest.ok THEN Ok(all, rest.cur) ELSE rest
      BY <2>1, <2>5, <3>1, <3>2, <3>3, <1>3
    <3> HIDE DEF all
    <3>5. (r.ok <=> rest.ok) /\ (r.ok => r.tree = all /\ r.cur = rest.cur)
      <4>1. CASE rest.ok
        <5>1. r = Ok(all, rest.cur)
          BY <3>4, <4>1
        <5>2. r.ok = TRUE /\ r.tree = all /\ r.cur = rest.cur
          BY <5>1 DEF Ok, Fail
        <5> QED
          BY <4>1, <5>2
      <4>2. CASE ~ rest.ok
        BY <3>4, <4>2
      <4> QED
        BY <4>1, <4>2
    <3> QED
      BY <2>1, <2>2, <2>10, <3>5 DEF r, primary, pending, prec, rest, all
  <2> QED
    BY <2>3, <2>4, <2>8, <2>9, <2>10
<1>4. prec < q \/ prec >= q
  <2> HIDE DEF prec
  <2> QED
    BY <1>0
<1> QED
  BY <1>2, <1>3, <1>4

LEMMA PrimaryParsed ==
  ASSUME Tokened, NEW i \in 1..Len(tokens)
  PROVE  LET r == Parse[<<"primary", 0, i>>]
             v == Parse[<<"expression", 0, i + 1>>]
             args == Parse[<<"arguments", 0, i + 2>>]
             w == tokens[i].w
         IN /\ tokens[i].t \notin {"number", "(", "identifier"} => ~ r.ok
            /\ tokens[i].t \in {"number", "(", "identifier"} => i + 1 \in 1..Len(tokens)
            /\ tokens[i].t = "number" => r.ok /\ r.tree = NumberExpr /\ r.cur = i + 1
            /\ tokens[i].t = "(" =>
                 /\ r.ok <=> v.ok /\ tokens[v.cur].t = ")"
                 /\ r.ok => r.tree = v.tree /\ r.cur = v.cur + 1
            /\ tokens[i].t = "identifier" /\ tokens[i + 1].t # "(" =>
                 r.ok /\ r.tree = VariableExpr(w) /\ r.cur = i + 1
            /\ tokens[i].t = "identifier" /\ tokens[i + 1].t = "(" =>
                 /\ i + 2 \in 1..Len(tokens)
                 /\ tokens[i + 2].t = ")" => r.ok /\ r.tree = CallExpr(w, <<>>) /\ r.cur = i + 3
                 /\ tokens[i + 2].t # ")" =>
                      /\ r.ok <=> args.ok
                      /\ r.ok => r.tree = CallExpr(w, args.tree) /\ r.cur = args.cur
<1> DEFINE r == Parse[<<"primary", 0, i>>]
           v == Parse[<<"expression", 0, i + 1>>]
           args == Parse[<<"arguments", 0, i + 2>>]
           w == tokens[i].w
<1>1. r = ParsePrimary(Parse, i)
  <2>1. r = Parsed(Parse, "primary", 0, i)
    BY ParseIs, FunctionsAre
  <2> QED
    BY <2>1 DEF Parsed
<1>2. tokens[i].t \in {"number", "(", "identifier"} =>
        getNextToken(i) = i + 1 /\ i + 1 \in 1..Len(tokens)
  BY StepOver
<1>3. i \in Int
  BY PlaceIs
<1>4. CASE tokens[i].t \notin {"number", "(", "identifier"}
  <2>1. r = Fail(i)
    BY <1>1, <1>4 DEF ParsePrimary
  <2>2. ~ r.ok
    BY <2>1 DEF Ok, Fail
  <2> HIDE DEF r, v, args
  <2> QED
    BY <1>4, <2>2 DEF r, v, args
<1>5. CASE tokens[i].t = "number"
  <2>1. r = Ok(NumberExpr, i + 1)
    BY <1>1, <1>2, <1>5 DEF ParsePrimary
  <2> HIDE DEF r, v, args
  <2>2. r.ok = TRUE /\ r.tree = NumberExpr /\ r.cur = i + 1
    BY <2>1 DEF Ok
  <2> QED
    BY <1>2, <1>5, <2>2 DEF r, v, args
<1>6. CASE tokens[i].t = "("
  <2>0. v.cur \in 1..Len(tokens) /\ v.ok \in BOOLEAN
    BY <1>2, <1>6, ResultsAre, FunctionsAre
  <2>1. r = CASE ~ v.ok -> v
              [] v.ok /\ tokens[v.cur].t # ")" -> Fail(v.cur)
              [] OTHER -> Ok(v.tree, getNextToken(v.cur))
    BY <1>1, <1>2, <1>6 DEF ParsePrimary, ParseParenExpr
  <2> HIDE DEF r, v, args
  <2>2. (r.ok <=> v.ok /\ tokens[v.cur].t = ")") /\ (r.ok => r.tree = v.tree /\ r.cur = v.cur + 1)
    <3>1. CASE ~ v.ok
      BY <2>1, <3>1
    <3>2. CASE v.ok /\ tokens[v.cur].t # ")"
      <4>1. r = Fail(v.cur)
        BY <2>1, <3>2
      <4> QED
        BY <3>2, <4>1 DEF Ok, Fail
    <3>3. CASE v.ok /\ tokens[v.cur].t = ")"
      <4>1. getNextToken(v.cur) = v.cur + 1
        BY <2>0, <3>3, StepOver
      <4>2. r = Ok(v.tree, v.cur + 1)
        BY <2>1, <3>3, <4>1
      <4>3. r.ok = TRUE /\ r.tree = v.tree /\ r.cur = v.cur + 1
        BY <4>2 DEF Ok, Fail
      <4> QED
        BY <3>3, <4>3
    <3> QED
      BY <3>1, <3>2, <3>3
  <2> QED
    BY <1>2, <1>6, <2>2 DEF r, v, args
<1>7. CASE tokens[i].t = "identifier"
  <2>1. getNextToken(i) = i + 1 /\ i + 1 \in 1..Len(tokens)
    BY <1>2, <1>7
  <2>2. r = ParseIdentifierExpr(Parse, i)
    BY <1>1, <1>7 DEF ParsePrimary
  <2>3. CASE tokens[i + 1].t # "("
    <3>1. r = Ok(VariableExpr(w), i + 1)
      BY <2>1, <2>2, <2>3 DEF ParseIdentifierExpr
    <3> HIDE DEF r, v, args
    <3>2. r.ok = TRUE /\ r.tree = VariableExpr(w) /\ r.cur = i + 1
      BY <3>1 DEF Ok
    <3> QED
      BY <1>7, <2>1, <2>3, <3>2 DEF r, v, args
  <2>4. CASE tokens[i + 1].t = "("
    <3>1. getNextToken(i + 1) = i + 2 /\ i + 2 \in 1..Len(tokens)
      <4>1. getNextToken(i + 1) = (i + 1) + 1 /\ (i + 1) + 1 \in 1..Len(tokens)
        BY <2>1, <2>4, StepOver
      <4>2. (i + 1) + 1 = i + 2
        BY <1>3
      <4> QED
        BY <4>1, <4>2
    <3>2. CASE tokens[i + 2].t = ")"
      <4>1. getNextToken(i + 2) = i + 3
        <5>1. getNextToken(i + 2) = (i + 2) + 1
          BY <3>1, <3>2, StepOver
        <5>2. (i + 2) + 1 = i + 3
          BY <1>3
        <5> QED
          BY <5>1, <5>2
      <4>2. r = Ok(CallExpr(w, <<>>), i + 3)
        BY <2>1, <2>2, <2>4, <3>1, <3>2, <4>1 DEF ParseIdentifierExpr
      <4> HIDE DEF r, v, args
      <4>3. r.ok = TRUE /\ r.tree = CallExpr(w, <<>>) /\ r.cur = i + 3
        BY <4>2 DEF Ok
      <4> QED
        BY <1>7, <2>1, <2>4, <3>1, <3>2, <4>3 DEF r, v, args
    <3>3. CASE tokens[i + 2].t # ")"
      <4>1. r = IF args.ok THEN Ok(CallExpr(w, args.tree), args.cur) ELSE args
        BY <2>1, <2>2, <2>4, <3>1, <3>3 DEF ParseIdentifierExpr
      <4> DEFINE tree == CallExpr(w, args.tree)
      <4> HIDE DEF r, v, args, tree
      <4>2. (r.ok <=> args.ok) /\ (r.ok => r.tree = tree /\ r.cur = args.cur)
        <5>1. CASE args.ok
          <6>1. r = Ok(tree, args.cur)
            BY <4>1, <5>1 DEF tree
          <6>2. r.ok = TRUE /\ r.tree = tree /\ r.cur = args.cur
            BY <6>1 DEF Ok, Fail
          <6> QED
            BY <5>1, <6>2
        <5>2. CASE ~ args.ok
          BY <4>1, <5>2
        <5> QED
          BY <5>1, <5>2
      <4> QED
        BY <1>7, <2>1, <2>4, <3>1, <3>3, <4>2 DEF r, v, args, tree
    <3> QED
      BY <3>2, <3>3
  <2> QED
    BY <2>3, <2>4
<1> QED
  BY <1>4, <1>5, <1>6, <1>7

-----------------------------------------------------------------------------
(***************************************************************************)
(* What the parser reads is what the grammar derives.  ParseBinOpRHS is    *)
(* given a left operand of a level no lower than the operator in front of  *)
(* it, and ends before an operator that binds less tightly than asked for. *)
(***************************************************************************)
\* The name in front of a parenthesis has not been read without it.
Closed(i) == ~ (tokens[i - 1].t = "identifier" /\ tokens[i].t = "(")

Sound(f, q, i, r) ==
  r.ok => /\ f = "primary" => r.tree \in Trees[<<"primary", i, r.cur - 1>>] /\ Closed(r.cur)
          /\ f = "expression" => /\ r.tree \in Trees[<<"comparison", i, r.cur - 1>>]
                                 /\ Closed(r.cur) /\ GetTokPrecedence(r.cur) = -1
          /\ f = "arguments" => r.tree \in Trees[<<"list", i, r.cur - 2>>] /\ tokens[r.cur - 1].t = ")"
          /\ f = "binoprhs" =>
               /\ GetTokPrecedence(r.cur) < q
               /\ Closed(i) => Closed(r.cur)
               /\ \A h \in 1..(i - 1), p \in 0..41 : q <= p /\ GetTokPrecedence(i) <= p =>
                    \A a \in Trees[<<Low(p), h, i - 1>>] : Merge(a, r.tree) \in Trees[<<Low(q), h, r.cur - 1>>]

SoundAt(f, q, i) == Sound(f, q, i, Parse[<<f, q, i>>])

SoundBelow(i, rank) ==
  \A f \in ParserFunctions, q \in 0..41, j \in 1..Len(tokens) :
    (f = "binoprhs" \/ q = 0) /\ (j > i \/ (j = i /\ Rank(f) < rank)) => SoundAt(f, q, j)

LEMMA SpanOf ==
  ASSUME Tokened, NEW i \in 1..Len(tokens), NEW j \in Int, j >= 0, j <= Len(tokens)
  PROVE  InSpan(i, j)
BY PlaceIs DEF InSpan

LEMMA PrecedenceLess ==
  ASSUME NEW i
  PROVE  /\ GetTokPrecedence(i) \in Int /\ GetTokPrecedence(i) <= 41
         /\ GetTokPrecedence(i) < 0 => GetTokPrecedence(i) = -1
<1>1. GetTokPrecedence(i) \in {-1, 10, 20, 40}
  BY PrecedenceIs
<1> QED
  BY <1>1

LEMMA PrimaryEnds ==
  ASSUME Tokened, NEW i \in 1..Len(tokens)
  PROVE  LET r == Parse[<<"primary", 0, i>>]
         IN r.cur \in 1..Len(tokens) /\ r.cur \in Int /\ (r.ok => r.cur > i)
<1>1. 0 \in 0..41
  OBVIOUS
<1> QED
  BY <1>1, ResultsAre, FunctionsAre

LEMMA ArgumentsEnd ==
  ASSUME Tokened, NEW i \in 1..Len(tokens)
  PROVE  LET r == Parse[<<"arguments", 0, i>>]
         IN r.cur \in 1..Len(tokens) /\ r.cur \in Int /\ (r.ok => r.cur > i)
<1>1. 0 \in 0..41
  OBVIOUS
<1> QED
  BY <1>1, ResultsAre, FunctionsAre

LEMMA OperandsSound ==
  ASSUME Tokened, NEW i \in 1..Len(tokens), NEW q \in 0..41, SoundBelow(i, 0)
  PROVE  SoundAt("binoprhs", q, i)
<1> DEFINE r == Parse[<<"binoprhs", q, i>>]
           prec == GetTokPrecedence(i)
           primary == Parse[<<"primary", 0, i + 1>>]
           pending == Parse[<<"binoprhs", prec + 1, primary.cur>>]
           rest == Parse[<<"binoprhs", q, pending.cur>>]
           pt == primary.tree
           right == Merge(pt, pending.tree)
           operand == [op |-> tokens[i].t, rhs |-> right]
<1>0. /\ i \in Int /\ prec \in Int /\ prec <= 41 /\ q \in Int /\ q >= 0 /\ q <= 41 /\ Len(tokens) \in Int
      /\ i >= 1 /\ i <= Len(tokens)
  BY PlaceIs, PrecedenceLess
<1>1. CASE prec < q
  <2>1. r.ok /\ r.tree = <<>> /\ r.cur = i
    BY <1>1, OperandsParsed
  <2>2. ASSUME NEW h \in 1..(i - 1), NEW p \in 0..41, q <= p, NEW a \in Trees[<<Low(p), h, i - 1>>]
        PROVE  Merge(a, <<>>) \in Trees[<<Low(q), h, i - 1>>]
    <3>1. h \in 1..Len(tokens) /\ i - 1 \in Int /\ i - 1 >= 0 /\ i - 1 <= Len(tokens)
      BY <1>0
    <3>2. InSpan(h, i - 1)
      BY <3>1, SpanOf
    <3> QED
      BY <2>2, <3>2, LowerLevel, MergeNone
  <2> HIDE DEF r, prec
  <2>3. Sound("binoprhs", q, i, r)
    BY <1>1, <2>1, <2>2 DEF Sound, prec
  <2> QED
    BY <2>3 DEF SoundAt, r
<1>2. CASE prec >= q /\ ~ r.ok
  BY <1>2 DEF SoundAt, Sound
<1>3. CASE prec >= q /\ r.ok
  <2>1. /\ prec \in {10, 20, 40} /\ i + 1 \in 1..Len(tokens)
        /\ primary.ok /\ pending.ok /\ rest.ok
        /\ r.tree = <<operand>> \o rest.tree /\ r.cur = rest.cur
    BY <1>3, OperandsParsed
  <2> DEFINE c == primary.cur
             d == pending.cur
             e == rest.cur
  <2>2. c \in 1..Len(tokens) /\ c \in Int /\ c > i + 1
    <3>1. i + 1 \in 1..Len(tokens) /\ primary.ok
      <4> HIDE DEF r, operand, prec, pending, rest, primary
      <4> QED
        BY <2>1
    <3> QED
      BY <3>1, PrimaryEnds
  <2>3. prec + 1 \in 0..41 /\ prec \in 0..41
    <3>1. prec \in {10, 20, 40}
      BY <2>1
    <3> HIDE DEF prec
    <3> QED
      BY <3>1
  <2>4. d \in 1..Len(tokens) /\ d \in Int /\ d >= c
    <3> HIDE DEF c, prec
    <3>1. LET s == Parse[<<"binoprhs", prec + 1, c>>] IN s.cur \in 1..Len(tokens) /\ s.cur \in Int /\ s.cur >= c
      BY <2>2, <2>3, ResultsAre, FunctionsAre
    <3> QED
      BY <3>1 DEF c
  <2>5. e \in 1..Len(tokens) /\ e \in Int /\ e >= d /\ IsSeq(rest.tree)
    <3> HIDE DEF d
    <3>1. LET s == Parse[<<"binoprhs", q, d>>]
          IN s.cur \in 1..Len(tokens) /\ s.cur \in Int /\ s.cur >= d /\ (s.ok => IsSeq(s.tree))
      BY <2>4, ResultsAre, FunctionsAre
    <3> QED
      BY <2>1, <3>1 DEF d
  <2>6. i + 1 > i /\ c > i /\ d > i
    BY <1>0, <2>2, <2>4
  <2>7. pt \in Trees[<<"primary", i + 1, c - 1>>] /\ Closed(c)
    <3>1. SoundAt("primary", 0, i + 1)
      <4>1. i + 1 \in 1..Len(tokens) /\ i + 1 > i /\ 0 \in 0..41
        <5> HIDE DEF r, operand, prec, pending, rest, primary, c, d
        <5> QED
          BY <2>1, <2>6
      <4> HIDE DEF r, operand, prec, pending, rest, primary, c, d
      <4> QED
        BY <4>1, FunctionsAre DEF SoundBelow
    <3> QED
      BY <2>1, <3>1 DEF SoundAt, Sound
  <2>8. /\ GetTokPrecedence(d) < prec + 1 /\ Closed(d)
        /\ right \in Trees[<<Low(prec + 1), i + 1, d - 1>>]
    <3>1. SoundAt("binoprhs", prec + 1, c)
      <4> HIDE DEF c, prec
      <4> QED
        BY <2>2, <2>3, <2>6, FunctionsAre DEF SoundBelow
    <3>2. Sound("binoprhs", prec + 1, c, pending)
      BY <3>1 DEF SoundAt
    <3>3. i + 1 \in 1..(c - 1) /\ 41 \in 0..41 /\ prec + 1 <= 41
      <4> HIDE DEF c, prec
      <4> QED
        BY <1>0, <2>2, <2>3
    <3>4. GetTokPrecedence(c) <= 41
      BY PrecedenceLess
    <3>5. pt \in Trees[<<Low(41), i + 1, c - 1>>]
      BY <2>7, LowIs
    <3> HIDE DEF c, d, prec, pending, pt, primary
    <3>6. GetTokPrecedence(pending.cur) < prec + 1 /\ Closed(pending.cur)
      BY <2>1, <2>7, <3>2 DEF Sound
    <3>7. Merge(pt, pending.tree) \in Trees[<<Low(prec + 1), i + 1, pending.cur - 1>>]
      BY <2>1, <3>2, <3>3, <3>4, <3>5 DEF Sound
    <3> QED
      BY <3>6, <3>7 DEF d
  <2>9. Sound("binoprhs", q, d, rest)
    <3>1. SoundAt("binoprhs", q, d)
      <4> HIDE DEF d
      <4> QED
        BY <2>4, <2>6, FunctionsAre DEF SoundBelow
    <3> QED
      BY <3>1 DEF SoundAt
  <2>10. GetTokPrecedence(e) < q /\ Closed(e)
    <3> HIDE DEF rest, d
    <3> QED
      BY <2>1, <2>8, <2>9 DEF Sound
  <2>11. ASSUME NEW h \in 1..(i - 1), NEW p \in 0..41, q <= p, prec <= p, NEW a \in Trees[<<Low(p), h, i - 1>>]
         PROVE  Merge(a, r.tree) \in Trees[<<Low(q), h, e - 1>>]
    <3>1. /\ h \in 1..Len(tokens) /\ h \in Int /\ i - 1 \in Int /\ i - 1 >= 0 /\ i - 1 <= Len(tokens)
          /\ d - 1 \in Int /\ d - 1 >= 0 /\ d - 1 <= Len(tokens)
          /\ i \in (h + 1)..((d - 1) - 1) /\ h \in 1..(d - 1)
      <4> HIDE DEF c, d
      <4> QED
        BY <1>0, <2>2, <2>4
    <3>2. InSpan(h, i - 1) /\ InSpan(h, d - 1)
      <4> HIDE DEF d
      <4> QED
        BY <3>1, SpanOf
    <3>3. a \in Trees[<<Low(prec), h, i - 1>>]
      <4> HIDE DEF prec
      <4> QED
        BY <2>3, <2>11, <3>2, LowerLevel
    <3> DEFINE joined == BinaryExpr(tokens[i].t, a, right)
    <3>4. joined \in Trees[<<Low(prec), h, d - 1>>]
      <4>1. GetTokPrecedence(i) = prec
        OBVIOUS
      <4> HIDE DEF prec, right, d
      <4> QED
        BY <2>1, <2>8, <3>1, <3>2, <3>3, <4>1, OperatorJoins
    <3>5. Merge(joined, rest.tree) \in Trees[<<Low(q), h, e - 1>>]
      <4>1. q <= prec /\ GetTokPrecedence(d) <= prec
        <5>1. GetTokPrecedence(d) \in Int
          BY PrecedenceLess
        <5> HIDE DEF prec, d
        <5> QED
          BY <1>0, <1>3, <2>8, <5>1
      <4> HIDE DEF joined, rest, d, prec
      <4> QED
        BY <2>1, <2>3, <2>9, <3>1, <3>4, <4>1 DEF Sound
    <3>6. Merge(a, r.tree) = Merge(BinaryExpr(operand.op, a, operand.rhs), rest.tree)
      <4> HIDE DEF operand, rest, r
      <4> QED
        BY <2>1, <2>5, MergeFirst
    <3>7. operand.op = tokens[i].t /\ operand.rhs = right
      OBVIOUS
    <3> HIDE DEF operand, right, r, rest
    <3> QED
      BY <3>5, <3>6, <3>7
  <2>12. r.cur = e /\ GetTokPrecedence(i) = prec
    BY <2>1
  <2> HIDE DEF r, e, prec
  <2>13. Sound("binoprhs", q, i, r)
    BY <2>10, <2>11, <2>12 DEF Sound
  <2> QED
    BY <2>13 DEF SoundAt, r
<1>4. prec < q \/ prec >= q
  <2> HIDE DEF prec
  <2> QED
    BY <1>0
<1> QED
  BY <1>1, <1>2, <1>3, <1>4

LEMMA ExpressionSound ==
  ASSUME Tokened, NEW i \in 1..Len(tokens), SoundBelow(i, 1)
  PROVE  SoundAt("expression", 0, i)
<1> DEFINE r == Parse[<<"expression", 0, i>>]
           lhs == Parse[<<"primary", 0, i>>]
           c == lhs.cur
           rhs == Parse[<<"binoprhs", 0, c>>]
<1>0. i \in Int /\ i >= 1 /\ 0 \in 0..41
  BY PlaceIs
<1>1. (r.ok <=> lhs.ok /\ rhs.ok) /\ (r.ok => r.tree = Merge(lhs.tree, rhs.tree) /\ r.cur = rhs.cur)
  BY ExpressionParsed
<1>2. CASE ~ r.ok
  BY <1>2 DEF SoundAt, Sound
<1>3. CASE r.ok
  <2>1. c \in 1..Len(tokens) /\ c \in Int /\ c > i
    BY <1>0, <1>1, <1>3, ResultsAre, FunctionsAre
  <2>2. lhs.tree \in Trees[<<"primary", i, c - 1>>] /\ Closed(c)
    <3>1. SoundAt("primary", 0, i)
      BY <1>0, FunctionsAre, RankIs DEF SoundBelow
    <3> QED
      BY <1>1, <1>3, <3>1 DEF SoundAt, Sound
  <2>3. Sound("binoprhs", 0, c, rhs)
    <3>1. SoundAt("binoprhs", 0, c)
      <4> HIDE DEF c
      <4> QED
        BY <1>0, <2>1, FunctionsAre DEF SoundBelow
    <3> QED
      BY <3>1 DEF SoundAt
  <2>4. i \in 1..(c - 1) /\ 41 \in 0..41 /\ 0 <= 41
    <3> HIDE DEF c
    <3> QED
      BY <1>0, <2>1
  <2>5. GetTokPrecedence(c) <= 41
    BY PrecedenceLess
  <2>6. lhs.tree \in Trees[<<Low(41), i, c - 1>>]
    BY <2>2, LowIs
  <2> HIDE DEF r, lhs, rhs, c
  <2>7. GetTokPrecedence(rhs.cur) < 0 /\ Closed(rhs.cur)
    BY <1>1, <1>3, <2>2, <2>3 DEF Sound
  <2>8. Merge(lhs.tree, rhs.tree) \in Trees[<<Low(0), i, rhs.cur - 1>>]
    BY <1>1, <1>3, <2>3, <2>4, <2>5, <2>6 DEF Sound
  <2>9. r.tree \in Trees[<<"comparison", i, r.cur - 1>>] /\ Closed(r.cur) /\ GetTokPrecedence(r.cur) = -1
    BY <1>1, <1>3, <2>7, <2>8, LowIs, PrecedenceLess
  <2>10. Sound("expression", 0, i, r)
    BY <2>9 DEF Sound
  <2> QED
    BY <2>10 DEF SoundAt, r
<1> QED
  BY <1>2, <1>3

LEMMA ArgumentsSound ==
  ASSUME Tokened, NEW i \in 1..Len(tokens), SoundBelow(i, 2)
  PROVE  SoundAt("arguments", 0, i)
<1> DEFINE r == Parse[<<"arguments", 0, i>>]
           arg == Parse[<<"expression", 0, i>>]
           c == arg.cur
           next == c + 1
           rest == Parse[<<"arguments", 0, next>>]
           d == rest.cur
<1>0. i \in Int /\ i >= 1 /\ 0 \in 0..41 /\ Len(tokens) \in Int
  BY PlaceIs
<1>1. /\ r.ok => arg.ok /\ tokens[c].t \in {")", ","} /\ next \in 1..Len(tokens)
      /\ arg.ok /\ tokens[c].t = ")" => r.ok /\ r.tree = <<arg.tree>> /\ r.cur = next
      /\ arg.ok /\ tokens[c].t = "," => /\ r.ok <=> rest.ok
                                        /\ r.ok => r.tree = <<arg.tree>> \o rest.tree /\ r.cur = rest.cur
  BY ArgumentsParsed
<1>2. CASE ~ r.ok
  BY <1>2 DEF SoundAt, Sound
<1>3. CASE r.ok
  <2>1. c \in 1..Len(tokens) /\ c \in Int /\ c > i
    BY <1>0, <1>1, <1>3, ResultsAre, FunctionsAre
  <2>2. arg.tree \in Trees[<<"comparison", i, c - 1>>]
    <3>1. SoundAt("expression", 0, i)
      BY <1>0, FunctionsAre, RankIs DEF SoundBelow
    <3> QED
      BY <1>1, <1>3, <3>1 DEF SoundAt, Sound
  <2>3. CASE tokens[c].t = ")"
    <3>1. r.tree = <<arg.tree>> /\ r.cur = next
      BY <1>1, <1>3, <2>3
    <3>2. next - 2 = c - 1 /\ next - 1 = c /\ c - 1 \in Int /\ c - 1 >= 0 /\ c - 1 <= Len(tokens)
      <4> HIDE DEF c
      <4> QED
        BY <1>0, <2>1
    <3>3. InSpan(i, c - 1)
      BY <3>2, SpanOf
    <3>4. <<arg.tree>> \in Trees[<<"list", i, c - 1>>]
      BY <2>2, <3>3, ListIs DEF Longer, IsList
    <3> DEFINE one == <<arg.tree>>
    <3> HIDE DEF r, c, next, one
    <3>5. r.tree \in Trees[<<"list", i, r.cur - 2>>] /\ tokens[r.cur - 1].t = ")"
      BY <2>3, <3>1, <3>2, <3>4 DEF one
    <3>6. Sound("arguments", 0, i, r)
      BY <3>5 DEF Sound
    <3> QED
      BY <3>6 DEF SoundAt, r
  <2>4. CASE tokens[c].t = ","
    <3>1. rest.ok /\ r.tree = <<arg.tree>> \o rest.tree /\ r.cur = d
      BY <1>1, <1>3, <2>4
    <3>2. next \in 1..Len(tokens) /\ next > i
      <4>1. next \in 1..Len(tokens)
        BY <1>1, <1>3
      <4>2. next > i
        <5> HIDE DEF c
        <5> QED
          BY <1>0, <2>1
      <4> QED
        BY <4>1, <4>2
    <3>3. d \in 1..Len(tokens) /\ d \in Int /\ d > next
      <4> HIDE DEF next
      <4> QED
        BY <3>1, <3>2, ArgumentsEnd
    <3>4. rest.tree \in Trees[<<"list", next, d - 2>>] /\ tokens[d - 1].t = ")"
      <4>1. SoundAt("arguments", 0, next)
        <5> HIDE DEF next
        <5> QED
          BY <1>0, <3>2, FunctionsAre DEF SoundBelow
      <4> QED
        BY <3>1, <4>1 DEF SoundAt, Sound
    <3>5. d - 2 \in Int /\ d - 2 >= 0 /\ d - 2 <= Len(tokens)
      <4> HIDE DEF d, c
      <4> QED
        BY <1>0, <2>1, <3>3
    <3>6. InSpan(next, d - 2) /\ InSpan(i, d - 2)
      <4> HIDE DEF d, next
      <4> QED
        BY <3>2, <3>5, SpanOf
    <3>7. ~ (next > d - 2)
      <4> HIDE DEF d, next, rest
      <4> QED
        BY <3>4, <3>6, EmptySpan, LevelsAre
    <3>8. c \in (i + 1)..((d - 2) - 1)
      <4> HIDE DEF d, c
      <4> QED
        BY <1>0, <2>1, <3>3, <3>5, <3>7
    <3> DEFINE all == <<arg.tree>> \o rest.tree
    <3>9. all \in Trees[<<"list", i, d - 2>>]
      <4>1. rest.tree \in Trees[<<"list", c + 1, d - 2>>]
        BY <3>4
      <4> HIDE DEF arg, rest, c, d
      <4> QED
        BY <2>2, <2>4, <3>6, <3>8, <4>1, ListIs DEF Longer, IsList
    <3> HIDE DEF r, d, all
    <3>10. r.tree \in Trees[<<"list", i, r.cur - 2>>] /\ tokens[r.cur - 1].t = ")"
      BY <3>1, <3>4, <3>9 DEF all
    <3>11. Sound("arguments", 0, i, r)
      BY <3>10 DEF Sound
    <3> QED
      BY <3>11 DEF SoundAt, r
  <2> QED
    BY <1>1, <1>3, <2>3, <2>4
<1> QED
  BY <1>2, <1>3

LEMMA PrimarySound ==
  ASSUME Tokened, NEW i \in 1..Len(tokens), SoundBelow(i, 0)
  PROVE  SoundAt("primary", 0, i)
<1> DEFINE r == Parse[<<"primary", 0, i>>]
           v == Parse[<<"expression", 0, i + 1>>]
           args == Parse[<<"arguments", 0, i + 2>>]
           w == tokens[i].w
<1>0. i \in Int /\ i >= 1 /\ i <= Len(tokens) /\ 0 \in 0..41 /\ Len(tokens) \in Int
  BY PlaceIs
<1>1. /\ tokens[i].t \notin {"number", "(", "identifier"} => ~ r.ok
      /\ tokens[i].t \in {"number", "(", "identifier"} => i + 1 \in 1..Len(tokens)
      /\ tokens[i].t = "number" => r.ok /\ r.tree = NumberExpr /\ r.cur = i + 1
      /\ tokens[i].t = "(" =>
           /\ r.ok <=> v.ok /\ tokens[v.cur].t = ")"
           /\ r.ok => r.tree = v.tree /\ r.cur = v.cur + 1
      /\ tokens[i].t = "identifier" /\ tokens[i + 1].t # "(" =>
           r.ok /\ r.tree = VariableExpr(w) /\ r.cur = i + 1
      /\ tokens[i].t = "identifier" /\ tokens[i + 1].t = "(" =>
           /\ i + 2 \in 1..Len(tokens)
           /\ tokens[i + 2].t = ")" => r.ok /\ r.tree = CallExpr(w, <<>>) /\ r.cur = i + 3
           /\ tokens[i + 2].t # ")" =>
                /\ r.ok <=> args.ok
                /\ r.ok => r.tree = CallExpr(w, args.tree) /\ r.cur = args.cur
  BY PrimaryParsed
<1>2. ASSUME NEW j \in Int, j >= i, j <= Len(tokens)
      PROVE  LET Is == Trees[<<"primary", i, j>>]
             IN /\ tokens[i].t = "number" => Is = IF i = j THEN {NumberExpr} ELSE {}
                /\ tokens[i].t = "(" =>
                     Is = IF i + 1 < j /\ tokens[j].t = ")" THEN Trees[<<"comparison", i + 1, j - 1>>] ELSE {}
                /\ tokens[i].t = "identifier" =>
                     /\ i = j => Is = {VariableExpr(tokens[i].w)}
                     /\ i # j => Is = IF i + 1 < j /\ tokens[i + 1].t = "(" /\ tokens[j].t = ")"
                                      THEN { CallExpr(tokens[i].w, given) :
                                             given \in IF i + 2 = j THEN { <<>> } ELSE Trees[<<"list", i + 2, j - 1>>] }
                                      ELSE {}
                /\ tokens[i].t \notin {"number", "(", "identifier"} => Is = {}
  <2>1. j >= 0 /\ i <= j
    BY <1>0, <1>2
  <2>2. InSpan(i, j)
    BY <1>2, <2>1, SpanOf
  <2> QED
    BY <2>1, <2>2, PrimaryTreesAre
<1>3. ASSUME NEW j, r.cur = j + 1, j \in Int, r.tree \in Trees[<<"primary", i, j>>],
             tokens[j].t = "identifier" => tokens[j + 1].t # "("
      PROVE  SoundAt("primary", 0, i)
  <2>1. r.cur - 1 = j
    BY <1>3
  <2> HIDE DEF r
  <2>2. Sound("primary", 0, i, r)
    BY <1>3, <2>1 DEF Sound, Closed
  <2> QED
    BY <2>2 DEF SoundAt, r
<1> HIDE DEF r, v, args
<1>4. CASE ~ r.ok
  BY <1>4 DEF SoundAt, Sound, r
<1>5. CASE tokens[i].t = "number"
  <2>1. NumberExpr \in Trees[<<"primary", i, i>>]
    BY <1>0, <1>2, <1>5
  <2> QED
    BY <1>0, <1>1, <1>3, <1>5, <2>1
<1>6. CASE tokens[i].t = "(" /\ r.ok
  <2>1. v.ok /\ tokens[v.cur].t = ")" /\ r.tree = v.tree /\ r.cur = v.cur + 1
    BY <1>1, <1>6
  <2>2. v.cur \in 1..Len(tokens) /\ v.cur \in Int /\ v.cur > i + 1
    BY <1>1, <1>6, <2>1, ResultsAre, FunctionsAre DEF v
  <2>3. v.tree \in Trees[<<"comparison", i + 1, v.cur - 1>>]
    <3>1. SoundAt("expression", 0, i + 1)
      <4>1. i + 1 > i
        BY <1>0
      <4> QED
        BY <1>0, <1>1, <1>6, <4>1, FunctionsAre DEF SoundBelow
    <3> QED
      BY <2>1, <3>1 DEF SoundAt, Sound, v
  <2>4. v.cur >= i /\ v.cur <= Len(tokens) /\ i + 1 < v.cur
    BY <1>0, <2>2
  <2>5. Trees[<<"primary", i, v.cur>>] = Trees[<<"comparison", i + 1, v.cur - 1>>]
    BY <1>2, <1>6, <2>1, <2>2, <2>4
  <2> QED
    BY <1>3, <2>1, <2>2, <2>3, <2>5
<1>7. CASE tokens[i].t = "identifier" /\ tokens[i + 1].t # "("
  <2>1. VariableExpr(w) \in Trees[<<"primary", i, i>>]
    BY <1>0, <1>2, <1>7
  <2> QED
    BY <1>0, <1>1, <1>3, <1>7, <2>1
<1>8. CASE tokens[i].t = "identifier" /\ tokens[i + 1].t = "(" /\ tokens[i + 2].t = ")"
  <2>1. r.tree = CallExpr(w, <<>>) /\ r.cur = i + 3 /\ i + 2 \in 1..Len(tokens)
    BY <1>1, <1>8
  <2> DEFINE j == i + 2
  <2>2. j \in Int /\ j >= i /\ j <= Len(tokens) /\ i # j /\ i + 1 < j /\ r.cur = j + 1
    BY <1>0, <2>1
  <2>3. Trees[<<"primary", i, j>>] = { CallExpr(tokens[i].w, given) : given \in { <<>> } }
    <3>1. j = i + 2
      OBVIOUS
    <3> HIDE DEF j
    <3>2. Trees[<<"primary", i, j>>] = IF i + 1 < j /\ tokens[i + 1].t = "(" /\ tokens[j].t = ")"
                                      THEN { CallExpr(tokens[i].w, given) :
                                             given \in IF i + 2 = j THEN { <<>> } ELSE Trees[<<"list", i + 2, j - 1>>] }
                                      ELSE {}
      BY <1>2, <1>8, <2>2
    <3> QED
      BY <1>8, <2>2, <3>1, <3>2
  <2>4. r.tree \in Trees[<<"primary", i, j>>]
    BY <2>1, <2>3
  <2>5. tokens[j].t = ")"
    BY <1>8
  <2> HIDE DEF j
  <2> QED
    BY <1>3, <2>2, <2>4, <2>5
<1>9. CASE tokens[i].t = "identifier" /\ tokens[i + 1].t = "(" /\ tokens[i + 2].t # ")" /\ r.ok
  <2>1. args.ok /\ r.tree = CallExpr(w, args.tree) /\ r.cur = args.cur /\ i + 2 \in 1..Len(tokens)
    BY <1>1, <1>9
  <2> DEFINE j == args.cur - 1
             d == args.cur
  <2>2. d \in 1..Len(tokens) /\ d \in Int /\ d > i + 2
    BY <2>1, ResultsAre, FunctionsAre DEF args
  <2>3. args.tree \in Trees[<<"list", i + 2, d - 2>>] /\ tokens[d - 1].t = ")"
    <3>1. SoundAt("arguments", 0, i + 2)
      <4>1. i + 2 > i
        BY <1>0
      <4> QED
        BY <1>0, <2>1, <4>1, FunctionsAre DEF SoundBelow
    <3> QED
      BY <2>1, <3>1 DEF SoundAt, Sound, args
  <2>4. ~ (i + 2 > d - 2)
    <3> HIDE DEF d
    <3>1. d - 2 \in Int /\ d - 2 >= 0 /\ d - 2 <= Len(tokens)
      BY <1>0, <2>2
    <3>2. InSpan(i + 2, d - 2)
      BY <2>1, <3>1, SpanOf
    <3> QED
      BY <2>3, <3>2, EmptySpan, LevelsAre
  <2>5. /\ j \in Int /\ j >= i /\ j <= Len(tokens) /\ i # j /\ i + 1 < j /\ i + 2 # j /\ j - 1 = d - 2
        /\ d = j + 1 /\ d - 1 = j
    <3> HIDE DEF d
    <3> QED
      BY <1>0, <2>2, <2>4 DEF d
  <2> HIDE DEF j, d
  <2>6. Trees[<<"primary", i, j>>] = { CallExpr(tokens[i].w, given) : given \in Trees[<<"list", i + 2, j - 1>>] }
    <3>1. Trees[<<"primary", i, j>>] = IF i + 1 < j /\ tokens[i + 1].t = "(" /\ tokens[j].t = ")"
                                      THEN { CallExpr(tokens[i].w, given) :
                                             given \in IF i + 2 = j THEN { <<>> } ELSE Trees[<<"list", i + 2, j - 1>>] }
                                      ELSE {}
      BY <1>2, <1>9, <2>5
    <3> QED
      BY <1>9, <2>3, <2>5, <3>1
  <2>7. r.tree \in Trees[<<"primary", i, j>>]
    BY <2>1, <2>3, <2>5, <2>6
  <2>8. tokens[j].t = ")" /\ r.cur = j + 1
    BY <2>1, <2>3, <2>5 DEF d
  <2> QED
    BY <1>3, <2>5, <2>7, <2>8
<1> QED
  BY <1>1, <1>4, <1>5, <1>6, <1>7, <1>8, <1>9


\* Every result of the parser is a tree of the grammar.
LEMMA ParseSound ==
  ASSUME Tokened, NEW f \in ParserFunctions, NEW q \in 0..41, NEW i \in 1..Len(tokens), f = "binoprhs" \/ q = 0
  PROVE  SoundAt(f, q, i)
<1> DEFINE Fine(call) == (call[1] = "binoprhs" \/ call[2] = 0) => SoundAt(call[1], call[2], call[3])
           Bad == { call \in ParseCalls : ~ Fine(call) }
           K == { Far(call) : call \in Bad }
<1>0. \A call \in ParseCalls : Far(call) \in Nat
  BY CallIs
<1>1. Bad = {}
  <2> SUFFICES ASSUME Bad # {} PROVE FALSE
    OBVIOUS
  <2>1. K \in SUBSET Nat /\ K # {}
    BY <1>0
  <2>2. PICK k \in K : \A j \in K : k <= j
    BY <2>1, Least
  <2>3. PICK call \in Bad : k = Far(call)
    BY <2>2
  <2> DEFINE g == call[1]
             p == call[2]
             j == call[3]
  <2>4. /\ g \in ParserFunctions /\ p \in 0..41 /\ j \in 1..Len(tokens) /\ Far(call) = 3 * (Len(tokens) - j) + Rank(g)
        /\ (g = "binoprhs" \/ p = 0) /\ ~ SoundAt(g, p, j)
    BY CallIs DEF Far
  <2>5. SoundBelow(j, Rank(g))
    <3> SUFFICES ASSUME NEW h \in ParserFunctions, NEW o \in 0..41, NEW l \in 1..Len(tokens),
                        h = "binoprhs" \/ o = 0, l > j \/ (l = j /\ Rank(h) < Rank(g))
                 PROVE  SoundAt(h, o, l)
      BY DEF SoundBelow
    <3> DEFINE c == <<h, o, l>>
    <3>1. c \in ParseCalls /\ c[1] = h /\ c[2] = o /\ c[3] = l /\ Far(c) = 3 * (Len(tokens) - l) + Rank(h)
      BY CallIs
    <3>2. 3 * (Len(tokens) - l) + Rank(h) < 3 * (Len(tokens) - j) + Rank(g)
      <4>1. l \in Int /\ j \in Int /\ Len(tokens) \in Int
        BY <2>4, PlaceIs
      <4>2. Rank(h) \in Int /\ Rank(h) >= 0 /\ Rank(h) <= 2 /\ Rank(g) \in Int /\ Rank(g) >= 0 /\ Rank(g) <= 2
        BY RankIs
      <4> HIDE DEF g, j
      <4> QED
        BY <4>1, <4>2, Nearer
    <3> HIDE DEF c
    <3>3. ~ (Far(call) <= Far(c)) /\ Far(c) \in Nat /\ Far(call) \in Nat
      <4>1. Far(c) < Far(call) /\ Far(c) \in Nat /\ Far(call) \in Nat
        BY <1>0, <2>4, <3>1, <3>2
      <4> QED
        BY <4>1
    <3>4. c \notin Bad
      BY <2>2, <2>3, <3>3
    <3> QED
      BY <3>1, <3>4
  <2> HIDE DEF g, p, j
  <2>6. CASE g = "primary"
    <3>1. SoundBelow(j, 0) /\ p = 0
      BY <2>4, <2>5, <2>6, RankIs
    <3> QED
      BY <2>4, <2>6, <3>1, PrimarySound
  <2>7. CASE g = "binoprhs"
    <3>1. SoundBelow(j, 0)
      BY <2>5, <2>7, RankIs
    <3> QED
      BY <2>4, <2>7, <3>1, OperandsSound
  <2>8. CASE g = "expression"
    <3>1. SoundBelow(j, 1) /\ p = 0
      BY <2>4, <2>5, <2>8, RankIs
    <3> QED
      BY <2>4, <2>8, <3>1, ExpressionSound
  <2>9. CASE g = "arguments"
    <3>1. SoundBelow(j, 2) /\ p = 0
      BY <2>4, <2>5, <2>9, RankIs
    <3> QED
      BY <2>4, <2>9, <3>1, ArgumentsSound
  <2> QED
    BY <2>4, <2>6, <2>7, <2>8, <2>9 DEF ParserFunctions
<1> DEFINE call == <<f, q, i>>
<1>2. call \in ParseCalls /\ call[1] = f /\ call[2] = q /\ call[3] = i
  BY CallIs
<1> HIDE DEF call
<1>3. Fine(call)
  BY <1>1, <1>2
<1> QED
  BY <1>2, <1>3

-----------------------------------------------------------------------------
(***************************************************************************)
(* What the grammar derives is what the parser reads.  A tree of a level,  *)
(* in front of a token that does not bind tighter, is read by a primary    *)
(* and the loop of ParseBinOpRHS, which comes by the token behind the tree *)
(* with the tree for its LHS.                                              *)
(***************************************************************************)
Tighter(p) == CASE p = 10 -> 20 [] p = 20 -> 40 [] OTHER -> 41

ReadsLevel(p, i, j) ==
  \A t \in Trees[<<Low(p), i, j>>] :
    /\ i \in 1..Len(tokens) /\ j + 1 \in 1..Len(tokens)
    /\ GetTokPrecedence(j + 1) <= p /\ Closed(j + 1)
    => \A q \in 0..p :
         LET lhs == Parse[<<"primary", 0, i>>]
             r == Parse[<<"binoprhs", q, lhs.cur>>]
             s == Parse[<<"binoprhs", q, j + 1>>]
         IN /\ lhs.ok
            /\ s.ok => r.ok /\ r.cur = s.cur /\ Merge(lhs.tree, r.tree) = Merge(t, s.tree)

ReadsList(i, j) ==
  \A args \in Trees[<<"list", i, j>>] :
    /\ i \in 1..Len(tokens) /\ j + 1 \in 1..Len(tokens) /\ tokens[j + 1].t = ")"
    => LET r == Parse[<<"arguments", 0, i>>] IN r.ok /\ r.tree = args /\ r.cur = j + 2

Complete(level, i, j) ==
  /\ level = "comparison" => ReadsLevel(10, i, j)
  /\ level = "sum" => ReadsLevel(20, i, j)
  /\ level = "product" => ReadsLevel(40, i, j)
  /\ level = "primary" => ReadsLevel(41, i, j)
  /\ level = "list" => ReadsList(i, j)

CompleteBelow(level, i, j) ==
  \A l \in Levels : \A m, n : InSpan(m, n) /\ Smaller(l, m, n, level, i, j) => Complete(l, m, n)

LEMMA OperandsEnd ==
  ASSUME Tokened, NEW i \in 1..Len(tokens), NEW q \in 0..41, GetTokPrecedence(i) < q
  PROVE  LET s == Parse[<<"binoprhs", q, i>>] IN s.ok /\ s.tree = <<>> /\ s.cur = i
BY OperandsParsed

LEMMA ExpressionReads ==
  ASSUME Tokened, NEW i \in 1..Len(tokens), NEW j, ReadsLevel(10, i, j), NEW t \in Trees[<<"comparison", i, j>>],
         j + 1 \in 1..Len(tokens), GetTokPrecedence(j + 1) = -1, Closed(j + 1)
  PROVE  LET e == Parse[<<"expression", 0, i>>] IN e.ok /\ e.tree = t /\ e.cur = j + 1
<1> DEFINE next == j + 1
           lhs == Parse[<<"primary", 0, i>>]
           r == Parse[<<"binoprhs", 0, lhs.cur>>]
           s == Parse[<<"binoprhs", 0, next>>]
<1>1. 0 \in 0..41 /\ 0 \in 0..10 /\ GetTokPrecedence(next) < 0 /\ GetTokPrecedence(next) <= 10
  <2>1. -1 < 0 /\ -1 <= 10
    OBVIOUS
  <2> QED
    BY <2>1
<1>2. t \in Trees[<<Low(10), i, j>>]
  BY LowIs
<1>3. s.ok /\ s.tree = <<>> /\ s.cur = next
  <2>1. next \in 1..Len(tokens)
    OBVIOUS
  <2> HIDE DEF next
  <2> QED
    BY <1>1, <2>1, OperandsEnd
<1>4. lhs.ok /\ (s.ok => r.ok /\ r.cur = s.cur /\ Merge(lhs.tree, r.tree) = Merge(t, s.tree))
  BY <1>1, <1>2 DEF ReadsLevel
<1>5. lhs.ok /\ r.ok /\ r.cur = next /\ Merge(lhs.tree, r.tree) = t
  <2> HIDE DEF lhs, r, s, next
  <2> QED
    BY <1>3, <1>4, MergeNone
<1> HIDE DEF next
<1>6. LET e == Parse[<<"expression", 0, i>>]
      IN (e.ok <=> lhs.ok /\ r.ok) /\ (e.ok => e.tree = Merge(lhs.tree, r.tree) /\ e.cur = r.cur)
  BY ExpressionParsed
<1> HIDE DEF lhs, r
<1>7. LET e == Parse[<<"expression", 0, i>>] IN e.ok /\ e.tree = t /\ e.cur = next
  BY <1>5, <1>6
<1> QED
  BY <1>7 DEF next

\* Arguments do not begin with a closing parenthesis.
LEMMA ArgumentsBegin ==
  ASSUME Tokened, NEW i \in 1..Len(tokens), Parse[<<"arguments", 0, i>>].ok
  PROVE  tokens[i].t # ")"
<1>1. Parse[<<"expression", 0, i>>].ok
  BY ArgumentsParsed
<1>2. Parse[<<"primary", 0, i>>].ok
  BY <1>1, ExpressionParsed
<1>3. tokens[i].t \in {"number", "(", "identifier"}
  BY <1>2, PrimaryParsed
<1> QED
  BY <1>3

LEMMA PrimaryReads ==
  ASSUME Tokened, NEW i, NEW j, InSpan(i, j), CompleteBelow("primary", i, j),
         NEW t \in Trees[<<"primary", i, j>>],
         j + 1 \in 1..Len(tokens), Closed(j + 1)
  PROVE  LET r == Parse[<<"primary", 0, i>>] IN r.ok /\ r.tree = t /\ r.cur = j + 1
<1> DEFINE r == Parse[<<"primary", 0, i>>]
           v == Parse[<<"expression", 0, i + 1>>]
           args == Parse[<<"arguments", 0, i + 2>>]
           w == tokens[i].w
           Is == Trees[<<"primary", i, j>>]
<1>0. /\ i \in Int /\ j \in Int /\ Len(tokens) \in Nat
      /\ i >= 1 /\ i <= Len(tokens) + 1 /\ j >= 0 /\ j <= Len(tokens)
  BY InSpanIs
<1>1. i <= j /\ i \in 1..Len(tokens)
  <2>1. ~ (i > j)
    BY EmptySpan, LevelsAre
  <2> QED
    BY <1>0, <2>1
<1>2. /\ tokens[i].t = "number" => Is = IF i = j THEN {NumberExpr} ELSE {}
      /\ tokens[i].t = "(" =>
           Is = IF i + 1 < j /\ tokens[j].t = ")" THEN Trees[<<"comparison", i + 1, j - 1>>] ELSE {}
      /\ tokens[i].t = "identifier" =>
           /\ i = j => Is = {VariableExpr(tokens[i].w)}
           /\ i # j => Is = IF i + 1 < j /\ tokens[i + 1].t = "(" /\ tokens[j].t = ")"
                            THEN { CallExpr(tokens[i].w, given) :
                                   given \in IF i + 2 = j THEN { <<>> } ELSE Trees[<<"list", i + 2, j - 1>>] }
                            ELSE {}
      /\ tokens[i].t \notin {"number", "(", "identifier"} => Is = {}
  BY <1>1, PrimaryTreesAre
<1>3. /\ tokens[i].t \notin {"number", "(", "identifier"} => ~ r.ok
      /\ tokens[i].t \in {"number", "(", "identifier"} => i + 1 \in 1..Len(tokens)
      /\ tokens[i].t = "number" => r.ok /\ r.tree = NumberExpr /\ r.cur = i + 1
      /\ tokens[i].t = "(" =>
           /\ r.ok <=> v.ok /\ tokens[v.cur].t = ")"
           /\ r.ok => r.tree = v.tree /\ r.cur = v.cur + 1
      /\ tokens[i].t = "identifier" /\ tokens[i + 1].t # "(" =>
           r.ok /\ r.tree = VariableExpr(w) /\ r.cur = i + 1
      /\ tokens[i].t = "identifier" /\ tokens[i + 1].t = "(" =>
           /\ i + 2 \in 1..Len(tokens)
           /\ tokens[i + 2].t = ")" => r.ok /\ r.tree = CallExpr(w, <<>>) /\ r.cur = i + 3
           /\ tokens[i + 2].t # ")" =>
                /\ r.ok <=> args.ok
                /\ r.ok => r.tree = CallExpr(w, args.tree) /\ r.cur = args.cur
  BY <1>1, PrimaryParsed
<1>4. t \in Is
  OBVIOUS
<1>5. j \in 1..Len(tokens) /\ (j + 1) - 1 = j
  BY <1>0, <1>1
<1> HIDE DEF r, v, args, Is
<1>6. CASE tokens[i].t \notin {"number", "(", "identifier"}
  BY <1>2, <1>4, <1>6
<1>7. CASE tokens[i].t = "number"
  BY <1>2, <1>3, <1>4, <1>7 DEF r
<1>8. CASE tokens[i].t = "(" 
  <2>1. i + 1 < j /\ tokens[j].t = ")" /\ t \in Trees[<<"comparison", i + 1, j - 1>>]
    BY <1>2, <1>4, <1>8
  <2>2. i + 1 \in 1..Len(tokens) /\ (j - 1) + 1 = j
    BY <1>0, <1>3, <1>8
  <2>3. ReadsLevel(10, i + 1, j - 1)
    BY <2>1, PartIs, LevelsAre DEF CompleteBelow, Complete
  <2>4. GetTokPrecedence(j) = -1 /\ Closed(j)
    BY <2>1, PrecedenceIs DEF Closed
  <2>5. v.ok /\ v.tree = t /\ v.cur = j
    <3>1. /\ (j - 1) + 1 \in 1..Len(tokens) /\ GetTokPrecedence((j - 1) + 1) = -1 /\ Closed((j - 1) + 1)
      BY <1>5, <2>2, <2>4
    <3>2. v.ok /\ v.tree = t /\ v.cur = (j - 1) + 1
      BY <2>1, <2>2, <2>3, <3>1, ExpressionReads DEF v
    <3> QED
      BY <2>2, <3>2
  <2> QED
    BY <1>3, <1>8, <2>1, <2>5 DEF r
<1>9. CASE tokens[i].t = "identifier" /\ i = j
  <2>1. t = VariableExpr(w)
    BY <1>2, <1>4, <1>9
  <2>2. tokens[i + 1].t # "("
    BY <1>5, <1>9 DEF Closed
  <2> QED
    BY <1>3, <1>9, <2>1, <2>2 DEF r
<1>10. CASE tokens[i].t = "identifier" /\ i # j
  <2>1. /\ i + 1 < j /\ tokens[i + 1].t = "(" /\ tokens[j].t = ")"
        /\ \E given \in IF i + 2 = j THEN { <<>> } ELSE Trees[<<"list", i + 2, j - 1>>] :
             t = CallExpr(w, given)
    BY <1>2, <1>4, <1>10
  <2>2. CASE i + 2 = j
    <3>1. t = CallExpr(w, <<>>)
      BY <2>1, <2>2
    <3>2. i + 3 = j + 1 /\ tokens[i + 2].t = ")"
      BY <1>0, <2>1, <2>2
    <3> QED
      BY <1>3, <1>10, <2>1, <3>1, <3>2 DEF r
  <2>3. CASE i + 2 # j
    <3>1. PICK as \in Trees[<<"list", i + 2, j - 1>>] : t = CallExpr(w, as)
      BY <2>1, <2>3
    <3>2. ReadsList(i + 2, j - 1)
      BY <2>1, PartIs, LevelsAre DEF CompleteBelow, Complete
    <3>3. /\ i + 2 \in 1..Len(tokens) /\ (j - 1) + 1 \in 1..Len(tokens) /\ tokens[(j - 1) + 1].t = ")"
          /\ (j - 1) + 2 = j + 1
      <4>1. (j - 1) + 1 = j /\ (j - 1) + 2 = j + 1
        BY <1>0
      <4> QED
        BY <1>3, <1>5, <1>10, <2>1, <4>1
    <3>4. args.ok /\ args.tree = as /\ args.cur = j + 1
      BY <3>2, <3>3 DEF ReadsList, args
    <3>5. tokens[i + 2].t # ")"
      BY <3>3, <3>4, ArgumentsBegin DEF args
    <3> QED
      BY <1>3, <1>10, <2>1, <3>1, <3>4, <3>5 DEF r
  <2> QED
    BY <2>2, <2>3
<1> QED
  BY <1>6, <1>7, <1>8, <1>9, <1>10

LEMMA PrimaryComplete ==
  ASSUME Tokened, NEW i, NEW j, InSpan(i, j), CompleteBelow("primary", i, j)
  PROVE  Complete("primary", i, j)
<1>1. ReadsLevel(41, i, j)
  <2> SUFFICES ASSUME NEW t \in Trees[<<Low(41), i, j>>], j + 1 \in 1..Len(tokens), Closed(j + 1), NEW q \in 0..41
               PROVE  LET lhs == Parse[<<"primary", 0, i>>]
                          r == Parse[<<"binoprhs", q, lhs.cur>>]
                          s == Parse[<<"binoprhs", q, j + 1>>]
                      IN /\ lhs.ok
                         /\ s.ok => r.ok /\ r.cur = s.cur /\ Merge(lhs.tree, r.tree) = Merge(t, s.tree)
    BY DEF ReadsLevel
  <2>1. t \in Trees[<<"primary", i, j>>]
    BY LowIs
  <2>2. LET lhs == Parse[<<"primary", 0, i>>] IN lhs.ok /\ lhs.tree = t /\ lhs.cur = j + 1
    BY <2>1, PrimaryReads
  <2> QED
    BY <2>2
<1> QED
  BY <1>1 DEF Complete

LEMMA BinaryComplete ==
  ASSUME Tokened, NEW i, NEW j, InSpan(i, j), NEW p \in {10, 20, 40},
         ReadsLevel(Tighter(p), i, j),
         \A m \in (i + 1)..(j - 1) : ReadsLevel(p, i, m - 1) /\ ReadsLevel(Tighter(p), m + 1, j)
  PROVE  ReadsLevel(p, i, j)
<1> SUFFICES ASSUME NEW t \in Trees[<<Low(p), i, j>>], i \in 1..Len(tokens), j + 1 \in 1..Len(tokens),
                    GetTokPrecedence(j + 1) <= p, Closed(j + 1), NEW q \in 0..p
             PROVE  LET lhs == Parse[<<"primary", 0, i>>]
                        r == Parse[<<"binoprhs", q, lhs.cur>>]
                        s == Parse[<<"binoprhs", q, j + 1>>]
                    IN /\ lhs.ok
                       /\ s.ok => r.ok /\ r.cur = s.cur /\ Merge(lhs.tree, r.tree) = Merge(t, s.tree)
  BY DEF ReadsLevel
<1> DEFINE end == j + 1
           lhs == Parse[<<"primary", 0, i>>]
           r == Parse[<<"binoprhs", q, lhs.cur>>]
           s == Parse[<<"binoprhs", q, end>>]
<1>0. /\ Tighter(p) \in {20, 40, 41} /\ p + 1 \in 0..Tighter(p) /\ p < Tighter(p) /\ Low(p + 1) = Low(Tighter(p))
      /\ q \in 0..Tighter(p) /\ q \in 0..41 /\ p + 1 \in 0..41 /\ q <= p
  <2>1. /\ p = 10 => Tighter(p) = 20
        /\ p = 20 => Tighter(p) = 40
        /\ p = 40 => Tighter(p) = 41
    BY DEF Tighter
  <2>2. 10 + 1 = 11 /\ 20 + 1 = 21 /\ 40 + 1 = 41
    OBVIOUS
  <2>3. Low(p + 1) = Low(Tighter(p))
    BY <2>1, <2>2, LowIs
  <2>4. CASE p = 10
    BY <2>1, <2>3, <2>4
  <2>5. CASE p = 20
    BY <2>1, <2>3, <2>5
  <2>6. CASE p = 40
    BY <2>1, <2>3, <2>6
  <2> QED
    BY <2>4, <2>5, <2>6
<1>1. GetTokPrecedence(end) \in Int /\ p \in Int /\ GetTokPrecedence(end) < p + 1
      /\ GetTokPrecedence(end) <= Tighter(p) /\ GetTokPrecedence(end) <= p
  <2>1. GetTokPrecedence(end) \in Int /\ GetTokPrecedence(end) <= p
    BY PrecedenceLess
  <2> HIDE DEF end
  <2> QED
    BY <1>0, <2>1
<1>2. end \in 1..Len(tokens) /\ Closed(end)
  OBVIOUS
<1>3. CASE t \in Trees[<<Low(p + 1), i, j>>]
  <2>1. t \in Trees[<<Low(Tighter(p)), i, j>>] /\ GetTokPrecedence(j + 1) <= Tighter(p)
    BY <1>0, <1>1, <1>3
  <2> QED
    BY <1>0, <2>1 DEF ReadsLevel
<1>4. ASSUME NEW m, IsBinary(t, p, i, m, j)
      PROVE  lhs.ok /\ (s.ok => r.ok /\ r.cur = s.cur /\ Merge(lhs.tree, r.tree) = Merge(t, s.tree))
  <2>1. PICK a \in Trees[<<Low(p), i, m - 1>>], b \in Trees[<<Low(p + 1), m + 1, j>>] :
           t = BinaryExpr(tokens[m].t, a, b)
    BY <1>4 DEF IsBinary
  <2>2. m \in (i + 1)..(j - 1) /\ GetTokPrecedence(m) = p
    BY <1>4 DEF IsBinary
  <2>3. i \in Int /\ j \in Int /\ Len(tokens) \in Nat /\ i >= 1 /\ j <= Len(tokens)
    BY InSpanIs
  <2>4. m \in 1..Len(tokens) /\ m + 1 \in 1..Len(tokens) /\ (m - 1) + 1 = m
    BY <2>2, <2>3
  <2> DEFINE right == Parse[<<"primary", 0, m + 1>>]
             pending == Parse[<<"binoprhs", p + 1, right.cur>>]
             sm == Parse[<<"binoprhs", q, m>>]
             operand == [op |-> tokens[m].t, rhs |-> b]
  <2>5. lhs.ok /\ (sm.ok => r.ok /\ r.cur = sm.cur /\ Merge(lhs.tree, r.tree) = Merge(a, sm.tree))
    <3>1. Closed(m)
      <4>1. tokens[m].t # "("
        <5>1. GetTokPrecedence(m) # -1
          BY <2>2
        <5> QED
          BY <5>1, PrecedenceIs
      <4> QED
        BY <4>1 DEF Closed
    <3>2. /\ (m - 1) + 1 \in 1..Len(tokens) /\ GetTokPrecedence((m - 1) + 1) <= p /\ Closed((m - 1) + 1)
      BY <1>1, <2>2, <2>4, <3>1
    <3>3. ReadsLevel(p, i, m - 1)
      BY <2>2
    <3> DEFINE o == (m - 1) + 1
    <3>4. /\ lhs.ok
          /\ Parse[<<"binoprhs", q, o>>].ok =>
               /\ r.ok /\ r.cur = Parse[<<"binoprhs", q, o>>].cur
               /\ Merge(lhs.tree, r.tree) = Merge(a, Parse[<<"binoprhs", q, o>>].tree)
      BY <3>2, <3>3 DEF ReadsLevel
    <3>5. o = m
      BY <2>4
    <3> HIDE DEF o
    <3> QED
      BY <3>4, <3>5
  <2>6. right.ok /\ pending.ok /\ pending.cur = end /\ Merge(right.tree, pending.tree) = b
    <3> DEFINE e == Parse[<<"binoprhs", p + 1, end>>]
    <3>1. e.ok /\ e.tree = <<>> /\ e.cur = end
      <4> HIDE DEF end
      <4> QED
        BY <1>0, <1>1, <1>2, OperandsEnd
    <3>2. ReadsLevel(Tighter(p), m + 1, j) /\ b \in Trees[<<Low(Tighter(p)), m + 1, j>>]
      BY <1>0, <2>1, <2>2
    <3>3. right.ok /\ (e.ok => /\ pending.ok /\ pending.cur = e.cur
                               /\ Merge(right.tree, pending.tree) = Merge(b, e.tree))
      BY <1>0, <1>1, <2>4, <3>2 DEF ReadsLevel
    <3> HIDE DEF right, pending, e, end
    <3> QED
      BY <3>1, <3>3, MergeNone
  <2>7. s.ok => sm.ok /\ sm.tree = <<operand>> \o s.tree /\ sm.cur = s.cur
    <3> DEFINE rest == Parse[<<"binoprhs", q, pending.cur>>]
    <3>1. GetTokPrecedence(m) >= q /\ GetTokPrecedence(m) = p
      BY <1>0, <1>1, <2>2
    <3>2. /\ sm.ok <=> right.ok /\ pending.ok /\ rest.ok
          /\ sm.ok => /\ sm.tree = <<[op |-> tokens[m].t, rhs |-> Merge(right.tree, pending.tree)]>> \o rest.tree
                      /\ sm.cur = rest.cur
      <4>1. LET prec == GetTokPrecedence(m)
                first == Parse[<<"primary", 0, m + 1>>]
                second == Parse[<<"binoprhs", prec + 1, first.cur>>]
                third == Parse[<<"binoprhs", q, second.cur>>]
            IN prec >= q => /\ sm.ok <=> first.ok /\ second.ok /\ third.ok
                            /\ sm.ok => /\ sm.tree = <<[op |-> tokens[m].t,
                                                        rhs |-> Merge(first.tree, second.tree)]>> \o third.tree
                                        /\ sm.cur = third.cur
        BY <1>0, <2>4, OperandsParsed
      <4> HIDE DEF sm
      <4> QED
        BY <3>1, <4>1
    <3>3. rest = s
      BY <2>6
    <3>4. [op |-> tokens[m].t, rhs |-> Merge(right.tree, pending.tree)] = operand
      BY <2>6
    <3> HIDE DEF rest, s, sm, right, pending
    <3> QED
      BY <2>6, <3>2, <3>3, <3>4
  <2>8. s.ok => Merge(a, <<operand>> \o s.tree) = Merge(t, s.tree)
    <3>1. s.ok => IsSeq(s.tree)
      <4> HIDE DEF end
      <4> QED
        BY <1>0, <1>2, ResultsAre, FunctionsAre
    <3>2. s.ok => Merge(a, <<operand>> \o s.tree) = Merge(BinaryExpr(operand.op, a, operand.rhs), s.tree)
      <4> HIDE DEF operand, s
      <4> QED
        BY <3>1, MergeFirst
    <3>3. operand.op = tokens[m].t /\ operand.rhs = b
      OBVIOUS
    <3> HIDE DEF operand, s
    <3> QED
      BY <2>1, <3>2, <3>3
  <2> HIDE DEF lhs, s, sm, r, operand
  <2> QED
    BY <2>5, <2>7, <2>8
<1>5. t \in Trees[<<Low(p + 1), i, j>>] \/ \E m : IsBinary(t, p, i, m, j)
  BY LevelIs
<1> QED
  BY <1>3, <1>4, <1>5

LEMMA ListComplete ==
  ASSUME Tokened, NEW i, NEW j, InSpan(i, j), CompleteBelow("list", i, j)
  PROVE  Complete("list", i, j)
<1>0. i \in Int /\ j \in Int /\ Len(tokens) \in Nat /\ i >= 1 /\ j <= Len(tokens)
  BY InSpanIs
<1>1. ReadsList(i, j)
  <2> SUFFICES ASSUME NEW args \in Trees[<<"list", i, j>>], i \in 1..Len(tokens),
                      j + 1 \in 1..Len(tokens), tokens[j + 1].t = ")"
               PROVE  LET r == Parse[<<"arguments", 0, i>>] IN r.ok /\ r.tree = args /\ r.cur = j + 2
    BY DEF ReadsList
  <2> DEFINE r == Parse[<<"arguments", 0, i>>]
             arg == Parse[<<"expression", 0, i>>]
  <2>1. \/ \E a \in Trees[<<"comparison", i, j>>] : args = <<a>>
        \/ \E m \in (i + 1)..(j - 1) :
             /\ tokens[m].t = ","
             /\ \E a \in Trees[<<"comparison", i, m - 1>>], as \in Trees[<<"list", m + 1, j>>] : args = Longer(a, as)
    <3>1. IsList(args, i, j)
      BY ListIs
    <3> QED
      BY <3>1 DEF IsList
  <2>2. ASSUME NEW a \in Trees[<<"comparison", i, j>>], args = <<a>>
        PROVE  r.ok /\ r.tree = args /\ r.cur = j + 2
    <3>1. GetTokPrecedence(j + 1) = -1 /\ Closed(j + 1)
      BY PrecedenceIs DEF Closed
    <3>2. ReadsLevel(10, i, j)
      <4>1. Height("comparison") < Height("list")
        BY HeightIs
      <4>2. Smaller("comparison", i, j, "list", i, j)
        BY <4>1, PartIs
      <4> QED
        BY <4>2, LevelsAre DEF CompleteBelow, Complete
    <3>3. arg.ok /\ arg.tree = a /\ arg.cur = j + 1
      BY <3>1, <3>2, ExpressionReads
    <3>4. arg.ok /\ tokens[arg.cur].t = ")" => r.ok /\ r.tree = <<arg.tree>> /\ r.cur = arg.cur + 1
      BY ArgumentsParsed
    <3>5. (j + 1) + 1 = j + 2
      BY <1>0
    <3> DEFINE one == <<arg.tree>>
    <3>6. one = args
      BY <2>2, <3>3
    <3> HIDE DEF r, arg, one
    <3> QED
      BY <3>3, <3>4, <3>5, <3>6 DEF one
  <2>3. ASSUME NEW m \in (i + 1)..(j - 1), tokens[m].t = ",",
               NEW a \in Trees[<<"comparison", i, m - 1>>], NEW as \in Trees[<<"list", m + 1, j>>], args = Longer(a, as)
        PROVE  r.ok /\ r.tree = args /\ r.cur = j + 2
    <3>1. (m - 1) + 1 = m /\ m \in 1..Len(tokens) /\ m + 1 \in 1..Len(tokens)
      BY <1>0
    <3>2. /\ (m - 1) + 1 \in 1..Len(tokens) /\ GetTokPrecedence((m - 1) + 1) = -1 /\ Closed((m - 1) + 1)
      <4>1. GetTokPrecedence(m) = -1 /\ Closed(m)
        BY <2>3, PrecedenceIs DEF Closed
      <4> QED
        BY <3>1, <4>1
    <3>3. ReadsLevel(10, i, m - 1) /\ ReadsList(m + 1, j)
      BY PartIs, LevelsAre DEF CompleteBelow, Complete
    <3>4. arg.ok /\ arg.tree = a /\ arg.cur = m
      <4>1. arg.ok /\ arg.tree = a /\ arg.cur = (m - 1) + 1
        BY <3>2, <3>3, ExpressionReads
      <4> QED
        BY <3>1, <4>1
    <3> DEFINE rest == Parse[<<"arguments", 0, m + 1>>]
    <3>5. rest.ok /\ rest.tree = as /\ rest.cur = j + 2
      BY <3>1, <3>3 DEF ReadsList
    <3>6. LET more == Parse[<<"arguments", 0, arg.cur + 1>>]
          IN arg.ok /\ tokens[arg.cur].t = "," =>
               /\ r.ok <=> more.ok
               /\ r.ok => r.tree = <<arg.tree>> \o more.tree /\ r.cur = more.cur
      BY ArgumentsParsed
    <3>7. Parse[<<"arguments", 0, arg.cur + 1>>] = rest
      BY <3>4
    <3> DEFINE all == <<arg.tree>> \o rest.tree
    <3>8. all = args
      <4> HIDE DEF arg, rest
      <4> QED
        BY <2>3, <3>4, <3>5 DEF Longer
    <3>9. arg.ok /\ tokens[arg.cur].t = "," =>
               /\ r.ok <=> rest.ok
               /\ r.ok => r.tree = all /\ r.cur = rest.cur
      <4> HIDE DEF r, arg
      <4> QED
        BY <3>6, <3>7
    <3> HIDE DEF r, arg, rest, all
    <3> QED
      BY <2>3, <3>4, <3>5, <3>8, <3>9
  <2> QED
    BY <2>1, <2>2, <2>3
<1> QED
  BY <1>1 DEF Complete

LEMMA LevelComplete ==
  ASSUME Tokened, NEW level \in Levels, NEW i, NEW j, InSpan(i, j), CompleteBelow(level, i, j)
  PROVE  Complete(level, i, j)
<1>0. /\ Height("primary") < Height("product") /\ Height("product") < Height("sum") /\ Height("sum") < Height("comparison")
  BY HeightIs
<1>1. CASE level = "primary"
  BY <1>1, PrimaryComplete
<1>2. CASE level = "list"
  BY <1>2, ListComplete
<1>3. CASE level = "product"
  <2>1. Complete("primary", i, j)
    <3>1. Smaller("primary", i, j, "product", i, j)
      BY <1>0, PartIs
    <3> QED
      BY <1>3, <3>1, LevelsAre DEF CompleteBelow
  <2>2. ASSUME NEW m \in (i + 1)..(j - 1) PROVE Complete("product", i, m - 1) /\ Complete("primary", m + 1, j)
    BY <1>3, PartIs, LevelsAre DEF CompleteBelow
  <2>3. Tighter(40) = 41
    BY DEF Tighter
  <2>4. ReadsLevel(40, i, j)
    BY <2>1, <2>2, <2>3, BinaryComplete DEF Complete
  <2> QED
    BY <1>3, <2>4 DEF Complete
<1>4. CASE level = "sum"
  <2>1. Complete("product", i, j)
    <3>1. Smaller("product", i, j, "sum", i, j)
      BY <1>0, PartIs
    <3> QED
      BY <1>4, <3>1, LevelsAre DEF CompleteBelow
  <2>2. ASSUME NEW m \in (i + 1)..(j - 1) PROVE Complete("sum", i, m - 1) /\ Complete("product", m + 1, j)
    BY <1>4, PartIs, LevelsAre DEF CompleteBelow
  <2>3. Tighter(20) = 40
    BY DEF Tighter
  <2>4. ReadsLevel(20, i, j)
    BY <2>1, <2>2, <2>3, BinaryComplete DEF Complete
  <2> QED
    BY <1>4, <2>4 DEF Complete
<1>5. CASE level = "comparison"
  <2>1. Complete("sum", i, j)
    <3>1. Smaller("sum", i, j, "comparison", i, j)
      BY <1>0, PartIs
    <3> QED
      BY <1>5, <3>1, LevelsAre DEF CompleteBelow
  <2>2. ASSUME NEW m \in (i + 1)..(j - 1) PROVE Complete("comparison", i, m - 1) /\ Complete("sum", m + 1, j)
    BY <1>5, PartIs, LevelsAre DEF CompleteBelow
  <2>3. Tighter(10) = 20
    BY DEF Tighter
  <2>4. ReadsLevel(10, i, j)
    BY <2>1, <2>2, <2>3, BinaryComplete DEF Complete
  <2> QED
    BY <1>5, <2>4 DEF Complete
<1> QED
  BY <1>1, <1>2, <1>3, <1>4, <1>5 DEF Levels

LEMMA AllComplete ==
  ASSUME Tokened, NEW level \in Levels, NEW i, NEW j, InSpan(i, j)
  PROVE  Complete(level, i, j)
<1> DEFINE Bad == { s \in Spans : ~ Complete(s[1], s[2], s[3]) }
           SizeOf(s) == Size(s[1], s[2], s[3])
           K == { SizeOf(s) : s \in Bad }
<1>0. \A s \in Spans : SizeOf(s) \in Nat
  BY SpanIs
<1> HIDE DEF SizeOf
<1>1. Bad = {}
  <2> SUFFICES ASSUME Bad # {} PROVE FALSE
    OBVIOUS
  <2>1. K \in SUBSET Nat /\ K # {}
    BY <1>0
  <2>2. PICK k \in K : \A l \in K : k <= l
    BY <2>1, Least
  <2>3. PICK s \in Bad : k = SizeOf(s)
    BY <2>2
  <2> DEFINE g == s[1]
             a == s[2]
             b == s[3]
  <2>4. g \in Levels /\ InSpan(a, b) /\ ~ Complete(g, a, b)
    BY <2>3, SpanIs DEF InSpan
  <2>5. CompleteBelow(g, a, b)
    <3> SUFFICES ASSUME NEW l \in Levels, NEW m, NEW n, InSpan(m, n), Smaller(l, m, n, g, a, b), ~ Complete(l, m, n)
                 PROVE  FALSE
      BY DEF CompleteBelow
    <3> DEFINE c == <<l, m, n>>
    <3>1. c \in Spans /\ c[1] = l /\ c[2] = m /\ c[3] = n
      BY SpanIs DEF InSpan
    <3>2. SizeOf(c) < SizeOf(s)
      <4>1. Size(l, m, n) < Size(g, a, b)
        <5> HIDE DEF g, a, b
        <5> QED
          BY <2>4, SizeFalls
      <4> HIDE DEF c
      <4> QED
        BY <3>1, <4>1 DEF SizeOf
    <3> HIDE DEF c
    <3>3. ~ (SizeOf(s) <= SizeOf(c))
      BY <1>0, <2>3, <3>1, <3>2
    <3>4. c \notin Bad
      BY <2>2, <2>3, <3>3
    <3> QED
      BY <3>1, <3>4
  <2> HIDE DEF g, a, b
  <2> QED
    BY <2>4, <2>5, LevelComplete
<1> DEFINE s == <<level, i, j>>
<1>2. s \in Spans /\ s[1] = level /\ s[2] = i /\ s[3] = j
  BY SpanIs DEF InSpan
<1> HIDE DEF s
<1> QED
  BY <1>1, <1>2

-----------------------------------------------------------------------------
(***************************************************************************)
(* Items.  A handler reads what has one tree, and it reads every item that *)
(* ends in front of a semicolon or of the end of the text.                 *)
(***************************************************************************)
Stop(i) == tokens[i].t \in {";", "eof"}

LEMMA StopIs ==
  ASSUME NEW i, Stop(i)
  PROVE  GetTokPrecedence(i) = -1 /\ Closed(i) /\ tokens[i].t \notin {"def", "extern", "identifier", ")"}
BY PrecedenceIs DEF Stop, Closed

LEMMA OneExpression ==
  ASSUME Tokened, NEW i \in 1..Len(tokens)
  PROVE  LET e == Parse[<<"expression", 0, i>>]
         IN /\ e.cur \in 1..Len(tokens) /\ e.cur \in Int /\ e.cur >= i /\ e.ok \in BOOLEAN
            /\ e.ok => e.cur > i /\ Expressions(i, e.cur - 1) = {e.tree}
            /\ \A end \in 1..Len(tokens) : Stop(end) /\ Expressions(i, end - 1) # {} => e.ok /\ e.cur = end
<1> DEFINE e == Parse[<<"expression", 0, i>>]
<1>0. i \in Int /\ Len(tokens) \in Int /\ i >= 1 /\ i <= Len(tokens)
  BY PlaceIs
<1>1. "expression" \in ParserFunctions /\ 0 \in 0..41
  BY FunctionsAre
<1>2. e.cur \in 1..Len(tokens) /\ e.cur \in Int /\ e.cur >= i /\ e.ok \in BOOLEAN /\ (e.ok => e.cur > i)
  BY <1>1, ResultsAre
<1>3. ASSUME NEW c \in 1..Len(tokens), GetTokPrecedence(c) = -1, Closed(c), NEW t \in Expressions(i, c - 1)
      PROVE  e.ok /\ e.tree = t /\ e.cur = c
  <2>1. c \in Int /\ c >= 1 /\ c <= Len(tokens) /\ (c - 1) + 1 = c
    BY PlaceIs
  <2>2. InSpan(i, c - 1)
    <3>1. c - 1 \in Int /\ c - 1 >= 0 /\ c - 1 <= Len(tokens)
      BY <1>0, <2>1
    <3> QED
      BY <3>1, SpanOf
  <2>3. ReadsLevel(10, i, c - 1)
    BY <2>2, AllComplete, LevelsAre DEF Complete
  <2>4. t \in Trees[<<"comparison", i, c - 1>>]
    BY <1>3 DEF Expressions
  <2>5. (c - 1) + 1 \in 1..Len(tokens) /\ GetTokPrecedence((c - 1) + 1) = -1 /\ Closed((c - 1) + 1)
    BY <1>3, <2>1
  <2> HIDE DEF e
  <2>6. e.ok /\ e.tree = t /\ e.cur = (c - 1) + 1
    BY <2>3, <2>4, <2>5, ExpressionReads DEF e
  <2> QED
    BY <2>1, <2>6
<1>4. ASSUME e.ok PROVE Expressions(i, e.cur - 1) = {e.tree}
  <2>1. SoundAt("expression", 0, i)
    BY <1>1, ParseSound
  <2> HIDE DEF e
  <2>2. e.tree \in Trees[<<"comparison", i, e.cur - 1>>] /\ Closed(e.cur) /\ GetTokPrecedence(e.cur) = -1
    BY <1>4, <2>1 DEF SoundAt, Sound, e
  <2>3. e.tree \in Expressions(i, e.cur - 1)
    BY <2>2 DEF Expressions
  <2>4. \A t \in Expressions(i, e.cur - 1) : t = e.tree
    BY <1>2, <1>3, <2>2
  <2> QED
    BY <2>3, <2>4
<1>5. \A end \in 1..Len(tokens) : Stop(end) /\ Expressions(i, end - 1) # {} => e.ok /\ e.cur = end
  <2> HIDE DEF e
  <2> QED
    BY <1>3, StopIs
<1> HIDE DEF e
<1> QED
  BY <1>2, <1>4, <1>5 DEF e

\* A prototype ends with the first token that is not an identifier.
LEMMA OnePrototype ==
  ASSUME Tokened, NEW i \in 1..Len(tokens)
  PROVE  LET p == ParsePrototype(i)
         IN /\ p.cur \in 1..Len(tokens) /\ p.cur \in Int /\ p.cur >= i /\ p.ok \in BOOLEAN
            /\ p.ok => p.cur > i + 2 /\ Prototypes(i, p.cur - 1) = {p.tree}
            /\ \A m \in Int : m <= Len(tokens) /\ Prototypes(i, m) # {} => p.ok /\ m = p.cur - 1
<1> DEFINE p == ParsePrototype(i)
           close == ParseParameters(i + 1).close
<1>0. i \in Int /\ Len(tokens) \in Int /\ i >= 1 /\ i <= Len(tokens)
  BY PlaceIs
<1>1. /\ ParserEnds("primary", i, p)
      /\ p.ok => /\ tokens[i].t = "identifier" /\ tokens[i + 1].t = "(" /\ i + 1 \in 1..Len(tokens)
                 /\ close \in (i + 2)..Len(tokens) /\ tokens[close].t = ")" /\ p.cur = close + 1
                 /\ \A l \in (i + 2)..(close - 1) : tokens[l].t = "identifier"
                 /\ p.tree = Prototype(tokens[i].w, [k \in 1..(close - (i + 1) - 1) |-> tokens[(i + 1) + k].w])
      /\ (/\ tokens[i].t = "identifier" /\ tokens[i + 1].t = "("
          /\ \E m \in (i + 2)..Len(tokens) : /\ tokens[m].t = ")"
                                            /\ \A l \in (i + 2)..(m - 1) : tokens[l].t = "identifier")
         => p.ok
  BY PrototypeIs
<1> HIDE DEF p, close
<1>2. p.cur \in 1..Len(tokens) /\ p.cur \in Int /\ p.cur >= i /\ p.ok \in BOOLEAN
  BY <1>1, PlaceIs DEF ParserEnds
<1>3. ASSUME p.ok PROVE /\ close \in Int /\ close >= i + 2 /\ p.cur = close + 1 /\ p.cur - 1 = close
                       /\ p.cur > i + 2
  BY <1>0, <1>1, <1>3
<1>4. ASSUME p.ok PROVE Prototypes(i, p.cur - 1) = {p.tree}
  <2> DEFINE params(n) == [k \in 1..n |-> tokens[i + 1 + k].w]
  <2>1. Prototypes(i, close) = { Prototype(tokens[i].w, params(close - i - 2)) }
    BY <1>1, <1>3, <1>4 DEF Prototypes
  <2>2. p.tree = Prototype(tokens[i].w, params(close - (i + 1) - 1))
    BY <1>1, <1>4
  <2>3. close - (i + 1) - 1 = close - i - 2
    BY <1>0, <1>3, <1>4
  <2> HIDE DEF params
  <2> QED
    BY <1>3, <1>4, <2>1, <2>2, <2>3
<1>5. ASSUME NEW m \in Int, m <= Len(tokens), Prototypes(i, m) # {} PROVE p.ok /\ m = p.cur - 1
  <2>1. /\ i + 2 <= m /\ tokens[i].t = "identifier" /\ tokens[i + 1].t = "(" /\ tokens[m].t = ")"
        /\ \A k \in (i + 2)..(m - 1) : tokens[k].t = "identifier"
    BY <1>5 DEF Prototypes
  <2>2. m \in (i + 2)..Len(tokens)
    BY <1>0, <1>5, <2>1
  <2>3. p.ok
    BY <1>1, <2>1, <2>2
  <2>4. close \in Int /\ close >= i + 2 /\ p.cur - 1 = close
    BY <1>3, <2>3
  <2>5. ~ (m < close)
    <3> SUFFICES ASSUME m < close PROVE FALSE
      OBVIOUS
    <3>1. m \in (i + 2)..(close - 1)
      BY <1>0, <2>1, <2>4
    <3> QED
      BY <1>1, <2>1, <2>3, <3>1
  <2>6. ~ (close < m)
    <3> SUFFICES ASSUME close < m PROVE FALSE
      OBVIOUS
    <3>1. close \in (i + 2)..(m - 1)
      BY <1>0, <2>1, <2>4
    <3> QED
      BY <1>1, <2>1, <2>3, <3>1
  <2> QED
    BY <2>3, <2>4, <2>5, <2>6
<1>6. p.ok => p.cur > i + 2
  BY <1>3
<1> QED
  BY <1>2, <1>4, <1>5, <1>6 DEF p

ItemRead(i, r) ==
  /\ r.ok => Items(i, r.cur - 1) = {r.tree}
  /\ \A end \in 1..Len(tokens) :
       end >= i /\ Stop(end) /\ Items(i, end - 1) # {} => r.ok /\ Items(i, end - 1) = {r.tree}

LEMMA StopsBehind ==
  ASSUME Tokened, NEW i \in 1..Len(tokens), NEW end \in 1..Len(tokens), end >= i, Stop(end), ~ Stop(i)
  PROVE  i <= end - 1 /\ end \in Int /\ (end - 1) + 1 = end
<1>1. i \in Int /\ end \in Int /\ end # i
  BY PlaceIs
<1> QED
  BY <1>1

LEMMA ExpressionItems ==
  ASSUME NEW i, NEW j, tokens[i].t \notin {"def", "extern"} \/ ~ (i <= j)
  PROVE  Items(i, j) = { Anonymous(e) : e \in Expressions(i, j) }
<1> DEFINE IsDef == i <= j /\ tokens[i].t = "def"
           IsExtern == i <= j /\ tokens[i].t = "extern"
           Definitions == UNION { { Function(p, e) : p \in Prototypes(i + 1, m), e \in Expressions(m + 1, j) }
                                  : m \in (i + 1)..(j - 1) }
           Externs == Prototypes(i + 1, j)
           Others == { Anonymous(e) : e \in Expressions(i, j) }
<1>1. Items(i, j) = CASE IsDef -> Definitions [] IsExtern -> Externs [] OTHER -> Others
  BY DEF Items
<1>2. ~ IsDef /\ ~ IsExtern
  OBVIOUS
<1> HIDE DEF IsDef, IsExtern, Definitions, Externs, Others
<1>3. Items(i, j) = Others
  BY <1>1, <1>2
<1> QED
  BY <1>3 DEF Others

LEMMA ExpressionItem ==
  ASSUME Tokened, NEW i \in 1..Len(tokens), tokens[i].t \notin {"eof", ";", "def", "extern"}
  PROVE  ItemRead(i, ParseTopLevelExpr(i))
<1> DEFINE e == Parse[<<"expression", 0, i>>]
           r == ParseTopLevelExpr(i)
<1>1. /\ e.ok \in BOOLEAN
      /\ e.ok => Expressions(i, e.cur - 1) = {e.tree}
      /\ \A end \in 1..Len(tokens) : Stop(end) /\ Expressions(i, end - 1) # {} => e.ok /\ e.cur = end
  BY OneExpression
<1>2. r = IF e.ok THEN Ok(Anonymous(e.tree), e.cur) ELSE e
  BY DEF ParseTopLevelExpr
<1>3. ASSUME NEW j PROVE Items(i, j) = { Anonymous(t) : t \in Expressions(i, j) }
  BY ExpressionItems
<1> HIDE DEF r, e
<1>4. r.ok = e.ok /\ r.cur = e.cur /\ (e.ok => r.tree = Anonymous(e.tree))
  <2>1. CASE e.ok
    <3>1. e.ok = TRUE
      BY <1>1, <2>1
    <3> QED
      BY <1>2, <3>1 DEF Ok
  <2>2. CASE ~ e.ok
    BY <1>2, <2>2
  <2> QED
    BY <2>1, <2>2
<1>5. ASSUME r.ok PROVE Items(i, r.cur - 1) = {r.tree}
  <2>1. Items(i, e.cur - 1) = { Anonymous(t) : t \in Expressions(i, e.cur - 1) }
    BY <1>3
  <2>2. Expressions(i, e.cur - 1) = {e.tree} /\ r.tree = Anonymous(e.tree) /\ r.cur = e.cur
    BY <1>1, <1>4, <1>5
  <2> DEFINE from == Expressions(i, e.cur - 1)
             tree == e.tree
  <2> HIDE DEF from, tree
  <2>3. from = {tree} => { Anonymous(t) : t \in from } = {Anonymous(tree)}
    BY Zenon
  <2> QED
    BY <2>1, <2>2, <2>3 DEF from, tree
<1>6. ASSUME NEW end \in 1..Len(tokens), Stop(end), Items(i, end - 1) # {} PROVE r.ok /\ r.cur = end
  <2>1. Expressions(i, end - 1) # {}
    BY <1>3, <1>6
  <2> QED
    BY <1>1, <1>4, <1>6, <2>1
<1>7. ItemRead(i, r)
  BY <1>5, <1>6 DEF ItemRead
<1> QED
  BY <1>7 DEF r

LEMMA ExternItem ==
  ASSUME Tokened, NEW i \in 1..Len(tokens), tokens[i].t = "extern"
  PROVE  ItemRead(i, ParseExtern(i))
<1> DEFINE p == ParsePrototype(i + 1)
<1>0. i \in Int /\ i + 1 \in 1..Len(tokens) /\ getNextToken(i) = i + 1 /\ ~ Stop(i)
  BY StepOver DEF Stop
<1>1. /\ p.cur \in Int
      /\ p.ok => p.cur > (i + 1) + 2 /\ Prototypes(i + 1, p.cur - 1) = {p.tree}
      /\ \A m \in Int : m <= Len(tokens) /\ Prototypes(i + 1, m) # {} => p.ok /\ m = p.cur - 1
  BY <1>0, OnePrototype
<1>2. ParseExtern(i) = p
  BY <1>0 DEF ParseExtern
<1>3. \A j : i <= j => Items(i, j) = Prototypes(i + 1, j)
  BY DEF Items
<1> HIDE DEF p
<1>4. ASSUME p.ok PROVE Items(i, p.cur - 1) = {p.tree}
  <2>1. i <= p.cur - 1
    BY <1>0, <1>1, <1>4
  <2> QED
    BY <1>1, <1>3, <1>4, <2>1
<1>5. ASSUME NEW end \in 1..Len(tokens), end >= i, Stop(end), Items(i, end - 1) # {}
      PROVE  p.ok /\ Items(i, end - 1) = {p.tree}
  <2>1. i <= end - 1 /\ end \in Int
    BY <1>0, <1>5, StopsBehind
  <2>2. Items(i, end - 1) = Prototypes(i + 1, end - 1)
    BY <1>3, <2>1
  <2>3. end - 1 \in Int /\ end - 1 <= Len(tokens)
    BY PlaceIs
  <2>4. p.ok /\ end - 1 = p.cur - 1
    BY <1>1, <1>5, <2>2, <2>3
  <2> QED
    BY <1>1, <2>2, <2>4
<1> QED
  BY <1>2, <1>4, <1>5 DEF ItemRead

\* Of the spans from i + 1 on that end before j, the one that ends in m alone is a header.
OnlyHeader(i, j, m) == \A n \in (i + 1)..(j - 1) : Prototypes(i + 1, n) # {} => n = m

LEMMA DefinitionItems ==
  ASSUME NEW i \in Int, NEW j \in Int, i <= j, tokens[i].t = "def", NEW m \in (i + 1)..(j - 1), NEW p, NEW e,
         Prototypes(i + 1, m) = {p}, Expressions(m + 1, j) = {e}, OnlyHeader(i, j, m)
  PROVE  Items(i, j) = {Function(p, e)}
<1> DEFINE At(n) == { Function(f, b) : f \in Prototypes(i + 1, n), b \in Expressions(n + 1, j) }
<1>1. Items(i, j) = UNION { At(n) : n \in (i + 1)..(j - 1) }
  BY DEF Items
<1>2. At(m) = {Function(p, e)}
  <2>1. \A F, B : F = {p} /\ B = {e} => { Function(f, b) : f \in F, b \in B } = {Function(p, e)}
    OBVIOUS
  <2> QED
    BY <2>1
<1>3. \A n \in (i + 1)..(j - 1) : n # m => At(n) = {}
  BY DEF OnlyHeader
<1> HIDE DEF At
<1> QED
  BY <1>1, <1>2, <1>3

LEMMA DefinitionItem ==
  ASSUME Tokened, NEW i \in 1..Len(tokens), tokens[i].t = "def"
  PROVE  ItemRead(i, ParseDefinition(i))
<1> DEFINE p == ParsePrototype(i + 1)
           e == Parse[<<"expression", 0, p.cur>>]
           r == ParseDefinition(i)
<1>0. i \in Int /\ i + 1 \in 1..Len(tokens) /\ getNextToken(i) = i + 1 /\ ~ Stop(i) /\ Len(tokens) \in Int
  BY StepOver, PlaceIs DEF Stop
<1>1. /\ p.cur \in 1..Len(tokens) /\ p.cur \in Int /\ p.cur >= i + 1 /\ p.ok \in BOOLEAN
      /\ p.ok => p.cur > (i + 1) + 2 /\ Prototypes(i + 1, p.cur - 1) = {p.tree}
      /\ \A m \in Int : m <= Len(tokens) /\ Prototypes(i + 1, m) # {} => p.ok /\ m = p.cur - 1
  BY <1>0, OnePrototype
<1>2. /\ e.cur \in 1..Len(tokens) /\ e.cur \in Int /\ e.cur >= p.cur /\ e.ok \in BOOLEAN
      /\ e.ok => e.cur > p.cur /\ Expressions(p.cur, e.cur - 1) = {e.tree}
      /\ \A end \in 1..Len(tokens) : Stop(end) /\ Expressions(p.cur, end - 1) # {} => e.ok /\ e.cur = end
  <2> DEFINE c == p.cur
  <2>1. c \in 1..Len(tokens)
    BY <1>1
  <2> HIDE DEF p, c
  <2>2. LET s == Parse[<<"expression", 0, c>>]
        IN /\ s.cur \in 1..Len(tokens) /\ s.cur \in Int /\ s.cur >= c /\ s.ok \in BOOLEAN
           /\ s.ok => s.cur > c /\ Expressions(c, s.cur - 1) = {s.tree}
           /\ \A end \in 1..Len(tokens) : Stop(end) /\ Expressions(c, end - 1) # {} => s.ok /\ s.cur = end
    BY <2>1, OneExpression
  <2> QED
    BY <2>2 DEF c
<1>3. r = IF ~ p.ok THEN p ELSE IF ~ e.ok THEN e ELSE Ok(Function(p.tree, e.tree), e.cur)
  BY <1>0 DEF ParseDefinition
<1> HIDE DEF p, e, r
<1>4. /\ (r.ok <=> p.ok /\ e.ok)
      /\ p.ok /\ e.ok => r.cur = e.cur /\ r.tree = Function(p.tree, e.tree)
  <2>1. CASE p.ok /\ e.ok
    <3>1. r.ok = TRUE /\ r.cur = e.cur /\ r.tree = Function(p.tree, e.tree)
      BY <1>3, <2>1 DEF Ok
    <3> QED
      BY <2>1, <3>1
  <2>2. CASE ~ p.ok
    BY <1>3, <2>2
  <2>3. CASE p.ok /\ ~ e.ok
    BY <1>3, <2>3
  <2> QED
    BY <2>1, <2>2, <2>3
<1>5. ASSUME p.ok, e.ok PROVE Items(i, e.cur - 1) = {Function(p.tree, e.tree)}
  <2> DEFINE m == p.cur - 1
             j == e.cur - 1
  <2>1. /\ m \in (i + 1)..(j - 1) /\ j \in Int /\ i <= j /\ m + 1 = p.cur /\ j <= Len(tokens)
    <3>1. /\ p.cur \in Int /\ e.cur \in Int /\ p.cur > (i + 1) + 2 /\ e.cur > p.cur /\ e.cur <= Len(tokens)
      BY <1>1, <1>2, <1>5
    <3> QED
      BY <1>0, <3>1
  <2>2. Prototypes(i + 1, m) = {p.tree} /\ Expressions(m + 1, j) = {e.tree}
    BY <1>1, <1>2, <1>5, <2>1
  <2>3. OnlyHeader(i, j, m)
    <3> SUFFICES ASSUME NEW n \in (i + 1)..(j - 1), Prototypes(i + 1, n) # {} PROVE n = m
      BY DEF OnlyHeader
    <3>1. n \in Int /\ n <= Len(tokens)
      <4> HIDE DEF j
      <4> QED
        BY <1>0, <2>1
    <3> QED
      BY <1>1, <3>1
  <2> HIDE DEF m, j
  <2>4. Items(i, j) = {Function(p.tree, e.tree)}
    <3>1. i \in Int
      BY <1>0
    <3>2. i \in Int /\ j \in Int /\ i <= j /\ m \in (i + 1)..(j - 1)
      BY <2>1, <3>1
    <3>3. \A a, b : Prototypes(i + 1, m) = {a} /\ Expressions(m + 1, j) = {b} => Items(i, j) = {Function(a, b)}
      BY <2>3, <3>2, DefinitionItems
    <3> QED
      BY <2>2, <3>3
  <2> QED
    BY <2>4 DEF j
<1>6. ASSUME NEW end \in 1..Len(tokens), end >= i, Stop(end), Items(i, end - 1) # {}
      PROVE  p.ok /\ e.ok /\ e.cur = end
  <2>1. i <= end - 1 /\ end \in Int /\ end <= Len(tokens)
    BY <1>0, <1>6, StopsBehind
  <2> DEFINE j == end - 1
  <2>2. Items(i, j) = UNION { { Function(f, b) : f \in Prototypes(i + 1, n), b \in Expressions(n + 1, j) }
                              : n \in (i + 1)..(j - 1) }
    BY <2>1 DEF Items
  <2>3. PICK n \in (i + 1)..(j - 1) : Prototypes(i + 1, n) # {} /\ Expressions(n + 1, j) # {}
    <3> HIDE DEF j
    <3>1. Items(i, j) # {}
      BY <1>6 DEF j
    <3> QED
      BY <2>2, <3>1
  <2>4. n \in Int /\ n <= Len(tokens)
    BY <1>0, <2>1
  <2>5. p.ok /\ n = p.cur - 1
    BY <1>1, <2>3, <2>4
  <2>6. n + 1 = p.cur
    BY <1>1, <2>5
  <2>7. Expressions(p.cur, end - 1) # {}
    BY <2>3, <2>6
  <2> QED
    BY <1>2, <1>6, <2>5, <2>7
<1>7. ItemRead(i, r)
  BY <1>4, <1>5, <1>6 DEF ItemRead
<1> QED
  BY <1>7 DEF r

\* What ParsesTheGrammar says of the last turn.
End(i) == CHOOSE k \in i..Len(tokens) :
            /\ tokens[k].t \in {";", "eof"}
            /\ \A l \in i..(k - 1) : tokens[l].t # ";"

TurnReads(turn) ==
  /\ turn.got = "item" => Items(turn.from, turn.to - 1) = {turn.item}
  /\ Items(turn.from, End(turn.from) - 1) # {} =>
       turn.got = "item" /\ Items(turn.from, End(turn.from) - 1) = {turn.item}

LEMMA EndIs ==
  ASSUME Tokened, NEW i \in 1..Len(tokens)
  PROVE  /\ End(i) \in 1..Len(tokens) /\ End(i) >= i /\ Stop(End(i))
         /\ \A l \in i..(End(i) - 1) : tokens[l].t # ";"
<1> DEFINE S == { k \in i..Len(tokens) : Stop(k) }
           Split(k) == tokens[k].t = ";"
           end == End(i)
<1>0. i \in Int /\ Len(tokens) \in Nat /\ i >= 1
  BY PlaceIs DEF Tokened
<1>1. S \in SUBSET Nat /\ S # {}
  <2>1. Len(tokens) \in i..Len(tokens) /\ Len(tokens) \in 1..Len(tokens)
    BY <1>0
  <2>2. Stop(Len(tokens))
    BY <2>1 DEF Tokened, Stop
  <2> QED
    BY <1>0, <2>1, <2>2
<1>2. PICK m \in S : \A k \in S : m <= k
  BY <1>1, Least
<1>3. \A k : Split(k) => Stop(k)
  BY DEF Stop
<1> HIDE DEF Split
<1>4. \E k \in i..Len(tokens) : Stop(k) /\ \A l \in i..(k - 1) : ~ Split(l)
  <2>1. ASSUME NEW l \in i..(m - 1), Split(l) PROVE FALSE
    <3>1. l \in i..Len(tokens) /\ ~ (m <= l)
      BY <1>0, <1>2
    <3> QED
      BY <1>2, <1>3, <2>1, <3>1
  <2> QED
    BY <1>2, <2>1
<1>5. end \in i..Len(tokens) /\ Stop(end) /\ \A l \in i..(end - 1) : ~ Split(l)
  BY <1>4 DEF Stop, Split, End
<1> HIDE DEF end
<1>6. end \in 1..Len(tokens) /\ end >= i
  BY <1>0, <1>5
<1> QED
  BY <1>5, <1>6 DEF end, Split

LEMMA ItemTurnReads ==
  ASSUME Tokened, CurTok \in 1..Len(tokens), tokens[CurTok].t # "eof", NEW r,
         ParserEnds("primary", CurTok, r), ItemRead(CurTok, r), Handle(r)
  PROVE  \E e : Turned(e) /\ TurnReads(e)
<1>1. PICK e : /\ Turned(e)
               /\ r.ok => e.got = "item" /\ e.item = r.tree /\ CurTok' = r.cur
               /\ ~ r.ok => e.got = "error"
  BY HandleTurns
<1>2. e.from = CurTok /\ (r.ok => e.to = r.cur)
  BY <1>1 DEF Turned
<1> DEFINE end == End(e.from)
<1>3. end \in 1..Len(tokens) /\ end >= CurTok /\ Stop(end)
  BY <1>2, EndIs
<1> HIDE DEF end
<1>4. e.got = "item" => r.ok
  BY <1>1
<1>5. e.got = "item" => Items(e.from, e.to - 1) = {e.item}
  BY <1>1, <1>2, <1>4 DEF ItemRead
<1>6. Items(e.from, end - 1) # {} => e.got = "item" /\ Items(e.from, end - 1) = {e.item}
  BY <1>1, <1>2, <1>3 DEF ItemRead
<1>7. TurnReads(e)
  BY <1>5, <1>6 DEF TurnReads, end
<1> QED
  BY <1>1, <1>7

LEMMA SemicolonReads ==
  ASSUME Tokened, CurTok \in 1..Len(tokens), SemicolonTurn
  PROVE  \E e : Turned(e) /\ TurnReads(e)
<1> DEFINE e == [from |-> CurTok, to |-> CurTok + 1, got |-> "nothing"]
<1>1. /\ getNextToken(CurTok) = CurTok + 1 /\ CurTok + 1 \in 1..Len(tokens)
      /\ CurTok \in Int
  BY NextIs, PlaceIs DEF SemicolonTurn
<1>2. turns' = Append(turns, e) /\ CurTok' = CurTok + 1
  BY <1>1 DEF SemicolonTurn, Turn
<1>3. e.from = CurTok /\ e.to = CurTok + 1 /\ e.got = "nothing"
  OBVIOUS
<1> HIDE DEF e
<1>4. Turned(e)
  <2>1. (CurTok + 1) - 1 = CurTok /\ CurTok + 1 > CurTok
    BY <1>1
  <2> QED
    BY <1>1, <1>2, <1>3, <2>1, NoSemicolonIs DEF Turned
<1> DEFINE Split(l) == tokens[l].t = ";"
           end == End(e.from)
<1>5. end \in 1..Len(tokens) /\ end >= CurTok /\ \A l \in CurTok..(end - 1) : ~ Split(l)
  BY <1>3, EndIs
<1>9. Split(CurTok)
  BY DEF SemicolonTurn
<1> HIDE DEF end, Split
<1>6. end = CurTok
  <2>1. end \in Int
    BY <1>5, PlaceIs
  <2>2. end > CurTok => CurTok \in CurTok..(end - 1)
    BY <1>1, <2>1
  <2> QED
    BY <1>1, <1>5, <1>9, <2>1, <2>2
<1>7. Items(CurTok, CurTok - 1) = {}
  <2>1. InSpan(CurTok, CurTok - 1) /\ CurTok > CurTok - 1 /\ ~ (CurTok <= CurTok - 1)
    <3>0. CurTok \in Int /\ Len(tokens) \in Nat
      BY <1>1 DEF Tokened
    <3>1. CurTok - 1 \in Int /\ CurTok - 1 >= 0 /\ CurTok - 1 <= Len(tokens) /\ CurTok > CurTok - 1
      BY <3>0
    <3>2. ~ (CurTok <= CurTok - 1)
      BY <3>0
    <3> QED
      BY <3>1, <3>2, SpanOf
  <2>2. Expressions(CurTok, CurTok - 1) = {}
    BY <2>1, EmptySpan, LevelsAre DEF Expressions
  <2>3. Items(CurTok, CurTok - 1) = { Anonymous(t) : t \in Expressions(CurTok, CurTok - 1) }
    BY <2>1, ExpressionItems
  <2> QED
    BY <2>2, <2>3
<1>8. TurnReads(e)
  <2>1. Items(e.from, end - 1) = {} /\ e.got # "item"
    BY <1>3, <1>6, <1>7
  <2> QED
    BY <2>1 DEF TurnReads, end
<1> QED
  BY <1>4, <1>8

LEMMA LoopReads ==
  ASSUME Tokened, CurTok \in 1..Len(tokens), MainLoop
  PROVE  (turns' = turns /\ CurTok' = CurTok) \/ \E e : Turned(e) /\ TurnReads(e)
<1>1. CASE SemicolonTurn
  BY <1>1, SemicolonReads
<1>2. CASE DefinitionTurn
  BY <1>2, DefinitionEnds, DefinitionItem, ItemTurnReads DEF DefinitionTurn
<1>3. CASE ExternTurn
  BY <1>3, ExternEnds, ExternItem, ItemTurnReads DEF ExternTurn
<1>4. CASE ExpressionTurn
  BY <1>4, TopLevelEnds, ExpressionItem, ItemTurnReads DEF ExpressionTurn
<1>5. CASE Return
  BY <1>5 DEF Return
<1> QED
  BY <1>1, <1>2, <1>3, <1>4, <1>5 DEF MainLoop

\* The items of a text that stays are the same.
LEMMA ItemsStay ==
  ASSUME tokens' = tokens
  PROVE  \A i, j : (Items(i, j))' = Items(i, j)
BY DEF Items, Expressions, Prototypes, Trees, Spans, Derived

LEMMA EndStays ==
  ASSUME tokens' = tokens
  PROVE  \A i : (End(i))' = End(i)
BY DEF End

LEMMA ReadStays ==
  ASSUME tokens' = tokens, NEW e, TurnReads(e)
  PROVE  (TurnReads(e))'
BY ItemsStay, EndStays DEF TurnReads

\* What a turn of the loop reads has exactly the tree the grammar gives it, and what
\* the grammar derives up to a semicolon, or the end, is read as one item.
THEOREM KaleidoscopeParsesTheGrammar == ParserSpec => []ParsesTheGrammar
<1>1. ParserInit => ParsesTheGrammar
  BY DEF ParserInit, ParsesTheGrammar
<1>2. ParserInv /\ ParsesTheGrammar /\ [MainLoop]_parserVars => ParsesTheGrammar'
  <2> SUFFICES ASSUME ParserInv, ParsesTheGrammar, [MainLoop]_parserVars
               PROVE  ParsesTheGrammar'
    OBVIOUS
  <2>0. tokens' = tokens /\ Tokened /\ CurTok \in 1..Len(tokens) /\ IsSeq(turns)
    BY LoopKeeps DEF ParserInv
  <2>1. ASSUME NEW e, TurnReads(e), Last(turns') = e PROVE ParsesTheGrammar'
    <3>1. (TurnReads(e))'
      BY <2>0, <2>1, ReadStays
    <3> QED
      BY <2>1, <3>1 DEF ParsesTheGrammar, TurnReads, End
  <2>2. CASE turns' = turns
    <3>1. CASE turns = <<>>
      BY <2>2, <3>1 DEF ParsesTheGrammar
    <3>2. CASE turns # <<>>
      <4>1. PICK e : e = Last(turns)
        OBVIOUS
      <4>2. TurnReads(e)
        BY <3>2, <4>1 DEF ParsesTheGrammar, TurnReads, End
      <4> QED
        BY <2>1, <2>2, <4>1, <4>2
    <3> QED
      BY <3>1, <3>2
  <2>3. ASSUME NEW e, Turned(e), TurnReads(e) PROVE ParsesTheGrammar'
    <3>1. turns' = Append(turns, e)
      BY <2>3 DEF Turned
    <3>2. Len(turns') = Len(turns) + 1 /\ turns'[Len(turns) + 1] = e
      BY <2>0, <3>1, IsSeqAppend
    <3>3. Last(turns') = e
      BY <3>2 DEF Last
    <3> QED
      BY <2>1, <2>3, <3>3
  <2>4. CASE UNCHANGED parserVars
    BY <2>2, <2>4 DEF parserVars
  <2>5. CASE MainLoop
    BY <2>0, <2>2, <2>3, <2>5, LoopReads
  <2> QED
    BY <2>4, <2>5
<1> QED
  BY <1>1, <1>2, ParserInvHolds, PTL DEF ParserSpec
=============================================================================
