# A TLA+ verification of compilers-and-plt

The repository is a collection of small language implementations and
algorithms. This directory models the parts that carry logic of their own,
checks them with TLC on small instances and proves some of them with TLAPS for
every value of the constants.

- [Components of the system](#components-of-the-system)
- [Modules and how they correspond to the code](#modules-and-how-they-correspond-to-the-code)
- [Runs, bounds and what they show](#runs-bounds-and-what-they-show)
- [Fairness](#fairness)
- [Proofs](#proofs)
- [Where code and text disagree](#where-code-and-text-disagree)
- [Not modelled](#not-modelled)
- [Plan](#plan)

To repeat: `tlc -config MCGuslang.cfg MCGuslang` (likewise for every run; its module
is in `PROJECT.json`), and `tlapm M.tla` for `M` one of `GuslangProofs`, `KaleidoscopeProofs`,
`CodegenProofs`, `DumbcProofs`, `FrontendProofs`, `MonkeyProofs`, `TraversalProofs`;
the last takes a quarter of an hour. `ProofLemmas` is what several of them share.

## Components of the system

### dumbc (C): an expression compiler

One process, one thread: `main` takes an expression, parses it, compiles it to
intermediate code, prints x86-64 assembly to `out.asm` and runs `nasm`, `ld` and
`rm` through `system()`.

| component | state | operations | what is hard | what makes it correct |
|---|---|---|---|---|
| arena (`arena.c`; guslang's is the same) | up to 1024 chunks of 4096 bytes, fill marks | `arena_alloc`, `arena_free` | a failed `malloc` leaves a chunk in use without memory; strict test for room; exhaustion | blocks never overlap and never leave their chunk; no address that is not memory before a NULL |
| lexer | cursor, read cursor, character | `lexer_next_token` | the cursor is one ahead of what was taken | the tokens are the input |
| parser | two tokens, the C stack of the Pratt parser | prefix and infix functions | lexer errors ignored, prefix errors overwritten, precedence decided by one comparison | accepts the grammar, builds its derivation |
| code generator | instruction vector in the arena, register pool | `compile_expression_into_ir`, `push_instruction`, `register_allocate` | operands alive across the compilation of other operands; the vector grows; registers are never freed | the code computes the expression, or is refused |
| printer | `out.asm` | `compile_instructions_to_x86_64` | negation and result in `rax` whatever the register | the program prints the value |
| `print_number` | five registers and a buffer | assembly routine | the most negative word | the bytes are the decimal numeral |
| driver | files `out.asm`, `out.o`, `out` | `main` | any step fails, the process dies, files stay for the next run | "Compiled" is true |

They interact by calls and through the arena; the files outlive the process.

### graphs (C): five traversals

A pool of vertices in static memory (`graph.c`), a queue of three macros over an
array (`queue.c`, no bounds check) and five programs, each with a `main` of its
own: breadth-first visit, breadth-first path, depth-first visit, connected
components, shortest path in a maze. State: the queue with its two ends or the
recursion, the visited flags, the parents. Hard: a vertex queued more than once, marks
set on entering or on leaving the queue, the walk back along the parents,
recursion depth, layer counting. Right when: every reachable vertex and no
other is visited, in the promised order, the path is a shortest one, the
program ends and stays inside its arrays; the pool holds the graph that was asked
for, or ends the program at the call that asks for too much.

### kaleidoscope (C++, LLVM): a JIT session

A read-eval loop over three tables which must agree: `FunctionProtos`, the
functions of `TheModule`, and the symbols of the ORC JIT. Operations: the three
handlers and the code generation they call. Hard: the order in which prototypes
are stored, declarations appear and symbols are added; what a failed body leaves
behind; names given twice; names the process exports. Right when: compiled
calls pass what their callee takes, and the session ends only for a reason.
Its lexer, with one character of lookahead kept between calls, and its
operator-precedence parser, with one token, feed the handlers. An error skips one
token, wherever in the item it was. Right when: the tokens are the text, an item has
the tree of the grammar, and what a broken item spoils ends at its semicolon.

### monkey (Go): an interpreter

Lexer, Pratt parser, abstract syntax, a tree-walking evaluator over objects and
chained environments, built-ins, and a REPL with one environment for all its
lines. State: the two tokens of the parser and its list of errors; the environments,
which closures share. Hard: errors noted while parsing goes on, blocks that end at
the end of the input; the scope a closure
sees when its environment changes later; return values and errors unwound
through blocks; the pairs of a hash evaluated in a random order; `==` on pointers; a
panic or an error after half of a line has taken effect.
Right when: a line without errors has exactly the tree of the grammar, evaluation
agrees with lexical scoping, `return` ends exactly one call, an error is never
treated as a value.

### guslang (C)

A command line over a buffer of 1024 bytes, the arena and a lexer, driven by a loop
in `main` that prints the type of each token. State: the buffer, the place in it, the
caller's token. Hard: a token the lexer leaves as it was, uninitialized on the first
call; lines cut by the buffer; a NUL in the input. Right when: the types printed are
those of the text, and the program ends where the text is at fault.

### haskelling (Haskell)

Independent pure exercises.

Every component, with what of it is modelled, is listed in `PROJECT.json`;
so is each hazard, with the line where it bites.

## Modules and how they correspond to the code

`PROJECT.json` ("map") gives the lines of each definition. Definitions whose
name carries a suffix (`Dequeue_NoCheck`) are variants with a plausible bug; they
are not part of any next-state relation.

**Arena.** `Allocator` is the abstract promise: blocks of memory are handed out
apart from all live ones and released together. `Arena` is `arena.c`: `Alloc(s)`
has one disjunct per way out of `arena_alloc` (`AllocInChunk` first-fit,
`AllocNewChunk`, `AllocMallocFails`, `AllocExhausted`), `Free` is `arena_free`.
`malloc` may fail at any call. `blocks` and `refused` are history.

**Guslang.** `main`'s loop and the lexer: `ReadLine` is the prompt, `fgets` up to a
newline or to the end of the buffer, `strlen` and `lexer_init`; then each turn of the
inner loop is one call of `lexer_next_token`, an action for each of
its branches. `type` is the caller's token: any value at the start of a line, since it is not
initialized, and kept by the branch for unknown characters. `printed` is history. `main`
includes the arena and does not use it, so `MCGuslang` has both in one run and a
behaviour is one of either.

**DumbcAst, DumbcLexer, DumbcParser, DumbcFrontend.** A tree is a record with an operation, the place of a
literal in the input and the subtrees. The lexer's actions are the branches of
`lexer_next_token` and one turn of each of its loops, over characters reduced to
their class; tokens carry the place and length the code computes. The parser
keeps the C stack in `stack`: a frame is a suspended prefix or infix function,
`mode` says whether `parser_parse_expression` is being entered, loops, or has
returned. `debug` is the build: with `-DDEBUG`, `main` runs the lexer over the
expression first and stops at an unknown character; without it the parser meets
the stale token. `dropped` is history: which errors the code has forgotten.
`ExprGrammar` is the reference: from the grammar of the precedences, the set of trees of each
span of the lexemes at each level (`Trees`), used by no action. `DumbcFrontend` composes the two; the lexer
depends on nothing of the parser, so its run is put first in both builds.

**DumbcCodegen, DumbcSemantics.** The recursion of `compile_expression_into_ir`
is a list of tasks (`todo`), each what a pending call still has to do; `code` is
the vector with its capacity, `regUsed` the registers taken, `asm` the printed lines.
`DumbcSemantics` runs both codes on terms instead of numbers: two programs that
build the same term compute the same number, whatever the width.

**DumbcPrint, DumbcMain, DumbcSystem.** `DumbcPrint` is the routine
`print_number` with words whose highest bit is `SignBit`. `DumbcMain` is `main` as a pipeline: a file is
the number of the run whose expression it holds (negative when that run left it
incomplete, or made it from something incomplete), each external command succeeds, or fails with some
wait status and its output as it was or incomplete, and `Killed` may happen between any two steps.
`main` looks at no result of the `fprintf` calls that write `out.asm` nor at that of its `fclose`: `WriteAsm` may
lose a write and go on to `nasm`, with an incomplete file, which `nasm` and `ld` may take or
refuse. `lost` is history: this run has lost one.
`DumbcSystem` composes them: `dumbc <expr> && ./out`.

**GraphPool, VertexPool, Search, Distance, Bfs, BfsPath, Dfs, Components, GridBfs, Traversals.** `GraphPool` has what the programs share: a
finished graph is a function from vertices to sequences of neighbours. `VertexPool` is how
it is built: `graph_create_node` and `graph_add_edge` with their limits, called in any
order, `calls` being history. `Search`
is the abstract traversal: mark the start, then one by one what marked vertices
lead to, until nothing is left. The five programs keep their own queue,
recursion (`stack`), parents and loop places, one action per turn of each loop.
In `Bfs` an enqueue past the end of the array ends the model in "overrun".
`Distance` is the reference of the properties on order: what lies within so many steps.
`Traversals` puts the five programs, and the pool as a sixth, into one specification, a
behaviour of which picks one and is a behaviour of it, so that what they have in common is
stated once.

**KaleidoscopeSession.** `HandleExtern`, `HandleDefinition`, `DefinitionFails`
and `HandleTopLevelExpression` are the handlers with everything they call; a
body is the set of variables and calls that are its operands, because a binary
operator generates both sides even when one fails and the tables are asked about
nothing else. The arguments of a call are numbers. The prototype of an
anonymous expression is left out: no identifier can name it. `Duplicate`,
`Needed` and `imported` are what the code relies on in LLVM's ORC: a library
refuses a second definition, a lookup resolves everything the symbol needs, and
what it finds in the process becomes a symbol of the library.

**KaleidoscopeParser, KaleidoscopeGrammar.** The front end of the same program. Nothing
else reads the input, so the tokens are a function of the text (`gettok`, with `LastChar` one ahead),
and one step is one turn of `MainLoop`: what the parsing functions return is a function of the
token's place, a tree and the place of `CurTok` after it. They call each other: each is an operator
on the results `P` of the calls it makes, and `Parse` is the recursive function these
results are taken from, a call being named by the function, `ExprPrec` and the
place. The loop of `ParseBinOpRHS` is a call that returns the operands, and `Merge` hangs
them on `LHS` one by one. `Recover` is
the arm of the handlers that skips one token and touches no table. `turns` is history.
`KaleidoscopeGrammar` is the reference: the characters each token stands on, and a
grammar with a symbol for each precedence, derived by spans.
The two halves of the program meet in the items only: the parser looks at no table and
the handlers at no token, so they are not composed; `MCKaleidoscope` has both in one run, and a
behaviour is one of either.

**MonkeyAst, MonkeyParser, MonkeyGrammar.** The same for monkey: one step is one
statement of `ParseProgram`; a parsing function takes the place of `curToken`, whether
an error was noted and the last result, and returns them changed, because the code
goes on after an error with a nil in the tree. `MonkeyGrammar` is a grammar with a symbol for each
precedence and no state. Two of its rules are what the parser makes of them: a
block may end at the end of the input or a NUL, and any token may stand for a parameter.

**MonkeyEval, MonkeyMeaning.** `Eval` calls itself; `MonkeyEval` has its Go stack
in `stack`, one frame for each suspended call, and `ctl` says what the innermost one
does: evaluate a node, or hand the object it got to the frame on top. There is one
action for each way `Eval` goes on with an object (`LetReturned`, `LeftReturned`,
`CalleeReturned`, `PairReturned`, ...), and `ErrorReturned` for all its `isError` tests.
What needs no further evaluation is an operator: `EvalPrefix`, `EvalInfix`, `EvalIndex`,
`CallBuiltin`, each with the errors and panics of the code. `NextKey` takes any pair of a
hash that is left, as Go's `range` over a map does. `==` compares pointers but for integers, so
objects have a number of their own (`made`), and the ones there is only one of have none. `envs` holds
the environments; a function carries the index of the one it was made in. The
REPL is `ReadLine` and `ProgramReturned`: every line is evaluated in `envs[1]`, a panic is the end.
`line`, `before` and `leaked` are history. `MonkeyMeaning` is the reference, an interpreter in
one recursive definition in which errors and returns end everything around
them at once, used by no action. It gives the set of outcomes of a line, one for each
order of the pairs; what operators and built-ins make of their operands it takes from
`MonkeyEval`, so that it says something of scope, control and order, not of arithmetic.

The `MC*` modules give TLC its instances; `MCTraversals` has the graphs of its run.
`MCMonkey` puts monkey's evaluator and parser into one specification.

## Runs, bounds and what they show

| run | states | shows |
|---|---|---|
| guslang | 691 thousand | the arena: blocks stay apart; NULL plus an offset is handed out only after a NULL; any two chunks in use hold a chunk's worth, and the last byte of a shared one stays free; implements `Allocator`. The loop: words, numbers and strings are printed once each with the type of their characters, and which inputs end the program |
| dumbc_frontend | 480 thousand | the tokens are the input, and what the parser holds are its lexemes and trees of them; the grammar is accepted and its derivation built, unless an error is forgotten; a forgotten error leaves the junk node where it happened; how deep the stack gets; when the front end ends |
| dumbc_codegen | 258 thousand | the intermediate code computes the expression; pending operands never share a register; pushes stay in the vector; exactly which expressions compile; for which the printed number is right |
| dumbc_system | 926 thousand | success means this run's own program, whole unless a write to `out.asm` was lost, over three runs that fail or die anywhere; `print_number` is right on every word and stays in its buffer |
| traversals | 734 thousand | searches, each in its order, shortest paths, ends, and exactly when the unchecked queue is overrun; the pool holds what was asked |
| kaleidoscope | 874 thousand | the front end: the tokens are the text; items have the tree of the grammar; errors end at the semicolon; the loop never stands still. The session: compiled calls match while names are given once; every exit and every divergence has a cause |
| monkey | 1.9 million | a line without errors has exactly one derivation, the one the parser builds, and others have none; a line prints and binds what it means, across closures, returns, errors, panics, hashes in any order and a second line; no error is kept; only the running call binds; a ReturnValue gets to an operand only through a block of the operand |
| dumbc_rax, dumbc_exit, dumbc_lost_write, grid_moves, session_arity | | disagreements, see below |

Bounds, and why they are enough:

- *guslang*: for the arena, three chunks of seven bytes, requests of 2, 3, 4 and 7: exact fits,
  fits that are refused by the strict test, a chunk whose `malloc` failed serving later
  requests, and exhaustion all occur. The proofs cover every size. For the loop, every
  input of five characters over letters, a digit, the digit that is none, blanks, newline, quote and
  NUL, in a buffer of three and its NUL: words and strings lie across its border, and a
  second line meets what the first left.
- *dumbc_frontend*: all expressions of five characters over every class (blanks
  only with a reduced alphabet) and seven over digits and two operators of
  different precedence. Nested and unclosed groups, both associativities, a
  literal that is too long (two digits here, 33 in the code) and an unknown
  character in every place occur; the twelve frames that stand for the C stack
  are more than any input without an unknown character uses: there are never more calls
  pending than lexemes, which `FramesBoundedByInput` states and a theorem says for every length.
  It says nothing of inputs with an unknown character: that these may recurse without end
  is what `Terminates` makes an exception for.
- *dumbc_codegen*: all shapes of up to five leaves, signs everywhere on up to
  four (of minus) or two (of both, and junk nodes); six registers serve three binary operators, so
  both sides of that limit are met; the vector starts at two slots and outgrows a chunk of eight.
- *dumbc_system*: three runs, since what one leaves meets the next and the one
  after it; all words of 11 bits, in the smallest buffer that does, as 64 bytes
  have room to spare for 64 bits.
- *traversals*: graphs of four vertices, the first at which a wrong order of a
  depth-first search shows, with at most two neighbours (any number for the
  components), loops, parallel edges and cycles; an array of four slots; every
  maze of three by three cells; a pool of two vertices with two edges each, and every
  sequence of six calls, which asks for too much of either.
- *kaleidoscope*: for the front end, every text of four characters, among them a comment, the keyword
  `def` as a word of one letter and an unknown character; every one of five over operands,
  operators, parentheses and commas, of seven over those of nested calls, chains of
  four operators of all precedences, and every line of six tokens of a definition in
  front of an `extern` that must be read whatever they are.
  For the session, three names, one of them exported by the process, each given twice
  at most, bodies of one operand, no or one parameter. Mutual recursion, a name
  redefined and a declaration with other parameters all occur.
- *monkey*: two lines, so that what one binds is used by the other, of up to two
  of 27 statements over two names: functions that return out of a nested block, shadow, make a closure
  over their own name or call themselves without end; calls with too few and
  with superfluous arguments; division by zero; the nil of an empty block; a
  return in an operand. A second family of 22 statements has arrays and hashes with
  each other, a nil and a return in them, pairs that bind, fail or have
  equal keys, pointers compared, and the built-ins, one of them shadowed. Twelve frames
  cut only the endless recursion. The parser reads every line of three characters of 32,
  every one of six operands, operators and parentheses, and nine lines
  that hold each construct with one character changed, put in or left out.

A run does not check deadlock where the program stops by itself: every program
here does.

What some of the properties say about the code is worth a sentence:

- `CompilesWithinRegisters` is exact: an expression compiles iff it has at most
  three binary operators (with the six registers of the pool) and no
  subtraction, for the printer insists on a pair of registers the allocator never gives.
- `PrintsTheValue` has the condition `NegationsInRax`: a negation is printed for
  `rax` whatever register it was compiled for.
- `QueueRoom`: `bfs.c` overruns its queue exactly on graphs with as many edges out of
  reached vertices as the array has slots, although the pool lets every vertex have 32.
- `NumbersByOldestAncestor` (a part of `VisitsInOrder`): on directed graphs the numbers are not components;
  two vertices get one number iff the oldest vertex that reaches them is the same. With
  every edge in both directions these are the components.
- `LinesMeanWhatTheySay` has the condition `~ leaked`: `let x = if (true) { return 5 }`
  binds the ReturnValue itself, which `isError` lets through, and from then on
  the name `x` ends the block or line it stands in. With no such operand the
  evaluator agrees with the reference. What a line does once a ReturnValue has leaked is
  outside the property; how one leaks is what `ReturnsLeakFromBlocks` says: only a `return`
  in a block of the operand itself starts it, no call, name or element.
  Which pair of a hash comes first decides what is bound and which error is met:
  the property says that there is an order that gives what happened.
- `DivergesBySelfCall` asks that some compiled function calls itself, not that the evaluation
  went through it; over all sessions that excludes every other way to go on forever.
- `CompiledIsFresh` says of a report of success with a lost write that the executable is made from this run's
  truncated file, never from an older one; that it is whole is refuted by `dumbc_lost_write`.
- `SemicolonsResynchronise`: the recovery that skips one token is weak, and is
  enough, for no parsing function passes a semicolon it did not expect.
- `PrintedTypesAreTheText` fixes the type of every token but of the unknown characters, which have
  that of the token before them on the line: a word is the keyword it spells *or begins*, as `strncmp` with
  the word's length has it ("E" is END), and what begins with a quote is a STRING closed by the next one.
  It has `GivenUp` in it: an unknown character at the front of
  a line leaves an uninitialized token, and if `EOF` is in it the line is dropped.
- `Terminates` (front end): the build without `DEBUG` recurses until the C stack
  is full on an unknown character behind an open parenthesis.

## Fairness

Liveness is stated for straight-line, single-threaded code: a step that can be
taken is taken, hence `WF_vars(Next)` in `FrontendSpec` and `Traversals!Spec`.
There is no scheduler to assume anything about. The other specifications have no
fairness and no liveness properties: a compilation may be killed, a user may stop typing.
That kaleidoscope's loop comes to the end of every text is the action property
`TurnsGoForward`: each turn goes forward, and needs no fairness to do so.

## Proofs

TLAPS checks every step; nothing is assumed beyond the named assumptions on the constants.

**GuslangProofs**: the arena, which dumbc has too, and the loop of guslang's `main`.
The arena, from `ArenaAssumption` (sizes are naturals, requests fit a
chunk): `BlocksDisjoint` is not inductive: a new block is apart from the old ones
only because they lie below the chunk's fill mark. `IInv` adds that (`Packed`),
that slots are opened in order and unopened ones are empty (`Slots`), and that a chunk without
memory is evidence of an earlier NULL (`NullSeen`). `HalfFull` is inductive with
those: a new chunk is opened only when no other has room, and the strict test for room leaves the last byte
of a chunk that serves a second request (`FullAlone`). Theorems:
`ArenaTypeOK`, `ArenaBlocksDisjoint`, `ArenaWildOnlyAfterNull`, `ArenaHalfFull`,
and `ArenaImplements`, the refinement of `Allocator`, whose step lemma
uses `Packed` to show that a block is apart from all live ones.

The loop, for every set of inputs, size of the buffer, alphabet and pair of keywords, from
`LineAssumption` (a buffer with room for a character and its NUL, classes of characters
that are apart). The theorems are about `MCSpec`, the specification the run checks, whose
constants the cfg alone gives values.
The properties speak of the input and the loop of the buffer, so `LineInv` says where the
buffer lies in the input: one call of `fgets` reads exactly the characters with one
`First`, and `strlen` sees them up to the first NUL. `First` is a scan; the proofs
use its equations, which follow from its definition by the least place without them.
`SaidInv` has the parts of the two properties for the lines that are done, and for the
line in hand that everything before the cursor is in one token or blank, that the token `t`
is the last one printed for this line or was never set, that the quotes passed are even and that no
word was cut in two. `t` holding EOF while it was never set is the one way to give a
line up. Theorems: `GuslangPrintsTheText`, `GuslangCountsQuotes`.

**KaleidoscopeProofs**: the session and the front end of kaleidoscope.
The session, from `SessionAssumption`, for every set of names, prototypes
and bodies. `CallsMatchWhenNamedOnce` needs to know of calls to functions that are
not compiled yet: `CallsKnown` says that every compiled call has the arguments
its prototype asks for, `ModuleAgrees` and `JitAgrees` that the module and the
compiled functions hold the parameters of the prototype, all for names given once.
`DivergesBySelfCall` says that the call graph has no cycle but a self call. That is not
inductive for the cycles themselves; `CallsDescend` is: while names are given once, every set of compiled
functions has one that calls no other of the set (a set without the function compiled last
had one before, and that one cannot call what was compiled after it). The functions that need one on
a loop would be a set without.
Theorems: `SessionTypeOK`, `SessionCallsMatch`, `SessionExitsAreExplained`,
`SessionDivergesBySelfCall`.

The front end, from `LexerAssumption` (texts are sequences of characters, letters, digits and
blanks are apart), for every set of texts. The tokens stay what they are, so
`TokensAreTheText` is a fact about `gettok` on one text: what `SkipTo` leaves out are blanks and
closed comments (`SkipToSkips`, from the last place backwards), a token begins where it stopped, and
from each place on the tokens tell the text from there (`FromTells`). That the recursive functions exist is shown
by the order of the places, and for `Parse` by a measure of its calls (`Far`): every function calls
another only further on, or at the same place one that is nearer to the tokens. The
equation of `Parse` then gives, by the same measure, that each call ends at a token not before its own, behind it
if it succeeds, and has read no semicolon (`ParseEnds`); the prototypes follow, and so do the turns
(`LoopTurns`). The invariant is that `CurTok` is a token (`ParserInv`). Theorems:
`KaleidoscopeTokensAreTheText`, `KaleidoscopeTurnsGoForward`, `KaleidoscopeSemicolonsResynchronise`.

That the parser is the grammar (`KaleidoscopeParsesTheGrammar`) is a fact about one turn at any place of any
text. The trees of a span satisfy its productions (`TreesAre`, by the length of the span and the
level), and `Low(p)` is the level whose operators bind with at least `p`, so that one statement
covers the three loops the grammar spells out and the parser does not.
*Soundness* (`ParseSound`, by the measure of the calls): given any left operand of a level that binds no less than
the operator behind it, `ParseBinOpRHS` with precedence `q` merges it into a tree of `Low(q)` and
stops before an operator that binds less than `q`. No call stops between a name and its parenthesis
(`Closed`).
*Completeness* (`AllComplete`, by the span and the level): in front of a token that binds no tighter, a primary and
the loop that starts behind it come by every tree the grammar has for the span: they go on as the loop at the
span's end would with that tree for its left operand (`ReadsLevel`). Left recursion in the grammar is
iteration in the parser, so a chain is followed from its first operand, and `MergeFirst` moves
the operand over. A tree the grammar has is thus the one the parser returns, and there is no second
one; the items follow, as the first token that is not an identifier ends a prototype
(`OnePrototype`), and an item in front of a semicolon is read whole (`ItemRead`).

**CodegenProofs**, from `CodegenAssumption` (at least three registers; doubling the
first capacity comes to the slots of a chunk, as 16 does to 256), for expressions of
any size. `PendingOperandsApart` is not inductive: the operands of a new node are
apart from the pending ones because those are registers in use (`Held`), and
`register_allocate` gives one that is not (`OperandRegisters`; that there is a first one
is the well-foundedness of the subsets `0..r`). For `VectorInBounds`, `CodeOK` adds that the capacity
is one of the doublings as long as the program is shorter than a chunk. Theorems:
`CodegenTypeOK`, `CodegenOperandsApart`, `CodegenVectorInBounds`.

What the program computes is proved for expressions of any depth and machines of any number
of registers, from `TreesAssumption`: expressions are nested at most `MaxDepth` deep and their nodes are as the
parse functions write them (`IsNode`). The invariant follows the tasks
that are left on the stack. The sum of the binary nodes compiled and to come is the
expression's, and after m of them the registers in use are the first 2m,
so whether the registers suffice is a matter of the count (`SumOK`). And from the registers the
code so far leaves, the rest of the tasks comes to the value of the expression in the
register that is read at the end: a task's effect is that of the tasks it is
replaced by (`FlowOK`), since pending operands are apart. `Meaning`, `Count` and `Unwrapped` are recursive
functions on trees of bounded depth; their equations are derived by `Least`. Theorems:
`CodegenIRCorrect`, `CodegenCompilesWithinRegisters`, `CodegenPrintsTheValue`.

**DumbcProofs**, for any number of runs. What is true at the end of a run only is
made so by what each step of the pipeline finds at its beginning, the output of
the one before made by this run (`Handed`), which is the whole program or, after a lost write,
a part of it. Theorem: `SystemCompiledIsFresh`.
For words of any width (`PrintAssumption`: there is a highest bit) the digits `print_number` has stored are
the remainders of successive quotients by ten (`PrintInv`), the last of which is what `rax` holds;
that the buffer has room says that the quotients come to zero before it is full. Theorem: `SystemPrintsDecimal`.

**FrontendProofs**, for expressions of any length. The lexer's invariant (`LexerInv`) follows
the text: the tokens so far are the expression up to the end of the last, behind that are blanks up to the
cursor or to the literal being read, whose characters up to the cursor are digits; the
character held is the one at the cursor. The parser's (`ParserInv`) counts: as long as no unknown
character was met, `curr` and `peek` are neighbours in the input, and every pending call
stands on a lexeme of its own before `curr`, because each function that calls another
has taken one first. This is what fails behind an ignored unknown character, where the
recursion has no bound. The trees in frames are in no set that is given beforehand,
so the stack is a sequence over some set (`IsSeq` in `ProofLemmas`) of frames that are well
formed (`FrameOK`). Theorems:
`FrontendTokensCoverInput`, `FrontendFramesBounded`.

`FrontendTypeCorrect` says besides what the tokens and trees are made of, behind unknown
characters and forgotten errors too (`TreesInv`): every token held is a lexeme of the input, as long
as the parser runs, and a node is the junk, a literal of the input, or an operation over as many
operands as it takes. A parse function makes one node above trees that are so, so each node
of the result down to the given depth is (`FormedBuilt`).

That the loop over precedences is the grammar (`GrammarInv`) takes four steps.
*The grammar:* the trees of a span satisfy its productions, although the productions of a
level refer to the whole span at the level below; an induction on the weight of a span
(`Weight`: its length, then its level) gives the equations (`TreesAre`).
*The loop:* the tree of a level is what its first prefix expression becomes by turns of the loop, each with
an operator that binds tighter than the argument and a right operand no operator behind it
takes over (`Turn`, `Chain`, `SpineOfLevel`).
*Completeness:* if the grammar has a tree for the first lexemes, every running
`parser_parse_expression` has a goal, a tree and where it ends, and is as many turns away from it as are left;
a frame's goal is that of the call it made with its own operator on top (`Goals`, `OnTrack`).
*Soundness:* no error is taken back unless it is recorded in `dropped` (`FailedStays`), and
until there is one, each call began at a lexeme behind those of its callers and what it
holds is a tree of the lexemes from there on (`Open`, `Starts`, `Justified`).
That the tree is the only one follows from completeness: the parser ends with
every tree the grammar has, and it ends with one. Theorem: `FrontendAcceptsTheGrammar`.

What a forgotten error leaves in the tree (`JunkInv`) is followed from where it is forgotten to
`main`. The junk is the left operand of a binary frame or in the tree a call returns, at a
depth that leaves room for the nodes still to be put above it (`Held`); or an error is on its
way, and then the next loop forgets that one too. Each of those nodes but
a group has consumed a lexeme of its own (`Ops`, `Spot`), so that the junk is no deeper than there are lexemes,
where `Nodes` looks for it; this count has to hold behind unknown characters too, where tokens
repeat. It does not in one place, between an operator with an unknown character behind
it and the error that this must end in (`Pinned`). Theorem: `FrontendForgottenErrorLeavesJunk`.

**TraversalProofs**, from `PoolAssumption` (finitely many vertices, and an array with room for as
many) and `TraversalsAssumption` (they are numbered from 1, the limits are numbers), for every
graph, every maze and every sequence of calls.

- *Any search* has marked what lies in every closed set around its start (`LeastClosed`), and at its
  end is closed itself: `SearchMarksTheReachable`. With the refinements below, each
  program marks exactly what its start leads to.
- *bfs-solve-path-find.c.* `PathInv`: what is in the queue is what is marked, once each; the vertices
  taken from it are explored, the current one up to the loop's place. Shortest paths need
  more: numbers `dist` for the vertices, one more than their parent's, never decreasing along the
  queue and spanning at most two values in it (`PathLayers`), so that an edge out of an explored vertex climbs at
  most one; the walk back goes down them one by one (`PathWalk`). They are no variable
  of the program, so the invariant says that such numbers exist, and each step gives the
  new vertex its own. `PathQueuedOnce`, `PathImplementsSearch`, `PathIsShortest`.
- *bfs-shortest-path-in-grid.c.* The same layers, over cells and directions; here the loop is left at
  an end, so the cells already taken are known to be none (`GridEnds`). `GridIsShortest`, `GridImplementsSearch`.
- *bfs.c*, where a vertex is queued many times and marked late, needs two numberings: a level for every *entry* of the
  queue and one for every visited vertex, that of the entry which printed it; later entries of a vertex are no
  lower (`BfsOrder`, `BfsReached`). That the queue is as long as there
  are edges looked at, and one, is a count (`BfsCount`). `BfsPrintsInLayers`, `BfsOverrunsByEdges`,
  `BfsImplementsSearch`.
- *dfs.c.* A neighbour of a visited vertex is visited, or the loop of a running call has yet
  to come to it (`DfsPending`); the running calls are a simple path, in the order they were
  printed (`DfsInOrder`). What was printed after the innermost running call began has
  returned, so nothing of it is pending: that is the depth-first order.
  `DfsDepthBounded`, `DfsImplementsSearch`, `DfsPrintsDepthFirst`.
- *connected-components.c.* A neighbour of a numbered vertex has no later number, or is pending
  (`CompPending`), and every numbered vertex has a root: the vertex
  its number began with, from which it is reached and before which all vertices have earlier numbers
  (`CompRooted`). `ComponentsByOldestAncestor`.
- *graph.c.* The pool holds the graph of the calls so far, or of all but the last when that one
  found no room (`PoolInv`); the places of edges are counted.
- *Traversals.* The invariant of a behaviour is that of the program it picked
  (`TraversalInv`). `TraversalsTyped`, `QueuesHaveRoom`, `TraversalsInOrder`, `PathsAreShortest`,
  `PoolIsAsAsked` and `TraversalsImplementSearch` are the five invariants and the refinement
  of the run `traversals`, for every value of the constants.

`Within` is a recursive function, over numbers and not over data: `WithinSteps` derives its two
equations from the definition, by the well-foundedness of the naturals (`Least` in `ProofLemmas`),
and the proofs use nothing else of it. That a vertex which can be reached is within as many
steps as there are vertices (`WithinAll`) is a count of the layers.

**MonkeyProofs**, for all lines. A let binds in the environment `Eval` was called with; that
this is the running call's needs every suspended frame to hold the
environment of the call it belongs to (`Scoped`). Theorem: `MonkeyOnlyTheRunningCallBinds`.
`ErrorsAreNeverKept` is not inductive: an object handed to a built-in or taken out of an array
may have parts of its own. `HeapInv` says that there is a set of objects closed under their
parts, none of them an error, that has all that environments and suspended frames keep,
at any depth; each step that makes an object adds it to the set. Its part on environments gives that each
lies within an older one, hence that a lookup ends. Theorems: `MonkeyErrorsAreNeverKept`,
`MonkeyEnvironmentsNest`.

Only model-checked, and why:

- *Liveness*: `Terminates` of both runs.
- `ReturnsLeakFromBlocks`: it holds of lines as the parser makes them, with `return` in blocks only,
  while the theorems on the evaluator are for any set of trees.
- *What is checked against recursive operators*, which the provers cannot see into: monkey's
  `LinesReadAsWritten` and `LinesMeanWhatTheySay`.

## Where code and text disagree

| run | |
|---|---|
| dumbc_rax | main.c:1379 prints "the stuff that were in rax"; an expression without a binary operator is compiled into `rbx` and nothing writes `rax`. |
| dumbc_exit | `main` returns the wait status of a failed command (256 for a `nasm` that exits with 1); the shell sees its low byte, 0, next to "ERROR: Failed to compile assembly". With `dumbc e && ./out` the program of an earlier run is started. |
| dumbc_lost_write | No `fprintf` to `out.asm` (main.c:1286-1443) and not its `fclose` (:347) is looked at. On a full disk a part of the program, or nothing, is assembled and linked, where `ld` only warns, and main.c:377 says "Compiled expression ./out". |
| grid_moves | "Path found! Length: %d moves" counts layers wrongly, as `nodes_in_next_layer` is assigned and not increased. |
| session_arity | After `extern f()`, `def f(x)` takes the declaration of the module; later calls are checked against a prototype the compiled function does not have. |

## Not modelled

- The value of a literal (`atoi`, beyond `int` for long literals): trees carry the literal's place.
- Allocation failures inside the dumbc parser: `Arena` says what a caller gets, and when.
- Two compilations at once in one directory: nothing in the repository starts two.
- LLVM, `nasm`, `ld`: external, by their effect. What a truncated `out.asm` comes to is not told
  apart further: `nasm` and `ld` take it or refuse it. `KaleidoscopeJIT.h` is there as what its
  `addModule` and `lookup` do to the symbols; its layers and contexts are LLVM's.
- Of monkey: the texts of errors, what `Inspect` and `puts` print (but not that it
  panics), the width of integers, and two different strings with one 64-bit FNV hash.
- The text guslang prints around a type, and what it prints of a failed read.
- haskelling: independent pure exercises without state; the list functions and the
  Collatz sequence could be checked against a definition, which would be the same words twice.
- `notes/` and `materials/` hold no code.

## Plan

Done: the modules above. What is left, in the order of its worth:

1. `KaleidoscopeParser` feeding `KaleidoscopeSession`: the items would carry bodies of
   more than one operand, for which the session's bound has to come down.
