------------------------------- MODULE MCMonkey -------------------------------
(* Monkey for TLC, in one run: a behaviour is one of the parser on one line, or *)
(* one of the evaluator on lines without errors.  The evaluator's lines are of  *)
(* at most two of a set of statements over two names.  The keywords are words   *)
(* of one letter, so that short texts hold every construct.                     *)
EXTENDS MonkeyMeaning, TLC

CONSTANTS Letters, MaxInt, MaxChars, MaxOperators

VARIABLES part, text, tokens, cur, program, errors, pc

X == Identifier("x")
F == Identifier("f")
One == IntegerLiteral(1)
Zero == IntegerLiteral(0)
Block1(s) == BlockStatement(<<s>>)
Block2(s, t) == BlockStatement(<<s, t>>)
Empty == BlockStatement(<<>>)

\* Bodies of functions: nothing, a value, a return, a let that shadows and a closure
\* over it, a return out of a nested block, a recursion without end.
Bodies == {
  Empty, Block1(X), Block1(ReturnStatement(X)),
  Block2(LetStatement("x", IntegerLiteral(2)), FunctionLiteral(<<>>, Block1(X))),
  Block2(IfExpression(X, Block1(ReturnStatement(One)), NoBlock), Zero),
  Block1(CallExpression(F, <<>>)) }

Functions == { FunctionLiteral(ps, b) : ps \in {<<>>, <<"x">>}, b \in Bodies }

Statements ==
  { LetStatement("f", l) : l \in Functions }
  \cup { LetStatement("x", e) : e \in {Zero, Boolean(FALSE), IfExpression(X, Empty, NoBlock),
                                       CallExpression(F, <<One>>)} }
  \cup { X, PrefixExpression("!", X), PrefixExpression("-", X),
         InfixExpression("/", One, X), InfixExpression("<", X, One),
         InfixExpression("+", X, CallExpression(F, <<X>>)),
         CallExpression(F, <<>>), CallExpression(CallExpression(F, <<One>>), <<>>),
         ReturnStatement(X),
         LetStatement("x", IfExpression(Boolean(TRUE), Block1(ReturnStatement(One)), NoBlock)),
         IfExpression(X, Block1(ReturnStatement(CallExpression(F, <<>>))), Block1(F)) }

Letter == StringLiteral(<<"a">>)
True(e) == IfExpression(Boolean(TRUE), e, NoBlock)
LetX(e) == LetStatement("x", e)
Calls(name, args) == CallExpression(Identifier(name), args)

\* Arrays and hashes, with a nil, a return and themselves in them; pairs that bind, that
\* fail and whose keys are equal; comparisons by pointer; the built-ins, and one shadowed.
DataStatements ==
  { LetX(e) : e \in {One, Letter, HashLiteral(<<>>), ArrayLiteral(<<X, One>>), ArrayLiteral(<<True(Empty)>>),
                     Calls("rest", <<X>>),
                     HashLiteral(<< <<One, X>>, <<X, Zero>> >>),
                     HashLiteral(<< <<X, True(Block1(LetX(Zero)))>>, <<Zero, X>> >>)} }
  \cup { LetStatement("first", X), ArrayLiteral(<<One, True(Block1(ReturnStatement(X)))>>),
         HashLiteral(<< <<One, InfixExpression("/", One, Zero)>>, <<FunctionLiteral(<<>>, Empty), One>> >>),
         IndexExpression(X, Zero), IndexExpression(X, One), IndexExpression(X, X),
         InfixExpression("==", X, X), InfixExpression("!=", X, ArrayLiteral(<<>>)),
         InfixExpression("+", X, Letter),
         Calls("first", <<X>>), Calls("push", <<X, X>>), Calls("len", <<X>>), Calls("puts", <<X>>),
         Calls("last", <<X, X>>) }

MCLines == SeqOf(Statements, 2) \cup SeqOf(DataStatements, 2)

-----------------------------------------------------------------------------

Keywords == <<"l">> :> "LET" @@ <<"f">> :> "FUNCTION" @@ <<"t">> :> "TRUE"
            @@ <<"i">> :> "IF" @@ <<"e">> :> "ELSE" @@ <<"r">> :> "RETURN"

Characters ==
  Letters \cup {"=", "!", "(", ")", "{", "}", "[", "]", ",", ":", ";", "+", "-", "*", "/", "<", ">",
                "0", "1", "8", " ", "quote", "NUL", "@"}

\* Lines with each construct of the language, in one another.
Constructs == {
  <<"f", "(", "x", ")", "{", "x", "}", "(", "1", ")">>,
  <<"f", "(", "x", ",", "y", ")", "{", "f", "(", ")", "{", "x">>,
  <<"i", "(", "x", ")", "{", "1", "}", "e", "{", "x", ";", "}">>,
  <<"i", "(", "f", "(", ")", "{", "}", ")", "{", "i", "(", "1", ")", "{">>,
  <<"l", " ", "x", "=", "x", "(", "1", ",", "x", ")", ";", "r", " ", "x">>,
  <<"{", "1", ":", "x", ",", "x", ":", "1", "}">>,
  <<"[", "x", ",", "1", "]", "[", "x", "]">>,
  <<"-", "x", "*", "!", "x", "(", ")", "+", "x">>,
  <<"x", "=", "=", "x", "<", "-", "1", "-", "x", "/", "x">> }

\* A line with one character changed, put in, or left out.
Edits(l) ==
  { [l EXCEPT ![p] = c] : p \in DOMAIN l, c \in Characters }
  \cup { InsertAt(l, p, c) : p \in 1..(Len(l) + 1), c \in Characters }
  \cup { RemoveAt(l, p) : p \in DOMAIN l }

MCTexts ==
  SeqOf(Characters, MaxChars) \cup SeqOf({"x", "-", "*", "<", "(", ")"}, MaxOperators)
  \cup UNION { Edits(l) : l \in Constructs }

Reader == INSTANCE MonkeyGrammar WITH Texts <- MCTexts

readerVars == <<text, tokens, cur, program, errors, pc>>

MCInit ==
  /\ Init
  /\ \/ part = "evaluator" /\ text = <<>> /\ Reader!Init
     \/ part = "parser" /\ Reader!Init

MCNext ==
  \/ part = "evaluator" /\ Next /\ UNCHANGED <<part, readerVars>>
  \/ part = "parser" /\ Reader!Next /\ UNCHANGED <<part, vars>>

MCSpec == MCInit /\ [][MCNext]_<<part, vars, readerVars>>

\* What the REPL gives to the evaluator is what stands in the line.
LinesReadAsWritten == part = "parser" => Reader!LinesReadAsWritten
=============================================================================
