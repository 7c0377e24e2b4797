---------------------------- MODULE MCKaleidoscope ----------------------------
(* Kaleidoscope for TLC, in one run: a behaviour is one of the session on       *)
(* items, or one of the main loop on one text.  The keywords are words of one   *)
(* letter, so that short texts hold definitions.                                *)
EXTENDS MCKaleidoscopeSession, KaleidoscopeGrammar

CONSTANTS MaxChars, MaxTokens

MCKeywords == <<"d">> :> "def" @@ <<"e">> :> "extern"

Chain(ops) == [k \in 1..(2 * MaxTokens - 1) |-> IF k % 2 = 1 THEN "x" ELSE ops[k \div 2]]

Spaced(line) == FlattenSeq([k \in DOMAIN line |-> <<line[k], "blank">>])

\* All short texts; longer ones over the characters of expressions, of calls in calls
\* and of chains of operators; and a line of tokens, a definition or the ruins of one,
\* in front of a well-formed declaration.
MCTexts ==
  SeqOf({"d", "x", "1", ".", "#", "newline", "blank", "(", ";", "@"}, MaxChars)
  \cup SeqOf({"x", "<", "+", "*", "(", ")", ","}, MaxTokens)
  \cup SeqOf({"x", "(", ")", ","}, MaxTokens + 2)
  \cup { Chain(ops) : ops \in [1..(MaxTokens - 1) -> {"<", "+", "-", "*"}] }
  \cup { Spaced(line) \o <<";", "e", "blank", "x", "(", "x", ")">> :
         line \in SeqOf({"d", "x", "(", ")"}, MaxTokens + 1) }

-----------------------------------------------------------------------------

VARIABLE part

MCInit ==
  /\ Init
  /\ \/ part = "session" /\ text = <<>> /\ ParserInit
     \/ part = "loop" /\ ParserInit

MCNext ==
  \/ part = "session" /\ Next /\ UNCHANGED <<part, parserVars>>
  \/ part = "loop" /\ MainLoop /\ UNCHANGED <<part, vars>>

MCSpec == MCInit /\ [][MCNext]_<<part, vars, parserVars>>
=============================================================================
