\* Two functions of the user, one of the process that can be redefined; and every text
\* of four characters, longer ones of fewer kinds.
CONSTANTS
  Names = {f, g, putchard}
  Host = {putchard}
  MaxOperands = 1
  MaxTimes = 2
  ParamLists <- MCParamLists
  Bodies <- MCBodies
  MaxChars = 4
  MaxTokens = 5
  Letters = {"d", "e", "x"}
  Digits = {"1", "."}
  Keywords <- MCKeywords
  Texts <- MCTexts
SYMMETRY FunctionSymmetry
SPECIFICATION MCSpec
INVARIANTS
  TypeOK CallsMatchWhenNamedOnce ExitsAreExplained DivergesBySelfCall
  TokensAreTheText ParsesTheGrammar SemicolonsResynchronise
PROPERTY TurnsGoForward
\* ExitOnErr ends the program, a diverging evaluation never returns, and the loop ends
\* with the text.
CHECK_DEADLOCK FALSE
