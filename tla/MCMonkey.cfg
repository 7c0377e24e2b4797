\* Two lines of at most two statements each: a name bound by one line is used, shadowed,
\* captured or called by the next.  Twelve frames hold every nesting of these statements,
\* and the recursion without end is cut there.  The parser reads every line of three
\* characters, every one of five that are operands, operators and parentheses, and lines
\* with each construct of the language, an error anywhere in them.
\* The evaluator stops after the last line, at a panic and at a full stack, the parser at
\* the end of its line: deadlock is not an error.
CONSTANTS
  Lines <- MCLines
  MaxLines = 2
  MaxStack = 12
  Letters = {"l", "f", "t", "i", "e", "r", "x", "y"}
  MaxInt = 99
  MaxChars = 3
  MaxOperators = 6
SPECIFICATION MCSpec
INVARIANTS ErrorsAreNeverKept LinesMeanWhatTheySay LinesReadAsWritten
PROPERTIES OnlyTheRunningCallBinds ReturnsLeakFromBlocks
CHECK_DEADLOCK FALSE
