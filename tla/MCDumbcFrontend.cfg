\* Five characters: nested and unclosed groups, both associativities, a literal
\* too long (of two digits here), an unknown character in every place.  Twelve
\* frames are more than any expression without an unknown character needs.
CONSTANTS
  MaxChars = 5
  MaxDigits = 1
  MaxFrames = 12
  Exprs <- MCExprs
  Inputs <- MCInputs
SPECIFICATION FrontendSpec
INVARIANTS FrontendTypeOK TokensCoverInput AcceptsTheGrammar ForgottenErrorLeavesJunk FramesBoundedByInput
PROPERTY Terminates
\* The front end stops when it is done.
CHECK_DEADLOCK FALSE
