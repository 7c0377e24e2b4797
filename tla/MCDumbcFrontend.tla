--------------------------- MODULE MCDumbcFrontend ---------------------------
(* Instance of DumbcFrontend for TLC: every expression of up to MaxChars       *)
(* characters without blanks, every one with blanks but a single operator, and *)
(* every chain of two operators and digits two characters longer.              *)
EXTENDS DumbcFrontend, SequencesExt

CONSTANT MaxChars

MCExprs ==
  SeqOf({"digit", "+", "-", "*", "(", ")", "other"}, MaxChars)
  \cup SeqOf({"digit", "blank", "-", "(", "other"}, MaxChars)
  \cup SeqOf({"digit", "-", "*"}, MaxChars + 2)

MCInputs == SeqOf(Lexemes, MaxChars) \cup SeqOf({"num", "big", "-", "*"}, MaxChars + 2)
=============================================================================
