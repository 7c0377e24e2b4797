------------------------------- MODULE MCGuslang -------------------------------
(* The parts of guslang for TLC, in one run: its main includes the arena and     *)
(* the lexer and does not use them together, so a behaviour is one of the arena, *)
(* which dumbc has too, or one of the loop of main.                              *)
(* The arena has three chunks of seven bytes, and requests that fill a chunk     *)
(* exactly, fill it to the last byte but one, and divide it.  The loop has a     *)
(* buffer of three characters, keywords of two letters, and every input of up to *)
(* MaxInput characters.                                                          *)
EXTENDS Arena

CONSTANTS Inputs, LineLen, Letters, Digits, END, PRINT, \* those of Guslang
          MaxInput                                    \* of MCInputs

VARIABLES part, input, start, taken, buff, pos, type, printed, status

MCSizes == {2, 3, 4, 7}

MCInputs == UNION { [1..n -> {"E", "P", "1", "9", "blank", "newline", "quote", "NUL"}] : n \in 0..MaxInput }

MCEND == <<"E", "P">>
MCPRINT == <<"P", "E">>

Loop == INSTANCE Guslang

ASSUME LineAssumption == Loop!LoopAssumption

loopVars == <<input, start, taken, buff, pos, type, printed, status>>

MCInit ==
  /\ Init
  /\ \/ part = "arena" /\ Loop!Init /\ input = <<>>
     \/ part = "loop" /\ Loop!Init

MCNext ==
  \/ part = "arena" /\ Next /\ UNCHANGED <<part, loopVars>>
  \/ part = "loop" /\ Loop!Next /\ UNCHANGED <<part, vars>>

MCSpec == MCInit /\ [][MCNext]_<<part, vars, loopVars>>

\* What main prints is the text, with the types of the tokens.
PrintedTypesAreTheText == Loop!PrintedTypesAreTheText

\* An odd number of quotes in a buffer ends the program, and an even number does not.
OddQuotesEndTheProgram == Loop!OddQuotesEndTheProgram
=============================================================================
