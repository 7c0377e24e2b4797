-------------------------------- MODULE Guslang --------------------------------
(***************************************************************************)
(* The program of guslang/: main reads its input line by line and prints   *)
(* the types of the tokens the lexer finds.  The lexer keeps its place in  *)
(* the buffer of the command line; the token t is the caller's, and what   *)
(* lexer_next_token does not write in it stays as it was.                  *)
(* Characters are classes: any that the lexer knows nothing of, the digit  *)
(* 9 among them, is "9".                                                   *)
(***************************************************************************)
EXTENDS Integers, FiniteSets, SequencesExt

CONSTANTS Inputs,      \* what stdin holds, sequences of characters
          LineLen,     \* LINE_LEN, 1024
          Letters,     \* IS_LETTER
          Digits,      \* IS_DIGIT
          END, PRINT   \* the keywords, as sequences of letters

Blanks == {"blank", "newline"}

\* token_type_t, and whatever else an uninitialized token can hold.
Types == {"END", "PRINT", "NUMERIC", "STRING", "IDENTIFIER", "EOF", "garbage"}

VARIABLES input,   \* constant after Init
          start,   \* how many characters of it are before the buffer
          taken,   \* how many of them fgets has read
          buff,    \* the buffer up to its first NUL, as far as strlen sees it
          pos,     \* l->pos, from 1; l->ch is the character there
          type,    \* t.type
          printed, \* history: the types printed, each with where its token is
          status   \* "prompt", "lex", or how main has ended

vars == <<input, start, taken, buff, pos, type, printed, status>>

Init ==
  /\ input \in Inputs
  /\ start = 0 /\ taken = 0
  /\ buff = <<>> /\ pos = 1 /\ type = "unset"
  /\ printed = <<>>
  /\ status = "prompt"

\* What main is built with, and what it may be given: a buffer with room for a character
\* and its NUL, and classes of characters that are apart.
LoopAssumption ==
  /\ LineLen \in Nat /\ LineLen > 1
  /\ Inputs \subseteq Seq(STRING)
  /\ END \in Seq(Letters) /\ PRINT \in Seq(Letters)
  /\ Letters \cap Digits = {}
  /\ (Blanks \cup {"quote", "NUL", "9"}) \cap (Letters \cup Digits) = {}

-----------------------------------------------------------------------------
(* The loop of main *)

\* Writing the prompt or reading fails, or the input is at its end: main returns 0.
Stop ==
  /\ status = "prompt"
  /\ status' = "returned"
  /\ UNCHANGED <<input, start, taken, buff, pos, type, printed>>

\* fgets reads up to a newline, but no more than fit into the buffer.
LastRead == CHOOSE p \in (taken + 1)..Len(input) :
              /\ p = Len(input) \/ p = taken + LineLen - 1 \/ input[p] = "newline"
              /\ \A q \in (taken + 1)..(p - 1) : q # taken + LineLen - 1 /\ input[q] # "newline"

Line == SubSeq(input, taken + 1, LastRead)

\* strlen and lexer_init, which asserts that the line is not empty.  t is a new
\* variable of each turn, and not initialized.
ReadLine ==
  /\ status = "prompt"
  /\ taken < Len(input)
  /\ start' = taken
  /\ taken' = LastRead
  /\ buff' = IF Contains(Line, "NUL") THEN SubSeq(Line, 1, SelectInSeq(Line, LAMBDA c : c = "NUL") - 1)
             ELSE Line
  /\ pos' = 1
  /\ type' = "unset"
  /\ status' = IF buff' = <<>> THEN "aborted" ELSE "lex"
  /\ UNCHANGED <<input, printed>>

-----------------------------------------------------------------------------
(* lexer_next_token, one action for each way through it *)

Char(p) == IF p <= Len(buff) THEN buff[p] ELSE "NUL"

\* The first place from p on whose character is not in S.
After(p, S) == CHOOSE q \in p..(Len(buff) + 1) :
                 Char(q) \notin S /\ \A r \in p..(q - 1) : Char(r) \in S

\* Where the call begins once the blanks are skipped.
Here == After(pos, Blanks)

Lexes(S) == status = "lex" /\ Char(Here) \in S

\* main prints the type of a token, of the characters up to the one before next.
Report(t, next) ==
  /\ type' = t
  /\ printed' = Append(printed, [type |-> t, from |-> start + Here, to |-> start + next - 1])
  /\ pos' = next
  /\ UNCHANGED <<input, start, taken, buff, status>>

\* EOF is the type on which main goes on to the next line.
EndLine(next) ==
  /\ type' = "EOF"
  /\ pos' = next
  /\ status' = "prompt"
  /\ UNCHANGED <<input, start, taken, buff, printed>>

AtEnd == Lexes({"NUL"}) /\ EndLine(Here)

\* The quote or the NUL that ends the string.
Closing == CHOOSE q \in (Here + 1)..(Len(buff) + 1) :
             /\ Char(q) \in {"quote", "NUL"}
             /\ \A r \in (Here + 1)..(q - 1) : Char(r) \notin {"quote", "NUL"}

StringLiteral_ToNul ==
  Lexes({"quote"}) /\ Report("STRING", IF Char(Closing) = "quote" THEN Closing + 1 ELSE Closing)

StringLiteral == Lexes({"quote"}) /\ Char(Closing) = "quote" /\ Report("STRING", Closing + 1)

\* ERR_UNTERMINATED_STRING is what main returns.
Unterminated ==
  /\ Lexes({"quote"})
  /\ Char(Closing) = "NUL"
  /\ status' = "101"
  /\ pos' = Closing
  /\ UNCHANGED <<input, start, taken, buff, type, printed>>

WordType_KeywordLength(word) ==
  IF IsPrefix(END, word) THEN "END"
  ELSE IF IsPrefix(PRINT, word) THEN "PRINT"
  ELSE "IDENTIFIER"

\* strncmp with the length of the word: a beginning of a keyword is the keyword.
WordType(word) ==
  IF IsPrefix(word, END) THEN "END"
  ELSE IF IsPrefix(word, PRINT) THEN "PRINT"
  ELSE "IDENTIFIER"

Word ==
  LET next == After(Here, Letters)
  IN Lexes(Letters) /\ Report(WordType(SubSeq(buff, Here, next - 1)), next)

IntegerLiteral == Lexes(Digits) /\ Report("NUMERIC", After(Here, Digits))

\* An unknown character is stepped over, and the token is the one before; the first
\* of a line has what the uninitialized variable holds.
Unknown ==
  /\ status = "lex"
  /\ Char(Here) \notin Letters \cup Digits \cup {"quote", "NUL"}
  /\ \E t \in IF type = "unset" THEN Types ELSE {type} :
       IF t = "EOF" THEN EndLine(Here + 1) ELSE Report(t, Here + 1)

Next ==
  \/ Stop \/ ReadLine
  \/ AtEnd \/ StringLiteral \/ Unterminated \/ Word \/ IntegerLiteral \/ Unknown

Spec == Init /\ [][Next]_vars

-----------------------------------------------------------------------------
(* Properties *)

\* Where the buffer that a character came in began: behind a newline or LineLen - 1
\* characters after the one before.
First(p) ==
  LET F[q \in 1..p] ==
        CASE q = 1 -> 1
          [] q > 1 /\ (input[q - 1] = "newline" \/ q - F[q - 1] = LineLen - 1) -> q
          [] OTHER -> F[q - 1]
  IN F[p]

BehindNul(p) == \E q \in First(p)..p : input[q] = "NUL"

\* The buffers main is through with.
Finished == IF status \in {"prompt", "returned"} THEN taken ELSE start

\* A line given up at its first character, because that was unknown and the token
\* held EOF.
GivenUp(p) ==
  /\ \A k \in DOMAIN printed : First(printed[k].from) # First(p)
  /\ \E q \in First(p)..p :
       /\ input[q] \notin Letters \cup Digits \cup Blanks \cup {"quote", "NUL"}
       /\ \A r \in First(p)..(q - 1) : input[r] \in Blanks

\* A token of characters of S only, as long as it can be in its buffer.
IsRun(t, S) ==
  /\ \A p \in t.from..t.to : input[p] \in S
  /\ \A p \in {t.from - 1, t.to + 1} :
       p \in 1..Len(input) /\ First(p) = First(t.from) => input[p] \notin S

\* A token that spells a keyword, or a beginning of it.
Spells(t, keyword) ==
  /\ t.to - t.from < Len(keyword)
  /\ \A p \in t.from..t.to : input[p] = keyword[(p - t.from) + 1]

\* A token's type is that of its characters: of a word, a number or a string up to the
\* next quote, all of it; an unknown character has the type of the token before it on
\* the line, if there is one.
IsTyped(k) ==
  LET t == printed[k]
      c == input[t.from]
  IN /\ c \in Letters =>
          /\ IsRun(t, Letters)
          /\ t.type = IF Spells(t, END) THEN "END" ELSE IF Spells(t, PRINT) THEN "PRINT" ELSE "IDENTIFIER"
     /\ c \in Digits => IsRun(t, Digits) /\ t.type = "NUMERIC"
     /\ c = "quote" =>
          /\ t.type = "STRING"
          /\ t.to > t.from /\ input[t.to] = "quote"
          /\ \A p \in (t.from + 1)..(t.to - 1) : input[p] # "quote"
     /\ c \notin Letters \cup Digits \cup {"quote"} =>
          /\ c \notin Blanks /\ t.to = t.from
          /\ k > 1 /\ First(printed[k - 1].from) = First(t.from) => t.type = printed[k - 1].type

\* What is printed is the text, in order: each character of the lines read belongs to
\* exactly one token, unless it is blank, behind a NUL, or on a line given up; and the
\* tokens, none of them longer than its buffer or behind a NUL, have the types of their
\* characters.
PrintedTypesAreTheText ==
  /\ \A p \in 1..Finished :
       LET tokens == { k \in DOMAIN printed : p \in printed[k].from..printed[k].to }
       IN \/ Cardinality(tokens) = 1
          \/ tokens = {} /\ (input[p] \in Blanks \/ BehindNul(p) \/ GivenUp(p))
  /\ \A k \in DOMAIN printed :
       /\ k > 1 => printed[k - 1].to < printed[k].from
       /\ First(printed[k].to) = First(printed[k].from) /\ ~ BehindNul(printed[k].to)
       /\ IsTyped(k)

QuotesOf(p) == { q \in First(p)..Len(input) : First(q) = First(p) /\ input[q] = "quote" /\ ~ BehindNul(q) }

\* main returns 101 when the quotes of a buffer are odd, and goes on to the next when
\* they are even, whether or not the buffer is the whole line; it aborts at a buffer
\* that begins with a NUL.
OddQuotesEndTheProgram ==
  /\ status = "101" => Cardinality(QuotesOf(start + 1)) % 2 = 1
  /\ status = "aborted" <=> taken > 0 /\ input[start + 1] = "NUL"
  /\ \A p \in 1..Finished :
       \/ Cardinality(QuotesOf(p)) % 2 = 0
       \/ \E q \in p..Finished : First(q) = First(p) /\ GivenUp(q)
=============================================================================
