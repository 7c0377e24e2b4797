---------------------------- MODULE FrontendProofs ----------------------------
(***************************************************************************)
(* For every expression, of any length: the tokens the lexer returns are   *)
(* the expression, the parser stays within the types of its state, a parse *)
(* without unknown characters needs no more frames of the C stack than     *)
(* there are tokens, a parse that forgets no error accepts exactly the     *)
(* grammar and builds its one tree, and a tree has an operand nobody wrote *)
(* just when an error was forgotten.                                       *)
(***************************************************************************)
EXTENDS DumbcFrontend, ProofLemmas

-----------------------------------------------------------------------------
(* The lexer *)

\* Lexer!At and Lexer!TokenEnd, of any expression and any tokens.
CharAt(e, p) == IF p \in 0..(Len(e) - 1) THEN e[p + 1] ELSE "nul"
EndOf(ts, i) == IF i = 0 THEN 0 ELSE ts[i].at + ts[i].len

Blank(e, from, to) == \A p \in from..(to - 1) : CharAt(e, p) = "blank"
Digits(e, from, to) == \A p \in from..(to - 1) : CharAt(e, p) = "digit"

\* The token k is what stands behind the place "from", but for blanks.
Reads(e, k, from) ==
  /\ k.at >= from /\ k.len > 0
  /\ Blank(e, from, k.at)
  /\ k.t # "num" => k.len = 1 /\ CharAt(e, k.at) = k.t
  /\ k.t = "num" => Digits(e, k.at, k.at + k.len) /\ CharAt(e, k.at + k.len) # "digit"

Token == [t : Lexer!Operators \cup {"num"}, at : Nat, len : Nat]

\* The tokens ts are the expression up to the last one, which ends at the place "end".
Cover(e, ts, end) ==
  /\ ts \in Seq(Token)
  /\ \A i \in 1..Len(ts) : Reads(e, ts[i], EndOf(ts, i - 1))
  /\ EndOf(ts, Len(ts)) = end
  /\ Len(ts) <= end

(***************************************************************************)
(* The invariant: blanks lead from the last token to the cursor, or to the *)
(* literal that is being read, and that one is digits up to the cursor.    *)
(***************************************************************************)
LexerInv ==
  /\ expr \in Seq(Lexer!Chars)
  /\ Lexer!TypeOK
  /\ ch = CharAt(expr, position)
  /\ \E end \in Nat :
       /\ Cover(expr, tokens, end)
       /\ lexing # "literal" => end <= position /\ Blank(expr, end, position)
       /\ lexing = "literal" => /\ end <= start /\ Blank(expr, end, start)
                                /\ Digits(expr, start, position)
                                /\ start = position => ch = "digit"
  /\ lexing = "eof" => ch = "nul"
  /\ lexing = "error" => ch = "other"

\* One token more.
LEMMA CoverAppend ==
  ASSUME NEW e, NEW ts, NEW end \in Nat, Cover(e, ts, end),
         NEW k \in Token, Reads(e, k, end)
  PROVE  Cover(e, Append(ts, k), k.at + k.len)
<1> DEFINE us == Append(ts, k)
           n == Len(ts)
<1>1. /\ us \in Seq(Token) /\ n \in Nat /\ Len(us) = n + 1 /\ us[n + 1] = k
      /\ \A i \in 1..n : us[i] = ts[i]
  BY DEF Cover
<1> HIDE DEF us, n
<1>2. \A i \in 0..n : EndOf(us, i) = EndOf(ts, i)
  BY <1>1 DEF EndOf
<1>3. ASSUME NEW i \in 1..n PROVE Reads(e, us[i], EndOf(us, i - 1))
  <2>1. i - 1 \in 0..n
    BY <1>1
  <2> QED
    BY <1>1, <1>2, <2>1 DEF Cover, n
<1>4. Reads(e, us[n + 1], EndOf(us, (n + 1) - 1))
  BY <1>1, <1>2 DEF Cover, n
<1>5. \A i \in 1..(n + 1) : i \in 1..n \/ i = n + 1
  BY <1>1
<1>6. EndOf(us, n + 1) = k.at + k.len
  BY <1>1 DEF EndOf
<1>7. n + 1 <= k.at + k.len
  <2>1. n <= end
    BY DEF Cover, n
  <2> QED
    BY <1>1, <2>1 DEF Reads, Token
<1> QED
  BY <1>1, <1>3, <1>4, <1>5, <1>6, <1>7 DEF Cover, us

\* lexer_read_char, at a character of the expression.
LEMMA ReadCharInv ==
  ASSUME LexerInv, Lexer!ReadChar, ch # "nul"
  PROVE  /\ position' = position + 1 /\ position' \in 0..Len(expr)
         /\ read_position' = position' + 1
         /\ ch' = CharAt(expr, position') /\ ch' \in Lexer!Chars \cup {"nul"}
<1>1. position \in 0..(Len(expr) - 1) /\ Len(expr) \in Nat /\ read_position = position + 1
  BY DEF LexerInv, CharAt, Lexer!TypeOK
<1>2. position' = position + 1 /\ position' \in 0..Len(expr) /\ read_position' = position' + 1
  BY <1>1 DEF Lexer!ReadChar
<1>3. ch' = CharAt(expr, position')
  BY <1>1, <1>2 DEF Lexer!ReadChar, CharAt
<1>4. CharAt(expr, position') \in Lexer!Chars \cup {"nul"}
  BY <1>1, <1>2 DEF CharAt, LexerInv
<1> QED
  BY <1>2, <1>3, <1>4

\* A character more of a run.
LEMMA RunGrows ==
  ASSUME NEW e, NEW from \in Nat, NEW to \in Nat
  PROVE  /\ Blank(e, from, to) /\ CharAt(e, to) = "blank" => Blank(e, from, to + 1)
         /\ Digits(e, from, to) /\ CharAt(e, to) = "digit" => Digits(e, from, to + 1)
<1>1. \A p \in from..((to + 1) - 1) : p \in from..(to - 1) \/ p = to
  OBVIOUS
<1> QED
  BY <1>1 DEF Blank, Digits

\* The cursor on the first character, no token yet.
LEMMA LexerInitInv == Lexer!Init => LexerInv
<1> SUFFICES ASSUME Lexer!Init PROVE LexerInv
  OBVIOUS
<1>1. expr \in Seq(Lexer!Chars)
  BY FrontendAssumption DEF Lexer!Init
<1>2. ch = CharAt(expr, position) /\ ch \in Lexer!Chars \cup {"nul"}
  BY <1>1 DEF Lexer!Init, CharAt
<1>3. Lexer!TypeOK
  BY <1>1, <1>2 DEF Lexer!TypeOK, Lexer!Init
<1>4. tokens = <<>> /\ position = 0 /\ lexing = "token"
  BY DEF Lexer!Init
<1>5. Cover(expr, tokens, 0) /\ Blank(expr, 0, position)
  BY <1>4 DEF Cover, EndOf, Blank
<1> QED
  BY <1>1, <1>2, <1>3, <1>4, <1>5 DEF LexerInv

\* Each step of the lexer: a blank, an operator, a digit more or the literal's end, the end of the text.
LEMMA LexerNextInv == LexerInv /\ [Lexer!Next]_lexerVars => LexerInv'
<1> SUFFICES ASSUME LexerInv, [Lexer!Next]_lexerVars PROVE LexerInv'
  OBVIOUS
<1>1. /\ position \in 0..Len(expr) /\ Len(expr) \in Nat /\ read_position = position + 1
      /\ start \in 0..position
      /\ position \in Nat /\ start \in Nat
  BY DEF LexerInv, Lexer!TypeOK
<1>2. PICK end \in Nat :
        /\ Cover(expr, tokens, end)
        /\ lexing # "literal" => end <= position /\ Blank(expr, end, position)
        /\ lexing = "literal" => /\ end <= start /\ Blank(expr, end, start)
                                 /\ Digits(expr, start, position)
                                 /\ start = position => ch = "digit"
  BY DEF LexerInv
<1>3. CASE Lexer!SkipWhitespace
  <2>1. /\ position' = position + 1 /\ position' \in 0..Len(expr)
        /\ read_position' = position' + 1
        /\ ch' = CharAt(expr, position') /\ ch' \in Lexer!Chars \cup {"nul"}
    BY <1>3, ReadCharInv DEF Lexer!SkipWhitespace
  <2>2. Blank(expr, end, position + 1) /\ end <= position + 1
    <3>1. CharAt(expr, position) = "blank" /\ lexing # "literal"
      BY <1>3 DEF Lexer!SkipWhitespace, LexerInv
    <3> QED
      BY <1>1, <1>2, <3>1, RunGrows
  <2>3. lexing' = "token" /\ UNCHANGED <<expr, start, tokens>>
    BY <1>3 DEF Lexer!SkipWhitespace
  <2>4. Lexer!TypeOK'
    BY <1>1, <2>1, <2>3 DEF Lexer!TypeOK, LexerInv
  <2> QED
    BY <1>2, <2>1, <2>2, <2>3, <2>4 DEF LexerInv
<1>4. CASE Lexer!ReadOperator
  <2> DEFINE k == [t |-> ch, at |-> position, len |-> 1]
  <2>1. /\ position' = position + 1 /\ position' \in 0..Len(expr)
        /\ read_position' = position' + 1
        /\ ch' = CharAt(expr, position') /\ ch' \in Lexer!Chars \cup {"nul"}
    BY <1>4, ReadCharInv DEF Lexer!ReadOperator, Lexer!Operators
  <2>2. /\ lexing = "token" /\ lexing' = "token" /\ UNCHANGED <<expr, start>>
        /\ tokens' = Append(tokens, k) /\ ch \in Lexer!Operators
    BY <1>4 DEF Lexer!ReadOperator, Lexer!Emit
  <2>3. k \in Token /\ k.at = position /\ k.len = 1 /\ k.t = ch
    BY <1>1, <2>2 DEF Token
  <2>4. Reads(expr, k, end)
    <3>1. k.t # "num"
      BY <2>2, <2>3 DEF Lexer!Operators
    <3> HIDE DEF k
    <3> QED
      BY <1>2, <2>2, <2>3, <3>1 DEF Reads, LexerInv
  <2>5. Cover(expr, tokens', position + 1)
    <3> HIDE DEF k
    <3>1. Cover(expr, Append(tokens, k), k.at + k.len)
      BY <1>2, <2>3, <2>4, CoverAppend
    <3> QED
      BY <2>2, <2>3, <3>1
  <2>6. Blank(expr, position + 1, position + 1)
    BY <1>1 DEF Blank
  <2>7. Lexer!TypeOK'
    <3>1. \A i \in 1..Len(tokens') : tokens'[i] \in Token
      BY <2>5 DEF Cover
    <3>2. \A i \in 1..Len(tokens') : tokens'[i].t \in Lexer!Operators \cup {"num"}
      BY <3>1 DEF Token
    <3> QED
      BY <1>1, <2>1, <2>2, <3>2 DEF Lexer!TypeOK
  <2>8. position + 1 \in Nat /\ position + 1 <= position'
    BY <1>1, <2>1
  <2> QED
    BY <2>1, <2>2, <2>5, <2>6, <2>7, <2>8 DEF LexerInv
<1>5. CASE Lexer!StartLiteral
  <2>1. /\ lexing = "token" /\ ch = "digit" /\ lexing' = "literal" /\ start' = position
        /\ UNCHANGED <<expr, position, read_position, ch, tokens>>
    BY <1>5 DEF Lexer!StartLiteral
  <2>2. Digits(expr, position, position)
    BY <1>1 DEF Digits
  <2>3. Lexer!TypeOK'
    BY <1>1, <2>1 DEF Lexer!TypeOK, LexerInv
  <2> QED
    BY <1>2, <2>1, <2>2, <2>3 DEF LexerInv
<1>6. CASE Lexer!ReadDigit
  <2>1. /\ position' = position + 1 /\ position' \in 0..Len(expr)
        /\ read_position' = position' + 1
        /\ ch' = CharAt(expr, position') /\ ch' \in Lexer!Chars \cup {"nul"}
    BY <1>6, ReadCharInv DEF Lexer!ReadDigit
  <2>2. lexing = "literal" /\ lexing' = "literal" /\ ch = "digit" /\ UNCHANGED <<expr, start, tokens>>
    BY <1>6 DEF Lexer!ReadDigit
  <2>3. Digits(expr, start, position + 1) /\ start # position + 1
    <3>1. CharAt(expr, position) = "digit"
      BY <2>2 DEF LexerInv
    <3>2. Digits(expr, start, position + 1)
      BY <1>1, <1>2, <2>2, <3>1, RunGrows
    <3> QED
      BY <1>1, <3>1, <3>2 DEF Digits
  <2>4. Lexer!TypeOK'
    BY <1>1, <2>1, <2>2 DEF Lexer!TypeOK, LexerInv
  <2> QED
    BY <1>2, <2>1, <2>2, <2>3, <2>4 DEF LexerInv
<1>7. CASE Lexer!EndLiteral
  <2> DEFINE k == [t |-> "num", at |-> start, len |-> position - start]
  <2>1. /\ lexing = "literal" /\ lexing' = "token" /\ ch # "digit"
        /\ tokens' = Append(tokens, k)
        /\ UNCHANGED <<expr, position, read_position, ch, start>>
    BY <1>7 DEF Lexer!EndLiteral, Lexer!Emit
  <2>2. /\ k \in Token /\ k.at = start /\ k.len > 0 /\ k.t = "num"
        /\ k.at + k.len = position
    BY <1>1, <1>2, <2>1 DEF Token
  <2>3. Reads(expr, k, end)
    <3> HIDE DEF k
    <3> QED
      BY <1>2, <2>1, <2>2 DEF Reads, LexerInv
  <2>4. Cover(expr, tokens', position)
    <3> HIDE DEF k
    <3>1. Cover(expr, Append(tokens, k), k.at + k.len)
      BY <1>2, <2>2, <2>3, CoverAppend
    <3> QED
      BY <2>1, <2>2, <3>1
  <2>5. Blank(expr, position, position)
    BY <1>1 DEF Blank
  <2>6. Lexer!TypeOK'
    <3>1. \A i \in 1..Len(tokens') : tokens'[i] \in Token
      BY <2>4 DEF Cover
    <3>2. \A i \in 1..Len(tokens') : tokens'[i].t \in Lexer!Operators \cup {"num"}
      BY <3>1 DEF Token
    <3> QED
      BY <2>1, <3>2 DEF Lexer!TypeOK, LexerInv
  <2> QED
    BY <1>1, <2>1, <2>4, <2>5, <2>6 DEF LexerInv
<1>8. CASE Lexer!Stop
  <2>1. /\ lexing = "token" /\ ch \in {"nul", "other"}
        /\ lexing' = IF ch = "nul" THEN "eof" ELSE "error"
        /\ UNCHANGED <<expr, position, read_position, ch, start, tokens>>
    BY <1>8 DEF Lexer!Stop
  <2>2. Lexer!TypeOK'
    BY <2>1 DEF Lexer!TypeOK, LexerInv
  <2> QED
    BY <1>2, <2>1, <2>2 DEF LexerInv
<1>9. CASE UNCHANGED lexerVars
  BY <1>9 DEF lexerVars, LexerInv, Lexer!TypeOK
<1> QED
  BY <1>3, <1>4, <1>5, <1>6, <1>7, <1>8, <1>9 DEF Lexer!Next

\* Tokens and blanks are the whole expression up to the cursor.
LEMMA LexerInvCovers == LexerInv => TokensCoverInput
<1> SUFFICES ASSUME LexerInv, lexing \in {"eof", "error"}
             PROVE  /\ \A i \in 1..Len(tokens) :
                         LET k == tokens[i]
                         IN /\ k.at >= Lexer!TokenEnd(i - 1) /\ k.len > 0
                            /\ \A p \in Lexer!TokenEnd(i - 1)..(k.at - 1) : Lexer!At(p) = "blank"
                            /\ k.t # "num" => k.len = 1 /\ Lexer!At(k.at) = k.t
                            /\ k.t = "num" =>
                                 /\ \A p \in k.at..(k.at + k.len - 1) : Lexer!At(p) = "digit"
                                 /\ Lexer!At(k.at + k.len) # "digit"
                    /\ \A p \in Lexer!TokenEnd(Len(tokens))..(position - 1) : Lexer!At(p) = "blank"
                    /\ IF lexing = "eof" THEN position = Len(expr) ELSE Lexer!At(position) = "other"
  BY DEF TokensCoverInput, Lexer!TokensCoverInput
<1>1. \A p : Lexer!At(p) = CharAt(expr, p)
  BY DEF Lexer!At, CharAt
<1>2. \A i : Lexer!TokenEnd(i) = EndOf(tokens, i)
  BY DEF Lexer!TokenEnd, EndOf
<1>3. PICK end \in Nat : Cover(expr, tokens, end) /\ Blank(expr, end, position)
  BY DEF LexerInv
<1>4. \A i \in 1..Len(tokens) : Reads(expr, tokens[i], EndOf(tokens, i - 1))
  BY <1>3 DEF Cover
<1>5. \A p \in Lexer!TokenEnd(Len(tokens))..(position - 1) : Lexer!At(p) = "blank"
  BY <1>1, <1>2, <1>3 DEF Cover, Blank
<1>6. IF lexing = "eof" THEN position = Len(expr) ELSE Lexer!At(position) = "other"
  <2>1. CASE lexing = "eof"
    <3>1. position \notin 0..(Len(expr) - 1)
      BY <2>1 DEF LexerInv, CharAt, Lexer!Chars, Lexer!Operators
    <3> QED
      BY <2>1, <3>1 DEF LexerInv, Lexer!TypeOK
  <2>2. CASE lexing # "eof"
    BY <1>1, <2>2 DEF LexerInv
  <2> QED
    BY <2>1, <2>2
<1>7. ASSUME NEW i \in 1..Len(tokens)
      PROVE  LET k == tokens[i]
             IN /\ k.at >= Lexer!TokenEnd(i - 1) /\ k.len > 0
                /\ \A p \in Lexer!TokenEnd(i - 1)..(k.at - 1) : Lexer!At(p) = "blank"
                /\ k.t # "num" => k.len = 1 /\ Lexer!At(k.at) = k.t
                /\ k.t = "num" =>
                     /\ \A p \in k.at..(k.at + k.len - 1) : Lexer!At(p) = "digit"
                     /\ Lexer!At(k.at + k.len) # "digit"
  <2> DEFINE k == tokens[i]
  <2>1. /\ Reads(expr, k, EndOf(tokens, i - 1)) /\ Lexer!TokenEnd(i - 1) = EndOf(tokens, i - 1)
        /\ k \in Token
    BY <1>2, <1>3, <1>4 DEF Cover
  <2> HIDE DEF k
  <2>2. k.at >= Lexer!TokenEnd(i - 1) /\ k.len > 0
    BY <2>1 DEF Reads
  <2>3. \A p \in Lexer!TokenEnd(i - 1)..(k.at - 1) : Lexer!At(p) = "blank"
    BY <1>1, <2>1 DEF Reads, Blank
  <2>4. k.t # "num" => k.len = 1 /\ Lexer!At(k.at) = k.t
    BY <1>1, <2>1 DEF Reads
  <2>5. k.t = "num" => \A p \in k.at..(k.at + k.len - 1) : Lexer!At(p) = "digit"
    <3>1. k.t = "num" => Digits(expr, k.at, k.at + k.len)
      BY <2>1 DEF Reads
    <3>2. k.at + k.len - 1 = (k.at + k.len) - 1
      BY <2>1 DEF Token
    <3> QED
      BY <1>1, <3>1, <3>2 DEF Digits
  <2>6. k.t = "num" => Lexer!At(k.at + k.len) # "digit"
    BY <1>1, <2>1 DEF Reads
  <2> QED
    BY <2>2, <2>3, <2>4, <2>5, <2>6 DEF k
<1> QED
  BY <1>5, <1>6, <1>7

-----------------------------------------------------------------------------
(* The parser *)

\* The frames' tags and precedences.
FrameOK(f) ==
  /\ f.fn \in {"unary", "group", "binary"}
  /\ f.op \in {"+", "-", "*", "("}
  /\ f.prec \in LOWEST..PREFIX

FramesOK(s) == IsSeq(s) /\ \A k \in 1..Len(s) : FrameOK(s[k])

\* A frame more on the C stack, and one less.
LEMMA FramesPush ==
  ASSUME NEW s, FramesOK(s), NEW f, FrameOK(f)
  PROVE  FramesOK(Append(s, f)) /\ Len(s) \in Nat /\ Len(Append(s, f)) = Len(s) + 1
<1>1. /\ IsSeq(Append(s, f)) /\ Len(s) \in Nat /\ Len(Append(s, f)) = Len(s) + 1
      /\ \A k \in 1..Len(s) : Append(s, f)[k] = s[k]
      /\ Append(s, f)[Len(s) + 1] = f
  BY IsSeqAppend DEF FramesOK
<1>2. \A k \in 1..(Len(s) + 1) : k \in 1..Len(s) \/ k = Len(s) + 1
  BY <1>1
<1> QED
  BY <1>1, <1>2 DEF FramesOK

LEMMA FramesPop ==
  ASSUME NEW s, FramesOK(s), s # <<>>
  PROVE  /\ FramesOK(SubSeq(s, 1, Len(s) - 1)) /\ Len(s) \in Nat \ {0}
         /\ Len(SubSeq(s, 1, Len(s) - 1)) = Len(s) - 1
         /\ FrameOK(s[Len(s)])
<1>1. /\ IsSeq(Front(s)) /\ Len(s) \in Nat \ {0} /\ Len(Front(s)) = Len(s) - 1
      /\ \A k \in 1..(Len(s) - 1) : Front(s)[k] = s[k]
  BY IsSeqFront DEF FramesOK
<1>2. Len(s) \in 1..Len(s) /\ \A k \in 1..(Len(s) - 1) : k \in 1..Len(s)
  BY <1>1
<1>3. FramesOK(Front(s)) /\ FrameOK(s[Len(s)])
  BY <1>1, <1>2 DEF FramesOK
<1> QED
  BY <1>1, <1>3 DEF Front

\* The token of the k-th lexeme, the end of file behind the last one.
Tok(k) == IF k <= Len(input) THEN [t |-> TokenType(input[k]), at |-> k] ELSE EOF
Within(k) == IF k <= Len(input) THEN k ELSE Len(input) + 1

(***************************************************************************)
(* The invariant: without unknown characters curr and peek are two tokens  *)
(* in a row, the lexer is at the third one, and the pending calls are no   *)
(* more than the lexemes before curr.                                      *)
(***************************************************************************)
At(k) ==
  /\ k \in 1..(Len(input) + 1)
  /\ curr = Tok(k)
  /\ peek = Tok(Within(k + 1))
  /\ pos = Within(k + 2)
  /\ Len(stack) <= k - 1

Reached == \E k \in 1..(Len(input) + 1) : At(k)

TokenTypes == {"num", "+", "-", "*", "(", ")", "eof"}
IsToken(t) == t.t \in TokenTypes /\ t.at \in 0..Len(input)

\* TypeOK but for where tokens and trees come from.
StateOK ==
  /\ pos \in 1..(Len(input) + 1)
  /\ IsToken(curr) /\ IsToken(peek)
  /\ Len(stack) <= MaxFrames
  /\ FramesOK(stack)
  /\ mode \in {"start", "call", "loop", "return", "done", "overflow"}
  /\ prec \in LOWEST..PREFIX
  /\ ret.err \in {0, E_LITERAL_TOO_LARGE, E_UNKNOWN_TOKEN,
                  E_INVALID_PREFIX_FN, E_UNCLOSED_PAREN}
  /\ dropped \subseteq {"lexer", "prefix"}

ParserInv ==
  /\ input \in Seq(Lexemes)
  /\ StateOK
  /\ mode = "start" => pos = 1 /\ stack = <<>>
  /\ ~ HasBad /\ mode # "start" => Reached
  /\ ~ HasBad /\ Len(input) <= MaxFrames => mode # "overflow"

\* What the lexer answers at the lexeme p.
LEMMA LexAt ==
  ASSUME input \in Seq(Lexemes), NEW p \in 1..(Len(input) + 1), NEW stale
  PROVE  /\ Lex(p, stale).pos \in 1..(Len(input) + 1)
         /\ Lex(p, stale).tok = stale \/ IsToken(Lex(p, stale).tok)
         /\ Lex(p, stale).err \in {0, E_UNKNOWN_TOKEN}
         /\ ~ HasBad => /\ Lex(p, stale).tok = Tok(p)
                        /\ Lex(p, stale).pos = Within(p + 1)
                        /\ Lex(p, stale).err = 0
<1>1. Len(input) \in Nat /\ \A i \in 1..Len(input) : input[i] \in Lexemes
  OBVIOUS
<1>2. CASE p > Len(input)
  <2>1. Lex(p, stale) = [err |-> 0, tok |-> EOF, pos |-> p]
    BY <1>2 DEF Lex
  <2>2. p = Len(input) + 1 /\ Within(p + 1) = p /\ Tok(p) = EOF /\ IsToken(EOF)
    BY <1>1, <1>2 DEF Within, Tok, IsToken, EOF, TokenTypes
  <2> QED
    BY <2>1, <2>2
<1>3. CASE p <= Len(input) /\ input[p] = "bad"
  <2>1. Lex(p, stale) = [err |-> E_UNKNOWN_TOKEN, tok |-> stale, pos |-> p]
    BY <1>1, <1>3 DEF Lex
  <2>2. HasBad
    BY <1>1, <1>3 DEF HasBad
  <2> QED
    BY <2>1, <2>2
<1>4. CASE p <= Len(input) /\ input[p] # "bad"
  <2>1. Lex(p, stale) = [err |-> 0, tok |-> [t |-> TokenType(input[p]), at |-> p], pos |-> p + 1]
    BY <1>1, <1>4 DEF Lex
  <2>2. Tok(p) = [t |-> TokenType(input[p]), at |-> p]
    BY <1>4 DEF Tok
  <2>3. TokenType(input[p]) \in TokenTypes
    BY <1>1, <1>4 DEF TokenType, TokenTypes, Lexemes
  <2>4. p + 1 \in 1..(Len(input) + 1) /\ Within(p + 1) = p + 1 /\ p \in 0..Len(input)
    BY <1>1, <1>4 DEF Within
  <2> QED
    BY <2>1, <2>2, <2>3, <2>4 DEF IsToken
<1> QED
  BY <1>1, <1>2, <1>3, <1>4

\* Two tokens of it.
LEMMA Advances ==
  ASSUME ParserInv
  PROVE  /\ Advance1.pos \in 1..(Len(input) + 1) /\ IsToken(Advance1.tok)
         /\ Advance1.err \in {0, E_UNKNOWN_TOKEN}
         /\ Advance2.pos \in 1..(Len(input) + 1) /\ IsToken(Advance2.tok)
         /\ Advance2.err \in {0, E_UNKNOWN_TOKEN}
         /\ ~ HasBad => /\ Advance1.tok = Tok(pos) /\ Advance1.pos = Within(pos + 1)
                        /\ Advance2.tok = Tok(Within(pos + 1))
                        /\ Advance2.pos = Within(Within(pos + 1) + 1)
                        /\ Advance1.err = 0 /\ Advance2.err = 0
<1>1. pos \in 1..(Len(input) + 1) /\ input \in Seq(Lexemes) /\ IsToken(peek)
  BY DEF ParserInv, StateOK
<1>2. /\ Advance1.pos \in 1..(Len(input) + 1) /\ IsToken(Advance1.tok)
      /\ Advance1.err \in {0, E_UNKNOWN_TOKEN}
      /\ ~ HasBad => /\ Advance1.tok = Tok(pos) /\ Advance1.pos = Within(pos + 1)
                     /\ Advance1.err = 0
  BY <1>1, LexAt DEF Advance1
<1>3. /\ Advance2.pos \in 1..(Len(input) + 1) /\ IsToken(Advance2.tok)
      /\ Advance2.err \in {0, E_UNKNOWN_TOKEN}
      /\ ~ HasBad => /\ Advance2.tok = Tok(Advance1.pos) /\ Advance2.pos = Within(Advance1.pos + 1)
                     /\ Advance2.err = 0
  BY <1>1, <1>2, LexAt DEF Advance2
<1> QED
  BY <1>2, <1>3

\* The cursor after one token more, and after two.
LEMMA ReachedNext ==
  ASSUME ParserInv, NEW k, At(k), ~ HasBad, UNCHANGED input, k <= Len(input), NextToken,
         Len(stack') <= k
  PROVE  At(k + 1)' /\ k + 1 \in 1..(Len(input) + 1)
<1>1. Len(input) \in Nat /\ k \in 1..Len(input)
  BY DEF ParserInv, At
<1>2. curr' = Tok(k + 1) /\ Within(k + 1) = k + 1
  BY <1>1 DEF NextToken, At, Within
<1>3. peek' = Tok(Within(k + 2)) /\ pos' = Within(Within(k + 2) + 1)
  BY Advances DEF NextToken, At
<1>4. Within(Within(k + 2) + 1) = Within(k + 3)
  BY <1>1 DEF Within
<1>5. k + 1 \in 1..(Len(input) + 1) /\ k + 1 + 1 = k + 2 /\ k + 1 + 2 = k + 3 /\ k + 1 - 1 = k
  BY <1>1
<1> QED
  BY <1>2, <1>3, <1>4, <1>5 DEF At, Tok, Within

\* Two tokens more.
LEMMA ReachedNextTwice ==
  ASSUME ParserInv, NEW k, At(k), ~ HasBad, UNCHANGED input, k + 1 <= Len(input), NextTokenTwice,
         Len(stack') <= k + 1
  PROVE  At(k + 2)' /\ k + 2 \in 1..(Len(input) + 1)
<1>1. Len(input) \in Nat /\ k \in 1..Len(input)
  BY DEF ParserInv, At
<1>2. curr' = Tok(k + 2) /\ Within(k + 2) = k + 2
  <2>1. Within(k + 2) = k + 2
    BY <1>1 DEF Within
  <2> QED
    BY <2>1, Advances DEF NextTokenTwice, At
<1>3. peek' = Tok(Within(k + 3)) /\ pos' = Within(Within(k + 3) + 1)
  <2>1. k + 2 + 1 = k + 3
    BY <1>1
  <2> QED
    BY <1>2, <2>1, Advances DEF NextTokenTwice, At
<1>4. Within(Within(k + 3) + 1) = Within(k + 4)
  BY <1>1 DEF Within
<1>5. k + 2 \in 1..(Len(input) + 1) /\ k + 2 + 1 = k + 3 /\ k + 2 + 2 = k + 4 /\ k + 2 - 1 = k + 1
  BY <1>1
<1> QED
  BY <1>2, <1>3, <1>4, <1>5 DEF At, Tok, Within

\* A call of parser_parse_expression.
LEMMA CallInv ==
  ASSUME ParserInv, NEW f, FrameOK(f), NEW p \in LOWEST..PREFIX, Call(f, p)
  PROVE  /\ FramesOK(stack') /\ Len(stack') <= MaxFrames /\ Len(stack') <= Len(stack) + 1
         /\ Len(stack) \in Nat /\ Len(stack') \in Nat
         /\ mode' \in {"call", "overflow"} /\ prec' \in LOWEST..PREFIX
         /\ Len(stack) < MaxFrames => mode' = "call"
<1>1. FramesOK(stack) /\ Len(stack) <= MaxFrames /\ MaxFrames \in Nat /\ prec \in LOWEST..PREFIX
  BY ParserAssumption DEF ParserInv, StateOK
<1>2. FramesOK(Append(stack, f)) /\ Len(stack) \in Nat /\ Len(Append(stack, f)) = Len(stack) + 1
  BY <1>1, FramesPush
<1>3. CASE Len(stack) < MaxFrames
  <2>1. stack' = Append(stack, f) /\ mode' = "call" /\ prec' = p
    BY <1>3 DEF Call
  <2> QED
    BY <1>1, <1>2, <1>3, <2>1
<1>4. CASE ~ (Len(stack) < MaxFrames)
  <2>1. mode' = "overflow" /\ UNCHANGED <<stack, prec>>
    BY <1>4 DEF Call
  <2> QED
    BY <1>1, <1>2, <1>4, <2>1
<1> QED
  BY <1>3, <1>4

\* What curr and peek say of the place.
LEMMA TokensAt ==
  ASSUME ParserInv, NEW k, At(k)
  PROVE  /\ curr.t # "eof" => k <= Len(input)
         /\ peek.t # "eof" => k + 1 <= Len(input)
         /\ k \in Nat /\ Len(stack) \in Nat /\ Len(input) \in Nat
<1>1. Len(input) \in Nat /\ k \in 1..(Len(input) + 1)
  BY DEF ParserInv, At
<1>2. Len(stack) \in Nat
  BY DEF ParserInv, StateOK, FramesOK, IsSeq
<1> QED
  BY <1>1, <1>2 DEF At, Tok, Within, EOF

\* parser_init stands on the first token, or has an error to return.
LEMMA ParserInitInv == ParserInv /\ ParserInit => ParserInv'
<1> SUFFICES ASSUME ParserInv, ParserInit PROVE ParserInv'
  OBVIOUS
<1>1. mode = "start" /\ pos = 1 /\ stack = <<>> /\ Len(stack) = 0 /\ Len(input) \in Nat
  BY DEF ParserInv, ParserInit
<1>2. UNCHANGED <<input, debug, stack, prec, dropped>> /\ HasBad' = HasBad
  BY DEF ParserInit, HasBad
<1>3. CASE /\ debug /\ HasBad
           /\ mode' = "done" /\ ret' = [err |-> E_UNKNOWN_TOKEN, tree |-> Junk]
           /\ UNCHANGED <<pos, curr, peek>>
  BY <1>2, <1>3 DEF ParserInv, StateOK, IsToken
<1>4. CASE /\ Advance1.err # 0
           /\ NextToken
           /\ mode' = "done" /\ ret' = [err |-> Advance1.err, tree |-> Junk]
  <2>1. HasBad
    BY <1>4, Advances
  <2>2. StateOK'
    BY <1>2, <1>4, Advances DEF ParserInv, StateOK, IsToken, NextToken
  <2> QED
    BY <1>2, <1>4, <2>1, <2>2 DEF ParserInv
<1>5. CASE /\ NextTokenTwice
           /\ IF Advance2.err # 0
              THEN mode' = "done" /\ ret' = [err |-> Advance2.err, tree |-> Junk]
              ELSE mode' = "call" /\ UNCHANGED ret
  <2>1. mode' \in {"call", "done"} /\ (ret' = ret \/ ret'.err \in {0, E_UNKNOWN_TOKEN})
    BY <1>5, Advances
  <2>2. StateOK'
    BY <1>2, <1>5, <2>1, Advances DEF ParserInv, StateOK, IsToken, NextTokenTwice
  <2>3. ASSUME ~ HasBad PROVE At(1)' /\ 1 \in 1..(Len(input') + 1)
    <3>1. curr' = Tok(1) /\ peek' = Tok(Within(1 + 1)) /\ pos' = Within(Within(1 + 1) + 1)
      BY <1>1, <1>5, <2>3, Advances DEF NextTokenTwice
    <3>2. Within(Within(1 + 1) + 1) = Within(1 + 2)
      BY <1>1 DEF Within
    <3> QED
      BY <1>1, <1>2, <3>1, <3>2 DEF At, Tok, Within
  <2>4. ~ HasBad => Reached'
    BY <2>3 DEF Reached
  <2> QED
    BY <1>2, <2>1, <2>2, <2>4 DEF ParserInv
<1> QED
  BY <1>3, <1>4, <1>5 DEF ParserInit, HasBad

\* The frames do not change, or the last one goes, and the lexer does not move.
LEMMA StaysInv ==
  ASSUME ParserInv, mode # "start", UNCHANGED <<input, pos, curr, peek>>,
         mode' \in {"loop", "return", "done"}, prec' \in LOWEST..PREFIX,
         ret'.err \in {0, E_LITERAL_TOO_LARGE, E_UNKNOWN_TOKEN, E_INVALID_PREFIX_FN, E_UNCLOSED_PAREN},
         dropped' \subseteq {"lexer", "prefix"},
         FramesOK(stack'), Len(stack) \in Nat, Len(stack') \in Nat, Len(stack') <= Len(stack)
  PROVE  ParserInv'
<1>1. StateOK'
  <2>1. Len(stack') <= MaxFrames
    BY ParserAssumption DEF ParserInv, StateOK
  <2> QED
    BY <2>1 DEF ParserInv, StateOK, IsToken
<1>2. HasBad' = HasBad
  BY DEF HasBad
<1>3. ~ HasBad => Reached'
  <2> SUFFICES ASSUME ~ HasBad PROVE Reached'
    OBVIOUS
  <2>1. PICK k \in 1..(Len(input) + 1) : At(k)
    BY DEF ParserInv, Reached
  <2>2. At(k)'
    BY <2>1, TokensAt DEF At, Tok, Within
  <2> QED
    BY <2>2 DEF Reached
<1> QED
  BY <1>1, <1>2, <1>3 DEF ParserInv

\* The innermost call has returned.
LEMMA PopInv ==
  ASSUME ParserInv, stack # <<>>
  PROVE  /\ FramesOK(SubSeq(stack, 1, Len(stack) - 1)) /\ Len(stack) \in Nat
         /\ Len(SubSeq(stack, 1, Len(stack) - 1)) \in Nat
         /\ Len(SubSeq(stack, 1, Len(stack) - 1)) <= Len(stack)
         /\ stack[Len(stack)].prec \in LOWEST..PREFIX
<1>1. FramesOK(stack)
  BY DEF ParserInv, StateOK
<1>2. /\ FramesOK(SubSeq(stack, 1, Len(stack) - 1)) /\ Len(stack) \in Nat \ {0}
      /\ Len(SubSeq(stack, 1, Len(stack) - 1)) = Len(stack) - 1
      /\ FrameOK(stack[Len(stack)])
  BY <1>1, FramesPop
<1> QED
  BY <1>2 DEF FrameOK

\* The actions that neither make a call nor read a token.
LEMMA QuietInv ==
  ParserInv /\ (NoPrefixFunction \/ ParseNumericLiteral \/ LoopEnds \/ UnaryReturned \/ BinaryReturned \/ ParserDone)
    => ParserInv'
<1> USE DEF E_LITERAL_TOO_LARGE, E_UNKNOWN_TOKEN, E_INVALID_PREFIX_FN, E_UNCLOSED_PAREN
<1> SUFFICES ASSUME ParserInv PROVE NoPrefixFunction \/ ParseNumericLiteral \/ LoopEnds \/ UnaryReturned
                                     \/ BinaryReturned \/ ParserDone => ParserInv'
  OBVIOUS
<1>1. /\ FramesOK(stack) /\ Len(stack) \in Nat /\ Len(stack) <= Len(stack)
      /\ prec \in LOWEST..PREFIX /\ dropped \subseteq {"lexer", "prefix"}
      /\ ret.err \in {0, E_LITERAL_TOO_LARGE, E_UNKNOWN_TOKEN, E_INVALID_PREFIX_FN, E_UNCLOSED_PAREN}
  BY DEF ParserInv, StateOK, FramesOK, IsSeq
<1>2. CASE NoPrefixFunction
  BY <1>1, <1>2, StaysInv DEF NoPrefixFunction, Return
<1>3. CASE ParseNumericLiteral
  <2>1. /\ mode = "call" /\ mode' = "loop" /\ prec' = prec /\ ret'.err \in {0, E_LITERAL_TOO_LARGE}
        /\ UNCHANGED <<input, pos, curr, peek, stack, dropped>>
    BY <1>3 DEF ParseNumericLiteral, Finish
  <2> QED
    BY <1>1, <2>1, StaysInv
<1>4. CASE LoopEnds
  BY <1>1, <1>4, StaysInv DEF LoopEnds, Return
<1>5. CASE UnaryReturned
  <2>1. /\ mode = "return" /\ stack # <<>> /\ mode' = "loop" /\ prec' = stack[Len(stack)].prec
        /\ ret'.err \in {0, ret.err}
        /\ stack' = SubSeq(stack, 1, Len(stack) - 1)
        /\ UNCHANGED <<input, pos, curr, peek, dropped>>
    BY <1>5 DEF UnaryReturned, Finish
  <2> QED
    BY <1>1, <2>1, PopInv, StaysInv
<1>6. CASE BinaryReturned
  <2>1. /\ mode = "return" /\ stack # <<>> /\ mode' \in {"return", "loop"}
        /\ prec' \in {prec, stack[Len(stack)].prec}
        /\ ret'.err \in {0, ret.err}
        /\ stack' = SubSeq(stack, 1, Len(stack) - 1)
        /\ UNCHANGED <<input, pos, curr, peek, dropped>>
    BY <1>6 DEF BinaryReturned, Finish, Return
  <2> QED
    BY <1>1, <2>1, PopInv, StaysInv
<1>7. CASE ParserDone
  BY <1>1, <1>7, StaysInv DEF ParserDone
<1> QED
  BY <1>2, <1>3, <1>4, <1>5, <1>6, <1>7

\* The actions that step to the next token, or to the one behind it.
LEMMA StepsInv ==
  ASSUME ParserInv, mode # "start", UNCHANGED input,
         \/ NextToken /\ curr.t # "eof"
         \/ NextToken /\ peek.t # "eof"
         \/ NextTokenTwice /\ peek.t # "eof",
         mode' \in {"loop", "call", "overflow"}, prec' \in LOWEST..PREFIX,
         ret'.err \in {0, E_LITERAL_TOO_LARGE, E_UNKNOWN_TOKEN, E_INVALID_PREFIX_FN, E_UNCLOSED_PAREN},
         dropped' \subseteq {"lexer", "prefix"},
         FramesOK(stack'), Len(stack) \in Nat, Len(stack') \in Nat, Len(stack') <= Len(stack) + 1,
         Len(stack') <= MaxFrames,
         Len(stack) < MaxFrames => mode' # "overflow"
  PROVE  ParserInv'
<1>1. pos' \in 1..(Len(input') + 1) /\ IsToken(curr)' /\ IsToken(peek)'
  <2>1. IsToken(peek) /\ input' = input
    BY DEF ParserInv, StateOK
  <2>2. CASE NextToken
    BY <2>1, <2>2, Advances DEF NextToken, IsToken
  <2>3. CASE NextTokenTwice
    BY <2>1, <2>3, Advances DEF NextTokenTwice, IsToken
  <2> QED
    BY <2>2, <2>3
<1>2. StateOK'
  BY <1>1 DEF StateOK
<1>3. HasBad' = HasBad
  BY DEF HasBad
<1>4. ASSUME ~ HasBad PROVE Reached' /\ (Len(input) <= MaxFrames => mode' # "overflow")
  <2>1. PICK k \in 1..(Len(input) + 1) : At(k)
    BY <1>4 DEF ParserInv, Reached
  <2>2. k <= Len(input) /\ Len(stack) <= k - 1 /\ k \in Nat /\ Len(input) \in Nat
    <3>1. Len(stack) <= k - 1
      BY <2>1 DEF At
    <3>2. /\ curr.t # "eof" => k <= Len(input)
          /\ peek.t # "eof" => k + 1 <= Len(input)
          /\ k \in Nat /\ Len(input) \in Nat
      BY <2>1, TokensAt, Zenon
    <3>3. curr.t # "eof" \/ peek.t # "eof"
      OBVIOUS
    <3>4. k + 1 <= Len(input) => k <= Len(input)
      BY <3>2
    <3> QED
      BY <3>1, <3>2, <3>3, <3>4, Zenon
  <2>3. Len(input) <= MaxFrames => Len(stack) < MaxFrames
    BY <2>2, ParserAssumption
  <2>4. CASE NextToken
    <3>1. Len(stack') <= k
      BY <2>2
    <3>2. At(k + 1)' /\ k + 1 \in 1..(Len(input) + 1)
      BY <1>4, <2>1, <2>2, <2>4, <3>1, ReachedNext
    <3> QED
      BY <2>3, <3>2 DEF Reached
  <2>5. CASE NextTokenTwice /\ peek.t # "eof"
    <3>1. Len(stack') <= k + 1 /\ k + 1 <= Len(input)
      BY <2>1, <2>2, <2>5, TokensAt
    <3>2. At(k + 2)' /\ k + 2 \in 1..(Len(input) + 1)
      BY <1>4, <2>1, <2>2, <2>5, <3>1, ReachedNextTwice
    <3> QED
      BY <2>3, <3>2 DEF Reached
  <2> QED
    BY <2>4, <2>5
<1> QED
  BY <1>2, <1>3, <1>4 DEF ParserInv

\* A call or a loop turn, which reads tokens.
LEMMA ReadingInv ==
  ParserInv /\ (ParseUnary \/ ParseGrouped \/ ParseInfix \/ GroupedReturned) => ParserInv'
<1> USE DEF E_LITERAL_TOO_LARGE, E_UNKNOWN_TOKEN, E_INVALID_PREFIX_FN, E_UNCLOSED_PAREN
<1> SUFFICES ASSUME ParserInv PROVE ParseUnary \/ ParseGrouped \/ ParseInfix \/ GroupedReturned => ParserInv'
  OBVIOUS
<1>1. /\ FramesOK(stack) /\ Len(stack) \in Nat /\ Len(stack) <= Len(stack) + 1 /\ Len(stack) <= MaxFrames
      /\ prec \in LOWEST..PREFIX /\ dropped \subseteq {"lexer", "prefix"}
      /\ ret.err \in {0, E_LITERAL_TOO_LARGE, E_UNKNOWN_TOKEN, E_INVALID_PREFIX_FN, E_UNCLOSED_PAREN}
      /\ Advance1.err \in {0, E_UNKNOWN_TOKEN} /\ Advance2.err \in {0, E_UNKNOWN_TOKEN}
      /\ MaxFrames \in Nat
  BY Advances, ParserAssumption DEF ParserInv, StateOK, FramesOK, IsSeq
<1>2. \A errs : LexerError(errs) \subseteq {"lexer", "prefix"}
  BY DEF LexerError
<1>3. LOWEST \in LOWEST..PREFIX /\ PREFIX \in LOWEST..PREFIX /\ \A t : PeekPrecedence(t) \in LOWEST..PREFIX
  BY DEF LOWEST, SUM, PRODUCT, PREFIX, PeekPrecedence
<1>4. CASE ParseUnary
  <2> DEFINE f == [fn |-> "unary", op |-> curr.t, prec |-> prec, left |-> Junk]
  <2>1. FrameOK(f)
    BY <1>1, <1>4 DEF FrameOK, ParseUnary
  <2>2. /\ mode = "call" /\ curr.t # "eof" /\ NextToken /\ UNCHANGED <<input, dropped>>
    BY <1>4 DEF ParseUnary
  <2>3. CASE Advance1.err # 0
    <3>1. mode' = "loop" /\ prec' = prec /\ ret'.err = Advance1.err /\ stack' = stack
      BY <1>4, <2>3 DEF ParseUnary, Finish
    <3> QED
      BY <1>1, <2>2, <3>1, StepsInv
  <2>4. CASE Advance1.err = 0
    <3>1. Call(f, PREFIX) /\ UNCHANGED ret
      BY <1>4, <2>4 DEF ParseUnary
    <3> HIDE DEF f
    <3>2. /\ FramesOK(stack') /\ Len(stack') <= MaxFrames /\ Len(stack') <= Len(stack) + 1
          /\ Len(stack) \in Nat /\ Len(stack') \in Nat
          /\ mode' \in {"call", "overflow"} /\ prec' \in LOWEST..PREFIX
          /\ Len(stack) < MaxFrames => mode' = "call"
      BY <1>3, <2>1, <3>1, CallInv
    <3> QED
      BY <1>1, <2>2, <3>1, <3>2, StepsInv
  <2> QED
    BY <2>3, <2>4
<1>5. CASE ParseGrouped
  <2> DEFINE f == [fn |-> "group", op |-> "(", prec |-> prec, left |-> Junk]
  <2>1. FrameOK(f)
    BY <1>1 DEF FrameOK
  <2>2. /\ mode = "call" /\ curr.t # "eof" /\ NextToken /\ UNCHANGED <<input, ret>>
        /\ dropped' = dropped \cup LexerError({Advance1.err}) /\ Call(f, LOWEST)
    BY <1>5 DEF ParseGrouped
  <2>3. dropped' \subseteq {"lexer", "prefix"}
    BY <1>1, <1>2, <2>2
  <2> HIDE DEF f
  <2>4. /\ FramesOK(stack') /\ Len(stack') <= MaxFrames /\ Len(stack') <= Len(stack) + 1
        /\ Len(stack) \in Nat /\ Len(stack') \in Nat
        /\ mode' \in {"call", "overflow"} /\ prec' \in LOWEST..PREFIX
        /\ Len(stack) < MaxFrames => mode' = "call"
    BY <1>3, <2>1, <2>2, CallInv
  <2> QED
    BY <1>1, <2>2, <2>3, <2>4, StepsInv
<1>6. CASE ParseInfix
  <2> DEFINE f == [fn |-> "binary", op |-> peek.t, prec |-> prec, left |-> ret.tree]
  <2>1. mode = "loop" /\ peek.t # "eof" /\ prec < PeekPrecedence(peek.t)
    BY <1>6 DEF ParseInfix, LoopGoesOn
  <2>2. peek.t \in {"+", "-", "*"}
    BY <1>1, <2>1 DEF PeekPrecedence, LOWEST, SUM, PRODUCT, PREFIX
  <2>3. FrameOK(f)
    BY <1>1, <2>2 DEF FrameOK
  <2>4. /\ NextTokenTwice /\ UNCHANGED <<input, ret>>
        /\ dropped' \subseteq dropped \cup LexerError({Advance1.err, Advance2.err}) \cup {"prefix"}
        /\ Call(f, PeekPrecedence(peek.t))
    BY <1>6 DEF ParseInfix
  <2>5. dropped' \subseteq {"lexer", "prefix"}
    BY <1>1, <1>2, <2>4
  <2> HIDE DEF f
  <2>6. /\ FramesOK(stack') /\ Len(stack') <= MaxFrames /\ Len(stack') <= Len(stack) + 1
        /\ Len(stack) \in Nat /\ Len(stack') \in Nat
        /\ mode' \in {"call", "overflow"} /\ prec' \in LOWEST..PREFIX
        /\ Len(stack) < MaxFrames => mode' = "call"
    BY <1>3, <2>3, <2>4, CallInv
  <2> QED
    BY <1>1, <2>1, <2>4, <2>5, <2>6, StepsInv
<1>7. CASE GroupedReturned
  <2>1. /\ mode = "return" /\ stack # <<>> /\ stack' = SubSeq(stack, 1, Len(stack) - 1)
        /\ UNCHANGED input
        /\ mode' = "loop" /\ prec' = stack[Len(stack)].prec
    BY <1>7 DEF GroupedReturned, Finish
  <2>2. /\ FramesOK(stack') /\ Len(stack') \in Nat /\ Len(stack') <= Len(stack)
        /\ prec' \in LOWEST..PREFIX
    BY <2>1, PopInv
  <2>3. CASE ret.err # 0 \/ peek.t # ")"
    <3>1. ret'.err \in {ret.err, E_UNCLOSED_PAREN} /\ UNCHANGED <<pos, curr, peek, dropped>>
      BY <1>7, <2>3 DEF GroupedReturned, Finish
    <3> QED
      BY <1>1, <2>1, <2>2, <3>1, StaysInv
  <2>4. CASE ret.err = 0 /\ peek.t = ")"
    <3>1. /\ NextToken /\ dropped' = dropped \cup LexerError({Advance1.err})
          /\ Finish(stack[Len(stack)].prec, 0, ret.tree)
      BY <1>7, <2>4 DEF GroupedReturned
    <3>2. ret'.err = 0
      BY <3>1 DEF Finish
    <3>3. Len(stack') <= Len(stack) + 1 /\ Len(stack') <= MaxFrames
      BY <1>1, <2>2
    <3>4. dropped' \subseteq {"lexer", "prefix"}
      BY <1>1, <1>2, <3>1
    <3> QED
      BY <1>1, <2>1, <2>2, <2>4, <3>1, <3>2, <3>3, <3>4, StepsInv
  <2> QED
    BY <2>3, <2>4
<1> QED
  BY <1>4, <1>5, <1>6, <1>7

\* Each step of the parser.
LEMMA ParserNextInv == ParserInv /\ [Next]_vars => ParserInv'
<1>1. ParserInv /\ UNCHANGED vars => ParserInv'
  BY DEF vars, ParserInv, StateOK, IsToken, Reached, At, Tok, Within, HasBad
<1> QED
  BY <1>1, ParserInitInv, QuietInv, ReadingInv DEF Next

-----------------------------------------------------------------------------
(* The front end *)

\* The parser before it is started.
Waiting ==
  /\ input = <<>> /\ pos = 1 /\ stack = <<>>
  /\ curr = NoToken /\ peek = NoToken
  /\ prec = LOWEST /\ ret = [err |-> 0, tree |-> Junk] /\ dropped = {}

FrontendInv ==
  /\ LexerInv
  /\ mode = "lexing" => Waiting
  /\ mode # "lexing" => ParserInv /\ Len(input) <= Len(expr)

\* The parser gets a lexeme for each token, no more than there are characters.
LEMMA StartParserInv == FrontendInv /\ StartParser => FrontendInv'
<1> SUFFICES ASSUME FrontendInv, StartParser PROVE FrontendInv'
  OBVIOUS
<1> DEFINE front == [k \in DOMAIN tokens |-> LexemeOf(tokens[k])]
           rest == IF lexing = "error" THEN <<"bad">> ELSE <<>>
<1>1. /\ mode = "lexing" /\ lexing \in {"eof", "error"} /\ input' = front \o rest /\ mode' = "start"
      /\ UNCHANGED <<pos, curr, peek, stack, prec, ret, dropped>> /\ UNCHANGED lexerVars
  BY DEF StartParser
<1>2. PICK end \in Nat : Cover(expr, tokens, end) /\ end <= position
  BY <1>1 DEF FrontendInv, LexerInv
<1>3. /\ tokens \in Seq(Token) /\ Len(tokens) \in Nat /\ Len(tokens) <= position
      /\ position \in 0..Len(expr) /\ Len(expr) \in Nat
  BY <1>2 DEF Cover, FrontendInv, LexerInv, Lexer!TypeOK
<1>4. \A k \in 1..Len(tokens) : LexemeOf(tokens[k]) \in Lexemes
  <2> SUFFICES ASSUME NEW k \in 1..Len(tokens) PROVE LexemeOf(tokens[k]) \in Lexemes
    OBVIOUS
  <2>1. tokens[k] \in Token
    BY <1>3
  <2>2. tokens[k].t \in Lexer!Operators \cup {"num"}
    BY <2>1 DEF Token
  <2> QED
    BY <2>2 DEF LexemeOf, Lexemes, Lexer!Operators
<1>5. front \in Seq(Lexemes) /\ Len(front) = Len(tokens)
  <2>1. DOMAIN tokens = 1..Len(tokens)
    BY <1>3
  <2> QED
    BY <1>3, <1>4, <2>1
<1>6. rest \in Seq(Lexemes) /\ Len(rest) = (IF lexing = "error" THEN 1 ELSE 0)
  <2>1. <<"bad">> \in Seq(Lexemes) /\ <<>> \in Seq(Lexemes) /\ Len(<<"bad">>) = 1 /\ Len(<<>>) = 0
    BY DEF Lexemes
  <2>2. CASE lexing = "error"
    BY <2>1, <2>2
  <2>3. CASE lexing # "error"
    BY <2>1, <2>3
  <2> QED
    BY <2>2, <2>3
<1>7. lexing = "error" => position < Len(expr)
  BY <1>3 DEF FrontendInv, LexerInv, CharAt
<1> HIDE DEF front, rest
<1>8. input' \in Seq(Lexemes) /\ Len(input') = Len(tokens) + Len(rest)
  BY <1>1, <1>5, <1>6, ConcatProperties
<1>9. Len(input') <= Len(expr)
  BY <1>3, <1>6, <1>7, <1>8
<1>10. StateOK'
  <2>1. Len(input') \in Nat /\ Waiting
    BY <1>1, <1>8 DEF FrontendInv
  <2>2. FramesOK(stack') /\ Len(stack') <= MaxFrames
    BY <1>1, <2>1, ParserAssumption DEF Waiting, FramesOK, IsSeq
  <2> QED
    BY <1>1, <2>1, <2>2 DEF Waiting, StateOK, IsToken, NoToken, TokenTypes, LOWEST, PREFIX
<1>11. LexerInv'
  BY <1>1 DEF FrontendInv, LexerInv, lexerVars, Lexer!TypeOK
<1>12. expr' = expr
  BY <1>1 DEF lexerVars
<1> QED
  BY <1>1, <1>8, <1>9, <1>10, <1>11, <1>12 DEF FrontendInv, ParserInv, Waiting

\* Lexer and parser as main leaves them before the first step.
LEMMA FrontendInitInv == FrontendInit => FrontendInv
<1>1. FrontendInit => mode = "lexing" /\ Waiting
  BY DEF FrontendInit, Waiting
<1> QED
  BY <1>1, LexerInitInv DEF FrontendInit, FrontendInv

\* A step of the lexer, of the parser, or the start of the parser.
LEMMA FrontendNextInv == FrontendInv /\ [FrontendNext]_<<vars, lexerVars>> => FrontendInv'
<1> SUFFICES ASSUME FrontendInv, [FrontendNext]_<<vars, lexerVars>> PROVE FrontendInv'
  OBVIOUS
<1>1. CASE UNCHANGED lexerVars
  <2>1. LexerInv' /\ expr' = expr
    BY <1>1, LexerNextInv DEF FrontendInv, lexerVars
  <2>2. CASE Parsing
    <3>1. ParserInv' /\ mode # "lexing" /\ UNCHANGED input
      BY <2>2, ParserNextInv DEF FrontendInv, Parsing, Next, ParserInit, NoPrefixFunction,
         ParseNumericLiteral, ParseUnary, ParseGrouped, ParseInfix, LoopEnds, UnaryReturned,
         GroupedReturned, BinaryReturned, ParserDone
    <3>2. mode' # "lexing"
      BY <3>1 DEF ParserInv, StateOK
    <3> QED
      BY <2>1, <3>1, <3>2 DEF FrontendInv
  <2>3. CASE UNCHANGED vars
    <3>1. ParserInv => ParserInv'
      BY <2>3, ParserNextInv
    <3>2. UNCHANGED <<mode, input>> /\ (Waiting => Waiting')
      BY <2>3 DEF vars, Waiting
    <3> QED
      BY <2>1, <3>1, <3>2 DEF FrontendInv
  <2>4. CASE StartParser
    BY <2>4, StartParserInv
  <2>5. CASE Lexing
    BY <2>1, <2>3, <2>5 DEF Lexing
  <2> QED
    BY <2>2, <2>3, <2>4, <2>5 DEF FrontendNext
<1>2. CASE Lexing
  <2>1. LexerInv'
    BY <1>2, LexerNextInv DEF Lexing, FrontendInv
  <2>2. mode = "lexing" /\ mode' = "lexing" /\ Waiting'
    BY <1>2 DEF Lexing, vars, FrontendInv, Waiting
  <2> QED
    BY <2>1, <2>2 DEF FrontendInv
<1>3. CASE StartParser
  BY <1>3, StartParserInv
<1>4. CASE Parsing
  BY <1>1, <1>4 DEF Parsing
<1> QED
  BY <1>1, <1>2, <1>3, <1>4 DEF FrontendNext

\* The tokens are the expression: nothing is lost between them, no literal is cut short and
\* no character read twice (main.c 394-489).
THEOREM FrontendTokensCoverInput == FrontendSpec => []TokensCoverInput
<1>1. FrontendInv => TokensCoverInput
  BY LexerInvCovers DEF FrontendInv
<1> QED
  BY <1>1, FrontendInitInv, FrontendNextInv, PTL DEF FrontendSpec

\* A parse without unknown characters has never more calls pending than there are lexemes,
\* and with as many frames on the C stack it does not overflow (main.c 571-848).
THEOREM FrontendFramesBounded == FrontendSpec => []FramesBoundedByInput
<1>1. FrontendInv => FramesBoundedByInput
  <2> SUFFICES ASSUME FrontendInv, ~ HasBad
               PROVE  Len(stack) <= Len(input) /\ (Len(input) <= MaxFrames => mode # "overflow")
    BY DEF FramesBoundedByInput
  <2>1. CASE mode = "lexing" \/ mode = "start"
    <3>1. stack = <<>> /\ Len(input) \in Nat
      BY <2>1 DEF FrontendInv, Waiting, ParserInv
    <3> QED
      BY <2>1, <3>1
  <2>2. CASE mode \notin {"lexing", "start"}
    <3>1. PICK k \in 1..(Len(input) + 1) : At(k)
      BY <2>2 DEF FrontendInv, ParserInv, Reached
    <3>2. Len(stack) <= Len(input)
      BY <2>2, <3>1, TokensAt DEF FrontendInv, At
    <3> QED
      BY <2>2, <3>2 DEF FrontendInv, ParserInv
  <2> QED
    BY <2>1, <2>2
<1> QED
  BY <1>1, FrontendInitInv, FrontendNextInv, PTL DEF FrontendSpec

-----------------------------------------------------------------------------
(* The trees of a span.  The productions make those of a span from those of *)
(* lighter ones: shorter, or as long and at a lower level.                  *)
Levels == {"sum", "product", "prefix"}

\* A level's rank among those of one span, and the weight of a span at a level.
Rank(level) == IF level = "prefix" THEN 0 ELSE IF level = "product" THEN 1 ELSE 2

Weight(w, s) == 3 * (s[3] - s[2] + Len(w) + 1) + Rank(s[1])

\* D has the trees of the spans S.
IsTrees(w, S, D) == D = [s \in S |-> Produced(w, D, s[1], s[2], s[3])]

\* A span by its parts.
LEMMA SpanIs ==
  ASSUME NEW w, Len(w) \in Nat
  PROVE  /\ \A s \in Spans(w) : /\ s[1] \in Levels /\ s[2] \in 1..(Len(w) + 1) /\ s[3] \in 0..Len(w)
                                /\ s = <<s[1], s[2], s[3]>> /\ Weight(w, s) \in 0..(6 * Len(w) + 5)
         /\ \A level \in Levels, i \in 1..(Len(w) + 1), j \in 0..Len(w) :
              /\ <<level, i, j>> \in Spans(w)
              /\ Weight(w, <<level, i, j>>) = 3 * (j - i + Len(w) + 1) + Rank(level)
<1>1. \A level \in Levels, i \in 1..(Len(w) + 1), j \in 0..Len(w) :
        /\ <<level, i, j>> \in Spans(w)
        /\ Weight(w, <<level, i, j>>) = 3 * (j - i + Len(w) + 1) + Rank(level)
  BY DEF Spans, Levels, Weight
<1>2. ASSUME NEW s \in Spans(w)
      PROVE  /\ s[1] \in Levels /\ s[2] \in 1..(Len(w) + 1) /\ s[3] \in 0..Len(w)
             /\ s = <<s[1], s[2], s[3]>> /\ Weight(w, s) \in 0..(6 * Len(w) + 5)
  <2>1. /\ s[1] \in Levels /\ s[2] \in 1..(Len(w) + 1) /\ s[3] \in 0..Len(w)
        /\ s = <<s[1], s[2], s[3]>>
    BY DEF Spans, Levels
  <2>2. Rank(s[1]) \in 0..2
    BY DEF Rank
  <2>3. 3 * (s[3] - s[2] + Len(w) + 1) \in 0..(6 * Len(w) + 3)
    BY <2>1
  <2> QED
    BY <2>1, <2>2, <2>3 DEF Weight
<1> QED
  BY <1>1, <1>2

\* The spans that are looked at are lighter.
LEMMA ProducedAgree ==
  ASSUME NEW w, Len(w) \in Nat, NEW s \in Spans(w), NEW F, NEW G,
         \A t \in Spans(w) : Weight(w, t) < Weight(w, s) => F[t] = G[t]
  PROVE  Produced(w, F, s[1], s[2], s[3]) = Produced(w, G, s[1], s[2], s[3])
<1> DEFINE level == s[1]
           i == s[2]
           j == s[3]
           n == Len(w)
<1>1. /\ level \in Levels /\ i \in 1..(n + 1) /\ j \in 0..n
      /\ Weight(w, s) = 3 * (j - i + n + 1) + Rank(level)
  BY SpanIs DEF Weight
<1>2. ASSUME NEW l \in Levels, NEW a \in 1..(n + 1), NEW b \in 0..n,
             3 * (b - a + n + 1) + Rank(l) < 3 * (j - i + n + 1) + Rank(level)
      PROVE  F[<<l, a, b>>] = G[<<l, a, b>>]
  BY <1>1, <1>2, SpanIs
<1> HIDE DEF level, i, j, n
<1>3. /\ "sum" \in Levels /\ "product" \in Levels /\ "prefix" \in Levels
      /\ Rank("sum") = 2 /\ Rank("product") = 1 /\ Rank("prefix") = 0 /\ n \in Nat
  BY DEF Levels, Rank, n
<1>4. Produced(w, F, level, i, j) = Produced(w, G, level, i, j)
  <2>1. CASE i > j
    BY <2>1 DEF Produced
  <2>2. CASE i <= j /\ level = "sum"
    <3>1. F[<<"product", i, j>>] = G[<<"product", i, j>>]
      BY <1>1, <1>2, <1>3, <2>2
    <3>2. \A m \in (i + 1)..(j - 1) : /\ F[<<"sum", i, m - 1>>] = G[<<"sum", i, m - 1>>]
                                      /\ F[<<"product", m + 1, j>>] = G[<<"product", m + 1, j>>]
      BY <1>1, <1>2, <1>3, <2>2
    <3> QED
      BY <2>2, <3>1, <3>2 DEF Produced
  <2>3. CASE i <= j /\ level = "product"
    <3>1. F[<<"prefix", i, j>>] = G[<<"prefix", i, j>>]
      BY <1>1, <1>2, <1>3, <2>3
    <3>2. \A m \in (i + 1)..(j - 1) : /\ F[<<"product", i, m - 1>>] = G[<<"product", i, m - 1>>]
                                      /\ F[<<"prefix", m + 1, j>>] = G[<<"prefix", m + 1, j>>]
      BY <1>1, <1>2, <1>3, <2>3
    <3> QED
      BY <2>3, <3>1, <3>2 DEF Produced
  <2>4. CASE i <= j /\ level = "prefix"
    <3>1. F[<<"prefix", i + 1, j>>] = G[<<"prefix", i + 1, j>>]
      BY <1>1, <1>2, <1>3, <2>4
    <3>2. F[<<"sum", i + 1, j - 1>>] = G[<<"sum", i + 1, j - 1>>]
      BY <1>1, <1>2, <1>3, <2>4
    <3> QED
      BY <2>4, <3>1, <3>2 DEF Produced
  <2> QED
    BY <1>1, <2>1, <2>2, <2>3, <2>4 DEF Levels
<1> QED
  BY <1>4 DEF level, i, j

\* Functions for the spans of a weight exist, and so one for all of them.
LEMMA TreesExist ==
  ASSUME NEW w, Len(w) \in Nat
  PROVE  \E D : IsTrees(w, Spans(w), D)
<1> DEFINE Below(k) == { s \in Spans(w) : Weight(w, s) < k }
           Good(k) == \E D : IsTrees(w, Below(k), D)
           B == { k \in Nat : ~ Good(k) }
<1>1. Good(0)
  <2>1. Below(0) = {}
    BY SpanIs
  <2>2. \A D : [s \in {} |-> 0] = [s \in {} |-> Produced(w, D, s[1], s[2], s[3])]
    OBVIOUS
  <2> QED
    BY <2>1, <2>2 DEF IsTrees
<1>2. ASSUME NEW k \in Nat, Good(k) PROVE Good(k + 1)
  <2>1. PICK D : IsTrees(w, Below(k), D)
    BY <1>2
  <2> DEFINE E == [s \in Below(k + 1) |-> Produced(w, D, s[1], s[2], s[3])]
  <2>2. Below(k) \subseteq Below(k + 1)
    BY SpanIs
  <2>3. \A s \in Below(k) : E[s] = D[s]
    BY <2>1, <2>2 DEF IsTrees
  <2>4. \A s \in Below(k + 1) : Produced(w, D, s[1], s[2], s[3]) = Produced(w, E, s[1], s[2], s[3])
    <3> SUFFICES ASSUME NEW s \in Below(k + 1)
                 PROVE  Produced(w, D, s[1], s[2], s[3]) = Produced(w, E, s[1], s[2], s[3])
      OBVIOUS
    <3>1. \A t \in Spans(w) : Weight(w, t) < Weight(w, s) => t \in Below(k)
      BY SpanIs
    <3>2. \A t \in Spans(w) : Weight(w, t) < Weight(w, s) => D[t] = E[t]
      <4> HIDE DEF E
      <4> QED
        BY <2>3, <3>1
    <3> HIDE DEF E
    <3> QED
      BY <3>2, ProducedAgree
  <2>5. E = [s \in Below(k + 1) |-> Produced(w, E, s[1], s[2], s[3])]
    BY <2>4
  <2> QED
    BY <2>5 DEF IsTrees
<1> HIDE DEF Good
<1>3. B = {}
  <2> SUFFICES ASSUME B # {} PROVE FALSE
    OBVIOUS
  <2>1. PICK k \in B : \A j \in B : k <= j
    BY Least
  <2>2. k # 0
    BY <1>1, <2>1
  <2>3. k - 1 \in Nat /\ (k - 1) + 1 = k /\ ~ (k <= k - 1)
    BY <2>1, <2>2
  <2>4. Good(k - 1)
    BY <2>1, <2>3
  <2> QED
    BY <1>2, <2>1, <2>3, <2>4
<1>4. Good(6 * Len(w) + 6)
  BY <1>3
<1>5. Below(6 * Len(w) + 6) = Spans(w)
  BY SpanIs
<1> QED
  BY <1>4, <1>5 DEF Good

\* The productions, for the trees of the lexemes of w.
LEMMA TreesAre ==
  ASSUME NEW w, Len(w) \in Nat, NEW level \in Levels, NEW i \in 1..(Len(w) + 1), NEW j \in 0..Len(w)
  PROVE  Trees(w)[<<level, i, j>>] = Produced(w, Trees(w), level, i, j)
<1>1. IsTrees(w, Spans(w), Trees(w))
  BY TreesExist DEF Trees, IsTrees
<1> DEFINE s == <<level, i, j>>
<1>2. s \in Spans(w) /\ s[1] = level /\ s[2] = i /\ s[3] = j
  BY SpanIs
<1> HIDE DEF s
<1>3. Trees(w)[s] = Produced(w, Trees(w), s[1], s[2], s[3])
  BY <1>1, <1>2 DEF IsTrees
<1>4. Trees(w)[s] = Trees(w)[<<level, i, j>>]
  BY DEF s
<1> QED
  BY <1>2, <1>3, <1>4

-----------------------------------------------------------------------------
\* The trees of w[i..j] at a level; t is one with an operator of ops at its root.
Der(w, level, i, j) == Trees(w)[<<level, i, j>>]

Split(w, t, left, ops, right, i, j) ==
  \E m \in (i + 1)..(j - 1) :
    /\ w[m] \in ops
    /\ \E l \in Der(w, left, i, m - 1) : \E r \in Der(w, right, m + 1, j) : t = BinaryNode(w[m], l, r)

\* The productions, one by one.
LEMMA Productions ==
  ASSUME NEW w \in Seq(Lexemes), NEW i \in 1..(Len(w) + 1), NEW j \in 0..Len(w)
  PROVE  /\ \A t : t \in Der(w, "sum", i, j) <=>
              i <= j /\ (t \in Der(w, "product", i, j) \/ Split(w, t, "sum", {"+", "-"}, "product", i, j))
         /\ \A t : t \in Der(w, "product", i, j) <=>
              i <= j /\ (t \in Der(w, "prefix", i, j) \/ Split(w, t, "product", {"*"}, "prefix", i, j))
         /\ \A t : t \in Der(w, "prefix", i, j) <=>
              /\ i <= j
              /\ \/ w[i] = "num" /\ i = j /\ t = Literal(i)
                 \/ w[i] \in {"+", "-"} /\ \E v \in Der(w, "prefix", i + 1, j) : t = UnaryNode(w[i], v)
                 \/ w[i] = "(" /\ w[j] = ")" /\ t \in Der(w, "sum", i + 1, j - 1)
<1> DEFINE D == Trees(w)
<1>0. i \in Int /\ j \in Int /\ (i > j <=> ~ (i <= j))
  <2>1. Len(w) \in Nat
    OBVIOUS
  <2> QED
    BY <2>1
<1>1. \A level \in Levels : D[<<level, i, j>>] = Produced(w, D, level, i, j)
  BY TreesAre
<1> HIDE DEF D
<1>2. /\ D[<<"sum", i, j>>] = Produced(w, D, "sum", i, j)
      /\ D[<<"product", i, j>>] = Produced(w, D, "product", i, j)
      /\ D[<<"prefix", i, j>>] = Produced(w, D, "prefix", i, j)
  BY <1>1 DEF Levels
<1>3. ASSUME NEW t
      PROVE  t \in Produced(w, D, "sum", i, j) <=>
              /\ i <= j
              /\ \/ t \in D[<<"product", i, j>>]
                 \/ \E m \in (i + 1)..(j - 1) :
                      /\ w[m] \in {"+", "-"}
                      /\ \E l \in D[<<"sum", i, m - 1>>] : \E r \in D[<<"product", m + 1, j>>] :
                           t = BinaryNode(w[m], l, r)
  <2> DEFINE ms == { k \in (i + 1)..(j - 1) : w[k] \in {"+", "-"} }
             Halves(m) == { BinaryNode(w[m], l, r) : l \in D[<<"sum", i, m - 1>>], r \in D[<<"product", m + 1, j>>] }
  <2>1. Produced(w, D, "sum", i, j) =
          IF i > j THEN {} ELSE D[<<"product", i, j>>] \cup UNION { Halves(m) : m \in ms }
    BY DEF Produced
  <2>2. t \in UNION { Halves(m) : m \in ms } <=> \E m \in ms : t \in Halves(m)
    <3> HIDE DEF ms, Halves
    <3> QED
      OBVIOUS
  <2>3. \A m : t \in Halves(m) <=> \E l \in D[<<"sum", i, m - 1>>] : \E r \in D[<<"product", m + 1, j>>] :
                           t = BinaryNode(w[m], l, r)
    OBVIOUS
  <2> HIDE DEF Halves
  <2> QED
    BY <1>0, <2>1, <2>2, <2>3
<1>4. ASSUME NEW t
      PROVE  t \in Produced(w, D, "product", i, j) <=>
              /\ i <= j
              /\ \/ t \in D[<<"prefix", i, j>>]
                 \/ \E m \in (i + 1)..(j - 1) :
                      /\ w[m] \in {"*"}
                      /\ \E l \in D[<<"product", i, m - 1>>] : \E r \in D[<<"prefix", m + 1, j>>] :
                           t = BinaryNode(w[m], l, r)
  <2> DEFINE ms == { k \in (i + 1)..(j - 1) : w[k] \in {"*"} }
             Halves(m) == { BinaryNode(w[m], l, r) : l \in D[<<"product", i, m - 1>>], r \in D[<<"prefix", m + 1, j>>] }
  <2>1. Produced(w, D, "product", i, j) =
          IF i > j THEN {} ELSE D[<<"prefix", i, j>>] \cup UNION { Halves(m) : m \in ms }
    BY DEF Produced
  <2>2. t \in UNION { Halves(m) : m \in ms } <=> \E m \in ms : t \in Halves(m)
    <3> HIDE DEF ms, Halves
    <3> QED
      OBVIOUS
  <2>3. \A m : t \in Halves(m) <=> \E l \in D[<<"product", i, m - 1>>] : \E r \in D[<<"prefix", m + 1, j>>] :
                           t = BinaryNode(w[m], l, r)
    OBVIOUS
  <2> HIDE DEF Halves
  <2> QED
    BY <1>0, <2>1, <2>2, <2>3
<1>5. ASSUME NEW t
      PROVE  t \in Produced(w, D, "prefix", i, j) <=>
              /\ i <= j
              /\ \/ w[i] = "num" /\ i = j /\ t = Literal(i)
                 \/ w[i] \in {"+", "-"} /\ \E v \in D[<<"prefix", i + 1, j>>] : t = UnaryNode(w[i], v)
                 \/ w[i] = "(" /\ w[j] = ")" /\ t \in D[<<"sum", i + 1, j - 1>>]
  <2>1. CASE i > j
    BY <2>1 DEF Produced
  <2>2. CASE i <= j /\ w[i] = "num"
    BY <2>2 DEF Produced
  <2>3. CASE i <= j /\ w[i] \in {"+", "-"}
    <3>1. Produced(w, D, "prefix", i, j) = { UnaryNode(w[i], v) : v \in D[<<"prefix", i + 1, j>>] }
      <4>1. CASE w[i] = "+"
        BY <1>0, <2>3, <4>1 DEF Produced
      <4>2. CASE w[i] = "-"
        BY <1>0, <2>3, <4>2 DEF Produced
      <4> QED
        BY <2>3, <4>1, <4>2
    <3> QED
      BY <2>3, <3>1
  <2>4. CASE i <= j /\ w[i] = "("
    BY <2>4 DEF Produced
  <2>5. CASE i <= j /\ w[i] \notin {"num", "+", "-", "("}
    <3>1. Produced(w, D, "prefix", i, j) = {}
      BY <2>5 DEF Produced
    <3> QED
      BY <2>5, <3>1
  <2> QED
    BY <1>0, <2>1, <2>2, <2>3, <2>4, <2>5
<1>6. \A level, a, b : Der(w, level, a, b) = D[<<level, a, b>>]
  BY DEF Der, D
<1>7. \A t : t \in Der(w, "sum", i, j) <=>
        i <= j /\ (t \in Der(w, "product", i, j) \/ Split(w, t, "sum", {"+", "-"}, "product", i, j))
  <2>1. \A t : Split(w, t, "sum", {"+", "-"}, "product", i, j) <=>
                 \E m \in (i + 1)..(j - 1) :
                   /\ w[m] \in {"+", "-"}
                   /\ \E l \in D[<<"sum", i, m - 1>>] : \E r \in D[<<"product", m + 1, j>>] :
                        t = BinaryNode(w[m], l, r)
    BY DEF Split, Der, D
  <2>2. /\ Der(w, "sum", i, j) = Produced(w, D, "sum", i, j)
        /\ Der(w, "product", i, j) = D[<<"product", i, j>>]
    BY <1>2, <1>6
  <2> QED
    BY <1>3, <2>1, <2>2
<1>8. \A t : t \in Der(w, "product", i, j) <=>
        i <= j /\ (t \in Der(w, "prefix", i, j) \/ Split(w, t, "product", {"*"}, "prefix", i, j))
  <2>1. \A t : Split(w, t, "product", {"*"}, "prefix", i, j) <=>
                 \E m \in (i + 1)..(j - 1) :
                   /\ w[m] \in {"*"}
                   /\ \E l \in D[<<"product", i, m - 1>>] : \E r \in D[<<"prefix", m + 1, j>>] :
                        t = BinaryNode(w[m], l, r)
    BY DEF Split, Der, D
  <2>2. /\ Der(w, "product", i, j) = Produced(w, D, "product", i, j)
        /\ Der(w, "prefix", i, j) = D[<<"prefix", i, j>>]
    BY <1>2, <1>6
  <2> QED
    BY <1>4, <2>1, <2>2
<1>9. \A t : t \in Der(w, "prefix", i, j) <=>
        /\ i <= j
        /\ \/ w[i] = "num" /\ i = j /\ t = Literal(i)
           \/ w[i] \in {"+", "-"} /\ \E v \in Der(w, "prefix", i + 1, j) : t = UnaryNode(w[i], v)
           \/ w[i] = "(" /\ w[j] = ")" /\ t \in Der(w, "sum", i + 1, j - 1)
  <2>1. Der(w, "prefix", i, j) = Produced(w, D, "prefix", i, j)
    BY <1>2, <1>6
  <2>2. /\ Der(w, "prefix", i + 1, j) = D[<<"prefix", i + 1, j>>]
        /\ Der(w, "sum", i + 1, j - 1) = D[<<"sum", i + 1, j - 1>>]
    BY <1>6
  <2> HIDE DEF D
  <2> QED
    BY <1>5, <2>1, <2>2
<1> QED
  BY <1>7, <1>8, <1>9, Zenon

\* No span that has a tree is empty or holds an unknown character.
LEMMA SpansAreClean ==
  ASSUME NEW w \in Seq(Lexemes), NEW level \in Levels,
         NEW i \in 1..(Len(w) + 1), NEW j \in 0..Len(w), NEW t \in Der(w, level, i, j)
  PROVE  i <= j /\ \A a \in i..j : w[a] # "bad"
<1> DEFINE n == Len(w)
           Clean(a, b) == a <= b /\ \A c \in a..b : w[c] # "bad"
           Bad == { s \in Spans(w) : (\E u : u \in Der(w, s[1], s[2], s[3])) /\ ~ Clean(s[2], s[3]) }
           W == { Weight(w, s) : s \in Bad }
<1>0. n \in Nat
  OBVIOUS
<1>1. Bad = {}
  <2> SUFFICES ASSUME Bad # {} PROVE FALSE
    OBVIOUS
  <2>1. W \subseteq Nat /\ W # {}
    <3>1. \A s \in Bad : Weight(w, s) \in Nat
      BY <1>0, SpanIs
    <3> HIDE DEF Bad
    <3> QED
      BY <3>1
  <2>2. PICK k \in W : \A h \in W : k <= h
    <3> HIDE DEF W
    <3> QED
      BY <2>1, Least
  <2>3. PICK s \in Bad : \A r \in Bad : Weight(w, s) <= Weight(w, r)
    BY <2>2
  <2> DEFINE l == s[1]
             a == s[2]
             b == s[3]
  <2>4. /\ l \in Levels /\ a \in 1..(n + 1) /\ b \in 0..n /\ ~ Clean(a, b)
        /\ Weight(w, s) = 3 * (b - a + n + 1) + Rank(l)
    BY <1>0, <2>3, SpanIs DEF Weight
  <2>5. PICK u : u \in Der(w, l, a, b)
    BY <2>3
  <2>6. \A m \in Levels : Rank(m) \in 0..2
    BY DEF Rank
  <2>7. ASSUME NEW m \in Levels, NEW c \in 1..(n + 1), NEW d \in 0..n, NEW v \in Der(w, m, c, d),
               d - c < b - a \/ (d - c = b - a /\ Rank(m) < Rank(l))
        PROVE  Clean(c, d)
    <3> DEFINE r == <<m, c, d>>
    <3>1. r \in Spans(w) /\ r[1] = m /\ r[2] = c /\ r[3] = d
          /\ Weight(w, r) = 3 * (d - c + n + 1) + Rank(m)
      BY <1>0, SpanIs
    <3> HIDE DEF r, Clean
    <3>2. ~ (Weight(w, s) <= Weight(w, r))
      <4>1. Rank(l) \in 0..2 /\ Rank(m) \in 0..2
        BY <2>4, <2>6
      <4> HIDE DEF l, a, b, n
      <4>2. 3 * (d - c + n + 1) + Rank(m) < 3 * (b - a + n + 1) + Rank(l)
        <5>1. d - c \in Int /\ b - a \in Int
          BY <1>0, <2>4
        <5>2. \A x, y \in Int, o1, o2 \in 0..2 :
                x < y \/ (x = y /\ o1 < o2) => 3 * (x + n + 1) + o1 < 3 * (y + n + 1) + o2
          BY <1>0
        <5> QED
          BY <2>7, <4>1, <5>1, <5>2
      <4>3. \A x, y \in Int : x < y => ~ (y <= x)
        OBVIOUS
      <4>4. 3 * (d - c + n + 1) + Rank(m) \in Int /\ 3 * (b - a + n + 1) + Rank(l) \in Int
        <5>0. d - c \in Int /\ b - a \in Int /\ n \in Int
          BY <1>0, <2>4
        <5>1. d - c + n + 1 \in Int /\ b - a + n + 1 \in Int
          <6>1. \A y \in Int : y + n + 1 \in Int
            BY <5>0
          <6> QED
            BY <5>0, <6>1
        <5>2. \A e \in Int, o \in 0..2 : 3 * e + o \in Int
          OBVIOUS
        <5> QED
          BY <4>1, <5>1, <5>2
      <4> QED
        BY <2>4, <3>1, <4>2, <4>3, <4>4
    <3>3. r \notin Bad
      BY <2>3, <3>2
    <3> QED
      BY <2>7, <3>1, <3>3
  <2> HIDE DEF l, a, b, n
  <2>8. /\ "sum" \in Levels /\ "product" \in Levels /\ "prefix" \in Levels
        /\ Rank("sum") = 2 /\ Rank("product") = 1 /\ Rank("prefix") = 0
    BY DEF Levels, Rank
  <2>9. a <= b
    BY <2>4, <2>5, Productions DEF Levels, n
  <2>10. ASSUME NEW left \in Levels, NEW ops, "bad" \notin ops, NEW right \in Levels,
                Split(w, u, left, ops, right, a, b)
         PROVE  FALSE
    <3>1. PICK m \in (a + 1)..(b - 1) :
            w[m] \in ops /\ (\E x : x \in Der(w, left, a, m - 1)) /\ (\E y : y \in Der(w, right, m + 1, b))
      BY <2>10 DEF Split
    <3>2. m - 1 \in 0..n /\ m + 1 \in 1..(n + 1) /\ (m - 1) - a < b - a /\ b - (m + 1) < b - a /\ m \in Int
      BY <1>0, <2>4, <3>1
    <3>3. Clean(a, m - 1) /\ Clean(m + 1, b)
      <4>1. PICK x : x \in Der(w, left, a, m - 1)
        BY <3>1
      <4>2. PICK y : y \in Der(w, right, m + 1, b)
        BY <3>1
      <4> HIDE DEF Clean
      <4> QED
        BY <2>4, <2>7, <3>2, <4>1, <4>2
    <3>4. \A c \in a..b : c \in a..(m - 1) \/ c = m \/ c \in (m + 1)..b
      BY <2>4, <3>2
    <3> QED
      BY <2>4, <2>9, <2>10, <3>1, <3>3, <3>4
  <2>11. CASE l = "sum"
    <3>1. u \in Der(w, "product", a, b) \/ Split(w, u, "sum", {"+", "-"}, "product", a, b)
      BY <2>4, <2>5, <2>11, Productions DEF n
    <3>2. u \notin Der(w, "product", a, b)
      <4> HIDE DEF Clean
      <4> QED
        BY <2>4, <2>7, <2>8, <2>11
    <3> QED
      BY <2>8, <2>10, <3>1, <3>2
  <2>12. CASE l = "product"
    <3>1. u \in Der(w, "prefix", a, b) \/ Split(w, u, "product", {"*"}, "prefix", a, b)
      BY <2>4, <2>5, <2>12, Productions DEF n
    <3>2. u \notin Der(w, "prefix", a, b)
      <4> HIDE DEF Clean
      <4> QED
        BY <2>4, <2>7, <2>8, <2>12
    <3> QED
      BY <2>8, <2>10, <3>1, <3>2
  <2>13. CASE l = "prefix"
    <3>1. \/ w[a] = "num" /\ a = b
          \/ w[a] \in {"+", "-"} /\ \E v : v \in Der(w, "prefix", a + 1, b)
          \/ w[a] = "(" /\ w[b] = ")" /\ u \in Der(w, "sum", a + 1, b - 1)
      <4>1. u \in Der(w, "prefix", a, b) /\ a \in 1..(Len(w) + 1) /\ b \in 0..Len(w)
        BY <2>4, <2>5, <2>13 DEF n
      <4>2. u \in Der(w, "prefix", a, b) <=>
              /\ a <= b
              /\ \/ w[a] = "num" /\ a = b /\ u = Literal(a)
                 \/ w[a] \in {"+", "-"} /\ \E v \in Der(w, "prefix", a + 1, b) : u = UnaryNode(w[a], v)
                 \/ w[a] = "(" /\ w[b] = ")" /\ u \in Der(w, "sum", a + 1, b - 1)
        BY <4>1, Productions
      <4> QED
        BY <4>1, <4>2
    <3>0. /\ a + 1 \in 1..(n + 1) /\ b - 1 \in 0..n
          /\ b - (a + 1) < b - a /\ (b - 1) - (a + 1) < b - a
      <4>1. n \in Nat /\ a \in 1..(n + 1) /\ b \in 0..n
        BY <1>0, <2>4
      <4> QED
        BY <2>9, <4>1
    <3>2. CASE w[a] = "num" /\ a = b
      BY <1>0, <2>4, <3>2
    <3>3. CASE w[a] \in {"+", "-"} /\ \E v : v \in Der(w, "prefix", a + 1, b)
      <4>1. PICK v : v \in Der(w, "prefix", a + 1, b)
        BY <3>3
      <4>2. Clean(a + 1, b)
        <5> HIDE DEF Clean
        <5> QED
          BY <2>4, <2>7, <2>8, <3>0, <4>1
      <4>3. \A c \in a..b : c = a \/ c \in (a + 1)..b
        BY <2>4
      <4> QED
        BY <2>4, <2>9, <3>3, <4>2, <4>3
    <3>4. CASE w[a] = "(" /\ w[b] = ")" /\ u \in Der(w, "sum", a + 1, b - 1)
      <4>2. Clean(a + 1, b - 1)
        <5> HIDE DEF Clean
        <5> QED
          BY <2>4, <2>7, <2>8, <3>0, <3>4
      <4>3. \A c \in a..b : c = a \/ c = b \/ c \in (a + 1)..(b - 1)
        BY <2>4
      <4> QED
        BY <2>4, <2>9, <3>4, <4>2, <4>3
    <3> QED
      BY <3>1, <3>2, <3>3, <3>4
  <2> QED
    BY <2>4, <2>11, <2>12, <2>13 DEF Levels
<1> DEFINE s == <<level, i, j>>
<1>2. s \in Spans(w) /\ s[1] = level /\ s[2] = i /\ s[3] = j
  BY <1>0, SpanIs
<1> HIDE DEF s
<1>3. s \notin Bad
  BY <1>1
<1> QED
  BY <1>2, <1>3

-----------------------------------------------------------------------------
(***************************************************************************)
(* The loop of parser_parse_expression with the argument p is to find a    *)
(* tree of the level Lev(p).  It makes its left operand x, which ends at a, *)
(* to y, which ends at b, in one turn.                                     *)
(***************************************************************************)
Lev(p) == IF p = LOWEST THEN "sum" ELSE IF p = SUM THEN "product" ELSE "prefix"

\* The precedence of the lexeme behind j.
After(w, j) == IF j + 1 <= Len(w) THEN PeekPrecedence(w[j + 1]) ELSE LOWEST

\* One turn: the operator behind a binds tighter than p, its right operand ends at b.
Turn(w, p, x, a, y, b) ==
  /\ b \in (a + 2)..Len(w)
  /\ w[a + 1] \in {"+", "-", "*"}
  /\ p < PeekPrecedence(w[a + 1])
  /\ After(w, b) <= PeekPrecedence(w[a + 1])
  /\ \E z \in Der(w, Lev(PeekPrecedence(w[a + 1])), a + 2, b) : y = BinaryNode(w[a + 1], x, z)

\* By turns from x, which ends at m, to t, which ends at j.
Chain(w, p, x, m, t, j) ==
  \E q \in Nat : \E S, M :
    /\ S[0] = x /\ M[0] = m /\ S[q] = t /\ M[q] = j
    /\ \A r \in 0..q : M[r] \in 0..j
    /\ \A r \in 1..q : Turn(w, p, S[r - 1], M[r - 1], S[r], M[r])

\* A tree that no turn is needed for.
LEMMA ChainOfNone ==
  ASSUME NEW w, NEW p, NEW t, NEW j \in Nat
  PROVE  Chain(w, p, t, j, t, j)
<1> DEFINE S == [r \in 0..0 |-> t]
           M == [r \in 0..0 |-> j]
<1>1. S[0] = t /\ M[0] = j /\ \A r \in 0..0 : M[r] \in 0..j
  OBVIOUS
<1>2. 0 \in Nat /\ \A r \in 1..0 : FALSE
  OBVIOUS
<1> HIDE DEF S, M
<1> QED
  BY <1>1, <1>2 DEF Chain

\* The first turn.
LEMMA ChainUnfolds ==
  ASSUME NEW w, NEW p, NEW x, NEW m, NEW t, NEW j \in Nat, Chain(w, p, x, m, t, j)
  PROVE  /\ m \in 0..j
         /\ \/ x = t /\ m = j
            \/ \E y : \E b \in 0..j : Turn(w, p, x, m, y, b) /\ Chain(w, p, y, b, t, j)
<1>1. PICK q \in Nat : \E S, M :
        /\ S[0] = x /\ M[0] = m /\ S[q] = t /\ M[q] = j
        /\ \A r \in 0..q : M[r] \in 0..j
        /\ \A r \in 1..q : Turn(w, p, S[r - 1], M[r - 1], S[r], M[r])
  BY DEF Chain
<1>2. PICK S, M :
        /\ S[0] = x /\ M[0] = m /\ S[q] = t /\ M[q] = j
        /\ \A r \in 0..q : M[r] \in 0..j
        /\ \A r \in 1..q : Turn(w, p, S[r - 1], M[r - 1], S[r], M[r])
  BY <1>1
<1>3. m \in 0..j
  <2>1. 0 \in 0..q
    OBVIOUS
  <2> QED
    BY <1>2, <2>1
<1>4. CASE q = 0
  BY <1>2, <1>3, <1>4
<1>5. CASE q # 0
  <2> DEFINE S2 == [r \in 0..(q - 1) |-> S[r + 1]]
             M2 == [r \in 0..(q - 1) |-> M[r + 1]]
  <2>1. q - 1 \in Nat /\ 0 \in 0..(q - 1) /\ q - 1 \in 0..(q - 1) /\ (q - 1) + 1 = q /\ 0 + 1 = 1
        /\ 1 \in 1..q /\ 1 \in 0..q /\ 1 - 1 = 0
    BY <1>5
  <2>2. S2[0] = S[1] /\ M2[0] = M[1] /\ S2[q - 1] = t /\ M2[q - 1] = j
    BY <1>2, <2>1
  <2>3. \A r \in 0..(q - 1) : M2[r] \in 0..j
    <3>1. \A r \in 0..(q - 1) : r + 1 \in 0..q
      BY <2>1
    <3> QED
      BY <1>2, <3>1
  <2>4. \A r \in 1..(q - 1) : Turn(w, p, S2[r - 1], M2[r - 1], S2[r], M2[r])
    <3> SUFFICES ASSUME NEW r \in 1..(q - 1) PROVE Turn(w, p, S2[r - 1], M2[r - 1], S2[r], M2[r])
      OBVIOUS
    <3>1. r + 1 \in 1..q /\ (r + 1) - 1 = r /\ r - 1 \in 0..(q - 1) /\ r \in 0..(q - 1) /\ (r - 1) + 1 = r
      BY <2>1
    <3>2. S2[r - 1] = S[r] /\ M2[r - 1] = M[r] /\ S2[r] = S[r + 1] /\ M2[r] = M[r + 1]
      BY <3>1
    <3>3. Turn(w, p, S[(r + 1) - 1], M[(r + 1) - 1], S[r + 1], M[r + 1])
      BY <1>2, <3>1
    <3> QED
      BY <3>1, <3>2, <3>3
  <2>5. Turn(w, p, x, m, S[1], M[1]) /\ M[1] \in 0..j
    BY <1>2, <2>1
  <2> HIDE DEF S2, M2
  <2>6. Chain(w, p, S[1], M[1], t, j)
    BY <2>1, <2>2, <2>3, <2>4 DEF Chain
  <2> QED
    BY <1>3, <2>5, <2>6
<1> QED
  BY <1>4, <1>5

\* A last turn more.
LEMMA ChainExtends ==
  ASSUME NEW w, NEW p, NEW x, NEW m, NEW t, NEW j \in Nat, Chain(w, p, x, m, t, j),
         NEW u, NEW b \in Nat, Turn(w, p, t, j, u, b)
  PROVE  Chain(w, p, x, m, u, b)
<1>1. PICK q \in Nat : \E S, M :
        /\ S[0] = x /\ M[0] = m /\ S[q] = t /\ M[q] = j
        /\ \A r \in 0..q : M[r] \in 0..j
        /\ \A r \in 1..q : Turn(w, p, S[r - 1], M[r - 1], S[r], M[r])
  BY DEF Chain
<1>2. PICK S, M :
        /\ S[0] = x /\ M[0] = m /\ S[q] = t /\ M[q] = j
        /\ \A r \in 0..q : M[r] \in 0..j
        /\ \A r \in 1..q : Turn(w, p, S[r - 1], M[r - 1], S[r], M[r])
  BY <1>1
<1>0. b >= j
  BY DEF Turn
<1> DEFINE S2 == [r \in 0..(q + 1) |-> IF r <= q THEN S[r] ELSE u]
           M2 == [r \in 0..(q + 1) |-> IF r <= q THEN M[r] ELSE b]
<1>3. q + 1 \in Nat /\ 0 \in 0..(q + 1) /\ q + 1 \in 0..(q + 1) /\ ~ (q + 1 <= q) /\ 0 <= q
  OBVIOUS
<1>4. S2[0] = x /\ M2[0] = m /\ S2[q + 1] = u /\ M2[q + 1] = b
  BY <1>2, <1>3
<1>5. \A r \in 0..(q + 1) : M2[r] \in 0..b
  <2>1. \A r \in 0..q : M[r] \in 0..b
    BY <1>0, <1>2
  <2>2. \A r \in 0..(q + 1) : r <= q => r \in 0..q
    OBVIOUS
  <2> QED
    BY <2>1, <2>2
<1>6. \A r \in 1..(q + 1) : Turn(w, p, S2[r - 1], M2[r - 1], S2[r], M2[r])
  <2> SUFFICES ASSUME NEW r \in 1..(q + 1) PROVE Turn(w, p, S2[r - 1], M2[r - 1], S2[r], M2[r])
    OBVIOUS
  <2>1. r - 1 \in 0..(q + 1) /\ r \in 0..(q + 1) /\ r - 1 <= q
    OBVIOUS
  <2>2. S2[r - 1] = S[r - 1] /\ M2[r - 1] = M[r - 1]
    BY <2>1
  <2>3. CASE r <= q
    <3>1. S2[r] = S[r] /\ M2[r] = M[r] /\ r \in 1..q
      BY <2>1, <2>3
    <3> HIDE DEF S2, M2
    <3> QED
      BY <1>2, <2>2, <3>1
  <2>4. CASE r = q + 1
    <3>1. S2[r] = u /\ M2[r] = b /\ r - 1 = q
      BY <2>1, <2>4, <1>3
    <3> HIDE DEF S2, M2
    <3>2. S[r - 1] = t /\ M[r - 1] = j
      BY <1>2, <3>1
    <3> QED
      BY <2>2, <3>1, <3>2
  <2> QED
    BY <2>3, <2>4
<1> HIDE DEF S2, M2
<1> QED
  BY <1>3, <1>4, <1>5, <1>6 DEF Chain

\* A tree, as what the loop makes of its first operand.
Spine(w, p, t, i, j) == \E m \in i..j : \E x \in Der(w, "prefix", i, m) : Chain(w, p, x, m, t, j)

\* A prefix expression is its own first operand.
LEMMA SpineOfPrefix ==
  ASSUME NEW w, NEW p, NEW i \in Nat, NEW j \in Nat, i <= j, NEW t \in Der(w, "prefix", i, j)
  PROVE  Spine(w, p, t, i, j)
<1>1. j \in i..j
  OBVIOUS
<1> QED
  BY <1>1, ChainOfNone DEF Spine

\* What the loop makes of the left operand, and one turn more.
LEMMA SpineOfBinary ==
  ASSUME NEW w, NEW p, NEW i \in Nat, NEW j \in Nat, NEW m \in (i + 1)..(j - 1), NEW l, Spine(w, p, l, i, m - 1),
         NEW t, Turn(w, p, l, m - 1, t, j)
  PROVE  Spine(w, p, t, i, j)
<1>1. m - 1 \in Nat /\ i..(m - 1) \subseteq i..j
  OBVIOUS
<1>2. PICK a \in i..(m - 1) : \E x \in Der(w, "prefix", i, a) : Chain(w, p, x, a, l, m - 1)
  BY DEF Spine
<1>4. PICK x \in Der(w, "prefix", i, a) : Chain(w, p, x, a, l, m - 1)
  BY <1>2
<1>3. Chain(w, p, x, a, t, j)
  BY <1>1, <1>4, ChainExtends
<1> QED
  BY <1>1, <1>3, <1>4 DEF Spine

\* A product is made from its first prefix expression by turns over "*".
LEMMA SpineOfProduct ==
  ASSUME NEW w \in Seq(Lexemes), NEW p \in {LOWEST, SUM}, NEW i \in 1..(Len(w) + 1)
  PROVE  \A j \in 0..Len(w) : \A t \in Der(w, "product", i, j) : Spine(w, p, t, i, j)
<1> DEFINE n == Len(w)
           Good(j) == \A t \in Der(w, "product", i, j) : Spine(w, p, t, i, j)
           B == { j \in 0..n : ~ Good(j) }
<1>0. n \in Nat
  OBVIOUS
<1> SUFFICES ASSUME B # {} PROVE FALSE
  OBVIOUS
<1>1. PICK j \in B : \A k \in B : j <= k
  <2>1. B \subseteq Nat
    OBVIOUS
  <2> HIDE DEF B
  <2> QED
    BY <2>1, Least
<1>2. PICK t \in Der(w, "product", i, j) : ~ Spine(w, p, t, i, j)
  BY <1>1
<1>3. /\ i <= j
      /\ t \in Der(w, "prefix", i, j) \/ Split(w, t, "product", {"*"}, "prefix", i, j)
  BY <1>1, <1>2, Productions
<1>4. t \notin Der(w, "prefix", i, j)
  BY <1>0, <1>1, <1>2, <1>3, SpineOfPrefix
<1>5. PICK m \in (i + 1)..(j - 1) :
        /\ w[m] = "*"
        /\ \E l \in Der(w, "product", i, m - 1) : \E r \in Der(w, "prefix", m + 1, j) : t = BinaryNode(w[m], l, r)
  BY <1>3, <1>4 DEF Split
<1>6. PICK l \in Der(w, "product", i, m - 1), r \in Der(w, "prefix", m + 1, j) : t = BinaryNode(w[m], l, r)
  BY <1>5
<1>7. m \in Int /\ m - 1 \in 0..n /\ ~ (j <= m - 1) /\ (m - 1) + 1 = m /\ (m - 1) + 2 = m + 1 /\ j \in (m + 1)..n
  BY <1>0, <1>1, <1>5
<1>8. Spine(w, p, l, i, m - 1)
  BY <1>1, <1>6, <1>7
<1>9. Turn(w, p, l, m - 1, t, j)
  <2>1. PeekPrecedence(w[m]) = PRODUCT /\ Lev(PRODUCT) = "prefix" /\ p < PRODUCT
    BY <1>5 DEF PeekPrecedence, Lev, LOWEST, SUM, PRODUCT
  <2>2. After(w, j) <= PRODUCT
    BY DEF After, PeekPrecedence, LOWEST, SUM, PRODUCT
  <2> QED
    BY <1>5, <1>6, <1>7, <2>1, <2>2 DEF Turn
<1> QED
  BY <1>0, <1>1, <1>2, <1>5, <1>8, <1>9, SpineOfBinary

\* A sum is made from its first prefix expression by turns over all three operators.
LEMMA SpineOfSum ==
  ASSUME NEW w \in Seq(Lexemes), NEW i \in 1..(Len(w) + 1)
  PROVE  \A j \in 0..Len(w) : \A t \in Der(w, "sum", i, j) : After(w, j) # PRODUCT => Spine(w, LOWEST, t, i, j)
<1> DEFINE n == Len(w)
           Good(j) == \A t \in Der(w, "sum", i, j) : After(w, j) # PRODUCT => Spine(w, LOWEST, t, i, j)
           B == { j \in 0..n : ~ Good(j) }
<1>0. n \in Nat
  OBVIOUS
<1> SUFFICES ASSUME B # {} PROVE FALSE
  OBVIOUS
<1>1. PICK j \in B : \A k \in B : j <= k
  <2>1. B \subseteq Nat
    OBVIOUS
  <2> HIDE DEF B
  <2> QED
    BY <2>1, Least
<1>2. PICK t \in Der(w, "sum", i, j) : After(w, j) # PRODUCT /\ ~ Spine(w, LOWEST, t, i, j)
  BY <1>1
<1>3. /\ i <= j
      /\ t \in Der(w, "product", i, j) \/ Split(w, t, "sum", {"+", "-"}, "product", i, j)
  BY <1>1, <1>2, Productions
<1>4. t \notin Der(w, "product", i, j)
  BY <1>0, <1>1, <1>2, <1>3, SpineOfProduct
<1>5. PICK m \in (i + 1)..(j - 1) :
        /\ w[m] \in {"+", "-"}
        /\ \E l \in Der(w, "sum", i, m - 1) : \E r \in Der(w, "product", m + 1, j) : t = BinaryNode(w[m], l, r)
  BY <1>3, <1>4 DEF Split
<1>6. PICK l \in Der(w, "sum", i, m - 1), r \in Der(w, "product", m + 1, j) : t = BinaryNode(w[m], l, r)
  BY <1>5
<1>7. m \in Int /\ m - 1 \in 0..n /\ ~ (j <= m - 1) /\ (m - 1) + 1 = m /\ (m - 1) + 2 = m + 1 /\ j \in (m + 1)..n
      /\ m <= n
  BY <1>0, <1>1, <1>5
<1>8. PeekPrecedence(w[m]) = SUM /\ Lev(SUM) = "product" /\ LOWEST < SUM
  BY <1>5 DEF PeekPrecedence, Lev, LOWEST, SUM, PRODUCT
<1>9. After(w, m - 1) # PRODUCT
  BY <1>7, <1>8 DEF After, SUM, PRODUCT
<1>10. Spine(w, LOWEST, l, i, m - 1)
  BY <1>1, <1>6, <1>7, <1>9
<1>11. Turn(w, LOWEST, l, m - 1, t, j)
  <2>1. After(w, j) <= SUM
    BY <1>2 DEF After, PeekPrecedence, LOWEST, SUM, PRODUCT
  <2> QED
    BY <1>5, <1>6, <1>7, <1>8, <2>1 DEF Turn
<1> QED
  BY <1>0, <1>1, <1>2, <1>5, <1>10, <1>11, SpineOfBinary

\* What a call of parser_parse_expression is to find begins with a prefix expression.
LEMMA SpineOfLevel ==
  ASSUME NEW w \in Seq(Lexemes), NEW p \in LOWEST..PREFIX, NEW i \in 1..(Len(w) + 1),
         NEW j \in 0..Len(w), NEW t \in Der(w, Lev(p), i, j), After(w, j) <= p
  PROVE  Spine(w, p, t, i, j)
<1>1. p \in {LOWEST, SUM, PRODUCT, PREFIX}
  BY DEF LOWEST, SUM, PRODUCT, PREFIX
<1>2. CASE p = LOWEST
  <2>1. Lev(p) = "sum" /\ After(w, j) # PRODUCT
    BY <1>2 DEF Lev, LOWEST, PRODUCT
  <2> QED
    BY <1>2, <2>1, SpineOfSum
<1>3. CASE p = SUM
  <2>1. Lev(p) = "product"
    BY <1>3 DEF Lev, LOWEST, SUM
  <2> QED
    BY <1>3, <2>1, SpineOfProduct
<1>4. CASE p \in {PRODUCT, PREFIX}
  <2>1. Lev(p) = "prefix"
    BY <1>4 DEF Lev, LOWEST, SUM, PRODUCT, PREFIX
  <2>2. i <= j
    BY <2>1, Productions
  <2> QED
    BY <2>1, <2>2, SpineOfPrefix
<1> QED
  BY <1>1, <1>2, <1>3, <1>4

-----------------------------------------------------------------------------
(***************************************************************************)
(* The tokens a parse stands on: curr is the lexeme c, and no unknown      *)
(* character has been met so far.                                          *)
(***************************************************************************)
Bad(w, k) == k <= Len(w) /\ w[k] = "bad"

\* The parser stands on the lexeme c, with the next one to peek at.
Place(c) ==
  /\ c \in 1..(Len(input) + 1)
  /\ curr = Tok(c) /\ peek = Tok(c + 1) /\ pos = Within(c + 2)
  /\ \A k \in 1..(c + 1) : ~ Bad(input, k)

\* The token at p, unless there is an unknown character.
LEMMA LexIs ==
  ASSUME input \in Seq(Lexemes), NEW p \in 1..(Len(input) + 2), NEW stale
  PROVE  /\ Bad(input, p) => Lex(Within(p), stale).err = E_UNKNOWN_TOKEN
         /\ ~ Bad(input, p) => /\ Lex(Within(p), stale).err = 0
                               /\ Lex(Within(p), stale).tok = Tok(p)
                               /\ Lex(Within(p), stale).pos = Within(p + 1)
<1>1. Len(input) \in Nat
  OBVIOUS
<1>2. CASE p > Len(input)
  <2>1. Within(p) = Len(input) + 1 /\ Within(p + 1) = Len(input) + 1 /\ Tok(p) = EOF /\ ~ Bad(input, p)
    BY <1>1, <1>2 DEF Within, Tok, Bad
  <2>2. Lex(Within(p), stale) = [err |-> 0, tok |-> EOF, pos |-> Len(input) + 1]
    BY <1>1, <2>1 DEF Lex
  <2> QED
    BY <2>1, <2>2
<1>3. CASE p <= Len(input) /\ input[p] = "bad"
  <2>1. Within(p) = p /\ Bad(input, p)
    BY <1>3 DEF Within, Bad
  <2>2. Lex(Within(p), stale) = [err |-> E_UNKNOWN_TOKEN, tok |-> stale, pos |-> p]
    BY <1>1, <1>3, <2>1 DEF Lex
  <2> QED
    BY <2>1, <2>2
<1>4. CASE p <= Len(input) /\ input[p] # "bad"
  <2>1. Within(p) = p /\ Within(p + 1) = p + 1 /\ ~ Bad(input, p)
    BY <1>1, <1>4 DEF Within, Bad
  <2>2. Lex(Within(p), stale) = [err |-> 0, tok |-> [t |-> TokenType(input[p]), at |-> p], pos |-> p + 1]
    BY <1>1, <1>4, <2>1 DEF Lex
  <2>3. Tok(p) = [t |-> TokenType(input[p]), at |-> p]
    BY <1>4 DEF Tok
  <2> QED
    BY <2>1, <2>2, <2>3
<1> QED
  BY <1>1, <1>2, <1>3, <1>4

\* A token more, and two.
LEMMA PlaceNext ==
  ASSUME input \in Seq(Lexemes), UNCHANGED input, NEW c, Place(c), c <= Len(input), NextToken
  PROVE  /\ Bad(input, c + 2) => Advance1.err = E_UNKNOWN_TOKEN
         /\ ~ Bad(input, c + 2) => Advance1.err = 0 /\ Place(c + 1)'
<1>1. Len(input) \in Nat /\ c \in 1..Len(input) /\ c + 2 \in 1..(Len(input) + 2) /\ pos = Within(c + 2)
  BY DEF Place
<1>2. Bad(input, c + 2) => Advance1.err = E_UNKNOWN_TOKEN
  BY <1>1, LexIs DEF Advance1
<1>3. ASSUME ~ Bad(input, c + 2)
      PROVE  Advance1.err = 0 /\ Place(c + 1)'
  <2>1. Advance1.err = 0 /\ Advance1.tok = Tok(c + 2) /\ Advance1.pos = Within(c + 2 + 1)
    BY <1>1, <1>3, LexIs DEF Advance1
  <2>2. c + 1 \in 1..(Len(input) + 1) /\ (c + 1) + 1 = c + 2 /\ (c + 1) + 2 = c + 2 + 1
    BY <1>1
  <2>3. \A k \in 1..(c + 2) : ~ Bad(input, k)
    <3>1. \A k \in 1..(c + 2) : k \in 1..(c + 1) \/ k = c + 2
      BY <1>1
    <3> QED
      BY <1>3, <3>1 DEF Place
  <2>4. curr' = Tok(c + 1) /\ peek' = Tok(c + 2) /\ pos' = Within(c + 2 + 1)
    BY <2>1 DEF NextToken, Place
  <2> QED
    BY <2>1, <2>2, <2>3, <2>4 DEF Place, Tok, Within
<1> QED
  BY <1>2, <1>3

\* Two tokens more.
LEMMA PlaceNextTwice ==
  ASSUME input \in Seq(Lexemes), UNCHANGED input, NEW c, Place(c), c + 1 <= Len(input), NextTokenTwice
  PROVE  /\ Bad(input, c + 2) \/ Bad(input, c + 3) =>
              Advance1.err = E_UNKNOWN_TOKEN \/ Advance2.err = E_UNKNOWN_TOKEN
         /\ ~ Bad(input, c + 2) /\ ~ Bad(input, c + 3) =>
              Advance1.err = 0 /\ Advance2.err = 0 /\ Place(c + 2)'
<1>1. Len(input) \in Nat /\ c \in 1..Len(input) /\ c + 2 \in 1..(Len(input) + 2)
      /\ c + 3 \in 1..(Len(input) + 2) /\ pos = Within(c + 2)
  BY DEF Place
<1>2. Bad(input, c + 2) => Advance1.err = E_UNKNOWN_TOKEN
  BY <1>1, LexIs DEF Advance1
<1>3. ASSUME ~ Bad(input, c + 2)
      PROVE  /\ Bad(input, c + 3) => Advance2.err = E_UNKNOWN_TOKEN
             /\ ~ Bad(input, c + 3) => Advance1.err = 0 /\ Advance2.err = 0 /\ Place(c + 2)'
  <2>1. Advance1.err = 0 /\ Advance1.tok = Tok(c + 2) /\ Advance1.pos = Within(c + 2 + 1)
    BY <1>1, <1>3, LexIs DEF Advance1
  <2>2. c + 2 + 1 = c + 3 /\ (c + 2) + 2 = c + 3 + 1
    BY <1>1
  <2>3. Bad(input, c + 3) => Advance2.err = E_UNKNOWN_TOKEN
    BY <1>1, <2>1, <2>2, LexIs DEF Advance2
  <2>4. ASSUME ~ Bad(input, c + 3)
        PROVE  Advance2.err = 0 /\ Place(c + 2)'
    <3>1. Advance2.err = 0 /\ Advance2.tok = Tok(c + 3) /\ Advance2.pos = Within(c + 3 + 1)
      BY <1>1, <2>1, <2>2, <2>4, LexIs DEF Advance2
    <3>2. \A k \in 1..(c + 3) : ~ Bad(input, k)
      <4>1. \A k \in 1..(c + 3) : k \in 1..(c + 1) \/ k = c + 2 \/ k = c + 3
        BY <1>1
      <4> QED
        BY <1>3, <2>4, <4>1 DEF Place
    <3>3. curr' = Tok(c + 2) /\ peek' = Tok(c + 3) /\ pos' = Within(c + 3 + 1)
      BY <2>1, <3>1 DEF NextTokenTwice
    <3>4. c + 2 \in 1..(Len(input) + 1)
      BY <1>1
    <3> QED
      BY <2>2, <3>1, <3>2, <3>3, <3>4 DEF Place, Tok, Within
  <2> QED
    BY <2>1, <2>3, <2>4
<1> QED
  BY <1>2, <1>3

\* Nothing is read.
LEMMA PlaceStays ==
  ASSUME NEW c, Place(c), UNCHANGED <<input, pos, curr, peek>>
  PROVE  Place(c)'
BY DEF Place, Tok, Within

\* What the parser sees of the next lexeme.
LEMMA PlaceSees ==
  ASSUME input \in Seq(Lexemes), NEW c, Place(c), prec \in LOWEST..PREFIX
  PROVE  /\ c <= Len(input) => curr.at = c /\ curr.t = TokenType(input[c])
         /\ c <= Len(input) => (curr.t = "num" <=> input[c] \in {"num", "big"})
         /\ \A op \in {"+", "-", "*", "(", ")"} : curr.t = op <=> c <= Len(input) /\ input[c] = op
         /\ \A op \in {"+", "-", "*", "(", ")"} : peek.t = op <=> c + 1 <= Len(input) /\ input[c + 1] = op
         /\ LoopGoesOn <=> prec < After(input, c)
         /\ LoopGoesOn => /\ c + 1 <= Len(input) /\ peek.t = input[c + 1]
                          /\ input[c + 1] \in {"+", "-", "*"}
                          /\ After(input, c) = PeekPrecedence(input[c + 1])
<1>1. Len(input) \in Nat /\ c \in 1..(Len(input) + 1) /\ \A k \in 1..Len(input) : input[k] \in Lexemes
  BY DEF Place
<1>2. c <= Len(input) => curr = [t |-> TokenType(input[c]), at |-> c]
  BY DEF Place, Tok
<1>3. ~ (c <= Len(input)) => curr.t = "eof"
  BY DEF Place, Tok, EOF
<1>4. c + 1 <= Len(input) => peek = [t |-> TokenType(input[c + 1]), at |-> c + 1]
  BY DEF Place, Tok
<1>5. ~ (c + 1 <= Len(input)) => peek.t = "eof"
  BY DEF Place, Tok, EOF
<1>6. c <= Len(input) => (curr.t = "num" <=> input[c] \in {"num", "big"})
  BY <1>1, <1>2 DEF TokenType, Lexemes
<1>7. \A op \in {"+", "-", "*", "(", ")"} : curr.t = op <=> c <= Len(input) /\ input[c] = op
  BY <1>1, <1>2, <1>3 DEF TokenType
<1>8. \A op \in {"+", "-", "*", "(", ")"} : peek.t = op <=> c + 1 <= Len(input) /\ input[c + 1] = op
  BY <1>1, <1>4, <1>5 DEF TokenType
<1>9. CASE c + 1 <= Len(input)
  <2>1. /\ PeekPrecedence(peek.t) = PeekPrecedence(input[c + 1]) /\ peek.t # "eof"
        /\ PeekPrecedence(input[c + 1]) > LOWEST => input[c + 1] \in {"+", "-", "*"} /\ peek.t = input[c + 1]
    BY <1>1, <1>4, <1>9 DEF PeekPrecedence, TokenType, Lexemes, LOWEST, SUM, PRODUCT
  <2>2. After(input, c) = PeekPrecedence(input[c + 1])
    BY <1>9 DEF After
  <2>3. prec < PeekPrecedence(input[c + 1]) => PeekPrecedence(input[c + 1]) > LOWEST
    BY DEF PeekPrecedence, LOWEST, SUM, PRODUCT, PREFIX
  <2> QED
    BY <1>2, <1>6, <1>7, <1>8, <1>9, <2>1, <2>2, <2>3 DEF LoopGoesOn
<1>10. CASE ~ (c + 1 <= Len(input))
  <2>1. After(input, c) = LOWEST /\ ~ LoopGoesOn /\ ~ (prec < LOWEST)
    BY <1>5, <1>10 DEF After, LoopGoesOn, LOWEST, PREFIX
  <2> QED
    BY <1>2, <1>6, <1>7, <1>8, <2>1
<1> QED
  BY <1>9, <1>10

-----------------------------------------------------------------------------
(***************************************************************************)
(* The tree t of the first k lexemes, as a parse that finds it goes.  Each *)
(* running parser_parse_expression has a goal: a tree and where it ends.   *)
(* g[1] is that of the outermost.  A frame leads from the goal b of the    *)
(* call it made to the goal a of its own.                                  *)
(***************************************************************************)
Link(w, f, a, b) ==
  \/ f.fn = "unary" /\ Chain(w, f.prec, UnaryNode(f.op, b.tree), b.end, a.tree, a.end)
  \/ /\ f.fn = "group" /\ b.end + 1 <= Len(w) /\ w[b.end + 1] = ")"
     /\ Chain(w, f.prec, b.tree, b.end + 1, a.tree, a.end)
  \/ f.fn = "binary" /\ Chain(w, f.prec, BinaryNode(f.op, f.left, b.tree), b.end, a.tree, a.end)

\* The goals g of all that runs: the outermost one is t, which ends at k, and none ends before an
\* operator its call would go on with.
Goals(w, k, t, g, s, p) ==
  /\ g[1].end = k /\ g[1].tree = t
  /\ \A e \in 1..(Len(s) + 1) : g[e].end \in 1..k
  /\ \A e \in 1..Len(s) : After(w, g[e].end) <= s[e].prec /\ Link(w, s[e], g[e], g[e + 1])
  /\ After(w, g[Len(s) + 1].end) <= p

\* The innermost goal, from the lexeme c.
Ahead(w, m, p, c, r, a) ==
  /\ m = "call" => a.tree \in Der(w, Lev(p), c, a.end)
  /\ m = "loop" => r.err = 0 /\ Chain(w, p, r.tree, c, a.tree, a.end)
  /\ m = "return" => r.err = 0 /\ r.tree = a.tree /\ c = a.end

\* A parse that finds t: no error, and from where it stands it builds the trees that are left.
OnTrack(k, t) ==
  \/ mode = "overflow"
  \/ mode = "start" /\ prec = LOWEST /\ dropped = {}
  \/ mode = "done" /\ ret.err = 0 /\ ret.tree = t /\ dropped = {}
  \/ /\ mode \in {"call", "loop", "return"} /\ dropped = {}
     /\ \E c, g : /\ Place(c) /\ Goals(input, k, t, g, stack, prec)
                  /\ Ahead(input, mode, prec, c, ret, g[Len(stack) + 1])

\* t is a tree of the first k lexemes, and the parser has to stop behind them.
Expected(w, k, t) ==
  /\ k \in 1..Len(w) /\ t \in Der(w, "sum", 1, k)
  /\ k < Len(w) => w[k + 1] \notin {"+", "-", "*", "bad"}

\* No unknown character is met on the way.
LEMMA ExpectedIsClean ==
  ASSUME NEW w \in Seq(Lexemes), NEW k, NEW t, Expected(w, k, t)
  PROVE  After(w, k) <= LOWEST /\ \A i \in 1..(k + 1) : ~ Bad(w, i)
<1>1. Len(w) \in Nat /\ k \in 1..Len(w) /\ 1 \in 1..(Len(w) + 1) /\ k \in 0..Len(w) /\ "sum" \in Levels
  BY DEF Expected, Levels
<1>2. \A i \in 1..k : w[i] # "bad"
  BY <1>1, SpansAreClean DEF Expected
<1>3. \A i \in 1..(k + 1) : i \in 1..k \/ i = k + 1
  BY <1>1
<1>4. k + 1 <= Len(w) => k < Len(w)
  BY <1>1
<1>5. After(w, k) <= LOWEST
  BY <1>1, <1>4 DEF Expected, After, PeekPrecedence, LOWEST
<1> QED
  BY <1>2, <1>3, <1>4, <1>5 DEF Bad, Expected

\* A call with a goal of its own.
LEMMA GoalsPush ==
  ASSUME NEW w, NEW k \in Nat, NEW t, NEW g, NEW s, IsSeq(s), NEW p, Goals(w, k, t, g, s, p),
         NEW f, f.prec = p, NEW h, h.end \in 1..k, Link(w, f, g[Len(s) + 1], h)
  PROVE  \E g2 : /\ g2[Len(s) + 2] = h
                 /\ \A q : After(w, h.end) <= q => Goals(w, k, t, g2, Append(s, f), q)
<1> DEFINE n == Len(s)
           g2 == [e \in 1..(n + 2) |-> IF e <= n + 1 THEN g[e] ELSE h]
<1>1. /\ n \in Nat /\ Len(Append(s, f)) = n + 1 /\ Append(s, f)[n + 1] = f
      /\ \A e \in 1..n : Append(s, f)[e] = s[e]
  BY IsSeqAppend
<1> HIDE DEF n
<1>2. g2[n + 2] = h /\ \A e \in 1..(n + 1) : g2[e] = g[e]
  BY <1>1
<1>3. (n + 1) + 1 = n + 2 /\ 1 \in 1..(n + 1) /\ n + 1 \in 1..(n + 1)
  BY <1>1
<1> HIDE DEF g2
<1>4. g2[1].end = k /\ g2[1].tree = t
  BY <1>2, <1>3 DEF Goals
<1>5. \A e \in 1..(n + 2) : g2[e].end \in 1..k
  <2>1. \A e \in 1..(n + 2) : e \in 1..(n + 1) \/ e = n + 2
    BY <1>1
  <2> QED
    BY <1>2, <2>1 DEF Goals, n
<1>6. ASSUME NEW e \in 1..(n + 1)
      PROVE  After(w, g2[e].end) <= Append(s, f)[e].prec /\ Link(w, Append(s, f)[e], g2[e], g2[e + 1])
  <2>1. CASE e \in 1..n
    <3>1. e + 1 \in 1..(n + 1)
      BY <1>1, <2>1
    <3> QED
      BY <1>1, <1>2, <2>1, <3>1 DEF Goals, n
  <2>2. CASE e = n + 1
    BY <1>1, <1>2, <1>3, <2>2 DEF Goals, n
  <2> QED
    BY <1>1, <2>1, <2>2
<1>8. \A q : After(w, h.end) <= q => Goals(w, k, t, g2, Append(s, f), q)
  BY <1>1, <1>2, <1>3, <1>4, <1>5, <1>6 DEF Goals
<1> QED
  BY <1>2, <1>8 DEF n

\* The innermost call has returned.
LEMMA GoalsPop ==
  ASSUME NEW w, NEW k \in Nat, NEW t, NEW g, NEW s, IsSeq(s), s # <<>>, NEW p, Goals(w, k, t, g, s, p)
  PROVE  /\ Len(s) \in Nat /\ Len(SubSeq(s, 1, Len(s) - 1)) + 1 = Len(s)
         /\ Goals(w, k, t, g, SubSeq(s, 1, Len(s) - 1), s[Len(s)].prec)
         /\ Link(w, s[Len(s)], g[Len(s)], g[Len(s) + 1])
<1> DEFINE n == Len(s)
<1>1. /\ n \in Nat \ {0} /\ Len(Front(s)) = n - 1
      /\ \A e \in 1..(n - 1) : Front(s)[e] = s[e]
  BY IsSeqFront
<1> HIDE DEF n
<1>2. (n - 1) + 1 = n /\ n \in 1..n /\ (\A e \in 1..(n - 1) : e \in 1..n)
      /\ (\A e \in 1..n : e \in 1..(n + 1))
  BY <1>1
<1>3. Goals(w, k, t, g, Front(s), s[n].prec)
  <2>1. \A e \in 1..n : g[e].end \in 1..k
    BY <1>2 DEF Goals, n
  <2>2. \A e \in 1..(n - 1) : After(w, g[e].end) <= Front(s)[e].prec /\ Link(w, Front(s)[e], g[e], g[e + 1])
    BY <1>1, <1>2 DEF Goals, n
  <2>3. After(w, g[n].end) <= s[n].prec
    BY <1>2 DEF Goals, n
  <2> QED
    BY <1>1, <1>2, <2>1, <2>2, <2>3 DEF Goals
<1> QED
  BY <1>1, <1>2, <1>3 DEF Goals, n, Front

-----------------------------------------------------------------------------
\* A call of parser_parse_expression(q) for the goal h, from the lexeme c.
LEMMA TrackCalls ==
  ASSUME ParserInv, NEW k \in Nat, NEW t, NEW g, Goals(input, k, t, g, stack, prec),
         NEW f, f.prec = prec, NEW q, Call(f, q), UNCHANGED <<input, dropped>>, dropped = {},
         NEW h, h.end \in 1..k, Link(input, f, g[Len(stack) + 1], h), After(input, h.end) <= q,
         NEW c, Place(c)', h.tree \in Der(input, Lev(q), c, h.end)
  PROVE  OnTrack(k, t)'
<1>1. IsSeq(stack)
  BY DEF ParserInv, StateOK, FramesOK
<1>2. CASE Len(stack) < MaxFrames
  <2>1. stack' = Append(stack, f) /\ mode' = "call" /\ prec' = q
    BY <1>2 DEF Call
  <2>2. PICK g2 : Goals(input, k, t, g2, Append(stack, f), q) /\ g2[Len(stack) + 2] = h
    <3>1. PICK g2 : /\ g2[Len(stack) + 2] = h
                    /\ \A r : After(input, h.end) <= r => Goals(input, k, t, g2, Append(stack, f), r)
      BY <1>1, GoalsPush
    <3> QED
      BY <3>1
  <2>3. Len(Append(stack, f)) + 1 = Len(stack) + 2
    BY <1>1, IsSeqAppend
  <2>4. Ahead(input', mode', prec', c, ret', g2[Len(stack') + 1])
    BY <2>1, <2>2, <2>3 DEF Ahead
  <2>5. Goals(input', k, t, g2, stack', prec')
    BY <2>1, <2>2
  <2> QED
    BY <2>1, <2>4, <2>5 DEF OnTrack
<1>3. CASE ~ (Len(stack) < MaxFrames)
  BY <1>3 DEF Call, OnTrack
<1> QED
  BY <1>2, <1>3

\* An operand is there, in the frame the call was made from.
LEMMA TrackReturns ==
  ASSUME ParserInv, NEW k \in Nat, NEW t, NEW g, Goals(input, k, t, g, stack, prec), stack # <<>>,
         UNCHANGED <<input, dropped>>, dropped = {}, stack' = SubSeq(stack, 1, Len(stack) - 1),
         NEW tree, Finish(stack[Len(stack)].prec, 0, tree),
         NEW c, Place(c)',
         Chain(input, stack[Len(stack)].prec, tree, c, g[Len(stack)].tree, g[Len(stack)].end)
  PROVE  OnTrack(k, t)'
<1>1. IsSeq(stack)
  BY DEF ParserInv, StateOK, FramesOK
<1>2. Len(stack') + 1 = Len(stack) /\ Goals(input, k, t, g, stack', stack[Len(stack)].prec)
  BY <1>1, GoalsPop
<1>3. mode' = "loop" /\ prec' = stack[Len(stack)].prec /\ ret'.err = 0 /\ ret'.tree = tree
  BY DEF Finish
<1>4. Goals(input', k, t, g, stack', prec')
  BY <1>2, <1>3
<1>5. Ahead(input', mode', prec', c, ret', g[Len(stack') + 1])
  BY <1>2, <1>3 DEF Ahead
<1> QED
  BY <1>3, <1>4, <1>5 DEF OnTrack

\* parser_init, with at least a lexeme and no unknown character behind it.
LEMMA TrackStarts ==
  ASSUME ParserInv, NEW k, NEW t, Expected(input, k, t), ~ (debug /\ HasBad), OnTrack(k, t), ParserInit
  PROVE  OnTrack(k, t)'
<1>1. mode = "start" /\ prec = LOWEST /\ dropped = {} /\ stack = <<>> /\ pos = 1 /\ Len(stack) = 0
  BY DEF ParserInit, OnTrack, ParserInv
<1>2. UNCHANGED <<input, stack, prec, dropped>> /\ input \in Seq(Lexemes) /\ Len(input) \in Nat
  BY DEF ParserInit, ParserInv
<1>3. k \in 1..Len(input) /\ t \in Der(input, "sum", 1, k)
  BY DEF Expected
<1>4. After(input, k) <= LOWEST /\ \A i \in 1..(k + 1) : ~ Bad(input, i)
  BY <1>2, ExpectedIsClean
<1>5. 1 \in 1..(k + 1) /\ 2 \in 1..(k + 1) /\ 1 \in 1..(Len(input) + 2) /\ 2 \in 1..(Len(input) + 2)
      /\ 1 + 1 = 2 /\ 2 + 1 = 3 /\ 1 + 2 = 3 /\ 1 \in 1..k /\ 0 + 1 = 1
  BY <1>2, <1>3
<1>6. ~ Bad(input, 1) /\ ~ Bad(input, 2)
  BY <1>4, <1>5
<1>7. Within(1) = 1
  BY <1>2, <1>3 DEF Within
<1>8. Advance1.err = 0 /\ Advance1.tok = Tok(1) /\ Advance1.pos = Within(2)
  BY <1>1, <1>2, <1>5, <1>6, <1>7, LexIs DEF Advance1
<1>9. Advance2.err = 0 /\ Advance2.tok = Tok(2) /\ Advance2.pos = Within(3)
  BY <1>2, <1>5, <1>6, <1>8, LexIs DEF Advance2
<1>10. NextTokenTwice /\ mode' = "call" /\ UNCHANGED ret
  BY <1>8, <1>9 DEF ParserInit, HasBad
<1>11. Place(1)'
  <2>1. curr' = Tok(1) /\ peek' = Tok(1 + 1) /\ pos' = Within(1 + 2)
    BY <1>5, <1>8, <1>9, <1>10 DEF NextTokenTwice
  <2>2. \A i \in 1..(1 + 1) : ~ Bad(input, i)
    BY <1>6
  <2> QED
    BY <1>2, <2>1, <2>2 DEF Place, Tok, Within
<1> DEFINE g == [e \in 1..1 |-> [end |-> k, tree |-> t]]
<1>12. g[1].end = k /\ g[1].tree = t
  OBVIOUS
<1> HIDE DEF g
<1>13. Goals(input', k, t, g, stack', prec')
  <2>1. \A e \in 1..(0 + 1) : e = 1
    OBVIOUS
  <2>2. \A e \in 1..0 : FALSE
    OBVIOUS
  <2>3. k \in 1..k
    BY <1>3
  <2> QED
    BY <1>1, <1>2, <1>4, <1>5, <1>12, <2>1, <2>2, <2>3 DEF Goals
<1>14. Ahead(input', mode', prec', 1, ret', g[Len(stack') + 1])
  <2>1. Lev(LOWEST) = "sum"
    BY DEF Lev
  <2> QED
    BY <1>1, <1>2, <1>3, <1>5, <1>10, <1>12, <2>1 DEF Ahead
<1> QED
  BY <1>1, <1>2, <1>10, <1>11, <1>13, <1>14 DEF OnTrack

\* What is next in a call: the prefix expression the goal begins with.
LEMMA TrackPrefix ==
  ASSUME ParserInv, NEW k, NEW t, Expected(input, k, t), OnTrack(k, t), mode = "call",
         NoPrefixFunction \/ ParseNumericLiteral \/ ParseUnary \/ ParseGrouped
  PROVE  OnTrack(k, t)'
<1> DEFINE d == Len(stack) + 1
<1>1. dropped = {}
  BY DEF OnTrack
<1>2. PICK c, g : /\ Place(c) /\ Goals(input, k, t, g, stack, prec)
                  /\ Ahead(input, mode, prec, c, ret, g[d])
  BY DEF OnTrack
<1> DEFINE a == g[d]
<1>3. UNCHANGED <<input, debug>> /\ input \in Seq(Lexemes) /\ Len(input) \in Nat /\ prec \in LOWEST..PREFIX
  BY DEF NoPrefixFunction, ParseNumericLiteral, ParseUnary, ParseGrouped, ParserInv, StateOK
<1>4. k \in 1..Len(input) /\ k \in Nat /\ \A i \in 1..(k + 1) : ~ Bad(input, i)
  BY <1>3, ExpectedIsClean DEF Expected
<1>5. Len(stack) \in Nat
  BY DEF ParserInv, StateOK, FramesOK, IsSeq
<1>6. a.end \in 1..k /\ After(input, a.end) <= prec
  BY <1>2, <1>5 DEF Goals
<1>7. a.tree \in Der(input, Lev(prec), c, a.end) /\ c \in 1..(Len(input) + 1)
  BY <1>2 DEF Ahead, Place
<1> HIDE DEF a
<1>8. a.end \in 0..Len(input) /\ a.end <= k
  BY <1>4, <1>6
<1>9. Spine(input, prec, a.tree, c, a.end)
  BY <1>3, <1>6, <1>7, <1>8, SpineOfLevel
<1>10. PICK m \in c..a.end : \E x \in Der(input, "prefix", c, m) : Chain(input, prec, x, m, a.tree, a.end)
  BY <1>9 DEF Spine
<1>11. PICK x \in Der(input, "prefix", c, m) : Chain(input, prec, x, m, a.tree, a.end)
  BY <1>10
<1>12. m \in 0..Len(input) /\ m \in 1..k /\ c <= m /\ c <= Len(input) /\ c \in Nat
  BY <1>4, <1>6, <1>7, <1>8, <1>10
<1>13. \/ input[c] = "num" /\ c = m /\ x = Literal(c)
       \/ input[c] \in {"+", "-"} /\ \E v \in Der(input, "prefix", c + 1, m) : x = UnaryNode(input[c], v)
       \/ input[c] = "(" /\ input[m] = ")" /\ x \in Der(input, "sum", c + 1, m - 1)
  BY <1>3, <1>7, <1>11, <1>12, Productions
<1>14. /\ curr.at = c
       /\ curr.t = "num" <=> input[c] \in {"num", "big"}
       /\ \A op \in {"+", "-", "*", "(", ")"} : curr.t = op <=> input[c] = op
  BY <1>2, <1>3, <1>12, PlaceSees
<1>15. CASE input[c] = "num" /\ c = m /\ x = Literal(c)
  <2>1. ParseNumericLiteral
    BY <1>14, <1>15 DEF NoPrefixFunction, ParseUnary, ParseGrouped
  <2>2. Finish(prec, 0, Literal(c)) /\ UNCHANGED <<input, debug, pos, curr, peek, stack, dropped>>
    BY <1>14, <1>15, <2>1 DEF ParseNumericLiteral
  <2>3. Place(c)'
    BY <1>2, <2>2, PlaceStays
  <2>4. mode' = "loop" /\ prec' = prec /\ ret'.err = 0 /\ ret'.tree = Literal(c)
    BY <2>2 DEF Finish
  <2>5. Goals(input', k, t, g, stack', prec')
    BY <1>2, <2>2, <2>4
  <2>6. Ahead(input', mode', prec', c, ret', g[Len(stack') + 1])
    BY <1>11, <1>15, <2>2, <2>4 DEF Ahead, a
  <2> QED
    BY <1>1, <2>2, <2>3, <2>4, <2>5, <2>6 DEF OnTrack
<1>16. CASE input[c] \in {"+", "-"} /\ \E v \in Der(input, "prefix", c + 1, m) : x = UnaryNode(input[c], v)
  <2>1. PICK v \in Der(input, "prefix", c + 1, m) : x = UnaryNode(input[c], v)
    BY <1>16
  <2>2. ParseUnary /\ curr.t = input[c]
    BY <1>14, <1>16 DEF NoPrefixFunction, ParseNumericLiteral, ParseGrouped
  <2>3. c + 1 <= m
    BY <1>3, <1>12, <2>1, Productions
  <2>4. ~ Bad(input, c + 2)
    BY <1>4, <1>12, <2>3
  <2>5. NextToken /\ UNCHANGED dropped
    BY <2>2 DEF ParseUnary
  <2>6. Advance1.err = 0 /\ Place(c + 1)'
    BY <1>2, <1>3, <1>12, <2>4, <2>5, PlaceNext
  <2> DEFINE f == [fn |-> "unary", op |-> curr.t, prec |-> prec, left |-> Junk]
             h == [end |-> m, tree |-> v]
  <2>7. Call(f, PREFIX)
    BY <2>2, <2>6 DEF ParseUnary
  <2>8. f.fn = "unary" /\ f.op = input[c] /\ f.prec = prec /\ h.end = m /\ h.tree = v
    BY <2>2
  <2> HIDE DEF f, h
  <2>9. Link(input, f, a, h)
    BY <1>11, <2>1, <2>8 DEF Link
  <2>10. After(input, h.end) <= PREFIX /\ Lev(PREFIX) = "prefix"
    BY DEF After, PeekPrecedence, Lev, LOWEST, SUM, PRODUCT, PREFIX
  <2> QED
    BY <1>1, <1>2, <1>3, <1>4, <1>12, <2>1, <2>5, <2>6, <2>7, <2>8, <2>9, <2>10, TrackCalls DEF a
<1>17. CASE input[c] = "(" /\ input[m] = ")" /\ x \in Der(input, "sum", c + 1, m - 1)
  <2>2. ParseGrouped
    BY <1>14, <1>17 DEF NoPrefixFunction, ParseNumericLiteral, ParseUnary
  <2>1. c + 1 <= m - 1 /\ m - 1 \in 1..k /\ (m - 1) + 1 = m
    <3>1. c + 1 \in 1..(Len(input) + 1) /\ m - 1 \in 0..Len(input)
      BY <1>12
    <3>2. c + 1 <= m - 1
      BY <1>3, <1>17, <3>1, Productions
    <3> QED
      BY <1>4, <1>12, <3>2
  <2>4. ~ Bad(input, c + 2)
    BY <1>4, <1>12, <2>1
  <2>5. NextToken
    BY <2>2 DEF ParseGrouped
  <2>6. Advance1.err = 0 /\ Place(c + 1)'
    BY <1>2, <1>3, <1>12, <2>4, <2>5, PlaceNext
  <2> DEFINE f == [fn |-> "group", op |-> "(", prec |-> prec, left |-> Junk]
             h == [end |-> m - 1, tree |-> x]
  <2>7. Call(f, LOWEST) /\ UNCHANGED dropped
    BY <2>2, <2>6 DEF ParseGrouped, LexerError, E_UNKNOWN_TOKEN
  <2>8. f.fn = "group" /\ f.prec = prec /\ h.end = m - 1 /\ h.tree = x
    OBVIOUS
  <2> HIDE DEF f, h
  <2>9. Link(input, f, a, h)
    BY <1>11, <1>12, <1>17, <2>1, <2>8 DEF Link
  <2>10. After(input, h.end) <= LOWEST /\ Lev(LOWEST) = "sum"
    BY <1>17, <2>1, <2>8 DEF After, PeekPrecedence, Lev, LOWEST
  <2> QED
    BY <1>1, <1>2, <1>3, <1>4, <1>17, <2>1, <2>6, <2>7, <2>8, <2>9, <2>10, TrackCalls DEF a
<1> QED
  BY <1>13, <1>15, <1>16, <1>17

-----------------------------------------------------------------------------
\* What is next in the loop: a turn, or the goal has been reached.
LEMMA TrackLoop ==
  ASSUME ParserInv, NEW k, NEW t, Expected(input, k, t), OnTrack(k, t), mode = "loop",
         ParseInfix \/ LoopEnds
  PROVE  OnTrack(k, t)'
<1> DEFINE d == Len(stack) + 1
<1>1. dropped = {}
  BY DEF OnTrack
<1>2. PICK c, g : /\ Place(c) /\ Goals(input, k, t, g, stack, prec)
                  /\ Ahead(input, mode, prec, c, ret, g[d])
  BY DEF OnTrack
<1> DEFINE a == g[d]
<1>3. UNCHANGED <<input, debug>> /\ input \in Seq(Lexemes) /\ Len(input) \in Nat /\ prec \in LOWEST..PREFIX
  BY DEF ParseInfix, LoopEnds, ParserInv, StateOK
<1>4. k \in 1..Len(input) /\ k \in Nat /\ \A i \in 1..(k + 1) : ~ Bad(input, i)
  BY <1>3, ExpectedIsClean DEF Expected
<1>5. Len(stack) \in Nat
  BY DEF ParserInv, StateOK, FramesOK, IsSeq
<1>6. a.end \in 1..k /\ After(input, a.end) <= prec
  BY <1>2, <1>5 DEF Goals
<1>7. ret.err = 0 /\ Chain(input, prec, ret.tree, c, a.tree, a.end) /\ c \in 1..(Len(input) + 1)
  BY <1>2 DEF Ahead, Place
<1> HIDE DEF a
<1>8. a.end \in Nat /\ a.end <= k
  BY <1>4, <1>6
<1>9. /\ c \in 0..a.end
      /\ \/ ret.tree = a.tree /\ c = a.end
         \/ \E y : \E b \in 0..a.end :
              Turn(input, prec, ret.tree, c, y, b) /\ Chain(input, prec, y, b, a.tree, a.end)
  BY <1>7, <1>8, ChainUnfolds
<1>10. /\ LoopGoesOn <=> prec < After(input, c)
       /\ LoopGoesOn => peek.t = input[c + 1]
  BY <1>2, <1>3, PlaceSees
<1>11. CASE ret.tree = a.tree /\ c = a.end
  <2>1. ~ LoopGoesOn
    <3>1. After(input, c) \in Int
      BY DEF After, PeekPrecedence, LOWEST, SUM, PRODUCT
    <3>2. prec \in Int
      BY <1>3 DEF LOWEST, PREFIX
    <3> QED
      BY <1>6, <1>10, <1>11, <3>1, <3>2
  <2>2. LoopEnds
    BY <2>1 DEF ParseInfix
  <2>3. mode' = "return" /\ ret'.err = 0 /\ ret'.tree = ret.tree
        /\ UNCHANGED <<input, pos, curr, peek, stack, prec, dropped>>
    BY <1>7, <2>2 DEF LoopEnds, Return
  <2>4. Place(c)'
    BY <1>2, <2>3, PlaceStays
  <2>5. Goals(input', k, t, g, stack', prec')
    BY <1>2, <2>3
  <2>6. Ahead(input', mode', prec', c, ret', g[Len(stack') + 1])
    BY <1>11, <2>3 DEF Ahead, a
  <2> QED
    BY <1>1, <2>3, <2>4, <2>5, <2>6 DEF OnTrack
<1>12. CASE \E y : \E b \in 0..a.end :
              Turn(input, prec, ret.tree, c, y, b) /\ Chain(input, prec, y, b, a.tree, a.end)
  <2>1. PICK y : \E b \in 0..a.end :
              Turn(input, prec, ret.tree, c, y, b) /\ Chain(input, prec, y, b, a.tree, a.end)
    BY <1>12
  <2>2. PICK b \in 0..a.end :
              Turn(input, prec, ret.tree, c, y, b) /\ Chain(input, prec, y, b, a.tree, a.end)
    BY <2>1
  <2> DEFINE q == PeekPrecedence(input[c + 1])
  <2>3. /\ b \in (c + 2)..Len(input)
        /\ input[c + 1] \in {"+", "-", "*"}
        /\ prec < q
        /\ After(input, b) <= q
        /\ \E z \in Der(input, Lev(q), c + 2, b) : y = BinaryNode(input[c + 1], ret.tree, z)
    BY <2>2 DEF Turn
  <2>4. PICK z \in Der(input, Lev(q), c + 2, b) : y = BinaryNode(input[c + 1], ret.tree, z)
    BY <2>3
  <2>5. c \in Nat /\ c >= 1 /\ b \in 1..k /\ c + 1 <= Len(input) /\ c + 2 \in 1..(k + 1) /\ c + 3 \in 1..(k + 1)
    BY <1>4, <1>7, <1>8, <2>2, <2>3
  <2>6. After(input, c) = q
    BY <2>5 DEF After
  <2>7. LoopGoesOn /\ peek.t = input[c + 1]
    BY <1>10, <2>3, <2>6
  <2>8. ParseInfix
    BY <2>7 DEF LoopEnds
  <2>9. NextTokenTwice
    BY <2>8 DEF ParseInfix
  <2>10. ~ Bad(input, c + 2) /\ ~ Bad(input, c + 3)
    BY <1>4, <2>5
  <2>11. Advance1.err = 0 /\ Advance2.err = 0 /\ Place(c + 2)'
    BY <1>2, <1>3, <2>5, <2>9, <2>10, PlaceNextTwice
  <2> DEFINE f == [fn |-> "binary", op |-> peek.t, prec |-> prec, left |-> ret.tree]
             h == [end |-> b, tree |-> z]
  <2>12. Call(f, q)
    BY <2>7, <2>8 DEF ParseInfix
  <2>13. UNCHANGED dropped
    <3>1. LexerError({Advance1.err, Advance2.err}) = {}
      BY <2>11 DEF LexerError, E_UNKNOWN_TOKEN
    <3> QED
      BY <1>7, <2>8, <3>1 DEF ParseInfix
  <2>14. f.fn = "binary" /\ f.op = input[c + 1] /\ f.prec = prec /\ f.left = ret.tree /\ h.end = b /\ h.tree = z
    BY <2>7
  <2> HIDE DEF f, h, q
  <2>15. Link(input, f, a, h)
    BY <2>2, <2>4, <2>14 DEF Link
  <2> QED
    BY <1>1, <1>2, <1>3, <1>4, <2>3, <2>4, <2>5, <2>11, <2>12, <2>13, <2>14, <2>15, TrackCalls DEF a
<1> QED
  BY <1>9, <1>11, <1>12

\* What is next when a goal has been reached.
LEMMA TrackReturn ==
  ASSUME ParserInv, NEW k, NEW t, Expected(input, k, t), OnTrack(k, t), mode = "return",
         UnaryReturned \/ GroupedReturned \/ BinaryReturned \/ ParserDone
  PROVE  OnTrack(k, t)'
<1> DEFINE d == Len(stack) + 1
           f == stack[Len(stack)]
<1>1. dropped = {}
  BY DEF OnTrack
<1>2. PICK c, g : /\ Place(c) /\ Goals(input, k, t, g, stack, prec)
                  /\ Ahead(input, mode, prec, c, ret, g[d])
  BY DEF OnTrack
<1> DEFINE b == g[d]
           a == g[Len(stack)]
<1>3. UNCHANGED <<input, debug>> /\ input \in Seq(Lexemes) /\ Len(input) \in Nat /\ prec \in LOWEST..PREFIX
  BY DEF UnaryReturned, GroupedReturned, BinaryReturned, ParserDone, ParserInv, StateOK
<1>4. k \in 1..Len(input) /\ k \in Nat /\ \A i \in 1..(k + 1) : ~ Bad(input, i)
  BY <1>3, ExpectedIsClean DEF Expected
<1>5. Len(stack) \in Nat /\ IsSeq(stack)
  BY DEF ParserInv, StateOK, FramesOK, IsSeq
<1>6. ret.err = 0 /\ ret.tree = b.tree /\ c = b.end
  BY <1>2 DEF Ahead
<1>7. CASE ParserDone
  <2>1. stack = <<>> /\ mode' = "done" /\ UNCHANGED <<ret, dropped>> /\ Len(stack) = 0
    BY <1>7 DEF ParserDone
  <2>2. b.tree = t
    BY <1>2, <2>1 DEF Goals
  <2> QED
    BY <1>1, <1>6, <2>1, <2>2 DEF OnTrack
<1>8. CASE stack # <<>>
  <2>1. Link(input, f, a, b)
    BY <1>2, <1>4, <1>5, <1>8, GoalsPop
  <2>2. stack' = SubSeq(stack, 1, Len(stack) - 1) \/ ParserDone
    BY DEF UnaryReturned, GroupedReturned, BinaryReturned
  <2> HIDE DEF a, b, f
  <2>3. CASE UnaryReturned
    <3>1. f.fn = "unary" /\ Finish(f.prec, 0, UnaryNode(f.op, ret.tree))
          /\ stack' = SubSeq(stack, 1, Len(stack) - 1)
          /\ UNCHANGED <<input, pos, curr, peek, dropped>>
      BY <1>6, <2>3 DEF UnaryReturned, f
    <3>2. Chain(input, f.prec, UnaryNode(f.op, ret.tree), c, a.tree, a.end)
      BY <1>6, <2>1, <3>1 DEF Link
    <3>3. Place(c)'
      BY <1>2, <3>1, PlaceStays
    <3> QED
      BY <1>1, <1>2, <1>4, <1>8, <3>1, <3>2, <3>3, TrackReturns DEF a, f
  <2>4. CASE GroupedReturned
    <3>1. f.fn = "group" /\ stack' = SubSeq(stack, 1, Len(stack) - 1) /\ UNCHANGED input
      BY <2>4 DEF GroupedReturned, f
    <3>2. /\ c + 1 <= Len(input) /\ input[c + 1] = ")"
          /\ Chain(input, f.prec, ret.tree, c + 1, a.tree, a.end)
      BY <1>6, <2>1, <3>1 DEF Link
    <3>3. peek.t = ")"
      BY <1>2, <1>3, <3>2, PlaceSees
    <3>4. NextToken /\ dropped' = dropped \cup LexerError({Advance1.err}) /\ Finish(f.prec, 0, ret.tree)
      BY <1>6, <2>4, <3>3 DEF GroupedReturned, f
    <3>5. Len(stack) \in 1..(Len(stack) + 1) /\ Len(stack) # 0
      BY <1>5, <1>8
    <3>6. a.end \in 1..k
      BY <1>2, <3>5 DEF Goals, a
    <3>7. c + 1 \in 0..a.end
      <4>1. a.end \in Nat
        BY <1>4, <3>6
      <4> QED
        BY <3>2, <4>1, ChainUnfolds
    <3>8. c <= Len(input) /\ c + 2 \in 1..(k + 1)
      <4>1. c \in 1..(Len(input) + 1)
        BY <1>2 DEF Place
      <4> QED
        BY <1>3, <1>4, <3>2, <3>6, <3>7, <4>1
    <3>9. ~ Bad(input, c + 2)
      BY <1>4, <3>8
    <3>10. Advance1.err = 0 /\ Place(c + 1)'
      BY <1>2, <1>3, <3>4, <3>8, <3>9, PlaceNext
    <3>11. UNCHANGED dropped
      BY <3>4, <3>10 DEF LexerError, E_UNKNOWN_TOKEN
    <3> QED
      BY <1>1, <1>2, <1>4, <1>8, <3>1, <3>2, <3>4, <3>10, <3>11, TrackReturns DEF a, f
  <2>5. CASE BinaryReturned
    <3>1. f.fn = "binary" /\ Finish(f.prec, 0, BinaryNode(f.op, f.left, ret.tree))
          /\ stack' = SubSeq(stack, 1, Len(stack) - 1)
          /\ UNCHANGED <<input, pos, curr, peek, dropped>>
      BY <1>6, <2>5 DEF BinaryReturned, f
    <3>2. Chain(input, f.prec, BinaryNode(f.op, f.left, ret.tree), c, a.tree, a.end)
      BY <1>6, <2>1, <3>1 DEF Link
    <3>3. Place(c)'
      BY <1>2, <3>1, PlaceStays
    <3> QED
      BY <1>1, <1>2, <1>4, <1>8, <3>1, <3>2, <3>3, TrackReturns DEF a, f
  <2> QED
    BY <1>7, <2>3, <2>4, <2>5
<1> QED
  BY <1>7, <1>8 DEF UnaryReturned, GroupedReturned, BinaryReturned

\* A parse that is to find t goes on to it, whatever its step.
LEMMA TrackNext ==
  ASSUME ParserInv, NEW k, NEW t, Expected(input, k, t), ~ (debug /\ HasBad), OnTrack(k, t), [Next]_vars
  PROVE  OnTrack(k, t)' /\ UNCHANGED <<input, debug>>
<1>1. UNCHANGED <<input, debug>>
  BY DEF Next, vars, ParserInit, NoPrefixFunction, ParseNumericLiteral, ParseUnary, ParseGrouped,
     ParseInfix, LoopEnds, UnaryReturned, GroupedReturned, BinaryReturned, ParserDone
<1>2. CASE UNCHANGED vars
  <2>1. UNCHANGED <<input, pos, curr, peek, stack, mode, prec, ret, dropped>>
    BY <1>2 DEF vars
  <2>2. \A c : Place(c) => Place(c)'
    BY <2>1, PlaceStays
  <2> QED
    BY <1>1, <2>1, <2>2 DEF OnTrack
<1>3. CASE ParserInit
  BY <1>1, <1>3, TrackStarts
<1>4. CASE NoPrefixFunction \/ ParseNumericLiteral \/ ParseUnary \/ ParseGrouped
  <2>1. mode = "call"
    BY <1>4 DEF NoPrefixFunction, ParseNumericLiteral, ParseUnary, ParseGrouped
  <2> QED
    BY <1>1, <1>4, <2>1, TrackPrefix
<1>5. CASE ParseInfix \/ LoopEnds
  <2>1. mode = "loop"
    BY <1>5 DEF ParseInfix, LoopEnds
  <2> QED
    BY <1>1, <1>5, <2>1, TrackLoop
<1>6. CASE UnaryReturned \/ GroupedReturned \/ BinaryReturned \/ ParserDone
  <2>1. mode = "return"
    BY <1>6 DEF UnaryReturned, GroupedReturned, BinaryReturned, ParserDone
  <2> QED
    BY <1>1, <1>6, <2>1, TrackReturn
<1> QED
  BY <1>2, <1>3, <1>4, <1>5, <1>6 DEF Next

-----------------------------------------------------------------------------
(***************************************************************************)
(* What has been parsed, as long as no error is there or was forgotten.    *)
(* Each running parser_parse_expression has begun at a lexeme: i[1] is     *)
(* that of the outermost.  The frame f of a call that began at i made one  *)
(* from j on, with the argument q.                                         *)
(***************************************************************************)
Open(w, f, i, j, q) ==
  \/ f.fn = "unary" /\ f.op \in {"+", "-"} /\ j = i + 1 /\ w[i] = f.op /\ q = PREFIX
  \/ f.fn = "group" /\ j = i + 1 /\ w[i] = "(" /\ q = LOWEST
  \/ /\ f.fn = "binary" /\ f.op \in {"+", "-", "*"} /\ j >= i + 2 /\ w[j - 1] = f.op
     /\ q = PeekPrecedence(f.op) /\ f.prec < q
     /\ f.left \in Der(w, IF f.op = "*" THEN "product" ELSE "sum", i, j - 2)

\* The precedence argument of the call number e, the outermost being 1.
PrecOf(s, p, e) == IF e <= Len(s) THEN s[e].prec ELSE p

\* The calls that run began at the lexemes i, and each made the next one from where it stands.
Starts(w, i, s, p) ==
  /\ i[1] = 1 /\ PrecOf(s, p, 1) = LOWEST
  /\ \A e \in 1..(Len(s) + 1) : i[e] \in 1..(Len(w) + 1)
  /\ \A e \in 1..Len(s) : Open(w, s[e], i[e], i[e + 1], PrecOf(s, p, e + 1))

\* The left operand of the next operator.
Operand(w, p, t, i, c) ==
  /\ t \in Der(w, Lev(p), i, c)
  /\ p = LOWEST /\ After(w, c) = PRODUCT => t \in Der(w, "product", i, c)

\* The innermost call, up to the lexeme c.
Behind(w, m, p, c, r, i) ==
  /\ m = "call" => i = c
  /\ m = "loop" => c <= Len(w) /\ r.err = 0 /\ Operand(w, p, r.tree, i, c)
  /\ m = "return" => c <= Len(w) /\ r.err = 0 /\ r.tree \in Der(w, Lev(p), i, c) /\ After(w, c) <= p

\* An error is there, or was forgotten, or the C stack is full.
Failed ==
  \/ mode = "overflow" \/ dropped # {}
  \/ mode \in {"loop", "return", "done"} /\ ret.err # 0

\* Every tree the parser has is one of the grammar for the lexemes it was made from.
Justified ==
  \/ Failed
  \/ mode = "start" /\ prec = LOWEST /\ dropped = {}
  \/ mode = "done" /\ ret.err = 0 /\ dropped = {} /\ \E k : Expected(input, k, ret.tree)
  \/ /\ mode \in {"call", "loop", "return"} /\ dropped = {}
     /\ \E c, i : /\ Place(c) /\ Starts(input, i, stack, prec)
                  /\ Behind(input, mode, prec, c, ret, i[Len(stack) + 1])

\* No error is ever taken back.
LEMMA FailedStays ==
  ASSUME ParserInv, Failed, [Next]_vars
  PROVE  Failed'
<1>1. CASE UNCHANGED vars
  BY <1>1 DEF Failed, vars
<1>2. CASE ParserInit
  BY <1>2 DEF Failed, ParserInit
<1>3. CASE NoPrefixFunction
  BY <1>3 DEF Failed, NoPrefixFunction
<1>4. CASE ParseNumericLiteral
  BY <1>4 DEF Failed, ParseNumericLiteral
<1>5. CASE ParseUnary
  BY <1>5 DEF Failed, ParseUnary
<1>6. CASE ParseGrouped
  BY <1>6 DEF Failed, ParseGrouped
<1>7. CASE ParseInfix
  BY <1>7 DEF Failed, ParseInfix
<1>8. CASE LoopEnds
  BY <1>8 DEF Failed, LoopEnds, Return
<1>9. CASE UnaryReturned
  BY <1>9 DEF Failed, UnaryReturned, Finish
<1>10. CASE GroupedReturned
  <2>1. CASE dropped # {}
    <3>1. dropped' = dropped \/ dropped' = dropped \cup LexerError({Advance1.err})
      BY <1>10 DEF GroupedReturned
    <3> QED
      BY <2>1, <3>1 DEF Failed
  <2>2. CASE mode = "return" /\ ret.err # 0
    BY <1>10, <2>2 DEF Failed, GroupedReturned, Finish
  <2> QED
    BY <1>10, <2>1, <2>2 DEF Failed, GroupedReturned
<1>11. CASE BinaryReturned
  BY <1>11 DEF Failed, BinaryReturned, Return, Finish
<1>12. CASE ParserDone
  BY <1>12 DEF Failed, ParserDone
<1> QED
  BY <1>1, <1>2, <1>3, <1>4, <1>5, <1>6, <1>7, <1>8, <1>9, <1>10, <1>11, <1>12 DEF Next

\* A call more.
LEMMA StartsPush ==
  ASSUME NEW w, NEW i, NEW s, IsSeq(s), NEW p, Starts(w, i, s, p),
         NEW f, f.prec = p, NEW j \in 1..(Len(w) + 1)
  PROVE  \E i2 : /\ i2[Len(s) + 2] = j
                 /\ \A q : Open(w, f, i[Len(s) + 1], j, q) => Starts(w, i2, Append(s, f), q)
<1> DEFINE n == Len(s)
           z == Append(s, f)
           i2 == [e \in 1..(n + 2) |-> IF e <= n + 1 THEN i[e] ELSE j]
<1>1. /\ n \in Nat /\ Len(z) = n + 1 /\ z[n + 1] = f
      /\ \A e \in 1..n : z[e] = s[e]
  BY IsSeqAppend
<1> HIDE DEF n, z
<1>2. i2[n + 2] = j /\ \A e \in 1..(n + 1) : i2[e] = i[e]
  BY <1>1
<1>3. (n + 1) + 1 = n + 2 /\ 1 \in 1..(n + 1) /\ n + 1 \in 1..(n + 1) /\ ~ (n + 2 <= n + 1) /\ ~ (n + 1 <= n)
  BY <1>1
<1> HIDE DEF i2
<1> SUFFICES ASSUME NEW q, Open(w, f, i[n + 1], j, q) PROVE Starts(w, i2, z, q)
  BY <1>2 DEF n, z
<1>4. \A e \in 1..(n + 1) : PrecOf(z, q, e) = PrecOf(s, p, e)
  <2> SUFFICES ASSUME NEW e \in 1..(n + 1) PROVE PrecOf(z, q, e) = PrecOf(s, p, e)
    OBVIOUS
  <2>1. CASE e \in 1..n
    BY <1>1, <2>1 DEF PrecOf, n
  <2>2. CASE e = n + 1
    BY <1>1, <1>3, <2>2 DEF PrecOf, n
  <2> QED
    BY <1>1, <2>1, <2>2
<1>5. i2[1] = 1 /\ PrecOf(z, q, 1) = LOWEST
  BY <1>2, <1>3, <1>4 DEF Starts
<1>6. \A e \in 1..(n + 2) : i2[e] \in 1..(Len(w) + 1)
  <2>1. \A e \in 1..(n + 2) : e \in 1..(n + 1) \/ e = n + 2
    BY <1>1
  <2> QED
    BY <1>2, <2>1 DEF Starts, n
<1>7. ASSUME NEW e \in 1..(n + 1)
      PROVE  Open(w, z[e], i2[e], i2[e + 1], PrecOf(z, q, e + 1))
  <2>1. CASE e \in 1..n
    <3>1. e + 1 \in 1..(n + 1)
      BY <1>1, <2>1
    <3>2. z[e] = s[e] /\ i2[e] = i[e] /\ i2[e + 1] = i[e + 1] /\ PrecOf(z, q, e + 1) = PrecOf(s, p, e + 1)
      BY <1>1, <1>2, <1>4, <2>1, <3>1
    <3> QED
      BY <2>1, <3>2 DEF Starts, n
  <2>2. CASE e = n + 1
    <3>1. PrecOf(z, q, n + 2) = q
      BY <1>1, <1>3 DEF PrecOf
    <3> QED
      BY <1>1, <1>2, <1>3, <2>2, <3>1
  <2> QED
    BY <1>1, <2>1, <2>2
<1> QED
  BY <1>1, <1>3, <1>5, <1>6, <1>7 DEF Starts

\* The innermost call has returned.
LEMMA StartsPop ==
  ASSUME NEW w, NEW i, NEW s, IsSeq(s), s # <<>>, NEW p, Starts(w, i, s, p)
  PROVE  /\ Len(s) \in Nat /\ Len(SubSeq(s, 1, Len(s) - 1)) + 1 = Len(s)
         /\ Starts(w, i, SubSeq(s, 1, Len(s) - 1), s[Len(s)].prec)
         /\ Open(w, s[Len(s)], i[Len(s)], i[Len(s) + 1], p)
         /\ i[Len(s)] \in 1..(Len(w) + 1) /\ i[Len(s) + 1] \in 1..(Len(w) + 1)
<1> DEFINE n == Len(s)
           z == Front(s)
<1>1. /\ n \in Nat \ {0} /\ Len(z) = n - 1
      /\ \A e \in 1..(n - 1) : z[e] = s[e]
  BY IsSeqFront
<1> HIDE DEF n, z
<1>2. (n - 1) + 1 = n /\ n \in 1..n /\ (\A e \in 1..(n - 1) : e \in 1..n /\ e + 1 \in 1..n)
      /\ (\A e \in 1..n : e \in 1..(n + 1)) /\ n + 1 \in 1..(n + 1) /\ ~ (n + 1 <= n) /\ n <= n
      /\ ~ (n <= n - 1) /\ 1 \in 1..n
  BY <1>1
<1>3. \A e \in 1..n : PrecOf(z, s[n].prec, e) = PrecOf(s, p, e)
  <2> SUFFICES ASSUME NEW e \in 1..n PROVE PrecOf(z, s[n].prec, e) = PrecOf(s, p, e)
    OBVIOUS
  <2>1. CASE e \in 1..(n - 1)
    BY <1>1, <2>1 DEF PrecOf, n
  <2>2. CASE e = n
    BY <1>1, <1>2, <2>2 DEF PrecOf, n
  <2> QED
    BY <1>1, <2>1, <2>2
<1>4. Starts(w, i, z, s[n].prec)
  <2>1. \A e \in 1..n : i[e] \in 1..(Len(w) + 1)
    BY <1>2 DEF Starts, n
  <2>2. \A e \in 1..(n - 1) : Open(w, z[e], i[e], i[e + 1], PrecOf(z, s[n].prec, e + 1))
    BY <1>1, <1>2, <1>3 DEF Starts, n
  <2>3. i[1] = 1 /\ PrecOf(z, s[n].prec, 1) = LOWEST
    BY <1>2, <1>3 DEF Starts
  <2> QED
    BY <1>1, <1>2, <2>1, <2>2, <2>3 DEF Starts
<1>5. Open(w, s[n], i[n], i[n + 1], p)
  <2>1. PrecOf(s, p, n + 1) = p
    BY <1>2 DEF PrecOf, n
  <2> QED
    BY <1>2, <2>1 DEF Starts, n
<1>6. i[n] \in 1..(Len(w) + 1) /\ i[n + 1] \in 1..(Len(w) + 1)
  BY <1>2 DEF Starts, n
<1> QED
  BY <1>1, <1>2, <1>4, <1>5, <1>6 DEF n, z, Front

\* A prefix expression is an operand at every level.
LEMMA PrefixIsOperand ==
  ASSUME NEW w \in Seq(Lexemes), NEW p \in LOWEST..PREFIX, NEW i \in 1..(Len(w) + 1), NEW c \in 0..Len(w),
         NEW t \in Der(w, "prefix", i, c)
  PROVE  Operand(w, p, t, i, c)
<1>1. i <= c
  BY Productions
<1>2. t \in Der(w, "product", i, c)
  BY <1>1, Productions
<1>3. t \in Der(w, "sum", i, c)
  BY <1>1, <1>2, Productions
<1> QED
  BY <1>2, <1>3 DEF Operand, Lev

\* An operand that is built: a binary node with operands on the two sides of its operator.
LEMMA BinaryIsOperand ==
  ASSUME NEW w \in Seq(Lexemes), NEW f, NEW i \in 1..(Len(w) + 1), NEW j \in 1..(Len(w) + 1), NEW q,
         f.prec \in LOWEST..PREFIX,
         f.fn = "binary", Open(w, f, i, j, q),
         NEW c \in 0..Len(w), NEW z \in Der(w, Lev(q), j, c), After(w, c) <= q
  PROVE  Operand(w, f.prec, BinaryNode(f.op, f.left, z), i, c)
<1> DEFINE t == BinaryNode(f.op, f.left, z)
           m == j - 1
<1>1. /\ f.op \in {"+", "-", "*"} /\ j >= i + 2 /\ w[m] = f.op
      /\ q = PeekPrecedence(f.op) /\ f.prec < q
      /\ f.left \in Der(w, IF f.op = "*" THEN "product" ELSE "sum", i, j - 2)
  BY DEF Open
<1>2. q \in {SUM, PRODUCT} /\ Lev(q) \in Levels
  BY <1>1 DEF PeekPrecedence, Lev, Levels
<1>3. j <= c
  BY <1>2, SpansAreClean
<1>4. m \in (i + 1)..(c - 1) /\ m - 1 = j - 2 /\ m + 1 = j /\ i <= c
  BY <1>1, <1>3
<1> HIDE DEF m
<1>5. CASE f.op = "*"
  <2>1. q = PRODUCT /\ Lev(q) = "prefix" /\ f.prec \in {LOWEST, SUM}
    BY <1>1, <1>5 DEF PeekPrecedence, Lev, LOWEST, SUM, PRODUCT, PREFIX
  <2>2. Split(w, t, "product", {"*"}, "prefix", i, c)
    BY <1>1, <1>4, <1>5, <2>1 DEF Split
  <2> HIDE DEF t
  <2>3. t \in Der(w, "product", i, c)
    BY <1>4, <2>2, Productions
  <2>4. t \in Der(w, "sum", i, c)
    BY <1>4, <2>3, Productions
  <2>5. Lev(f.prec) \in {"sum", "product"}
    BY <2>1 DEF Lev
  <2> QED
    BY <2>3, <2>4, <2>5 DEF Operand, t
<1>6. CASE f.op \in {"+", "-"}
  <2>1. q = SUM /\ Lev(q) = "product" /\ f.prec = LOWEST /\ Lev(LOWEST) = "sum"
    BY <1>1, <1>6 DEF PeekPrecedence, Lev, LOWEST, SUM, PRODUCT, PREFIX
  <2>2. Split(w, t, "sum", {"+", "-"}, "product", i, c)
    BY <1>1, <1>4, <1>6, <2>1 DEF Split
  <2> HIDE DEF t
  <2>3. t \in Der(w, "sum", i, c)
    BY <1>4, <2>2, Productions
  <2>4. After(w, c) # PRODUCT
    BY <2>1 DEF SUM, PRODUCT
  <2> QED
    BY <2>1, <2>3, <2>4 DEF Operand, t
<1> QED
  BY <1>1, <1>5, <1>6

-----------------------------------------------------------------------------
\* A call of parser_parse_expression(q), from the lexeme c.
LEMMA JustifiedCalls ==
  ASSUME ParserInv, NEW i, Starts(input, i, stack, prec),
         NEW f, f.prec = prec, NEW q, Call(f, q), UNCHANGED <<input, dropped>>, dropped = {},
         NEW c, Place(c)', Open(input, f, i[Len(stack) + 1], c, q)
  PROVE  Justified'
<1>1. IsSeq(stack)
  BY DEF ParserInv, StateOK, FramesOK
<1>0. c \in 1..(Len(input) + 1)
  BY DEF Place
<1>2. CASE Len(stack) < MaxFrames
  <2>1. stack' = Append(stack, f) /\ mode' = "call" /\ prec' = q
    BY <1>2 DEF Call
  <2>2. PICK i2 : /\ i2[Len(stack) + 2] = c
                  /\ \A r : Open(input, f, i[Len(stack) + 1], c, r) => Starts(input, i2, Append(stack, f), r)
    BY <1>0, <1>1, StartsPush
  <2>3. Len(Append(stack, f)) + 1 = Len(stack) + 2
    BY <1>1, IsSeqAppend
  <2>4. Behind(input', mode', prec', c, ret', i2[Len(stack') + 1])
    BY <2>1, <2>2, <2>3 DEF Behind
  <2>5. Starts(input', i2, stack', prec')
    BY <2>1, <2>2
  <2> QED
    BY <2>1, <2>4, <2>5 DEF Justified
<1>3. CASE ~ (Len(stack) < MaxFrames)
  BY <1>3 DEF Call, Justified, Failed
<1> QED
  BY <1>2, <1>3

\* An operand is there, in the frame the call was made from.
LEMMA JustifiedReturns ==
  ASSUME ParserInv, NEW i, Starts(input, i, stack, prec), stack # <<>>,
         UNCHANGED <<input, dropped>>, dropped = {}, stack' = SubSeq(stack, 1, Len(stack) - 1),
         NEW tree, Finish(stack[Len(stack)].prec, 0, tree),
         NEW c, Place(c)', c <= Len(input),
         Operand(input, stack[Len(stack)].prec, tree, i[Len(stack)], c)
  PROVE  Justified'
<1>1. IsSeq(stack)
  BY DEF ParserInv, StateOK, FramesOK
<1>2. Len(stack') + 1 = Len(stack) /\ Starts(input, i, stack', stack[Len(stack)].prec)
  BY <1>1, StartsPop
<1>3. mode' = "loop" /\ prec' = stack[Len(stack)].prec /\ ret'.err = 0 /\ ret'.tree = tree
  BY DEF Finish
<1>4. Starts(input', i, stack', prec')
  BY <1>2, <1>3
<1>5. Behind(input', mode', prec', c, ret', i[Len(stack') + 1])
  BY <1>2, <1>3 DEF Behind
<1> QED
  BY <1>3, <1>4, <1>5 DEF Justified

\* parser_init: the outermost call begins at the first lexeme.
LEMMA JustifiedStarts ==
  ASSUME ParserInv, Justified, ~ Failed, ParserInit
  PROVE  Justified'
<1>1. mode = "start" /\ prec = LOWEST /\ dropped = {} /\ stack = <<>> /\ pos = 1 /\ Len(stack) = 0
  BY DEF ParserInit, Justified, ParserInv
<1>2. UNCHANGED <<input, stack, prec, dropped>> /\ input \in Seq(Lexemes) /\ Len(input) \in Nat
  BY DEF ParserInit, ParserInv
<1>3. CASE mode' = "done"
  <2>1. ret'.err # 0
    BY <1>3 DEF ParserInit, E_UNKNOWN_TOKEN
  <2> QED
    BY <1>3, <2>1 DEF Justified, Failed
<1>4. CASE mode' # "done"
  <2>1. Advance1.err = 0 /\ Advance2.err = 0 /\ NextTokenTwice /\ mode' = "call"
    BY <1>4 DEF ParserInit
  <2>2. 1 \in 1..(Len(input) + 2) /\ 1 + 1 = 2 /\ 2 + 1 = 3 /\ 1 + 2 = 3 /\ 1 \in 1..(Len(input) + 1) /\ 0 + 1 = 1
    BY <1>2
  <2>3. Bad(input, 1) => Lex(Within(1), peek).err = E_UNKNOWN_TOKEN
    BY <1>2, <2>2, LexIs
  <2>4. Within(1) = 1
    BY <1>2 DEF Within
  <2>5. ~ Bad(input, 1)
    BY <1>1, <2>1, <2>3, <2>4 DEF Advance1, E_UNKNOWN_TOKEN
  <2>6. Advance1.tok = Tok(1) /\ Advance1.pos = Within(2)
    BY <1>1, <1>2, <2>2, <2>4, <2>5, LexIs DEF Advance1
  <2>7. Advance2.tok = Tok(2) /\ Advance2.pos = Within(3) /\ ~ Bad(input, 2)
    <3>1. CASE Len(input) = 0
      <4>1. Within(2) = Within(1) /\ Tok(2) = EOF /\ ~ Bad(input, 2) /\ Within(3) = Within(2) /\ Tok(1) = EOF
        BY <3>1 DEF Within, Tok, Bad
      <4> QED
        BY <1>2, <2>2, <2>5, <2>6, <4>1, LexIs DEF Advance2
    <3>2. CASE Len(input) # 0
      <4>1. 2 \in 1..(Len(input) + 2)
        BY <1>2
      <4>2. ~ Bad(input, 2)
        BY <1>2, <2>1, <2>6, <4>1, LexIs DEF Advance2, E_UNKNOWN_TOKEN
      <4> QED
        BY <1>2, <2>2, <2>6, <4>1, <4>2, LexIs DEF Advance2
    <3> QED
      BY <3>1, <3>2
  <2>8. Place(1)'
    <3>1. curr' = Tok(1) /\ peek' = Tok(1 + 1) /\ pos' = Within(1 + 2)
      BY <2>1, <2>2, <2>6, <2>7 DEF NextTokenTwice
    <3>2. \A e \in 1..(1 + 1) : ~ Bad(input, e)
      BY <2>5, <2>7
    <3> QED
      BY <1>2, <2>2, <3>1, <3>2 DEF Place, Tok, Within
  <2> DEFINE i == [e \in 1..1 |-> 1]
  <2>9. i[1] = 1
    OBVIOUS
  <2> HIDE DEF i
  <2>10. Starts(input', i, stack', prec')
    <3>1. (\A e \in 1..(0 + 1) : e = 1) /\ (\A e \in 1..0 : FALSE) /\ ~ (1 <= 0)
      OBVIOUS
    <3> QED
      BY <1>1, <1>2, <2>2, <2>9, <3>1 DEF Starts, PrecOf
  <2>11. Behind(input', mode', prec', 1, ret', i[Len(stack') + 1])
    BY <1>1, <1>2, <2>1, <2>2, <2>9 DEF Behind
  <2> QED
    BY <1>1, <1>2, <2>1, <2>8, <2>10, <2>11 DEF Justified
<1> QED
  BY <1>3, <1>4

\* A prefix function: a literal is a tree, a sign or a parenthesis opens a call.
LEMMA JustifiedPrefix ==
  ASSUME ParserInv, Justified, ~ Failed, mode = "call",
         NoPrefixFunction \/ ParseNumericLiteral \/ ParseUnary \/ ParseGrouped
  PROVE  Justified'
<1> DEFINE d == Len(stack) + 1
<1>1. dropped = {}
  BY DEF Justified
<1>2. PICK c, i : /\ Place(c) /\ Starts(input, i, stack, prec)
                  /\ Behind(input, mode, prec, c, ret, i[d])
  BY DEF Justified
<1>3. UNCHANGED <<input, debug>> /\ input \in Seq(Lexemes) /\ Len(input) \in Nat /\ prec \in LOWEST..PREFIX
  BY DEF NoPrefixFunction, ParseNumericLiteral, ParseUnary, ParseGrouped, ParserInv, StateOK
<1>4. i[d] = c /\ c \in 1..(Len(input) + 1)
  BY <1>2 DEF Behind, Place
<1>5. /\ c <= Len(input) => curr.at = c
      /\ c <= Len(input) => (curr.t = "num" <=> input[c] \in {"num", "big"})
      /\ \A op \in {"+", "-", "*", "(", ")"} : curr.t = op <=> c <= Len(input) /\ input[c] = op
      /\ ~ (c <= Len(input)) => curr.t = "eof"
  <2>1. ~ (c <= Len(input)) => curr.t = "eof"
    BY <1>2 DEF Place, Tok, EOF
  <2> QED
    BY <1>2, <1>3, <2>1, PlaceSees
<1>6. CASE NoPrefixFunction
  BY <1>6 DEF NoPrefixFunction, Return, Justified, Failed, E_INVALID_PREFIX_FN
<1>7. CASE ParseNumericLiteral
  <2>1. c <= Len(input) /\ curr.at = c /\ input[c] \in {"num", "big"}
    BY <1>4, <1>5, <1>7 DEF ParseNumericLiteral
  <2>2. CASE input[c] = "big"
    BY <1>7, <2>1, <2>2 DEF ParseNumericLiteral, Finish, Justified, Failed, E_LITERAL_TOO_LARGE
  <2>3. CASE input[c] = "num"
    <3>1. Finish(prec, 0, Literal(c)) /\ UNCHANGED <<input, debug, pos, curr, peek, stack, dropped>>
      BY <1>7, <2>1, <2>3 DEF ParseNumericLiteral
    <3>2. Literal(c) \in Der(input, "prefix", c, c) /\ c \in 0..Len(input)
      BY <1>3, <1>4, <2>1, <2>3, Productions
    <3>3. Operand(input, prec, Literal(c), c, c)
      BY <1>3, <1>4, <3>2, PrefixIsOperand
    <3>4. Place(c)'
      BY <1>2, <3>1, PlaceStays
    <3>5. mode' = "loop" /\ prec' = prec /\ ret'.err = 0 /\ ret'.tree = Literal(c)
      BY <3>1 DEF Finish
    <3>6. Starts(input', i, stack', prec')
      BY <1>2, <3>1, <3>5
    <3>7. Behind(input', mode', prec', c, ret', i[Len(stack') + 1])
      BY <1>4, <2>1, <3>1, <3>3, <3>5 DEF Behind
    <3> QED
      BY <1>1, <3>1, <3>4, <3>5, <3>6, <3>7 DEF Justified
  <2> QED
    BY <2>1, <2>2, <2>3
<1>8. CASE ParseUnary
  <2>1. c <= Len(input) /\ curr.t = input[c] /\ curr.t \in {"+", "-"}
    BY <1>5, <1>8 DEF ParseUnary
  <2>2. NextToken /\ UNCHANGED dropped
    BY <1>8 DEF ParseUnary
  <2>3. CASE Bad(input, c + 2)
    <3>1. Advance1.err = E_UNKNOWN_TOKEN
      BY <1>2, <1>3, <2>1, <2>2, <2>3, PlaceNext
    <3> QED
      BY <1>8, <3>1 DEF ParseUnary, Finish, Justified, Failed, E_UNKNOWN_TOKEN
  <2>4. CASE ~ Bad(input, c + 2)
    <3>1. Advance1.err = 0 /\ Place(c + 1)'
      BY <1>2, <1>3, <2>1, <2>2, <2>4, PlaceNext
    <3> DEFINE f == [fn |-> "unary", op |-> curr.t, prec |-> prec, left |-> Junk]
    <3>2. Call(f, PREFIX)
      BY <1>8, <3>1 DEF ParseUnary
    <3>3. f.fn = "unary" /\ f.op = curr.t /\ f.prec = prec
      OBVIOUS
    <3> HIDE DEF f
    <3>4. Open(input, f, i[d], c + 1, PREFIX)
      BY <1>4, <2>1, <3>3 DEF Open
    <3> QED
      BY <1>1, <1>2, <1>3, <2>2, <3>1, <3>2, <3>3, <3>4, JustifiedCalls
  <2> QED
    BY <2>3, <2>4
<1>9. CASE ParseGrouped
  <2>1. c <= Len(input) /\ input[c] = "("
    BY <1>5, <1>9 DEF ParseGrouped
  <2>2. NextToken /\ dropped' = dropped \cup LexerError({Advance1.err})
    BY <1>9 DEF ParseGrouped
  <2>3. CASE Bad(input, c + 2)
    <3>1. Advance1.err = E_UNKNOWN_TOKEN
      BY <1>2, <1>3, <2>1, <2>2, <2>3, PlaceNext
    <3> QED
      BY <2>2, <3>1 DEF LexerError, Justified, Failed
  <2>4. CASE ~ Bad(input, c + 2)
    <3>1. Advance1.err = 0 /\ Place(c + 1)'
      BY <1>2, <1>3, <2>1, <2>2, <2>4, PlaceNext
    <3> DEFINE f == [fn |-> "group", op |-> "(", prec |-> prec, left |-> Junk]
    <3>2. Call(f, LOWEST) /\ UNCHANGED dropped
      BY <1>9, <2>2, <3>1 DEF ParseGrouped, LexerError, E_UNKNOWN_TOKEN
    <3>3. f.fn = "group" /\ f.prec = prec
      OBVIOUS
    <3> HIDE DEF f
    <3>4. Open(input, f, i[d], c + 1, LOWEST)
      BY <1>4, <2>1, <3>3 DEF Open
    <3> QED
      BY <1>1, <1>2, <1>3, <3>1, <3>2, <3>3, <3>4, JustifiedCalls
  <2> QED
    BY <2>3, <2>4
<1> QED
  BY <1>6, <1>7, <1>8, <1>9

\* The loop ends where no operator binds tighter, or goes on with a left operand that is a tree.
LEMMA JustifiedLoop ==
  ASSUME ParserInv, Justified, ~ Failed, mode = "loop", ParseInfix \/ LoopEnds
  PROVE  Justified'
<1> DEFINE d == Len(stack) + 1
<1>1. dropped = {}
  BY DEF Justified
<1>2. PICK c, i : /\ Place(c) /\ Starts(input, i, stack, prec)
                  /\ Behind(input, mode, prec, c, ret, i[d])
  BY DEF Justified
<1>3. UNCHANGED <<input, debug>> /\ input \in Seq(Lexemes) /\ Len(input) \in Nat /\ prec \in LOWEST..PREFIX
  BY DEF ParseInfix, LoopEnds, ParserInv, StateOK
<1>4. c \in 1..Len(input) /\ ret.err = 0 /\ Operand(input, prec, ret.tree, i[d], c)
  BY <1>2, <1>3 DEF Behind, Place
<1>5. /\ LoopGoesOn <=> prec < After(input, c)
      /\ LoopGoesOn => /\ c + 1 <= Len(input) /\ peek.t = input[c + 1]
                       /\ input[c + 1] \in {"+", "-", "*"}
                       /\ After(input, c) = PeekPrecedence(input[c + 1])
  BY <1>2, <1>3, PlaceSees
<1>6. prec \in Int /\ After(input, c) \in Int
  BY <1>3 DEF After, PeekPrecedence, LOWEST, SUM, PRODUCT, PREFIX
<1>7. CASE LoopEnds
  <2>1. mode' = "return" /\ ret'.err = ret.err /\ ret'.tree = ret.tree
        /\ UNCHANGED <<input, pos, curr, peek, stack, prec, dropped>> /\ ~ LoopGoesOn
    BY <1>7 DEF LoopEnds, Return
  <2>2. After(input, c) <= prec
    BY <1>5, <1>6, <2>1
  <2>3. Place(c)'
    BY <1>2, <2>1, PlaceStays
  <2>4. Behind(input', mode', prec', c, ret', i[Len(stack') + 1])
    BY <1>4, <2>1, <2>2 DEF Behind, Operand
  <2>5. Starts(input', i, stack', prec')
    BY <1>2, <2>1
  <2> QED
    BY <1>1, <2>1, <2>3, <2>4, <2>5 DEF Justified
<1>8. CASE ParseInfix
  <2>1. /\ NextTokenTwice /\ Call([fn |-> "binary", op |-> peek.t, prec |-> prec, left |-> ret.tree],
                                  PeekPrecedence(peek.t))
        /\ LoopGoesOn
        /\ dropped' = dropped \cup LexerError({Advance1.err, Advance2.err})
    BY <1>4, <1>8 DEF ParseInfix
  <2>2. c + 1 <= Len(input)
    BY <1>5, <2>1
  <2>3. CASE Bad(input, c + 2) \/ Bad(input, c + 3)
    <3>1. Advance1.err = E_UNKNOWN_TOKEN \/ Advance2.err = E_UNKNOWN_TOKEN
      BY <1>2, <1>3, <2>1, <2>2, <2>3, PlaceNextTwice
    <3> QED
      BY <2>1, <3>1 DEF LexerError, Justified, Failed
  <2>4. CASE ~ Bad(input, c + 2) /\ ~ Bad(input, c + 3)
    <3>1. Advance1.err = 0 /\ Advance2.err = 0 /\ Place(c + 2)'
      BY <1>2, <1>3, <2>1, <2>2, <2>4, PlaceNextTwice
    <3>2. UNCHANGED dropped
      BY <2>1, <3>1 DEF LexerError, E_UNKNOWN_TOKEN
    <3> DEFINE f == [fn |-> "binary", op |-> peek.t, prec |-> prec, left |-> ret.tree]
               q == PeekPrecedence(peek.t)
    <3>3. Call(f, q)
      BY <2>1
    <3>4. f.fn = "binary" /\ f.op = peek.t /\ f.prec = prec /\ f.left = ret.tree
      OBVIOUS
    <3> HIDE DEF f
    <3>5. i[d] \in 1..(Len(input) + 1) /\ Len(stack) \in Nat
      <4>1. Len(stack) \in Nat
        BY DEF ParserInv, StateOK, FramesOK, IsSeq
      <4>2. d \in 1..d
        BY <4>1
      <4> QED
        BY <1>2, <4>1, <4>2 DEF Starts
    <3>6. i[d] <= c
      <4>1. Lev(prec) \in Levels
        BY DEF Lev, Levels
      <4> QED
        BY <1>3, <1>4, <3>5, <4>1, SpansAreClean DEF Operand
    <3>7. ret.tree \in Der(input, IF peek.t = "*" THEN "product" ELSE "sum", i[d], c)
      <4>1. prec < PeekPrecedence(peek.t) /\ peek.t = input[c + 1] /\ peek.t \in {"+", "-", "*"}
            /\ After(input, c) = PeekPrecedence(peek.t)
        BY <1>5, <2>1
      <4>2. CASE peek.t = "*"
        <5>1. After(input, c) = PRODUCT /\ prec \in {LOWEST, SUM} /\ Lev(SUM) = "product"
          BY <1>3, <4>1, <4>2 DEF PeekPrecedence, Lev, LOWEST, SUM, PRODUCT, PREFIX
        <5> QED
          BY <1>4, <4>2, <5>1 DEF Operand
      <4>3. CASE peek.t \in {"+", "-"}
        <5>1. prec = LOWEST /\ Lev(LOWEST) = "sum"
          BY <1>3, <4>1, <4>3 DEF PeekPrecedence, Lev, LOWEST, SUM, PRODUCT, PREFIX
        <5> QED
          BY <1>4, <4>3, <5>1 DEF Operand
      <4> QED
        BY <4>1, <4>2, <4>3
    <3>8. Open(input, f, i[d], c + 2, q)
      <4>1. c + 2 >= i[d] + 2 /\ (c + 2) - 1 = c + 1 /\ (c + 2) - 2 = c
        BY <1>4, <3>5, <3>6
      <4> QED
        BY <1>5, <2>1, <3>4, <3>7, <4>1 DEF Open
    <3> HIDE DEF q
    <3> QED
      BY <1>1, <1>2, <1>3, <3>1, <3>2, <3>3, <3>4, <3>8, JustifiedCalls
  <2> QED
    BY <2>3, <2>4
<1> QED
  BY <1>7, <1>8

\* What a call returns becomes a unary node, a group or the right operand of its operator.
LEMMA JustifiedReturn ==
  ASSUME ParserInv, Justified, ~ Failed, mode = "return",
         UnaryReturned \/ GroupedReturned \/ BinaryReturned \/ ParserDone
  PROVE  Justified'
<1> DEFINE d == Len(stack) + 1
           f == stack[Len(stack)]
<1>1. dropped = {}
  BY DEF Justified
<1>2. PICK c, i : /\ Place(c) /\ Starts(input, i, stack, prec)
                  /\ Behind(input, mode, prec, c, ret, i[d])
  BY DEF Justified
<1>3. UNCHANGED <<input, debug>> /\ input \in Seq(Lexemes) /\ Len(input) \in Nat /\ prec \in LOWEST..PREFIX
  BY DEF UnaryReturned, GroupedReturned, BinaryReturned, ParserDone, ParserInv, StateOK
<1>4. c \in 1..Len(input) /\ ret.err = 0 /\ ret.tree \in Der(input, Lev(prec), i[d], c) /\ After(input, c) <= prec
      /\ c \in 0..Len(input)
  BY <1>2, <1>3 DEF Behind, Place
<1>5. Len(stack) \in Nat /\ IsSeq(stack)
  BY DEF ParserInv, StateOK, FramesOK, IsSeq
<1>6. CASE ParserDone
  <2>1. stack = <<>> /\ mode' = "done" /\ UNCHANGED <<input, ret, dropped>> /\ Len(stack) = 0 /\ d = 1
    BY <1>6 DEF ParserDone
  <2>2. i[1] = 1 /\ prec = LOWEST
    BY <1>2, <2>1 DEF Starts, PrecOf
  <2>3. ret.tree \in Der(input, "sum", 1, c) /\ After(input, c) <= LOWEST
    BY <1>4, <2>1, <2>2 DEF Lev
  <2>4. c < Len(input) => input[c + 1] \notin {"+", "-", "*", "bad"}
    <3> SUFFICES ASSUME c < Len(input) PROVE input[c + 1] \notin {"+", "-", "*", "bad"}
      OBVIOUS
    <3>1. c + 1 <= Len(input) /\ c + 1 \in 1..(c + 1)
      BY <1>4
    <3>2. ~ Bad(input, c + 1)
      BY <1>2, <3>1 DEF Place
    <3> QED
      BY <2>3, <3>1, <3>2 DEF Bad, After, PeekPrecedence, LOWEST, SUM, PRODUCT
  <2>5. Expected(input, c, ret.tree)
    BY <1>4, <2>3, <2>4 DEF Expected
  <2> QED
    BY <1>1, <1>4, <2>1, <2>5 DEF Justified
<1>7. CASE stack # <<>>
  <2> DEFINE a == i[Len(stack)]
             j == i[d]
  <2>1. Open(input, f, a, j, prec) /\ a \in 1..(Len(input) + 1) /\ j \in 1..(Len(input) + 1)
    BY <1>2, <1>5, <1>7, StartsPop
  <2>2. f.prec \in LOWEST..PREFIX /\ f.fn \in {"unary", "group", "binary"}
    <3>1. FramesOK(stack)
      BY DEF ParserInv, StateOK
    <3> QED
      BY <1>7, <3>1, FramesPop DEF FrameOK
  <2> HIDE DEF a, j, f
  <2>3. Lev(PREFIX) = "prefix" /\ Lev(LOWEST) = "sum" /\ "prefix" \in Levels /\ "sum" \in Levels
    BY DEF Lev, Levels, LOWEST, SUM, PREFIX
  <2>4. CASE UnaryReturned
    <3>1. f.fn = "unary" /\ Finish(f.prec, 0, UnaryNode(f.op, ret.tree))
          /\ stack' = SubSeq(stack, 1, Len(stack) - 1)
          /\ UNCHANGED <<input, pos, curr, peek, dropped>>
      BY <1>4, <2>4 DEF UnaryReturned, f
    <3>2. f.op \in {"+", "-"} /\ j = a + 1 /\ input[a] = f.op /\ prec = PREFIX
      BY <2>1, <3>1 DEF Open
    <3>3. ret.tree \in Der(input, "prefix", a + 1, c)
      BY <1>4, <2>3, <3>2 DEF j
    <3>4. a <= c
      <4>1. j <= c
        BY <1>3, <1>4, <2>1, <2>3, <3>2, <3>3, SpansAreClean
      <4> QED
        BY <1>4, <2>1, <3>2, <4>1
    <3>5. UnaryNode(f.op, ret.tree) \in Der(input, "prefix", a, c)
      BY <1>3, <1>4, <2>1, <3>2, <3>3, <3>4, Productions
    <3>6. Operand(input, f.prec, UnaryNode(f.op, ret.tree), a, c)
      BY <1>3, <1>4, <2>1, <2>2, <3>5, PrefixIsOperand
    <3>7. Place(c)'
      BY <1>2, <3>1, PlaceStays
    <3> QED
      BY <1>1, <1>2, <1>4, <1>7, <3>1, <3>6, <3>7, JustifiedReturns DEF a, f
  <2>5. CASE GroupedReturned
    <3>1. f.fn = "group" /\ stack' = SubSeq(stack, 1, Len(stack) - 1) /\ UNCHANGED input /\ mode' = "loop"
      BY <2>5 DEF GroupedReturned, Finish, f
    <3>2. j = a + 1 /\ input[a] = "(" /\ prec = LOWEST
      BY <2>1, <3>1 DEF Open
    <3>3. CASE peek.t # ")"
      BY <2>5, <3>1, <3>3 DEF GroupedReturned, Finish, Justified, Failed, E_UNCLOSED_PAREN
    <3>4. CASE peek.t = ")"
      <4>1. c + 1 <= Len(input) /\ input[c + 1] = ")"
        BY <1>2, <1>3, <3>4, PlaceSees
      <4>2. NextToken /\ dropped' = dropped \cup LexerError({Advance1.err}) /\ Finish(f.prec, 0, ret.tree)
        BY <1>4, <2>5, <3>4 DEF GroupedReturned, f
      <4>3. CASE Bad(input, c + 2)
        <5>1. Advance1.err = E_UNKNOWN_TOKEN
          BY <1>2, <1>3, <1>4, <4>2, <4>3, PlaceNext
        <5> QED
          BY <4>2, <5>1 DEF LexerError, Justified, Failed
      <4>4. CASE ~ Bad(input, c + 2)
        <5>1. Advance1.err = 0 /\ Place(c + 1)'
          BY <1>2, <1>3, <1>4, <4>2, <4>4, PlaceNext
        <5>2. UNCHANGED dropped
          BY <4>2, <5>1 DEF LexerError, E_UNKNOWN_TOKEN
        <5>3. ret.tree \in Der(input, "sum", a + 1, c)
          BY <1>4, <2>3, <3>2 DEF j
        <5>4. a <= c + 1 /\ c + 1 \in 0..Len(input) /\ (c + 1) - 1 = c
          <6>1. j <= c
            BY <1>3, <1>4, <2>1, <2>3, <3>2, <5>3, SpansAreClean
          <6> QED
            BY <1>4, <2>1, <3>2, <4>1, <6>1
        <5>5. ret.tree \in Der(input, "prefix", a, c + 1)
          BY <1>3, <2>1, <3>2, <4>1, <5>3, <5>4, Productions
        <5>6. Operand(input, f.prec, ret.tree, a, c + 1)
          BY <1>3, <2>1, <2>2, <5>4, <5>5, PrefixIsOperand
        <5> QED
          BY <1>1, <1>2, <1>7, <3>1, <4>1, <4>2, <5>1, <5>2, <5>6, JustifiedReturns DEF a, f
      <4> QED
        BY <4>3, <4>4
    <3> QED
      BY <3>3, <3>4
  <2>6. CASE BinaryReturned
    <3>1. f.fn = "binary" /\ Finish(f.prec, 0, BinaryNode(f.op, f.left, ret.tree))
          /\ stack' = SubSeq(stack, 1, Len(stack) - 1)
          /\ UNCHANGED <<input, pos, curr, peek, dropped>>
      BY <1>4, <2>6 DEF BinaryReturned, f
    <3>2. ret.tree \in Der(input, Lev(prec), j, c)
      BY <1>4 DEF j
    <3>3. Operand(input, f.prec, BinaryNode(f.op, f.left, ret.tree), a, c)
      BY <1>3, <1>4, <2>1, <2>2, <3>1, <3>2, BinaryIsOperand
    <3>4. Place(c)'
      BY <1>2, <3>1, PlaceStays
    <3> QED
      BY <1>1, <1>2, <1>4, <1>7, <3>1, <3>3, <3>4, JustifiedReturns DEF a, f
  <2> QED
    BY <1>6, <2>4, <2>5, <2>6
<1> QED
  BY <1>6, <1>7 DEF UnaryReturned, GroupedReturned, BinaryReturned

\* Every step keeps what the parser has justified.
LEMMA JustifiedNext ==
  ASSUME ParserInv, Justified, [Next]_vars
  PROVE  Justified'
<1>1. CASE Failed
  BY <1>1, FailedStays DEF Justified
<1>2. CASE ~ Failed
  <2>1. CASE UNCHANGED vars
    <3>1. UNCHANGED <<input, pos, curr, peek, stack, mode, prec, ret, dropped>>
      BY <2>1 DEF vars
    <3>2. \A c : Place(c) => Place(c)'
      BY <3>1, PlaceStays
    <3> QED
      BY <3>1, <3>2 DEF Justified, Failed
  <2>2. CASE ParserInit
    BY <1>2, <2>2, JustifiedStarts
  <2>3. CASE NoPrefixFunction \/ ParseNumericLiteral \/ ParseUnary \/ ParseGrouped
    <3>1. mode = "call"
      BY <2>3 DEF NoPrefixFunction, ParseNumericLiteral, ParseUnary, ParseGrouped
    <3> QED
      BY <1>2, <2>3, <3>1, JustifiedPrefix
  <2>4. CASE ParseInfix \/ LoopEnds
    <3>1. mode = "loop"
      BY <2>4 DEF ParseInfix, LoopEnds
    <3> QED
      BY <1>2, <2>4, <3>1, JustifiedLoop
  <2>5. CASE UnaryReturned \/ GroupedReturned \/ BinaryReturned \/ ParserDone
    <3>1. mode = "return"
      BY <2>5 DEF UnaryReturned, GroupedReturned, BinaryReturned, ParserDone
    <3> QED
      BY <1>2, <2>5, <3>1, JustifiedReturn
  <2> QED
    BY <2>1, <2>2, <2>3, <2>4, <2>5 DEF Next
<1> QED
  BY <1>1, <1>2

-----------------------------------------------------------------------------
\* What holds of the parser once it has its input: what it has is justified, and a tree of
\* the grammar is the one it is on the way to.
GrammarInv ==
  mode # "lexing" =>
    /\ Justified
    /\ ~ (debug /\ HasBad) => \A k, t : Expected(input, k, t) => OnTrack(k, t)

\* The parser is started in a state it may parse from, and stays in such states.
LEMMA GrammarNextInv == FrontendInv /\ GrammarInv /\ [FrontendNext]_<<vars, lexerVars>> => GrammarInv'
<1> SUFFICES ASSUME FrontendInv, GrammarInv, [FrontendNext]_<<vars, lexerVars>> PROVE GrammarInv'
  OBVIOUS
<1>1. CASE mode # "lexing" /\ [Next]_vars
  <2>1. ParserInv /\ Justified
    BY <1>1 DEF FrontendInv, GrammarInv
  <2>2. Justified'
    BY <1>1, <2>1, JustifiedNext
  <2>3. UNCHANGED <<input, debug>>
    BY <1>1 DEF Next, vars, ParserInit, NoPrefixFunction, ParseNumericLiteral, ParseUnary,
       ParseGrouped, ParseInfix, LoopEnds, UnaryReturned, GroupedReturned, BinaryReturned, ParserDone
  <2>4. ASSUME ~ (debug /\ HasBad), NEW k, NEW t, Expected(input, k, t)
        PROVE  OnTrack(k, t)'
    <3>1. OnTrack(k, t)
      BY <1>1, <2>4 DEF GrammarInv
    <3> QED
      BY <1>1, <2>1, <2>4, <3>1, TrackNext
  <2>5. HasBad' = HasBad
    BY <2>3 DEF HasBad
  <2> QED
    BY <2>2, <2>3, <2>4, <2>5 DEF GrammarInv
<1>2. CASE StartParser
  <2>1. mode' = "start" /\ UNCHANGED <<prec, dropped>> /\ Waiting
    BY <1>2 DEF StartParser, FrontendInv
  <2>2. prec' = LOWEST /\ dropped' = {}
    BY <2>1 DEF Waiting, LOWEST
  <2> QED
    BY <2>1, <2>2 DEF GrammarInv, Justified, OnTrack
<1>3. CASE mode = "lexing" /\ UNCHANGED vars
  BY <1>3 DEF vars, GrammarInv
<1> QED
  BY <1>1, <1>2, <1>3 DEF FrontendNext, Lexing, Parsing, vars

\* The trees of the first k lexemes, where a parse has to stop behind them.
LEMMA ExpectedIs ==
  ASSUME input \in Seq(Lexemes), NEW k
  PROVE  /\ \A t : Expected(input, k, t) => k \in ExpectedPrefix /\ t \in Derivations(input, k)
         /\ k \in ExpectedPrefix => /\ \A t \in Derivations(input, k) : Expected(input, k, t)
                                    /\ \E t : Expected(input, k, t)
BY DEF Expected, ExpectedPrefix, Derivations, Der

\* The precedence-climbing loop is the grammar: a parse of which no error is forgotten
\* succeeds on just the inputs that begin with a sum no operator continues, and its tree is
\* the only one the grammar has for that sum (main.c 571-848).
THEOREM FrontendAcceptsTheGrammar == FrontendSpec => []AcceptsTheGrammar
<1>1. FrontendInit => GrammarInv
  BY DEF FrontendInit, GrammarInv
<1>2. FrontendInv /\ GrammarInv => AcceptsTheGrammar
  <2> SUFFICES ASSUME FrontendInv, GrammarInv, mode = "done", ~ (debug /\ HasBad)
               PROVE  /\ (ret.err = 0 /\ dropped = {}) <=> ExpectedPrefix # {}
                      /\ ret.err = 0 /\ dropped = {} =>
                           \E k \in ExpectedPrefix : Derivations(input, k) = {ret.tree}
    BY DEF AcceptsTheGrammar
  <2>1. input \in Seq(Lexemes)
    BY DEF FrontendInv, ParserInv
  <2>2. \A k, t : Expected(input, k, t) => ret.err = 0 /\ dropped = {} /\ ret.tree = t
    BY DEF GrammarInv, OnTrack
  <2>3. ExpectedPrefix # {} => ret.err = 0 /\ dropped = {}
    BY <2>1, <2>2, ExpectedIs
  <2>4. ASSUME ret.err = 0, dropped = {}
        PROVE  \E k \in ExpectedPrefix : Derivations(input, k) = {ret.tree}
    <3>1. PICK k : Expected(input, k, ret.tree)
      BY <2>4 DEF GrammarInv, Justified, Failed
    <3>2. k \in ExpectedPrefix /\ ret.tree \in Derivations(input, k)
      BY <2>1, <3>1, ExpectedIs
    <3>3. \A t \in Derivations(input, k) : t = ret.tree
      BY <2>1, <2>2, <3>2, ExpectedIs
    <3> QED
      BY <3>2, <3>3
  <2> QED
    BY <2>3, <2>4
<1> QED
  BY <1>1, <1>2, FrontendInitInv, FrontendNextInv, GrammarNextInv, PTL DEF FrontendSpec

-----------------------------------------------------------------------------
(***************************************************************************)
(* The nodes of a tree, down to a depth: what DumbcAst's recursive         *)
(* function computes, for every depth.                                     *)
(***************************************************************************)
Operands(S) == UNION { {x.args[k] : k \in DOMAIN x.args} : x \in S }

\* F has the nodes of the tree down to each depth up to n.
IsNodes(tree, n, F) ==
  F = [d \in 0..n |-> IF d = 0 THEN {tree} ELSE F[d - 1] \cup Operands(F[d - 1])]

\* Such a function by its values.
LEMMA NodesValues ==
  ASSUME NEW tree, NEW n \in Nat, NEW F, IsNodes(tree, n, F)
  PROVE  /\ F[0] = {tree}
         /\ \A d \in 1..n : F[d] = F[d - 1] \cup Operands(F[d - 1])
<1>1. \A d \in 0..n : F[d] = IF d = 0 THEN {tree} ELSE F[d - 1] \cup Operands(F[d - 1])
  BY DEF IsNodes
<1>2. 0 \in 0..n /\ \A d \in 1..n : d \in 0..n /\ d # 0
  OBVIOUS
<1> QED
  BY <1>1, <1>2

\* There is one for every depth.
LEMMA NodesExist ==
  ASSUME NEW tree, NEW n \in Nat
  PROVE  \E F : IsNodes(tree, n, F)
<1> DEFINE Good(k) == \E F : IsNodes(tree, k, F)
           B == { k \in Nat : ~ Good(k) }
<1>1. Good(0)
  <2> DEFINE F == [d \in 0..0 |-> {tree}]
  <2>1. F = [d \in 0..0 |-> IF d = 0 THEN {tree} ELSE F[d - 1] \cup Operands(F[d - 1])]
    <3>1. \A d \in 0..0 : d = 0
      OBVIOUS
    <3> QED
      BY <3>1
  <2> HIDE DEF F
  <2> QED
    BY <2>1 DEF IsNodes
<1>2. ASSUME NEW k \in Nat, Good(k) PROVE Good(k + 1)
  <2>1. PICK F : IsNodes(tree, k, F)
    BY <1>2
  <2>2. F[0] = {tree} /\ \A d \in 1..k : F[d] = F[d - 1] \cup Operands(F[d - 1])
    BY <2>1, NodesValues
  <2> DEFINE G == [d \in 0..(k + 1) |-> IF d = k + 1 THEN F[k] \cup Operands(F[k]) ELSE F[d]]
  <2>3. \A d \in 0..k : G[d] = F[d]
    OBVIOUS
  <2>4. G[k + 1] = F[k] \cup Operands(F[k])
    OBVIOUS
  <2>5. DOMAIN G = 0..(k + 1) /\ G = [d \in 0..(k + 1) |-> G[d]]
    OBVIOUS
  <2> HIDE DEF G
  <2>6. ASSUME NEW d \in 0..(k + 1)
        PROVE  G[d] = IF d = 0 THEN {tree} ELSE G[d - 1] \cup Operands(G[d - 1])
    <3>1. CASE d = 0
      BY <2>2, <2>3, <3>1
    <3>2. CASE d \in 1..k
      <4>1. d - 1 \in 0..k /\ d \in 0..k /\ d # 0
        BY <3>2
      <4> QED
        BY <2>2, <2>3, <3>2, <4>1
    <3>3. CASE d = k + 1
      <4>1. d - 1 = k /\ d # 0 /\ k \in 0..k
        BY <3>3
      <4> QED
        BY <2>3, <2>4, <3>3, <4>1
    <3> QED
      BY <3>1, <3>2, <3>3
  <2>7. IsNodes(tree, k + 1, G)
    BY <2>5, <2>6 DEF IsNodes
  <2> QED
    BY <2>7
<1> HIDE DEF Good
<1>3. B = {}
  <2> SUFFICES ASSUME B # {} PROVE FALSE
    OBVIOUS
  <2>1. PICK k \in B : \A j \in B : k <= j
    BY Least
  <2>2. k # 0
    BY <1>1, <2>1
  <2>3. k - 1 \in Nat /\ (k - 1) + 1 = k /\ ~ (k <= k - 1)
    BY <2>1, <2>2
  <2>4. Good(k - 1)
    BY <2>1, <2>3
  <2> QED
    BY <1>2, <2>1, <2>3, <2>4
<1> QED
  BY <1>3 DEF Good

\* And its values do not depend on how far it goes.
LEMMA NodesAgree ==
  ASSUME NEW tree, NEW n \in Nat, NEW F, IsNodes(tree, n, F),
         NEW m \in Nat, NEW G, IsNodes(tree, m, G)
  PROVE  \A d \in 0..n : d \in 0..m => F[d] = G[d]
<1> DEFINE B == { d \in 0..n : d \in 0..m /\ F[d] # G[d] }
<1> SUFFICES ASSUME B # {} PROVE FALSE
  OBVIOUS
<1>1. PICK k \in B : \A j \in B : k <= j
  <2>1. B \in SUBSET Nat
    OBVIOUS
  <2> HIDE DEF B
  <2> QED
    BY <2>1, Least
<1>2. k \in 0..n /\ k \in 0..m /\ F[k] # G[k]
  BY <1>1
<1>3. F[0] = {tree} /\ \A d \in 1..n : F[d] = F[d - 1] \cup Operands(F[d - 1])
  <2> HIDE DEF B
  <2> QED
    BY NodesValues
<1>4. G[0] = {tree} /\ \A d \in 1..m : G[d] = G[d - 1] \cup Operands(G[d - 1])
  <2> HIDE DEF B
  <2> QED
    BY NodesValues
<1>5. k # 0 /\ k \in 1..n /\ k \in 1..m
  <2>1. k # 0
    BY <1>2, <1>3, <1>4
  <2> QED
    BY <1>2, <2>1
<1>6. k - 1 \in Nat /\ k - 1 \in 0..n /\ k - 1 \in 0..m /\ ~ (k <= k - 1)
  BY <1>5
<1>7. F[k - 1] = G[k - 1]
  BY <1>1, <1>6
<1> QED
  BY <1>2, <1>3, <1>4, <1>5, <1>7

\* The root alone, and one level more.
LEMMA NodesUnfold ==
  ASSUME NEW tree
  PROVE  /\ Nodes(tree, 0) = {tree}
         /\ \A d \in Nat : Nodes(tree, d + 1) = Nodes(tree, d) \cup Operands(Nodes(tree, d))
<1>1. ASSUME NEW n \in Nat PROVE \E F : IsNodes(tree, n, F) /\ Nodes(tree, n) = F[n]
  <2> DEFINE N == CHOOSE F : IsNodes(tree, n, F)
  <2>1. IsNodes(tree, n, N)
    BY NodesExist
  <2>2. Nodes(tree, n) = N[n]
    BY DEF Nodes, IsNodes, Operands
  <2> QED
    BY <2>1, <2>2
<1>2. Nodes(tree, 0) = {tree}
  BY <1>1, NodesValues
<1>3. ASSUME NEW d \in Nat PROVE Nodes(tree, d + 1) = Nodes(tree, d) \cup Operands(Nodes(tree, d))
  <2>1. PICK F : IsNodes(tree, d, F) /\ Nodes(tree, d) = F[d]
    BY <1>1
  <2>2. PICK G : IsNodes(tree, d + 1, G) /\ Nodes(tree, d + 1) = G[d + 1]
    BY <1>1
  <2>3. d \in 0..d /\ d \in 0..(d + 1) /\ d + 1 \in 1..(d + 1) /\ d + 1 \in Nat /\ (d + 1) - 1 = d
    OBVIOUS
  <2>4. F[d] = G[d]
    BY <2>1, <2>2, <2>3, NodesAgree
  <2>5. G[d + 1] = G[d] \cup Operands(G[d])
    <3>1. PICK m \in Nat : m = d + 1
      OBVIOUS
    <3>2. IsNodes(tree, m, G)
      BY <2>2, <3>1
    <3>3. \A e \in 1..m : G[e] = G[e - 1] \cup Operands(G[e - 1])
      BY <3>2, NodesValues
    <3> QED
      BY <2>3, <3>1, <3>3
  <2> QED
    BY <2>1, <2>2, <2>4, <2>5
<1> QED
  BY <1>2, <1>3

\* A tree's nodes are its root and the nodes of its operands.
LEMMA NodesBelow ==
  ASSUME NEW tree, NEW d \in Nat
  PROVE  \A x : x \in Nodes(tree, d + 1) <=>
                  \/ x = tree
                  \/ \E k \in DOMAIN tree.args : x \in Nodes(tree.args[k], d)
<1> DEFINE Below(e) == {tree} \cup UNION { Nodes(tree.args[k], e) : k \in DOMAIN tree.args }
           B == { e \in Nat : Nodes(tree, e + 1) # Below(e) }
<1>1. Nodes(tree, 0 + 1) = Below(0)
  <2>1. Nodes(tree, 0) = {tree} /\ \A k \in DOMAIN tree.args : Nodes(tree.args[k], 0) = {tree.args[k]}
    BY NodesUnfold
  <2>2. Nodes(tree, 0 + 1) = {tree} \cup Operands({tree})
    BY <2>1, NodesUnfold
  <2>3. Operands({tree}) = {tree.args[k] : k \in DOMAIN tree.args}
    BY DEF Operands
  <2>4. UNION { Nodes(tree.args[k], 0) : k \in DOMAIN tree.args } = {tree.args[k] : k \in DOMAIN tree.args}
    BY <2>1
  <2> QED
    BY <2>2, <2>3, <2>4
<1>2. ASSUME NEW e \in Nat, Nodes(tree, e + 1) = Below(e)
      PROVE  Nodes(tree, (e + 1) + 1) = Below(e + 1)
  <2>1. Nodes(tree, (e + 1) + 1) = Below(e) \cup Operands(Below(e))
    <3>1. e + 1 \in Nat
      OBVIOUS
    <3> HIDE DEF Below
    <3> QED
      BY <1>2, <3>1, NodesUnfold
  <2>2. \A k \in DOMAIN tree.args :
          Nodes(tree.args[k], e + 1) = Nodes(tree.args[k], e) \cup Operands(Nodes(tree.args[k], e))
    BY NodesUnfold
  <2>3. \A k \in DOMAIN tree.args : tree.args[k] \in Nodes(tree.args[k], e + 1)
    <3> SUFFICES ASSUME NEW k \in DOMAIN tree.args PROVE tree.args[k] \in Nodes(tree.args[k], e + 1)
      OBVIOUS
    <3> DEFINE v == tree.args[k]
               C == { c \in Nat : v \notin Nodes(v, c) }
    <3>1. C = {}
      <4> SUFFICES ASSUME C # {} PROVE FALSE
        OBVIOUS
      <4>1. PICK c \in C : \A j \in C : c <= j
        BY Least
      <4>2. c # 0
        BY <4>1, NodesUnfold
      <4>3. c - 1 \in Nat /\ (c - 1) + 1 = c /\ ~ (c <= c - 1)
        BY <4>1, <4>2
      <4>4. v \in Nodes(v, c - 1)
        BY <4>1, <4>3
      <4> HIDE DEF v
      <4> QED
        BY <4>1, <4>3, <4>4, NodesUnfold
    <3> QED
      BY <3>1
  <2> DEFINE U == UNION { Nodes(tree.args[k], e) : k \in DOMAIN tree.args }
             V == UNION { Nodes(tree.args[k], e + 1) : k \in DOMAIN tree.args }
             A == {tree.args[k] : k \in DOMAIN tree.args}
  <2>4. Operands(Below(e)) = A \cup Operands(U)
    BY DEF Operands
  <2>5. V = U \cup Operands(U)
    <3>1. Operands(U) = UNION { Operands(Nodes(tree.args[k], e)) : k \in DOMAIN tree.args }
      BY DEF Operands
    <3> QED
      BY <2>2, <3>1
  <2>6. A \subseteq V
    BY <2>3
  <2> HIDE DEF A
  <2>7. Below(e) = {tree} \cup U /\ Below(e + 1) = {tree} \cup V
    OBVIOUS
  <2> HIDE DEF U, V, Below
  <2> QED
    BY <2>1, <2>4, <2>5, <2>6, <2>7
<1> HIDE DEF Below
<1>3. B = {}
  <2> SUFFICES ASSUME B # {} PROVE FALSE
    OBVIOUS
  <2>1. PICK k \in B : \A j \in B : k <= j
    BY Least
  <2>2. k # 0
    BY <1>1, <2>1
  <2>3. k - 1 \in Nat /\ (k - 1) + 1 = k /\ ~ (k <= k - 1)
    BY <2>1, <2>2
  <2>4. Nodes(tree, (k - 1) + 1) = Below(k - 1)
    BY <2>1, <2>3
  <2>5. Nodes(tree, ((k - 1) + 1) + 1) = Below((k - 1) + 1)
    BY <1>2, <2>3, <2>4
  <2> QED
    BY <2>1, <2>3, <2>5
<1>4. Nodes(tree, d + 1) = Below(d)
  BY <1>3
<1> QED
  BY <1>4 DEF Below

\* Deeper, there are no fewer.
LEMMA NodesGrow ==
  ASSUME NEW tree, NEW d \in Nat, NEW e \in Nat, d <= e
  PROVE  Nodes(tree, d) \subseteq Nodes(tree, e)
<1> DEFINE B == { c \in Nat : d <= c /\ ~ (Nodes(tree, d) \subseteq Nodes(tree, c)) }
<1> SUFFICES ASSUME B # {} PROVE FALSE
  OBVIOUS
<1>1. PICK c \in B : \A j \in B : c <= j
  BY Least
<1>2. c - 1 \in Nat /\ (c - 1) + 1 = c /\ d <= c - 1 /\ ~ (c <= c - 1)
  <2>1. c # d
    BY <1>1
  <2> QED
    BY <1>1, <2>1
<1>3. Nodes(tree, d) \subseteq Nodes(tree, c - 1)
  BY <1>1, <1>2
<1> QED
  BY <1>1, <1>2, <1>3, NodesUnfold

-----------------------------------------------------------------------------
\* An expression_t nobody wrote, at a depth of a tree or nowhere in it.
JunkIn(tree, d) == Junk \in Nodes(tree, d)
Clean(tree) == \A d \in Nat : ~ JunkIn(tree, d)

\* The junk itself, and the trees built of others.
LEMMA JunkBelow ==
  /\ JunkIn(Junk, 0)
  /\ \A at : Clean(Literal(at))
  /\ \A t, v : /\ \A d \in Nat : JunkIn(v, d) => JunkIn(UnaryNode(t, v), d + 1)
               /\ Clean(v) => Clean(UnaryNode(t, v))
  /\ \A t, l, r : /\ \A d \in Nat : JunkIn(l, d) \/ JunkIn(r, d) => JunkIn(BinaryNode(t, l, r), d + 1)
                  /\ Clean(l) /\ Clean(r) => Clean(BinaryNode(t, l, r))
<1>1. JunkIn(Junk, 0)
  BY NodesUnfold DEF JunkIn
<1>2. ASSUME NEW tree, tree # Junk,
             \A k \in DOMAIN tree.args : Clean(tree.args[k])
      PROVE  Clean(tree)
  <2> SUFFICES ASSUME NEW d \in Nat, Junk \in Nodes(tree, d) PROVE FALSE
    BY DEF Clean, JunkIn
  <2>1. CASE d = 0
    BY <1>2, <2>1, NodesUnfold
  <2>2. CASE d # 0
    <3>1. d - 1 \in Nat /\ (d - 1) + 1 = d
      BY <2>2
    <3>2. PICK k \in DOMAIN tree.args : Junk \in Nodes(tree.args[k], d - 1)
      BY <1>2, <3>1, NodesBelow
    <3> QED
      BY <1>2, <3>1, <3>2 DEF Clean, JunkIn
  <2> QED
    BY <2>1, <2>2
<1>3. ASSUME NEW at PROVE Clean(Literal(at))
  <2>1. Literal(at) # Junk /\ Literal(at).args = <<>>
    BY DEF Literal, Junk
  <2>2. DOMAIN Literal(at).args = {}
    BY <2>1
  <2> QED
    BY <1>2, <2>1, <2>2
<1>4. ASSUME NEW t, NEW v
      PROVE  /\ \A d \in Nat : JunkIn(v, d) => JunkIn(UnaryNode(t, v), d + 1)
             /\ Clean(v) => Clean(UnaryNode(t, v))
  <2>1. UnaryNode(t, v) # Junk /\ UnaryNode(t, v).args = <<v>>
    BY DEF UnaryNode, UnaryPlus, UnaryMinus, Junk
  <2>2. DOMAIN UnaryNode(t, v).args = {1} /\ UnaryNode(t, v).args[1] = v
    BY <2>1
  <2>3. \A d \in Nat : JunkIn(v, d) => JunkIn(UnaryNode(t, v), d + 1)
    BY <2>2, NodesBelow DEF JunkIn
  <2>4. Clean(v) => Clean(UnaryNode(t, v))
    BY <1>2, <2>1, <2>2
  <2> QED
    BY <2>3, <2>4
<1>5. ASSUME NEW t, NEW l, NEW r
      PROVE  /\ \A d \in Nat : JunkIn(l, d) \/ JunkIn(r, d) => JunkIn(BinaryNode(t, l, r), d + 1)
             /\ Clean(l) /\ Clean(r) => Clean(BinaryNode(t, l, r))
  <2>1. BinaryNode(t, l, r) # Junk /\ BinaryNode(t, l, r).args = <<l, r>>
    BY DEF BinaryNode, BinaryPlus, BinaryMinus, BinaryMul, Junk
  <2>2. /\ DOMAIN BinaryNode(t, l, r).args = {1, 2}
        /\ BinaryNode(t, l, r).args[1] = l /\ BinaryNode(t, l, r).args[2] = r
    BY <2>1
  <2>3. \A d \in Nat : JunkIn(l, d) \/ JunkIn(r, d) => JunkIn(BinaryNode(t, l, r), d + 1)
    BY <2>2, NodesBelow DEF JunkIn
  <2>4. Clean(l) /\ Clean(r) => Clean(BinaryNode(t, l, r))
    BY <1>2, <2>1, <2>2
  <2> QED
    BY <2>3, <2>4
<1> QED
  BY <1>1, <1>3, <1>4, <1>5

-----------------------------------------------------------------------------
(***************************************************************************)
(* Why a forgotten error is in the tree that main gets, and why nothing    *)
(* else is.  The junk it leaves is the left operand of a binary frame, or  *)
(* in the tree a call is about to return; or an error is on its way to the *)
(* caller, and the next turn of a loop forgets that one as well.  No frame *)
(* but that of a group costs depth, and such a frame has consumed a lexeme *)
(* of its own: the junk stays within the depth Len(input).                 *)
(*                                                                         *)
(* The one exception is an infix function behind whose operator there is   *)
(* an unknown character.  The parser is stuck on the operator then, and    *)
(* the call it makes can but fail (Pinned).                                *)
(***************************************************************************)

\* The place of a token, the end of file behind the last lexeme.
Spot(w, t) == IF t.t = "eof" THEN Len(w) + 1 ELSE t.at

\* curr is not behind peek, nor peek behind the lexer; the two are the same
\* only at an unknown character or at the end.
InOrder(w, c, k, p) ==
  /\ 1 <= Spot(w, c) /\ Spot(w, c) <= Spot(w, k)
  /\ Bad(w, p) \/ Spot(w, c) < Spot(w, k) \/ k.t = "eof"
  /\ IF k.t = "eof" THEN p = Len(w) + 1 ELSE Spot(w, k) < p

\* The first k frames, but for those of groups.
Ops(s, k) == Cardinality({i \in 1..k : s[i].fn # "group"})

Pinned ==
  /\ Bad(input, pos) /\ curr = peek /\ peek.t \in {"+", "-", "*"}
  /\ stack # <<>> /\ stack[Len(stack)].fn = "binary"
  /\ Ops(stack, Len(stack)) <= Spot(input, peek)
  /\ mode \in {"call", "loop"} => prec = PeekPrecedence(peek.t)
  /\ mode \in {"loop", "return"} => ret.err # 0

Counted ==
  /\ mode = "call" => Pinned \/ Ops(stack, Len(stack)) < Spot(input, curr)
  /\ mode \in {"loop", "return"} => Pinned \/ Ops(stack, Len(stack)) < Spot(input, peek)

\* Modes with a result.
HasResult == {"loop", "return", "done"}

\* There is junk in the frames, at a depth that leaves room for the nodes still to
\* be put above it.
JunkUnder(s, q) ==
  \E k \in 1..Len(s), d \in Nat :
    s[k].fn = "binary" /\ JunkIn(s[k].left, d) /\ d + 2 + Ops(s, k - 1) <= q

\* Or in the result, or an error is on its way.
Held(s, m, r, q) ==
  \/ JunkUnder(s, q)
  \/ m \in HasResult /\ r.err # 0
  \/ m \in HasResult /\ r.err = 0 /\ \E d \in Nat : JunkIn(r.tree, d) /\ d + 1 + Ops(s, Len(s)) <= q

\* There is none in the frames.
CleanUnder(s) == \A k \in 1..Len(s) : s[k].fn = "binary" => Clean(s[k].left)

JunkInv ==
  /\ mode \in {"call", "loop", "return"} => InOrder(input, curr, peek, pos)
  /\ Counted
  /\ mode = "done" => stack = <<>>
  /\ mode = "loop" /\ ret.err # 0 => ret.tree = Junk
  /\ "prefix" \in dropped /\ mode # "overflow" =>
       \/ Held(stack, mode, ret, Spot(input, peek))
       \/ Pinned /\ mode = "call"
  /\ "prefix" \notin dropped =>
       /\ CleanUnder(stack)
       /\ mode \in HasResult /\ ret.err = 0 => Clean(ret.tree)

\* One frame more.
LEMMA OpsStep ==
  ASSUME NEW s, NEW n \in Nat
  PROVE  /\ Ops(s, n) \in Nat /\ Ops(s, 0) = 0
         /\ Ops(s, n + 1) = Ops(s, n) + (IF s[n + 1].fn = "group" THEN 0 ELSE 1)
<1> DEFINE A(k) == {i \in 1..k : s[i].fn # "group"}
<1>1. \A k \in Nat : IsFiniteSet(A(k)) /\ Ops(s, k) = Cardinality(A(k))
  <2> SUFFICES ASSUME NEW k \in Nat PROVE IsFiniteSet(A(k))
    BY DEF Ops
  <2>1. IsFiniteSet(1..k) /\ A(k) \subseteq 1..k
    BY FS_Interval
  <2> QED
    BY <2>1, FS_Subset
<1>2. Cardinality(A(n)) \in Nat
  BY <1>1, FS_CardinalityType
<1>3. A(0) = {}
  OBVIOUS
<1>4. Ops(s, 0) = 0
  BY <1>1, <1>3, FS_EmptySet
<1>5. CASE s[n + 1].fn = "group"
  <2>1. A(n + 1) = A(n)
    BY <1>5
  <2> QED
    BY <1>1, <1>2, <1>4, <1>5, <2>1
<1>6. CASE s[n + 1].fn # "group"
  <2>1. A(n + 1) = A(n) \cup {n + 1} /\ n + 1 \notin A(n)
    BY <1>6
  <2>2. Cardinality(A(n) \cup {n + 1}) = Cardinality(A(n)) + 1
    BY <1>1, <2>1, FS_AddElement
  <2>3. Ops(s, n + 1) = Cardinality(A(n + 1)) /\ Ops(s, n) = Cardinality(A(n))
    BY DEF Ops
  <2> HIDE DEF A
  <2> QED
    BY <1>2, <1>4, <1>6, <2>1, <2>2, <2>3
<1> QED
  BY <1>5, <1>6

\* Of frames that are the same.
LEMMA OpsAgree ==
  ASSUME NEW s, NEW z, NEW n \in Nat, \A i \in 1..n : s[i] = z[i]
  PROVE  Ops(s, n) = Ops(z, n)
<1>1. {i \in 1..n : s[i].fn # "group"} = {i \in 1..n : z[i].fn # "group"}
  OBVIOUS
<1> QED
  BY <1>1 DEF Ops

\* A push and a pop, the frames below are the same.
LEMMA OpsPush ==
  ASSUME NEW s, IsSeq(s), NEW f
  PROVE  /\ Len(s) \in Nat /\ Len(Append(s, f)) = Len(s) + 1 /\ Append(s, f)[Len(s) + 1] = f
         /\ Append(s, f) # <<>>
         /\ \A k \in 1..Len(s) : Append(s, f)[k] = s[k] /\ Ops(Append(s, f), k - 1) = Ops(s, k - 1)
         /\ Ops(s, Len(s)) \in Nat /\ Ops(Append(s, f), Len(s)) = Ops(s, Len(s))
         /\ Ops(Append(s, f), Len(s) + 1) = Ops(s, Len(s)) + (IF f.fn = "group" THEN 0 ELSE 1)
<1> DEFINE n == Len(s)
           z == Append(s, f)
<1>1. n \in Nat /\ Len(z) = n + 1 /\ z[n + 1] = f /\ \A k \in 1..n : z[k] = s[k]
  BY IsSeqAppend
<1> HIDE DEF n, z
<1>2. ASSUME NEW k \in 0..n PROVE Ops(z, k) = Ops(s, k)
  <2>1. k \in Nat /\ \A i \in 1..k : i \in 1..n
    BY <1>1
  <2>2. \A i \in 1..k : z[i] = s[i]
    BY <1>1, <2>1
  <2> QED
    BY <2>1, <2>2, OpsAgree
<1>3. \A k \in 1..n : k - 1 \in 0..n
  BY <1>1
<1>4. Ops(z, n + 1) = Ops(z, n) + (IF z[n + 1].fn = "group" THEN 0 ELSE 1) /\ Ops(s, n) \in Nat
  BY <1>1, OpsStep
<1>5. Ops(z, n) = Ops(s, n) /\ z # <<>>
  <2>1. n \in 0..n
    BY <1>1
  <2> QED
    BY <1>1, <1>2, <2>1
<1> QED
  BY <1>1, <1>2, <1>3, <1>4, <1>5 DEF n, z

LEMMA OpsPop ==
  ASSUME NEW s, IsSeq(s), s # <<>>
  PROVE  LET z == SubSeq(s, 1, Len(s) - 1)
         IN /\ Len(s) \in Nat \ {0} /\ Len(z) = Len(s) - 1
            /\ \A k \in 1..(Len(s) - 1) : z[k] = s[k] /\ Ops(z, k - 1) = Ops(s, k - 1)
            /\ Ops(z, Len(z)) \in Nat /\ Ops(z, Len(z)) = Ops(s, Len(s) - 1)
            /\ Ops(s, Len(s)) = Ops(z, Len(z)) + (IF s[Len(s)].fn = "group" THEN 0 ELSE 1)
<1> DEFINE n == Len(s)
           z == Front(s)
<1>1. n \in Nat \ {0} /\ Len(z) = n - 1 /\ \A k \in 1..(n - 1) : z[k] = s[k]
  BY IsSeqFront
<1> HIDE DEF n, z
<1>2. ASSUME NEW k \in 0..(n - 1) PROVE Ops(z, k) = Ops(s, k)
  <2>1. k \in Nat /\ \A i \in 1..k : i \in 1..(n - 1)
    BY <1>1
  <2>2. \A i \in 1..k : z[i] = s[i]
    BY <1>1, <2>1
  <2> QED
    BY <2>1, <2>2, OpsAgree
<1>3. \A k \in 1..(n - 1) : k - 1 \in 0..(n - 1)
  BY <1>1
<1>4. n - 1 \in Nat /\ (n - 1) + 1 = n /\ n - 1 \in 0..(n - 1)
  BY <1>1
<1>5. Ops(s, n) = Ops(s, n - 1) + (IF s[n].fn = "group" THEN 0 ELSE 1) /\ Ops(s, n - 1) \in Nat
  BY <1>4, OpsStep
<1>6. Ops(z, n - 1) = Ops(s, n - 1)
  BY <1>2, <1>4
<1> QED
  BY <1>1, <1>2, <1>3, <1>5, <1>6 DEF n, z, Front

\* A token more: no token goes back, and at an unknown character none moves.
LEMMA InOrderNext ==
  ASSUME input \in Seq(Lexemes), NEW c, NEW k, NEW p \in 1..(Len(input) + 1),
         IsToken(c), IsToken(k), InOrder(input, c, k, p), NEW l, l = Lex(p, k)
  PROVE  /\ l.pos \in 1..(Len(input) + 1) /\ IsToken(l.tok)
         /\ InOrder(input, k, l.tok, l.pos)
         /\ l.err # 0 <=> Bad(input, p)
         /\ Bad(input, p) => l.tok = k /\ l.pos = p
         /\ ~ Bad(input, p) /\ k.t # "eof" => Spot(input, k) < Spot(input, l.tok)
<1>1. Len(input) \in Nat /\ \A i \in 1..Len(input) : input[i] \in Lexemes
  OBVIOUS
<1>2. /\ l.pos \in 1..(Len(input) + 1) /\ IsToken(l.tok)
  BY LexAt
<1>3. CASE p > Len(input)
  <2>1. l.err = 0 /\ l.tok = EOF /\ l.pos = p /\ p = Len(input) + 1 /\ EOF.t = "eof"
    BY <1>1, <1>3 DEF Lex, EOF
  <2>2. ~ Bad(input, p)
    BY <1>3, <2>1 DEF Bad
  <2>3. Spot(input, l.tok) = Len(input) + 1 /\ (k.t # "eof" => Spot(input, k) < Len(input) + 1)
        /\ (k.t = "eof" => Spot(input, k) = Len(input) + 1)
    BY <1>1, <2>1 DEF Spot, InOrder
  <2>4. 1 <= Spot(input, k) /\ Spot(input, k) <= Len(input) + 1
    <3>1. Spot(input, c) \in Int /\ Spot(input, k) \in 0..(Len(input) + 1)
      BY <1>1 DEF Spot, IsToken
    <3> QED
      BY <3>1 DEF InOrder
  <2>5. InOrder(input, k, l.tok, l.pos)
    BY <2>1, <2>3, <2>4 DEF InOrder
  <2> QED
    BY <1>2, <2>1, <2>2, <2>3, <2>5
<1>4. CASE Bad(input, p)
  <2>1. l.err = E_UNKNOWN_TOKEN /\ l.tok = k /\ l.pos = p /\ E_UNKNOWN_TOKEN # 0
    BY <1>1, <1>4 DEF Lex, Bad, E_UNKNOWN_TOKEN
  <2>2. Spot(input, c) \in Int /\ Spot(input, k) \in Int
    BY <1>1 DEF Spot, IsToken
  <2> QED
    BY <1>2, <1>4, <2>1, <2>2 DEF InOrder
<1>5. CASE p <= Len(input) /\ ~ Bad(input, p)
  <2>1. l.err = 0 /\ l.tok = [t |-> TokenType(input[p]), at |-> p] /\ l.pos = p + 1
    BY <1>1, <1>5 DEF Lex, Bad
  <2>2. l.tok.t # "eof" /\ l.tok.at = p
    BY <1>1, <1>5, <2>1 DEF TokenType, Lexemes
  <2>3. k.t # "eof" /\ Spot(input, k) < p /\ Spot(input, k) \in Int /\ Spot(input, c) \in Int
    BY <1>1, <1>5 DEF InOrder, Spot, IsToken
  <2>4. Spot(input, l.tok) = p
    BY <2>2 DEF Spot
  <2> QED
    BY <1>1, <1>2, <1>5, <2>1, <2>2, <2>3, <2>4 DEF InOrder
<1> QED
  BY <1>1, <1>3, <1>4, <1>5

\* What the tokens of the parser are, and the ones it reads next.
LEMMA InOrderAdvance ==
  ASSUME ParserInv, InOrder(input, curr, peek, pos), NEW q, q = Spot(input, peek)
  PROVE  /\ q \in Nat /\ Spot(input, curr) \in Nat /\ Spot(input, curr) <= q
         /\ Advance1.err # 0 <=> Bad(input, pos)
         /\ InOrder(input, peek, Advance1.tok, Advance1.pos)
         /\ q <= Spot(input, Advance1.tok) /\ Spot(input, Advance1.tok) \in Nat
         /\ Bad(input, pos) => Advance1.tok = peek /\ Advance1.pos = pos
         /\ ~ Bad(input, pos) /\ peek.t # "eof" => q < Spot(input, Advance1.tok)
         /\ InOrder(input, Advance1.tok, Advance2.tok, Advance2.pos)
         /\ Spot(input, Advance1.tok) <= Spot(input, Advance2.tok) /\ Spot(input, Advance2.tok) \in Nat
         /\ Bad(input, pos) => Advance2.tok = peek /\ Advance2.pos = pos
<1>1. /\ input \in Seq(Lexemes) /\ Len(input) \in Nat /\ pos \in 1..(Len(input) + 1)
      /\ IsToken(curr) /\ IsToken(peek)
  BY DEF ParserInv, StateOK
<1>2. \A t : IsToken(t) => Spot(input, t) \in Nat
  BY <1>1 DEF Spot, IsToken
<1>3. PICK l : l = Lex(pos, peek)
  OBVIOUS
<1>4. /\ l.pos \in 1..(Len(input) + 1) /\ IsToken(l.tok) /\ InOrder(input, peek, l.tok, l.pos)
      /\ l.err # 0 <=> Bad(input, pos)
      /\ Bad(input, pos) => l.tok = peek /\ l.pos = pos
      /\ ~ Bad(input, pos) /\ peek.t # "eof" => Spot(input, peek) < Spot(input, l.tok)
  BY <1>1, <1>3, InOrderNext
<1>5. PICK m : m = Lex(l.pos, l.tok)
  OBVIOUS
<1>6. /\ IsToken(m.tok) /\ InOrder(input, l.tok, m.tok, m.pos)
      /\ Bad(input, l.pos) => m.tok = l.tok /\ m.pos = l.pos
  BY <1>1, <1>4, <1>5, InOrderNext
<1>7. Advance1 = l /\ Advance2 = m
  BY <1>3, <1>5 DEF Advance1, Advance2
<1>8. \A c, k, p : InOrder(input, c, k, p) => Spot(input, c) <= Spot(input, k)
  BY DEF InOrder
<1> QED
  BY <1>1, <1>2, <1>4, <1>6, <1>7, <1>8

\* The junk in the frames stays there under a call more, and the left operand of a
\* binary frame may be it; a frame that goes takes its own with it.
LEMMA JunkUnderPush ==
  ASSUME NEW s, IsSeq(s), NEW f, NEW q \in Nat, NEW r \in Nat, q <= r
  PROVE  /\ JunkUnder(s, q) => JunkUnder(Append(s, f), r)
         /\ \A d \in Nat : f.fn = "binary" /\ JunkIn(f.left, d) /\ d + 2 + Ops(s, Len(s)) <= r
                             => JunkUnder(Append(s, f), r)
<1> DEFINE n == Len(s)
           z == Append(s, f)
<1>1. /\ n \in Nat /\ Len(z) = n + 1 /\ z[n + 1] = f
      /\ \A k \in 1..n : z[k] = s[k] /\ Ops(z, k - 1) = Ops(s, k - 1)
      /\ Ops(z, n) = Ops(s, n) /\ Ops(s, n) \in Nat
  BY OpsPush
<1> HIDE DEF n, z
<1>2. ASSUME JunkUnder(s, q) PROVE JunkUnder(z, r)
  <2>1. PICK k \in 1..n, d \in Nat :
          s[k].fn = "binary" /\ JunkIn(s[k].left, d) /\ d + 2 + Ops(s, k - 1) <= q
    BY <1>2 DEF JunkUnder, n
  <2>2. k \in 1..Len(z) /\ k - 1 \in Nat
    BY <1>1
  <2>3. Ops(s, k - 1) \in Nat
    BY <2>2, OpsStep
  <2>4. d + 2 + Ops(z, k - 1) <= r
    BY <1>1, <2>1, <2>3
  <2> QED
    BY <1>1, <2>1, <2>2, <2>4 DEF JunkUnder
<1>3. ASSUME NEW d \in Nat, f.fn = "binary", JunkIn(f.left, d), d + 2 + Ops(s, n) <= r
      PROVE  JunkUnder(z, r)
  <2>1. n + 1 \in 1..Len(z) /\ (n + 1) - 1 = n
    BY <1>1
  <2>2. d + 2 + Ops(z, (n + 1) - 1) <= r
    BY <1>1, <1>3, <2>1
  <2> QED
    BY <1>1, <1>3, <2>1, <2>2 DEF JunkUnder
<1> QED
  BY <1>2, <1>3 DEF n, z

LEMMA JunkUnderPop ==
  ASSUME NEW s, IsSeq(s), s # <<>>, NEW q \in Nat, NEW r \in Nat, q <= r, JunkUnder(s, q),
         NEW z, z = SubSeq(s, 1, Len(s) - 1)
  PROVE  \/ JunkUnder(z, r)
         \/ /\ s[Len(s)].fn = "binary"
            /\ \E d \in Nat : JunkIn(s[Len(s)].left, d) /\ d + 2 + Ops(z, Len(z)) <= q
<1> DEFINE n == Len(s)
<1>1. /\ n \in Nat \ {0} /\ Len(z) = n - 1
      /\ \A k \in 1..(n - 1) : z[k] = s[k] /\ Ops(z, k - 1) = Ops(s, k - 1)
      /\ Ops(z, Len(z)) = Ops(s, n - 1)
  BY OpsPop
<1>2. PICK k \in 1..n, d \in Nat :
        s[k].fn = "binary" /\ JunkIn(s[k].left, d) /\ d + 2 + Ops(s, k - 1) <= q
  BY DEF JunkUnder
<1> HIDE DEF n
<1>3. CASE k = n
  BY <1>1, <1>2, <1>3 DEF n
<1>4. CASE k # n
  <2>1. k \in 1..(n - 1) /\ k - 1 \in Nat
    BY <1>1, <1>4
  <2>2. Ops(s, k - 1) \in Nat
    BY <2>1, OpsStep
  <2>3. d + 2 + Ops(z, k - 1) <= r
    BY <1>1, <1>2, <2>1, <2>2
  <2> QED
    BY <1>1, <1>2, <2>1, <2>3 DEF JunkUnder
<1> QED
  BY <1>3, <1>4

\* As do the clean operands.
LEMMA CleanUnderPushPop ==
  ASSUME NEW s, IsSeq(s), CleanUnder(s)
  PROVE  /\ \A f : (f.fn = "binary" => Clean(f.left)) => CleanUnder(Append(s, f))
         /\ s # <<>> => /\ CleanUnder(SubSeq(s, 1, Len(s) - 1))
                        /\ s[Len(s)].fn = "binary" => Clean(s[Len(s)].left)
<1>1. ASSUME NEW f, f.fn = "binary" => Clean(f.left) PROVE CleanUnder(Append(s, f))
  <2> DEFINE z == Append(s, f)
  <2>1. Len(s) \in Nat /\ Len(z) = Len(s) + 1 /\ z[Len(s) + 1] = f /\ \A k \in 1..Len(s) : z[k] = s[k]
    BY IsSeqAppend
  <2>2. \A k \in 1..(Len(s) + 1) : k \in 1..Len(s) \/ k = Len(s) + 1
    BY <2>1
  <2> HIDE DEF z
  <2>3. CleanUnder(z)
    BY <1>1, <2>1, <2>2 DEF CleanUnder
  <2> QED
    BY <2>3 DEF z
<1>2. ASSUME s # <<>>
      PROVE  /\ CleanUnder(SubSeq(s, 1, Len(s) - 1))
             /\ s[Len(s)].fn = "binary" => Clean(s[Len(s)].left)
  <2> DEFINE z == Front(s)
  <2>1. Len(s) \in Nat \ {0} /\ Len(z) = Len(s) - 1 /\ \A k \in 1..(Len(s) - 1) : z[k] = s[k]
    BY <1>2, IsSeqFront
  <2>2. Len(s) \in 1..Len(s) /\ \A k \in 1..(Len(s) - 1) : k \in 1..Len(s)
    BY <2>1
  <2> HIDE DEF z
  <2>3. CleanUnder(z) /\ (s[Len(s)].fn = "binary" => Clean(s[Len(s)].left))
    BY <2>1, <2>2 DEF CleanUnder
  <2> QED
    BY <2>3 DEF z, Front
<1> QED
  BY <1>1, <1>2

\* A call from a prefix function.
LEMMA JunkCalls ==
  ASSUME ParserInv, JunkInv, mode = "call", UNCHANGED input, NEW f, f.fn \in {"unary", "group"},
         NEW p, Call(f, p), ("prefix" \in dropped') <=> ("prefix" \in dropped),
         InOrder(input', curr', peek', pos'), ~ Pinned, NEW q \in Nat, q = Spot(input, peek),
         NEW r \in Nat, r = Spot(input, peek'), q <= r,
         NEW c \in Nat, c = Spot(input, curr'),
         Ops(stack, Len(stack)) + (IF f.fn = "group" THEN 0 ELSE 1) < c
  PROVE  JunkInv'
<1>1. IsSeq(stack)
  BY DEF ParserInv, StateOK, FramesOK
<1>2. /\ "prefix" \in dropped => JunkUnder(stack, q)
      /\ "prefix" \notin dropped => CleanUnder(stack)
  BY DEF JunkInv, Held, HasResult
<1>3. CASE ~ (Len(stack) < MaxFrames)
  <2>1. mode' = "overflow" /\ stack' = stack
    BY <1>3 DEF Call
  <2>2. "prefix" \notin dropped' => CleanUnder(stack')
    BY <1>2, <2>1
  <2> QED
    BY <2>1, <2>2 DEF JunkInv, Counted, CleanUnder, HasResult
<1>4. CASE Len(stack) < MaxFrames
  <2>1. mode' = "call" /\ stack' = Append(stack, f)
    BY <1>4 DEF Call
  <2>2. "prefix" \in dropped' => JunkUnder(stack', r)
    BY <1>1, <1>2, <2>1, JunkUnderPush
  <2>3. "prefix" \notin dropped' => CleanUnder(stack')
    BY <1>1, <1>2, <2>1, CleanUnderPushPop
  <2>4. Ops(stack', Len(stack')) < c
    BY <1>1, <2>1, OpsPush
  <2>5. Counted'
    BY <2>1, <2>4 DEF Counted
  <2>6. Held(stack', mode', ret', Spot(input', peek')) \/ "prefix" \notin dropped'
    BY <2>2 DEF Held
  <2> QED
    BY <2>1, <2>3, <2>5, <2>6 DEF JunkInv, CleanUnder, HasResult
<1> QED
  BY <1>3, <1>4

\* parser_init: two tokens in a row, no call and no result yet.
LEMMA JunkStarts ==
  ASSUME ParserInv, JunkInv, ParserInit
  PROVE  JunkInv'
<1>1. /\ mode = "start" /\ pos = 1 /\ stack = <<>> /\ Len(stack) = 0
      /\ input \in Seq(Lexemes) /\ Len(input) \in Nat
      /\ UNCHANGED <<input, stack, prec, dropped>>
  BY DEF ParserInv, ParserInit
<1>2. "prefix" \notin dropped
  BY <1>1 DEF JunkInv, Held, JunkUnder, HasResult
<1>3. CASE mode' = "done" /\ ret'.err # 0
  BY <1>1, <1>2, <1>3 DEF JunkInv, Counted, CleanUnder, HasResult
<1>4. CASE NextTokenTwice /\ Advance1.err = 0 /\ Advance2.err = 0 /\ mode' = "call"
  <2>1. Within(1) = 1 /\ 1 \in 1..(Len(input) + 2) /\ 2 \in 1..(Len(input) + 2) /\ 1 + 1 = 2 /\ 2 + 1 = 3
    BY <1>1 DEF Within
  <2>2. ~ Bad(input, 1) /\ Advance1.tok = Tok(1) /\ Advance1.pos = Within(2)
    BY <1>1, <1>4, <2>1, LexIs DEF Advance1, E_UNKNOWN_TOKEN
  <2>3. ~ Bad(input, 2) /\ Advance2.tok = Tok(2) /\ Advance2.pos = Within(3)
    BY <1>1, <1>4, <2>1, <2>2, LexIs DEF Advance2, E_UNKNOWN_TOKEN
  <2>4. curr' = Tok(1) /\ peek' = Tok(2) /\ pos' = Within(3)
    BY <1>4, <2>2, <2>3 DEF NextTokenTwice
  <2>5. \A k \in 1..Len(input) : Tok(k).t \in {"eof"} => Bad(input, k)
    BY <1>1 DEF Tok, TokenType, Bad, Lexemes
  <2>6. /\ Spot(input, Tok(1)) = IF 1 <= Len(input) THEN 1 ELSE Len(input) + 1
        /\ Spot(input, Tok(2)) = IF 2 <= Len(input) THEN 2 ELSE Len(input) + 1
        /\ Tok(2).t = "eof" <=> ~ (2 <= Len(input))
    BY <1>1, <2>2, <2>3, <2>5 DEF Spot, Tok, EOF
  <2>7. InOrder(input', curr', peek', pos')
    BY <1>1, <2>4, <2>6 DEF InOrder, Within
  <2>8. Ops(stack', Len(stack')) = 0
    BY <1>1, OpsStep
  <2>9. Ops(stack', Len(stack')) < Spot(input', curr')
    BY <1>1, <2>4, <2>6, <2>8
  <2> QED
    BY <1>1, <1>2, <1>4, <2>7, <2>9 DEF JunkInv, Counted, CleanUnder, HasResult
<1> QED
  BY <1>3, <1>4 DEF ParserInit, E_UNKNOWN_TOKEN

\* The prefix functions.
LEMMA JunkPrefix ==
  ASSUME ParserInv, JunkInv, mode = "call",
         NoPrefixFunction \/ ParseNumericLiteral \/ ParseUnary \/ ParseGrouped
  PROVE  JunkInv'
<1> DEFINE n == Ops(stack, Len(stack))
<1>1. PICK q : q = Spot(input, peek)
  OBVIOUS
<1>2. /\ InOrder(input, curr, peek, pos)
      /\ Pinned \/ n < Spot(input, curr)
      /\ "prefix" \in dropped => JunkUnder(stack, q) \/ Pinned
      /\ "prefix" \notin dropped => CleanUnder(stack)
  BY <1>1 DEF JunkInv, Held, Counted, HasResult
<1>3. /\ q \in Nat /\ Spot(input, curr) \in Nat /\ Spot(input, curr) <= q
      /\ Advance1.err # 0 <=> Bad(input, pos)
      /\ InOrder(input, peek, Advance1.tok, Advance1.pos)
      /\ q <= Spot(input, Advance1.tok) /\ Spot(input, Advance1.tok) \in Nat
      /\ Bad(input, pos) => Advance1.tok = peek /\ Advance1.pos = pos
  BY <1>1, <1>2, InOrderAdvance
<1>4. IsSeq(stack) /\ n \in Nat /\ Len(input) \in Nat /\ IsToken(curr)
  <2>1. IsSeq(stack) /\ Len(stack) \in Nat
    BY DEF ParserInv, StateOK, FramesOK, IsSeq
  <2> QED
    BY <2>1, OpsStep DEF ParserInv, StateOK
<1> HIDE DEF n
<1>5. ASSUME mode' \in {"loop", "return"}, UNCHANGED <<input, pos, curr, peek, stack, dropped>>,
             ret'.err # 0 \/ ~ Pinned, mode' = "loop" => prec' = prec,
             ret'.err = 0 => Clean(ret'.tree), mode' = "loop" /\ ret'.err # 0 => ret'.tree = Junk
      PROVE  JunkInv'
  <2>1. Pinned => Pinned'
    BY <1>5 DEF Pinned
  <2>2. Counted'
    BY <1>1, <1>2, <1>3, <1>4, <1>5, <2>1 DEF Counted, n
  <2>3. "prefix" \in dropped' => Held(stack', mode', ret', Spot(input', peek'))
    <3>1. ret'.err # 0 => Held(stack', mode', ret', Spot(input', peek'))
      BY <1>5 DEF Held, HasResult
    <3>2. JunkUnder(stack, q) => Held(stack', mode', ret', Spot(input', peek'))
      BY <1>1, <1>5 DEF Held
    <3> QED
      BY <1>2, <1>5, <3>1, <3>2
  <2>4. "prefix" \notin dropped' => CleanUnder(stack')
    BY <1>2, <1>5
  <2> QED
    BY <1>2, <1>5, <2>2, <2>3, <2>4 DEF JunkInv
<1>6. CASE NoPrefixFunction
  BY <1>5, <1>6 DEF NoPrefixFunction, Return, E_INVALID_PREFIX_FN
<1>7. CASE ParseNumericLiteral
  <2>1. ~ Pinned
    BY <1>7 DEF ParseNumericLiteral, Pinned
  <2>2. /\ mode' = "loop" /\ prec' = prec /\ UNCHANGED <<input, pos, curr, peek, stack, dropped>>
        /\ \/ ret' = [err |-> E_LITERAL_TOO_LARGE, tree |-> Junk]
           \/ ret' = [err |-> 0, tree |-> Literal(curr.at)]
    BY <1>7 DEF ParseNumericLiteral, Finish
  <2>3. Clean(Literal(curr.at))
    BY JunkBelow
  <2>4. (ret'.err = 0 => Clean(ret'.tree)) /\ (ret'.err # 0 => ret'.tree = Junk)
    BY <2>2, <2>3 DEF E_LITERAL_TOO_LARGE
  <2> QED
    BY <1>5, <2>1, <2>2, <2>4
<1>8. CASE ParseUnary
  <2>1. curr.t \in {"+", "-"} /\ NextToken /\ UNCHANGED <<input, dropped>>
    BY <1>8 DEF ParseUnary
  <2>2. curr' = peek /\ peek' = Advance1.tok /\ pos' = Advance1.pos
    BY <2>1 DEF NextToken
  <2>3. CASE Advance1.err # 0
    <3>1. /\ mode' = "loop" /\ prec' = prec /\ ret'.err = Advance1.err /\ ret'.tree = Junk
          /\ UNCHANGED stack
      BY <1>8, <2>3 DEF ParseUnary, Finish
    <3>2. peek' = peek /\ pos' = pos
      BY <1>3, <2>2, <2>3
    <3>3. Pinned => Pinned'
      BY <2>1, <2>2, <2>3, <3>1, <3>2 DEF Pinned
    <3>4. Counted'
      BY <1>1, <1>2, <1>3, <1>4, <2>1, <3>1, <3>2, <3>3 DEF Counted, n
    <3>5. InOrder(input', curr', peek', pos')
      BY <1>3, <2>1, <2>2
    <3>6. Held(stack', mode', ret', Spot(input', peek'))
      BY <2>3, <3>1 DEF Held, HasResult
    <3>7. "prefix" \notin dropped' => CleanUnder(stack')
      BY <1>2, <2>1, <3>1
    <3> QED
      BY <2>3, <3>1, <3>4, <3>5, <3>6, <3>7 DEF JunkInv
  <2>4. CASE Advance1.err = 0
    <3> DEFINE f == [fn |-> "unary", op |-> curr.t, prec |-> prec, left |-> Junk]
    <3>1. Call(f, PREFIX) /\ f.fn = "unary"
      BY <1>8, <2>4 DEF ParseUnary
    <3> HIDE DEF f
    <3>2. ~ Bad(input, pos) /\ ~ Pinned
      BY <1>3, <2>4 DEF Pinned
    <3>3. Spot(input, curr) < q
      <4>1. CASE peek.t = "eof"
        BY <1>1, <1>4, <2>1, <4>1 DEF Spot, IsToken
      <4>2. CASE peek.t # "eof"
        BY <1>1, <1>2, <3>2, <4>2 DEF InOrder
      <4> QED
        BY <4>1, <4>2
    <3>4. n + 1 < q
      BY <1>2, <1>3, <1>4, <3>2, <3>3
    <3>5. InOrder(input', curr', peek', pos')
      BY <1>3, <2>1, <2>2
    <3>6. PICK r \in Nat : r = Spot(input, peek') /\ q <= r
      BY <1>3, <2>2
    <3>7. q = Spot(input, curr')
      BY <1>1, <2>2
    <3>8. Ops(stack, Len(stack)) + (IF f.fn = "group" THEN 0 ELSE 1) < q
      BY <3>1, <3>4 DEF n
    <3> QED
      BY <1>1, <1>3, <2>1, <3>1, <3>2, <3>5, <3>6, <3>7, <3>8, JunkCalls
  <2> QED
    BY <2>3, <2>4
<1>9. CASE ParseGrouped
  <2> DEFINE f == [fn |-> "group", op |-> "(", prec |-> prec, left |-> Junk]
  <2>1. /\ curr.t = "(" /\ NextToken /\ UNCHANGED input /\ Call(f, LOWEST) /\ f.fn = "group"
        /\ dropped' = dropped \cup LexerError({Advance1.err})
    BY <1>9 DEF ParseGrouped
  <2> HIDE DEF f
  <2>2. "prefix" \in dropped' <=> "prefix" \in dropped
    BY <2>1 DEF LexerError
  <2>3. ~ Pinned
    BY <2>1 DEF Pinned
  <2>4. curr' = peek /\ peek' = Advance1.tok /\ pos' = Advance1.pos
    BY <2>1 DEF NextToken
  <2>5. InOrder(input', curr', peek', pos')
    BY <1>3, <2>1, <2>4
  <2>6. PICK r \in Nat : r = Spot(input, peek') /\ q <= r
    BY <1>3, <2>4
  <2>7. q = Spot(input, curr')
    BY <1>1, <2>4
  <2>8. Ops(stack, Len(stack)) + (IF f.fn = "group" THEN 0 ELSE 1) < q
    BY <1>2, <1>3, <1>4, <2>1, <2>3 DEF n
  <2> QED
    <3>1. f.fn \in {"unary", "group"} /\ Call(f, LOWEST) /\ UNCHANGED input
      BY <2>1
    <3> QED
      BY <1>1, <1>3, <2>2, <2>3, <2>5, <2>6, <2>7, <2>8, <3>1, JunkCalls
<1> QED
  BY <1>6, <1>7, <1>8, <1>9

\* The loop: an error of the prefix function is forgotten with a left operand nobody wrote.
LEMMA JunkLoop ==
  ASSUME ParserInv, JunkInv, mode = "loop", ParseInfix \/ LoopEnds
  PROVE  JunkInv'
<1> DEFINE n == Ops(stack, Len(stack))
<1>1. PICK q : q = Spot(input, peek)
  OBVIOUS
<1>2. /\ InOrder(input, curr, peek, pos)
      /\ Pinned \/ n < q
      /\ ret.err # 0 => ret.tree = Junk
      /\ "prefix" \in dropped => Held(stack, mode, ret, q)
      /\ "prefix" \notin dropped => CleanUnder(stack) /\ (ret.err = 0 => Clean(ret.tree))
  BY <1>1 DEF JunkInv, Counted, HasResult
<1>3. /\ q \in Nat
      /\ Advance1.err # 0 <=> Bad(input, pos)
      /\ q <= Spot(input, Advance1.tok) /\ Spot(input, Advance1.tok) \in Nat
      /\ Bad(input, pos) => Advance1.tok = peek /\ Advance1.pos = pos
      /\ ~ Bad(input, pos) /\ peek.t # "eof" => q < Spot(input, Advance1.tok)
      /\ InOrder(input, Advance1.tok, Advance2.tok, Advance2.pos)
      /\ Spot(input, Advance1.tok) <= Spot(input, Advance2.tok) /\ Spot(input, Advance2.tok) \in Nat
      /\ Bad(input, pos) => Advance2.tok = peek /\ Advance2.pos = pos
  BY <1>1, <1>2, InOrderAdvance
<1>4. IsSeq(stack) /\ n \in Nat
  <2>1. IsSeq(stack) /\ Len(stack) \in Nat
    BY DEF ParserInv, StateOK, FramesOK, IsSeq
  <2> QED
    BY <2>1, OpsStep
<1> HIDE DEF n
<1>5. CASE LoopEnds
  <2>1. /\ mode' = "return" /\ ret'.err = ret.err /\ ret'.tree = ret.tree
        /\ UNCHANGED <<input, pos, curr, peek, stack, prec, dropped>>
    BY <1>5 DEF LoopEnds, Return
  <2>2. Pinned => Pinned'
    BY <2>1 DEF Pinned
  <2>3. Counted'
    BY <1>1, <1>2, <2>1, <2>2 DEF Counted, n
  <2>4. "prefix" \in dropped' => Held(stack', mode', ret', Spot(input', peek'))
    BY <1>1, <1>2, <2>1 DEF Held, HasResult
  <2> QED
    BY <1>2, <2>1, <2>3, <2>4 DEF JunkInv
<1>6. CASE ParseInfix
  <2> DEFINE f == [fn |-> "binary", op |-> peek.t, prec |-> prec, left |-> ret.tree]
  <2>1. /\ peek.t # "eof" /\ prec < PeekPrecedence(peek.t) /\ NextTokenTwice /\ UNCHANGED input
        /\ Call(f, PeekPrecedence(peek.t)) /\ f.fn = "binary" /\ f.left = ret.tree
        /\ dropped' = dropped \cup LexerError({Advance1.err, Advance2.err})
                              \cup (IF ret.err # 0 THEN {"prefix"} ELSE {})
    BY <1>6 DEF ParseInfix, LoopGoesOn
  <2> HIDE DEF f
  <2>2. "prefix" \in dropped' <=> ("prefix" \in dropped \/ ret.err # 0)
    BY <2>1 DEF LexerError
  <2>3. prec \in LOWEST..PREFIX
    BY DEF ParserInv, StateOK
  <2>4. ~ Pinned /\ peek.t \in {"+", "-", "*"}
    BY <2>1, <2>3 DEF Pinned, PeekPrecedence, LOWEST, SUM, PRODUCT, PREFIX
  <2>5. curr' = Advance1.tok /\ peek' = Advance2.tok /\ pos' = Advance2.pos
    BY <2>1 DEF NextTokenTwice
  <2>6. n < q /\ InOrder(input', curr', peek', pos')
    BY <1>2, <1>3, <2>1, <2>4, <2>5
  <2>7. "prefix" \notin dropped' => CleanUnder(stack) /\ Clean(f.left)
    BY <1>2, <2>1, <2>2
  <2>8. CASE ~ (Len(stack) < MaxFrames)
    <3>1. mode' = "overflow" /\ stack' = stack
      BY <2>1, <2>8 DEF Call
    <3> QED
      BY <2>7, <3>1 DEF JunkInv, Counted, HasResult
  <2>9. CASE Len(stack) < MaxFrames
    <3>1. mode' = "call" /\ stack' = Append(stack, f) /\ prec' = PeekPrecedence(peek.t)
      BY <2>1, <2>9 DEF Call
    <3>2. /\ Len(stack') = Len(stack) + 1 /\ stack'[Len(stack')] = f /\ stack' # <<>>
          /\ Ops(stack', Len(stack')) = n + 1
      BY <1>4, <2>1, <3>1, OpsPush DEF n
    <3>3. "prefix" \notin dropped' => CleanUnder(stack')
      BY <1>4, <2>7, <3>1, CleanUnderPushPop
    <3>4. CASE Bad(input, pos)
      <4>1. curr' = peek /\ peek' = peek /\ pos' = pos
        BY <1>3, <2>5, <3>4
      <4>2. Pinned'
        <5>1. Ops(stack', Len(stack')) <= Spot(input', peek')
          BY <1>1, <1>3, <1>4, <2>1, <2>6, <3>2, <4>1
        <5> QED
          BY <2>1, <2>4, <3>1, <3>2, <3>4, <4>1, <5>1 DEF Pinned
      <4> QED
        BY <2>6, <3>1, <3>3, <4>2 DEF JunkInv, Counted, HasResult
    <3>5. CASE ~ Bad(input, pos)
      <4>1. PICK r \in Nat : r = Spot(input, peek')
        BY <1>3, <2>5
      <4>2. q < Spot(input, curr') /\ q < r /\ Spot(input, curr') \in Nat
        BY <1>3, <2>1, <2>5, <3>5, <4>1
      <4>3. Counted'
        <5>1. Ops(stack', Len(stack')) < Spot(input', curr')
          BY <1>3, <1>4, <2>1, <2>6, <3>2, <4>2
        <5> QED
          BY <3>1, <5>1 DEF Counted
      <4>4. ASSUME NEW d \in Nat, JunkIn(ret.tree, d), d + 1 + n <= q PROVE JunkUnder(stack', r)
        <5>1. d + 2 + n <= r
          BY <1>3, <1>4, <4>2, <4>4
        <5> QED
          BY <1>3, <1>4, <2>1, <3>1, <4>2, <4>4, <5>1, JunkUnderPush DEF n
      <4>5. "prefix" \in dropped' => JunkUnder(stack', r)
        <5>1. CASE ret.err # 0
          <6>1. ret.tree = Junk /\ 0 \in Nat /\ 0 + 1 + n <= q
            BY <1>2, <1>3, <1>4, <2>6, <5>1
          <6>2. JunkIn(ret.tree, 0)
            BY <6>1, JunkBelow
          <6> QED
            BY <4>4, <6>1, <6>2
        <5>2. CASE ret.err = 0
          <6> SUFFICES ASSUME "prefix" \in dropped PROVE JunkUnder(stack', r)
            BY <2>2, <5>2
          <6>1. JunkUnder(stack, q) \/ \E d \in Nat : JunkIn(ret.tree, d) /\ d + 1 + n <= q
            BY <1>2, <5>2 DEF Held, n
          <6>2. JunkUnder(stack, q) => JunkUnder(stack', r)
            <7>1. q <= r
              BY <1>3, <4>2
            <7> QED
              BY <1>3, <1>4, <3>1, <7>1, JunkUnderPush
          <6> QED
            BY <4>4, <6>1, <6>2
        <5> QED
          BY <5>1, <5>2
      <4>6. "prefix" \in dropped' => Held(stack', mode', ret', Spot(input', peek'))
        BY <2>1, <4>1, <4>5 DEF Held
      <4> QED
        BY <2>6, <3>1, <3>3, <4>3, <4>6 DEF JunkInv, HasResult
    <3> QED
      BY <3>4, <3>5
  <2> QED
    BY <2>8, <2>9
<1> QED
  BY <1>5, <1>6

\* A call has returned to the frame f: what junk the tree of the result has was in that of
\* the call, or in the left operand of f.
LEMMA JunkReturns ==
  ASSUME ParserInv, JunkInv, mode = "return", stack # <<>>, UNCHANGED input,
         stack' = SubSeq(stack, 1, Len(stack) - 1), NEW f, f = stack[Len(stack)],
         ("prefix" \in dropped') <=> ("prefix" \in dropped), mode' \in {"loop", "return"},
         InOrder(input', curr', peek', pos'), Spot(input, peek) <= Spot(input', peek'),
         Spot(input', peek') \in Nat,
         mode' = "loop" /\ ret'.err # 0 => ret'.tree = Junk,
         ret'.err = 0 =>
           /\ ret.err = 0
           /\ \A d \in Nat : JunkIn(ret.tree, d) =>
                               JunkIn(ret'.tree, d + (IF f.fn = "group" THEN 0 ELSE 1))
           /\ f.fn = "binary" => \A d \in Nat : JunkIn(f.left, d) => JunkIn(ret'.tree, d + 1)
           /\ Clean(ret.tree) /\ (f.fn = "binary" => Clean(f.left)) => Clean(ret'.tree)
  PROVE  JunkInv'
<1>1. PICK q : q = Spot(input, peek)
  OBVIOUS
<1>2. PICK r \in Nat : r = Spot(input', peek')
  OBVIOUS
<1>3. PICK n : n = Ops(stack, Len(stack))
  OBVIOUS
<1>4. PICK m : m = Ops(stack', Len(stack'))
  OBVIOUS
<1>5. IsSeq(stack)
  BY DEF ParserInv, StateOK, FramesOK
<1>6. m \in Nat /\ n = m + (IF f.fn = "group" THEN 0 ELSE 1)
  BY <1>3, <1>4, <1>5, OpsPop
<1>7. q \in Nat /\ q <= r
  BY <1>1, <1>2, InOrderAdvance DEF JunkInv
<1>8. m < r
  <2>1. (Pinned /\ n <= q /\ f.fn = "binary") \/ n < q
    BY <1>1, <1>3 DEF JunkInv, Counted, Pinned
  <2> QED
    BY <1>6, <1>7, <2>1
<1>9. Counted'
  BY <1>2, <1>4, <1>8 DEF Counted
<1>10. "prefix" \notin dropped' => CleanUnder(stack') /\ (ret'.err = 0 => Clean(ret'.tree))
  <2> SUFFICES ASSUME "prefix" \notin dropped
               PROVE  CleanUnder(stack') /\ (ret'.err = 0 => Clean(ret'.tree))
    OBVIOUS
  <2>1. CleanUnder(stack) /\ (ret.err = 0 => Clean(ret.tree))
    BY DEF JunkInv, HasResult
  <2>2. CleanUnder(stack') /\ (f.fn = "binary" => Clean(f.left))
    BY <1>5, <2>1, CleanUnderPushPop
  <2> QED
    BY <2>1, <2>2
<1>11. "prefix" \in dropped' => Held(stack', mode', ret', r)
  <2> SUFFICES ASSUME "prefix" \in dropped PROVE Held(stack', mode', ret', r)
    OBVIOUS
  <2>1. CASE ret'.err # 0
    BY <2>1 DEF Held, HasResult
  <2>2. CASE ret'.err = 0
    <3>1. ret.err = 0
      BY <2>2
    <3>2. JunkUnder(stack, q) \/ \E d \in Nat : JunkIn(ret.tree, d) /\ d + 1 + n <= q
      BY <1>1, <1>3, <3>1 DEF JunkInv, Held
    <3>3. ASSUME NEW d \in Nat, JunkIn(ret'.tree, d), d + 1 + m <= q PROVE Held(stack', mode', ret', r)
      <4>1. d + 1 + m <= r
        BY <1>6, <1>7, <3>3
      <4> QED
        BY <1>4, <2>2, <3>3, <4>1 DEF Held, HasResult
    <3>4. CASE JunkUnder(stack, q)
      <4>1. \/ JunkUnder(stack', r)
            \/ f.fn = "binary" /\ \E d \in Nat : JunkIn(f.left, d) /\ d + 2 + m <= q
        BY <1>4, <1>5, <1>7, <3>4, JunkUnderPop
      <4>2. ASSUME f.fn = "binary", NEW d \in Nat, JunkIn(f.left, d), d + 2 + m <= q
            PROVE  Held(stack', mode', ret', r)
        <5>1. d + 1 \in Nat /\ JunkIn(ret'.tree, d + 1) /\ (d + 1) + 1 + m <= q
          BY <1>6, <1>7, <2>2, <4>2
        <5> QED
          BY <3>3, <5>1
      <4> QED
        BY <4>1, <4>2 DEF Held
    <3>5. ASSUME NEW d \in Nat, JunkIn(ret.tree, d), d + 1 + n <= q PROVE Held(stack', mode', ret', r)
      <4>1. PICK e \in Nat : e = d + (IF f.fn = "group" THEN 0 ELSE 1)
        OBVIOUS
      <4>2. JunkIn(ret'.tree, e) /\ e + 1 + m <= q
        BY <1>6, <1>7, <2>2, <3>5, <4>1
      <4> QED
        BY <3>3, <4>2
    <3> QED
      BY <3>2, <3>4, <3>5
  <2> QED
    BY <2>1, <2>2
<1> QED
  BY <1>2, <1>9, <1>10, <1>11 DEF JunkInv

\* The frames that a call returns to, and main.
LEMMA JunkReturn ==
  ASSUME ParserInv, JunkInv, mode = "return",
         UnaryReturned \/ GroupedReturned \/ BinaryReturned \/ ParserDone
  PROVE  JunkInv'
<1> USE DEF E_UNCLOSED_PAREN
<1>1. InOrder(input, curr, peek, pos)
  BY DEF JunkInv
<1>2. PICK q \in Nat : q = Spot(input, peek)
  BY <1>1, InOrderAdvance
<1>3. /\ InOrder(input, peek, Advance1.tok, Advance1.pos)
      /\ q <= Spot(input, Advance1.tok) /\ Spot(input, Advance1.tok) \in Nat
  BY <1>1, <1>2, InOrderAdvance
<1>4. CASE UnaryReturned
  <2> DEFINE f == stack[Len(stack)]
  <2>1. /\ stack # <<>> /\ f.fn = "unary" /\ stack' = SubSeq(stack, 1, Len(stack) - 1) /\ mode' = "loop"
        /\ \/ ret.err # 0 /\ ret' = [err |-> ret.err, tree |-> Junk]
           \/ ret.err = 0 /\ ret' = [err |-> 0, tree |-> UnaryNode(f.op, ret.tree)]
        /\ UNCHANGED <<input, pos, curr, peek, dropped>>
    BY <1>4 DEF UnaryReturned, Finish
  <2> HIDE DEF f
  <2>2. ret'.err # 0 => ret'.tree = Junk
    BY <2>1
  <2>3. ret'.err = 0 =>
          /\ ret.err = 0
          /\ \A d \in Nat : JunkIn(ret.tree, d) => JunkIn(ret'.tree, d + 1)
          /\ Clean(ret.tree) => Clean(ret'.tree)
    BY <2>1, JunkBelow
  <2>4. InOrder(input', curr', peek', pos') /\ Spot(input', peek') = q
    BY <1>1, <1>2, <2>1
  <2> QED
    BY <1>2, <2>1, <2>2, <2>3, <2>4, JunkReturns DEF f
<1>5. CASE GroupedReturned
  <2> DEFINE f == stack[Len(stack)]
  <2>1. /\ stack # <<>> /\ f.fn = "group" /\ stack' = SubSeq(stack, 1, Len(stack) - 1) /\ mode' = "loop"
        /\ \/ /\ ret'.err # 0 /\ ret'.tree = Junk
              /\ UNCHANGED <<pos, curr, peek, dropped>>
           \/ /\ ret.err = 0 /\ ret' = [err |-> 0, tree |-> ret.tree]
              /\ NextToken /\ dropped' = dropped \cup LexerError({Advance1.err})
        /\ UNCHANGED input
    <3>1. /\ stack # <<>> /\ f.fn = "group" /\ stack' = SubSeq(stack, 1, Len(stack) - 1)
          /\ mode' = "loop" /\ UNCHANGED input
      BY <1>5 DEF GroupedReturned, Finish
    <3>2. CASE ret.err # 0 \/ peek.t # ")"
      <4>1. /\ ret' = [err |-> IF ret.err # 0 THEN ret.err ELSE E_UNCLOSED_PAREN, tree |-> Junk]
            /\ UNCHANGED <<pos, curr, peek, dropped>>
        BY <1>5, <3>2 DEF GroupedReturned, Finish
      <4> QED
        BY <3>1, <4>1
    <3>3. CASE ~ (ret.err # 0 \/ peek.t # ")")
      BY <1>5, <3>1, <3>3 DEF GroupedReturned, Finish
    <3> QED
      BY <3>2, <3>3
  <2> HIDE DEF f
  <2>2. ("prefix" \in dropped') <=> ("prefix" \in dropped)
    BY <2>1 DEF LexerError
  <2>3. ret'.err # 0 => ret'.tree = Junk
    BY <2>1
  <2>4. ret'.err = 0 =>
          /\ ret.err = 0
          /\ \A d \in Nat : JunkIn(ret.tree, d) => JunkIn(ret'.tree, d + 0)
          /\ Clean(ret.tree) => Clean(ret'.tree)
    BY <2>1
  <2>5. InOrder(input', curr', peek', pos') /\ Spot(input', peek') \in Nat /\ q <= Spot(input', peek')
    BY <1>1, <1>2, <1>3, <2>1 DEF NextToken
  <2> QED
    BY <1>2, <2>1, <2>2, <2>3, <2>4, <2>5, JunkReturns DEF f
<1>6. CASE BinaryReturned
  <2> DEFINE f == stack[Len(stack)]
  <2>1. /\ stack # <<>> /\ f.fn = "binary" /\ stack' = SubSeq(stack, 1, Len(stack) - 1)
        /\ \/ ret.err # 0 /\ mode' = "return" /\ ret'.err = ret.err
           \/ /\ ret.err = 0 /\ mode' = "loop"
              /\ ret' = [err |-> 0, tree |-> BinaryNode(f.op, f.left, ret.tree)]
        /\ UNCHANGED <<input, pos, curr, peek, dropped>>
    BY <1>6 DEF BinaryReturned, Finish, Return
  <2> HIDE DEF f
  <2>2. mode' = "loop" /\ ret'.err # 0 => ret'.tree = Junk
    BY <2>1
  <2>3. ret'.err = 0 =>
          /\ ret.err = 0
          /\ \A d \in Nat : JunkIn(ret.tree, d) => JunkIn(ret'.tree, d + 1)
          /\ \A d \in Nat : JunkIn(f.left, d) => JunkIn(ret'.tree, d + 1)
          /\ Clean(ret.tree) /\ Clean(f.left) => Clean(ret'.tree)
    BY <2>1, JunkBelow
  <2>4. InOrder(input', curr', peek', pos') /\ Spot(input', peek') = q
    BY <1>1, <1>2, <2>1
  <2> QED
    BY <1>2, <2>1, <2>2, <2>3, <2>4, JunkReturns DEF f
<1>7. CASE ParserDone
  <2>1. mode' = "done" /\ stack = <<>> /\ UNCHANGED <<input, peek, stack, ret, dropped>>
    BY <1>7 DEF ParserDone
  <2>2. Counted'
    BY <2>1 DEF Counted
  <2>3. "prefix" \in dropped' => Held(stack', mode', ret', Spot(input', peek'))
    BY <2>1 DEF JunkInv, Held, HasResult
  <2>4. "prefix" \notin dropped' => CleanUnder(stack') /\ (ret'.err = 0 => Clean(ret'.tree))
    BY <2>1 DEF JunkInv, HasResult
  <2> QED
    BY <2>1, <2>2, <2>3, <2>4 DEF JunkInv
<1> QED
  BY <1>4, <1>5, <1>6, <1>7

\* Each step of the parser.
LEMMA JunkNext == ParserInv /\ JunkInv /\ [Next]_vars => JunkInv'
<1> SUFFICES ASSUME ParserInv, JunkInv, [Next]_vars PROVE JunkInv'
  OBVIOUS
<1>1. CASE UNCHANGED vars
  <2>1. UNCHANGED <<input, pos, curr, peek, stack, mode, prec, ret, dropped>>
    BY <1>1 DEF vars
  <2>2. Counted'
    BY <2>1 DEF JunkInv, Counted, Pinned
  <2>3. Pinned => Pinned'
    BY <2>1 DEF Pinned
  <2> QED
    BY <2>1, <2>2, <2>3 DEF JunkInv
<1>2. CASE ParserInit
  BY <1>2, JunkStarts
<1>3. CASE NoPrefixFunction \/ ParseNumericLiteral \/ ParseUnary \/ ParseGrouped
  <2>1. mode = "call"
    BY <1>3 DEF NoPrefixFunction, ParseNumericLiteral, ParseUnary, ParseGrouped
  <2> QED
    BY <1>3, <2>1, JunkPrefix
<1>4. CASE ParseInfix \/ LoopEnds
  <2>1. mode = "loop"
    BY <1>4 DEF ParseInfix, LoopEnds
  <2> QED
    BY <1>4, <2>1, JunkLoop
<1>5. CASE UnaryReturned \/ GroupedReturned \/ BinaryReturned \/ ParserDone
  <2>1. mode = "return"
    BY <1>5 DEF UnaryReturned, GroupedReturned, BinaryReturned, ParserDone
  <2> QED
    BY <1>5, <2>1, JunkReturn
<1> QED
  BY <1>1, <1>2, <1>3, <1>4, <1>5 DEF Next

\* The front end has the parser's invariant from the start of the parser on.
LEMMA FrontendJunkNext ==
  FrontendInv /\ (mode # "lexing" => JunkInv) /\ [FrontendNext]_<<vars, lexerVars>>
    => (mode # "lexing" => JunkInv)'
<1> SUFFICES ASSUME FrontendInv, mode # "lexing" => JunkInv, [FrontendNext]_<<vars, lexerVars>>,
                    mode' # "lexing"
             PROVE  JunkInv'
  OBVIOUS
<1>1. CASE mode # "lexing" /\ [Next]_vars
  BY <1>1, JunkNext DEF FrontendInv
<1>2. CASE StartParser
  <2>1. mode' = "start" /\ UNCHANGED <<stack, ret, dropped>> /\ Waiting
    BY <1>2 DEF StartParser, FrontendInv
  <2>2. stack' = <<>> /\ dropped' = {} /\ Len(stack') = 0
    BY <2>1 DEF Waiting
  <2> QED
    BY <2>1, <2>2 DEF JunkInv, Counted, CleanUnder, HasResult
<1> QED
  BY <1>1, <1>2 DEF FrontendNext, Lexing, Parsing, vars

\* An accepted expression has an operand that no parse function wrote just when the error
\* of a prefix function was forgotten, whatever became of it afterwards: the operand is never
\* lost, nor deeper in the tree than there are lexemes (main.c 811-848).
THEOREM FrontendForgottenErrorLeavesJunk == FrontendSpec => []ForgottenErrorLeavesJunk
<1> DEFINE Inv == mode # "lexing" => JunkInv
<1>1. FrontendInit => Inv
  BY DEF FrontendInit
<1>2. FrontendInv /\ Inv => ForgottenErrorLeavesJunk
  <2> SUFFICES ASSUME FrontendInv, JunkInv, mode = "done", ret.err = 0
               PROVE  HasJunk(ret.tree) <=> "prefix" \in dropped
    BY DEF ForgottenErrorLeavesJunk, Accepted
  <2>1. /\ input \in Seq(Lexemes) /\ Len(input) \in Nat /\ IsToken(peek) /\ IsSeq(stack)
        /\ Len(stack) \in Nat
    BY DEF FrontendInv, ParserInv, StateOK, FramesOK, IsSeq
  <2>2. HasJunk(ret.tree) <=> JunkIn(ret.tree, Len(input))
    BY DEF HasJunk, JunkIn
  <2>3. "prefix" \notin dropped => ~ JunkIn(ret.tree, Len(input))
    BY <2>1 DEF JunkInv, HasResult, Clean
  <2>4. ASSUME "prefix" \in dropped PROVE JunkIn(ret.tree, Len(input))
    <3>1. PICK q \in 0..(Len(input) + 1) : q = Spot(input, peek)
      BY <2>1 DEF Spot, IsToken
    <3>2. PICK d \in Nat : JunkIn(ret.tree, d) /\ d + 1 + Ops(stack, Len(stack)) <= q
      <4>1. Len(stack) = 0 /\ ~ JunkUnder(stack, q)
        BY DEF JunkInv, JunkUnder
      <4> QED
        BY <2>4, <3>1, <4>1 DEF JunkInv, Held
    <3>3. Ops(stack, Len(stack)) \in Nat
      BY <2>1, OpsStep
    <3>4. d <= Len(input)
      BY <2>1, <3>1, <3>2, <3>3
    <3> QED
      BY <2>1, <3>2, <3>4, NodesGrow DEF JunkIn
  <2> QED
    BY <2>2, <2>3, <2>4
<1>3. FrontendInv /\ Inv /\ [FrontendNext]_<<vars, lexerVars>> => Inv'
  BY FrontendJunkNext
<1> HIDE DEF Inv
<1> QED
  BY <1>1, <1>2, <1>3, FrontendInitInv, FrontendNextInv, PTL DEF FrontendSpec
-----------------------------------------------------------------------------
(***************************************************************************)
(* What is parsed: tokens and trees are made of the lexemes of the input,  *)
(* here of any w.                                                          *)
(***************************************************************************)
TokenOf(w, k) ==
  \/ k = EOF
  \/ \E i \in 1..Len(w) : w[i] # "bad" /\ k = [t |-> TokenType(w[i]), at |-> i]

NodeOf(w, n) ==
  \/ n = Junk
  \/ \E i \in 1..Len(w) : w[i] = "num" /\ n = Literal(i)
  \/ n.op \in {"pos", "neg"} /\ n.at = 0 /\ Len(n.args) = 1
  \/ n.op \in {"add", "sub", "mul"} /\ n.at = 0 /\ Len(n.args) = 2

\* The nodes of a tree, at any depth.
Formed(w, tree) == \A d \in Nat : \A n \in Nodes(tree, d) : NodeOf(w, n)

\* The frames, each with what its function has.
FrameOf(w, f) ==
  /\ \/ f.fn = "unary" /\ f.op \in {"+", "-"} /\ f.left = Junk
     \/ f.fn = "group" /\ f.op = "(" /\ f.left = Junk
     \/ f.fn = "binary" /\ f.op \in {"+", "-", "*"}
  /\ Formed(w, f.left)

FramesOf(w, s) == \A k \in 1..Len(s) : FrameOf(w, s[k])

\* The zero token of parser_t is gone once parser_init has read two.
Blanked == mode \in {"start", "done"}

TreesInv ==
  /\ TokenOf(input, curr) \/ (Blanked /\ curr = NoToken)
  /\ TokenOf(input, peek) \/ (Blanked /\ peek = NoToken)
  /\ FramesOf(input, stack)
  /\ Formed(input, ret.tree)

\* The trees the parse functions build, from nothing and of others.
LEMMA FormedBuilt ==
  ASSUME NEW w
  PROVE  /\ Formed(w, Junk)
         /\ \A i \in 1..Len(w) : w[i] = "num" => Formed(w, Literal(i))
         /\ \A t, v : Formed(w, v) => Formed(w, UnaryNode(t, v))
         /\ \A t, l, r : Formed(w, l) /\ Formed(w, r) => Formed(w, BinaryNode(t, l, r))
<1>1. ASSUME NEW tree, NodeOf(w, tree), \A k \in DOMAIN tree.args : Formed(w, tree.args[k])
      PROVE  Formed(w, tree)
  <2> SUFFICES ASSUME NEW d \in Nat, NEW n \in Nodes(tree, d) PROVE NodeOf(w, n)
    BY DEF Formed
  <2>1. CASE d = 0
    BY <1>1, <2>1, NodesUnfold
  <2>2. CASE d # 0
    <3>1. d - 1 \in Nat /\ (d - 1) + 1 = d
      BY <2>2
    <3>2. n = tree \/ \E k \in DOMAIN tree.args : n \in Nodes(tree.args[k], d - 1)
      BY <3>1, NodesBelow
    <3> QED
      BY <1>1, <3>1, <3>2 DEF Formed
  <2> QED
    BY <2>1, <2>2
<1>2. Formed(w, Junk)
  <2>1. NodeOf(w, Junk) /\ Junk.args = <<>>
    BY DEF NodeOf, Junk
  <2>2. DOMAIN Junk.args = {}
    BY <2>1
  <2> QED
    BY <1>1, <2>1, <2>2
<1>3. ASSUME NEW i \in 1..Len(w), w[i] = "num" PROVE Formed(w, Literal(i))
  <2>1. NodeOf(w, Literal(i))
    BY <1>3 DEF NodeOf
  <2>2. Literal(i).args = <<>>
    BY DEF Literal
  <2>3. DOMAIN Literal(i).args = {}
    BY <2>2
  <2> QED
    BY <1>1, <2>1, <2>3
<1>4. ASSUME NEW t, NEW v, Formed(w, v) PROVE Formed(w, UnaryNode(t, v))
  <2>1. /\ UnaryNode(t, v).op \in {"pos", "neg"} /\ UnaryNode(t, v).at = 0
        /\ UnaryNode(t, v).args = <<v>>
    BY DEF UnaryNode, UnaryPlus, UnaryMinus
  <2>2. Len(<<v>>) = 1 /\ DOMAIN <<v>> = {1} /\ <<v>>[1] = v
    OBVIOUS
  <2>3. NodeOf(w, UnaryNode(t, v))
    BY <2>1, <2>2 DEF NodeOf
  <2> QED
    BY <1>1, <1>4, <2>1, <2>2, <2>3
<1>5. ASSUME NEW t, NEW l, NEW r, Formed(w, l), Formed(w, r) PROVE Formed(w, BinaryNode(t, l, r))
  <2>1. /\ BinaryNode(t, l, r).op \in {"add", "sub", "mul"} /\ BinaryNode(t, l, r).at = 0
        /\ BinaryNode(t, l, r).args = <<l, r>>
    BY DEF BinaryNode, BinaryPlus, BinaryMinus, BinaryMul
  <2>2. Len(<<l, r>>) = 2 /\ DOMAIN <<l, r>> = {1, 2} /\ <<l, r>>[1] = l /\ <<l, r>>[2] = r
    OBVIOUS
  <2>3. NodeOf(w, BinaryNode(t, l, r))
    BY <2>1, <2>2 DEF NodeOf
  <2> QED
    BY <1>1, <1>5, <2>1, <2>2, <2>3
<1> QED
  BY <1>2, <1>3, <1>4, <1>5

\* A token that is read is one of the input, and one it leaves as it was is what it was.
LEMMA TokenRead ==
  ASSUME input \in Seq(Lexemes), NEW p \in 1..(Len(input) + 1), NEW stale
  PROVE  TokenOf(input, Lex(p, stale).tok) \/ (Lex(p, stale).err # 0 /\ Lex(p, stale).tok = stale)
<1>1. CASE p > Len(input)
  BY <1>1 DEF Lex, TokenOf
<1>2. CASE p <= Len(input) /\ input[p] = "bad"
  <2>1. Lex(p, stale) = [err |-> E_UNKNOWN_TOKEN, tok |-> stale, pos |-> p]
    BY <1>2 DEF Lex
  <2> QED
    BY <2>1 DEF E_UNKNOWN_TOKEN
<1>3. CASE p <= Len(input) /\ input[p] # "bad"
  <2>1. Lex(p, stale).tok = [t |-> TokenType(input[p]), at |-> p] /\ p \in 1..Len(input)
    BY <1>3 DEF Lex
  <2> QED
    BY <1>3, <2>1 DEF TokenOf
<1> QED
  BY <1>1, <1>2, <1>3

\* So are the next token and the one behind it.
LEMMA TokensRead ==
  ASSUME ParserInv
  PROVE  /\ TokenOf(input, peek) => TokenOf(input, Advance1.tok) /\ TokenOf(input, Advance2.tok)
         /\ TokenOf(input, Advance1.tok) \/ (Advance1.err # 0 /\ Advance1.tok = peek)
         /\ Advance1.err = 0 => TokenOf(input, Advance1.tok) /\ TokenOf(input, Advance2.tok)
<1>1. /\ input \in Seq(Lexemes) /\ pos \in 1..(Len(input) + 1)
      /\ Advance1.pos \in 1..(Len(input) + 1)
  BY Advances DEF ParserInv, StateOK
<1>2. TokenOf(input, Advance1.tok) \/ (Advance1.err # 0 /\ Advance1.tok = peek)
  BY <1>1, TokenRead DEF Advance1
<1>3. TokenOf(input, Advance2.tok) \/ Advance2.tok = Advance1.tok
  BY <1>1, TokenRead DEF Advance2
<1> QED
  BY <1>2, <1>3

\* A frame more, and one less.
LEMMA FramesOfPushPop ==
  ASSUME NEW w, NEW s, IsSeq(s), FramesOf(w, s)
  PROVE  /\ \A f : FrameOf(w, f) => FramesOf(w, Append(s, f))
         /\ s # <<>> => FramesOf(w, SubSeq(s, 1, Len(s) - 1)) /\ FrameOf(w, s[Len(s)])
<1>1. ASSUME NEW f, FrameOf(w, f) PROVE FramesOf(w, Append(s, f))
  <2> DEFINE z == Append(s, f)
  <2>1. Len(s) \in Nat /\ Len(z) = Len(s) + 1 /\ z[Len(s) + 1] = f /\ \A k \in 1..Len(s) : z[k] = s[k]
    BY IsSeqAppend
  <2>2. \A k \in 1..(Len(s) + 1) : k \in 1..Len(s) \/ k = Len(s) + 1
    BY <2>1
  <2> HIDE DEF z
  <2>3. FramesOf(w, z)
    BY <1>1, <2>1, <2>2 DEF FramesOf
  <2> QED
    BY <2>3 DEF z
<1>2. ASSUME s # <<>> PROVE FramesOf(w, SubSeq(s, 1, Len(s) - 1)) /\ FrameOf(w, s[Len(s)])
  <2> DEFINE z == Front(s)
  <2>1. Len(s) \in Nat \ {0} /\ Len(z) = Len(s) - 1 /\ \A k \in 1..(Len(s) - 1) : z[k] = s[k]
    BY <1>2, IsSeqFront
  <2>2. Len(s) \in 1..Len(s) /\ \A k \in 1..(Len(s) - 1) : k \in 1..Len(s)
    BY <2>1
  <2> HIDE DEF z
  <2>3. FramesOf(w, z) /\ FrameOf(w, s[Len(s)])
    BY <2>1, <2>2 DEF FramesOf
  <2> QED
    BY <2>3 DEF z, Front
<1> QED
  BY <1>1, <1>2

\* The frames after a call.
LEMMA TreesCall ==
  ASSUME ParserInv, TreesInv, NEW f, FrameOf(input, f), NEW p, Call(f, p)
  PROVE  FramesOf(input, stack')
<1>1. IsSeq(stack)
  BY DEF ParserInv, StateOK, FramesOK
<1>2. stack' = stack \/ stack' = Append(stack, f)
  BY DEF Call
<1> QED
  BY <1>1, <1>2, FramesOfPushPop DEF TreesInv

\* The prefix functions.
LEMMA TreesPrefix ==
  ASSUME ParserInv, TreesInv, NoPrefixFunction \/ ParseNumericLiteral \/ ParseUnary \/ ParseGrouped
  PROVE  TreesInv'
<1>1. /\ mode = "call" /\ UNCHANGED input
      /\ TokenOf(input, curr) /\ TokenOf(input, peek)
      /\ FramesOf(input, stack) /\ Formed(input, ret.tree)
  BY DEF TreesInv, Blanked, NoPrefixFunction, ParseNumericLiteral, ParseUnary, ParseGrouped
<1>2. Formed(input, Junk) /\ TokenOf(input, Advance1.tok)
  BY <1>1, FormedBuilt, TokensRead
<1>3. CASE NoPrefixFunction
  <2>1. UNCHANGED <<curr, peek, stack>> /\ ret'.tree = Junk
    BY <1>3 DEF NoPrefixFunction, Return
  <2> QED
    BY <1>1, <1>2, <2>1 DEF TreesInv
<1>4. CASE ParseNumericLiteral
  <2>1. /\ UNCHANGED <<curr, peek, stack>> /\ curr.t = "num"
        /\ ret'.tree = Junk \/ (input[curr.at] # "big" /\ ret'.tree = Literal(curr.at))
    BY <1>4 DEF ParseNumericLiteral, Finish
  <2>2. PICK i \in 1..Len(input) : input[i] # "bad" /\ curr = [t |-> TokenType(input[i]), at |-> i]
    BY <1>1, <2>1 DEF TokenOf, EOF
  <2>3. curr.at = i /\ TokenType(input[i]) = "num"
    BY <2>1, <2>2
  <2>4. input[i] \in {"num", "big"}
    BY <2>3 DEF TokenType
  <2>5. Formed(input, ret'.tree)
    BY <1>2, <2>1, <2>3, <2>4, FormedBuilt
  <2> QED
    BY <1>1, <2>1, <2>5 DEF TreesInv
<1>5. CASE ParseUnary
  <2> DEFINE f == [fn |-> "unary", op |-> curr.t, prec |-> prec, left |-> Junk]
  <2>1. FrameOf(input, f)
    BY <1>2, <1>5 DEF FrameOf, ParseUnary
  <2>2. /\ NextToken
        /\ (stack' = stack /\ ret'.tree = Junk) \/ (Call(f, PREFIX) /\ UNCHANGED ret)
    BY <1>5 DEF ParseUnary, Finish
  <2> HIDE DEF f
  <2>3. FramesOf(input, stack') /\ Formed(input, ret'.tree)
    BY <1>1, <1>2, <2>1, <2>2, TreesCall
  <2> QED
    BY <1>1, <1>2, <2>2, <2>3 DEF TreesInv, NextToken
<1>6. CASE ParseGrouped
  <2> DEFINE f == [fn |-> "group", op |-> "(", prec |-> prec, left |-> Junk]
  <2>1. FrameOf(input, f)
    BY <1>2 DEF FrameOf
  <2>2. NextToken /\ Call(f, LOWEST) /\ UNCHANGED ret
    BY <1>6 DEF ParseGrouped
  <2> HIDE DEF f
  <2>3. FramesOf(input, stack')
    BY <2>1, <2>2, TreesCall
  <2> QED
    BY <1>1, <1>2, <2>2, <2>3 DEF TreesInv, NextToken
<1> QED
  BY <1>3, <1>4, <1>5, <1>6

\* The loop.
LEMMA TreesLoop ==
  ASSUME ParserInv, TreesInv, ParseInfix \/ LoopEnds
  PROVE  TreesInv'
<1>1. /\ mode = "loop" /\ UNCHANGED input
      /\ TokenOf(input, curr) /\ TokenOf(input, peek)
      /\ FramesOf(input, stack) /\ Formed(input, ret.tree)
  BY DEF TreesInv, Blanked, ParseInfix, LoopEnds
<1>2. TokenOf(input, Advance1.tok) /\ TokenOf(input, Advance2.tok)
  BY <1>1, TokensRead
<1>3. CASE LoopEnds
  <2>1. UNCHANGED <<curr, peek, stack>> /\ ret'.tree = ret.tree
    BY <1>3 DEF LoopEnds, Return
  <2> QED
    BY <1>1, <2>1 DEF TreesInv
<1>4. CASE ParseInfix
  <2> DEFINE f == [fn |-> "binary", op |-> peek.t, prec |-> prec, left |-> ret.tree]
  <2>1. peek.t \in {"+", "-", "*"}
    <3>1. prec \in LOWEST..PREFIX /\ prec < PeekPrecedence(peek.t)
      BY <1>4 DEF ParseInfix, LoopGoesOn, ParserInv, StateOK
    <3> QED
      BY <3>1 DEF PeekPrecedence, LOWEST, SUM, PRODUCT, PREFIX
  <2>2. FrameOf(input, f)
    BY <1>1, <2>1 DEF FrameOf
  <2>3. NextTokenTwice /\ Call(f, PeekPrecedence(peek.t)) /\ UNCHANGED ret
    BY <1>4 DEF ParseInfix
  <2> HIDE DEF f
  <2>4. FramesOf(input, stack')
    BY <2>2, <2>3, TreesCall
  <2> QED
    BY <1>1, <1>2, <2>3, <2>4 DEF TreesInv, NextTokenTwice
<1> QED
  BY <1>3, <1>4

\* The returns.
LEMMA TreesReturn ==
  ASSUME ParserInv, TreesInv, UnaryReturned \/ GroupedReturned \/ BinaryReturned \/ ParserDone
  PROVE  TreesInv'
<1>1. /\ mode = "return" /\ UNCHANGED input
      /\ TokenOf(input, curr) /\ TokenOf(input, peek)
      /\ FramesOf(input, stack) /\ Formed(input, ret.tree)
  BY DEF TreesInv, Blanked, UnaryReturned, GroupedReturned, BinaryReturned, ParserDone
<1>2. TokenOf(input, Advance1.tok) /\ Formed(input, Junk)
  BY <1>1, TokensRead, FormedBuilt
<1>3. ASSUME stack # <<>>, NEW f, f = stack[Len(stack)]
      PROVE  FramesOf(input, SubSeq(stack, 1, Len(stack) - 1)) /\ Formed(input, f.left)
  <2>1. IsSeq(stack)
    BY DEF ParserInv, StateOK, FramesOK
  <2> QED
    BY <1>1, <1>3, <2>1, FramesOfPushPop DEF FrameOf
<1>4. PICK f : f = stack[Len(stack)]
  OBVIOUS
<1>5. CASE UnaryReturned
  <2>1. /\ stack # <<>> /\ stack' = SubSeq(stack, 1, Len(stack) - 1) /\ UNCHANGED <<curr, peek>>
        /\ ret'.tree \in {Junk, UnaryNode(f.op, ret.tree)}
    BY <1>4, <1>5 DEF UnaryReturned, Finish
  <2>2. Formed(input, ret'.tree)
    BY <1>1, <1>2, <2>1, FormedBuilt
  <2> QED
    BY <1>1, <1>3, <1>4, <2>1, <2>2 DEF TreesInv
<1>6. CASE BinaryReturned
  <2>1. /\ stack # <<>> /\ stack' = SubSeq(stack, 1, Len(stack) - 1) /\ UNCHANGED <<curr, peek>>
        /\ ret'.tree \in {f.left, BinaryNode(f.op, f.left, ret.tree)}
    BY <1>4, <1>6 DEF BinaryReturned, Finish, Return
  <2>2. Formed(input, f.left)
    BY <1>3, <1>4, <2>1
  <2>3. Formed(input, ret'.tree)
    BY <1>1, <2>1, <2>2, FormedBuilt
  <2> QED
    BY <1>1, <1>3, <1>4, <2>1, <2>3 DEF TreesInv
<1>7. CASE GroupedReturned
  <2>1. /\ stack # <<>> /\ stack' = SubSeq(stack, 1, Len(stack) - 1)
        /\ UNCHANGED <<curr, peek>> \/ NextToken
        /\ ret'.tree \in {Junk, ret.tree}
    BY <1>7 DEF GroupedReturned, Finish
  <2>2. TokenOf(input, curr') /\ TokenOf(input, peek')
    BY <1>1, <1>2, <2>1 DEF NextToken
  <2> QED
    BY <1>1, <1>2, <1>3, <1>4, <2>1, <2>2 DEF TreesInv
<1>8. CASE ParserDone
  BY <1>1, <1>8 DEF ParserDone, TreesInv
<1> QED
  BY <1>5, <1>6, <1>7, <1>8

\* parser_init: two tokens of the input, or an error.
LEMMA TreesStart ==
  ASSUME ParserInv, TreesInv, ParserInit
  PROVE  TreesInv'
<1>1. UNCHANGED <<input, stack>> /\ FramesOf(input, stack) /\ Formed(input, ret.tree) /\ mode = "start"
  BY DEF ParserInit, TreesInv
<1>2. Formed(input, Junk)
  BY FormedBuilt
<1>3. CASE /\ mode' = "done" /\ ret' = [err |-> E_UNKNOWN_TOKEN, tree |-> Junk]
           /\ UNCHANGED <<pos, curr, peek>>
  BY <1>1, <1>2, <1>3 DEF TreesInv, Blanked
<1>4. CASE /\ NextToken /\ mode' = "done" /\ ret' = [err |-> Advance1.err, tree |-> Junk]
  <2>1. TokenOf(input, peek') \/ peek' = peek
    BY <1>4, TokensRead DEF NextToken
  <2>2. curr' = peek /\ Blanked' /\ ret'.tree = Junk
    BY <1>4 DEF NextToken, Blanked
  <2> QED
    BY <1>1, <1>2, <2>1, <2>2 DEF TreesInv
<1>5. CASE /\ Advance1.err = 0 /\ NextTokenTwice
           /\ IF Advance2.err # 0
              THEN mode' = "done" /\ ret' = [err |-> Advance2.err, tree |-> Junk]
              ELSE mode' = "call" /\ UNCHANGED ret
  <2>1. TokenOf(input, curr') /\ TokenOf(input, peek')
    BY <1>5, TokensRead DEF NextTokenTwice
  <2>2. ret'.tree \in {Junk, ret.tree}
    BY <1>5
  <2> QED
    BY <1>1, <1>2, <2>1, <2>2 DEF TreesInv
<1> QED
  BY <1>3, <1>4, <1>5 DEF ParserInit

\* Each step of the parser.
LEMMA TreesNext == ParserInv /\ TreesInv /\ [Next]_vars => TreesInv'
<1>1. TreesInv /\ UNCHANGED vars => TreesInv'
  BY DEF vars, TreesInv, Blanked
<1> QED
  BY <1>1, TreesStart, TreesPrefix, TreesLoop, TreesReturn DEF Next

\* The front end has them from the start of the parser on.
LEMMA FrontendTreesNext ==
  FrontendInv /\ (mode # "lexing" => TreesInv) /\ [FrontendNext]_<<vars, lexerVars>>
    => (mode # "lexing" => TreesInv)'
<1> SUFFICES ASSUME FrontendInv, mode # "lexing" => TreesInv, [FrontendNext]_<<vars, lexerVars>>,
                    mode' # "lexing"
             PROVE  TreesInv'
  OBVIOUS
<1>1. CASE mode # "lexing" /\ [Next]_vars
  BY <1>1, TreesNext DEF FrontendInv
<1>2. CASE StartParser
  <2>1. mode' = "start" /\ UNCHANGED <<curr, peek, stack, ret>> /\ Waiting
    BY <1>2 DEF StartParser, FrontendInv
  <2>2. stack' = <<>> /\ Len(stack') = 0 /\ ret'.tree = Junk /\ curr' = NoToken /\ peek' = NoToken
    BY <2>1 DEF Waiting
  <2>3. Formed(input', ret'.tree)
    BY <2>2, FormedBuilt
  <2> QED
    BY <2>1, <2>2, <2>3 DEF TreesInv, Blanked, FramesOf
<1> QED
  BY <1>1, <1>2 DEF FrontendNext, Lexing, Parsing, vars

\* Cursor, characters and tokens of the lexer have their types; the tokens the parser looks
\* at are tokens of its lexemes, the trees in its frames and its result are built of literals
\* of them, each operation on as many operands as it takes, and it is given no more lexemes
\* than there are characters (main.c 381-517, 784-848).
THEOREM FrontendTypeCorrect == FrontendSpec => []FrontendTypeOK
<1> DEFINE Inv == mode # "lexing" => TreesInv
<1>1. FrontendInit => Inv
  BY DEF FrontendInit
<1>2. FrontendInv /\ Inv => FrontendTypeOK
  <2> SUFFICES ASSUME FrontendInv, Inv PROVE FrontendTypeOK
    OBVIOUS
  <2>1. ASSUME mode # "lexing" PROVE TypeOK
    <3>1. ParserInv /\ TreesInv /\ Len(input) \in Nat
      BY <2>1 DEF FrontendInv, ParserInv
    <3>2. \A k : TokenOf(input, k) => TokenOfInput(k)
      BY DEF TokenOf, TokenOfInput
    <3>3. \A tree : Formed(input, tree) => TreeOfInput(tree)
      BY <3>1 DEF Formed, TreeOfInput, NodeOf, NodeOfInput
    <3>4. \A k \in {curr, peek} : TokenOfInput(k) \/ (mode \in {"start", "done"} /\ k = NoToken)
      BY <3>1, <3>2 DEF TreesInv, Blanked
    <3>5. ASSUME NEW i \in 1..Len(stack)
          PROVE  /\ \/ stack[i].fn = "unary" /\ stack[i].op \in {"+", "-"} /\ stack[i].left = Junk
                    \/ stack[i].fn = "group" /\ stack[i].op = "(" /\ stack[i].left = Junk
                    \/ stack[i].fn = "binary" /\ stack[i].op \in {"+", "-", "*"}
                 /\ stack[i].prec \in LOWEST..PREFIX
                 /\ TreeOfInput(stack[i].left)
      <4>1. FrameOf(input, stack[i]) /\ FrameOK(stack[i])
        BY <3>1 DEF TreesInv, FramesOf, ParserInv, StateOK, FramesOK
      <4> QED
        BY <3>3, <4>1 DEF FrameOf, FrameOK
    <3>6. TreeOfInput(ret.tree)
      BY <3>1, <3>3 DEF TreesInv
    <3> QED
      BY <3>1, <3>4, <3>5, <3>6 DEF ParserInv, StateOK, TypeOK
  <2> QED
    BY <2>1 DEF FrontendInv, LexerInv, ParserInv, FrontendTypeOK
<1>3. FrontendInv /\ Inv /\ [FrontendNext]_<<vars, lexerVars>> => Inv'
  BY FrontendTreesNext
<1> HIDE DEF Inv
<1> QED
  BY <1>1, <1>2, <1>3, FrontendInitInv, FrontendNextInv, PTL DEF FrontendSpec
=============================================================================
