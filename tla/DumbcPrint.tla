----------------------------- MODULE DumbcPrint -----------------------------
(***************************************************************************)
(* print_number, the assembly routine every compiled program ends with     *)
(* (the string print_number_proc of main.c): it writes the signed value of *)
(* rax in decimal, a newline and a NUL, into a buffer filled from its end. *)
(* Registers are words as wide as their sign bit says.                     *)
(***************************************************************************)
EXTENDS Integers, Sequences

CONSTANTS SignBit,  \* the word with the highest bit of a register alone, 2^63
          BufSize   \* bytes reserved on the stack, 64

Modulus == 2 * SignBit

Words == 0..(Modulus - 1)

\* The integer a word stands for, in two's complement.
Signed(w) == IF w < SignBit THEN w ELSE w - Modulus

\* The bytes of the text, in ASCII.
Nul == 0
Newline == 10
Minus == 45
Zero == 48

VARIABLES
  value,  \* rax at the call, constant after Init
  rax,
  r9,     \* 1 when a sign is due
  rcx,    \* bytes in the buffer, the length that is written
  buf,    \* the bytes from rsi to the end of the buffer
  pc

vars == <<value, rax, r9, rcx, buf, pc>>

\* The prologue puts the NUL and the newline at the end of the buffer.
Init ==
  /\ value \in Words
  /\ rax = value
  /\ r9 = 0
  /\ rcx = 2
  /\ buf = <<Newline, Nul>>
  /\ pc = "start"

\* dec rsi / mov [rsi], c / inc rcx
Put(c) == buf' = <<c>> \o buf /\ rcx' = rcx + 1

PrintZero ==
  /\ pc = "start"
  /\ rax = 0
  /\ Put(Zero)
  /\ pc' = "do_write"
  /\ UNCHANGED <<value, rax, r9>>

CheckNegative_Unsigned ==
  /\ pc = "start"
  /\ rax # 0
  /\ UNCHANGED <<rax, r9>>
  /\ pc' = "loop"
  /\ UNCHANGED <<value, rcx, buf>>

\* neg wraps: the most negative word stays as it is, and is then divided as an
\* unsigned number.
CheckNegative ==
  /\ pc = "start"
  /\ rax # 0
  /\ IF Signed(rax) >= 0
     THEN UNCHANGED <<rax, r9>>
     ELSE rax' = (Modulus - rax) % Modulus /\ r9' = 1
  /\ pc' = "loop"
  /\ UNCHANGED <<value, rcx, buf>>

\* One digit: rdx is cleared and rdx:rax divided by 10, unsigned.
DivideLoop ==
  /\ pc = "loop"
  /\ Put(Zero + (rax % 10))
  /\ rax' = rax \div 10
  /\ pc' = IF rax \div 10 # 0 THEN "loop" ELSE "sign"
  /\ UNCHANGED <<value, r9>>

Sign ==
  /\ pc = "sign"
  /\ IF r9 = 0 THEN UNCHANGED <<buf, rcx>> ELSE Put(Minus)
  /\ pc' = "do_write"
  /\ UNCHANGED <<value, rax, r9>>

\* write(1, rsi, rcx)
DoWrite ==
  /\ pc = "do_write"
  /\ pc' = "written"
  /\ UNCHANGED <<value, rax, r9, rcx, buf>>

Next == PrintZero \/ CheckNegative \/ DivideLoop \/ Sign \/ DoWrite

Spec == Init /\ [][Next]_vars

-----------------------------------------------------------------------------
(* Properties *)

\* The number a row of digits is the numeral of.
Digits(s) ==
  LET N[j \in 0..Len(s)] == IF j = 0 THEN 0 ELSE 10 * N[j - 1] + (s[j] - Zero)
  IN N[Len(s)]

\* What is left of the greatest magnitude when its last n digits are taken off.
Tenth[n \in 0..BufSize] == IF n = 0 THEN SignBit ELSE Tenth[n - 1] \div 10

\* The buffer has room for all its digits, a sign, the newline and the NUL.
HasRoom == BufSize > 3 /\ Tenth[BufSize - 3] = 0

\* The bytes written are the decimal numeral of the value, the most negative
\* word included: a sign exactly when it is negative, no leading zero, newline
\* and NUL behind it, and the length passed to write is that of the bytes.  On the
\* way there no digit is written in front of the buffer.
PrintsDecimal ==
  /\ Len(buf) <= BufSize /\ rcx <= BufSize
  /\ pc = "written" =>
       LET signed == buf[1] = Minus
           digits == SubSeq(buf, IF signed THEN 2 ELSE 1, Len(buf) - 2)
       IN /\ rcx = Len(buf)
          /\ SubSeq(buf, Len(buf) - 1, Len(buf)) = <<Newline, Nul>>
          /\ Len(digits) > 0 /\ (digits[1] = Zero => Len(digits) = 1)
          /\ signed <=> Signed(value) < 0
          /\ Digits(digits) = IF signed THEN - Signed(value) ELSE Signed(value)
=============================================================================
