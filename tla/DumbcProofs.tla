----------------------------- MODULE DumbcProofs -----------------------------
(***************************************************************************)
(* For any number of runs, with tools that fail, writes that fail and      *)
(* nobody looks at, and runs killed anywhere: when dumbc says "Compiled    *)
(* expression ./out", the executable is this run's, whatever earlier runs  *)
(* left in the directory, and whole if out.asm could be written.  And what *)
(* ./out prints is the decimal numeral of the word it has computed, of any *)
(* width.                                                                  *)
(***************************************************************************)
EXTENDS DumbcSystem, ProofLemmas

(***************************************************************************)
(* The invariant.  The promise is about the end of a run only; what makes  *)
(* it true is what each step of the pipeline finds when it begins          *)
(* (Handed): the output of the one before it, made by this run.            *)
(***************************************************************************)
MainTypeOK ==
  /\ run \in Nat /\ debug \in BOOLEAN
  /\ files \in [Names -> Int] /\ lost \in BOOLEAN
  /\ pc \in {"idle", "parse", "ir", "open", "asm", "nasm", "ld", "rm_o", "rm_asm"}

Handed ==
  /\ pc = "asm" => files["asm"] = - run
  /\ pc \in {"nasm", "ld", "rm_o", "rm_asm"} => files["asm"] = Output
  /\ pc = "ld" => files["obj"] = Output
  /\ pc \in {"rm_o", "rm_asm"} => files["exe"] = Output
  /\ pc = "rm_asm" => files["obj"] = 0 /\ ~ debug

\* Nothing is reported before the end.
Quiet == pc # "idle" => reported = "nothing"

IInv == MainTypeOK /\ Handed /\ Quiet /\ CompiledIsFresh

LEMMA InitIInv == Init => IInv
<1> SUFFICES ASSUME Init PROVE IInv
  OBVIOUS
<1>1. MainTypeOK
  <2>1. debug \in BOOLEAN
    BY DEF Init
  <2>2. run \in Nat /\ files \in [Names -> Int] /\ pc = "idle"
    BY DEF Init
  <2> QED
    BY <2>1, <2>2 DEF MainTypeOK, Init
<1>2. Handed /\ Quiet /\ CompiledIsFresh
  BY DEF Init, Handed, Quiet, CompiledIsFresh
<1> QED
  BY <1>1, <1>2 DEF IInv

\* Every step keeps the invariant.  A tool that fails ends the run with an error, which
\* promises nothing, so only the steps that succeed have something to show.
LEMMA NextIInv == IInv /\ [Next]_vars => IInv'
<1> SUFFICES ASSUME IInv, [Next]_vars PROVE IInv'
  OBVIOUS
<1> USE DEF IInv, MainTypeOK, Handed, Quiet, CompiledIsFresh, Names, Output
<1>1. CASE Start
  <2>1. lost' = FALSE
    BY <1>1 DEF Start
  <2>2. lost' \in BOOLEAN /\ debug' \in BOOLEAN
    BY <1>1, <2>1 DEF Start
  <2>3. run' \in Nat /\ files' \in [Names -> Int] /\ pc' = "parse" /\ reported' = "nothing"
    BY <1>1 DEF Start
  <2> QED
    BY <2>2, <2>3
<1>2. CASE Frontend
  BY <1>2 DEF Frontend, Goto, Exit
<1>3. CASE OpenAsm
  BY <1>3 DEF OpenAsm, Goto, Exit
<1>4. CASE WriteAsm
  <2>1. CASE files' = [files EXCEPT !["asm"] = run] /\ lost' = FALSE /\ Goto("nasm")
    <3>1. ~ lost' /\ lost' \in BOOLEAN /\ pc = "asm"
      BY <1>4, <2>1 DEF WriteAsm
    <3> QED
      BY <2>1, <3>1 DEF Goto
  <2>2. CASE lost' = TRUE /\ Goto("nasm") /\ UNCHANGED files
    <3>1. lost' /\ lost' \in BOOLEAN /\ pc = "asm"
      BY <1>4, <2>2 DEF WriteAsm
    <3> QED
      BY <2>2, <3>1 DEF Goto
  <2>3. CASE Exit(8) /\ UNCHANGED <<files, lost>>
    BY <2>3 DEF Exit
  <2> QED
    BY <1>4, <2>1, <2>2, <2>3 DEF WriteAsm
<1>5. CASE Assemble
  <2> USE <1>5 DEF Assemble, Tool
  <2>1. CASE files' = [files EXCEPT !["obj"] = files["asm"]] /\ Goto("ld")
    BY <2>1 DEF Goto
  <2>2. CASE files' \in {files, [files EXCEPT !["obj"] = - run]} /\ \E e \in FailStatuses : Exit(e)
    BY <2>2 DEF Exit
  <2> QED
    BY <2>1, <2>2
<1>6. CASE Link
  <2> USE <1>6 DEF Link, Tool
  <2>1. CASE files' = [files EXCEPT !["exe"] = files["obj"]] /\ Goto("rm_o")
    BY <2>1 DEF Goto
  <2>2. CASE files' \in {files, [files EXCEPT !["exe"] = - run]} /\ \E e \in FailStatuses : Exit(e)
    BY <2>2 DEF Exit
  <2> QED
    BY <2>1, <2>2
<1>7. CASE RemoveObject
  <2>1. CASE files' = [files EXCEPT !["obj"] = 0] /\ Finish(IF debug THEN "idle" ELSE "rm_asm")
    BY <1>7, <2>1 DEF RemoveObject, RemoveFile, Finish, Goto
  <2>2. CASE (\E e \in FailStatuses : Exit(e)) /\ UNCHANGED files
    BY <1>7, <2>2 DEF RemoveObject, RemoveFile, Exit
  <2> QED
    BY <1>7, <2>1, <2>2 DEF RemoveObject, RemoveFile
<1>8. CASE RemoveAsm
  <2>1. CASE files' = [files EXCEPT !["asm"] = 0] /\ Finish("idle")
    BY <1>8, <2>1 DEF RemoveAsm, RemoveFile, Finish
  <2>2. CASE (\E e \in FailStatuses : Exit(e)) /\ UNCHANGED files
    BY <1>8, <2>2 DEF RemoveAsm, RemoveFile, Exit
  <2> QED
    BY <1>8, <2>1, <2>2 DEF RemoveAsm, RemoveFile
<1>9. CASE Killed
  BY <1>9 DEF Killed
<1>10. CASE UNCHANGED vars
  BY <1>10 DEF vars
<1> QED
  BY <1>1, <1>2, <1>3, <1>4, <1>5, <1>6, <1>7, <1>8, <1>9, <1>10 DEF Next

\* Running the program that was compiled touches no file of the compiler's.
LEMMA SystemRefinesMain == SystemNext => [Next]_vars
BY DEF SystemNext, Compiler, RunOut, Printing, OutExits

\* What dumbc reports of an executable is true (main.c 241-379), over any number of
\* runs of the compiler and of what it compiled.
THEOREM SystemCompiledIsFresh == SystemSpec => []CompiledIsFresh
<1>1. SystemInit => IInv
  BY InitIInv DEF SystemInit
<1>2. IInv /\ [SystemNext]_systemVars => IInv'
  BY NextIInv, SystemRefinesMain DEF systemVars
<1>3. IInv => CompiledIsFresh
  BY DEF IInv
<1> QED
  BY <1>1, <1>2, <1>3, PTL DEF SystemSpec

-----------------------------------------------------------------------------
(* The tenths of the greatest magnitude *)

IsTenth(n, T) == T = [k \in 0..n |-> IF k = 0 THEN SignBit ELSE T[k - 1] \div 10]

\* One more.
LEMMA TenthExtends ==
  ASSUME NEW n \in Nat, NEW T, IsTenth(n, T)
  PROVE  \E U : IsTenth(n + 1, U)
<1> DEFINE U == [k \in 0..(n + 1) |-> IF k <= n THEN T[k] ELSE T[n] \div 10]
           V == [k \in 0..(n + 1) |-> IF k = 0 THEN SignBit ELSE U[k - 1] \div 10]
<1>1. ASSUME NEW k \in 0..(n + 1) PROVE U[k] = V[k]
  <2>1. CASE k = 0
    BY <2>1 DEF IsTenth
  <2>2. CASE k # 0 /\ k <= n
    <3>1. k \in 0..n /\ k - 1 \in 0..(n + 1) /\ k - 1 <= n
      BY <2>2
    <3>2. T[k] = T[k - 1] \div 10
      BY <2>2, <3>1 DEF IsTenth
    <3> QED
      BY <2>2, <3>1, <3>2
  <2>3. CASE k = n + 1
    <3>1. k - 1 = n /\ ~ (k <= n) /\ k # 0 /\ n \in 0..(n + 1) /\ n <= n
      BY <2>3
    <3>2. U[k] = T[n] \div 10 /\ U[n] = T[n]
      BY <3>1
    <3>3. V[k] = U[k - 1] \div 10
      BY <3>1
    <3> QED
      BY <3>1, <3>2, <3>3
  <2> QED
    BY <2>1, <2>2, <2>3
<1>2. U = V
  BY <1>1
<1> QED
  BY <1>2 DEF IsTenth

\* Any number of them.
LEMMA TenthIs == ASSUME NEW n \in Nat PROVE \E T : IsTenth(n, T)
<1> SUFFICES ASSUME ~ \E T : IsTenth(n, T) PROVE FALSE
  OBVIOUS
<1> DEFINE B == { k \in Nat : ~ \E T : IsTenth(k, T) }
<1>1. PICK k \in B : \A j \in B : k <= j
  <2>1. B \in SUBSET Nat /\ B # {}
    OBVIOUS
  <2> QED
    BY <2>1, Least
<1>2. CASE k = 0
  <2>1. IsTenth(0, [j \in 0..0 |-> SignBit])
    BY DEF IsTenth
  <2> QED
    BY <1>2, <2>1
<1>3. CASE k # 0
  <2>1. k - 1 \in Nat /\ k - 1 + 1 = k /\ ~ (k <= k - 1)
    BY <1>3
  <2> QED
    BY <1>1, <2>1, TenthExtends
<1> QED
  BY <1>2, <1>3

\* The equations of Tenth.
LEMMA TenthSteps ==
  /\ Out!Tenth[0] = SignBit
  /\ \A k \in 0..(BufSize - 1) : Out!Tenth[k + 1] = Out!Tenth[k] \div 10
<1>1. BufSize \in Nat
  BY PrintAssumption
<1>2. IsTenth(BufSize, Out!Tenth)
  BY <1>1, TenthIs DEF Out!Tenth, IsTenth
<1>3. Out!Tenth[0] = SignBit
  BY <1>1, <1>2 DEF IsTenth
<1>4. ASSUME NEW k \in 0..(BufSize - 1) PROVE Out!Tenth[k + 1] = Out!Tenth[k] \div 10
  <2>1. k + 1 \in 0..BufSize /\ k + 1 # 0 /\ (k + 1) - 1 = k
    BY <1>1
  <2> QED
    BY <1>2, <2>1 DEF IsTenth
<1> QED
  BY <1>3, <1>4

-----------------------------------------------------------------------------
(* print_number *)

Magnitude(w) == IF Out!Signed(w) < 0 THEN - Out!Signed(w) ELSE Out!Signed(w)

\* The signs in front of the digits.
Signs(w) == IF Out!Signed(w) < 0 THEN 1 ELSE 0

\* What is left of w after each of n divisions.
Quotients(w, Q, n) ==
  /\ \A k \in 0..n : Q[k] \in Nat
  /\ Q[0] = Magnitude(w)
  /\ \A k \in 1..n : Q[k] = Q[k - 1] \div 10

\* Behind the first i bytes, b has the n digits that were divided off.
Shows(b, i, Q, n) ==
  /\ b \in Seq(Nat) /\ Len(b) = i + n + 2
  /\ \A j \in 1..n : b[i + j] = Out!Zero + (Q[n - j] % 10)
  /\ b[i + n + 1] = Out!Newline /\ b[i + n + 2] = Out!Nul

\* Digits are to come.
Dividing(w, r, b, Q, n) ==
  /\ Quotients(w, Q, n) /\ Shows(b, 0, Q, n)
  /\ r = Q[n] /\ r # 0
  /\ n <= BufSize - 3 /\ Out!Tenth[n] \in Nat /\ r <= Out!Tenth[n]

\* There are none left, and none too many.
Divided(w, b, i, Q, n) ==
  /\ Quotients(w, Q, n) /\ Shows(b, i, Q, n)
  /\ n # 0 /\ Q[n] = 0 /\ (Q[n - 1] = 0 => n = 1)
  /\ n <= BufSize - 3

\* The invariant of the routine.  What is in the buffer are the last digits of the word's
\* magnitude, one for each division, the remainders of the quotients Q; the last quotient
\* is the dividend to come.
PrintInv ==
  /\ at = "off" => rcx = 0 /\ buf = <<>>
  /\ at # "off" =>
       /\ at \in {"start", "loop", "sign", "do_write", "written"}
       /\ value \in Out!Words /\ rcx = Len(buf)
       /\ at = "start" => rax = value /\ r9 = 0 /\ buf = <<Out!Newline, Out!Nul>>
       /\ at \in {"loop", "sign"} => r9 = Signs(value)
       /\ at = "loop" => \E n \in Nat : \E Q : Dividing(value, rax, buf, Q, n)
       /\ at = "sign" => \E n \in Nat : \E Q : Divided(value, buf, 0, Q, n)
       /\ at \in {"do_write", "written"} =>
            /\ \E n \in Nat : \E Q : Divided(value, buf, Signs(value), Q, n)
            /\ Signs(value) = 1 => buf[1] = Out!Minus

\* The magnitude of a word fits one, that of the most negative word included.
LEMMA MagnitudeIs ==
  ASSUME NEW w \in Out!Words
  PROVE  /\ Magnitude(w) \in Nat /\ Magnitude(w) <= SignBit
         /\ w # 0 => Magnitude(w) # 0
         /\ Out!Signed(w) >= 0 => Magnitude(w) = w
         /\ ~ (Out!Signed(w) >= 0) => Magnitude(w) = (Out!Modulus - w) % Out!Modulus
         /\ Out!Signed(w) \in Int
<1>1. SignBit \in Nat \ {0}
  BY PrintAssumption
<1> QED
  BY <1>1 DEF Magnitude, Out!Signed, Out!Modulus, Out!Words

\* One byte in front of the others.
LEMMA PutIs ==
  ASSUME NEW c \in Nat, Out!Put(c), buf \in Seq(Nat), rcx = Len(buf)
  PROVE  /\ buf' \in Seq(Nat) /\ Len(buf') = Len(buf) + 1 /\ rcx' = Len(buf')
         /\ buf'[1] = c /\ \A j \in 1..Len(buf) : buf'[j + 1] = buf[j]
<1>1. buf' = <<c>> \o buf /\ rcx' = rcx + 1
  BY DEF Out!Put
<1>2. /\ <<c>> \o buf \in Seq(Nat) /\ Len(<<c>> \o buf) = 1 + Len(buf) /\ Len(buf) \in Nat
      /\ \A j \in 1..(1 + Len(buf)) : (<<c>> \o buf)[j] = IF j <= 1 THEN <<c>>[j] ELSE buf[j - 1]
  <2>1. <<c>> \in Seq(Nat) /\ Len(<<c>>) = 1 /\ Len(buf) \in Nat
    OBVIOUS
  <2> QED
    BY <2>1, ConcatProperties
<1>3. (<<c>> \o buf)[1] = c
  BY <1>2
<1>4. ASSUME NEW j \in 1..Len(buf) PROVE (<<c>> \o buf)[j + 1] = buf[j]
  <2>1. j + 1 \in 1..(1 + Len(buf)) /\ ~ (j + 1 <= 1) /\ (j + 1) - 1 = j
    BY <1>2
  <2> QED
    BY <1>2, <2>1
<1> QED
  BY <1>1, <1>2, <1>3, <1>4

\* The routine begins with the word a program left in rax.
LEMMA RunOutPrints == RunOut => PrintInv'
<1> SUFFICES ASSUME RunOut PROVE PrintInv'
  OBVIOUS
<1>1. PICK w \in Out!Words : value' = w /\ rax' = w
  BY DEF RunOut
<1>2. at' = "start" /\ r9' = 0 /\ rcx' = 2 /\ buf' = <<Out!Newline, Out!Nul>> /\ Len(<<Out!Newline, Out!Nul>>) = 2
  BY DEF RunOut
<1> QED
  BY <1>1, <1>2 DEF PrintInv

\* A zero is one digit.
LEMMA PrintZeroPrints == PrintInv /\ Out!PrintZero => PrintInv'
<1> SUFFICES ASSUME PrintInv, Out!PrintZero PROVE PrintInv'
  OBVIOUS
<1>1. /\ at = "start" /\ at' = "do_write" /\ rax = 0 /\ rax' = rax /\ r9' = r9 /\ value' = value
      /\ Out!Put(Out!Zero)
  BY DEF Out!PrintZero
<1>2. /\ value \in Out!Words /\ value = 0 /\ rcx = Len(buf) /\ buf = <<Out!Newline, Out!Nul>>
  BY <1>1 DEF PrintInv
<1>3. buf \in Seq(Nat) /\ Len(buf) = 2 /\ buf[1] = Out!Newline /\ buf[2] = Out!Nul
  BY <1>2 DEF Out!Newline, Out!Nul
<1>4. /\ buf' \in Seq(Nat) /\ Len(buf') = Len(buf) + 1 /\ rcx' = Len(buf')
      /\ buf'[1] = Out!Zero /\ \A j \in 1..Len(buf) : buf'[j + 1] = buf[j]
  BY <1>1, <1>2, <1>3, PutIs DEF Out!Zero
<1>5. buf'[2] = Out!Newline /\ buf'[3] = Out!Nul /\ Len(buf') = 3
  BY <1>3, <1>4
<1> DEFINE Q == [k \in 0..1 |-> 0]
<1>6. Out!Signed(value) = 0 /\ Magnitude(value) = 0 /\ Signs(value) = 0
  BY <1>2, PrintAssumption DEF Out!Signed, Magnitude, Signs
<1>7. Quotients(value, Q, 1)
  <2>1. Q[0] = 0 /\ Q[1] = 0
    OBVIOUS
  <2> QED
    BY <1>6, <2>1 DEF Quotients
<1>8. Shows(buf', 0, Q, 1)
  <2>1. \A j \in 1..1 : j = 1
    OBVIOUS
  <2>2. Out!Zero + (Q[1 - 1] % 10) = Out!Zero
    <3>1. Q[1 - 1] = 0 /\ 0 % 10 = 0
      OBVIOUS
    <3> HIDE DEF Q
    <3> QED
      BY <3>1 DEF Out!Zero
  <2>3. 0 + 1 = 1 /\ 0 + 1 + 1 = 2 /\ 0 + 1 + 2 = 3
    OBVIOUS
  <2> HIDE DEF Q
  <2> QED
    BY <1>4, <1>5, <2>1, <2>2, <2>3 DEF Shows
<1>9. 1 <= BufSize - 3 /\ 1 \in Nat /\ Q[1] = 0
  BY PrintAssumption DEF Out!HasRoom
<1> HIDE DEF Q
<1>10. Divided(value, buf', 0, Q, 1)
  BY <1>7, <1>8, <1>9 DEF Divided
<1> QED
  BY <1>1, <1>2, <1>4, <1>6, <1>9, <1>10 DEF PrintInv

\* What is divided is the magnitude.
LEMMA CheckNegativePrints == PrintInv /\ Out!CheckNegative => PrintInv'
<1> SUFFICES ASSUME PrintInv, Out!CheckNegative PROVE PrintInv'
  OBVIOUS
<1>1. /\ at = "start" /\ at' = "loop" /\ rax # 0 /\ value' = value /\ buf' = buf /\ rcx' = rcx
      /\ IF Out!Signed(rax) >= 0 THEN rax' = rax /\ r9' = r9
         ELSE rax' = (Out!Modulus - rax) % Out!Modulus /\ r9' = 1
  BY DEF Out!CheckNegative
<1>2. value \in Out!Words /\ rax = value /\ r9 = 0 /\ rcx = Len(buf) /\ buf = <<Out!Newline, Out!Nul>>
  BY <1>1 DEF PrintInv
<1>3. /\ Magnitude(value) \in Nat /\ Magnitude(value) <= SignBit /\ Magnitude(value) # 0
      /\ Out!Signed(value) >= 0 => Magnitude(value) = value
      /\ ~ (Out!Signed(value) >= 0) => Magnitude(value) = (Out!Modulus - value) % Out!Modulus
      /\ Out!Signed(value) \in Int
  BY <1>1, <1>2, MagnitudeIs
<1>4. rax' = Magnitude(value) /\ r9' = Signs(value)
  BY <1>1, <1>2, <1>3 DEF Signs
<1> DEFINE Q == [k \in 0..0 |-> Magnitude(value)]
<1>5. Quotients(value, Q, 0) /\ Q[0] = Magnitude(value)
  BY <1>3 DEF Quotients
<1>6. Shows(buf, 0, Q, 0)
  <2>1. buf \in Seq(Nat) /\ Len(buf) = 2 /\ buf[1] = Out!Newline /\ buf[2] = Out!Nul
    BY <1>2 DEF Out!Newline, Out!Nul
  <2> HIDE DEF Q
  <2> QED
    BY <2>1 DEF Shows
<1>7. 0 <= BufSize - 3 /\ Out!Tenth[0] = SignBit /\ SignBit \in Nat
  BY TenthSteps, PrintAssumption DEF Out!HasRoom
<1> HIDE DEF Q
<1>8. Dividing(value, Magnitude(value), buf, Q, 0)
  BY <1>3, <1>5, <1>6, <1>7 DEF Dividing
<1> QED
  BY <1>1, <1>2, <1>4, <1>8 DEF PrintInv

\* A digit more.  As long as something is left to divide, the buffer is not full.
LEMMA DivideLoopPrints == PrintInv /\ Out!DivideLoop => PrintInv'
<1> SUFFICES ASSUME PrintInv, Out!DivideLoop PROVE PrintInv'
  OBVIOUS
<1>1. /\ at = "loop" /\ value' = value /\ r9' = r9 /\ rax' = rax \div 10
      /\ at' = IF rax \div 10 # 0 THEN "loop" ELSE "sign"
      /\ Out!Put(Out!Zero + (rax % 10))
  BY DEF Out!DivideLoop
<1>2. value \in Out!Words /\ r9 = Signs(value) /\ rcx = Len(buf)
  BY <1>1 DEF PrintInv
<1>3. PICK n \in Nat : \E Q : Dividing(value, rax, buf, Q, n)
  BY <1>1 DEF PrintInv
<1>3a. PICK Q : Dividing(value, rax, buf, Q, n)
  BY <1>3
<1>4. /\ Quotients(value, Q, n) /\ Shows(buf, 0, Q, n)
      /\ rax = Q[n] /\ rax # 0 /\ rax \in Nat
      /\ n <= BufSize - 3 /\ Out!Tenth[n] \in Nat /\ rax <= Out!Tenth[n]
  BY <1>3a DEF Dividing, Quotients
<1>5. n + 1 <= BufSize - 3 /\ BufSize \in Nat /\ n \in 0..(BufSize - 1)
  <2>1. BufSize \in Nat /\ Out!Tenth[BufSize - 3] = 0
    BY PrintAssumption DEF Out!HasRoom
  <2>2. n # BufSize - 3
    BY <1>4, <2>1
  <2> QED
    BY <1>4, <2>1, <2>2
<1>6. Out!Tenth[n + 1] \in Nat /\ rax \div 10 <= Out!Tenth[n + 1]
  <2>1. Out!Tenth[n + 1] = Out!Tenth[n] \div 10
    BY <1>5, TenthSteps
  <2> QED
    BY <1>4, <2>1
<1>7. /\ buf' \in Seq(Nat) /\ Len(buf') = Len(buf) + 1 /\ rcx' = Len(buf')
      /\ buf'[1] = Out!Zero + (rax % 10) /\ \A j \in 1..Len(buf) : buf'[j + 1] = buf[j]
  <2>1. Out!Zero + (rax % 10) \in Nat /\ buf \in Seq(Nat)
    BY <1>4 DEF Out!Zero, Shows
  <2> QED
    BY <1>1, <1>2, <2>1, PutIs
<1> DEFINE P == [k \in 0..(n + 1) |-> IF k <= n THEN Q[k] ELSE rax \div 10]
<1>8. P[n + 1] = rax \div 10 /\ \A k \in 0..n : P[k] = Q[k]
  OBVIOUS
<1> HIDE DEF P
<1>9. Quotients(value, P, n + 1)
  <2>1. ASSUME NEW k \in 0..(n + 1) PROVE P[k] \in Nat
    <3>1. CASE k = n + 1
      BY <1>4, <1>8, <3>1
    <3>2. CASE k \in 0..n
      BY <1>4, <1>8, <3>2 DEF Quotients
    <3> QED
      BY <3>1, <3>2
  <2>2. P[0] = Magnitude(value)
    BY <1>4, <1>8 DEF Quotients
  <2>3. ASSUME NEW k \in 1..(n + 1) PROVE P[k] = P[k - 1] \div 10
    <3>1. k - 1 \in 0..n /\ P[k - 1] = Q[k - 1]
      BY <1>8
    <3>2. CASE k = n + 1
      BY <1>4, <1>8, <3>1, <3>2
    <3>3. CASE k \in 1..n
      BY <1>4, <1>8, <3>1, <3>3 DEF Quotients
    <3> QED
      BY <3>2, <3>3
  <2> QED
    BY <2>1, <2>2, <2>3 DEF Quotients
<1>10. Shows(buf', 0, P, n + 1)
  <2>1. /\ Len(buf) = n + 2 /\ \A j \in 1..n : buf[j] = Out!Zero + (Q[n - j] % 10)
        /\ buf[n + 1] = Out!Newline /\ buf[n + 2] = Out!Nul
    BY <1>4 DEF Shows
  <2>2. Len(buf') = n + 3
    BY <1>7, <2>1
  <2>3. ASSUME NEW j \in 1..(n + 1) PROVE buf'[j] = Out!Zero + (P[(n + 1) - j] % 10)
    <3>1. CASE j = 1
      <4>1. (n + 1) - j = n /\ P[n] = rax
        BY <1>4, <1>8, <3>1
      <4> QED
        BY ONLY <1>7, <3>1, <4>1
    <3>2. CASE j # 1
      <4>1. j - 1 \in 1..n /\ (j - 1) + 1 = j /\ (n + 1) - j \in 0..n /\ n - (j - 1) = (n + 1) - j
        BY <3>2
      <4>2. buf'[j] = buf[j - 1]
        BY <1>7, <2>1, <4>1
      <4>3. buf[j - 1] = Out!Zero + (Q[(n + 1) - j] % 10)
        BY <2>1, <4>1
      <4> QED
        BY <1>8, <4>1, <4>2, <4>3
    <3> QED
      BY <3>1, <3>2
  <2>4. buf'[n + 2] = Out!Newline /\ buf'[n + 3] = Out!Nul
    <3>1. n + 1 \in 1..Len(buf) /\ n + 2 \in 1..Len(buf) /\ (n + 1) + 1 = n + 2 /\ (n + 2) + 1 = n + 3
      BY <2>1
    <3> QED
      BY <1>7, <2>1, <3>1
  <2>5. \A j \in 1..(n + 1) : 0 + j = j
    OBVIOUS
  <2> QED
    BY <1>7, <2>2, <2>3, <2>4, <2>5 DEF Shows
<1>11. n + 1 \in Nat /\ n + 1 # 0 /\ (n + 1) - 1 = n /\ P[n] = rax
  BY <1>4, <1>8
<1>12. CASE rax \div 10 # 0
  <2>1. Dividing(value, rax \div 10, buf', P, n + 1)
    BY <1>5, <1>6, <1>8, <1>9, <1>10, <1>12 DEF Dividing
  <2> QED
    BY <1>1, <1>2, <1>7, <1>11, <1>12, <2>1 DEF PrintInv
<1>13. CASE rax \div 10 = 0
  <2>1. Divided(value, buf', 0, P, n + 1)
    BY <1>4, <1>5, <1>8, <1>9, <1>10, <1>11, <1>13 DEF Divided
  <2> QED
    BY <1>1, <1>2, <1>7, <1>11, <1>13, <2>1 DEF PrintInv
<1> QED
  BY <1>12, <1>13

\* The sign is in front of the digits.
LEMMA SignPrints == PrintInv /\ Out!Sign => PrintInv'
<1> SUFFICES ASSUME PrintInv, Out!Sign PROVE PrintInv'
  OBVIOUS
<1>1. /\ at = "sign" /\ at' = "do_write" /\ value' = value /\ rax' = rax /\ r9' = r9
      /\ IF r9 = 0 THEN buf' = buf /\ rcx' = rcx ELSE Out!Put(Out!Minus)
  BY DEF Out!Sign
<1>2. value \in Out!Words /\ r9 = Signs(value) /\ rcx = Len(buf)
  BY <1>1 DEF PrintInv
<1>3. PICK n \in Nat : \E Q : Divided(value, buf, 0, Q, n)
  BY <1>1 DEF PrintInv
<1>3a. PICK Q : Divided(value, buf, 0, Q, n)
  BY <1>3
<1>4. CASE Signs(value) = 0
  BY <1>1, <1>2, <1>3a, <1>4 DEF PrintInv
<1>5. CASE Signs(value) = 1
  <2>0. Shows(buf, 0, Q, n)
    BY <1>3a DEF Divided
  <2>1. /\ buf' \in Seq(Nat) /\ Len(buf') = Len(buf) + 1 /\ rcx' = Len(buf')
        /\ buf'[1] = Out!Minus /\ \A j \in 1..Len(buf) : buf'[j + 1] = buf[j]
    <3>1. buf \in Seq(Nat) /\ Out!Minus \in Nat /\ Out!Put(Out!Minus)
      BY <1>1, <1>2, <1>5, <2>0 DEF Shows, Out!Minus
    <3> QED
      BY <1>2, <3>1, PutIs
  <2>2. /\ Len(buf) = n + 2 /\ \A j \in 1..n : buf[j] = Out!Zero + (Q[n - j] % 10)
        /\ buf[n + 1] = Out!Newline /\ buf[n + 2] = Out!Nul
    BY <2>0 DEF Shows
  <2>3. ASSUME NEW j \in 1..n PROVE buf'[1 + j] = Out!Zero + (Q[n - j] % 10)
    <3>1. j \in 1..Len(buf) /\ 1 + j = j + 1
      BY <2>2
    <3> QED
      BY <2>1, <2>2, <3>1
  <2>4. buf'[1 + n + 1] = Out!Newline /\ buf'[1 + n + 2] = Out!Nul /\ Len(buf') = 1 + n + 2
    <3>1. n + 1 \in 1..Len(buf) /\ n + 2 \in 1..Len(buf) /\ (n + 1) + 1 = 1 + n + 1 /\ (n + 2) + 1 = 1 + n + 2
      BY <2>2
    <3>2. buf'[(n + 1) + 1] = buf[n + 1] /\ buf'[(n + 2) + 1] = buf[n + 2]
      BY <2>1, <3>1
    <3> QED
      BY <2>1, <2>2, <3>1, <3>2
  <2>5. Shows(buf', 1, Q, n)
    BY <2>1, <2>3, <2>4 DEF Shows
  <2>6. Divided(value, buf', 1, Q, n)
    BY <1>3a, <2>5 DEF Divided
  <2> QED
    BY <1>1, <1>2, <1>5, <2>1, <2>6 DEF PrintInv
<1> QED
  BY <1>4, <1>5 DEF Signs

\* Every step of the system keeps the invariant of the routine.
LEMMA SystemPrints == PrintInv /\ [SystemNext]_systemVars => PrintInv'
<1> SUFFICES ASSUME PrintInv, [SystemNext]_systemVars PROVE PrintInv'
  OBVIOUS
<1>1. CASE UNCHANGED print
  BY <1>1 DEF print, PrintInv, Divided, Dividing
<1>2. CASE RunOut
  BY <1>2, RunOutPrints
<1>3. CASE Printing
  <2>1. CASE Out!DoWrite
    BY <2>1, <1>3 DEF Printing, Out!DoWrite, PrintInv
  <2> QED
    BY <1>3, <2>1, PrintZeroPrints, CheckNegativePrints, DivideLoopPrints, SignPrints DEF Printing, Out!Next
<1>4. CASE OutExits
  BY <1>4 DEF OutExits, Quit, PrintInv
<1> QED
  BY <1>1, <1>2, <1>3, <1>4 DEF SystemNext, Compiler, systemVars, print

-----------------------------------------------------------------------------
(* The numeral *)

IsNumeral(n, s, N) ==
  N = [j \in 0..n |-> IF j = 0 THEN 0 ELSE 10 * N[j - 1] + (s[j] - Out!Zero)]

\* The digits divided off a number are its numeral.
LEMMA DigitsOfQuotients ==
  ASSUME NEW w, NEW n \in Nat, NEW Q, Quotients(w, Q, n), Q[n] = 0,
         NEW s, Len(s) = n, \A j \in 1..n : s[j] = Out!Zero + (Q[n - j] % 10)
  PROVE  Out!Digits(s) = Magnitude(w)
<1> DEFINE M == [j \in 0..n |-> Q[n - j]]
           K == [j \in 0..n |-> IF j = 0 THEN 0 ELSE 10 * M[j - 1] + (s[j] - Out!Zero)]
           N == CHOOSE N : IsNumeral(n, s, N)
<1>0. \A j \in 0..n : n - j \in 0..n /\ Q[n - j] \in Nat
  BY DEF Quotients
<1>1. ASSUME NEW j \in 0..n PROVE M[j] = K[j]
  <2>1. CASE j = 0
    BY <2>1
  <2>2. CASE j # 0
    <3>1. j - 1 \in 0..n /\ j \in 1..n /\ n - (j - 1) \in 1..n /\ (n - (j - 1)) - 1 = n - j
      BY <2>2
    <3>2. M[j] = Q[n - j] /\ M[j - 1] = Q[n - (j - 1)]
      BY <3>1
    <3>3. Q[n - (j - 1)] = Q[n - j] \div 10
      BY <3>1 DEF Quotients
    <3>4. s[j] - Out!Zero = Q[n - j] % 10
      <4>1. Q[n - j] % 10 \in Int
        BY <1>0, <3>1
      <4>2. s[j] = Out!Zero + (Q[n - j] % 10)
        BY <3>1
      <4> QED
        BY <4>1, <4>2 DEF Out!Zero
    <3>5. K[j] = 10 * M[j - 1] + (s[j] - Out!Zero)
      BY <2>2
    <3>6. \A x \in Nat : 10 * (x \div 10) + (x % 10) = x
      OBVIOUS
    <3>7. Q[n - j] \in Nat
      BY <1>0
    <3>8. K[j] = 10 * (Q[n - j] \div 10) + (Q[n - j] % 10)
      <4> HIDE DEF M, K
      <4> QED
        BY ONLY <3>2, <3>3, <3>4, <3>5
    <3> HIDE DEF M, K
    <3> QED
      BY ONLY <3>2, <3>6, <3>7, <3>8
  <2> QED
    BY <2>1, <2>2
<1>2. IsNumeral(n, s, M)
  <2>1. M = K
    BY <1>1
  <2> QED
    BY <2>1 DEF IsNumeral
<1>3. IsNumeral(n, s, N)
  <2> HIDE DEF M
  <2> QED
    BY <1>2
<1>4. Out!Digits(s) = N[n]
  BY DEF Out!Digits, IsNumeral
<1> HIDE DEF N, K
<1>5. ASSUME NEW j \in 0..n PROVE N[j] = M[j]
  <2> SUFFICES ASSUME N[j] # M[j] PROVE FALSE
    OBVIOUS
  <2> HIDE DEF M
  <2> DEFINE B == { k \in 0..n : N[k] # M[k] }
  <2>1. PICK k \in B : \A i \in B : k <= i
    <3>1. B \in SUBSET Nat /\ B # {}
      OBVIOUS
    <3> QED
      BY <3>1, Least
  <2>2. CASE k = 0
    BY <1>2, <1>3, <2>1, <2>2 DEF IsNumeral
  <2>3. CASE k # 0
    <3>1. k - 1 \in 0..n /\ ~ (k <= k - 1)
      BY <2>3
    <3>2. N[k - 1] = M[k - 1]
      BY <2>1, <3>1
    <3>3. /\ N[k] = 10 * N[k - 1] + (s[k] - Out!Zero)
          /\ M[k] = 10 * M[k - 1] + (s[k] - Out!Zero)
      BY <1>2, <1>3, <2>1, <2>3 DEF IsNumeral
    <3> QED
      BY <2>1, <3>2, <3>3
  <2> QED
    BY <2>2, <2>3
<1> QED
  <2>1. n \in 0..n /\ M[n] = Q[0]
    BY <1>0
  <2> QED
    BY <1>4, <1>5, <2>1 DEF Quotients

\* What is written is the numeral.
LEMMA WrittenIsDecimal == PrintInv /\ at # "off" => Out!PrintsDecimal
<1> SUFFICES ASSUME PrintInv, at # "off" PROVE Out!PrintsDecimal
  OBVIOUS
<1>0. /\ at \in {"start", "loop", "sign", "do_write", "written"} /\ value \in Out!Words /\ rcx = Len(buf)
      /\ BufSize \in Nat /\ BufSize > 3
  BY PrintAssumption DEF PrintInv, Out!HasRoom
<1>1. Len(buf) <= BufSize
  <2>1. CASE at = "start"
    <3>1. buf = <<Out!Newline, Out!Nul>> /\ Len(<<Out!Newline, Out!Nul>>) = 2
      BY <2>1 DEF PrintInv
    <3> QED
      BY <1>0, <3>1
  <2>2. CASE at = "loop"
    <3>1. PICK n \in Nat : \E Q : Dividing(value, rax, buf, Q, n)
      BY <2>2 DEF PrintInv
    <3> QED
      BY <1>0, <3>1 DEF Dividing, Shows
  <2>3. CASE at \in {"sign", "do_write", "written"}
    <3>1. PICK n \in Nat, i \in {0, 1} : \E Q : Divided(value, buf, i, Q, n)
      BY <2>3 DEF PrintInv, Signs
    <3> QED
      BY <1>0, <3>1 DEF Divided, Shows
  <2> QED
    BY <1>0, <2>1, <2>2, <2>3
<1>2. ASSUME at = "written"
      PROVE  LET signed == buf[1] = Out!Minus
                 digits == SubSeq(buf, IF signed THEN 2 ELSE 1, Len(buf) - 2)
             IN /\ rcx = Len(buf)
                /\ SubSeq(buf, Len(buf) - 1, Len(buf)) = <<Out!Newline, Out!Nul>>
                /\ Len(digits) > 0 /\ (digits[1] = Out!Zero => Len(digits) = 1)
                /\ signed <=> Out!Signed(value) < 0
                /\ Out!Digits(digits) = IF signed THEN - Out!Signed(value) ELSE Out!Signed(value)
  <2> DEFINE i == Signs(value)
             d == SubSeq(buf, IF buf[1] = Out!Minus THEN 2 ELSE 1, Len(buf) - 2)
  <2>1. PICK n \in Nat : \E Q : Divided(value, buf, i, Q, n)
    BY <1>2 DEF PrintInv
  <2>2. PICK Q : Divided(value, buf, i, Q, n)
    BY <2>1
  <2>3. /\ Quotients(value, Q, n) /\ n \in Nat \ {0} /\ Q[n] = 0 /\ (Q[n - 1] = 0 => n = 1)
        /\ buf \in Seq(Nat) /\ Len(buf) = i + n + 2
        /\ \A j \in 1..n : buf[i + j] = Out!Zero + (Q[n - j] % 10)
        /\ buf[i + n + 1] = Out!Newline /\ buf[i + n + 2] = Out!Nul
    BY <2>2 DEF Divided, Shows
  <2>4. i \in {0, 1} /\ (i = 1 <=> Out!Signed(value) < 0)
    BY DEF Signs
  <2> HIDE DEF i
  <2>5. i = 1 <=> buf[1] = Out!Minus
    <3>1. i = 1 => buf[1] = Out!Minus
      BY <1>2 DEF PrintInv, i
    <3>2. i = 0 => buf[1] # Out!Minus
      <4>1. n - 1 \in 0..n /\ Q[n - 1] \in Nat /\ 1 \in 1..n /\ 0 + 1 = 1
        BY <2>3 DEF Quotients
      <4>2. i = 0 => buf[1] = Out!Zero + (Q[n - 1] % 10)
        BY <2>3, <4>1
      <4>3. Q[n - 1] % 10 \in Nat
        BY <4>1
      <4> QED
        BY <4>2, <4>3 DEF Out!Zero, Out!Minus
    <3> QED
      BY <2>4, <3>1, <3>2
  <2>6. d = SubSeq(buf, i + 1, i + n)
    <3>1. (IF buf[1] = Out!Minus THEN 2 ELSE 1) = i + 1 /\ Len(buf) - 2 = i + n
      BY <2>3, <2>4, <2>5
    <3> QED
      BY <3>1
  <2>7. Len(d) = n /\ \A j \in 1..n : d[j] = Out!Zero + (Q[n - j] % 10)
    <3>1. i + 1 \in Int /\ i + n \in Int /\ \A k \in (i + 1)..(i + n) : buf[k] \in Nat
      <4>1. i \in Int /\ n \in Int
        BY <2>3, <2>4
      <4>2. i + 1 \in Int /\ i + n \in Int
        BY <4>1
      <4>3. \A k \in 1..Len(buf) : buf[k] \in Nat
        BY <2>3
      <4>4. \A k \in (i + 1)..(i + n) : k \in 1..(i + n + 2)
        BY <2>3, <2>4
      <4> QED
        BY <2>3, <4>2, <4>3, <4>4, Zenon
    <3>2. /\ Len(SubSeq(buf, i + 1, i + n))
               = IF i + 1 <= i + n THEN (i + n) - (i + 1) + 1 ELSE 0
          /\ \A j \in 1..((i + n) - (i + 1) + 1) : SubSeq(buf, i + 1, i + n)[j] = buf[(i + 1) + j - 1]
      BY <3>1, SubSeqProperties
    <3>3. /\ i + 1 <= i + n /\ (i + n) - (i + 1) + 1 = n
          /\ \A j \in 1..n : (i + 1) + j - 1 = i + j
      BY <2>3, <2>4
    <3> DEFINE u == SubSeq(buf, i + 1, i + n)
    <3> HIDE DEF d, u
    <3>4. Len(u) = n /\ \A j \in 1..n : u[j] = buf[(i + 1) + j - 1]
      BY <3>2, <3>3 DEF u
    <3>5. ASSUME NEW j \in 1..n PROVE u[j] = Out!Zero + (Q[n - j] % 10)
      <4>1. (i + 1) + j - 1 = i + j /\ buf[i + j] = Out!Zero + (Q[n - j] % 10)
        BY ONLY <2>3, <2>4, <3>5
      <4>2. u[j] = buf[(i + 1) + j - 1]
        BY <3>4
      <4> QED
        BY ONLY <4>1, <4>2
    <3> QED
      BY <2>6, <3>4, <3>5 DEF u
  <2>8. SubSeq(buf, Len(buf) - 1, Len(buf)) = <<Out!Newline, Out!Nul>>
    <3> DEFINE m == Len(buf)
               z == SubSeq(buf, m - 1, m)
    <3>1. m \in Nat /\ m - 1 \in 1..m /\ m - 1 \in Int /\ m \in Int /\ \A k \in (m - 1)..m : buf[k] \in Nat
      BY <2>3, <2>4
    <3>2. /\ z \in Seq(Nat) /\ Len(z) = IF m - 1 <= m THEN m - (m - 1) + 1 ELSE 0
          /\ \A j \in 1..(m - (m - 1) + 1) : z[j] = buf[(m - 1) + j - 1]
      BY <3>1, SubSeqProperties
    <3>3. m - 1 <= m /\ m - (m - 1) + 1 = 2 /\ (m - 1) + 1 - 1 = i + n + 1 /\ (m - 1) + 2 - 1 = i + n + 2
      BY <2>3, <2>4
    <3> HIDE DEF z, m
    <3>4. Len(z) = 2 /\ z[1] = Out!Newline /\ z[2] = Out!Nul
      BY <2>3, <3>2, <3>3
    <3>5. z = <<Out!Newline, Out!Nul>>
      BY <3>2, <3>4
    <3> QED
      BY <3>5 DEF z, m
  <2>9. Out!Digits(d) = Magnitude(value)
    <3> HIDE DEF d
    <3> QED
      BY <2>3, <2>7, DigitsOfQuotients
  <2>10. d[1] = Out!Zero => n = 1
    <3>1. n - 1 \in 0..n /\ Q[n - 1] \in Nat /\ 1 \in 1..n /\ n \in 1..n
      BY <2>3 DEF Quotients
    <3>2. Q[n] = Q[n - 1] \div 10
      BY <2>3, <3>1 DEF Quotients
    <3>3. Q[n - 1] % 10 = Q[n - 1]
      <4>1. \A x \in Nat : x \div 10 = 0 => x % 10 = x
        OBVIOUS
      <4> QED
        BY <2>3, <3>1, <3>2, <4>1
    <3>4. d[1] = Out!Zero + (Q[n - 1] % 10)
      BY <2>7, <3>1
    <3> HIDE DEF d
    <3>5. d[1] = Out!Zero => Q[n - 1] = 0
      BY <3>1, <3>3, <3>4 DEF Out!Zero
    <3> QED
      BY <2>3, <3>5
  <2>11. Magnitude(value) = IF buf[1] = Out!Minus THEN - Out!Signed(value) ELSE Out!Signed(value)
    BY <2>4, <2>5 DEF Magnitude
  <2>12. Len(d) > 0
    BY <2>3, <2>7
  <2>13. (buf[1] = Out!Minus) <=> Out!Signed(value) < 0
    BY <2>4, <2>5
  <2> HIDE DEF d
  <2>14. d[1] = Out!Zero => Len(d) = 1
    BY <2>7, <2>10
  <2> QED
    BY <1>0, <2>8, <2>9, <2>11, <2>12, <2>13, <2>14 DEF d
<1> QED
  BY <1>0, <1>1, <1>2 DEF Out!PrintsDecimal

\* The program prints the decimal numeral of what is in rax (print_number, main.c
\* 1390-1441), for words of any width, the most negative one included, in any buffer
\* that has room for as many digits.
THEOREM SystemPrintsDecimal == SystemSpec => []PrintsDecimal
<1>1. SystemInit => PrintInv
  BY DEF SystemInit, NotRunning, PrintInv
<1>2. PrintInv /\ [SystemNext]_systemVars => PrintInv'
  BY SystemPrints
<1>3. PrintInv => PrintsDecimal
  <2>1. ASSUME PrintInv, at = "off" PROVE Out!PrintsDecimal
    <3>1. rcx = 0 /\ Len(buf) = 0 /\ BufSize \in Nat
      BY <2>1, PrintAssumption DEF PrintInv
    <3> QED
      BY <2>1, <3>1 DEF Out!PrintsDecimal
  <2> QED
    BY <2>1, WrittenIsDecimal DEF PrintsDecimal
<1> QED
  BY <1>1, <1>2, <1>3, PTL DEF SystemSpec
=============================================================================
