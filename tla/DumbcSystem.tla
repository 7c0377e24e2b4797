----------------------------- MODULE DumbcSystem -----------------------------
(***************************************************************************)
(* dumbc as its user meets it: compile an expression, then run the program *)
(* it left (main.c).  DumbcMain is the compiler and the files it leaves;   *)
(* DumbcPrint the routine with which every program it wrote ends.  What    *)
(* the program computes before that is DumbcCodegen's: here any word.      *)
(***************************************************************************)
EXTENDS DumbcMain, Sequences

CONSTANTS SignBit,  \* the word with the highest bit of a register alone, 2^63
          BufSize   \* bytes print_number reserves on the stack, 64

VARIABLES
  value, rax, r9, rcx, buf,  \* of print_number
  at                         \* its pc, "off" while no program runs

print == <<value, rax, r9, rcx, buf, at>>

systemVars == <<vars, print>>

Out == INSTANCE DumbcPrint WITH pc <- at

\* 64 bytes have room to spare for the nineteen digits of 2^63.
ASSUME PrintAssumption == SignBit \in Nat \ {0} /\ BufSize \in Nat /\ Out!HasRoom

NotRunning ==
  /\ at = "off"
  /\ value = 0 /\ rax = 0 /\ r9 = 0 /\ rcx = 0
  /\ buf = <<>>

Quit ==
  /\ at' = "off"
  /\ value' = 0 /\ rax' = 0 /\ r9' = 0 /\ rcx' = 0
  /\ buf' = <<>>

SystemInit == Init /\ NotRunning

Compiler == at = "off" /\ Next /\ UNCHANGED print

\* dumbc <expression> && ./out: the shell goes on when main's status is 0.  Of an
\* executable made from a truncated out.asm nothing is said.
RunOut ==
  /\ at = "off"
  /\ pc = "idle" /\ status = 0
  /\ files["exe"] > 0
  /\ at' = "start"
  /\ \E w \in Out!Words : value' = w /\ rax' = w
  /\ r9' = 0 /\ rcx' = 2
  /\ buf' = <<Out!Newline, Out!Nul>>
  /\ UNCHANGED vars

Printing == at # "off" /\ Out!Next /\ UNCHANGED vars

\* mov rax, 60 / xor rdi, rdi / syscall
OutExits == at = "written" /\ Quit /\ UNCHANGED vars

SystemNext == Compiler \/ RunOut \/ Printing \/ OutExits

SystemSpec == SystemInit /\ [][SystemNext]_systemVars

-----------------------------------------------------------------------------
(* Properties *)

\* The program prints the decimal numeral of rax, and never leaves the bytes reserved
\* for it: see DumbcPrint.
PrintsDecimal == Out!PrintsDecimal
=============================================================================
