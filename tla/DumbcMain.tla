------------------------------ MODULE DumbcMain ------------------------------
(***************************************************************************)
(* The pipeline of dumbc's main (main.c): compile the expression to        *)
(* out.asm, run nasm and ld, remove the intermediate files, report.        *)
(* The files have fixed names in the working directory and survive from    *)
(* one run to the next; a run may be killed between any two steps.         *)
(*                                                                         *)
(* A file is identified by the run whose expression it holds: 0 when it    *)
(* does not exist, -r when run r left it incomplete, or made it from       *)
(* something incomplete.  nasm, ld and rm are external: each either        *)
(* succeeds, or fails with some wait status and leaves its output as it    *)
(* was or incomplete.                                                      *)
(***************************************************************************)
EXTENDS Integers

CONSTANT MaxRuns   \* bound on the runs of a behaviour

ASSUME MainAssumption == MaxRuns \in Nat

\* What system() returns for a command that failed: the exit status in the
\* second byte, the number of the signal that killed it, or -1 without a shell.
FailStatuses == {256, 512, 9, -1}

CompileErrors == {1, 3, 4, 7, 8, 9, 99}
ABORTED == 134        \* assert(fptr != NULL)

VARIABLES
  run,      \* the current or last run, 0 before the first
  debug,    \* this run was built with -DDEBUG (the Makefile's build)
  pc,       \* "idle", "parse", "ir", "open", "asm", "nasm", "ld", "rm_o", "rm_asm"
  files,    \* the files of the working directory
  lost,     \* history: a write to out.asm failed in this run, and nobody looked
  status,   \* exit status of the last run, -1 if it was killed
  reported  \* what the last run printed: "compiled", "error" or "nothing"

vars == <<run, debug, pc, files, lost, status, reported>>

Names == {"asm", "obj", "exe"}

Init ==
  /\ run = 0
  /\ debug = FALSE
  /\ pc = "idle"
  /\ files = [n \in Names |-> 0]
  /\ lost = FALSE
  /\ status = 0
  /\ reported = "nothing"

Start ==
  /\ pc = "idle"
  /\ run < MaxRuns
  /\ run' = run + 1
  /\ debug' \in BOOLEAN
  /\ pc' = "parse"
  /\ reported' = "nothing"
  /\ lost' = FALSE
  /\ UNCHANGED <<files, status>>

\* return err from main: only the low byte of err reaches the shell.
Exit(err) ==
  /\ pc' = "idle"
  /\ status' = err % 256
  /\ reported' = "error"
  /\ UNCHANGED <<run, debug>>

Goto(next) == pc' = next /\ UNCHANGED <<run, debug, status, reported>>

\* Wrong number of arguments, lexer and parser errors, errors of the
\* intermediate code: main returns before it touches a file.
Frontend ==
  /\ pc \in {"parse", "ir"}
  /\ \/ Goto(IF pc = "parse" THEN "ir" ELSE "open")
     \/ \E e \in CompileErrors : Exit(e)
  /\ UNCHANGED <<files, lost>>

\* fopen("out.asm", "w") truncates; the code does not look at a failure, and
\* compile_instructions_to_x86_64 asserts that the file is open.
OpenAsm ==
  /\ pc = "open"
  /\ \/ files' = [files EXCEPT !["asm"] = - run] /\ Goto("asm")
     \/ Exit(ABORTED) /\ UNCHANGED files
  /\ UNCHANGED lost

\* All is written; or an fprintf or the fclose fails and main, which looks at none
\* of their results, goes on with what is there; or a register error leaves a
\* truncated out.asm behind.
WriteAsm ==
  /\ pc = "asm"
  /\ \/ files' = [files EXCEPT !["asm"] = run] /\ lost' = FALSE /\ Goto("nasm")
     \/ lost' = TRUE /\ Goto("nasm") /\ UNCHANGED files
     \/ Exit(8) /\ UNCHANGED <<files, lost>>

\* system("<tool>") with the file it reads and the one it writes.
Tool(at, from, to, next) ==
  /\ pc = at
  /\ \/ files' = [files EXCEPT ![to] = files[from]] /\ Goto(next)
     \/ /\ files' \in {files, [files EXCEPT ![to] = - run]}
        /\ \E e \in FailStatuses : Exit(e)
  /\ UNCHANGED lost

Assemble_IgnoresFailure ==
  /\ pc = "nasm"
  /\ \/ files' = [files EXCEPT !["obj"] = files["asm"]] /\ Goto("ld")
     \/ files' \in {files, [files EXCEPT !["obj"] = - run]} /\ Goto("ld")
  /\ UNCHANGED lost

Assemble == Tool("nasm", "asm", "obj", "ld")
Link == Tool("ld", "obj", "exe", "rm_o")

\* "Compiled expression ./out", and a return of 0.
Finish(next) ==
  IF next # "idle" THEN Goto(next)
  ELSE /\ pc' = "idle"
       /\ status' = 0
       /\ reported' = "compiled"
       /\ UNCHANGED <<run, debug>>

RemoveFile(at, name, next) ==
  /\ pc = at
  /\ \/ files' = [files EXCEPT ![name] = 0] /\ Finish(next)
     \/ (\E e \in FailStatuses : Exit(e)) /\ UNCHANGED files
  /\ UNCHANGED lost

RemoveObject == RemoveFile("rm_o", "obj", IF debug THEN "idle" ELSE "rm_asm")

RemoveAsm == RemoveFile("rm_asm", "asm", "idle")

\* The process is killed; what it has printed and written stays.
Killed ==
  /\ pc # "idle"
  /\ pc' = "idle"
  /\ status' = -1
  /\ UNCHANGED <<run, debug, files, lost, reported>>

Next ==
  \/ Start \/ Frontend \/ OpenAsm \/ WriteAsm \/ Assemble \/ Link
  \/ RemoveObject \/ RemoveAsm \/ Killed

Spec == Init /\ [][Next]_vars

-----------------------------------------------------------------------------
(* Properties *)

\* What this run hands from step to step: the whole program, unless writing it failed.
Output == IF lost THEN - run ELSE run

\* When main says "Compiled expression ./out", the executable is this run's, never one
\* that an earlier or a killed run left: it holds the whole expression, except when
\* writing out.asm failed.  out.o is gone, and out.asm too or, under DEBUG, is what
\* the executable was made from.
CompiledIsFresh ==
  pc = "idle" /\ reported = "compiled" =>
    /\ files["exe"] = Output /\ files["obj"] = 0
    /\ files["asm"] = IF debug THEN Output ELSE 0

\* "Compiled expression ./out" (main.c:377) is printed of a whole program only.
CompiledIsWhole == pc = "idle" /\ reported = "compiled" => files["exe"] = run

\* The message and the exit status agree: main prints "ERROR: Failed to compile
\* assembly" (main.c:351) and returns an error code.
ErrorMeansNonZero == pc = "idle" /\ reported = "error" /\ status # -1 => status # 0
=============================================================================
