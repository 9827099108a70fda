----------------------------- MODULE IdealMachine -----------------------------
(***************************************************************************)
(* What a debugger promises about the machine under it, whatever it does   *)
(* with breakpoints, step counts and keys.  The machine is running or      *)
(* stopped.  While it runs, program counter and registers change only by   *)
(* executing, once, the instruction under the program counter and moving   *)
(* on; stopping it changes neither; the user changes things only while it  *)
(* is stopped.                                                             *)
(***************************************************************************)
EXTENDS Program

VARIABLES
  pc,         \* address of the instruction to execute next
  acc, lr,    \* registers
  mapped,     \* memory holds the program
  running

mvars == <<pc, acc, lr, mapped, running>>

Init ==
  /\ pc = 0
  /\ acc = 0
  /\ lr = 0
  /\ mapped = FALSE
  /\ running = FALSE

\* The user moves the program counter, sets registers, loads a program, resets.
Prepare ==
  /\ ~ running
  /\ pc' \in Addr
  /\ lr' \in Addr
  /\ acc' \in 0 .. AccMod - 1
  /\ mapped' \in BOOLEAN
  /\ UNCHANGED running

Start ==
  /\ ~ running
  /\ running' = TRUE
  /\ UNCHANGED <<pc, acc, lr, mapped>>

\* One whole instruction, its effect and the new program counter together.
Retire ==
  LET i == InsnAt(mapped, pc)
  IN  /\ running
      /\ Completes(i)
      /\ acc' = NewAcc(i, acc)
      /\ lr'  = NewLR(i, pc, lr)
      /\ pc'  = NewNIA(i, pc, lr)
      /\ UNCHANGED <<mapped, running>>

\* An exception stops the machine with the program counter on the culprit.
Fault ==
  LET i == InsnAt(mapped, pc)
  IN  /\ running
      /\ Fetches(i)
      /\ Raises(i) # 0
      /\ acc' = NewAcc(i, acc)
      /\ running' = FALSE
      /\ UNCHANGED <<pc, lr, mapped>>

Stop ==
  /\ running
  /\ running' = FALSE
  /\ UNCHANGED <<pc, acc, lr, mapped>>

Next == Prepare \/ Start \/ Retire \/ Fault \/ Stop

Spec == Init /\ [][Next]_mvars
=============================================================================
