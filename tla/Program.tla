------------------------------- MODULE Program -------------------------------
(***************************************************************************)
(* What the run loop sees of an instruction.  sim_powerpc() executes one   *)
(* opcode against the architectural state and answers 0, or the number of  *)
(* an exception that stops the simulator.  The state is abstracted to an   *)
(* accumulator, which tells whether an instruction ran once or twice, and  *)
(* to the link register.  Kinds of instruction:                            *)
(*   op       completes and falls through                                  *)
(*   jump     b and taken bc, with LK when link is TRUE                    *)
(*   ret      blr, bclr 20                                                 *)
(*   trap     sc, tw, an unknown opcode: no effect, exception              *)
(*   partial  lmw or stmw failing at a later word: effect and exception    *)
(*   nofetch  no opcode can be read at this address                        *)
(***************************************************************************)
EXTENDS Address

CONSTANTS
  AccMod,      \* number of accumulator values
  Prog         \* the program the user loads, a function from addresses

Kinds == {"op", "jump", "ret", "trap", "partial", "nofetch"}
Insn  == [kind : Kinds, target : Addr, link : BOOLEAN]

ASSUME AccModAssumption == AccMod \in Nat \ {0}
ASSUME ProgAssumption   == Prog \in [Addr -> Insn]

\* Exception numbers, 0x300 and 0x700 in the code.
DSI == 768
PROGRAM == 1792

\* Unmapped memory reads as 0, and 0 is not an instruction.
Undefined == [kind |-> "trap", target |-> 0, link |-> FALSE]

\* What the processor finds at a: the program, once memory is mapped.
InsnAt(mapped, a) == IF mapped THEN Prog[a] ELSE Undefined

Fetches(i)   == i.kind # "nofetch"
Completes(i) == i.kind \in {"op", "jump", "ret"}

\* The exception instruction i returns, 0 for none.
Raises(i) == CASE i.kind = "trap"    -> PROGRAM
               [] i.kind = "partial" -> DSI
               [] OTHER -> 0

\* Next address, link register and accumulator after i, executed at a.
NewNIA(i, a, link_reg) ==
  CASE i.kind = "jump" -> i.target
    [] i.kind = "ret"  -> link_reg
    [] OTHER -> Following(a)

NewLR(i, a, link_reg) ==
  IF i.kind = "jump" /\ i.link THEN Following(a) ELSE link_reg

NewAcc(i, x) ==
  IF i.kind \in {"op", "partial"} THEN (x + 1) % AccMod ELSE x
=============================================================================
