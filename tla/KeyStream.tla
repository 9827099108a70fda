------------------------------ MODULE KeyStream ------------------------------
(***************************************************************************)
(* What a terminal line promises: while a program runs, the characters     *)
(* typed come out in the order they were typed, each once; while it does   *)
(* not, the foremost of those that it has not read go to somebody else.    *)
(***************************************************************************)
EXTENDS Sequences

CONSTANT Chars

VARIABLES
  waiting,    \* typed, and read by nobody
  held,       \* read by the program and not yet out: at most one
  shown,      \* what has come out
  running

svars == <<waiting, held, shown, running>>

Init == waiting = <<>> /\ held = <<>> /\ shown = <<>> /\ running = FALSE

Type ==
  /\ \E c \in Chars : waiting' = Append(waiting, c)
  /\ UNCHANGED <<held, shown, running>>

Read ==
  /\ running
  /\ waiting # <<>> /\ held = <<>>
  /\ held' = <<Head(waiting)>>
  /\ waiting' = Tail(waiting)
  /\ UNCHANGED <<shown, running>>

Show ==
  /\ running
  /\ held # <<>>
  /\ shown' = Append(shown, Head(held))
  /\ held' = <<>>
  /\ UNCHANGED <<waiting, running>>

Take ==
  /\ ~ running
  /\ waiting # <<>>
  /\ waiting' = Tail(waiting)
  /\ UNCHANGED <<held, shown, running>>

Switch == running' = ~ running /\ UNCHANGED <<waiting, held, shown>>

Next == Type \/ Read \/ Show \/ Take \/ Switch

Spec == Init /\ [][Next]_svars
=============================================================================
