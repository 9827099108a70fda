----------------------------- MODULE HistoryLog -----------------------------
(***************************************************************************)
(* What the history of the shell promises: the last N commands in the      *)
(* order they were run, and arrow keys that go through them, the youngest  *)
(* first, round and round upwards and downwards to an empty line.  Only    *)
(* the command the arrows show may be left out when it is run again.       *)
(***************************************************************************)
EXTENDS Integers, Sequences

CONSTANTS N, Texts

VARIABLES
  log,      \* the oldest command first
  pos,      \* how far the arrows have gone back, 0 before they are used
  last,     \* the command run last
  shown     \* the line at the prompt

lvars == <<log, pos, last, shown>>

Back(k) == log[Len(log) + 1 - k]

Init == log = <<>> /\ pos = 0 /\ last = "" /\ shown = ""

Type ==
  /\ shown' \in Texts \cup {""}
  /\ UNCHANGED <<log, pos, last>>

Add(l) ==
  /\ last' = l
  /\ \/ /\ log' = Append(IF Len(log) < N THEN log ELSE Tail(log), l)
        /\ pos' = 0
     \/ /\ pos > 0 /\ l = Back(pos)
        /\ UNCHANGED <<log, pos>>
  /\ UNCHANGED shown

Up ==
  /\ log # <<>>
  /\ pos' = IF pos = Len(log) THEN 1 ELSE pos + 1
  /\ shown' = Back(pos')
  /\ UNCHANGED <<log, last>>

Down ==
  /\ pos > 0
  /\ pos' = pos - 1
  /\ shown' = IF pos = 1 THEN "" ELSE Back(pos - 1)
  /\ UNCHANGED <<log, last>>

Next == Type \/ Up \/ Down \/ \E l \in Texts : Add(l)

Spec == Init /\ [][Next]_lvars
=============================================================================
