--------------------------- MODULE BreakpointTable ---------------------------
(***************************************************************************)
(* The breakpoint table of breakpt.c as a value, and the operations on it. *)
(* A table is a function from slot numbers to entries.  An operation takes *)
(* the table and returns the table it leaves, together with the status it  *)
(* returns to its caller where the caller looks at one.                    *)
(*                                                                         *)
(* The code never sets is_data to anything but 0 (the data-breakpoint      *)
(* check of mss.c is compiled out), so entries carry no such field.        *)
(***************************************************************************)
EXTENDS Address, FirstFit

CONSTANTS
  MAX_BRKPTS,   \* number of slots of the table
  MaxCount      \* largest skip counter a user asks for

ASSUME MaxBrkptsAssumption == MAX_BRKPTS \in Nat \ {0}
ASSUME MaxCountAssumption  == MaxCount \in Nat

Slots  == 0 .. MAX_BRKPTS - 1
Counts == 0 .. MaxCount

\* An entry.  sys marks the temporary breakpoints of the `over' command.
Breakpoint == [valid : BOOLEAN, addr : Addr, sys : BOOLEAN, count : Counts]

\* Status codes (ERR_... of ppcsim.h): what the command loop is told.
OK         == "ok"
ERR_LIMITS == "ERR_LIMITS"
ERR_BADVAL == "ERR_BADVAL"

\* The first-fit scan of each operation stops at the lowest such slot.
FreeSlots(b)     == {i \in Slots : ~ b[i].valid}
MatchingSlots(b, a) == {i \in Slots : b[i].valid /\ b[i].addr = a}

-----------------------------------------------------------------------------

BRK_init(b) == [i \in Slots |-> [b[i] EXCEPT !.valid = FALSE]]

\* A mutation: the counter the caller passes is kept, as the help text of
\* `bp -c' has it.
BRK_set_count_kept(b, a, count, sys) ==
  IF FreeSlots(b) = {}
    THEN [brk |-> b, stat |-> ERR_LIMITS]
    ELSE [brk  |-> [b EXCEPT ![First(FreeSlots(b))] =
                      [valid |-> TRUE, addr |-> Align(a), sys |-> sys, count |-> count]],
          stat |-> OK]

\* The counter is an argument that the code then ignores.
BRK_set(b, a, count, sys) ==
  IF FreeSlots(b) = {}
    THEN [brk |-> b, stat |-> ERR_LIMITS]
    ELSE [brk  |-> [b EXCEPT ![First(FreeSlots(b))] =
                      [valid |-> TRUE, addr |-> Align(a), sys |-> sys, count |-> 0]],
          stat |-> OK]

\* Deleting an already free slot is not an error.
BRK_del(b, idx) ==
  IF idx \in Slots
    THEN [brk |-> [b EXCEPT ![idx].valid = FALSE], stat |-> OK]
    ELSE [brk |-> b, stat |-> ERR_BADVAL]

\* A mutation: the sys flag is not compared.
BRK_del_addr_any(b, a, sys) ==
  LET found == MatchingSlots(b, a)
  IN  IF found = {} THEN [brk |-> b, stat |-> ERR_BADVAL]
                    ELSE [brk |-> [b EXCEPT ![First(found)].valid = FALSE], stat |-> OK]

BRK_del_addr(b, a, sys) ==
  LET found == {i \in MatchingSlots(b, a) : b[i].sys = sys}
  IN  IF found = {} THEN [brk |-> b, stat |-> ERR_BADVAL]
                    ELSE [brk |-> [b EXCEPT ![First(found)].valid = FALSE], stat |-> OK]

\* Only the first matching slot counts: a running skip counter in it is
\* decremented and hides any later slot with the same address.
bp_match(b, a) ==
  LET found == MatchingSlots(b, a)
      hit   == First(found)
  IN  IF found = {} THEN [hit |-> FALSE, brk |-> b]
      ELSE IF b[hit].count > 0
             THEN [hit |-> FALSE, brk |-> [b EXCEPT ![hit].count = @ - 1]]
             ELSE [hit |-> TRUE, brk |-> b]

-----------------------------------------------------------------------------

\* No entry has skips left to count.
NoSkips(b) == \A i \in Slots : b[i].count = 0
=============================================================================
