------------------------------- MODULE History -------------------------------
(***************************************************************************)
(* The history of shell.c: a ring of commands, the arrow position in it,   *)
(* and the line that shell_read_line is editing.                           *)
(***************************************************************************)
EXTENDS Integers, Sequences

CONSTANTS
  CFG_HISTORY_SIZE,
  Texts               \* what can be typed

ASSUME HistoryAssumption == CFG_HISTORY_SIZE \in Nat \ {0}
ASSUME TextsAssumption == "" \notin Texts

VARIABLES
  history,
  hist_idx,           \* where the next command goes
  hist_count,
  hist_pos,           \* how far the arrows have gone back
  buf,
  ran                 \* history: the command run last

hvars == <<history, hist_idx, hist_count, hist_pos, buf, ran>>

NULL == ""
Slots == 0 .. CFG_HISTORY_SIZE - 1

HistoryInit ==
  /\ history = [i \in Slots |-> NULL]
  /\ hist_idx = 0 /\ hist_count = 0 /\ hist_pos = 0
  /\ buf = "" /\ ran = ""

\* x % CFG_HISTORY_SIZE for the numbers below twice the size.
Wrap(x) == IF x < CFG_HISTORY_SIZE THEN x ELSE x - CFG_HISTORY_SIZE

\* The slot that is k commands back.
Slot(k) == Wrap(hist_idx - k + CFG_HISTORY_SIZE)

\* The command at the arrow position is not added again.
Repeated(cmd) == Slot(hist_pos) # hist_idx /\ history[Slot(hist_pos)] = cmd

add_history(cmd) ==
  /\ ran' = cmd
  /\ \/ Repeated(cmd) /\ UNCHANGED <<history, hist_idx, hist_count, hist_pos>>
     \/ /\ ~ Repeated(cmd)
        /\ history' = [history EXCEPT ![hist_idx] = cmd]
        /\ hist_idx' = Wrap(hist_idx + 1)
        /\ hist_count' = IF hist_count < CFG_HISTORY_SIZE THEN hist_count + 1 ELSE hist_count
        /\ hist_pos' = 0

\* A mutation: the position is compared before it has moved.
UpArrow_late ==
  /\ hist_count > 0
  /\ hist_pos' = IF hist_pos > hist_count THEN 1 ELSE hist_pos + 1
  /\ buf' = history[Wrap(hist_idx - hist_pos' + CFG_HISTORY_SIZE)]
  /\ UNCHANGED <<history, hist_idx, hist_count, ran>>

UpArrow ==
  /\ hist_count > 0
  /\ hist_pos' = IF hist_pos + 1 > hist_count THEN 1 ELSE hist_pos + 1
  /\ buf' = history[Wrap(hist_idx - hist_pos' + CFG_HISTORY_SIZE)]
  /\ UNCHANGED <<history, hist_idx, hist_count, ran>>

DownArrow ==
  /\ hist_pos > 0
  /\ hist_pos' = hist_pos - 1
  /\ buf' = IF hist_pos' = 0 THEN "" ELSE history[Wrap(hist_idx - hist_pos' + CFG_HISTORY_SIZE)]
  /\ UNCHANGED <<history, hist_idx, hist_count, ran>>

\* Printable characters and backspaces, up to the next key of another kind.
TypeText ==
  /\ buf' \in Texts \cup {""}
  /\ UNCHANGED <<history, hist_idx, hist_count, hist_pos, ran>>

HistoryNext ==
  \/ UpArrow
  \/ DownArrow
  \/ TypeText
  \/ \E cmd \in Texts : add_history(cmd) /\ UNCHANGED buf

HistorySpec == HistoryInit /\ [][HistoryNext]_hvars

------------------------------------------------------------------------------
\* The ring read from its oldest command, as the command hist prints it.
Logged == [k \in 1 .. hist_count |-> history[Slot(hist_count - k + 1)]]

Log == INSTANCE HistoryLog WITH
         N <- CFG_HISTORY_SIZE, log <- Logged, pos <- hist_pos, last <- ran, shown <- buf

(* The ring, its index, its count and the arrow position agree with a log  *)
(* of the last commands, before and after the ring is full.                *)
ImplementsLog == Log!Spec
=============================================================================
