------------------------------- MODULE Session -------------------------------
(***************************************************************************)
(* A session of the shell: lines are edited with the history, split into   *)
(* commands that run one after the other, and may run scripts whose lines  *)
(* are split in turn.  Of the commands those are modelled that change what *)
(* later commands mean: the symbols, the location, the command of `.', and *)
(* whether anything runs after them.                                       *)
(***************************************************************************)
EXTENDS History, SymbolTable

CONSTANTS
  Pieces,       \* line -> the commands between its semicolons
  Does,         \* command -> [op, arg, val], the words it consists of
  Scripts,      \* name -> its lines, without comments
  Quits,        \* the lines that start with q
  Startup,      \* what the options -s and -f may leave to run first
  Hex,          \* number as it is typed -> value
  Printed,      \* address -> the number printed for it
  Filter,       \* 100: values below it are not loaded
  Stops,        \* where a program that runs may stop
  Sessions,     \* sets of lines: what is typed in a session
  MAX_OPEN      \* how deep scripts may nest before files or stack run out

Ops == {"echo", "fail", "unknown", "ss", "go", "u", "where", "do", "sym -d", "sym -f",
        "sym -r", "reset", "exit", "."}

ASSUME SessionAssumption ==
  /\ Pieces \in [Texts -> Seq(Texts)]
  /\ Does \in [Texts -> [op : Ops, arg : STRING, val : STRING]]
  /\ \A s \in DOMAIN Scripts : Scripts[s] \in Seq(Texts)
  /\ Quits \subseteq Texts /\ Startup \subseteq Texts /\ Sessions \subseteq SUBSET Texts
  /\ \A s \in DOMAIN Hex : Hex[s] \in Word
  /\ Printed \in [Word -> DOMAIN Hex]
  /\ Stops \subseteq Word /\ Stops # {}
  /\ MAX_OPEN \in Nat

VARIABLES
  typed,        \* one of Sessions
  at,           \* "edit", "run" or "ended"
  stack,        \* the lists and scripts that are running, the innermost last
  stat,         \* what the call that returned last returned
  dot,          \* dot_cmd, a record as those of Does, or "" in op
  table,        \* the symbols, while `linked'
  linked,       \* ppcsim->symbols is not NULL
  CIA,
  told          \* what `where' has just said, and of which location

svars == <<typed, at, stack, stat, dot, table, linked, CIA, told>>
vars  == <<hvars, svars>>

ERR == 1
NoDot  == [op |-> "", arg |-> "", val |-> ""]
Silent == [sym |-> "", label |-> "", of |-> 0]

List(line)   == [kind |-> "list", rest |-> Pieces[line]]
Script(name) == [kind |-> "script", rest |-> Scripts[name]]

------------------------------------------------------------------------------
(* The prompt.                                                             *)

Edit ==
  /\ at = "edit"
  /\ \/ UpArrow
     \/ DownArrow
     \/ TypeText /\ buf' \in typed \cup {""}
  /\ UNCHANGED svars

\* Ctrl-D
Eof ==
  /\ at = "edit"
  /\ at' = "ended"
  /\ UNCHANGED <<hvars, typed, stack, stat, dot, table, linked, CIA, told>>

\* A line is run: shell_run_command, of the prompt and of a script.
Begin(line, frames) ==
  \/ /\ line \in Quits
     /\ at' = "ended"
     /\ stack' = frames
  \/ /\ line \notin Quits
     /\ at' = "run"
     /\ stack' = IF line = "" THEN frames ELSE Append(frames, List(line))

Enter ==
  /\ at = "edit"
  /\ Begin(buf, <<>>)
  /\ stat' = 0
  /\ told' = Silent
  /\ UNCHANGED <<hvars, typed, dot, table, linked, CIA>>

------------------------------------------------------------------------------
(* Calls.                                                                  *)

Top == Last(stack)

\* A mutation: a script goes on after an error.
GoesOn_script(f) == f.rest # <<>> /\ (stat = 0 \/ f.kind = "script")

\* A list and a script go on while there is more and nothing has failed.
GoesOn(f) == f.rest # <<>> /\ stat = 0

Popped ==
  [stack EXCEPT ![Len(stack)] = [kind |-> Top.kind, rest |-> Tail(Top.rest)]]

Calling(kind) == at = "run" /\ stack # <<>> /\ Top.kind = kind /\ GoesOn(Top)

ScriptLine ==
  /\ Calling("script")
  /\ Begin(Head(Top.rest), Popped)
  /\ stat' = 0
  /\ UNCHANGED <<hvars, typed, dot, table, linked, CIA, told>>

Return ==
  /\ at = "run" /\ stack # <<>>
  /\ ~ GoesOn(Top)
  /\ stack' = Front(stack)
  /\ UNCHANGED <<hvars, typed, at, stat, dot, table, linked, CIA, told>>

\* The loop of main, with a new line to edit.
MainReturn ==
  /\ at = "run" /\ stack = <<>>
  /\ at' = IF stat < 0 THEN "ended" ELSE "edit"
  /\ buf' = ""
  /\ UNCHANGED <<history, hist_idx, hist_count, hist_pos, ran>>
  /\ UNCHANGED <<typed, stack, stat, dot, table, linked, CIA, told>>

------------------------------------------------------------------------------
(* Commands.  c is the command, which `.' takes from dot_cmd.              *)

Ss == [op |-> "ss", arg |-> "", val |-> ""]

Meant(p) ==
  IF Does[p].op # "." THEN Does[p] ELSE IF dot.op = "" THEN Ss ELSE dot

\* `.' finds its command in dot_cmd, where it has put it if there was none.
Remembered(p) == IF Does[p].op = "." /\ dot.op = "" THEN Ss ELSE dot

\* shell_getvalue: the location, a symbol, a number, in this order.
Resolves(arg) == arg = "." \/ arg \in Names(table) \/ arg \in DOMAIN Hex

shell_getvalue(arg) ==
  CASE arg = "." -> CIA
    [] arg # "." /\ arg \in Names(table) -> symbol_get_byname(table, arg)
    [] OTHER -> Hex[arg]

\* The commands that look for a symbol; once reset has unlinked the list they
\* may find none or end the simulator.
LooksUp(c) == c.op \in {"sym -d", "sym -f", "sym -r", "where"} \/ (c.op \in {"go", "u"} /\ c.arg # ".")

Leaves(s, d) == stat' = s /\ dot' = d

Echo(c, d) ==
  /\ c.op = "echo"
  /\ Leaves(0, d)
  /\ UNCHANGED <<table, linked, CIA>> /\ told' = Silent

Fail(c, d) ==
  /\ c.op = "fail"
  /\ Leaves(ERR, d)
  /\ UNCHANGED <<table, linked, CIA>> /\ told' = Silent

\* go without an address it can read falls through to here.
Unknown(c) ==
  /\ c.op = "unknown" \/ (c.op = "go" /\ ~ Resolves(c.arg))
  /\ Leaves(ERR, NoDot)
  /\ UNCHANGED <<table, linked, CIA>> /\ told' = Silent

\* The program runs; see RunControl.
Runs(c, d) ==
  /\ \/ c.op = "ss" /\ dot' = Ss
     \/ c.op = "go" /\ Resolves(c.arg) /\ dot' = d
  /\ CIA' \in Stops
  /\ stat' \in {-1, 0, ERR}
  /\ UNCHANGED <<table, linked>> /\ told' = Silent

\* A read of memory that fails is a status like that of exit.
Unassemble(c, d) ==
  /\ c.op = "u"
  /\ \/ ~ Resolves(c.arg) /\ Leaves(ERR, d)
     \/ Resolves(c.arg) /\ Leaves(-1, d)
     \/ /\ Resolves(c.arg)
        /\ Leaves(0, [op |-> "u", arg |-> Printed[Low(shell_getvalue(c.arg) + 36)], val |-> ""])
  /\ UNCHANGED <<table, linked, CIA>> /\ told' = Silent

Where(c, d) ==
  /\ c.op = "where"
  /\ Leaves(0, d)
  /\ told' = [sym |-> SYM_where(table, CIA), label |-> Listed(table, SYM_where(table, CIA)),
              of |-> CIA]
  /\ UNCHANGED <<table, linked, CIA>>

SymDefine(c, d) ==
  /\ c.op = "sym -d"
  /\ \/ ~ Resolves(c.val) /\ Leaves(ERR, d) /\ UNCHANGED table
     \/ /\ Resolves(c.val)
        /\ Leaves(0, d)
        /\ table' = IF linked THEN symbol_add(table, c.arg, shell_getvalue(c.val)) ELSE table
  /\ UNCHANGED <<linked, CIA>> /\ told' = Silent

SymLoad(c, d) ==
  /\ c.op = "sym -f"
  /\ \/ c.arg \notin DOMAIN SymFiles /\ Leaves(ERR, d) /\ UNCHANGED table
     \/ /\ c.arg \in DOMAIN SymFiles
        /\ Leaves(0, d)
        /\ table' = IF linked THEN symbols_load_gccsym(table, c.arg, Filter) ELSE table
  /\ UNCHANGED <<linked, CIA>> /\ told' = Silent

SymFree(c, d) ==
  /\ c.op = "sym -r"
  /\ Leaves(0, d)
  /\ table' = <<>>
  /\ UNCHANGED <<linked, CIA>> /\ told' = Silent

ResetAll(c) ==
  /\ c.op = "reset"
  /\ Leaves(0, NoDot)
  /\ table' = <<>>
  /\ linked' = FALSE
  /\ UNCHANGED CIA /\ told' = Silent

Exit(c, d) ==
  /\ c.op = "exit"
  /\ Leaves(-1, d)
  /\ UNCHANGED <<table, linked, CIA>> /\ told' = Silent

\* A script that cannot be opened fails.
Open == Cardinality({i \in DOMAIN stack : stack[i].kind = "script"})

CanDo(name) == name \in DOMAIN Scripts /\ Open < MAX_OPEN

Do(c, d) ==
  /\ c.op = "do"
  /\ IF CanDo(c.arg) THEN Leaves(0, d) ELSE Leaves(ERR, d)
  /\ UNCHANGED <<table, linked, CIA>> /\ told' = Silent

Effect(c, d) ==
  \/ Echo(c, d) \/ Fail(c, d) \/ Unknown(c) \/ Runs(c, d) \/ Unassemble(c, d) \/ Where(c, d)
  \/ SymDefine(c, d) \/ SymLoad(c, d) \/ SymFree(c, d) \/ ResetAll(c) \/ Exit(c, d) \/ Do(c, d)

\* shell_run_one_command, with the command entered in the history first.
RunCommand ==
  /\ Calling("list")
  /\ LET p == Head(Top.rest)
         c == Meant(p)
     IN  /\ add_history(p)
         /\ Effect(c, Remembered(p))
         /\ stack' = IF c.op = "do" /\ CanDo(c.arg) THEN Append(Popped, Script(c.arg)) ELSE Popped
  /\ UNCHANGED <<typed, at, buf>>

\* The list of symbols is followed after reset has set it to NULL, or the
\* scripts nest too deep for the simulator's own stack.
Fatal(c) ==
  \/ ~ linked /\ LooksUp(c)
  \/ c.op = "do" /\ c.arg \in DOMAIN Scripts /\ Open = MAX_OPEN

Crash ==
  /\ Calling("list")
  /\ Fatal(Meant(Head(Top.rest)))
  /\ add_history(Head(Top.rest))
  /\ at' = "ended"
  /\ UNCHANGED <<buf, typed, stack, stat, dot, table, linked, CIA, told>>

------------------------------------------------------------------------------
Init ==
  /\ HistoryInit
  /\ typed \in Sessions
  /\ \/ at = "edit" /\ stack = <<>>
     \/ at = "run" /\ \E line \in Startup : stack = << List(line) >>
  /\ stat = 0
  /\ dot = NoDot
  /\ table = <<>> /\ linked = TRUE
  /\ CIA = 0
  /\ told = Silent

Call == ScriptLine \/ RunCommand \/ Return \/ MainReturn

Next == Edit \/ Eof \/ Enter \/ Call \/ Crash

Spec == Init /\ [][Next]_vars

------------------------------------------------------------------------------
(* After a command has failed or asked to exit, nothing that was to run    *)
(* after it in its line, or in a line or script around it, is run, and     *)
(* after `exit' there is no other prompt.                                  *)
FailureEndsAll ==
  [][at = "run" /\ stat # 0 =>
       /\ UNCHANGED <<history, ran, dot, table, linked, CIA, told>>
       /\ stat' = stat
       /\ stat = -1 => at' # "edit"]_vars

(* A name keeps the value of its first definition, and the other names     *)
(* theirs, whatever is defined or loaded later, until the symbols are      *)
(* removed.                                                                *)
FirstDefinitionHolds ==
  [][table' # <<>> =>
       \A n \in Names(table) :
         n \in Names(table') /\ symbol_get_byname(table', n) = symbol_get_byname(table, n)]_vars

(* `where' finds a symbol below the location, at the least distance of     *)
(* those that are less than MAX_DELTA away, or none if there are none.  A  *)
(* symbol at the location itself is not below it, and the distance is the  *)
(* int of SYM_where: it is negative for a symbol further below than half   *)
(* the address space, which so counts as nearer than any other.            *)
Below(t, a) == {i \in DOMAIN t : t[i].val < a}
Distance(t, a, i) == Signed(a - t[i].val)

FindsNearest ==
  LET near == {i \in Below(table, told.of) : Distance(table, told.of, i) < MAX_DELTA}
  IN  IF near = {} THEN told.sym = Nowhere
      ELSE \E i \in near :
             /\ told.sym = table[i].name
             /\ \A k \in near : Distance(table, told.of, i) <= Distance(table, told.of, k)

(* It shows the name of the symbol it has found, unless one that was       *)
(* defined earlier has the same low bits: then it shows that one's.        *)
ShowsFound ==
  \/ told.label = told.sym
  \/ \E i, k \in DOMAIN table :
       /\ i < k /\ table[i].name = told.label /\ table[k].name = told.sym
       /\ table[i].val % LABEL_SPACE = table[k].val % LABEL_SPACE

(* `where' finds and shows the function the program is in, in every table, *)
(* as far as its int and its low bits go (symbols.c:253-286, 71-82).       *)
WhereIsNearest == told # Silent => FindsNearest /\ ShowsFound
=============================================================================
