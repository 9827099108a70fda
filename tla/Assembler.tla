----------------------------- MODULE Assembler -------------------------------
(***************************************************************************)
(* The as command: assemble() shows the instruction at an address, takes a *)
(* line, and goes to the next.  A line is an instruction, a label, or one  *)
(* of those that end or skip.  Branches look labels up in label_table, and *)
(* ask for the address of one that is not there.                           *)
(*                                                                         *)
(* label_table has MAXBRANCHLABEL entries and nothing keeps the program    *)
(* from using the one behind: it is slot MAXBRANCHLABEL here, memory of    *)
(* something else that reads as a name or as an empty one.                 *)
(*                                                                         *)
(* A session says what memory holds at first, which lines may be typed     *)
(* and how many.                                                           *)
(***************************************************************************)
EXTENDS OperandListing, FirstFit

CONSTANTS Addresses,       \* what as may be given, multiples of 4
          Mapped,          \* those of them the memory subsystem has
          MAXBRANCHLABEL,  \* entries of label_table
          Texts,           \* what a label may be typed as, before the colon
          Answers,         \* addresses typed for an undefined label
          Junk,            \* what the stack may hold for a missing operand
          Sessions         \* records of memory, lines and number

VARIABLES mem,      \* the instruction, or data, at each mapped address
          labels,   \* label_table and the entry behind it
          mode,     \* "shell", or "prompt": assemble() waits for a line
          at,       \* start
          end,      \* the address behind the last one
          session,
          left,     \* lines that may still be typed
          source    \* history: the line that made each instruction

vars == <<mem, labels, mode, at, end, session, left, source>>

Slots == 0 .. MAXBRANCHLABEL
\* Names are numbers: that of an empty entry, the one of entry 0, another.
nothing  == 0
KEYBOARD == 1
other    == 2
data == Entry(".WORD", none)

\* The opcodes, which memory has, and not the mnemonics a line may use.
Opcodes == {EntryOf(op).op : op \in DOMAIN Rows} \cup {data.op}

Instruction(i) ==
  /\ i.op \in Opcodes
  /\ i.op \in {"bc", "bca", "bclr"} => i.f["A"] \in 0 .. 31

\* A label has a name, however it is typed.
Operand == {w \in [k : STRING, n : Int] : w.k = "label" => w.n # nothing}

ASSUME LabelAssumption == MAXBRANCHLABEL \in Nat \ {0} /\ nothing \notin Texts

\* There are 2^32 addresses, as many times over what LI holds.
ASSUME AddressAssumption ==
  /\ SPACE \in Nat \ {0} /\ SPACE % SizeOf("LI") = 0
  /\ Mapped \cup Answers \subseteq 0 .. SPACE - 1

ASSUME JunkAssumption == Junk \subseteq Int

ASSUME SessionAssumption ==
  \A s \in Sessions :
    /\ \A a \in Mapped : Instruction(s.memory[a])
    /\ DOMAIN s.memory = Mapped
    /\ \A l \in s.lines : l.op \in DOMAIN Rows /\ l.words \in Seq(Operand)

\* The first entry that is empty or has the name, or the one behind the table.
Search(name) ==
  First({s \in Slots : s = MAXBRANCHLABEL \/ labels[s].name \in {nothing, name}})

Known(name) == Search(name) # MAXBRANCHLABEL /\ labels[Search(name)].name = name
AddressOf(name) == labels[Search(name)].address

------------------------------------------------------------------------------
Init ==
  /\ session \in Sessions
  /\ mem = session.memory
  /\ left = session.number
  /\ \E behind \in {nothing, other} :
       labels = [s \in Slots |->
                   [name    |-> CASE s = 0 -> KEYBOARD [] s = MAXBRANCHLABEL -> behind
                                  [] OTHER -> nothing,
                    address |-> 0]]
  /\ mode = "shell"
  /\ at = 0 /\ end = 0
  /\ source = [a \in Mapped |-> Entry("", <<>>)]

\* The loop: over when the range is, or when the memory cannot be read.
Go(a, e) ==
  /\ at' = a /\ end' = e
  /\ mode' = IF a <= e /\ a \in Mapped THEN "prompt" ELSE "shell"

(* as: the shell passes an end it has not set, for it asks for no second   *)
(* argument.                                                               *)
As ==
  /\ mode = "shell" /\ left > 0
  /\ \E a, e \in Addresses : Go(a, e)
  /\ UNCHANGED <<mem, labels, session, left, source>>

Line == mode = "prompt" /\ left > 0 /\ left' = left - 1 /\ UNCHANGED session

\* An empty line, q, x, or one that begins with a dot: .orig and .dc too.
Leave == /\ mode' = "shell"
         /\ UNCHANGED <<mem, labels, at, end, source>>

Quit == Line /\ Leave

\* A line of blanks keeps what is there.
Skip == Line /\ Go(Wrapped(at + 4), end) /\ UNCHANGED <<mem, labels, source>>

\* A comment, an indented directive, or a line that is no instruction.
Stay == Line /\ Go(at, end) /\ UNCHANGED <<mem, labels, source>>

\* A mutation: a label typed again gets the new address.
Define_again(text) ==
  /\ Line
  /\ labels' = [labels EXCEPT ![Search(text)] = [name |-> text, address |-> at]]
  /\ Go(at, end)
  /\ UNCHANGED <<mem, source>>

(* A label, with the @ if one is typed.  When the table is full the entry  *)
(* behind it is used if it happens to be empty.                            *)
Define(text) ==
  /\ Line
  /\ LET s == Search(text)
     IN  labels' = IF labels[s].name = nothing
                     THEN [labels EXCEPT ![s] = [name |-> text, address |-> at]]
                     ELSE labels
  /\ Go(at, end)
  /\ UNCHANGED <<mem, source>>

------------------------------------------------------------------------------
\* The branch target of a line, if it has one.
Targets(op, words) ==
  {words[Rows[op][k].word] : k \in {j \in DOMAIN Rows[op] :
     Rows[op][j].as = "branch" /\ Rows[op][j].word <= Len(words)}}

\* A mutation: the forms with and without AA change places.
pull_immediate_branch_swapped(op, w, address) ==
  IF w.k # "label" THEN pull_immediate(w)
  ELSE IF op \in DOMAIN Absolute THEN address - at ELSE address

(* An address from the table is made relative for the forms without AA; a  *)
(* number is taken as it is typed.                                         *)
pull_immediate_branch(op, w, address) ==
  IF w.k # "label" THEN pull_immediate(w)
  ELSE IF op \in DOMAIN Absolute THEN address ELSE address - at

\* An SPR that is neither in the table nor s and a number is refused.
Refused(op, words) ==
  \E k \in DOMAIN Rows[op] : Rows[op][k].as = "spr" /\ words[Rows[op][k].word].k # "spr"

(* The address of an undefined label is asked for and entered, the name    *)
(* first: in the entry behind the table when that is full.                 *)
Enter(op, words) ==
  /\ ~ Refused(op, words)
  /\ \E junk \in [Len(words) + 1 .. WordsRead(op) -> Junk], answer \in Answers :
       LET asked   == {w \in Targets(op, words) : w.k = "label" /\ ~ Known(w.n)}
           addr(w) == IF w \in asked THEN answer
                      ELSE IF w.k = "label" THEN AddressOf(w.n) ELSE 0
           target  == IF Targets(op, words) = {} THEN 0
                      ELSE LET w == CHOOSE w \in Targets(op, words) : TRUE
                           IN  pull_immediate_branch(op, w, addr(w))
       IN  /\ mem' = [mem EXCEPT ![at] = assemble_a_mnemonic(op, words, target, junk)]
           /\ labels' = [s \in Slots |->
                           IF \E w \in asked : s = Search(w.n)
                             THEN [name    |-> (CHOOSE w \in asked : TRUE).n,
                                   address |-> answer]
                             ELSE labels[s]]
  /\ source' = [source EXCEPT ![at] = Entry(op, words)]
  /\ Go(Wrapped(at + 4), end)

Type == \E l \in session.lines : Line /\ Enter(l.op, l.words)

\* What is shown, typed as it stands; data is shown with a dot.
Retype ==
  /\ Line
  /\ LET i     == mem[at]
         words == disassemble_an_opcode(i, at)
     IN  IF Name(i) = data.op THEN Leave
         ELSE \/ Enter(Name(i), words)
              \/ Refused(Name(i), words) /\ Go(at, end) /\ UNCHANGED <<mem, labels, source>>

Next == \/ As \/ Quit \/ Skip \/ Stay \/ Type \/ Retype
        \/ \E text \in Texts : Define(text)

Spec == Init /\ [][Next]_vars
------------------------------------------------------------------------------
(* What a listing keeps of an instruction, by the conventions of the two   *)
(* halves: a number in decimal digits is read as hexadecimal, an address   *)
(* shown for a relative branch is read as a displacement, what prints      *)
(* nothing is read from the stack, the c of cr is a digit to cmp, and      *)
(* the name of a rotation implies some of its fields.                      *)
HexRead == {"immediate", "segment", "sprg", "ibatu"}

Implied(i) ==
  LET f == i.f
  IN  CASE Name(i) = "slwi"     -> f["ME"] = 31 - f["SH"]
        [] Name(i) = "srwi"     -> f["SH"] = 32 - f["MB"]
        [] Name(i) = "clrlslwi" -> f["ME"] = 31 - f["SH"]
        [] Name(i) = "insrwi"   -> f["SH"] = (33 - 2 * f["MB"] + f["ME"]) % 32
        [] Name(i) = "rotlw"    -> f["MB"] = 0
        [] OTHER                -> TRUE

AsShown(i, addr) ==
  LET name  == Name(i)
      row   == Rows[name]
      shown == disassemble_an_opcode(i, addr)
  IN  /\ name # data.op
      /\ Len(shown) = WordsRead(name)
      /\ \A k \in DOMAIN row :
           /\ row[k].as \in HexRead /\ shown[row[k].word].k = "dec"
                => shown[row[k].word].n \in 0 .. 9
           /\ row[k].as = "branch" => name \in DOMAIN Absolute
           /\ row[k].as = "spr" => shown[row[k].word].k = "spr"
      /\ name # "cmp"
      /\ Implied(i)

(* An instruction that the listing keeps, typed as it is shown, leaves     *)
(* memory as it was: the orders in which the assembler reads the operands  *)
(* and the disassembler prints them, two long chains of cases over the     *)
(* same table, agree (asm.c:295-2610, dasm.c:1490-2350).                   *)
RetypedIsSame ==
  [][(Retype /\ AsShown(mem[at], at)) => mem' = mem]_vars

\* The field that holds where a branch goes.
FieldOf(op) == IF op \in {"b", "ba"} THEN "LI" ELSE "BD"

(* Where the program goes on after a branch that is taken: the field with  *)
(* its sign, from the branch or, with AA set, from 0.                      *)
Goes(i, a) ==
  LET slot == FieldOf(i.op)
      d    == Signed(i.f[slot], SizeOf(slot))
  IN  Wrapped(IF i.op \in {"ba", "bca"} THEN d ELSE a + d)

(* The addresses the branch at a can be made to go to: words, as far as    *)
(* its field reaches, past either end of the addresses if need be.         *)
InReach(i, a, b) ==
  LET half == SizeOf(FieldOf(i.op)) \div 2
      d    == IF i.op \in {"ba", "bca"} THEN b ELSE b - a
  IN  /\ d % 4 = 0
      /\ \E turn \in {-SPACE, 0, SPACE} : -half <= d + turn /\ d + turn < half

\* The labels that branches were typed with.
Labelled(a) ==
  {w \in IF source[a].op = "" THEN {} ELSE Targets(source[a].op, source[a].f) :
     w.k = "label"}

(* A branch typed with a label in its reach goes to the address the table  *)
(* has for the label, and still does however many labels are typed later,  *)
(* the same one among them: the first address of a label, defined or       *)
(* answered, is the one it keeps (asm.c:2916-2965, 4323-4348), and what    *)
(* the interpreter makes of the field leads there (ppcsim.c:2070-2099).    *)
BranchReachesItsLabel ==
  \A a \in Mapped : \A w \in Labelled(a) :
    Known(w.n) /\ InReach(mem[a], a, AddressOf(w.n)) => Goes(mem[a], a) = AddressOf(w.n)

(* The bits a rotation moves, as pairs of where from and where to, and     *)
(* those each mnemonic stands for in the manual of the processor.          *)
Moved(f) ==
  {p \in {<<i, (i - f["SH"]) % 32>> : i \in 0 .. 31} : f["MB"] <= p[2] /\ p[2] <= f["ME"]}

MeantByOne(op, n) ==
  CASE op = "slwi"   -> {<<i, i - n>> : i \in n .. 31}
    [] op = "srwi"   -> {<<i, i + n>> : i \in 0 .. 31 - n}
    [] op = "clrlwi" -> {<<i, i>> : i \in n .. 31}
    [] op = "clrrwi" -> {<<i, i>> : i \in 0 .. 31 - n}
    [] op = "rotlwi" -> {<<i, (i - n) % 32>> : i \in 0 .. 31}
    [] op = "rotrwi" -> {<<i, (i + n) % 32>> : i \in 0 .. 31}

MeantByTwo(op, n, b) ==
  CASE op = "extlwi"   -> {<<b + k, k>> : k \in 0 .. n - 1}
    [] op = "extrwi"   -> {<<b + k, 32 - n + k>> : k \in 0 .. n - 1}
    [] op = "inslwi"   -> {<<k, b + k>> : k \in 0 .. n - 1}
    [] op = "clrlslwi" -> {<<i, i - b>> : i \in n .. 31}

\* The amounts the manual allows.
Allowed(op, n, b) ==
  IF op = "clrlslwi" THEN b \in 0 .. n /\ n \in 0 .. 31
                     ELSE b \in 0 .. 31 /\ n \in 1 .. 32 - b

(* A rotation by amounts moves the bits its mnemonic says: the amounts and *)
(* the three fields they make are related by a case for each mnemonic      *)
(* (asm.c:2395-2535).  insrwi is left out: it rotates by 32 - b + n.       *)
ShiftsMoveTheirBits ==
  \A a \in Mapped :
    LET op == source[a].op
        n  == pull_immediate(source[a].f[3])
        b  == pull_immediate(source[a].f[4])
    IN  op \in Shifts \ {"insrwi"} =>
          IF op \in OneAmount
            THEN Len(source[a].f) = 3 /\ n \in 0 .. 31 => Moved(mem[a].f) = MeantByOne(op, n)
            ELSE Len(source[a].f) = 4 /\ Allowed(op, n, b)
                   => Moved(mem[a].f) = MeantByTwo(op, n, b)
==============================================================================
