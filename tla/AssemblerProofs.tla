--------------------------- MODULE AssemblerProofs ---------------------------
(***************************************************************************)
(* Proofs about the as command, for a label table of any size, whatever    *)
(* memory holds and whatever is typed.  Three arguments meet.  The tables  *)
(* are joined functions, so what they say of all their rows is proved      *)
(* piece by piece (Plain, Bound).  The search of label_table finds the     *)
(* least slot that is free or has the name, so an entry made at the slot   *)
(* of one name hides no other (SearchStays).  And what is stored is what   *)
(* assemble_a_mnemonic made of the line that history remembers             *)
(* (Stored, BranchInv).                                                    *)
(***************************************************************************)
EXTENDS Assembler, ScanProofs, SequenceTheorems, TLAPS

-----------------------------------------------------------------------------
(* The tables.                                                             *)

\* A row none of whose operands is a branch target.
PlainRow(row) == \A k \in DOMAIN row : row[k].as # "branch"

\* Of a table: its rows are plain, and none is that of a rotation.
Plain(T) == \A x \in DOMAIN T : x \notin Shifts /\ PlainRow(T[x])

LEMMA PlainJoined ==
  ASSUME NEW f, NEW g, Plain(f), Plain(g)
  PROVE  Plain(f @@ g)
<1> SUFFICES ASSUME NEW x \in DOMAIN Overlay(f, g)
             PROVE  x \notin Shifts /\ PlainRow(Overlay(f, g)[x])
  BY Zenon DEF Plain, @@
<1>1. CASE x \in DOMAIN f /\ Overlay(f, g)[x] = f[x]
  BY <1>1, Zenon DEF Plain
<1>2. CASE x \in DOMAIN g /\ Overlay(f, g)[x] = g[x]
  BY <1>2, Zenon DEF Plain
<1>3. \/ x \in DOMAIN f /\ Overlay(f, g)[x] = f[x]
      \/ x \in DOMAIN g /\ Overlay(f, g)[x] = g[x]
  BY EntryOfEither
<1> QED BY <1>1, <1>2, <1>3, Zenon

LEMMA PlainEntry ==
  ASSUME NEW d, NEW row, d \notin Shifts, PlainRow(row)
  PROVE  Plain(d :> row)
<1>1. DOMAIN (d :> row) = {d} /\ (d :> row)[d] = row
  BY SingleEntry, Zenon DEF :>
<1> QED BY <1>1, Zenon DEF Plain

PlainRead(r) == r.as # "branch"

LEMMA PlainReads ==
  /\ \A s, w : PlainRead(Reg(s, w)) /\ PlainRead(Imm(s, w))
  /\ \A s, w, as : as # "branch" => PlainRead(Reads(s, w, as))
BY DEF Reg, Imm, Reads, PlainRead

LEMMA PlainRows ==
  /\ PlainRow(<<>>)
  /\ \A a : PlainRead(a) => PlainRow(<<a>>)
  /\ \A a, b : PlainRead(a) /\ PlainRead(b) => PlainRow(<<a, b>>)
  /\ \A a, b, c : PlainRead(a) /\ PlainRead(b) /\ PlainRead(c) => PlainRow(<<a, b, c>>)
  /\ \A a, b, c, d : PlainRead(a) /\ PlainRead(b) /\ PlainRead(c) /\ PlainRead(d)
                       => PlainRow(<<a, b, c, d>>)
  /\ \A a, b, c, d, e : PlainRead(a) /\ PlainRead(b) /\ PlainRead(c) /\ PlainRead(d)
                          /\ PlainRead(e)
                       => PlainRow(<<a, b, c, d, e>>)
BY DEF PlainRow, PlainRead

\* The rules by which a table is seen to be plain.
LEMMA PlainTables ==
  /\ \A f, g : Plain(f) /\ Plain(g) => Plain(f @@ g)
  /\ \A d, row : d \notin Shifts /\ PlainRow(row) => Plain(d :> row)
BY PlainJoined, PlainEntry

LEMMA PlainParts ==
  /\ Plain(ImmediateForms) /\ Plain(LoadForms)
  /\ Plain(Indexed31) /\ Plain(Special31) /\ Plain(System31) /\ Plain(Float63)
  /\ Plain(VectorForms) /\ Plain(VectorSpecial) /\ Plain(VectorFour)
  /\ Plain(ConditionForms) /\ Plain(MoveFrom) /\ Plain(MoveTo)
  /\ Plain(ArithmeticForms) /\ Plain(FloatForms) /\ Plain(RotateForms)
<1> USE PlainTables, PlainReads, PlainRows DEF Shifts, OneAmount, TwoAmounts, Three, Two
<1>1. Plain(ImmediateForms)
  BY SMT DEF ImmediateForms
<1>2. Plain(LoadForms)
  BY SMT DEF LoadForms
<1>3. Plain(Indexed31)
  BY SMT DEF Indexed31
<1>4. Plain(Special31)
  BY SMT DEF Special31
<1>5. Plain(System31)
  BY SMT DEF System31
<1>6. Plain(Float63)
  BY SMT DEF Float63
<1>7. Plain(VectorForms)
  BY SMT DEF VectorForms
<1>8. Plain(VectorSpecial)
  BY SMT DEF VectorSpecial
<1>9. Plain(VectorFour)
  BY SMT DEF VectorFour
<1>10. Plain(ConditionForms)
  BY SMT DEF ConditionForms
<1>11. Plain(MoveFrom)
  BY SMT DEF MoveFrom
<1>12. Plain(MoveTo)
  BY SMT DEF MoveTo
<1>13. Plain(ArithmeticForms)
  BY SMT DEF ArithmeticForms
<1>14. Plain(FloatForms)
  BY SMT DEF FloatForms
<1>15. Plain(RotateForms)
  BY SMT DEF RotateForms
<1> QED
  BY <1>1, <1>2, <1>3, <1>4, <1>5, <1>6, <1>7, <1>8, <1>9, <1>10, <1>11, <1>12, <1>13,
     <1>14, <1>15

\* What a table has for x, and that it has nothing.
Has(T, x, v) == x \in DOMAIN T /\ T[x] = v
Lacks(T, x) == x \notin DOMAIN T

\* The rules by which an entry is found, or is seen not to be there.
LEMMA TableRules ==
  /\ \A f, g, x, v : Has(f, x, v) => Has(f @@ g, x, v)
  /\ \A f, g, x, v : Lacks(f, x) /\ Has(g, x, v) => Has(f @@ g, x, v)
  /\ \A f, g, x : Lacks(f, x) /\ Lacks(g, x) => Lacks(f @@ g, x)
  /\ \A d, e : Has(d :> e, d, e)
  /\ \A d, e, x : x # d => Lacks(d :> e, x)
<1>1. \A f, g, x, v : Has(f, x, v) => Has(f @@ g, x, v)
  BY FirstDecides DEF Has, @@
<1>2. \A f, g, x, v : Lacks(f, x) /\ Has(g, x, v) => Has(f @@ g, x, v)
  BY SecondDecides DEF Has, Lacks, @@
<1>3. \A f, g, x : Lacks(f, x) /\ Lacks(g, x) => Lacks(f @@ g, x)
  BY OverlayHas DEF Lacks, @@
<1>4. \A d, e : Has(d :> e, d, e)
  BY SingleEntry DEF Has, :>
<1>5. \A d, e, x : x # d => Lacks(d :> e, x)
  <2> SUFFICES ASSUME NEW d, NEW e, NEW x, x # d
               PROVE  x \notin DOMAIN (d :> e)
    BY Zenon DEF Lacks
  <2>1. DOMAIN (d :> e) = {d}
    BY SingleEntry DEF :>
  <2> QED BY <2>1
<1> QED BY <1>1, <1>2, <1>3, <1>4, <1>5, Zenon

\* The branches that test a bit of a condition register, and the absolute ones.
LEMMA BranchTables ==
  /\ Has(Offset, "blt", 0) /\ Has(Offset, "bgt", 1)
  /\ Has(Offset, "beq", 2) /\ Has(Offset, "bso", 3)
  /\ Has(Absolute, "ba", "b") /\ Has(Absolute, "bca", "bc")
  /\ Has(Absolute, "bta", "bt") /\ Has(Absolute, "beqa", "beq")
  /\ \A x : x \notin {"blt", "bgt", "beq", "bso"} => Lacks(Offset, x)
  /\ \A x : x \notin {"ba", "bca", "bta", "beqa"} => Lacks(Absolute, x)
<1> USE TableRules
<1>1. Has(Offset, "blt", 0)
  BY SMT DEF Offset
<1>2. Has(Offset, "bgt", 1)
  BY SMT DEF Offset
<1>3. Has(Offset, "beq", 2)
  BY SMT DEF Offset
<1>4. Has(Offset, "bso", 3)
  BY SMT DEF Offset
<1>5. \A x : x \notin {"blt", "bgt", "beq", "bso"} => Lacks(Offset, x)
  BY SMT DEF Offset
<1>6. Has(Absolute, "ba", "b") /\ Has(Absolute, "bca", "bc")
  BY SMT DEF Absolute
<1>7. Has(Absolute, "bta", "bt") /\ Has(Absolute, "beqa", "beq")
  BY SMT DEF Absolute
<1>8. \A x : x \notin {"ba", "bca", "bta", "beqa"} => Lacks(Absolute, x)
  BY SMT DEF Absolute
<1> QED BY <1>1, <1>2, <1>3, <1>4, <1>5, <1>6, <1>7, <1>8

\* The rows for branches are those in front.
Relative == Branches @@ Conditions
Leading == Relative @@ [op \in DOMAIN Absolute |-> Relative[Absolute[op]]]

LEMMA LeadingRows ==
  ASSUME NEW x, NEW v, Has(Leading, x, v)
  PROVE  Has(Rows, x, v)
BY TableRules, SMT DEF Rows, Leading, Relative

\* The rows of the branches.
Direct == <<Reads("LI", 1, "branch")>>
Counting == <<Reads("BD", 1, "branch")>>
OnBit(as) == <<Reads("A", 1, as), Reads("BD", 2, "branch")>>
General == <<Imm("S", 1), Imm("A", 2), Reads("BD", 3, "branch")>>

LEMMA RelativeHas ==
  /\ Has(Relative, "b", Direct) /\ Has(Relative, "bdnz", Counting)
  /\ Has(Relative, "bc", General) /\ Has(Relative, "bt", OnBit("cr"))
  /\ \A op \in DOMAIN Offset : Has(Relative, op, OnBit(op))
  /\ Has(Relative, "btlr", <<Reads("A", 1, "cr")>>)
  /\ Has(Relative, "beqlr", <<Reads("A", 1, "beq")>>)
  /\ Has(Relative, "bdnzlr", <<>>) /\ Has(Relative, "blr", <<>>)
<1> USE TableRules
<1>1. Has(Relative, "b", Direct) /\ Has(Relative, "bdnz", Counting)
  BY SMT DEF Relative, Branches, Direct, Counting
<1>2. Has(Relative, "bc", General)
  BY SMT DEF Relative, Branches, General
<1>3. Has(Relative, "bt", OnBit("cr"))
  BY SMT DEF Relative, Branches, OnBit
<1>4. Has(Relative, "btlr", <<Reads("A", 1, "cr")>>)
  BY SMT DEF Relative, Branches
<1>5. Has(Relative, "bdnzlr", <<>>) /\ Has(Relative, "blr", <<>>)
  BY SMT DEF Relative, Branches
<1>6. ASSUME NEW op \in DOMAIN Offset
      PROVE  Has(Relative, op, OnBit(op))
  <2>1. op \in {"blt", "bgt", "beq", "bso"}
    BY BranchTables DEF Lacks
  <2>2. Lacks(Branches, op)
    BY <2>1, SMT DEF Branches
  <2>3. Has(Conditions, op, OnBit(op))
    <3>1. Has([x \in DOMAIN Offset |-> <<Reads("A", 1, x), Reads("BD", 2, "branch")>>], op, OnBit(op))
      BY DEF Has, OnBit
    <3> QED BY <3>1, SMT DEF Conditions
  <2> QED BY <2>2, <2>3, SMT DEF Relative
<1>7. Has(Relative, "beqlr", <<Reads("A", 1, "beq")>>)
  <2>1. Lacks(Branches, "beqlr")
    BY SMT DEF Branches
  <2>2. Lacks([x \in DOMAIN Offset |-> <<Reads("A", 1, x), Reads("BD", 2, "branch")>>], "beqlr")
    BY BranchTables DEF Lacks
  <2>3. Has(Conditions, "beqlr", <<Reads("A", 1, "beq")>>)
    BY <2>2, SMT DEF Conditions
  <2> QED BY <2>1, <2>3, SMT DEF Relative
<1> QED BY <1>1, <1>2, <1>3, <1>4, <1>5, <1>6, <1>7

BranchOps == {"b", "bdnz", "ba", "bc", "bca", "bt", "bta", "beqa"} \cup DOMAIN Offset

\* The absolute forms have the rows of the relative ones.
LEMMA BranchRows ==
  /\ \A op \in {"b", "ba"} : Has(Rows, op, Direct)
  /\ Has(Rows, "bdnz", Counting)
  /\ \A op \in {"bc", "bca"} : Has(Rows, op, General)
  /\ \A op \in {"bt", "bta"} : Has(Rows, op, OnBit("cr"))
  /\ \A op \in DOMAIN Offset : Has(Rows, op, OnBit(op))
  /\ Has(Rows, "beqa", OnBit("beq"))
  /\ Has(Rows, "btlr", <<Reads("A", 1, "cr")>>)
  /\ Has(Rows, "beqlr", <<Reads("A", 1, "beq")>>)
  /\ Has(Rows, "bdnzlr", <<>>) /\ Has(Rows, "blr", <<>>)
<1>1. ASSUME NEW x, NEW v, Has(Relative, x, v)
      PROVE  Has(Rows, x, v)
  BY <1>1, TableRules, LeadingRows, Zenon DEF Leading
<1>2. ASSUME NEW x \in DOMAIN Absolute, NEW v, Has(Relative, Absolute[x], v), Lacks(Relative, x)
      PROVE  Has(Rows, x, v)
  <2>1. Has([op \in DOMAIN Absolute |-> Relative[Absolute[op]]], x, v)
    BY <1>2 DEF Has
  <2> QED BY <1>2, <2>1, TableRules, LeadingRows, Zenon DEF Leading
<1>3. \A x \in {"ba", "bca", "bta", "beqa"} : Lacks(Relative, x)
  <2> SUFFICES ASSUME NEW x \in {"ba", "bca", "bta", "beqa"}
               PROVE  Lacks(Relative, x)
    OBVIOUS
  <2>1. Lacks(Branches, x)
    BY TableRules, SMT DEF Branches
  <2>2. Lacks([op \in DOMAIN Offset |-> <<Reads("A", 1, op), Reads("BD", 2, "branch")>>], x)
    BY BranchTables DEF Lacks
  <2>3. Lacks(Conditions, x)
    BY <2>2, TableRules, SMT DEF Conditions
  <2> QED BY <2>1, <2>3, TableRules, Zenon DEF Relative
<1>4. "beq" \in DOMAIN Offset
  BY BranchTables DEF Has
<1>5. /\ Has(Rows, "ba", Direct) /\ Has(Rows, "bca", General)
      /\ Has(Rows, "bta", OnBit("cr")) /\ Has(Rows, "beqa", OnBit("beq"))
  BY <1>2, <1>3, <1>4, RelativeHas, BranchTables DEF Has
<1>6. /\ Has(Rows, "b", Direct) /\ Has(Rows, "bdnz", Counting)
      /\ Has(Rows, "bc", General) /\ Has(Rows, "bt", OnBit("cr"))
  BY <1>1, RelativeHas
<1>7. \A op \in DOMAIN Offset : Has(Rows, op, OnBit(op))
  BY <1>1, RelativeHas
<1>8. /\ Has(Rows, "btlr", <<Reads("A", 1, "cr")>>)
      /\ Has(Rows, "beqlr", <<Reads("A", 1, "beq")>>)
      /\ Has(Rows, "bdnzlr", <<>>) /\ Has(Rows, "blr", <<>>)
  BY <1>1, RelativeHas
<1> QED BY <1>5, <1>6, <1>7, <1>8

\* The rows of a table are plain but for those of branches.
Bound(T) == \A x \in DOMAIN T : x \in BranchOps \/ PlainRow(T[x])

LEMMA BoundJoined ==
  ASSUME NEW f, NEW g, Bound(f), Bound(g)
  PROVE  Bound(f @@ g)
<1> SUFFICES ASSUME NEW x \in DOMAIN Overlay(f, g)
             PROVE  x \in BranchOps \/ PlainRow(Overlay(f, g)[x])
  BY Zenon DEF Bound, @@
<1>1. CASE x \in DOMAIN f /\ Overlay(f, g)[x] = f[x]
  BY <1>1, Zenon DEF Bound
<1>2. CASE x \in DOMAIN g /\ Overlay(f, g)[x] = g[x]
  BY <1>2, Zenon DEF Bound
<1>3. \/ x \in DOMAIN f /\ Overlay(f, g)[x] = f[x]
      \/ x \in DOMAIN g /\ Overlay(f, g)[x] = g[x]
  BY EntryOfEither
<1> QED BY <1>1, <1>2, <1>3, Zenon

LEMMA BoundTables ==
  /\ \A f, g : Bound(f) /\ Bound(g) => Bound(f @@ g)
  /\ \A d, row : d \in BranchOps \/ PlainRow(row) => Bound(d :> row)
  /\ \A T : Plain(T) => Bound(T)
<1>1. ASSUME NEW d, NEW row, d \in BranchOps \/ PlainRow(row)
      PROVE  Bound(d :> row)
  <2>1. DOMAIN (d :> row) = {d} /\ (d :> row)[d] = row
    BY SingleEntry DEF :>
  <2> QED BY <1>1, <2>1, Zenon DEF Bound
<1>2. \A T : Plain(T) => Bound(T)
  BY Zenon DEF Plain, Bound
<1> QED BY <1>1, <1>2, BoundJoined

\* A row for a rotation: the two registers and the amounts.
ShiftRow(op) ==
  IF op \in TwoAmounts THEN <<Reg("A", 1), Reg("S", 2), Imm("n", 3), Imm("b", 4)>>
                       ELSE <<Reg("A", 1), Reg("S", 2), Imm("n", 3)>>

LEMMA ShiftRowsAre ==
  /\ DOMAIN ShiftRows = Shifts
  /\ \A op \in Shifts : Has(ShiftRows, op, ShiftRow(op))
  /\ Bound(ShiftRows)
<1>1. DOMAIN ShiftRows = Shifts
  BY DEF ShiftRows
<1>2. ASSUME NEW op \in Shifts
      PROVE  ShiftRows[op] = ShiftRow(op)
  <2>1. ShiftRows[op] = <<Reg("A", 1), Reg("S", 2), Imm("n", 3)>>
                          \o (IF op \in TwoAmounts THEN <<Imm("b", 4)>> ELSE <<>>)
    BY DEF ShiftRows
  <2>2. ASSUME NEW a, NEW b, NEW c, NEW d
        PROVE  <<a, b, c>> \o <<d>> = <<a, b, c, d>> /\ <<a, b, c>> \o <<>> = <<a, b, c>>
    <3> DEFINE U == {a, b, c, d}
    <3>1. <<a, b, c>> \in Seq(U) /\ <<d>> \in Seq(U)
      OBVIOUS
    <3>2. <<a, b, c>> \o <<d>> = <<a, b, c, d>>
      <4> DEFINE joined == <<a, b, c>> \o <<d>>
      <4>1. /\ joined \in Seq(U) /\ Len(joined) = 4
            /\ \A i \in 1 .. 4 : joined[i] = IF i <= 3 THEN <<a, b, c>>[i] ELSE <<d>>[i - 3]
        BY <3>1, ConcatProperties, Len(<<a, b, c>>) = 3, Len(<<d>>) = 1
      <4>2. joined[1] = a /\ joined[2] = b /\ joined[3] = c /\ joined[4] = d
        BY <4>1
      <4>3. <<a, b, c, d>> \in Seq(U) /\ Len(<<a, b, c, d>>) = 4
        OBVIOUS
      <4> HIDE DEF joined, U
      <4>4. \A i \in 1 .. 4 : joined[i] = <<a, b, c, d>>[i]
        BY <4>2
      <4>5. joined = <<a, b, c, d>>
        BY <4>1, <4>3, <4>4, SeqEqual
      <4> QED BY <4>5 DEF joined
    <3>3. <<a, b, c>> \o <<>> = <<a, b, c>>
      BY <3>1
    <3> QED BY <3>2, <3>3
  <2> QED BY <2>1, <2>2, Zenon DEF ShiftRow
<1>3. ASSUME NEW op \in Shifts
      PROVE  PlainRow(ShiftRow(op))
  BY PlainReads, PlainRows, SMT DEF ShiftRow
<1> QED BY <1>1, <1>2, <1>3, Zenon DEF Has, Bound

\* Only the rows of branches read a target.
LEMMA OnlyBranches ==
  ASSUME NEW op \in DOMAIN Rows, op \notin BranchOps
  PROVE  PlainRow(Rows[op])
<1> DEFINE absolute == [x \in DOMAIN Absolute |-> Relative[Absolute[x]]]
<1>1. Bound(absolute)
  <2>1. DOMAIN Absolute \subseteq BranchOps
    BY BranchTables DEF Lacks, BranchOps
  <2> QED BY <2>1 DEF Bound
<1>2. Bound(Branches)
  BY BoundTables, PlainReads, PlainRows, SMT DEF Branches, BranchOps
<1>3. Bound(Conditions)
  <2>1. Bound([x \in DOMAIN Offset |-> <<Reads("A", 1, x), Reads("BD", 2, "branch")>>])
    BY DEF Bound, BranchOps
  <2>2. PlainRow(<<Reads("A", 1, "beq")>>)
    BY PlainReads, PlainRows, SMT
  <2> QED BY <2>1, <2>2, BoundTables, SMT DEF Conditions
<1>4. Bound(Leading)
  BY <1>1, <1>2, <1>3, BoundTables, Zenon DEF Leading, Relative
<1>5. Bound(Rows)
  BY <1>4, BoundTables, PlainParts, ShiftRowsAre, SMT DEF Rows, Leading, Relative
<1> QED BY <1>5 DEF Bound

\* Nothing in front of the rows for rotations has one of their names.
LEMMA ShiftRowsFound ==
  ASSUME NEW op \in Shifts
  PROVE  Has(Rows, op, ShiftRow(op))
<1> DEFINE absolute == [x \in DOMAIN Absolute |-> Relative[Absolute[x]]]
<1>1. Lacks(absolute, op)
  BY BranchTables DEF Lacks, Shifts, OneAmount, TwoAmounts
<1>2. Lacks(Branches, op)
  BY TableRules, SMT DEF Branches, Shifts, OneAmount, TwoAmounts
<1>3. Lacks(Conditions, op)
  <2>1. Lacks([x \in DOMAIN Offset |-> <<Reads("A", 1, x), Reads("BD", 2, "branch")>>], op)
    BY BranchTables DEF Lacks, Shifts, OneAmount, TwoAmounts
  <2>2. op # "beqlr"
    BY DEF Shifts, OneAmount, TwoAmounts
  <2> QED BY <2>1, <2>2, TableRules, Zenon DEF Conditions
<1>4. Lacks(Leading, op)
  BY <1>1, <1>2, <1>3, TableRules, Zenon DEF Leading, Relative
<1>5. \A T : Plain(T) => Lacks(T, op)
  BY DEF Plain, Lacks
<1> QED
  BY <1>4, <1>5, PlainParts, ShiftRowsAre, TableRules, SMT DEF Rows, Leading, Relative

-----------------------------------------------------------------------------
(* The instruction a line makes.                                           *)

Read(words, target, junk, r) ==
  IF r.word > Len(words) THEN junk[r.word]
  ELSE IF r.as = "branch" THEN target ELSE Value(r.as, words[r.word])

\* How a word is read for the operands that branches and rotations have.
LEMMA Values ==
  ASSUME NEW w
  PROVE  /\ Value("immediate", w) = pull_immediate(w)
         /\ Value("cr", w) = pull_immediate_cr(w)
         /\ \A as \in DOMAIN Offset : Value(as, w) = 4 * pull_register(w) + Offset[as]
<1>1. DOMAIN Offset = {"blt", "bgt", "beq", "bso"}
  BY BranchTables DEF Lacks, Has
<1> QED BY <1>1, SMT DEF Value

\* What is read for each slot of the row of op.
Slotted(op, words, target, junk) ==
  [s \in {Rows[op][k].slot : k \in DOMAIN Rows[op]} |->
     Read(words, target, junk, Rows[op][CHOOSE k \in DOMAIN Rows[op] : Rows[op][k].slot = s])]

\* The parts of assemble_a_mnemonic.
LEMMA Assembled ==
  ASSUME NEW op, NEW words, NEW target, NEW junk
  PROVE  assemble_a_mnemonic(op, words, target, junk) =
           LET val == Slotted(op, words, target, junk)
           IN  [op |-> EntryOf(op).op,
                f  |-> Cut((IF op \in Shifts THEN Rotation(op, val) ELSE val)
                             @@ EntryOf(op).f)]
BY Zenon DEF assemble_a_mnemonic, Slotted, Read

\* A slot that a row names once has what its operand reads as.
LEMMA SlotRead ==
  ASSUME NEW op, NEW row, Has(Rows, op, row), NEW k \in DOMAIN row,
         \A j \in DOMAIN row : row[j].slot = row[k].slot => j = k,
         NEW words, NEW target, NEW junk
  PROVE  Has(Slotted(op, words, target, junk), row[k].slot, Read(words, target, junk, row[k]))
<1>1. Rows[op] = row
  BY DEF Has
<1>2. row[k].slot \in {row[j].slot : j \in DOMAIN row}
  OBVIOUS
<1>3. (CHOOSE j \in DOMAIN row : row[j].slot = row[k].slot) = k
  OBVIOUS
<1> QED BY <1>1, <1>2, <1>3, Zenon DEF Slotted, Has

\* A field is what was read, cut to its size.
LEMMA FieldMade ==
  ASSUME NEW fields, NEW more, NEW s, NEW v, Has(fields, s, v)
  PROVE  Has(Cut(fields @@ more), s, Kept(s, v))
<1>1. Has(fields @@ more, s, v)
  BY TableRules, Zenon
<1> QED BY <1>1, Zenon DEF Has, Cut

-----------------------------------------------------------------------------
(* Rotations.                                                              *)

\* The fields a rotation by amounts gets.
LEMMA RotationFields ==
  ASSUME NEW op \in Shifts, NEW words, NEW target, NEW junk,
         Len(words) = IF op \in TwoAmounts THEN 4 ELSE 3
  PROVE  LET f == assemble_a_mnemonic(op, words, target, junk).f
             m == Amounts(op, pull_immediate(words[3]),
                          IF op \in TwoAmounts THEN pull_immediate(words[4]) ELSE 0)
         IN  f["SH"] = m[1] % 32 /\ f["MB"] = m[2] % 32 /\ f["ME"] = m[3] % 32
<1> DEFINE val == Slotted(op, words, target, junk)
           m == Amounts(op, pull_immediate(words[3]),
                        IF op \in TwoAmounts THEN pull_immediate(words[4]) ELSE 0)
           f == assemble_a_mnemonic(op, words, target, junk).f
<1>1. Has(Rows, op, ShiftRow(op))
  BY ShiftRowsFound
<1>2. Has(val, "n", pull_immediate(words[3]))
  <2>1. Read(words, target, junk, Imm("n", 3)) = pull_immediate(words[3])
    BY Values DEF Read, Imm, Reads
  <2>2. CASE op \in TwoAmounts
    <3>1. Has(Rows, op, <<Reg("A", 1), Reg("S", 2), Imm("n", 3), Imm("b", 4)>>)
      BY <1>1, <2>2 DEF ShiftRow
    <3> QED BY <2>1, <3>1, SlotRead DEF Reg, Imm, Reads
  <2>3. CASE op \notin TwoAmounts
    <3>1. Has(Rows, op, <<Reg("A", 1), Reg("S", 2), Imm("n", 3)>>)
      BY <1>1, <2>3 DEF ShiftRow
    <3> QED BY <2>1, <3>1, SlotRead DEF Reg, Imm, Reads
  <2> QED BY <2>2, <2>3
<1>3. ASSUME op \in TwoAmounts
      PROVE  Has(val, "b", pull_immediate(words[4]))
  <2>1. Read(words, target, junk, Imm("b", 4)) = pull_immediate(words[4])
    BY <1>3, Values DEF Read, Imm, Reads
  <2>2. Has(Rows, op, <<Reg("A", 1), Reg("S", 2), Imm("n", 3), Imm("b", 4)>>)
    BY <1>1, <1>3 DEF ShiftRow
  <2> QED BY <2>1, <2>2, SlotRead DEF Reg, Imm, Reads
<1> HIDE DEF val
<1>4. f = Cut(Rotation(op, val) @@ EntryOf(op).f)
  BY Assembled DEF val
<1>5. m = Amounts(op, val["n"], IF op \in TwoAmounts THEN val["b"] ELSE 0)
  BY <1>2, <1>3 DEF Has
<1> HIDE DEF m
<1>6. /\ Has(Rotation(op, val), "SH", m[1]) /\ Has(Rotation(op, val), "MB", m[2])
      /\ Has(Rotation(op, val), "ME", m[3])
  BY <1>5, TableRules, SMT DEF Rotation
<1>7. Has(f, "SH", Kept("SH", m[1])) /\ Has(f, "MB", Kept("MB", m[2]))
        /\ Has(f, "ME", Kept("ME", m[3]))
  BY <1>4, <1>6, FieldMade
<1>8. \A n : Kept("SH", n) = n % 32 /\ Kept("MB", n) = n % 32 /\ Kept("ME", n) = n % 32
  BY SMT DEF Kept, SizeOf
<1> QED BY <1>7, <1>8 DEF Has, m

\* The place of a bit after a rotation.
Place(i, sh) == (i - sh) % 32

LEMMA PlaceIs ==
  ASSUME NEW i \in 0 .. 31, NEW sh \in 0 .. 31
  PROVE  /\ Place(i, sh) \in 0 .. 31
         /\ Place(i, sh) = IF sh <= i THEN i - sh ELSE i - sh + 32
BY DEF Place

\* A set of pairs of bits is what a rotation moves when it has the same pairs.
SamePairs(pairs, sh, mb, me) ==
  \A i, j \in 0 .. 31 : <<i, j>> \in pairs <=> j = Place(i, sh) /\ mb <= j /\ j <= me

LEMMA MovedIs ==
  ASSUME NEW f, NEW sh \in 0 .. 31, NEW mb \in 0 .. 31, NEW me \in 0 .. 31,
         f["SH"] = sh, f["MB"] = mb, f["ME"] = me,
         NEW pairs, \A p \in pairs : \E i, j \in 0 .. 31 : p = <<i, j>>,
         SamePairs(pairs, sh, mb, me)
  PROVE  Moved(f) = pairs
<1>0. Moved(f) = {p \in {<<i, Place(i, sh)>> : i \in 0 .. 31} : mb <= p[2] /\ p[2] <= me}
  BY Zenon DEF Moved, Place
<1>1. ASSUME NEW p \in Moved(f)
      PROVE  p \in pairs
  <2>1. PICK i \in 0 .. 31 : p = <<i, Place(i, sh)>>
    BY <1>0, <1>1, Zenon
  <2>2. mb <= p[2] /\ p[2] <= me
    BY <1>0, <1>1, Zenon
  <2>3. Place(i, sh) \in 0 .. 31 /\ mb <= Place(i, sh) /\ Place(i, sh) <= me
    BY <2>1, <2>2, PlaceIs
  <2>4. <<i, Place(i, sh)>> \in pairs
    BY <2>3 DEF SamePairs
  <2> QED BY <2>1, <2>4, Zenon
<1>2. ASSUME NEW p \in pairs
      PROVE  p \in Moved(f)
  <2>1. PICK i \in 0 .. 31, j \in 0 .. 31 : p = <<i, j>>
    BY <1>2
  <2>2. j = Place(i, sh) /\ mb <= j /\ j <= me
    BY <1>2, <2>1, Zenon DEF SamePairs
  <2>3. p = <<i, Place(i, sh)>> /\ p[2] = j
    BY <2>1, <2>2
  <2>4. p \in {<<x, Place(x, sh)>> : x \in 0 .. 31}
    BY <2>3
  <2> QED BY <1>0, <2>2, <2>3, <2>4, Zenon
<1> QED BY <1>1, <1>2

\* The rotations by one amount move the bits that they mean to ...
LEMMA RotationsByOne ==
  ASSUME NEW op \in OneAmount, NEW n \in 0 .. 31, NEW f,
         f["SH"] = Amounts(op, n, 0)[1] % 32, f["MB"] = Amounts(op, n, 0)[2] % 32,
         f["ME"] = Amounts(op, n, 0)[3] % 32
  PROVE  Moved(f) = MeantByOne(op, n)
<1>1. CASE op = "slwi"
  <2> DEFINE pairs == {<<i, i - n>> : i \in n .. 31}
             sh == n
             mb == 0
             me == 31 - n
  <2>1. f["SH"] = sh /\ f["MB"] = mb /\ f["ME"] = me
    <3>1. Amounts(op, n, 0) = <<n, 0, 31 - n>>
      BY <1>1, SMT DEF Amounts
    <3> QED BY <1>1, <3>1
  <2>2. sh \in 0 .. 31 /\ mb \in 0 .. 31 /\ me \in 0 .. 31
    BY <1>1
  <2>3. SamePairs(pairs, sh, mb, me)
    BY <1>1, PlaceIs DEF SamePairs
  <2>4. \A p \in pairs : \E i, j \in 0 .. 31 : p = <<i, j>>
    BY <1>1
  <2>5. MeantByOne(op, n) = pairs
    BY <1>1, Zenon DEF MeantByOne
  <2> HIDE DEF pairs, sh, mb, me
  <2> QED BY <2>1, <2>2, <2>3, <2>4, <2>5, MovedIs
<1>2. CASE op = "srwi"
  <2> DEFINE pairs == {<<i, i + n>> : i \in 0 .. 31 - n}
             sh == IF n = 0 THEN 0 ELSE 32 - n
             mb == n
             me == 31
  <2>1. f["SH"] = sh /\ f["MB"] = mb /\ f["ME"] = me
    <3>1. Amounts(op, n, 0) = <<32 - n, n, 31>>
      BY <1>2, SMT DEF Amounts
    <3> QED BY <1>2, <3>1
  <2>2. sh \in 0 .. 31 /\ mb \in 0 .. 31 /\ me \in 0 .. 31
    BY <1>2
  <2>3. SamePairs(pairs, sh, mb, me)
    BY <1>2, PlaceIs DEF SamePairs
  <2>4. \A p \in pairs : \E i, j \in 0 .. 31 : p = <<i, j>>
    BY <1>2
  <2>5. MeantByOne(op, n) = pairs
    BY <1>2, Zenon DEF MeantByOne
  <2> HIDE DEF pairs, sh, mb, me
  <2> QED BY <2>1, <2>2, <2>3, <2>4, <2>5, MovedIs
<1>3. CASE op = "clrlwi"
  <2> DEFINE pairs == {<<i, i>> : i \in n .. 31}
             sh == 0
             mb == n
             me == 31
  <2>1. f["SH"] = sh /\ f["MB"] = mb /\ f["ME"] = me
    <3>1. Amounts(op, n, 0) = <<0, n, 31>>
      BY <1>3, SMT DEF Amounts
    <3> QED BY <1>3, <3>1
  <2>2. sh \in 0 .. 31 /\ mb \in 0 .. 31 /\ me \in 0 .. 31
    BY <1>3
  <2>3. SamePairs(pairs, sh, mb, me)
    BY <1>3, PlaceIs DEF SamePairs
  <2>4. \A p \in pairs : \E i, j \in 0 .. 31 : p = <<i, j>>
    BY <1>3
  <2>5. MeantByOne(op, n) = pairs
    BY <1>3, Zenon DEF MeantByOne
  <2> HIDE DEF pairs, sh, mb, me
  <2> QED BY <2>1, <2>2, <2>3, <2>4, <2>5, MovedIs
<1>4. CASE op = "clrrwi"
  <2> DEFINE pairs == {<<i, i>> : i \in 0 .. 31 - n}
             sh == 0
             mb == 0
             me == 31 - n
  <2>1. f["SH"] = sh /\ f["MB"] = mb /\ f["ME"] = me
    <3>1. Amounts(op, n, 0) = <<0, 0, 31 - n>>
      BY <1>4, SMT DEF Amounts
    <3> QED BY <1>4, <3>1
  <2>2. sh \in 0 .. 31 /\ mb \in 0 .. 31 /\ me \in 0 .. 31
    BY <1>4
  <2>3. SamePairs(pairs, sh, mb, me)
    BY <1>4, PlaceIs DEF SamePairs
  <2>4. \A p \in pairs : \E i, j \in 0 .. 31 : p = <<i, j>>
    BY <1>4
  <2>5. MeantByOne(op, n) = pairs
    BY <1>4, Zenon DEF MeantByOne
  <2> HIDE DEF pairs, sh, mb, me
  <2> QED BY <2>1, <2>2, <2>3, <2>4, <2>5, MovedIs
<1>5. CASE op = "rotlwi"
  <2> DEFINE pairs == {<<i, Place(i, n)>> : i \in 0 .. 31}
             sh == n
             mb == 0
             me == 31
  <2>1. f["SH"] = sh /\ f["MB"] = mb /\ f["ME"] = me
    <3>1. Amounts(op, n, 0) = <<n, 0, 31>>
      BY <1>5, SMT DEF Amounts
    <3> QED BY <1>5, <3>1
  <2>2. sh \in 0 .. 31 /\ mb \in 0 .. 31 /\ me \in 0 .. 31
    BY <1>5
  <2>3. SamePairs(pairs, sh, mb, me)
    <3> SUFFICES ASSUME NEW i \in 0 .. 31, NEW j \in 0 .. 31
                 PROVE  <<i, j>> \in pairs <=> j = Place(i, sh) /\ mb <= j /\ j <= me
      BY DEF SamePairs
    <3>1. <<i, j>> \in pairs <=> j = Place(i, sh)
      BY Zenon
    <3>2. mb <= j /\ j <= me
      OBVIOUS
    <3> QED BY <3>1, <3>2, Zenon
  <2>4. \A p \in pairs : \E i, j \in 0 .. 31 : p = <<i, j>>
    BY <2>2, PlaceIs
  <2>5. MeantByOne(op, n) = pairs
    BY <1>5 DEF MeantByOne, Place
  <2> HIDE DEF pairs, sh, mb, me
  <2> QED BY <2>1, <2>2, <2>3, <2>4, <2>5, MovedIs
<1>6. CASE op = "rotrwi"
  <2> DEFINE sh == IF n = 0 THEN 0 ELSE 32 - n
             pairs == {<<i, Place(i, sh)>> : i \in 0 .. 31}
             mb == 0
             me == 31
  <2>1. f["SH"] = sh /\ f["MB"] = mb /\ f["ME"] = me
    <3>1. Amounts(op, n, 0) = <<32 - n, 0, 31>>
      BY <1>6, SMT DEF Amounts
    <3> QED BY <1>6, <3>1
  <2>2. sh \in 0 .. 31 /\ mb \in 0 .. 31 /\ me \in 0 .. 31
    BY <1>6
  <2>3. SamePairs(pairs, sh, mb, me)
    <3> SUFFICES ASSUME NEW i \in 0 .. 31, NEW j \in 0 .. 31
                 PROVE  <<i, j>> \in pairs <=> j = Place(i, sh) /\ mb <= j /\ j <= me
      BY DEF SamePairs
    <3>1. <<i, j>> \in pairs <=> j = Place(i, sh)
      BY Zenon
    <3>2. mb <= j /\ j <= me
      OBVIOUS
    <3> QED BY <3>1, <3>2, Zenon
  <2>4. \A p \in pairs : \E i, j \in 0 .. 31 : p = <<i, j>>
    BY <2>2, PlaceIs
  <2>5. MeantByOne(op, n) = pairs
    <3>1. MeantByOne(op, n) = {<<i, (i + n) % 32>> : i \in 0 .. 31}
      BY <1>6 DEF MeantByOne
    <3>2. \A i \in 0 .. 31 : (i + n) % 32 = Place(i, sh)
      BY DEF Place
    <3> HIDE DEF sh
    <3> QED BY <3>1, <3>2, Zenon
  <2> HIDE DEF pairs, sh, mb, me
  <2> QED BY <2>1, <2>2, <2>3, <2>4, <2>5, MovedIs
<1> QED BY <1>1, <1>2, <1>3, <1>4, <1>5, <1>6 DEF OneAmount

\* ... and so do those by two, insrwi apart.
LEMMA RotationsByTwo ==
  ASSUME NEW op \in TwoAmounts \ {"insrwi"}, NEW n \in Int, NEW b \in Int, Allowed(op, n, b),
         NEW f,
         f["SH"] = Amounts(op, n, b)[1] % 32, f["MB"] = Amounts(op, n, b)[2] % 32,
         f["ME"] = Amounts(op, n, b)[3] % 32
  PROVE  Moved(f) = MeantByTwo(op, n, b)
<1>1. CASE op = "extlwi"
  <2> DEFINE pairs == {<<b + k, k>> : k \in 0 .. n - 1}
             sh == b
             mb == 0
             me == n - 1
  <2>1. f["SH"] = sh /\ f["MB"] = mb /\ f["ME"] = me
    <3>1. Amounts(op, n, b) = <<b, 0, n - 1>>
      BY <1>1, SMT DEF Amounts
    <3> QED BY <1>1, <3>1 DEF Allowed
  <2>2. sh \in 0 .. 31 /\ mb \in 0 .. 31 /\ me \in 0 .. 31
    BY <1>1 DEF Allowed
  <2>3. SamePairs(pairs, sh, mb, me)
    BY <1>1, PlaceIs DEF SamePairs, Allowed
  <2>4. \A p \in pairs : \E i, j \in 0 .. 31 : p = <<i, j>>
    BY <1>1 DEF Allowed
  <2>5. MeantByTwo(op, n, b) = pairs
    BY <1>1, Zenon DEF MeantByTwo
  <2> HIDE DEF pairs, sh, mb, me
  <2> QED BY <2>1, <2>2, <2>3, <2>4, <2>5, MovedIs
<1>2. CASE op = "extrwi"
  <2> DEFINE pairs == {<<b + k, 32 - n + k>> : k \in 0 .. n - 1}
             sh == IF n + b = 32 THEN 0 ELSE n + b
             mb == 32 - n
             me == 31
  <2>1. f["SH"] = sh /\ f["MB"] = mb /\ f["ME"] = me
    <3>1. Amounts(op, n, b) = <<n + b, 32 - n, 31>>
      BY <1>2, SMT DEF Amounts
    <3> QED BY <1>2, <3>1 DEF Allowed
  <2>2. sh \in 0 .. 31 /\ mb \in 0 .. 31 /\ me \in 0 .. 31
    BY <1>2 DEF Allowed
  <2>3. SamePairs(pairs, sh, mb, me)
    BY <1>2, PlaceIs DEF SamePairs, Allowed
  <2>4. \A p \in pairs : \E i, j \in 0 .. 31 : p = <<i, j>>
    BY <1>2 DEF Allowed
  <2>5. MeantByTwo(op, n, b) = pairs
    BY <1>2, Zenon DEF MeantByTwo
  <2> HIDE DEF pairs, sh, mb, me
  <2> QED BY <2>1, <2>2, <2>3, <2>4, <2>5, MovedIs
<1>3. CASE op = "inslwi"
  <2> DEFINE pairs == {<<k, b + k>> : k \in 0 .. n - 1}
             sh == IF b = 0 THEN 0 ELSE 32 - b
             mb == b
             me == b + n - 1
  <2>1. f["SH"] = sh /\ f["MB"] = mb /\ f["ME"] = me
    <3>1. Amounts(op, n, b) = <<32 - b, b, b + n - 1>>
      BY <1>3, SMT DEF Amounts
    <3> QED BY <1>3, <3>1 DEF Allowed
  <2>2. sh \in 0 .. 31 /\ mb \in 0 .. 31 /\ me \in 0 .. 31
    BY <1>3 DEF Allowed
  <2>3. SamePairs(pairs, sh, mb, me)
    BY <1>3, PlaceIs DEF SamePairs, Allowed
  <2>4. \A p \in pairs : \E i, j \in 0 .. 31 : p = <<i, j>>
    BY <1>3 DEF Allowed
  <2>5. MeantByTwo(op, n, b) = pairs
    BY <1>3, Zenon DEF MeantByTwo
  <2> HIDE DEF pairs, sh, mb, me
  <2> QED BY <2>1, <2>2, <2>3, <2>4, <2>5, MovedIs
<1>4. CASE op = "clrlslwi"
  <2> DEFINE pairs == {<<i, i - b>> : i \in n .. 31}
             sh == b
             mb == n - b
             me == 31 - b
  <2>1. f["SH"] = sh /\ f["MB"] = mb /\ f["ME"] = me
    <3>1. Amounts(op, n, b) = <<b, n - b, 31 - b>>
      BY <1>4, SMT DEF Amounts
    <3> QED BY <1>4, <3>1 DEF Allowed
  <2>2. sh \in 0 .. 31 /\ mb \in 0 .. 31 /\ me \in 0 .. 31
    BY <1>4 DEF Allowed
  <2>3. SamePairs(pairs, sh, mb, me)
    BY <1>4, PlaceIs DEF SamePairs, Allowed
  <2>4. \A p \in pairs : \E i, j \in 0 .. 31 : p = <<i, j>>
    BY <1>4 DEF Allowed
  <2>5. MeantByTwo(op, n, b) = pairs
    BY <1>4, Zenon DEF MeantByTwo
  <2> HIDE DEF pairs, sh, mb, me
  <2> QED BY <2>1, <2>2, <2>3, <2>4, <2>5, MovedIs
<1> QED BY <1>1, <1>2, <1>3, <1>4 DEF TwoAmounts

-----------------------------------------------------------------------------
(* The steps.                                                              *)

\* The labels of a line whose addresses are asked for.
Asked(op, words) == {w \in Targets(op, words) : w.k = "label" /\ ~ Known(w.n)}

\* The address that the target of a line is made from, and what is made of it.
Given(op, words, answer, w) ==
  IF w \in Asked(op, words) THEN answer
  ELSE IF w.k = "label" THEN AddressOf(w.n) ELSE 0

TargetRead(op, words, answer) ==
  IF Targets(op, words) = {} THEN 0
  ELSE LET w == CHOOSE w \in Targets(op, words) : TRUE
       IN  pull_immediate_branch(op, w, Given(op, words, answer, w))

\* A line has been entered.
Entered(op, words, answer, junk) ==
  /\ mem' = [mem EXCEPT ![at] =
               assemble_a_mnemonic(op, words, TargetRead(op, words, answer), junk)]
  /\ labels' = [s \in Slots |->
                  IF \E w \in Asked(op, words) : s = Search(w.n)
                    THEN [name    |-> (CHOOSE w \in Asked(op, words) : TRUE).n,
                          address |-> answer]
                    ELSE labels[s]]
  /\ source' = [source EXCEPT ![at] = Entry(op, words)]

LEMMA EnterIs ==
  ASSUME NEW op, NEW words, Enter(op, words)
  PROVE  /\ \E answer \in Answers, junk \in [Len(words) + 1 .. WordsRead(op) -> Junk] :
              Entered(op, words, answer, junk)
         /\ Go(Wrapped(at + 4), end)
BY Zenon DEF Enter, Entered, TargetRead, Given, Asked

\* A line is typed, or what is shown is typed again.
Legal(op, words) ==
  \/ op \in DOMAIN Rows /\ words \in Seq(Operand)
  \/ op = Name(mem[at]) /\ op # data.op /\ words = disassemble_an_opcode(mem[at], at)

\* What the invariants below need of every state.
Placed ==
  /\ session \in Sessions
  /\ mode = "prompt" => at \in Mapped
  /\ DOMAIN mem = Mapped /\ DOMAIN source = Mapped

\* A step enters a line, makes a label, or leaves both tables and memory alone.
LEMMA StepIs ==
  ASSUME Placed, [Next]_vars
  PROVE  \/ UNCHANGED <<mem, labels, source>>
         \/ \E text \in Texts :
              /\ at \in Mapped
              /\ LET s == Search(text)
                 IN  labels' = IF labels[s].name = nothing
                                 THEN [labels EXCEPT ![s] = [name |-> text, address |-> at]]
                                 ELSE labels
              /\ UNCHANGED <<mem, source>>
         \/ \E op, words, answer, junk :
              /\ at \in Mapped /\ Legal(op, words) /\ answer \in Answers
              /\ junk \in [Len(words) + 1 .. WordsRead(op) -> Junk]
              /\ Entered(op, words, answer, junk)
<1>1. CASE As \/ Quit \/ Skip \/ Stay \/ UNCHANGED vars
  <2>1. As => UNCHANGED <<mem, labels, source>>
    BY DEF As
  <2>2. Quit => UNCHANGED <<mem, labels, source>>
    BY DEF Quit, Leave
  <2>3. Skip => UNCHANGED <<mem, labels, source>>
    BY DEF Skip
  <2>4. Stay => UNCHANGED <<mem, labels, source>>
    BY DEF Stay
  <2>5. UNCHANGED vars => UNCHANGED <<mem, labels, source>>
    BY DEF vars
  <2> QED BY <1>1, <2>1, <2>2, <2>3, <2>4, <2>5, Zenon
<1>2. CASE \E text \in Texts : Define(text)
  BY <1>2, Zenon DEF Define, Line, Placed
<1>3. CASE Type
  <2>1. PICK l \in session.lines : Line /\ Enter(l.op, l.words)
    BY <1>3 DEF Type
  <2>2. Legal(l.op, l.words)
    BY <2>1, SessionAssumption DEF Legal, Placed
  <2> QED BY <2>1, <2>2, EnterIs, Zenon DEF Line, Placed
<1>4. CASE Retype
  <2> DEFINE op == Name(mem[at])
             words == disassemble_an_opcode(mem[at], at)
  <2>1. CASE op = data.op
    BY <1>4, <2>1 DEF Retype, Leave
  <2>2. CASE op # data.op /\ Enter(op, words)
    <3>1. Legal(op, words)
      BY <2>2, Zenon DEF Legal
    <3> QED BY <1>4, <2>2, <3>1, EnterIs, Zenon DEF Retype, Line, Placed
  <2>3. CASE op # data.op /\ ~ Enter(op, words)
    BY <1>4, <2>3, Zenon DEF Retype
  <2> QED BY <2>1, <2>2, <2>3
<1> QED BY <1>1, <1>2, <1>3, <1>4, Zenon DEF Next

LEMMA PlacedStep ==
  ASSUME Placed, [Next]_vars
  PROVE  Placed'
<1>1. DOMAIN mem' = Mapped /\ DOMAIN source' = Mapped
  <2>1. CASE UNCHANGED <<mem, labels, source>>
    BY <2>1 DEF Placed
  <2>2. CASE mem' = mem /\ source' = source
    BY <2>2 DEF Placed
  <2>3. ASSUME NEW op, NEW words, NEW answer, NEW junk, Entered(op, words, answer, junk)
        PROVE  DOMAIN mem' = Mapped /\ DOMAIN source' = Mapped
    <3>1. \A f, a, v : DOMAIN [f EXCEPT ![a] = v] = DOMAIN f
      BY Zenon
    <3> QED BY <2>3, <3>1, Zenon DEF Placed, Entered
  <2> QED BY <2>1, <2>2, <2>3, StepIs, Zenon
<1>2. session' = session
  BY Zenon DEF Next, vars, As, Quit, Skip, Stay, Line, Type, Retype, Define
<1>3. mode' = "prompt" => at' \in Mapped
  <2>1. \A a, e : Go(a, e) => (mode' = "prompt" => at' \in Mapped)
    BY DEF Go
  <2>2. Leave => mode' = "shell"
    BY DEF Leave
  <2>3. \A op, words : Enter(op, words) => Go(Wrapped(at + 4), end)
    BY Zenon DEF Enter
  <2> QED
    BY <2>1, <2>2, <2>3, Zenon
       DEF Next, vars, As, Quit, Skip, Stay, Type, Retype, Define, Placed
<1> QED BY <1>1, <1>2, <1>3 DEF Placed

LEMMA InitPlaced == Init => Placed
<1>1. Init => /\ session \in Sessions /\ mode = "shell" /\ mem = session.memory
              /\ source = [a \in Mapped |-> Entry("", <<>>)]
  BY Zenon DEF Init
<1> QED BY <1>1, SessionAssumption, Zenon DEF Placed

-----------------------------------------------------------------------------
(* What is stored is what was typed.                                       *)

Stored(a) ==
  source[a].op # "" =>
    \E target, junk : mem[a] = assemble_a_mnemonic(source[a].op, source[a].f, target, junk)

StoredInv == Placed /\ \A a \in Mapped : Stored(a)

LEMMA StoredStep ==
  ASSUME StoredInv, [Next]_vars
  PROVE  StoredInv'
<1> SUFFICES ASSUME NEW a \in Mapped
             PROVE  Stored(a)'
  BY PlacedStep, Zenon DEF StoredInv
<1>1. CASE mem' = mem /\ source' = source
  BY <1>1, Zenon DEF StoredInv, Stored
<1>2. ASSUME NEW op, NEW words, NEW answer, NEW junk, at \in Mapped,
             Entered(op, words, answer, junk)
      PROVE  Stored(a)'
  <2> DEFINE i == assemble_a_mnemonic(op, words, TargetRead(op, words, answer), junk)
  <2>1. mem' = [mem EXCEPT ![at] = i] /\ source' = [source EXCEPT ![at] = Entry(op, words)]
    BY <1>2, Zenon DEF Entered
  <2>2. CASE a = at
    <3>1. mem'[a] = i /\ source'[a] = Entry(op, words)
      BY <2>1, <2>2, Zenon DEF StoredInv, Placed
    <3>2. Entry(op, words).op = op /\ Entry(op, words).f = words
      BY DEF Entry
    <3> QED BY <3>1, <3>2, Zenon DEF Stored
  <2>3. CASE a # at
    <3>1. mem'[a] = mem[a] /\ source'[a] = source[a]
      BY <2>1, <2>3, Zenon DEF StoredInv, Placed
    <3> QED BY <3>1, Zenon DEF StoredInv, Stored
  <2> QED BY <2>2, <2>3
<1> QED BY <1>1, <1>2, StepIs, Zenon DEF StoredInv

LEMMA ShiftNames ==
  /\ \A op \in Shifts : op # ""
  /\ \A op \in Shifts : op \notin OneAmount => op \in TwoAmounts
  /\ \A op \in OneAmount : op \in Shifts /\ op \notin TwoAmounts
BY DEF Shifts, OneAmount, TwoAmounts

LEMMA StoredInvariant == Spec => []StoredInv
<1>1. Init => StoredInv
  <2> SUFFICES ASSUME Init, NEW a \in Mapped
               PROVE  Stored(a)
    BY InitPlaced, Zenon DEF StoredInv
  <2>1. source = [x \in Mapped |-> Entry("", <<>>)]
    BY Zenon DEF Init
  <2>2. source[a].op = ""
    <3>1. source[a] = Entry("", <<>>)
      BY <2>1, Zenon
    <3>2. \A op, f : Entry(op, f).op = op
      BY DEF Entry
    <3> QED BY <3>1, <3>2, Zenon
  <2> QED BY <2>2, Zenon DEF Stored
<1>2. StoredInv /\ [Next]_vars => StoredInv'
  BY StoredStep
<1> QED BY <1>1, <1>2, PTL DEF Spec

LEMMA ShiftsFollow == StoredInv => ShiftsMoveTheirBits
<1> SUFFICES ASSUME StoredInv
             PROVE  ShiftsMoveTheirBits
  OBVIOUS
<1> SUFFICES ASSUME NEW a \in Mapped, source[a].op \in Shifts \ {"insrwi"}
             PROVE  LET op == source[a].op
                        n  == pull_immediate(source[a].f[3])
                        b  == pull_immediate(source[a].f[4])
                    IN  IF op \in OneAmount
                          THEN Len(source[a].f) = 3 /\ n \in 0 .. 31
                                 => Moved(mem[a].f) = MeantByOne(op, n)
                          ELSE Len(source[a].f) = 4 /\ Allowed(op, n, b)
                                 => Moved(mem[a].f) = MeantByTwo(op, n, b)
  BY Zenon DEF ShiftsMoveTheirBits
<1> DEFINE op == source[a].op
           words == source[a].f
           n == pull_immediate(words[3])
           b == pull_immediate(words[4])
<1>1. PICK target, junk : mem[a] = assemble_a_mnemonic(op, words, target, junk)
  <2>1. op # ""
    BY ShiftNames, Zenon
  <2> QED BY <2>1, Zenon DEF StoredInv, Stored
<1>2. CASE op \in OneAmount /\ Len(words) = 3 /\ n \in 0 .. 31
  <2> DEFINE m == Amounts(op, n, 0)
  <2>1. op \in Shifts /\ op \notin TwoAmounts
    BY <1>2, ShiftNames, Zenon
  <2>2. /\ mem[a].f["SH"] = m[1] % 32 /\ mem[a].f["MB"] = m[2] % 32
        /\ mem[a].f["ME"] = m[3] % 32
    <3>1. Len(words) = IF op \in TwoAmounts THEN 4 ELSE 3
      BY <1>2, <2>1, Zenon
    <3>2. (IF op \in TwoAmounts THEN b ELSE 0) = 0
      BY <2>1, Zenon
    <3> DEFINE made == Amounts(op, n, IF op \in TwoAmounts THEN b ELSE 0)
    <3>3. made = m
      BY <3>2, Zenon
    <3>4. /\ mem[a].f["SH"] = made[1] % 32 /\ mem[a].f["MB"] = made[2] % 32
          /\ mem[a].f["ME"] = made[3] % 32
      <4> HIDE DEF op, words
      <4> QED BY <1>1, <2>1, <3>1, RotationFields
    <3> HIDE DEF made, m
    <3> QED BY <3>3, <3>4, Zenon
  <2>3. Moved(mem[a].f) = MeantByOne(op, n)
    BY <1>2, <2>2, RotationsByOne, Zenon
  <2> QED BY <1>2, <2>3, Zenon
<1>3. CASE op \notin OneAmount /\ Len(words) = 4 /\ Allowed(op, n, b)
  <2> DEFINE m == Amounts(op, n, b)
  <2>1. op \in Shifts /\ op \in TwoAmounts \ {"insrwi"}
    BY <1>3, ShiftNames, Zenon
  <2>2. n \in Int /\ b \in Int
    BY <1>3 DEF Allowed
  <2>3. /\ mem[a].f["SH"] = m[1] % 32 /\ mem[a].f["MB"] = m[2] % 32
        /\ mem[a].f["ME"] = m[3] % 32
    <3>1. Len(words) = IF op \in TwoAmounts THEN 4 ELSE 3
      BY <1>3, <2>1, Zenon
    <3>2. (IF op \in TwoAmounts THEN b ELSE 0) = b
      BY <2>1, Zenon
    <3> DEFINE made == Amounts(op, n, IF op \in TwoAmounts THEN b ELSE 0)
    <3>3. made = m
      BY <3>2, Zenon
    <3>4. /\ mem[a].f["SH"] = made[1] % 32 /\ mem[a].f["MB"] = made[2] % 32
          /\ mem[a].f["ME"] = made[3] % 32
      <4> HIDE DEF op, words
      <4> QED BY <1>1, <2>1, <3>1, RotationFields
    <3> HIDE DEF made, m
    <3> QED BY <3>3, <3>4, Zenon
  <2>4. Moved(mem[a].f) = MeantByTwo(op, n, b)
    BY <1>3, <2>1, <2>2, <2>3, RotationsByTwo, Zenon
  <2> QED BY <1>3, <2>4, Zenon
<1> QED BY <1>2, <1>3, Zenon

(* A rotation by amounts moves the bits its mnemonic says, whatever the    *)
(* registers and the amounts, when the manual allows these: the amounts    *)
(* that are typed and the fields SH, MB and ME that assemble_a_mnemonic    *)
(* computes of them by a case for each mnemonic, cut to five bits, stand   *)
(* for the same rotation and mask (asm.c:2395-2535).                       *)
THEOREM ShiftsTheorem == Spec => []ShiftsMoveTheirBits
BY StoredInvariant, ShiftsFollow, PTL

-----------------------------------------------------------------------------
(* The search of the label table, in any table l.                          *)

SearchIn(l, n) == First({s \in Slots : s = MAXBRANCHLABEL \/ l[s].name \in {nothing, n}})
KnownIn(l, n) == SearchIn(l, n) # MAXBRANCHLABEL /\ l[SearchIn(l, n)].name = n

LEMMA SearchIs ==
  ASSUME NEW l, NEW n
  PROVE  LET t == SearchIn(l, n)
         IN  /\ t \in Slots /\ t \in Nat
             /\ t = MAXBRANCHLABEL \/ l[t].name \in {nothing, n}
             /\ \A s \in Slots : s < t => s # MAXBRANCHLABEL /\ l[s].name \notin {nothing, n}
<1> DEFINE S == {s \in Slots : s = MAXBRANCHLABEL \/ l[s].name \in {nothing, n}}
           t == SearchIn(l, n)
<1>1. S \in SUBSET Nat /\ MAXBRANCHLABEL \in S
  BY LabelAssumption DEF Slots
<1>2. t \in S /\ \A s \in S : t <= s
  <2> HIDE DEF S
  <2>1. First(S) \in S /\ \A s \in S : First(S) <= s
    BY <1>1, FirstIsLeast
  <2>2. t = First(S)
    BY Zenon DEF SearchIn, S
  <2> QED BY <2>1, <2>2, Zenon
<1>3. t \in Slots /\ t \in Nat
  BY <1>1, <1>2, Zenon
<1>4. t = MAXBRANCHLABEL \/ l[t].name \in {nothing, n}
  BY <1>2, Zenon
<1>5. ASSUME NEW s \in Slots, s < t
      PROVE  s # MAXBRANCHLABEL /\ l[s].name \notin {nothing, n}
  <2> HIDE DEF t
  <2>1. s \in Nat
    BY LabelAssumption DEF Slots
  <2>2. s \notin S
    <3> HIDE DEF S
    <3>1. s \in S => t <= s
      BY <1>2, Zenon
    <3> QED BY <1>3, <1>5, <2>1, <3>1
  <2> QED BY <1>5, <2>2, Zenon
<1> QED BY <1>3, <1>4, <1>5, Zenon

\* A place that is the first of its kind is the one the search finds.
LEMMA SearchFinds ==
  ASSUME NEW l, NEW n, NEW t \in Slots, t = MAXBRANCHLABEL \/ l[t].name \in {nothing, n},
         \A s \in Slots : s < t => s # MAXBRANCHLABEL /\ l[s].name \notin {nothing, n}
  PROVE  SearchIn(l, n) = t
<1> DEFINE u == SearchIn(l, n)
<1>1. /\ u \in Slots /\ u \in Nat
      /\ u = MAXBRANCHLABEL \/ l[u].name \in {nothing, n}
      /\ \A s \in Slots : s < u => s # MAXBRANCHLABEL /\ l[s].name \notin {nothing, n}
  BY SearchIs, Zenon
<1> HIDE DEF u
<1>2. ~ (u < t) /\ ~ (t < u)
  BY <1>1, Zenon
<1>3. t \in Nat
  BY LabelAssumption DEF Slots
<1>4. u = t
  BY <1>1, <1>2, <1>3
<1> QED BY <1>4 DEF u

\* An entry made at a free slot, or behind the table, is no other label's.
LEMMA SearchStays ==
  ASSUME NEW l, NEW m, NEW n, n # nothing, NEW t \in Slots,
         t = MAXBRANCHLABEL \/ l[t].name = nothing,
         \A s \in Slots : s # t => m[s] = l[s]
  PROVE  /\ KnownIn(l, n) => /\ SearchIn(m, n) = SearchIn(l, n) /\ KnownIn(m, n)
                             /\ m[SearchIn(m, n)] = l[SearchIn(l, n)]
         /\ SearchIn(l, n) = MAXBRANCHLABEL => SearchIn(m, n) = MAXBRANCHLABEL
<1> DEFINE u == SearchIn(l, n)
<1>1. /\ u \in Slots /\ u \in Nat
      /\ u = MAXBRANCHLABEL \/ l[u].name \in {nothing, n}
      /\ \A s \in Slots : s < u => s # MAXBRANCHLABEL /\ l[s].name \notin {nothing, n}
  BY SearchIs, Zenon
<1> HIDE DEF u
<1>2. t \in Nat /\ MAXBRANCHLABEL \in Nat /\ t <= MAXBRANCHLABEL
  BY LabelAssumption DEF Slots
<1>3. ~ (t < u)
  BY <1>1, Zenon
<1>4. \A s \in Slots : s < u => m[s] = l[s]
  BY <1>3, Zenon
<1>5. CASE u # MAXBRANCHLABEL /\ l[u].name = n
  <2>1. t # u
    BY <1>5, Zenon
  <2>2. m[u] = l[u]
    BY <1>1, <2>1, Zenon
  <2>3. SearchIn(m, n) = u
    <3>1. u = MAXBRANCHLABEL \/ m[u].name \in {nothing, n}
      BY <1>5, <2>2, Zenon
    <3>2. \A s \in Slots : s < u => s # MAXBRANCHLABEL /\ m[s].name \notin {nothing, n}
      BY <1>1, <1>4, Zenon
    <3> QED BY <1>1, <3>1, <3>2, SearchFinds, Zenon
  <2>4. KnownIn(m, n)
    BY <1>5, <2>2, <2>3, Zenon DEF KnownIn
  <2> QED BY <1>5, <2>2, <2>3, <2>4, Zenon DEF u
<1>6. CASE u = MAXBRANCHLABEL
  <2>1. \A s \in Slots : s < u => s # MAXBRANCHLABEL /\ m[s].name \notin {nothing, n}
    BY <1>1, <1>4, Zenon
  <2>2. SearchIn(m, n) = u
    BY <1>1, <1>6, <2>1, SearchFinds, Zenon
  <2>3. ~ KnownIn(l, n)
    BY <1>6, Zenon DEF KnownIn, u
  <2> QED BY <1>6, <2>2, <2>3, Zenon DEF u
<1>7. KnownIn(l, n) => u # MAXBRANCHLABEL /\ l[u].name = n
  BY Zenon DEF KnownIn, u
<1>8. SearchIn(l, n) = MAXBRANCHLABEL => u = MAXBRANCHLABEL
  BY DEF u
<1> QED BY <1>5, <1>6, <1>7, <1>8, Zenon

\* The entry that is made is found by its name, unless it is behind the table.
LEMMA SearchFindsNew ==
  ASSUME NEW l, NEW m, NEW n,
         \A s \in Slots : s # SearchIn(l, n) => m[s] = l[s],
         m[SearchIn(l, n)].name = n
  PROVE  /\ SearchIn(m, n) = SearchIn(l, n)
         /\ SearchIn(l, n) = MAXBRANCHLABEL \/ KnownIn(m, n)
<1> DEFINE u == SearchIn(l, n)
<1>1. /\ u \in Slots /\ u \in Nat
      /\ u = MAXBRANCHLABEL \/ l[u].name \in {nothing, n}
      /\ \A s \in Slots : s < u => s # MAXBRANCHLABEL /\ l[s].name \notin {nothing, n}
  BY SearchIs, Zenon
<1>0. (\A s \in Slots : s # u => m[s] = l[s]) /\ m[u].name = n
  OBVIOUS
<1> HIDE DEF u
<1>2. \A s \in Slots : s < u => s # MAXBRANCHLABEL /\ m[s].name \notin {nothing, n}
  <2>1. \A s \in Slots : s < u => s # u
    BY <1>1, LabelAssumption DEF Slots
  <2> QED BY <1>0, <1>1, <2>1, Zenon
<1>3. SearchIn(m, n) = u
  BY <1>0, <1>1, <1>2, SearchFinds, Zenon
<1> QED BY <1>0, <1>3, Zenon DEF KnownIn, u

-----------------------------------------------------------------------------
(* The opcodes behind the mnemonics.                                       *)

\* The mnemonics of branches that stand for bc, bca or bclr.
ShortBranches ==
  {"bt", "beqa", "bta", "bdnz", "beqlr", "btlr", "bdnzlr", "blr"} \cup DOMAIN Offset

GeneralBranches == {"bc", "bca", "bclr"}

AnyBranch == ShortBranches \cup GeneralBranches \cup {"b", "ba"}

PlainOpcodes ==
  {"cmpi", "cmp", "twi", "tw", "ori", "addi", "addis", "addic", "or", "creqv", "cror",
   "mfspr", "mtspr", "vor", "subf", "rlwnm", "rlwimi", "rlwinm"}

\* The entries of a table of simplified mnemonics stand for general branches
\* when they are branches, and for opcodes that are none when they are not.
SoundEntry(x, e) ==
  IF x \in AnyBranch THEN x \in ShortBranches /\ e.op \in GeneralBranches
                     ELSE e.op \in PlainOpcodes

Sound(T) == \A x \in DOMAIN T : SoundEntry(x, T[x])

LEMMA SoundTables ==
  /\ \A f, g : Sound(f) /\ Sound(g) => Sound(f @@ g)
  /\ \A d, op, f : d \notin AnyBranch /\ op \in PlainOpcodes => Sound(d :> Entry(op, f))
  /\ \A d, op, f : d \in ShortBranches /\ op \in GeneralBranches => Sound(d :> Entry(op, f))
<1>1. ASSUME NEW f, NEW g, Sound(f), Sound(g)
      PROVE  Sound(f @@ g)
  <2> SUFFICES ASSUME NEW x \in DOMAIN Overlay(f, g)
               PROVE  SoundEntry(x, Overlay(f, g)[x])
    BY Zenon DEF Sound, @@
  <2>1. \/ x \in DOMAIN f /\ Overlay(f, g)[x] = f[x]
        \/ x \in DOMAIN g /\ Overlay(f, g)[x] = g[x]
    BY EntryOfEither
  <2>2. CASE x \in DOMAIN f /\ Overlay(f, g)[x] = f[x]
    BY <1>1, <2>2, Zenon DEF Sound
  <2>3. CASE x \in DOMAIN g /\ Overlay(f, g)[x] = g[x]
    BY <1>1, <2>3, Zenon DEF Sound
  <2> QED BY <2>1, <2>2, <2>3, Zenon
<1>2. ASSUME NEW d, NEW op, NEW f, SoundEntry(d, Entry(op, f))
      PROVE  Sound(d :> Entry(op, f))
  <2>1. DOMAIN (d :> Entry(op, f)) = {d} /\ (d :> Entry(op, f))[d] = Entry(op, f)
    BY SingleEntry DEF :>
  <2> QED BY <1>2, <2>1, Zenon DEF Sound
<1>3. \A op, f : Entry(op, f).op = op
  BY DEF Entry
<1>4. ASSUME NEW d, NEW op, NEW f, d \notin AnyBranch, op \in PlainOpcodes
      PROVE  SoundEntry(d, Entry(op, f))
  BY <1>3, <1>4, Zenon DEF SoundEntry
<1>5. ASSUME NEW d, NEW op, NEW f, d \in ShortBranches, op \in GeneralBranches
      PROVE  SoundEntry(d, Entry(op, f))
  BY <1>3, <1>5, Zenon DEF SoundEntry, AnyBranch
<1> QED BY <1>1, <1>2, <1>4, <1>5, Zenon

LEMMA OffsetNames == DOMAIN Offset = {"blt", "bgt", "beq", "bso"}
BY BranchTables DEF Lacks, Has

BitTests == [op \in DOMAIN Offset |-> Entry("bc", "S" :> 12)]

\* What the mnemonics of branches stand for.
LEMMA ShortEntries ==
  /\ \A op \in DOMAIN Offset : Has(Simplified, op, Entry("bc", "S" :> 12))
  /\ Has(Simplified, "bt", Entry("bc", "S" :> 12))
  /\ Has(Simplified, "beqa", Entry("bca", "S" :> 12))
  /\ Has(Simplified, "bta", Entry("bca", "S" :> 12))
  /\ Has(Simplified, "bdnz", Entry("bc", "S" :> 16 @@ "A" :> 0))
  /\ Has(Simplified, "beqlr", Entry("bclr", "S" :> 12))
  /\ Has(Simplified, "btlr", Entry("bclr", "S" :> 12))
  /\ Has(Simplified, "bdnzlr", Entry("bclr", "S" :> 16 @@ "A" :> 0))
  /\ Has(Simplified, "blr", Entry("bclr", "S" :> 20 @@ "A" :> 0))
<1>0. SimplifiedBranches =
        BitTests @@
        "bt"      :> Entry("bc", "S" :> 12) @@
        "beqa"    :> Entry("bca", "S" :> 12) @@
        "bta"     :> Entry("bca", "S" :> 12) @@
        "bdnz"    :> Entry("bc", "S" :> 16 @@ "A" :> 0) @@
        "beqlr"   :> Entry("bclr", "S" :> 12) @@
        "btlr"    :> Entry("bclr", "S" :> 12) @@
        "bdnzlr"  :> Entry("bclr", "S" :> 16 @@ "A" :> 0) @@
        "blr"     :> Entry("bclr", "S" :> 20 @@ "A" :> 0)
  BY Zenon DEF SimplifiedBranches, BitTests
<1>1. \A op \in DOMAIN Offset : Has(BitTests, op, Entry("bc", "S" :> 12))
  BY Zenon DEF Has, BitTests
<1>2. \A x : x \notin {"blt", "bgt", "beq", "bso"} => Lacks(BitTests, x)
  BY OffsetNames, Zenon DEF Lacks, BitTests
<1>3. ASSUME NEW x, NEW e, Has(SimplifiedBranches, x, e)
      PROVE  Has(Simplified, x, e)
  <2>1. \A f, g : Has(f, x, e) => Has(f @@ g, x, e)
    BY TableRules, Zenon
  <2> QED BY <1>3, <2>1, SMT DEF Simplified
<1>4. \A op \in DOMAIN Offset : Has(SimplifiedBranches, op, Entry("bc", "S" :> 12))
  BY <1>0, <1>1, TableRules, SMT
<1>5. /\ Has(SimplifiedBranches, "bt", Entry("bc", "S" :> 12))
      /\ Has(SimplifiedBranches, "beqa", Entry("bca", "S" :> 12))
      /\ Has(SimplifiedBranches, "bta", Entry("bca", "S" :> 12))
  BY <1>0, <1>2, TableRules, SMT
<1>6. Has(SimplifiedBranches, "bdnz", Entry("bc", "S" :> 16 @@ "A" :> 0))
  BY <1>0, <1>2, TableRules, SMT
<1>7. /\ Has(SimplifiedBranches, "beqlr", Entry("bclr", "S" :> 12))
      /\ Has(SimplifiedBranches, "btlr", Entry("bclr", "S" :> 12))
  BY <1>0, <1>2, TableRules, SMT
<1>8. Has(SimplifiedBranches, "bdnzlr", Entry("bclr", "S" :> 16 @@ "A" :> 0))
  BY <1>0, <1>2, TableRules, SMT
<1>9. Has(SimplifiedBranches, "blr", Entry("bclr", "S" :> 20 @@ "A" :> 0))
  BY <1>0, <1>2, TableRules, SMT
<1> QED BY <1>3, <1>4, <1>5, <1>6, <1>7, <1>8, <1>9, Zenon

LEMMA SimplifiedSound == Sound(Simplified)
<1>1. Sound([op \in DOMAIN Offset |-> Entry("bc", "S" :> 12)])
  <2>1. \A f : SoundEntry("blt", Entry("bc", f)) /\ SoundEntry("bgt", Entry("bc", f))
             /\ SoundEntry("beq", Entry("bc", f)) /\ SoundEntry("bso", Entry("bc", f))
    BY OffsetNames DEF SoundEntry, Entry, AnyBranch, ShortBranches, GeneralBranches
  <2> QED BY <2>1, OffsetNames, Zenon DEF Sound
<1>3. Sound(SimplifiedBranches)
  BY <1>1, SoundTables, OffsetNames, SMT
     DEF SimplifiedBranches, AnyBranch, ShortBranches, GeneralBranches, PlainOpcodes
<1>2. Sound([op \in Shifts |-> Entry("rlwinm", none)])
  <2>1. \A op \in Shifts : op \notin AnyBranch
    BY OffsetNames DEF Shifts, OneAmount, TwoAmounts, AnyBranch, ShortBranches, GeneralBranches
  <2>2. Entry("rlwinm", none).op \in PlainOpcodes
    BY DEF Entry, PlainOpcodes
  <2> QED BY <2>1, <2>2, Zenon DEF Sound, SoundEntry
<1> QED
  BY <1>2, <1>3, SoundTables, OffsetNames, SMT
     DEF Simplified, AnyBranch, ShortBranches, GeneralBranches, PlainOpcodes

\* The opcode of a line, by its mnemonic.
LEMMA EntryOps ==
  ASSUME NEW op \in DOMAIN Rows
  PROVE  IF op \in ShortBranches THEN EntryOf(op).op \in GeneralBranches
         ELSE IF op \in AnyBranch THEN EntryOf(op) = Entry(op, none)
         ELSE EntryOf(op).op \in PlainOpcodes \cup (DOMAIN Rows \ AnyBranch)
<1>1. Entry(op, none).op = op
  BY DEF Entry
<1>2. op \in ShortBranches => op \in DOMAIN Simplified
  BY ShortEntries, OffsetNames, Zenon DEF ShortBranches, Has
<1>3. op \in DOMAIN Simplified => SoundEntry(op, Simplified[op])
  BY SimplifiedSound, Zenon DEF Sound
<1>4. op \in ShortBranches => op \in AnyBranch
  BY Zenon DEF AnyBranch
<1> QED BY <1>1, <1>2, <1>3, <1>4, Zenon DEF EntryOf, SoundEntry

\* What a word of memory may be.
LEMMA OpcodesAre ==
  ASSUME NEW y \in Opcodes
  PROVE  \/ y \in GeneralBranches \cup {"b", "ba"} \cup PlainOpcodes \cup {".WORD"}
         \/ y \in DOMAIN Rows \ AnyBranch
<1>1. data.op = ".WORD"
  BY DEF data, Entry
<1>2. \A op, f : Entry(op, f).op = op
  BY DEF Entry
<1>3. ASSUME NEW op \in DOMAIN Rows, y = EntryOf(op).op
      PROVE  \/ y \in GeneralBranches \cup {"b", "ba"} \cup PlainOpcodes
             \/ y \in DOMAIN Rows \ AnyBranch
  <2>1. CASE op \in ShortBranches
    BY <1>3, <2>1, EntryOps, Zenon
  <2>2. CASE op \in AnyBranch \ ShortBranches
    <3>1. y = op
      BY <1>2, <1>3, <2>2, EntryOps, Zenon
    <3> QED BY <2>2, <3>1, Zenon DEF AnyBranch
  <2>3. CASE op \notin AnyBranch
    <3>1. op \notin ShortBranches
      BY <2>3, Zenon DEF AnyBranch
    <3> QED BY <1>3, <2>3, <3>1, EntryOps, Zenon
  <2> QED BY <2>1, <2>2, <2>3, Zenon
<1> QED BY <1>1, <1>3, Zenon DEF Opcodes

LEMMA InTables ==
  /\ \A f, g, x : x \in DOMAIN f => x \in DOMAIN (f @@ g)
  /\ \A f, g, x : x \in DOMAIN g => x \in DOMAIN (f @@ g)
  /\ \A d, e : d \in DOMAIN (d :> e)
<1>1. ASSUME NEW f, NEW g
      PROVE  DOMAIN (f @@ g) = DOMAIN f \cup DOMAIN g
  BY OverlayHas DEF @@
<1>2. ASSUME NEW d, NEW e
      PROVE  d \in DOMAIN (d :> e)
  BY SingleEntry DEF :>
<1> QED BY <1>1, <1>2, Zenon

LEMMA RowsHave ==
  ASSUME NEW x, \/ x \in DOMAIN Leading
                \/ x \in DOMAIN ImmediateForms \/ x \in DOMAIN Indexed31
                \/ x \in DOMAIN Special31 \/ x \in DOMAIN System31
                \/ x \in DOMAIN VectorForms
                \/ x \in DOMAIN ConditionForms \/ x \in DOMAIN MoveFrom \/ x \in DOMAIN MoveTo
                \/ x \in DOMAIN ArithmeticForms \/ x \in DOMAIN RotateForms
                \/ x \in Shifts
  PROVE  x \in DOMAIN Rows
<1>1. DOMAIN ShiftRows = Shifts
  BY ShiftRowsAre
<1> QED BY <1>1, InTables, SMT DEF Rows, Leading, Relative

\* Names the disassembler may find for an opcode that is no branch.
PlainNames ==
  (PlainOpcodes \ {"addic"}) \cup
  {"crset", "crmove", "tweq", "trap", "twgti", "lis", "subis", "subic", "nop", "cmpw", "cmpwi",
   "mflr", "mtlr", "mfsprg", "mtsprg", "mfibatu", "mtibatu", "insrwi", "rotlw", "rotlwi",
   "clrrwi", "slwi", "clrlwi", "srwi", "clrlslwi", "mr", "sub"}

LEMMA PlainNamesKnown ==
  ASSUME NEW x \in PlainNames
  PROVE  x \in DOMAIN Rows /\ x \notin AnyBranch
<1>1. x \notin AnyBranch
  BY OffsetNames DEF PlainNames, PlainOpcodes, AnyBranch, ShortBranches, GeneralBranches
<1>2. CASE x \in {"cmpi", "twi", "ori", "addi", "addis", "twgti", "lis", "subis", "subic",
                  "nop", "cmpwi"}
  <2>1. x \in DOMAIN ImmediateForms
    BY <1>2, InTables, SMT DEF ImmediateForms
  <2> QED BY <1>1, <2>1, RowsHave, Zenon
<1>3. CASE x \in {"or", "mr"}
  <2>1. x \in DOMAIN Indexed31
    BY <1>3, InTables, SMT DEF Indexed31
  <2> QED BY <1>1, <2>1, RowsHave, Zenon
<1>4. CASE x \in {"cmp", "cmpw"}
  <2>1. x \in DOMAIN Special31
    BY <1>4, InTables, SMT DEF Special31
  <2> QED BY <1>1, <2>1, RowsHave, Zenon
<1>5. CASE x \in {"tw", "tweq", "trap"}
  <2>1. x \in DOMAIN System31
    BY <1>5, InTables, SMT DEF System31
  <2> QED BY <1>1, <2>1, RowsHave, Zenon
<1>6. CASE x \in {"creqv", "cror", "crset", "crmove"}
  <2>1. x \in DOMAIN ConditionForms
    BY <1>6, InTables, SMT DEF ConditionForms
  <2> QED BY <1>1, <2>1, RowsHave, Zenon
<1>7. CASE x \in {"mfspr", "mflr", "mfsprg", "mfibatu"}
  <2>1. x \in DOMAIN MoveFrom
    BY <1>7, InTables, SMT DEF MoveFrom
  <2> QED BY <1>1, <2>1, RowsHave, Zenon
<1>8. CASE x \in {"mtspr", "mtlr", "mtsprg", "mtibatu"}
  <2>1. x \in DOMAIN MoveTo
    BY <1>8, InTables, SMT DEF MoveTo
  <2> QED BY <1>1, <2>1, RowsHave, Zenon
<1>9. CASE x = "vor"
  <2>1. x \in DOMAIN VectorForms
    BY <1>9, InTables, SMT DEF VectorForms
  <2> QED BY <1>1, <2>1, RowsHave, Zenon
<1>10. CASE x \in {"subf", "sub"}
  <2>1. x \in DOMAIN ArithmeticForms
    BY <1>10, InTables, SMT DEF ArithmeticForms
  <2> QED BY <1>1, <2>1, RowsHave, Zenon
<1>11. CASE x \in {"rlwnm", "rlwimi", "rlwinm", "rotlw"}
  <2>1. x \in DOMAIN RotateForms
    BY <1>11, InTables, SMT DEF RotateForms
  <2> QED BY <1>1, <2>1, RowsHave, Zenon
<1>12. CASE x \in {"insrwi", "rotlwi", "clrrwi", "slwi", "clrlwi", "srwi", "clrlslwi"}
  <2>1. x \in Shifts
    BY <1>12 DEF Shifts, OneAmount, TwoAmounts
  <2> QED BY <1>1, <2>1, RowsHave, Zenon
<1>13. \/ x \in {"cmpi", "twi", "ori", "addi", "addis", "twgti", "lis", "subis", "subic",
                  "nop", "cmpwi"}
       \/ x \in {"or", "mr"} \/ x \in {"cmp", "cmpw"} \/ x \in {"tw", "tweq", "trap"}
       \/ x \in {"creqv", "cror", "crset", "crmove"}
       \/ x \in {"mfspr", "mflr", "mfsprg", "mfibatu"}
       \/ x \in {"mtspr", "mtlr", "mtsprg", "mtibatu"}
       \/ x = "vor" \/ x \in {"subf", "sub"} \/ x \in {"rlwnm", "rlwimi", "rlwinm", "rotlw"}
       \/ x \in {"insrwi", "rotlwi", "clrrwi", "slwi", "clrlwi", "srwi", "clrlslwi"}
  BY DEF PlainNames, PlainOpcodes
<1> QED
  BY <1>1, <1>2, <1>3, <1>4, <1>5, <1>6, <1>7, <1>8, <1>9, <1>10, <1>11, <1>12, <1>13, Zenon

-----------------------------------------------------------------------------
(* The mnemonic the disassembler finds.                                    *)

ShownBranchNames == {"bdnz", "bdnzlr", "blr", "beqlr", "beqa"} \cup DOMAIN Offset

LEMMA BranchNames ==
  ASSUME NEW i, i.op \in GeneralBranches, i.f["A"] \in 0 .. 31
  PROVE  BranchName(i) \in ShownBranchNames
<1> DEFINE bit == CHOOSE op \in DOMAIN Offset : Offset[op] = i.f["A"] % 4
<1>1. bit \in DOMAIN Offset
  <2>1. i.f["A"] % 4 \in {0, 1, 2, 3}
    OBVIOUS
  <2>2. \E op \in DOMAIN Offset : Offset[op] = i.f["A"] % 4
    BY <2>1, BranchTables, Zenon DEF Has
  <2> QED BY <2>2, Zenon
<1>2. BranchName(i) \in {"blr", "bdnzlr", "bdnz", "beqlr", "beqa", bit}
  <2> HIDE DEF bit
  <2> QED BY SMT DEF BranchName, bit
<1> QED BY <1>1, <1>2 DEF ShownBranchNames

LEMMA OtherNames ==
  ASSUME NEW i
  PROVE  /\ i.op \in {"creqv", "cror"} => ConditionName(i) \in {"creqv", "cror", "crset", "crmove"}
         /\ i.op \in {"tw", "twi"} => TrapName(i) \in {"tw", "twi", "tweq", "trap", "twgti", ".WORD"}
         /\ i.op \in {"addis", "addic", "ori", "cmp", "cmpi"} =>
              ImmediateName(i) \in {"addis", "ori", "cmp", "cmpi", "lis", "subis", "subic", "nop",
                                    "cmpw", "cmpwi"}
         /\ i.op \in {"mfspr", "mtspr"} =>
              MoveName(i) \in {"mflr", "mtlr", "mfsprg", "mtsprg", "mfibatu", "mtibatu", "mfspr",
                               "mtspr"}
         /\ i.op \in {"rlwinm", "rlwimi", "rlwnm"} =>
              RotateName(i) \in {"insrwi", "rotlw", "rlwnm", "rotlwi", "clrrwi", "slwi", "clrlwi",
                                 "srwi", "clrlslwi"}
<1>1. i.op \in {"creqv", "cror"} => ConditionName(i) \in {"creqv", "cror", "crset", "crmove"}
  BY SMT DEF ConditionName
<1>2. i.op \in {"tw", "twi"} => TrapName(i) \in {"tw", "twi", "tweq", "trap", "twgti", ".WORD"}
  BY SMT DEF TrapName
<1>3. i.op \in {"addis", "addic", "ori", "cmp", "cmpi"} =>
        ImmediateName(i) \in {"addis", "ori", "cmp", "cmpi", "lis", "subis", "subic", "nop",
                              "cmpw", "cmpwi"}
  BY SMT DEF ImmediateName
<1>4. MoveName(i) \in {"mflr", "mtlr", "mfsprg", "mtsprg", "mfibatu", "mtibatu", "mfspr", "mtspr"}
  BY SMT DEF MoveName
<1>5. RotateName(i) \in {"insrwi", "rotlw", "rlwnm", "rotlwi", "clrrwi", "slwi", "clrlwi", "srwi",
                         "clrlslwi"}
  BY SMT DEF RotateName
<1> QED BY <1>1, <1>2, <1>3, <1>4, <1>5

LEMMA NameIs ==
  ASSUME NEW i, Instruction(i)
  PROVE  \/ Name(i) = ".WORD"
         \/ Name(i) \in DOMAIN Rows \ AnyBranch
         \/ Name(i) \in {"b", "ba"} /\ i.op = Name(i)
         \/ Name(i) \in ShownBranchNames /\ i.op \in GeneralBranches
<1> DEFINE special == {"creqv", "cror", "tw", "twi", "addis", "addic", "ori", "cmp", "cmpi",
                       "mfspr", "mtspr", "rlwinm", "rlwimi", "rlwnm"}
<1>1. CASE i.op \in GeneralBranches
  <2>1. i.f["A"] \in 0 .. 31
    BY <1>1, Zenon DEF Instruction, GeneralBranches
  <2>2. Name(i) = BranchName(i)
    BY <1>1, SMT DEF Name, GeneralBranches
  <2> QED BY <1>1, <2>1, <2>2, BranchNames
<1>2. CASE i.op \in special
  <2>1. \/ Name(i) = ConditionName(i) /\ i.op \in {"creqv", "cror"}
        \/ Name(i) = TrapName(i) /\ i.op \in {"tw", "twi"}
        \/ Name(i) = ImmediateName(i) /\ i.op \in {"addis", "addic", "ori", "cmp", "cmpi"}
        \/ Name(i) = MoveName(i) /\ i.op \in {"mfspr", "mtspr"}
        \/ Name(i) = RotateName(i) /\ i.op \in {"rlwinm", "rlwimi", "rlwnm"}
    BY <1>2, SMT DEF Name
  <2>2. Name(i) \in PlainNames \cup {".WORD"}
    <3> QED BY <2>1, OtherNames, SMT DEF PlainNames, PlainOpcodes
  <2> QED BY <2>2, PlainNamesKnown
<1>3. CASE i.op \notin GeneralBranches \cup special
  <2>1. Name(i) \in {i.op, "mr", "sub"} /\ (i.op = "subf" => Name(i) = "sub")
    BY <1>3, SMT DEF Name, GeneralBranches
  <2>2. CASE Name(i) \in {"mr", "sub"}
    <3>1. Name(i) \in PlainNames
      BY <2>2 DEF PlainNames
    <3> QED BY <3>1, PlainNamesKnown
  <2>3. CASE Name(i) = i.op
    <3>1. i.op \in Opcodes
      BY Zenon DEF Instruction
    <3>2. i.op \in PlainOpcodes => i.op \in PlainNames
      BY <1>3 DEF PlainNames
    <3> QED BY <1>3, <2>3, <3>1, <3>2, OpcodesAre, PlainNamesKnown, Zenon
  <2> QED BY <2>1, <2>2, <2>3
<1> QED BY <1>1, <1>2, <1>3

-----------------------------------------------------------------------------
(* The words a branch is shown as.                                         *)

LEMMA FlattenNone == Seqs!FlattenSeq(<<>>) = <<>>
BY DEF Seqs!FlattenSeq

LEMMA FlattenOne ==
  ASSUME NEW a
  PROVE  Seqs!FlattenSeq(<<a>>) = a
<1> DEFINE flattens(g) == g = [i \in 1 .. 1 |-> IF i = 1 THEN <<a>>[i] ELSE g[i - 1] \o <<a>>[i]]
           flatten == CHOOSE g : flattens(g)
<1>1. flattens([i \in 1 .. 1 |-> a])
  OBVIOUS
<1>2. flattens(flatten)
  <2> HIDE DEF flattens
  <2> QED BY <1>1, Zenon
<1> HIDE DEF flatten
<1>3. flatten[1] = a
  BY <1>2
<1>4. Len(<<a>>) = 1
  OBVIOUS
<1>5. Seqs!FlattenSeq(<<a>>) = flatten[1]
  BY <1>4, SMT DEF Seqs!FlattenSeq, flatten
<1> QED BY <1>3, <1>5

LEMMA FlattenTwo ==
  ASSUME NEW a, NEW b
  PROVE  Seqs!FlattenSeq(<<a, b>>) = a \o b
<1> DEFINE flattens(g) ==
             g = [i \in 1 .. 2 |-> IF i = 1 THEN <<a, b>>[i] ELSE g[i - 1] \o <<a, b>>[i]]
           flatten == CHOOSE g : flattens(g)
<1>1. flattens([i \in 1 .. 2 |-> IF i = 1 THEN a ELSE a \o b])
  OBVIOUS
<1>2. flattens(flatten)
  <2> HIDE DEF flattens
  <2> QED BY <1>1, Zenon
<1> HIDE DEF flatten
<1>3. flatten[1] = a /\ flatten[2] = flatten[1] \o b
  <2>1. \A i \in 1 .. 2 :
          flatten[i] = IF i = 1 THEN <<a, b>>[i] ELSE flatten[i - 1] \o <<a, b>>[i]
    BY <1>2, Zenon
  <2>2. flatten[1] = IF 1 = 1 THEN <<a, b>>[1] ELSE flatten[1 - 1] \o <<a, b>>[1]
    BY <2>1
  <2>3. flatten[2] = IF 2 = 1 THEN <<a, b>>[2] ELSE flatten[2 - 1] \o <<a, b>>[2]
    BY <2>1
  <2>4. <<a, b>>[1] = a /\ <<a, b>>[2] = b /\ 2 - 1 = 1 /\ 2 # 1
    OBVIOUS
  <2> QED BY <2>2, <2>3, <2>4, Zenon
<1>4. Len(<<a, b>>) = 2
  OBVIOUS
<1>5. Seqs!FlattenSeq(<<a, b>>) = flatten[2]
  BY <1>4, SMT DEF Seqs!FlattenSeq, flatten
<1> QED BY <1>3, <1>5

\* The rows of the branches that are shown.
Aimed == <<Prints("LI", "target")>>
Counted == <<Prints("BD", "target")>>
Tested == <<Prints("A", "cr of bit"), Prints("BD", "target")>>
Returned == <<Prints("A", "cr of bit")>>

LEMMA ShownBranchRows ==
  /\ \A op \in {"b", "ba"} : ShownRows[op] = Aimed
  /\ ShownRows["bdnz"] = Counted
  /\ \A op \in DOMAIN Offset \cup {"beqa"} : ShownRows[op] = Tested
  /\ ShownRows["beqlr"] = Returned
  /\ \A op \in {"bdnzlr", "blr"} : ShownRows[op] = <<>>
<1>1. \A op \in DOMAIN Offset : Has(ShownBranches, op, Tested)
  <2>1. \A op \in DOMAIN Offset :
          Has([x \in DOMAIN Offset |-> <<Prints("A", "cr of bit"), Prints("BD", "target")>>], op,
              Tested)
    BY Zenon DEF Has, Tested
  <2> QED BY <2>1, TableRules, Zenon DEF ShownBranches
<1>2. ASSUME NEW x, x \notin {"blt", "bgt", "beq", "bso"}
      PROVE  Lacks([y \in DOMAIN Offset |->
                      <<Prints("A", "cr of bit"), Prints("BD", "target")>>], x)
  BY <1>2, OffsetNames, Zenon DEF Lacks
<1> DEFINE tests == [y \in DOMAIN Offset |-> <<Prints("A", "cr of bit"), Prints("BD", "target")>>]
<1>3. ShownBranches = ((((tests @@ "b" :> Aimed) @@ "bdnz" :> Counted) @@ "beqlr" :> Returned)
                        @@ "bdnzlr" :> <<>>) @@ "blr" :> <<>>
  BY Zenon DEF ShownBranches, Aimed, Counted, Returned
<1>4. \A x : x \notin {"blt", "bgt", "beq", "bso"} => Lacks(tests, x)
  BY <1>2, Zenon
<1> HIDE DEF tests
<1>5. /\ Has(ShownBranches, "b", Aimed) /\ Has(ShownBranches, "bdnz", Counted)
      /\ Has(ShownBranches, "beqlr", Returned)
  BY <1>3, <1>4, TableRules, SMT
<1>6. Has(ShownBranches, "bdnzlr", <<>>) /\ Has(ShownBranches, "blr", <<>>)
  BY <1>3, <1>4, TableRules, SMT
<1>7. ASSUME NEW x, NEW row, Has(ShownBranches, x, row)
      PROVE  Has(ShownRows, x, row)
  <2>1. \A f, g : Has(f, x, row) => Has(f @@ g, x, row)
    BY TableRules, Zenon
  <2> QED BY <1>7, <2>1, SMT DEF ShownRows
<1>8. Lacks(ShownBranches, "ba") /\ Lacks(ShownBranches, "beqa")
  BY <1>3, <1>4, TableRules, SMT
<1>9. Has(ShownRows, "ba", Aimed)
  <2>1. Has(ShownBranches @@ "ba" :> ShownBranches["b"], "ba", Aimed)
    <3>1. ShownBranches["b"] = Aimed
      BY <1>5, Zenon DEF Has
    <3>2. Has("ba" :> ShownBranches["b"], "ba", Aimed)
      BY <3>1, TableRules, Zenon
    <3> QED BY <1>8, <3>2, TableRules, Zenon
  <2>2. \A f, g : Has(f, "ba", Aimed) => Has(f @@ g, "ba", Aimed)
    BY TableRules, Zenon
  <2> QED BY <2>1, <2>2, SMT DEF ShownRows
<1>10. Has(ShownRows, "beqa", Tested)
  <2>1. ShownBranches["beq"] = Tested
    BY <1>1, OffsetNames DEF Has
  <2>2. Lacks(ShownBranches @@ "ba" :> ShownBranches["b"], "beqa")
    BY <1>8, TableRules, SMT
  <2>3. Has("beqa" :> ShownBranches["beq"], "beqa", Tested)
    BY <2>1, TableRules, Zenon
  <2>4. Has((ShownBranches @@ "ba" :> ShownBranches["b"]) @@ "beqa" :> ShownBranches["beq"],
            "beqa", Tested)
    BY <2>2, <2>3, TableRules, Zenon
  <2>5. \A f, g : Has(f, "beqa", Tested) => Has(f @@ g, "beqa", Tested)
    BY TableRules, Zenon
  <2> QED BY <2>4, <2>5, SMT DEF ShownRows
<1>11. ShownRows["b"] = Aimed /\ ShownRows["bdnz"] = Counted
  BY <1>5, <1>7, Zenon DEF Has
<1>12. \A op \in DOMAIN Offset : ShownRows[op] = Tested
  BY <1>1, <1>7, Zenon DEF Has
<1>13. ShownRows["beqlr"] = Returned /\ \A op \in {"bdnzlr", "blr"} : ShownRows[op] = <<>>
  BY <1>5, <1>6, <1>7, Zenon DEF Has
<1>14. ShownRows["ba"] = Aimed /\ ShownRows["beqa"] = Tested
  BY <1>9, <1>10, Zenon DEF Has
<1> QED BY <1>11, <1>12, <1>13, <1>14, Zenon

\* What the operands of a branch are shown as.
ShownWords(i, addr) == {Word("hex", Target(i, addr))} \cup {Word("crf", n) : n \in Int}

LEMMA ShownOne ==
  ASSUME NEW p, NEW i, NEW addr
  PROVE  [k \in DOMAIN <<p>> |-> WordsOf(<<p>>[k], i, addr)] = <<WordsOf(p, i, addr)>>
OBVIOUS

LEMMA ShownTwo ==
  ASSUME NEW p, NEW q, NEW i, NEW addr
  PROVE  [k \in DOMAIN <<p, q>> |-> WordsOf(<<p, q>>[k], i, addr)]
           = <<WordsOf(p, i, addr), WordsOf(q, i, addr)>>
OBVIOUS

LEMMA ShortSeq ==
  ASSUME NEW S
  PROVE  <<>> \in Seq(S) /\ \A w \in S : <<w>> \in Seq(S)
OBVIOUS

LEMMA BranchWords ==
  ASSUME NEW i, NEW addr,
         \/ Name(i) \in {"b", "ba"}
         \/ Name(i) \in ShownBranchNames /\ i.f["A"] \in 0 .. 31
  PROVE  disassemble_an_opcode(i, addr) \in Seq(ShownWords(i, addr))
<1> DEFINE U == ShownWords(i, addr)
           jump == WordsOf(Prints("LI", "target"), i, addr)
           target == WordsOf(Prints("BD", "target"), i, addr)
           tested == WordsOf(Prints("A", "cr of bit"), i, addr)
           made(row) == Seqs!FlattenSeq([k \in DOMAIN row |-> WordsOf(row[k], i, addr)])
<1>1. target \in Seq(U) /\ jump \in Seq(U)
  <2>1. \A o \in {target, jump} : o \in {<<>>, <<Word("hex", Target(i, addr))>>}
    BY SMT DEF WordsOf, Prints
  <2>2. Word("hex", Target(i, addr)) \in U
    BY Zenon DEF ShownWords
  <2> QED BY <2>1, <2>2, ShortSeq, Zenon
<1>2. ASSUME i.f["A"] \in 0 .. 31
      PROVE  tested \in Seq(U)
  <2> DEFINE n == i.f["A"] \div 4
  <2>1. tested \in {<<>>, <<Word("crf", n)>>}
    BY SMT DEF WordsOf, Prints
  <2>2. n \in Int
    BY <1>2
  <2>3. Word("crf", n) \in U
    <3> HIDE DEF n
    <3> QED BY <2>2, Zenon DEF ShownWords
  <2> QED BY <2>1, <2>3, ShortSeq, Zenon
<1>3. disassemble_an_opcode(i, addr) = made(ShownRows[Name(i)])
  BY Zenon DEF disassemble_an_opcode
<1>4. made(<<>>) \in Seq(U)
  <2>1. [k \in DOMAIN <<>> |-> WordsOf(<<>>[k], i, addr)] = <<>>
    OBVIOUS
  <2>2. made(<<>>) = <<>>
    BY <2>1, FlattenNone, Zenon
  <2> QED BY <2>2, ShortSeq, Zenon
<1>5. made(Aimed) \in Seq(U) /\ made(Counted) \in Seq(U)
  <2>1. /\ [k \in DOMAIN Aimed |-> WordsOf(Aimed[k], i, addr)] = <<jump>>
        /\ [k \in DOMAIN Counted |-> WordsOf(Counted[k], i, addr)] = <<target>>
    BY ShownOne, Zenon DEF Aimed, Counted
  <2>2. made(Aimed) = jump /\ made(Counted) = target
    BY <2>1, FlattenOne, Zenon
  <2> QED BY <1>1, <2>2, Zenon
<1>6. ASSUME i.f["A"] \in 0 .. 31
      PROVE  made(Returned) \in Seq(U)
  <2>1. [k \in DOMAIN Returned |-> WordsOf(Returned[k], i, addr)] = <<tested>>
    BY ShownOne, Zenon DEF Returned
  <2>2. made(Returned) = tested
    BY <2>1, FlattenOne, Zenon
  <2> QED BY <1>2, <1>6, <2>2, Zenon
<1>7. ASSUME i.f["A"] \in 0 .. 31
      PROVE  made(Tested) \in Seq(U)
  <2>1. [k \in DOMAIN Tested |-> WordsOf(Tested[k], i, addr)] = <<tested, target>>
    <3> DEFINE p == Prints("A", "cr of bit")
               q == Prints("BD", "target")
    <3>1. [k \in DOMAIN <<p, q>> |-> WordsOf(<<p, q>>[k], i, addr)] = <<tested, target>>
      <4> HIDE DEF p, q
      <4>1. [k \in DOMAIN <<p, q>> |-> WordsOf(<<p, q>>[k], i, addr)]
              = <<WordsOf(p, i, addr), WordsOf(q, i, addr)>>
        BY ShownTwo
      <4> QED BY <4>1, Zenon DEF p, q
    <3> QED BY <3>1, Zenon DEF Tested
  <2>2. made(Tested) = tested \o target
    BY <2>1, FlattenTwo, Zenon
  <2>3. tested \o target \in Seq(U)
    <3> HIDE DEF tested, target, U
    <3> QED BY <1>1, <1>2, <1>7, ConcatProperties
  <2> QED BY <2>2, <2>3, Zenon
<1>8. CASE Name(i) \in {"b", "ba"}
  BY <1>3, <1>5, <1>8, ShownBranchRows, Zenon
<1>9. CASE Name(i) \in ShownBranchNames /\ i.f["A"] \in 0 .. 31
  <2>1. \/ Name(i) = "bdnz" \/ Name(i) \in {"bdnzlr", "blr"} \/ Name(i) = "beqlr"
        \/ Name(i) \in DOMAIN Offset \cup {"beqa"}
    BY <1>9, Zenon DEF ShownBranchNames
  <2>2. ShownRows[Name(i)] \in {Aimed, Counted, <<>>, Returned, Tested}
    BY <2>1, ShownBranchRows, Zenon
  <2>3. made(ShownRows[Name(i)]) \in Seq(U)
    <3> HIDE DEF U, made
    <3> QED BY <1>4, <1>5, <1>6, <1>7, <1>9, <2>2
  <2> QED BY <1>3, <2>3, Zenon
<1> QED BY <1>8, <1>9, Zenon

-----------------------------------------------------------------------------
(* What is entered is an instruction again.                                *)

\* A line that may be entered: as it is typed, or as a branch is shown.
LEMMA LegalWords ==
  ASSUME NEW op, NEW words, Legal(op, words), Instruction(mem[at])
  PROVE  /\ op \in DOMAIN Rows
         /\ \/ words \in Seq(Operand)
            \/ op \notin AnyBranch
            \/ op \in ShownBranchNames \cup {"b", "ba"} /\ words \in Seq(ShownWords(mem[at], at))
<1>1. CASE op \in DOMAIN Rows /\ words \in Seq(Operand)
  BY <1>1
<1>2. CASE /\ op = Name(mem[at]) /\ op # data.op
           /\ words = disassemble_an_opcode(mem[at], at)
  <2>1. op # ".WORD"
    BY <1>2 DEF data, Entry
  <2>2. CASE op \in DOMAIN Rows \ AnyBranch
    BY <2>2
  <2>3. CASE op \in {"b", "ba"}
    <3>1. op \in DOMAIN Rows
      BY <2>3, BranchRows, Zenon DEF Has
    <3> QED BY <1>2, <2>3, <3>1, BranchWords, Zenon
  <2>4. CASE op \in ShownBranchNames /\ mem[at].op \in GeneralBranches
    <3>1. op \in DOMAIN Rows
      BY <2>4, BranchRows, Zenon DEF Has, ShownBranchNames
    <3>2. mem[at].f["A"] \in 0 .. 31
      BY <2>4, Zenon DEF Instruction, GeneralBranches
    <3> QED BY <1>2, <2>4, <3>1, <3>2, BranchWords, Zenon
  <2> QED BY <1>2, <2>1, <2>2, <2>3, <2>4, NameIs, Zenon
<1> QED BY <1>1, <1>2, Zenon DEF Legal

LEMMA OperandValues ==
  ASSUME NEW w \in Operand
  PROVE  /\ pull_immediate(w) \in Int /\ pull_immediate_cr(w) \in Int
         /\ pull_register(w) \in Int
<1>1. w.n \in Int
  BY DEF Operand
<1>2. HexOf(w.n) \in Int
  BY <1>1 DEF HexOf
<1> QED BY <1>1, <1>2, SMT DEF pull_immediate, pull_immediate_cr, pull_register

LEMMA ShownRegisters ==
  ASSUME NEW i, NEW addr, NEW w \in ShownWords(i, addr)
  PROVE  pull_register(w) \in Int /\ w.k # "label"
<1>1. CASE w = Word("hex", Target(i, addr))
  <2>1. w.k = "hex"
    BY <1>1 DEF Word
  <2> QED BY <2>1 DEF pull_register
<1>2. ASSUME NEW n \in Int, w = Word("crf", n)
      PROVE  pull_register(w) \in Int /\ w.k # "label"
  <2>1. w.k = "crf" /\ w.n = n
    BY <1>2 DEF Word
  <2> QED BY <2>1 DEF pull_register
<1> QED BY <1>1, <1>2, Zenon DEF ShownWords

LEMMA GreatestIs ==
  ASSUME NEW S \in SUBSET Int, NEW m \in S, \A y \in S : y <= m
  PROVE  Max(S) = m
<1>1. \A x \in S : (\A y \in S : x >= y) => x = m
  OBVIOUS
<1>2. \A y \in S : m >= y
  OBVIOUS
<1> QED BY <1>1, <1>2, Zenon DEF Max

\* How many words a row reads.
LEMMA WordsReadIs ==
  ASSUME NEW op, NEW row, Has(Rows, op, row), NEW k \in DOMAIN row, row[k].word \in Int,
         \A j \in DOMAIN row : row[j].word \in Int /\ row[j].word <= row[k].word
  PROVE  WordsRead(op) = row[k].word
<1> DEFINE S == {row[j].word : j \in DOMAIN row}
<1>1. Rows[op] = row
  BY Zenon DEF Has
<1>2. row # <<>>
  OBVIOUS
<1>3. WordsRead(op) = Max(S)
  BY <1>1, <1>2, Zenon DEF WordsRead
<1>4. S \in SUBSET Int /\ row[k].word \in S /\ \A y \in S : y <= row[k].word
  OBVIOUS
<1> HIDE DEF S
<1> QED BY <1>3, <1>4, GreatestIs

LEMMA WordsOfBranches ==
  /\ WordsRead("bc") = 3 /\ WordsRead("bca") = 3
  /\ WordsRead("bt") = 2 /\ WordsRead("bta") = 2 /\ WordsRead("beqa") = 2
  /\ \A op \in DOMAIN Offset : WordsRead(op) = 2
  /\ WordsRead("btlr") = 1 /\ WordsRead("beqlr") = 1
<1>1. ASSUME NEW op, Has(Rows, op, General)
      PROVE  WordsRead(op) = 3
  <2>1. /\ 3 \in DOMAIN General /\ General[3].word = 3
        /\ \A j \in DOMAIN General : General[j].word \in Int /\ General[j].word <= 3
    BY DEF General, Imm, Reads
  <2> HIDE DEF General
  <2> QED BY <1>1, <2>1, WordsReadIs
<1>2. ASSUME NEW op, NEW as, Has(Rows, op, OnBit(as))
      PROVE  WordsRead(op) = 2
  <2>1. /\ 2 \in DOMAIN OnBit(as) /\ OnBit(as)[2].word = 2
        /\ \A j \in DOMAIN OnBit(as) : OnBit(as)[j].word \in Int /\ OnBit(as)[j].word <= 2
    BY DEF OnBit, Reads
  <2> QED BY <1>2, <2>1, WordsReadIs
<1>3. ASSUME NEW op, NEW as, Has(Rows, op, <<Reads("A", 1, as)>>)
      PROVE  WordsRead(op) = 1
  <2> DEFINE row == <<Reads("A", 1, as)>>
  <2>1. /\ 1 \in DOMAIN row /\ row[1].word = 1
        /\ \A j \in DOMAIN row : row[j].word \in Int /\ row[j].word <= 1
    BY DEF Reads
  <2>2. Has(Rows, op, row)
    BY <1>3
  <2> HIDE DEF row
  <2> QED BY <2>1, <2>2, WordsReadIs
<1> QED BY <1>1, <1>2, <1>3, BranchRows, Zenon

LEMMA ReturnRow == Has(Rows, "bclr", <<Imm("S", 1), Imm("A", 2)>>)
<1> DEFINE row == <<Imm("S", 1), Imm("A", 2)>>
<1>1. Lacks(Leading, "bclr")
  <2>1. Lacks(Branches, "bclr")
    BY TableRules, SMT DEF Branches
  <2>2. Lacks([op \in DOMAIN Offset |-> <<Reads("A", 1, op), Reads("BD", 2, "branch")>>], "bclr")
    BY OffsetNames DEF Lacks
  <2>3. Lacks(Conditions, "bclr")
    BY <2>2, TableRules, SMT DEF Conditions
  <2>4. Lacks([x \in DOMAIN Absolute |-> Relative[Absolute[x]]], "bclr")
    BY BranchTables DEF Lacks
  <2> QED BY <2>1, <2>3, <2>4, TableRules, Zenon DEF Leading, Relative
<1>2. /\ Lacks(ImmediateForms, "bclr") /\ Lacks(LoadForms, "bclr") /\ Lacks(Indexed31, "bclr")
      /\ Lacks(Special31, "bclr")
  BY TableRules, SMT DEF ImmediateForms, LoadForms, Indexed31, Special31
<1>3. Lacks(System31, "bclr") /\ Lacks(Float63, "bclr") /\ Lacks(VectorForms, "bclr")
  BY TableRules, SMT DEF System31, Float63, VectorForms
<1>4. Lacks(VectorSpecial, "bclr") /\ Lacks(VectorFour, "bclr")
  BY TableRules, SMT DEF VectorSpecial, VectorFour
<1>5. Has(ConditionForms, "bclr", row)
  BY TableRules, SMT DEF ConditionForms
<1> HIDE DEF row
<1>6. Has(Rows, "bclr", row)
  BY <1>1, <1>2, <1>3, <1>4, <1>5, TableRules, SMT DEF Rows, Leading, Relative
<1> QED BY <1>6 DEF row

\* An operand that is there, or is read from the stack, is a number.
LEMMA ReadNumber ==
  ASSUME NEW words, NEW target, NEW op, NEW junk \in [Len(words) + 1 .. WordsRead(op) -> Junk],
         Len(words) \in Nat, NEW s, NEW w \in Nat, NEW as, as # "branch", w <= WordsRead(op),
         WordsRead(op) \in Nat,
         w <= Len(words) => Value(as, words[w]) \in Int
  PROVE  Read(words, target, junk, Reads(s, w, as)) \in Int
<1>1. Reads(s, w, as).word = w /\ Reads(s, w, as).as = as
  BY DEF Reads
<1>2. CASE w > Len(words)
  <2>1. w \in Len(words) + 1 .. WordsRead(op)
    BY <1>2
  <2>2. junk[w] \in Int
    BY <2>1, JunkAssumption
  <2> QED BY <1>1, <1>2, <2>2 DEF Read
<1>3. CASE ~ (w > Len(words))
  <2>1. w <= Len(words)
    BY <1>3
  <2> QED BY <1>1, <1>3, <2>1, Zenon DEF Read
<1> QED BY <1>2, <1>3

\* Operand k of the row, and no other, goes to the slot.
Fills(row, k, slot) ==
  /\ k \in DOMAIN row /\ row[k].slot = slot
  /\ \A j \in DOMAIN row : row[j].slot = slot => j = k

\* The field an operand makes.
LEMMA OperandField ==
  ASSUME NEW op, op \notin Shifts, NEW row, Has(Rows, op, row), NEW k, NEW slot,
         Fills(row, k, slot), NEW words, NEW target, NEW junk
  PROVE  assemble_a_mnemonic(op, words, target, junk).f[slot]
           = Kept(slot, Read(words, target, junk, row[k]))
<1> DEFINE val == Slotted(op, words, target, junk)
           v == Read(words, target, junk, row[k])
<1>1. assemble_a_mnemonic(op, words, target, junk).f = Cut(val @@ EntryOf(op).f)
  <2> HIDE DEF val
  <2>1. \A x, y : [op |-> x, f |-> y].f = y
    OBVIOUS
  <2> QED BY <2>1, Assembled, Zenon DEF val
<1>2. /\ k \in DOMAIN row /\ row[k].slot = slot
      /\ \A j \in DOMAIN row : row[j].slot = row[k].slot => j = k
  BY DEF Fills
<1>3. Has(val, row[k].slot, v)
  <2> HIDE DEF v
  <2> QED BY <1>2, SlotRead, Zenon DEF v
<1>4. Has(val, slot, v)
  BY <1>2, <1>3, Zenon
<1> HIDE DEF val, v
<1>5. Has(Cut(val @@ EntryOf(op).f), slot, Kept(slot, v))
  BY <1>4, FieldMade, Zenon
<1> QED BY <1>1, <1>5, Zenon DEF Has, v

\* No operand of the row goes to the slot.
Spares(row, slot) == \A k \in DOMAIN row : row[k].slot # slot

\* The field the table sets and no operand does.
LEMMA EntryField ==
  ASSUME NEW op, op \notin Shifts, NEW row, Has(Rows, op, row), NEW slot, Spares(row, slot),
         NEW v, Has(EntryOf(op).f, slot, v), NEW words, NEW target, NEW junk
  PROVE  assemble_a_mnemonic(op, words, target, junk).f[slot] = Kept(slot, v)
<1> DEFINE val == Slotted(op, words, target, junk)
<1>1. assemble_a_mnemonic(op, words, target, junk).f = Cut(val @@ EntryOf(op).f)
  <2> HIDE DEF val
  <2>1. \A x, y : [op |-> x, f |-> y].f = y
    OBVIOUS
  <2> QED BY <2>1, Assembled, Zenon DEF val
<1>2. Lacks(val, slot)
  <2>1. \A k \in DOMAIN Rows[op] : Rows[op][k].slot # slot
    BY Zenon DEF Has, Spares
  <2> QED BY <2>1, Zenon DEF Lacks, Slotted
<1> HIDE DEF val
<1>3. Has(val @@ EntryOf(op).f, slot, v)
  BY <1>2, TableRules, Zenon
<1>4. Cut(val @@ EntryOf(op).f)[slot] = Kept(slot, v)
  BY <1>3, Zenon DEF Has, Cut
<1> QED BY <1>1, <1>4, Zenon

\* A row that reads BI from an operand.
LEMMA ConditionRead ==
  ASSUME NEW op, op \notin Shifts, NEW row, Has(Rows, op, row), NEW k, Fills(row, k, "A"),
         NEW words, NEW target, NEW junk, Read(words, target, junk, row[k]) \in Int
  PROVE  assemble_a_mnemonic(op, words, target, junk).f["A"] \in 0 .. 31
<1> DEFINE v == Read(words, target, junk, row[k])
<1>1. assemble_a_mnemonic(op, words, target, junk).f["A"] = Kept("A", v)
  BY OperandField
<1>2. \A n : Kept("A", n) = n % 32
  BY SMT DEF Kept, SizeOf
<1> HIDE DEF v
<1>3. v % 32 \in 0 .. 31
  BY DEF v
<1> QED BY <1>1, <1>2, <1>3, Zenon

\* A condition register, read for the branch as or as the number of a bit.
LEMMA TestedRead ==
  ASSUME NEW op, op \notin Shifts, NEW as \in DOMAIN Offset \cup {"cr"},
         \/ Has(Rows, op, OnBit(as)) /\ WordsRead(op) = 2
         \/ Has(Rows, op, <<Reads("A", 1, as)>>) /\ WordsRead(op) = 1,
         NEW words, NEW target, NEW junk \in [Len(words) + 1 .. WordsRead(op) -> Junk],
         Len(words) \in Nat, 1 <= Len(words) => Value(as, words[1]) \in Int
  PROVE  assemble_a_mnemonic(op, words, target, junk).f["A"] \in 0 .. 31
<1> DEFINE made == assemble_a_mnemonic(op, words, target, junk)
<1>1. as # "branch"
  BY OffsetNames
<1>2. 1 <= WordsRead(op) /\ WordsRead(op) \in Nat
  <2>1. WordsRead(op) = 2 \/ WordsRead(op) = 1
    BY Zenon
  <2> QED BY <2>1
<1>3. Read(words, target, junk, Reads("A", 1, as)) \in Int
  BY <1>1, <1>2, ReadNumber, Zenon
<1>4. CASE Has(Rows, op, OnBit(as))
  <2> DEFINE row == OnBit(as)
  <2>1. Fills(row, 1, "A") /\ row[1] = Reads("A", 1, as)
    BY DEF OnBit, Reads, Fills
  <2>2. Has(Rows, op, row)
    BY <1>4
  <2> HIDE DEF row
  <2>3. Read(words, target, junk, row[1]) \in Int
    BY <1>3, <2>1, Zenon
  <2> QED BY <2>1, <2>2, <2>3, ConditionRead, Zenon
<1>5. CASE Has(Rows, op, <<Reads("A", 1, as)>>)
  <2> DEFINE row == <<Reads("A", 1, as)>>
  <2>1. Fills(row, 1, "A") /\ row[1] = Reads("A", 1, as)
    BY DEF Reads, Fills
  <2>2. Has(Rows, op, row)
    BY <1>5
  <2> HIDE DEF row
  <2>3. Read(words, target, junk, row[1]) \in Int
    BY <1>3, <2>1, Zenon
  <2> QED BY <2>1, <2>2, <2>3, ConditionRead, Zenon
<1> QED BY <1>4, <1>5

\* A branch that stands for bc, bca or bclr gets a number for BI.
LEMMA BranchCondition ==
  ASSUME NEW op \in ShortBranches \cup GeneralBranches, NEW words, NEW target,
         NEW junk \in [Len(words) + 1 .. WordsRead(op) -> Junk], NEW i, NEW addr,
         \/ words \in Seq(Operand)
         \/ op \in ShownBranchNames /\ words \in Seq(ShownWords(i, addr))
  PROVE  assemble_a_mnemonic(op, words, target, junk).f["A"] \in 0 .. 31
<1> DEFINE made == assemble_a_mnemonic(op, words, target, junk)
<1>1. op \notin Shifts
  BY OffsetNames DEF Shifts, OneAmount, TwoAmounts, ShortBranches, GeneralBranches
<1>2. Len(words) \in Nat
  OBVIOUS
<1>3. CASE op \in {"bdnz", "bdnzlr", "blr"}
  <2>1. Has(EntryOf(op).f, "A", 0)
    <3>1. \/ Has(Simplified, op, Entry("bc", "S" :> 16 @@ "A" :> 0))
          \/ Has(Simplified, op, Entry("bclr", "S" :> 16 @@ "A" :> 0))
          \/ Has(Simplified, op, Entry("bclr", "S" :> 20 @@ "A" :> 0))
      BY <1>3, ShortEntries, Zenon
    <3>2. \A name, e : Has(Simplified, op, Entry(name, e)) => EntryOf(op).f = e
      <4>1. \A name, e : Entry(name, e).f = e
        BY DEF Entry
      <4> QED BY <4>1, Zenon DEF Has, EntryOf
    <3>3. \A n : Has("S" :> n @@ "A" :> 0, "A", 0)
      BY TableRules, SMT
    <3> QED BY <3>1, <3>2, <3>3, Zenon
  <2>2. \E row : Has(Rows, op, row) /\ row \in {Counting, <<>>}
    BY <1>3, BranchRows, Zenon
  <2>3. PICK row : Has(Rows, op, row) /\ row \in {Counting, <<>>}
    BY <2>2, Zenon
  <2>4. Spares(row, "A")
    BY <2>3 DEF Counting, Reads, Spares
  <2>5. made.f["A"] = Kept("A", 0)
    <3>1. Has(Rows, op, row)
      BY <2>3, Zenon
    <3> QED BY <1>1, <2>1, <2>4, <3>1, EntryField, SMT
  <2>6. Kept("A", 0) = 0
    BY SMT DEF Kept, SizeOf
  <2>7. 0 \in 0 .. 31
    OBVIOUS
  <2> QED BY <2>5, <2>6, <2>7, Zenon
<1>4. CASE op \in GeneralBranches
  <2>0. words \in Seq(Operand)
    BY <1>4, OffsetNames DEF GeneralBranches, ShownBranchNames
  <2>1. ASSUME 2 <= WordsRead(op), WordsRead(op) \in Nat
        PROVE  Read(words, target, junk, Imm("A", 2)) \in Int
    <3>1. 2 <= Len(words) => Value("immediate", words[2]) \in Int
      <4>1. 2 <= Len(words) => words[2] \in Operand
        BY <2>0
      <4> QED BY <4>1, Values, OperandValues, Zenon
    <3> QED BY <1>2, <2>1, <3>1, ReadNumber DEF Imm
  <2>2. CASE op \in {"bc", "bca"}
    <3> DEFINE row == General
    <3>1. Has(Rows, op, row) /\ WordsRead(op) = 3
      BY <2>2, BranchRows, WordsOfBranches, Zenon
    <3>2. Fills(row, 2, "A") /\ row[2] = Imm("A", 2)
      BY DEF General, Imm, Reads, Fills
    <3> HIDE DEF row
    <3>3. Read(words, target, junk, row[2]) \in Int
      BY <2>1, <3>1, <3>2
    <3> QED BY <1>1, <3>1, <3>2, <3>3, ConditionRead, Zenon
  <2>3. CASE op = "bclr"
    <3> DEFINE row == <<Imm("S", 1), Imm("A", 2)>>
    <3>1. Has(Rows, op, row)
      BY <2>3, ReturnRow
    <3>2. /\ Fills(row, 2, "A") /\ row[2] = Imm("A", 2) /\ 2 \in DOMAIN row /\ row[2].word = 2
          /\ \A j \in DOMAIN row : row[j].word \in Int /\ row[j].word <= 2
      BY DEF Imm, Reads, Fills
    <3> HIDE DEF row
    <3>3. WordsRead(op) = 2
      BY <3>1, <3>2, WordsReadIs
    <3>4. Read(words, target, junk, row[2]) \in Int
      BY <2>1, <3>2, <3>3
    <3> QED BY <1>1, <3>1, <3>2, <3>4, ConditionRead, Zenon
  <2> QED BY <1>4, <2>2, <2>3 DEF GeneralBranches
<1>5. CASE op \in {"bt", "bta", "btlr"}
  <2>1. words \in Seq(Operand)
    BY <1>5, OffsetNames DEF ShownBranchNames
  <2>2. \/ Has(Rows, op, OnBit("cr")) /\ WordsRead(op) = 2
        \/ Has(Rows, op, <<Reads("A", 1, "cr")>>) /\ WordsRead(op) = 1
    BY <1>5, BranchRows, WordsOfBranches, Zenon
  <2>3. 1 <= Len(words) => words[1] \in Operand
    BY <2>1
  <2>4. 1 <= Len(words) => Value("cr", words[1]) \in Int
    BY <2>3, Values, OperandValues, Zenon
  <2>5. "cr" \in DOMAIN Offset \cup {"cr"}
    OBVIOUS
  <2> QED BY <1>1, <1>2, <2>2, <2>4, <2>5, TestedRead, Zenon
<1>6. CASE op \in DOMAIN Offset \cup {"beqa", "beqlr"}
  <2>1. \E as \in DOMAIN Offset :
          \/ Has(Rows, op, OnBit(as)) /\ WordsRead(op) = 2
          \/ Has(Rows, op, <<Reads("A", 1, as)>>) /\ WordsRead(op) = 1
    <3>1. "beq" \in DOMAIN Offset
      BY OffsetNames
    <3> QED BY <1>6, <3>1, BranchRows, WordsOfBranches, Zenon
  <2>2. PICK as \in DOMAIN Offset :
          \/ Has(Rows, op, OnBit(as)) /\ WordsRead(op) = 2
          \/ Has(Rows, op, <<Reads("A", 1, as)>>) /\ WordsRead(op) = 1
    BY <2>1, Zenon
  <2>3. ASSUME 1 <= Len(words)
        PROVE  Value(as, words[1]) \in Int
    <3> DEFINE r == pull_register(words[1])
               o == Offset[as]
    <3>1. words \in Seq(Operand) \/ words \in Seq(ShownWords(i, addr))
      OBVIOUS
    <3>2. words[1] \in Operand \/ words[1] \in ShownWords(i, addr)
      BY <2>3, <3>1
    <3>3. r \in Int
      BY <3>2, OperandValues, ShownRegisters, Zenon
    <3>4. o \in Int
      <4>1. \A x \in DOMAIN Offset : x = "blt" \/ x = "bgt" \/ x = "beq" \/ x = "bso"
        BY OffsetNames
      <4>2. Offset[as] \in {0, 1, 2, 3}
        BY <4>1, BranchTables, Zenon DEF Has
      <4>3. {0, 1, 2, 3} \subseteq Int
        OBVIOUS
      <4> QED BY <4>2, <4>3, Zenon
    <3>5. Value(as, words[1]) = 4 * r + o
      BY Values, Zenon
    <3> HIDE DEF r, o
    <3>6. 4 * r + o \in Int
      BY <3>3, <3>4
    <3> QED BY <3>5, <3>6, Zenon
  <2>4. as \in DOMAIN Offset \cup {"cr"}
    OBVIOUS
  <2> QED BY <1>1, <1>2, <2>2, <2>3, <2>4, TestedRead, Zenon
<1> QED BY <1>3, <1>4, <1>5, <1>6, Zenon DEF ShortBranches

LEMMA MadeInstruction ==
  ASSUME NEW op, NEW words, Legal(op, words), Instruction(mem[at]), NEW target,
         NEW junk \in [Len(words) + 1 .. WordsRead(op) -> Junk]
  PROVE  Instruction(assemble_a_mnemonic(op, words, target, junk))
<1> DEFINE i == assemble_a_mnemonic(op, words, target, junk)
<1>1. op \in DOMAIN Rows
  BY LegalWords, Zenon
<1>2. i.op = EntryOf(op).op
  <2>1. \A a, b : [op |-> a, f |-> b].op = a
    OBVIOUS
  <2> QED BY <2>1, Assembled, Zenon
<1>3. i.op \in Opcodes
  BY <1>1, <1>2, Zenon DEF Opcodes
<1>4. ASSUME i.op \in GeneralBranches
      PROVE  i.f["A"] \in 0 .. 31
  <2>1. op \in ShortBranches \cup GeneralBranches
    <3>1. CASE op \in AnyBranch \ ShortBranches
      <4>1. EntryOf(op).op = op
        <5>1. \A e : Entry(op, e).op = op
          BY DEF Entry
        <5> QED BY <1>1, <3>1, <5>1, EntryOps, Zenon
      <4> QED BY <1>2, <1>4, <4>1, Zenon
    <3>2. CASE op \notin AnyBranch
      <4>1. op \notin ShortBranches
        BY <3>2, Zenon DEF AnyBranch
      <4>2. EntryOf(op).op \in PlainOpcodes \cup (DOMAIN Rows \ AnyBranch)
        BY <1>1, <3>2, <4>1, EntryOps, Zenon
      <4>3. \A x \in GeneralBranches : x \in AnyBranch /\ x \notin PlainOpcodes
        BY DEF GeneralBranches, AnyBranch, PlainOpcodes
      <4> QED BY <1>2, <1>4, <4>2, <4>3, Zenon
    <3> QED BY <3>1, <3>2, Zenon
  <2>2. \/ words \in Seq(Operand)
        \/ op \in ShownBranchNames /\ words \in Seq(ShownWords(mem[at], at))
    <3>1. op \in AnyBranch /\ op \notin {"b", "ba"}
      BY <2>1, OffsetNames DEF AnyBranch, ShortBranches, GeneralBranches
    <3> QED BY <3>1, LegalWords, Zenon
  <2> QED BY <2>1, <2>2, BranchCondition, Zenon
<1> QED BY <1>3, <1>4, Zenon DEF Instruction, GeneralBranches

-----------------------------------------------------------------------------
(* Where a branch goes.                                                    *)

\* Operand k of the row is the target, and the only one.
Aims(row, k, slot) ==
  /\ Fills(row, k, slot) /\ row[k].as = "branch" /\ row[k].word \in Nat /\ 1 <= row[k].word
  /\ \A j \in DOMAIN row : row[j].as = "branch" => j = k

LEMMA AimingRows ==
  ASSUME NEW op \in BranchOps
  PROVE  \E row, k : Has(Rows, op, row) /\ Aims(row, k, FieldOf(op))
<1>1. Aims(Direct, 1, "LI") /\ Aims(Counting, 1, "BD")
  BY DEF Aims, Fills, Direct, Counting, Reads
<1>2. Aims(General, 3, "BD")
  BY DEF Aims, Fills, General, Imm, Reads
<1>3. ASSUME NEW as, as # "branch"
      PROVE  Aims(OnBit(as), 2, "BD")
  <2> DEFINE row == OnBit(as)
  <2>1. row[1] = Reads("A", 1, as) /\ row[2] = Reads("BD", 2, "branch")
    BY DEF OnBit
  <2>2. 2 \in DOMAIN row /\ \A j \in DOMAIN row : j = 1 \/ j = 2
    BY DEF OnBit
  <2>3. /\ row[1].as = as /\ row[2].as = "branch"
        /\ row[1].slot = "A" /\ row[2].slot = "BD" /\ row[2].word = 2
    BY <2>1 DEF Reads
  <2> HIDE DEF row
  <2>4. "A" # "BD" /\ 2 \in Nat /\ 1 <= 2
    OBVIOUS
  <2>5. Aims(row, 2, "BD")
    BY <1>3, <2>2, <2>3, <2>4, Zenon DEF Aims, Fills
  <2> QED BY <2>5 DEF row
<1>4. \A as \in DOMAIN Offset \cup {"cr"} : as # "branch"
  BY OffsetNames
<1>5. "beq" \in DOMAIN Offset
  BY OffsetNames
<1>6. CASE op \in {"b", "ba"}
  BY <1>1, <1>6, BranchRows, Zenon DEF FieldOf
<1>7. CASE op \notin {"b", "ba"}
  <2>1. \/ op = "bdnz" \/ op \in {"bc", "bca"} \/ op \in {"bt", "bta"}
        \/ op = "beqa" \/ op \in DOMAIN Offset
    BY <1>7, Zenon DEF BranchOps
  <2>2. Has(Rows, op, Counting) \/ Has(Rows, op, General)
        \/ \E as \in DOMAIN Offset \cup {"cr"} : Has(Rows, op, OnBit(as))
    BY <1>5, <2>1, BranchRows, Zenon
  <2> QED BY <1>1, <1>2, <1>3, <1>4, <1>7, <2>2, Zenon DEF FieldOf
<1> QED BY <1>6, <1>7

LEMMA TargetRow ==
  ASSUME NEW op \in DOMAIN Rows, NEW words, NEW w \in Targets(op, words)
  PROVE  /\ op \in BranchOps /\ Targets(op, words) = {w}
         /\ \E row, k : /\ Has(Rows, op, row) /\ Aims(row, k, FieldOf(op))
                        /\ row[k].word <= Len(words) /\ w = words[row[k].word]
<1>1. PICK j \in DOMAIN Rows[op] :
         Rows[op][j].as = "branch" /\ Rows[op][j].word <= Len(words) /\ w = words[Rows[op][j].word]
  BY Zenon DEF Targets
<1>2. op \in BranchOps
  BY <1>1, OnlyBranches, Zenon DEF PlainRow
<1>3. \E row : Rows[op] = row /\ \E k : Aims(row, k, FieldOf(op))
  BY <1>2, AimingRows, Zenon DEF Has
<1>4. PICK k : Aims(Rows[op], k, FieldOf(op))
  BY <1>3, Zenon
<1>5. j = k
  BY <1>1, <1>4, Zenon DEF Aims
<1>6. Targets(op, words) = {w}
  <2>1. \A x \in Targets(op, words) : x = w
    BY <1>1, <1>4, <1>5, Zenon DEF Targets, Aims
  <2> QED BY <2>1
<1> QED BY <1>1, <1>2, <1>4, <1>5, <1>6, Zenon DEF Has

\* The opcodes of the branches with a target.
LEMMA AimingOpcodes ==
  ASSUME NEW op \in BranchOps
  PROVE  EntryOf(op).op \in {"ba", "bca"} <=> op \in DOMAIN Absolute
<1>1. ASSUME NEW n, NEW e, Has(Simplified, op, Entry(n, e))
      PROVE  EntryOf(op).op = n
  <2>1. Entry(n, e).op = n
    BY DEF Entry
  <2> QED BY <1>1, <2>1, Zenon DEF Has, EntryOf
<1>2. CASE op \in DOMAIN Offset \cup {"bt", "bdnz"}
  <2>1. EntryOf(op).op = "bc"
    BY <1>1, <1>2, ShortEntries, Zenon
  <2>2. op \notin DOMAIN Absolute
    BY <1>2, OffsetNames, BranchTables DEF Lacks
  <2>3. "bc" \notin {"ba", "bca"}
    OBVIOUS
  <2> QED BY <2>1, <2>2, <2>3, Zenon
<1>3. CASE op \in {"bta", "beqa"}
  <2>1. EntryOf(op).op = "bca"
    BY <1>1, <1>3, ShortEntries, Zenon
  <2>2. op \in DOMAIN Absolute
    BY <1>3, BranchTables, Zenon DEF Has
  <2> QED BY <2>1, <2>2, Zenon
<1>4. CASE op \in {"b", "ba", "bc", "bca"}
  <2>1. op \in DOMAIN Rows
    BY <1>4, BranchRows, Zenon DEF Has
  <2>2. op \in AnyBranch /\ op \notin ShortBranches
    BY <1>4, OffsetNames DEF AnyBranch, ShortBranches, GeneralBranches
  <2>3. EntryOf(op).op = op
    <3>1. Entry(op, none).op = op
      BY DEF Entry
    <3> QED BY <2>1, <2>2, <3>1, EntryOps, Zenon
  <2>4. CASE op \in {"ba", "bca"}
    <3>1. op \in DOMAIN Absolute
      BY <2>4, BranchTables, Zenon DEF Has
    <3> QED BY <2>3, <2>4, <3>1, Zenon
  <2>5. CASE op \in {"b", "bc"}
    <3>1. op \notin DOMAIN Absolute
      BY <2>5, BranchTables, SMT DEF Lacks
    <3>2. op \notin {"ba", "bca"}
      BY <2>5
    <3> QED BY <2>3, <3>1, <3>2, Zenon
  <2> QED BY <1>4, <2>4, <2>5
<1> QED BY <1>2, <1>3, <1>4, Zenon DEF BranchOps

\* The opcodes with a field as long as LI.
LEMMA LongOpcodes ==
  ASSUME NEW op \in BranchOps
  PROVE  FieldOf(EntryOf(op).op) = FieldOf(op)
<1>1. ASSUME NEW n, NEW e, Has(Simplified, op, Entry(n, e))
      PROVE  EntryOf(op).op = n
  <2>1. Entry(n, e).op = n
    BY DEF Entry
  <2> QED BY <1>1, <2>1, Zenon DEF Has, EntryOf
<1>2. CASE op \in DOMAIN Offset \cup {"bt", "bdnz", "bta", "beqa"}
  <2>1. EntryOf(op).op \in {"bc", "bca"}
    BY <1>1, <1>2, ShortEntries, Zenon
  <2>2. op \notin {"b", "ba"}
    BY <1>2, OffsetNames
  <2> QED BY <2>1, <2>2 DEF FieldOf
<1>3. CASE op \in {"b", "ba", "bc", "bca"}
  <2>1. op \in DOMAIN Rows
    BY <1>3, BranchRows, Zenon DEF Has
  <2>2. op \in AnyBranch /\ op \notin ShortBranches
    BY <1>3, OffsetNames DEF AnyBranch, ShortBranches, GeneralBranches
  <2>3. Entry(op, none).op = op
    BY DEF Entry
  <2> QED BY <2>1, <2>2, <2>3, EntryOps, Zenon
<1> QED BY <1>2, <1>3, Zenon DEF BranchOps

Fits(a) == a \in 0 .. SPACE - 1

\* What BD and LI hold divides the addresses there are.
LEMMA WholeTurns ==
  ASSUME NEW n \in Nat, n % 67108864 = 0
  PROVE  \E k \in Nat : n = 67108864 * k
<1>1. n = 67108864 * (n \div 67108864) /\ n \div 67108864 \in Nat
  BY SMT
<1> QED BY <1>1, SMT

LEMMA LowBits ==
  ASSUME NEW t \in Int, t % 4 = 0, NEW k \in Int
  PROVE  /\ (t % 67108864) % 4 = 0 /\ (t % 65536) % 4 = 0
         /\ t % 67108864 = (t + 67108864 * k) % 67108864
         /\ t % 65536 = (t + 67108864 * k) % 65536
<1>1. (t % 67108864) % 4 = 0
  BY SMT
<1>2. (t % 65536) % 4 = 0
  BY SMT
<1>3. t % 67108864 = (t + 67108864 * k) % 67108864
  BY SMT
<1>4. t % 65536 = (t + 67108864 * k) % 65536
  BY SMT
<1> QED BY <1>1, <1>2, <1>3, <1>4, SMT

\* The value with a sign of what is left of one in its range.
LEMMA SignedAgain ==
  ASSUME NEW e \in Int
  PROVE  /\ -33554432 <= e /\ e < 33554432 => Signed(e % 67108864, 67108864) = e
         /\ -32768 <= e /\ e < 32768 => Signed(e % 65536, 65536) = e
<1>1. -33554432 <= e /\ e < 33554432
        => e % 67108864 = IF e < 0 THEN e + 67108864 ELSE e
  BY SMT
<1>2. -32768 <= e /\ e < 32768 => e % 65536 = IF e < 0 THEN e + 65536 ELSE e
  BY SMT
<1>3. 67108864 \div 2 = 33554432 /\ 65536 \div 2 = 32768
  BY SMT
<1>4. -33554432 <= e /\ e < 33554432 => Signed(e % 67108864, 67108864) = e
  BY <1>1, <1>3, SMT DEF Signed
<1>5. -32768 <= e /\ e < 32768 => Signed(e % 65536, 65536) = e
  BY <1>2, <1>3, SMT DEF Signed
<1> QED BY <1>4, <1>5, SMT

\* What a field keeps of a number in its reach is that number, turns apart.
LEMMA KeptExactly ==
  ASSUME NEW slot \in {"LI", "BD"}, NEW t \in Int, t % 4 = 0, NEW turn \in {-SPACE, 0, SPACE},
         -(SizeOf(slot) \div 2) <= t + turn, t + turn < SizeOf(slot) \div 2
  PROVE  Signed(Kept(slot, t), SizeOf(slot)) = t + turn
<1>1. SPACE \in Nat /\ SPACE % 67108864 = 0
  BY AddressAssumption, SMT DEF SizeOf
<1>2. PICK many \in Nat : SPACE = 67108864 * many
  BY <1>1, WholeTurns, SMT
<1>3. PICK k \in Int : turn = 67108864 * k
  <2> DEFINE T(k) == 67108864 * k
  <2>1. turn = T(-many) \/ turn = T(0) \/ turn = T(many)
    BY <1>2, SMT
  <2>2. -many \in Int /\ 0 \in Int /\ many \in Int
    BY <1>2, SMT
  <2>3. \E k \in Int : turn = T(k)
    <3> HIDE DEF T
    <3> QED BY <2>1, <2>2, Zenon
  <2> QED BY <2>3, SMT
<1>4. t + turn \in Int
  BY <1>3, SMT
<1>5. CASE slot = "LI"
  <2>1. SizeOf(slot) = 67108864 /\ SizeOf(slot) \div 2 = 33554432
    BY <1>5, SMT DEF SizeOf
  <2>2. Kept(slot, t) = (t % 67108864) - ((t % 67108864) % 4)
    BY <1>5, <2>1, SMT DEF Kept
  <2>3. Kept(slot, t) = (t + turn) % 67108864
    BY <1>3, <2>2, LowBits, SMT
  <2>4. Signed((t + turn) % 67108864, 67108864) = t + turn
    BY <1>4, <2>1, SignedAgain, SMT
  <2> QED BY <2>1, <2>3, <2>4, SMT
<1>6. CASE slot = "BD"
  <2>1. SizeOf(slot) = 65536 /\ SizeOf(slot) \div 2 = 32768
    BY <1>6, SMT DEF SizeOf
  <2>2. Kept(slot, t) = (t % 65536) - ((t % 65536) % 4)
    BY <1>6, <2>1, SMT DEF Kept
  <2>3. Kept(slot, t) = (t + turn) % 65536
    BY <1>3, <2>2, LowBits, SMT
  <2>4. Signed((t + turn) % 65536, 65536) = t + turn
    BY <1>4, <2>1, SignedAgain, SMT
  <2> QED BY <2>1, <2>3, <2>4, SMT
<1> QED BY <1>5, <1>6

\* No field reaches further than there are addresses.
LEMMA HalfFits ==
  ASSUME NEW slot \in {"LI", "BD"}
  PROVE  /\ SizeOf(slot) \div 2 \in Int /\ SizeOf(slot) \div 2 < SPACE
         /\ SPACE \in Nat
<1>1. SPACE \in Nat /\ SPACE # 0 /\ SPACE % 67108864 = 0
  BY AddressAssumption, SMT DEF SizeOf
<1>2. SPACE >= 67108864
  BY <1>1, WholeTurns, SMT
<1> QED BY <1>1, <1>2, SMT DEF SizeOf

\* From an address, or from 0, the number leads to the label.
LEMMA ThereAndBack ==
  ASSUME SPACE \in Nat, NEW a, NEW b, Fits(a), Fits(b), NEW turn \in {-SPACE, 0, SPACE}
  PROVE  /\ Wrapped(a + (b - a + turn)) = b
         /\ b + turn < SPACE => Wrapped(b + turn) = b
<1>1. a \in Int /\ b \in Int /\ 0 <= b /\ b < SPACE
  BY DEF Fits
<1>2. a + (b - a + turn) = b + turn
  BY <1>1
<1>3. Wrapped(b + turn) = b
  BY <1>1 DEF Wrapped
<1> QED BY <1>2, <1>3

\* An instruction made of a label in its reach goes where the label is.
LEMMA TargetIs ==
  ASSUME NEW op \in DOMAIN Rows, NEW words, Len(words) \in Nat, NEW w \in Targets(op, words),
         w.k = "label", NEW answer, NEW junk, Fits(at),
         Fits(Given(op, words, answer, w)),
         InReach(assemble_a_mnemonic(op, words, TargetRead(op, words, answer), junk), at,
                 Given(op, words, answer, w))
  PROVE  Goes(assemble_a_mnemonic(op, words, TargetRead(op, words, answer), junk), at)
           = Given(op, words, answer, w)
<1> DEFINE b == Given(op, words, answer, w)
           t == TargetRead(op, words, answer)
           i == assemble_a_mnemonic(op, words, t, junk)
           slot == FieldOf(op)
<1>1. PICK row, k : Has(Rows, op, row) /\ Aims(row, k, slot) /\ row[k].word <= Len(words)
  BY TargetRow, Zenon
<1>2. op \in BranchOps /\ Targets(op, words) = {w}
  BY TargetRow, Zenon
<1>3. t = IF op \in DOMAIN Absolute THEN b ELSE b - at
  <2>1. Targets(op, words) # {} /\ (CHOOSE x \in Targets(op, words) : TRUE) = w
    BY <1>2
  <2>2. t = pull_immediate_branch(op, w, b)
    BY <2>1, Zenon DEF TargetRead
  <2> QED BY <2>2, Zenon DEF pull_immediate_branch
<1>4. i.f[slot] = Kept(slot, t)
  <2>1. op \notin Shifts
    BY <1>2, OffsetNames DEF Shifts, OneAmount, TwoAmounts, BranchOps
  <2>2. Fills(row, k, slot)
    BY <1>1, Zenon DEF Aims
  <2>3. i.f[slot] = Kept(slot, Read(words, t, junk, row[k]))
    <3> HIDE DEF t, slot
    <3> QED BY <1>1, <2>1, <2>2, OperandField
  <2>4. ~ (row[k].word > Len(words))
    BY <1>1 DEF Aims
  <2>5. Read(words, t, junk, row[k]) = t
    BY <1>1, <2>4, Zenon DEF Read, Aims
  <2> QED BY <2>3, <2>5, Zenon
<1>5. i.op = EntryOf(op).op
  <2>1. \A x, y : [op |-> x, f |-> y].op = x
    OBVIOUS
  <2> QED BY <2>1, Assembled, Zenon
<1>6. i.op \in {"ba", "bca"} <=> op \in DOMAIN Absolute
  BY <1>2, <1>5, AimingOpcodes, Zenon
<1>7. FieldOf(i.op) = slot /\ slot \in {"LI", "BD"}
  BY <1>2, <1>5, LongOpcodes DEF FieldOf
<1>8. t = IF i.op \in {"ba", "bca"} THEN b ELSE b - at
  BY <1>3, <1>6, Zenon
<1>9. Fits(b) /\ InReach(i, at, b)
  OBVIOUS
<1> HIDE DEF i, t, b, slot
<1>10. /\ t \in Int /\ t % 4 = 0
       /\ \E turn \in {-SPACE, 0, SPACE} :
            -(SizeOf(slot) \div 2) <= t + turn /\ t + turn < SizeOf(slot) \div 2
  <2>1. SPACE \in Nat
    BY <1>7, HalfFits, Zenon
  <2>2. t \in Int
    BY <1>8, <1>9, <2>1 DEF Fits
  <2>3. /\ t % 4 = 0
        /\ \E turn \in {-SPACE, 0, SPACE} :
             -(SizeOf(slot) \div 2) <= t + turn /\ t + turn < SizeOf(slot) \div 2
    BY <1>7, <1>8, <1>9, Zenon DEF InReach
  <2> QED BY <2>2, <2>3
<1>11. PICK turn \in {-SPACE, 0, SPACE} :
         -(SizeOf(slot) \div 2) <= t + turn /\ t + turn < SizeOf(slot) \div 2
  BY <1>10, Zenon
<1>12. Signed(i.f[slot], SizeOf(slot)) = t + turn
  BY <1>4, <1>7, <1>10, <1>11, KeptExactly, Zenon
<1>13. Goes(i, at) = Wrapped(IF i.op \in {"ba", "bca"} THEN t + turn ELSE at + (t + turn))
  BY <1>7, <1>12, Zenon DEF Goes
<1>14. CASE i.op \in {"ba", "bca"}
  <2>1. t = b
    BY <1>8, <1>14, Zenon
  <2>2. /\ SizeOf(slot) \div 2 \in Int /\ SizeOf(slot) \div 2 < SPACE
        /\ SPACE \in Nat
    BY <1>7, HalfFits
  <2>3. b + turn < SPACE
    <3>1. t + turn \in Int
      BY <1>10, <2>2
    <3> QED BY <1>11, <2>1, <2>2, <3>1
  <2>4. Wrapped(b + turn) = b
    BY <1>9, <2>2, <2>3, ThereAndBack
  <2> QED BY <1>13, <1>14, <2>1, <2>4, Zenon DEF i, t, b
<1>15. CASE i.op \notin {"ba", "bca"}
  <2>1. t = b - at
    BY <1>8, <1>15, Zenon
  <2>2. Wrapped(at + (b - at + turn)) = b
    BY <1>7, <1>9, HalfFits, ThereAndBack, Zenon
  <2> QED BY <1>13, <1>15, <2>1, <2>2, Zenon DEF i, t, b
<1> QED BY <1>14, <1>15

-----------------------------------------------------------------------------
(* The labels of what was typed.                                           *)

\* A branch goes to an address if that is in its reach.
Arrives(i, a, b) == InReach(i, a, b) => Goes(i, a) = b

\* It goes where the table has its label, or its label is behind the table.
Reached(l, i, a, w) ==
  /\ w.n # nothing
  /\ \/ KnownIn(l, w.n) /\ Arrives(i, a, l[SearchIn(l, w.n)].address)
     \/ SearchIn(l, w.n) = MAXBRANCHLABEL

TargetsAt(a) == IF source[a].op = "" THEN {} ELSE Targets(source[a].op, source[a].f)

Aimed_at(a) == \A w \in TargetsAt(a) : w.k = "label" => Reached(labels, mem[a], a, w)

LabelsInv ==
  /\ Placed /\ DOMAIN labels = Slots
  /\ \A s \in Slots : Fits(labels[s].address)
  /\ \A a \in Mapped : Instruction(mem[a]) /\ Aimed_at(a)

\* One entry changes at most, that was empty or is behind the table.
OneNew(l, m) ==
  \E t \in Slots : /\ t = MAXBRANCHLABEL \/ l[t].name = nothing
                   /\ \A s \in Slots : s # t => m[s] = l[s]

LEMMA ReachedStays ==
  ASSUME NEW l, NEW m, OneNew(l, m), NEW i, NEW a, NEW w, Reached(l, i, a, w)
  PROVE  Reached(m, i, a, w)
<1>1. PICK t \in Slots : /\ t = MAXBRANCHLABEL \/ l[t].name = nothing
                         /\ \A s \in Slots : s # t => m[s] = l[s]
  BY Zenon DEF OneNew
<1>2. w.n # nothing
  BY Zenon DEF Reached
<1>3. /\ KnownIn(l, w.n) => /\ SearchIn(m, w.n) = SearchIn(l, w.n) /\ KnownIn(m, w.n)
                             /\ m[SearchIn(m, w.n)] = l[SearchIn(l, w.n)]
      /\ SearchIn(l, w.n) = MAXBRANCHLABEL => SearchIn(m, w.n) = MAXBRANCHLABEL
  BY <1>1, <1>2, SearchStays
<1> QED BY <1>3, Zenon DEF Reached

\* The operand of a line that is a label has a name.
LEMMA LabelNamed ==
  ASSUME NEW op, NEW words, Legal(op, words), Instruction(mem[at]),
         NEW w \in Targets(op, words), w.k = "label"
  PROVE  op \in DOMAIN Rows /\ Len(words) \in Nat /\ w.n # nothing
<1>1. op \in DOMAIN Rows
  BY LegalWords, Zenon
<1>2. op \in AnyBranch
  <2>1. op \in BranchOps
    BY <1>1, TargetRow, Zenon
  <2> QED BY <2>1, Zenon DEF BranchOps, AnyBranch, ShortBranches, GeneralBranches
<1>3. words \in Seq(Operand) \/ words \in Seq(ShownWords(mem[at], at))
  BY <1>2, LegalWords, Zenon
<1>4. Len(words) \in Nat
  BY <1>3
<1>5. \E k \in 1 .. Len(words) : w = words[k]
  <2>1. PICK row, k : /\ Has(Rows, op, row) /\ Aims(row, k, FieldOf(op))
                      /\ row[k].word <= Len(words) /\ w = words[row[k].word]
    <3>1. \E row, k : /\ Has(Rows, op, row) /\ Aims(row, k, FieldOf(op))
                      /\ row[k].word <= Len(words) /\ w = words[row[k].word]
      BY <1>1, TargetRow
    <3> QED BY <3>1, Zenon
  <2>2. row[k].word \in 1 .. Len(words)
    BY <1>4, <2>1 DEF Aims
  <2> QED BY <2>1, <2>2, Zenon
<1>6. w \in Operand \/ w \in ShownWords(mem[at], at)
  BY <1>3, <1>5
<1>7. w \in Operand
  BY <1>6, ShownRegisters, Zenon
<1>8. w.n # nothing
  BY <1>7, Zenon DEF Operand
<1> QED BY <1>1, <1>4, <1>8

\* Entering a line makes one entry at most, that of the label asked for.
LEMMA LabelsEntered ==
  ASSUME NEW op \in DOMAIN Rows, NEW words, NEW answer, NEW junk, Entered(op, words, answer, junk)
  PROVE  /\ OneNew(labels, labels')
         /\ Fits(answer) /\ (\A s \in Slots : Fits(labels[s].address))
              => \A s \in Slots : Fits(labels'[s].address)
         /\ \A w \in Asked(op, words) : labels'[Search(w.n)] = [name |-> w.n, address |-> answer]
<1> DEFINE U == Asked(op, words)
           entry == [name |-> (CHOOSE w \in U : TRUE).n, address |-> answer]
<1>1. labels' = [s \in Slots |-> IF \E w \in U : s = Search(w.n) THEN entry ELSE labels[s]]
  BY Zenon DEF Entered
<1>2. \A s \in Slots : labels'[s] = IF \E w \in U : s = Search(w.n) THEN entry ELSE labels[s]
  <2> HIDE DEF U, entry
  <2> QED BY <1>1, Zenon
<1>3. \A w \in U : U = {w} /\ ~ Known(w.n)
  <2>1. \A w \in U : w \in Targets(op, words) /\ ~ Known(w.n)
    BY Zenon DEF Asked
  <2>2. \A w \in U : Targets(op, words) = {w}
    BY <2>1, TargetRow, Zenon
  <2>3. \A x \in U : x \in Targets(op, words)
    BY <2>1, Zenon
  <2> HIDE DEF U
  <2>4. \A w \in U : U = {w}
    BY <2>2, <2>3
  <2> QED BY <2>1, <2>4, Zenon
<1>4. \A w \in U : entry = [name |-> w.n, address |-> answer]
  <2> SUFFICES ASSUME NEW w \in U
               PROVE  (CHOOSE x \in U : TRUE).n = w.n
    BY Zenon
  <2>1. U = {w}
    BY <1>3, Zenon
  <2> HIDE DEF U
  <2>2. (CHOOSE x \in U : TRUE) = w
    BY <2>1
  <2> QED BY <2>2, Zenon
<1>5. \A w \in U : Search(w.n) \in Slots /\ Search(w.n) = SearchIn(labels, w.n)
  <2>1. \A n : Search(n) = SearchIn(labels, n)
    BY Zenon DEF Search, SearchIn
  <2> QED BY <2>1, SearchIs, Zenon
<1>6. \A w \in U : labels'[Search(w.n)] = [name |-> w.n, address |-> answer]
  <2> HIDE DEF U, entry
  <2> QED BY <1>2, <1>4, <1>5, Zenon
<1>7. OneNew(labels, labels')
  <2>1. CASE U = {}
    <3> HIDE DEF U, entry
    <3>1. \A s \in Slots : labels'[s] = labels[s]
      BY <1>2, <2>1
    <3>2. MAXBRANCHLABEL \in Slots
      BY LabelAssumption DEF Slots
    <3> QED BY <3>1, <3>2, Zenon DEF OneNew
  <2>2. ASSUME NEW w \in U
        PROVE  OneNew(labels, labels')
    <3> DEFINE t == Search(w.n)
    <3>1. t \in Slots
      BY <1>5, Zenon
    <3>2. t = MAXBRANCHLABEL \/ labels[t].name = nothing
      <4>1. t = MAXBRANCHLABEL \/ labels[t].name \in {nothing, w.n}
        BY <1>5, SearchIs, Zenon
      <4>2. t = MAXBRANCHLABEL \/ labels[t].name # w.n
        BY <1>3, Zenon DEF Known
      <4> QED BY <4>1, <4>2, Zenon
    <3>3. \A s \in Slots : s # t => labels'[s] = labels[s]
      <4>1. \A s \in Slots : (\E x \in U : s = Search(x.n)) => s = t
        <5>1. U = {w}
          BY <1>3, Zenon
        <5> HIDE DEF U
        <5>2. \A x \in U : x = w
          BY <5>1
        <5> QED BY <5>2, Zenon
      <4> HIDE DEF U, t, entry
      <4> QED BY <1>2, <4>1, Zenon
    <3> HIDE DEF t
    <3> QED BY <3>1, <3>2, <3>3, Zenon DEF OneNew
  <2> HIDE DEF U
  <2> QED BY <2>1, <2>2
<1>8. ASSUME Fits(answer), \A s \in Slots : Fits(labels[s].address), NEW s \in Slots
      PROVE  Fits(labels'[s].address)
  <2>1. entry.address = answer
    OBVIOUS
  <2> HIDE DEF U, entry
  <2> QED BY <1>2, <1>8, <2>1, Zenon
<1> QED BY <1>6, <1>7, <1>8, Zenon

LEMMA LabelsStep ==
  ASSUME LabelsInv, [Next]_vars
  PROVE  LabelsInv'
<1> USE DEF LabelsInv
<1>1. Placed /\ Placed'
  BY PlacedStep
<1>2. \A a \in Mapped \cup Answers : Fits(a)
  BY AddressAssumption DEF Fits
<1>3. ASSUME OneNew(labels, labels'), NEW a \in Mapped, mem'[a] = mem[a], source'[a] = source[a]
      PROVE  Instruction(mem[a])' /\ Aimed_at(a)'
  <2>1. \A w : Reached(labels, mem[a], a, w) => Reached(labels', mem[a], a, w)
    BY <1>3, ReachedStays, Zenon
  <2> QED BY <1>3, <2>1, Zenon DEF Aimed_at, TargetsAt
<1>4. ASSUME labels' = labels, mem' = mem, source' = source
      PROVE  LabelsInv'
  <2>1. \A a \in Mapped : Instruction(mem[a])' /\ Aimed_at(a)'
    BY <1>4, Zenon DEF Aimed_at, TargetsAt
  <2> QED BY <1>1, <1>4, <2>1, Zenon
<1>5. ASSUME at \in Mapped, NEW text \in Texts, mem' = mem, source' = source,
             labels[Search(text)].name = nothing,
             labels' = [labels EXCEPT ![Search(text)] = [name |-> text, address |-> at]]
      PROVE  LabelsInv'
  <2> DEFINE t == Search(text)
             entry == [name |-> text, address |-> at]
  <2>1. t \in Slots
    <3>1. t = SearchIn(labels, text)
      BY Zenon DEF Search, SearchIn
    <3> QED BY <3>1, SearchIs, Zenon
  <2>2. entry.address = at
    OBVIOUS
  <2>3. \A s \in Slots : s # t => labels'[s] = labels[s]
    BY <1>5, Zenon
  <2>4. \A s \in Slots : labels'[s] = labels[s] \/ labels'[s] = entry
    <3> HIDE DEF entry
    <3>1. labels'[t] = entry
      BY <1>5, <2>1, Zenon DEF entry
    <3> QED BY <2>3, <3>1, Zenon
  <2>5. OneNew(labels, labels')
    BY <1>5, <2>1, <2>3, Zenon DEF OneNew
  <2>6. \A s \in Slots : Fits(labels'[s].address)
    <3>1. Fits(at)
      BY <1>2, <1>5, Zenon
    <3> HIDE DEF entry
    <3> QED BY <2>2, <2>4, <3>1, Zenon
  <2>7. DOMAIN labels' = Slots
    BY <1>5, Zenon
  <2>8. \A a \in Mapped : Instruction(mem[a])' /\ Aimed_at(a)'
    BY <1>3, <1>5, <2>5, Zenon
  <2> QED BY <1>1, <2>6, <2>7, <2>8, Zenon
<1>6. ASSUME NEW op, NEW words, NEW answer \in Answers,
             NEW junk \in [Len(words) + 1 .. WordsRead(op) -> Junk],
             at \in Mapped, Legal(op, words), Entered(op, words, answer, junk)
      PROVE  LabelsInv'
  <2> DEFINE i == assemble_a_mnemonic(op, words, TargetRead(op, words, answer), junk)
  <2>1. Instruction(mem[at]) /\ Fits(at) /\ Fits(answer) /\ op \in DOMAIN Rows
    <3>1. Instruction(mem[at]) /\ Fits(at) /\ Fits(answer)
      BY <1>2, <1>6, Zenon
    <3> QED BY <1>6, <3>1, LegalWords, Zenon
  <2>2. /\ OneNew(labels, labels') /\ \A s \in Slots : Fits(labels'[s].address)
        /\ \A w \in Asked(op, words) : labels'[Search(w.n)] = [name |-> w.n, address |-> answer]
    BY <1>6, <2>1, LabelsEntered
  <2>3. mem' = [mem EXCEPT ![at] = i] /\ source' = [source EXCEPT ![at] = Entry(op, words)]
    BY <1>6, Zenon DEF Entered
  <2>4. ASSUME NEW a \in Mapped, a # at
        PROVE  Instruction(mem[a])' /\ Aimed_at(a)'
    <3>1. mem'[a] = mem[a] /\ source'[a] = source[a]
      BY <2>3, <2>4, Zenon DEF Placed
    <3> QED BY <1>3, <2>2, <3>1, Zenon
  <2>5. mem'[at] = i /\ source'[at] = Entry(op, words)
    BY <1>6, <2>3, Zenon DEF Placed
  <2>6. Instruction(mem'[at])
    <3>1. Instruction(i)
      BY <1>6, <2>1, MadeInstruction, Zenon
    <3> QED BY <2>5, <3>1, Zenon
  <2>7. ASSUME NEW w \in Targets(op, words), w.k = "label"
        PROVE  Reached(labels', i, at, w)
    <3> DEFINE t == SearchIn(labels, w.n)
               g == Given(op, words, answer, w)
    <3>1. Len(words) \in Nat /\ w.n # nothing
      BY <1>6, <2>1, <2>7, LabelNamed, Zenon
    <3>2. t = Search(w.n) /\ t \in Slots /\ (KnownIn(labels, w.n) <=> Known(w.n))
      <4>1. t = Search(w.n)
        BY Zenon DEF Search, SearchIn
      <4>2. t \in Slots
        BY SearchIs, Zenon
      <4> QED BY <4>1, <4>2, Zenon DEF Known, KnownIn
    <3>3. g = IF w \in Asked(op, words) THEN answer ELSE labels[t].address
      <4>1. g = IF w \in Asked(op, words) THEN answer ELSE AddressOf(w.n)
        BY <2>7, Zenon DEF Given
      <4>2. AddressOf(w.n) = labels[t].address
        BY <3>2, Zenon DEF AddressOf
      <4> HIDE DEF g, t
      <4> QED BY <4>1, <4>2, Zenon
    <3>4. Fits(g)
      BY <2>1, <3>2, <3>3, Zenon
    <3>5. Arrives(i, at, g)
      <4> HIDE DEF t
      <4> QED BY <2>1, <2>7, <3>1, <3>4, TargetIs, Zenon DEF Arrives
    <3>6. CASE w \in Asked(op, words)
      <4>1. labels'[t] = [name |-> w.n, address |-> answer]
        BY <2>2, <3>2, <3>6, Zenon
      <4>2. labels'[t].name = w.n /\ labels'[t].address = answer
        BY <4>1
      <4>3. \A s \in Slots : s # t => labels'[s] = labels[s]
        <5>1. \A x \in Asked(op, words) : x = w
          <6>1. Targets(op, words) = {w}
            BY <2>1, <2>7, TargetRow, Zenon
          <6> QED BY <6>1 DEF Asked
        <5>2. \A s \in Slots : s # t => ~ \E x \in Asked(op, words) : s = Search(x.n)
          BY <3>2, <5>1, Zenon
        <5> HIDE DEF t
        <5> QED BY <1>6, <5>2, Zenon DEF Entered
      <4>4. SearchIn(labels', w.n) = t /\ (t = MAXBRANCHLABEL \/ KnownIn(labels', w.n))
        BY <4>2, <4>3, SearchFindsNew, Zenon
      <4> HIDE DEF t, g
      <4> QED BY <3>1, <3>3, <3>5, <3>6, <4>2, <4>4, Zenon DEF Reached
    <3>7. CASE w \notin Asked(op, words)
      <4>1. Known(w.n)
        BY <2>7, <3>7, Zenon DEF Asked
      <4>2. Reached(labels, i, at, w)
        BY <3>1, <3>2, <3>3, <3>5, <3>7, <4>1, Zenon DEF Reached
      <4> QED BY <2>2, <4>2, ReachedStays, Zenon
    <3> QED BY <3>6, <3>7
  <2>8. ASSUME NEW a \in Mapped, a = at
        PROVE  Aimed_at(a)'
    <3>1. Entry(op, words).op = op /\ Entry(op, words).f = words
      BY DEF Entry
    <3>2. source'[a] = Entry(op, words) /\ mem'[a] = i
      BY <2>5, <2>8, Zenon
    <3>3. \A w : w \in TargetsAt(a)' => w \in Targets(op, words)
      BY <3>1, <3>2, Zenon DEF TargetsAt
    <3> HIDE DEF i
    <3> QED BY <2>7, <2>8, <3>2, <3>3, Zenon DEF Aimed_at
  <2>9. DOMAIN labels' = Slots
    BY <1>6, Zenon DEF Entered
  <2>10. \A a \in Mapped : Instruction(mem[a])' /\ Aimed_at(a)'
    <3> HIDE DEF i
    <3> SUFFICES ASSUME NEW a \in Mapped
                 PROVE  Instruction(mem'[a]) /\ Aimed_at(a)'
      OBVIOUS
    <3>1. a = at => Instruction(mem'[a])
      BY <2>6, Zenon
    <3> QED BY <2>4, <2>8, <3>1, Zenon
  <2> QED BY <1>1, <2>2, <2>9, <2>10, Zenon
<1> QED BY <1>4, <1>5, <1>6, StepIs, Zenon

LEMMA LabelsInit == Init => LabelsInv
<1> SUFFICES ASSUME Init
             PROVE  LabelsInv
  OBVIOUS
<1>1. Placed
  BY InitPlaced
<1>2. DOMAIN labels = Slots /\ \A s \in Slots : labels[s].address = 0
  <2>1. PICK behind \in {nothing, other} :
          labels = [s \in Slots |->
                      [name    |-> CASE s = 0 -> KEYBOARD [] s = MAXBRANCHLABEL -> behind
                                     [] OTHER -> nothing,
                       address |-> 0]]
    BY Zenon DEF Init
  <2>2. \A x, y : [name |-> x, address |-> y].address = y
    OBVIOUS
  <2> QED BY <2>1, <2>2, Zenon
<1>3. Fits(0)
  BY AddressAssumption DEF Fits
<1>4. ASSUME NEW a \in Mapped
      PROVE  Instruction(mem[a]) /\ Aimed_at(a)
  <2>1. mem = session.memory /\ session \in Sessions /\ source = [x \in Mapped |-> Entry("", <<>>)]
    BY Zenon DEF Init
  <2>2. Instruction(mem[a])
    BY <2>1, SessionAssumption, Zenon
  <2>3. source[a].op = ""
    <3>1. \A op, f : Entry(op, f).op = op
      BY DEF Entry
    <3> QED BY <2>1, <3>1, Zenon
  <2> QED BY <2>2, <2>3, Zenon DEF Aimed_at, TargetsAt
<1> QED BY <1>1, <1>2, <1>3, <1>4, Zenon DEF LabelsInv

LEMMA LabelsInvariant == Spec => []LabelsInv
BY LabelsInit, LabelsStep, PTL DEF Spec

LEMMA LabelsFollow == LabelsInv => BranchReachesItsLabel
<1> SUFFICES ASSUME LabelsInv, NEW a \in Mapped, NEW w \in TargetsAt(a),
                    w.k = "label", Known(w.n)
             PROVE  Arrives(mem[a], a, AddressOf(w.n))
  BY Zenon DEF BranchReachesItsLabel, Labelled, TargetsAt, Arrives
<1>1. Search(w.n) = SearchIn(labels, w.n)
  BY Zenon DEF Search, SearchIn
<1>2. Reached(labels, mem[a], a, w)
  BY Zenon DEF LabelsInv, Aimed_at
<1> QED BY <1>1, <1>2, Zenon DEF Reached, Known, AddressOf

(* A branch goes to the address the table has for its label, if that is a  *)
(* word in its reach, in every state: the address a label gets first is    *)
(* the one it keeps, through the labels that are typed or answered later,  *)
(* the search that ends at an empty entry finds it again, and the number   *)
(* that is cut to BD or LI and extended again leads there, over either end *)
(* of the addresses too.  A label out of reach is missed, and one that     *)
(* came when the table was full is not found again (asm.c:308-311,         *)
(* 2916-2965, 4323-4348, ppcsim.c:2070-2099).                              *)
THEOREM LabelTheorem == Spec => []BranchReachesItsLabel
BY LabelsInvariant, LabelsFollow, PTL

=============================================================================
