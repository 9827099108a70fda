---------------------------- MODULE OperandSyntax ----------------------------
(***************************************************************************)
(* How assemble_a_mnemonic() reads the operands of an instruction: which   *)
(* word of the line goes into which field of the opcode, and through which *)
(* of the pull_ functions.  One row stands for all the entries of          *)
(* ops_and_mnemonics that take the same branch, under the name of one.     *)
(*                                                                         *)
(* Fields that share their bits share a name: S is also RT, FRT, BO, TO    *)
(* and BT, A is FRA, BA and BI, B is FRB, BB, NB and SH32, C is FRC; I is  *)
(* SI, UI, D and DS.  LI and BD have names of their own: they lie over     *)
(* each other, but are not of one size.                                    *)
(*                                                                         *)
(* A word is a record of what it looks like and the number in it: "reg"    *)
(* (r5), "crf" (cr2), "hex" (0x1F), "dec" (12), "spr" (HID0 or s1008) or   *)
(* "label" (@top, the number being the label).                             *)
(***************************************************************************)
EXTENDS Integers, Sequences, FiniteSetsExt, Tables

d :> e == Single(d, e)
f @@ g == Overlay(f, g)

Reads(slot, word, as) == [slot |-> slot, word |-> word, as |-> as]
Reg(slot, word) == Reads(slot, word, "register")
Imm(slot, word) == Reads(slot, word, "immediate")

Three(a, b, c) == <<Reg(a, 1), Reg(b, 2), Reg(c, 3)>>
Two(a, b)      == <<Reg(a, 1), Reg(b, 2)>>

\* The bit of a condition register a simplified branch tests.
Offset == "blt" :> 0 @@ "bgt" :> 1 @@ "beq" :> 2 @@ "bso" :> 3

Branches ==
  "b"      :> <<Reads("LI", 1, "branch")>> @@
  "bc"     :> <<Imm("S", 1), Imm("A", 2), Reads("BD", 3, "branch")>> @@
  "bdnz"   :> <<Reads("BD", 1, "branch")>> @@
  "bt"     :> <<Reads("A", 1, "cr"), Reads("BD", 2, "branch")>> @@
  "btlr"   :> <<Reads("A", 1, "cr")>> @@
  "bdnzlr" :> <<>> @@
  "blr"    :> <<>>

\* A condition register, in front of the target if the branch has one.
Conditions ==
  [op \in DOMAIN Offset |-> <<Reads("A", 1, op), Reads("BD", 2, "branch")>>] @@
  "beqlr" :> <<Reads("A", 1, "beq")>>

\* Branches whose AA bit is set are read as their relative forms are.
Absolute == "ba" :> "b" @@ "bca" :> "bc" @@ "bta" :> "bt" @@ "beqa" :> "beq"

ImmediateForms ==
  "cmpi"  :> <<Imm("BF", 1), Imm("L", 2), Reg("A", 3), Imm("I", 4)>> @@
  "cmpwi" :> <<Reg("BF", 1), Reg("A", 2), Imm("I", 3)>> @@
  "twi"   :> <<Imm("S", 1), Reg("A", 2), Imm("I", 3)>> @@
  "twgti" :> <<Reg("A", 1), Imm("I", 2)>> @@
  "ori"   :> <<Reg("A", 1), Reg("S", 2), Imm("I", 3)>> @@
  "nop"   :> <<>> @@
  "addi"  :> <<Reg("S", 1), Reg("A", 2), Imm("I", 3)>> @@
  "addis" :> <<Reg("S", 1), Reg("A", 2), Imm("I", 3)>> @@
  "subic" :> <<Reg("S", 1), Reg("A", 2), Reads("I", 3, "negated")>> @@
  "subis" :> <<Reg("S", 1), Reg("A", 2), Reads("I", 3, "negated")>> @@
  "li"    :> <<Reg("S", 1), Imm("I", 2)>> @@
  "lis"   :> <<Reg("S", 1), Imm("I", 2)>> @@
  "la"    :> <<Reg("S", 1), Imm("I", 2), Reg("A", 3)>>

\* lwz and lfs for all loads and stores, ld for the DS form.
LoadForms ==
  LET row == <<Reg("S", 1), Imm("I", 2), Reg("A", 3)>>
  IN  "lwz" :> row @@ "lfs" :> row @@ "ld" :> row

\* A mutation: the operands of the logical instructions in the order of loads.
Indexed31_loads ==
  "lwzx"  :> Three("S", "A", "B") @@
  "and"   :> Three("S", "A", "B") @@
  "or"    :> Three("S", "A", "B") @@
  "mr"    :> Three("A", "S", "B")

\* Primary opcode 31: what is left when the special cases are taken out.
Indexed31 ==
  "lwzx"  :> Three("S", "A", "B") @@
  "and"   :> Three("A", "S", "B") @@
  "or"    :> Three("A", "S", "B") @@
  "mr"    :> <<Reg("A", 1), Reg("S", 2), Reg("B", 2)>>

Special31 ==
  "cmp"    :> <<Imm("BF", 1), Imm("L", 2), Reg("A", 3), Reg("B", 4)>> @@
  "cmpw"   :> Three("BF", "A", "B") @@
  "extsb"  :> Two("A", "S") @@
  "dcbf"   :> Two("A", "B") @@
  "sync"   :> <<>> @@
  "lfsx"   :> Three("S", "A", "B") @@
  "lswi"   :> <<Reg("S", 1), Reg("A", 2), Imm("B", 3)>> @@
  "mcrxr"  :> <<Imm("BF", 1)>>

System31 ==
  "mfmsr"  :> <<Reg("S", 1)>> @@
  "mtsr"   :> <<Reads("A", 1, "segment"), Reg("S", 2)>> @@
  "mfsr"   :> <<Reg("S", 1), Reads("A", 2, "segment")>> @@
  "mfsrin" :> Two("S", "B") @@
  "tlbie"  :> <<Reg("B", 1)>> @@
  "srawi"  :> <<Reg("A", 1), Reg("S", 2), Imm("B", 3)>> @@
  "tw"     :> <<Imm("S", 1), Reg("A", 2), Reg("B", 3)>> @@
  "tweq"   :> Two("A", "B") @@
  "trap"   :> Two("A", "B") @@
  "dss"    :> <<Imm("STRM", 1)>> @@
  "dst"    :> <<Reg("A", 1), Reg("B", 2), Imm("STRM", 3)>>

Float63 ==
  "fabs"   :> Two("S", "B") @@
  "fcmpu"  :> <<Imm("BF", 1), Reg("A", 2), Reg("B", 3)>> @@
  "mcrfs"  :> <<Imm("BF", 1), Imm("BFA", 2)>> @@
  "mffs"   :> <<Reg("S", 1)>> @@
  "mtfsb0" :> <<Imm("S", 1)>> @@
  "mtfsfi" :> <<Imm("BF", 1), Imm("U", 2)>>

VectorForms ==
  "vaddubm"  :> Three("S", "A", "B") @@
  "vor"      :> Three("S", "A", "B") @@
  "vmr"      :> <<Reg("S", 1), Reg("A", 2), Reg("B", 2)>>

VectorSpecial ==
  "vrefp"    :> Two("S", "B") @@
  "vcmpequb" :> Three("S", "A", "B") @@
  "vspltb"   :> <<Reg("S", 1), Reg("B", 2), Imm("A", 3)>> @@
  "vspltisb" :> <<Reg("S", 1), Imm("A", 2)>> @@
  "mfvscr"   :> <<Reg("S", 1)>> @@
  "mtvscr"   :> <<Reg("B", 1)>>

VectorFour ==
  "vperm"   :> <<Reg("S", 1), Reg("A", 2), Reg("B", 3), Reg("C", 4)>> @@
  "vsldoi"  :> <<Reg("S", 1), Reg("A", 2), Reg("B", 3), Imm("VAS", 4)>> @@
  "vmaddfp" :> <<Reg("S", 1), Reg("A", 2), Reg("C", 3), Reg("B", 4)>>

ConditionForms ==
  "bclr"   :> <<Imm("S", 1), Imm("A", 2)>> @@
  "isync"  :> <<>> @@
  "mcrf"   :> <<Imm("BF", 1), Imm("BFA", 2)>> @@
  "crset"  :> <<Imm("S", 1), Imm("A", 1), Imm("B", 1)>> @@
  "crmove" :> <<Imm("S", 1), Imm("A", 2), Imm("B", 2)>> @@
  "creqv"  :> <<Imm("S", 1), Imm("A", 2), Imm("B", 3)>> @@
  "cror"   :> <<Imm("S", 1), Imm("A", 2), Imm("B", 3)>> @@
  "crand"  :> <<Imm("S", 1), Imm("A", 2), Imm("B", 3)>>

MoveFrom ==
  "mfspr"   :> <<Reg("S", 1), Reads("SPR", 2, "spr")>> @@
  "mflr"    :> <<Reg("S", 1)>> @@
  "mfsprg"  :> <<Reg("S", 1), Reads("SPR", 2, "sprg")>> @@
  "mfibatu" :> <<Reg("S", 1), Reads("SPR", 2, "ibatu")>>

MoveTo ==
  "mtcrf"   :> <<Imm("FXM", 1), Reg("S", 2)>> @@
  "mtspr"   :> <<Reads("SPR", 1, "spr"), Reg("S", 2)>> @@
  "mtlr"    :> <<Reg("S", 1)>> @@
  "mtsprg"  :> <<Reads("SPR", 1, "sprg"), Reg("S", 2)>> @@
  "mtibatu" :> <<Reads("SPR", 1, "ibatu"), Reg("S", 2)>>

ArithmeticForms ==
  "mtfsf" :> <<Imm("FLM", 1), Reg("B", 2)>> @@
  "sradi" :> <<Reg("A", 1), Reg("S", 2), Imm("SH64", 3)>> @@
  "addze" :> Two("S", "A") @@
  "add"   :> Three("S", "A", "B") @@
  "subf"  :> Three("S", "A", "B") @@
  "sub"   :> Three("S", "B", "A")

FloatForms ==
  "fadd"  :> Three("S", "A", "B") @@
  "fmul"  :> Three("S", "A", "C") @@
  "fsel"  :> <<Reg("S", 1), Reg("A", 2), Reg("B", 3), Reg("C", 4)>> @@
  "fres"  :> Two("S", "B") @@
  "fmadd" :> <<Reg("S", 1), Reg("A", 2), Reg("C", 3), Reg("B", 4)>>

RotateForms ==
  "rlwimi" :> <<Reg("A", 1), Reg("S", 2), Imm("SH", 3), Imm("MB", 4), Imm("ME", 5)>> @@
  "rlwnm"  :> <<Reg("A", 1), Reg("S", 2), Reg("B", 3), Imm("MB", 4), Imm("ME", 5)>> @@
  "rlwinm" :> <<Reg("A", 1), Reg("S", 2), Imm("SH", 3), Imm("MB", 4), Imm("ME", 5)>> @@
  "rotlw"  :> Three("A", "S", "B") @@
  "rldicl" :> <<Reg("A", 1), Reg("S", 2), Imm("SH64", 3), Imm("MB64", 4)>> @@
  "rldcl"  :> <<Reg("A", 1), Reg("S", 2), Reg("B", 3), Imm("MB64", 4)>>

(* The rotations by an amount: n and b are the third and fourth operand,   *)
(* from which SH, MB and ME are computed.                                  *)
OneAmount == {"slwi", "srwi", "clrlwi", "clrrwi", "rotlwi", "rotrwi"}
TwoAmounts == {"inslwi", "insrwi", "extlwi", "extrwi", "clrlslwi"}
Shifts == OneAmount \cup TwoAmounts

ShiftRows ==
  LET row(op) == <<Reg("A", 1), Reg("S", 2), Imm("n", 3)>> \o
                 (IF op \in TwoAmounts THEN <<Imm("b", 4)>> ELSE <<>>)
  IN  [op \in Shifts |-> row(op)]

Rows ==
  LET relative == Branches @@ Conditions
  IN  relative @@ [op \in DOMAIN Absolute |-> relative[Absolute[op]]]
      @@ ImmediateForms @@ LoadForms @@ Indexed31 @@ Special31 @@ System31 @@ Float63
      @@ VectorForms @@ VectorSpecial @@ VectorFour @@ ConditionForms @@ MoveFrom @@ MoveTo
      @@ ArithmeticForms @@ FloatForms @@ RotateForms @@ ShiftRows

(* The opcode behind a simplified mnemonic, and the fields its entry in the *)
(* table sets.                                                             *)
Entry(op, f) == [op |-> op, f |-> f]
none == [s \in {} |-> 0]

SimplifiedBranches ==
  [op \in DOMAIN Offset |-> Entry("bc", "S" :> 12)] @@
  "bt"      :> Entry("bc", "S" :> 12) @@
  "beqa"    :> Entry("bca", "S" :> 12) @@
  "bta"     :> Entry("bca", "S" :> 12) @@
  "bdnz"    :> Entry("bc", "S" :> 16 @@ "A" :> 0) @@
  "beqlr"   :> Entry("bclr", "S" :> 12) @@
  "btlr"    :> Entry("bclr", "S" :> 12) @@
  "bdnzlr"  :> Entry("bclr", "S" :> 16 @@ "A" :> 0) @@
  "blr"     :> Entry("bclr", "S" :> 20 @@ "A" :> 0)

Simplified ==
  SimplifiedBranches @@
  "cmpwi"   :> Entry("cmpi", "L" :> 0) @@
  "cmpw"    :> Entry("cmp", "L" :> 0) @@
  "twgti"   :> Entry("twi", "S" :> 8) @@
  "tweq"    :> Entry("tw", "S" :> 4) @@
  "trap"    :> Entry("tw", "S" :> 31) @@
  "nop"     :> Entry("ori", "A" :> 0 @@ "S" :> 0 @@ "I" :> 0) @@
  "li"      :> Entry("addi", "A" :> 0) @@
  "lis"     :> Entry("addis", "A" :> 0) @@
  "la"      :> Entry("addi", none) @@
  "subis"   :> Entry("addis", none) @@
  "subic"   :> Entry("addic", none) @@
  "mr"      :> Entry("or", none) @@
  "crset"   :> Entry("creqv", none) @@
  "crmove"  :> Entry("cror", none) @@
  "mflr"    :> Entry("mfspr", "SPR" :> 8) @@
  "mfsprg"  :> Entry("mfspr", none) @@
  "mfibatu" :> Entry("mfspr", none) @@
  "mtlr"    :> Entry("mtspr", "SPR" :> 8) @@
  "mtsprg"  :> Entry("mtspr", none) @@
  "mtibatu" :> Entry("mtspr", none) @@
  "vmr"     :> Entry("vor", none) @@
  "sub"     :> Entry("subf", none) @@
  "rotlw"   :> Entry("rlwnm", "MB" :> 0 @@ "ME" :> 31) @@
  "inslwi"  :> Entry("rlwimi", none) @@
  "insrwi"  :> Entry("rlwimi", none) @@
  [op \in Shifts |-> Entry("rlwinm", none)]

EntryOf(op) == IF op \in DOMAIN Simplified THEN Simplified[op] ELSE Entry(op, none)

------------------------------------------------------------------------------
(* SH, MB and ME of a rotation by amounts, before the fields cut them to   *)
(* five bits.  The entries of the table start with MB 0 and with ME 0 or   *)
(* 31.                                                                     *)
Amounts(op, n, b) ==
  CASE op = "slwi"     -> <<n, 0, 31 - n>>
    [] op = "srwi"     -> <<32 - n, n, 31>>
    [] op = "clrlwi"   -> <<0, n, 31>>
    [] op = "clrrwi"   -> <<0, 0, 31 - n>>
    [] op = "rotlwi"   -> <<n, 0, 31>>
    [] op = "rotrwi"   -> <<32 - n, 0, 31>>
    [] op = "extlwi"   -> <<b, 0, n - 1>>
    [] op = "extrwi"   -> <<n + b, 32 - n, 31>>
    [] op = "inslwi"   -> <<32 - b, b, b + n - 1>>
    [] op = "insrwi"   -> <<32 - b + n, b, b + n - 1>>
    [] op = "clrlslwi" -> <<b, n - b, 31 - b>>

\* How many values a field has.
SizeOf(slot) ==
  CASE slot \in {"BF", "BFA"}        -> 8
    [] slot = "L"                      -> 2
    [] slot = "STRM"                   -> 4
    [] slot \in {"U", "VAS"}           -> 16
    [] slot \in {"SH64", "MB64"}       -> 64
    [] slot \in {"FXM", "FLM"}         -> 256
    [] slot = "SPR"                    -> 1024
    [] slot \in {"I", "BD"}            -> 65536
    [] slot = "LI"                     -> 67108864
    [] OTHER                           -> 32

(* What the INSERT_ macros keep of a number.  BD and LI have no room for   *)
(* the low two bits, and nothing says so, or that what is above is lost.   *)
Kept(slot, n) ==
  LET low == n % SizeOf(slot)
  IN  IF slot \in {"BD", "LI"} THEN low - (low % 4) ELSE low

------------------------------------------------------------------------------
(* The pull_ functions.                                                    *)
Word(k, n) == [k |-> k, n |-> n]

\* Digits meant as decimal and read as hexadecimal.
HexOf(n) == LET m == IF n < 0 THEN -n ELSE n
                h == 16 * (m \div 10) + (m % 10)
            IN  IF n < 0 THEN -h ELSE h

\* The first decimal number in the word: of 0x1F it is the 0.
pull_register(w) == IF w.k = "hex" THEN 0 ELSE w.n

\* The c of cr2 is a hexadecimal digit, an r is none.
pull_immediate(w) ==
  CASE w.k = "hex" -> w.n
    [] w.k = "dec" -> HexOf(w.n)
    [] w.k = "crf" -> 12
    [] OTHER       -> 0

pull_immediate_cr(w) == IF w.k \in {"hex", "dec"} THEN w.n ELSE 0

Value(as, w) ==
  CASE as = "register"  -> pull_register(w)
    [] as = "immediate" -> pull_immediate(w)
    [] as = "negated"   -> -pull_immediate(w)
    [] as = "segment"   -> pull_immediate(w) % 16
    [] as = "cr"        -> pull_immediate_cr(w)
    [] as = "branch"    -> pull_immediate(w)
    [] as \in DOMAIN Offset -> 4 * pull_register(w) + Offset[as]
    [] as = "spr"       -> w.n
    [] as = "sprg"      -> pull_immediate(w) + 272
    [] as = "ibatu"     -> 2 * pull_immediate(w) + 528

WordsRead(op) ==
  IF Rows[op] = <<>> THEN 0 ELSE Max({Rows[op][k].word : k \in DOMAIN Rows[op]})

\* A mutation: the two amounts are taken in the wrong order.
Rotation_swapped(op, val) ==
  LET amounts == IF op \in TwoAmounts THEN Amounts(op, val["b"], val["n"])
                                      ELSE Amounts(op, val["n"], 0)
  IN  "A" :> val["A"] @@ "S" :> val["S"] @@ "SH" :> amounts[1]
        @@ "MB" :> amounts[2] @@ "ME" :> amounts[3]

\* The fields of a rotation by amounts, of what is read.
Rotation(op, val) ==
  LET amounts == Amounts(op, val["n"], IF op \in TwoAmounts THEN val["b"] ELSE 0)
  IN  "A" :> val["A"] @@ "S" :> val["S"] @@ "SH" :> amounts[1]
        @@ "MB" :> amounts[2] @@ "ME" :> amounts[3]

Cut(fields) == [s \in DOMAIN fields |-> Kept(s, fields[s])]

(* The instruction a line makes.  pull_next_word() leaves an operand that  *)
(* is not there as it found it, so that it reads as anything: junk.  The   *)
(* target of a branch is the caller's: it may be a label.                  *)
assemble_a_mnemonic(op, words, target, junk) ==
  LET read(r) == IF r.word > Len(words) THEN junk[r.word]
                 ELSE IF r.as = "branch" THEN target ELSE Value(r.as, words[r.word])
      row     == Rows[op]
      slots   == {row[k].slot : k \in DOMAIN row}
      val     == [s \in slots |-> read(row[CHOOSE k \in DOMAIN row : row[k].slot = s])]
  IN  [op |-> EntryOf(op).op,
       f  |-> Cut((IF op \in Shifts THEN Rotation(op, val) ELSE val) @@ EntryOf(op).f)]
==============================================================================
