--------------------------- MODULE OperandListing ----------------------------
(***************************************************************************)
(* How disassemble_an_opcode() shows the operands of an instruction: the   *)
(* words of the line, in the terms of OperandSyntax.  A row lists fields   *)
(* and how each is printed; commas, case and the width of a number are     *)
(* left out, for they end a word or do not change its value.               *)
(*                                                                         *)
(* Name is the entry the searches choose, from the opcode and the fields.  *)
(* The EXTRACT_ macros are not in the repository: what a field of that     *)
(* name holds, and that EXTRACT_PRIMARY_B and EXTRACT_SPECIAL reach down   *)
(* to BO and to BI, is assumed.  No symbol is loaded.                      *)
(***************************************************************************)
EXTENDS OperandSyntax

Seqs == INSTANCE SequencesExt

CONSTANTS NamedSPRs,   \* the numbers whose name in spr_tab finds them again
          SPACE        \* addresses there are, 2^32 in the code

Prints(slot, as) == [slot |-> slot, as |-> as]
R(slot) == Prints(slot, "register")
X(slot) == Prints(slot, "hex")
N(slot) == Prints(slot, "decimal")

ShownBranches ==
  [op \in DOMAIN Offset |-> <<Prints("A", "cr of bit"), Prints("BD", "target")>>] @@
  "b"      :> <<Prints("LI", "target")>> @@
  "bdnz"   :> <<Prints("BD", "target")>> @@
  "beqlr"  :> <<Prints("A", "cr of bit")>> @@
  "bdnzlr" :> <<>> @@
  "blr"    :> <<>>

ShownImmediates ==
  "cmpi"  :> <<N("BF"), N("L"), R("A"), X("I")>> @@
  "cmpwi" :> <<Prints("BF", "cr"), R("A"), X("I")>> @@
  "twi"   :> <<X("S"), R("A"), X("I")>> @@
  "twgti" :> <<R("A"), X("I")>> @@
  "ori"   :> <<R("A"), R("S"), X("I")>> @@
  "nop"   :> <<>> @@
  "addi"  :> <<R("S"), R("A"), X("I")>> @@
  "lis"   :> <<R("S"), X("I")>> @@
  "subis" :> <<R("S"), R("A"), Prints("I", "negated")>> @@
  "subic" :> <<R("S"), R("A"), Prints("I", "negated")>>

ShownLoads ==
  LET row == <<R("S"), Prints("I", "displacement"), R("A")>>
  IN  "lwz" :> row @@ "lfs" :> row @@ "ld" :> row

Shown31 ==
  "cmp"    :> <<Prints("BF", "cr"), N("L"), R("A"), R("B")>> @@
  "cmpw"   :> <<Prints("BF", "cr"), R("A"), R("B")>> @@
  "extsb"  :> <<R("A"), R("S")>> @@
  "dcbf"   :> <<R("A"), R("B")>> @@
  "sync"   :> <<>> @@
  "lfsx"   :> <<R("S"), R("A"), R("B")>> @@
  "lswi"   :> <<R("S"), R("A"), X("B")>> @@
  "mcrxr"  :> <<X("BF")>> @@
  "mfmsr"  :> <<R("S")>> @@
  "mtsr"   :> <<X("A"), R("S")>> @@
  "mfsr"   :> <<R("S"), X("A")>> @@
  "mfsrin" :> <<R("S"), R("B")>> @@
  "tlbie"  :> <<R("B")>> @@
  "srawi"  :> <<R("A"), R("S"), X("B")>> @@
  "tw"     :> <<X("S"), R("A"), R("B")>> @@
  "tweq"   :> <<R("A"), R("B")>> @@
  "trap"   :> <<>>

ShownIndexed31 ==
  "lwzx" :> <<R("S"), R("A"), R("B")>> @@
  "and"  :> <<R("A"), R("S"), R("B")>> @@
  "or"   :> <<R("A"), R("S"), R("B")>> @@
  "mr"   :> <<R("A"), R("S")>>

Shown63 ==
  "fabs"   :> <<R("S"), R("B")>> @@
  "fcmpu"  :> <<X("BF"), R("A"), R("B")>> @@
  "mcrfs"  :> <<X("BF"), X("BFA")>> @@
  "mffs"   :> <<R("S")>> @@
  "mtfsb0" :> <<X("S")>> @@
  "mtfsfi" :> <<X("BF"), X("U")>>

\* Printed from altvec_tbl, a table of its own with formats and fields.
ShownVectors ==
  "vaddubm"  :> <<R("S"), R("A"), R("B")>> @@
  "vor"      :> <<R("S"), R("A"), R("B")>> @@
  "vrefp"    :> <<R("S"), R("B")>> @@
  "vcmpequb" :> <<R("S"), R("A"), R("B")>> @@
  "vspltb"   :> <<R("S"), R("B"), X("A")>> @@
  "vspltisb" :> <<R("S"), X("A")>> @@
  "mfvscr"   :> <<R("S")>> @@
  "mtvscr"   :> <<R("B")>> @@
  "vperm"    :> <<R("S"), R("A"), R("B"), R("C")>> @@
  "vsldoi"   :> <<R("S"), R("A"), R("B"), X("VAS")>> @@
  "vmaddfp"  :> <<R("S"), R("A"), R("C"), R("B")>> @@
  "dss"      :> <<N("STRM")>> @@
  "dst"      :> <<R("A"), R("B"), N("STRM")>>

ShownConditions ==
  "isync"  :> <<>> @@
  "mcrf"   :> <<X("BF"), X("BFA")>> @@
  "crset"  :> <<X("S")>> @@
  "crmove" :> <<X("S"), X("A")>> @@
  "cror"   :> <<X("S"), X("A"), X("B")>> @@
  "creqv"  :> <<X("S"), X("A"), X("B")>> @@
  "crand"  :> <<X("S"), X("A"), X("B")>>

\* mfspr prints the number of the register, which no name is.
ShownMoves ==
  "mfspr"   :> <<R("S"), N("SPR")>> @@
  "mflr"    :> <<R("S")>> @@
  "mfsprg"  :> <<R("S"), Prints("SPR", "sprg")>> @@
  "mfibatu" :> <<R("S"), Prints("SPR", "ibatu")>> @@
  "mtcrf"   :> <<X("FXM"), R("S")>> @@
  "mtspr"   :> <<Prints("SPR", "spr"), R("S")>> @@
  "mtlr"    :> <<R("S")>> @@
  "mtsprg"  :> <<Prints("SPR", "sprg"), R("S")>> @@
  "mtibatu" :> <<Prints("SPR", "ibatu"), R("S")>>

ShownArithmetic ==
  "mtfsf" :> <<X("FLM"), R("B")>> @@
  "sradi" :> <<R("A"), R("S"), X("SH64")>> @@
  "addze" :> <<R("S"), R("A")>> @@
  "add"   :> <<R("S"), R("A"), R("B")>> @@
  "sub"   :> <<R("S"), R("B"), R("A")>>

\* No comma is printed before the last operand of fmadd: f3,f1,f2f5 are
\* three words, of which the last reads as 2.
ShownFloats ==
  "fadd"  :> <<R("S"), R("A"), R("B")>> @@
  "fmul"  :> <<R("S"), R("A"), R("C")>> @@
  "fsel"  :> <<R("S"), R("A"), R("B"), R("C")>> @@
  "fres"  :> <<R("S"), R("B")>> @@
  "fmadd" :> <<R("S"), R("A"), R("C")>>

\* The amounts are printed in decimal.
ShownRotates ==
  "rlwnm"    :> <<R("A"), R("S"), R("B"), X("MB"), X("ME")>> @@
  "rotlw"    :> <<R("A"), R("S"), R("B")>> @@
  "insrwi"   :> <<R("A"), R("S"), Prints("ME", "size"), N("MB")>> @@
  "clrlslwi" :> <<R("A"), R("S"), Prints("MB", "cleared"), N("SH")>> @@
  "slwi"     :> <<R("A"), R("S"), N("SH")>> @@
  "rotlwi"   :> <<R("A"), R("S"), N("SH")>> @@
  "srwi"     :> <<R("A"), R("S"), Prints("SH", "from 32")>> @@
  "clrlwi"   :> <<R("A"), R("S"), N("MB")>> @@
  "clrrwi"   :> <<R("A"), R("S"), Prints("ME", "from 31")>> @@
  "rldicl"   :> <<R("A"), R("S"), X("SH64"), X("MB64")>> @@
  "rldcl"    :> <<R("A"), R("S"), R("B"), X("MB64")>>

ShownRows ==
  ShownBranches @@ "ba" :> ShownBranches["b"] @@ "beqa" :> ShownBranches["beq"]
      @@ ShownImmediates @@ ShownLoads @@ Shown31 @@ ShownIndexed31 @@ Shown63 @@ ShownVectors
      @@ ShownConditions @@ ShownMoves @@ ShownArithmetic @@ ShownFloats @@ ShownRotates

------------------------------------------------------------------------------
(* The name of an instruction: a simplified mnemonic that its fields admit *)
(* before the plain one.                                                   *)

\* Plain bc and bclr are never shown, nor is bt: a bit of CR has a name.
BranchName(i) ==
  CASE i.f["S"] = 20 -> "blr"
    [] i.f["S"] = 16 -> IF i.op = "bclr" THEN "bdnzlr" ELSE "bdnz"
    [] OTHER -> CASE i.op = "bclr" -> "beqlr"
                  [] i.op = "bca"  -> "beqa"
                  [] OTHER -> CHOOSE op \in DOMAIN Offset : Offset[op] = i.f["A"] % 4

ConditionName(i) ==
  CASE i.op = "creqv" /\ i.f["S"] = i.f["A"] /\ i.f["A"] = i.f["B"]   -> "crset"
    [] i.op = "cror"  /\ i.f["A"] = i.f["B"] /\ i.f["A"] # i.f["S"]   -> "crmove"
    [] OTHER -> i.op

(* Of the trap conditions with a mnemonic, one that reads each way.  The   *)
(* entry of tw itself asks that TO be 0, as its own is.                    *)
TrapName(i) ==
  CASE i.op = "tw"  /\ i.f["S"] = 4          -> "tweq"
    [] i.op = "tw"  /\ i.f["S"] = 31         -> "trap"
    [] i.op = "tw"  /\ i.f["S"] \notin {0, 4, 31} -> ".WORD"
    [] i.op = "twi" /\ i.f["S"] = 8          -> "twgti"
    [] OTHER -> i.op

\* addi comes before li and la in the table.
ImmediateName(i) ==
  CASE i.op = "addis" -> IF i.f["A"] = 0 THEN "lis" ELSE "subis"
    [] i.op = "addic" -> "subic"
    [] i.op = "ori" /\ i.f["A"] = 0 /\ i.f["S"] = 0 /\ i.f["I"] = 0 -> "nop"
    [] i.op \in {"cmp", "cmpi"} /\ i.f["L"] = 0 -> IF i.op = "cmp" THEN "cmpw" ELSE "cmpwi"
    [] OTHER -> i.op

MoveName(i) ==
  LET spr   == i.f["SPR"]
      group == CASE spr = 8                       -> <<"mflr", "mtlr">>
                 [] spr \in 272..275              -> <<"mfsprg", "mtsprg">>
                 [] spr \in {528, 530, 532, 534}  -> <<"mfibatu", "mtibatu">>
                 [] OTHER                         -> <<"mfspr", "mtspr">>
  IN  IF i.op = "mfspr" THEN group[1] ELSE group[2]

(* clrlslwi asks nothing of the fields, so it names what no rotation       *)
(* before it in the table does.                                            *)
RotateName(i) ==
  LET MB    == i.f["MB"]
      ME    == i.f["ME"]
      stays == i.f["SH"] = 0
  IN  CASE i.op = "rlwimi" -> "insrwi"
        [] i.op = "rlwnm"  -> IF ME = 31 THEN "rotlw" ELSE "rlwnm"
        [] OTHER -> CASE MB = 0 /\ ME = 31 -> "rotlwi"
                      [] MB = 0 /\ ME # 31 -> IF stays THEN "clrrwi" ELSE "slwi"
                      [] MB # 0 /\ ME = 31 -> IF stays THEN "clrlwi" ELSE "srwi"
                      [] OTHER             -> "clrlslwi"

Name(i) ==
  CASE i.op \in {"bc", "bca", "bclr"}                -> BranchName(i)
    [] i.op \in {"creqv", "cror"}                    -> ConditionName(i)
    [] i.op \in {"tw", "twi"}                        -> TrapName(i)
    [] i.op \in {"addis", "addic", "ori", "cmp", "cmpi"} -> ImmediateName(i)
    [] i.op \in {"mfspr", "mtspr"}                   -> MoveName(i)
    [] i.op \in {"rlwinm", "rlwimi", "rlwnm"}        -> RotateName(i)
    [] i.op = "or" /\ i.f["S"] = i.f["B"]            -> "mr"
    [] i.op = "subf"                                 -> "sub"
    [] OTHER                                         -> i.op

------------------------------------------------------------------------------
\* A field of n values with a sign, and an address that wraps.
Signed(v, n) == IF v >= n \div 2 THEN v - n ELSE v
Wrapped(a) == CASE a < 0      -> a + SPACE
                [] a >= SPACE -> a - SPACE
                [] OTHER      -> a

(* The address a branch is said to go to.  BD is extended with its sign.   *)
(* LI is not: the test for its opcode hangs on the one that excludes it.   *)
(* A relative LI is cut to 24 bits, and these have a sign.                 *)
Target(i, addr) ==
  LET BD == Signed(i.f["BD"], SizeOf("BD"))
      LI == i.f["LI"]
  IN  CASE i.op = "ba"  -> LI
        [] i.op = "bca" -> Wrapped(BD)
        [] i.op = "b"   -> Wrapped(addr + Signed(LI % 2 ^ 24, 2 ^ 24))
        [] OTHER        -> Wrapped(addr + BD)

\* pDR(): a small displacement in decimal.
pDR(d) == IF d < 16 THEN Word("dec", d) ELSE Word("hex", d)

(* The words a field is printed as: cr0 and an SPR without a name print    *)
(* nothing, and so does a target of 0, taken for a label that was found.   *)
WordsOf(p, i, addr) ==
  LET f == i.f
      v == f[p.slot]
      crf(n) == IF n = 0 THEN <<>> ELSE <<Word("crf", n)>>
      t == Target(i, addr)
  IN  CASE p.as = "register"     -> <<Word("reg", v)>>
        [] p.as = "hex"          -> <<Word("hex", v)>>
        [] p.as = "decimal"      -> <<Word("dec", v)>>
        [] p.as = "cr"           -> crf(v)
        [] p.as = "cr of bit"    -> crf(v \div 4)
        [] p.as = "negated"      -> <<Word("hex", (-v) % SizeOf("I"))>>
        [] p.as = "displacement" -> <<pDR(v)>>
        [] p.as = "target"       -> IF t = 0 THEN <<>> ELSE <<Word("hex", t)>>
        [] p.as = "spr"          -> IF v \in NamedSPRs THEN <<Word("spr", v)>> ELSE <<>>
        [] p.as = "sprg"         -> <<Word("dec", v - 272)>>
        [] p.as = "ibatu"        -> <<Word("dec", (v - 528) \div 2)>>
        [] p.as = "size"         -> <<Word("dec", 1 - f["MB"] + v)>>
        [] p.as = "cleared"      -> <<Word("dec", f["SH"] + v)>>
        [] p.as = "from 32"      -> <<Word("dec", 32 - v)>>
        [] p.as = "from 31"      -> <<Word("dec", 31 - v)>>

disassemble_an_opcode(i, addr) ==
  LET row == ShownRows[Name(i)]
  IN  Seqs!FlattenSeq([k \in DOMAIN row |-> WordsOf(row[k], i, addr)])
==============================================================================
