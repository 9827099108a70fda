----------------------------- MODULE IntegerUnit -----------------------------
(***************************************************************************)
(* The integer instructions of sim_powerpc(): arithmetic, logic, rotates   *)
(* and shifts, comparisons, traps, and the moves from and to the special   *)
(* registers.  An instruction is a record: op, the register fields D, A    *)
(* and B, SIMM, and the bits RC and OE.  64-bit intermediates of the code  *)
(* are integers here.                                                      *)
(***************************************************************************)
EXTENDS Processor

\* GR(A) of the addi family and of the effective addresses: 0 means zero.
GRorZero(a) == IF a = 0 THEN 0 ELSE gpr[a]

\* A mutation: the carry is the result's own most significant bit.
CarryOut_msb(l) == IF Bit(Low(l), 0) THEN 1 ELSE 0

(* l64 & 0xFFFFFFFF00000000: carry out, and also the sign of a difference. *)
CarryOut(l) == IF l \in Word THEN 0 ELSE 1

(* A 64-bit result l, its low word the target.  `msb' is what the code     *)
(* compares with the sign of the result to find the carry into it.         *)
Sum(i, l, msb, setCA) ==
  [Outcome(i, Low(l)) EXCEPT
     !.ca = CarryOut(l),
     !.ov = (Low(msb) # Sign(Low(l))) # (CarryOut(l) = 1),
     !.setCA = setCA]

subf(i, a, b, ca)   == Sum(i, b - a, Sign(NotW(Low(a + 1))) + Sign(b), i.op = "subfc")
addc(i, a, b, ca)   == Sum(i, a + b, Sign(a) + Sign(b), FALSE)
subfe(i, a, b, ca)  == Sum(i, b - a - 1 + ca, Sign(NotW(a)) + Sign(b) + ca, TRUE)
adde(i, a, b, ca)   == Sum(i, a + b + ca, Sign(a) + Sign(b), TRUE)
subfze(i, a, b, ca) == Sum(i, NotW(a) + ca, Sign(NotW(a)) + ca, TRUE)
addze(i, a, b, ca)  == Sum(i, a + ca, Sign(a) + Sign(b), TRUE)
subfme(i, a, b, ca) == Sum(i, NotW(a) + ca - 1, Sign(a) + ca - 2 ^ (WBITS - 1), TRUE)
addme(i, a, b, ca)  == Sum(i, a + ca + 2 ^ WBITS - 1, Sign(a) + Sign(b), TRUE)
add(i, a, b, ca)    == Sum(i, a + b, Sign(a) + Sign(b), FALSE)

neg(i, a) ==
  [Outcome(i, Low(-a)) EXCEPT !.ov = (a = 2 ^ (WBITS - 1))]

mulhwu(i, a, b) == Outcome(i, (a * b) \div 2 ^ WBITS)
mulhw(i, a, b)  == Outcome(i, Low((Signed(a) * Signed(b)) \div 2 ^ WBITS))

\* mullw and the divisions set OE themselves when they find an overflow.
Overflowing(o) == [o EXCEPT !.oe = TRUE, !.ov = TRUE]

mullw(i, a, b) ==
  IF a * b \in Word THEN Outcome(i, a * b) ELSE Overflowing(Outcome(i, Low(a * b)))

\* The immediate forms; addic. records.
mulli(i, a)  == Outcome(i, Low(a * i.SIMM))
subfic(i, a) == [Outcome(i, Low(i.SIMM - a)) EXCEPT
                   !.setCA = TRUE, !.ca = CarryOut(i.SIMM - a)]
addic(i, a)  == [Outcome(i, Low(a + EXTS(i.SIMM))) EXCEPT
                   !.setCA = TRUE, !.ca = CarryOut(a + EXTS(i.SIMM)),
                   !.rc = (i.op = "addic.")]
addi(i)      == Outcome(i, Low(GRorZero(i.A) + EXTS(i.SIMM)))
addis(i)     == Outcome(i, Low(GRorZero(i.A) + ShiftLeft(i.SIMM, 2 * BYTE)))

ArithmeticOps ==
  {"subf", "subfc", "add", "addc", "subfe", "adde", "subfze", "addze", "subfme",
   "addme", "neg", "mulhwu", "mulhw", "mullw", "mulli", "subfic", "addic",
   "addic.", "addi", "addis"}

ArithmeticOutcome(i) ==
  LET a == gpr[i.A]
      b == gpr[i.B]
      ca == XER_CA(spr)
  IN  CASE i.op \in {"subf", "subfc"} -> subf(i, a, b, ca)
        [] i.op = "add"    -> add(i, a, b, ca)
        [] i.op = "addc"   -> addc(i, a, b, ca)
        [] i.op = "subfe"  -> subfe(i, a, b, ca)
        [] i.op = "adde"   -> adde(i, a, b, ca)
        [] i.op = "subfze" -> subfze(i, a, b, ca)
        [] i.op = "addze"  -> addze(i, a, b, ca)
        [] i.op = "subfme" -> subfme(i, a, b, ca)
        [] i.op = "addme"  -> addme(i, a, b, ca)
        [] i.op = "neg"    -> neg(i, a)
        [] i.op = "mulhwu" -> mulhwu(i, a, b)
        [] i.op = "mulhw"  -> mulhw(i, a, b)
        [] i.op = "mullw"  -> mullw(i, a, b)
        [] i.op = "mulli"  -> mulli(i, a)
        [] i.op = "subfic" -> subfic(i, a)
        [] i.op \in {"addic", "addic."} -> addic(i, a)
        [] i.op = "addi"   -> addi(i)
        [] i.op = "addis"  -> addis(i)

Arithmetic(i) ==
  LET o == ArithmeticOutcome(i)
  IN  /\ i.op \in ArithmeticOps
      /\ gpr' = [gpr EXCEPT ![i.D] = o.ac]
      /\ Complete(spr, o)

(* A division by zero, or of the least number by -1, leaves the target and *)
(* records whatever `ac' holds.  divw divides words as unsigned: LONG64 of *)
(* a ULONG is not negative.                                                *)
CannotDivide(i, a, b) ==
  b = 0 \/ (i.op = "divw" /\ a = 2 ^ (WBITS - 1) /\ b = 2 ^ WBITS - 1)

Divide(i, junk) ==
  LET a == gpr[i.A]
      b == gpr[i.B]
  IN  /\ i.op \in {"divwu", "divw"}
      /\ IF CannotDivide(i, a, b)
           THEN UNCHANGED gpr /\ Complete(spr, Overflowing(Outcome(i, junk)))
           ELSE /\ gpr' = [gpr EXCEPT ![i.D] = a \div b]
                /\ Complete(spr, Outcome(i, a \div b))

------------------------------------------------------------------------------
(* Logic: the target is A, the operands D and B or the immediate.          *)

Upper(h) == h * 2 ^ (2 * BYTE)

Logical(i, x, b) ==
  CASE i.op = "ori"   -> OrW(x, i.SIMM)
    [] i.op = "oris"  -> OrW(x, Upper(i.SIMM))
    [] i.op = "xori"  -> XorW(x, i.SIMM)
    [] i.op = "xoris" -> XorW(x, Upper(i.SIMM))
    [] i.op = "andi." -> AndW(x, i.SIMM)
    [] i.op = "andis." -> AndW(x, Upper(i.SIMM))

and(x, b)  == AndW(x, b)
andc(x, b) == AndW(x, NotW(b))
nor(x, b)  == NotW(OrW(x, b))
eqv(x, b)  == NotW(XorW(x, b))
xor(x, b)  == XorW(x, b)
orc(x, b)  == OrW(x, NotW(b))
or(x, b)   == OrW(x, b)
nand(x, b) == NotW(AndW(x, b))

\* slw reads one more bit of the shift count than srw.
slw(x, b) == LET n == b % (2 * WBITS) IN IF n >= WBITS THEN 0 ELSE ShiftLeft(x, n)
srw(x, b) == ShiftRight(x, b % WBITS)

cntlzw(x) == IF x = 0 THEN WBITS ELSE Min(BitsOf(x))

ImmediateLogic == {"ori", "oris", "xori", "xoris", "andi.", "andis."}
RegisterLogic  == {"and", "andc", "nor", "eqv", "xor", "orc", "or", "nand",
                   "slw", "srw", "cntlzw"}

LogicResult(i, x, b) ==
  CASE i.op \in ImmediateLogic -> Logical(i, x, b)
    [] i.op = "and"  -> and(x, b)
    [] i.op = "andc" -> andc(x, b)
    [] i.op = "nor"  -> nor(x, b)
    [] i.op = "eqv"  -> eqv(x, b)
    [] i.op = "xor"  -> xor(x, b)
    [] i.op = "orc"  -> orc(x, b)
    [] i.op = "or"   -> or(x, b)
    [] i.op = "nand" -> nand(x, b)
    [] i.op = "slw"  -> slw(x, b)
    [] i.op = "srw"  -> srw(x, b)
    [] i.op = "cntlzw" -> cntlzw(x)

Logic(i) ==
  LET r == LogicResult(i, gpr[i.D], gpr[i.B])
  IN  /\ i.op \in ImmediateLogic \cup RegisterLogic
      /\ gpr' = [gpr EXCEPT ![i.A] = r]
      /\ Complete(spr, [Outcome(i, r) EXCEPT
                          !.rc = i.RC \/ i.op \in {"andi.", "andis."}])

(* extsh and extsb reset OE, and record the operand, not the result.       *)
Extend(i) ==
  LET x == gpr[i.D]
  IN  /\ i.op \in {"extsh", "extsb"}
      /\ gpr' = [gpr EXCEPT ![i.A] =
                   IF i.op = "extsh" THEN EXTS(x % 2 ^ (2 * BYTE))
                                     ELSE ExtByte(x % 2 ^ BYTE)]
      /\ Complete(spr, [Outcome(i, x) EXCEPT !.oe = FALSE])

(* sraw and srawi shift one bit at a time and collect the bits they lose;  *)
(* OE, part of their opcode, is not reset.  After as many shifts as the    *)
(* word has bits only its sign is left, and more make no difference.       *)
ShiftRightAlgebraic(i) ==
  LET count == IF i.op = "sraw" THEN gpr[i.B] % (2 * WBITS) ELSE i.B
      n == IF count < WBITS THEN count ELSE WBITS
      x == gpr[i.D]
      r == Low(Signed(x) \div 2 ^ n)
  IN  /\ i.op \in {"sraw", "srawi"}
      /\ gpr' = [gpr EXCEPT ![i.A] = r]
      /\ Complete(spr, [Outcome(i, r) EXCEPT
           !.oe = TRUE, !.setCA = TRUE,
           !.ca = IF Signed(x) < 0 /\ Signed(x) % 2 ^ n # 0 THEN 1 ELSE 0])

(* The rotates.  The mask runs from MB to ME and is empty when MB > ME.  A *)
(* rotation by 0 shifts a word by its width, which may give anything.      *)
Mask(MB, ME) == FromBits(MB .. ME)

\* A mutation: the bits shifted out are lost.
Rotated_lost(x, n, junk) == ShiftLeft(x, n)

Rotated(x, n, junk) ==
  OrW(ShiftLeft(x, n), IF n = 0 THEN junk ELSE ShiftRight(x, WBITS - n))

RotateOutcome(i, junk) ==
  LET n == IF i.op = "rlwnm" THEN gpr[i.B] % WBITS ELSE i.B
      m == Mask(i.MB, i.ME)
      r == AndW(Rotated(gpr[i.D], n, junk), m)
  IN  Outcome(i, IF i.op = "rlwimi" THEN OrW(r, AndW(gpr[i.A], NotW(m))) ELSE r)

Rotate(i, junk) ==
  LET o == RotateOutcome(i, junk)
  IN  /\ i.op \in {"rlwimi", "rlwinm", "rlwnm"}
      /\ gpr' = [gpr EXCEPT ![i.A] = o.ac]
      /\ Complete(spr, o)

------------------------------------------------------------------------------
(* Comparisons and traps; D holds the field, or the conditions to trap on. *)

Compare(i) ==
  LET a == gpr[i.A]
      b == gpr[i.B]
      c == CASE i.op = "cmpli" -> Compared(a, i.SIMM, spr)
             [] i.op = "cmpi"  -> Compared(Signed(a), Signed(EXTS(i.SIMM)), spr)
             [] i.op = "cmpl"  -> Compared(a, b, spr)
             [] i.op = "cmp"   -> Compared(Signed(a), Signed(b), spr)
  IN  /\ i.op \in {"cmpli", "cmpi", "cmpl", "cmp"}
      /\ Complete(CR_put(spr, i.D, c), Outcome(i, c))
      /\ UNCHANGED gpr

\* The unsigned conditions of tw compare with EXTS(SIMM), and SIMM is 0 there.
TrapOn(i) ==
  LET a == gpr[i.A]
      b == IF i.op = "twi" THEN EXTS(i.SIMM) ELSE gpr[i.B]
      u == EXTS(i.SIMM)
  IN  \/ 16 \in i.TO /\ Signed(a) < Signed(b)
      \/ 8  \in i.TO /\ Signed(a) > Signed(b)
      \/ 4  \in i.TO /\ a = b
      \/ 2  \in i.TO /\ a < u
      \/ 1  \in i.TO /\ a > u

Trap(i) ==
  /\ i.op \in {"twi", "tw"}
  /\ IF TrapOn(i) THEN Fail(PROGRAM) ELSE Complete(spr, Outcome(i, EXTS(i.SIMM)))
  /\ UNCHANGED gpr

------------------------------------------------------------------------------
(* Moves from and to the special registers.                                *)

\* mtcrf takes the fields of i.FXM from the register and leaves the others.
MoveToCR(i) ==
  LET m == UNION {FieldBits(f) : f \in i.FXM}
  IN  /\ i.op = "mtcrf"
      /\ Complete([spr EXCEPT !["CR"] =
                     FromBits((BitsOf(@) \ m) \cup (BitsOf(gpr[i.D]) \cap m))],
                  [Outcome(i, 0) EXCEPT !.oe = FALSE])
      /\ UNCHANGED gpr

\* mcrxr clears what it has copied, and the byte count with it.
MoveXERToCR(i) ==
  /\ i.op = "mcrxr"
  /\ Complete([CR_put(spr, i.D, spr["XER"] \div 2 ^ (WBITS - 4)) EXCEPT !["XER"] = 0],
              [Outcome(i, 0) EXCEPT !.oe = FALSE])
  /\ UNCHANGED gpr

MoveFrom(i) ==
  /\ i.op \in {"mfcr", "mfmsr", "mfspr"}
  /\ gpr' = [gpr EXCEPT ![i.D] = spr[i.SPR]]
  /\ Complete(spr, Outcome(i, 0))

MoveTo(i) ==
  /\ i.op \in {"mtmsr", "mtspr"}
  /\ Complete([spr EXCEPT ![i.SPR] = gpr[i.D]], Outcome(i, 0))
  /\ UNCHANGED gpr

\* Caches, TLBs and barriers, which do nothing.
CacheOp(i) ==
  /\ i.op = "cache"
  /\ Complete(spr, [Outcome(i, 0) EXCEPT !.oe = FALSE])
  /\ UNCHANGED gpr

Integer(i, junk) ==
  /\ \/ Arithmetic(i)
     \/ Divide(i, junk)
     \/ Logic(i)
     \/ Extend(i)
     \/ ShiftRightAlgebraic(i)
     \/ Rotate(i, junk)
     \/ Compare(i)
     \/ Trap(i)
     \/ MoveToCR(i)
     \/ MoveXERToCR(i)
     \/ MoveFrom(i)
     \/ MoveTo(i)
     \/ CacheOp(i)
  /\ UNCHANGED <<vr, mem, reserve_valid, rsvd_addr, BTS>>
=============================================================================
