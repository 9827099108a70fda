----------------------------- MODULE VectorUnit -----------------------------
(***************************************************************************)
(* The AltiVec instructions of sim_powerpc(), opcode 4, on integers.  A    *)
(* vector is its bytes; a half or a word of it is read and written in the  *)
(* order of the host, least significant byte first.  The definitions by    *)
(* case follow the order of the source, which is that of the extended      *)
(* opcode.  Left out: floating-point lanes, and the instructions whose     *)
(* result depends on how the union of ppcsim.h lays double words out.      *)
(***************************************************************************)
EXTENDS Processor

NB == Cardinality(VecBytes)

\* Lanes of a vector; in the code there are 16, 8 and 4.
Hf(v, k) == v[2 * k] + v[2 * k + 1] * 2 ^ BYTE
Wd(v, k) == Hf(v, 2 * k) + Hf(v, 2 * k + 1) * 2 ^ (2 * BYTE)

Halves == 0 .. NB \div 2 - 1
Wordz  == 0 .. NB \div 4 - 1

\* The value of the b low bits of x, with a sign.
Sgn(x, b) == LET u == x % 2 ^ b IN IF u >= 2 ^ (b - 1) THEN u - 2 ^ b ELSE u

Sb(v, k) == Sgn(v[k], BYTE)
Sh(v, k) == Sgn(Hf(v, k), 2 * BYTE)
Sw(v, k) == Sgn(Wd(v, k), WBITS)

\* A vector from its lanes; each assignment keeps the low bits.
Piece(x, k) == (x \div 2 ^ (BYTE * k)) % 2 ^ BYTE

OfB(L(_)) == [k \in VecBytes |-> L(k) % 2 ^ BYTE]
OfH(L(_)) == [k \in VecBytes |-> Piece(L(k \div 2) % 2 ^ (2 * BYTE), k % 2)]
OfW(L(_)) == [k \in VecBytes |-> Piece(L(k \div 4) % 2 ^ WBITS, k % 4)]

\* The larger and the smaller.
Larger(x, y)  == IF x >= y THEN x ELSE y
Smaller(x, y) == IF x <= y THEN x ELSE y
\* A mutation: a comparison sets one bit of the lane.
Ones_bit(test) == IF test THEN 1 ELSE 0

\* All ones or none.
Ones(test)    == IF test THEN -1 ELSE 0

\* The sum of f over S.
Total(S, f(_)) == MapThenSumSet(f, S)

\* Whole bytes to shift by, vB.b[15] >> 3.
Octets(v) == v[NB - 1] \div BYTE

RotB(x, n, b) == x * 2 ^ n + (x % 2 ^ b) \div 2 ^ (b - n)

Shamt(x, b) == x % b            \* & 0x07, 0x0F, 0x1F

------------------------------------------------------------------------------

Cases0(op, a, b) ==
  CASE op = "vaddubm"  -> OfB(LAMBDA k : a[k] + b[k])
    [] op = "vmaxub"   -> OfB(LAMBDA k : Larger(a[k], b[k]))
    [] op = "vrlb"     -> OfB(LAMBDA k : RotB(a[k], Shamt(b[k], BYTE), BYTE))
    [] op = "vcmpequb" -> OfB(LAMBDA k : Ones(a[k] = b[k]))
    [] op = "vmuloub"  -> OfH(LAMBDA k : a[2 * k + 1] * b[2 * k + 1])
    [] op = "vmrghb"   -> OfB(LAMBDA k : IF k % 2 = 0 THEN a[k \div 2] ELSE b[k \div 2])
    [] op = "vpkuhum"  -> OfB(LAMBDA k : IF k < NB \div 2 THEN a[2 * k + 1]
                                         ELSE b[2 * (k - NB \div 2) + 1])

\* vmsummbm adds a variable that was never set instead of the sum.
Cases36(op, a, b, c, n, junk) ==
  CASE op = "vmsumubm" -> OfW(LAMBDA k : Wd(c, k) + Total(4 * k .. 4 * k + 3,
                                                      LAMBDA j : a[j] * b[j]))
    [] op = "vmsummbm" -> OfW(LAMBDA k : Wd(c, k) + junk)
    [] op = "vmsumuhm" -> OfW(LAMBDA k : Wd(c, k) + Total(2 * k .. 2 * k + 1,
                                                      LAMBDA j : Hf(a, j) * Hf(b, j)))
    [] op = "vmsumshm" -> OfW(LAMBDA k : Wd(c, k) + Total(2 * k .. 2 * k + 1,
                                                      LAMBDA j : Sh(a, j) * Sh(b, j)))
    [] op = "vsel"     -> OfB(LAMBDA k : OrW(AndW(a[k], NotW(c[k])), AndW(b[k], c[k])))
    [] op = "vperm"    -> OfB(LAMBDA k : LET n1 == c[k] % (2 * NB)
                                         IN  IF n1 < NB THEN a[n1] ELSE b[n1 - NB])
    [] op = "vsldoi"   -> OfB(LAMBDA k : LET n1 == k + (n % NB)
                                         IN  IF n1 < NB THEN a[n1] ELSE b[n1 - NB])

Cases64(op, a, b) ==
  CASE op = "vadduhm"  -> OfH(LAMBDA k : Hf(a, k) + Hf(b, k))
    [] op = "vmaxuh"   -> OfH(LAMBDA k : Larger(Hf(a, k), Hf(b, k)))
    [] op = "vrlh"     -> OfH(LAMBDA k : RotB(Hf(a, k), Shamt(Hf(b, k), 2 * BYTE), 2 * BYTE))
    [] op = "vcmpequh" -> OfH(LAMBDA k : Ones(Hf(a, k) = Hf(b, k)))
    [] op = "vmulouh"  -> OfW(LAMBDA k : Hf(a, 2 * k + 1) * Hf(b, 2 * k + 1))
    [] op = "vmrghh"   -> OfH(LAMBDA k : Hf(IF k % 2 = 0 THEN a ELSE b, k \div 2))
    [] op = "vpkuwum"  -> OfH(LAMBDA k : IF k < NB \div 4 THEN Hf(a, 2 * k + 1)
                                         ELSE Hf(b, 2 * (k - NB \div 4) + 1))
    [] op = "vadduwm"  -> OfW(LAMBDA k : Wd(a, k) + Wd(b, k))
    [] op = "vmaxuw"   -> OfW(LAMBDA k : Larger(Wd(a, k), Wd(b, k)))
    [] op = "vrlw"     -> OfW(LAMBDA k : RotB(Wd(a, k), Shamt(Wd(b, k), WBITS), WBITS))
    [] op = "vcmpequw" -> OfW(LAMBDA k : Ones(Wd(a, k) = Wd(b, k)))
    [] op = "vmrghw"   -> OfW(LAMBDA k : Wd(IF k % 2 = 0 THEN a ELSE b, k \div 2))

Cases258(op, a, b) ==
  CASE op = "vmaxsb"   -> OfB(LAMBDA k : Larger(Sb(a, k), Sb(b, k)))
    [] op = "vslb"     -> OfB(LAMBDA k : a[k] * 2 ^ Shamt(b[k], BYTE))
    [] op = "vmulosb"  -> OfH(LAMBDA k : Sb(a, 2 * k + 1) * Sb(b, 2 * k + 1))
    [] op = "vmrglb"   -> OfB(LAMBDA k : (IF k % 2 = 0 THEN a ELSE b)[k \div 2 + NB \div 2])
    [] op = "vmaxsh"   -> OfH(LAMBDA k : Larger(Sh(a, k), Sh(b, k)))
    [] op = "vslh"     -> OfH(LAMBDA k : Hf(a, k) * 2 ^ Shamt(Hf(b, k), 2 * BYTE))
    [] op = "vmulosh"  -> OfW(LAMBDA k : Sh(a, 2 * k + 1) * Sh(b, 2 * k + 1))
    [] op = "vmrglh"   -> OfH(LAMBDA k : Hf(IF k % 2 = 0 THEN a ELSE b, k \div 2 + NB \div 4))

Cases386(op, a, b) ==
  CASE op = "vmaxsw"   -> OfW(LAMBDA k : Larger(Sw(a, k), Sw(b, k)))
    [] op = "vslw"     -> OfW(LAMBDA k : Wd(a, k) * 2 ^ Shamt(Wd(b, k), WBITS))
    [] op = "vmrglw"   -> OfW(LAMBDA k : Wd(IF k % 2 = 0 THEN a ELSE b, k \div 2 + NB \div 8))

\* `n' is the A field of the instruction, which a splat takes as an index.
Cases514(op, a, b, n) ==
  CASE op = "vminub"   -> OfB(LAMBDA k : Smaller(a[k], b[k]))
    [] op = "vsrb"     -> OfB(LAMBDA k : a[k] \div 2 ^ Shamt(b[k], BYTE))
    [] op = "vcmpgtub" -> OfB(LAMBDA k : Ones(a[k] > b[k]))
    [] op = "vmuleub"  -> OfH(LAMBDA k : a[2 * k] * b[2 * k])
    [] op = "vspltb"   -> OfB(LAMBDA k : b[n % NB])
    [] op = "vupkhsb"  -> OfH(LAMBDA k : Sb(b, k))
    [] op = "vminuh"   -> OfH(LAMBDA k : Smaller(Hf(a, k), Hf(b, k)))
    [] op = "vsrh"     -> OfH(LAMBDA k : Hf(a, k) \div 2 ^ Shamt(Hf(b, k), 2 * BYTE))
    [] op = "vcmpgtuh" -> OfH(LAMBDA k : Ones(Hf(a, k) > Hf(b, k)))
    [] op = "vmuleuh"  -> OfW(LAMBDA k : Hf(a, 2 * k) * Hf(b, 2 * k))
    [] op = "vsplth"   -> OfH(LAMBDA k : Hf(b, n % (NB \div 2)))
    [] op = "vupkhsh"  -> OfW(LAMBDA k : Sh(b, k))

Cases642(op, a, b, n) ==
  CASE op = "vminuw"   -> OfW(LAMBDA k : Smaller(Wd(a, k), Wd(b, k)))
    [] op = "vsrw"     -> OfW(LAMBDA k : Wd(a, k) \div 2 ^ Shamt(Wd(b, k), WBITS))
    [] op = "vcmpgtuw" -> OfW(LAMBDA k : Ones(Wd(a, k) > Wd(b, k)))
    [] op = "vspltw"   -> OfW(LAMBDA k : Wd(b, n % (NB \div 4)))
    [] op = "vupklsb"  -> OfH(LAMBDA k : Sb(b, k + NB \div 2))
    [] op = "vupklsh"  -> OfW(LAMBDA k : Sh(b, k + NB \div 4))

\* A splatted immediate is a five-bit field with a sign.
Cases770(op, a, b, n) ==
  CASE op = "vminsb"   -> OfB(LAMBDA k : Smaller(Sb(a, k), Sb(b, k)))
    [] op = "vsrab"    -> OfB(LAMBDA k : Sb(a, k) \div 2 ^ Shamt(b[k], BYTE))
    [] op = "vcmpgtsb" -> OfB(LAMBDA k : Ones(Sb(a, k) > Sb(b, k)))
    [] op = "vmulesb"  -> OfH(LAMBDA k : Sb(a, 2 * k) * Sb(b, 2 * k))
    [] op = "vspltisb" -> OfB(LAMBDA k : Sgn(n, 5))
    [] op = "vminsh"   -> OfH(LAMBDA k : Smaller(Sh(a, k), Sh(b, k)))
    [] op = "vsrah"    -> OfH(LAMBDA k : Sh(a, k) \div 2 ^ Shamt(Hf(b, k), 2 * BYTE))
    [] op = "vcmpgtsh" -> OfH(LAMBDA k : Ones(Sh(a, k) > Sh(b, k)))
    [] op = "vmulesh"  -> OfW(LAMBDA k : Sh(a, 2 * k) * Sh(b, 2 * k))
    [] op = "vspltish" -> OfH(LAMBDA k : Sgn(n, 5))
    [] op = "vminsw"   -> OfW(LAMBDA k : Smaller(Sw(a, k), Sw(b, k)))
    [] op = "vsraw"    -> OfW(LAMBDA k : Sw(a, k) \div 2 ^ Shamt(Wd(b, k), WBITS))
    [] op = "vcmpgtsw" -> OfW(LAMBDA k : Ones(Sw(a, k) > Sw(b, k)))
    [] op = "vspltisw" -> OfW(LAMBDA k : Sgn(n, 5))

\* The sum of vavguw is a word: its carry is lost.
Cases1024(op, a, b) ==
  CASE op = "vsububm"  -> OfB(LAMBDA k : a[k] - b[k])
    [] op = "vavgub"   -> OfB(LAMBDA k : (a[k] + b[k] + 1) \div 2)
    [] op = "vand"     -> OfB(LAMBDA k : AndW(a[k], b[k]))
    [] op = "vslo"     -> OfB(LAMBDA k : LET n == k + Octets(b) IN IF n < NB THEN a[n] ELSE 0)
    [] op = "vsubuhm"  -> OfH(LAMBDA k : Hf(a, k) - Hf(b, k))
    [] op = "vavguh"   -> OfH(LAMBDA k : (Hf(a, k) + Hf(b, k) + 1) \div 2)
    [] op = "vandc"    -> OfB(LAMBDA k : AndW(a[k], NotW(b[k])))
    [] op = "vsro"     -> OfB(LAMBDA k : LET n == k - Octets(b) IN IF n >= 0 THEN a[n] ELSE 0)
    [] op = "vsubuwm"  -> OfW(LAMBDA k : Wd(a, k) - Wd(b, k))
    [] op = "vavguw"   -> OfW(LAMBDA k : Low(Wd(a, k) + Wd(b, k) + 1) \div 2)
    [] op = "vor"      -> OfB(LAMBDA k : OrW(a[k], b[k]))
    [] op = "vxor"     -> OfB(LAMBDA k : XorW(a[k], b[k]))

Cases1282(op, a, b) ==
  CASE op = "vavgsb"   -> OfB(LAMBDA k : (Sb(a, k) + Sb(b, k) + 1) \div 2)
    [] op = "vnor"     -> OfB(LAMBDA k : NotW(OrW(a[k], b[k])))
    [] op = "vavgsh"   -> OfH(LAMBDA k : (Sh(a, k) + Sh(b, k) + 1) \div 2)
    [] op = "vavgsw"   -> OfW(LAMBDA k : (Sw(a, k) + Sw(b, k) + 1) \div 2)

------------------------------------------------------------------------------
(* Saturation.  The macros look at the bits between the wanted width b and *)
(* the sign of a container of n bits: for a negative number that fits they *)
(* are set, and the number is saturated; between the greatest signed and   *)
(* the greatest unsigned they are not, and it is kept.                     *)

UISat(x, b) == IF x \in 0 .. 2 ^ b - 1 THEN x ELSE 2 ^ b - 1

Between(x, b, n) == (x % 2 ^ (n - 1)) \div 2 ^ b # 0

SISat(x, b, n) ==
  IF ~ Between(x, b, n) THEN x % 2 ^ n
  ELSE IF x < 0 THEN 2 ^ (b - 1) ELSE 2 ^ (b - 1) - 1

SUSat(x, b, n) ==
  IF ~ Between(x, b, n) THEN x % 2 ^ n ELSE IF x < 0 THEN 0 ELSE 2 ^ b - 1

\* A mutation: saturation forgets the sign.
Clip_unsigned(x, b) == UISat(x, b - 1)

\* vaddsbs and its like compare with the bounds.
Clip(x, b) ==
  IF x < - (2 ^ (b - 1)) THEN - (2 ^ (b - 1))
  ELSE IF x > 2 ^ (b - 1) - 1 THEN 2 ^ (b - 1) - 1 ELSE x

\* The product sums are int, and wrap.
ProdU(a, b, k) == Sgn(Total(2 * k .. 2 * k + 1, LAMBDA j : Hf(a, j) * Hf(b, j)), WBITS)
ProdS(a, b, k) == Sgn(Total(2 * k .. 2 * k + 1, LAMBDA j : Sh(a, j) * Sh(b, j)), WBITS)

(* Each gives its result and whether it sets VSCR[SAT].                    *)
vmsumuhs(a, b, c) ==
  LET l(k) == Wd(c, k) + ProdU(a, b, k)
  IN  [v |-> OfW(LAMBDA k : UISat(l(k), WBITS)),
       sat |-> \E k \in Wordz : l(k) \notin Word]

vmsumshs(a, b, c) ==
  LET l(k) == Sw(c, k) + ProdS(a, b, k)
  IN  [v |-> OfW(LAMBDA k : SISat(l(k), WBITS, 2 * WBITS)),
       sat |-> \E k \in Wordz : Low(SISat(l(k), WBITS, 2 * WBITS)) # l(k)]

\* vpkuhus and vpkuwus test the wrong lane for their second half.
vpkuhus(a, b) ==
  LET d(k) == IF k < NB \div 2 THEN UISat(Hf(a, k), BYTE)
              ELSE UISat(Hf(b, k - NB \div 2), BYTE)
  IN  [v |-> OfB(d), sat |-> \E k \in Halves : d(k) # Hf(a, k) \/ d(k) # Hf(b, k)]

vpkuwus(a, b) ==
  LET d(k) == IF k < NB \div 4 THEN UISat(Wd(a, k), 2 * BYTE)
              ELSE UISat(Wd(b, k - NB \div 4), 2 * BYTE)
  IN  [v |-> OfH(d), sat |-> \E k \in Wordz : d(k) # Wd(a, k) \/ d(k) # Wd(b, k)]

\* The words of both operands, one after the other.
BothWords(a, b, k) == IF k < NB \div 4 THEN Sw(a, k) ELSE Sw(b, k - NB \div 4)

vpkswus(a, b) ==
  LET d(k) == SUSat(BothWords(a, b, k), 2 * BYTE, WBITS)
  IN  [v |-> OfH(d),
       sat |-> \E k \in Halves : d(k) % 2 ^ (2 * BYTE) # Low(BothWords(a, b, k))]

vpkswss(a, b) ==
  LET d(k) == SISat(BothWords(a, b, k), 2 * BYTE, WBITS)
  IN  [v |-> OfH(d), sat |-> \E k \in Halves : Sgn(d(k), 2 * BYTE) # BothWords(a, b, k)]

vadduws(a, b) ==
  [v |-> OfW(LAMBDA k : UISat(Wd(a, k) + Wd(b, k), WBITS)),
   sat |-> \E k \in Wordz : Wd(a, k) + Wd(b, k) \notin Word]

vaddsbs(a, b) ==
  LET x(k) == Sb(a, k) + Sb(b, k)
  IN  [v |-> OfB(LAMBDA k : Clip(x(k), BYTE)), sat |-> \E k \in VecBytes : x(k) # Clip(x(k), BYTE)]

\* vaddshs also compares two variables that were never set.
vaddshs(a, b, junk) ==
  LET x(k) == Sh(a, k) + Sh(b, k)
  IN  [v |-> OfH(LAMBDA k : Clip(x(k), 2 * BYTE)),
       sat |-> junk # 0 \/ \E k \in Halves : x(k) # Clip(x(k), 2 * BYTE)]

vsubsbs(a, b) ==
  LET x(k) == Sb(a, k) - Sb(b, k)
  IN  [v |-> OfB(LAMBDA k : Clip(x(k), BYTE)), sat |-> \E k \in VecBytes : x(k) # Clip(x(k), BYTE)]

\* The running sum after lane k; only the last one, saturated, is kept.
vsumsws(a, b) ==
  LET last == NB \div 4 - 1
      sum(k) == Sw(b, last) + Total(0 .. k, LAMBDA j : Sw(a, j))
      d(k) == SISat(sum(k), WBITS, 2 * WBITS)
  IN  [v |-> OfW(LAMBDA k : IF k = last THEN d(last) ELSE 0),
       sat |-> \E k \in Wordz : d(k) # sum(k)]

------------------------------------------------------------------------------

Cases0Ops == {"vaddubm", "vmaxub", "vrlb", "vcmpequb", "vmuloub", "vmrghb", "vpkuhum"}
Cases36Ops == {"vmsumubm", "vmsummbm", "vmsumuhm", "vmsumshm", "vsel", "vperm", "vsldoi"}
Cases64Ops == {"vadduhm", "vmaxuh", "vrlh", "vcmpequh", "vmulouh", "vmrghh", "vpkuwum",
               "vadduwm", "vmaxuw", "vrlw", "vcmpequw", "vmrghw"}
Cases258Ops == {"vmaxsb", "vslb", "vmulosb", "vmrglb", "vmaxsh", "vslh", "vmulosh", "vmrglh"}
Cases386Ops == {"vmaxsw", "vslw", "vmrglw"}
Cases514Ops == {"vminub", "vsrb", "vcmpgtub", "vmuleub", "vspltb", "vupkhsb", "vminuh",
                "vsrh", "vcmpgtuh", "vmuleuh", "vsplth", "vupkhsh"}
Cases642Ops == {"vminuw", "vsrw", "vcmpgtuw", "vspltw", "vupklsb", "vupklsh"}
Cases770Ops == {"vminsb", "vsrab", "vcmpgtsb", "vmulesb", "vspltisb", "vminsh", "vsrah",
                "vcmpgtsh", "vmulesh", "vspltish", "vminsw", "vsraw", "vcmpgtsw", "vspltisw"}
Cases1024Ops == {"vsububm", "vavgub", "vand", "vslo", "vsubuhm", "vavguh", "vandc", "vsro",
                 "vsubuwm", "vavguw", "vor", "vxor"}
Cases1282Ops == {"vavgsb", "vnor", "vavgsh", "vavgsw"}

LaneOps == UNION {Cases0Ops, Cases36Ops, Cases64Ops, Cases258Ops, Cases386Ops, Cases514Ops,
                  Cases642Ops, Cases770Ops, Cases1024Ops, Cases1282Ops}

Lanes(i, junk) ==
  LET a == vr[i.A % NVR]
      b == vr[i.B]
      c == vr[i.C % NVR]
  IN  CASE i.op \in Cases0Ops    -> Cases0(i.op, a, b)
        [] i.op \in Cases36Ops   -> Cases36(i.op, a, b, c, i.C, junk)
        [] i.op \in Cases64Ops   -> Cases64(i.op, a, b)
        [] i.op \in Cases258Ops  -> Cases258(i.op, a, b)
        [] i.op \in Cases386Ops  -> Cases386(i.op, a, b)
        [] i.op \in Cases514Ops  -> Cases514(i.op, a, b, i.A)
        [] i.op \in Cases642Ops  -> Cases642(i.op, a, b, i.A)
        [] i.op \in Cases770Ops  -> Cases770(i.op, a, b, i.A)
        [] i.op \in Cases1024Ops -> Cases1024(i.op, a, b)
        [] i.op \in Cases1282Ops -> Cases1282(i.op, a, b)

Comparisons == {"vcmpequb", "vcmpequh", "vcmpequw", "vcmpgtub", "vcmpgtuh", "vcmpgtuw",
                "vcmpgtsb", "vcmpgtsh", "vcmpgtsw"}

\* What a recording comparison puts into CR6: 8 for all, 2 for none.
AllOrNone(v) ==
  (IF \A k \in VecBytes : v[k] = 2 ^ BYTE - 1 THEN 8 ELSE 0)
    + (IF \A k \in VecBytes : v[k] = 0 THEN 2 ELSE 0)

VectorLanes(i, junk) ==
  LET v == Lanes(i, junk)
  IN  /\ i.op \in LaneOps
      /\ vr' = [vr EXCEPT ![i.D] = v]
      /\ Complete(spr, IF i.op \in Comparisons
                         THEN [Outcome(i, AllOrNone(v)) EXCEPT !.vrc = i.RC, !.rc = FALSE]
                         ELSE Outcome(i, 0))

SaturatingOps == {"vmsumuhs", "vmsumshs", "vpkuhus", "vpkuwus", "vpkswus", "vpkswss",
                  "vadduws", "vaddsbs", "vaddshs", "vsubsbs", "vsumsws"}

Saturated(i, a, b, c, junk) ==
  CASE i.op = "vmsumuhs" -> vmsumuhs(a, b, c)
    [] i.op = "vmsumshs" -> vmsumshs(a, b, c)
    [] i.op = "vpkuhus"  -> vpkuhus(a, b)
    [] i.op = "vpkuwus"  -> vpkuwus(a, b)
    [] i.op = "vpkswus"  -> vpkswus(a, b)
    [] i.op = "vpkswss"  -> vpkswss(a, b)
    [] i.op = "vadduws"  -> vadduws(a, b)
    [] i.op = "vaddsbs"  -> vaddsbs(a, b)
    [] i.op = "vaddshs"  -> vaddshs(a, b, junk)
    [] i.op = "vsubsbs"  -> vsubsbs(a, b)
    [] i.op = "vsumsws"  -> vsumsws(a, b)

VectorSaturating(i, junk) ==
  LET s == Saturated(i, vr[i.A], vr[i.B], vr[i.C], junk)
  IN  /\ i.op \in SaturatingOps
      /\ vr' = [vr EXCEPT ![i.D] = s.v]
      /\ Complete(spr, [Outcome(i, 0) EXCEPT !.sat = s.sat])

MoveVSCR(i) ==
  \/ /\ i.op = "mfvscr"
     /\ vr' = [vr EXCEPT ![i.D] =
                 OfW(LAMBDA k : IF k = NB \div 4 - 1 THEN spr["VSCR"] ELSE 0)]
     /\ Complete(spr, Outcome(i, 0))
  \/ /\ i.op = "mtvscr"
     /\ Complete([spr EXCEPT !["VSCR"] = Wd(vr[i.B], NB \div 4 - 1)], Outcome(i, 0))
     /\ UNCHANGED vr

\* A mutation: the vector unit is always available.
Available_always(s) == TRUE

\* The check of MSR before any of them.
Available(s) == Bit(s["MSR"], MSR_AV)

VectorOps == UNION {LaneOps, SaturatingOps, {"mfvscr", "mtvscr"}}

Vectors(i, junk) ==
  /\ \/ i.op \in VectorOps /\ ~ Available(spr) /\ Fail(NO_AV) /\ UNCHANGED vr
     \/ Available(spr) /\ (VectorLanes(i, junk) \/ VectorSaturating(i, junk) \/ MoveVSCR(i))
  /\ UNCHANGED <<gpr, mem, reserve_valid, rsvd_addr, BTS>>
=============================================================================
