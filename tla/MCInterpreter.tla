---------------------------- MODULE MCInterpreter ----------------------------
EXTENDS Interpreter

\* An instruction with the fields that are not given.
I(op) == [op |-> op, D |-> 0, A |-> 0, B |-> 0, C |-> 0, SIMM |-> 0,
          RC |-> FALSE, OE |-> FALSE, x |-> FALSE, u |-> FALSE,
          BO |-> {16, 4}, BI |-> 0, LI |-> 0, AA |-> FALSE, LK |-> FALSE,
          MB |-> 0, ME |-> 0, TO |-> {}, FXM |-> {}, SPR |-> "CTR"]

DAB(op, d, a, b) == [I(op) EXCEPT !.D = d, !.A = a, !.B = b]
Imm(op, d, a, n) == [I(op) EXCEPT !.D = d, !.A = a, !.SIMM = n]
X(i) == [i EXCEPT !.x = TRUE]

\* n in r1:  mtctr r1; addi r2,r2,1; bdnz back
Loop ==
  [a \in {0, 4, 8} |->
     CASE a = 0 -> {[I("mtspr") EXCEPT !.D = 1]}
       [] a = 4 -> {Imm("addi", 2, 2, 1)}
       [] a = 8 -> {[I("bc") EXCEPT !.BO = {16}, !.LI = 12]}]

\* adde r0,r0,r2; adde r1,r1,r3
Wide ==
  [a \in {0, 4} |-> {DAB("adde", a \div 4, a \div 4, 2 + a \div 4)}]

\* stmw r0,0(r1); other values for r0, r2 and r3; lmw r0,0(r1)
Save ==
  [a \in {0, 4, 8, 12} |->
     CASE a = 0  -> {DAB("stmw", 0, 1, 0)}
       [] a = 4  -> {DAB("nor", 2, 0, 2)}
       [] a = 8  -> {DAB("neg", 3, 2, 0)}
       [] a = 12 -> {DAB("lmw", 0, 1, 0)}]

\* lswx r2 from r1; stswx r2 to 0
Copy ==
  [a \in {0, 4} |-> {X(IF a = 0 THEN DAB("lsw", 2, 1, 0) ELSE DAB("stsw", 2, 0, 0))}]

\* r2 reversed to memory and back into r3; its lower half into r0
Swap ==
  [a \in {0, 4, 8, 12} |->
     CASE a = 0  -> {X(DAB("stwbrx", 2, 0, 1))}
       [] a = 4  -> {X(DAB("lwbrx", 3, 0, 1))}
       [] a = 8  -> {X(DAB("sthbrx", 2, 0, 1))}
       [] a = 12 -> {X(DAB("lhbrx", 0, 0, 1))}]

\* rlwimi r2,r1 of every field; rlwinm r3,r2 of every field
Insert ==
  [a \in {0, 4} |->
     {[DAB(IF a = 0 THEN "rlwimi" ELSE "rlwinm", IF a = 0 THEN 1 ELSE 2,
           IF a = 0 THEN 2 ELSE 3, sh) EXCEPT !.MB = mb,
         !.ME = IF a = 0 THEN me ELSE WBITS - 1] :
        sh \in {1, 3, 4, 6}, mb \in 1 .. 5, me \in {n \in 1 .. 6 : a = 0 \/ n = 1}}]

\* cmp(l) 1,r1,r2; bc back
Branching ==
  [a \in {0, 4} |->
     IF a = 0 THEN {DAB(op, 1, 1, 2) : op \in {"cmp", "cmpl"}}
     ELSE {[I("bc") EXCEPT !.BO = bo, !.BI = bi, !.LI = 8] :
             bo \in {{4}, {4, 8}}, bi \in 4 .. 6}]

\* lwarx r2,0,r1; addi r2,r2,1; stwcx. r2,0,r1 or r3; the same again
Lock ==
  [a \in {0, 4, 8, 12} |->
     CASE a = 0 -> {X(DAB("lwarx", 2, 0, 1))}
       [] a = 4 -> {Imm("addi", 2, 2, 1)}
       [] OTHER -> {X(DAB("stwcx.", 2, 0, b)) : b \in {1, 3}}]

Ret == [I("bclr") EXCEPT !.BO = {16, 4}]
Call(d) == [I("b") EXCEPT !.LI = d, !.LK = TRUE]

\* A function that may call another, twice
Calls ==
  [a \in {0, 4, 12, 16, 20, 24, 28} |->
     CASE a \in {0, 4} -> {Call(12 - a)}
       [] a = 12 -> {[I("mfspr") EXCEPT !.D = 2, !.SPR = "LR"]}
       [] a = 16 -> {Call(12), Imm("addi", 3, 3, 1)}
       [] a = 20 -> {[I("mtspr") EXCEPT !.D = 2, !.SPR = "LR"]}
       [] OTHER  -> {Ret}]

\* Sums and differences of lanes, with mtvscr of zero between them
Saturate ==
  [a \in {0, 4, 8} |->
     {DAB(op, 0, 1, 2) : op \in {"vaddsbs", "vsubsbs", "vadduws"}}
       \cup (IF a = 4 THEN {DAB("mtvscr", 0, 0, 3)} ELSE {})]

\* A mask of v0 > v1, the maximum, the selection
Select(gt, mx) ==
  [a \in {0, 4, 8} |->
     CASE a = 0 -> {DAB(gt, 2, 0, 1)}
       [] a = 4 -> {DAB(mx, 3, 0, 1)}
       [] a = 8 -> {[DAB("vsel", 0, 1, 0) EXCEPT !.C = 2]}]

------------------------------------------------------------------------------
\* Any one instruction.

Bools == {TRUE, FALSE}

FreeInteger ==
  {[DAB(op, 3, 1, 2) EXCEPT !.SIMM = 9, !.RC = rc, !.OE = oe] :
     op \in ArithmeticOps \cup {"divwu", "divw"}, rc \in Bools, oe \in Bools}
  \cup {[DAB(op, 1, 3, 2) EXCEPT !.SIMM = 9, !.RC = rc] :
     op \in ImmediateLogic \cup RegisterLogic \cup
            {"extsh", "extsb", "sraw", "srawi", "rlwnm", "rlwimi"}, rc \in Bools}
  \cup {Imm(op, d, 1, 9) : op \in {"cmpli", "cmpi", "cmpl", "cmp"}, d \in Fields}
  \cup {[DAB(op, 0, 1, 2) EXCEPT !.SIMM = n, !.TO = {t}] :
     op \in {"twi", "tw"}, n \in {0, 9}, t \in {1, 2, 4, 8, 16}}
  \cup {[I(op) EXCEPT !.D = 1, !.FXM = {1}, !.SPR = "MSR"] :
     op \in {"mtcrf", "mcrxr", "mfcr", "mfmsr", "mfspr", "mtmsr", "mtspr", "cache"}}

FreeBranches ==
  {[I(op) EXCEPT !.BO = bo, !.BI = bi, !.LI = 12, !.AA = aa, !.LK = lk] :
     op \in {"bc", "b", "bclr", "bcctr"}, bo \in {{16, 4}, {}, {4, 8}, {16}},
     bi \in {0, 6}, aa \in Bools, lk \in Bools}
  \cup {DAB(op, 1, 0, 1) : op \in CROps \cup {"mcrf", "rfi", "sc", "isync"}}

FreeMemory ==
  {[Imm(op, 3, a, 2) EXCEPT !.B = 2, !.x = x, !.u = u] :
     op \in Loads \cup Stores \cup {"lwarx", "stwcx.", "lmw", "stmw", "lsw", "stsw"},
     a \in {0, 1}, x \in Bools, u \in Bools}

FreeVectors ==
  {[DAB(op, 3, 1, 2) EXCEPT !.RC = rc] : op \in VectorOps, rc \in Bools}

MCPrograms ==
  [p \in {"loop", "wide", "save", "copy", "swap", "insert", "branch", "lock", "calls",
          "saturate", "select_sb", "select_uh", "select_sw", "free", "sum"} |->
     CASE p = "loop"   -> Loop
       [] p = "wide"   -> Wide
       [] p = "save"   -> Save
       [] p = "copy"   -> Copy
       [] p = "swap"   -> Swap
       [] p = "insert" -> Insert
       [] p = "branch" -> Branching
       [] p = "lock"   -> Lock
       [] p = "calls"  -> Calls
       [] p = "saturate"  -> Saturate
       [] p = "select_sb" -> Select("vcmpgtsb", "vmaxsb")
       [] p = "select_uh" -> Select("vcmpgtuh", "vmaxuh")
       [] p = "select_sw" -> Select("vcmpgtsw", "vmaxsw")
       [] p = "free" -> [a \in {0} |-> FreeInteger \cup FreeBranches \cup FreeMemory
                                         \cup FreeVectors]
       [] p = "sum"  -> [a \in {0} |->
            {[DAB(op, 3, 1, 2) EXCEPT !.OE = TRUE] : op \in {"add", "addc", "adde", "subf"}}]]

------------------------------------------------------------------------------
\* What they start with.

Clear == [r \in SPRs |-> IF r = "MSR" THEN 2 ^ WBITS - 1 ELSE 0]
Marks == [x \in MemBytes |-> (x * 3 + x \div 4) % 2 ^ BYTE]
V(n)  == [k \in VecBytes |-> (n + k * n + k \div 3) % 2 ^ BYTE]
Vs    == [r \in VRegs |-> V(r)]
Flat(n) == [k \in VecBytes |-> n]

G(r0, r1, r2, r3) == [r \in Regs |-> <<r0, r1, r2, r3>>[r + 1]]
At(g) == [gpr |-> g, spr |-> Clear, vr |-> Vs, mem |-> Marks]
WithXER(s, x) == [s EXCEPT !.spr["XER"] = x]

Corners == {0, 1, 90, 127, 128, 200, 255}
Carry == 32

MCStarts ==
  [p \in DOMAIN MCPrograms |->
     CASE p = "loop" -> {At(G(0, n, 250, 0)) : n \in {0, 1, 2, 7}}
       [] p = "wide" -> {WithXER(At(G(a, b, c, 77)), x) :
                           a \in Corners, b \in {3, 178, 255}, c \in Corners, x \in {0, Carry}}
       [] p = "save" -> {At(G(a, b, 90, 201)) : a \in {0, 133}, b \in 0 .. 4}
       [] p = "copy" -> {WithXER(At(G(9, b, 90, 201)), x) : b \in 8 .. 12, x \in 0 .. 7}
       [] p = "swap" -> {At(G(9, b, c, 201)) : b \in {0, 5, 14}, c \in Corners \cup {27, 114}}
       [] p = "insert" -> {At(G(9, a, b, 201)) : a \in {27, 170, 255}, b \in {0, 90, 255}}
       [] p = "branch" -> {WithXER(At(G(9, a, b, 201)), x) :
                             a \in Corners, b \in Corners, x \in {0, 128}}
       [] p = "lock" -> {At(G(9, a, 0, b)) : a \in {4, 8}, b \in {4, 6, 8}}
       [] p = "calls" -> {At(G(0, 0, 0, 0))}
       [] p = "saturate" ->
            {[At(G(0, 0, 0, 0)) EXCEPT !.vr =
                [r \in VRegs |-> IF r = 1 THEN a ELSE IF r = 2 THEN b ELSE Flat(0)]] :
               a \in {Flat(0), Flat(2), V(1), V(3)}, b \in {Flat(0), Flat(1), V(2), V(3)}}
       [] p \in {"select_sb", "select_uh", "select_sw"} ->
            {[At(G(0, 0, 0, 0)) EXCEPT !.vr = [r \in VRegs |-> IF r = 0 THEN a ELSE b]] :
               a \in {V(1), V(2), V(3), Flat(2)}, b \in {V(1), V(2), Flat(1)}}
       [] p = "free" ->
            {[At(g) EXCEPT !.spr = [r \in SPRs |->
                CASE r = "MSR" -> m [] r = "XER" -> x [] r = "CR" -> 44 [] OTHER -> 8]] :
               g \in {G(0, 8, 3, 90), G(7, 128, 255, 254), G(200, 250, 0, 8)},
               m \in {0, 255}, x \in {0, 165}}
       [] p = "sum" -> {WithXER(At(G(0, a, b, 0)), x) :
                          a \in Corners, b \in Corners, x \in {0, Carry}}]

MCJunk == {0, 201}
=============================================================================
