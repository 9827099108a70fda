----------------------------- MODULE Interpreter -----------------------------
(***************************************************************************)
(* sim_powerpc() of ppcsim.c executing programs: each step is one          *)
(* instruction from the one under CIA to the next or to an exception,      *)
(* which ends the run.  A program maps addresses to the instructions that  *)
(* may stand there, so that one entry stands for all programs that differ  *)
(* in them; it ends at the first address it does not map.                  *)
(***************************************************************************)
EXTENDS IntegerUnit, BranchUnit, LoadStoreUnit, VectorUnit

CONSTANTS
  Programs,   \* name -> [address -> set of instructions]
  Starts      \* name -> set of [gpr, spr, vr, mem], what it may start with

\* The fields of an instruction, as the decoder masks them out of the opcode.
FieldCompares == {"cmpli", "cmpi", "cmpl", "cmp", "mcrxr"}
ImmediateShifts == {"srawi", "rlwimi", "rlwinm"}

RegisterOps ==
  UNION {ArithmeticOps, {"divwu", "divw"}, ImmediateLogic, RegisterLogic,
         {"extsh", "extsb", "sraw", "rlwnm", "twi", "tw"},
         {"mtcrf", "mfcr", "mfmsr", "mfspr", "mtmsr", "mtspr"},
         Loads, Stores, {"lwarx", "stwcx.", "lmw", "stmw"}}

Decoded(i) ==
  /\ i.SIMM \in Half
  /\ i.LI \in Nat
  /\ i.SPR \in SPRs \ {"VSCR"}
  /\ i.op \in RegisterOps => {i.D, i.A, i.B} \subseteq Regs
  /\ i.op \in ImmediateShifts => {i.D, i.A} \subseteq Regs /\ i.B \in 0 .. WBITS - 1
  /\ i.op \in {"lsw", "stsw"} => {i.D, i.A} \subseteq Regs /\ i.B \in Nat
  /\ i.op \in FieldCompares => i.D \in Fields /\ {i.A, i.B} \subseteq Regs
  /\ i.op = "mcrf" => {i.D, i.A} \subseteq Fields
  /\ i.op \in CROps => {i.D, i.A, i.B} \subseteq 0 .. WBITS - 1

\* The special registers; VSCR belongs to the vector unit.
SpecialRegisters(s) ==
  DOMAIN s = SPRs /\ \A r \in SPRs \ {"VSCR"} : s[r] \in Word

\* Whatever may stand anywhere in a program.
Instructions ==
  UNION {UNION {Programs[p][a] : a \in DOMAIN Programs[p]} : p \in DOMAIN Programs}

ASSUME ProgramsAssumption ==
  /\ DOMAIN Programs = DOMAIN Starts
  /\ \A i \in Instructions : Decoded(i)
  /\ \A p \in DOMAIN Starts : \A e \in Starts[p] :
       /\ e.gpr \in [Regs -> Word]
       /\ SpecialRegisters(e.spr)
       /\ e.mem \in [MemBytes -> Byte]

VARIABLES
  prog,       \* the program that runs
  entry,      \* history: the registers and the memory it started with
  ir,         \* history: the instructions executed last, newest first
  calls,      \* history: the addresses of the calls that have not returned
  clipped     \* history: a lane has been saturated since VSCR was written

vars == <<gpr, spr, vr, mem, reserve_valid, rsvd_addr, BTS, CIA, ret,
          prog, entry, ir, calls, clipped>>

Init ==
  /\ prog \in DOMAIN Programs
  /\ entry \in Starts[prog]
  /\ gpr = entry.gpr
  /\ spr = entry.spr
  /\ vr = entry.vr
  /\ mem = entry.mem
  /\ reserve_valid = FALSE
  /\ rsvd_addr = 0
  /\ BTS = <<>>
  /\ CIA = 0
  /\ ret = 0
  /\ ir = <<>>
  /\ calls = <<>>
  /\ clipped = FALSE

Running == ret = 0 /\ CIA \in DOMAIN Programs[prog]

\* What a program takes as its calls: a linking branch that jumped is one, a
\* branch to LR that jumped returns from the last.
Jumped == ret' = 0 /\ CIA' # NIA

Returned(i) ==
  IF i.op = "bclr" /\ Jumped /\ calls # <<>>
    THEN SubSeq(calls, 1, Len(calls) - 1) ELSE calls

CallsAfter(i) ==
  IF i.op \in {"b", "bc", "bclr", "bcctr"} /\ i.LK /\ Jumped
    THEN Append(Returned(i), CIA) ELSE Returned(i)

\* A sum of two signed lanes that does not fit one, by the architecture.
Clips(i) ==
  LET a == vr[i.A]
      b == vr[i.B]
  IN  CASE i.op = "vaddsbs" ->
             \E k \in VecBytes : ~ Sb(a, k) + Sb(b, k) \in -(2 ^ (BYTE - 1)) .. 2 ^ (BYTE - 1) - 1
        [] i.op = "vsubsbs" ->
             \E k \in VecBytes : ~ Sb(a, k) - Sb(b, k) \in -(2 ^ (BYTE - 1)) .. 2 ^ (BYTE - 1) - 1
        [] i.op = "vadduws" -> \E k \in Wordz : Wd(a, k) + Wd(b, k) >= 2 ^ WBITS
        [] OTHER -> FALSE

ClippedAfter(i) ==
  IF i.op = "mtvscr" /\ ret' = 0 THEN FALSE
  ELSE clipped \/ (ret' = 0 /\ Clips(i))

Step(i, junk) ==
  /\ \/ Integer(i, junk)
     \/ Branches(i, junk)
     \/ LoadsAndStores(i, junk)
     \/ Vectors(i, junk)
  /\ ir' = <<i>> \o SubSeq(ir, 1, Min({1, Len(ir)}))
  /\ calls' = CallsAfter(i)
  /\ clipped' = ClippedAfter(i)
  /\ UNCHANGED <<prog, entry>>

Next == Running /\ \E i \in Programs[prog][CIA], junk \in Junk : Step(i, junk)

Spec == Init /\ [][Next]_vars

Ended == ret = 0 /\ CIA \notin DOMAIN Programs[prog]

------------------------------------------------------------------------------
(* What the instructions compute together, by the programs of the run that *)
(* are written for it.  Registers are as in those programs.                *)

(* A bdnz loop entered with n in CTR runs n times, and 2^32 times for 0:   *)
(* CTR wraps below zero and is compared after it is decremented.           *)
LoopRunsCtrTimes ==
  prog = "loop" /\ Ended =>
    /\ spr["CTR"] = 0
    /\ gpr[2] = Low(entry.gpr[2] + entry.gpr[1])

(* Two adde in a row carry from one word to the next: a pair of registers  *)
(* becomes the sum of two pairs and the carry before.                      *)
WideSumIsExact ==
  prog = "wide" /\ Ended =>
    LET M == 2 ^ WBITS
        e == entry.gpr
    IN  gpr[1] * M + gpr[0] + XER_CA(spr) * M * M
          = (e[1] * M + e[0]) + (e[3] * M + e[2]) + XER_CA(entry.spr)

(* What was stored comes back, by whole registers, reversed or byte by     *)
(* byte, whatever the alignment; and of the registers, rlwimi puts the low *)
(* bits of one into a field of another and leaves the rest of it, and the  *)
(* rlwinm that rotates the field down again and masks as many bits gets    *)
(* them out.                                                               *)
CopiesAreExact ==
  Ended =>
    /\ prog = "save" => gpr = entry.gpr
    /\ prog = "copy" => \A k \in 0 .. MEM - 1 :
         mem[k] = entry.mem[IF k < ByteCount(entry.spr) THEN entry.gpr[1] + k ELSE k]
    /\ prog = "swap" => gpr[3] = gpr[2] /\ gpr[0] = gpr[2] % 2 ^ (2 * BYTE)
    /\ prog = "insert" =>
         LET mb == ir[2].MB
             me == ir[2].ME
         IN  ir[2].B = WBITS - 1 - me /\ ir[1].B = me + 1 /\ ir[1].MB = WBITS - 1 - (me - mb) =>
               /\ gpr[3] = entry.gpr[1] % 2 ^ (me - mb + 1)
               /\ BitsOf(gpr[2]) \ (mb .. me) = BitsOf(entry.gpr[2]) \ (mb .. me)

(* The branch after a comparison goes where the relation of the operands,  *)
(* signed or not, says (8 is the address after it); and a selection by the *)
(* mask of a comparison of vectors gives the greater of each lane.         *)
ChoiceFollowsCompare ==
  Ended =>
    /\ prog = "branch" =>
         LET a == entry.gpr[1]
             b == entry.gpr[2]
             less == IF ir[2].op = "cmp" THEN Signed(a) < Signed(b) ELSE a < b
             holds == CASE ir[1].BI % 4 = 0 -> less
                        [] ir[1].BI % 4 = 1 -> ~ less /\ a # b
                        [] ir[1].BI % 4 = 2 -> a = b
         IN  (CIA # 8) = (holds = (8 \in ir[1].BO))
    /\ prog \in {"select_sb", "select_uh", "select_sw"} => vr[0] = vr[3]

(* A reservation lets one conditional store through: of two that follow    *)
(* one lwarx only the first can find EQ set and store.                     *)
ReservationUsedOnce ==
  prog = "lock" /\ Ended =>
    /\ CR_get(spr, 0) \div 2 % 2 = 0
    /\ \A k \in 0 .. MEM - 1 :
         mem[k] # entry.mem[k] => k \in entry.gpr[1] .. entry.gpr[1] + 3

(* The backtrace shows the calls that have not returned, if every linking  *)
(* branch jumps and the stack is deep enough.                              *)
BacktraceIsCallStack ==
  prog = "calls" => BTS = calls

(* An instruction that raises an exception has changed nothing that a      *)
(* retry or the user would see, but for the multiple and string forms.     *)
Multiples == {"lmw", "stmw", "lsw", "stsw"}

PreciseFaults ==
  [][ret' # 0 =>
       /\ UNCHANGED <<CIA, spr, vr, BTS>>
       /\ ir'[1].op \notin Multiples => UNCHANGED <<gpr, mem>>]_vars

(* Overflow is a signed concept: OV after an addition that asks for it     *)
(* tells whether the signed sum fits a word.                               *)
Fits(x) == x \in -(2 ^ (WBITS - 1)) .. 2 ^ (WBITS - 1) - 1

OverflowIsSigned ==
  [][ir'[1].op \in {"add", "addc", "adde"} /\ ir'[1].OE /\ ret' = 0 =>
       OV(spr') = ~ Fits(Signed(gpr[ir'[1].A]) + Signed(gpr[ir'[1].B])
                           + (IF ir'[1].op = "adde" THEN XER_CA(spr) ELSE 0))]_vars

(* VSCR[SAT] remembers every lane that was clipped, until VSCR is written. *)
SaturationIsRecorded ==
  prog = "saturate" => (spr["VSCR"] % 2 = 1) = clipped
=============================================================================
