------------------------------ MODULE BranchUnit ------------------------------
(***************************************************************************)
(* The branches of sim_powerpc(), the CR logic that shares their opcode,   *)
(* sc and rfi, and the backtrace stack that branches keep.  The fields of  *)
(* an instruction: BO, a set of bit values; BI; LI; AA and LK.             *)
(***************************************************************************)
EXTENDS Processor

\* Bits of the displacement of b, the low two of them 0; 26 in the code.
LIBITS == WBITS - 2

\* A push when the stack is full is dropped; the pop for it is not.
backtrace_add(stack, a) ==
  IF Len(stack) - 1 < BACKTRACE_MAX THEN Append(stack, a) ELSE stack

\* A mutation: the oldest entry is popped.
backtrace_pop_oldest(stack) ==
  IF Len(stack) > 0 THEN SubSeq(stack, 2, Len(stack)) ELSE stack

backtrace_pop(stack) ==
  IF Len(stack) > 0 THEN SubSeq(stack, 1, Len(stack) - 1) ELSE stack

Linked(s) == [s EXCEPT !["LR"] = NIA]

\* CTR after a branch with this BO.
Counted(s, BO) == IF 4 \in BO THEN s ELSE [s EXCEPT !["CTR"] = Low(@ - 1)]

\* A mutation: CTR is compared before it is decremented.
CtrOk_before(s, BO) == 4 \in BO \/ (Low(s["CTR"] + 1) # 0) # (2 \in BO)

\* The two conditions BO selects.
CtrOk(s, BO) == 4 \in BO \/ (s["CTR"] # 0) # (2 \in BO)

CondOk(s, BO, BI) == 16 \in BO \/ Bit(s["CR"], BI) = (8 \in BO)

\* bc: the link and the push come before the condition is known.
BranchConditional(i) ==
  LET s == Counted(IF i.LK THEN Linked(spr) ELSE spr, i.BO)
      target == Low((IF i.AA THEN 0 ELSE CIA) + EXTS(i.LI))
      taken == CtrOk(s, i.BO) /\ CondOk(s, i.BO, i.BI)
  IN  /\ i.op = "bc"
      /\ CompleteTo(s, Outcome(i, 0), IF taken THEN target ELSE NIA)
      /\ BTS' = IF i.LK THEN backtrace_add(BTS, CIA) ELSE BTS

\* The 26 bits of LI, sign-extended.
ExtLI(li) == IF li >= 2 ^ (LIBITS - 1) THEN li + 2 ^ WBITS - 2 ^ LIBITS ELSE li

Branch(i) ==
  /\ i.op = "b"
  /\ CompleteTo(IF i.LK THEN Linked(spr) ELSE spr, Outcome(i, 0),
                Low((IF i.AA THEN 0 ELSE CIA) + ExtLI(i.LI)))
  /\ BTS' = IF i.LK THEN backtrace_add(BTS, CIA) ELSE BTS

(* bclr and bcctr.  Unless BO is 1z1zz they may decrement CTR, but do not  *)
(* look at it.  RC was decoded from the bit that is LK here, so that a     *)
(* linking one records `ac' in CR0: the CR, or for 1z1zz whatever it       *)
(* holds.  OE was decoded from the opcode of bcctr.                        *)
Always(BO) == {16, 4} \subseteq BO

BranchToRegister(i, junk) ==
  LET s == IF Always(i.BO) THEN spr ELSE Counted(spr, i.BO)
      taken == Always(i.BO) \/ CondOk(s, i.BO, i.BI)
      target == s[IF i.op = "bcctr" THEN "CTR" ELSE "LR"]
      popped == IF i.op = "bclr" THEN backtrace_pop(BTS) ELSE BTS
  IN  /\ i.op \in {"bclr", "bcctr"}
      /\ CompleteTo(IF taken /\ i.LK THEN Linked(s) ELSE s,
                    [Outcome(i, IF Always(i.BO) THEN junk ELSE s["CR"]) EXCEPT
                       !.rc = i.LK, !.oe = (i.op = "bcctr")],
                    IF taken THEN target ELSE NIA)
      /\ BTS' = IF ~ taken THEN BTS
                ELSE IF i.LK THEN backtrace_add(popped, CIA) ELSE popped

\* mcrf and the operations on CR bits.
MoveCRField(i) ==
  /\ i.op = "mcrf"
  /\ Complete(CR_put(spr, i.D, CR_get(spr, i.A)), Outcome(i, 0))
  /\ UNCHANGED BTS

CROps == {"crnor", "crandc", "crxor", "crnand", "crand", "creqv", "crorc", "cror"}

CRLogic(i) ==
  /\ i.op \in CROps
  /\ Complete(CR_ops(spr, i.op, i.A, i.B, i.D), Outcome(i, 0))
  /\ UNCHANGED BTS

\* rfi computes the MSR to keep and then stores only what SRR1 brings.
ReturnFromInterrupt(i) ==
  /\ i.op = "rfi"
  /\ CompleteTo([spr EXCEPT !["MSR"] = AndW(spr["SRR1"], FromBits(RfiBits))],
                Outcome(i, 0), 4 * (spr["SRR0"] \div 4))
  /\ UNCHANGED BTS

SystemCall(i) ==
  /\ i.op = "sc"
  /\ Fail(SYSCALL)
  /\ UNCHANGED BTS

Synchronize(i) ==
  /\ i.op = "isync"
  /\ Complete(spr, Outcome(i, 0))
  /\ UNCHANGED BTS

Branches(i, junk) ==
  /\ \/ BranchConditional(i)
     \/ Branch(i)
     \/ BranchToRegister(i, junk)
     \/ MoveCRField(i)
     \/ CRLogic(i)
     \/ ReturnFromInterrupt(i)
     \/ SystemCall(i)
     \/ Synchronize(i)
  /\ UNCHANGED <<gpr, vr, mem, reserve_valid, rsvd_addr>>
=============================================================================
