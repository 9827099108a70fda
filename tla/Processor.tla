------------------------------ MODULE Processor ------------------------------
(***************************************************************************)
(* What sim_powerpc() of ppcsim.c works on: the registers, the memory      *)
(* behind the memory subsystem, the reservation and the backtrace, and the *)
(* helpers it reads and writes the XER and the CR with.                    *)
(*                                                                         *)
(* The memory subsystem has a module of its own; here it is the mapped     *)
(* bytes it reaches.  MemorySubsystem looks only at the first address of   *)
(* an access, so that one that begins in mapped memory may go on into the  *)
(* bytes behind it: `mem' holds those as well.                             *)
(***************************************************************************)
EXTENDS Words, Sequences

CONSTANTS
  NREG,           \* general purpose registers, 32 in the code
  NVR,            \* vector registers, 32 in the code
  MEM,            \* mapped bytes, from address 0
  BACKTRACE_MAX,  \* bound of the backtrace stack, of ppcsim.h
  Junk            \* what a variable that was never set may hold

ASSUME ProcessorAssumption ==
  /\ NREG \in Nat \ {0}
  /\ NVR \in Nat
  /\ MEM \in Nat /\ MEM + 3 \in Word
  /\ BACKTRACE_MAX \in Nat
  /\ Junk # {} /\ Junk \subseteq Word

VARIABLES
  gpr,            \* GPR
  spr,            \* the special registers of the SPR file that are used here
  vr,             \* VPR, as bytes in the order of the registers
  mem,
  reserve_valid, rsvd_addr,
  BTS,            \* backtrace: the entries up to btsp
  CIA,            \* current instruction address
  ret             \* what sim_powerpc answered: 0, 1 or an exception

regs == <<gpr, spr, vr>>

Regs     == 0 .. NREG - 1
VRegs    == 0 .. NVR - 1
VecBytes == 0 .. 7              \* 16 in the code
MemBytes == 0 .. MEM + 2
SPRs     == {"XER", "CR", "LR", "CTR", "MSR", "SRR0", "SRR1", "VSCR"}

\* The exceptions sim_powerpc answers, and 1 for "no handler".
DSI == 768
PROGRAM == 1792
NO_FP == 2048
SYSCALL == 3072
NO_AV == 3872
NoHandler == 1

btsp == Len(BTS) - 1

Mapped(a) == a < MEM

\* A big-endian word, half and byte of memory.
MemWord(a) == OfBytes([k \in 0 .. 3 |-> mem[a + k]])
MemHalf(a) == mem[a] * 2 ^ BYTE + mem[a + 1]
MemByte(a) == mem[a]

\* Memory with byte k of b at a + k, for k in 0 .. n - 1.
MemPut(a, n, b) ==
  [x \in MemBytes |-> IF x - a \in 0 .. n - 1 THEN b[x - a] ELSE mem[x]]

------------------------------------------------------------------------------
(* XER: SO, OV and CA in its upper bits, a byte count in its lower ones.   *)

SO(s) == Bit(s["XER"], 0)
OV(s) == Bit(s["XER"], 1)
XER_CA(s) == IF Bit(s["XER"], 2) THEN 1 ELSE 0

\* What all the registers hold, in bytes: a power of two.
MaxString == 4 * NREG

\* XER & 0x7F.
ByteCount(s) == s["XER"] % MaxString

XER_setOV(s, ov) ==
  [s EXCEPT !["XER"] =
     FromBits(IF ov THEN BitsOf(@) \cup {0, 1} ELSE BitsOf(@) \ {1})]

XER_setCA(s, ca) ==
  [s EXCEPT !["XER"] =
     FromBits(IF ca = 1 THEN BitsOf(@) \cup {2} ELSE BitsOf(@) \ {2})]

\* The CR: fields of four bits, field 0 the most significant.
CRFields == WBITS \div 4
Fields   == 0 .. CRFields - 1
CR6      == CRFields - 1        \* 6 of 0 .. 7 in the code

FieldBits(no) == 4 * no .. 4 * no + 3

CR_get(s, no) == (s["CR"] \div 2 ^ (4 * (CRFields - 1 - no))) % 16

\* A mutation: fields counted from the least significant.
CR_put_reversed(s, no, v) ==
  [s EXCEPT !["CR"] = @ + (v - ((@ \div 2 ^ (4 * no)) % 16)) * 2 ^ (4 * no)]

CR_put(s, no, v) ==
  [s EXCEPT !["CR"] = @ + (v - CR_get(s, no)) * 2 ^ (4 * (CRFields - 1 - no))]

\* The bits of a field: less, greater, equal, and the summary overflow.
LT == 8
GT == 4
EQ == 2
SOBit(s) == IF SO(s) THEN 1 ELSE 0

\* A comparison's field.
Compared(x, y, s) == (IF x < y THEN LT ELSE IF x > y THEN GT ELSE EQ) + SOBit(s)

\* CR0 or CR1 as recorded from `ac'.
Recorded(ac, s) ==
  (IF Bit(ac, 0) THEN LT ELSE IF ac = 0 THEN EQ ELSE GT) + SOBit(s)

CR_ops(s, op, A, B, D) ==
  LET a == Bit(s["CR"], A)
      b == Bit(s["CR"], B)
      d == CASE op = "crnor"  -> ~ (a \/ b)
             [] op = "crandc" -> a /\ ~ b
             [] op = "crxor"  -> a # b
             [] op = "crnand" -> ~ (a /\ b)
             [] op = "crand"  -> a /\ b
             [] op = "creqv"  -> a = b
             [] op = "crorc"  -> a \/ ~ b
             [] op = "cror"   -> a \/ b
  IN  [s EXCEPT !["CR"] =
         FromBits(IF d THEN BitsOf(@) \cup {D} ELSE BitsOf(@) \ {D})]

\* MSR: floating point and vector available; rfi brings back the lower half.
MSR_FP == 2 * BYTE              \* 0x00002000, in the lower half
MSR_AV == 0                     \* 0x02000000, in the upper half
RfiBits == 2 * BYTE .. WBITS - 1   \* 0x0000FF73

------------------------------------------------------------------------------
(* How an instruction ends.  `Outcome' is what the cases of sim_powerpc    *)
(* leave in its locals: the result `ac' and which of CR0, CR6, VSCR[SAT],  *)
(* XER[OV] and XER[CA] to update.  In an instruction i, RC and OE are the  *)
(* bits decoded as such.                                                   *)

Outcome(i, ac) ==
  [ac |-> ac, rc |-> i.RC, vrc |-> FALSE, sat |-> FALSE,
   oe |-> i.OE, ov |-> FALSE, setCA |-> FALSE, ca |-> 0]

\* The updates after the cases: CR0 shows the overflow of an earlier one.
Updated(s, o) ==
  LET s1 == IF o.rc    THEN CR_put(s, 0, Recorded(o.ac, s)) ELSE s
      s2 == IF o.vrc   THEN CR_put(s1, CR6, o.ac) ELSE s1
      s3 == IF o.sat   THEN [s2 EXCEPT !["VSCR"] = OrW(@, 1)] ELSE s2
      s4 == IF o.oe    THEN XER_setOV(s3, o.ov) ELSE s3
  IN  IF o.setCA THEN XER_setCA(s4, o.ca) ELSE s4

\* NIA as the run loop sets it before the instruction.
NIA == Low(CIA + 4)

\* The instruction completes, and the run loop moves on to nia.
CompleteTo(s, o, nia) ==
  /\ spr' = Updated(s, o)
  /\ ret' = 0
  /\ CIA' = nia

Complete(s, o) == CompleteTo(s, o, NIA)

\* It fails, and the run loop stops with CIA on it.
Fail(e) ==
  /\ ret' = e
  /\ UNCHANGED <<spr, CIA>>
=============================================================================
