---------------------------- MODULE LoadStoreUnit ----------------------------
(***************************************************************************)
(* The loads and stores of sim_powerpc().  An instruction has an address   *)
(* form: `x' adds a register to the base, otherwise SIMM; `u' writes the   *)
(* address back to the base register, and then register 0 is no zero.      *)
(* Each access is a call of the memory subsystem that may fail, at which   *)
(* the instruction returns at once: single accesses have done nothing by   *)
(* then, multiple ones what came before.                                   *)
(***************************************************************************)
EXTENDS Processor

Base(i) == IF i.A = 0 /\ ~ i.u THEN 0 ELSE gpr[i.A]

\* lha adds the displacement to GR(A) whatever A is.
EA(i) ==
  IF i.x THEN Low(Base(i) + gpr[i.B])
  ELSE Low((IF i.op = "lha" THEN gpr[i.A] ELSE Base(i)) + EXTS(i.SIMM))

\* The write of the base register comes last, after the target's.
WriteBack(i, g) == IF i.u THEN [g EXCEPT ![i.A] = EA(i)] ELSE g

SwapHalf(h) == (h % 2 ^ BYTE) * 2 ^ BYTE + h \div 2 ^ BYTE

(* What a load puts into its target.  lbzux, lhax and lhaux read into one  *)
(* variable and load from another, which was never set; the latter two     *)
(* extend its sign without clearing its upper half.                        *)
ExtendHalf(w) == IF Bit(w, 2 * BYTE) THEN OrW(w, 2 ^ WBITS - 2 ^ (2 * BYTE)) ELSE w

Loaded(i, a, junk) ==
  CASE i.op = "lwz"   -> MemWord(a)
    [] i.op = "lhz"   -> MemHalf(a)
    [] i.op = "lbz"   -> IF i.x /\ i.u THEN junk ELSE MemByte(a)
    [] i.op = "lha"   -> IF i.x THEN ExtendHalf(junk) ELSE EXTS(MemHalf(a))
    [] i.op = "lwbrx" -> pSwap4Bytes(MemWord(a))
    [] i.op = "lhbrx" -> SwapHalf(MemHalf(a))

Loads == {"lwz", "lhz", "lbz", "lha", "lwbrx", "lhbrx"}

\* A mutation: the base register is written before the access.
Load_early(i, junk) ==
  /\ i.op \in Loads
  /\ IF ~ Mapped(EA(i)) THEN Fail(DSI) /\ gpr' = WriteBack(i, gpr)
     ELSE /\ gpr' = WriteBack(i, [gpr EXCEPT ![i.D] = Loaded(i, EA(i), junk)])
          /\ Complete(spr, [Outcome(i, 0) EXCEPT !.oe = FALSE])
  /\ UNCHANGED <<mem, reserve_valid, rsvd_addr>>

Load(i, junk) ==
  /\ i.op \in Loads
  /\ IF ~ Mapped(EA(i)) THEN Fail(DSI) /\ UNCHANGED gpr
     ELSE /\ gpr' = WriteBack(i, [gpr EXCEPT ![i.D] = Loaded(i, EA(i), junk)])
          /\ Complete(spr, [Outcome(i, 0) EXCEPT !.oe = FALSE])
  /\ UNCHANGED <<mem, reserve_valid, rsvd_addr>>

\* The bytes of a register in memory order, and how many a store writes.
WordBytes(x) == [k \in 0 .. 3 |-> ByteOf(x, k)]
HalfBytes(x) == [k \in 0 .. 1 |-> ByteOf(x, 2 + k)]
LastByte(x)  == [k \in 0 .. 0 |-> ByteOf(x, 3)]

Stored(i, x) ==
  CASE i.op = "stw"    -> WordBytes(x)
    [] i.op = "sth"    -> HalfBytes(x)
    [] i.op = "stb"    -> LastByte(x)
    [] i.op = "stwbrx" -> WordBytes(pSwap4Bytes(x))
    [] i.op = "sthbrx" -> HalfBytes(SwapHalf(x % 2 ^ (2 * BYTE)))

Stores == {"stw", "sth", "stb", "stwbrx", "sthbrx"}

\* No store looks at the reservation.
Store(i) ==
  LET b == Stored(i, gpr[i.D])
  IN  /\ i.op \in Stores
      /\ IF ~ Mapped(EA(i)) THEN Fail(DSI) /\ UNCHANGED <<gpr, mem>>
         ELSE /\ mem' = MemPut(EA(i), Cardinality(DOMAIN b), b)
              /\ gpr' = WriteBack(i, gpr)
              /\ Complete(spr, [Outcome(i, 0) EXCEPT !.oe = FALSE])
      /\ UNCHANGED <<reserve_valid, rsvd_addr>>

------------------------------------------------------------------------------
(* The reservation: set before the load is known to succeed, given up by   *)
(* any conditional store that gets an answer.                              *)

LoadReserved(i) ==
  /\ i.op = "lwarx"
  /\ reserve_valid' = TRUE
  /\ rsvd_addr' = EA(i)
  /\ IF ~ Mapped(EA(i)) THEN Fail(DSI) /\ UNCHANGED gpr
     ELSE /\ gpr' = [gpr EXCEPT ![i.D] = MemWord(EA(i))]
          /\ Complete(spr, Outcome(i, 0))
  /\ UNCHANGED mem

\* A mutation: only a store that finds its own reservation gives it up.
GivenUp_kept(hit) == IF hit THEN FALSE ELSE reserve_valid

\* The reservation after a conditional store.
GivenUp(hit) == FALSE

StoreConditional(i) ==
  LET hit == reserve_valid /\ rsvd_addr = EA(i)
  IN  /\ i.op = "stwcx."
      /\ IF hit /\ ~ Mapped(EA(i)) THEN Fail(DSI) /\ UNCHANGED <<mem, reserve_valid>>
         ELSE /\ reserve_valid' = GivenUp(hit)
              /\ mem' = IF hit THEN MemPut(EA(i), 4, WordBytes(gpr[i.D])) ELSE mem
              /\ Complete(CR_put(spr, 0, (IF hit THEN EQ ELSE 0) + SOBit(spr)),
                          [Outcome(i, 0) EXCEPT !.rc = FALSE, !.oe = FALSE])
      /\ UNCHANGED <<gpr, rsvd_addr>>

------------------------------------------------------------------------------
(* Multiple registers.  n pieces, the k-th at a + k * size: as many are    *)
(* transferred as come before the first that is not mapped.                *)

Transferred(a, n, size) ==
  LET bad == {k \in 0 .. n - 1 : ~ Mapped(Low(a + size * k))}
  IN  IF bad = {} THEN n ELSE Min(bad)

\* The outcome of a transfer of n of which done succeeded.
Multiple(i, n, done) ==
  IF done < n THEN Fail(DSI) ELSE Complete(spr, [Outcome(i, 0) EXCEPT !.oe = FALSE])

\* A mutation: the last register is left out.
WordsFrom_short(i) == NREG - i.D - 1

\* lmw and stmw: the registers from D to the last.
WordsFrom(i) == NREG - i.D

LoadMultiple(i) ==
  LET n == WordsFrom(i)
      done == Transferred(EA(i), n, 4)
  IN  /\ i.op = "lmw"
      /\ gpr' = [r \in Regs |-> IF r - i.D \in 0 .. done - 1
                                  THEN MemWord(EA(i) + 4 * (r - i.D)) ELSE gpr[r]]
      /\ Multiple(i, n, done)
      /\ UNCHANGED <<mem, reserve_valid, rsvd_addr>>

StoreMultiple(i) ==
  LET n == WordsFrom(i)
      done == Transferred(EA(i), n, 4)
      b == [k \in 0 .. 4 * done - 1 |-> ByteOf(gpr[i.D + k \div 4], k % 4)]
  IN  /\ i.op = "stmw"
      /\ mem' = MemPut(EA(i), 4 * done, b)
      /\ Multiple(i, n, done)
      /\ UNCHANGED <<gpr, reserve_valid, rsvd_addr>>

(* The strings: NB bytes, where NB = 0 says as many as a word has bits, or *)
(* the count in XER, four to a register, the registers taken in a circle.  *)
(* A load zeroes what is left of its last register.  The address is GR(A)  *)
(* alone, also in the indexed forms.                                       *)
StringLength(i) ==
  IF i.x THEN ByteCount(spr) ELSE IF i.B = 0 THEN WBITS ELSE i.B

StringReg(i, k) == (i.D + k \div 4) % NREG

LoadString(i) ==
  LET a == Base(i)
      done == Transferred(a, StringLength(i), 1)
      at(r) == {k \in 0 .. done - 1 : StringReg(i, k) = r}
      byte(r, p) == LET ks == {k \in at(r) : k % 4 = p}
                    IN  IF ks = {} THEN 0 ELSE mem[a + Max(ks)]
  IN  /\ i.op = "lsw"
      /\ gpr' = [r \in Regs |-> IF at(r) = {} THEN gpr[r]
                                ELSE OfBytes([p \in 0 .. 3 |-> byte(r, p)])]
      /\ Multiple(i, StringLength(i), done)
      /\ UNCHANGED <<mem, reserve_valid, rsvd_addr>>

StoreString(i) ==
  LET a == Base(i)
      done == Transferred(a, StringLength(i), 1)
      b == [k \in 0 .. done - 1 |-> ByteOf(gpr[StringReg(i, k)], k % 4)]
  IN  /\ i.op = "stsw"
      /\ mem' = MemPut(a, done, b)
      /\ Multiple(i, StringLength(i), done)
      /\ UNCHANGED <<gpr, reserve_valid, rsvd_addr>>

LoadsAndStores(i, junk) ==
  /\ \/ Load(i, junk)
     \/ Store(i)
     \/ LoadReserved(i)
     \/ StoreConditional(i)
     \/ LoadMultiple(i)
     \/ StoreMultiple(i)
     \/ LoadString(i)
     \/ StoreString(i)
  /\ UNCHANGED <<vr, BTS>>
=============================================================================
