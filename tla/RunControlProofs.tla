--------------------------- MODULE RunControlProofs ---------------------------
(***************************************************************************)
(* Proofs about the run loop, for every program, every size of the table   *)
(* and of the address space, every set of user inputs.  The argument: no   *)
(* entry of the table ever has skips left (NoSkips), so a lookup changes   *)
(* nothing and the lookup above the loop and the first one in it agree;    *)
(* the bypass is spent by the first instruction (RunInv).                  *)
(***************************************************************************)
EXTENDS RunControl, ScanProofs, TLAPS

-----------------------------------------------------------------------------
(* What the operations of the breakpoint table return, keep and leave      *)
(* alone, for a table of any size and an address space of any size.        *)

Table == [Slots -> Breakpoint]

\* The slots whose entry is a temporary one of `over'.
TemporarySlots(b) == {i \in Slots : b[i].sys}

\* The scan of the slots of any kind ends at one of them.
LEMMA FirstSlot ==
  ASSUME NEW S \in SUBSET Slots, S # {}
  PROVE  First(S) \in S
<1>1. S \in SUBSET Nat
  BY MaxBrkptsAssumption DEF Slots
<1> QED BY <1>1, FirstIsLeast

\* Addresses stay addresses when they are aligned (BRK_set) ...
LEMMA AlignType ==
  ASSUME NEW a \in Addr
  PROVE  Align(a) \in Addr
<1>1. a \in Int /\ 0 <= a /\ a < 4 * AddrWords /\ AddrWords \in Nat
  BY AddrWordsAssumption DEF Addr, AddrSpace
<1>2. a \div 4 \in Int /\ 0 <= a \div 4 /\ a \div 4 < AddrWords
  BY <1>1
<1> QED BY <1>1, <1>2 DEF Align, Addr, AddrSpace

\* ... and when the next instruction is computed.
LEMMA FollowingType ==
  ASSUME NEW a \in Addr
  PROVE  Following(a) \in Addr
<1>1. AddrSpace \in Nat /\ AddrSpace > 0 /\ a + 4 \in Int
  BY AddrWordsAssumption DEF Addr, AddrSpace
<1> QED BY <1>1 DEF Following, Addr

-----------------------------------------------------------------------------

\* BRK_init leaves a table behind.
LEMMA InitType ==
  ASSUME NEW b \in Table
  PROVE  BRK_init(b) \in Table
BY DEF BRK_init, Table, Breakpoint

\* BRK_set leaves a table.
LEMMA SetType ==
  ASSUME NEW b \in Table, NEW a \in Addr, NEW c, NEW sys \in BOOLEAN
  PROVE  BRK_set(b, a, c, sys).brk \in Table
<1>1. CASE FreeSlots(b) = {}
  BY <1>1 DEF BRK_set
<1>2. CASE FreeSlots(b) # {}
  <2> DEFINE new == [valid |-> TRUE, addr |-> Align(a), sys |-> sys, count |-> 0]
  <2>1. new \in Breakpoint
    BY AlignType, MaxCountAssumption DEF Breakpoint, Counts
  <2>2. BRK_set(b, a, c, sys).brk = [b EXCEPT ![First(FreeSlots(b))] = new]
    BY <1>2 DEF BRK_set
  <2> QED BY <2>1, <2>2 DEF Table
<1> QED BY <1>1, <1>2

\* BRK_del leaves a table.
LEMMA DelType ==
  ASSUME NEW b \in Table, NEW i \in Nat
  PROVE  BRK_del(b, i).brk \in Table
BY DEF BRK_del, Table, Breakpoint

\* BRK_del_addr leaves a table.
LEMMA DelAddrType ==
  ASSUME NEW b \in Table, NEW a, NEW sys
  PROVE  BRK_del_addr(b, a, sys).brk \in Table
BY DEF BRK_del_addr, Table, Breakpoint

-----------------------------------------------------------------------------

\* BRK_init gives no entry skips.
LEMMA InitSkips ==
  ASSUME NEW b \in Table, NoSkips(b)
  PROVE  NoSkips(BRK_init(b))
BY DEF BRK_init, NoSkips, Table, Breakpoint

\* BRK_set drops the count it is given.
LEMMA SetSkips ==
  ASSUME NEW b \in Table, NoSkips(b), NEW a, NEW c, NEW sys
  PROVE  NoSkips(BRK_set(b, a, c, sys).brk)
BY DEF BRK_set, NoSkips, Table

\* BRK_del changes no count.
LEMMA DelSkips ==
  ASSUME NEW b \in Table, NoSkips(b), NEW i
  PROVE  NoSkips(BRK_del(b, i).brk)
BY DEF BRK_del, NoSkips, Table, Breakpoint

\* BRK_del_addr changes no count.
LEMMA DelAddrSkips ==
  ASSUME NEW b \in Table, NoSkips(b), NEW a, NEW sys
  PROVE  NoSkips(BRK_del_addr(b, a, sys).brk)
BY DEF BRK_del_addr, NoSkips, Table, Breakpoint

\* Without skips, matching is a plain lookup that changes nothing.
LEMMA MatchIsLookup ==
  ASSUME NEW b \in Table, NoSkips(b), NEW a
  PROVE  /\ bp_match(b, a).brk = b
         /\ MatchingSlots(b, a) = {} => bp_match(b, a).hit = FALSE
         /\ MatchingSlots(b, a) # {} => bp_match(b, a).hit = TRUE
<1>1. CASE MatchingSlots(b, a) = {}
  BY <1>1 DEF bp_match
<1>2. CASE MatchingSlots(b, a) # {}
  <2>1. First(MatchingSlots(b, a)) \in Slots
    BY <1>2, FirstSlot DEF MatchingSlots
  <2>2. b[First(MatchingSlots(b, a))].count = 0
    BY <2>1 DEF NoSkips
  <2>3. ~ (b[First(MatchingSlots(b, a))].count > 0)
    BY <2>2
  <2>4. bp_match(b, a) = [hit |-> TRUE, brk |-> b]
    BY <1>2, <2>3, Zenon DEF bp_match
  <2> QED BY <1>2, <2>4
<1> QED BY <1>1, <1>2

\* Planting a breakpoint takes a free slot and no other.
LEMMA SetKeeps ==
  ASSUME NEW b \in Table, NEW a, NEW c, NEW sys,
         NEW i \in Slots \ FreeSlots(b)
  PROVE  BRK_set(b, a, c, sys).brk[i] = b[i]
<1>1. CASE FreeSlots(b) = {}
  BY <1>1 DEF BRK_set
<1>2. CASE FreeSlots(b) # {}
  <2>1. First(FreeSlots(b)) \in FreeSlots(b)
    BY <1>2, FirstSlot DEF FreeSlots
  <2>2. First(FreeSlots(b)) # i
    BY <2>1 DEF FreeSlots
  <2> QED BY <1>2, <2>2 DEF BRK_set, Table
<1> QED BY <1>1, <1>2

\* Deleting a temporary breakpoint by address frees no slot of the user's.
LEMMA DelAddrKeeps ==
  ASSUME NEW b \in Table, NEW a, NEW i \in Slots \ TemporarySlots(b)
  PROVE  BRK_del_addr(b, a, TRUE).brk[i] = b[i]
<1> DEFINE found == {j \in MatchingSlots(b, a) : b[j].sys = TRUE}
<1>1. CASE found = {}
  BY <1>1 DEF BRK_del_addr
<1>2. CASE found # {}
  <2>1. First(found) \in found
    BY <1>2, FirstSlot DEF MatchingSlots
  <2>2. First(found) # i
    BY <2>1 DEF TemporarySlots, MatchingSlots
  <2> QED BY <1>2, <2>2 DEF BRK_del_addr, Table
<1> QED BY <1>1, <1>2

-----------------------------------------------------------------------------
(* Type correctness.                                                       *)

\* An instruction leaves addresses in the address registers, and a value in
\* the accumulator.
LEMMA InstructionTypes ==
  ASSUME NEW m \in BOOLEAN, NEW a \in Addr, NEW l \in Addr,
         NEW x \in 0 .. AccMod - 1
  PROVE  /\ InsnAt(m, a) \in Insn
         /\ NewNIA(InsnAt(m, a), a, l) \in Addr
         /\ NewLR(InsnAt(m, a), a, l) \in Addr
         /\ NewAcc(InsnAt(m, a), x) \in 0 .. AccMod - 1
         /\ Raises(InsnAt(m, a)) \in {0, DSI, PROGRAM}
<1>1. 0 \in Addr
  BY AddrWordsAssumption DEF Addr, AddrSpace
<1>2. InsnAt(m, a) \in Insn
  BY <1>1, ProgAssumption DEF InsnAt, Undefined, Insn, Kinds
<1>3. Following(a) \in Addr
  BY FollowingType
<1>4. (x + 1) % AccMod \in 0 .. AccMod - 1
  BY AccModAssumption
<1>5. NewNIA(InsnAt(m, a), a, l) \in Addr
  BY <1>2, <1>3 DEF NewNIA, Insn
<1>6. NewLR(InsnAt(m, a), a, l) \in Addr
  BY <1>3 DEF NewLR
<1>7. NewAcc(InsnAt(m, a), x) \in 0 .. AccMod - 1
  BY <1>4 DEF NewAcc
<1>8. Raises(InsnAt(m, a)) \in {0, DSI, PROGRAM}
  BY DEF Raises
<1> QED BY <1>2, <1>5, <1>6, <1>7, <1>8

\* A lookup leaves a table behind.
LEMMA MatchType ==
  ASSUME NEW b \in Table, NEW a
  PROVE  bp_match(b, a).brk \in Table /\ bp_match(b, a).hit \in BOOLEAN
<1>1. CASE MatchingSlots(b, a) = {}
  BY <1>1 DEF bp_match
<1>2. CASE MatchingSlots(b, a) # {}
  <2> DEFINE h == First(MatchingSlots(b, a))
  <2>1. h \in Slots
    BY <1>2, FirstSlot DEF MatchingSlots
  <2>2. b[h] \in Breakpoint
    BY <2>1 DEF Table
  <2>3. CASE b[h].count > 0
    <3>1. bp_match(b, a) = [hit |-> FALSE, brk |-> [b EXCEPT ![h].count = @ - 1]]
      BY <1>2, <2>3, Zenon DEF bp_match
    <3>2. b[h].count - 1 \in Counts
      BY <2>2, <2>3, MaxCountAssumption DEF Breakpoint, Counts
    <3>3. [b EXCEPT ![h].count = @ - 1] \in Table
      BY <2>1, <2>2, <3>2 DEF Table, Breakpoint
    <3> QED BY <3>1, <3>3
  <2>4. CASE ~ (b[h].count > 0)
    <3>1. bp_match(b, a) = [hit |-> TRUE, brk |-> b]
      BY <1>2, <2>4, Zenon DEF bp_match
    <3> QED BY <3>1
  <2> QED BY <2>3, <2>4
<1> QED BY <1>1, <1>2

\* The Boolean part of TypeOK: a proof of its own keeps the solvers' two ways
\* of reading a Boolean variable apart.
FlagsOK ==
  /\ over_cmd \in BOOLEAN /\ mapped \in BOOLEAN /\ toex \in BOOLEAN
  /\ brkpt_bypass \in BOOLEAN /\ pll_zero \in BOOLEAN
  /\ ctlc_detect \in BOOLEAN /\ edge \in BOOLEAN /\ ran \in BOOLEAN

\* The initial state has the types.
LEMMA InitTypeOK == Init => TypeOK
<1> SUFFICES ASSUME Init PROVE TypeOK
  OBVIOUS
<1>1. 0 \in Addr
  BY AddrWordsAssumption DEF Addr, AddrSpace
<1>2. brk \in [Slots -> Breakpoint]
  BY <1>1, MaxCountAssumption DEF Init, Breakpoint, Counts
<1>3. FlagsOK
  BY DEF Init, FlagsOK
<1> QED
  BY <1>1, <1>2, <1>3, AccModAssumption, RunAssumption DEF Init, TypeOK, FlagsOK

\* The flags stay flags.
LEMMA FlagsTypeOK == TypeOK /\ [Next]_vars => FlagsOK'
<1> SUFFICES ASSUME TypeOK, [Next]_vars PROVE FlagsOK'
  OBVIOUS
<1> USE DEF TypeOK, FlagsOK, arch_vars, time_vars, local_vars, sim_vars
<1>1. CASE CmdCont
  BY <1>1 DEF CmdCont, CmdRun, CallCtl
<1>2. CASE CmdGo
  BY <1>2 DEF CmdGo, CmdRun, CallCtl
<1>3. CASE CmdTr
  BY <1>3 DEF CmdTr, CmdRun, CallCtl
<1>4. CASE CmdSs
  BY <1>4 DEF CmdSs, CmdRun, CallCtl
<1>5. CASE CmdOver
  BY <1>5 DEF CmdOver, CallCtl, Done
<1>6. CASE CmdBpSet
  BY <1>6 DEF CmdBpSet, CmdBp, Done
<1>7. CASE CmdBpDel
  BY <1>7 DEF CmdBpDel, CmdBp, Done
<1>8. CASE CmdBpClear
  BY <1>8 DEF CmdBpClear, CmdBp, Done
<1>9. CASE CmdTc
  BY <1>9 DEF CmdTc, Done
<1>10. CASE CmdLoad
  BY <1>10 DEF CmdLoad, Done
<1>11. CASE CmdCpu \/ CmdRm
  BY <1>11, RunAssumption DEF CmdCpu, CmdRm, Done
<1>12. CASE CmdReset
  BY <1>12 DEF CmdReset, Done
<1>13. CASE CmdExit
  BY <1>13 DEF CmdExit
<1>14. CASE Enter
  <2>1. bp_match(brk, CIA).hit \in BOOLEAN
    BY MatchType DEF Table
  <2> QED BY <1>14, <2>1 DEF Enter
<1>15. CASE StepsDone
  BY <1>15 DEF StepsDone, Return
<1>16. CASE BreakHit
  BY <1>16 DEF BreakHit, Return
<1>17. CASE FetchFault
  BY <1>17 DEF FetchFault, Return
<1>18. CASE ExecFault
  BY <1>18 DEF ExecFault, Return
<1>19. CASE Execute
  BY <1>19 DEF Execute
<1>20. CASE TraceCmd
  BY <1>20 DEF TraceCmd
<1>21. CASE Tick
  BY <1>21 DEF Tick
<1>22. CASE PollRead
  BY <1>22 DEF PollRead
<1>23. CASE PollClear
  BY <1>23 DEF PollClear, Return
<1>24. CASE Retire
  BY <1>24 DEF Retire
<1>25. CASE OverCleanup
  BY <1>25 DEF OverCleanup
<1>26. CASE Sigint
  BY <1>26 DEF Sigint
<1>27. CASE UNCHANGED vars
  BY <1>27 DEF vars
<1> QED
  BY <1>1, <1>2, <1>3, <1>4, <1>5, <1>6, <1>7, <1>8, <1>9,
     <1>10, <1>11, <1>12, <1>13, <1>14, <1>15, <1>16, <1>17, <1>18,
     <1>19, <1>20, <1>21, <1>22, <1>23, <1>24, <1>25, <1>26, <1>27 DEF Next, Command, Ctl

\* The shell's commands keep the types.
LEMMA CommandTypeOK == TypeOK /\ Command => TypeOK'
<1> SUFFICES ASSUME TypeOK, Command PROVE TypeOK'
  OBVIOUS
<1>f. FlagsOK'
  BY FlagsTypeOK DEF Next
<1> USE DEF TypeOK, FlagsOK, arch_vars, time_vars, local_vars, sim_vars
<1>t. brk \in Table
  BY DEF Table
<1>run. ASSUME NEW a \in Addr, NEW n \in Int, CmdRun(a, n) PROVE TypeOK'
  BY <1>run, <1>f DEF CmdRun, CallCtl
<1>bp. ASSUME NEW b \in Table, CmdBp(b) PROVE TypeOK'
  BY <1>bp, <1>f DEF CmdBp, Done, Table
<1>1. CASE CmdCont
  BY <1>1, <1>run DEF CmdCont
<1>2. CASE CmdGo
  BY <1>2, <1>run, RunAssumption DEF CmdGo
<1>3. CASE CmdTr
  BY <1>3, <1>run, RunAssumption DEF CmdTr
<1>4. CASE CmdSs
  BY <1>4, <1>run, RunAssumption DEF CmdSs
<1>5. CASE CmdOver
  <2>1. BRK_set(brk, Following(CIA), 0, TRUE).brk \in Table
    BY <1>t, FollowingType, SetType
  <2>2. brk' \in [Slots -> Breakpoint]
    BY <1>5, <2>1 DEF CmdOver, Table
  <2>3. at' \in {"prompt", "enter"} /\ ncyc' \in Int
    <3>1. CallCtl(0, TRUE) \/ Done
      BY <1>5 DEF CmdOver
    <3> QED BY <3>1 DEF CallCtl, Done
  <2> QED BY <1>5, <1>f, <2>2, <2>3 DEF CmdOver
<1>6. CASE CmdBpSet
  <2>1. \A a \in Addr, c \in Counts : BRK_set(brk, a, c, FALSE).brk \in Table
    BY <1>t, SetType
  <2> QED BY <1>6, <1>bp, <2>1, RunAssumption DEF CmdBpSet
<1>7. CASE CmdBpDel
  <2>1. \A i \in 0 .. MAX_BRKPTS : BRK_del(brk, i).brk \in Table
    BY <1>t, DelType
  <2> QED BY <1>7, <1>bp, <2>1 DEF CmdBpDel
<1>8. CASE CmdBpClear
  BY <1>8, <1>bp, <1>t, InitType DEF CmdBpClear
<1>9. CASE CmdTc
  BY <1>9, <1>f, RunAssumption DEF CmdTc, Done
<1>10. CASE CmdLoad
  BY <1>10, <1>f DEF CmdLoad, Done
<1>11. CASE CmdCpu
  BY <1>11, <1>f, RunAssumption, AddrWordsAssumption DEF CmdCpu, Done, Addr, AddrSpace
<1>12. CASE CmdReset
  BY <1>12, <1>f, <1>t, InitType DEF CmdReset, Done, Table
<1>14. CASE CmdRm
  BY <1>14, <1>f, RunAssumption DEF CmdRm, Done
<1>13. CASE CmdExit
  BY <1>13, <1>f DEF CmdExit
<1> QED
  BY <1>1, <1>2, <1>3, <1>4, <1>5, <1>6, <1>7, <1>8, <1>9, <1>10, <1>11,
     <1>12, <1>13, <1>14 DEF Command

\* So do the steps of the run loop.
LEMMA CtlTypeOK == TypeOK /\ Ctl => TypeOK'
<1> SUFFICES ASSUME TypeOK, Ctl PROVE TypeOK'
  OBVIOUS
<1>f. FlagsOK'
  BY FlagsTypeOK DEF Next
<1> USE DEF TypeOK, FlagsOK, arch_vars, time_vars, local_vars, sim_vars
<1>t. brk \in Table
  BY DEF Table
<1>h. HeadCheck.brk \in Table
  BY <1>t, MatchType DEF HeadCheck
<1>i. /\ NewNIA(Current, CIA, lr) \in Addr
      /\ NewLR(Current, CIA, lr) \in Addr
      /\ NewAcc(Current, acc) \in 0 .. AccMod - 1
      /\ Raises(Current) \in {0, DSI, PROGRAM}
      /\ Following(CIA) \in Addr
  BY InstructionTypes, FollowingType DEF Current
<1>1. CASE Enter
  <2>1. bp_match(brk, CIA).brk \in Table /\ bp_match(brk, CIA).hit \in BOOLEAN
    BY <1>t, MatchType
  <2>2. 0 \in Slots
    BY MaxBrkptsAssumption DEF Slots
  <2>3. brk[0].addr \in Addr
    BY <2>2 DEF Breakpoint
  <2>4. iabr' \in {0} \cup {a + 2 : a \in Addr}
    BY <1>1, <2>3 DEF Enter
  <2>5. dec_limit' \in {0, PllDecLimit}
    BY <1>1 DEF Enter
  <2> QED BY <1>1, <1>f, <2>1, <2>4, <2>5 DEF Enter, Table
<1>2. CASE StepsDone
  BY <1>2, <1>f DEF StepsDone, Return
<1>3. CASE BreakHit
  BY <1>3, <1>f, <1>h DEF BreakHit, Return, Table
<1>4. CASE FetchFault
  BY <1>4, <1>f, <1>h DEF FetchFault, Issues, Return, Table
<1>5. CASE ExecFault
  BY <1>5, <1>f, <1>h, <1>i DEF ExecFault, Issues, Return, Table
<1>6. CASE Execute
  BY <1>6, <1>f, <1>h, <1>i DEF Execute, Issues, Table
<1>7. CASE TraceCmd
  <2>1. BRK_init(brk) \in Table /\ BRK_set(brk, CIA, 0, FALSE).brk \in Table
    BY <1>t, InitType, SetType
  <2> QED BY <1>7, <1>f, <1>t, <2>1 DEF TraceCmd, Table
<1>8. CASE Tick
  <2>1. /\ (DEC - 1) % TimeMod \in 0 .. TimeMod - 1
        /\ (TBL + 1) % TimeMod \in 0 .. TimeMod - 1
        /\ (TBU + 1) % TimeMod \in 0 .. TimeMod - 1
    BY RunAssumption
  <2> QED BY <1>8, <1>f, <2>1 DEF Tick
<1>9. CASE PollRead
  BY <1>9, <1>f DEF PollRead
<1>10. CASE PollClear
  BY <1>10, <1>f DEF PollClear, Return
<1>11. CASE Retire
  BY <1>11, <1>f DEF Retire
<1>12. CASE OverCleanup
  <2>1. \A start \in Addr : BRK_del_addr(brk, start, TRUE).brk \in Table
    BY <1>t, DelAddrType
  <2> QED BY <1>12, <1>f, <2>1 DEF OverCleanup, Table
<1> QED
  BY <1>1, <1>2, <1>3, <1>4, <1>5, <1>6, <1>7, <1>8, <1>9, <1>10, <1>11,
     <1>12 DEF Ctl

\* Every variable keeps its type, whatever the user types and whenever.
THEOREM TypeCorrect == Spec => []TypeOK
<1>1. TypeOK /\ [Next]_vars => TypeOK'
  <2> SUFFICES ASSUME TypeOK, [Next]_vars PROVE TypeOK'
    OBVIOUS
  <2>0. FlagsOK'
    BY FlagsTypeOK
  <2>1. CASE Sigint
    BY <2>1, <2>0 DEF Sigint, TypeOK, FlagsOK, arch_vars, time_vars, local_vars, sim_vars
  <2>2. CASE UNCHANGED vars
    BY <2>2, <2>0 DEF TypeOK, FlagsOK, vars, arch_vars, time_vars, local_vars, sim_vars
  <2> QED BY <2>1, <2>2, CommandTypeOK, CtlTypeOK DEF Next
<1> QED BY <1>1, InitTypeOK, PTL DEF Spec

-----------------------------------------------------------------------------
(* Breakpoints.                                                            *)

\* The check at the head of the loop is a lookup.
LEMMA HeadCheckIsLookup ==
  ASSUME TypeOK, NoSkips(brk)
  PROVE  /\ HeadCheck.brk = brk
         /\ HeadCheck.hit => ~ brkpt_bypass /\ MatchingSlots(brk, CIA) # {}
         /\ ~ HeadCheck.hit /\ ~ brkpt_bypass => MatchingSlots(brk, CIA) = {}
<1>1. /\ bp_match(brk, CIA).brk = brk
      /\ MatchingSlots(brk, CIA) = {} => bp_match(brk, CIA).hit = FALSE
      /\ MatchingSlots(brk, CIA) # {} => bp_match(brk, CIA).hit = TRUE
  BY MatchIsLookup DEF TypeOK, Table
<1>2. CASE brkpt_bypass
  BY <1>2 DEF HeadCheck
<1>3. CASE ~ brkpt_bypass
  <2>1. HeadCheck = bp_match(brk, CIA)
    BY <1>3 DEF HeadCheck
  <2> QED BY <1>1, <1>3, <2>1
<1> QED BY <1>2, <1>3

\* No step gives an entry skips to count.
LEMMA SkipsStep == TypeOK /\ NoSkips(brk) /\ [Next]_vars => NoSkips(brk)'
<1> SUFFICES ASSUME TypeOK, NoSkips(brk), [Next]_vars PROVE NoSkips(brk')
  BY DEF NoSkips
<1>t. brk \in Table
  BY DEF TypeOK, Table
<1>u. ASSUME UNCHANGED brk PROVE NoSkips(brk')
  BY <1>u
<1>1. CASE CmdCont \/ CmdGo \/ CmdTr \/ CmdSs \/ CmdTc \/ CmdLoad \/ CmdCpu \/ CmdRm \/ CmdExit
  BY <1>1, <1>u DEF CmdCont, CmdGo, CmdTr, CmdSs, CmdRun, CmdTc, CmdLoad,
                    CmdCpu, CmdRm, CmdExit, sim_vars
<1>2. CASE CmdOver
  BY <1>2, <1>t, SetSkips DEF CmdOver
<1>3. CASE CmdBpSet
  BY <1>3, <1>t, SetSkips DEF CmdBpSet, CmdBp
<1>4. CASE CmdBpDel
  BY <1>4, <1>t, DelSkips DEF CmdBpDel, CmdBp
<1>5. CASE CmdBpClear \/ CmdReset
  BY <1>5, <1>t, InitSkips DEF CmdBpClear, CmdBp, CmdReset
<1>6. CASE Enter
  BY <1>6, <1>t, MatchIsLookup DEF Enter
<1>7. CASE BreakHit \/ FetchFault \/ ExecFault \/ Execute
  BY <1>7, HeadCheckIsLookup DEF BreakHit, FetchFault, ExecFault, Execute, Issues
<1>8. CASE TraceCmd
  <2>1. NoSkips(BRK_init(brk)) /\ NoSkips(BRK_set(brk, CIA, 0, FALSE).brk)
    BY <1>t, InitSkips, SetSkips
  <2> QED BY <1>8, <2>1 DEF TraceCmd
<1>9. CASE OverCleanup
  BY <1>9, <1>t, DelAddrSkips DEF OverCleanup
<1>10. CASE StepsDone \/ Tick \/ PollRead \/ PollClear \/ Retire \/ Sigint
  BY <1>10, <1>u DEF StepsDone, Tick, PollRead, PollClear, Retire, Sigint, sim_vars
<1>11. CASE UNCHANGED vars
  BY <1>11, <1>u DEF vars, sim_vars
<1> QED
  BY <1>1, <1>2, <1>3, <1>4, <1>5, <1>6, <1>7, <1>8, <1>9, <1>10, <1>11
  DEF Next, Command, Ctl

\* The inductive step of RunInv.
LEMMA RunInvStep == RunInv /\ [Next]_vars => RunInv'
<1> SUFFICES ASSUME RunInv, [Next]_vars PROVE RunInv'
  OBVIOUS
<1>1. TypeOK'
  <2>1. CASE Sigint
    <3>1. FlagsOK'
      BY FlagsTypeOK DEF RunInv
    <3> QED BY <2>1, <3>1 DEF RunInv, Sigint, TypeOK, FlagsOK, arch_vars,
                              time_vars, local_vars, sim_vars
  <2>2. CASE UNCHANGED vars
    <3>1. FlagsOK'
      BY FlagsTypeOK DEF RunInv
    <3> QED BY <2>2, <3>1 DEF RunInv, TypeOK, FlagsOK, vars, arch_vars,
                              time_vars, local_vars, sim_vars
  <2> QED BY <2>1, <2>2, CommandTypeOK, CtlTypeOK DEF Next, RunInv
<1>2. NoSkips(brk)'
  BY SkipsStep DEF RunInv
<1> DEFINE Rest == /\ at \in Executed => ran
                   /\ at = "loop" /\ ran => ~ brkpt_bypass
                   /\ at = "loop" /\ ~ ran /\ ~ brkpt_bypass
                        => MatchingSlots(brk, CIA) = {}
<1>e. ASSUME at' \notin Executed \cup {"loop"} PROVE Rest'
  BY <1>e
<1> USE DEF Executed
<1>3. CASE Command
  <2>1. at' \in {"enter", "prompt", "exit"}
    BY <1>3 DEF Command, CmdCont, CmdGo, CmdTr, CmdSs, CmdRun, CmdOver,
         CmdBpSet, CmdBpDel, CmdBpClear, CmdBp, CmdTc, CmdLoad, CmdCpu, CmdRm,
         CmdReset, CmdExit, CallCtl, Done
  <2> QED BY <1>1, <1>2, <1>e, <2>1 DEF RunInv
<1>4. CASE Enter
  <2>1. /\ bp_match(brk, CIA).brk = brk
        /\ MatchingSlots(brk, CIA) # {} => bp_match(brk, CIA).hit = TRUE
    BY MatchIsLookup DEF RunInv, TypeOK, Table
  <2>2. brk' = brk /\ CIA' = CIA /\ at' = "loop" /\ ~ ran'
    BY <1>4, <2>1 DEF Enter, arch_vars
  <2>3. ~ brkpt_bypass' => MatchingSlots(brk, CIA) = {}
    BY <1>4, <2>1 DEF Enter
  <2>4. Rest'
    BY <2>2, <2>3
  <2> QED BY <1>1, <1>2, <2>4 DEF RunInv
<1>5. CASE StepsDone \/ BreakHit \/ FetchFault \/ ExecFault \/ OverCleanup
  <2>1. at' \in {"prompt", "over", "exit"}
    BY <1>5 DEF StepsDone, BreakHit, FetchFault, ExecFault, OverCleanup, Return
  <2> QED BY <1>1, <1>2, <1>e, <2>1 DEF RunInv
<1>6. CASE Execute
  <2>1. at' = "trace" /\ ran'
    BY <1>6 DEF Execute
  <2> QED BY <1>1, <1>2, <2>1 DEF RunInv
<1>7. CASE TraceCmd \/ Tick \/ PollRead
  <2>1. at \in Executed /\ at' \in Executed /\ ran' = ran
    BY <1>7 DEF TraceCmd, Tick, PollRead, local_vars
  <2> QED BY <1>1, <1>2, <2>1 DEF RunInv
<1>8. CASE PollClear
  <2>1. CASE edge
    <3>1. at' \in {"prompt", "over"}
      BY <1>8, <2>1 DEF PollClear, Return
    <3> QED BY <1>1, <1>2, <1>e, <3>1 DEF RunInv
  <2>2. CASE ~ edge
    <3>1. at \in Executed /\ at' = "retire" /\ ran' = ran
      BY <1>8, <2>2 DEF PollClear
    <3> QED BY <1>1, <1>2, <3>1 DEF RunInv
  <2> QED BY <2>1, <2>2
<1>9. CASE Retire
  <2>1. at \in Executed /\ at' = "loop" /\ ran' = ran /\ ~ brkpt_bypass'
    BY <1>9 DEF Retire
  <2> QED BY <1>1, <1>2, <2>1 DEF RunInv
<1>10. CASE Sigint \/ UNCHANGED vars
  <2>1. UNCHANGED <<at, ran, brkpt_bypass, brk, CIA>>
    BY <1>10 DEF Sigint, vars, arch_vars, local_vars, sim_vars
  <2>2. Rest'
    BY <2>1 DEF RunInv, MatchingSlots
  <2> QED BY <1>1, <1>2, <2>2 DEF RunInv
<1> QED
  BY <1>3, <1>4, <1>5, <1>6, <1>7, <1>8, <1>9, <1>10 DEF Next, Ctl

\* The invariant holds from the start.
LEMMA RunInvInit == Init => RunInv
<1> SUFFICES ASSUME Init PROVE RunInv
  OBVIOUS
<1>1. TypeOK
  BY InitTypeOK
<1>2. NoSkips(brk)
  BY DEF Init, NoSkips
<1> QED BY <1>1, <1>2 DEF Init, RunInv, Executed

\* The parts of RunInv hold in every reachable state: no breakpoint ever has
\* skips left (BRK_set drops the count it is given) and the bypass of
\* ppcsim_ctl covers a first instruction only.
THEOREM RunInvariant == Spec => []RunInv
BY RunInvInit, RunInvStep, PTL DEF Spec

\* Running onto a live breakpoint stops, in every run and for every program,
\* unless the run starts there.
THEOREM BypassTheorem == Spec => BypassOnlyFirst
<1>1. RunInv /\ [Next]_vars
      => [(at = "loop" /\ at' = "trace" /\ LiveAt(CIA)) => ~ ran]_vars
  <2> SUFFICES ASSUME RunInv, [Next]_vars, at = "loop", at' = "trace",
                      LiveAt(CIA), ran
               PROVE  FALSE
    OBVIOUS
  <2>1. Execute
    BY DEF Next, Command, CmdCont, CmdGo, CmdTr, CmdSs, CmdRun, CmdOver,
         CmdBpSet, CmdBpDel, CmdBpClear, CmdBp, CmdTc, CmdLoad, CmdCpu, CmdRm,
         CmdReset, CmdExit, CallCtl, Done, Ctl, Enter, StepsDone, BreakHit,
         FetchFault, ExecFault, TraceCmd, Tick, PollRead, PollClear, Retire,
         OverCleanup, Return, Sigint, vars
  <2>2. ~ brkpt_bypass
    BY DEF RunInv
  <2>3. MatchingSlots(brk, CIA) = {}
    BY <2>1, <2>2, HeadCheckIsLookup DEF RunInv, Execute, Issues
  <2> QED BY <2>3 DEF LiveAt
<1> QED BY <1>1, RunInvariant, PTL DEF Spec, BypassOnlyFirst

\* `cont' and `ss' on a breakpoint always get past it.
THEOREM ProgressTheorem == Spec => BreakpointStopsMakeProgress
<1>1. RunInv /\ [Next]_vars => [BreakHit => ran]_vars
  <2> SUFFICES ASSUME RunInv, BreakHit PROVE ran
    OBVIOUS
  <2>1. ~ brkpt_bypass /\ MatchingSlots(brk, CIA) # {} /\ at = "loop"
    BY HeadCheckIsLookup DEF RunInv, BreakHit
  <2> QED BY <2>1 DEF RunInv
<1> QED BY <1>1, RunInvariant, PTL DEF Spec, BreakpointStopsMakeProgress

\* What the user planted stays until the user removes it.
THEOREM UserBreakpointsTheorem == Spec => UserBreakpointsKept
<1> DEFINE Removes == \/ CmdBpDel \/ CmdBpClear \/ CmdReset
                      \/ TraceCmd /\ tr_cmd = BpClear
           Keeps == \A i \in Slots : brk[i].valid /\ ~ brk[i].sys => brk'[i] = brk[i]
<1>1. RunInv /\ [Next]_vars => [~ Removes => Keeps]_vars
  <2> SUFFICES ASSUME RunInv, Next, ~ Removes,
                      NEW i \in Slots, brk[i].valid, ~ brk[i].sys
               PROVE  brk'[i] = brk[i]
    BY Zenon
  <2>t. /\ brk \in Table
        /\ NoSkips(brk)
        /\ i \in Slots \ FreeSlots(brk)
        /\ i \in Slots \ TemporarySlots(brk)
    BY DEF RunInv, TypeOK, Table, FreeSlots, TemporarySlots
  <2>u. ASSUME brk' = brk PROVE brk'[i] = brk[i]
    BY <2>u
  <2>s. \A a, c, sys : BRK_set(brk, a, c, sys).brk[i] = brk[i]
    BY <2>t, SetKeeps
  <2>1. CASE CmdOver
    BY <2>1, <2>s DEF CmdOver
  <2>2. CASE CmdBpSet
    BY <2>2, <2>s DEF CmdBpSet, CmdBp
  <2>3. CASE Enter
    BY <2>3, <2>t, <2>u, MatchIsLookup DEF Enter
  <2>4. CASE BreakHit \/ FetchFault \/ ExecFault \/ Execute
    BY <2>4, <2>u, HeadCheckIsLookup
    DEF RunInv, BreakHit, FetchFault, ExecFault, Execute, Issues
  <2>5. CASE TraceCmd
    <3>1. CASE tr_cmd = BpHere
      <4>1. brk' = BRK_set(brk, CIA, 0, FALSE).brk
        BY <2>5, <3>1 DEF TraceCmd, BpClear, BpHere
      <4> QED BY <4>1, <2>s
    <3>2. CASE tr_cmd \notin {BpHere, BpClear}
      BY <2>5, <2>u, <3>2 DEF TraceCmd
    <3> QED BY <2>5, <3>1, <3>2
  <2>6. CASE OverCleanup
    <3>1. PICK start \in Addr : brk' = BRK_del_addr(brk, start, TRUE).brk
      BY <2>6 DEF OverCleanup
    <3>2. BRK_del_addr(brk, start, TRUE).brk[i] = brk[i]
      BY <2>t, DelAddrKeeps
    <3> QED BY <3>1, <3>2
  <2>7. CASE CmdCont \/ CmdGo \/ CmdTr \/ CmdSs \/ CmdTc \/ CmdLoad \/ CmdCpu \/ CmdRm
             \/ CmdExit
    BY <2>7, <2>u DEF CmdCont, CmdGo, CmdTr, CmdSs, CmdRun, CmdTc, CmdLoad,
                      CmdCpu, CmdRm, CmdExit, sim_vars
  <2>8. CASE StepsDone \/ Tick \/ PollRead \/ PollClear \/ Retire \/ Sigint
    BY <2>8, <2>u DEF StepsDone, Tick, PollRead, PollClear, Retire, Sigint, sim_vars
  <2> QED
    BY <2>1, <2>2, <2>3, <2>4, <2>5, <2>6, <2>7, <2>8 DEF Next, Command, Ctl
<1> QED BY <1>1, RunInvariant, PTL DEF Spec, UserBreakpointsKept

-----------------------------------------------------------------------------
(* Time.                                                                   *)

\* The decrementer is never overdue, for any number of instructions to a tick:
\* the limit only ever grows from 0, and while it is 0 no tick is pending.
THEOREM TickTheorem == Spec => []TickPending
<1>1. Init => TickPending
  BY DEF Init, TickPending
<1>2. TypeOK /\ TickPending /\ [Next]_vars => TickPending'
  <2> SUFFICES ASSUME TypeOK, TickPending, [Next]_vars PROVE TickPending'
    OBVIOUS
  <2>u. ASSUME UNCHANGED <<dec_tick, dec_limit>> PROVE TickPending'
    BY <2>u DEF TickPending
  <2>1. CASE CmdCont \/ CmdGo \/ CmdTr \/ CmdSs
    BY <2>1, <2>u DEF CmdCont, CmdGo, CmdTr, CmdSs, CmdRun, time_vars
  <2>2. CASE CmdOver \/ CmdTc \/ CmdLoad \/ CmdCpu \/ CmdRm \/ CmdExit
    BY <2>2, <2>u DEF CmdOver, CmdTc, CmdLoad, CmdCpu, CmdRm, CmdExit, time_vars
  <2>3. CASE CmdBpSet \/ CmdBpDel \/ CmdBpClear
    BY <2>3, <2>u DEF CmdBpSet, CmdBpDel, CmdBpClear, CmdBp, time_vars
  <2>4. CASE CmdReset
    BY <2>4 DEF CmdReset, TickPending
  <2>5. CASE Enter
    BY <2>5, RunAssumption DEF Enter, TypeOK, TickPending
  <2>6. CASE StepsDone \/ BreakHit \/ FetchFault \/ ExecFault \/ Execute
    BY <2>6, <2>u DEF StepsDone, BreakHit, FetchFault, ExecFault, Execute, time_vars
  <2>7. CASE TraceCmd \/ PollRead \/ PollClear \/ Retire \/ OverCleanup
    BY <2>7, <2>u DEF TraceCmd, PollRead, PollClear, Retire, OverCleanup, time_vars
  <2>8. CASE Tick
    <3>1. CASE dec_tick + 1 >= dec_limit
      BY <2>8, <3>1, RunAssumption DEF Tick, TypeOK, TickPending, time_vars
    <3>2. CASE ~ (dec_tick + 1 >= dec_limit)
      BY <2>8, <3>2, RunAssumption DEF Tick, TypeOK, TickPending, time_vars
    <3> QED BY <3>1, <3>2
  <2>9. CASE Sigint \/ UNCHANGED vars
    BY <2>9, <2>u DEF Sigint, vars, time_vars
  <2> QED
    BY <2>1, <2>2, <2>3, <2>4, <2>5, <2>6, <2>7, <2>8, <2>9 DEF Next, Command, Ctl
<1> QED BY <1>1, <1>2, TypeCorrect, PTL DEF Spec

\* Counting up by one in two digits is counting up in one, modulo the square of
\* the base: with a carry, without one, and where both digits go round.
LEMMA TwoDigits ==
  ASSUME NEW m \in Nat \ {0}, NEW u \in 0 .. m - 1, NEW l \in 0 .. m - 1
  PROVE  (IF (l + 1) % m = 0 THEN (u + 1) % m ELSE u) * m + ((l + 1) % m)
           = (u * m + l + 1) % (m * m)
<1> DEFINE mm == m * m
           um == u * m
<1>1. mm \in Nat \ {0} /\ um \in Nat /\ u \in Nat /\ l \in Nat
  BY SMT
<1>2. um <= mm - m
  <2>1. (m - 1 - u) * m >= 0
    BY SMT
  <2>2. (m - 1 - u) * m = mm - m - um
    BY SMT
  <2> QED
    BY <1>1, <2>1, <2>2
<1>3. \A x \in Nat : x < mm => x % mm = x
  <2> HIDE DEF mm
  <2> QED
    BY <1>1, SMT
<1>4. mm % mm = 0
  <2> HIDE DEF mm
  <2> QED
    BY <1>1, SMT
<1>5. CASE l + 1 < m
  <2>1. (l + 1) % m = l + 1
    BY <1>5
  <2>2. (um + l + 1) % mm = um + l + 1
    <3> HIDE DEF um, mm
    <3> QED
      BY <1>1, <1>2, <1>3, <1>5
  <2> QED
    BY <1>1, <2>1, <2>2
<1>6. CASE l + 1 = m /\ u + 1 < m
  <2>1. (l + 1) % m = 0 /\ (u + 1) % m = u + 1
    BY <1>6
  <2>2. um + l + 1 < mm
    <3>1. (m - 2 - u) * m >= 0
      BY <1>6, SMT
    <3>2. (m - 2 - u) * m = mm - 2 * m - um
      BY SMT
    <3> HIDE DEF um, mm
    <3> QED
      BY <1>1, <1>6, <3>1, <3>2
  <2>3. (um + l + 1) % mm = um + l + 1
    <3> HIDE DEF um, mm
    <3> QED
      BY <1>1, <1>3, <2>2
  <2>4. (u + 1) * m = um + l + 1
    BY <1>6, SMT
  <2> QED
    BY <2>1, <2>3, <2>4
<1>7. CASE l + 1 = m /\ u + 1 = m
  <2>1. (l + 1) % m = 0 /\ (u + 1) % m = 0
    BY <1>7
  <2>2. um + l + 1 = mm
    BY <1>7, SMT
  <2> QED
    BY <1>4, <2>1, <2>2
<1> QED
  BY <1>5, <1>6, <1>7

\* The two halves of the time base are one counter of twice their width, and it
\* and the decrementer move together, whatever the width and the instructions
\* to a tick: `cpu' and `rm' alone set them.
THEOREM TimeBaseTheorem == Spec => TimeBase
<1>1. TypeOK /\ [Next]_vars
        => [\/ UNCHANGED <<DEC, TBL, TBU>>
            \/ CmdCpu \/ CmdRm
            \/ /\ WideTimeBase' = (WideTimeBase + 1) % (TimeMod * TimeMod)
               /\ DEC' = (DEC - 1) % TimeMod]_vars
  <2> SUFFICES ASSUME TypeOK, [Next]_vars, ~ CmdCpu, ~ CmdRm
               PROVE  \/ UNCHANGED <<DEC, TBL, TBU>>
                      \/ /\ WideTimeBase' = (WideTimeBase + 1) % (TimeMod * TimeMod)
                         /\ DEC' = (DEC - 1) % TimeMod
    OBVIOUS
  <2>1. CASE CmdCont \/ CmdGo \/ CmdTr \/ CmdSs
    BY <2>1 DEF CmdCont, CmdGo, CmdTr, CmdSs, CmdRun, time_vars
  <2>2. CASE CmdOver \/ CmdTc \/ CmdLoad \/ CmdExit
    BY <2>2 DEF CmdOver, CmdTc, CmdLoad, CmdExit, time_vars
  <2>3. CASE CmdBpSet \/ CmdBpDel \/ CmdBpClear
    BY <2>3 DEF CmdBpSet, CmdBpDel, CmdBpClear, CmdBp, time_vars
  <2>4. CASE CmdReset \/ Enter
    BY <2>4 DEF CmdReset, Enter, time_vars
  <2>5. CASE StepsDone \/ BreakHit \/ FetchFault \/ ExecFault \/ Execute
    BY <2>5 DEF StepsDone, BreakHit, FetchFault, ExecFault, Execute, time_vars
  <2>6. CASE TraceCmd \/ PollRead \/ PollClear \/ Retire \/ OverCleanup
    BY <2>6 DEF TraceCmd, PollRead, PollClear, Retire, OverCleanup, time_vars
  <2>7. CASE Tick
    <3>1. CASE dec_tick + 1 >= dec_limit
      <4>1. /\ DEC' = (DEC - 1) % TimeMod
            /\ TBL' = (TBL + 1) % TimeMod
            /\ TBU' = IF (TBL + 1) % TimeMod = 0 THEN (TBU + 1) % TimeMod ELSE TBU
        BY <2>7, <3>1 DEF Tick
      <4>2. WideTimeBase' = (IF (TBL + 1) % TimeMod = 0 THEN (TBU + 1) % TimeMod ELSE TBU)
                              * TimeMod + ((TBL + 1) % TimeMod)
        BY <4>1, Zenon DEF WideTimeBase
      <4>3. WideTimeBase' = (TBU * TimeMod + TBL + 1) % (TimeMod * TimeMod)
        BY <4>2, TwoDigits, RunAssumption, Zenon DEF TypeOK
      <4> QED
        BY <4>1, <4>3, Zenon DEF WideTimeBase
    <3>2. CASE ~ (dec_tick + 1 >= dec_limit)
      BY <2>7, <3>2 DEF Tick
    <3> QED
      BY <3>1, <3>2
  <2>8. CASE Sigint \/ UNCHANGED vars
    BY <2>8 DEF Sigint, vars, time_vars
  <2> QED
    BY <2>1, <2>2, <2>3, <2>4, <2>5, <2>6, <2>7, <2>8 DEF Next, Command, Ctl
<1> QED
  BY <1>1, TypeCorrect, PTL DEF Spec, TimeBase

-----------------------------------------------------------------------------
(* Refinement.                                                             *)

\* Without Ctrl-C the flag of the signal handler is never seen set.
QuietInv == TypeOK /\ ~ ctlc_detect /\ ~ edge

\* raw_isbreak never answers 1 then.
LEMMA Quiet ==
  ASSUME Signals = FALSE
  PROVE  Spec => []QuietInv
<1>1. Init => QuietInv
  BY InitTypeOK DEF Init, QuietInv
<1>2. QuietInv /\ TypeOK' /\ [Next]_vars => QuietInv'
  <2> SUFFICES ASSUME QuietInv, TypeOK', [Next]_vars
               PROVE  ~ ctlc_detect' /\ ~ edge'
    BY DEF QuietInv
  <2> USE DEF QuietInv
  <2>1. CASE Command
    <3>1. CASE CmdOver
      <4>1. CallCtl(0, TRUE) \/ Done
        BY <3>1 DEF CmdOver
      <4> QED BY <3>1, <4>1 DEF CmdOver, CallCtl, Done, local_vars
    <3>2. CASE CmdCont \/ CmdGo \/ CmdTr \/ CmdSs
      BY <3>2 DEF CmdCont, CmdGo, CmdTr, CmdSs, CmdRun, CallCtl
    <3>3. CASE CmdBpSet \/ CmdBpDel \/ CmdBpClear
      <4>1. ASSUME NEW b, CmdBp(b) PROVE ~ ctlc_detect' /\ ~ edge'
        BY <4>1 DEF CmdBp, Done, local_vars
      <4> QED BY <3>3, <4>1 DEF CmdBpSet, CmdBpDel, CmdBpClear
    <3>4. CASE CmdTc \/ CmdLoad \/ CmdCpu \/ CmdRm \/ CmdReset \/ CmdExit
      BY <3>4 DEF CmdTc, CmdLoad, CmdCpu, CmdRm, CmdReset, CmdExit, Done, local_vars
    <3> QED BY <2>1, <3>1, <3>2, <3>3, <3>4 DEF Command
  <2>2. CASE Ctl
    <3>1. CASE PollClear
      BY <3>1 DEF PollClear
    <3>2. CASE PollRead
      BY <3>2 DEF PollRead
    <3>3. CASE StepsDone \/ BreakHit \/ FetchFault \/ ExecFault
      BY <3>3 DEF StepsDone, BreakHit, FetchFault, ExecFault, Return
    <3>4. CASE Enter \/ Execute \/ Retire
      BY <3>4 DEF Enter, Execute, Retire
    <3>5. CASE TraceCmd \/ Tick
      <4>1. UNCHANGED <<local_vars, ctlc_detect>>
        BY <3>5 DEF TraceCmd, Tick
      <4> QED BY <4>1 DEF local_vars
    <3>6. CASE OverCleanup
      BY <3>6 DEF OverCleanup
    <3> QED BY <2>2, <3>1, <3>2, <3>3, <3>4, <3>5, <3>6 DEF Ctl
  <2>3. CASE UNCHANGED vars
    BY <2>3 DEF vars, local_vars
  <2> QED BY <2>1, <2>2, <2>3 DEF Next, Sigint
<1> QED BY <1>1, <1>2, TypeCorrect, PTL DEF Spec

\* The program under the debugger is the program of the ideal machine.
LEMMA SameProgram ==
  /\ Ideal!Addr = Addr
  /\ \A m, a : Ideal!InsnAt(m, a) = InsnAt(m, a)
  /\ \A i : Ideal!Fetches(i) <=> Fetches(i)
  /\ \A i : Ideal!Completes(i) <=> Completes(i)
  /\ \A i : Ideal!Raises(i) = Raises(i)
  /\ \A i, a, l : Ideal!NewNIA(i, a, l) = NewNIA(i, a, l)
  /\ \A i, a, l : Ideal!NewLR(i, a, l) = NewLR(i, a, l)
  /\ \A i, x : Ideal!NewAcc(i, x) = NewAcc(i, x)
BY DEF Ideal!Addr, Ideal!AddrSpace, Addr, AddrSpace, Ideal!InsnAt, InsnAt,
       Ideal!Undefined, Undefined, Ideal!Fetches, Fetches, Ideal!Completes,
       Completes, Ideal!Raises, Raises, Ideal!PROGRAM, PROGRAM, Ideal!DSI, DSI,
       Ideal!NewNIA, NewNIA, Ideal!Following, Following, Ideal!NewLR, NewLR,
       Ideal!NewAcc, NewAcc

\* While no Ctrl-C is typed the debugger is transparent: whatever the program
\* and wherever the user puts breakpoints, starts, steps and stops, the
\* machine computes what it computes by itself, each instruction once.
THEOREM Transparent ==
  ASSUME Signals = FALSE
  PROVE  Spec => ImplementsIdeal
<1> DEFINE pc == IF at \in {"trace", "tick", "poll", "ack", "retire"} THEN NIA ELSE CIA
           running == at \in InRun \ {"enter"}
<1>1. Init => Ideal!Init
  BY DEF Init, Ideal!Init, InRun
<1>2. QuietInv /\ QuietInv' /\ [Next]_vars => [Ideal!Next]_(Ideal!mvars)
  <2> SUFFICES ASSUME QuietInv, QuietInv', [Next]_vars
               PROVE  [Ideal!Next]_(Ideal!mvars)
    OBVIOUS
  <2> USE DEF InRun
  <2>s. ASSUME pc' = pc, UNCHANGED <<acc, lr, mapped>>, running' = running
        PROVE  UNCHANGED Ideal!mvars
    BY <2>s DEF Ideal!mvars
  <2>stop. ASSUME pc' = pc, UNCHANGED <<acc, lr, mapped>>, running, ~ running'
           PROVE  Ideal!Next
    BY <2>stop DEF Ideal!Next, Ideal!Stop
  <2>prep. ASSUME ~ running, ~ running', pc' \in Addr, lr' \in Addr,
                  mapped' \in BOOLEAN, acc' \in 0 .. AccMod - 1
           PROVE  Ideal!Next
    <3>1. running' = running
      BY <2>prep
    <3> QED BY <2>prep, <3>1, SameProgram DEF Ideal!Next, Ideal!Prepare
  <2>1. CASE Command
    <3>1. at = "prompt" /\ at' \in {"prompt", "enter", "exit"}
      BY <2>1 DEF Command, CmdCont, CmdGo, CmdTr, CmdSs, CmdRun, CmdOver,
           CmdBpSet, CmdBpDel, CmdBpClear, CmdBp, CmdTc, CmdLoad, CmdCpu, CmdRm,
           CmdReset, CmdExit, CallCtl, Done, arch_vars
    <3>2. /\ pc' \in Addr /\ lr' \in Addr
          /\ mapped' \in BOOLEAN /\ acc' \in 0 .. AccMod - 1
      BY DEF QuietInv, TypeOK
    <3> QED BY <2>prep, <3>1, <3>2
  <2>2. CASE Enter
    <3>1. ~ running /\ running' /\ pc' = pc /\ UNCHANGED <<acc, lr, mapped>>
      BY <2>2 DEF Enter, arch_vars
    <3> QED BY <3>1 DEF Ideal!Next, Ideal!Start
  <2>3. CASE StepsDone \/ BreakHit \/ FetchFault
    <3>1. at = "loop" /\ at' \in {"prompt", "over", "exit"}
      BY <2>3 DEF StepsDone, BreakHit, FetchFault, Issues, Return
    <3>2. UNCHANGED <<CIA, acc, lr, mapped>>
      BY <2>3 DEF StepsDone, BreakHit, FetchFault, arch_vars, sim_vars
    <3> QED BY <2>stop, <3>1, <3>2
  <2>4. CASE ExecFault
    <3>1. at = "loop" /\ at' \in {"prompt", "over"}
      BY <2>4 DEF ExecFault, Issues, Return
    <3>2. /\ UNCHANGED <<CIA, lr, mapped>>
          /\ acc' = NewAcc(InsnAt(mapped, CIA), acc)
          /\ Fetches(InsnAt(mapped, CIA))
          /\ Raises(InsnAt(mapped, CIA)) # 0
      BY <2>4 DEF ExecFault, Current
    <3>3. running /\ running' = FALSE /\ pc = CIA /\ pc' = CIA
      BY <3>1, <3>2
    <3> QED BY <3>2, <3>3, SameProgram DEF Ideal!Next, Ideal!Fault
  <2>5. CASE Execute
    <3>1. at = "loop" /\ at' = "trace"
      BY <2>5 DEF Execute, Issues
    <3>2. /\ UNCHANGED mapped
          /\ NIA' = NewNIA(InsnAt(mapped, CIA), CIA, lr)
          /\ acc' = NewAcc(InsnAt(mapped, CIA), acc)
          /\ lr' = NewLR(InsnAt(mapped, CIA), CIA, lr)
      BY <2>5 DEF Execute, Current
    <3>3. Completes(InsnAt(mapped, CIA))
      <4>1. InsnAt(mapped, CIA) \in Insn
        BY InstructionTypes DEF QuietInv, TypeOK
      <4>2. Fetches(InsnAt(mapped, CIA)) /\ Raises(InsnAt(mapped, CIA)) = 0
        BY <2>5 DEF Execute, Current
      <4> QED BY <4>1, <4>2
        DEF Insn, Kinds, Completes, Fetches, Raises, PROGRAM, DSI
    <3>4. running /\ running' = running /\ pc = CIA /\ pc' = NIA'
      BY <3>1
    <3> QED BY <3>2, <3>3, <3>4, SameProgram DEF Ideal!Next, Ideal!Retire
  <2>6. CASE TraceCmd \/ Tick \/ PollRead
    <3>1. /\ at \in {"trace", "tick", "poll"} /\ at' \in {"tick", "poll", "ack"}
          /\ UNCHANGED <<NIA, acc, lr, mapped>>
      BY <2>6 DEF TraceCmd, Tick, PollRead, arch_vars, sim_vars
    <3> QED BY <2>s, <3>1
  <2>7. CASE PollClear
    <3>1. at = "ack" /\ at' = "retire" /\ UNCHANGED <<NIA, acc, lr, mapped>>
      BY <2>7 DEF PollClear, QuietInv, arch_vars, sim_vars
    <3> QED BY <2>s, <3>1
  <2>8. CASE Retire
    <3>1. at = "retire" /\ at' = "loop" /\ CIA' = NIA /\ UNCHANGED <<acc, lr, mapped>>
      BY <2>8 DEF Retire
    <3> QED BY <2>s, <3>1
  <2>9. CASE OverCleanup
    <3>1. at = "over" /\ at' = "prompt" /\ UNCHANGED <<CIA, acc, lr, mapped>>
      BY <2>9 DEF OverCleanup, arch_vars
    <3> QED BY <2>s, <3>1
  <2>10. CASE Sigint
    BY <2>10 DEF Sigint, QuietInv
  <2>11. CASE UNCHANGED vars
    <3>1. UNCHANGED <<at, CIA, NIA, acc, lr, mapped>>
      BY <2>11 DEF vars, arch_vars, sim_vars
    <3> QED BY <2>s, <3>1
  <2> QED
    BY <2>1, <2>2, <2>3, <2>4, <2>5, <2>6, <2>7, <2>8, <2>9, <2>10, <2>11
    DEF Next, Ctl
<1> QED BY <1>1, <1>2, Quiet, PTL DEF Spec, ImplementsIdeal, Ideal!Spec
=============================================================================
