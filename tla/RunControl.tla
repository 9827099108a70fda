----------------------------- MODULE RunControl -----------------------------
(***************************************************************************)
(* The run loop of ppcsim.c (ppcsim_ctl, ppcsim_run, ppcsim_ss), the shell *)
(* commands that start it or edit what it reads, and the SIGINT handler,   *)
(* the one thing that happens concurrently with the rest.                  *)
(*                                                                         *)
(* Steps of the loop are separate actions wherever the handler can run in  *)
(* between and matter.  `at' is where the single thread of the simulator   *)
(* stands:                                                                 *)
(*   prompt  in shell_read_line            tick   decrementer update       *)
(*   enter   top of ppcsim_ctl             poll   about to read the flag   *)
(*   loop    top of its while loop         ack    flag read, not cleared   *)
(*   trace   about to run tr_cmd           retire about to advance CIA     *)
(*   over    back in `over' from its run   exit   the process has ended    *)
(***************************************************************************)
EXTENDS BreakpointTable, Program

CONSTANTS
  PllDecLimit,  \* instructions per decrementer tick, 5 in the code
  TimeMod,      \* values of each of DEC, TBL and TBU; 2^32 in the code
  StartAddrs,   \* addresses a user gives to `go', `tr' and `rm'
  BreakAddrs,   \* addresses a user gives to `bp'
  StepCounts,   \* numbers a user gives to `ss'
  TraceCmds,    \* commands a user gives to `tc'
  PllFields,    \* whether HID1's PLL field is 0, for the processors in use
  Signals       \* whether the user ever types Ctrl-C

NoCmd == "none"
BpHere == "bp ."
BpClear == "bp -r"

ASSUME RunAssumption ==
  /\ PllDecLimit \in Nat \ {0}
  /\ TimeMod \in Nat \ {0}
  /\ StartAddrs \subseteq Addr
  /\ BreakAddrs \subseteq Addr
  /\ StepCounts \subseteq Int
  /\ TraceCmds \subseteq {NoCmd, BpHere, BpClear}
  /\ PllFields \subseteq BOOLEAN
  /\ Signals \in BOOLEAN

VARIABLES
  at,            \* where the thread stands
  over_cmd,      \* the run was started by `over'
  mapped,        \* the system map and the program are in place
  brk,           \* the breakpoint table
  CIA, NIA,      \* current and next instruction address
  acc, lr,       \* the architectural state of module Program
  ncyc, toex,    \* locals: instructions left to step; run without limit
  brkpt_bypass,  \* skip the breakpoint check once
  dec_tick, dec_limit,
  DEC, TBL, TBU, \* decrementer and time base
  iabr,          \* instruction address breakpoint register
  pll_zero,      \* the PLL field of HID1 is 0
  tr_cmd,        \* command run after every instruction
  ctlc_detect,   \* set by the signal handler
  edge,          \* local of raw_isbreak: its copy of the flag
  ran            \* history: this run has executed an instruction

arch_vars  == <<CIA, NIA, acc, lr>>
time_vars  == <<dec_tick, dec_limit, DEC, TBL, TBU>>
local_vars == <<over_cmd, ncyc, toex, edge, ran>>
sim_vars   == <<mapped, brk, brkpt_bypass, iabr, pll_zero, tr_cmd>>
vars == <<at, arch_vars, time_vars, local_vars, sim_vars, ctlc_detect>>

TypeOK ==
  /\ at \in {"prompt", "enter", "loop", "trace", "tick", "poll", "ack",
             "retire", "over", "exit"}
  /\ over_cmd \in BOOLEAN
  /\ mapped \in BOOLEAN
  /\ brk \in [Slots -> Breakpoint]
  /\ CIA \in Addr /\ NIA \in Addr /\ lr \in Addr
  /\ acc \in 0 .. AccMod - 1
  /\ ncyc \in Int
  /\ toex \in BOOLEAN
  /\ brkpt_bypass \in BOOLEAN
  /\ dec_tick \in Nat
  /\ dec_limit \in {0, PllDecLimit}
  /\ DEC \in 0 .. TimeMod - 1
  /\ TBL \in 0 .. TimeMod - 1
  /\ TBU \in 0 .. TimeMod - 1
  /\ iabr \in {0} \cup {a + 2 : a \in Addr}
  /\ pll_zero \in BOOLEAN
  /\ tr_cmd \in {NoCmd, BpHere, BpClear}
  /\ ctlc_detect \in BOOLEAN /\ edge \in BOOLEAN
  /\ ran \in BOOLEAN

\* Static storage is zero, so every register is, and no memory is mapped.
Init ==
  /\ at = "prompt"
  /\ mapped = FALSE
  /\ brk = [i \in Slots |-> [valid |-> FALSE, addr |-> 0, sys |-> FALSE, count |-> 0]]
  /\ CIA = 0 /\ NIA = 0 /\ lr = 0 /\ acc = 0
  /\ over_cmd = FALSE /\ ncyc = 0 /\ toex = FALSE /\ edge = FALSE /\ ran = FALSE
  /\ brkpt_bypass = FALSE
  /\ dec_tick = 0 /\ dec_limit = 0
  /\ DEC = 0 /\ TBL = 0 /\ TBU = 0
  /\ iabr = 0
  /\ pll_zero = TRUE
  /\ tr_cmd = NoCmd
  /\ ctlc_detect = FALSE

-----------------------------------------------------------------------------
(* Shell commands: one step of the thread, from the prompt, that either is *)
(* done at once or hands over to ppcsim_ctl.                               *)

\* ppcsim_ctl( n ); n = 0 asks for a run without limit.
CallCtl(n, over) ==
  /\ at' = "enter"
  /\ ncyc' = n
  /\ over_cmd' = over
  /\ UNCHANGED <<toex, edge, ran>>

Done == at' = "prompt" /\ UNCHANGED local_vars

CmdRun(a, n) ==
  /\ at = "prompt"
  /\ CallCtl(n, FALSE)
  /\ CIA' = a
  /\ UNCHANGED <<NIA, acc, lr, time_vars, sim_vars, ctlc_detect>>

CmdCont  == CmdRun(CIA, 0)
CmdGo    == \E a \in StartAddrs : CmdRun(a, 0)
CmdTr    == \E a \in StartAddrs : CmdRun(a, 1)
\* `ss 0' passes 0 on, which means run without limit.
CmdSs    == \E n \in StepCounts : CmdRun(CIA, n)

\* `over' plants a breakpoint behind the current instruction and runs.
CmdOver ==
  /\ at = "prompt"
  /\ LET set == BRK_set(brk, Following(CIA), 0, TRUE)
     IN  /\ brk' = set.brk
         /\ IF set.stat = OK THEN CallCtl(0, TRUE) ELSE Done
  /\ UNCHANGED <<arch_vars, time_vars, mapped, brkpt_bypass, iabr,
                 pll_zero, tr_cmd, ctlc_detect>>

\* The commands of `bp' touch nothing but the table.
CmdBp(new_brk) ==
  /\ at = "prompt"
  /\ brk' = new_brk
  /\ Done
  /\ UNCHANGED <<arch_vars, time_vars, mapped, brkpt_bypass, iabr,
                 pll_zero, tr_cmd, ctlc_detect>>

CmdBpSet   == \E a \in BreakAddrs, c \in Counts : CmdBp(BRK_set(brk, a, c, FALSE).brk)
CmdBpDel   == \E i \in 0 .. MAX_BRKPTS : CmdBp(BRK_del(brk, i).brk)
CmdBpClear == CmdBp(BRK_init(brk))

CmdTc ==
  /\ at = "prompt"
  /\ tr_cmd' \in TraceCmds
  /\ Done
  /\ UNCHANGED <<arch_vars, time_vars, mapped, brk, brkpt_bypass,
                 iabr, pll_zero, ctlc_detect>>

\* `sys -d' or `sys -m' and then `fl' put the program in memory, `sys -r'
\* takes the memory away.
CmdLoad ==
  /\ at = "prompt"
  /\ mapped' \in BOOLEAN
  /\ Done
  /\ UNCHANGED <<arch_vars, time_vars, brk, brkpt_bypass, iabr,
                 pll_zero, tr_cmd, ctlc_detect>>

\* `cpu -s' and `cpu -p', through CPU_reset: the PLL field becomes whatever
\* the model and the multiplier give, the other registers a reset value.
CmdCpu ==
  /\ at = "prompt"
  /\ pll_zero' \in PllFields
  /\ lr' = 0
  /\ DEC' = TimeMod - 1 /\ TBL' = 0 /\ TBU' = 0
  /\ iabr' = 0
  /\ Done
  /\ UNCHANGED <<CIA, NIA, acc, dec_tick, dec_limit, mapped, brk,
                 brkpt_bypass, tr_cmd, ctlc_detect>>

\* `rm' changes one register, of those that matter here.
CmdRm ==
  /\ at = "prompt"
  /\ \/ acc' \in 0 .. AccMod - 1 /\ UNCHANGED <<lr, DEC, TBL, TBU, pll_zero>>
     \/ lr' \in StartAddrs         /\ UNCHANGED <<acc, DEC, TBL, TBU, pll_zero>>
     \/ DEC' \in 0 .. TimeMod - 1 /\ UNCHANGED <<acc, lr, TBL, TBU, pll_zero>>
     \/ TBL' \in 0 .. TimeMod - 1 /\ UNCHANGED <<acc, lr, DEC, TBU, pll_zero>>
     \/ TBU' \in 0 .. TimeMod - 1 /\ UNCHANGED <<acc, lr, DEC, TBL, pll_zero>>
     \/ pll_zero' \in PllFields   /\ UNCHANGED <<acc, lr, DEC, TBL, TBU>>
  /\ Done
  /\ UNCHANGED <<CIA, NIA, dec_tick, dec_limit, mapped, brk, brkpt_bypass,
                 iabr, tr_cmd, ctlc_detect>>

\* A mutation: the tick counter survives.
CmdReset_tick_kept ==
  /\ at = "prompt"
  /\ mapped' = FALSE
  /\ brk' = BRK_init(brk)
  /\ brkpt_bypass' = FALSE
  /\ dec_limit' = 0
  /\ tr_cmd' = NoCmd
  /\ Done
  /\ UNCHANGED <<arch_vars, dec_tick, DEC, TBL, TBU, iabr, pll_zero, ctlc_detect>>

\* ppcsim_init and BRK_init: the system map is forgotten, the registers of
\* the processor are not.
CmdReset ==
  /\ at = "prompt"
  /\ mapped' = FALSE
  /\ brk' = BRK_init(brk)
  /\ brkpt_bypass' = FALSE
  /\ dec_tick' = 0 /\ dec_limit' = 0
  /\ tr_cmd' = NoCmd
  /\ Done
  /\ UNCHANGED <<arch_vars, DEC, TBL, TBU, iabr, pll_zero, ctlc_detect>>

\* `exit', `quit' or end of file: the main loop ends.
CmdExit ==
  /\ at = "prompt"
  /\ at' = "exit"
  /\ UNCHANGED <<arch_vars, time_vars, local_vars, sim_vars, ctlc_detect>>

Command ==
  \/ CmdCont \/ CmdGo \/ CmdTr \/ CmdSs \/ CmdOver
  \/ CmdBpSet \/ CmdBpDel \/ CmdBpClear
  \/ CmdTc \/ CmdLoad \/ CmdCpu \/ CmdRm \/ CmdReset \/ CmdExit

-----------------------------------------------------------------------------
(* ppcsim_ctl.                                                             *)

\* Up to the loop: skip over a breakpoint under the program counter, choose
\* the decrementer limit, mirror slot 0 into IABR with its enable bit.
Enter ==
  /\ at = "enter"
  /\ LET m == bp_match(brk, CIA)
     IN  /\ brk' = m.brk
         /\ brkpt_bypass' = (brkpt_bypass \/ m.hit)
  /\ toex' = (ncyc = 0)
  /\ dec_limit' = IF pll_zero THEN PllDecLimit ELSE dec_limit
  /\ iabr' = IF brk[0].addr # 0 THEN brk[0].addr + 2 ELSE iabr
  /\ ran' = FALSE
  /\ at' = "loop"
  /\ UNCHANGED <<arch_vars, dec_tick, DEC, TBL, TBU, over_cmd, ncyc, edge,
                 mapped, pll_zero, tr_cmd, ctlc_detect>>

\* ppcsim_ctl returns, by way of ppcsim_run or ppcsim_ss, to the command that
\* called it; its locals go out of scope.
Return(place) ==
  /\ at' = IF over_cmd THEN "over" ELSE place
  /\ ncyc' = 0 /\ toex' = FALSE /\ edge' = FALSE /\ ran' = FALSE
  /\ UNCHANGED over_cmd

GoesOn == toex \/ ncyc > 0

StepsDone ==
  /\ at = "loop"
  /\ ~ GoesOn
  /\ Return("prompt")
  /\ UNCHANGED <<arch_vars, time_vars, sim_vars, ctlc_detect>>

\* The breakpoint check at the head of the loop.
HeadCheck ==
  IF brkpt_bypass THEN [hit |-> FALSE, brk |-> brk] ELSE bp_match(brk, CIA)

BreakHit ==
  /\ at = "loop"
  /\ GoesOn
  /\ HeadCheck.hit
  /\ brk' = HeadCheck.brk
  /\ Return("prompt")
  /\ UNCHANGED <<arch_vars, time_vars, mapped, brkpt_bypass, iabr, pll_zero,
                 tr_cmd, ctlc_detect>>

\* The loop gets past the breakpoint check, to the instruction at CIA.
Issues ==
  /\ at = "loop"
  /\ GoesOn
  /\ ~ HeadCheck.hit
  /\ brk' = HeadCheck.brk

Current == InsnAt(mapped, CIA)

\* The opcode cannot be read.  The status returned is a variable that was
\* never set; when it happens to be negative main's loop ends.
FetchFault ==
  /\ Issues
  /\ ~ Fetches(Current)
  /\ \E place \in {"prompt", "exit"} : Return(place)
  /\ UNCHANGED <<arch_vars, time_vars, mapped, brkpt_bypass, iabr, pll_zero,
                 tr_cmd, ctlc_detect>>

\* A mutation: the program counter moves on to the next instruction.
ExecFault_moves_on ==
  /\ Issues
  /\ Fetches(Current)
  /\ Raises(Current) # 0
  /\ NIA' = Following(CIA)
  /\ CIA' = NIA'
  /\ acc' = NewAcc(Current, acc)
  /\ Return("prompt")
  /\ UNCHANGED <<lr, time_vars, mapped, brkpt_bypass, iabr, pll_zero,
                 tr_cmd, ctlc_detect>>

\* The instruction raises an exception, which stops the run and is not
\* taken; what it did before is kept.
ExecFault ==
  /\ Issues
  /\ Fetches(Current)
  /\ Raises(Current) # 0
  /\ NIA' = Following(CIA)
  /\ acc' = NewAcc(Current, acc)
  /\ Return("prompt")
  /\ UNCHANGED <<CIA, lr, time_vars, mapped, brkpt_bypass, iabr, pll_zero,
                 tr_cmd, ctlc_detect>>

\* The instruction completes: its effect is in place, CIA still names it.
Execute ==
  /\ Issues
  /\ Fetches(Current)
  /\ Raises(Current) = 0
  /\ NIA' = NewNIA(Current, CIA, lr)
  /\ acc' = NewAcc(Current, acc)
  /\ lr'  = NewLR(Current, CIA, lr)
  /\ ran' = TRUE
  /\ at'  = "trace"
  /\ UNCHANGED <<CIA, time_vars, over_cmd, ncyc, toex, edge, mapped,
                 brkpt_bypass, iabr, pll_zero, tr_cmd, ctlc_detect>>

\* shell_run_command( tr_cmd ), whose status nobody looks at.  `.' stands
\* for CIA, the instruction just executed.
TraceCmd ==
  /\ at = "trace"
  /\ brk' = CASE tr_cmd = BpClear -> BRK_init(brk)
              [] tr_cmd = BpHere  -> BRK_set(brk, CIA, 0, FALSE).brk
              [] OTHER -> brk
  /\ at' = "tick"
  /\ UNCHANGED <<arch_vars, time_vars, local_vars, mapped, brkpt_bypass, iabr,
                 pll_zero, tr_cmd, ctlc_detect>>

\* A mutation: no carry from the lower into the upper half.
Tick_no_carry ==
  /\ at = "tick"
  /\ IF dec_tick + 1 >= dec_limit
       THEN /\ DEC' = (DEC - 1) % TimeMod
            /\ TBL' = (TBL + 1) % TimeMod
            /\ dec_tick' = 0
       ELSE dec_tick' = dec_tick + 1 /\ UNCHANGED <<DEC, TBL>>
  /\ at' = "poll"
  /\ UNCHANGED <<arch_vars, dec_limit, TBU, local_vars, sim_vars, ctlc_detect>>

Tick ==
  /\ at = "tick"
  /\ IF dec_tick + 1 >= dec_limit
       THEN /\ DEC' = (DEC - 1) % TimeMod
            /\ TBL' = (TBL + 1) % TimeMod
            /\ TBU' = IF TBL' = 0 THEN (TBU + 1) % TimeMod ELSE TBU
            /\ dec_tick' = 0
       ELSE dec_tick' = dec_tick + 1 /\ UNCHANGED <<DEC, TBL, TBU>>
  /\ at' = "poll"
  /\ UNCHANGED <<arch_vars, dec_limit, local_vars, sim_vars, ctlc_detect>>

\* raw_isbreak copies the flag ...
PollRead ==
  /\ at = "poll"
  /\ edge' = ctlc_detect
  /\ at' = "ack"
  /\ UNCHANGED <<arch_vars, time_vars, over_cmd, ncyc, toex, ran, sim_vars,
                 ctlc_detect>>

\* A mutation: the flag is cleared but its value is never used.
PollClear_ignored ==
  /\ at = "ack"
  /\ ctlc_detect' = FALSE
  /\ at' = "retire" /\ edge' = FALSE
  /\ UNCHANGED <<arch_vars, time_vars, over_cmd, ncyc, toex, ran, sim_vars>>

\* ... and then clears it.  On a break the loop is left, before CIA moves on.
PollClear ==
  /\ at = "ack"
  /\ ctlc_detect' = FALSE
  /\ IF edge
       THEN Return("prompt")
       ELSE /\ at' = "retire" /\ edge' = FALSE
            /\ UNCHANGED <<over_cmd, ncyc, toex, ran>>
  /\ UNCHANGED <<arch_vars, time_vars, sim_vars>>

\* Mutations: the bypass lasts, the step counter does not count.
Retire_bypass_kept ==
  /\ at = "retire"
  /\ CIA' = NIA
  /\ ncyc' = IF ncyc # 0 THEN ncyc - 1 ELSE ncyc
  /\ at' = "loop"
  /\ UNCHANGED <<NIA, acc, lr, time_vars, over_cmd, toex, edge, ran, sim_vars,
                 ctlc_detect>>
Retire_uncounted ==
  /\ at = "retire"
  /\ CIA' = NIA
  /\ brkpt_bypass' = FALSE
  /\ at' = "loop"
  /\ UNCHANGED <<NIA, acc, lr, time_vars, local_vars, mapped, brk,
                 iabr, pll_zero, tr_cmd, ctlc_detect>>

Retire ==
  /\ at = "retire"
  /\ CIA' = NIA
  /\ ncyc' = IF ncyc # 0 THEN ncyc - 1 ELSE ncyc
  /\ brkpt_bypass' = FALSE
  /\ at' = "loop"
  /\ UNCHANGED <<NIA, acc, lr, time_vars, over_cmd, toex, edge, ran, mapped,
                 brk, iabr, pll_zero, tr_cmd, ctlc_detect>>

\* Back in `over': the address it passes is an uninitialised variable.
OverCleanup ==
  /\ at = "over"
  /\ \E start \in Addr : brk' = BRK_del_addr(brk, start, TRUE).brk
  /\ over_cmd' = FALSE
  /\ at' = "prompt"
  /\ UNCHANGED <<arch_vars, time_vars, ncyc, toex, edge, ran, mapped,
                 brkpt_bypass, iabr, pll_zero, tr_cmd, ctlc_detect>>

Ctl ==
  \/ Enter \/ StepsDone \/ BreakHit \/ FetchFault \/ ExecFault \/ Execute
  \/ TraceCmd \/ Tick \/ PollRead \/ PollClear \/ Retire \/ OverCleanup

\* key_handler, at any moment.
Sigint ==
  /\ Signals
  /\ at # "exit"
  /\ ctlc_detect' = TRUE
  /\ UNCHANGED <<at, arch_vars, time_vars, local_vars, sim_vars>>

Next == Command \/ Ctl \/ Sigint

Spec == Init /\ [][Next]_vars

\* The thread of the simulator runs on; nobody makes the user type.
FairSpec == Spec /\ WF_vars(Ctl)

-----------------------------------------------------------------------------
(* Properties.                                                             *)

\* The places of one run, from the call of ppcsim_ctl to its return.
InRun == {"enter", "loop", "trace", "tick", "poll", "ack", "retire"}

\* A breakpoint with no skips left, under address a.
LiveAt(a) == \E i \in MatchingSlots(brk, a) : brk[i].count = 0

\* The places of a run after its first instruction has executed.
Executed == {"trace", "tick", "poll", "ack", "retire"}

\* Inductive: no entry ever has skips to count (BRK_set drops the count), so
\* the two lookups of ppcsim_ctl agree; the check at the head of its loop is
\* skipped for the first instruction of a run at most, and finds nothing there
\* when it is not skipped.
RunInv ==
  /\ TypeOK
  /\ NoSkips(brk)
  /\ at \in Executed => ran
  /\ at = "loop" /\ ran => ~ brkpt_bypass
  /\ at = "loop" /\ ~ ran /\ ~ brkpt_bypass => MatchingSlots(brk, CIA) = {}

\* An instruction with a live breakpoint on it is executed only as the first
\* of a run: the bypass that lets `cont' leave a breakpoint is spent by the
\* instruction it was meant for (brkpt_bypass in ppcsim_ctl).
BypassOnlyFirst ==
  [][(at = "loop" /\ at' = "trace" /\ LiveAt(CIA)) => ~ ran]_vars

\* A run that stops at a breakpoint has executed something: `cont' and `ss' on
\* a breakpoint never stop again on the spot (the call of bp_match above the
\* loop of ppcsim_ctl and the one in it agree).
BreakpointStopsMakeProgress == [][BreakHit => ran]_vars

\* A breakpoint the user planted goes away, or changes, only by a command of
\* the user: neither a run nor `over' cleaning up after itself disturbs it.
UserBreakpointsKept ==
  [][~ (CmdBpDel \/ CmdBpClear \/ CmdReset \/ (TraceCmd /\ tr_cmd = BpClear))
     => \A i \in Slots : brk[i].valid /\ ~ brk[i].sys => brk'[i] = brk[i]]_vars

\* The decrementer is never overdue: fewer instructions have gone by since its
\* last update than an update takes, whatever `cpu' and `reset' did meanwhile.
TickPending == dec_tick < IF dec_limit = 0 THEN 1 ELSE dec_limit

\* TBU and TBL are one counter of twice the width, and the decrementer goes
\* down exactly when it goes up; only `cpu' and `rm' set them otherwise.
WideTimeBase == TBU * TimeMod + TBL
TimeBase ==
  [][\/ UNCHANGED <<DEC, TBL, TBU>>
     \/ CmdCpu \/ CmdRm
     \/ /\ WideTimeBase' = (WideTimeBase + 1) % (TimeMod * TimeMod)
        /\ DEC' = (DEC - 1) % TimeMod]_vars

\* Ctrl-C stops the run it is typed into, if it comes neither at the prompt
\* nor between the two statements of raw_isbreak.
CtrlCStops ==
  (ctlc_detect /\ at \in InRun \ {"ack"}) ~> at \in {"prompt", "exit"}

\* `ss n' and `tr' come back to the prompt, n = 0 apart.
StepsReturn ==
  (at = "enter" /\ ncyc # 0) ~> at \in {"prompt", "exit"}

\* The simulated machine, as the user of the debugger is to see it.  From the
\* moment an instruction has executed until CIA catches up, the program
\* counter is NIA.
Ideal == INSTANCE IdealMachine WITH
  pc      <- IF at \in {"trace", "tick", "poll", "ack", "retire"} THEN NIA ELSE CIA,
  running <- at \in InRun \ {"enter"}

\* Breakpoints, step counts, trace commands and time keeping change nothing of
\* what the program computes: runs and stops are those of the ideal machine.
ImplementsIdeal == Ideal!Spec
=============================================================================
