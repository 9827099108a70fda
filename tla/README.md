# ppcsim: models and proofs

ppcsim is an interactive simulator of PowerPC processors: a shell reads
commands, an interpreter executes the machine code of a target system whose
memory map, north bridge and UART are simulated too. This directory holds TLA+
models of it, configurations that check them with TLC on small instances, and
theorems about them checked by TLAPS.

## The system

The simulator is one thread and one global structure (`PPCSIM`). Two things
happen beside the thread: the SIGINT handler, which may run between any two of
its steps, and the arrival of keys at the terminal.

| part | state | operations | what makes it correct |
|---|---|---|---|
| run control (`ppcsim.c` 3700-3893) | CIA, NIA, step count, breakpoint bypass, trace command | `ppcsim_ctl`, `ppcsim_run`, `ppcsim_ss` | stopping, stepping and breakpoints change nothing of what the program computes; runs end when they should |
| breakpoints (`breakpt.c`, `ppcsim_bp_match`) | a table of slots | set, delete by index, delete by address, clear, match | user breakpoints stop runs and stay; temporary ones go |
| time (`ppcsim.c` 3726-3732, 3810-3824) | DEC, TBL, TBU, tick counter and limit | the tick at the end of each instruction | one counter of 64 bits, DEC against it, never overdue |
| signal handler (`shell.c` 169-186) | `ctlc_detect` | `key_handler`, `raw_isbreak` | a Ctrl-C stops the run it is typed into |
| keyboard (`shell.c` 89-197) | the terminal's queue | `kbhit`, `raw_getkey`, the handler's flush | no key is read twice, a reader that asked first does not block |
| line editor and history (`shell.c` 40-307) | the ring of lines, arrow position | `add_history`, arrows, `hist` | the ring shows the last lines, a line that repeats the one before it left out |
| shell (`shell.c` 610-1008) | dot command, trace command | dispatch, `;` lists, scripts | a failing command ends its list or script |
| interpreter (`ppcsim.c` 700-3659) | GPR, FPR, VR, CR, LR, CTR, XER, VSCR, reservation | `sim_powerpc` | the architecture's arithmetic, branches, reservations and faults |
| backtrace (`ppcsim.c` 461-493) | a bounded stack | push on `bl`, pop on `blr` | matches the calls of the program, stays in bounds |
| memory subsystem (`mss.c`) | logging and ignore flags, exception | `MSS_read`, `MSS_write` | each access goes to one device, or raises an exception |
| system map (`system.c`) | a list of map entries | `sys -a, -d, -m, -r`, reset | no half entries, memory behind every MEM entry |
| north bridge (`nb.c`) | config registers, NVRAM, RTC, GPIO | config index/data cycles, ISA IO | bytes written are read back, through the right lane |
| UART (`uart.c`) | 16552 registers and shadows | register reads and writes | what is typed is read, in order; loopback |
| symbols (`symbols.c`), file loader (`file.c`) | symbol list | load, look up | `where` shows the nearest symbol below, a name keeps its value |
| CPU selection (`cpu.c`), registers (`regs.c`, `spr.c`) | SPR file, PLL settings | `cpu`, `rd`, `rm` | the processor named is the one simulated |
| memory display (`mem.c`) | the command left for `.` | `md`, `mm` | a display ends, and shows what a program would read |
| assembler (`asm.c`) | `label_table` | the loop of `as` | branches reach their labels, operands go where they belong |
| disassembler (`dasm.c`) | none of its own | the listing of `u` and `as` | a line that is listed means the instruction it was made from |

The shell calls `ppcsim_ctl`, which calls the memory subsystem for the opcode,
the interpreter, the *shell again* for the trace command, and polls the break
flag; the interpreter calls the memory subsystem, which calls the north bridge
or the UART, which reads the same terminal as the shell.

Hard to test in it: a signal between any two statements, above all between the
execution of an instruction and the update of CIA; the two breakpoint lookups
at the start of a run; state that outlives the run that set it (bypass, tick
counter, break flag, IABR); commands run from inside the loop; instructions
that fail half-way; the blocking read behind a UART register; lists and tables
left half-built. `PROJECT.json` lists these hazards with their lines.

## Modules

- `Address`: byte addresses, their alignment and the wrap of CIA + 4.
- `FirstFit`: the search of a table or list from its start, which both the
  breakpoints and the system map use.
- `BreakpointTable`: the table of `breakpt.c` as a value, one operator per
  function, plus `ppcsim_bp_match`.
- `Program`: what the run loop sees of an instruction: does it fetch, complete
  or raise, where does it go, what does it do to the link register. The rest of
  the architecture is one counter, `acc`, that tells once from twice.
- `IdealMachine`: the abstract specification. A machine that runs or is
  stopped; running, it executes the instruction under its program counter, once,
  and moves on; stopped, the user may change it.
- `RunControl`: the run loop with the commands around it and the signal handler.
  `Command` is one step of the shell; `Ctl` are the steps of `ppcsim_ctl`, cut
  where a signal can make a difference; `Sigint` is the handler.
- `PC16552`: the UART of `uart.c` as a value: what an access reads, what it
  leaves.
- `KeyStream`: the abstract specification of a terminal line: a running program
  reads the foremost key and lets it out before it reads another; while the
  program is stopped, somebody else takes the foremost key.
- `Console`: the terminal and its three users, the shell, the program behind the
  UART, and the signal handler.
- `SystemMap`: the list of `system.c` as a value, one operator per function:
  parsing a definition, with its early returns, freeing, looking up.
- `AddressSpace`: the abstract specification of a system map: a role for each
  address, and for those that are memory a cell, in a row with the others of its
  device. An access at any address moves the cell of its first address and those
  that follow in the same device.
- `MemorySubsystem`: `MSS` over the map, for loads and stores of one and several
  bytes at any address, with the commands that make the map (`SysAdd`,
  `SysFile`, `SysSimple`, `SysFree`) and the one that fills memory (`FileCmd`).
- `Words`: words of four bytes of any width, their bits, fields and signs.
- `Processor`: the registers and the memory `sim_powerpc` works on, with the
  helpers for XER and CR. `IntegerUnit`, `BranchUnit` (with the backtrace),
  `LoadStoreUnit` and `VectorUnit`: the instructions, a few lines for each group.
- `Interpreter`: short programs of them; each step is one instruction, from
  fetch to the next CIA or to an exception.
- `NorthBridge`: `nb.c` as a value. `CpuSelection`: `cpu.c` as a value.
- `Board`: the program that uses the bridge, and the user who stops it anywhere
  for `md`, `mm`, `nb`, `cpu` and `reset`.
- `HistoryLog`: the abstract specification of a history, the last commands in
  order. `History`: the ring of `shell.c`, its arrows and the line they show.
- `SymbolTable`: the list of `symbols.c` as a value.
- `Session`: a session at the prompt: lines from the keyboard or the history,
  split at semicolons, scripts within scripts, the commands that use symbols,
  the ways in which all of it ends.
- `Tables`: `:>` and `@@` by their definitions, for no prover can expand those of TLC.
- `OperandSyntax`: for each group of the operand table, which word of a line the
  assembler puts into which field, and how it reads it. `OperandListing`: which
  fields the disassembler prints for it, how, which address it says a branch
  goes to, and which mnemonic the searches find for an instruction.
- `Assembler`: the loop of `as` over both, with the table of labels.
- `MCRunControl`, `MCConsole`, `MCMemorySubsystem`, `MCInterpreter`, `MCBoard`,
  `MCSession`, `MCAssembler`: what TLC runs them on.
- `ScanProofs`: lemmas about searches, least and greatest elements and folds,
  which the other proofs cite. `RunControlProofs`, `ConsoleProofs`,
  `MemorySubsystemProofs`, `BoardProofs`, `SessionProofs`, `InterpreterProofs`,
  `AssemblerProofs`: theorems.

The variables of `RunControl` have the names of the code's; `at` is the place of
the thread, `acc` stands for the registers, `mapped` says whether memory
holds the program, `pll_zero` whether the PLL field of HID1 is 0, and `ran` is a
history variable: this run has executed an instruction. Where the value of
something never influences what is modelled, it is left out: the exception type
and address (read by `status` only), the shadow registers of `td`, the
instruction count, `brkpt_hwmodel`, which is always 1, and the status codes of
commands, save those a caller looks at.

Undefined behaviour is a choice: the status after a failed fetch is a variable
never set (`FetchFault` may end the program), and so is the address `over`
deletes its breakpoint at (`OverCleanup`).

Modelled of the outside: after `reset` the system map is a null list, which is
taken to be an empty one, whose reads give 0 (`mss_ignore_undef` is 1 then), and
0 is not an instruction. Not modelled: programs that change their own code or
the time registers, trace commands other than `bp .` and `bp -r` (a trace
command that runs or resets would re-enter the loop), instructions that block
in a UART read.

`Console` takes the run loop apart at other places than `RunControl`: an access
of the program is `Begin` (kbhit and the head of `MSS_UART_PC16552`), then one
of `StoreReg`, `LoadReg`, `LoadKey` (`raw_getkey`, which waits), then `Break` or
`Retire` (the end of `ppcsim_ctl`'s loop). The handler and the arrival of keys
come between any two, and the program may be stopped before any access
(`Breakpoint`), also between its poll of LSR and its read of RBR: then the line
editor takes the key that was announced, and the read waits in `read()` until
another key is typed, without any Ctrl-C. `lost` is a history variable: that
this, or what a Ctrl-C does to a key, has happened since the last poll. A byte
is the set of its one bits. The simulated program is not in the repository; it
is what a boot monitor does: set divisor, line and modem control up, then for
ever wait for data ready, read, write. Not modelled: the instructions of the
program that do not touch the UART (the two steps of an access let keys, signals
and stops come in all the same), `TCSAFLUSH` when the shell starts and ends,
files as terminals.

`MemorySubsystem` cuts an access by what `MSS` makes of the address: `Ignore`,
`Trap`, `Device` and `LoadMem` or `StoreMem`. An access may start at any address, as
neither `MSS` nor the interpreter checks its alignment. The entry, the mask and the
check of the size are those of the first byte; the others are those behind it in
the memory of that entry. So an access that crosses the end of an entry, or of what
its mask lets through, does not reach what is mapped at the addresses that
follow: it finds bytes of the same memory that no address names, or leaves the
memory. A definition is a record of what
the parser makes of its terms, "?" standing for one it rejects; what is left of
a rejected one stays in the list (`Parsed`). An access that leaves the allocated
memory is undefined behaviour: the load may give anything, the store may be lost,
the simulator may die (`dead`), and if nothing was allocated at all it dies.
`answer` is a history variable: what was done last and what a load was told. A mask
is given as a modulus, as each mask of the targets keeps a block of low bits. Not
modelled: a `malloc` that fails, lines with missing terms (`strcasecmp` of a null
pointer), names, the conversion of ELF and S-record files by external tools, the
devices' own state, and accesses of eight bytes, for which `MSS` has no case, so
that it moves nothing and returns 0. The mode of an entry (RW, RO) is kept in the
map and, as in the code, looked at by nobody.

In `Interpreter` an instruction is a record of its fields, and a program maps
each address to the instructions that may stand there, so that one run covers
all programs that differ in a field. `prog`, `entry`, `ir`, `calls` and `clipped`
are history variables. A word has four bytes of `BYTE` bits, so that every loop
over bytes and lanes is the code's and every carry and sign has its place. A
variable the code never sets (`lbzux`, `lhax`) is a member of `Junk`. Memory is
what the memory subsystem reaches, and an access fails when `MSS` would fail it.

In `Board` a scene says which addresses the program uses and which commands the
user gives. `expect` is a history variable: what the bridge should hold, kept
apart for each byte. An access of one instruction is one step here, because no
device of the bridge can be interrupted. `nb.c` does not hold the index of the NVRAM
below its size; what lies behind the array is laid out by a header that is not in
the repository, so it is a parameter, `Behind`: the latches and registers of the
bridge, byte by byte, or other data of the simulator, whose change is left out, as
are the two places of the index and data ports and the ID. The run has one of each
of these within reach.

In `Session` a line and a command are names; `Pieces` and `Does` say what the code
makes of their text. `Call` is one call of `shell_run_command`, with everything a
command does, and `stack` is the C stack of lists and scripts. `ran` and `told`
are history variables. `u` hands on the status of a read of memory, and that of a read
that fails is the one of `exit`; the model has no memory, so that any `u` may end the
simulator (`Unassemble`). `told` has both what `where` finds and the label it
shows, which is looked up again by the low bits of the address (`Listed`).

In `Assembler` a word of a line is what it looks like and the number in it, and a
number is read by the radix its reader uses, not the one it was printed in.
Fields have the code's widths: BD has 16 bits, LI 26, and both lose the low two and
what is above when a target is put into them (`Kept`), which nobody checks. A
target that is listed or reached is computed from them as the disassembler
(`Target`) and the interpreter (`Goes`) each do. `SPACE` is the number of addresses:
2 ^ 32 in the code, and 2 ^ 30 in the runs, as TLC has integers of 32 bits.
The macros that cut an opcode into fields are in `asm_dsm.h`, which is not in
the repository. It is assumed that each means the field it is named for, that
`EXTRACT_PRIMARY_B` and `EXTRACT_SPECIAL` reach to BO and to BI as their uses
require, and that `EXTRACT_D` is not negative. The entry behind `label_table` is
there, with a name or without: `branchtable_clear`, which would set it, has no
caller.

## Runs

| run | asks | result |
|---|---|---|
| `run_keys` | Ctrl-C at any moment against `cont`, `go`, `tr`, `ss`, `over`, on a loop that calls a subroutine, user and temporary breakpoints on the same addresses | no error |
| `run_quiet` | no Ctrl-C; a program that falls through, calls, returns, fails half-way, runs into unmapped memory; trace commands that edit the table; `cpu`, `rm`, `reset` between runs; wrapping time registers | no error |
| `run_break` | is the debugger transparent when Ctrl-C is typed? | it is not (`ppcsim.c` 3828) |
| `console_echo` | keys typed at any moment, stops before any access, `uart -d`; no Ctrl-C, no `reset` | no error |
| `console_signals` | when does a polled read wait, and does Ctrl-C end every run that is not in that wait, with stops and `reset` at any moment? | no error |
| `console_break` | does Ctrl-C end every run? | it does not (`uart.c` 115) |
| `map_access` | entries that overlap, rejected lines, devices that fail, files, in any order, with loads and stores between | no error |
| `map_half` | does an access outside the memory of its entry fail? | it does not (`mss.c` 213) |
| `isa` | do short programs compute what the architecture says: loops, carries, copies, fields, choices, reservations, calls, saturation; do faults leave nothing behind? | no error |
| `board` | does the bridge keep what is written through latches, with a user who stops the program between them; do displays end; is the processor named the one simulated? | no error |
| `session` | is the history a log, does a failure end every list and script around it, do names keep their meaning? | no error |
| `assembler` | do labels, shift mnemonics and lines typed as they are listed make the instruction they mean? | no error |

What the properties say, with the code they are about, stands above each of them
in `RunControl.tla`. In short: `RunInv` is the inductive invariant of the loop;
`BypassOnlyFirst`, `BreakpointStopsMakeProgress` and `UserBreakpointsKept` are
the promises of breakpoints; `CtrlCStops` and `StepsReturn` the promises of
ending; `TickPending` and `TimeBase` are about time; `ImplementsIdeal` says that
`RunControl` implements `IdealMachine`. In `Console.tla`: `ImplementsStream`
says that it implements `KeyStream`, `KeysAreRead` that nothing typed is left
lying, `PolledReadsDoNotWait` that `kbhit` and `raw_getkey` agree as seen
through two registers, so that a polled read waits only if the key has gone
elsewhere in between, `DivisorKept` that registers that share an address are
told apart, `CtrlCStopsPolling` how much of `CtrlCInterrupts` is true. In
`MemorySubsystem.tla`: `ImplementsAddressSpace` says that a map implements
`AddressSpace`, so that no definition, rejected or not, hides or moves what was
there, and bytes go where they are later found, at aligned and unaligned
addresses; `ErrorsAreReported` that the status of an access and the exception it
leaves agree; `LoadedIsRead` that what `fl` copies is where the program looks
for it.

In `Interpreter.tla`: `LoopRunsCtrTimes`, `WideSumIsExact`, `CopiesAreExact`,
`ChoiceFollowsCompare` and `ReservationUsedOnce` say what several instructions
compute together; `BacktraceIsCallStack` that the stack `bt` prints is that of
the calls; `OverflowIsSigned` and `SaturationIsRecorded` are about the flags
beside a result; `PreciseFaults` that an instruction that raises an exception
can be executed again. In `Board.tla`: `ReadsWhatWasWritten` and
`NvramReadsBack` are about data behind latches that others move,
`NamedIsSimulated` about the four things `cpu` keeps, `DisplayEnds` about `md`.
In `Session.tla`: `ImplementsLog` says that `History` implements `HistoryLog`,
`FailureEndsAll` that a failure or an `exit` is not lost on its way up,
`FirstDefinitionHolds` that a later definition shadows no earlier one,
`WhereIsNearest` which symbol `where` finds, by the distance the code computes,
and when it is the one it shows. In `Assembler.tla`: `BranchReachesItsLabel`
relates each branch to the label it was typed with, for as long as both are
there, if the label is a word in the reach of the branch (`InReach`);
`ShiftsMoveTheirBits` compares SH, MB and ME with the bits the manual says each
mnemonic moves; `RetypedIsSame` holds the assembler's chain of cases against the
disassembler's. `AsShown` names the instructions it is true of; what it leaves
out is listed as findings.

Bounds. Two slots (a user breakpoint and a temporary one, in both orders, and
a full table) in `run_keys`, one in `run_quiet`. Four or five words of memory:
the program of `run_keys` has a call, a return, a loop and an ordinary
instruction, and the word after its last wraps to its first; that of
`run_quiet` has one instruction of each kind. Skip counts 0 and 1 are what
a user may ask for. Step counts -1, 0 and 2 give none, endless and several, and
`tr` gives one. Each time register has two values in `run_quiet`, so that both
wraps occur, and an update takes two instructions or, when the limit was
never set, one; `run_keys` has one value of each, as time is not its subject.
The console runs have two characters, an ordinary one and DEL, which is
translated, four of them without Ctrl-C (the program can hold one, with more than
one behind it and one already out) and two with it; at most two Ctrl-C, so that
an interrupted access is interrupted again when it is repeated.
The map runs have four addresses and two values of a byte; `map_access` takes two
definitions at a time out of seven, which has every pair of overlapping
entries in both orders, memory decoded in part (two offsets seen at four addresses)
and memory larger than its mask; `map_half` has a rejected line and memory
smaller than its mask. Accesses start at any of the four addresses. Two sizes of
access stand for three, the second having a byte more than the one that is
checked: at an odd address it crosses the end of an entry of two bytes, and at the
last the end of all of them. `Slack` is what the loader keeps free of a
memory; it is 8 in the code and 0 in memories of three bytes.
`isa` has bytes of two bits, words of eight, four registers and twenty bytes of
memory; operands are taken from the corners (0, 1, the largest positive and
smallest negative word, all ones and values between), fields of rotations
from either end, programs have two to seven instructions, and a program of one
instruction is tried with every instruction of the model, in two modes. The
backtrace holds one entry, so that a nested call is at its limit.
`board` has words of the same size and four registers of the bridge, one of
them with byte lanes; two or more stores to each latch in any order, an index past the
NVRAM, which has six bytes, and displays that
start before, at and behind what they touch. `session` has a ring
of three commands, so that it wraps and its oldest entry is overwritten, seven
sets of commands, scripts two deep and one that runs itself. Its addresses have
eight bits, of which a label is looked up by five, and its three symbols are at 28,
60, which has the same low bits, and 127, while the program stops at 50, at 61 and, more
than half the addresses above the second, at 190. `assembler` shows and
types again one instruction for each row and each of seven vectors of operands,
every amount of a rotation from 0 to 32, and four lines of a program
with two labels, in a table of three entries of which one is taken: the next
label fills it, the one after goes behind. The addresses answered for a label are one
behind the top of the address space, one out of the reach of BD, and one that is
no word.
`acc` counts modulo 2, or not at all in `run_keys`. The systems may really stop, by
`exit`, by the user's last key, or, in the map runs, by an access that leaves the
memory of its entry, so deadlock is checked in `board` only; the programs of `isa`,
the sessions of `session` and the lines of `assembler` are finite.

Fairness. `FairSpec` has weak fairness of `Ctl` only: the thread of the
simulator keeps running while it is inside a command. Nobody has to type
anything, and no signal has to arrive. That an instruction ends is part of the
model of `RunControl`; one that reads the UART may not, which is the
subject of `Console`. Its `FairSpec` has weak fairness of `Step`, the thread in a
run, and not of `Type`: a read that waits for a key may wait for ever. In `Board`
it has weak fairness of `MdLine`, a line of a display; the user need not turn
pages.

`CtrlCStops` is about a Ctrl-C that arrives in a run and not between the two
statements of `raw_isbreak`: one that arrives there is erased.

## Proofs

The theorems are for every value of the constants that their hypotheses, named
here, leave: every program, table size, address width, number of instructions to
a tick, and set of user inputs.

- `TypeCorrect`: `TypeOK`, with a lemma for the shell's commands and one for
  the steps of the loop.
- `RunInvariant`: `RunInv` is inductive. It has two parts. `BRK_set` stores a
  count of 0 whatever it is given, so no entry ever has skips left
  (`NoSkips`), and then a match is a plain lookup that leaves the table alone
  (`MatchIsLookup`). And the bypass is set only by `Enter` and cleared by the
  first `Retire`, so in the loop it is off once an instruction has executed;
  before that, it is off only if there is no breakpoint under CIA. Without
  `NoSkips` the second lookup of the same breakpoint could give another answer
  than the first; without the two clauses on `ran`, `BypassOnlyFirst` and
  `BreakpointStopsMakeProgress` do not follow.
- `BypassTheorem`, `ProgressTheorem`: from `RunInv`.
- `UserBreakpointsTheorem`: setting takes a free slot (`SetKeeps`), cleaning up
  frees a temporary one (`DelAddrKeeps`), matching changes nothing.
- `TickTheorem`: the limit only ever goes from 0 to its value, except at
  `reset`, which clears the counter with it.
- `TimeBaseTheorem`: `TimeBase` for any width of the registers. Two digits that
  are counted up with a carry are one number counted up (`TwoDigits`), in its
  three cases: no carry, a carry, and both going round.
- `Transparent`: with `Signals = FALSE`, the refinement of `IdealMachine`. The
  program counter of the ideal machine is NIA from the moment an instruction
  has executed until CIA catches up. The hypothesis is needed: `run_break` is
  the counterexample without it.

For `Console`, for every divisor, set of characters, number of keys and of Ctrl-C:

- `ConsoleTypeCorrect`: `TypeOK`.
- `DivisorTheorem`, `PrintsTheorem`: without `reset`, `DivisorKept` and
  `AlwaysReadyToSend`. Their invariant `SetupInv` follows the five stores of the
  set-up, one of which may be made twice because a Ctrl-C takes it back: DLAB is
  set while the divisor is written, the divisor is there from then on, and
  DLAB and the loopback are clear from the stores that clear them. So
  `reset`, which sets the loopback (`uart.c` 58), is all that is wrong.
- `PolledTheorem`: `PolledReadsDoNotWait`, with stops, Ctrl-C and `reset`. Its
  invariant `PollInv` follows the news of a key from LSR into the program's
  register and on to its read of RBR: there is a key all the way, or it is
  `lost`.
- `StreamTheorem`: without Ctrl-C and `reset`, `ImplementsStream`, with stops
  anywhere. `StreamInv` is the absence of signals and `SetupInv`: a character the
  program reads in its loop comes from the keyboard, and one it writes goes out.
  Both hypotheses are those of `console_echo`; what a Ctrl-C does to
  the keys that wait is the subject of `console_signals` and `console_break`.

For `MemorySubsystem`, for every size of the address space, set of definitions
and of files:

- `MemoryTypeCorrect`: `TypeOK`; the part that matters is that an entry has
  memory on exactly the offsets below the size it says.
- `NothingHiddenTheorem`: a definition changes no lookup that succeeded before it,
  since the lookup takes the first entry and the definition becomes the last
  (`MapAddressFinds`, `LinkingKeeps`).
- `ErrorsTheorem`: `ErrorsAreReported`, under the assumption that every memory is
  as large as its mask and no line of class MEM is rejected at its mode
  (`SoundLines`), which is what `map_half` lacks. The invariant is `AllBacked`:
  there is memory behind every offset that a mask lets through. Nothing is
  assumed of the address or the size of an access: the first byte alone decides.
- `SpaceTheorem`: the refinement of `AddressSpace`, under the same assumption, for
  accesses of one, two and four bytes at every address. The cells of an access are in
  one device whatever it crosses, so that a store changes no other, and what it
  puts behind the last cell is lost. That the bytes of an access are those at its
  addresses is promised only as far as the addresses are those of the cells, and
  at the end of an entry they are not: this is listed as a finding (`mss.c` 212).
- `LoadedTheorem`: `LoadedIsRead`, for every map and file.

For `Board`, with bytes of any width where nothing else is said:

- `NvramTheorem`: `NvramReadsBack`. Its invariant `NvramInv` says that the two
  latches and the memory behind them hold what is expected of them, as far as
  anything is; a store that may have gone past the NVRAM leaves nothing to be
  expected, as it may have hit the latches themselves (`OverwrittenShape`). The
  proof is about footprints: each access is shown to leave what its port does
  not take (`WriteLeaves`, `ReadLeaves`), each command of the user to touch no
  more than what `expect` forgets (`Gives`).
- `ConfigTheorem`: `ReadsWhatWasWritten`, at BYTE = 8, the width of the code.
  `ConfigInv` relates each byte that is expected to a lane of its register; that
  the swaps and lanes of `nb.c` fit together is `SwapFacts` and `SetByteFacts`.

For `Board` and `Session`, for every table of models, size of the ring, set of
commands, lists and scripts:

- `NamedTheorem`: `NamedIsSimulated` is inductive as it stands, given the fields a
  choice has (`Kept`): a model is found by its name in `cpu` and by its device in
  `reset`, and both are unique in the table.
- `LogTheorem`: the ring implements `HistoryLog`. `HType` bounds the index and
  the count of the ring, and the log is read off it backwards from the index
  (`Logged`); `AddStep` shows that writing the next slot of the ring appends to
  that log and drops its oldest command, in a ring that is full and in one that
  is not.
- `FailureTheorem`: once a call has failed, none of the steps is left but those that
  unwind `stack` with the status that reached them.
- `FirstDefinitionTheorem`: the table is only ever appended to or emptied
  (`SymStep`), and a search from its start does not see what is appended
  (`AddExtends`). A file is a fold over its lines; what each line keeps the fold keeps.
- `WhereTheorem`: the loop of `SYM_where` ends at a symbol strictly below the location
  whose distance is least of those below `MAX_DELTA`, and at none if there is none
  (`WhereFinds`), in every table. The distance is the code's, a difference of words
  kept in an int, so that a symbol further below than half the address space counts as
  nearer than any other, and the one `where` finds may have others between it and the
  location; this is listed as a finding (`symbols.c` 266). What it shows is the first
  symbol with the low bits of the one found, which shares them with itself, so that it
  is that one or an earlier (`ListedIs`).

For `Interpreter`, for every program, memory and number of registers. TraceInv
says that the history variables are those of the last step.

- `FaultTheorem`: `PreciseFaults`. Each instruction either completes or is
  shown to have changed nothing before it gives up (`Faultless`); those that
  move several words may have moved some, which a retry moves again.
- `WordsTheorem`: registers hold words and memory holds bytes, whatever the
  program. `WordsInv` needs each instruction, so there is a lemma for each group of
  them. It is where a missing truncation would show.
- `OverflowTheorem`: `OverflowIsSigned`, from the signs of operands and result.
- `LoopTheorem`, `WideTheorem`, `ReservationTheorem`: the sums of the programs of
  `isa` called loop, wide and lock, for every operand, register contents and
  memory. Their shape is a hypothesis (`LoopIs`, `WideIs`, `LockIs`), which the
  programs of `isa` satisfy. `LoopInv` says at each address what is still to be
  counted; `WideInv` what the half of the sum is, carry included; `LockInv` which of
  the two conditional stores may still succeed.
- `ChoiceTheorem`: `ChoiceFollowsCompare`. `BranchInv`: behind the comparison its
  result stands in the field of CR the branch will test, which is written over
  the other fields and read back (`FieldRead`). `SelectInv` follows a
  selection through the mask and the maximum, lane by lane. `BranchIs` and
  `SelectionsAre` are the shapes of the programs.
- `CopiesTheorem`: `CopiesAreExact`, for the programs called save, copy, swap and
  insert (`SaveIs` and so on). Their invariants say where each byte, or bit, is after
  each instruction: a byte of a string has one place in the registers even when
  these go round (`StringPlaces`), and a rotation and a mask move bits
  (`RotatedBits`, `FieldBack`), which rests on sums of distinct powers of two. The
  hypotheses fix opcodes and the registers that matter; what stands between a save
  and its restore does not write the base register. The proof found two
  lengths that did not become the code's at its width, the mask of the byte count in
  XER and NB = 0; both do now.
- `BacktraceTheorem`: `BacktraceIsCallStack`, for any program and width, while
  two things hold: calls are nested no deeper than the stack plus one
  (`Shallow`), and a branch that links or returns goes elsewhere than to the
  next instruction (`Leaps`). TLC finds both true of the program of `isa`. Where
  they fail the code really differs: a push on a full stack is dropped while the
  return of that call still pops, and `bc` pushes whether it is taken or not.
- `SaturationTheorem`: `SaturationIsRecorded`, for any sequence of the three
  saturating operations the property knows and of moves to VSCR, and any vectors.
  The hypothesis `SaturateIs` is that the register moved to VSCR is written by
  none of them, and clears the flag. `SaturateInv` keeps that register and the
  type of the others; what the code compares with the clipped sum
  (`ClipIs`), and with a word, is what the architecture calls out of range.
  Vectors have eight bytes here, as in the run, and sixteen in the code.

Of the `Interpreter` theorems, all but `FaultTheorem` and `BacktraceTheorem` say
BYTE = 8, and so does `ConfigTheorem`: a prover that is given 2 ^ n for a
variable n knows nothing of it, and the width of the code is 8. The numbers of
that size then have names, which most steps leave unexpanded. TLC checks the
invariants at the width of `isa`.

For `Assembler`, for every size of the label table, memory, set of labels and
sequence of lines and answers:

- `ShiftsTheorem`: `ShiftsMoveTheirBits`. Its invariant `StoredInv` says of each
  word of memory that has a line in `source` that it is what the line makes. The
  rest is arithmetic on SH, MB and ME, one case for each mnemonic, after the
  rows of the table have been looked up: an overlay has the entry of its left
  operand, where that has one. The proof asked for two things that were missing:
  that amounts are not negative, and that the cases of a `CASE` exclude each
  other where the code takes the first, since an overlapping one is an arbitrary
  choice.
- `LabelTheorem`: `BranchReachesItsLabel`. `LabelsInv` says that each branch
  with a label goes where the table has that label, or that this is out of its
  reach or no word, or that it is a label for which there was no room. The
  arithmetic is that a number cut to n bits and extended with its sign is the
  same, if it fits n bits with a sign (`KeptExactly`), up to a turn around the
  address space (`TargetIs`). It holds because the search stops at the first
  entry that is empty or has the name: an entry that is made fills an empty one,
  and so hides no other (`OneNew`).

Assumed are `LabelAssumption`, `AddressAssumption` (the number of addresses is a
multiple of what LI holds, as 2 ^ 32 is, and memory and answers are addresses),
and of a session that its memory holds instructions and its lines are lines
(`SessionAssumption`).

Assumed of the constants is what their ASSUMEs say. `ProgramsAssumption` says of
the programs that their instructions are `Decoded`: a field is as wide as
the opcode makes it, a register one there is. `RunAssumption`, `HistoryAssumption`,
`BridgeAssumption` and the others give sets their kinds. Sets and tables are
finite where the code's are.

Recursive definitions are folds and functions on sets, for which `ScanProofs` has
what can be said without induction over an operator: what every step keeps
the fold keeps (`IsFold`, `FoldExists`), a search stops at the least place
(`FirstIsLeast`), a set of numbers with a bound has a greatest one (`GreatestIn`).

Every invariant of the runs is stated by a theorem. Only model-checked:
`CtrlCStops`, `StepsReturn`, `KeysAreRead`, `CtrlCStopsPolling` and `DisplayEnds`,
which are about fairness, out of the prover's reach, and `RetypedIsSame`. That one
compares two tables of some hundred rows, and a proof would be those rows over again;
nor is it true of every session. Beside what `AsShown` leaves out, `Shown` in
`MCAssembler` leaves out instructions that no line in the listing's own words makes:
a `bclr` whose BO is 20 and BI not 0 is shown as `blr`.

## Plan

All modules of the plan are written, and all invariants proved. What is left is to
state for which instructions a listing is faithful, for `RetypedIsSame` to be
proved of every session, and to model what is named next.

## Not modelled

Floating point, the vector instructions that depend on how a union in a missing
header lies in memory, segment registers. The SPR table, which is names,
numbers and bit fields to print them by. Display commands that only print (`rd`,
`sys -l`, `sym -l`, `bt`, `stat`), formats of files and of symbol tables, option
parsing, terminal modes: they keep no state that another part reads. The
branch of `as` that checks labels when it is left, which compares with a value
no entry is given.
