------------------------------- MODULE Console -------------------------------
(***************************************************************************)
(* One terminal, three users: the shell, which reads lines at its prompt,  *)
(* the simulated program, which reads characters through the UART of       *)
(* uart.c, and the SIGINT handler, which throws away what nobody has read  *)
(* yet.  The simulated program is the echo loop of a monitor: it sets the  *)
(* UART up and then polls the line status, reads, writes, for ever.        *)
(*                                                                         *)
(* `at' is where the thread of the simulator stands:                       *)
(*   prompt  in shell_read_line                                            *)
(*   loop    about to simulate the program's next access                   *)
(*   access  in MSS_UART_PC16552, after kbhit                              *)
(*   poll    the access is done, the break flag not yet read               *)
(* Reading the flag and clearing it are one step here; RunControl has the  *)
(* window between them.                                                    *)
(***************************************************************************)
EXTENDS PC16552, Sequences

CONSTANTS
  Chars,      \* characters the user types
  MaxKeys,    \* how many, over a behaviour
  Divisor,    \* the divisor the program sets, lower and upper byte
  MaxSignals, \* how often he types Ctrl-C
  Resets      \* whether the user types `reset'

ASSUME ConsoleAssumption ==
  /\ Chars \subseteq Byte
  /\ MaxKeys \in Nat
  /\ Divisor \in [{0, 1} -> Byte]
  /\ MaxSignals \in Nat
  /\ Resets \in BOOLEAN

DEL == 0 .. 6
BS  == {3}

\* The program's accesses before its loop: divisor, 8 bits, no loopback.
Store(r, c) == [reg |-> r, data |-> c]
Setup == << Store(LCR, {7}), Store(0, Divisor[0]), Store(1, Divisor[1]),
            Store(LCR, {0, 1}), Store(MCR, {0, 1}) >>

VARIABLES
  at,
  phase, step,   \* the program: setup (with its step), status, data or echo
  held,          \* its register
  uart,
  delkey,        \* uart_io_delkey: a DEL key is read as a backspace
  keys,          \* the terminal's queue
  typed,         \* how many keys have been typed
  signals,       \* and how many Ctrl-C
  shown,         \* what the program has printed
  ctlc_detect,
  lost           \* history: since the program last asked for the line status,
                 \* somebody else has taken a key, or its read was undone

program_vars == <<phase, step, held>>
vars == <<at, program_vars, uart, delkey, keys, typed, signals, shown, ctlc_detect, lost>>

TypeOK ==
  /\ at \in {"prompt", "loop", "access", "poll"}
  /\ phase \in {"setup", "status", "data", "echo"}
  /\ step \in 1 .. Len(Setup)
  /\ held \in Byte
  /\ uart \in Uart
  /\ delkey \in BOOLEAN
  /\ keys \in Seq(Byte) /\ Len(keys) <= typed
  /\ typed \in 0 .. MaxKeys
  /\ signals \in 0 .. MaxSignals
  /\ shown \in Seq(Byte)
  /\ ctlc_detect \in BOOLEAN
  /\ lost \in BOOLEAN

Init ==
  /\ at = "prompt"
  /\ phase = "setup" /\ step = 1 /\ held = {}
  /\ uart = PowerOn
  /\ delkey = TRUE
  /\ keys = <<>> /\ typed = 0 /\ signals = 0 /\ shown = <<>>
  /\ ctlc_detect = FALSE
  /\ lost = FALSE

-----------------------------------------------------------------------------
(* The user.                                                               *)

Type ==
  /\ typed < MaxKeys
  /\ typed' = typed + 1
  /\ \E c \in Chars : keys' = Append(keys, c)
  /\ UNCHANGED <<at, program_vars, uart, delkey, signals, shown, ctlc_detect, lost>>

\* key_handler, with tcflush.
Sigint ==
  /\ signals < MaxSignals
  /\ signals' = signals + 1
  /\ ctlc_detect' = TRUE
  /\ keys' = <<>>
  /\ lost' = (lost \/ keys # <<>>)
  /\ UNCHANGED <<at, program_vars, uart, delkey, typed, shown>>

\* The line editor takes a key; the line it is in is not a command.
ShellKey ==
  /\ at = "prompt"
  /\ keys # <<>>
  /\ keys' = Tail(keys)
  /\ lost' = TRUE
  /\ UNCHANGED <<at, program_vars, uart, delkey, typed, signals, shown, ctlc_detect>>

\* A command comes when the line editor has read all that was typed before.
Cont ==
  /\ at = "prompt"
  /\ keys = <<>>
  /\ at' = "loop"
  /\ UNCHANGED <<program_vars, uart, delkey, keys, typed, signals, shown, ctlc_detect, lost>>

CmdUart ==
  /\ at = "prompt"
  /\ keys = <<>>
  /\ delkey' = ~ delkey
  /\ UNCHANGED <<at, program_vars, uart, keys, typed, signals, shown, ctlc_detect, lost>>

\* ppcsim_init and UART_reset.
CmdReset ==
  /\ Resets
  /\ at = "prompt"
  /\ keys = <<>>
  /\ uart' = UART_reset(uart)
  /\ delkey' = TRUE
  /\ UNCHANGED <<at, program_vars, keys, typed, signals, shown, ctlc_detect, lost>>

-----------------------------------------------------------------------------
(* The simulator, running the program.                                     *)

\* A breakpoint on any of the program's accesses, or the end of an `ss' or
\* `tr': the shell has the terminal until the next command.
Breakpoint ==
  /\ at = "loop"
  /\ at' = "prompt"
  /\ UNCHANGED <<program_vars, uart, delkey, keys, typed, signals, shown, ctlc_detect, lost>>

\* The access of the program: which register, whether and what it stores.
Reg      == CASE phase = "setup"  -> Setup[step].reg
              [] phase = "status" -> LSR
              [] OTHER            -> RXTX
IsStore  == phase \in {"setup", "echo"}
Data     == IF phase = "setup" THEN Setup[step].data ELSE held

\* A mutation: kbhit looks for a key by reading it.
Begin_eats ==
  /\ at = "loop"
  /\ uart' = Refresh(uart, keys # <<>>)
  /\ keys' = IF keys = <<>> THEN keys ELSE Tail(keys)
  /\ at' = "access"
  /\ lost' = (phase # "status" /\ lost)
  /\ UNCHANGED <<program_vars, delkey, typed, signals, shown, ctlc_detect>>

\* kbhit.
Begin ==
  /\ at = "loop"
  /\ uart' = Refresh(uart, keys # <<>>)
  /\ at' = "access"
  /\ lost' = (phase # "status" /\ lost)
  /\ UNCHANGED <<program_vars, delkey, keys, typed, signals, shown, ctlc_detect>>

StoreReg ==
  /\ at = "access"
  /\ IsStore
  /\ uart' = Stored(uart, Reg, Data)
  /\ shown' = IF Prints(uart, Reg) THEN Append(shown, Data) ELSE shown
  /\ at' = "poll"
  /\ UNCHANGED <<program_vars, delkey, keys, typed, signals, ctlc_detect, lost>>

LoadReg ==
  /\ at = "access"
  /\ ~ IsStore
  /\ ~ ReadsKeyboard(uart, Reg)
  /\ held' = Value(uart, Reg)
  /\ at' = "poll"
  /\ UNCHANGED <<phase, step, uart, delkey, keys, typed, signals, shown, ctlc_detect, lost>>

Translate(c) == IF c = DEL /\ delkey THEN BS ELSE c

\* raw_getkey: read() waits for a key.  A signal does not end the wait, for
\* signal() has system calls restarted.
LoadKey ==
  /\ at = "access"
  /\ ~ IsStore
  /\ ReadsKeyboard(uart, Reg)
  /\ keys # <<>>
  /\ held' = Translate(Head(keys))
  /\ keys' = Tail(keys)
  /\ at' = "poll"
  /\ UNCHANGED <<phase, step, uart, delkey, typed, signals, shown, ctlc_detect, lost>>

\* A mutation: the flag is read and the run goes on.
Break_ignored ==
  /\ at = "poll"
  /\ ctlc_detect
  /\ ctlc_detect' = FALSE
  /\ at' = "loop"
  /\ UNCHANGED <<program_vars, uart, delkey, keys, typed, signals, shown, lost>>

\* The end of an instruction in ppcsim_ctl.  On a break the instruction is
\* left to be executed again.
Break ==
  /\ at = "poll"
  /\ ctlc_detect
  /\ ctlc_detect' = FALSE
  /\ at' = "prompt"
  /\ lost' = (lost \/ phase = "data")
  /\ UNCHANGED <<program_vars, uart, delkey, keys, typed, signals, shown>>

Retire ==
  /\ at = "poll"
  /\ ~ ctlc_detect
  /\ phase' = CASE phase = "setup"  -> IF step < Len(Setup) THEN "setup" ELSE "status"
                [] phase = "status" -> IF 0 \in held THEN "data" ELSE "status"
                [] phase = "data"   -> "echo"
                [] OTHER            -> "status"
  /\ step' = IF phase = "setup" /\ step < Len(Setup) THEN step + 1 ELSE step
  /\ at' = "loop"
  /\ UNCHANGED <<held, uart, delkey, keys, typed, signals, shown, ctlc_detect, lost>>

User == Type \/ Sigint \/ ShellKey \/ Cont \/ CmdUart \/ CmdReset \/ Breakpoint
Step == Begin \/ StoreReg \/ LoadReg \/ LoadKey \/ Break \/ Retire

Next == User \/ Step

Spec == Init /\ [][Next]_vars

\* The thread runs on; nobody types.
FairSpec == Spec /\ WF_vars(Step)

-----------------------------------------------------------------------------
(* Properties.                                                             *)

\* In the UART, waiting for a key that is not there.
Waiting == at = "access" /\ ~ IsStore /\ ReadsKeyboard(uart, Reg) /\ keys = <<>>

\* A program that asks LSR before it reads RBR waits inside the UART only if
\* the key it was told of went elsewhere in between: to the line editor at a
\* stop between its two accesses, to the tcflush of the SIGINT handler, or to
\* its own read, which a Ctrl-C has executed twice.  kbhit and raw_getkey never
\* disagree of themselves.
PolledReadsDoNotWait == Waiting => lost

\* The divisor latch keeps what the program set, whatever passes through the
\* receive and transmit registers that share its address.
DivisorKept ==
  phase # "setup" => uart.shadow[0] = Divisor[0] /\ uart.shadow[1] = Divisor[1]

\* The character read and not yet printed.
InFlight ==
  IF (phase = "data" /\ at = "poll") \/ (phase = "echo" /\ at # "poll")
    THEN <<held>> ELSE <<>>

Line == INSTANCE KeyStream WITH
  Chars   <- Byte,
  waiting <- [i \in 1 .. Len(keys) |-> Translate(keys[i])],
  held    <- InFlight,
  running <- at # "prompt"

\* Whatever stops there are, the program echoes the keys in the order in which
\* they were typed, each once, but for those that the line editor took from
\* the front of the queue while it was stopped.
ImplementsStream == Line!Spec

\* Every key typed to the running program is read.
KeysAreRead == (at # "prompt" /\ keys # <<>>) ~> (at = "prompt" \/ keys = <<>>)

\* What the program transmits is printed.
AlwaysReadyToSend ==
  [][StoreReg /\ phase = "echo" => shown' = Append(shown, held)]_vars

\* Ctrl-C interrupts a program that is not in that wait, reset UART or not.
CtrlCStopsPolling == (at # "prompt" /\ ctlc_detect) ~> (at = "prompt" \/ Waiting)

\* Ctrl-C interrupts the program, wherever it is.
CtrlCInterrupts == (at # "prompt" /\ ctlc_detect) ~> at = "prompt"
=============================================================================
