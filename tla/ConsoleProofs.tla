--------------------------- MODULE ConsoleProofs ---------------------------
(***************************************************************************)
(* Theorems about Console, for every set of characters, number of keys and *)
(* of Ctrl-C, and divisor.                                                 *)
(***************************************************************************)
EXTENDS Console, SequenceTheorems, TLAPS

\* The head of an access gives back a UART, and so does UART_reset.
LEMMA RefreshType ==
  ASSUME NEW u \in Uart, NEW hit \in BOOLEAN
  PROVE  Refresh(u, hit) \in Uart
<1> DEFINE lsr == (u.regs[LSR] \ {0}) \cup {5, 6} \cup (IF hit THEN {0} ELSE {})
           msr == u.regs[MSR] \cup {4, 6, 7}
<1>1. u.regs \in [Regs -> Byte] /\ u.shadow \in [Regs -> Byte]
  BY DEF Uart
<1>2. lsr \in Byte /\ msr \in Byte
  BY <1>1 DEF Regs, Byte, LSR, MSR
<1>3. [u.regs EXCEPT ![LSR] = lsr, ![MSR] = msr] \in [Regs -> Byte]
  BY <1>1, <1>2
<1>4. Refresh(u, hit) = [u EXCEPT !.regs = [u.regs EXCEPT ![LSR] = lsr, ![MSR] = msr]]
  BY <1>1 DEF Refresh, LSR, MSR, Regs
<1> QED
  BY <1>3, <1>4 DEF Uart

\* So does UART_reset.
LEMMA ResetType ==
  ASSUME NEW u \in Uart
  PROVE  UART_reset(u) \in Uart
<1>1. u.regs \in [Regs -> Byte] /\ u.shadow \in [Regs -> Byte]
  BY DEF Uart
<1>2. {} \in Byte /\ {5, 6} \in Byte /\ {4, 6, 7} \in Byte /\ {0} \in Byte
      /\ {1, 2, 4, 6} \in Byte
  BY DEF Byte
<1>3. [u.regs EXCEPT ![LCR] = {}, ![LSR] = {5, 6}, ![MCR] = {4, 6, 7}]
        \in [Regs -> Byte]
  BY <1>1, <1>2
<1>4. [u.shadow EXCEPT ![0] = {0}, ![1] = {1, 2, 4, 6}, ![2] = {0}]
        \in [Regs -> Byte]
  BY <1>1, <1>2
<1> QED
  BY <1>3, <1>4 DEF UART_reset, Uart

\* So does a write.
LEMMA StoredType ==
  ASSUME NEW u \in Uart, NEW r \in Regs, NEW c \in Byte
  PROVE  Stored(u, r, c) \in Uart
  BY DEF Stored, Uart, Regs, RXTX, Byte

\* And what is read is a byte.
LEMMA ValueType ==
  ASSUME NEW u \in Uart, NEW r \in Regs
  PROVE  Value(u, r) \in Byte
  BY DEF Value, Uart, Regs, RXTX, Byte

\* The five stores of the set-up.
LEMMA SetupStores ==
  /\ Len(Setup) = 5
  /\ Setup[1] = Store(LCR, {7})
  /\ Setup[2] = Store(0, Divisor[0])
  /\ Setup[3] = Store(1, Divisor[1])
  /\ Setup[4] = Store(LCR, {0, 1})
  /\ Setup[5] = Store(MCR, {0, 1})
  BY DEF Setup

\* Each of them, and every other access, is of a register and a byte.
LEMMA AccessType ==
  ASSUME TypeOK
  PROVE  Reg \in Regs /\ Data \in Byte
<1>1. CASE phase = "setup"
  <2>1. step \in {1, 2, 3, 4, 5}
    BY SetupStores DEF TypeOK
  <2>2. Divisor[0] \in Byte /\ Divisor[1] \in Byte
    BY ConsoleAssumption
  <2> QED
    BY <1>1, <2>1, <2>2, SetupStores DEF Reg, Data, Store, Regs, Byte, LCR, MCR
<1>2. CASE phase # "setup"
  BY <1>2 DEF TypeOK, Reg, Data, Regs, LSR, RXTX
<1> QED
  BY <1>1, <1>2

\* Every variable keeps its type.
THEOREM ConsoleTypeCorrect == Spec => []TypeOK
<1>1. Init => TypeOK
  <2>1. PowerOn \in Uart
    BY DEF PowerOn, Uart, Regs, Byte
  <2> QED
    BY <2>1, ConsoleAssumption, SetupStores DEF Init, TypeOK, Byte
<1>2. TypeOK /\ [Next]_vars => TypeOK'
  <2> SUFFICES ASSUME TypeOK, [Next]_vars
               PROVE  TypeOK'
    OBVIOUS
  <2> USE ConsoleAssumption, SetupStores
  <2>1. CASE Type
    BY <2>1 DEF Type, TypeOK, program_vars
  <2>2. CASE Sigint
    BY <2>2 DEF Sigint, TypeOK, program_vars
  <2>3. CASE ShellKey
    BY <2>3 DEF ShellKey, TypeOK, program_vars
  <2>4. CASE Cont \/ CmdUart \/ Breakpoint
    BY <2>4 DEF Cont, CmdUart, Breakpoint, TypeOK, program_vars
  <2>5. CASE CmdReset
    BY <2>5, ResetType DEF CmdReset, TypeOK, program_vars
  <2>6. CASE Begin
    BY <2>6, RefreshType DEF Begin, TypeOK, program_vars
  <2>7. CASE StoreReg
    BY <2>7, StoredType, AccessType DEF StoreReg, TypeOK, program_vars
  <2>8. CASE LoadReg
    BY <2>8, ValueType, AccessType DEF LoadReg, TypeOK
  <2>9. CASE LoadKey
    BY <2>9 DEF LoadKey, TypeOK, Translate, Byte, BS
  <2>10. CASE Break
    BY <2>10 DEF Break, TypeOK, program_vars
  <2>11. CASE Retire
    BY <2>11 DEF Retire, TypeOK
  <2>12. CASE UNCHANGED vars
    BY <2>12 DEF vars, program_vars, TypeOK
  <2> QED
    BY <2>1, <2>2, <2>3, <2>4, <2>5, <2>6, <2>7, <2>8, <2>9, <2>10, <2>11, <2>12
       DEF Next, User, Step
<1> QED
  BY <1>1, <1>2, PTL DEF Spec

-----------------------------------------------------------------------------
(* The set-up: without `reset', the UART is as the program set it up.      *)

\* The program's first n stores have been made, the last of them perhaps not
\* yet retired.
Made(n) == phase # "setup" \/ step > n \/ (step = n /\ at = "poll")

\* DLAB is set while the divisor is stored and clear ever after.
SetupInv ==
  /\ phase = "setup" /\ (step \in {2, 3} \/ (step = 1 /\ at = "poll")) => DLAB(uart)
  /\ Made(2) => uart.shadow[0] = Divisor[0]
  /\ Made(3) => uart.shadow[1] = Divisor[1]
  /\ Made(4) => ~ DLAB(uart)
  /\ Made(5) => ~ Loop(uart)

\* The head of an access touches neither the latch nor DLAB nor the loopback.
LEMMA RefreshKeeps ==
  ASSUME NEW u \in Uart, NEW hit \in BOOLEAN
  PROVE  /\ Refresh(u, hit).shadow = u.shadow
         /\ DLAB(Refresh(u, hit)) = DLAB(u)
         /\ Loop(Refresh(u, hit)) = Loop(u)
         /\ 0 \in Refresh(u, hit).regs[LSR] <=> hit
<1>1. u.regs \in [Regs -> Byte]
  BY DEF Uart
<1> QED
  BY <1>1 DEF Refresh, DLAB, Loop, Uart, LSR, MSR, LCR, MCR, Regs

\* The stores of the set-up put things where they belong.
LEMMA SetupStored ==
  ASSUME TypeOK, SetupInv, phase = "setup", StoreReg
  PROVE  SetupInv'
<1>1. uart' = Stored(uart, Setup[step].reg, Setup[step].data)
  BY DEF StoreReg, Reg, Data
<1>2. /\ uart.regs \in [Regs -> Byte] /\ uart.shadow \in [Regs -> Byte]
      /\ uart = [regs |-> uart.regs, shadow |-> uart.shadow]
      /\ step \in 1 .. 5 /\ at' = "poll" /\ phase' = "setup" /\ step' = step
      /\ at = "access"
  BY SetupStores DEF TypeOK, Uart, StoreReg, program_vars
<1>3. CASE step = 1
  <2>1. uart' = [uart EXCEPT !.regs[LCR] = {7}]
    BY <1>1, <1>3, SetupStores DEF Store, Stored, LCR, RXTX
  <2> QED
    BY <1>2, <1>3, <2>1 DEF SetupInv, Made, DLAB, Loop, LCR, MCR, Regs
<1>4. CASE step = 2
  <2>1. uart' = [uart EXCEPT !.shadow[0] = Divisor[0]]
    BY <1>1, <1>4, SetupStores DEF Store, Stored, SetupInv, RXTX
  <2> QED
    BY <1>2, <1>4, <2>1 DEF SetupInv, Made, DLAB, Loop, LCR, MCR, Regs
<1>5. CASE step = 3
  <2>1. uart' = [uart EXCEPT !.shadow[1] = Divisor[1]]
    BY <1>1, <1>5, SetupStores DEF Store, Stored, SetupInv, RXTX
  <2> QED
    BY <1>2, <1>5, <2>1 DEF SetupInv, Made, DLAB, Loop, LCR, MCR, Regs
<1>6. CASE step = 4
  <2>1. uart' = [uart EXCEPT !.regs[LCR] = {0, 1}]
    BY <1>1, <1>6, SetupStores DEF Store, Stored, LCR, RXTX
  <2> QED
    BY <1>2, <1>6, <2>1 DEF SetupInv, Made, DLAB, Loop, LCR, MCR, Regs
<1>7. CASE step = 5
  <2>1. uart' = [uart EXCEPT !.regs[MCR] = {0, 1}]
    BY <1>1, <1>7, SetupStores DEF Store, Stored, MCR, RXTX
  <2> QED
    BY <1>2, <1>7, <2>1 DEF SetupInv, Made, DLAB, Loop, LCR, MCR, Regs
<1> QED
  BY <1>2, <1>3, <1>4, <1>5, <1>6, <1>7

\* The set-up survives everything but `reset'.
LEMMA SetupStep ==
  ASSUME TypeOK, SetupInv, Resets = FALSE, [Next]_vars
  PROVE  SetupInv'
<1> USE SetupStores
<1>1. CASE Type \/ Sigint \/ ShellKey \/ Cont \/ CmdUart \/ Breakpoint \/ Break
  <2>1. /\ UNCHANGED <<uart, phase, step>>
        /\ at' = "poll" => at = "poll"
    BY <1>1 DEF Type, Sigint, ShellKey, Cont, CmdUart, Breakpoint, Break, program_vars
  <2> QED
    BY <2>1 DEF SetupInv, Made, DLAB, Loop
<1>2. CASE CmdReset
  BY <1>2 DEF CmdReset
<1>3. CASE Begin
  <2>1. /\ uart'.shadow = uart.shadow
        /\ DLAB(uart)' = DLAB(uart) /\ Loop(uart)' = Loop(uart)
        /\ UNCHANGED <<phase, step>> /\ at' # "poll"
    BY <1>3, RefreshKeeps DEF Begin, TypeOK, program_vars, DLAB, Loop
  <2> QED
    BY <2>1 DEF SetupInv, Made
<1>4. CASE StoreReg
  <2>1. CASE phase = "setup"
    BY <1>4, <2>1, SetupStored
  <2>2. CASE phase # "setup"
    <3>1. /\ phase = "echo" /\ phase' = "echo" /\ ~ DLAB(uart) /\ ~ Loop(uart)
          /\ uart' = Stored(uart, RXTX, held)
      BY <1>4, <2>2 DEF StoreReg, IsStore, Reg, Data, program_vars, SetupInv, Made
    <3>2. uart' = uart
      BY <3>1 DEF Stored
    <3> QED
      BY <3>1, <3>2 DEF SetupInv, Made
  <2> QED
    BY <2>1, <2>2
<1>5. CASE LoadReg \/ LoadKey
  <2>1. phase # "setup" /\ UNCHANGED <<uart, phase, step>>
    BY <1>5 DEF LoadReg, LoadKey, IsStore
  <2> QED
    BY <2>1 DEF SetupInv, Made, DLAB, Loop
<1>6. CASE Retire
  <2>1. /\ at = "poll" /\ at' = "loop" /\ uart' = uart /\ step \in 1 .. 5
        /\ phase = "setup" /\ step < 5 => phase' = "setup" /\ step' = step + 1
        /\ phase = "setup" /\ step = 5 => phase' # "setup"
        /\ phase # "setup" => phase' # "setup"
    BY <1>6 DEF Retire, TypeOK
  <2> QED
    BY <2>1 DEF SetupInv, Made, DLAB, Loop
<1>7. CASE UNCHANGED vars
  BY <1>7 DEF vars, program_vars, SetupInv, Made, DLAB, Loop
<1> QED
  BY <1>1, <1>2, <1>3, <1>4, <1>5, <1>6, <1>7 DEF Next, User, Step

\* SetupInv holds throughout.
LEMMA SetupHolds ==
  ASSUME Resets = FALSE
  PROVE  Spec => []SetupInv
<1>1. Init => SetupInv
  BY DEF Init, SetupInv, Made
<1> QED
  BY <1>1, SetupStep, ConsoleTypeCorrect, PTL DEF Spec

\* The divisor latch keeps what the program set, with and without Ctrl-C,
\* if nobody types `reset'.
THEOREM DivisorTheorem ==
  ASSUME Resets = FALSE
  PROVE  Spec => []DivisorKept
<1>1. SetupInv => DivisorKept
  BY DEF SetupInv, Made, DivisorKept
<1> QED
  BY <1>1, SetupHolds, PTL

\* What the program transmits is printed, if nobody types `reset'.
THEOREM PrintsTheorem ==
  ASSUME Resets = FALSE
  PROVE  Spec => AlwaysReadyToSend
<1>1. SetupInv /\ [Next]_vars
        => [StoreReg /\ phase = "echo" => shown' = Append(shown, held)]_vars
  BY DEF SetupInv, Made, StoreReg, Reg, Data, Prints
<1> QED
  BY <1>1, SetupHolds, PTL DEF Spec, AlwaysReadyToSend

-----------------------------------------------------------------------------
(* The poll: a key reported is a key there, or one that went elsewhere.     *)

\* The program knows of a key only while there is one, or it is lost.
PollInv ==
  /\ at = "access" /\ phase = "status" /\ 0 \in uart.regs[LSR] => keys # <<>> \/ lost
  /\ at = "poll" /\ phase = "status" /\ 0 \in held => keys # <<>> \/ lost
  /\ at # "poll" /\ phase = "data" => keys # <<>> \/ lost

\* Whoever takes a key away says so, but for the program's own read.
LEMMA PollStep ==
  ASSUME TypeOK, PollInv, [Next]_vars
  PROVE  PollInv'
<1>1. CASE Type
  <2>1. keys' # <<>>
    BY <1>1 DEF Type, TypeOK
  <2> QED
    BY <1>1, <2>1 DEF Type, PollInv, program_vars
<1>2. CASE Sigint
  BY <1>2 DEF Sigint, PollInv, program_vars
<1>3. CASE ShellKey \/ CmdUart \/ CmdReset
  BY <1>3 DEF ShellKey, CmdUart, CmdReset, PollInv, program_vars
<1>4. CASE Cont \/ Breakpoint
  BY <1>4 DEF Cont, Breakpoint, PollInv, program_vars
<1>5. CASE Begin
  <2>1. 0 \in uart'.regs[LSR] <=> keys # <<>>
    BY <1>5, RefreshKeeps DEF Begin, TypeOK
  <2> QED
    BY <1>5, <2>1 DEF Begin, PollInv, program_vars
<1>6. CASE StoreReg
  BY <1>6 DEF StoreReg, IsStore, PollInv, program_vars
<1>7. CASE LoadReg
  <2>1. phase = "status" => held' = uart.regs[LSR]
    BY <1>7 DEF LoadReg, Reg, Value, LSR, RXTX
  <2> QED
    BY <1>7, <2>1 DEF LoadReg, PollInv
<1>8. CASE LoadKey
  <2>1. phase # "status" /\ phase' = phase /\ at' = "poll"
    BY <1>8 DEF LoadKey, Reg, ReadsKeyboard, LSR, RXTX
  <2> QED
    BY <1>8, <2>1 DEF LoadKey, PollInv
<1>9. CASE Break
  BY <1>9 DEF Break, PollInv, program_vars
<1>10. CASE Retire
  BY <1>10 DEF Retire, PollInv
<1>11. CASE UNCHANGED vars
  BY <1>11 DEF vars, program_vars, PollInv
<1> QED
  BY <1>1, <1>2, <1>3, <1>4, <1>5, <1>6, <1>7, <1>8, <1>9, <1>10, <1>11
     DEF Next, User, Step

\* A program that polls waits inside the UART only if the key it was told of
\* went elsewhere, whatever is typed, stopped, interrupted and reset.
THEOREM PolledTheorem == Spec => []PolledReadsDoNotWait
<1>1. Init => PollInv
  BY DEF Init, PollInv
<1>2. Spec => []PollInv
  BY <1>1, PollStep, ConsoleTypeCorrect, PTL DEF Spec
<1>3. TypeOK /\ PollInv => PolledReadsDoNotWait
  BY DEF TypeOK, PollInv, PolledReadsDoNotWait, Waiting, ReadsKeyboard, Reg, IsStore, LSR, RXTX
<1> QED
  BY <1>2, <1>3, ConsoleTypeCorrect, PTL

-----------------------------------------------------------------------------
(* The stream: without Ctrl-C and `reset' the console implements KeyStream.*)

\* Every key in the queue, as raw_getkey will hand it out.
Queue == [i \in 1 .. Len(keys) |-> Translate(keys[i])]

\* Nobody has typed Ctrl-C, and once its set-up is done a key that the program
\* reads comes from the keyboard.
StreamInv ==
  /\ signals = 0 /\ ~ ctlc_detect
  /\ SetupInv

\* Every step keeps it.
LEMMA StreamStep ==
  ASSUME TypeOK, StreamInv, MaxSignals = 0, Resets = FALSE, [Next]_vars
  PROVE  StreamInv'
<1>1. SetupInv'
  BY SetupStep DEF StreamInv
<1>2. signals' = 0 /\ ~ ctlc_detect'
  BY DEF StreamInv, Next, User, Step, vars, program_vars, Type, Sigint, ShellKey, Cont,
     CmdUart, CmdReset, Breakpoint, Begin, StoreReg, LoadReg, LoadKey, Break, Retire
<1> QED
  BY <1>1, <1>2 DEF StreamInv

\* A key that is typed joins the end of the queue, and leaves it at the front.
LEMMA QueueFacts ==
  ASSUME TypeOK
  PROVE  /\ Queue \in Seq(Byte) /\ Len(Queue) = Len(keys)
         /\ InFlight = <<>> \/ (InFlight = <<held>> /\ held \in Byte)
         /\ keys = <<>> <=> Queue = <<>>
         /\ delkey' = delkey => \A c \in Byte : keys' = Append(keys, c) => Queue' = Append(Queue, Translate(c))
         /\ delkey' = delkey /\ keys # <<>> /\ keys' = Tail(keys)
              => Queue' = Tail(Queue) /\ Head(Queue) = Translate(Head(keys))
<1>1. \A c \in Byte : Translate(c) \in Byte
  BY DEF Translate, Byte, BS
<1>2. keys \in Seq(Byte) /\ held \in Byte
  BY DEF TypeOK
<1>3. Queue \in Seq(Byte) /\ Len(Queue) = Len(keys)
  BY <1>1, <1>2 DEF Queue
<1>4. keys = <<>> <=> Queue = <<>>
  BY <1>2, <1>3
<1>5. ASSUME delkey' = delkey, NEW c \in Byte, keys' = Append(keys, c)
      PROVE  Queue' = Append(Queue, Translate(c))
  <2>1. Queue' = [i \in 1 .. Len(keys) + 1 |-> Translate(IF i <= Len(keys) THEN keys[i] ELSE c)]
    BY <1>2, <1>5 DEF Queue, Translate
  <2> QED
    BY <1>1, <1>2, <1>3, <2>1 DEF Queue
<1>6. ASSUME delkey' = delkey, keys # <<>>, keys' = Tail(keys)
      PROVE  Queue' = Tail(Queue) /\ Head(Queue) = Translate(Head(keys))
  <2>1. Queue' = [i \in 1 .. Len(keys) - 1 |-> Translate(keys[i + 1])]
    BY <1>2, <1>6 DEF Queue, Translate
  <2> QED
    BY <1>1, <1>2, <1>3, <1>6, <2>1 DEF Queue
<1> QED
  BY <1>2, <1>3, <1>4, <1>5, <1>6 DEF InFlight

\* Each step is one of the stream, or shows nothing of it.
LEMMA StreamMaps ==
  ASSUME TypeOK, StreamInv, MaxSignals = 0, Resets = FALSE, [Next]_vars
  PROVE  [Line!Next]_(Line!svars)
<1>0. /\ UNCHANGED <<Queue, InFlight, shown, at # "prompt">> => UNCHANGED Line!svars
      /\ Line!Type <=> /\ \E c \in Byte : Queue' = Append(Queue, c)
                       /\ UNCHANGED <<InFlight, shown, at # "prompt">>
      /\ Line!Read <=> /\ at # "prompt" /\ Queue # <<>> /\ InFlight = <<>>
                       /\ InFlight' = <<Head(Queue)>> /\ Queue' = Tail(Queue)
                       /\ UNCHANGED <<shown, at # "prompt">>
      /\ Line!Show <=> /\ at # "prompt" /\ InFlight # <<>>
                       /\ shown' = Append(shown, Head(InFlight)) /\ InFlight' = <<>>
                       /\ UNCHANGED <<Queue, at # "prompt">>
      /\ Line!Take <=> /\ ~ (at # "prompt") /\ Queue # <<>> /\ Queue' = Tail(Queue)
                       /\ UNCHANGED <<InFlight, shown, at # "prompt">>
      /\ Line!Switch <=> /\ (at # "prompt")' = ~ (at # "prompt")
                         /\ UNCHANGED <<Queue, InFlight, shown>>
  BY DEF Line!svars, Line!Type, Line!Read, Line!Show, Line!Take, Line!Switch, Queue
<1>1. keys = <<>> <=> Queue = <<>>
  BY QueueFacts
<1>2. CASE Type
  <2>1. PICK c \in Byte : keys' = Append(keys, c)
    BY <1>2, ConsoleAssumption DEF Type
  <2>2. UNCHANGED <<InFlight, delkey, at, shown>>
    BY <1>2 DEF Type, InFlight, program_vars
  <2>3. Queue' = Append(Queue, Translate(c)) /\ Translate(c) \in Byte
    BY <2>1, <2>2, QueueFacts DEF Translate, Byte, BS
  <2> QED
    BY <1>0, <2>2, <2>3 DEF Line!Next
<1>3. CASE Sigint \/ CmdReset \/ Break
  BY <1>3 DEF Sigint, CmdReset, Break, TypeOK, StreamInv
<1>4. CASE ShellKey
  <2>1. /\ at = "prompt" /\ keys # <<>> /\ UNCHANGED <<InFlight, shown, at, delkey>>
        /\ keys' = Tail(keys)
    BY <1>4 DEF ShellKey, program_vars, InFlight
  <2>2. Queue' = Tail(Queue)
    BY <2>1, QueueFacts
  <2> QED
    BY <1>0, <1>1, <2>1, <2>2 DEF Line!Next
<1>5. CASE Cont \/ Breakpoint
  <2>1. /\ (at # "prompt")' = ~ (at # "prompt")
        /\ UNCHANGED <<keys, delkey, shown>>
        /\ UNCHANGED InFlight
    BY <1>5 DEF Cont, Breakpoint, program_vars, InFlight
  <2>2. UNCHANGED Queue
    BY <2>1 DEF Queue, Translate
  <2> QED
    BY <1>0, <2>1, <2>2 DEF Line!Next
<1>6. CASE CmdUart
  <2>1. /\ UNCHANGED <<at, keys, shown, InFlight>> /\ keys = <<>>
    BY <1>6 DEF CmdUart, program_vars, InFlight
  <2>2. Queue' = <<>> /\ Queue = <<>>
    BY <2>1 DEF Queue
  <2> QED
    BY <1>0, <2>1, <2>2
<1>7. CASE Begin \/ LoadReg \/ Retire \/ UNCHANGED vars
  <2>1. UNCHANGED <<keys, delkey, shown, at # "prompt">>
    BY <1>7 DEF Begin, LoadReg, Retire, vars, program_vars
  <2>2. UNCHANGED InFlight
    <3>1. CASE Begin \/ UNCHANGED vars
      BY <3>1 DEF Begin, vars, program_vars, InFlight
    <3>2. CASE LoadReg
      <4>1. phase # "data" /\ phase # "echo"
        BY <3>2 DEF LoadReg, IsStore, ReadsKeyboard, Reg, StreamInv, SetupInv, Made
      <4> QED
        BY <3>2, <4>1 DEF LoadReg, InFlight
    <3>3. CASE Retire
      BY <3>3 DEF Retire, InFlight, TypeOK
    <3> QED
      BY <1>7, <3>1, <3>2, <3>3
  <2>3. UNCHANGED Queue
    BY <2>1 DEF Queue, Translate
  <2> QED
    BY <1>0, <2>1, <2>2, <2>3
<1>8. CASE StoreReg
  <2>1. UNCHANGED <<keys, delkey, at # "prompt", phase, held>> /\ at = "access" /\ at' = "poll"
    BY <1>8 DEF StoreReg, program_vars
  <2>2. UNCHANGED Queue
    BY <2>1 DEF Queue, Translate
  <2>3. CASE phase = "setup"
    <3>1. ~ Prints(uart, Reg)
      BY <1>8, <2>3, SetupStores DEF StoreReg, Reg, Prints, StreamInv, SetupInv, Store,
         LCR, MCR, RXTX, TypeOK
    <3>2. UNCHANGED <<shown, InFlight>>
      BY <1>8, <2>1, <2>3, <3>1 DEF StoreReg, InFlight
    <3> QED
      BY <1>0, <2>1, <2>2, <3>2
  <2>4. CASE phase = "echo"
    <3>1. Prints(uart, Reg) /\ Data = held
      BY <1>8, <2>4 DEF StoreReg, Reg, Data, Prints, StreamInv, SetupInv, Made
    <3>2. shown' = Append(shown, held) /\ InFlight = <<held>> /\ InFlight' = <<>>
      BY <1>8, <2>1, <2>4, <3>1 DEF StoreReg, InFlight
    <3> QED
      BY <1>0, <2>1, <2>2, <3>2 DEF Line!Next
  <2> QED
    BY <1>8, <2>3, <2>4 DEF StoreReg, IsStore
<1>9. CASE LoadKey
  <2>1. /\ UNCHANGED <<delkey, at # "prompt", phase, shown>> /\ at = "access" /\ at' = "poll"
        /\ keys # <<>> /\ keys' = Tail(keys) /\ held' = Translate(Head(keys)) /\ phase = "data"
    BY <1>9 DEF LoadKey, IsStore, ReadsKeyboard, Reg, RXTX, LSR, TypeOK
  <2>2. Queue' = Tail(Queue) /\ Head(Queue) = held'
    BY <2>1, QueueFacts
  <2>3. InFlight = <<>> /\ InFlight' = <<held'>>
    BY <2>1 DEF InFlight
  <2> QED
    BY <1>0, <1>1, <2>1, <2>2, <2>3 DEF Line!Next
<1> QED
  BY <1>2, <1>3, <1>4, <1>5, <1>6, <1>7, <1>8, <1>9 DEF Next, User, Step

\* The program echoes what is typed in order, each key once and as MSS_UART_PC16552
\* translates it, but for the keys that the line editor takes from the front of
\* the queue at a stop, before any of its accesses: the console implements
\* KeyStream, for every set of characters, number of keys and divisor, if nobody
\* types Ctrl-C (which throws keys away) or `reset' (which takes the set-up away).
THEOREM StreamTheorem ==
  ASSUME MaxSignals = 0, Resets = FALSE
  PROVE  Spec => ImplementsStream
<1>1. Init => StreamInv /\ Line!Init
  BY DEF Init, StreamInv, SetupInv, Made, Line!Init, InFlight
<1>2. TypeOK /\ StreamInv /\ [Next]_vars => StreamInv' /\ [Line!Next]_(Line!svars)
  BY StreamStep, StreamMaps
<1> QED
  BY <1>1, <1>2, ConsoleTypeCorrect, PTL DEF Spec, ImplementsStream, Line!Spec
=============================================================================
