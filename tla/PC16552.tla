------------------------------ MODULE PC16552 ------------------------------
(***************************************************************************)
(* The UART of uart.c as a value: two arrays of registers, what one access *)
(* reads, what it leaves.  A byte is the set of the numbers of its one     *)
(* bits, bit 0 the least significant.                                      *)
(***************************************************************************)
EXTENDS Integers

Byte == SUBSET (0 .. 7)
Regs == 0 .. 7

Uart == [regs : [Regs -> Byte], shadow : [Regs -> Byte]]

\* Register numbers.
RXTX == 0
LCR  == 3
MCR  == 4
LSR  == 5
MSR  == 6

\* Static storage.
PowerOn == [regs |-> [r \in Regs |-> {}], shadow |-> [r \in Regs |-> {}]]

\* 0x60 into LSR, 0xD0 into MCR, the modem control register, whose bit 4 is
\* the loopback.
UART_reset(u) ==
  [regs   |-> [u.regs EXCEPT ![LCR] = {}, ![LSR] = {5, 6}, ![MCR] = {4, 6, 7}],
   shadow |-> [u.shadow EXCEPT ![0] = {0}, ![1] = {1, 2, 4, 6}, ![2] = {0}]]

DLAB(u) == 7 \in u.regs[LCR]
Loop(u) == 4 \in u.regs[MCR]

\* A mutation: a waiting key is not reported.
Refresh_deaf(u, hit) ==
  [u EXCEPT !.regs[LSR] = (@ \ {0}) \cup {5, 6}, !.regs[MSR] = @ \cup {4, 6, 7}]

\* A mutation: data ready, once set, stays set.
Refresh_sticky(u, hit) ==
  [u EXCEPT !.regs[LSR] = @ \cup {5, 6} \cup (IF hit THEN {0} ELSE {}),
            !.regs[MSR] = @ \cup {4, 6, 7}]

\* The head of every access: always ready to send, and data ready (bit 0 of
\* LSR) if a key is waiting.
Refresh(u, hit) ==
  [u EXCEPT !.regs =
     [u.regs EXCEPT ![LSR] = (@ \ {0}) \cup {5, 6} \cup (IF hit THEN {0} ELSE {}),
                    ![MSR] = @ \cup {4, 6, 7}]]

\* The accesses that reach the terminal.
ReadsKeyboard(u, r) == ~ DLAB(u) /\ r = RXTX /\ ~ Loop(u)
Prints(u, r)        == ~ DLAB(u) /\ r = RXTX /\ ~ Loop(u)

\* A mutation: a register's byte is not picked out of the word it is on.
Value_splat(u, r) == u.regs[r] \cup {b + 8 : b \in u.regs[r]}

\* What any other read returns.
Value(u, r) ==
  CASE DLAB(u) /\ r \in {0, 1}  -> u.shadow[r]
    [] ~ DLAB(u) /\ r = RXTX    -> u.shadow[7]
    [] ~ DLAB(u) /\ r = 2       -> {0}
    [] OTHER                    -> u.regs[r]

\* A mutation: the divisor latch is written whatever DLAB is.
Stored_any_DLAB(u, r, c) ==
  CASE r \in {0, 1} -> [u EXCEPT !.shadow[r] = c]
    [] OTHER        -> [u EXCEPT !.regs[r] = c]

\* What a write leaves.  The alternate function register is stored over the
\* upper byte of the divisor latch.
Stored(u, r, c) ==
  CASE ~ DLAB(u) /\ r = RXTX    -> IF Loop(u) THEN [u EXCEPT !.shadow[7] = c] ELSE u
    [] DLAB(u) /\ r = 0         -> [u EXCEPT !.shadow[0] = c]
    [] DLAB(u) /\ r \in {1, 2}  -> [u EXCEPT !.shadow[1] = c]
    [] OTHER                    -> [u EXCEPT !.regs[r] = c]
=============================================================================
