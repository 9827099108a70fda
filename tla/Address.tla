------------------------------- MODULE Address -------------------------------
(***************************************************************************)
(* Byte addresses of the simulated processor.                              *)
(***************************************************************************)
EXTENDS Integers

CONSTANT AddrWords   \* number of words of the address space; 2^30 in the code

ASSUME AddrWordsAssumption == AddrWords \in Nat \ {0}

AddrSpace == 4 * AddrWords
Addr == 0 .. AddrSpace - 1

\* An address rounded down to its word, addr & 0xFFFFFFFC.
Align(a) == 4 * (a \div 4)

\* A mutation: the register is too wide to wrap.
Following_unwrapped(a) == a + 4

\* The address of the next instruction, which wraps at the register's width.
Following(a) == (a + 4) % AddrSpace
=============================================================================
