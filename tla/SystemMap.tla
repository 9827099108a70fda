----------------------------- MODULE SystemMap -----------------------------
(***************************************************************************)
(* The map of the simulated system (system.c) as a value: a sequence of    *)
(* entries in the order of the list, one operator per function.            *)
(*                                                                         *)
(* A definition is a line of eight terms; what the parser makes of a term  *)
(* is what the record holds, a term it rejects is "?".  A mask is given by *)
(* its modulus: every mask of the targets is a block of low bits, so that  *)
(* the bits it keeps of an address are the address modulo mask + 1.        *)
(***************************************************************************)
EXTENDS FirstFit, Sequences

CONSTANTS
  AddrMax,    \* the highest address
  Byte        \* what a byte of memory holds

ASSUME SystemMapAssumption == AddrMax \in Nat /\ 0 \in Byte

Addr == 0 .. AddrMax

Classes == {"MEM", "IO", "IGNORE", "ALIAS", "TRAP"}
Modes   == {"RW", "RO", "HW", "ALIAS"}

\* Those MSS knows; a driver it does not know, and a name the parser does not
\* know, is like none.  The parser rejects only a name that begins like "-".
Drivers == {"-", "UART", "NB", "NBIO"}

Term(S) == S \cup {"?"}

\* The memory of an entry, from malloc: a function on its offsets.
Memory == UNION {[0 .. n - 1 -> Byte] : n \in 0 .. AddrMax + 1}

Entry == [class : Term(Classes), start : Addr, end : Addr, modulus : 1 .. AddrMax + 1,
          mode : Term(Modes), memsize : 0 .. AddrMax + 1, mem : Memory,
          driver : Term(Drivers)]

\* One line; alloc is 0 if its term is not a number.
Definition == [class : Term(Classes), start : Addr, end : Addr,
               modulus : 1 .. AddrMax + 1, mode : Term(Modes),
               alloc : 0 .. AddrMax + 1, driver : Term(Drivers)]

NoMemory == [i \in 0 .. -1 |-> 0]

SYS_new == [class |-> "?", start |-> 0, end |-> 0, modulus |-> 1, mode |-> "?",
            memsize |-> 0, mem |-> NoMemory, driver |-> "-"]

\* A mutation: the memory is one byte short.
Malloc_short(n) == [0 .. n - 2 -> Byte]

\* What malloc may return.
Malloc(n) == [0 .. n - 1 -> Byte]

\* The entry SYS_parse_def leaves: filled in up to the term that fails.
Parsed(def, mem) ==
  IF def.class = "?" THEN SYS_new
  ELSE IF def.mode = "?"
    THEN [SYS_new EXCEPT !.class = def.class, !.start = def.start, !.end = def.end,
                         !.modulus = def.modulus]
    ELSE [class |-> def.class, start |-> def.start, end |-> def.end,
          modulus |-> def.modulus, mode |-> def.mode, memsize |-> def.alloc,
          mem |-> mem, driver |-> def.driver]

ParseFails(def) == "?" \in {def.class, def.mode, def.driver}

\* SYS_parse_def: the entry is at the tail of the list before it is parsed.
SYS_parse_def(system, def, mem) == Append(system, Parsed(def, mem))

\* SYS_free.
SYS_free == <<>>

Covers(m, a) == m.start <= a /\ a <= m.end

Covering(system, a) == {i \in 1 .. Len(system) : Covers(system[i], a)}

Mapped(system, a) == Covering(system, a) # {}

\* A mutation: the last entry that covers an address is taken.
MSS_MapAddress_last(system, a) ==
  CHOOSE i \in Covering(system, a) : \A j \in Covering(system, a) : j <= i

\* The place of the first entry that covers an address.
MSS_MapAddress(system, a) == First(Covering(system, a))

Target(system, a) == system[MSS_MapAddress(system, a)]
=============================================================================
