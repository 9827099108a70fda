-------------------------- MODULE MemorySubsystem --------------------------
(***************************************************************************)
(* The memory subsystem (mss.c) over the system map, with the commands     *)
(* that make the map (sys), fill it (fl), and the accesses of the program  *)
(* and of the memory commands.  An access may start at any address: the    *)
(* entry, the mask and the check are those of its first byte, and its      *)
(* other bytes follow that one in the memory of the entry, whatever the    *)
(* addresses they have.  What the code does outside the memory it          *)
(* allocated has no defined outcome: a load may find anything there, a     *)
(* store may be lost, the simulator may die; if nothing was allocated it   *)
(* dies.                                                                   *)
(***************************************************************************)
EXTENDS SystemMap

CONSTANTS
  Lines,        \* what `sys -a' may be given
  Files,        \* the files of `sys -d': sequences of lines
  SimpleLine,   \* the line of `sys -m'
  MaxEntries,   \* how many entries a behaviour makes at a time
  Images,       \* the files of `fl', after conversion: sequences of bytes
  Slack,        \* what the loader leaves free of a memory: 8
  Sizes         \* how many bytes an access may have, of those that MSS knows

ACCESS_B == 1
ACCESS_H == 2
ACCESS_W == 4

ASSUME MemorySubsystemAssumption ==
  /\ Lines \subseteq Definition
  /\ Files \subseteq Seq(Definition)
  /\ SimpleLine \in Definition
  /\ MaxEntries \in Nat
  /\ Images \subseteq Seq(Byte)
  /\ Slack \in Nat
  /\ Sizes \subseteq {ACCESS_B, ACCESS_H, ACCESS_W}

DSI == 768

VARIABLES
  system,
  exc_type, exc_addr,
  answer,       \* history: what was done last, with the status and data of an access
  dead          \* the simulator has died of an access outside memory

vars == <<system, exc_type, exc_addr, answer, dead>>

\* The kinds of things done last: the map, a file, an access and its status.
Did(what)   == [did |-> what, data |-> <<>>]
Loaded(data) == [did |-> "load", data |-> data]
Answers == {Did(w) : w \in {"sys", "remap", "fl", "store", "error"}}
             \cup {Loaded(d) : d \in UNION {[1 .. n -> Byte] : n \in Sizes}}

TypeOK ==
  /\ system \in Seq(Entry)
  /\ \A i \in 1 .. Len(system) : DOMAIN system[i].mem = 0 .. system[i].memsize - 1
  /\ exc_type \in {0, DSI}
  /\ exc_addr \in Addr
  /\ answer \in Answers
  /\ dead \in BOOLEAN

\* SYS_init.
Init ==
  /\ system = <<>>
  /\ exc_type = 0 /\ exc_addr = 0
  /\ answer = Did("sys")
  /\ dead = FALSE

-----------------------------------------------------------------------------
(* The map.                                                                *)

\* sys -a.
SysAdd ==
  /\ ~ dead
  /\ Len(system) < MaxEntries
  /\ \E def \in Lines : \E mem \in Malloc(def.alloc) :
       system' = SYS_parse_def(system, def, mem)
  /\ answer' = Did("sys")
  /\ UNCHANGED <<exc_type, exc_addr, dead>>

\* How many lines of a file are parsed: up to the first that fails.
LinesParsed(file) ==
  LET failing == {i \in 1 .. Len(file) : ParseFails(file[i])}
  IN IF failing = {} THEN Len(file) ELSE First(failing)

\* sys -d, of a file or of one that cannot be opened: the map there was is gone.
SysFile ==
  /\ ~ dead
  /\ \/ \E file \in Files :
          \E mems \in [1 .. LinesParsed(file) -> Memory] :
            /\ \A i \in DOMAIN mems : mems[i] \in Malloc(file[i].alloc)
            /\ system' = [i \in DOMAIN mems |-> Parsed(file[i], mems[i])]
     \/ system' = SYS_free
  /\ answer' = Did("remap")
  /\ UNCHANGED <<exc_type, exc_addr, dead>>

\* sys -m.
SysSimple ==
  /\ ~ dead
  /\ \E mem \in Malloc(SimpleLine.alloc) :
       system' = SYS_parse_def(SYS_free, SimpleLine, mem)
  /\ answer' = Did("remap")
  /\ UNCHANGED <<exc_type, exc_addr, dead>>

\* sys -r.
SysFree ==
  /\ ~ dead
  /\ system' = SYS_free
  /\ answer' = Did("remap")
  /\ UNCHANGED <<exc_type, exc_addr, dead>>

-----------------------------------------------------------------------------
(* An access.                                                              *)

Raise(a) == exc_type' = DSI /\ exc_addr' = a

NoException == UNCHANGED <<exc_type, exc_addr>>

\* mss_ignore_undef is set at the start and never cleared.
Ignored(a) == Mapped(system, a) => Target(system, a).class = "IGNORE"

\* The UART of Excimer is there for any access; an access through the north
\* bridge may fail.
Driven(m)  == m.class = "IO" /\ m.driver \in {"UART", "NB", "NBIO"}
MayFail(m) == m.driver \in {"NB", "NBIO"}

Trapped(a) ==
  /\ Mapped(system, a)
  /\ LET m == Target(system, a)
     IN m.class \in {"TRAP", "ALIAS", "?"} \/ (m.class = "IO" /\ ~ Driven(m))

\* A mutation: a failing device raises nothing.
DeviceFails_silent(a) == answer' = Did("error") /\ NoException

DeviceFails(a) == answer' = Did("error") /\ Raise(a)

\* The accesses that do not come to memory.
Ignore(a, reply) ==
  /\ Ignored(a)
  /\ answer' = reply
  /\ NoException
  /\ UNCHANGED <<system, dead>>

Trap(a) ==
  /\ Trapped(a)
  /\ answer' = Did("error")
  /\ Raise(a)
  /\ UNCHANGED <<system, dead>>

Device(a, reply) ==
  /\ Mapped(system, a)
  /\ Driven(Target(system, a))
  /\ \/ answer' = reply /\ NoException
     \/ MayFail(Target(system, a)) /\ DeviceFails(a)
  /\ UNCHANGED <<system, dead>>

\* Memory: the place of a byte, and whether n bytes from there are inside.
IsMem(a)  == Mapped(system, a) /\ Target(system, a).class = "MEM"
Offset(m, a)    == a % m.modulus
Inside(m, a, n) == Offset(m, a) + n <= m.memsize

\* Out of bounds the first byte raises an exception, and the access goes on.
Checked(m, a) == IF Offset(m, a) >= m.memsize THEN Raise(a) ELSE NoException

MayDie(m) == dead' \in IF m.memsize = 0 THEN {TRUE} ELSE BOOLEAN

LoadMem(a, n) ==
  /\ IsMem(a)
  /\ LET m == Target(system, a)
         o == Offset(m, a)
     IN /\ Checked(m, a)
        /\ \E data \in [1 .. n -> Byte] :
             /\ \A i \in 1 .. n : o + i - 1 \in DOMAIN m.mem => data[i] = m.mem[o + i - 1]
             /\ answer' = Loaded(data)
        /\ IF Inside(m, a, n) THEN UNCHANGED dead ELSE MayDie(m)
  /\ UNCHANGED system

\* The entry after a store of some bytes, the high one first.
Written(m, o, data) ==
  [m EXCEPT !.mem = [i \in DOMAIN m.mem |->
     IF i - o \in 0 .. Len(data) - 1 THEN data[i - o + 1] ELSE m.mem[i]]]

StoreMem(a, data) ==
  /\ IsMem(a)
  /\ LET t == MSS_MapAddress(system, a)
         m == system[t]
     IN /\ Checked(m, a)
        /\ system' = [system EXCEPT ![t] = Written(m, Offset(m, a), data)]
        /\ IF Inside(m, a, Len(data)) THEN UNCHANGED dead ELSE MayDie(m)
  /\ answer' = Did("store")

\* MSS_read and MSS_write.
Load(a, n) ==
  \/ Ignore(a, Loaded([i \in 1 .. n |-> 0]))
  \/ Trap(a)
  \/ \E data \in [1 .. n -> Byte] : Device(a, Loaded(data))
  \/ LoadMem(a, n)

Store(a, data) ==
  \/ Ignore(a, Did("store"))
  \/ Trap(a)
  \/ Device(a, Did("store"))
  \/ StoreMem(a, data)

MSS_read == ~ dead /\ \E n \in Sizes : \E a \in Addr : Load(a, n)

MSS_write ==
  ~ dead /\ \E n \in Sizes : \E a \in Addr : \E data \in [1 .. n -> Byte] :
    Store(a, data)

-----------------------------------------------------------------------------
(* fl.                                                                     *)

\* A mutation: the mask is not applied.
LoadOffset_unmasked(m, a) == a

\* addr_msk.
LoadOffset(m, a) == Offset(m, a)

\* The check of the size, and the copy.
FitsFile(m, image) == Len(image) < m.memsize - Slack

FileLoad(a, image) ==
  /\ ~ dead
  /\ answer' = Did("fl")
  /\ Mapped(system, a)
  /\ LET t == MSS_MapAddress(system, a)
         m == system[t]
         o == LoadOffset(m, a)
     IN /\ m.memsize > 0
        /\ FitsFile(m, image)
        /\ system' = [system EXCEPT ![t] = Written(m, o, image)]
        /\ IF o + Len(image) <= m.memsize THEN UNCHANGED dead ELSE MayDie(m)
  /\ UNCHANGED <<exc_type, exc_addr>>

FileCmd == \E a \in Addr : \E image \in Images : FileLoad(a, image)

Next == SysAdd \/ SysFile \/ SysSimple \/ SysFree \/ MSS_read \/ MSS_write \/ FileCmd

Spec == Init /\ [][Next]_vars

-----------------------------------------------------------------------------
(* Properties.                                                             *)

\* What an address is, and for memory the byte of which entry it names.
Place(a) ==
  IF ~ Mapped(system, a) THEN [role |-> "none", cell |-> <<0, 0>>]
  ELSE LET m == Target(system, a)
       IN CASE m.class = "IGNORE" -> [role |-> "ignored", cell |-> <<0, 0>>]
            [] Driven(m) -> [role |-> "device", cell |-> <<0, 0>>]
            [] m.class = "MEM" /\ Inside(m, a, 1) ->
                 [role |-> "memory", cell |-> <<MSS_MapAddress(system, a), Offset(m, a)>>]
            [] OTHER -> [role |-> "trap", cell |-> <<0, 0>>]

\* The bytes of all the memories.
Cells ==
  UNION {{<<i, o>> : o \in DOMAIN system[i].mem} :
           i \in {j \in 1 .. Len(system) : system[j].class = "MEM"}}

Contents == [c \in Cells |-> system[c[1]].mem[c[2]]]

Space == INSTANCE AddressSpace WITH
  place <- [a \in Addr |-> Place(a)],
  bytes <- Contents

\* The map and the memory behind it are an address space: what is stored is
\* loaded, in the order of the bytes, by every address of the cell and by no
\* other; a new entry hides no old one; and an access at any address moves the
\* bytes that follow its first in the same memory and touches no other.
ImplementsAddressSpace == Space!Spec

Accesses(a, n) == Load(a, n) \/ \E data \in [1 .. n -> Byte] : Store(a, data)

\* An access, wherever it starts and ends, fails if and only if it leaves an
\* exception with its address, and then it leaves memory alone: the interpreter
\* takes the type of the exception from there.
ErrorsAreReported ==
  [][\A n \in Sizes : \A a \in Addr :
       \/ answer'.did = "error" /\ Raise(a) /\ system' = system
       \/ answer'.did # "error" /\ NoException
       \/ ~ Accesses(a, n)]_vars

\* The byte of memory that an address names.
ByteAt(a) == Target(system, a).mem[Offset(Target(system, a), a)]

\* A file that `fl' copies to an address is read back there, byte by byte, as
\* long as the addresses belong to the memory of one entry.
LoadedIsRead ==
  [][\A a \in Addr : \A image \in Images :
       /\ FileLoad(a, image)
       /\ \A i \in 1 .. Len(image) :
            /\ a + i - 1 \in Addr
            /\ IsMem(a + i - 1)
            /\ MSS_MapAddress(system, a + i - 1) = MSS_MapAddress(system, a)
       /\ LET m == Target(system, a)
          IN Offset(m, a) + Len(image) <= m.modulus /\ Inside(m, a, Len(image))
       => \A i \in 1 .. Len(image) : IsMem(a + i - 1)' /\ ByteAt(a + i - 1)' = image[i]]_vars
=============================================================================
