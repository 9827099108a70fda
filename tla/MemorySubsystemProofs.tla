----------------------- MODULE MemorySubsystemProofs -----------------------
(***************************************************************************)
(* Theorems about the map and the accesses over it, for every size of the  *)
(* address space, every definition and every file.                         *)
(***************************************************************************)
EXTENDS MemorySubsystem, ScanProofs

-----------------------------------------------------------------------------
(* The map.                                                                *)

\* An entry whose memory has the size it says.
Sized(m) == DOMAIN m.mem = 0 .. m.memsize - 1

\* Whatever becomes of a line, it leaves an entry.
LEMMA ParsedType ==
  ASSUME NEW def \in Definition, NEW mem \in Malloc(def.alloc)
  PROVE  Parsed(def, mem) \in Entry /\ Sized(Parsed(def, mem))
<1> USE SystemMapAssumption
<1>1. NoMemory \in Memory /\ DOMAIN NoMemory = 0 .. 0 - 1
  <2>1. NoMemory \in [0 .. 0 - 1 -> Byte] /\ 0 \in 0 .. AddrMax + 1
    BY DEF NoMemory
  <2> QED
    BY <2>1 DEF Memory, NoMemory
<1>2. SYS_new \in Entry /\ Sized(SYS_new)
  BY <1>1 DEF SYS_new, Entry, Addr, Term, Drivers, Sized
<1>3. mem \in Memory /\ DOMAIN mem = 0 .. def.alloc - 1
  BY DEF Malloc, Memory, Definition
<1>4. CASE def.class = "?"
  BY <1>2, <1>4 DEF Parsed
<1>5. CASE def.class # "?" /\ def.mode = "?"
  BY <1>1, <1>2, <1>5 DEF Parsed, SYS_new, Definition, Entry, Sized
<1>6. CASE def.class # "?" /\ def.mode # "?"
  BY <1>3, <1>6 DEF Parsed, Definition, Entry, Sized
<1> QED
  BY <1>4, <1>5, <1>6

\* A lookup finds the first of the entries that cover the address.
LEMMA MapAddressFinds ==
  ASSUME NEW sys \in Seq(Entry), NEW a \in Addr, Mapped(sys, a)
  PROVE  /\ MSS_MapAddress(sys, a) \in 1 .. Len(sys)
         /\ Covers(Target(sys, a), a)
         /\ \A i \in 1 .. MSS_MapAddress(sys, a) - 1 : ~ Covers(sys[i], a)
<1>1. Covering(sys, a) \in SUBSET Nat /\ Covering(sys, a) # {}
  BY DEF Covering, Mapped
<1>2. /\ MSS_MapAddress(sys, a) \in Covering(sys, a)
      /\ \A j \in Covering(sys, a) : MSS_MapAddress(sys, a) <= j
  BY <1>1, FirstIsLeast DEF MSS_MapAddress
<1> QED
  BY <1>2 DEF Covering, Target

\* One more entry does not change what a mapped address maps to.
LEMMA LinkingKeeps ==
  ASSUME NEW sys \in Seq(Entry), NEW m \in Entry, NEW a \in Addr, Mapped(sys, a)
  PROVE  /\ Mapped(Append(sys, m), a)
         /\ MSS_MapAddress(Append(sys, m), a) = MSS_MapAddress(sys, a)
         /\ Target(Append(sys, m), a) = Target(sys, a)
<1> DEFINE new == Append(sys, m)
           f == MSS_MapAddress(sys, a)
<1>1. new \in Seq(Entry) /\ Len(new) = Len(sys) + 1
      /\ \A i \in 1 .. Len(sys) : new[i] = sys[i]
  OBVIOUS
<1>2. /\ f \in 1 .. Len(sys) /\ Covers(sys[f], a)
      /\ \A i \in 1 .. f - 1 : ~ Covers(sys[i], a)
  BY MapAddressFinds DEF Target
<1>3. f \in Covering(new, a)
  BY <1>1, <1>2 DEF Covering
<1>4. Mapped(new, a)
  BY <1>3 DEF Mapped
<1> DEFINE g == MSS_MapAddress(new, a)
<1>5. /\ g \in 1 .. Len(new) /\ Covers(new[g], a)
      /\ \A i \in 1 .. g - 1 : ~ Covers(new[i], a)
  BY <1>1, <1>4, MapAddressFinds DEF Target
<1>6. g = f
  <2>1. ~ (f < g)
    BY <1>1, <1>2, <1>5
  <2>2. ~ (g < f)
    BY <1>1, <1>2, <1>5
  <2> QED
    BY <1>2, <1>5, <2>1, <2>2
<1> QED
  BY <1>1, <1>2, <1>4, <1>6 DEF Target

\* A file is parsed up to one of its lines.
LEMMA LinesParsedType ==
  ASSUME NEW file \in Seq(Definition)
  PROVE  LinesParsed(file) \in 0 .. Len(file)
<1> DEFINE failing == {i \in 1 .. Len(file) : ParseFails(file[i])}
<1>1. CASE failing = {}
  BY <1>1 DEF LinesParsed
<1>2. CASE failing # {}
  <2>1. failing \in SUBSET Nat
    OBVIOUS
  <2>2. First(failing) \in failing
    BY <1>2, <2>1, FirstIsLeast
  <2> QED
    BY <1>2, <2>2 DEF LinesParsed
<1> QED
  BY <1>1, <1>2

\* A store, and a file that is loaded, leave an entry.
LEMMA WrittenType ==
  ASSUME NEW m \in Entry, Sized(m), NEW o \in Nat, NEW data \in Seq(Byte)
  PROVE  Written(m, o, data) \in Entry /\ Sized(Written(m, o, data))
<1> DEFINE new == [i \in DOMAIN m.mem |->
                     IF i - o \in 0 .. Len(data) - 1 THEN data[i - o + 1] ELSE m.mem[i]]
<1>1. m.memsize \in 0 .. AddrMax + 1 /\ m.mem \in Memory
  BY DEF Entry
<1>2. m.mem \in [0 .. m.memsize - 1 -> Byte]
  BY <1>1 DEF Memory, Sized
<1>3. new \in [0 .. m.memsize - 1 -> Byte]
  BY <1>1, <1>2, SystemMapAssumption
<1>4. new \in Memory /\ DOMAIN new = 0 .. m.memsize - 1
  BY <1>1, <1>3 DEF Memory
<1>5. Written(m, o, data) = [m EXCEPT !.mem = new]
  BY DEF Written
<1> QED
  BY <1>4, <1>5 DEF Entry, Sized

-----------------------------------------------------------------------------
(* Types.                                                                  *)

\* A list of entries that have the memory they say.
Lists == {sys \in Seq(Entry) : \A i \in 1 .. Len(sys) : Sized(sys[i])}

\* TypeOK says of the list that it is one of those.
LEMMA ListType ==
  ASSUME TypeOK
  PROVE  /\ system \in Lists
         /\ exc_type \in {0, DSI} /\ exc_addr \in Addr
         /\ answer \in Answers /\ dead \in BOOLEAN
  BY DEF TypeOK, Lists, Sized

\* What a step has to show of its type.
LEMMA NextListType ==
  ASSUME system' \in Lists, exc_type' \in {0, DSI}, exc_addr' \in Addr,
         answer' \in Answers, dead' \in BOOLEAN
  PROVE  TypeOK'
  BY DEF TypeOK, Lists, Sized

\* A definition added to a map makes a map.
LEMMA AppendLists ==
  ASSUME NEW sys \in Lists, NEW m \in Entry, Sized(m)
  PROVE  Append(sys, m) \in Lists
<1> DEFINE new == Append(sys, m)
<1>1. sys \in Seq(Entry) /\ \A i \in 1 .. Len(sys) : Sized(sys[i])
  BY DEF Lists
<1>2. new \in Seq(Entry) /\ Len(new) = Len(sys) + 1
  BY <1>1
<1>3. \A i \in 1 .. Len(new) : new[i] = IF i <= Len(sys) THEN sys[i] ELSE m
  BY <1>1
<1>4. \A i \in 1 .. Len(new) : Sized(new[i])
  BY <1>1, <1>2, <1>3
<1> QED
  BY <1>2, <1>4 DEF Lists

\* An entry put for another makes a map.
LEMMA ReplaceLists ==
  ASSUME NEW sys \in Lists, NEW t \in 1 .. Len(sys), NEW m \in Entry, Sized(m)
  PROVE  [sys EXCEPT ![t] = m] \in Lists
<1> DEFINE new == [sys EXCEPT ![t] = m]
<1>1. sys \in Seq(Entry) /\ \A i \in 1 .. Len(sys) : Sized(sys[i])
  BY DEF Lists
<1>2. new \in Seq(Entry) /\ Len(new) = Len(sys)
  BY <1>1
<1>3. \A i \in 1 .. Len(sys) : new[i] = m \/ new[i] = sys[i]
  BY <1>1
<1>4. \A i \in 1 .. Len(new) : Sized(new[i])
  BY <1>1, <1>2, <1>3
<1> QED
  BY <1>2, <1>4 DEF Lists

\* What an access answers.
LEMMA AnswerTypes ==
  /\ \A w \in {"sys", "remap", "fl", "store", "error"} : Did(w) \in Answers
  /\ \A n \in Sizes : \A data \in [1 .. n -> Byte] : Loaded(data) \in Answers
  BY DEF Answers

\* A command about the map leaves a list.
LEMMA MapCommandsType ==
  ASSUME TypeOK, SysAdd \/ SysFile \/ SysSimple \/ SysFree
  PROVE  TypeOK'
<1> USE ListType, NextListType, AnswerTypes, MemorySubsystemAssumption
<1>1. /\ exc_type' \in {0, DSI} /\ exc_addr' \in Addr /\ dead' \in BOOLEAN
      /\ answer' \in Answers
  BY DEF SysAdd, SysFile, SysSimple, SysFree
<1>2. <<>> \in Lists
  BY DEF Lists
<1>3. system' \in Lists
  <2>1. CASE SysAdd
    <3>1. PICK def \in Lines : \E mem \in Malloc(def.alloc) :
            system' = Append(system, Parsed(def, mem))
      BY <2>1 DEF SysAdd, SYS_parse_def
    <3> QED
      BY <3>1, ParsedType, AppendLists
  <2>2. CASE SysFile
    <3>1. CASE system' = SYS_free
      BY <1>2, <3>1 DEF SYS_free
    <3>2. CASE \E file \in Files :
                 \E mems \in [1 .. LinesParsed(file) -> Memory] :
                   /\ \A i \in DOMAIN mems : mems[i] \in Malloc(file[i].alloc)
                   /\ system' = [i \in DOMAIN mems |-> Parsed(file[i], mems[i])]
      <4>0. PICK file \in Files :
              \E mems \in [1 .. LinesParsed(file) -> Memory] :
                /\ \A i \in DOMAIN mems : mems[i] \in Malloc(file[i].alloc)
                /\ system' = [i \in DOMAIN mems |-> Parsed(file[i], mems[i])]
        BY <3>2
      <4>1. PICK mems \in [1 .. LinesParsed(file) -> Memory] :
              /\ \A i \in DOMAIN mems : mems[i] \in Malloc(file[i].alloc)
              /\ system' = [i \in DOMAIN mems |-> Parsed(file[i], mems[i])]
        BY <4>0
      <4>2. file \in Seq(Definition) /\ LinesParsed(file) \in 0 .. Len(file)
        BY LinesParsedType
      <4>3. \A i \in 1 .. LinesParsed(file) :
              Parsed(file[i], mems[i]) \in Entry /\ Sized(Parsed(file[i], mems[i]))
        <5> SUFFICES ASSUME NEW i \in 1 .. LinesParsed(file)
                     PROVE  /\ Parsed(file[i], mems[i]) \in Entry
                            /\ Sized(Parsed(file[i], mems[i]))
          OBVIOUS
        <5>1. mems[i] \in Malloc(file[i].alloc)
          BY <4>1
        <5>2. file[i] \in Definition
          BY <4>2
        <5> QED
          BY <5>1, <5>2, ParsedType, Zenon
      <4> QED
        BY <4>1, <4>2, <4>3, SMTT(30) DEF Lists
    <3> QED
      BY <2>2, <3>1, <3>2 DEF SysFile
  <2>3. CASE SysSimple
    <3>1. PICK mem \in Malloc(SimpleLine.alloc) :
            system' = Append(<<>>, Parsed(SimpleLine, mem))
      BY <2>3 DEF SysSimple, SYS_parse_def, SYS_free
    <3> QED
      BY <1>2, <3>1, ParsedType, AppendLists
  <2>4. CASE SysFree
    BY <1>2, <2>4 DEF SysFree, SYS_free
  <2> QED
    BY <2>1, <2>2, <2>3, <2>4
<1> QED
  BY <1>1, <1>3

\* So does an access.
LEMMA AccessTypes ==
  ASSUME TypeOK, NEW n \in Sizes, NEW a \in Addr, Accesses(a, n)
  PROVE  TypeOK'
<1> USE ListType, NextListType, AnswerTypes
<1>1. n \in Nat /\ DSI \in {0, DSI}
  BY MemorySubsystemAssumption DEF ACCESS_B, ACCESS_H, ACCESS_W
<1>2. \A i \in 1 .. n : 0 \in Byte
  BY SystemMapAssumption
<1>3. \A reply : Ignore(a, reply) /\ reply \in Answers => TypeOK'
  BY DEF Ignore, NoException
<1>4. Trap(a) => TypeOK'
  BY <1>1 DEF Trap, Raise
<1>5. \A reply : Device(a, reply) /\ reply \in Answers => TypeOK'
  BY <1>1 DEF Device, DeviceFails, Raise, NoException
<1>6. IsMem(a) => /\ MSS_MapAddress(system, a) \in 1 .. Len(system)
                  /\ Target(system, a) \in Entry /\ Sized(Target(system, a))
                  /\ Offset(Target(system, a), a) \in Nat
  <2> SUFFICES ASSUME IsMem(a)
               PROVE  /\ MSS_MapAddress(system, a) \in 1 .. Len(system)
                      /\ Target(system, a) \in Entry /\ Sized(Target(system, a))
                      /\ Offset(Target(system, a), a) \in Nat
    OBVIOUS
  <2>1. MSS_MapAddress(system, a) \in 1 .. Len(system)
    BY <1>1, MapAddressFinds DEF IsMem, Lists
  <2>2. Target(system, a) \in Entry /\ Sized(Target(system, a))
    BY <2>1 DEF Target, Lists
  <2>3. Target(system, a).modulus \in 1 .. AddrMax + 1 /\ a \in Nat
    BY <1>1, <2>2 DEF Entry, Addr
  <2> QED
    BY <2>1, <2>2, <2>3, SystemMapAssumption DEF Offset
<1>7. \A m : Checked(m, a) => exc_type' \in {0, DSI} /\ exc_addr' \in Addr
  BY <1>1 DEF Checked, Raise, NoException
<1>8. \A m : MayDie(m) => dead' \in BOOLEAN
  BY DEF MayDie
<1>9. LoadMem(a, n) => TypeOK'
  <2> SUFFICES ASSUME LoadMem(a, n)
               PROVE  TypeOK'
    OBVIOUS
  <2> DEFINE m == Target(system, a)
             o == Offset(m, a)
  <2>1. m \in Entry /\ Sized(m) /\ o \in Nat /\ IsMem(a)
    BY <1>6 DEF LoadMem
  <2>2. answer' \in Answers /\ dead' \in BOOLEAN
    BY <1>8 DEF LoadMem
  <2>3. system' = system /\ exc_type' \in {0, DSI} /\ exc_addr' \in Addr
    BY <1>7 DEF LoadMem
  <2> QED
    BY <2>2, <2>3
<1>10. \A data \in [1 .. n -> Byte] : StoreMem(a, data) => TypeOK'
  <2> SUFFICES ASSUME NEW data \in [1 .. n -> Byte], StoreMem(a, data)
               PROVE  TypeOK'
    OBVIOUS
  <2> DEFINE t == MSS_MapAddress(system, a)
             m == Target(system, a)
  <2>1. /\ t \in 1 .. Len(system) /\ m \in Entry /\ Sized(m) /\ Offset(m, a) \in Nat
        /\ m = system[t]
    BY <1>6 DEF StoreMem, Target
  <2>2. data \in Seq(Byte)
    BY <1>1
  <2>3. system' = [system EXCEPT ![t] = Written(m, Offset(m, a), data)]
    BY <2>1 DEF StoreMem
  <2>4. system' \in Lists
    BY <2>1, <2>2, <2>3, WrittenType, ReplaceLists
  <2>5. /\ exc_type' \in {0, DSI} /\ exc_addr' \in Addr
        /\ dead' \in BOOLEAN /\ answer' \in Answers
    BY <1>7, <1>8 DEF StoreMem
  <2> QED
    BY <2>4, <2>5
<1>11. Loaded([i \in 1 .. n |-> 0]) \in Answers /\ Did("store") \in Answers
  <2>1. [i \in 1 .. n |-> 0] \in [1 .. n -> Byte]
    BY <1>2
  <2> QED
    BY <2>1
<1> QED
  BY <1>3, <1>4, <1>5, <1>9, <1>10, <1>11 DEF Accesses, Load, Store

\* And so does a file.
LEMMA FileType ==
  ASSUME TypeOK, NEW a \in Addr, NEW image \in Images, FileLoad(a, image)
  PROVE  TypeOK'
<1> USE ListType, NextListType, AnswerTypes
<1> DEFINE t == MSS_MapAddress(system, a)
           m == system[t]
<1>1. t \in 1 .. Len(system)
  BY MapAddressFinds DEF FileLoad, Lists
<1>2. m \in Entry /\ Sized(m)
  BY <1>1 DEF Lists
<1>3. LoadOffset(m, a) \in Nat
  BY <1>2, SystemMapAssumption DEF LoadOffset, Offset, Entry, Addr
<1>4. image \in Seq(Byte)
  BY MemorySubsystemAssumption
<1>5. system' = [system EXCEPT ![t] = Written(m, LoadOffset(m, a), image)]
  BY DEF FileLoad
<1>6. system' \in Lists
  BY <1>1, <1>2, <1>3, <1>4, <1>5, WrittenType, ReplaceLists
<1>7. /\ exc_type' \in {0, DSI} /\ exc_addr' \in Addr
      /\ dead' \in BOOLEAN /\ answer' \in Answers
  BY DEF FileLoad, MayDie
<1> QED
  BY <1>6, <1>7

\* Every variable keeps its type, and every entry the memory it says it has.
THEOREM MemoryTypeCorrect == Spec => []TypeOK
<1>1. Init => TypeOK
  <2>1. <<>> \in Lists /\ 0 \in Addr
    BY SystemMapAssumption DEF Lists, Addr
  <2> QED
    BY <2>1, AnswerTypes DEF Init, TypeOK, Lists, Sized
<1>2. TypeOK /\ [Next]_vars => TypeOK'
  <2> SUFFICES ASSUME TypeOK, [Next]_vars
               PROVE  TypeOK'
    OBVIOUS
  <2>1. CASE SysAdd \/ SysFile \/ SysSimple \/ SysFree
    BY <2>1, MapCommandsType
  <2>2. CASE MSS_read \/ MSS_write
    <3>1. \E n \in Sizes : \E a \in Addr : Accesses(a, n)
      BY <2>2 DEF MSS_read, MSS_write, Accesses
    <3> QED
      BY <3>1, AccessTypes
  <2>3. CASE FileCmd
    BY <2>3, FileType DEF FileCmd
  <2>4. CASE UNCHANGED vars
    BY <2>4 DEF vars, TypeOK
  <2> QED
    BY <2>1, <2>2, <2>3, <2>4 DEF Next
<1> QED
  BY <1>1, <1>2, PTL DEF Spec

-----------------------------------------------------------------------------
(* What a map promises.                                                    *)

\* A definition hides no address that had one before it, not even a definition
\* that is rejected half-way: it is entered behind all others.
NothingHidden ==
  [][SysAdd => \A a \in Addr : Mapped(system, a) =>
       Mapped(system, a)' /\ Target(system, a)' = Target(system, a)]_vars

\* The lookup takes the first entry, and a definition becomes the last.
THEOREM NothingHiddenTheorem == Spec => NothingHidden
<1>1. TypeOK /\ [Next]_vars
        => [SysAdd => \A a \in Addr : Mapped(system, a) =>
              Mapped(system, a)' /\ Target(system, a)' = Target(system, a)]_vars
  <2> SUFFICES ASSUME TypeOK, SysAdd, NEW a \in Addr, Mapped(system, a)
               PROVE  Mapped(system, a)' /\ Target(system, a)' = Target(system, a)
    OBVIOUS
  <2>1. PICK def \in Lines : \E mem \in Malloc(def.alloc) :
          system' = Append(system, Parsed(def, mem))
    BY DEF SysAdd, SYS_parse_def
  <2>2. PICK mem \in Malloc(def.alloc) : system' = Append(system, Parsed(def, mem))
    BY <2>1
  <2>3. Parsed(def, mem) \in Entry /\ system \in Seq(Entry)
    BY ParsedType, MemorySubsystemAssumption DEF TypeOK
  <2>4. Mapped(Append(system, Parsed(def, mem)), a)
        /\ Target(Append(system, Parsed(def, mem)), a) = Target(system, a)
    BY <2>3, LinkingKeeps
  <2> QED
    BY <2>2, <2>4
<1> QED
  BY <1>1, MemoryTypeCorrect, PTL DEF Spec, NothingHidden

\* Every line that the user may give, alone or in a file.
Given ==
  Lines \cup {SimpleLine} \cup UNION {{file[i] : i \in 1 .. Len(file)} : file \in Files}

\* Whatever is done, an entry of the map is one that was there, perhaps written
\* to, or the outcome of a line that was given.
LEMMA EntriesStep ==
  ASSUME TypeOK, [Next]_vars, NEW i \in 1 .. Len(system')
  PROVE  \/ i \in 1 .. Len(system) /\ system'[i] = system[i]
         \/ i \in 1 .. Len(system) /\ \E o, data : system'[i] = Written(system[i], o, data)
         \/ \E def \in Given : \E mem \in Malloc(def.alloc) : system'[i] = Parsed(def, mem)
<1> USE MemorySubsystemAssumption
<1>0. system \in Seq(Entry)
  BY DEF TypeOK
<1>1. CASE SysAdd
  <2>1. PICK def \in Lines : \E mem \in Malloc(def.alloc) :
          system' = Append(system, Parsed(def, mem))
    BY <1>1 DEF SysAdd, SYS_parse_def
  <2>2. PICK mem \in Malloc(def.alloc) : system' = Append(system, Parsed(def, mem))
    BY <2>1
  <2>3. /\ Len(system') = Len(system) + 1
        /\ system'[i] = IF i <= Len(system) THEN system[i] ELSE Parsed(def, mem)
    BY <1>0, <2>2
  <2> QED
    BY <1>0, <2>3 DEF Given
<1>2. CASE SysFile
  <2>1. system' # SYS_free
    BY DEF SYS_free
  <2>2. PICK file \in Files :
          \E mems \in [1 .. LinesParsed(file) -> Memory] :
            /\ \A k \in DOMAIN mems : mems[k] \in Malloc(file[k].alloc)
            /\ system' = [k \in DOMAIN mems |-> Parsed(file[k], mems[k])]
    BY <1>2, <2>1 DEF SysFile
  <2>3. PICK mems \in [1 .. LinesParsed(file) -> Memory] :
          /\ \A k \in DOMAIN mems : mems[k] \in Malloc(file[k].alloc)
          /\ system' = [k \in DOMAIN mems |-> Parsed(file[k], mems[k])]
    BY <2>2
  <2>4. file \in Seq(Definition) /\ LinesParsed(file) \in 0 .. Len(file)
    BY LinesParsedType
  <2>5. i \in 1 .. LinesParsed(file)
    BY <2>3, <2>4
  <2>6. system'[i] = Parsed(file[i], mems[i]) /\ mems[i] \in Malloc(file[i].alloc)
    BY <2>3, <2>5
  <2>7. file[i] \in Given
    BY <2>4, <2>5 DEF Given
  <2> QED
    BY <2>6, <2>7
<1>3. CASE SysSimple
  <2>1. PICK mem \in Malloc(SimpleLine.alloc) :
          system' = Append(<<>>, Parsed(SimpleLine, mem))
    BY <1>3 DEF SysSimple, SYS_parse_def, SYS_free
  <2> QED
    BY <2>1 DEF Given
<1>4. CASE SysFree
  BY <1>4 DEF SysFree, SYS_free
<1>5. CASE MSS_read \/ MSS_write \/ FileCmd
  <2>1. \/ system' = system
        \/ \E t \in 1 .. Len(system) : \E o, data :
             system' = [system EXCEPT ![t] = Written(system[t], o, data)]
    <3>1. \A a \in Addr : Mapped(system, a) => MSS_MapAddress(system, a) \in 1 .. Len(system)
      BY <1>0, MapAddressFinds
    <3> QED
      BY <1>5, <3>1
         DEF MSS_read, MSS_write, FileCmd, FileLoad, Load, Store, Ignore, Trap, Device,
             LoadMem, StoreMem, IsMem
  <2>2. CASE system' = system
    BY <2>2
  <2>3. CASE system' # system
    <3>1. PICK t \in 1 .. Len(system) :
            \E o, data : system' = [system EXCEPT ![t] = Written(system[t], o, data)]
      BY <2>1, <2>3
    <3>o. PICK o, data : system' = [system EXCEPT ![t] = Written(system[t], o, data)]
      BY <3>1
    <3>2. i \in 1 .. Len(system)
          /\ system'[i] = IF i = t THEN Written(system[t], o, data) ELSE system[i]
      BY <1>0, <3>1, <3>o
    <3> QED
      BY <3>2
  <2> QED
    BY <2>2, <2>3
<1>6. CASE UNCHANGED vars
  BY <1>6 DEF vars
<1> QED
  BY <1>1, <1>2, <1>3, <1>4, <1>5, <1>6 DEF Next

\* Definitions whose memory is at least as large as its mask, and that are not
\* rejected between the class and the memory.
SoundLine(def) ==
  def.class = "MEM" => def.mode # "?" /\ def.modulus <= def.alloc

SoundLines == \A def \in Given : SoundLine(def)

\* Then there is memory behind every offset the mask lets through.
Backed(m) == m.class = "MEM" => m.modulus <= m.memsize

AllBacked == \A i \in 1 .. Len(system) : Backed(system[i])

\* A sound line makes an entry with memory behind its mask.
LEMMA ParsedBacked ==
  ASSUME NEW def \in Definition, SoundLine(def), NEW mem
  PROVE  Backed(Parsed(def, mem))
  BY DEF SoundLine, Backed, Parsed, SYS_new

\* What a user or a file gives is a definition.
LEMMA GivenType == Given \subseteq Definition
  BY MemorySubsystemAssumption DEF Given

\* Making a map makes it backed; filling and writing leave it so.
LEMMA BackedStep ==
  ASSUME TypeOK, AllBacked, SoundLines, [Next]_vars
  PROVE  AllBacked'
<1> SUFFICES ASSUME NEW i \in 1 .. Len(system')
             PROVE  Backed(system'[i])
  BY DEF AllBacked, Backed
<1>1. \A m \in Entry : \A o, data : Backed(m) => Backed(Written(m, o, data))
  BY DEF Backed, Written, Entry
<1>2. \A k \in 1 .. Len(system) : system[k] \in Entry /\ Backed(system[k])
  BY DEF TypeOK, AllBacked
<1>3. \A def \in Given : \A mem : Backed(Parsed(def, mem))
  BY ParsedBacked, GivenType DEF SoundLines
<1> QED
  BY <1>1, <1>2, <1>3, EntriesStep

\* With such definitions an access at any address, aligned or not, fails if and
\* only if it leaves an exception with its address: the first byte, whose place
\* decides, is always inside.
THEOREM ErrorsTheorem ==
  ASSUME SoundLines
  PROVE  Spec => ErrorsAreReported
<1>1. Spec => []AllBacked
  <2>1. Init => AllBacked
    BY DEF Init, AllBacked
  <2> QED
    BY <2>1, BackedStep, MemoryTypeCorrect, PTL DEF Spec
<1>2. TypeOK /\ AllBacked
        => \A n \in Sizes : \A a \in Addr :
             \/ answer'.did = "error" /\ Raise(a) /\ system' = system
             \/ answer'.did # "error" /\ NoException
             \/ ~ Accesses(a, n)
  <2> SUFFICES ASSUME TypeOK, AllBacked, NEW n \in Sizes, NEW a \in Addr,
                      Accesses(a, n)
               PROVE  \/ answer'.did = "error" /\ Raise(a) /\ system' = system
                      \/ answer'.did # "error" /\ NoException
    OBVIOUS
  <2>1. /\ Did("error").did = "error" /\ Did("store").did = "store"
        /\ \A data : Loaded(data).did = "load"
    BY DEF Did, Loaded
  <2>2. \A reply : Ignore(a, reply) => answer' = reply /\ NoException
    BY DEF Ignore
  <2>3. Trap(a) => answer'.did = "error" /\ Raise(a) /\ system' = system
    BY <2>1 DEF Trap
  <2>4. \A reply : Device(a, reply) =>
          \/ answer' = reply /\ NoException
          \/ answer'.did = "error" /\ Raise(a) /\ system' = system
    BY <2>1 DEF Device, DeviceFails
  <2>5. IsMem(a) => Offset(Target(system, a), a) < Target(system, a).memsize
    <3> SUFFICES ASSUME IsMem(a)
                 PROVE  Offset(Target(system, a), a) < Target(system, a).memsize
      OBVIOUS
    <3> DEFINE m == Target(system, a)
    <3>1. a \in Addr /\ MSS_MapAddress(system, a) \in 1 .. Len(system)
      BY MapAddressFinds DEF IsMem, TypeOK
    <3>2. m \in Entry /\ Backed(m) /\ m.class = "MEM"
      BY <3>1 DEF Target, TypeOK, AllBacked, IsMem
    <3>3. m.modulus \in Nat \ {0} /\ m.memsize \in Nat /\ a \in Nat /\ m.modulus <= m.memsize
      BY <3>1, <3>2, SystemMapAssumption DEF Entry, Addr, Backed
    <3>4. a % m.modulus < m.modulus /\ a % m.modulus \in Nat
      BY <3>3
    <3> QED
      BY <3>3, <3>4 DEF Offset
  <2>6. IsMem(a) /\ Checked(Target(system, a), a) => NoException
    <3> SUFFICES ASSUME IsMem(a), Checked(Target(system, a), a)
                 PROVE  NoException
      OBVIOUS
    <3> DEFINE o == Offset(Target(system, a), a)
               z == Target(system, a).memsize
    <3>1. a \in Addr /\ MSS_MapAddress(system, a) \in 1 .. Len(system)
      BY MapAddressFinds DEF IsMem, TypeOK
    <3>2. Target(system, a) \in Entry
      BY <3>1 DEF Target, TypeOK
    <3>3. o \in Int /\ z \in Int
      BY <3>1, <3>2, SystemMapAssumption DEF Entry, Addr, Offset
    <3>4. ~ (o >= z)
      BY <2>5, <3>3
    <3> QED
      BY <3>4 DEF Checked
  <2>7. LoadMem(a, n) => answer'.did # "error" /\ NoException
    BY <2>1, <2>6 DEF LoadMem
  <2>8. \A data : StoreMem(a, data) => answer'.did # "error" /\ NoException
    BY <2>1, <2>6 DEF StoreMem, Target
  <2> QED
    BY <2>1, <2>2, <2>3, <2>4, <2>7, <2>8 DEF Accesses, Load, Store
<1> QED
  BY <1>1, <1>2, MemoryTypeCorrect, PTL DEF Spec, ErrorsAreReported

-----------------------------------------------------------------------------
(* The map as an address space.                                            *)

\* Addresses that do not leave the mask's block have their offsets in a row.
LEMMA OffsetAdds ==
  ASSUME NEW a \in Nat, NEW m \in Nat \ {0}, NEW k \in Nat, (a % m) + k < m
  PROVE  (a + k) % m = (a % m) + k
<1> DEFINE q == a \div m
           r == a % m
           p == (a + k) \div m
           s == (a + k) % m
<1>1. q \in Nat /\ r \in 0 .. m - 1 /\ a = m * q + r
  OBVIOUS
<1>2. p \in Nat /\ s \in 0 .. m - 1 /\ a + k = m * p + s
  OBVIOUS
<1>3. r + k \in 0 .. m - 1
  BY <1>1
<1> HIDE DEF q, r, p, s
<1>4. m * (p - q) = r + k - s
  BY <1>1, <1>2
<1>5. p = q
  <2>1. ~ (p - q >= 1)
    BY <1>1, <1>2, <1>3, <1>4
  <2>2. ~ (p - q <= -1)
    BY <1>1, <1>2, <1>3, <1>4
  <2> QED
    BY <1>1, <1>2, <2>1, <2>2
<1>6. s = r + k
  BY <1>1, <1>2, <1>4, <1>5
<1> QED
  BY <1>6 DEF r, s

\* The entry of an address.
LEMMA Entries ==
  ASSUME TypeOK, AllBacked, NEW a \in Addr, Mapped(system, a)
  PROVE  /\ MSS_MapAddress(system, a) \in 1 .. Len(system)
         /\ Target(system, a) = system[MSS_MapAddress(system, a)]
         /\ Target(system, a) \in Entry /\ Backed(Target(system, a))
         /\ Sized(Target(system, a))
  BY MapAddressFinds DEF TypeOK, AllBacked, Target, Sized

\* Every offset of memory is inside it.
LEMMA InsideMemory ==
  ASSUME TypeOK, AllBacked, NEW a \in Addr, IsMem(a)
  PROVE  /\ Offset(Target(system, a), a) \in 0 .. Target(system, a).memsize - 1
         /\ Target(system, a).memsize \in Nat
<1> DEFINE m == Target(system, a)
<1>1. m \in Entry /\ Backed(m) /\ m.class = "MEM"
  BY Entries DEF IsMem
<1>2. m.modulus \in Nat \ {0} /\ m.memsize \in Nat /\ a \in Nat /\ m.modulus <= m.memsize
  BY <1>1, SystemMapAssumption DEF Entry, Addr, Backed
<1>3. a % m.modulus \in 0 .. m.modulus - 1
  BY <1>2
<1> QED
  BY <1>2, <1>3 DEF Offset

\* What an address is, is told by the entry found first.
LEMMA PlaceFacts ==
  ASSUME TypeOK, AllBacked, NEW a \in Addr
  PROVE  /\ Place(a).role = "memory" <=> IsMem(a)
         /\ IsMem(a) => Place(a).cell =
              <<MSS_MapAddress(system, a), Offset(Target(system, a), a)>>
         /\ ~ Mapped(system, a) <=> Place(a) = Space!Nothing
         /\ Ignored(a) => Place(a).role \in {"none", "ignored"}
         /\ Mapped(system, a) /\ Driven(Target(system, a)) => Place(a).role = "device"
         /\ Trapped(a) => Place(a).role = "trap"
<1>1. CASE ~ Mapped(system, a)
  BY <1>1 DEF Place, IsMem, Ignored, Trapped, Space!Nothing, Space!NoCell
<1>2. CASE Mapped(system, a)
  <2> DEFINE m == Target(system, a)
             c == <<MSS_MapAddress(system, a), Offset(m, a)>>
  <2>1. m.class = "MEM" => Inside(m, a, 1)
    <3>1. IsMem(a) => Offset(m, a) \in 0 .. m.memsize - 1 /\ m.memsize \in Nat
      BY InsideMemory
    <3> QED
      BY <1>2, <3>1 DEF IsMem, Inside
  <2>2. Place(a) = CASE m.class = "IGNORE" -> [role |-> "ignored", cell |-> <<0, 0>>]
                     [] Driven(m) -> [role |-> "device", cell |-> <<0, 0>>]
                     [] m.class = "MEM" /\ Inside(m, a, 1) -> [role |-> "memory", cell |-> c]
                     [] OTHER -> [role |-> "trap", cell |-> <<0, 0>>]
    BY <1>2 DEF Place
  <2>3. Driven(m) => m.class = "IO"
    BY DEF Driven
  <2> HIDE DEF m, c
  <2>4. /\ m.class = "IGNORE" => Place(a) = [role |-> "ignored", cell |-> <<0, 0>>]
        /\ Driven(m) => Place(a) = [role |-> "device", cell |-> <<0, 0>>]
        /\ m.class = "MEM" => Place(a) = [role |-> "memory", cell |-> c]
        /\ m.class # "IGNORE" /\ ~ Driven(m) /\ m.class # "MEM"
             => Place(a) = [role |-> "trap", cell |-> <<0, 0>>]
    BY <2>1, <2>2, <2>3
  <2> QED
    BY <1>2, <2>3, <2>4 DEF m, c, IsMem, Ignored, Trapped, Space!Nothing, Space!NoCell
<1> QED
  BY <1>1, <1>2

\* Writing to an entry does not move an address to another one.
LEMMA WrittenMap ==
  ASSUME TypeOK, NEW t \in 1 .. Len(system), NEW o, NEW data,
         system' = [system EXCEPT ![t] = Written(system[t], o, data)],
         NEW b \in Addr
  PROVE  /\ Mapped(system', b) = Mapped(system, b)
         /\ MSS_MapAddress(system', b) = MSS_MapAddress(system, b)
         /\ Mapped(system, b) => Target(system', b) =
              IF MSS_MapAddress(system, b) = t
                THEN Written(Target(system, b), o, data) ELSE Target(system, b)
<1>1. /\ Len(system') = Len(system)
      /\ \A i \in 1 .. Len(system) :
           system'[i] = IF i = t THEN Written(system[t], o, data) ELSE system[i]
  BY DEF TypeOK
<1>2. \A i \in 1 .. Len(system) : system[i] \in Entry
  BY DEF TypeOK
<1>3. \A e \in Entry : /\ Written(e, o, data).start = e.start
                       /\ Written(e, o, data).end = e.end
  BY DEF Written, Entry
<1>4. \A i \in 1 .. Len(system) : Covers(system'[i], b) <=> Covers(system[i], b)
  BY <1>1, <1>2, <1>3 DEF Covers
<1>5. Covering(system', b) = Covering(system, b)
  BY <1>1, <1>4 DEF Covering
<1>6. Mapped(system, b) => MSS_MapAddress(system, b) \in 1 .. Len(system)
  BY MapAddressFinds DEF TypeOK
<1> QED
  BY <1>1, <1>5, <1>6 DEF Mapped, MSS_MapAddress, Target

\* Nor does it change what an address is.
LEMMA WrittenPlaces ==
  ASSUME TypeOK, NEW t \in 1 .. Len(system), NEW o, NEW data,
         system' = [system EXCEPT ![t] = Written(system[t], o, data)],
         NEW b \in Addr
  PROVE  Place(b)' = Place(b)
<1> DEFINE m == Target(system, b)
           w == Target(system', b)
<1>1. /\ Mapped(system', b) = Mapped(system, b)
      /\ MSS_MapAddress(system', b) = MSS_MapAddress(system, b)
      /\ Mapped(system, b) => \/ w = Written(m, o, data)
                              \/ w = m
  <2>1. Mapped(system, b) => w = IF MSS_MapAddress(system, b) = t
                                   THEN Written(m, o, data) ELSE m
    BY WrittenMap
  <2> HIDE DEF m, w
  <2> QED
    BY <2>1, WrittenMap
<1>2. CASE ~ Mapped(system, b)
  BY <1>1, <1>2 DEF Place
<1>3. CASE Mapped(system, b)
  <2>1. m \in Entry
    BY <1>3, MapAddressFinds DEF TypeOK, Target
  <2>2. /\ w.class = m.class /\ w.driver = m.driver
        /\ w.memsize = m.memsize /\ w.modulus = m.modulus
    BY <1>1, <1>3, <2>1 DEF Written, Entry
  <2>3. /\ Driven(w) <=> Driven(m)
        /\ Offset(w, b) = Offset(m, b)
        /\ Inside(w, b, 1) <=> Inside(m, b, 1)
    BY <2>2 DEF Driven, Offset, Inside
  <2>4. Place(b)' = CASE w.class = "IGNORE" -> [role |-> "ignored", cell |-> <<0, 0>>]
                      [] Driven(w) -> [role |-> "device", cell |-> <<0, 0>>]
                      [] w.class = "MEM" /\ Inside(w, b, 1) ->
                           [role |-> "memory",
                            cell |-> <<MSS_MapAddress(system', b), Offset(w, b)>>]
                      [] OTHER -> [role |-> "trap", cell |-> <<0, 0>>]
    BY <1>1, <1>3 DEF Place
  <2>5. Place(b) = CASE m.class = "IGNORE" -> [role |-> "ignored", cell |-> <<0, 0>>]
                     [] Driven(m) -> [role |-> "device", cell |-> <<0, 0>>]
                     [] m.class = "MEM" /\ Inside(m, b, 1) ->
                          [role |-> "memory",
                           cell |-> <<MSS_MapAddress(system, b), Offset(m, b)>>]
                     [] OTHER -> [role |-> "trap", cell |-> <<0, 0>>]
    BY <1>3 DEF Place
  <2> HIDE DEF m, w
  <2> QED
    BY <1>1, <2>2, <2>3, <2>4, <2>5
<1> QED
  BY <1>2, <1>3

\* A cell is a byte of the memory of an entry that is memory.
LEMMA CellFacts ==
  ASSUME TypeOK, NEW c
  PROVE  /\ c \in Cells => /\ c = <<c[1], c[2]>> /\ c[1] \in 1 .. Len(system)
                           /\ system[c[1]].class = "MEM"
                           /\ c[2] \in DOMAIN system[c[1]].mem
                           /\ Contents[c] = system[c[1]].mem[c[2]]
         /\ \A i, o : <<i, o>> \in Cells <=>
              /\ i \in 1 .. Len(system) /\ system[i].class = "MEM"
              /\ o \in DOMAIN system[i].mem
<1>1. \A d : d \in Cells <=> \E i \in 1 .. Len(system) :
        system[i].class = "MEM" /\ \E o \in DOMAIN system[i].mem : d = <<i, o>>
  BY DEF Cells
<1>2. \A i, o, j, p : <<i, o>> = <<j, p>> => i = j /\ o = p
  OBVIOUS
<1>3. \A i, o : <<i, o>> \in Cells <=>
              /\ i \in 1 .. Len(system) /\ system[i].class = "MEM"
              /\ o \in DOMAIN system[i].mem
  BY <1>1, <1>2
<1>4. ASSUME c \in Cells
      PROVE  /\ c = <<c[1], c[2]>> /\ c[1] \in 1 .. Len(system)
             /\ system[c[1]].class = "MEM"
             /\ c[2] \in DOMAIN system[c[1]].mem
  <2>1. PICK i \in 1 .. Len(system) :
          system[i].class = "MEM" /\ \E o \in DOMAIN system[i].mem : c = <<i, o>>
    BY <1>1, <1>4
  <2>2. PICK o \in DOMAIN system[i].mem : c = <<i, o>>
    BY <2>1
  <2>3. c[1] = i /\ c[2] = o
    BY <2>2
  <2> QED
    BY <2>1, <2>2, <2>3
<1>5. c \in Cells => Contents[c] = system[c[1]].mem[c[2]]
  BY DEF Contents
<1> QED
  BY <1>3, <1>4, <1>5

\* Writing some bytes to the memory of an entry changes those cells alone.
LEMMA WrittenCells ==
  ASSUME TypeOK, NEW t \in 1 .. Len(system), NEW o \in Nat, NEW data \in Seq(Byte),
         system' = [system EXCEPT ![t] = Written(system[t], o, data)]
  PROVE  /\ DOMAIN Contents' = DOMAIN Contents
         /\ \A c \in DOMAIN Contents :
              Contents'[c] = IF c[1] = t /\ c[2] - o \in 0 .. Len(data) - 1
                               THEN data[c[2] - o + 1] ELSE Contents[c]
<1>1. /\ Len(system') = Len(system)
      /\ \A i \in 1 .. Len(system) :
           system'[i] = IF i = t THEN Written(system[t], o, data) ELSE system[i]
  BY DEF TypeOK
<1>2. system[t] \in Entry
  BY DEF TypeOK
<1>3. /\ Written(system[t], o, data).class = system[t].class
      /\ Written(system[t], o, data).mem =
           [i \in DOMAIN system[t].mem |->
              IF i - o \in 0 .. Len(data) - 1 THEN data[i - o + 1] ELSE system[t].mem[i]]
  BY <1>2 DEF Written, Entry
<1>4. \A i \in 1 .. Len(system) :
        /\ system'[i].class = system[i].class
        /\ DOMAIN system'[i].mem = DOMAIN system[i].mem
  BY <1>1, <1>3
<1>5. Cells' = Cells
  <2>1. \A d : d \in Cells <=> \E i \in 1 .. Len(system) :
          system[i].class = "MEM" /\ \E x \in DOMAIN system[i].mem : d = <<i, x>>
    BY DEF Cells
  <2>2. \A d : d \in Cells' <=> \E i \in 1 .. Len(system') :
          system'[i].class = "MEM" /\ \E x \in DOMAIN system'[i].mem : d = <<i, x>>
    BY DEF Cells
  <2>3. \A d : d \in Cells' <=> d \in Cells
    BY <1>1, <1>4, <2>1, <2>2
  <2> QED
    BY <2>3
<1>6. DOMAIN Contents' = Cells' /\ DOMAIN Contents = Cells
  BY DEF Contents
<1>7. ASSUME NEW c \in Cells
      PROVE  Contents'[c] = IF c[1] = t /\ c[2] - o \in 0 .. Len(data) - 1
                              THEN data[c[2] - o + 1] ELSE Contents[c]
  <2>1. /\ c[1] \in 1 .. Len(system) /\ c[2] \in DOMAIN system[c[1]].mem
        /\ Contents[c] = system[c[1]].mem[c[2]]
    BY CellFacts
  <2>2. Contents'[c] = system'[c[1]].mem[c[2]]
    BY <1>5 DEF Contents
  <2>3. CASE c[1] = t
    BY <1>1, <1>3, <2>1, <2>2, <2>3
  <2>4. CASE c[1] # t
    BY <1>1, <2>1, <2>2, <2>4
  <2> QED
    BY <2>3, <2>4
<1> QED
  BY <1>5, <1>6, <1>7

\* The commands about the map, and a file.
LEMMA MapsCommand ==
  ASSUME TypeOK, AllBacked, SysAdd \/ SysFile \/ SysSimple \/ SysFree \/ FileCmd
  PROVE  Space!Next
<1> DEFINE place == [a \in Addr |-> Place(a)]
<1>1. \A what : Did(what) = Space!Did(what)
  BY DEF Did, Space!Did
<1>2. CASE SysAdd
  <2>1. PICK def \in Lines : \E mem \in Malloc(def.alloc) :
          system' = Append(system, Parsed(def, mem))
    BY <1>2 DEF SysAdd, SYS_parse_def
  <2>2. PICK mem \in Malloc(def.alloc) : system' = Append(system, Parsed(def, mem))
    BY <2>1
  <2>3. Parsed(def, mem) \in Entry /\ system \in Seq(Entry)
    BY ParsedType, MemorySubsystemAssumption DEF TypeOK
  <2>4. ASSUME NEW a \in Addr, place[a] # Space!Nothing
        PROVE  place'[a] = place[a]
    <3>1. Mapped(system, a)
      BY <2>4, PlaceFacts
    <3>2. /\ Mapped(system', a) /\ Target(system', a) = Target(system, a)
          /\ MSS_MapAddress(system', a) = MSS_MapAddress(system, a)
      BY <2>2, <2>3, <3>1, LinkingKeeps
    <3>3. Place(a)' = Place(a)
      BY <3>1, <3>2 DEF Place
    <3> QED
      BY <3>3
  <2>5. Len(system') = Len(system) + 1 /\ \A i \in 1 .. Len(system) : system'[i] = system[i]
    BY <2>2, <2>3
  <2>6. ASSUME NEW c \in DOMAIN Contents
        PROVE  c \in DOMAIN Contents' /\ Contents'[c] = Contents[c]
    <3>1. /\ c \in Cells /\ c = <<c[1], c[2]>> /\ c[1] \in 1 .. Len(system)
          /\ system[c[1]].class = "MEM" /\ c[2] \in DOMAIN system[c[1]].mem
          /\ Contents[c] = system[c[1]].mem[c[2]]
      BY <2>6, CellFacts DEF Contents
    <3>2. system'[c[1]] = system[c[1]] /\ c[1] \in 1 .. Len(system')
      BY <2>3, <2>5, <3>1
    <3>3. c \in Cells'
      BY <3>1, <3>2 DEF Cells
    <3>4. Contents'[c] = system'[c[1]].mem[c[2]] /\ DOMAIN Contents' = Cells'
      BY <3>3 DEF Contents
    <3> QED
      BY <3>1, <3>2, <3>3, <3>4
  <2>7. Space!Define
    BY <1>1, <1>2, <2>4, <2>6 DEF SysAdd, Space!Define
  <2> QED
    BY <2>7 DEF Space!Next
<1>3. CASE SysFile \/ SysSimple \/ SysFree
  BY <1>1, <1>3 DEF SysFile, SysSimple, SysFree, Space!Redefine, Space!Next
<1>4. CASE FileCmd
  <2>1. PICK a \in Addr, image \in Images : FileLoad(a, image)
    BY <1>4 DEF FileCmd
  <2> DEFINE t == MSS_MapAddress(system, a)
             m == Target(system, a)
             o == Offset(m, a)
  <2>2. /\ Mapped(system, a) /\ t \in 1 .. Len(system) /\ m = system[t] /\ m \in Entry
        /\ system' = [system EXCEPT ![t] = Written(system[t], o, image)]
    BY <2>1, Entries DEF FileLoad, LoadOffset, Target
  <2>3. o \in Nat /\ image \in Seq(Byte)
    BY <2>2, SystemMapAssumption, MemorySubsystemAssumption DEF Offset, Entry, Addr
  <2>4. place' = place
    BY <2>2, WrittenPlaces
  <2>5. DOMAIN Contents' = DOMAIN Contents
    BY <2>2, <2>3, WrittenCells
  <2>6. ASSUME NEW c \in DOMAIN Contents, Contents'[c] # Contents[c]
        PROVE  /\ Space!IsMemory(a)
               /\ c[1] = place[a].cell[1] /\ c[2] >= place[a].cell[2]
    <3>1. c[1] = t /\ c[2] - o \in 0 .. Len(image) - 1
      BY <2>2, <2>3, <2>6, WrittenCells
    <3>2. c \in Cells
      BY <2>6 DEF Contents
    <3>3. system[c[1]].class = "MEM" /\ c[2] \in DOMAIN system[c[1]].mem
      BY <3>2, CellFacts
    <3>4. IsMem(a)
      BY <2>2, <3>1, <3>3 DEF IsMem
    <3>5. Place(a).role = "memory" /\ Place(a).cell = <<t, o>>
      BY <3>4, PlaceFacts
    <3>6. c[2] \in Int
      <4>1. Sized(m) /\ m.memsize \in Int
        BY <2>2, Entries, SystemMapAssumption DEF Entry
      <4> QED
        BY <2>2, <3>1, <3>3, <4>1 DEF Sized
    <3>7. Place(a).cell[1] = t /\ Place(a).cell[2] = o
      BY <3>5
    <3> HIDE DEF o, t
    <3> QED
      BY <2>3, <3>1, <3>5, <3>6, <3>7 DEF Space!IsMemory
  <2>7. answer' = Space!Did("fl")
    BY <1>1, <2>1 DEF FileLoad
  <2> HIDE DEF o, m, t, place
  <2>8. Space!Fill
    BY <2>4, <2>5, <2>6, <2>7 DEF Space!Fill, place
  <2> QED
    BY <2>8 DEF Space!Next
<1> QED
  BY <1>2, <1>3, <1>4

\* What leaves the map alone leaves the space alone.
LEMMA SameSpace ==
  ASSUME system' = system
  PROVE  UNCHANGED <<[b \in Addr |-> Place(b)], Contents>>
<1>1. \A b \in Addr : Place(b)' = Place(b)
  BY DEF Place
<1>2. Cells' = Cells
  BY DEF Cells
<1>3. Contents' = Contents
  BY <1>2 DEF Contents
<1> QED
  BY <1>1, <1>3

\* An access that does not come to memory.
LEMMA MapsOther ==
  ASSUME TypeOK, AllBacked, NEW n \in Sizes, NEW a \in Addr
  PROVE  /\ Ignore(a, Loaded([i \in 1 .. n |-> 0])) \/ Trap(a) => Space!Load(a, n)
         /\ \A data \in [1 .. n -> Byte] : Device(a, Loaded(data)) => Space!Load(a, n)
         /\ \A data \in [1 .. n -> Byte] :
              Ignore(a, Did("store")) \/ Trap(a) \/ Device(a, Did("store"))
                => Space!Store(a, n, data)
<1> DEFINE place == [b \in Addr |-> Place(b)]
<1>1. place[a] = Place(a)
  OBVIOUS
<1>2. system' = system => place' = place /\ Contents' = Contents
  BY SameSpace
<1>3. /\ \A what : Did(what) = Space!Did(what)
      /\ \A data : Loaded(data) = Space!Loaded(data)
      /\ Space!Zeros(n) = [i \in 1 .. n |-> 0]
  BY DEF Did, Space!Did, Loaded, Space!Loaded, Space!Zeros
<1>4. \A reply : Ignore(a, reply)
        => /\ place[a].role \in {"none", "ignored"} /\ answer' = reply
           /\ place' = place /\ Contents' = Contents
  BY <1>1, <1>2, PlaceFacts DEF Ignore
<1>5. Trap(a) => /\ place[a].role = "trap" /\ Space!Failed
                 /\ place' = place /\ Contents' = Contents
  BY <1>1, <1>2, <1>3, PlaceFacts DEF Trap, Space!Failed
<1>6. \A reply : Device(a, reply)
        => /\ place[a].role = "device" /\ (Space!Failed \/ answer' = reply)
           /\ place' = place /\ Contents' = Contents
  BY <1>1, <1>2, <1>3, PlaceFacts DEF Device, DeviceFails, Space!Failed
<1> HIDE DEF place
<1> QED
  BY <1>3, <1>4, <1>5, <1>6 DEF Space!Load, Space!Store, place

\* A load from memory, and a store: wherever they start, they move the cells of
\* one entry in a row.
LEMMA MapsMemory ==
  ASSUME TypeOK, AllBacked, NEW n \in Sizes, NEW a \in Addr
  PROVE  /\ LoadMem(a, n) => Space!Load(a, n)
         /\ \A data \in [1 .. n -> Byte] : StoreMem(a, data) => Space!Store(a, n, data)
<1> DEFINE place == [b \in Addr |-> Place(b)]
           m == Target(system, a)
           t == MSS_MapAddress(system, a)
           o == Offset(m, a)
<1>1. n \in Nat
  BY MemorySubsystemAssumption DEF ACCESS_B, ACCESS_H, ACCESS_W
<1>2. ASSUME IsMem(a)
      PROVE  /\ t \in 1 .. Len(system) /\ m = system[t] /\ o \in Nat
             /\ place[a].role = "memory"
             /\ \A k : Space!CellOf(a, k) = <<t, o + k - 1>>
  <2>1. t \in 1 .. Len(system) /\ m = system[t]
    BY <1>2, Entries DEF IsMem
  <2>2. o \in Nat
    BY <1>2, InsideMemory
  <2>3. Place(a).role = "memory" /\ Place(a).cell = <<t, o>>
    BY <1>2, PlaceFacts
  <2> QED
    BY <2>1, <2>2, <2>3 DEF Space!CellOf
<1>3. ASSUME LoadMem(a, n)
      PROVE  Space!Load(a, n)
  <2>1. IsMem(a) /\ system' = system
    BY <1>3 DEF LoadMem
  <2>2. PICK data \in [1 .. n -> Byte] :
          /\ \A k \in 1 .. n : o + k - 1 \in DOMAIN m.mem => data[k] = m.mem[o + k - 1]
          /\ answer' = Loaded(data)
    BY <1>3 DEF LoadMem
  <2>3. ASSUME NEW k \in 1 .. n, Space!CellOf(a, k) \in DOMAIN Contents
        PROVE  data[k] = Contents[Space!CellOf(a, k)]
    <3>1. Space!CellOf(a, k) = <<t, o + k - 1>> /\ m = system[t]
      BY <1>2, <2>1
    <3>2. <<t, o + k - 1>> \in Cells
      BY <2>3, <3>1 DEF Contents
    <3>3. /\ o + k - 1 \in DOMAIN system[t].mem
          /\ Contents[<<t, o + k - 1>>] = system[t].mem[o + k - 1]
      <4> DEFINE p == o + k - 1
      <4> HIDE DEF p, t
      <4>1. <<t, p>> \in Cells => /\ p \in DOMAIN system[t].mem
                                  /\ Contents[<<t, p>>] = system[t].mem[p]
        BY CellFacts
      <4> QED
        BY <3>2, <4>1 DEF p
    <3> QED
      BY <2>2, <3>1, <3>3
  <2>4. place' = place /\ Contents' = Contents
    BY <2>1, SameSpace
  <2>5. place[a].role = "memory"
    BY <1>2, <2>1
  <2> HIDE DEF place
  <2> QED
    BY <2>2, <2>3, <2>4, <2>5 DEF Space!Load, Space!IsMemory, Space!Loaded, Loaded, place
<1>4. ASSUME NEW data \in [1 .. n -> Byte], StoreMem(a, data)
      PROVE  Space!Store(a, n, data)
  <2>1. /\ IsMem(a) /\ answer' = Space!Did("store")
        /\ system' = [system EXCEPT ![t] = Written(system[t], o, data)]
    BY <1>4 DEF StoreMem, Did, Space!Did, Target
  <2>2. /\ t \in 1 .. Len(system) /\ o \in Nat /\ place[a].role = "memory"
        /\ \A k : Space!CellOf(a, k) = <<t, o + k - 1>>
    BY <1>2, <2>1
  <2>3. data \in Seq(Byte) /\ Len(data) = n
    BY <1>1
  <2>4. place' = place
    BY <2>1, <2>2, WrittenPlaces
  <2>5. /\ DOMAIN Contents' = DOMAIN Contents
        /\ \A c \in DOMAIN Contents :
             Contents'[c] = IF c[1] = t /\ c[2] - o \in 0 .. Len(data) - 1
                              THEN data[c[2] - o + 1] ELSE Contents[c]
    BY <2>1, <2>2, <2>3, WrittenCells
  <2>6. ASSUME NEW c \in DOMAIN Contents
        PROVE  /\ \A k \in 1 .. n : c = Space!CellOf(a, k) => Contents'[c] = data[k]
               /\ (\A k \in 1 .. n : c # Space!CellOf(a, k)) => Contents'[c] = Contents[c]
    <3>1. c = <<c[1], c[2]>> /\ c[1] \in 1 .. Len(system) /\ c[2] \in DOMAIN system[c[1]].mem
      BY CellFacts DEF Contents
    <3>2. c[2] \in Int
      <4>1. /\ system[c[1]] \in Entry /\ DOMAIN system[c[1]].mem = 0 .. system[c[1]].memsize - 1
        BY <3>1 DEF TypeOK
      <4>2. system[c[1]].memsize \in Int
        BY <4>1, SystemMapAssumption DEF Entry
      <4> QED
        BY <3>1, <4>1, <4>2
    <3> HIDE DEF o, t, place
    <3>3. ASSUME NEW k \in 1 .. n, c = Space!CellOf(a, k)
          PROVE  Contents'[c] = data[k]
      <4>1. c[1] = t /\ c[2] = o + k - 1
        BY <2>2, <3>3
      <4>2. c[2] - o \in 0 .. Len(data) - 1 /\ c[2] - o + 1 = k
        BY <1>1, <2>2, <2>3, <3>2, <4>1
      <4> QED
        BY <2>5, <4>1, <4>2
    <3>4. ASSUME \A k \in 1 .. n : c # Space!CellOf(a, k)
          PROVE  Contents'[c] = Contents[c]
      <4>1. ASSUME c[1] = t, c[2] - o \in 0 .. Len(data) - 1
            PROVE  FALSE
        <5> DEFINE k == c[2] - o + 1
        <5>1. k \in 1 .. n /\ o + k - 1 = c[2]
          BY <1>1, <2>2, <2>3, <3>2, <4>1
        <5> HIDE DEF k
        <5>2. Space!CellOf(a, k) = <<c[1], c[2]>>
          BY <2>2, <4>1, <5>1
        <5> QED
          BY <3>1, <3>4, <5>1, <5>2
      <4> QED
        BY <2>5, <4>1
    <3> QED
      BY <3>3, <3>4
  <2> HIDE DEF place
  <2> QED
    BY <2>1, <2>2, <2>4, <2>5, <2>6 DEF Space!Store, Space!IsMemory, place
<1> QED
  BY <1>3, <1>4

\* Each step is one of the address space, or shows nothing of it.
LEMMA SpaceMaps ==
  ASSUME TypeOK, AllBacked, [Next]_vars
  PROVE  [Space!Next]_(Space!svars)
<1>1. CASE SysAdd \/ SysFile \/ SysSimple \/ SysFree \/ FileCmd
  BY <1>1, MapsCommand
<1>2. CASE MSS_read \/ MSS_write
  <2>0. PICK n \in Sizes : \E a \in Addr :
          Load(a, n) \/ \E data \in [1 .. n -> Byte] : Store(a, data)
    BY <1>2 DEF MSS_read, MSS_write
  <2>1. PICK a \in Addr :
          Load(a, n) \/ \E data \in [1 .. n -> Byte] : Store(a, data)
    BY <2>0
  <2>2. Space!Load(a, n) \/ \E data \in [1 .. n -> Byte] : Space!Store(a, n, data)
    BY <2>1, MapsOther, MapsMemory DEF Load, Store
  <2> QED
    BY <2>2 DEF Space!Access, Space!Next
<1>3. CASE UNCHANGED vars
  BY <1>3, SameSpace DEF vars, Space!svars
<1> QED
  BY <1>1, <1>2, <1>3 DEF Next

\* The map and the memory behind it are an address space, for every size of it
\* and every set of lines, files and images, and for accesses of every size at
\* every address: what is stored is loaded, by every address of the cell and by
\* no other, and a new entry hides no old one.  Each memory must be as large as
\* its mask; `map_half' shows what a smaller one does.
THEOREM SpaceTheorem ==
  ASSUME SoundLines
  PROVE  Spec => ImplementsAddressSpace
<1>1. Init => AllBacked /\ Space!Init
  <2> SUFFICES ASSUME Init
               PROVE  AllBacked /\ Space!Init
    OBVIOUS
  <2>1. AllBacked /\ answer = Space!Did("sys") /\ \A a \in Addr : Place(a) = Space!Nothing
    BY DEF Init, AllBacked, Place, Mapped, Covering, Space!Nothing, Space!NoCell, Did, Space!Did
  <2>2. Cells = {}
    BY DEF Init, Cells
  <2>3. Contents = [c \in {} |-> 0]
    BY <2>2 DEF Contents
  <2> QED
    BY <2>1, <2>3 DEF Space!Init
<1>2. TypeOK /\ AllBacked /\ [Next]_vars => AllBacked' /\ [Space!Next]_(Space!svars)
  BY BackedStep, SpaceMaps
<1> QED
  BY <1>1, <1>2, MemoryTypeCorrect, PTL DEF Spec, ImplementsAddressSpace, Space!Spec

-----------------------------------------------------------------------------
(* The loader.                                                             *)

\* A file that `fl' copies to an address is read back there, byte by byte,
\* where the addresses belong to the memory of one entry and its mask does not
\* fold them.
THEOREM LoadedTheorem == Spec => LoadedIsRead
<1> DEFINE Premise(a, image) ==
             /\ FileLoad(a, image)
             /\ \A i \in 1 .. Len(image) :
                  /\ a + i - 1 \in Addr
                  /\ IsMem(a + i - 1)
                  /\ MSS_MapAddress(system, a + i - 1) = MSS_MapAddress(system, a)
             /\ LET m == Target(system, a)
                IN Offset(m, a) + Len(image) <= m.modulus /\ Inside(m, a, Len(image))
<1>1. ASSUME TypeOK, NEW a \in Addr, NEW image \in Images, Premise(a, image),
             NEW i \in 1 .. Len(image)
      PROVE  IsMem(a + i - 1)' /\ ByteAt(a + i - 1)' = image[i]
  <2> DEFINE b == a + i - 1
             t == MSS_MapAddress(system, a)
             m == Target(system, a)
             o == Offset(m, a)
             w == Written(m, o, image)
  <2>1. /\ t \in 1 .. Len(system) /\ m = system[t]
        /\ system' = [system EXCEPT ![t] = Written(system[t], o, image)]
    BY <1>1, MapAddressFinds DEF FileLoad, Target, LoadOffset, TypeOK
  <2>2. m \in Entry /\ Sized(m) /\ image \in Seq(Byte)
    <3>1. system \in Seq(Entry) /\ \A j \in 1 .. Len(system) : Sized(system[j])
      BY <1>1 DEF TypeOK, Sized
    <3>2. image \in Seq(Byte)
      BY MemorySubsystemAssumption
    <3> QED
      BY <2>1, <3>1, <3>2
  <2>3. /\ b \in Addr /\ IsMem(b) /\ MSS_MapAddress(system, b) = t
        /\ Target(system, b) = m
    BY <1>1 DEF Target
  <2>4. /\ a \in Nat /\ m.modulus \in Nat \ {0} /\ m.memsize \in Nat
        /\ Len(image) \in Nat /\ o \in Nat
    BY <2>2, SystemMapAssumption DEF Entry, Addr, Offset
  <2>5. o + Len(image) <= m.modulus /\ o + Len(image) <= m.memsize
    BY <1>1 DEF Inside
  <2>6. Offset(m, b) = o + (i - 1)
    <3>1. i - 1 \in Nat /\ o + (i - 1) < m.modulus /\ b = a + (i - 1)
      BY <2>4, <2>5
    <3>2. (a + (i - 1)) % m.modulus = (a % m.modulus) + (i - 1)
      BY <2>4, <3>1, OffsetAdds DEF Offset
    <3> QED
      BY <3>1, <3>2 DEF Offset
  <2>7. Target(system', b) = w /\ Mapped(system', b)
    <3>1. Mapped(system, b)
      BY <2>3 DEF IsMem
    <3>2. TypeOK /\ b \in Addr
      BY <1>1
    <3> HIDE DEF b, m, o, t
    <3>3. /\ Mapped(system', b) = Mapped(system, b)
          /\ Target(system', b) = IF MSS_MapAddress(system, b) = t
                                    THEN Written(Target(system, b), o, image)
                                    ELSE Target(system, b)
      BY <2>1, <3>1, <3>2, WrittenMap
    <3> QED
      BY <2>3, <3>1, <3>3
  <2>8. /\ w.class = "MEM" /\ w.modulus = m.modulus /\ w.memsize = m.memsize
        /\ w.mem = [j \in DOMAIN m.mem |->
                      IF j - o \in 0 .. Len(image) - 1 THEN image[j - o + 1] ELSE m.mem[j]]
    BY <2>2, <2>3 DEF Written, Entry, IsMem
  <2>9. o + (i - 1) \in DOMAIN m.mem /\ o + (i - 1) - o = i - 1
    BY <2>2, <2>4, <2>5 DEF Sized
  <2>10. w.mem[o + (i - 1)] = image[i]
    BY <2>4, <2>8, <2>9
  <2>11. Offset(w, b) = o + (i - 1)
    BY <2>6, <2>8 DEF Offset
  <2> HIDE DEF b, w, o
  <2> QED
    BY <2>7, <2>8, <2>10, <2>11 DEF b, IsMem, ByteAt
<1>2. TypeOK => [\A a \in Addr : \A image \in Images :
                   Premise(a, image)
                     => \A i \in 1 .. Len(image) :
                          IsMem(a + i - 1)' /\ ByteAt(a + i - 1)' = image[i]]_vars
  BY <1>1
<1> QED
  BY <1>2, MemoryTypeCorrect, PTL DEF Spec, LoadedIsRead
=============================================================================
