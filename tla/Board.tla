-------------------------------- MODULE Board --------------------------------
(***************************************************************************)
(* The board behind the processor and its two users: the program, which    *)
(* reaches the north bridge by loads and stores, and the user at the       *)
(* prompt, who stops the program at any of them, displays and modifies     *)
(* memory (mem.c), and changes bridge and processor with `nb', `cpu' and   *)
(* `reset'.  A scene says what the two of them do in a run of the model.   *)
(***************************************************************************)
EXTENDS NorthBridge, CpuSelection, SequencesExt

CONSTANTS
  Ports,          \* address -> port of the bridge, or "memory"
  Scenes,         \* name -> what is done in it, see SceneOK
  THRESHOLD,      \* bytes that are displayed without pages, and lines of a page
  PAGE,
  Junk            \* what a variable that was never set may hold

Addr == Word
LINE == 16        \* bytes of a line of md
BLOCK == 64       \* bytes md shows if it is given one address

ACCESS_B == 1
ACCESS_H == 2
ACCESS_W == 4
Sizes == {ACCESS_B, ACCESS_H, ACCESS_W}

SceneOK(s) ==
  /\ s.stores \subseteq [a : Addr, v : Word, size : {ACCESS_B, ACCESS_W}]
  /\ s.loads \subseteq Addr
  /\ s.ranges \subseteq Seq(Addr) \X Sizes
  /\ s.modifies \subseteq Addr \X Word
  /\ s.nb \subseteq DOMAIN Bridges \cup {"-p", "-r", "-s unknown"}
  /\ s.cpu \subseteq (SUBSET {"p", "s"}) \X Int \X STRING
  /\ s.strings \subseteq Seq(Byte)
  /\ s.overrides \subseteq STRING
  /\ {s.resets, s.dots} \subseteq BOOLEAN

ASSUME BoardAssumption ==
  /\ Ports \in [Addr -> {"memory", "index", "data"} \cup IOPorts]
  /\ \A n \in DOMAIN Scenes : SceneOK(Scenes[n])
  /\ THRESHOLD \in Nat /\ PAGE \in Nat \ {0}
  /\ Junk \subseteq Word /\ Junk # {}

VARIABLES
  scene,
  at,             \* "prompt", "run", or where md or mm is
  nb,             \* ppcsim->bridge
  cpu,            \* the processor's choice and its PVR and HID1
  dot,            \* dot_cmd as md and mm leave it: command, start, end
  m,              \* the locals of MDEngine or MMEngine
  got,            \* history: what the program loaded last, and from where
  expect          \* history: what it may expect to load, see Expected

vars == <<scene, at, nb, cpu, dot, m, got, expect>>

S == Scenes[scene]
None == "none"

NoDot == [cmd |-> None, start |-> 0, end |-> 0]
Idle  == [addr |-> 0, start |-> 0, end |-> 0, size |-> ACCESS_W, dir |-> 1,
          linecnt |-> 0, linesize |-> 0]

------------------------------------------------------------------------------
(* Accesses, through MSS: configuration cycles, IO cycles, memory.         *)

BoardRead(b, a, v)  == IF Ports[a] \in IOPorts THEN b ELSE NB_cfg(b, Ports[a], a % 4, v, FALSE)
BoardWrite(b, a, v) == IF Ports[a] \in IOPorts THEN NB_io(b, Ports[a], v % 2 ^ BYTE)
                       ELSE {NB_cfg(b, Ports[a], a % 4, v, TRUE)}
Answers(b, a, v)    == IF Ports[a] \in IOPorts THEN IOAnswer(b, Ports[a], v % 2 ^ BYTE)
                       ELSE {CfgAnswer(b, Ports[a], v)}

(* What the program may expect.  `touched' says that it cannot know what   *)
(* is selected: the index was accessed by somebody else or read since its  *)
(* last store there.  Of a register it knows the bytes it has stored in    *)
(* the width the bridge supports, of the NVRAM what it has stored behind   *)
(* latches that are its own.  A store that may have gone past the NVRAM    *)
(* may have hit any of this.                                               *)
Unknown == -1
NothingKnown == [r \in RegAddrs |-> [k \in 0 .. 3 |-> Unknown]]
NoNvram      == [i \in NVRAM |-> Unknown]

Expected0 == [touched |-> TRUE, a |-> 0, regs |-> NothingKnown,
              hi |-> Unknown, lo |-> Unknown, nvram |-> NoNvram]

Known(x) == ~ x.touched
Index(x) == x.a % 2 ^ (2 * BYTE)
Reg(x)   == x.a % 2 ^ BYTE

KnownAfter(x, st) ==
  CASE ~ Known(x) -> NothingKnown
    [] Known(x) /\ Index(x) = 0 -> x.regs
    [] Known(x) /\ Index(x) \in MBEN /\ st.size = ACCESS_B ->
         [x.regs EXCEPT ![Reg(x)][st.a % 4] = st.v % 2 ^ BYTE]
    [] Known(x) /\ Index(x) \notin MBEN \cup {0} /\ st.size = ACCESS_W ->
         [x.regs EXCEPT ![Reg(x)] = [k \in 0 .. 3 |-> ByteOf(st.v, k)]]
    [] OTHER -> [x.regs EXCEPT ![Reg(x)] = [k \in 0 .. 3 |-> Unknown]]

LatchesKnown(x) == x.hi # Unknown /\ x.lo # Unknown
NvIndex(x) == x.hi * 2 ^ BYTE + x.lo

\* After a store of the program.
Expected(x, st) ==
  CASE Ports[st.a] = "index" -> [x EXCEPT !.touched = ~ nb.placed, !.a = pSwap4Bytes(st.v)]
    [] Ports[st.a] = "data"  -> [x EXCEPT !.regs = KnownAfter(x, st)]
    [] Ports[st.a] = "nv_hi" -> [x EXCEPT !.hi = st.v % 2 ^ BYTE]
    [] Ports[st.a] = "nv_lo" -> [x EXCEPT !.lo = st.v % 2 ^ BYTE]
    [] Ports[st.a] = "nv_data" ->
         IF LatchesKnown(x) /\ NvIndex(x) \in NVRAM
           THEN [x EXCEPT !.nvram[NvIndex(x)] = st.v % 2 ^ BYTE]
           ELSE Expected0
    [] OTHER -> x

\* After the user, or a load, has touched these ports.
Touched(x, ports) ==
  [touched |-> x.touched \/ "index" \in ports, a |-> x.a,
   regs  |-> IF "written" \in ports THEN NothingKnown ELSE x.regs,
   hi    |-> IF "latches" \in ports THEN Unknown ELSE x.hi,
   lo    |-> IF "latches" \in ports THEN Unknown ELSE x.lo,
   nvram |-> IF "nvram" \in ports THEN NoNvram ELSE x.nvram]

------------------------------------------------------------------------------
(* The program, between `cont' and the breakpoint or Ctrl-C that stops it. *)

Run ==
  /\ at = "prompt"
  /\ at' = "run"
  /\ UNCHANGED <<scene, nb, cpu, dot, m, got, expect>>

Stop ==
  /\ at = "run"
  /\ at' = "prompt"
  /\ UNCHANGED <<scene, nb, cpu, dot, m, got, expect>>

ProgStore ==
  /\ at = "run"
  /\ \E st \in S.stores :
       /\ nb' \in BoardWrite(nb, st.a, st.v)
       /\ expect' = Expected(expect, st)
  /\ UNCHANGED <<scene, at, cpu, dot, m, got>>

ProgLoad ==
  /\ at = "run"
  /\ \E a \in S.loads, v \in Junk :
       /\ nb' = BoardRead(nb, a, v)
       /\ \E w \in Answers(nb, a, v) : got' = [port |-> Ports[a], v |-> w]
       /\ expect' = Touched(expect, {Ports[a]} \cap {"index"})
  /\ UNCHANGED <<scene, at, cpu, dot, m>>

------------------------------------------------------------------------------
(* md and mm.  The arguments of MEM_cmd: one or two addresses.  The option *)
(* of the access size is forgotten before it is written to dot_cmd.        *)

Paragraph(a) == a - (a % LINE)

Arguments(args, size) ==
  LET start == args[1]
      end == IF Len(args) = 1 THEN Low(start + BLOCK - size) ELSE args[2]
  IN  IF start = end
        THEN [start |-> Paragraph(start), end |-> Paragraph(start) + LINE - size]
        ELSE [start |-> start, end |-> end]

DotAfter(cmd, r, size) ==
  [cmd |-> cmd, start |-> Low(r.end + size),
   end |-> Low(2 * r.end - r.start + 4 + (IF size = ACCESS_B THEN -3
                                          ELSE IF size = ACCESS_H THEN -2 ELSE 0))]

\* end &= ~size
Without(end, size) == IF (end \div size) % 2 = 1 THEN end - size ELSE end

\* The locals with which MDEngine enters its loop.
Displayed(r, size) ==
  LET addr == Paragraph(r.start)
      end0 == Without(r.end, size)
      end  == IF addr = end0 THEN addr + LINE - 1 ELSE end0
  IN  [addr |-> addr, start |-> addr, end |-> end, size |-> size, dir |-> 1,
       linecnt |-> 0, linesize |-> IF Low(end - addr) > THRESHOLD THEN PAGE ELSE 0]

Modified(r, size) ==
  [addr |-> r.start, start |-> r.start, end |-> r.end, size |-> size, dir |-> 1,
   linecnt |-> 0, linesize |-> 0]

MemCmd(cmd, args, size) ==
  LET r == Arguments(args, size)
  IN  /\ at' = cmd
      /\ m' = IF cmd = "md" THEN Displayed(r, size) ELSE Modified(r, size)
      /\ dot' = DotAfter(cmd, r, size)
      /\ UNCHANGED <<scene, nb, cpu, got, expect>>

Md == at = "prompt" /\ \E c \in S.ranges : MemCmd("md", c[1], c[2])
Mm == at = "prompt" /\ \E c \in S.ranges : MemCmd("mm", c[1], c[2])

\* `.' after one of them: the next addresses, as words.
Dot ==
  /\ at = "prompt"
  /\ S.dots /\ dot.cmd # None
  /\ MemCmd(dot.cmd, <<dot.start, dot.end>>, ACCESS_W)

\* The pieces of one line that are read.
Pieces == {a \in {m.addr + o : o \in 0 .. LINE - 1} : a % m.size = 0 /\ a <= m.end}

Forward(dir) == Low(m.addr + LINE * dir)

Done == at' = "prompt" /\ m' = Idle

\* A mutation: the end is compared for equality.
GoOn_exact(dir, n) ==
  \/ Forward(dir) = m.end /\ Done
  \/ /\ Forward(dir) # m.end
     /\ at' = "md"
     /\ m' = [m EXCEPT !.addr = Forward(dir), !.dir = dir, !.linecnt = n]

GoOn(dir, n) ==
  \/ Forward(dir) > m.end /\ Done
  \/ /\ Forward(dir) <= m.end
     /\ at' = "md"
     /\ m' = [m EXCEPT !.addr = Forward(dir), !.dir = dir, !.linecnt = n]

\* Every linesize + 1 lines the display stops for the user.
MdLine ==
  /\ at = "md"
  /\ LET read == {a \in Pieces : Ports[a] = "index"}
     IN  /\ nb' \in IF read = {} THEN {nb} ELSE {BoardRead(nb, Max(read), v) : v \in Junk}
         /\ expect' = Touched(expect, {Ports[a] : a \in read})
  /\ \/ m.linesize = 0 /\ GoOn(m.dir, 0)
     \/ m.linecnt < m.linesize /\ GoOn(m.dir, m.linecnt + 1)
     \/ /\ m.linesize # 0 /\ m.linecnt = m.linesize
        /\ \/ Forward(m.dir) > m.end /\ Done
           \/ Forward(m.dir) <= m.end /\ at' = "page" /\ m' = [m EXCEPT !.linecnt = 0]
  /\ UNCHANGED <<scene, cpu, dot, got>>

\* At the end of a page: go on, in either direction, or leave.
MdPage ==
  /\ at = "page"
  /\ \/ \E dir \in {m.dir, 1, -1} : GoOn(dir, 0)
     \/ Done
  /\ UNCHANGED <<scene, nb, cpu, dot, got, expect>>

(* mm reads an address, asks, may write a value or the bytes of a string,  *)
(* and goes on to the next until the user leaves.                          *)
ReadOne ==
  /\ nb' \in {BoardRead(nb, m.addr, v) : v \in Junk}
  /\ expect' = Touched(expect, {Ports[m.addr]} \cap {"index"})

NextAddr(a) ==
  CASE m.start = m.end -> Low(a + m.size)
    [] m.start # m.end /\ Low(a + m.size) > m.end -> m.start
    [] m.start # m.end /\ Low(a + m.size) <= m.end ->
         IF Low(a + m.size) < m.start THEN m.end ELSE Low(a + m.size)

MmShow ==
  /\ at = "mm"
  /\ ReadOne
  /\ at' = "mm?"
  /\ UNCHANGED <<scene, cpu, dot, m, got>>

\* The kinds of things a write of the user may take from the program.
Takes(port) ==
  CASE port = "index" -> {"index"}
    [] port = "data"  -> {"written"}
    [] port \in {"nv_hi", "nv_lo"} -> {"latches"}
    [] port = "nv_data" -> {"nvram", "latches", "index", "written"}
    [] OTHER -> {}

Typed == {w[2] : w \in {x \in S.modifies : x[1] = m.addr}}

\* Byte after byte, to addresses that follow.
WrittenString(cs) ==
  FoldLeft(LAMBDA bs, i : UNION {BoardWrite(b, Low(m.addr + i - 1), cs[i]) : b \in bs},
           {nb}, [i \in 1 .. Len(cs) |-> i])

Onward(n) == at' = "mm" /\ m' = [m EXCEPT !.addr = NextAddr(Low(@ + n))]

MmAnswer ==
  /\ at = "mm?"
  /\ \/ Onward(0) /\ UNCHANGED <<nb, expect>>
     \/ /\ \E v \in Typed : nb' \in BoardWrite(nb, m.addr, v)
        /\ expect' = Touched(expect, Takes(Ports[m.addr]))
        /\ Onward(0)
     \/ \E cs \in S.strings :
          /\ nb' \in WrittenString(cs)
          /\ expect' = Touched(expect, UNION {Takes(Ports[Low(m.addr + i - 1)]) : i \in DOMAIN cs})
          /\ Onward(Len(cs) - 1)
     \/ Done /\ UNCHANGED <<nb, expect>>
  /\ UNCHANGED <<scene, cpu, dot, got>>

(* mm a=v writes a word, and takes the value for the end of the range when *)
(* it leaves its dot_cmd, which will take it for the start.                *)
MmWrite ==
  /\ at = "prompt"
  /\ \E w \in S.modifies :
       LET r == Arguments(<<w[1]>>, ACCESS_W)
       IN  /\ nb' \in BoardWrite(nb, r.start, w[2])
           /\ expect' = Touched(expect, Takes(Ports[r.start]))
           /\ dot' = [cmd |-> "mm", start |-> w[2], end |-> Low(w[2] + ACCESS_W)]
  /\ UNCHANGED <<scene, at, cpu, m, got>>

------------------------------------------------------------------------------
(* nb, cpu and reset.                                                      *)

NbCmd ==
  /\ at = "prompt"
  /\ \E c \in S.nb :
       /\ nb' = CASE c = "-p" -> NB_ENV_preset(nb)
                  [] c = "-r" -> NB_reset(nb)
                  [] OTHER    -> NB_set(nb, c)
       /\ expect' = Touched(expect, CASE c = "-p" -> {"nvram"}
                                      [] c = "-r" -> {"latches"}
                                      [] OTHER    -> {"latches", "written"})
  /\ UNCHANGED <<scene, at, cpu, dot, m, got>>

CpuCmd ==
  /\ at = "prompt"
  /\ \E c \in S.cpu : cpu' \in CPU_cmd(cpu, c[1], c[2], c[3])
  /\ UNCHANGED <<scene, at, nb, dot, m, got, expect>>

Reset ==
  /\ at = "prompt"
  /\ S.resets
  /\ cpu' = Restarted(cpu)
  /\ nb' = NB_ENV_preset(NB_reset(nb))
  /\ dot' = NoDot
  /\ expect' = Touched(expect, {"latches", "nvram"})
  /\ UNCHANGED <<scene, at, m, got>>

\* The start, with the options -c and -d.
Init ==
  /\ scene \in DOMAIN Scenes
  /\ at = "prompt"
  /\ nb \in {NB_init, NB_ENV_preset(NB_init)}
  /\ cpu \in {[PowerOn EXCEPT !.CPU_override = o] : o \in S.overrides}
  /\ dot = NoDot
  /\ m = Idle
  /\ got = [port |-> None, v |-> 0]
  /\ expect = Expected0

Command == Run \/ Md \/ Mm \/ Dot \/ MmWrite \/ NbCmd \/ CpuCmd \/ Reset

Next == Command \/ Stop \/ ProgStore \/ ProgLoad \/ MdLine \/ MdPage \/ MmShow \/ MmAnswer

Spec == Init /\ [][Next]_vars

\* The simulator goes on with a display that does not wait for the user.
FairSpec == Spec /\ WF_vars(MdLine)

------------------------------------------------------------------------------
(* A load from the data port gives what the program stored last in the     *)
(* register it selected, byte by byte where the register has lanes,        *)
(* whatever else it and the user did in between: stopping it between index *)
(* and data, `reset', `nb -r', displays of other addresses.                *)
Selectable(x) == Known(x) /\ Index(x) # 0 /\ Index(x) # PICR1

ReadsWhatWasWritten ==
  [][\A k \in 0 .. 3 :
       got'.port = "data" /\ got' # got /\ Selectable(expect) /\ expect.regs[Reg(expect)][k] # Unknown
         => ByteOf(got'.v, k) = expect.regs[Reg(expect)][k]]_vars

(* A byte stored behind two latches comes back from behind them, as long   *)
(* as nobody else moved them or presets the NVRAM.                         *)
NvramReadsBack ==
  [][got'.port = "nv_data" /\ got' # got /\ LatchesKnown(expect) /\ NvIndex(expect) \in NVRAM
       /\ expect.nvram[NvIndex(expect)] # Unknown
         => got'.v = expect.nvram[NvIndex(expect)]]_vars

(* The processor `status' names is the one that is simulated: its device   *)
(* and version register belong to the name, whatever was asked of `cpu',   *)
(* refused, or undone by `reset'.                                          *)
NamedIsSimulated ==
  cpu.CPU_name # "" =>
    \E i \in DOMAIN cpu_list :
      /\ cpu_list[i].name = cpu.CPU_name
      /\ cpu_list[i].device = cpu.process_type
      /\ cpu_list[i].PVR = cpu.PVR

(* A display comes to its end or to the end of a page, if it does not      *)
(* reach into the last line of the address space, behind which it would    *)
(* start again.                                                            *)
DisplayEnds == (at = "md" /\ m.end + LINE \in Addr) ~> at # "md"
=============================================================================
