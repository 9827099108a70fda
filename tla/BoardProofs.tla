----------------------------- MODULE BoardProofs -----------------------------
(***************************************************************************)
(* What Board promises of the choice of a processor, of the NVRAM and of   *)
(* the configuration registers, for every table of models, every scene and *)
(* every bridge.  Of the steps of the board only `cpu' and `reset' touch   *)
(* the choice; of the NVRAM and the registers the proofs follow what each  *)
(* access leaves alone, and what the program may expect after it.          *)
(***************************************************************************)
EXTENDS Board, ScanProofs, SequenceTheorems, TLAPS

\* The invariant as a predicate on a choice, and the fields it is about.
Simulated(c) ==
  c.CPU_name # "" =>
    \E i \in DOMAIN cpu_list :
      /\ cpu_list[i].name = c.CPU_name
      /\ cpu_list[i].device = c.process_type
      /\ cpu_list[i].PVR = c.PVR

Kept == {"process_type", "CPU_name", "CPU_override", "CPU_pll", "PVR"}

Sound(c) == Kept \subseteq DOMAIN c /\ Simulated(c)

\* CPU_reset leaves the name and the device, and the version register is
\* the one of the model with that device.
LEMMA CpuReset ==
  ASSUME NEW c, Kept \subseteq DOMAIN c, NEW d \in CPU_reset(c),
         NEW i \in DOMAIN cpu_list, cpu_list[i].device = c.process_type
  PROVE  /\ d.PVR = cpu_list[i].PVR
         /\ d.CPU_name = c.CPU_name
         /\ d.process_type = c.process_type
         /\ DOMAIN d = DOMAIN c
<1> DEFINE is == Device(c.process_type)
           k == CHOOSE n \in is : TRUE
<1>1. i \in is
  BY DEF Device
<1>2. k \in is
  BY <1>1
<1>3. k = i
  BY <1>1, <1>2, CpuAssumption DEF Device
<1>4. PICK f \in PllField(c) :
        d = [c EXCEPT !.PVR = cpu_list[k].PVR,
                      !.HID1 = IF c.CPU_pll = 0 THEN cpu_list[k].HID1
                               ELSE OrW(cpu_list[k].HID1, f)]
  <2>1. is # {}
    BY <1>1
  <2> QED
    BY <2>1 DEF CPU_reset
<1> HIDE DEF k
<1> QED
  BY <1>3, <1>4 DEF Kept

\* A model that is chosen is the one that is simulated; an unknown name
\* leaves the choice as it was.
LEMMA CpuSet ==
  ASSUME NEW c, Sound(c), NEW name, NEW pll, NEW d \in CPU_set(c, name, pll)
  PROVE  Sound(d)
<1>1. CASE Named(name) = {}
  BY <1>1 DEF CPU_set
<1>2. CASE Named(name) # {}
  <2> DEFINE k == CHOOSE n \in Named(name) : TRUE
             e == Chosen(c, cpu_list[k], pll)
  <2>1. k \in DOMAIN cpu_list
    BY <1>2 DEF Named
  <2>2. /\ Kept \subseteq DOMAIN e
        /\ e.CPU_name = cpu_list[k].name
        /\ e.process_type = cpu_list[k].device
    BY DEF Chosen, Kept, Sound
  <2>3. d \in CPU_reset(e)
    BY <1>2 DEF CPU_set
  <2> HIDE DEF k, e
  <2>4. /\ d.PVR = cpu_list[k].PVR
        /\ d.CPU_name = e.CPU_name
        /\ d.process_type = e.process_type
        /\ DOMAIN d = DOMAIN e
    BY <2>1, <2>2, <2>3, CpuReset
  <2> QED
    BY <2>1, <2>2, <2>4 DEF Sound, Simulated
<1> QED
  BY <1>1, <1>2

\* The command, with all its options.
LEMMA CpuCommand ==
  ASSUME NEW c, Sound(c), NEW opts, NEW n, NEW name,
         NEW d \in CPU_cmd(c, opts, n, name)
  PROVE  Sound(d)
<1> DEFINE e == IF "p" \in opts THEN [c EXCEPT !.CPU_pll = n] ELSE c
           to == IF "s" \in opts THEN name ELSE e.CPU_name
<1>1. Sound(e) /\ e.CPU_name = c.CPU_name
  BY DEF Sound, Simulated, Kept
<1>2. d = e \/ d \in CPU_set(e, to, e.CPU_pll)
  BY DEF CPU_cmd
<1> HIDE DEF e, to
<1> QED
  BY <1>1, <1>2, CpuSet

\* The start, and `reset', leave no name.
LEMMA Unnamed ==
  ASSUME NEW c, Kept \subseteq DOMAIN c
  PROVE  Sound(Initial(c)) /\ Initial(c).CPU_name = ""
BY DEF Initial, Sound, Simulated, Kept

(* The processor the name in `status' stands for is the one simulated, in  *)
(* every reachable state: NamedIsSimulated needs no more than the shape of *)
(* the choice to be inductive.                                             *)
THEOREM NamedTheorem == Spec => []NamedIsSimulated
<1>1. Init => Sound(cpu)
  <2> SUFFICES ASSUME Init PROVE Sound(cpu)
    OBVIOUS
  <2> DEFINE c == [process_type |-> MPC603, CPU_name |-> "", CPU_override |-> "", CPU_pll |-> 0,
                   CPU_pll_bits |-> 0, CPU_pll_msb |-> 0, PVR |-> 0, HID1 |-> 0]
  <2>1. Sound(Initial(c)) /\ Initial(c).CPU_name = ""
    <3>1. Kept \subseteq DOMAIN c
      BY DEF Kept
    <3> HIDE DEF c
    <3> QED
      BY <3>1, Unnamed
  <2>2. PICK o \in S.overrides : cpu = [PowerOn EXCEPT !.CPU_override = o]
    BY DEF Init
  <2>3. PowerOn = Initial(c)
    BY DEF PowerOn
  <2> HIDE DEF c
  <2>4. cpu = [Initial(c) EXCEPT !.CPU_override = o]
    BY <2>2, <2>3
  <2> QED
    BY <2>1, <2>4 DEF Sound, Simulated, Kept
<1>2. Sound(cpu) /\ [Next]_vars => Sound(cpu)'
  <2> SUFFICES ASSUME Sound(cpu), [Next]_vars PROVE Sound(cpu')
    BY DEF Sound, Simulated
  <2>1. CASE cpu' = cpu
    BY <2>1
  <2>2. CASE CpuCmd
    BY <2>2, CpuCommand DEF CpuCmd
  <2>3. CASE Reset
    BY <2>3, Unnamed DEF Reset, Restarted, Sound
  <2>4. CASE Run \/ Stop \/ ProgStore \/ ProgLoad \/ NbCmd \/ MmWrite
    BY <2>1, <2>4 DEF Run, Stop, ProgStore, ProgLoad, NbCmd, MmWrite
  <2>5. CASE Md \/ Mm \/ Dot
    BY <2>1, <2>5 DEF Md, Mm, Dot, MemCmd
  <2>6. CASE MdLine \/ MdPage \/ MmShow \/ MmAnswer
    BY <2>1, <2>6 DEF MdLine, MdPage, MmShow, MmAnswer
  <2>7. CASE UNCHANGED vars
    BY <2>1, <2>7 DEF vars
  <2> QED
    BY <2>2, <2>3, <2>4, <2>5, <2>6, <2>7 DEF Next, Command
<1>3. Sound(cpu) => NamedIsSimulated
  BY DEF Sound, Simulated, NamedIsSimulated
<1> QED
  BY <1>1, <1>2, <1>3, PTL DEF Spec

------------------------------------------------------------------------------
(* The configuration registers, for bytes of eight bits.                   *)

\* The powers of two that words of four bytes are made with.
LEMMA Powers ==
  ASSUME BYTE = 8
  PROVE  /\ 2 ^ BYTE = 256 /\ 2 ^ (2 * BYTE) = 65536 /\ 2 ^ (3 * BYTE) = 16777216
         /\ 2 ^ (BYTE * (3 - 0)) = 16777216 /\ 2 ^ (BYTE * (3 - 1)) = 65536
         /\ 2 ^ (BYTE * (3 - 2)) = 256 /\ 2 ^ (BYTE * (3 - 3)) = 1
         /\ 2 ^ WBITS = 4294967296
<1>1. /\ BYTE * (3 - 0) = 24 /\ BYTE * (3 - 1) = 16 /\ BYTE * (3 - 2) = 8 /\ BYTE * (3 - 3) = 0
      /\ 2 * BYTE = 16 /\ 3 * BYTE = 24 /\ WBITS = 32
  BY SMT DEF WBITS
<1>2. 2 ^ 8 = 256 /\ 2 ^ 16 = 65536 /\ 2 ^ 24 = 16777216 /\ 2 ^ 32 = 4294967296 /\ 2 ^ 0 = 1
  BY SMT
<1> QED
  BY <1>1, <1>2, SMT

\* A byte of a number is a byte.
LEMMA ByteFacts ==
  ASSUME BYTE = 8, NEW x \in Int, NEW k \in 0 .. 3
  PROVE  ByteOf(x, k) \in Byte
<1>1. /\ ByteOf(x, 0) = (x \div 16777216) % 256 /\ ByteOf(x, 1) = (x \div 65536) % 256
      /\ ByteOf(x, 2) = (x \div 256) % 256
  BY Powers, SMT DEF ByteOf
<1>2. ByteOf(x, 3) = (x \div 1) % 256
  BY Powers, SMT DEF ByteOf
<1>3. k = 0 \/ k = 1 \/ k = 2 \/ k = 3
  BY SMT
<1>4. Byte = 0 .. 255
  BY Powers, SMT DEF Byte
<1>5. ByteOf(x, k) \in 0 .. 255
  BY <1>1, <1>2, <1>3, SMT
<1> QED
  BY <1>4, <1>5

\* Four digits, and the number they make.
LEMMA Digits ==
  ASSUME BYTE = 8, NEW b,
         NEW a0 \in Int, NEW a1 \in Int, NEW a2 \in Int, NEW a3 \in Int,
         0 <= a0, a0 < 256, 0 <= a1, a1 < 256, 0 <= a2, a2 < 256, 0 <= a3, a3 < 256,
         b[0] = a0, b[1] = a1, b[2] = a2, b[3] = a3
  PROVE  /\ OfBytes(b) \in Word
         /\ ByteOf(OfBytes(b), 0) = a0 /\ ByteOf(OfBytes(b), 1) = a1
         /\ ByteOf(OfBytes(b), 2) = a2 /\ ByteOf(OfBytes(b), 3) = a3
<1> DEFINE x == a0 * 16777216 + a1 * 65536 + a2 * 256 + a3
<1>1. x \in Int /\ 0 <= x /\ x <= 4294967296 - 1
  BY SMT
<1>2. /\ x \div 16777216 = a0 /\ x \div 65536 = a0 * 256 + a1
      /\ x \div 256 = (a0 * 256 + a1) * 256 + a2 /\ x % 256 = a3
  BY SMT
<1>3. a0 % 256 = a0 /\ (a0 * 256 + a1) % 256 = a1 /\ ((a0 * 256 + a1) * 256 + a2) % 256 = a2
  BY SMT
<1>4. OfBytes(b) = x
  BY Powers, SMT DEF OfBytes
<1> HIDE DEF x
<1>5. x \in Word
  BY <1>1, Powers, SMT DEF Word
<1>6. /\ ByteOf(x, 0) = (x \div 16777216) % 256 /\ ByteOf(x, 1) = (x \div 65536) % 256
      /\ ByteOf(x, 2) = (x \div 256) % 256
  BY Powers, SMT DEF ByteOf
<1>7. ByteOf(x, 3) = x % 256
  <2>1. ByteOf(x, 3) = (x \div 1) % 256
    BY Powers, SMT DEF ByteOf
  <2>2. x \div 1 = x
    BY <1>1, SMT
  <2> QED
    BY <2>1, <2>2, SMT
<1> QED
  BY <1>2, <1>3, <1>4, <1>5, <1>6, <1>7, SMT

\* A word is its four bytes, and nothing else.
LEMMA OfBytesFacts ==
  ASSUME BYTE = 8, NEW b, \A k \in 0 .. 3 : b[k] \in Byte
  PROVE  OfBytes(b) \in Word /\ \A k \in 0 .. 3 : ByteOf(OfBytes(b), k) = b[k]
<1>1. \A k \in 0 .. 3 : b[k] \in Int /\ 0 <= b[k] /\ b[k] < 256
  BY Powers, SMT DEF Byte
<1>2. /\ b[0] \in Int /\ 0 <= b[0] /\ b[0] < 256
      /\ b[1] \in Int /\ 0 <= b[1] /\ b[1] < 256
      /\ b[2] \in Int /\ 0 <= b[2] /\ b[2] < 256
      /\ b[3] \in Int /\ 0 <= b[3] /\ b[3] < 256
  BY <1>1, SMT
<1> HIDE DEF OfBytes
<1>3. /\ OfBytes(b) \in Word
      /\ ByteOf(OfBytes(b), 0) = b[0] /\ ByteOf(OfBytes(b), 1) = b[1]
      /\ ByteOf(OfBytes(b), 2) = b[2] /\ ByteOf(OfBytes(b), 3) = b[3]
  BY <1>2, Digits, Zenon
<1>4. \A k \in 0 .. 3 : k = 0 \/ k = 1 \/ k = 2 \/ k = 3
  BY SMT
<1> QED
  BY <1>3, <1>4, SMT

\* Swapping turns the bytes of a word round.
LEMMA SwapFacts ==
  ASSUME BYTE = 8, NEW x \in Int
  PROVE  /\ pSwap4Bytes(x) \in Word
         /\ \A k \in 0 .. 3 : ByteOf(pSwap4Bytes(x), k) = ByteOf(x, 3 - k)
<1> DEFINE b == [k \in 0 .. 3 |-> ByteOf(x, 3 - k)]
<1>1. \A k \in 0 .. 3 : 3 - k \in 0 .. 3
  OBVIOUS
<1>2. \A k \in 0 .. 3 : b[k] = ByteOf(x, 3 - k) /\ ByteOf(x, 3 - k) \in Byte
  BY <1>1, ByteFacts
<1>3. pSwap4Bytes(x) = OfBytes(b)
  BY DEF pSwap4Bytes
<1> HIDE DEF b
<1>4. OfBytes(b) \in Word /\ \A k \in 0 .. 3 : ByteOf(OfBytes(b), k) = b[k]
  BY <1>2, OfBytesFacts, SMT
<1> QED
  BY <1>2, <1>3, <1>4, SMT

\* What SetByte makes of a register: its bytes, but for one.
WithByte(reg, n, wd) ==
  [i \in 0 .. 3 |-> IF i = 3 - n THEN ByteOf(wd, 0) ELSE ByteOf(reg, i)]

\* Writing one lane of a register leaves its other lanes.
LEMMA SetByteFacts ==
  ASSUME BYTE = 8, NEW reg \in Int, NEW wd \in Int, NEW n
  PROVE  /\ SetByte(reg, n, wd) \in Word
         /\ \A k \in 0 .. 3 : ByteOf(SetByte(reg, n, wd), k) = WithByte(reg, n, wd)[k]
<1>1. \A i \in 0 .. 3 : ByteOf(reg, i) \in Byte /\ ByteOf(wd, 0) \in Byte
  <2>1. 0 \in 0 .. 3
    OBVIOUS
  <2> QED
    BY <2>1, ByteFacts
<1>2. \A i \in 0 .. 3 : WithByte(reg, n, wd)[i] \in Byte
  BY <1>1, SMT DEF WithByte
<1>3. SetByte(reg, n, wd) = OfBytes(WithByte(reg, n, wd))
  BY DEF SetByte, WithByte
<1> QED
  BY <1>2, <1>3, OfBytesFacts, Zenon

\* Words and bytes are integers.
LEMMA WordIsInt ==
  /\ \A x \in Word : x \in Int
  /\ \A x \in Byte : x \in Int
<1>1. WBITS \in Nat /\ BYTE \in Nat
  BY ByteAssumption DEF WBITS
<1>2. 2 ^ WBITS \in Int /\ 2 ^ BYTE \in Int
  BY <1>1, SMT
<1> QED
  BY <1>2, SMT DEF Word, Byte

------------------------------------------------------------------------------
(* What the program may expect.  Nobody takes more from it than `expect'   *)
(* gives up: the parts of the bridge an access leaves alone.               *)

Shape(b) ==
  /\ {"placed", "a", "regs", "nvram", "nv_addr_hi", "nv_addr_lo", "rtc_addr", "gpio", "id"}
       \subseteq DOMAIN b
  /\ DOMAIN b.nvram = NVRAM /\ DOMAIN b.regs = RegAddrs
  /\ BYTE = 8 => \A r \in RegAddrs : b.regs[r] \in Int

\* A number stored in a register leaves numbers there.
LEMMA StoredNumbers ==
  ASSUME NEW b, Shape(b), BYTE = 8, NEW lsb, NEW wd \in Int, NEW r \in RegAddrs
  PROVE  CfgStored(b, lsb, wd)[r] \in Int
<1>1. b.regs[r] \in Int
  BY DEF Shape
<1>2. SetByte(b.regs[r], lsb, wd) \in Int
  BY <1>1, SetByteFacts, WordIsInt, Zenon
<1> QED
  BY <1>1, <1>2, SMT DEF CfgStored, Shape

ExpectShape(x) ==
  /\ {"touched", "a", "regs", "hi", "lo", "nvram"} \subseteq DOMAIN x
  /\ DOMAIN x.nvram = NVRAM /\ DOMAIN x.regs = RegAddrs
  /\ \A r \in RegAddrs : DOMAIN x.regs[r] = 0 .. 3

\* From b to d only what these ports hold may have changed.
LeftAlone(b, d, ports) ==
  /\ b.placed => d.placed
  /\ "index" \notin ports => d.a = b.a
  /\ "written" \notin ports => d.regs = b.regs
  /\ "latches" \notin ports => d.nv_addr_hi = b.nv_addr_hi /\ d.nv_addr_lo = b.nv_addr_lo
  /\ "nvram" \notin ports => d.nvram = b.nvram

\* A byte written past the NVRAM leaves the bridge a bridge, where it was.
LEMMA OverwrittenShape ==
  ASSUME NEW b, Shape(b), NEW vb, BYTE = 8 => vb \in Int
  PROVE  LET d == Overwritten(b, vb) IN Shape(d) /\ (b.placed => d.placed)
<1> DEFINE p == Behind[nva(b)]
           hit(word) == SetByte(word, p.k, vb * 2 ^ (3 * BYTE))
           d == Overwritten(b, vb)
<1>1. \/ d = b \/ d = [b EXCEPT !.nv_addr_hi = vb] \/ d = [b EXCEPT !.nv_addr_lo = vb]
      \/ d = [b EXCEPT !.rtc_addr = vb] \/ d = [b EXCEPT !.gpio[p.i % 2] = vb]
      \/ d = [b EXCEPT !.a = hit(@)] \/ d = [b EXCEPT !.regs[p.i] = hit(@)]
  BY Zenon DEF Overwritten
<1>2. BYTE = 8 => \A w \in Int : hit(w) \in Int
  <2> SUFFICES ASSUME BYTE = 8, NEW w \in Int PROVE hit(w) \in Int
    OBVIOUS
  <2>1. vb * 2 ^ (3 * BYTE) \in Int
    BY Powers, SMT
  <2> QED
    BY <2>1, SetByteFacts, WordIsInt, Zenon
<1> HIDE DEF p, hit, d
<1>3. Shape(d) /\ (b.placed => d.placed)
  <2>1. CASE d = b
    BY <2>1
  <2>2. CASE d = [b EXCEPT !.regs[p.i] = hit(@)]
    BY <1>2, <2>2 DEF Shape
  <2>3. CASE \/ d = [b EXCEPT !.nv_addr_hi = vb] \/ d = [b EXCEPT !.nv_addr_lo = vb]
             \/ d = [b EXCEPT !.rtc_addr = vb] \/ d = [b EXCEPT !.gpio[p.i % 2] = vb]
             \/ d = [b EXCEPT !.a = hit(@)]
    BY <2>3 DEF Shape
  <2> QED
    BY <1>1, <2>1, <2>2, <2>3
<1> QED
  BY <1>3 DEF d

\* A write leaves what it does not take: the bridge decodes one port at a time.
LEMMA WriteLeaves ==
  ASSUME NEW b, Shape(b), NEW a, NEW v \in Int, NEW d \in BoardWrite(b, a, v)
  PROVE  Shape(d) /\ LeftAlone(b, d, Takes(Ports[a]))
<1> DEFINE port == Ports[a]
           vb == v % 2 ^ BYTE
<1>0. BYTE = 8 => vb \in Int
  BY Powers, SMT
<1>1. CASE port \notin IOPorts
  <2>1. d = NB_cfg(b, port, a % 4, v, TRUE)
    BY <1>1 DEF BoardWrite
  <2>2. CASE d = b
    BY <2>2 DEF LeftAlone
  <2>3. CASE port = "index" /\ d = [b EXCEPT !.a = pSwap4Bytes(v)]
    <3>1. "index" \in Takes(port)
      BY <2>3 DEF Takes
    <3> QED
      BY <2>3, <3>1 DEF LeftAlone, Shape
  <2>4. CASE port = "data" /\ d = [b EXCEPT !.regs = CfgStored(b, a % 4, pSwap4Bytes(v))]
    <3>1. "written" \in Takes(port)
      BY <2>4 DEF Takes
    <3> DEFINE regs == CfgStored(b, a % 4, pSwap4Bytes(v))
    <3>2. DOMAIN regs = RegAddrs
      BY DEF CfgStored, Shape
    <3>3. BYTE = 8 => pSwap4Bytes(v) \in Int
      BY SwapFacts, WordIsInt, Zenon
    <3>4. BYTE = 8 => \A r \in RegAddrs : regs[r] \in Int
      BY <3>3, StoredNumbers, Zenon
    <3> HIDE DEF regs
    <3>5. d = [b EXCEPT !.regs = regs]
      BY <2>4 DEF regs
    <3> QED
      BY <3>1, <3>2, <3>4, <3>5 DEF LeftAlone, Shape
  <2> QED
    BY <2>1, <2>2, <2>3, <2>4 DEF NB_cfg
<1>2. CASE port \in IOPorts
  <2>1. d \in NB_io(b, port, vb)
    BY <1>2 DEF BoardWrite
  <2> HIDE DEF vb
  <2>2. CASE d = b
    BY <2>2 DEF LeftAlone
  <2>3. CASE port = "nv_hi"
    <3>1. d = [b EXCEPT !.nv_addr_hi = vb] /\ "latches" \in Takes(port)
      BY <2>1, <2>3 DEF NB_io, Takes
    <3> QED
      BY <3>1 DEF LeftAlone, Shape
  <2>4. CASE port = "nv_lo"
    <3>1. d = [b EXCEPT !.nv_addr_lo = vb] /\ "latches" \in Takes(port)
      BY <2>1, <2>4 DEF NB_io, Takes
    <3> QED
      BY <3>1 DEF LeftAlone, Shape
  <2>5. CASE port = "nv_data"
    <3>1. d \in NvWritten(b, vb) /\ Takes(port) = {"nvram", "latches", "index", "written"}
      BY <2>1, <2>5 DEF NB_io, Takes
    <3>2. BYTE = 8 => vb \in Int
      BY <1>0
    <3>3. CASE d = [b EXCEPT !.nvram[nva(b)] = vb]
      BY <3>1, <3>3 DEF LeftAlone, Shape
    <3>4. CASE d = Overwritten(b, vb)
      BY <3>1, <3>2, <3>4, OverwrittenShape DEF LeftAlone
    <3> QED
      BY <3>1, <3>3, <3>4 DEF NvWritten
  <2>6. CASE port = "rtc_addr"
    <3>1. d = [b EXCEPT !.rtc_addr = vb]
      BY <2>1, <2>6 DEF NB_io
    <3> QED
      BY <3>1 DEF LeftAlone, Shape
  <2>7. CASE port \in {"gpio_out", "gpio_dir"}
    <3>1. d = [b EXCEPT !.gpio[Pin(port)] = Looped(vb)]
      BY <2>1, <2>7 DEF NB_io
    <3> QED
      BY <3>1 DEF LeftAlone, Shape
  <2>8. CASE port \in {"rtc_data", "pic", "port80", "unknown"}
    BY <2>1, <2>2, <2>8 DEF NB_io
  <2> QED
    BY <1>2, <2>3, <2>4, <2>5, <2>6, <2>7, <2>8 DEF IOPorts
<1> QED
  BY <1>1, <1>2

\* A read leaves the bridge as it was, save for an index that moves on.
LEMMA ReadLeaves ==
  ASSUME NEW b, Shape(b), NEW a, NEW v
  PROVE  /\ Shape(BoardRead(b, a, v))
         /\ LeftAlone(b, BoardRead(b, a, v), {Ports[a]} \cap {"index"})
<1> DEFINE d == BoardRead(b, a, v)
           left == {Ports[a]} \cap {"index"}
<1>1. d = b \/ (Ports[a] = "index" /\ d = [b EXCEPT !.a = pSwap4Bytes(v)])
  BY DEF BoardRead, NB_cfg
<1> HIDE DEF d
<1>2. d = b => Shape(d) /\ LeftAlone(b, d, left)
  BY DEF LeftAlone
<1>3. Ports[a] = "index" /\ d = [b EXCEPT !.a = pSwap4Bytes(v)] => Shape(d) /\ LeftAlone(b, d, left)
  BY DEF LeftAlone, Shape
<1> QED
  BY <1>1, <1>2, <1>3 DEF d

\* What several accesses leave alone.
LEMMA LeftAloneAgain ==
  ASSUME NEW b, NEW c, NEW d, NEW p, NEW q, LeftAlone(b, c, p), LeftAlone(c, d, q)
  PROVE  LeftAlone(b, d, p \cup q)
  BY DEF LeftAlone

\* Byte i of a string, in one of the states the bridge may be in.
WriteByte(bs, i, cs) == UNION {BoardWrite(b, Low(m.addr + i - 1), cs[i]) : b \in bs}

\* The states the bridge may be in after each byte.
LEMMA StringTrace ==
  ASSUME NEW cs, Len(cs) \in Nat
  PROVE  \E h : /\ h[0] = {nb}
                /\ \A k \in 0 .. Len(cs) - 1 : h[k + 1] = WriteByte(h[k], k + 1, cs)
                /\ h[Len(cs)] = WrittenString(cs)
<1> DEFINE n == Len(cs)
           is == [i \in 1 .. n |-> i]
           G == CHOOSE iter : iter =
                  [s \in SUBSET DOMAIN is |->
                     IF s = {} THEN {nb}
                     ELSE UNION {BoardWrite(b, Low(m.addr + is[Max(s)] - 1), cs[is[Max(s)]])
                                   : b \in iter[s \ {Max(s)}]}]
           Folds(j, f) ==
             \A s \in SUBSET (1 .. j) :
               f[s] = IF s = {} THEN {nb} ELSE WriteByte(f[s \ {Greatest(s)}], Greatest(s), cs)
           K == {j \in 0 .. n : \E f : Folds(j, f)}
<1>1. WrittenString(cs) = G[DOMAIN is]
  BY Zenon DEF WrittenString, FoldLeft, MapThenFoldSet
<1>2. DOMAIN is = 1 .. n /\ \A i \in 1 .. n : is[i] = i
  OBVIOUS
<1> HIDE DEF is
<1>3. n \in Nat
  OBVIOUS
<1> HIDE DEF n
<1>4. 0 \in K
  <2> DEFINE f == [s \in SUBSET (1 .. 0) |-> {nb}]
  <2>1. \A s \in SUBSET (1 .. 0) : s = {} /\ f[s] = {nb}
    OBVIOUS
  <2> HIDE DEF f
  <2>2. Folds(0, f)
    BY <2>1
  <2>3. 0 \in 0 .. n
    BY <1>3
  <2> HIDE DEF Folds
  <2>4. \E g : Folds(0, g)
    BY <2>2, Zenon
  <2> QED
    BY <2>3, <2>4
<1>5. ASSUME NEW j \in 0 .. n - 1, j \in K
      PROVE  j + 1 \in K
  <2>1. PICK f : Folds(j, f)
    BY <1>5
  <2> DEFINE g == [s \in SUBSET (1 .. j + 1) |->
                     IF j + 1 \in s THEN WriteByte(f[s \ {j + 1}], j + 1, cs) ELSE f[s]]
  <2>2. \A s \in SUBSET (1 .. j + 1) : s \ {j + 1} \in SUBSET (1 .. j)
    OBVIOUS
  <2>3. \A s \in SUBSET (1 .. j + 1) : j + 1 \notin s => s \in SUBSET (1 .. j)
    OBVIOUS
  <2>4. \A s \in SUBSET (1 .. j) : s \in SUBSET (1 .. j + 1) /\ j + 1 \notin s
    OBVIOUS
  <2>5. \A s \in SUBSET (1 .. j) : g[s] = f[s]
    BY <2>4
  <2>6. \A s \in SUBSET (1 .. j + 1) :
          g[s] = IF j + 1 \in s THEN WriteByte(f[s \ {j + 1}], j + 1, cs) ELSE f[s]
    OBVIOUS
  <2> HIDE DEF g
  <2>7. ASSUME NEW s \in SUBSET (1 .. j + 1)
        PROVE  g[s] = IF s = {} THEN {nb} ELSE WriteByte(g[s \ {Greatest(s)}], Greatest(s), cs)
    <3>1. CASE j + 1 \in s
      <4>1. \A x \in s : (\A y \in s : x >= y) <=> x = j + 1
        BY <3>1
      <4>2. Greatest(s) = j + 1
        BY <3>1, <4>1 DEF Greatest
      <4>3. g[s \ {j + 1}] = f[s \ {j + 1}]
        BY <2>2, <2>5
      <4>4. g[s] = WriteByte(f[s \ {j + 1}], j + 1, cs) /\ s # {}
        BY <2>6, <3>1
      <4> QED
        BY <4>2, <4>3, <4>4
    <3>2. CASE j + 1 \notin s
      <4>1. s \in SUBSET (1 .. j) /\ s \ {Greatest(s)} \in SUBSET (1 .. j)
        BY <2>3, <3>2
      <4> QED
        BY <2>1, <2>5, <4>1
    <3> QED
      BY <3>1, <3>2
  <2>8. Folds(j + 1, g)
    BY <2>7
  <2>9. j + 1 \in 0 .. n
    BY <1>3
  <2> HIDE DEF Folds
  <2>10. \E e : Folds(j + 1, e)
    BY <2>8, Zenon
  <2> QED
    BY <2>9, <2>10
<1>6. n \in K
  <2> HIDE DEF K
  <2>1. \A j \in 0 .. n : j \in K
    BY <1>3, <1>4, <1>5, Steps
  <2> QED
    BY <1>3, <2>1
<1>7. PICK f0 : Folds(n, f0)
  BY <1>6
<1> DEFINE f == [s \in SUBSET (1 .. n) |-> f0[s]]
<1>8. \A s \in SUBSET (1 .. n) :
        f[s] = IF s = {} THEN {nb}
               ELSE UNION {BoardWrite(b, Low(m.addr + is[Max(s)] - 1), cs[is[Max(s)]])
                             : b \in f[s \ {Max(s)}]}
  <2> SUFFICES ASSUME NEW s \in SUBSET (1 .. n), s # {}
               PROVE  f[s] = UNION {BoardWrite(b, Low(m.addr + is[Max(s)] - 1), cs[is[Max(s)]])
                                      : b \in f[s \ {Max(s)}]}
    BY <1>7
  <2>1. Max(s) = Greatest(s)
    BY DEF Max, Greatest
  <2>2. Greatest(s) \in 1 .. n /\ s \ {Greatest(s)} \in SUBSET (1 .. n)
    BY <1>3, GreatestIn
  <2>3. f[s] = WriteByte(f[s \ {Greatest(s)}], Greatest(s), cs)
    BY <1>7, <2>2
  <2>4. is[Greatest(s)] = Greatest(s)
    BY <1>2, <2>2
  <2> QED
    BY <2>1, <2>3, <2>4 DEF WriteByte
<1>9. f = [s \in SUBSET DOMAIN is |->
             IF s = {} THEN {nb}
             ELSE UNION {BoardWrite(b, Low(m.addr + is[Max(s)] - 1), cs[is[Max(s)]])
                           : b \in f[s \ {Max(s)}]}]
  <2>1. \A s \in SUBSET DOMAIN is :
          f[s] = IF s = {} THEN {nb}
               ELSE UNION {BoardWrite(b, Low(m.addr + is[Max(s)] - 1), cs[is[Max(s)]])
                             : b \in f[s \ {Max(s)}]}
    BY <1>2, <1>8
  <2>2. f = [s \in SUBSET DOMAIN is |-> f[s]]
    BY <1>2
  <2> HIDE DEF f
  <2> QED
    BY <2>1, <2>2
<1>10. G = [s \in SUBSET DOMAIN is |->
              IF s = {} THEN {nb}
              ELSE UNION {BoardWrite(b, Low(m.addr + is[Max(s)] - 1), cs[is[Max(s)]])
                            : b \in G[s \ {Max(s)}]}]
  <2> HIDE DEF f
  <2> QED
    BY <1>9, Zenon
<1> HIDE DEF G, Folds, K, f
<1> DEFINE h == [k \in 0 .. n |-> G[1 .. k]]
<1>11. h[0] = {nb}
  <2>1. 1 .. 0 = {} /\ {} \in SUBSET DOMAIN is
    OBVIOUS
  <2>2. G[{}] = {nb}
    BY <1>10, <2>1
  <2> QED
    BY <1>3, <2>1, <2>2
<1>12. ASSUME NEW k \in 0 .. n - 1
       PROVE  h[k + 1] = WriteByte(h[k], k + 1, cs)
  <2> DEFINE s == 1 .. k + 1
  <2>1. k + 1 \in 1 .. n /\ k \in 0 .. n /\ k + 1 \in 0 .. n /\ (k + 1) - 1 = k
    BY <1>3
  <2>2. s \in SUBSET (1 .. n) /\ s # {} /\ Greatest(s) = k + 1 /\ s \ {k + 1} = 1 .. (k + 1) - 1
    BY <1>3, <2>1, PrefixFacts
  <2>3. Max(s) = k + 1 /\ is[k + 1] = k + 1 /\ s \in SUBSET DOMAIN is
    BY <1>2, <2>1, <2>2 DEF Max, Greatest
  <2>4. G[s] = WriteByte(G[s \ {k + 1}], k + 1, cs)
    <3> HIDE DEF s
    <3>1. G[s] = IF s = {} THEN {nb}
                 ELSE UNION {BoardWrite(b, Low(m.addr + is[Max(s)] - 1), cs[is[Max(s)]])
                               : b \in G[s \ {Max(s)}]}
      BY <1>10, <2>3, Zenon
    <3> QED
      BY <2>2, <2>3, <3>1, Zenon DEF WriteByte
  <2> QED
    BY <2>1, <2>2, <2>4
<1>13. h[n] = WrittenString(cs)
  BY <1>1, <1>2, <1>3
<1> HIDE DEF h
<1>14. \E g : /\ g[0] = {nb}
              /\ \A k \in 0 .. n - 1 : g[k + 1] = WriteByte(g[k], k + 1, cs)
              /\ g[n] = WrittenString(cs)
  BY <1>11, <1>12, <1>13
<1> QED
  BY <1>14 DEF n

\* What touches fewer ports leaves more alone.
LEMMA LeavesMore ==
  ASSUME NEW b, NEW d, NEW p, NEW q, p \subseteq q, LeftAlone(b, d, p)
  PROVE  LeftAlone(b, d, q)
  BY DEF LeftAlone

\* A string of mm takes the ports it is written across and no other.
LEMMA StringLeaves ==
  ASSUME Shape(nb), NEW cs \in Seq(Byte), NEW d \in WrittenString(cs)
  PROVE  /\ Shape(d)
         /\ LeftAlone(nb, d, UNION {Takes(Ports[Low(m.addr + i - 1)]) : i \in DOMAIN cs})
<1> DEFINE n == Len(cs)
           P == UNION {Takes(Ports[Low(m.addr + i - 1)]) : i \in DOMAIN cs}
<1>1. n \in Nat /\ DOMAIN cs = 1 .. n
  BY LenProperties
<1>2. PICK h : /\ h[0] = {nb}
               /\ \A k \in 0 .. n - 1 : h[k + 1] = WriteByte(h[k], k + 1, cs)
               /\ h[n] = WrittenString(cs)
  BY <1>1, StringTrace, Zenon
<1>3. \A i \in 1 .. n : Takes(Ports[Low(m.addr + i - 1)]) \subseteq P
  BY <1>1
<1>7. \A i \in 1 .. n : cs[i] \in Int
  BY ElementOfSeq, WordIsInt, Zenon
<1> HIDE DEF n, P
<1> DEFINE K == {k \in 0 .. n : \A e \in h[k] : Shape(e) /\ LeftAlone(nb, e, P)}
<1>4. 0 \in K
  BY <1>1, <1>2 DEF LeftAlone
<1>5. ASSUME NEW k \in 0 .. n - 1, k \in K
      PROVE  k + 1 \in K
  <2> DEFINE i == k + 1
             a == Low(m.addr + i - 1)
  <2>1. i \in 1 .. n /\ i \in 0 .. n
    BY <1>1
  <2>2. h[i] = UNION {BoardWrite(b, a, cs[i]) : b \in h[k]}
    BY <1>2 DEF WriteByte
  <2>3. Takes(Ports[a]) \subseteq P
    BY <1>3, <2>1
  <2>4. \A b \in h[k] : Shape(b) /\ LeftAlone(nb, b, P)
    BY <1>5
  <2> HIDE DEF i, a
  <2>0. cs[i] \in Int
    BY <2>1, <1>7
  <2>5. ASSUME NEW e \in h[i] PROVE Shape(e) /\ LeftAlone(nb, e, P)
    <3>1. PICK b \in h[k] : e \in BoardWrite(b, a, cs[i])
      BY <2>2
    <3>2. Shape(e) /\ LeftAlone(b, e, Takes(Ports[a]))
      BY <2>0, <2>4, <3>1, WriteLeaves
    <3>3. LeftAlone(nb, e, P \cup Takes(Ports[a]))
      BY <2>4, <3>2, LeftAloneAgain
    <3>4. P \cup Takes(Ports[a]) = P
      BY <2>3
    <3> QED
      BY <3>2, <3>3, <3>4
  <2> QED
    BY <2>1, <2>5 DEF i
<1>6. n \in K
  <2> HIDE DEF K
  <2>1. \A k \in 0 .. n : k \in K
    BY <1>1, <1>4, <1>5, Steps
  <2> QED
    BY <1>1, <2>1
<1> QED
  BY <1>2, <1>6 DEF P

\* A step of the user, or a load of the program: what it may have changed
\* is no longer expected.
Gives(ports) ==
  /\ Shape(nb')
  /\ LeftAlone(nb, nb', ports)
  /\ expect' = Touched(expect, ports)

\* The bridge presets its registers to numbers.
LEMMA PresetNumbers ==
  ASSUME Shape(nb), BYTE = 8, NEW id
  PROVE  \A r \in RegAddrs : Preset(nb.regs, id)[r] \in Int
<1> SUFFICES ASSUME NEW r \in RegAddrs PROVE Preset(nb.regs, id)[r] \in Int
  OBVIOUS
<1> DEFINE ds == {d \in Defs : d.addr = r /\ id \in d.match}
<1>1. Preset(nb.regs, id)[r] =
        IF ds = {} THEN nb.regs[r] ELSE pSwap4Bytes((CHOOSE d \in ds : TRUE).def)
  BY DEF Preset
<1>2. CASE ds = {}
  BY <1>1, <1>2 DEF Shape
<1>3. CASE ds # {}
  <2> DEFINE d == CHOOSE e \in ds : TRUE
  <2>1. d \in Defs
    BY <1>3
  <2>2. d.def \in Int
    BY <2>1, BridgeAssumption, WordIsInt, Zenon
  <2> HIDE DEF d
  <2>3. pSwap4Bytes(d.def) \in Int
    BY <2>2, SwapFacts, WordIsInt, Zenon
  <2> QED
    BY <1>1, <1>3, <2>3 DEF d
<1> QED
  BY <1>2, <1>3

\* The commands that set or reset the bridge, as Gives.
LEMMA PromptGives ==
  ASSUME Shape(nb), NbCmd \/ Reset
  PROVE  \E ports : Gives(ports)
<1>1. CASE Reset
  <2>1. /\ nb' = NB_ENV_preset(NB_reset(nb))
        /\ expect' = Touched(expect, {"latches", "nvram"})
    BY <1>1 DEF Reset
  <2>2. Gives({"latches", "nvram"})
    BY <2>1 DEF Gives, LeftAlone, Shape, NB_ENV_preset, NB_reset
  <2> QED
    BY <2>2
<1>2. CASE NbCmd
  <2>1. PICK c \in S.nb :
          /\ nb' = CASE c = "-p" -> NB_ENV_preset(nb)
                     [] c = "-r" -> NB_reset(nb)
                     [] OTHER    -> NB_set(nb, c)
          /\ expect' = Touched(expect, CASE c = "-p" -> {"nvram"}
                                         [] c = "-r" -> {"latches"}
                                         [] OTHER    -> {"latches", "written"})
    BY <1>2 DEF NbCmd
  <2>2. CASE c = "-p"
    <3>1. nb' = NB_ENV_preset(nb) /\ expect' = Touched(expect, {"nvram"})
      BY <2>1, <2>2
    <3>2. Gives({"nvram"})
      BY <3>1 DEF Gives, LeftAlone, Shape, NB_ENV_preset
    <3> QED
      BY <3>2
  <2>3. CASE c = "-r"
    <3>1. nb' = NB_reset(nb) /\ expect' = Touched(expect, {"latches"})
      BY <2>1, <2>3
    <3>2. Gives({"latches"})
      BY <3>1 DEF Gives, LeftAlone, Shape, NB_reset
    <3> QED
      BY <3>2
  <2>4. CASE c # "-p" /\ c # "-r"
    <3>1. nb' = NB_set(nb, c) /\ expect' = Touched(expect, {"latches", "written"})
      BY <2>1, <2>4
    <3>2. CASE c \notin DOMAIN Bridges
      <4>1. Gives({"latches", "written"})
        BY <3>1, <3>2 DEF Gives, LeftAlone, NB_set
      <4> QED
        BY <4>1
    <3>3. CASE c \in DOMAIN Bridges
      <4> DEFINE e == [nb EXCEPT !.placed = TRUE, !.id = Bridges[c],
                                 !.regs = Preset(nb.regs, Bridges[c])]
      <4>1. /\ Shape(e) /\ e.placed /\ e.a = nb.a /\ e.nvram = nb.nvram
        <5>1. BYTE = 8 => \A r \in RegAddrs : Preset(nb.regs, Bridges[c])[r] \in Int
          BY PresetNumbers
        <5> QED
          BY <5>1 DEF Shape, Preset
      <4>2. nb' = NB_reset(e)
        BY <3>1, <3>3 DEF NB_set
      <4> HIDE DEF e
      <4>3. Gives({"latches", "written"})
        BY <3>1, <4>1, <4>2 DEF Gives, LeftAlone, Shape, NB_reset
      <4> QED
        BY <4>3
    <3> QED
      BY <3>2, <3>3
  <2> QED
    BY <2>2, <2>3, <2>4
<1> QED
  BY <1>1, <1>2

\* The accesses that nobody expects an answer of, as Gives.
LEMMA AccessGives ==
  ASSUME Shape(nb), scene \in DOMAIN Scenes, ProgLoad \/ MdLine \/ MmShow \/ MmWrite
  PROVE  \E ports : Gives(ports)
<1>1. CASE ProgLoad
  <2>1. PICK a \in S.loads, v \in Junk :
          /\ nb' = BoardRead(nb, a, v)
          /\ expect' = Touched(expect, {Ports[a]} \cap {"index"})
    BY <1>1 DEF ProgLoad
  <2>2. Gives({Ports[a]} \cap {"index"})
    BY <2>1, ReadLeaves DEF Gives
  <2> QED
    BY <2>2
<1>2. CASE MmShow
  <2>1. PICK v \in Junk : nb' = BoardRead(nb, m.addr, v)
    BY <1>2 DEF MmShow, ReadOne
  <2>2. expect' = Touched(expect, {Ports[m.addr]} \cap {"index"})
    BY <1>2 DEF MmShow, ReadOne
  <2>3. Gives({Ports[m.addr]} \cap {"index"})
    BY <2>1, <2>2, ReadLeaves DEF Gives
  <2> QED
    BY <2>3
<1>3. CASE MdLine
  <2> DEFINE read == {a \in Pieces : Ports[a] = "index"}
             ports == {Ports[a] : a \in read}
  <2>1. /\ nb' \in IF read = {} THEN {nb} ELSE {BoardRead(nb, Max(read), v) : v \in Junk}
        /\ expect' = Touched(expect, ports)
    BY <1>3 DEF MdLine
  <2>2. read # {} => "index" \in ports
    OBVIOUS
  <2> HIDE DEF read, ports
  <2>3. CASE read = {}
    <3>1. nb' = nb
      BY <2>1, <2>3
    <3>2. Gives(ports)
      BY <2>1, <3>1 DEF Gives, LeftAlone
    <3> QED
      BY <3>2
  <2>4. CASE read # {}
    <3> DEFINE a == Max(read)
    <3>1. PICK v \in Junk : nb' = BoardRead(nb, a, v)
      BY <2>1, <2>4
    <3> HIDE DEF a
    <3>2. Shape(nb') /\ LeftAlone(nb, nb', {Ports[a]} \cap {"index"})
      BY <3>1, ReadLeaves
    <3>3. {Ports[a]} \cap {"index"} \subseteq ports
      BY <2>2, <2>4
    <3>4. LeftAlone(nb, nb', ports)
      BY <3>2, <3>3, LeavesMore
    <3>5. Gives(ports)
      BY <2>1, <3>2, <3>4 DEF Gives
    <3> QED
      BY <3>5
  <2> QED
    BY <2>3, <2>4
<1>4. CASE MmWrite
  <2>1. PICK w \in S.modifies :
          LET r == Arguments(<<w[1]>>, ACCESS_W)
          IN  /\ nb' \in BoardWrite(nb, r.start, w[2])
              /\ expect' = Touched(expect, Takes(Ports[r.start]))
    BY <1>4 DEF MmWrite
  <2>2. \E a : \E v \in Int :
          nb' \in BoardWrite(nb, a, v) /\ expect' = Touched(expect, Takes(Ports[a]))
    <3>1. w[2] \in Word
      BY BoardAssumption DEF S, SceneOK, Addr
    <3> QED
      BY <2>1, <3>1, WordIsInt
  <2>3. PICK a : \E v \in Int :
          nb' \in BoardWrite(nb, a, v) /\ expect' = Touched(expect, Takes(Ports[a]))
    BY <2>2
  <2>4. Gives(Takes(Ports[a]))
    BY <2>3, WriteLeaves DEF Gives
  <2> QED
    BY <2>4
<1> QED
  BY <1>1, <1>2, <1>3, <1>4

\* An answer to mm, as Gives or as nothing.
LEMMA AnswerGives ==
  ASSUME Shape(nb), scene \in DOMAIN Scenes, MmAnswer
  PROVE  UNCHANGED <<nb, expect>> \/ \E ports : Gives(ports)
<1>1. CASE /\ \E v \in Typed : nb' \in BoardWrite(nb, m.addr, v)
           /\ expect' = Touched(expect, Takes(Ports[m.addr]))
  <2>1. PICK v \in Typed : nb' \in BoardWrite(nb, m.addr, v)
    BY <1>1
  <2>2. PICK w \in S.modifies : v = w[2]
    BY <2>1 DEF Typed
  <2>3. w[2] \in Word
    BY BoardAssumption DEF S, SceneOK, Addr
  <2>4. v \in Int
    BY <2>2, <2>3, WordIsInt
  <2>5. Gives(Takes(Ports[m.addr]))
    BY <1>1, <2>1, <2>4, WriteLeaves DEF Gives
  <2> QED
    BY <2>5
<1>2. ASSUME NEW cs \in S.strings, nb' \in WrittenString(cs),
             expect' = Touched(expect,
                               UNION {Takes(Ports[Low(m.addr + i - 1)]) : i \in DOMAIN cs})
      PROVE  \E ports : Gives(ports)
  <2>1. cs \in Seq(Byte)
    BY <1>2, BoardAssumption DEF S, SceneOK
  <2>2. Gives(UNION {Takes(Ports[Low(m.addr + i - 1)]) : i \in DOMAIN cs})
    BY <1>2, <2>1, StringLeaves DEF Gives
  <2> QED
    BY <2>2
<1> QED
  BY <1>1, <1>2 DEF MmAnswer

------------------------------------------------------------------------------
(* The NVRAM: the invariant is that the latches and the bytes are what the *)
(* program may expect of them.                                             *)

NvramAgrees(b, x) ==
  /\ x.hi # Unknown => b.nv_addr_hi = x.hi
  /\ x.lo # Unknown => b.nv_addr_lo = x.lo
  /\ \A i \in NVRAM : x.nvram[i] # Unknown => b.nvram[i] = x.nvram[i]

Shapes == Shape(nb) /\ ExpectShape(expect) /\ scene \in DOMAIN Scenes

NvramInv == Shapes /\ NvramAgrees(nb, expect)

\* Forgetting what was expected keeps the shape of the expectation.
LEMMA GivesShape ==
  ASSUME ExpectShape(expect), NEW ports, expect' = Touched(expect, ports)
  PROVE  ExpectShape(expect')
  BY DEF Touched, ExpectShape, NothingKnown, NoNvram

\* A step that forgets what it touches keeps the NVRAM as expected.
LEMMA GivesNvram ==
  ASSUME NEW ports, ExpectShape(expect), NvramAgrees(nb, expect), Gives(ports)
  PROVE  NvramAgrees(nb', expect')
<1>1. /\ expect'.hi = IF "latches" \in ports THEN Unknown ELSE expect.hi
      /\ expect'.lo = IF "latches" \in ports THEN Unknown ELSE expect.lo
      /\ expect'.nvram = IF "nvram" \in ports THEN NoNvram ELSE expect.nvram
  BY DEF Gives, Touched
<1>2. \A i \in NVRAM : NoNvram[i] = Unknown
  BY DEF NoNvram
<1> QED
  BY <1>1, <1>2 DEF Gives, LeftAlone, NvramAgrees

\* A store of the program, of which it expects as much as the bridge does.
Storing(st) ==
  /\ st.a \in Addr /\ st.v \in Word
  /\ nb' \in BoardWrite(nb, st.a, st.v)
  /\ expect' = Expected(expect, st)

\* A store of the program keeps the shape of the bridge.
LEMMA StoreShape ==
  ASSUME Shapes, NEW st, Storing(st)
  PROVE  Shape(nb') /\ ExpectShape(expect')
<1>1. Shape(nb')
  BY WriteLeaves, WordIsInt DEF Shapes, Storing
<1>2. \A r \in RegAddrs : DOMAIN KnownAfter(expect, st)[r] = 0 .. 3
  BY DEF KnownAfter, Shapes, ExpectShape, NothingKnown
<1>3. DOMAIN KnownAfter(expect, st) = RegAddrs
  BY DEF KnownAfter, Shapes, ExpectShape, NothingKnown
<1>4. DOMAIN NoNvram = NVRAM
  BY DEF NoNvram
<1> HIDE DEF KnownAfter, NoNvram
<1>5. ExpectShape(Expected0)
  BY <1>4 DEF ExpectShape, Expected0, NothingKnown
<1>6. ExpectShape(expect')
  BY <1>2, <1>3, <1>5 DEF Shapes, ExpectShape, Storing, Expected
<1> QED
  BY <1>1, <1>6

\* A store of the program, expected where it goes, keeps the NVRAM as expected.
LEMMA StoreNvram ==
  ASSUME Shapes, NvramAgrees(nb, expect), NEW st, Storing(st)
  PROVE  NvramAgrees(nb', expect')
<1> DEFINE port == Ports[st.a]
           vb == st.v % 2 ^ BYTE
<1>0. ExpectShape(expect) /\ Shape(nb) /\ LeftAlone(nb, nb', Takes(port))
  BY WriteLeaves, WordIsInt DEF Shapes, Storing
<1>1. CASE port \notin {"nv_hi", "nv_lo", "nv_data"}
  <2>1. "latches" \notin Takes(port) /\ "nvram" \notin Takes(port)
    BY <1>1 DEF Takes
  <2>2. expect'.hi = expect.hi /\ expect'.lo = expect.lo /\ expect'.nvram = expect.nvram
    BY <1>0, <1>1 DEF Storing, Expected, ExpectShape
  <2> QED
    BY <1>0, <2>1, <2>2 DEF LeftAlone, NvramAgrees
<1>2. CASE port = "nv_hi"
  <2>1. nb' = [nb EXCEPT !.nv_addr_hi = vb]
    BY <1>2 DEF Storing, BoardWrite, NB_io, IOPorts
  <2>2. expect' = [expect EXCEPT !.hi = vb]
    BY <1>2 DEF Storing, Expected
  <2> QED
    BY <1>0, <2>1, <2>2 DEF NvramAgrees, Shape, ExpectShape
<1>3. CASE port = "nv_lo"
  <2>1. nb' = [nb EXCEPT !.nv_addr_lo = vb]
    BY <1>3 DEF Storing, BoardWrite, NB_io, IOPorts
  <2>2. expect' = [expect EXCEPT !.lo = vb]
    BY <1>3 DEF Storing, Expected
  <2> QED
    BY <1>0, <2>1, <2>2 DEF NvramAgrees, Shape, ExpectShape
<1>4. CASE port = "nv_data" /\ LatchesKnown(expect) /\ NvIndex(expect) \in NVRAM
  <2> DEFINE i == NvIndex(expect)
  <2>1. nva(nb) = i
    BY <1>4 DEF NvramAgrees, nva, NvIndex, LatchesKnown
  <2>2. nb' \in NvWritten(nb, vb)
    BY <1>4 DEF Storing, BoardWrite, NB_io, IOPorts
  <2>3. nb' = [nb EXCEPT !.nvram[i] = vb]
    BY <1>4, <2>1, <2>2 DEF NvWritten
  <2>4. expect' = [expect EXCEPT !.nvram[i] = vb]
    BY <1>4 DEF Storing, Expected
  <2> HIDE DEF i, vb
  <2> QED
    BY <1>0, <2>3, <2>4 DEF NvramAgrees, Shape, ExpectShape
<1>5. CASE port = "nv_data" /\ ~ (LatchesKnown(expect) /\ NvIndex(expect) \in NVRAM)
  <2>1. expect' = Expected0
    BY <1>5 DEF Storing, Expected
  <2> QED
    BY <1>0, <2>1 DEF NvramAgrees, Expected0, NoNvram
<1> QED
  BY <1>1, <1>2, <1>3, <1>4, <1>5

\* The shapes hold at first.
LEMMA BoardShapes ==
  ASSUME Init
  PROVE  Shapes
<1>1. Shape(NB_init)
  BY DEF Shape, NB_init, NB_reset
<1>2. Shape(NB_ENV_preset(NB_init))
  BY <1>1 DEF Shape, NB_ENV_preset
<1>3. ExpectShape(Expected0)
  BY DEF ExpectShape, Expected0, NothingKnown, NoNvram
<1> QED
  BY <1>1, <1>2, <1>3 DEF Init, Shapes

\* The steps of the board, as what they take from the program.
LEMMA BoardSteps ==
  ASSUME Shapes, [Next]_vars
  PROVE  /\ scene' = scene
         /\ \/ UNCHANGED <<nb, expect>>
            \/ \E ports : Gives(ports)
            \/ \E st \in S.stores : Storing(st)
<1>0. Shape(nb) /\ scene \in DOMAIN Scenes
  BY DEF Shapes
<1>1. CASE UNCHANGED vars
  BY <1>1 DEF vars
<1>2. CASE Run \/ Stop \/ Md \/ Mm \/ Dot \/ CpuCmd \/ MdPage
  BY <1>2 DEF Run, Stop, Md, Mm, Dot, MemCmd, CpuCmd, MdPage
<1>3. CASE NbCmd \/ Reset
  BY <1>0, <1>3, PromptGives DEF NbCmd, Reset
<1>4. CASE ProgLoad \/ MdLine \/ MmShow \/ MmWrite
  BY <1>0, <1>4, AccessGives DEF ProgLoad, MdLine, MmShow, MmWrite
<1>5. CASE MmAnswer
  BY <1>0, <1>5, AnswerGives DEF MmAnswer
<1>6. CASE ProgStore
  <2>1. PICK st \in S.stores : /\ nb' \in BoardWrite(nb, st.a, st.v)
                              /\ expect' = Expected(expect, st)
    BY <1>6 DEF ProgStore
  <2>2. st.a \in Addr /\ st.v \in Word
    BY <1>0, BoardAssumption DEF S, SceneOK
  <2> QED
    BY <1>6, <2>1, <2>2 DEF ProgStore, Storing
<1> QED
  BY <1>1, <1>2, <1>3, <1>4, <1>5, <1>6 DEF Next, Command

\* Every step keeps the shapes.
LEMMA ShapesKept ==
  ASSUME Shapes, [Next]_vars
  PROVE  Shapes'
<1>1. CASE UNCHANGED <<nb, expect>>
  BY <1>1, BoardSteps DEF Shapes
<1>2. ASSUME NEW ports, Gives(ports) PROVE Shapes'
  BY <1>2, BoardSteps, GivesShape DEF Shapes, Gives
<1>3. ASSUME NEW st, Storing(st) PROVE Shapes'
  BY <1>3, BoardSteps, StoreShape DEF Shapes
<1> QED
  BY <1>1, <1>2, <1>3, BoardSteps

\* The program expects nothing of the NVRAM at first.
LEMMA NvramStarts == Init => NvramInv
<1> SUFFICES ASSUME Init PROVE NvramAgrees(nb, expect)
  BY BoardShapes DEF NvramInv
<1>1. expect = Expected0
  BY DEF Init
<1> QED
  BY <1>1 DEF NvramAgrees, Expected0, NoNvram

\* Every step keeps the NVRAM as expected.
LEMMA NvramStep == NvramInv /\ [Next]_vars => NvramInv'
<1> SUFFICES ASSUME NvramInv, [Next]_vars PROVE NvramAgrees(nb', expect')
  BY ShapesKept DEF NvramInv, NvramAgrees
<1>1. CASE UNCHANGED <<nb, expect>>
  BY <1>1 DEF NvramInv, NvramAgrees
<1>2. ASSUME NEW ports, Gives(ports) PROVE NvramAgrees(nb', expect')
  BY <1>2, GivesNvram DEF NvramInv, Shapes
<1>3. ASSUME NEW st, Storing(st) PROVE NvramAgrees(nb', expect')
  BY <1>3, StoreNvram DEF NvramInv
<1> QED
  BY <1>1, <1>2, <1>3, BoardSteps DEF NvramInv

(* A byte the program stores behind its latches comes back from behind     *)
(* them, for any size of the NVRAM, any placement of the ports and anything *)
(* the user does at the prompt, as long as nobody moves the latches or     *)
(* presets the NVRAM.                                                      *)
THEOREM NvramTheorem == Spec => NvramReadsBack
<1> DEFINE Reads ==
      got'.port = "nv_data" /\ got' # got /\ LatchesKnown(expect) /\ NvIndex(expect) \in NVRAM
       /\ expect.nvram[NvIndex(expect)] # Unknown
         => got'.v = expect.nvram[NvIndex(expect)]
<1>1. NvramInv /\ [Next]_vars => [Reads]_vars
  <2> SUFFICES ASSUME NvramInv, [Next]_vars, got' # got, got'.port = "nv_data",
                      LatchesKnown(expect), NvIndex(expect) \in NVRAM,
                      expect.nvram[NvIndex(expect)] # Unknown
               PROVE  got'.v = expect.nvram[NvIndex(expect)]
    OBVIOUS
  <2>1. ProgLoad
    BY DEF Next, vars, Command, Run, Stop, Md, Mm, Dot, MemCmd, CpuCmd, MdPage, NbCmd, Reset,
           MdLine, MmShow, MmWrite, MmAnswer, ProgStore
  <2>2. PICK a \in S.loads, v \in Junk :
          \E w \in Answers(nb, a, v) : got' = [port |-> Ports[a], v |-> w]
    BY <2>1 DEF ProgLoad
  <2>3. PICK w \in Answers(nb, a, v) : got' = [port |-> Ports[a], v |-> w]
    BY <2>2
  <2>4. Ports[a] = "nv_data" /\ got'.v = w
    BY <2>3
  <2>5. nva(nb) = NvIndex(expect)
    BY DEF NvramInv, NvramAgrees, nva, NvIndex, LatchesKnown
  <2>6. w = nb.nvram[NvIndex(expect)]
    BY <2>3, <2>4, <2>5 DEF Answers, IOAnswer, IOPorts
  <2> QED
    BY <2>4, <2>6 DEF NvramInv, NvramAgrees
<1> QED
  BY <1>1, NvramStarts, NvramStep, PTL DEF Spec, NvramReadsBack

------------------------------------------------------------------------------
(* The configuration registers: the invariant is that the index is the one *)
(* the program stored, and the bytes of the registers those it knows.      *)

ConfigAgrees(b, x) ==
  /\ Known(x) => b.placed /\ b.a = x.a /\ x.a \in Int
  /\ \A r \in RegAddrs, k \in 0 .. 3 :
       x.regs[r][k] # Unknown => ByteOf(b.regs[r], 3 - k) = x.regs[r][k]

ConfigInv == Shapes /\ ConfigAgrees(nb, expect) /\ NvramAgrees(nb, expect)

\* A step that forgets what it touches keeps the registers as expected.
LEMMA GivesConfig ==
  ASSUME NEW ports, ExpectShape(expect), ConfigAgrees(nb, expect), Gives(ports)
  PROVE  ConfigAgrees(nb', expect')
<1>1. /\ expect'.touched = (expect.touched \/ "index" \in ports)
      /\ expect'.a = expect.a
      /\ expect'.regs = IF "written" \in ports THEN NothingKnown ELSE expect.regs
  BY DEF Gives, Touched
<1>2. \A r \in RegAddrs, k \in 0 .. 3 : NothingKnown[r][k] = Unknown
  BY DEF NothingKnown
<1>3. Known(expect') => nb'.placed /\ nb'.a = expect'.a /\ expect'.a \in Int
  <2>1. Known(expect') => ~ ("index" \in ports) /\ Known(expect)
    BY <1>1, Zenon DEF Known
  <2> QED
    BY <1>1, <2>1 DEF Gives, LeftAlone, ConfigAgrees
<1>4. ASSUME NEW r \in RegAddrs, NEW k \in 0 .. 3, expect'.regs[r][k] # Unknown
      PROVE  ByteOf(nb'.regs[r], 3 - k) = expect'.regs[r][k]
  <2>1. "written" \notin ports /\ expect'.regs = expect.regs
    BY <1>1, <1>2, <1>4
  <2>2. nb'.regs = nb.regs
    BY <2>1 DEF Gives, LeftAlone
  <2> QED
    BY <1>4, <2>1, <2>2 DEF ConfigAgrees
<1> QED
  BY <1>3, <1>4 DEF ConfigAgrees

\* The lowest byte is the last.
LEMMA LastByte ==
  ASSUME BYTE = 8, NEW x \in Int
  PROVE  ByteOf(x, 3) = x % 2 ^ BYTE
<1>1. ByteOf(x, 3) = (x \div 1) % 2 ^ BYTE
  BY Powers, SMT DEF ByteOf
<1>2. x \div 1 = x
  BY SMT
<1> QED
  BY <1>1, <1>2

\* The index of a register is the low byte of what is written to its latch.
LEMMA LowByte ==
  ASSUME BYTE = 8, NEW x \in Int
  PROVE  x % 2 ^ BYTE \in RegAddrs
<1>1. RegAddrs = 0 .. 255 /\ 2 ^ BYTE = 256
  BY Powers, SMT DEF RegAddrs, Byte
<1>2. x % 256 \in 0 .. 255
  BY SMT
<1> QED
  BY <1>1, <1>2

\* A datum stored in the register that is selected.
LEMMA StoreDatum ==
  ASSUME BYTE = 8, Shapes, ConfigAgrees(nb, expect), NEW st, Storing(st),
         Known(expect), Ports[st.a] = "data"
  PROVE  ConfigAgrees(nb', expect')
<1> DEFINE r == Reg(expect)
           i == Index(expect)
           wd == pSwap4Bytes(st.v)
           lane == st.a % 4
           known == KnownAfter(expect, st)
           regs == CfgStored(nb, lane, wd)
<1>1. /\ nb.placed /\ nb.a = expect.a /\ expect.a \in Int
      /\ \A q \in RegAddrs, k \in 0 .. 3 :
           expect.regs[q][k] # Unknown => ByteOf(nb.regs[q], 3 - k) = expect.regs[q][k]
  BY DEF ConfigAgrees
<1>2. r_addr(nb) = r /\ nb_addr(nb) = i
  BY <1>1 DEF r_addr, nb_addr, Reg, Index
<1>3. r \in RegAddrs
  BY <1>1, LowByte DEF Reg
<1>4. st.v \in Int /\ st.a \in Int
  BY WordIsInt DEF Storing, Addr
<1>5. lane \in 0 .. 3
  BY <1>4
<1>6. wd \in Int /\ \A k \in 0 .. 3 : ByteOf(wd, k) = ByteOf(st.v, 3 - k)
  BY <1>4, SwapFacts, WordIsInt, Zenon
<1>7. expect' = [expect EXCEPT !.regs = known]
  BY DEF Storing, Expected
<1>8. nb' = [nb EXCEPT !.regs = regs]
  BY <1>1 DEF Storing, BoardWrite, NB_cfg, IOPorts
<1>9. ExpectShape(expect) /\ Shape(nb)
  BY DEF Shapes
<1>10. /\ known = CASE i = 0 -> expect.regs
                    [] i \in MBEN /\ st.size = ACCESS_B ->
                         [expect.regs EXCEPT ![r][lane] = st.v % 2 ^ BYTE]
                    [] i \notin MBEN \cup {0} /\ st.size = ACCESS_W ->
                         [expect.regs EXCEPT ![r] = [k \in 0 .. 3 |-> ByteOf(st.v, k)]]
                    [] OTHER -> [expect.regs EXCEPT ![r] = [k \in 0 .. 3 |-> Unknown]]
  BY DEF KnownAfter
<1>11. regs = CASE i = 0 -> nb.regs
                [] i \in MBEN -> [nb.regs EXCEPT ![r] = SetByte(@, lane, wd)]
                [] OTHER -> [nb.regs EXCEPT ![r] = wd]
  BY <1>2 DEF CfgStored
<1>12. 0 \notin MBEN
  BY BridgeAssumption
<1> HIDE DEF r, i, wd, lane, known, regs
<1>13. ASSUME NEW q \in RegAddrs, NEW k \in 0 .. 3, known[q][k] # Unknown
       PROVE  ByteOf(regs[q], 3 - k) = known[q][k]
  <2>0. nb.regs[q] \in Int /\ nb.regs[r] \in Int
    BY <1>3, <1>9 DEF Shape
  <2>1. CASE i = 0
    BY <1>1, <1>10, <1>11, <1>12, <1>13, <2>1
  <2>2. CASE i # 0 /\ q # r
    <3>1. known[q] = expect.regs[q]
      BY <1>9, <1>10, <2>2 DEF ExpectShape
    <3>2. regs[q] = nb.regs[q]
      BY <1>9, <1>11, <2>2 DEF Shape
    <3> QED
      BY <1>1, <1>13, <3>1, <3>2
  <2>3. CASE i \in MBEN /\ st.size = ACCESS_B /\ q = r
    <3>1. known = [expect.regs EXCEPT ![r][lane] = st.v % 2 ^ BYTE]
      BY <1>10, <1>12, <2>3
    <3>2. regs[q] = SetByte(nb.regs[r], lane, wd)
      BY <1>3, <1>9, <1>11, <1>12, <2>3 DEF Shape
    <3>3. ByteOf(regs[q], 3 - k) =
            IF 3 - k = 3 - lane THEN ByteOf(wd, 0) ELSE ByteOf(nb.regs[r], 3 - k)
      <4> DEFINE j == 3 - k
                 reg == nb.regs[r]
      <4>1. j \in 0 .. 3
        OBVIOUS
      <4>2. reg \in Int /\ wd \in Int
        BY <1>6, <2>0
      <4>3. regs[q] = SetByte(reg, lane, wd)
        BY <3>2
      <4> HIDE DEF j, reg
      <4>4. ByteOf(regs[q], j) = WithByte(reg, lane, wd)[j]
        <5>1. SetByte(reg, lane, wd) \in Word
          BY <4>2, SetByteFacts, Zenon
        <5>2. ByteOf(SetByte(reg, lane, wd), j) = WithByte(reg, lane, wd)[j]
          BY <4>1, <4>2, SetByteFacts, Zenon
        <5> QED
          BY <5>2, <4>3
      <4>5. ByteOf(regs[q], j) = IF j = 3 - lane THEN ByteOf(wd, 0) ELSE ByteOf(reg, j)
        BY <4>1, <4>4 DEF WithByte
      <4> QED
        BY <4>5 DEF j, reg
    <3>4. CASE k = lane
      <4>1. known[q][k] = st.v % 2 ^ BYTE
        BY <1>3, <1>5, <1>9, <2>3, <3>1, <3>4 DEF ExpectShape
      <4>2. ByteOf(regs[q], 3 - k) = ByteOf(wd, 0)
        BY <3>3, <3>4
      <4>3. 0 \in 0 .. 3 /\ 3 - 0 = 3
        OBVIOUS
      <4>4. ByteOf(wd, 0) = st.v % 2 ^ BYTE
        BY <1>4, <1>6, <4>3, LastByte
      <4> QED
        BY <4>1, <4>2, <4>4
    <3>5. CASE k # lane
      <4>1. known[q][k] = expect.regs[q][k]
        BY <1>3, <1>5, <1>9, <2>3, <3>1, <3>5 DEF ExpectShape
      <4>2. 3 - k # 3 - lane
        BY <1>5, <3>5
      <4> QED
        BY <1>1, <1>13, <2>3, <3>3, <4>1, <4>2
    <3> QED
      BY <3>4, <3>5
  <2>4. CASE i \notin MBEN \cup {0} /\ st.size = ACCESS_W /\ q = r
    <3>1. known[q][k] = ByteOf(st.v, k)
      BY <1>3, <1>9, <1>10, <2>4 DEF ExpectShape
    <3>2. regs[q] = wd
      BY <1>3, <1>9, <1>11, <2>4 DEF Shape
    <3>3. 3 - k \in 0 .. 3 /\ 3 - (3 - k) = k
      OBVIOUS
    <3> QED
      BY <1>6, <3>1, <3>2, <3>3
  <2>5. CASE /\ i # 0 /\ q = r
             /\ ~ (i \in MBEN /\ st.size = ACCESS_B)
             /\ ~ (i \notin MBEN \cup {0} /\ st.size = ACCESS_W)
    <3>1. known[q][k] = Unknown
      BY <1>3, <1>9, <1>10, <2>5 DEF ExpectShape
    <3> QED
      BY <1>13, <3>1
  <2> QED
    BY <2>1, <2>2, <2>3, <2>4, <2>5
<1>14. nb'.regs = regs /\ nb'.a = nb.a /\ nb'.placed = nb.placed
  BY <1>8, <1>9 DEF Shape
<1>15. expect'.regs = known /\ expect'.a = expect.a /\ expect'.touched = expect.touched
  BY <1>7, <1>9 DEF ExpectShape
<1> QED
  BY <1>1, <1>13, <1>14, <1>15 DEF ConfigAgrees

\* A store, byte for byte through its lanes, keeps the registers as expected.
LEMMA StoreConfig ==
  ASSUME BYTE = 8, Shapes, ConfigAgrees(nb, expect), NvramAgrees(nb, expect), NEW st, Storing(st)
  PROVE  ConfigAgrees(nb', expect')
<1> DEFINE port == Ports[st.a]
<1>0. ExpectShape(expect) /\ Shape(nb) /\ LeftAlone(nb, nb', Takes(port))
  BY WriteLeaves, WordIsInt DEF Shapes, Storing
<1>1. CASE port \notin {"index", "data", "nv_data"}
  <2>1. "index" \notin Takes(port) /\ "written" \notin Takes(port)
    BY <1>1 DEF Takes
  <2>2. expect'.touched = expect.touched /\ expect'.a = expect.a /\ expect'.regs = expect.regs
    BY <1>0, <1>1 DEF Storing, Expected, ExpectShape
  <2> QED
    BY <1>0, <2>1, <2>2 DEF LeftAlone, ConfigAgrees, Known
<1>2. CASE port = "index"
  <2>1. expect' = [expect EXCEPT !.touched = ~ nb.placed, !.a = pSwap4Bytes(st.v)]
    BY <1>2 DEF Storing, Expected
  <2>2. nb' = IF nb.placed THEN [nb EXCEPT !.a = pSwap4Bytes(st.v)] ELSE nb
    BY <1>2 DEF Storing, BoardWrite, NB_cfg, IOPorts
  <2>3. pSwap4Bytes(st.v) \in Int
    BY SwapFacts, WordIsInt, Zenon DEF Storing
  <2>4. /\ expect'.touched = ~ nb.placed /\ expect'.a = pSwap4Bytes(st.v)
        /\ expect'.regs = expect.regs
    BY <1>0, <2>1 DEF ExpectShape
  <2>5. /\ nb'.regs = nb.regs /\ nb'.placed = nb.placed
        /\ nb.placed => nb'.a = pSwap4Bytes(st.v)
    BY <1>0, <2>2 DEF Shape
  <2> QED
    BY <2>3, <2>4, <2>5 DEF ConfigAgrees, Known
<1>3. CASE port = "data" /\ ~ Known(expect)
  <2>1. expect' = [expect EXCEPT !.regs = NothingKnown]
    BY <1>3 DEF Storing, Expected, KnownAfter
  <2>2. /\ expect'.touched = expect.touched
        /\ \A r \in RegAddrs, k \in 0 .. 3 : expect'.regs[r][k] = Unknown
    BY <1>0, <2>1 DEF ExpectShape, NothingKnown
  <2> QED
    BY <1>3, <2>2 DEF ConfigAgrees, Known
<1>4. CASE port = "nv_data" /\ LatchesKnown(expect) /\ NvIndex(expect) \in NVRAM
  <2> DEFINE i == NvIndex(expect)
             vb == st.v % 2 ^ BYTE
  <2>1. nva(nb) = i
    BY <1>4 DEF NvramAgrees, nva, NvIndex, LatchesKnown
  <2>2. nb' \in NvWritten(nb, vb)
    BY <1>4 DEF Storing, BoardWrite, NB_io, IOPorts
  <2>3. nb' = [nb EXCEPT !.nvram[i] = vb]
    BY <1>4, <2>1, <2>2 DEF NvWritten
  <2>4. expect' = [expect EXCEPT !.nvram[i] = vb]
    BY <1>4 DEF Storing, Expected
  <2> HIDE DEF i, vb
  <2>5. nb'.regs = nb.regs /\ nb'.a = nb.a /\ nb'.placed = nb.placed
    BY <1>0, <2>3 DEF Shape
  <2>6. expect'.touched = expect.touched /\ expect'.a = expect.a /\ expect'.regs = expect.regs
    BY <1>0, <2>4 DEF ExpectShape
  <2> QED
    BY <2>5, <2>6 DEF ConfigAgrees, Known
<1>5. CASE port = "nv_data" /\ ~ (LatchesKnown(expect) /\ NvIndex(expect) \in NVRAM)
  <2>1. expect' = Expected0
    BY <1>5 DEF Storing, Expected
  <2> QED
    BY <2>1 DEF ConfigAgrees, Expected0, NothingKnown, Known
<1> QED
  BY <1>1, <1>2, <1>3, <1>4, <1>5, StoreDatum

(* A load from the data port gives, byte by byte, what the program stored  *)
(* last in the register it selected, with the byte order and the lanes of  *)
(* the bridge, for every word, every placement of the ports and every use  *)
(* of the prompt in between.  The bytes have eight bits, as in the code.   *)
THEOREM ConfigTheorem ==
  ASSUME BYTE = 8
  PROVE  Spec => ReadsWhatWasWritten
<1> DEFINE Reads ==
      \A k \in 0 .. 3 :
       got'.port = "data" /\ got' # got /\ Selectable(expect) /\ expect.regs[Reg(expect)][k] # Unknown
         => ByteOf(got'.v, k) = expect.regs[Reg(expect)][k]
<1>1. Init => ConfigInv
  <2> SUFFICES ASSUME Init PROVE ConfigAgrees(nb, expect)
    BY BoardShapes, NvramStarts DEF ConfigInv, NvramInv
  <2>1. expect = Expected0
    BY DEF Init
  <2> QED
    BY <2>1 DEF ConfigAgrees, Expected0, NothingKnown, Known
<1>2. ConfigInv /\ [Next]_vars => ConfigInv'
  <2> SUFFICES ASSUME ConfigInv, [Next]_vars PROVE ConfigAgrees(nb', expect')
    <3>1. ConfigInv /\ [Next]_vars => Shapes' /\ NvramAgrees(nb, expect)'
      BY NvramStep DEF ConfigInv, NvramInv
    <3> QED
      BY <3>1 DEF ConfigInv, ConfigAgrees, Known
  <2>1. CASE UNCHANGED <<nb, expect>>
    BY <2>1 DEF ConfigInv, ConfigAgrees, Known
  <2>2. ASSUME NEW ports, Gives(ports) PROVE ConfigAgrees(nb', expect')
    BY <2>2, GivesConfig DEF ConfigInv, Shapes
  <2>3. ASSUME NEW st, Storing(st) PROVE ConfigAgrees(nb', expect')
    BY <2>3, StoreConfig DEF ConfigInv
  <2> QED
    BY <2>1, <2>2, <2>3, BoardSteps DEF ConfigInv
<1>3. ConfigInv /\ [Next]_vars => [Reads]_vars
  <2> SUFFICES ASSUME ConfigInv, [Next]_vars, NEW k \in 0 .. 3, got' # got, got'.port = "data",
                      Selectable(expect), expect.regs[Reg(expect)][k] # Unknown
               PROVE  ByteOf(got'.v, k) = expect.regs[Reg(expect)][k]
    OBVIOUS
  <2> DEFINE r == Reg(expect)
  <2>1. ProgLoad
    BY DEF Next, vars, Command, Run, Stop, Md, Mm, Dot, MemCmd, CpuCmd, MdPage, NbCmd, Reset,
           MdLine, MmShow, MmWrite, MmAnswer, ProgStore
  <2>2. PICK a \in S.loads, v \in Junk :
          \E w \in Answers(nb, a, v) : got' = [port |-> Ports[a], v |-> w]
    BY <2>1 DEF ProgLoad
  <2>3. PICK w \in Answers(nb, a, v) : got' = [port |-> Ports[a], v |-> w]
    BY <2>2
  <2>4. Ports[a] = "data" /\ got'.v = w
    BY <2>3
  <2>5. /\ nb.placed /\ nb.a = expect.a /\ expect.a \in Int
        /\ ByteOf(nb.regs[r], 3 - k) = expect.regs[r][k]
    <3>1. r \in RegAddrs
      BY LowByte DEF ConfigInv, ConfigAgrees, Selectable, Reg
    <3> QED
      BY <3>1 DEF ConfigInv, ConfigAgrees, Selectable
  <2>6. r_addr(nb) = r /\ nb_addr(nb) = Index(expect)
    BY <2>5 DEF r_addr, nb_addr, Reg, Index
  <2>7. w = CfgValue(nb)
    BY <2>3, <2>4, <2>5 DEF Answers, CfgAnswer, IOPorts
  <2>8. w = pSwap4Bytes(nb.regs[r])
    BY <2>6, <2>7 DEF CfgValue, Selectable
  <2>9. nb.regs[r] \in Int
    <3>1. r \in RegAddrs
      BY <2>5, LowByte DEF Reg
    <3> QED
      BY <3>1 DEF ConfigInv, Shapes, Shape
  <2> HIDE DEF r
  <2>10. ByteOf(w, k) = ByteOf(nb.regs[r], 3 - k)
    BY <2>8, <2>9, SwapFacts
  <2> QED
    BY <2>4, <2>5, <2>10 DEF r
<1> QED
  BY <1>1, <1>2, <1>3, PTL DEF Spec, ReadsWhatWasWritten
=============================================================================
