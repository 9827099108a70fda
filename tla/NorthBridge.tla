----------------------------- MODULE NorthBridge -----------------------------
(***************************************************************************)
(* The north bridge of nb.c as a value: its configuration registers behind *)
(* an index and a data port, and the ISA devices behind it that keep       *)
(* state: NVRAM and clock, each behind index latches of their own, and the *)
(* looped GPIO pins.  The UARTs have a module of their own, PC16552.       *)
(*                                                                         *)
(* A configuration address is the lower half of the index word, a register *)
(* its last byte: 256 registers in the code.                               *)
(***************************************************************************)
EXTENDS Words, TLC

CONSTANTS
  MAX_NVRAM,      \* bytes of NVRAM, of ppcsim.h
  PICR1, MBEN,    \* configuration addresses: one, and a set of them
  Bridges,        \* name -> device ID
  Defs,           \* presets: [match |-> {IDs}, addr, def]
  Behind,         \* index past the NVRAM -> what lies there, see Places
  Header,         \* what DINK expects in its NVRAM: index -> byte
  Clock           \* clock index -> the bytes that may be read of the time

RegAddrs == Byte
NVRAM    == 0 .. MAX_NVRAM - 1

\* A byte of the bridge, the k-th of a word, or one that no state here holds.
Places ==
  [field : {"nv_addr_hi", "nv_addr_lo", "rtc_addr", "gpio", "a", "regs", "other"},
   i : Byte, k : 0 .. 3]

ASSUME BridgeAssumption ==
  /\ MAX_NVRAM \in Nat \ {0}
  /\ PICR1 \in Half \ {0} /\ MBEN \subseteq Half \ {0}
  /\ \A b \in DOMAIN Bridges : Bridges[b] \in Word
  /\ \A d \in Defs : d.addr \in Byte /\ d.def \in Word
  /\ Behind \in [Half \ NVRAM -> Places]
  /\ DOMAIN Header \subseteq 0 .. MAX_NVRAM - 1
  /\ \A i \in DOMAIN Header : Header[i] \in Byte
  /\ \A c \in DOMAIN Clock : Clock[c] \subseteq Byte /\ Clock[c] # {}

\* NB_reset: the latches; not the registers, and not the NVRAM.
NB_reset(nb) ==
  [nb EXCEPT !.nv_addr_hi = 0, !.nv_addr_lo = 0, !.rtc_addr = 0,
             !.gpio = [i \in 0 .. 1 |-> 0]]

\* The static structure after NB_init.  `placed': idx_a and dat_a are set.
NB_init ==
  NB_reset([placed |-> FALSE, id |-> 0, a |-> 0,
            regs |-> [r \in RegAddrs |-> 0], nvram |-> [i \in NVRAM |-> 0],
            nv_addr_hi |-> 0, nv_addr_lo |-> 0, rtc_addr |-> 0,
            gpio |-> [i \in 0 .. 1 |-> 0]])

NB_ENV_preset(nb) ==
  [nb EXCEPT !.nvram = [i \in NVRAM |-> IF i \in DOMAIN Header THEN Header[i] ELSE 0]]

\* The registers with their presets for a bridge, stored with bytes reversed.
Preset(regs, id) ==
  [r \in RegAddrs |->
     LET ds == {d \in Defs : d.addr = r /\ id \in d.match}
     IN  IF ds = {} THEN regs[r] ELSE pSwap4Bytes((CHOOSE d \in ds : TRUE).def)]

NB_set(nb, name) ==
  IF name \notin DOMAIN Bridges THEN nb
  ELSE NB_reset([nb EXCEPT !.placed = TRUE, !.id = Bridges[name],
                           !.regs = Preset(nb.regs, Bridges[name])])

------------------------------------------------------------------------------
(* Configuration cycles.  v is what the caller's variable holds, the datum *)
(* of a write and anything before a read.                                  *)

nb_addr(nb) == nb.a % 2 ^ (2 * BYTE)
r_addr(nb)  == nb.a % 2 ^ BYTE

\* What the data port reads; the index port leaves v as it is.
CfgValue(nb) ==
  pSwap4Bytes(CASE nb_addr(nb) = 0     -> nb.id
                [] nb_addr(nb) = PICR1 -> 0
                [] OTHER               -> nb.regs[r_addr(nb)])

\* PCICFG_SETBYTE: byte n, counted from the least, gets the byte written.
SetByte(reg, n, wd) ==
  OfBytes([k \in 0 .. 3 |-> IF k = 3 - n THEN ByteOf(wd, 0) ELSE ByteOf(reg, k)])

\* A mutation: every register is written in the first lane.
CfgStored_lane0(nb, lsb, wd) ==
  CASE nb_addr(nb) = 0     -> nb.regs
    [] nb_addr(nb) \in MBEN -> [nb.regs EXCEPT ![r_addr(nb)] = SetByte(@, 0, wd)]
    [] OTHER                -> [nb.regs EXCEPT ![r_addr(nb)] = wd]

\* Only the bank enables have lanes; other registers take all of wd.
CfgStored(nb, lsb, wd) ==
  CASE nb_addr(nb) = 0     -> nb.regs
    [] nb_addr(nb) \in MBEN -> [nb.regs EXCEPT ![r_addr(nb)] = SetByte(@, lsb, wd)]
    [] OTHER                -> [nb.regs EXCEPT ![r_addr(nb)] = wd]

\* An access of the index port sets the index, a read of it as well.
NB_cfg(nb, port, lsb, v, write) ==
  IF ~ nb.placed THEN nb
  ELSE CASE port = "index"          -> [nb EXCEPT !.a = pSwap4Bytes(v)]
         [] port = "data" /\ write  -> [nb EXCEPT !.regs = CfgStored(nb, lsb, pSwap4Bytes(v))]
         [] OTHER                   -> nb

CfgAnswer(nb, port, v) == IF nb.placed /\ port = "data" THEN CfgValue(nb) ELSE v

------------------------------------------------------------------------------
(* IO cycles, of a byte.                                                   *)

nva(nb) == nb.nv_addr_hi * 2 ^ BYTE + nb.nv_addr_lo

\* Pin 7 of the GPIO is wired to pin 6.
Looped(vb) ==
  LET low == vb % 2 ^ (BYTE - 2)
  IN  IF vb >= 2 ^ (BYTE - 1) THEN low + 2 ^ (BYTE - 1) + 2 ^ (BYTE - 2) ELSE low

IOPorts == {"nv_hi", "nv_lo", "nv_data", "rtc_addr", "rtc_data",
            "gpio_out", "gpio_dir", "pic", "port80", "unknown"}

Pin(port) == IF port = "gpio_out" THEN 0 ELSE 1

(* The bytes behind the NVRAM belong to other data of the simulator, which *)
(* a header not in the repository lays out: a write there changes what     *)
(* lies at its place.  Of what is outside the registers and latches of the *)
(* bridge, "other", no access of this module depends on the content.       *)
Overwritten(nb, vb) ==
  LET p == Behind[nva(nb)]
      Hit(word) == SetByte(word, p.k, vb * 2 ^ (3 * BYTE))
  IN  CASE p.field = "nv_addr_hi" -> [nb EXCEPT !.nv_addr_hi = vb]
        [] p.field = "nv_addr_lo" -> [nb EXCEPT !.nv_addr_lo = vb]
        [] p.field = "rtc_addr"   -> [nb EXCEPT !.rtc_addr = vb]
        [] p.field = "gpio"       -> [nb EXCEPT !.gpio[p.i % 2] = vb]
        [] p.field = "a"          -> [nb EXCEPT !.a = Hit(@)]
        [] p.field = "regs"       -> [nb EXCEPT !.regs[p.i] = Hit(@)]
        [] OTHER                  -> nb

\* A mutation: only the low latch selects.
NvWritten_low(nb, vb) ==
  IF nb.nv_addr_lo \in NVRAM THEN {[nb EXCEPT !.nvram[nb.nv_addr_lo] = vb]}
  ELSE {Overwritten(nb, vb)}

NvWritten(nb, vb) ==
  IF nva(nb) \in NVRAM THEN {[nb EXCEPT !.nvram[nva(nb)] = vb]}
  ELSE {Overwritten(nb, vb)}

\* The states a write may leave.
NB_io(nb, port, vb) ==
  CASE port = "nv_hi"    -> {[nb EXCEPT !.nv_addr_hi = vb]}
    [] port = "nv_lo"    -> {[nb EXCEPT !.nv_addr_lo = vb]}
    [] port = "nv_data"  -> NvWritten(nb, vb)
    [] port = "rtc_addr" -> {[nb EXCEPT !.rtc_addr = vb]}
    [] port \in {"gpio_out", "gpio_dir"} -> {[nb EXCEPT !.gpio[Pin(port)] = Looped(vb)]}
    [] OTHER             -> {nb}

\* What a read may give; v is left alone where nothing answers.
IOAnswer(nb, port, v) ==
  CASE port = "nv_hi"    -> {nb.nv_addr_hi}
    [] port = "nv_lo"    -> {nb.nv_addr_lo}
    [] port = "nv_data"  -> IF nva(nb) \in NVRAM THEN {nb.nvram[nva(nb)]} ELSE Byte
    [] port = "rtc_addr" -> {nb.rtc_addr}
    [] port = "rtc_data" -> IF nb.rtc_addr \in DOMAIN Clock THEN Clock[nb.rtc_addr] ELSE {v}
    [] port \in {"gpio_out", "gpio_dir"} -> {nb.gpio[Pin(port)]}
    [] port = "pic"      -> {0}
    [] OTHER             -> {v}
=============================================================================
