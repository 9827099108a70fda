----------------------------- MODULE CpuSelection -----------------------------
(***************************************************************************)
(* The choice of a processor, of cpu.c, as a value: the table of models,   *)
(* what `cpu' keeps of the choice, and the special registers it sets.      *)
(***************************************************************************)
EXTENDS Words, Sequences

CONSTANTS
  cpu_list,       \* models: [device, name, PVR, HID1, PLL_msb, PLL_bits]
  MPC603          \* the device ppcsim_init chooses

ASSUME CpuAssumption ==
  /\ \A i, k \in DOMAIN cpu_list :
       cpu_list[i].name = cpu_list[k].name \/ cpu_list[i].device = cpu_list[k].device => i = k
  /\ \A i \in DOMAIN cpu_list :
       /\ cpu_list[i].name # ""
       /\ {cpu_list[i].PVR, cpu_list[i].HID1} \subseteq Word
       /\ cpu_list[i].PLL_msb + cpu_list[i].PLL_bits \in 0 .. WBITS

\* ppcsim_init, which leaves the position of the PLL field as it was.
Initial(cpu) ==
  [cpu EXCEPT !.process_type = MPC603, !.CPU_name = "", !.CPU_override = "",
              !.CPU_pll = 0, !.CPU_pll_bits = 0]

\* A mutation: the name is kept.
Restarted_named(cpu) == [Initial(cpu) EXCEPT !.CPU_name = cpu.CPU_name]

Restarted(cpu) == Initial(cpu)

PowerOn ==
  Initial([process_type |-> MPC603, CPU_name |-> "", CPU_override |-> "", CPU_pll |-> 0,
           CPU_pll_bits |-> 0, CPU_pll_msb |-> 0, PVR |-> 0, HID1 |-> 0])

Device(d) == {i \in DOMAIN cpu_list : cpu_list[i].device = d}
Named(n)  == {i \in DOMAIN cpu_list : cpu_list[i].name = n}

(* CPU_pll << (32 - msb - bits).  Without a field the shift is by the      *)
(* width of the word, which leaves the word or nothing of it.              *)
PllShift(cpu) == WBITS - cpu.CPU_pll_msb - cpu.CPU_pll_bits

PllField(cpu) ==
  IF PllShift(cpu) < WBITS THEN {Low(cpu.CPU_pll * 2 ^ PllShift(cpu))}
  ELSE {0, Low(cpu.CPU_pll)}

\* CPU_reset, in the registers that identify the processor.
CPU_reset(cpu) ==
  LET is == Device(cpu.process_type)
  IN  IF is = {} THEN {cpu}
      ELSE LET c == cpu_list[CHOOSE i \in is : TRUE]
           IN  {[cpu EXCEPT !.PVR = c.PVR,
                            !.HID1 = IF cpu.CPU_pll = 0 THEN c.HID1 ELSE OrW(c.HID1, f)] :
                  f \in PllField(cpu)}

Chosen(cpu, c, pll_set) ==
  LET named == [cpu EXCEPT !.process_type = c.device, !.CPU_name = c.name]
  IN  IF c.PLL_bits # 0 /\ pll_set # 0
        THEN [named EXCEPT !.CPU_pll = pll_set, !.CPU_pll_bits = c.PLL_bits,
                           !.CPU_pll_msb = c.PLL_msb]
        ELSE named

\* The states CPU_set may leave; an unknown name changes nothing.
CPU_set(cpu, name, pll_set) ==
  LET is == Named(name)
  IN  IF is = {} THEN {cpu}
      ELSE CPU_reset(Chosen(cpu, cpu_list[CHOOSE i \in is : TRUE], pll_set))

\* The options as they are read: `cpu -p' keeps any number, and sets from 0 to 128.
PllRange == 0 .. 128

CPU_cmd(cpu, opts, n, name) ==
  LET c == IF "p" \in opts THEN [cpu EXCEPT !.CPU_pll = n] ELSE cpu
      do_set == "s" \in opts \/ ("p" \in opts /\ n \in PllRange)
  IN  IF ~ do_set \/ cpu.CPU_override # "" THEN {c}
      ELSE CPU_set(c, IF "s" \in opts THEN name ELSE c.CPU_name, c.CPU_pll)
=============================================================================
