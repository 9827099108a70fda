------------------------------- MODULE MCBoard -------------------------------
(***************************************************************************)
(* Instances of Board: bytes of two bits, so that a word has 256 values    *)
(* and the bridge four registers.  Each scene is one use of the board.     *)
(***************************************************************************)
EXTENDS Board

MC_Ports ==
  [a \in 0 .. 255 |->
     CASE a \in 0 .. 63    -> "index"
       [] a \in 64 .. 127  -> "data"
       [] a = 128 -> "nv_hi"    [] a = 129 -> "nv_lo"    [] a = 130 -> "nv_data"
       [] a = 132 -> "rtc_addr" [] a = 133 -> "rtc_data"
       [] a = 136 -> "gpio_out" [] a = 137 -> "gpio_dir"
       [] a = 138 -> "pic"      [] a = 139 -> "port80"
       [] a \in {131, 134, 135} \cup (140 .. 159) -> "unknown"
       [] OTHER -> "memory"]

\* 1 has lanes, 3 reads as zero, 2 and 6 are the same register.
MC_MBEN    == {1}
MC_Bridges == [A |-> 6, B |-> 9]
MC_Defs    == {[match |-> {6, 9}, addr |-> 1, def |-> 27], [match |-> {6}, addr |-> 2, def |-> 200]}
MC_Behind  ==
  [n \in 6 .. 15 |->
     [field |-> CASE n = 8 -> "nv_addr_hi" [] n = 9 -> "nv_addr_lo" [] n = 10 -> "regs"
                  [] n = 11 -> "a" [] n = 12 -> "gpio" [] n = 13 -> "rtc_addr" [] OTHER -> "other",
      i |-> 1, k |-> 1]]
MC_Header  == 0 :> 3
MC_Clock   == (0 :> 0 .. 3) @@ (1 :> 1 .. 2)
MC_Junk    == {0, 128}

MC_cpu_list ==
  << [device |-> "603", name |-> "MPC603", PVR |-> 3, HID1 |-> 0, PLL_msb |-> 0, PLL_bits |-> 0],
     [device |-> "750", name |-> "MPC750", PVR |-> 8, HID1 |-> 5, PLL_msb |-> 0, PLL_bits |-> 2],
     [device |-> "7450", name |-> "MPC7450", PVR |-> 128, HID1 |-> 1, PLL_msb |-> 3, PLL_bits |-> 2] >>

Still ==
  [stores |-> {}, loads |-> {}, ranges |-> {}, modifies |-> {}, strings |-> {}, nb |-> {},
   cpu |-> {}, overrides |-> {""}, resets |-> FALSE, dots |-> FALSE]

B(a, v) == [a |-> a, v |-> v, size |-> ACCESS_B]
W(a, v) == [a |-> a, v |-> v, size |-> ACCESS_W]

MC_Scenes ==
  [config |-> [Still EXCEPT
     !.stores = {W(0, 64), W(0, 128), B(65, 2), B(67, 1), W(64, 27)},
     !.loads  = {0, 64},
     !.nb     = {"A"},
     !.resets = TRUE],
   prompt |-> [Still EXCEPT
     !.stores = {W(0, 64), B(66, 3)},
     !.loads  = {64},
     !.ranges = {<< <<48>>, ACCESS_B >>},
     !.nb     = {"B", "-s unknown"}],
   modify |-> [Still EXCEPT
     !.stores   = {W(0, 64), B(66, 3)},
     !.loads    = {64},
     !.ranges   = {<< <<60, 64>>, ACCESS_W >>},
     !.modifies = {<<64, 9>>, <<60, 128>>},
     !.strings  = {<<>>},
     !.nb       = {"B"}],
   nvram |-> [Still EXCEPT
     !.stores = {B(128, 0), B(128, 1), B(129, 1), B(130, 1), B(130, 2)},
     !.loads  = {130},
     !.nb     = {"-p"},
     !.resets = TRUE],
   isa |-> [Still EXCEPT
     !.stores = {B(128, 1), B(132, 1), B(136, 3), B(137, 1), B(139, 1), B(135, 1)},
     !.loads  = 128 .. 139,
     !.nb     = {"-r"}],
   latches |-> [Still EXCEPT
     !.stores   = {B(128, 2), B(129, 1), B(130, 2)},
     !.loads    = {130},
     !.ranges   = {<< <<129, 130>>, ACCESS_B >>},
     !.strings  = {<<1, 2>>}],
   overrun |-> [Still EXCEPT
     !.stores = {B(128, 2), B(129, 2), B(129, 3), B(130, 2), W(0, 64), B(66, 3)},
     !.loads  = {64},
     !.nb     = {"B"}],
   behind |-> [Still EXCEPT
     !.stores = {B(128, 3), B(129, 1), B(129, 2), B(130, 2)},
     !.loads  = {132, 136, 137}],
   display |-> [Still EXCEPT
     !.dots   = TRUE,
     !.ranges = {<< <<160>>, ACCESS_H >>, << <<160, 224>>, ACCESS_W >>, << <<160, 160>>, ACCESS_B >>,
                 << <<200, 180>>, ACCESS_B >>, << <<0, 250>>, ACCESS_H >>}],
   cpu |-> [Still EXCEPT
     !.cpu = {{"s"}, {"p"}, {"s", "p"}} \X {-1, 0, 3, 200} \X {"MPC603", "MPC750", "MPC7450", "none"},
     !.overrides = {"", "MPC750"},
     !.resets    = TRUE]]
==============================================================================
