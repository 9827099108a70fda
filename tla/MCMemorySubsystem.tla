------------------------- MODULE MCMemorySubsystem -------------------------
EXTENDS MemorySubsystem

Line(class, start, end, modulus, alloc, driver) ==
  [class |-> class, start |-> start, end |-> end, modulus |-> modulus,
   mode |-> "RW", alloc |-> alloc, driver |-> driver]

\* Memory larger than its mask, memory decoded in part and under all others,
\* a device, and a hole of each kind.
Sram  == Line("MEM", 0, 1, 2, 3, "-")
Flash == Line("MEM", 0, 3, 2, 2, "-")
Ccr   == Line("IGNORE", 2, 3, 2, 0, "-")
Port  == Line("IO", 2, 3, 2, 0, "NB")
Hole  == Line("TRAP", 0, 1, 2, 0, "-")

\* Lines the parser rejects: at the class, and at the driver.
Typo      == Line("?", 0, 1, 2, 0, "-")
BadDriver == Line("MEM", 2, 3, 2, 2, "?")

MCLines == {Sram, Flash, Ccr, Port, Hole, Typo, BadDriver}

MCFiles == {<<Port, Typo, Sram>>}

MCImages == {<<1, 0>>, <<1>>}

\* A line that is rejected at the mode, and memory smaller than its mask.
BadMode == [Sram EXCEPT !.mode = "?"]
Small   == Line("MEM", 0, 3, 4, 3, "-")

HalfLines == {BadMode, Small}
=============================================================================
