---------------------------- MODULE MCRunControl ----------------------------
EXTENDS RunControl

MCStepCounts == {-1, 0, 2}

MCInsn(k, t, l) == [kind |-> k, target |-> t, link |-> l]

\* A loop that calls a subroutine:  0  bl 8    4  b 0    8  addi    12  blr
CallProg ==
  [a \in Addr |->
     CASE a = 0  -> MCInsn("jump", 8, TRUE)
       [] a = 4  -> MCInsn("jump", 0, FALSE)
       [] a = 12 -> MCInsn("ret", 0, FALSE)
       [] OTHER  -> MCInsn("op", 0, FALSE)]

\* Instructions that go wrong:
\*    0  bl 12    4  addi    8  lmw, second word unmapped   12  blr
\*   16  no memory       (and sc everywhere while no program is loaded)
FaultProg ==
  [a \in Addr |->
     CASE a = 0  -> MCInsn("jump", 12, TRUE)
       [] a = 8  -> MCInsn("partial", 0, FALSE)
       [] a = 12 -> MCInsn("ret", 0, FALSE)
       [] a = 16 -> MCInsn("nofetch", 0, FALSE)
       [] OTHER  -> MCInsn("op", 0, FALSE)]
=============================================================================
