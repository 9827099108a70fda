------------------------------ MODULE MCConsole ------------------------------
EXTENDS Console

\* An ordinary character and the delete key.
MCChars == {{0, 5, 6}, DEL}

MCDivisor == [b \in {0, 1} |-> {b, 4}]
=============================================================================
