-------------------------------- MODULE Words --------------------------------
(***************************************************************************)
(* The words of the simulated processor: ULONG arithmetic of the           *)
(* interpreter, with the width as a parameter.  A word is four bytes, a    *)
(* half two; bits are numbered from the most significant, as in the        *)
(* processor's manuals, where `Bit' of the source shifts by 31 - n.        *)
(***************************************************************************)
EXTENDS Integers, FiniteSets, FiniteSetsExt

CONSTANT BYTE     \* bits of a byte; 8 in the code

ASSUME ByteAssumption == BYTE \in Nat \ {0, 1}

WBITS == 4 * BYTE

Byte == 0 .. 2 ^ BYTE - 1
Half == 0 .. 2 ^ (2 * BYTE) - 1
Word == 0 .. 2 ^ WBITS - 1

\* Conversion to ULONG keeps the low bits.
Low(x) == x % 2 ^ WBITS

BitsOf(x)   == {n \in 0 .. WBITS - 1 : (x \div 2 ^ (WBITS - 1 - n)) % 2 = 1}
FromBits(S) == MapThenSumSet(LAMBDA n : 2 ^ (WBITS - 1 - n), S)

Bit(x, n) == n \in BitsOf(x)

AndW(x, y) == FromBits(BitsOf(x) \cap BitsOf(y))
OrW(x, y)  == FromBits(BitsOf(x) \cup BitsOf(y))
XorW(x, y) == FromBits((BitsOf(x) \cup BitsOf(y)) \ (BitsOf(x) \cap BitsOf(y)))
NotW(x)    == 2 ^ WBITS - 1 - x

\* The value of a word read as LONG.
Signed(x) == IF Bit(x, 0) THEN x - 2 ^ WBITS ELSE x

\* x & 0x80000000
Sign(x) == IF Bit(x, 0) THEN 2 ^ (WBITS - 1) ELSE 0

\* EXTS: the sign bit of a half fills the upper half.
EXTS(h) == IF (h \div 2 ^ (2 * BYTE - 1)) % 2 = 1
             THEN OrW(h, 2 ^ WBITS - 2 ^ (2 * BYTE)) ELSE h

\* The same for a byte; extsb in the code.
ExtByte(b) == IF b >= 2 ^ (BYTE - 1) THEN b + 2 ^ WBITS - 2 ^ BYTE ELSE b

\* Byte k of a word, the most significant first, and the word of four bytes.
ByteOf(x, k) == (x \div 2 ^ (BYTE * (3 - k))) % 2 ^ BYTE
OfBytes(b)   == b[0] * 2 ^ (3 * BYTE) + b[1] * 2 ^ (2 * BYTE) + b[2] * 2 ^ BYTE + b[3]

pSwap4Bytes(x) == OfBytes([k \in 0 .. 3 |-> ByteOf(x, 3 - k)])

ShiftLeft(x, n)  == Low(x * 2 ^ n)
ShiftRight(x, n) == x \div 2 ^ n
=============================================================================
